------------------------- MODULE ExtractUpdateProofs -------------------------
(***************************************************************************)
(* Proofs about ExtractUpdate, for every number of extracts, updaters and  *)
(* edits and every bound: that variables have their types, and that        *)
(* extracts are current to their checkpoints (CurrentToCheckpoint) by      *)
(* whole edits (WholeEdits).                                               *)
(***************************************************************************)
EXTENDS ExtractPatchProofs

(***************************************************************************)
(* The inductive invariant.                                                *)
(***************************************************************************)

\* An updater's records are those asked for of the rows after its checkpoint that it has got
\* to; what it is to apply comes before what it holds over; and it holds something over until
\* it has got to the last row.
GoodWindow(u) ==
    /\ u.checkpoint <= u.latest /\ u.latest <= Latest /\ EndsEdit(u.latest)
    /\ u.position \in (u.checkpoint + 1)..(u.latest + 1)
    /\ u.rows \cup u.held = Wanted(u.checkpoint + 1, u.position - 1, useBbox)
    /\ \A row \in u.rows, over \in u.held : AtomicOf(row) < AtomicOf(over)
    /\ u.rows # {} <=> u.stage = "apply"
    /\ u.stage = "apply" /\ u.held = {} => u.position = u.latest + 1
    /\ u.held # {} => u.position <= u.latest

\* What holds of an updater at each of its steps.
GoodUpdater(u) ==
    /\ u.stage = "choose" => u.todo # {}
    /\ u.stage \in {"latest", "window", "apply", "afresh"} =>
           u.extract \in Extracts /\ extract[u.extract].stored # "never"
    /\ u.stage = "latest" => u.rows = {} /\ u.held = {}
    /\ u.stage \in {"window", "apply"} => GoodWindow(u)

\* One run of the command is at work at a time, and no request of the page if none was made.
OneAtATime ==
    /\ \A p \in Commands : update[p].stage # "idle" => lock = p
    /\ count.pages = 0 => mixed = {} /\ \A p \in Pages : update[p].stage = "idle"

\* An updater that nobody interferes with knows the checkpoint of its extract.
Follows(u, x) ==
    u.stage \in {"latest", "window", "apply"} /\ x[u.extract].stored = "yes" =>
        x[u.extract].row = u.checkpoint

\* The rest of the edit that an extract's checkpoint is in does not concern it.
EditOver(row) ==
    \A r \in (row + 1)..Latest : AtomicOf(r) = AtomicOf(row) => ~Asked(r, useBbox)

\* The checkpoint of an extract is one of the records, and the end of an edit.
GoodExtract(x) ==
    x.stored = "yes" /\ x.row # None => x.row <= Latest /\ EditOver(x.row)

\* Contents are of the source at a record.
Right(content, row, ms, filtered) ==
    /\ Historic(content, ms, row + 1)
    /\ IF filtered THEN Keeps(content, ms[row + 1]) ELSE content = Whole(ms[row + 1])

\* An extract that has a checkpoint is right there.
GoodContent(x) == x.stored = "yes" /\ x.row # None => Right(x.content, x.row, maps, useBbox)

\* What every step keeps: what is stored is right, and updaters go on from what they read.
IInv ==
    /\ TypeOK
    /\ History(maps, record)
    /\ \A p \in Updaters : GoodUpdater(update[p])
    /\ OneAtATime
    /\ count.pages = 0 => \A p \in Updaters : Follows(update[p], extract)
    /\ \A e \in Extracts : GoodExtract(extract[e])
    /\ \A e \in Extracts \ mixed : GoodContent(extract[e])

(***************************************************************************)
(* The records of edits.                                                   *)
(***************************************************************************)

\* Records are of the same edits, or of later ones, than those before them.
LEMMA AtomicsGrow ==
    ASSUME TypeOK, History(maps, record)
    PROVE  /\ \A r \in 0..Latest : AtomicOf(r) \in Nat
           /\ \A r, s \in 0..Latest : r <= s => AtomicOf(r) <= AtomicOf(s)
           /\ \A r \in 1..Latest : AtomicOf(r) > 0
<1>1. \A r \in 1..Len(record) : record[r].atomic \in Nat \ {0}
  BY DEF History
<1>2. \A k, l \in 1..Len(record) : k <= l => record[k].atomic <= record[l].atomic
  BY DEF History
<1>3. Len(record) \in Nat
  BY DEF TypeOK
<1>4. ASSUME NEW r \in 0..Latest PROVE AtomicOf(r) \in Nat /\ (r # 0 => AtomicOf(r) > 0)
  <2>1. CASE r = 0
    BY <2>1 DEF AtomicOf
  <2>2. CASE r # 0
    <3>1. r \in 1..Len(record)
      BY <1>3, <2>2 DEF Latest
    <3> QED
      BY <1>1, <2>2, <3>1 DEF AtomicOf
  <2> QED
    BY <2>1, <2>2
<1>5. ASSUME NEW r \in 0..Latest, NEW s \in 0..Latest, r <= s PROVE AtomicOf(r) <= AtomicOf(s)
  <2>1. CASE r = 0
    BY <1>4, <2>1 DEF AtomicOf
  <2>2. CASE r # 0
    <3>1. r \in 1..Len(record) /\ s \in 1..Len(record) /\ r # 0 /\ s # 0
      BY <1>3, <1>5, <2>2 DEF Latest
    <3> QED
      BY <1>2, <1>5, <3>1 DEF AtomicOf
  <2> QED
    BY <2>1, <2>2
<1>6. \A r \in 1..Latest : r \in 0..Latest /\ r # 0
  BY <1>3 DEF Latest
<1> QED
  BY <1>4, <1>5, <1>6

\* After a record that ends an edit, the edits are others.
LEMMA EndsOver ==
    ASSUME TypeOK, History(maps, record), NEW row \in 0..Latest, EndsEdit(row)
    PROVE  /\ \A r \in (row + 1)..Latest : AtomicOf(row) < AtomicOf(r)
           /\ EditOver(row)
<1>0. Latest \in Nat
  BY DEF TypeOK, Latest
<1>1. ASSUME NEW r \in (row + 1)..Latest PROVE AtomicOf(row) < AtomicOf(r)
  <2>1. r \in 1..Latest /\ r \in 0..Latest
    BY <1>0
  <2>2. CASE row = 0
    BY <2>1, <2>2, AtomicsGrow DEF AtomicOf
  <2>3. CASE row # 0
    <3>1. row \in 1..(Latest - 1) /\ row + 1 \in 0..Latest /\ row + 1 <= r /\ row <= row + 1
      BY <1>0, <2>3
    <3>2. AtomicOf(row + 1) # AtomicOf(row)
      <4>1. row + 1 # 0
        BY <1>0
      <4> QED
        BY <2>3, <3>1, <4>1 DEF EndsEdit, AtomicOf
    <3>3. AtomicOf(row) <= AtomicOf(row + 1) /\ AtomicOf(row + 1) <= AtomicOf(r)
      BY <2>1, <3>1, AtomicsGrow
    <3>4. AtomicOf(row) \in Nat /\ AtomicOf(row + 1) \in Nat /\ AtomicOf(r) \in Nat
      BY <2>1, <3>1, AtomicsGrow
    <3> QED
      BY <3>2, <3>3, <3>4
  <2> QED
    BY <2>2, <2>3
<1>2. AtomicOf(row) \in Nat /\ \A r \in (row + 1)..Latest : AtomicOf(r) \in Nat
  <2>1. \A r \in (row + 1)..Latest : r \in 0..Latest
    BY <1>0
  <2> QED
    BY <2>1, AtomicsGrow
<1>3. EditOver(row)
  <2>1. \A r \in (row + 1)..Latest : AtomicOf(r) # AtomicOf(row)
    BY <1>1, <1>2
  <2> QED
    BY <2>1 DEF EditOver
<1> QED
  BY <1>1, <1>3

\* The selection of a map is right.
LEMMA WholeIsRight ==
    ASSUME NEW ms, NEW row \in Nat, NEW filtered \in BOOLEAN
    PROVE  Right(Whole(ms[row + 1]), row, ms, filtered)
<1>1. Historic(Whole(ms[row + 1]), ms, row + 1)
  <2>1. row + 1 \in 1..(row + 1)
    OBVIOUS
  <2> QED
    BY <2>1, SelectedAreCopies DEF Historic, Whole
<1>2. Keeps(Whole(ms[row + 1]), ms[row + 1])
  BY DEF Keeps
<1> QED
  BY <1>1, <1>2 DEF Right

\* An extract taken afresh is the selection of the map.
LEMMA FreshIsWhole ==
    ASSUME NEW row
    PROVE  Fresh(row) = Whole(maps[row + 1])
BY DEF Fresh, SourceAt, Whole

\* What is promised of an extract.
LEMMA RightIsAsAt ==
    ASSUME NEW content, NEW row, Right(content, row, maps, useBbox)
    PROVE  AsAt(content, row)
BY FreshIsWhole DEF Right, AsAt, Keeps

(***************************************************************************)
(* An updater's steps.                                                     *)
(***************************************************************************)

\* An updater that is to choose its next extract.
Choosing(todo) == [Idle EXCEPT !.stage = "choose", !.todo = todo]

\* An updater goes from one step to another, and lets go of the lock if it ends.
Moves(p, v) ==
    /\ update' = [update EXCEPT ![p] = v]
    /\ lock' = IF v.stage = "idle" /\ lock = p THEN None ELSE lock

\* An updater that does nothing.
LEMMA IdleIs ==
    /\ Idle \in UpdateType
    /\ Idle.stage = "idle" /\ Idle.todo = {} /\ Idle.rows = {} /\ Idle.held = {}
BY DEF Idle, UpdateType, Stages

\* An updater that is to choose.
LEMMA ChoosingIs ==
    ASSUME NEW todo \in SUBSET Extracts
    PROVE  Choosing(todo) \in UpdateType /\ Choosing(todo).stage = "choose" /\ Choosing(todo).todo = todo
BY DEF Choosing, Idle, UpdateType, Stages

\* Nothing is asked of an updater that does nothing.
LEMMA IdleIsGood ==
    GoodUpdater(Idle)' /\ (\A x : Follows(Idle, x))
<1>1. Idle.stage = "idle"
  BY IdleIs
<1> QED
  BY <1>1 DEF GoodUpdater, Follows

\* Of one that is to choose, only that there is something to choose from.
LEMMA ChoosingIsGood ==
    ASSUME NEW todo \in SUBSET Extracts, todo # {}
    PROVE  GoodUpdater(Choosing(todo))' /\ (\A x : Follows(Choosing(todo), x))
<1>1. Choosing(todo).stage = "choose" /\ Choosing(todo).todo = todo
  BY ChoosingIs
<1> HIDE DEF Choosing
<1> QED
  BY <1>1 DEF GoodUpdater, Follows

\* To leave an extract is a move.
LEMMA LeaveMoves ==
    ASSUME NEW p, NEW todo \in SUBSET Extracts, Leave(p, todo)
    PROVE  \E v \in UpdateType : Moves(p, v) /\ GoodUpdater(v)' /\ (\A x : Follows(v, x))
<1>1. CASE todo = {}
  <2>1. Moves(p, Idle)
    BY <1>1, IdleIs DEF Leave, Moves
  <2> QED
    BY <2>1, IdleIs, IdleIsGood
<1>2. CASE todo # {}
  <2>1. Moves(p, Choosing(todo))
    BY <1>2, ChoosingIs DEF Leave, Moves, Choosing
  <2>2. Choosing(todo) \in UpdateType
    BY ChoosingIs
  <2>3. GoodUpdater(Choosing(todo))' /\ (\A x : Follows(Choosing(todo), x))
    BY <1>2, ChoosingIsGood
  <2> QED
    BY <2>1, <2>2, <2>3
<1> QED
  BY <1>1, <1>2

\* To go on with an extract is a move.
LEMMA GoMoves ==
    ASSUME NEW p, NEW v, v.stage # "idle", Go(p, v)
    PROVE  Moves(p, v)
BY DEF Go, Moves

\* At most one updater is at work while no request of the page has been made.
LEMMA Alone ==
    ASSUME TypeOK, OneAtATime, count.pages = 0, NEW p \in Updaters, NEW q \in Updaters,
           update[p].stage # "idle", update[q].stage # "idle"
    PROVE  p = q
<1>1. p \in Commands /\ q \in Commands
  BY DEF OneAtATime, Updaters
<1> QED
  BY <1>1 DEF OneAtATime

\* What is good of an updater remains so while the records and what was ever stored do.
LEMMA StaysGood ==
    ASSUME NEW u, GoodUpdater(u), UNCHANGED <<record, useBbox>>,
           \A e \in Extracts : extract[e].stored # "never" => extract'[e].stored # "never"
    PROVE  GoodUpdater(u)'
<1>1. GoodWindow(u) => GoodWindow(u)'
  BY DEF GoodWindow, EndsEdit, Latest, Wanted, Asked, AtomicOf
<1> QED
  BY <1>1 DEF GoodUpdater

\* A move keeps what the invariant says of updaters.
LEMMA MovesKeeps ==
    ASSUME TypeOK, OneAtATime, \A q \in Updaters : GoodUpdater(update[q]),
           NEW p \in Updaters, NEW v \in UpdateType, GoodUpdater(v)', Moves(p, v),
           update[p].stage # "idle" \/ (p \in Pages /\ count'.pages # 0),
           UNCHANGED <<record, useBbox>>,
           \A e \in Extracts : extract[e].stored # "never" => extract'[e].stored # "never",
           count'.pages = 0 => count.pages = 0 /\ mixed' = {}
    PROVE  /\ update' \in [Updaters -> UpdateType] /\ lock' \in Commands \cup {None}
           /\ \A q \in Updaters : GoodUpdater(update[q])'
           /\ OneAtATime'
           /\ count'.pages = 0 =>
                  \A q \in Updaters : q # p => update'[q].stage = "idle"
<1>1. /\ update \in [Updaters -> UpdateType] /\ lock \in Commands \cup {None}
  BY DEF TypeOK
<1>2. /\ update' = [update EXCEPT ![p] = v]
      /\ lock' = IF v.stage = "idle" /\ lock = p THEN None ELSE lock
  BY DEF Moves
<1>3. /\ update'[p] = v
      /\ \A q \in Updaters : q # p => update'[q] = update[q]
  BY <1>1, <1>2
<1>4. update' \in [Updaters -> UpdateType] /\ lock' \in Commands \cup {None}
  BY <1>1, <1>2
<1>5. ASSUME NEW q \in Updaters PROVE GoodUpdater(update[q])'
  <2>1. CASE q = p
    BY <1>3, <2>1
  <2>2. CASE q # p
    <3>1. GoodUpdater(update[q])
      OBVIOUS
    <3> DEFINE u == update[q]
    <3>2. update'[q] = update[q]
      BY <1>3, <2>2
    <3>3. ASSUME NEW w, w = update[q] PROVE GoodUpdater(w)'
      BY <3>1, <3>3, StaysGood
    <3>4. ASSUME NEW w, w = update[q], GoodUpdater(w)', update'[q] = w PROVE GoodUpdater(update[q])'
      BY <3>4
    <3> QED
      BY <3>2, <3>3, <3>4
  <2> QED
    BY <2>1, <2>2
<1>6. ASSUME NEW q \in Commands, update'[q].stage # "idle" PROVE lock' = q
  <2>1. q \in Updaters
    BY DEF Updaters
  <2>2. CASE q = p
    <3>1. p \notin Pages
      BY <2>2, UpdatersAssumption
    <3>2. lock = p
      BY <2>2, <3>1 DEF OneAtATime
    <3> QED
      BY <1>2, <1>3, <1>6, <2>2, <3>2
  <2>3. CASE q # p
    <3>1. lock = q
      BY <1>3, <1>6, <2>1, <2>3 DEF OneAtATime
    <3> QED
      BY <1>2, <2>3, <3>1
  <2> QED
    BY <2>2, <2>3
<1>7. ASSUME count'.pages = 0 PROVE mixed' = {} /\ \A q \in Pages : update'[q].stage = "idle"
  <2>1. count.pages = 0 /\ update[p].stage # "idle"
    BY <1>7
  <2>2. p \notin Pages
    BY <2>1 DEF OneAtATime
  <2>3. \A q \in Pages : q # p /\ q \in Updaters /\ update[q].stage = "idle"
    BY <2>1, <2>2 DEF OneAtATime, Updaters
  <2> QED
    BY <1>3, <1>7, <2>3
<1>8. OneAtATime'
  BY <1>6, <1>7 DEF OneAtATime
<1>9. ASSUME count'.pages = 0, NEW q \in Updaters, q # p PROVE update'[q].stage = "idle"
  <2>1. count.pages = 0 /\ update[p].stage # "idle"
    BY <1>9
  <2>2. update[q].stage = "idle"
    BY <1>9, <2>1, Alone
  <2> QED
    BY <1>3, <1>9, <2>2
<1> QED
  BY <1>4, <1>5, <1>8, <1>9

\* A move to something good.
Advances(p) ==
    \E v \in UpdateType :
        Moves(p, v) /\ GoodUpdater(v)' /\ (count'.pages = 0 => Follows(v, extract'))

\* To leave an extract is a move to something good.
LEMMA LeaveAdvances ==
    ASSUME NEW p, NEW todo \in SUBSET Extracts, Leave(p, todo)
    PROVE  Advances(p)
<1>1. PICK v \in UpdateType : Moves(p, v) /\ GoodUpdater(v)' /\ (\A x : Follows(v, x))
  BY LeaveMoves
<1> QED
  BY <1>1 DEF Advances

\* A move to something good keeps the invariant, if what it did to extracts was good.
LEMMA AdvanceKeeps ==
    ASSUME IInv, NEW p \in Updaters, Advances(p),
           update[p].stage # "idle" \/ (p \in Pages /\ count'.pages # 0),
           UNCHANGED <<maps, record, useBbox>>,
           \A e \in Extracts : extract[e].stored # "never" => extract'[e].stored # "never",
           count'.pages = 0 => count.pages = 0 /\ mixed' = {},
           extract' \in [Extracts -> ExtractType], mixed' \subseteq Extracts,
           count' \in [pages: 0..MaxUnusual, others: 0..MaxUnusual],
           \A e \in Extracts : GoodExtract(extract[e])',
           \A e \in Extracts \ mixed' : GoodContent(extract[e])'
    PROVE  IInv'
<1>0. TypeOK /\ OneAtATime /\ \A q \in Updaters : GoodUpdater(update[q])
  BY DEF IInv
<1>1. PICK v \in UpdateType : Moves(p, v) /\ GoodUpdater(v)' /\ (count'.pages = 0 => Follows(v, extract'))
  BY DEF Advances
<1>2. /\ update' \in [Updaters -> UpdateType] /\ lock' \in Commands \cup {None}
      /\ \A q \in Updaters : GoodUpdater(update[q])'
      /\ OneAtATime'
      /\ count'.pages = 0 => \A q \in Updaters : q # p => update'[q].stage = "idle"
  <2>1. UNCHANGED <<record, useBbox>>
    OBVIOUS
  <2>2. count'.pages = 0 => count.pages = 0 /\ mixed' = {}
    OBVIOUS
  <2> QED
    BY <1>0, <1>1, <2>1, <2>2, MovesKeeps
<1>3. TypeOK'
  BY <1>0, <1>2 DEF TypeOK
<1>4. ASSUME count'.pages = 0, NEW q \in Updaters PROVE Follows(update'[q], extract')
  <2>1. CASE q = p
    <3>1. update'[p] = v
      BY <1>0, <1>1 DEF Moves, TypeOK
    <3> QED
      BY <1>1, <1>4, <2>1, <3>1
  <2>2. CASE q # p
    <3>1. update'[q].stage = "idle"
      BY <1>2, <1>4, <2>2
    <3> QED
      BY <3>1 DEF Follows
  <2> QED
    BY <2>1, <2>2
<1>5. count'.pages = 0 => \A q \in Updaters : Follows(update'[q], extract')
  BY <1>4
<1>6. History(maps, record)'
  BY DEF IInv
<1> QED
  BY <1>2, <1>3, <1>5, <1>6 DEF IInv

\* What is good of extracts remains so if neither they nor the source change.
LEMMA ExtractsStay ==
    ASSUME IInv, UNCHANGED <<maps, record, useBbox>>,
           NEW e \in Extracts, extract'[e] = extract[e]
    PROVE  /\ GoodExtract(extract[e])'
           /\ e \notin mixed => GoodContent(extract[e])'
<1>1. GoodExtract(extract[e]) /\ (e \notin mixed => GoodContent(extract[e]))
  BY DEF IInv
<1>2. GoodExtract(extract[e])'
  BY <1>1 DEF GoodExtract, EditOver, Latest, AtomicOf, Asked
<1>3. e \notin mixed => GoodContent(extract[e])'
  BY <1>1 DEF GoodContent
<1> QED
  BY <1>2, <1>3

\* So an updater may go on as long as it changes no extract.
LEMMA MoveOnly ==
    ASSUME IInv, NEW p \in Updaters, Advances(p), update[p].stage # "idle",
           UNCHANGED <<maps, record, useBbox, extract, mixed>>,
           count' \in [pages: 0..MaxUnusual, others: 0..MaxUnusual], count'.pages = count.pages
    PROVE  IInv'
<1>1. \A e \in Extracts : GoodExtract(extract[e])' /\ (e \notin mixed' => GoodContent(extract[e])')
  BY ExtractsStay
<1>2. TypeOK /\ (count.pages = 0 => mixed = {})
  BY DEF IInv, OneAtATime
<1>3. /\ extract' \in [Extracts -> ExtractType] /\ mixed' \subseteq Extracts
      /\ count'.pages = 0 => count.pages = 0 /\ mixed' = {}
  BY <1>2 DEF TypeOK
<1>4. \A e \in Extracts : extract[e].stored # "never" => extract'[e].stored # "never"
  OBVIOUS
<1>5. /\ \A e \in Extracts : GoodExtract(extract[e])'
      /\ \A e \in Extracts \ mixed' : GoodContent(extract[e])'
  BY <1>1
<1>6. UNCHANGED <<maps, record, useBbox>>
  OBVIOUS
<1> QED
  BY <1>3, <1>4, <1>5, <1>6, AdvanceKeeps

\* Choosing keeps the invariant: what is followed has a checkpoint, which the updater reads.
LEMMA ChooseKeeps ==
    ASSUME IInv, NEW p \in Updaters, Choose(p)
    PROVE  IInv'
<1> DEFINE e == CHOOSE e \in update[p].todo : \A f \in update[p].todo : e <= f
           rest == update[p].todo \ {e}
           chosen == [Idle EXCEPT !.todo = rest, !.extract = e, !.remote = extract[e].remote]
<1>1. /\ update[p].stage = "choose"
      /\ \/ Leave(p, rest)
         \/ /\ ~NothingToDo(e) /\ FollowsRecords(e)
            /\ Go(p, [chosen EXCEPT !.stage = "latest", !.checkpoint = extract[e].row])
         \/ ~NothingToDo(e) /\ Go(p, FromMap(chosen))
      /\ UNCHANGED <<maps, record, useBbox, extract, mixed, count>>
  BY DEF Choose
<1>2. update[p] \in UpdateType /\ GoodUpdater(update[p]) /\ extract \in [Extracts -> ExtractType]
      /\ count \in [pages: 0..MaxUnusual, others: 0..MaxUnusual]
  BY DEF IInv, TypeOK
<1>3. update[p].todo \in SUBSET Extracts
  BY <1>2 DEF UpdateType
<1>4. e \in update[p].todo
  <2>1. update[p].todo \subseteq Nat
    BY <1>3, ExtractsAssumption
  <2>2. update[p].todo # {}
    BY <1>1, <1>2 DEF GoodUpdater
  <2>3. \E f \in update[p].todo : \A g \in update[p].todo : f <= g
    BY <2>1, <2>2, LeastNat
  <2> QED
    BY <2>3
<1> HIDE DEF e
<1>5. e \in Extracts /\ rest \in SUBSET Extracts
  BY <1>3, <1>4
<1>6. extract[e] \in ExtractType
  BY <1>2, <1>5
<1>7. CASE Leave(p, rest)
  <2> HIDE DEF rest
  <2> QED
    BY <1>5, <1>7, LeaveAdvances, <1>1, <1>2, MoveOnly
<1> HIDE DEF rest
<1>10. /\ chosen \in UpdateType
       /\ chosen.todo = rest /\ chosen.extract = e /\ chosen.held = {} /\ chosen.rows = {}
  <2>1. extract[e].remote \in BOOLEAN
    BY <1>6 DEF ExtractType
  <2> QED
    BY <1>5, <2>1, IdleIs DEF UpdateType
<1> HIDE DEF chosen
<1>8. ASSUME ~NothingToDo(e), FollowsRecords(e),
             Go(p, [chosen EXCEPT !.stage = "latest", !.checkpoint = extract[e].row])
      PROVE  IInv'
  <2> DEFINE v == [chosen EXCEPT !.stage = "latest", !.checkpoint = extract[e].row]
  <2>1. extract[e].row \in Nat /\ extract[e].remote \in BOOLEAN
    BY <1>6, <1>8 DEF ExtractType, FollowsRecords
  <2>3. /\ v \in UpdateType
        /\ v.stage = "latest" /\ v.extract = e /\ v.checkpoint = extract[e].row
        /\ v.held = {} /\ v.rows = {}
    BY <1>10, <2>1 DEF UpdateType, Stages
  <2>5. Go(p, v)
    BY <1>8
  <2> HIDE DEF v
  <2>6. Moves(p, v)
    BY <2>3, <2>5, GoMoves
  <2>7. extract[e].stored = "yes"
    BY <1>8 DEF NothingToDo, Stored
  <2>8. \A w : w = v => GoodUpdater(w)'
    BY <1>1, <1>5, <2>3, <2>7 DEF GoodUpdater
  <2>9. Follows(v, extract')
    BY <1>1, <2>3 DEF Follows
  <2>10. Advances(p)
    BY <2>3, <2>6, <2>8, <2>9 DEF Advances
  <2> QED
    BY <2>10, <1>1, <1>2, MoveOnly
<1>9. ASSUME ~NothingToDo(e), Go(p, FromMap(chosen)) PROVE IInv'
  <2> DEFINE v == FromMap(chosen)
  <2>1. v = [Idle EXCEPT !.stage = "afresh", !.todo = chosen.todo, !.extract = chosen.extract]
    BY DEF FromMap
  <2>3. v \in UpdateType /\ v.stage = "afresh" /\ v.extract = e
    <3> HIDE DEF v
    <3> QED
      BY <1>5, <1>10, <2>1, IdleIs DEF UpdateType, Stages
  <2>4. Go(p, v)
    BY <1>9
  <2> HIDE DEF v
  <2>5. Moves(p, v)
    BY <2>3, <2>4, GoMoves
  <2>6. extract[e].stored = "yes"
    BY <1>9 DEF NothingToDo, Stored
  <2>7. \A w : w = v => GoodUpdater(w)'
    BY <1>1, <1>5, <2>3, <2>6 DEF GoodUpdater
  <2>8. Follows(v, extract')
    BY <2>3 DEF Follows
  <2>9. Advances(p)
    BY <2>3, <2>5, <2>7, <2>8 DEF Advances
  <2> QED
    BY <2>9, <1>1, <1>2, MoveOnly
<1> QED
  BY <1>1, <1>7, <1>8, <1>9

\* What the invariant says of one updater.
LEMMA UpdaterOf ==
    ASSUME IInv, NEW p \in Updaters
    PROVE  /\ update[p] \in UpdateType /\ GoodUpdater(update[p])
           /\ count.pages = 0 => Follows(update[p], extract)
           /\ extract \in [Extracts -> ExtractType]
           /\ count \in [pages: 0..MaxUnusual, others: 0..MaxUnusual]
           /\ useBbox \in BOOLEAN /\ Latest \in Nat
           /\ TypeOK /\ History(maps, record)
BY DEF IInv, TypeOK, Latest

\* To take an extract from the map is a move to something good.
LEMMA FromMapAdvances ==
    ASSUME IInv, NEW p \in Updaters, update[p].stage \in {"latest", "window", "apply", "afresh"},
           Go(p, FromMap(update[p])), UNCHANGED extract
    PROVE  Advances(p)
<1> DEFINE u == update[p]
           v == FromMap(u)
<1>1. u \in UpdateType /\ u.extract \in Extracts /\ extract[u.extract].stored # "never"
  BY UpdaterOf DEF GoodUpdater
<1>2. v = [Idle EXCEPT !.stage = "afresh", !.todo = u.todo, !.extract = u.extract]
  BY DEF FromMap
<1>3. Go(p, v)
  OBVIOUS
<1> HIDE DEF u, v
<1>4. v \in UpdateType /\ v.stage = "afresh" /\ v.extract = u.extract
  BY <1>1, <1>2, IdleIs DEF UpdateType, Stages
<1>5. Moves(p, v)
  BY <1>3, <1>4, GoMoves
<1>6. \A w : w = v => GoodUpdater(w)'
  <2>1. ASSUME NEW w, w.stage = "afresh", w.extract \in Extracts, extract[w.extract].stored # "never"
        PROVE  GoodUpdater(w)'
    BY <2>1 DEF GoodUpdater
  <2> QED
    BY <1>1, <1>4, <2>1
<1>7. Follows(v, extract')
  BY <1>4 DEF Follows
<1> QED
  BY <1>4, <1>5, <1>6, <1>7 DEF Advances

\* Asking for the latest IDs keeps the invariant: nothing is asked for yet.
LEMMA ReadLatestKeeps ==
    ASSUME IInv, NEW p \in Updaters, ReadLatest(p)
    PROVE  IInv'
<1> DEFINE u == update[p]
           v == [u EXCEPT !.stage = "window", !.latest = Latest, !.position = u.checkpoint + 1]
<1>1. /\ u.stage = "latest" /\ Latest >= u.checkpoint /\ Go(p, v)
      /\ UNCHANGED <<maps, record, useBbox, extract, mixed, count>>
  BY DEF ReadLatest
<1>2. u \in UpdateType /\ GoodUpdater(u) /\ (count.pages = 0 => Follows(u, extract)) /\ Latest \in Nat
  BY UpdaterOf
<1>3. u.extract \in Extracts /\ extract[u.extract].stored # "never" /\ u.rows = {} /\ u.held = {}
  BY <1>1, <1>2 DEF GoodUpdater
<1> HIDE DEF u
<1>4. /\ v \in UpdateType
      /\ v.stage = "window" /\ v.latest = Latest /\ v.position = u.checkpoint + 1
      /\ v.checkpoint = u.checkpoint /\ v.extract = u.extract /\ v.rows = {} /\ v.held = {}
      /\ u.checkpoint \in Nat
  <2>1. u.checkpoint \in Nat
    BY <1>2 DEF UpdateType
  <2> DEFINE position == u.checkpoint + 1
  <2>2. position \in Nat
    BY <2>1
  <2> HIDE DEF position
  <2>3. v = [u EXCEPT !.stage = "window", !.latest = Latest, !.position = position]
    BY DEF position
  <2> HIDE DEF v
  <2>4. v \in UpdateType
    BY <1>2, <2>2, <2>3 DEF UpdateType, Stages
  <2>5. /\ v.stage = "window" /\ v.latest = Latest /\ v.position = position
        /\ v.checkpoint = u.checkpoint /\ v.extract = u.extract /\ v.rows = u.rows /\ v.held = u.held
    BY <1>2, <2>3 DEF UpdateType
  <2> QED
    BY <1>3, <2>1, <2>4, <2>5 DEF position
<1> HIDE DEF v
<1>5. Moves(p, v)
  BY <1>1, <1>4, GoMoves
<1>6. \A w : w = v => GoodUpdater(w)'
  <2> SUFFICES ASSUME NEW w, w = v PROVE GoodUpdater(w)'
    OBVIOUS
  <2>1. Wanted(w.checkpoint + 1, w.position - 1, useBbox)' = {}
    <3>1. (w.checkpoint + 1)..(w.position - 1) = {}
      BY <1>4
    <3> QED
      BY <3>1 DEF Wanted
  <2>2. EndsEdit(w.latest)'
    <3>1. Latest' = Latest
      BY <1>1 DEF Latest
    <3>2. w.latest \notin 1..(Latest' - 1)
      BY <1>2, <1>4, <3>1
    <3> QED
      BY <3>2 DEF EndsEdit
  <2>3. w.latest = Latest'
    BY <1>1, <1>4 DEF Latest
  <2>4. GoodWindow(w)'
    BY <1>1, <1>2, <1>4, <2>1, <2>2, <2>3 DEF GoodWindow
  <2> QED
    BY <1>1, <1>3, <1>4, <2>4 DEF GoodUpdater
<1>7. count.pages = 0 => Follows(v, extract')
  BY <1>1, <1>2, <1>4 DEF Follows
<1>8. Advances(p)
  BY <1>1, <1>4, <1>5, <1>6, <1>7 DEF Advances
<1> QED
  BY <1>1, <1>8, MoveOnly, UpdaterOf DEF u

\* A window is not empty, and not beyond the latest record.
LEMMA LastOfIs ==
    ASSUME NEW u \in UpdateType, u.position <= u.latest
    PROVE  LastOf(u) \in u.position..u.latest
<1>1. u.position \in Nat /\ u.latest \in Nat
  BY DEF UpdateType
<1> QED
  BY <1>1, BoundsAssumption DEF LastOf

\* A window's records and those held over are all that are asked for, up to it.
LEMMA WindowIs ==
    ASSUME IInv, NEW p \in Updaters, update[p].stage = "window", update[p].position <= update[p].latest
    PROVE  /\ update[p].held \cup NewRows(update[p]) =
                  Wanted(update[p].checkpoint + 1, LastOf(update[p]), useBbox)
           /\ LastOf(update[p]) \in update[p].position..update[p].latest
<1> DEFINE u == update[p]
           last == LastOf(u)
<1>1. u \in UpdateType /\ GoodUpdater(u) /\ useBbox \in BOOLEAN
  BY UpdaterOf
<1>2. /\ u.position \in Nat /\ u.latest \in Nat /\ u.checkpoint \in Nat
      /\ last \in u.position..u.latest
  BY <1>1, LastOfIs DEF UpdateType
<1>3. NewRows(u) = Wanted(u.position, last, useBbox)
  <2>1. last \in Nat
    BY <1>2
  <2> HIDE DEF u
  <2> QED
    BY <1>1, <1>2, <2>1, AllAnswers DEF NewRows
<1>4. GoodWindow(u)
  BY <1>1 DEF GoodUpdater
<1>5. /\ u.held = Wanted(u.checkpoint + 1, u.position - 1, useBbox)
      /\ u.position \in (u.checkpoint + 1)..(u.latest + 1)
  BY <1>4 DEF GoodWindow
<1> HIDE DEF u, last
<1>6. \A row : row \in (u.checkpoint + 1)..last <=>
                  row \in (u.checkpoint + 1)..(u.position - 1) \/ row \in u.position..last
  BY <1>2, <1>5
<1>7. Wanted(u.checkpoint + 1, u.position - 1, useBbox) \cup Wanted(u.position, last, useBbox) =
          Wanted(u.checkpoint + 1, last, useBbox)
  BY <1>6 DEF Wanted
<1> QED
  BY <1>2, <1>3, <1>5, <1>7 DEF u, last

\* Reading a window keeps the invariant: what is held over is the last edit of those read.
LEMMA ReadWindowKeeps ==
    ASSUME IInv, NEW p \in Updaters, ReadWindow(p)
    PROVE  IInv'
<1> DEFINE u == update[p]
           last == LastOf(u)
           all == u.held \cup NewRows(u)
           over == HeldOver(u, all)
           whole == all \ over
           v == [u EXCEPT !.stage = IF whole = {} THEN "window" ELSE "apply",
                          !.position = last + 1, !.held = over, !.rows = whole]
<1>1. /\ u.stage = "window" /\ u.position <= u.latest /\ Go(p, v)
      /\ UNCHANGED <<maps, record, useBbox, extract, mixed, count>>
  BY DEF ReadWindow
<1>2. /\ u \in UpdateType /\ GoodUpdater(u) /\ (count.pages = 0 => Follows(u, extract))
      /\ Latest \in Nat /\ TypeOK /\ History(maps, record)
  BY UpdaterOf
<1>3. all = Wanted(u.checkpoint + 1, last, useBbox) /\ last \in u.position..u.latest
  BY <1>1, WindowIs
<1>4. over = IF last < u.latest THEN {row \in all : AtomicOf(row) = AtomicOf(Max(all))} ELSE {}
  BY DEF HeldOver
<1>5. u.extract \in Extracts /\ extract[u.extract].stored # "never" /\ GoodWindow(u)
  BY <1>1, <1>2 DEF GoodUpdater
<1> HIDE DEF all, over, last, u
<1>6. u.position \in Nat /\ u.latest \in Nat /\ u.checkpoint \in Nat
  BY <1>2 DEF UpdateType
<1>7. /\ u.checkpoint <= u.latest /\ u.latest <= Latest /\ EndsEdit(u.latest)
      /\ u.position \in (u.checkpoint + 1)..(u.latest + 1)
  BY <1>5 DEF GoodWindow
<1>8. all \subseteq 1..Latest /\ all \subseteq 0..Latest /\ over \subseteq all /\ last \in Nat
  <2>1. (u.checkpoint + 1)..last \subseteq 1..Latest
    BY <1>2, <1>3, <1>6, <1>7
  <2>2. all \subseteq (u.checkpoint + 1)..last
    BY <1>3 DEF Wanted
  <2>3. over \subseteq all
    BY <1>4
  <2>4. last \in Nat
    BY <1>3, <1>6
  <2> QED
    BY <1>2, <2>1, <2>2, <2>3, <2>4
<1>9. all # {} => Max(all) \in all /\ \A row \in all : row <= Max(all)
  BY <1>2, <1>8, MaxOf
<1>10. \A row \in whole, o \in over : AtomicOf(row) < AtomicOf(o)
  <2> SUFFICES ASSUME NEW row \in whole, NEW o \in over PROVE AtomicOf(row) < AtomicOf(o)
    OBVIOUS
  <2>1. row \in all /\ o \in all /\ AtomicOf(o) = AtomicOf(Max(all)) /\ AtomicOf(row) # AtomicOf(Max(all))
    BY <1>4
  <2>2. Max(all) \in all /\ row <= Max(all)
    BY <1>9, <2>1
  <2>3. row \in 0..Latest /\ Max(all) \in 0..Latest
    BY <1>8, <2>1, <2>2
  <2>4. AtomicOf(row) <= AtomicOf(Max(all)) /\ AtomicOf(row) \in Nat /\ AtomicOf(Max(all)) \in Nat
    BY <1>2, <2>2, <2>3, AtomicsGrow
  <2> QED
    BY <2>1, <2>4
<1>11. over = {} /\ whole # {} => last = u.latest
  <2> SUFFICES ASSUME over = {}, whole # {}, last < u.latest PROVE FALSE
    BY <1>3, <1>6, <1>8
  <2>1. Max(all) \in all
    BY <1>9
  <2> QED
    BY <1>4, <2>1
<1>12. over # {} => last < u.latest
  BY <1>4
<1>13. whole \cup over = Wanted(u.checkpoint + 1, last, useBbox) /\ whole \subseteq Nat /\ over \subseteq Nat
  <2>1. whole \cup over = all
    BY <1>8
  <2>2. whole \subseteq all /\ all \subseteq Nat
    BY <1>2, <1>8
  <2> QED
    BY <1>3, <1>8, <2>1, <2>2
<1> HIDE DEF whole
<1>14. /\ v \in UpdateType
       /\ v.stage \in {"window", "apply"} /\ (v.stage = "apply" <=> whole # {})
       /\ v.position = last + 1 /\ v.held = over /\ v.rows = whole
       /\ v.checkpoint = u.checkpoint /\ v.latest = u.latest /\ v.extract = u.extract
  <2> DEFINE position == last + 1
             stage == IF whole = {} THEN "window" ELSE "apply"
  <2>1. position \in Nat /\ stage \in {"window", "apply"}
    BY <1>8
  <2>2. stage = "apply" <=> whole # {}
    OBVIOUS
  <2> HIDE DEF position, stage
  <2>3. v = [u EXCEPT !.stage = stage, !.position = position, !.held = over, !.rows = whole]
    BY DEF position, stage
  <2> HIDE DEF v
  <2>4. v \in UpdateType
    BY <1>2, <1>13, <2>1, <2>3 DEF UpdateType, Stages
  <2>5. /\ v.stage = stage /\ v.position = position /\ v.held = over /\ v.rows = whole
        /\ v.checkpoint = u.checkpoint /\ v.latest = u.latest /\ v.extract = u.extract
    BY <1>2, <2>3 DEF UpdateType
  <2> QED
    BY <2>1, <2>2, <2>4, <2>5 DEF position
<1> HIDE DEF v
<1>15. Moves(p, v)
  BY <1>1, <1>14, GoMoves
<1>16. \A w : w = v => GoodUpdater(w)'
  <2> SUFFICES ASSUME NEW w, w = v PROVE GoodUpdater(w)'
    OBVIOUS
  <2>1. w.rows \cup w.held = Wanted(w.checkpoint + 1, w.position - 1, useBbox)
    <3>1. w.position - 1 = last
      BY <1>8, <1>14
    <3> QED
      BY <1>13, <1>14, <3>1
  <2>2. w.position \in (w.checkpoint + 1)..(w.latest + 1)
    BY <1>3, <1>6, <1>7, <1>8, <1>14
  <2>3. /\ w.rows # {} <=> w.stage = "apply"
        /\ w.stage = "apply" /\ w.held = {} => w.position = w.latest + 1
        /\ w.held # {} => w.position <= w.latest
    BY <1>6, <1>8, <1>11, <1>12, <1>14
  <2>4. /\ w.checkpoint <= w.latest /\ w.latest <= Latest /\ EndsEdit(w.latest)
        /\ \A row \in w.rows, o \in w.held : AtomicOf(row) < AtomicOf(o)
    BY <1>7, <1>10, <1>14
  <2>5. GoodWindow(w)
    BY <2>1, <2>2, <2>3, <2>4 DEF GoodWindow
  <2>6. GoodUpdater(w)
    BY <1>5, <1>14, <2>5 DEF GoodUpdater
  <2>7. UNCHANGED <<record, useBbox>> /\ UNCHANGED extract
    BY <1>1
  <2> QED
    BY <2>6, <2>7, StaysGood
<1>17. count.pages = 0 => Follows(v, extract')
  BY <1>1, <1>2, <1>14 DEF Follows
<1>18. Advances(p)
  BY <1>1, <1>14, <1>15, <1>16, <1>17 DEF Advances
<1> QED
  BY <1>1, <1>18, MoveOnly, UpdaterOf DEF u

\* Giving up a source that cannot be followed keeps the invariant.
LEMMA RefusedKeeps ==
    ASSUME IInv, NEW p \in Updaters, Refused(p)
    PROVE  IInv'
<1>1. /\ update[p].stage \in {"latest", "window", "apply"}
      /\ IF update[p].remote THEN Leave(p, update[p].todo) ELSE Go(p, FromMap(update[p]))
      /\ UNCHANGED <<maps, record, useBbox, extract, mixed, count>>
  BY DEF Refused
<1>2. update[p].todo \in SUBSET Extracts
  BY UpdaterOf DEF UpdateType
<1>3. Advances(p)
  <2>1. CASE Leave(p, update[p].todo)
    BY <1>2, <2>1, LeaveAdvances
  <2>2. CASE Go(p, FromMap(update[p]))
    BY <1>1, <2>2, FromMapAdvances
  <2> QED
    BY <1>1, <2>1, <2>2
<1> QED
  BY <1>1, <1>3, MoveOnly, UpdaterOf

\* Leaving an extract that was deleted keeps the invariant.
LEMMA ExtractGoneKeeps ==
    ASSUME IInv, NEW p \in Updaters, ExtractGone(p)
    PROVE  IInv'
<1>1. /\ update[p].stage \in {"apply", "afresh"} /\ Leave(p, update[p].todo)
      /\ UNCHANGED <<maps, record, useBbox, extract, mixed, count>>
  BY DEF ExtractGone
<1>2. update[p].todo \in SUBSET Extracts
  BY UpdaterOf DEF UpdateType
<1>3. Advances(p)
  BY <1>1, <1>2, LeaveAdvances
<1> QED
  BY <1>1, <1>3, MoveOnly, UpdaterOf

\* What is counted of what updating does not need.
LEMMA UnusualIs ==
    ASSUME IInv, NEW what \in {"pages", "others"}, Unusual(what)
    PROVE  /\ count' \in [pages: 0..MaxUnusual, others: 0..MaxUnusual]
           /\ count'.pages = IF what = "pages" THEN count.pages + 1 ELSE count.pages
           /\ count.pages \in Nat
<1>1. /\ count \in [pages: 0..MaxUnusual, others: 0..MaxUnusual]
      /\ count.pages + count.others < MaxUnusual
      /\ count' = [count EXCEPT ![what] = @ + 1]
  BY DEF IInv, TypeOK, Unusual
<1>2. count.pages \in Nat /\ count.others \in Nat /\ MaxUnusual \in Nat
  BY <1>1, BoundsAssumption
<1>3. CASE what = "pages"
  <2>1. count' = [pages |-> count.pages + 1, others |-> count.others]
    BY <1>1, <1>3
  <2> QED
    BY <1>1, <1>2, <1>3, <2>1
<1>4. CASE what = "others"
  <2>1. count' = [pages |-> count.pages, others |-> count.others + 1]
    BY <1>1, <1>4
  <2> QED
    BY <1>1, <1>2, <1>4, <2>1
<1> QED
  BY <1>3, <1>4

\* A failure keeps the invariant.
LEMMA FailKeeps ==
    ASSUME IInv, NEW p \in Updaters, Fail(p)
    PROVE  IInv'
<1>1. /\ update[p].stage \in {"latest", "window", "apply", "afresh"}
      /\ Unusual("others")
      /\ \/ Leave(p, update[p].todo)
         \/ Go(p, FromMap(update[p]))
      /\ UNCHANGED <<maps, record, useBbox, extract, mixed>>
  BY DEF Fail
<1>2. update[p].todo \in SUBSET Extracts
  BY UpdaterOf DEF UpdateType
<1>3. Advances(p)
  <2>1. CASE Leave(p, update[p].todo)
    BY <1>2, <2>1, LeaveAdvances
  <2>2. CASE Go(p, FromMap(update[p]))
    BY <1>1, <2>2, FromMapAdvances
  <2> QED
    BY <1>1, <2>1, <2>2
<1>4. count' \in [pages: 0..MaxUnusual, others: 0..MaxUnusual] /\ count'.pages = count.pages
  BY <1>1, UnusualIs
<1> QED
  BY <1>1, <1>3, <1>4, MoveOnly

\* A crash keeps the invariant.
LEMMA CrashKeeps ==
    ASSUME IInv, NEW p \in Updaters, Crash(p)
    PROVE  IInv'
<1>1. /\ update[p].stage # "idle"
      /\ Unusual("others")
      /\ update' = [update EXCEPT ![p] = Idle]
      /\ lock' = IF lock = p THEN None ELSE lock
      /\ UNCHANGED <<maps, record, useBbox, extract, mixed>>
  BY DEF Crash
<1>2. Moves(p, Idle)
  BY <1>1, IdleIs DEF Moves
<1>3. Advances(p)
  BY <1>2, IdleIs, IdleIsGood DEF Advances
<1>4. count' \in [pages: 0..MaxUnusual, others: 0..MaxUnusual] /\ count'.pages = count.pages
  BY <1>1, UnusualIs
<1> QED
  BY <1>1, <1>3, <1>4, MoveOnly

\* A request of the page keeps the invariant.
LEMMA BeginPageKeeps ==
    ASSUME IInv, NEW p \in Pages, NEW e \in Extracts, BeginPage(p, e)
    PROVE  IInv'
<1>1. /\ Unusual("pages")
      /\ update' = [update EXCEPT ![p] = Choosing({e})]
      /\ UNCHANGED <<maps, record, useBbox, extract, lock, mixed>>
  BY DEF BeginPage, Choosing
<1>2. p \in Updaters /\ {e} \in SUBSET Extracts /\ {e} # {}
  BY DEF Updaters
<1>3. count' \in [pages: 0..MaxUnusual, others: 0..MaxUnusual] /\ count'.pages # 0
  <2>1. count'.pages = count.pages + 1 /\ count.pages \in Nat
    BY <1>1, UnusualIs
  <2>2. count' \in [pages: 0..MaxUnusual, others: 0..MaxUnusual]
    BY <1>1, UnusualIs
  <2> QED
    BY <2>1, <2>2
<1> DEFINE v == Choosing({e})
<1>4. v \in UpdateType /\ v.stage = "choose" /\ GoodUpdater(v)' /\ (\A x : Follows(v, x))
  BY <1>2, ChoosingIs, ChoosingIsGood
<1>5. Moves(p, v)
  BY <1>1, <1>4 DEF Moves
<1>6. Advances(p)
  BY <1>4, <1>5 DEF Advances
<1>7. \A x \in Extracts : GoodExtract(extract[x])' /\ (x \notin mixed' => GoodContent(extract[x])')
  BY <1>1, ExtractsStay
<1>8. extract' \in [Extracts -> ExtractType] /\ mixed' \subseteq Extracts
  BY <1>1 DEF IInv, TypeOK
<1>9. \A x \in Extracts : extract[x].stored # "never" => extract'[x].stored # "never"
  BY <1>1
<1>10. /\ \A x \in Extracts : GoodExtract(extract[x])'
       /\ \A x \in Extracts \ mixed' : GoodContent(extract[x])'
  BY <1>7
<1> QED
  BY <1>1, <1>2, <1>3, <1>6, <1>8, <1>9, <1>10, AdvanceKeeps

\* A run of the command keeps the invariant: no other is at work.
LEMMA BeginCommandKeeps ==
    ASSUME IInv, NEW p \in Commands, NEW todo \in SUBSET Stored, BeginCommand(p, todo)
    PROVE  IInv'
<1>1. /\ update[p].stage = "idle" /\ lock = None /\ todo # {} /\ lock' = p
      /\ update' = [update EXCEPT ![p] = Choosing(todo)]
      /\ UNCHANGED <<maps, record, useBbox, extract, mixed, count>>
  BY DEF BeginCommand, Choosing, LockFree
<1>2. p \in Updaters /\ todo \in SUBSET Extracts
  BY DEF Updaters, Stored
<1>3. TypeOK /\ OneAtATime /\ (\A q \in Updaters : GoodUpdater(update[q]))
  BY DEF IInv
<1> DEFINE v == Choosing(todo)
<1>4. v \in UpdateType /\ v.stage = "choose" /\ GoodUpdater(v)' /\ (\A x : Follows(v, x))
  BY <1>1, <1>2, ChoosingIs, ChoosingIsGood
<1> HIDE DEF v
<1>5. update' = [update EXCEPT ![p] = v]
  BY <1>1 DEF v
<1>6. update'[p] = v /\ \A q \in Updaters : q # p => update'[q] = update[q]
  BY <1>2, <1>3, <1>5 DEF TypeOK
<1>7. \A q \in Commands : q # p => update[q].stage = "idle"
  <2>1. \A q \in Commands : q # None
    BY UpdatersAssumption DEF Updaters
  <2> QED
    BY <1>1, <1>3, <2>1 DEF OneAtATime
<1>8. TypeOK'
  <2>1. update' \in [Updaters -> UpdateType]
    BY <1>3, <1>4, <1>5 DEF TypeOK
  <2> QED
    BY <1>1, <1>3, <2>1 DEF TypeOK
<1>9. ASSUME NEW q \in Updaters PROVE GoodUpdater(update[q])'
  <2>1. CASE q = p
    BY <1>4, <1>6, <2>1
  <2>2. CASE q # p
    <3>1. GoodUpdater(update[q]) /\ update'[q] = update[q]
      BY <1>3, <1>6, <2>2
    <3>2. UNCHANGED <<record, useBbox>> /\ UNCHANGED extract
      BY <1>1
    <3>3. ASSUME NEW w, w = update[q] PROVE GoodUpdater(w)'
      BY <3>1, <3>2, <3>3, StaysGood
    <3>4. ASSUME NEW w, w = update[q], GoodUpdater(w)', update'[q] = w PROVE GoodUpdater(update[q])'
      BY <3>4
    <3> QED
      BY <3>1, <3>3, <3>4
  <2> QED
    BY <2>1, <2>2
<1>10. OneAtATime'
  <2>1. \A q \in Commands : q \in Updaters
    BY DEF Updaters
  <2>2. \A q \in Commands : update'[q].stage # "idle" => lock' = q
    BY <1>1, <1>6, <1>7, <2>1
  <2>3. \A q \in Pages : q # p /\ q \in Updaters
    BY UpdatersAssumption DEF Updaters
  <2>4. count'.pages = 0 => mixed' = {} /\ \A q \in Pages : update'[q].stage = "idle"
    BY <1>1, <1>3, <1>6, <2>3 DEF OneAtATime
  <2> QED
    BY <2>2, <2>4 DEF OneAtATime
<1>11. ASSUME count'.pages = 0, NEW q \in Updaters PROVE Follows(update'[q], extract')
  <2>1. CASE q = p
    BY <1>4, <1>6, <2>1
  <2>2. CASE q # p
    <3>1. update'[q].stage = "idle"
      BY <1>1, <1>3, <1>6, <1>7, <1>11, <2>2 DEF OneAtATime, Updaters
    <3> QED
      BY <3>1 DEF Follows
  <2> QED
    BY <2>1, <2>2
<1>12. count'.pages = 0 => \A q \in Updaters : Follows(update'[q], extract')
  BY <1>11
<1>13. \A x \in Extracts : GoodExtract(extract[x])' /\ (x \notin mixed' => GoodContent(extract[x])')
  BY <1>1, ExtractsStay
<1>14. History(maps, record)'
  BY <1>1 DEF IInv
<1> QED
  BY <1>8, <1>9, <1>10, <1>12, <1>13, <1>14 DEF IInv

(***************************************************************************)
(* What changes an extract.                                                *)
(***************************************************************************)

\* An updater commits to its extract, which is then good.
LEMMA CommitKeeps ==
    ASSUME IInv, NEW p \in Updaters, Advances(p), update[p].stage # "idle",
           UNCHANGED <<maps, record, useBbox, count>>,
           NEW e \in Stored, NEW x \in ExtractType, extract' = [extract EXCEPT ![e] = x],
           x.stored = "yes", GoodExtract(x)', NEW m \in SUBSET Extracts, mixed' = m,
           mixed \subseteq m \cup {e}, count.pages = 0 => m = {},
           e \notin m => GoodContent(x)'
    PROVE  IInv'
<1>1. TypeOK /\ extract \in [Extracts -> ExtractType] /\ e \in Extracts
  BY DEF IInv, TypeOK, Stored
<1>2. extract'[e] = x /\ \A f \in Extracts : f # e => extract'[f] = extract[f]
  BY <1>1
<1>3. extract' \in [Extracts -> ExtractType]
  BY <1>1
<1>4. \A f \in Extracts : extract[f].stored # "never" => extract'[f].stored # "never"
  BY <1>2
<1>5. ASSUME NEW f \in Extracts
      PROVE  GoodExtract(extract[f])' /\ (f \notin mixed' => GoodContent(extract[f])')
  <2>1. CASE f = e
    <3>1. ASSUME NEW w, w = x, extract'[f] = w, GoodExtract(w)', f \notin m => GoodContent(w)'
          PROVE  GoodExtract(extract[f])' /\ (f \notin mixed' => GoodContent(extract[f])')
      BY <3>1
    <3> QED
      BY <1>2, <2>1, <3>1
  <2>2. CASE f # e
    <3>1. extract'[f] = extract[f]
      BY <1>2, <2>2
    <3>2. GoodExtract(extract[f])' /\ (f \notin mixed => GoodContent(extract[f])')
      BY <3>1, ExtractsStay
    <3>3. f \notin mixed' => f \notin mixed
      BY <2>2
    <3> QED
      BY <3>2, <3>3
  <2> QED
    BY <2>1, <2>2
<1>6. /\ \A f \in Extracts : GoodExtract(extract[f])'
      /\ \A f \in Extracts \ mixed' : GoodContent(extract[f])'
  BY <1>5
<1>7. /\ mixed' \subseteq Extracts
      /\ count'.pages = 0 => count.pages = 0 /\ mixed' = {}
      /\ count' \in [pages: 0..MaxUnusual, others: 0..MaxUnusual]
  BY <1>1 DEF TypeOK
<1>8. UNCHANGED <<maps, record, useBbox>>
  OBVIOUS
<1> QED
  BY <1>3, <1>4, <1>6, <1>7, <1>8, AdvanceKeeps

\* Taking an extract afresh keeps the invariant, and no longer is it mixed.
LEMMA AfreshKeeps ==
    ASSUME IInv, NEW p \in Updaters, Afresh(p)
    PROVE  IInv'
<1> DEFINE e == update[p].extract
           x == [extract[e] EXCEPT !.content = Fresh(Latest), !.row = Latest]
           m == mixed \ {e}
<1>1. /\ update[p].stage = "afresh" /\ e \in Stored
      /\ extract' = [extract EXCEPT ![e] = x]
      /\ mixed' = m /\ Leave(p, update[p].todo)
      /\ UNCHANGED <<maps, record, useBbox, count>>
  BY DEF Afresh
<1>2. /\ extract \in [Extracts -> ExtractType] /\ Latest \in Nat /\ useBbox \in BOOLEAN
      /\ TypeOK /\ History(maps, record) /\ update[p].todo \in SUBSET Extracts
  BY UpdaterOf DEF UpdateType
<1>3. extract[e] \in ExtractType /\ extract[e].stored = "yes"
  BY <1>1, <1>2 DEF Stored
<1> HIDE DEF e
<1>4. Fresh(Latest) = Whole(maps[Latest + 1]) /\ Right(Fresh(Latest), Latest, maps, useBbox)
  BY <1>2, FreshIsWhole, WholeIsRight
<1>5. Fresh(Latest) \in SUBSET Copy
  <2>1. maps[Latest + 1] \in [Ids -> Element]
    <3>1. Latest + 1 \in 1..Len(maps)
      BY <1>2 DEF TypeOK, Latest
    <3> QED
      BY <1>2, <3>1 DEF TypeOK
  <2>2. Copies(maps[Latest + 1], Ids) \subseteq Copy
    BY <2>1 DEF Copies, CopyOf, Copy, Element
  <2>3. Whole(maps[Latest + 1]) \subseteq Copies(maps[Latest + 1], Ids)
    BY SelectIsHeld DEF Whole
  <2> QED
    BY <1>4, <2>2, <2>3
<1>6. x \in ExtractType /\ x.stored = "yes" /\ x.row = Latest /\ x.content = Fresh(Latest)
  BY <1>2, <1>3, <1>5 DEF ExtractType
<1> HIDE DEF x
<1>7. Latest' = Latest
  BY <1>1 DEF Latest
<1>8. \A w : w = x => GoodExtract(w)'
  <2> SUFFICES ASSUME NEW w, w = x PROVE GoodExtract(w)'
    OBVIOUS
  <2>1. w.row <= Latest'
    BY <1>2, <1>6, <1>7
  <2>2. EditOver(w.row)'
    <3>1. (w.row + 1)..Latest' = {}
      BY <1>2, <1>6, <1>7
    <3> QED
      BY <3>1 DEF EditOver
  <2> QED
    BY <2>1, <2>2 DEF GoodExtract
<1>9. \A w : w = x => GoodContent(w)'
  BY <1>1, <1>4, <1>6 DEF GoodContent
<1>10. Advances(p)
  BY <1>1, <1>2, LeaveAdvances
<1>11. m \in SUBSET Extracts /\ mixed \subseteq m \cup {e} /\ (count.pages = 0 => m = {})
  BY <1>2 DEF TypeOK, IInv, OneAtATime
<1>12. update[p].stage # "idle"
  BY <1>1
<1> HIDE DEF m
<1> QED
  BY <1>1, <1>6, <1>8, <1>9, <1>10, <1>11, <1>12, CommitKeeps

\* What is selected of a patch has its type.
LEMMA SelectedAreTyped ==
    ASSUME NEW content \in SUBSET Copy, NEW rows \in SUBSET Nat,
           \A row \in rows : record[row] \in RecordType
    PROVE  Select(Patch(record, content, rows)) \in SUBSET Copy
<1>1. \A row \in rows : Sent(record[row]) \subseteq Copy
  BY DEF Sent, RecordType
<1>2. Patch(record, content, rows) \subseteq content \cup UNION {Sent(r) : r \in {record[row] : row \in rows}}
  BY DEF Patch, Patched
<1>3. Patch(record, content, rows) \subseteq Copy
  BY <1>1, <1>2
<1> QED
  BY <1>3, SelectIsHeld

\* What an updater is about to apply: rows that are asked for after its checkpoint, all of
\* them up to the last.
LEMMA RowsAre ==
    ASSUME IInv, NEW p \in Updaters, update[p].stage = "apply"
    PROVE  /\ update[p].rows # {} /\ update[p].rows \in SUBSET (1..Latest)
           /\ Max(update[p].rows) \in update[p].rows
           /\ \A row \in update[p].rows : row <= Max(update[p].rows)
           /\ Max(update[p].rows) \in (update[p].checkpoint + 1)..(update[p].position - 1)
           /\ update[p].rows = Wanted(update[p].checkpoint + 1, Max(update[p].rows), useBbox)
           /\ update[p].held =
                  Wanted(Max(update[p].rows) + 1, update[p].position - 1, useBbox)
<1> DEFINE u == update[p]
           last == Max(u.rows)
<1>1. /\ u \in UpdateType /\ GoodUpdater(u) /\ Latest \in Nat
      /\ TypeOK /\ History(maps, record)
  BY UpdaterOf
<1>2. GoodWindow(u)
  BY <1>1 DEF GoodUpdater
<1> HIDE DEF u
<1>3. u.checkpoint \in Nat /\ u.position \in Nat /\ u.latest \in Nat
  BY <1>1 DEF UpdateType
<1>4. /\ u.checkpoint <= u.latest /\ u.latest <= Latest
      /\ u.position \in (u.checkpoint + 1)..(u.latest + 1)
      /\ u.rows \cup u.held = Wanted(u.checkpoint + 1, u.position - 1, useBbox)
      /\ \A row \in u.rows, over \in u.held : AtomicOf(row) < AtomicOf(over)
      /\ u.rows # {}
  <2>1. u.stage = "apply"
    BY DEF u
  <2> QED
    BY <1>2, <2>1 DEF GoodWindow
<1>5. /\ u.rows \subseteq (u.checkpoint + 1)..(u.position - 1)
      /\ u.held \subseteq (u.checkpoint + 1)..(u.position - 1)
  BY <1>4 DEF Wanted
<1>6. (u.checkpoint + 1)..(u.position - 1) \subseteq 1..Latest
  BY <1>1, <1>3, <1>4
<1>7. last \in u.rows /\ \A row \in u.rows : row <= last
  <2>1. u.rows \subseteq 0..Latest
    BY <1>5, <1>6, <1>1
  <2> QED
    BY <1>1, <1>4, <2>1, MaxOf
<1> HIDE DEF last
<1>8. last \in (u.checkpoint + 1)..(u.position - 1)
  BY <1>5, <1>7
<1>9. ASSUME NEW row \in u.held PROVE last < row
  <2>1. AtomicOf(last) < AtomicOf(row)
    BY <1>4, <1>7
  <2>2. row \in 0..Latest /\ last \in 0..Latest
    BY <1>1, <1>5, <1>6, <1>7
  <2>3. row <= last => AtomicOf(row) <= AtomicOf(last)
    BY <1>1, <2>2, AtomicsGrow
  <2>4. AtomicOf(row) \in Nat /\ AtomicOf(last) \in Nat
    BY <1>1, <2>2, AtomicsGrow
  <2> QED
    BY <2>1, <2>2, <2>3, <2>4
<1>10. \A row : row \in (u.checkpoint + 1)..(u.position - 1) <=>
                   row \in (u.checkpoint + 1)..last \/ row \in (last + 1)..(u.position - 1)
  BY <1>3, <1>8
<1>11. \A row \in Nat : ~(row \in (u.checkpoint + 1)..last /\ row \in (last + 1)..(u.position - 1))
  BY <1>3, <1>8
<1>12. u.rows = Wanted(u.checkpoint + 1, last, useBbox)
  <2>1. ASSUME NEW row \in u.rows PROVE row \in Wanted(u.checkpoint + 1, last, useBbox)
    <3>1. row \in (u.checkpoint + 1)..last
      BY <1>3, <1>5, <1>7, <1>8
    <3>2. Asked(row, useBbox)
      BY <1>4 DEF Wanted
    <3> QED
      BY <3>1, <3>2 DEF Wanted
  <2>2. ASSUME NEW row \in Wanted(u.checkpoint + 1, last, useBbox) PROVE row \in u.rows
    <3>1. row \in (u.checkpoint + 1)..last
      BY DEF Wanted
    <3>2. row \in Wanted(u.checkpoint + 1, u.position - 1, useBbox)
      BY <1>10, <3>1 DEF Wanted
    <3>3. ~(last < row)
      BY <1>3, <1>8, <3>1
    <3> QED
      BY <1>4, <1>9, <3>2, <3>3
  <2> QED
    BY <2>1, <2>2
<1>13. u.held = Wanted(last + 1, u.position - 1, useBbox)
  <2>1. ASSUME NEW row \in u.held PROVE row \in Wanted(last + 1, u.position - 1, useBbox)
    <3>1. row \in (last + 1)..(u.position - 1)
      BY <1>3, <1>5, <1>8, <1>9
    <3>2. Asked(row, useBbox)
      BY <1>4 DEF Wanted
    <3> QED
      BY <3>1, <3>2 DEF Wanted
  <2>2. ASSUME NEW row \in Wanted(last + 1, u.position - 1, useBbox) PROVE row \in u.held
    <3>1. row \in (last + 1)..(u.position - 1)
      BY DEF Wanted
    <3>2. row \in Wanted(u.checkpoint + 1, u.position - 1, useBbox)
      BY <1>10, <3>1 DEF Wanted
    <3>3. ~(row <= last)
      BY <1>3, <1>8, <3>1
    <3> QED
      BY <1>4, <1>7, <3>2, <3>3
  <2> QED
    BY <2>1, <2>2
<1>14. u.rows \in SUBSET (1..Latest)
  BY <1>5, <1>6
<1> QED
  BY <1>4, <1>7, <1>8, <1>12, <1>13, <1>14 DEF u, last

\* The contents that an updater has commit with its rows are those of the last of them.
LEMMA AppliedIsRight ==
    ASSUME IInv, NEW p \in Updaters, update[p].stage = "apply", AllRecorded(update[p]),
           NEW content, Right(content, update[p].checkpoint, maps, useBbox)
    PROVE  Right(Select(Patch(record, content, update[p].rows)), Max(update[p].rows), maps, useBbox)
<1> DEFINE rows == update[p].rows
           a == update[p].checkpoint
           b == Max(rows)
<1>1. /\ rows = Wanted(a + 1, b, useBbox)
      /\ b \in (a + 1)..(update[p].position - 1) /\ b \in rows /\ rows \in SUBSET (1..Latest)
  BY RowsAre
<1>2. a \in Nat /\ update[p].position \in Nat /\ History(maps, record) /\ Latest \in Nat /\ useBbox \in BOOLEAN
  BY UpdaterOf DEF UpdateType
<1>3. \A t \in rows : record[t].recorded
  BY DEF AllRecorded
<1> HIDE DEF rows, a, b
<1>4. b \in Nat /\ a <= b /\ b <= Len(record)
  BY <1>1, <1>2 DEF Latest
<1>5. Historic(content, maps, a + 1) /\ Keeps(content, maps[a + 1])
      /\ (~useBbox => content = Whole(maps[a + 1]))
  <2>1. Right(content, a, maps, useBbox)
    BY DEF a
  <2> QED
    BY <2>1 DEF Right, Keeps
<1>6. rows \subseteq (a + 1)..b /\ \A t \in (a + 1)..b : record[t].reaches => t \in rows
  BY <1>1 DEF Wanted, Asked
<1>7. Patching(maps, record, a, b, content, rows)
  BY <1>2, <1>4, <1>5, <1>6 DEF Patching
<1>8. /\ Historic(Select(Patch(record, content, rows)), maps, b + 1)
      /\ Keeps(Select(Patch(record, content, rows)), maps[b + 1])
  BY <1>7, PatchKeeps
<1>9. ~useBbox => Select(Patch(record, content, rows)) = Whole(maps[b + 1])
  <2> SUFFICES ASSUME ~useBbox PROVE Select(Patch(record, content, rows)) = Whole(maps[b + 1])
    OBVIOUS
  <2>1. rows = (a + 1)..b
    BY <1>1 DEF Wanted, Asked
  <2>2. PatchingAll(maps, record, a, b, content, rows)
    BY <1>3, <1>5, <1>7, <2>1 DEF PatchingAll
  <2> QED
    BY <2>2, PatchIsWhole
<1>10. Right(Select(Patch(record, content, rows)), b, maps, useBbox)
  BY <1>8, <1>9 DEF Right
<1> QED
  BY <1>10 DEF rows, b

\* What an updater is about to apply ends with an edit, or with all of it that is asked for.
LEMMA AppliedEndsOver ==
    ASSUME IInv, NEW p \in Updaters, update[p].stage = "apply"
    PROVE  EditOver(Max(update[p].rows))
<1> DEFINE u == update[p]
           b == Max(u.rows)
<1>1. /\ u \in UpdateType /\ GoodUpdater(u) /\ Latest \in Nat
      /\ TypeOK /\ History(maps, record)
  BY UpdaterOf
<1>2. /\ GoodWindow(u) /\ u.stage = "apply"
  BY <1>1 DEF GoodUpdater
<1>3. /\ b \in u.rows /\ b \in 1..Latest
      /\ b \in (u.checkpoint + 1)..(u.position - 1)
      /\ u.held = Wanted(b + 1, u.position - 1, useBbox)
  BY RowsAre
<1> HIDE DEF u, b
<1>4. u.checkpoint \in Nat /\ u.position \in Nat /\ u.latest \in Nat
  BY <1>1 DEF UpdateType
<1>5. /\ u.latest <= Latest /\ EndsEdit(u.latest)
      /\ u.position <= u.latest + 1
      /\ \A row \in u.rows, over \in u.held : AtomicOf(row) < AtomicOf(over)
      /\ u.held = {} => u.position = u.latest + 1
  BY <1>2, <1>4 DEF GoodWindow
<1>6. ASSUME NEW r \in (b + 1)..Latest, AtomicOf(r) = AtomicOf(b), Asked(r, useBbox) PROVE FALSE
  <2>1. r \in 0..Latest /\ b \in 0..Latest /\ AtomicOf(r) \in Nat /\ AtomicOf(b) \in Nat
    <3>1. r \in 0..Latest /\ b \in 0..Latest
      BY <1>1, <1>3
    <3> QED
      BY <1>1, <3>1, AtomicsGrow
  <2>2. CASE r <= u.position - 1
    <3>1. r \in (b + 1)..(u.position - 1)
      BY <1>3, <1>4, <2>2
    <3>2. r \in u.held
      BY <1>3, <1>6, <3>1 DEF Wanted
    <3>3. AtomicOf(b) < AtomicOf(r)
      BY <1>3, <1>5, <3>2
    <3> QED
      BY <1>6, <2>1, <3>3
  <2>3. CASE r > u.position - 1 /\ u.held # {}
    <3>1. PICK o \in u.held : TRUE
      BY <2>3
    <3>2. o \in (b + 1)..(u.position - 1)
      BY <1>3 DEF Wanted
    <3>3. o \in 0..Latest /\ o <= r
      BY <1>1, <1>3, <1>4, <1>5, <2>1, <2>3, <3>2
    <3>4. AtomicOf(o) <= AtomicOf(r) /\ AtomicOf(o) \in Nat
      BY <1>1, <2>1, <3>3, AtomicsGrow
    <3>5. AtomicOf(b) < AtomicOf(o)
      BY <1>3, <1>5
    <3> QED
      BY <1>6, <2>1, <3>4, <3>5
  <2>4. CASE r > u.position - 1 /\ u.held = {}
    <3>1. u.position = u.latest + 1 /\ u.latest \in 0..Latest
      BY <1>1, <1>4, <1>5, <2>4
    <3>2. r \in (u.latest + 1)..Latest /\ b <= u.latest
      BY <1>1, <1>3, <1>4, <2>1, <2>4, <3>1
    <3>3. AtomicOf(u.latest) < AtomicOf(r)
      BY <1>1, <1>5, <3>1, <3>2, EndsOver
    <3>4. AtomicOf(b) <= AtomicOf(u.latest) /\ AtomicOf(u.latest) \in Nat
      BY <1>1, <2>1, <3>1, <3>2, AtomicsGrow
    <3> QED
      BY <1>6, <2>1, <3>3, <3>4
  <2> QED
    BY <1>4, <2>1, <2>2, <2>3, <2>4
<1>7. EditOver(b)
  BY <1>6 DEF EditOver
<1> QED
  BY <1>7 DEF b, u

\* The rest of an update goes on from what it committed.
LEMMA ApplyAdvances ==
    ASSUME IInv, NEW p \in Updaters, update[p].stage = "apply",
           UNCHANGED <<maps, record, useBbox, count>>,
           \A e \in Extracts : extract[e].stored # "never" => extract'[e].stored # "never",
           extract'[update[p].extract].row = Max(update[p].rows),
           Go(p, [update[p] EXCEPT !.stage = "window", !.checkpoint = Max(update[p].rows),
                                   !.rows = {}])
    PROVE  Advances(p)
<1> DEFINE u == update[p]
           b == Max(u.rows)
           v == [u EXCEPT !.stage = "window", !.checkpoint = b, !.rows = {}]
<1>1. /\ u \in UpdateType /\ GoodUpdater(u) /\ Latest \in Nat
  BY UpdaterOf
<1>2. /\ GoodWindow(u) /\ u.stage = "apply" /\ u.extract \in Extracts
      /\ extract[u.extract].stored # "never"
  BY <1>1 DEF GoodUpdater
<1>3. /\ b \in u.rows /\ b \in 1..Latest
      /\ b \in (u.checkpoint + 1)..(u.position - 1)
      /\ u.held = Wanted(b + 1, u.position - 1, useBbox)
  BY RowsAre
<1>4. Go(p, v) /\ extract'[u.extract].row = b
  OBVIOUS
<1> HIDE DEF u, b
<1>5. u.checkpoint \in Nat /\ u.position \in Nat /\ u.latest \in Nat /\ b \in Nat
  BY <1>1, <1>3 DEF UpdateType
<1>6. /\ v \in UpdateType
      /\ v.stage = "window" /\ v.checkpoint = b /\ v.rows = {}
      /\ v.latest = u.latest /\ v.position = u.position /\ v.held = u.held /\ v.extract = u.extract
  <2> DEFINE none == {}
  <2>1. none \in SUBSET Nat
    OBVIOUS
  <2>2. none = {}
    OBVIOUS
  <2> HIDE DEF none
  <2>3. v = [u EXCEPT !.stage = "window", !.checkpoint = b, !.rows = none]
    BY <2>2
  <2> HIDE DEF v
  <2>4. v \in UpdateType
    BY <1>1, <1>5, <2>1, <2>3 DEF UpdateType, Stages
  <2>5. /\ v.stage = "window" /\ v.checkpoint = b /\ v.rows = none
        /\ v.latest = u.latest /\ v.position = u.position /\ v.held = u.held /\ v.extract = u.extract
    BY <1>1, <2>3 DEF UpdateType
  <2> QED
    BY <2>2, <2>4, <2>5
<1> HIDE DEF v
<1>7. Moves(p, v)
  BY <1>4, <1>6, GoMoves
<1>8. /\ u.latest <= Latest /\ EndsEdit(u.latest)
      /\ u.position <= u.latest + 1
      /\ u.held # {} => u.position <= u.latest
  BY <1>2, <1>5 DEF GoodWindow
<1>9. \A w : w = v => GoodUpdater(w)'
  <2> SUFFICES ASSUME NEW w, w = v PROVE GoodUpdater(w)'
    OBVIOUS
  <2>1. w.rows \cup w.held = Wanted(w.checkpoint + 1, w.position - 1, useBbox)
    BY <1>3, <1>6
  <2>2. /\ w.position \in (w.checkpoint + 1)..(w.latest + 1)
        /\ w.checkpoint <= w.latest
    BY <1>3, <1>5, <1>6, <1>8
  <2>3. /\ w.rows # {} <=> w.stage = "apply"
        /\ w.stage = "apply" /\ w.held = {} => w.position = w.latest + 1
        /\ w.held # {} => w.position <= w.latest
    BY <1>6, <1>8
  <2>4. /\ w.latest <= Latest /\ EndsEdit(w.latest)
        /\ \A row \in w.rows, o \in w.held : AtomicOf(row) < AtomicOf(o)
    BY <1>6, <1>8
  <2>5. GoodWindow(w)
    BY <2>1, <2>2, <2>3, <2>4 DEF GoodWindow
  <2>6. GoodUpdater(w)
    BY <1>2, <1>6, <2>5 DEF GoodUpdater
  <2>7. /\ UNCHANGED <<record, useBbox>>
        /\ \A e \in Extracts : extract[e].stored # "never" => extract'[e].stored # "never"
    OBVIOUS
  <2> QED
    BY <2>6, <2>7, StaysGood
<1>10. Follows(v, extract')
  BY <1>4, <1>6 DEF Follows
<1> QED
  BY <1>6, <1>7, <1>9, <1>10 DEF Advances

\* Applying rows keeps the invariant: they are all that were asked for, of whole edits.
LEMMA ApplyRowsKeeps ==
    ASSUME IInv, NEW p \in Updaters, ApplyRows(p)
    PROVE  IInv'
<1> DEFINE u == update[p]
           e == u.extract
           b == Max(u.rows)
           new == Select(Patch(record, extract[e].content, u.rows))
           x == [extract[e] EXCEPT !.content = new, !.row = b]
           m == mixed \cup Mixes(u)
<1>1. /\ u.stage = "apply" /\ AllRecorded(u) /\ e \in Stored
      /\ extract' = [extract EXCEPT ![e] = x] /\ mixed' = m
      /\ Go(p, [u EXCEPT !.stage = "window", !.checkpoint = b, !.rows = {}])
      /\ UNCHANGED <<maps, record, useBbox, count>>
  BY DEF ApplyRows, Applied, Patch
<1>2. /\ extract \in [Extracts -> ExtractType] /\ Latest \in Nat /\ useBbox \in BOOLEAN
      /\ TypeOK /\ History(maps, record) /\ (count.pages = 0 => Follows(u, extract))
      /\ u \in UpdateType
  BY UpdaterOf
<1>3. extract[e] \in ExtractType /\ extract[e].stored = "yes" /\ e \in Extracts
  BY <1>1, <1>2 DEF Stored
<1>4. u.rows \in SUBSET (1..Latest) /\ b \in u.rows
  BY <1>1, RowsAre
<1>5. EditOver(b)
  BY <1>1, AppliedEndsOver
<1>6. extract[e].row = u.checkpoint /\ e \notin mixed => Right(new, b, maps, useBbox)
  <2> SUFFICES ASSUME extract[e].row = u.checkpoint, e \notin mixed
               PROVE  Right(new, b, maps, useBbox)
    OBVIOUS
  <2>1. GoodContent(extract[e])
    BY <1>3 DEF IInv
  <2>2. u.checkpoint # None
    <3>1. u.checkpoint \in Nat
      BY <1>2 DEF UpdateType
    <3> QED
      BY <3>1, UpdatersAssumption
  <2>3. Right(extract[e].content, u.checkpoint, maps, useBbox)
    BY <1>3, <2>1, <2>2 DEF GoodContent
  <2> QED
    BY <1>1, <2>3, AppliedIsRight
<1>7. Mixes(u) = IF extract[e].row = u.checkpoint THEN {} ELSE {e}
  BY DEF Mixes
<1>8. count.pages = 0 => extract[e].row = u.checkpoint /\ mixed = {}
  BY <1>1, <1>2, <1>3 DEF Follows, IInv, OneAtATime
<1> HIDE DEF e
<1>9. new \in SUBSET Copy
  <2>0. 1..Latest \subseteq Nat
    BY <1>2
  <2>1. record \in Seq(RecordType) /\ u.rows \in SUBSET Nat
    BY <1>2, <1>4, <2>0 DEF TypeOK
  <2>2. \A row \in u.rows : record[row] \in RecordType
    BY <1>4, <2>1 DEF Latest
  <2>3. extract[e].content \in SUBSET Copy
    BY <1>3 DEF ExtractType
  <2> HIDE DEF u
  <2> QED
    BY <2>1, <2>2, <2>3, SelectedAreTyped
<1> DEFINE rows == u.rows
<1> HIDE DEF new
<1>10. b \in Nat /\ b <= Latest
  BY <1>2, <1>4
<1> HIDE DEF b
<1>11. x \in ExtractType /\ x.stored = "yes" /\ x.row = b /\ x.content = new
  BY <1>3, <1>9, <1>10 DEF ExtractType
<1> HIDE DEF x
<1>12. Latest' = Latest
  BY <1>1 DEF Latest
<1>18. \A r : r = b => EditOver(r)'
  <2>1. ASSUME NEW r, EditOver(r) PROVE EditOver(r)'
    BY <1>1, <2>1 DEF Latest, EditOver, AtomicOf, Asked
  <2> QED
    BY <1>5, <2>1
<1>13. \A w : w = x => GoodExtract(w)'
  <2> SUFFICES ASSUME NEW w, w = x PROVE GoodExtract(w)'
    OBVIOUS
  <2>1. w.row <= Latest' /\ w.row = b
    BY <1>10, <1>11, <1>12
  <2>2. EditOver(w.row)'
    BY <1>18, <2>1
  <2> QED
    BY <2>1, <2>2 DEF GoodExtract
<1>14. e \notin m => \A w : w = x => GoodContent(w)'
  BY <1>1, <1>6, <1>7, <1>11 DEF GoodContent
<1>15. m \in SUBSET Extracts /\ mixed \subseteq m \cup {e} /\ (count.pages = 0 => m = {})
  BY <1>2, <1>3, <1>7, <1>8 DEF TypeOK
<1>16. Advances(p)
  <2>1. \A f \in Extracts : extract[f].stored # "never" => extract'[f].stored # "never"
    BY <1>1, <1>2, <1>3, <1>11
  <2>2. extract'[update[p].extract].row = Max(update[p].rows)
    BY <1>1, <1>2, <1>3, <1>11 DEF e, b
  <2>3. Go(p, [update[p] EXCEPT !.stage = "window", !.checkpoint = Max(update[p].rows), !.rows = {}])
    BY <1>1 DEF b
  <2>4. update[p].stage = "apply" /\ UNCHANGED <<maps, record, useBbox, count>>
    BY <1>1
  <2> QED
    BY <2>1, <2>2, <2>3, <2>4, ApplyAdvances
<1>17. update[p].stage # "idle"
  BY <1>1
<1> HIDE DEF m, u
<1> QED
  BY <1>1, <1>11, <1>13, <1>14, <1>15, <1>16, <1>17, CommitKeeps

\* Contents that no record asked for concerned are right at the later record as well.
LEMMA StillRight ==
    ASSUME IInv, NEW a \in Nat, NEW b \in Nat, a < b, b <= Latest, Wanted(a + 1, b, useBbox) = {},
           NEW content, Right(content, a, maps, useBbox)
    PROVE  Right(content, b, maps, useBbox)
<1>1. History(maps, record) /\ useBbox \in BOOLEAN
  BY DEF IInv, TypeOK
<1>2. \A t \in (a + 1)..b : ~Asked(t, useBbox)
  BY DEF Wanted
<1>3. useBbox
  <2>1. b \in (a + 1)..b
    OBVIOUS
  <2> QED
    BY <1>2, <2>1 DEF Asked
<1>4. Historic(content, maps, a + 1) /\ Keeps(content, maps[a + 1])
  BY <1>3 DEF Right
<1>5. \A t \in (a + 1)..b : ~record[t].reaches
  BY <1>2 DEF Asked
<1>6. Patching(maps, record, a, b, content, {})
  BY <1>1, <1>4, <1>5 DEF Patching, Latest
<1>7. Keeps(content, maps[b + 1])
  BY <1>6, UnpatchedKeeps
<1>8. Historic(content, maps, b + 1)
  <2>1. 1..(a + 1) \subseteq 1..(b + 1)
    OBVIOUS
  <2> QED
    BY <1>4, <2>1 DEF Historic
<1> QED
  BY <1>3, <1>7, <1>8 DEF Right

\* An updater that has got past the last record found none, after its checkpoint, to apply.
LEMMA DoneIs ==
    ASSUME IInv, NEW p \in Updaters, update[p].stage = "window",
           update[p].position > update[p].latest
    PROVE  /\ Wanted(update[p].checkpoint + 1, update[p].latest, useBbox) = {}
           /\ update[p].latest \in 0..Latest /\ update[p].checkpoint \in Nat
           /\ EndsEdit(update[p].latest)
<1> DEFINE u == update[p]
<1>1. u \in UpdateType /\ GoodUpdater(u) /\ Latest \in Nat
  BY UpdaterOf
<1>2. GoodWindow(u) /\ u.stage = "window" /\ u.position > u.latest
  BY <1>1 DEF GoodUpdater
<1> HIDE DEF u
<1>3. u.checkpoint \in Nat /\ u.position \in Nat /\ u.latest \in Nat
  BY <1>1 DEF UpdateType
<1>4. /\ u.latest <= Latest /\ EndsEdit(u.latest)
      /\ u.position <= u.latest + 1
      /\ u.rows \cup u.held = Wanted(u.checkpoint + 1, u.position - 1, useBbox)
      /\ u.rows = {} /\ u.held = {}
  BY <1>2, <1>3 DEF GoodWindow
<1>5. u.position - 1 = u.latest
  BY <1>2, <1>3, <1>4
<1>6. Wanted(u.checkpoint + 1, u.latest, useBbox) = {}
  BY <1>4, <1>5
<1> QED
  BY <1>1, <1>3, <1>4, <1>6 DEF u

\* Finishing keeps the invariant: no record up to the latest concerned the extract.
LEMMA FinishKeeps ==
    ASSUME IInv, NEW p \in Updaters, Finish(p)
    PROVE  IInv'
<1> DEFINE u == update[p]
           e == u.extract
           b == u.latest
           x == [extract[e] EXCEPT !.row = b]
           m == mixed \cup Mixes(u)
<1>1. /\ u.stage = "window" /\ u.position > u.latest
      /\ Leave(p, u.todo)
      /\ UNCHANGED <<maps, record, useBbox, count>>
      /\ \/ UNCHANGED <<extract, mixed>>
         \/ /\ u.checkpoint < b /\ e \in Stored
            /\ extract' = [extract EXCEPT ![e].row = b] /\ mixed' = m
  BY DEF Finish
<1>2. /\ extract \in [Extracts -> ExtractType] /\ Latest \in Nat /\ useBbox \in BOOLEAN
      /\ TypeOK /\ History(maps, record) /\ (count.pages = 0 => Follows(u, extract))
      /\ u \in UpdateType /\ count \in [pages: 0..MaxUnusual, others: 0..MaxUnusual]
  BY UpdaterOf
<1>3. Advances(p)
  <2>1. u.todo \in SUBSET Extracts
    BY <1>2 DEF UpdateType
  <2> QED
    BY <1>1, <2>1, LeaveAdvances
<1>4. update[p].stage # "idle"
  BY <1>1
<1>5. CASE UNCHANGED <<extract, mixed>>
  <2>1. /\ UNCHANGED <<maps, record, useBbox, extract, mixed>>
        /\ count' \in [pages: 0..MaxUnusual, others: 0..MaxUnusual] /\ count'.pages = count.pages
    BY <1>1, <1>2, <1>5
  <2> HIDE DEF u
  <2> QED
    BY <1>3, <1>4, <2>1, MoveOnly
<1>6. CASE /\ u.checkpoint < b /\ e \in Stored
           /\ extract' = [extract EXCEPT ![e].row = b] /\ mixed' = m
  <2>1. /\ Wanted(u.checkpoint + 1, b, useBbox) = {}
        /\ b \in 0..Latest /\ u.checkpoint \in Nat /\ EndsEdit(b)
    BY <1>1, DoneIs
  <2>2. extract[e] \in ExtractType /\ extract[e].stored = "yes" /\ e \in Extracts
    BY <1>2, <1>6 DEF Stored
  <2>3. EditOver(b)
    BY <1>2, <2>1, EndsOver
  <2>4. extract[e].row = u.checkpoint /\ e \notin mixed =>
            Right(extract[e].content, b, maps, useBbox)
    <3> SUFFICES ASSUME extract[e].row = u.checkpoint, e \notin mixed
                 PROVE  Right(extract[e].content, b, maps, useBbox)
      OBVIOUS
    <3>1. GoodContent(extract[e])
      BY <2>2 DEF IInv
    <3>2. u.checkpoint # None
      BY <2>1, UpdatersAssumption
    <3>3. Right(extract[e].content, u.checkpoint, maps, useBbox)
      BY <2>2, <3>1, <3>2 DEF GoodContent
    <3>4. b \in Nat /\ b <= Latest /\ u.checkpoint < b
      BY <1>2, <1>6, <2>1
    <3> HIDE DEF b, e, u
    <3> QED
      BY <2>1, <3>3, <3>4, StillRight
  <2>5. Mixes(u) = IF extract[e].row = u.checkpoint THEN {} ELSE {e}
    BY DEF Mixes
  <2>6. count.pages = 0 => extract[e].row = u.checkpoint /\ mixed = {}
    BY <1>1, <1>2, <2>2 DEF Follows, IInv, OneAtATime
  <2>7. extract' = [extract EXCEPT ![e] = x]
    BY <1>6
  <2> HIDE DEF e, b
  <2>8. b \in Nat /\ b <= Latest
    BY <1>2, <2>1
  <2> DEFINE content == extract[e].content
  <2>9. x \in ExtractType /\ x.stored = "yes" /\ x.row = b /\ x.content = content
    BY <2>2, <2>8 DEF ExtractType
  <2> HIDE DEF x
  <2>10. Latest' = Latest
    BY <1>1 DEF Latest
  <2>11. \A r : r = b => EditOver(r)'
    <3>1. ASSUME NEW r, EditOver(r) PROVE EditOver(r)'
      BY <1>1, <3>1 DEF Latest, EditOver, AtomicOf, Asked
    <3> QED
      BY <2>3, <3>1
  <2>12. \A w : w = x => GoodExtract(w)'
    <3> SUFFICES ASSUME NEW w, w = x PROVE GoodExtract(w)'
      OBVIOUS
    <3>1. w.row <= Latest' /\ w.row = b
      BY <2>8, <2>9, <2>10
    <3>2. EditOver(w.row)'
      BY <2>11, <3>1
    <3> QED
      BY <3>1, <3>2 DEF GoodExtract
  <2>13. e \notin m => \A w : w = x => GoodContent(w)'
    BY <1>1, <2>4, <2>5, <2>9 DEF GoodContent
  <2>14. m \in SUBSET Extracts /\ mixed \subseteq m \cup {e} /\ (count.pages = 0 => m = {})
    BY <1>2, <2>2, <2>5, <2>6 DEF TypeOK
  <2>15. mixed' = m /\ e \in Stored /\ UNCHANGED <<maps, record, useBbox, count>>
    BY <1>1, <1>6
  <2> HIDE DEF m, u
  <2> QED
    BY <1>3, <1>4, <2>7, <2>9, <2>12, <2>13, <2>14, <2>15, CommitKeeps
<1> QED
  BY <1>1, <1>5, <1>6

\* One extract is stored, deleted or set up, and what updates it is not misled by it.
LEMMA OthersKeep ==
    ASSUME IInv, UNCHANGED <<maps, record, useBbox, lock, update, mixed>>,
           count' \in [pages: 0..MaxUnusual, others: 0..MaxUnusual], count'.pages = count.pages,
           NEW e \in Extracts, NEW x \in ExtractType, extract' = [extract EXCEPT ![e] = x],
           x.stored # "never",
           extract[e].stored # "never" /\ x.stored = "yes" =>
               extract[e].stored = "yes" /\ x.row = extract[e].row,
           GoodExtract(x)', e \notin mixed => GoodContent(x)'
    PROVE  IInv'
<1>1. /\ TypeOK /\ extract \in [Extracts -> ExtractType] /\ OneAtATime /\ History(maps, record)
      /\ \A p \in Updaters : GoodUpdater(update[p])
      /\ count.pages = 0 => \A p \in Updaters : Follows(update[p], extract)
  BY DEF IInv, TypeOK
<1>2. /\ extract' \in [Extracts -> ExtractType]
      /\ extract'[e] = x /\ \A f \in Extracts : f # e => extract'[f] = extract[f]
  BY <1>1
<1>3. \A f \in Extracts : extract[f].stored # "never" => extract'[f].stored # "never"
  BY <1>2
<1>4. ASSUME NEW f \in Extracts
      PROVE  GoodExtract(extract[f])' /\ (f \notin mixed' => GoodContent(extract[f])')
  <2>1. CASE f = e
    <3>1. ASSUME NEW w, w = x, extract'[f] = w, GoodExtract(w)', f \notin mixed => GoodContent(w)'
          PROVE  GoodExtract(extract[f])' /\ (f \notin mixed' => GoodContent(extract[f])')
      BY <3>1
    <3> QED
      BY <1>2, <2>1, <3>1
  <2>2. CASE f # e
    <3>1. extract'[f] = extract[f] /\ UNCHANGED <<maps, record, useBbox>>
      BY <1>2, <2>2
    <3> QED
      BY <3>1, ExtractsStay
  <2> QED
    BY <2>1, <2>2
<1>5. TypeOK'
  BY <1>1, <1>2 DEF TypeOK
<1>6. ASSUME NEW p \in Updaters PROVE GoodUpdater(update[p])'
  <2>1. \A w : w = update[p] => GoodUpdater(w)'
    BY <1>1, <1>3, StaysGood
  <2>2. ASSUME NEW w, w = update[p], GoodUpdater(w)', update'[p] = w PROVE GoodUpdater(update[p])'
    BY <2>2
  <2> QED
    BY <2>1, <2>2
<1>7. OneAtATime'
  BY <1>1 DEF OneAtATime
<1>8. ASSUME count.pages = 0, NEW p \in Updaters PROVE Follows(update[p], extract')
  <2> DEFINE u == update[p]
  <2>1. Follows(u, extract) /\ GoodUpdater(u)
    BY <1>1, <1>8
  <2> HIDE DEF u
  <2> SUFFICES ASSUME u.stage \in {"latest", "window", "apply"}, extract'[u.extract].stored = "yes"
               PROVE  extract'[u.extract].row = u.checkpoint
    BY DEF Follows, u
  <2>2. u.extract \in Extracts /\ extract[u.extract].stored # "never"
    BY <2>1 DEF GoodUpdater
  <2>3. extract[u.extract].stored = "yes" /\ extract'[u.extract].row = extract[u.extract].row
    BY <1>2, <2>2
  <2> QED
    BY <2>1, <2>3 DEF Follows
<1>9. count'.pages = 0 => \A p \in Updaters : Follows(update'[p], extract')
  BY <1>8
<1>10. History(maps, record)'
  BY <1>1
<1> QED
  BY <1>4, <1>5, <1>6, <1>7, <1>9, <1>10 DEF IInv

\* The source's map has its type at every record.
LEMMA FreshIsTyped ==
    ASSUME IInv, NEW row \in 0..Latest
    PROVE  Fresh(row) \in SUBSET Copy /\ Right(Fresh(row), row, maps, useBbox)
<1>1. TypeOK /\ useBbox \in BOOLEAN /\ Latest \in Nat
  BY DEF IInv, TypeOK, Latest
<1>2. maps[row + 1] \in [Ids -> Element]
  <2>1. row + 1 \in 1..Len(maps)
    BY <1>1 DEF TypeOK, Latest
  <2> QED
    BY <1>1, <2>1 DEF TypeOK
<1>3. Copies(maps[row + 1], Ids) \subseteq Copy
  BY <1>2 DEF Copies, CopyOf, Copy, Element
<1>4. Whole(maps[row + 1]) \subseteq Copies(maps[row + 1], Ids)
  BY SelectIsHeld DEF Whole
<1>5. Fresh(row) = Whole(maps[row + 1])
  BY FreshIsWhole
<1>6. row \in Nat
  BY <1>1
<1> QED
  BY <1>1, <1>3, <1>4, <1>5, <1>6, WholeIsRight

\* What is stored of an extract that was not there.
NewExtract(row, checkpoint) ==
    [NoExtract EXCEPT !.stored = "yes", !.content = Fresh(row), !.row = checkpoint]

\* An extract taken at the end of an edit keeps the invariant.
LEMMA NewKeeps ==
    ASSUME IInv, NEW e \in Extracts, extract[e].stored = "never",
           NEW row \in 0..Latest, EndsEdit(row), NEW checkpoint \in {row, None},
           UNCHANGED <<maps, record, useBbox, lock, update, mixed>>,
           count' \in [pages: 0..MaxUnusual, others: 0..MaxUnusual], count'.pages = count.pages,
           extract' = [extract EXCEPT ![e] = NewExtract(row, checkpoint)]
    PROVE  IInv'
<1> DEFINE x == NewExtract(row, checkpoint)
           content == Fresh(row)
<1>1. TypeOK /\ History(maps, record) /\ Latest \in Nat
  BY DEF IInv, TypeOK, Latest
<1>2. content \in SUBSET Copy /\ Right(content, row, maps, useBbox)
  BY FreshIsTyped
<1>3. x = [NoExtract EXCEPT !.stored = "yes", !.content = content, !.row = checkpoint]
  BY DEF NewExtract
<1>4. extract' = [extract EXCEPT ![e] = x]
  OBVIOUS
<1>5. row \in Nat /\ row <= Latest
  BY <1>1
<1> HIDE DEF content, x
<1>6. x \in ExtractType /\ x.stored = "yes" /\ x.row = checkpoint /\ x.content = content
  BY <1>2, <1>3, <1>5 DEF ExtractType, NoExtract
<1>7. checkpoint # None => checkpoint = row
  OBVIOUS
<1>8. Latest' = Latest
  BY DEF Latest
<1>9. EditOver(row)
  BY <1>1, EndsOver
<1>10. \A w : w = x => GoodExtract(w)'
  <2> SUFFICES ASSUME NEW w, w = x, w.row # None PROVE w.row <= Latest' /\ EditOver(w.row)'
    BY DEF GoodExtract
  <2>1. w.row = row
    BY <1>6, <1>7
  <2>2. EditOver(w.row)
    BY <1>9, <2>1
  <2>3. EditOver(w.row)'
    BY <2>2 DEF Latest, EditOver, AtomicOf, Asked
  <2> QED
    BY <1>5, <1>8, <2>1, <2>3
<1>11. \A w : w = x => GoodContent(w)'
  BY <1>2, <1>6, <1>7 DEF GoodContent
<1> QED
  BY <1>4, <1>6, <1>10, <1>11, OthersKeep

\* Saving a new extract keeps the invariant.
LEMMA SaveExtractKeeps ==
    ASSUME IInv, NEW e \in Extracts, SaveExtract(e)
    PROVE  IInv'
<1>1. /\ extract[e].stored = "never"
      /\ extract' = [extract EXCEPT ![e] = NewExtract(Latest, Latest)]
      /\ UNCHANGED <<maps, record, useBbox, lock, update, mixed, count>>
  BY DEF SaveExtract, NewExtract
<1>2. /\ Latest \in Nat
      /\ count \in [pages: 0..MaxUnusual, others: 0..MaxUnusual]
  BY DEF IInv, TypeOK, Latest
<1>3. Latest \in 0..Latest /\ EndsEdit(Latest)
  BY <1>2 DEF EndsEdit
<1> QED
  BY <1>1, <1>2, <1>3, NewKeeps

\* Importing an extract keeps the invariant.
LEMMA ImportExtractKeeps ==
    ASSUME IInv, NEW e \in Extracts, NEW row \in 0..Latest, NEW checkpoint \in {row, None},
           ImportExtract(e, row, checkpoint)
    PROVE  IInv'
<1>1. /\ extract[e].stored = "never" /\ EndsEdit(row) /\ Unusual("others")
      /\ extract' = [extract EXCEPT ![e] = NewExtract(row, checkpoint)]
      /\ UNCHANGED <<maps, record, useBbox, lock, update, mixed>>
  BY DEF ImportExtract, NewExtract
<1>2. count' \in [pages: 0..MaxUnusual, others: 0..MaxUnusual] /\ count'.pages = count.pages
  BY <1>1, UnusualIs
<1> QED
  BY <1>1, <1>2, NewKeeps

\* Deleting an extract keeps the invariant.
LEMMA DeleteExtractKeeps ==
    ASSUME IInv, NEW e \in Extracts, DeleteExtract(e)
    PROVE  IInv'
<1> DEFINE x == [NoExtract EXCEPT !.stored = "deleted"]
<1>1. /\ e \in Stored /\ Unusual("others")
      /\ extract' = [extract EXCEPT ![e] = x]
      /\ UNCHANGED <<maps, record, useBbox, lock, update, mixed>>
  BY DEF DeleteExtract
<1>2. count' \in [pages: 0..MaxUnusual, others: 0..MaxUnusual] /\ count'.pages = count.pages
  BY <1>1, UnusualIs
<1>3. x \in ExtractType /\ x.stored = "deleted"
  BY DEF ExtractType, NoExtract
<1> HIDE DEF x
<1>4. \A w : w = x => GoodExtract(w)' /\ GoodContent(w)'
  BY <1>3 DEF GoodExtract, GoodContent
<1> QED
  BY <1>1, <1>2, <1>3, <1>4, OthersKeep

\* Setting up how an extract is updated keeps the invariant.
LEMMA SetAutoUpdateKeeps ==
    ASSUME IInv, NEW e \in Extracts, NEW automatic \in BOOLEAN, NEW remote \in BOOLEAN,
           SetAutoUpdate(e, automatic, remote)
    PROVE  IInv'
<1> DEFINE old == extract[e]
           x == [old EXCEPT !.automatic = automatic, !.remote = remote]
<1>1. /\ e \in Stored /\ Unusual("others")
      /\ extract' = [extract EXCEPT ![e] = x]
      /\ UNCHANGED <<maps, record, useBbox, lock, update, mixed>>
  BY DEF SetAutoUpdate
<1>2. count' \in [pages: 0..MaxUnusual, others: 0..MaxUnusual] /\ count'.pages = count.pages
  BY <1>1, UnusualIs
<1>3. old \in ExtractType /\ old.stored = "yes"
  BY <1>1 DEF IInv, TypeOK, Stored
<1>4. GoodExtract(old) /\ (e \notin mixed => GoodContent(old))
  BY DEF IInv
<1> HIDE DEF old
<1>5. x \in ExtractType /\ x.stored = "yes" /\ x.row = old.row /\ x.content = old.content
  BY <1>3 DEF ExtractType
<1> HIDE DEF x
<1>6. \A w : w = x => GoodExtract(w)' /\ (e \notin mixed => GoodContent(w)')
  <2> SUFFICES ASSUME NEW w, w = x PROVE GoodExtract(w)' /\ (e \notin mixed => GoodContent(w)')
    OBVIOUS
  <2>1. GoodExtract(w) /\ (e \notin mixed => GoodContent(w))
    BY <1>3, <1>4, <1>5 DEF GoodExtract, GoodContent
  <2>2. GoodExtract(w)'
    BY <1>1, <2>1 DEF GoodExtract, EditOver, Latest, AtomicOf, Asked
  <2>3. e \notin mixed => GoodContent(w)'
    BY <1>1, <2>1 DEF GoodContent
  <2> QED
    BY <2>2, <2>3
<1>7. x.stored # "never" /\ extract[e].stored = "yes" /\ x.row = extract[e].row
  BY <1>3, <1>5 DEF old
<1> QED
  BY <1>1, <1>2, <1>5, <1>6, <1>7, OthersKeep

\* The source goes on by the records of another edit.
GoesOn ==
    /\ History(maps, record)'
    /\ Latest' >= Latest
    /\ \A r \in 1..Latest : record'[r] = record[r]
    /\ \A k \in 1..(Latest + 1) : maps'[k] = maps[k]
    /\ \A r \in (Latest + 1)..Latest' : record'[r].atomic > AtomicOf(Latest)

\* To append two, one after the other.
LEMMA AppendTwice ==
    ASSUME NEW S, NEW s \in Seq(S), NEW a \in S, NEW b \in S
    PROVE  Append(Append(s, a), b) = s \o <<a, b>>
OBVIOUS

\* An upload's commit goes on with the records of one edit, which is not any before.
LEMMA CommitGoesOn ==
    ASSUME IInv, CommitEdit
    PROVE  GoesOn /\ UNCHANGED <<useBbox, extract, lock, update, mixed, count>>
<1> DEFINE before == maps[Len(maps)]
           atomic == AtomicOf(Latest) + 1
           isNew == Latest + 1 > OldRows
           isNew2 == Latest + 2 > OldRows
           r1(m) == RecordOf(before, m, atomic, isNew)
           r2(m, n) == RecordOf(m, n, atomic, isNew2)
<1>1. /\ TypeOK /\ History(maps, record) /\ Latest \in Nat /\ Len(maps) = Latest + 1
      /\ Latest = Len(record)
  BY DEF IInv, TypeOK, Latest
<1>2. /\ \E m \in After(before) :
            \/ maps' = Append(maps, m) /\ record' = Append(record, r1(m))
            \/ \E n \in After(m) :
                  /\ maps' = maps \o <<m, n>>
                  /\ record' = record \o <<r1(m), r2(m, n)>>
      /\ UNCHANGED <<useBbox, extract, lock, update, mixed, count>>
  BY <1>1 DEF CommitEdit, SourceAt
<1>3. /\ AtomicOf(Latest) \in Nat /\ atomic \in Nat \ {0} /\ atomic > AtomicOf(Latest)
      /\ \A r \in 1..Len(record) : record[r].atomic <= atomic
  <2>1. Latest \in 0..Latest /\ \A r \in 1..Latest : r \in 0..Latest /\ r <= Latest /\ r # 0
    BY <1>1
  <2>2. AtomicOf(Latest) \in Nat
    BY <1>1, <2>1, AtomicsGrow
  <2>3. \A r \in 1..Latest : AtomicOf(r) <= AtomicOf(Latest) /\ AtomicOf(r) \in Nat
    BY <1>1, <2>1, AtomicsGrow
  <2>4. \A r \in 1..Latest : record[r].atomic <= AtomicOf(Latest) /\ record[r].atomic \in Nat
    BY <2>1, <2>3 DEF AtomicOf
  <2> QED
    BY <1>1, <2>2, <2>4
<1>4. isNew \in BOOLEAN /\ isNew2 \in BOOLEAN
  OBVIOUS
<1> HIDE DEF isNew, isNew2, before, atomic
<1>5. PICK m \in After(before) :
            \/ maps' = Append(maps, m) /\ record' = Append(record, r1(m))
            \/ \E n \in After(m) :
                  /\ maps' = maps \o <<m, n>>
                  /\ record' = record \o <<r1(m), r2(m, n)>>
  BY <1>2
<1>6. m \in After(maps[Len(maps)])
  BY DEF before
<1> DEFINE ms == Append(maps, m)
           rs == Append(record, r1(m))
<1>7. History(ms, rs)
  BY <1>1, <1>3, <1>4, <1>6, HistoryGoesOn DEF before
<1>8. r1(m).atomic = atomic
  BY <1>4, RecordSays
<1> DEFINE first == r1(m)
<1> HIDE DEF r1
<1>9. /\ Len(ms) = Latest + 2 /\ Len(rs) = Latest + 1
      /\ \A k \in 1..(Latest + 1) : ms[k] = maps[k]
      /\ ms[Len(ms)] = m
      /\ \A r \in 1..Latest : rs[r] = record[r]
      /\ rs[Latest + 1] = first
      /\ maps \in Seq([Ids -> Element]) /\ record \in Seq(RecordType)
      /\ first \in RecordType
  <2>1. maps \in Seq([Ids -> Element]) /\ record \in Seq(RecordType)
    BY <1>1 DEF TypeOK
  <2>2. Len(ms) = Latest + 2 /\ Len(rs) = Latest + 1
    BY <1>1, <2>1
  <2>3. rs[Latest + 1] = first /\ ms[Len(ms)] = m
    BY <1>1, <2>1, <2>2
  <2>4. rs \in Seq(RecordType)
    BY <1>7 DEF History
  <2>5. first \in RecordType
    BY <1>1, <2>2, <2>3, <2>4
  <2> QED
    BY <1>1, <2>1, <2>2, <2>3, <2>5
<1>10. CASE maps' = ms /\ record' = rs
  <2>1. History(maps, record)'
    BY <1>7, <1>10
  <2>2. Latest' = Latest + 1
    BY <1>9, <1>10 DEF Latest
  <2>3. \A r \in (Latest + 1)..Latest' : record'[r].atomic > AtomicOf(Latest)
    BY <1>1, <1>3, <1>8, <1>9, <1>10, <2>2
  <2> QED
    BY <1>1, <1>2, <1>9, <1>10, <2>1, <2>2, <2>3 DEF GoesOn
<1>11. ASSUME NEW n \in After(m), maps' = maps \o <<m, n>>, record' = record \o <<first, r2(m, n)>>
       PROVE  GoesOn
  <2> DEFINE second == r2(m, n)
  <2>1. second.atomic = atomic
    BY <1>4, RecordSays
  <2>2. n \in After(ms[Len(ms)])
    BY <1>9, <1>11
  <2>3. \A r \in 1..Len(rs) : rs[r].atomic <= atomic
    BY <1>1, <1>3, <1>8, <1>9
  <2>4. History(Append(ms, n), Append(rs, RecordOf(ms[Len(ms)], n, atomic, isNew2)))
    <3> HIDE DEF ms, rs
    <3> QED
      BY <1>3, <1>4, <1>7, <2>2, <2>3, HistoryGoesOn
  <2>5. second = RecordOf(ms[Len(ms)], n, atomic, isNew2)
    BY <1>9
  <2> HIDE DEF r2, second
  <2> HIDE DEF first
  <2>6. History(Append(ms, n), Append(rs, second))
    BY <2>4, <2>5
  <2>7. Append(rs, second) = record \o <<first, second>>
    <3>1. rs = Append(record, first)
      BY DEF first
    <3> HIDE DEF rs
    <3>2. Append(rs, second) \in Seq(RecordType)
      BY <2>6 DEF History
    <3>3. second \in RecordType
      <4>1. rs \in Seq(RecordType)
        BY <1>7 DEF History
      <4>2. Append(rs, second)[Len(rs) + 1] = second /\ Len(Append(rs, second)) = Len(rs) + 1
        BY <4>1
      <4> QED
        BY <3>2, <4>1, <4>2
    <3> QED
      BY <1>9, <3>1, <3>3
  <2>8. Append(ms, n) = maps \o <<m, n>>
    <3>1. m \in [Ids -> Element] /\ n \in [Ids -> Element]
      <4>1. ms \in Seq([Ids -> Element]) /\ Append(ms, n) \in Seq([Ids -> Element])
        BY <1>7, <2>6 DEF History
      <4>2. Append(ms, n)[Len(ms) + 1] = n /\ Len(Append(ms, n)) = Len(ms) + 1
        BY <4>1
      <4>3. ms[Len(ms)] = m /\ Len(ms) \in Nat /\ Len(ms) >= 1
        BY <1>1, <1>9
      <4> HIDE DEF ms
      <4> QED
        BY <4>1, <4>2, <4>3
    <3>2. maps \in Seq([Ids -> Element])
      BY <1>9
    <3> QED
      BY <3>1, <3>2, AppendTwice
  <2>9. maps' = Append(ms, n) /\ record' = Append(rs, second)
    BY <1>11, <2>7, <2>8 DEF second
  <2>10. History(maps, record)'
    BY <2>6, <2>9
  <2> HIDE DEF ms, rs
  <2>11. /\ rs \in Seq(RecordType) /\ ms \in Seq([Ids -> Element])
         /\ Len(Append(rs, second)) = Len(rs) + 1
         /\ \A r \in 1..Len(rs) : Append(rs, second)[r] = rs[r]
         /\ Append(rs, second)[Len(rs) + 1] = second
         /\ \A k \in 1..Len(ms) : Append(ms, n)[k] = ms[k]
    <3>1. rs \in Seq(RecordType) /\ ms \in Seq([Ids -> Element])
      BY <1>7 DEF History
    <3> QED
      BY <3>1
  <2>12. Latest' = Latest + 2
    BY <1>1, <1>9, <2>9, <2>11 DEF Latest
  <2>13. /\ \A r \in 1..Latest : record'[r] = record[r]
         /\ \A k \in 1..(Latest + 1) : maps'[k] = maps[k]
         /\ record'[Latest + 1] = first /\ record'[Latest + 2] = second
    BY <1>1, <1>9, <2>9, <2>11
  <2>14. \A r \in (Latest + 1)..Latest' : r = Latest + 1 \/ r = Latest + 2
    BY <1>1, <2>12
  <2>15. first.atomic = atomic
    BY <1>8 DEF first
  <2>16. \A r \in (Latest + 1)..Latest' : record'[r].atomic > AtomicOf(Latest)
    BY <1>3, <2>1, <2>13, <2>14, <2>15
  <2> QED
    BY <1>1, <2>10, <2>12, <2>13, <2>16 DEF GoesOn
<1> QED
  BY <1>2, <1>5, <1>10, <1>11

\* What was recorded before stays as it was.
LEMMA RecordsStay ==
    ASSUME IInv, GoesOn, UNCHANGED useBbox
    PROVE  /\ Latest \in Nat /\ Latest' \in Nat /\ Latest <= Latest'
           /\ \A row : row \in 0..Latest => AtomicOf(row)' = AtomicOf(row) /\ AtomicOf(row) \in Nat
           /\ \A row : row \in 1..Latest => (Asked(row, useBbox)' <=> Asked(row, useBbox))
           /\ \A row : row \in (Latest + 1)..Latest' => AtomicOf(row)' > AtomicOf(Latest)
           /\ \A row : row \in 0..Latest => AtomicOf(row) <= AtomicOf(Latest)
<1>1. TypeOK /\ History(maps, record) /\ Latest \in Nat
  BY DEF IInv, TypeOK, Latest
<1>2. Latest' \in Nat /\ Latest <= Latest'
  <2>1. record' \in Seq(RecordType)
    BY DEF GoesOn, History
  <2> QED
    BY <2>1 DEF GoesOn, Latest
<1>3. ASSUME NEW row, row \in 0..Latest PROVE AtomicOf(row)' = AtomicOf(row) /\ AtomicOf(row) \in Nat
  <2>1. AtomicOf(row) \in Nat
    BY <1>1, <1>3, AtomicsGrow
  <2>2. row # 0 => row \in 1..Latest
    BY <1>1, <1>3
  <2> QED
    BY <2>1, <2>2 DEF AtomicOf, GoesOn
<1>4. ASSUME NEW row, row \in 1..Latest PROVE Asked(row, useBbox)' <=> Asked(row, useBbox)
  <2>1. record'[row] = record[row]
    BY <1>4 DEF GoesOn
  <2> QED
    BY <2>1 DEF Asked
<1>5. ASSUME NEW row, row \in (Latest + 1)..Latest' PROVE AtomicOf(row)' > AtomicOf(Latest)
  <2>1. row # 0
    BY <1>1, <1>5
  <2> QED
    BY <1>5, <2>1 DEF AtomicOf, GoesOn
<1>6. ASSUME NEW row, row \in 0..Latest PROVE AtomicOf(row) <= AtomicOf(Latest)
  <2>1. Latest \in 0..Latest /\ row <= Latest
    BY <1>1, <1>6
  <2> QED
    BY <1>1, <1>6, <2>1, AtomicsGrow
<1> QED
  BY <1>1, <1>2, <1>3, <1>4, <1>5, <1>6

\* What an updater has read stays good when edits are committed.
LEMMA WindowStays ==
    ASSUME IInv, GoesOn, UNCHANGED useBbox, NEW u \in UpdateType, GoodWindow(u)
    PROVE  GoodWindow(u)'
<1>1. u.checkpoint \in Nat /\ u.position \in Nat /\ u.latest \in Nat
  BY DEF UpdateType
<1>2. /\ Latest \in Nat /\ Latest' \in Nat /\ Latest <= Latest'
      /\ \A row : row \in 0..Latest => AtomicOf(row)' = AtomicOf(row) /\ AtomicOf(row) \in Nat
      /\ \A row : row \in 1..Latest => (Asked(row, useBbox)' <=> Asked(row, useBbox))
      /\ \A row : row \in (Latest + 1)..Latest' => AtomicOf(row)' > AtomicOf(Latest)
  BY RecordsStay
<1>3. /\ u.checkpoint <= u.latest /\ u.latest <= Latest /\ EndsEdit(u.latest)
      /\ u.position \in (u.checkpoint + 1)..(u.latest + 1)
      /\ u.rows \cup u.held = Wanted(u.checkpoint + 1, u.position - 1, useBbox)
      /\ \A row \in u.rows, over \in u.held : AtomicOf(row) < AtomicOf(over)
      /\ u.rows # {} <=> u.stage = "apply"
      /\ u.stage = "apply" /\ u.held = {} => u.position = u.latest + 1
      /\ u.held # {} => u.position <= u.latest
  BY DEF GoodWindow
<1>4. (u.checkpoint + 1)..(u.position - 1) \subseteq 1..Latest
  BY <1>1, <1>2, <1>3
<1>5. Wanted(u.checkpoint + 1, u.position - 1, useBbox)' =
          Wanted(u.checkpoint + 1, u.position - 1, useBbox)
  BY <1>2, <1>4 DEF Wanted
<1>6. u.rows \subseteq 0..Latest /\ u.held \subseteq 0..Latest
  <2>1. Wanted(u.checkpoint + 1, u.position - 1, useBbox) \subseteq 1..Latest
    BY <1>4 DEF Wanted
  <2>2. 1..Latest \subseteq 0..Latest
    BY <1>2
  <2> QED
    BY <1>3, <2>1, <2>2
<1>7. \A row \in u.rows, over \in u.held : AtomicOf(row)' < AtomicOf(over)'
  BY <1>2, <1>3, <1>6
<1>8. EndsEdit(u.latest)'
  <2> SUFFICES ASSUME u.latest \in 1..(Latest' - 1)
               PROVE  record'[u.latest + 1].atomic # record'[u.latest].atomic
    BY DEF EndsEdit
  <2>1. record'[u.latest] = record[u.latest] /\ u.latest \in 1..Latest
    BY <1>1, <1>2, <1>3 DEF GoesOn
  <2>2. CASE u.latest < Latest
    <3>1. record'[u.latest + 1] = record[u.latest + 1] /\ u.latest \in 1..(Latest - 1)
      BY <1>1, <1>2, <2>1, <2>2 DEF GoesOn
    <3> QED
      BY <1>3, <2>1, <3>1 DEF EndsEdit
  <2>3. CASE u.latest = Latest
    <3>1. Latest + 1 \in (Latest + 1)..Latest' /\ Latest # 0 /\ Latest + 1 # 0
          /\ Latest \in 0..Latest
      BY <1>1, <1>2, <2>1, <2>3
    <3>2. AtomicOf(Latest) \in Nat
      BY <1>2, <3>1
    <3>3. record'[Latest + 1].atomic > AtomicOf(Latest)
      BY <3>1 DEF GoesOn
    <3>4. AtomicOf(Latest) = record[Latest].atomic
      BY <3>1 DEF AtomicOf
    <3> QED
      BY <2>1, <2>3, <3>1, <3>3, <3>4, <1>2
  <2> QED
    BY <1>1, <1>2, <1>3, <2>2, <2>3
<1>9. u.latest <= Latest'
  BY <1>1, <1>2, <1>3
<1> QED
  BY <1>3, <1>5, <1>7, <1>8, <1>9 DEF GoodWindow

\* What is good of an extract stays so when edits are committed.
LEMMA ContentStays ==
    ASSUME IInv, GoesOn, UNCHANGED useBbox, NEW x \in ExtractType, GoodExtract(x)
    PROVE  GoodExtract(x)' /\ (GoodContent(x) => GoodContent(x)')
<1>1. CASE ~(x.stored = "yes" /\ x.row # None)
  BY <1>1 DEF GoodExtract, GoodContent
<1>2. CASE x.stored = "yes" /\ x.row # None
  <2>1. /\ Latest \in Nat /\ Latest' \in Nat /\ Latest <= Latest'
        /\ \A row : row \in 0..Latest => AtomicOf(row)' = AtomicOf(row) /\ AtomicOf(row) \in Nat
        /\ \A row : row \in 1..Latest => (Asked(row, useBbox)' <=> Asked(row, useBbox))
        /\ \A row : row \in (Latest + 1)..Latest' => AtomicOf(row)' > AtomicOf(Latest)
        /\ \A row : row \in 0..Latest => AtomicOf(row) <= AtomicOf(Latest)
    BY RecordsStay
  <2> DEFINE b == x.row
  <2>2. b \in Nat /\ b <= Latest /\ EditOver(b)
    BY <1>2 DEF GoodExtract, ExtractType
  <2> HIDE DEF b
  <2>3. b \in 0..Latest
    BY <2>1, <2>2
  <2>4. ASSUME NEW r, r \in (b + 1)..Latest', AtomicOf(r)' = AtomicOf(b)' PROVE ~Asked(r, useBbox)'
    <3>1. AtomicOf(b)' = AtomicOf(b) /\ AtomicOf(b) \in Nat /\ AtomicOf(b) <= AtomicOf(Latest)
      BY <2>1, <2>3
    <3>2. CASE r <= Latest
      <4>1. r \in 0..Latest /\ r \in 1..Latest /\ r \in (b + 1)..Latest
        BY <2>1, <2>2, <2>4, <3>2
      <4>2. AtomicOf(r)' = AtomicOf(r) /\ (Asked(r, useBbox)' <=> Asked(r, useBbox))
        BY <2>1, <4>1
      <4>3. AtomicOf(r) = AtomicOf(b)
        BY <2>4, <3>1, <4>2
      <4>4. ~Asked(r, useBbox)
        BY <2>2, <4>1, <4>3 DEF EditOver
      <4> QED
        BY <4>2, <4>4
    <3>3. CASE r > Latest
      <4>1. r \in (Latest + 1)..Latest'
        BY <2>1, <2>2, <2>4, <3>3
      <4>2. AtomicOf(r)' > AtomicOf(Latest)
        BY <2>1, <4>1
      <4>3. AtomicOf(Latest) \in Nat
        <5>1. Latest \in 0..Latest
          BY <2>1
        <5> QED
          BY <2>1, <5>1
      <4> QED
        BY <2>4, <3>1, <4>2, <4>3
    <3> QED
      BY <2>1, <2>2, <2>4, <3>2, <3>3
  <2>5. \A w : w = b => EditOver(w)'
    BY <2>4 DEF EditOver
  <2>6. GoodExtract(x)'
    BY <2>1, <2>2, <2>5 DEF GoodExtract, b
  <2>7. ASSUME GoodContent(x) PROVE GoodContent(x)'
    <3>1. Right(x.content, b, maps, useBbox)
      BY <1>2, <2>7 DEF GoodContent, b
    <3>2. \A k \in 1..(b + 1) : maps'[k] = maps[k]
      BY <2>1, <2>2 DEF GoesOn
    <3>3. b + 1 \in 1..(b + 1)
      BY <2>2
    <3>4. maps'[b + 1] = maps[b + 1]
      BY <3>2, <3>3
    <3>5. Historic(x.content, maps, b + 1) =>
              \A w : w = b => Historic(x.content, maps', w + 1)
      BY <3>2 DEF Historic
    <3>6. \A w : w = b => Right(x.content, w, maps', useBbox)
      BY <3>1, <3>4, <3>5 DEF Right
    <3> QED
      BY <3>6 DEF GoodContent, b
  <2> QED
    BY <2>6, <2>7
<1> QED
  BY <1>1, <1>2

\* A commit of an edit keeps the invariant.
LEMMA CommitEditKeeps ==
    ASSUME IInv, CommitEdit
    PROVE  IInv'
<1>1. GoesOn /\ UNCHANGED <<useBbox, extract, lock, update, mixed, count>>
  BY CommitGoesOn
<1>2. /\ TypeOK /\ OneAtATime /\ History(maps, record)'
      /\ \A p \in Updaters : GoodUpdater(update[p]) /\ update[p] \in UpdateType
      /\ count.pages = 0 => \A p \in Updaters : Follows(update[p], extract)
      /\ \A e \in Extracts : GoodExtract(extract[e]) /\ extract[e] \in ExtractType
      /\ \A e \in Extracts \ mixed : GoodContent(extract[e])
  BY <1>1 DEF IInv, TypeOK, GoesOn
<1>3. TypeOK'
  <2>1. maps' \in Seq([Ids -> Element]) /\ record' \in Seq(RecordType) /\ Len(maps') = Len(record') + 1
    BY <1>2 DEF History
  <2> QED
    BY <1>1, <1>2, <2>1 DEF TypeOK
<1>4. ASSUME NEW p \in Updaters PROVE GoodUpdater(update[p])'
  <2>1. ASSUME NEW w \in UpdateType, GoodUpdater(w) PROVE GoodUpdater(w)'
    <3>1. GoodWindow(w) => GoodWindow(w)'
      BY <1>1, WindowStays
    <3> QED
      BY <1>1, <2>1, <3>1 DEF GoodUpdater
  <2>2. \A w : w = update[p] => GoodUpdater(w)'
    BY <1>2, <2>1
  <2>3. ASSUME NEW w, w = update[p], GoodUpdater(w)', update'[p] = w PROVE GoodUpdater(update[p])'
    BY <2>3
  <2> QED
    BY <1>1, <2>2, <2>3
<1>5. ASSUME NEW e \in Extracts
      PROVE  GoodExtract(extract[e])' /\ (e \notin mixed' => GoodContent(extract[e])')
  <2>1. \A w : w = extract[e] => GoodExtract(w)' /\ (GoodContent(w) => GoodContent(w)')
    BY <1>1, <1>2, ContentStays
  <2>2. ASSUME NEW w, w = extract[e], extract'[e] = w, GoodExtract(w)', GoodContent(w) => GoodContent(w)'
        PROVE  GoodExtract(extract[e])' /\ (e \notin mixed' => GoodContent(extract[e])')
    <3>1. e \notin mixed' => GoodContent(w)
      BY <1>1, <1>2, <2>2
    <3> QED
      BY <2>2, <3>1
  <2> QED
    BY <1>1, <2>1, <2>2
<1>6. OneAtATime'
  BY <1>1, <1>2 DEF OneAtATime
<1>7. count'.pages = 0 => \A p \in Updaters : Follows(update'[p], extract')
  BY <1>1, <1>2
<1> QED
  BY <1>2, <1>3, <1>4, <1>5, <1>6, <1>7 DEF IInv

\* The invariant holds at first.
LEMMA InitIs ==
    ASSUME Init
    PROVE  IInv
<1>1. /\ maps = <<Start>> /\ record = <<>> /\ lock = None /\ mixed = {}
      /\ \A p \in Updaters : update[p] = Idle
      /\ update = [p \in Updaters |-> Idle]
      /\ count = [pages |-> 0, others |-> 0]
  BY DEF Init
<1>2. /\ useBbox \in BOOLEAN /\ extract \in [Extracts -> ExtractType]
      /\ \A e \in Extracts : extract[e].row # None =>
             extract[e].row = 0 /\ extract[e].content = Select(Copies(Start, Ids))
  <2>1. PICK i \in Initial : useBbox = i.useBbox /\ extract = i.extract
    BY DEF Init
  <2> QED
    BY <2>1, InitialAssumption
<1>3. /\ Start \in [Ids -> Element] /\ \A w \in Ways : Start[w].refs \subseteq Nodes
  BY ElementsAssumption
<1>4. /\ maps \in Seq([Ids -> Element]) /\ Len(maps) = 1 /\ maps[1] = Start
      /\ record \in Seq(RecordType) /\ Len(record) = 0 /\ Latest = 0
  BY <1>1, <1>3 DEF Latest
<1>5. TypeOK
  <2>1. count \in [pages: 0..MaxUnusual, others: 0..MaxUnusual]
    BY <1>1, BoundsAssumption
  <2>2. update \in [Updaters -> UpdateType]
    BY <1>1, IdleIs
  <2> QED
    BY <1>1, <1>2, <1>4, <2>1, <2>2 DEF TypeOK
<1>6. History(maps, record)
  <2>1. \A k \in 1..Len(maps) : k = 1
    BY <1>4
  <2>2. VersionsTell(maps)
    <3>1. \A i \in Ids : maps[1][i].version \in Nat
      BY <1>3, <1>4 DEF Element
    <3>2. \A i \in Ids : maps[1][i].version <= maps[1][i].version
      BY <3>1
    <3> QED
      BY <2>1, <3>2 DEF VersionsTell
  <2>3. LastChanges(maps)
    BY <1>4, <2>1 DEF LastChanges
  <2>4. FirstChanges(maps)
    BY <1>4, <2>1 DEF FirstChanges
  <2>5. \A k \in 1..Len(maps) : \A w \in Ways : maps[k][w].refs \subseteq Nodes
    BY <1>3, <1>4, <2>1
  <2>6. 1..Len(record) = {}
    BY <1>4
  <2> QED
    BY <1>4, <2>2, <2>3, <2>4, <2>5, <2>6 DEF History
<1>7. \A p \in Updaters : GoodUpdater(update[p]) /\ Follows(update[p], extract)
  BY <1>1, IdleIs DEF GoodUpdater, Follows
<1>8. OneAtATime
  <2>1. \A p \in Commands \cup Pages : update[p].stage = "idle"
    BY <1>1, IdleIs DEF Updaters
  <2> QED
    BY <1>1, <2>1 DEF OneAtATime
<1>9. ASSUME NEW e \in Extracts PROVE GoodExtract(extract[e]) /\ GoodContent(extract[e])
  <2>1. CASE extract[e].row = None
    BY <2>1 DEF GoodExtract, GoodContent
  <2>2. CASE extract[e].row # None
    <3>1. extract[e].row = 0 /\ extract[e].content = Whole(maps[1])
      BY <1>2, <1>4, <2>2 DEF Whole
    <3>2. EditOver(0)
      <4>1. (0 + 1)..Latest = {}
        BY <1>4
      <4> QED
        BY <4>1 DEF EditOver
    <3>3. Right(Whole(maps[0 + 1]), 0, maps, useBbox)
      BY <1>2, WholeIsRight
    <3>4. Right(extract[e].content, extract[e].row, maps, useBbox)
      BY <3>1, <3>3
    <3> QED
      BY <1>4, <3>1, <3>2, <3>4 DEF GoodExtract, GoodContent
  <2> QED
    BY <2>1, <2>2
<1> QED
  BY <1>5, <1>6, <1>7, <1>8, <1>9 DEF IInv

\* It holds if nothing changes.
LEMMA StutterKeeps ==
    ASSUME IInv, UNCHANGED vars
    PROVE  IInv'
<1>1. UNCHANGED <<maps, record, useBbox, extract, lock, update, mixed, count>>
  BY DEF vars
<1>2. TypeOK' /\ History(maps, record)'
  BY <1>1 DEF IInv, TypeOK
<1>3. OneAtATime'
  BY <1>1 DEF IInv, OneAtATime
<1>4. \A x \in Extracts : GoodExtract(extract[x])' /\ (x \notin mixed' => GoodContent(extract[x])')
  BY <1>1, ExtractsStay
<1>5. ASSUME NEW p \in Updaters PROVE GoodUpdater(update[p])'
  <2>1. GoodUpdater(update[p])
    BY DEF IInv
  <2>2. \A w : w = update[p] => GoodUpdater(w)'
    BY <1>1, <2>1, StaysGood
  <2>3. ASSUME NEW w, w = update[p], GoodUpdater(w)', update'[p] = w PROVE GoodUpdater(update[p])'
    BY <2>3
  <2> QED
    BY <1>1, <2>2, <2>3
<1>6. count'.pages = 0 => \A p \in Updaters : Follows(update'[p], extract')
  BY <1>1 DEF IInv
<1> QED
  BY <1>2, <1>3, <1>4, <1>5, <1>6 DEF IInv

\* Each step of an updater keeps it.
LEMMA StepKeeps ==
    ASSUME IInv, NEW p \in Updaters, Step(p)
    PROVE  IInv'
BY ChooseKeeps, ReadLatestKeeps, ReadWindowKeeps, ApplyRowsKeeps, FinishKeeps, RefusedKeeps,
   AfreshKeeps, ExtractGoneKeeps DEF Step

\* So does every step.
LEMMA NextKeeps ==
    ASSUME IInv, [Next]_vars
    PROVE  IInv'
<1>1. CASE CommitEdit
  BY <1>1, CommitEditKeeps
<1>2. ASSUME NEW e \in Extracts, SaveExtract(e) PROVE IInv'
  BY <1>2, SaveExtractKeeps
<1>3. ASSUME NEW e \in Extracts, NEW row \in 0..Latest, NEW checkpoint \in {row, None},
             ImportExtract(e, row, checkpoint)
      PROVE  IInv'
  BY <1>3, ImportExtractKeeps
<1>4. ASSUME NEW e \in Extracts, DeleteExtract(e) PROVE IInv'
  BY <1>4, DeleteExtractKeeps
<1>5. ASSUME NEW e \in Extracts, NEW automatic \in BOOLEAN, NEW remote \in BOOLEAN,
             SetAutoUpdate(e, automatic, remote)
      PROVE  IInv'
  BY <1>5, SetAutoUpdateKeeps
<1>6. ASSUME NEW p \in Commands, NEW todo \in SUBSET Stored, BeginCommand(p, todo) PROVE IInv'
  BY <1>6, BeginCommandKeeps
<1>7. ASSUME NEW p \in Pages, NEW e \in Extracts, BeginPage(p, e) PROVE IInv'
  BY <1>7, BeginPageKeeps
<1>8. ASSUME NEW p \in Updaters, Step(p) \/ Fail(p) \/ Crash(p) PROVE IInv'
  BY <1>8, StepKeeps, FailKeeps, CrashKeeps
<1>9. CASE UNCHANGED vars
  BY <1>9, StutterKeeps
<1> QED
  BY <1>1, <1>2, <1>3, <1>4, <1>5, <1>6, <1>7, <1>8, <1>9 DEF Next

\* The inductive invariant holds, whatever maps, edits, extracts and updaters there are.
THEOREM Invariance == Spec => []IInv
<1>1. Init => IInv
  BY InitIs
<1>2. IInv /\ [Next]_vars => IInv'
  BY NextKeeps
<1> QED
  BY <1>1, <1>2, PTL DEF Spec

\* Every variable keeps its type, whatever the updates do (updates.py, remoteupdate.py).
THEOREM ExtractTypeCorrect == Spec => []TypeOK
<1>1. IInv => TypeOK
  BY DEF IInv
<1> QED
  BY <1>1, Invariance, PTL

\* What is stored of an extract is its source as it was at the extract's checkpoint
\* (remoteupdate.py, extracts.py), whatever is committed, fails or dies between an
\* update's questions, unless a request of the page interfered.
THEOREM ExtractsAreCurrent == Spec => []CurrentToCheckpoint
<1>1. IInv => CurrentToCheckpoint
  <2> SUFFICES ASSUME IInv, NEW e \in Stored \ (IF count.pages = 0 THEN {} ELSE mixed),
                      extract[e].row # None
               PROVE  AsAt(extract[e].content, extract[e].row)
    BY DEF CurrentToCheckpoint
  <2>1. count.pages = 0 => mixed = {}
    BY DEF IInv, OneAtATime
  <2>2. e \in Extracts \ mixed /\ extract[e].stored = "yes"
    BY <2>1 DEF Stored
  <2>3. GoodContent(extract[e])
    BY <2>2 DEF IInv
  <2>4. Right(extract[e].content, extract[e].row, maps, useBbox)
    BY <2>2, <2>3 DEF GoodContent
  <2> QED
    BY <2>4, RightIsAsAt
<1> QED
  BY <1>1, Invariance, PTL

\* An extract has all that concerns it of an atomic edit or nothing (remoteupdate.py holds
\* over the last edit of a window), also when a request of the page interferes.
THEOREM EditsAreWhole == Spec => []WholeEdits
<1>1. IInv => WholeEdits
  <2> SUFFICES ASSUME IInv, NEW e \in Stored, extract[e].row # None,
                      NEW row \in (extract[e].row + 1)..Latest,
                      AtomicOf(row) = AtomicOf(extract[e].row)
               PROVE  ~Asked(row, useBbox)
    BY DEF WholeEdits
  <2>1. e \in Extracts /\ extract[e].stored = "yes"
    BY DEF Stored
  <2>2. GoodExtract(extract[e])
    BY <2>1 DEF IInv
  <2>3. EditOver(extract[e].row)
    BY <2>1, <2>2 DEF GoodExtract
  <2> QED
    BY <2>3 DEF EditOver
<1> QED
  BY <1>1, Invariance, PTL

\* Following the answers of the activity calls gives every record asked for and no other
\* (replicate/views.py cuts an answer short, remoteupdate.py goes on), for every size of them.
THEOREM PagesAreComplete == Spec => []PagesComplete
<1>1. IInv => PagesComplete
  <2> SUFFICES ASSUME IInv, NEW first \in 1..Latest, NEW last \in 1..Latest, NEW filtered \in BOOLEAN
               PROVE  Activities(first, last, filtered) = Wanted(first, last, filtered)
    BY DEF PagesComplete
  <2>1. first \in Nat /\ last \in Nat
    OBVIOUS
  <2> QED
    BY <2>1, AllAnswers
<1> QED
  BY <1>1, Invariance, PTL

(***************************************************************************)
(* Checkpoints go forward.                                                 *)
(***************************************************************************)

\* What GoesForward says of one extract, apart from its source.
Forward(e) ==
    (count'.pages = 0 \/ e \notin mixed') =>
        (extract[e].stored = "yes" /\ extract[e].row # None /\ extract'[e].stored = "yes" =>
            extract'[e].row # None /\ extract[e].row <= extract'[e].row)

\* A checkpoint that stays does not go back.
LEMMA RowStays ==
    ASSUME IInv, NEW e \in Extracts, extract'[e].row = extract[e].row
    PROVE  Forward(e)
<1>1. extract[e].row \in Nat \cup {None}
  BY DEF IInv, TypeOK, ExtractType
<1> QED
  BY <1>1 DEF Forward

\* An update that takes the extract afresh takes it from the source's last record.
LEMMA AfreshGoesForward ==
    ASSUME IInv, NEW p \in Updaters, Afresh(p), NEW e \in Extracts
    PROVE  Forward(e)
<1> DEFINE f == update[p].extract
           x == [extract[f] EXCEPT !.content = Fresh(Latest), !.row = Latest]
<1>1. extract' = [extract EXCEPT ![f] = x]
  BY DEF Afresh
<1>2. extract \in [Extracts -> ExtractType] /\ Latest \in Nat
  BY DEF IInv, TypeOK, Latest
<1>3. CASE e # f
  <2>1. extract'[e] = extract[e]
    BY <1>1, <1>2, <1>3
  <2> QED
    BY <2>1, RowStays
<1>4. CASE e = f
  <2>1. extract'[e].row = Latest
    <3>1. extract'[e] = x
      BY <1>1, <1>2, <1>4
    <3>2. x.row = Latest
      BY <1>2, <1>4 DEF ExtractType
    <3> QED
      BY <3>1, <3>2
  <2>2. Latest # None
    BY <1>2, UpdatersAssumption
  <2>3. extract[e].stored = "yes" /\ extract[e].row # None => extract[e].row <= Latest
    BY DEF IInv, GoodExtract
  <2> QED
    BY <2>1, <2>2, <2>3 DEF Forward
<1> QED
  BY <1>3, <1>4

\* An update from the checkpoint that the extract has leaves it known that it was.
LEMMA FromItsCheckpoint ==
    ASSUME IInv', NEW p \in Updaters, mixed' = mixed \cup Mixes(update[p]),
           count'.pages = 0 \/ update[p].extract \notin mixed'
    PROVE  extract[update[p].extract].row = update[p].checkpoint
<1>1. count'.pages = 0 => mixed' = {}
  BY DEF IInv, OneAtATime
<1>2. update[p].extract \notin Mixes(update[p])
  BY <1>1
<1> QED
  BY <1>2 DEF Mixes

\* Rows that are applied come after the checkpoint.
LEMMA ApplyGoesForward ==
    ASSUME IInv, IInv', NEW p \in Updaters, ApplyRows(p), NEW e \in Extracts
    PROVE  Forward(e)
<1> DEFINE u == update[p]
           f == u.extract
           b == Max(u.rows)
           x == [extract[f] EXCEPT !.content = Select(Applied(u)), !.row = b]
<1>1. /\ u.stage = "apply" /\ extract' = [extract EXCEPT ![f] = x]
      /\ mixed' = mixed \cup Mixes(u)
  BY DEF ApplyRows
<1>2. extract \in [Extracts -> ExtractType] /\ u.checkpoint \in Nat /\ u.position \in Nat
  BY UpdaterOf DEF UpdateType, IInv, TypeOK
<1>3. b \in (u.checkpoint + 1)..(u.position - 1)
  BY <1>1, RowsAre
<1>4. CASE e # f
  <2>1. extract'[e] = extract[e]
    BY <1>1, <1>2, <1>4
  <2> QED
    BY <2>1, RowStays
<1>5. CASE e = f
  <2>1. extract'[e].row = b
    <3>1. extract'[e] = x
      BY <1>1, <1>2, <1>5
    <3>2. x.row = b
      BY <1>2, <1>5 DEF ExtractType
    <3> QED
      BY <3>1, <3>2
  <2>2. count'.pages = 0 \/ e \notin mixed' => extract[e].row = u.checkpoint
    BY <1>1, <1>5, FromItsCheckpoint
  <2>3. u.checkpoint <= b /\ b # None
    BY <1>2, <1>3, UpdatersAssumption
  <2> QED
    BY <2>1, <2>2, <2>3 DEF Forward
<1> QED
  BY <1>4, <1>5

\* An update ends at the record up to which it asked.
LEMMA FinishGoesForward ==
    ASSUME IInv, IInv', NEW p \in Updaters, Finish(p), NEW e \in Extracts
    PROVE  Forward(e)
<1> DEFINE u == update[p]
           f == u.extract
<1>1. extract \in [Extracts -> ExtractType] /\ u.checkpoint \in Nat /\ u.latest \in Nat
  BY UpdaterOf DEF UpdateType, IInv, TypeOK
<1>2. CASE u.checkpoint < u.latest /\ f \in Stored
  <2>1. extract' = [extract EXCEPT ![f].row = u.latest] /\ mixed' = mixed \cup Mixes(u)
    BY <1>2 DEF Finish
  <2>2. CASE e # f
    <3>1. extract'[e] = extract[e]
      BY <1>1, <2>1, <2>2
    <3> QED
      BY <3>1, RowStays
  <2>3. CASE e = f
    <3>1. extract'[e].row = u.latest
      BY <1>1, <2>1, <2>3 DEF ExtractType
    <3>2. count'.pages = 0 \/ e \notin mixed' => extract[e].row = u.checkpoint
      BY <2>1, <2>3, FromItsCheckpoint
    <3>3. u.checkpoint <= u.latest /\ u.latest # None
      BY <1>1, <1>2, UpdatersAssumption
    <3> QED
      BY <3>1, <3>2, <3>3 DEF Forward
  <2> QED
    BY <2>2, <2>3
<1>3. CASE ~(u.checkpoint < u.latest /\ f \in Stored)
  <2>1. extract' = extract
    BY <1>3 DEF Finish
  <2> QED
    BY <2>1, RowStays
<1> QED
  BY <1>2, <1>3

\* No other step changes the checkpoint of an extract that stays stored.
LEMMA OthersGoForward ==
    ASSUME IInv, NEW e \in Extracts,
           \/ UNCHANGED vars
           \/ CommitEdit
           \/ \E f \in Extracts :
                 \/ SaveExtract(f)
                 \/ \E row \in 0..Latest : \E checkpoint \in {row, None} : ImportExtract(f, row, checkpoint)
                 \/ DeleteExtract(f)
                 \/ \E automatic, remote \in BOOLEAN : SetAutoUpdate(f, automatic, remote)
    PROVE  Forward(e)
<1>1. extract \in [Extracts -> ExtractType]
  BY DEF IInv, TypeOK
<1>2. CASE UNCHANGED vars \/ CommitEdit
  <2>1. extract' = extract
    BY <1>2 DEF vars, CommitEdit
  <2> QED
    BY <2>1, RowStays
<1>3. ASSUME NEW f \in Extracts, NEW x, extract' = [extract EXCEPT ![f] = x],
             extract[f].stored # "yes" \/ x.stored # "yes" \/ x.row = extract[f].row
      PROVE  Forward(e)
  <2>1. CASE e # f \/ x.row = extract[f].row
    <3>1. extract'[e].row = extract[e].row
      BY <1>1, <1>3, <2>1
    <3> QED
      BY <3>1, RowStays
  <2>2. CASE e = f /\ x.row # extract[f].row
    BY <1>1, <1>3, <2>2 DEF Forward
  <2> QED
    BY <2>1, <2>2
<1>4. ASSUME NEW f \in Extracts, SaveExtract(f) PROVE Forward(e)
  BY <1>3, <1>4 DEF SaveExtract
<1>5. ASSUME NEW f \in Extracts, NEW row \in 0..Latest, NEW checkpoint \in {row, None},
             ImportExtract(f, row, checkpoint)
      PROVE  Forward(e)
  BY <1>3, <1>5 DEF ImportExtract
<1>6. ASSUME NEW f \in Extracts, DeleteExtract(f) PROVE Forward(e)
  <2> DEFINE x == [NoExtract EXCEPT !.stored = "deleted"]
  <2>1. x.stored # "yes"
    BY DEF NoExtract
  <2>2. extract' = [extract EXCEPT ![f] = x]
    BY <1>6 DEF DeleteExtract
  <2> HIDE DEF x
  <2> QED
    BY <1>3, <2>1, <2>2
<1>7. ASSUME NEW f \in Extracts, NEW automatic \in BOOLEAN, NEW remote \in BOOLEAN,
             SetAutoUpdate(f, automatic, remote)
      PROVE  Forward(e)
  <2> DEFINE x == [extract[f] EXCEPT !.automatic = automatic, !.remote = remote]
  <2>1. extract[f] \in ExtractType
    BY <1>1
  <2>2. x.row = extract[f].row
    BY <2>1 DEF ExtractType
  <2>3. extract' = [extract EXCEPT ![f] = x]
    BY <1>1, <1>7 DEF SetAutoUpdate
  <2> HIDE DEF x
  <2> QED
    BY <1>3, <2>2, <2>3
<1> QED
  BY <1>2, <1>4, <1>5, <1>6, <1>7

\* Every step leaves the checkpoints where they are or sets them forward.
LEMMA NextGoesForward ==
    ASSUME IInv, IInv', [Next]_vars, NEW e \in Extracts
    PROVE  Forward(e)
<1>1. ASSUME NEW p \in Updaters, Step(p) \/ Fail(p) \/ Crash(p) PROVE Forward(e)
  <2>1. CASE ApplyRows(p) \/ Finish(p) \/ Afresh(p)
    BY <2>1, ApplyGoesForward, FinishGoesForward, AfreshGoesForward
  <2>2. CASE ~(ApplyRows(p) \/ Finish(p) \/ Afresh(p))
    <3>1. extract' = extract
      BY <1>1, <2>2
      DEF Step, Choose, ReadLatest, ReadWindow, Refused, ExtractGone, Fail, Crash
    <3> QED
      BY <3>1, RowStays
  <2> QED
    BY <2>1, <2>2
<1>2. ASSUME NEW p \in Commands, NEW todo \in SUBSET Stored, BeginCommand(p, todo) PROVE Forward(e)
  BY <1>2, RowStays DEF BeginCommand
<1>3. ASSUME NEW p \in Pages, NEW f \in Extracts, BeginPage(p, f) PROVE Forward(e)
  BY <1>3, RowStays DEF BeginPage
<1> QED
  BY <1>1, <1>2, <1>3, OthersGoForward DEF Next

\* The checkpoint of an extract is not lost, does not go back and is not ahead of its source
\* (remoteupdate.py, extracts.py), however many runs of the command there are
\* (singlerun.py), unless a request of the page interfered.
THEOREM CheckpointsGoForward == Spec => GoesForward
<1>1. IInv /\ IInv' /\ [Next]_vars =>
         [\A e \in Stored \ (IF count'.pages = 0 THEN {} ELSE mixed') :
             extract[e].row # None /\ extract'[e].stored = "yes" =>
                 extract'[e].row # None /\ extract[e].row <= extract'[e].row
                     /\ extract'[e].row <= Latest']_vars
  <2> SUFFICES ASSUME IInv, IInv', [Next]_vars,
                      NEW e \in Stored \ (IF count'.pages = 0 THEN {} ELSE mixed'),
                      extract[e].row # None, extract'[e].stored = "yes"
               PROVE  extract'[e].row # None /\ extract[e].row <= extract'[e].row
                          /\ extract'[e].row <= Latest'
    OBVIOUS
  <2>1. e \in Extracts /\ extract[e].stored = "yes" /\ (count'.pages = 0 \/ e \notin mixed')
    BY DEF Stored
  <2>2. extract'[e].row # None /\ extract[e].row <= extract'[e].row
    BY <2>1, NextGoesForward DEF Forward
  <2>3. GoodExtract(extract[e])'
    BY <2>1 DEF IInv
  <2>4. extract'[e].row <= Latest'
    BY <2>2, <2>3 DEF GoodExtract
  <2> QED
    BY <2>2, <2>4
<1> QED
  BY <1>1, Invariance, PTL DEF Spec, GoesForward

=============================================================================
