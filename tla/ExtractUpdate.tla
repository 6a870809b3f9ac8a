--------------------------- MODULE ExtractUpdate ---------------------------
(***************************************************************************)
(* Extracts of a map, kept up to date from the records of its edits.       *)
(*                                                                         *)
(* The source of an extract is this server's map or another's, read over   *)
(* its web API.  Its records are numbered, and those of one atomic edit    *)
(* follow each other.  An update reads an extract's checkpoint, asks for   *)
(* the records after it a window at a time, and commits for each window    *)
(* what it changes together with the new checkpoint.  Updates are made by  *)
(* a command, of which one runs at a time, and by the administration page, *)
(* which is not held back by it.                                           *)
(*                                                                         *)
(* Abstracted: one map is the source of every extract, and one rectangle   *)
(* the boundary of all; a node is in it or out of it; a record is about    *)
(* one element.  Of pgmap it is taken that a record has what              *)
(* `Record' says, and that a patch keeps the newest version that it knows  *)
(* of each element and then selects anew.                                  *)
(***************************************************************************)
EXTENDS Naturals, FiniteSetsExt, Sequences

CONSTANTS
    Nodes, Ways, Relations,  \* the elements of the map
    Shapes,                  \* for an element, what it may refer to
    Movers,                  \* bound: the nodes that may be in the rectangle
    Retagged, Deletable,     \* bounds: the elements whose tags may change, and that may be deleted
    MaxVersion,              \* bound: the versions of each element
    Start,                   \* the map as it was imported, before any record
    Extracts,
    Commands, Pages,         \* what updates: runs of the command, requests of the page
    ByRecords,               \* extracts not selected by stored bounding boxes
    OldRows,                 \* records up to this one say nothing of related parents
    Window,                  \* ACTIVITY_WINDOW
    PageRows,                \* EDIT_ACTIVITY_MAXIMUM_RECORDS, LOCAL_ROWS_PER_QUERY
    Initial,                 \* bound: the settings, with what may be stored at first
    MaxRows,                 \* bound: the records that are made, by how many extracts there are
    MaxUnusual,              \* bound: how often anything happens that updating does not need
    None

Ids == Nodes \cup Ways \cup Relations
Updaters == Commands \cup Pages

Element == [version: Nat, live: BOOLEAN, at: {"in", "out"}, refs: SUBSET Ids]

\* An element as a record, or an extract, holds it.
Copy == [id: Ids, version: Nat, at: {"in", "out"}, refs: SUBSET Ids]

ASSUME ElementsAssumption ==
    /\ Nodes \cap Ways = {} /\ Nodes \cap Relations = {} /\ Ways \cap Relations = {}
    /\ Start \in [Ids -> Element]
    /\ Shapes \in [Ids -> SUBSET SUBSET Ids]
    /\ \A w \in Ways : Start[w].refs \subseteq Nodes /\ Shapes[w] \subseteq SUBSET Nodes
    /\ MaxVersion \in [Ids -> Nat]

ASSUME UpdatersAssumption ==
    /\ Commands \cap Pages = {}
    /\ ByRecords \subseteq Extracts
    /\ None \notin Extracts \cup Updaters \cup Nat

ASSUME ExtractsAssumption == Extracts \subseteq Nat /\ IsFiniteSet(Extracts)

ASSUME BoundsAssumption ==
    /\ Window \in Nat \ {0} /\ PageRows \in Nat \ {0} /\ OldRows \in Nat
    /\ MaxRows \in [0..Cardinality(Extracts) -> Nat] /\ MaxUnusual \in Nat

VARIABLES
    maps,     \* the source after each of its records, and at first before any
    record,   \* its records
    useBbox,  \* EXTRACT_UPDATE_USE_BBOX
    extract,  \* the extracts, as committed
    lock,     \* which run of the command holds the lock of its name
    update,   \* how far each updater has got
    mixed,    \* history: extracts changed by an update whose checkpoint was not the extract's
    count     \* how often each bounded thing happened

vars == <<maps, record, useBbox, extract, lock, update, mixed, count>>

(***************************************************************************)
(* The source and its records.                                             *)
(***************************************************************************)
Latest == Len(record)
AtomicOf(row) == IF row = 0 THEN 0 ELSE record[row].atomic

\* The source as it was once a record was made.
SourceAt(row) == maps[row + 1]

Parents(m, ids) == {p \in Ids : m[p].live /\ m[p].refs \cap ids # {}}

CopyOf(m, i) == [id |-> i, version |-> m[i].version, at |-> m[i].at, refs |-> m[i].refs]
Copies(m, ids) == {CopyOf(m, i) : i \in {j \in ids : m[j].live}}

\* What an edit can make of an element, and of the map.  To delete an element,
\* nothing may refer to it.
Versions(m, i) ==
    LET forms == [version: {m[i].version + 1}, live: {TRUE},
                  at: IF i \in Movers THEN {"in", "out"} ELSE {"out"},
                  refs: {s \in Shapes[i] : \A j \in s : m[j].live}]
        edits == {e \in forms :
                     i \in Retagged \/ e.at # m[i].at \/ e.refs # m[i].refs \/ ~m[i].live}
        deletion == IF i \in Deletable /\ m[i].live /\ Parents(m, {i}) = {}
                    THEN {[m[i] EXCEPT !.version = @ + 1, !.live = FALSE]}
                    ELSE {}
    IN {e \in edits \cup deletion : e.version <= MaxVersion[i]}

After(m) == UNION {{[m EXCEPT ![i] = e] : e \in Versions(m, i)} : i \in Ids}

\* Whether elements have a node in the rectangle.
Reach(m, ids) ==
    LET ways == Ways \cap (ids \cup UNION {m[r].refs : r \in Relations \cap ids})
        nodes == Nodes \cap (ids \cup UNION {m[i].refs : i \in ways \cup (Relations \cap ids)})
    IN \E n \in nodes : m[n].live /\ m[n].at = "in"

\* A record: the elements an edit changed, before and after; the ways and
\* relations around them; the nodes of these and of changed ways; and the
\* relations holding those nodes.  It says where the changed elements and those
\* around them were, by which it is known whether they reach the rectangle.
RecordOf(before, after, atomic, recorded) ==
    LET changed == {i \in Ids : before[i] # after[i]}
        parents == Parents(before, changed) \cup Parents(after, changed)
        around == parents \cup Parents(before, parents) \cup Parents(after, parents)
        related == Nodes \cap UNION {after[w].refs : w \in Ways \cap (changed \cup around)}
    IN [atomic |-> atomic,
        existing |-> Copies(before, changed),
        updated |-> {CopyOf(after, i) : i \in changed},
        deletes |-> \E i \in changed : ~after[i].live,
        affectedparents |-> Copies(after, around),
        related |-> Copies(after, related),
        relatedparents |->
            IF recorded THEN Copies(after, Relations \cap Parents(after, related)) ELSE {},
        recorded |-> recorded,
        reaches |-> Reach(before, changed \cup around) \/ Reach(after, changed \cup around)]

RecordType ==
    [atomic: Nat, existing: SUBSET Copy, updated: SUBSET Copy, deletes: BOOLEAN,
     affectedparents: SUBSET Copy, related: SUBSET Copy, relatedparents: SUBSET Copy,
     recorded: BOOLEAN, reaches: BOOLEAN]

\* The filter by area.
Asked(row, filtered) == filtered => record[row].reaches

Wanted(first, last, filtered) == {row \in first..last : Asked(row, filtered)}

\* An answer to a question about records: so many at most, from the first on,
\* and where to go on from if there are more.
Answer(first, last, filtered) ==
    LET wanted == Wanted(first, last, filtered)
        sent == {row \in wanted : Cardinality({r \in wanted : r < row}) < PageRows}
    IN [rows |-> sent, truncated |-> sent # wanted, next |-> IF sent = {} THEN 0 ELSE Max(sent) + 1]

\* (Mutant: going on, the record at which to go on is left out.)
NextSkipped(first, last, filtered) ==
    LET From[f \in Nat] ==
            IF f > last THEN {}
            ELSE LET answer == Answer(f, last, filtered)
                 IN IF answer.truncated THEN answer.rows \cup From[answer.next + 1] ELSE answer.rows
    IN From[first]

\* All the records of a range that are asked for, answer after answer.  They are
\* always in the order of their IDs, so the set of them says all.
Activities(first, last, filtered) ==
    LET From[f \in Nat] ==
            IF f > last THEN {}
            ELSE LET answer == Answer(f, last, filtered)
                 IN IF answer.truncated THEN answer.rows \cup From[answer.next] ELSE answer.rows
    IN From[first]

(***************************************************************************)
(* The contents of an extract.                                             *)
(***************************************************************************)

Named(copies) == {c.id : c \in copies}

\* The nodes in the rectangle, the ways with such a node and all their nodes,
\* and the relations that hold any of these.
Select(copies) ==
    LET inside == Named({c \in copies : c.id \in Nodes /\ c.at = "in"})
        ways == {c \in copies : c.id \in Ways /\ c.refs \cap inside # {}}
        ids == inside \cup Named(ways) \cup UNION {w.refs : w \in ways}
    IN {c \in copies : c.id \in ids \/ (c.id \in Relations /\ c.refs \cap ids # {})}

Fresh(row) == Select(Copies(SourceAt(row), Ids))

\* What a patch knows once a record is added to it: the copies sent, and of
\* what is removed up to which version.
Sent(r) ==
    (IF r.deletes THEN {} ELSE r.updated)
        \cup r.affectedparents \cup r.related \cup r.relatedparents

Removed(r) ==
    IF ~r.deletes THEN {}
    ELSE {[c EXCEPT !.version = @ + 1] : c \in r.existing} \cup r.updated

\* The newest of what is known of each element, unless it is known to be gone.
Patched(content, records) ==
    LET known == content \cup UNION {Sent(r) : r \in records}
        gone == UNION {Removed(r) : r \in records}
    IN {c \in known :
           /\ \A d \in known : d.id = c.id => d.version <= c.version
           /\ \A d \in gone : d.id = c.id => d.version < c.version}

\* Nodes that selected ways refer to and nobody supplied.
MissingNodes(copies) ==
    UNION {w.refs : w \in {c \in Select(copies) : c.id \in Ways}} \ Named(copies)

(***************************************************************************)
(* The state.                                                              *)
(***************************************************************************)
Idle ==
    [stage |-> "idle", todo |-> {}, extract |-> None, remote |-> FALSE, checkpoint |-> 0,
     latest |-> 0, position |-> 1, held |-> {}, rows |-> {}]

\* The steps of an updater: to read what is stored of the next extract; to ask
\* for the source's latest IDs; to ask for a window of records; to apply them;
\* to take the extract from the map afresh.
Stages == {"idle", "choose", "latest", "window", "apply", "afresh"}

UpdateType ==
    [stage: Stages, todo: SUBSET Extracts, extract: Extracts \cup {None}, remote: BOOLEAN,
     checkpoint: Nat, latest: Nat, position: Nat, held: SUBSET Nat, rows: SUBSET Nat]

NoExtract ==
    [stored |-> "never", content |-> {}, row |-> None, automatic |-> FALSE, remote |-> FALSE]

ExtractType ==
    [stored: {"never", "yes", "deleted"}, content: SUBSET Copy, row: Nat \cup {None},
     automatic: BOOLEAN, remote: BOOLEAN]

\* At first an extract that is followed is the source as it was imported.
ASSUME InitialAssumption ==
    \A i \in Initial :
        /\ i.useBbox \in BOOLEAN
        /\ i.extract \in [Extracts -> ExtractType]
        /\ \A e \in Extracts :
              i.extract[e].row # None =>
                  /\ i.extract[e].row = 0
                  /\ i.extract[e].content = Select(Copies(Start, Ids))

TypeOK ==
    /\ maps \in Seq([Ids -> Element])
    /\ record \in Seq(RecordType)
    /\ Len(maps) = Len(record) + 1
    /\ useBbox \in BOOLEAN
    /\ extract \in [Extracts -> ExtractType]
    /\ lock \in Commands \cup {None}
    /\ update \in [Updaters -> UpdateType]
    /\ mixed \subseteq Extracts
    /\ count \in [pages: 0..MaxUnusual, others: 0..MaxUnusual]

Init ==
    /\ maps = <<Start>>
    /\ record = <<>>
    /\ \E i \in Initial : useBbox = i.useBbox /\ extract = i.extract
    /\ lock = None
    /\ update = [p \in Updaters |-> Idle]
    /\ mixed = {}
    /\ count = [pages |-> 0, others |-> 0]

Stored == {e \in Extracts : extract[e].stored = "yes"}
Automatic == {e \in Stored : extract[e].automatic}

Unusual(what) ==
    /\ count.pages + count.others < MaxUnusual
    /\ count' = [count EXCEPT ![what] = @ + 1]

(***************************************************************************)
(* What happens to the source and, by the administration page and other    *)
(* commands, to the extracts.                                              *)
(***************************************************************************)

\* An upload commits the records of one atomic edit (bound: two of them).
CommitEdit ==
    LET before == SourceAt(Latest)
        atomic == AtomicOf(Latest) + 1
        Next1(m) == RecordOf(before, m, atomic, Latest + 1 > OldRows)
        Next2(m, n) == RecordOf(m, n, atomic, Latest + 2 > OldRows)
    IN /\ \E m \in After(before) :
             \/ /\ Latest < MaxRows[Cardinality(Stored)]
                /\ maps' = Append(maps, m)
                /\ record' = Append(record, Next1(m))
             \/ /\ Latest + 1 < MaxRows[Cardinality(Stored)]
                /\ \E n \in After(m) :
                      /\ maps' = maps \o <<m, n>>
                      /\ record' = record \o <<Next1(m), Next2(m, n)>>
       /\ UNCHANGED <<useBbox, extract, lock, update, mixed, count>>

SaveExtract(e) ==
    /\ extract[e].stored = "never"
    /\ extract' = [extract EXCEPT ![e] =
          [NoExtract EXCEPT !.stored = "yes", !.content = Fresh(Latest), !.row = Latest]]
    /\ UNCHANGED <<maps, record, useBbox, lock, update, mixed, count>>

\* Whether the edit a record is of ends with it.
EndsEdit(row) == row \in 1..(Latest - 1) => record[row + 1].atomic # record[row].atomic

\* A file of the rectangle, exported with or without its checkpoint.
ImportExtract(e, row, checkpoint) ==
    /\ extract[e].stored = "never"
    /\ EndsEdit(row)
    /\ Unusual("others")
    /\ extract' = [extract EXCEPT ![e] =
          [NoExtract EXCEPT !.stored = "yes", !.content = Fresh(row), !.row = checkpoint]]
    /\ UNCHANGED <<maps, record, useBbox, lock, update, mixed>>

DeleteExtract(e) ==
    /\ e \in Stored
    /\ Unusual("others")
    /\ extract' = [extract EXCEPT ![e] = [NoExtract EXCEPT !.stored = "deleted"]]
    /\ UNCHANGED <<maps, record, useBbox, lock, update, mixed>>

SetAutoUpdate(e, automatic, remote) ==
    /\ e \in Stored
    /\ Unusual("others")
    /\ extract' = [extract EXCEPT ![e] = [@ EXCEPT !.automatic = automatic, !.remote = remote]]
    /\ UNCHANGED <<maps, record, useBbox, lock, update, mixed>>

(***************************************************************************)
(* An update.                                                              *)
(***************************************************************************)

\* (Mutant: the lock is not asked for.)
LockUnasked == lock \in Commands \cup {None}

LockFree == lock = None

\* A run of the command starts only when no other is going.
BeginCommand(p, todo) ==
    /\ update[p].stage = "idle"
    /\ LockFree
    /\ todo # {}
    /\ lock' = p
    /\ update' = [update EXCEPT ![p] = [Idle EXCEPT !.stage = "choose", !.todo = todo]]
    /\ UNCHANGED <<maps, record, useBbox, extract, mixed, count>>

BeginPage(p, e) ==
    /\ update[p].stage = "idle"
    /\ Unusual("pages")
    /\ update' = [update EXCEPT ![p] = [Idle EXCEPT !.stage = "choose", !.todo = {e}]]
    /\ UNCHANGED <<maps, record, useBbox, extract, lock, mixed>>

\* An updater goes on to its next extract, updated or not, or ends.
Leave(p, todo) ==
    /\ update' = [update EXCEPT ![p] =
          IF todo = {} THEN Idle ELSE [Idle EXCEPT !.stage = "choose", !.todo = todo]]
    /\ lock' = IF todo = {} /\ lock = p THEN None ELSE lock

Go(p, u) == update' = [update EXCEPT ![p] = u] /\ UNCHANGED lock

FromMap(u) == [Idle EXCEPT !.stage = "afresh", !.todo = u.todo, !.extract = u.extract]

\* An extract that is not there, cannot be followed, or is known to be up to date.
NothingToDo(e) ==
    \/ e \notin Stored
    \/ extract[e].remote /\ extract[e].row = None
    \/ ~extract[e].remote /\ extract[e].row = Latest

\* (Mutant: it is not asked whether there is a checkpoint.)
CheckpointUnasked(e) == extract[e].remote \/ e \in ByRecords

FollowsRecords(e) == extract[e].row # None /\ (extract[e].remote \/ e \in ByRecords)

\* What is stored of the next extract decides how it is updated, if it is.
Choose(p) ==
    LET e == CHOOSE e \in update[p].todo : \A f \in update[p].todo : e <= f
        rest == update[p].todo \ {e}
        chosen == [Idle EXCEPT !.todo = rest, !.extract = e, !.remote = extract[e].remote]
    IN /\ update[p].stage = "choose"
       /\ \/ NothingToDo(e) /\ Leave(p, rest)
          \/ /\ ~NothingToDo(e) /\ FollowsRecords(e)
             /\ Go(p, [chosen EXCEPT !.stage = "latest", !.checkpoint = extract[e].row])
          \/ /\ ~NothingToDo(e) /\ ~FollowsRecords(e)
             /\ Go(p, FromMap(chosen))
       /\ UNCHANGED <<maps, record, useBbox, extract, mixed, count>>

ReadLatest(p) ==
    /\ update[p].stage = "latest"
    /\ Latest >= update[p].checkpoint
    /\ Go(p, [update[p] EXCEPT !.stage = "window", !.latest = Latest,
                               !.position = update[p].checkpoint + 1])
    /\ UNCHANGED <<maps, record, useBbox, extract, mixed, count>>

\* Of the records of a window and those held over, what is to be applied a
\* whole edit at a time: edits after the checkpoint, no record twice and,
\* unless chosen by area, none left out.
GroupsRight(held, rows, checkpoint) ==
    /\ \A row \in held \cup rows : AtomicOf(row) > AtomicOf(checkpoint)
    /\ held \cap rows = {}
    /\ useBbox \/ \A row \in held \cup rows : \A r \in 1..row :
                     AtomicOf(r) = AtomicOf(row) => r \in held \cup rows

LastOf(u) ==
    IF u.position + Window - 1 < u.latest THEN u.position + Window - 1 ELSE u.latest

NewRows(u) == Activities(u.position, LastOf(u), useBbox)

\* (Mutant: nothing is held over.)
NothingHeld(u, rows) == IF LastOf(u) > u.latest THEN rows ELSE {}

\* The last edit of a window may go on in the next.
HeldOver(u, rows) ==
    IF LastOf(u) < u.latest THEN {row \in rows : AtomicOf(row) = AtomicOf(Max(rows))} ELSE {}

ReadWindow(p) ==
    LET u == update[p]
        rows == u.held \cup NewRows(u)
        whole == rows \ HeldOver(u, rows)
    IN /\ u.stage = "window"
       /\ u.position <= u.latest
       /\ GroupsRight(u.held, NewRows(u), u.checkpoint)
       /\ Go(p, [u EXCEPT !.stage = IF whole = {} THEN "window" ELSE "apply",
                          !.position = LastOf(u) + 1, !.held = HeldOver(u, rows), !.rows = whole])
       /\ UNCHANGED <<maps, record, useBbox, extract, mixed, count>>

\* The contents with an update's rows applied.
Applied(u) == Patched(extract[u.extract].content, {record[row] : row \in u.rows})

\* (Mutant: it is not asked whether a record says all that is needed.)
RecordedUnasked(u) == u.rows \subseteq Nat

AllRecorded(u) == \A row \in u.rows : record[row].recorded

\* A transaction of an update sets the checkpoint, and perhaps the content.
Mixes(u) == IF extract[u.extract].row = u.checkpoint THEN {} ELSE {u.extract}

ApplyRows(p) ==
    LET u == update[p]
        checkpoint == Max(u.rows)
    IN /\ u.stage = "apply"
       /\ AllRecorded(u)
       /\ u.extract \in Stored
       /\ MissingNodes(Applied(u)) = {}
       /\ extract' = [extract EXCEPT ![u.extract] =
             [@ EXCEPT !.content = Select(Applied(u)), !.row = checkpoint]]
       /\ mixed' = mixed \cup Mixes(u)
       /\ Go(p, [u EXCEPT !.stage = "window", !.checkpoint = checkpoint, !.rows = {}])
       /\ UNCHANGED <<maps, record, useBbox, count>>

\* (Mutant: nothing is committed at the end.)
FinishUnmarked(p) ==
    LET u == update[p]
    IN /\ u.stage = "window"
       /\ u.position > u.latest
       /\ UNCHANGED <<extract, mixed>>
       /\ Leave(p, u.todo)
       /\ UNCHANGED <<maps, record, useBbox, count>>

\* No record after the last one applied concerned the extract, which has
\* caught up with them all the same.
Finish(p) ==
    LET u == update[p]
    IN /\ u.stage = "window"
       /\ u.position > u.latest
       /\ IF u.checkpoint < u.latest /\ u.extract \in Stored
          THEN /\ extract' = [extract EXCEPT ![u.extract].row = u.latest]
               /\ mixed' = mixed \cup Mixes(u)
          ELSE UNCHANGED <<extract, mixed>>
       /\ Leave(p, u.todo)
       /\ UNCHANGED <<maps, record, useBbox, count>>

\* A source that cannot be followed: it is behind the checkpoint, its records
\* are not those of whole edits, are too old, or do not supply what is needed.
\* An extract of this map is then taken from it afresh.
Refused(p) ==
    LET u == update[p]
    IN /\ \/ u.stage = "latest" /\ Latest < u.checkpoint
          \/ /\ u.stage = "window" /\ u.position <= u.latest
             /\ ~GroupsRight(u.held, NewRows(u), u.checkpoint)
          \/ /\ u.stage = "apply"
             /\ ~AllRecorded(u) \/ (u.extract \in Stored /\ MissingNodes(Applied(u)) # {})
       /\ IF u.remote THEN Leave(p, u.todo) ELSE Go(p, FromMap(u))
       /\ UNCHANGED <<maps, record, useBbox, extract, mixed, count>>

\* What UpdateExtract does: content and checkpoint from the map, at one moment.
Afresh(p) ==
    LET u == update[p]
    IN /\ u.stage = "afresh"
       /\ u.extract \in Stored
       /\ extract' = [extract EXCEPT ![u.extract] =
             [@ EXCEPT !.content = Fresh(Latest), !.row = Latest]]
       /\ mixed' = mixed \ {u.extract}
       /\ Leave(p, u.todo)
       /\ UNCHANGED <<maps, record, useBbox, count>>

\* The extract was deleted meanwhile: it cannot be patched or replaced.
ExtractGone(p) ==
    /\ update[p].stage \in {"apply", "afresh"}
    /\ update[p].extract \notin Stored
    /\ Leave(p, update[p].todo)
    /\ UNCHANGED <<maps, record, useBbox, extract, mixed, count>>

\* The source does not answer, or the database fails: what was committed of
\* this extract stays, and the next one is updated.  When it is this map's
\* records that could not be read, the extract is taken afresh.
Fail(p) ==
    LET u == update[p]
    IN /\ u.stage \in {"latest", "window", "apply", "afresh"}
       /\ Unusual("others")
       /\ \/ Leave(p, u.todo)
          \/ u.stage = "window" /\ ~u.remote /\ Go(p, FromMap(u))
       /\ UNCHANGED <<maps, record, useBbox, extract, mixed>>

\* An updater dies, and the database lets go of its lock.
Crash(p) ==
    /\ update[p].stage # "idle"
    /\ Unusual("others")
    /\ update' = [update EXCEPT ![p] = Idle]
    /\ lock' = IF lock = p THEN None ELSE lock
    /\ UNCHANGED <<maps, record, useBbox, extract, mixed>>

Step(p) ==
    \/ Choose(p)
    \/ ReadLatest(p)
    \/ ReadWindow(p)
    \/ ApplyRows(p)
    \/ Finish(p)
    \/ Refused(p)
    \/ Afresh(p)
    \/ ExtractGone(p)

Next ==
    \/ CommitEdit
    \/ \E e \in Extracts :
          \/ SaveExtract(e)
          \/ \E row \in 0..Latest : \E checkpoint \in {row, None} : ImportExtract(e, row, checkpoint)
          \/ DeleteExtract(e)
          \/ \E automatic, remote \in BOOLEAN :
                /\ <<automatic, remote>> # <<extract[e].automatic, extract[e].remote>>
                /\ SetAutoUpdate(e, automatic, remote)
    \/ \E p \in Commands : \E todo \in SUBSET Stored : BeginCommand(p, todo)
    \/ \E p \in Pages, e \in Extracts : BeginPage(p, e)
    \/ \E p \in Updaters : Step(p) \/ Fail(p) \/ Crash(p)

Spec == Init /\ [][Next]_vars

\* The command is run again and again by a schedule, and a run that has begun
\* goes on or dies.  Strongly fair, as a run by hand may have the lock when a
\* scheduled one begins.  Nothing is assumed of the page.
FairSpec ==
    /\ Spec
    /\ SF_vars(\E p \in Commands : BeginCommand(p, Automatic))
    /\ WF_vars(\E p \in Commands : Step(p))

(***************************************************************************)
(* What updating is for.                                                   *)
(***************************************************************************)

\* The copies of nodes that are in the rectangle.
Inside(copies) == {c \in copies : c.id \in Nodes /\ c.at = "in"}

\* What an extract promises of its source, as it was at a record.  With the
\* filter by area, it has each node in the rectangle as it was, and no other, and
\* whatever else of nodes and ways belongs to it, but it may keep a way that has
\* left; and it may miss a relation that is in only for a node outside.
AsAt(content, row) ==
    IF useBbox
    THEN /\ Inside(content) = Inside(Fresh(row))
         /\ {c \in Fresh(row) : c.id \notin Relations} \subseteq content
    ELSE content = Fresh(row)

\* An extract is its source as it was at the extract's checkpoint: through
\* windows, crashes between them, failures, and edits committed meanwhile.  With
\* runs of the command alone it always is, as no two are at work at once.  It
\* need not be when the page updated it as well, and one of the two committed
\* from another checkpoint than the extract's own.
CurrentToCheckpoint ==
    \A e \in Stored \ (IF count.pages = 0 THEN {} ELSE mixed) :
        extract[e].row # None => AsAt(extract[e].content, extract[e].row)

\* An extract's checkpoint is never lost, never goes back and is never ahead of its
\* source.  Two updates of an extract at once would each set it to where it has got
\* itself, and the slower one would set it back: the lock of the command is what
\* prevents that.  The page asks for no lock, so that after its requests this holds
\* only of extracts updated from the checkpoint they have.
GoesForward ==
    [][\A e \in Stored \ (IF count'.pages = 0 THEN {} ELSE mixed') :
          extract[e].row # None /\ extract'[e].stored = "yes" =>
              extract'[e].row # None /\ extract[e].row <= extract'[e].row
                  /\ extract'[e].row <= Latest']_vars

\* What is said of the filter: that it leaves out nothing that could have
\* changed the extract, which is the same as without it.
FilterLeavesNothingOut ==
    \A e \in Stored \ (IF count.pages = 0 THEN {} ELSE mixed) :
        extract[e].row # None => extract[e].content = Fresh(extract[e].row)

\* Of an atomic edit, an extract has all that concerns it or nothing, however
\* edits lie across windows and whatever is committed between two of an update's
\* questions.  (A checkpoint may be in the midst of an edit, whose other records
\* the filter by area then leaves out.)
WholeEdits ==
    \A e \in Stored : extract[e].row # None =>
        \A row \in (extract[e].row + 1)..Latest :
            AtomicOf(row) = AtomicOf(extract[e].row) => ~Asked(row, useBbox)

\* Following the answers to a question gives every record asked for and no
\* other, however few an answer holds.
PagesComplete ==
    \A first, last \in 1..Latest, filtered \in BOOLEAN :
        Activities(first, last, filtered) = Wanted(first, last, filtered)

\* An extract that is updated automatically catches up with its source in the
\* end, if its records are not too old to be followed.
CatchesUp ==
    \A e \in Extracts :
        []<>(\/ e \notin Automatic
             \/ extract[e].row = Latest
             \/ extract[e].remote /\ (extract[e].row = None \/ extract[e].row < OldRows))
=============================================================================
