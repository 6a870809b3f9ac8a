-------------------------- MODULE MapUploadProofs --------------------------
(***************************************************************************)
(* What an upload may do to the map, for every map, every upload and any   *)
(* number of requests.  Inv says of each transaction how far the checks of *)
(* its block have come, and, of the lock, that the one transaction there   *)
(* is works from the map as it is still committed.                         *)
(***************************************************************************)
EXTENDS MapUploadRefinement, FiniteSetTheorems, TLAPS

\* Nodes are somewhere and refer to nothing, ways refer to nodes.
Shaped(i, e) ==
    /\ i \in Nodes => e.refs = {} /\ e.at \in Places
    /\ i \in Ways => e.refs \subseteq Nodes

MapOK(m) == Consistent(m) /\ \A i \in Ids : m[i].live => Shaped(i, m[i])

\* The checks of a block that are behind it.
Passed(t) ==
    /\ t.stage \in {"ways", "nodes", "members", "store"} => InUse(t, Relations, Relations) = {}
    /\ t.stage \in {"nodes", "members", "store"} => InUse(t, Ways, Relations) = {}
    /\ t.stage \in {"members", "store"} => InUse(t, Nodes, Ways) = {}
    /\ t.stage = "store" => InUse(t, Nodes, Relations) = {}

\* What is kept is used by something that is not to be deleted.
KeptUsed(t) ==
    \A i \in t.asked \ InBlock(t.block) :
        \E p \in Ids \ InBlock(t.block) : t.map[p].live /\ i \in t.map[p].refs

BlockOK(t) ==
    /\ ReferencesFound(t.map, t.action, t.block)
    /\ VersionsMatch(t.map, t.block)
    /\ \A i \in InBlock(t.block) : Shaped(i, t.block[i])
    /\ t.stage \notin {"read", "store"} => t.action = "delete"
    /\ t.action = "delete" => Passed(t) /\ KeptUsed(t)

\* What a transaction has changed of the committed map.
Changes(m, t) ==
    \A i \in Ids :
        \/ t.map[i] = m[i]
        \/ t.map[i].changeset = t.changeset /\ t.map[i].version > m[i].version

TxnOK(q, t) ==
    /\ MapOK(t.map)
    /\ t.stage # "read" => BlockOK(t)
    /\ changeset[t.changeset].open
    /\ changeset[t.changeset].owner = UserOf[q]
    /\ Changes(map, t)

Alone == \A p, q \in Requests : txn[p] # None /\ txn[q] # None => p = q

Inv ==
    /\ TypeOK
    /\ MapOK(map)
    /\ Alone
    /\ \A q \in Requests : txn[q] # None => TxnOK(q, txn[q])
------------------------------------------------------------------------------
USE ElementsAssumption, BoundsAssumption, ShapesAssumption, StartsAssumption

LEMMA InitInv == Init => Inv
  <1> SUFFICES ASSUME Init PROVE Inv
    OBVIOUS
  <1>1. TypeOK
    BY DEF Init, TypeOK, ChangesetType, NoChangeset
  <1>2. MapOK(map)
    BY DEF Init, MapOK, Shaped
  <1> QED
    BY <1>1, <1>2 DEF Init, Inv, Alone

\* A step of one transaction keeps Inv if what it becomes is in order.
LEMMA TxnStep ==
  ASSUME Inv, NEW q \in Requests, NEW t \in TxnType,
         txn' = [txn EXCEPT ![q] = t], UNCHANGED <<map, changeset>>,
         MapFree \/ txn[q] # None, TxnOK(q, t)
  PROVE  Inv'
  <1>1. TypeOK'
    BY DEF Inv, TypeOK
  <1>2. Alone'
    BY DEF Inv, TypeOK, Alone, MapFree
  <1>3. ASSUME NEW p \in Requests, txn'[p] # None
        PROVE  TxnOK(p, txn[p])'
    <2>1. p = q
      BY <1>3 DEF Inv, TypeOK, Alone, MapFree
    <2>2. txn'[p] = t
      BY <2>1 DEF Inv, TypeOK
    <2> QED
      BY <2>1, <2>2 DEF TxnOK
  <1> QED
    BY <1>1, <1>2, <1>3 DEF Inv

\* What a request does to a changeset it does with no transaction under way.
LEMMA ChangesetStep ==
  ASSUME Inv, MapFree, UNCHANGED <<map, txn>>,
         changeset' \in [Changesets -> ChangesetType]
  PROVE  Inv'
  BY DEF Inv, TypeOK, MapFree, Alone

LEMMA CloseOldType ==
  ASSUME Inv, CloseOldChangesets
  PROVE  changeset' \in [Changesets -> ChangesetType]
  <1>1. PICK old \in SUBSET {d \in Changesets : changeset[d].open} :
          changeset' = [d \in Changesets |->
              IF d \in old THEN [changeset[d] EXCEPT !.open = FALSE] ELSE changeset[d]]
    BY DEF CloseOldChangesets
  <1>2. ASSUME NEW x \in ChangesetType PROVE [x EXCEPT !.open = FALSE] \in ChangesetType
    BY DEF ChangesetType
  <1>3. \A d \in Changesets : changeset'[d] \in ChangesetType
    BY <1>1, <1>2 DEF Inv, TypeOK
  <1> QED
    BY <1>1, <1>3

LEMMA ChangesetsInv ==
  ASSUME Inv, NEW q \in Requests, NEW c \in Changesets,
         OpenChangeset(q, c) \/ CloseChangeset(q, c)
  PROVE  Inv'
  <1>1. MapFree /\ UNCHANGED <<map, txn>>
    BY DEF OpenChangeset, CloseChangeset
  <1>2. ASSUME NEW x \in ChangesetType, NEW y \in BOOLEAN
        PROVE  /\ [x EXCEPT !.open = y] \in ChangesetType
               /\ [x EXCEPT !.owner = UserOf[q], !.open = TRUE] \in ChangesetType
    BY DEF ChangesetType, Users
  <1>3. changeset' \in [Changesets -> ChangesetType]
    <2>1. CASE OpenChangeset(q, c)
      BY <1>2, <2>1 DEF Inv, TypeOK, OpenChangeset
    <2>2. CASE CloseChangeset(q, c)
      BY <1>2, <2>2 DEF Inv, TypeOK, CloseChangeset
    <2> QED
      BY <2>1, <2>2
  <1> QED
    BY <1>1, <1>3, ChangesetStep

LEMMA BeginInv ==
  ASSUME Inv, NEW q \in Requests, NEW c \in Changesets, BeginUpload(q, c)
  PROVE  Inv'
  <1> DEFINE t == [changeset |-> c, map |-> map, box |-> {}, elements |-> 0,
                   stage |-> "read", action |-> "create", ifunused |-> FALSE,
                   asked |-> {}, block |-> NoBlock]
  <1>1. t \in TxnType
    BY DEF Inv, TypeOK, TxnType, Stages, NoBlock
  <1>2. TxnOK(q, t)
    BY DEF Inv, TxnOK, BeginUpload, Changes
  <1> QED
    BY <1>1, <1>2, TxnStep DEF BeginUpload

LEMMA AbortInv ==
  ASSUME Inv, NEW q \in Requests, Abort(q)
  PROVE  Inv'
  <1>1. \A p \in Requests : txn'[p] = None \/ txn'[p] = txn[p]
    BY DEF Inv, TypeOK, Abort
  <1>2. TypeOK'
    BY DEF Inv, TypeOK, Abort
  <1> QED
    BY <1>1, <1>2 DEF Inv, Abort, Alone, TxnOK

LEMMA CommitInv ==
  ASSUME Inv, NEW q \in Requests, Commit(q)
  PROVE  Inv'
  <1>1. txn[q] \in TxnType /\ TxnOK(q, txn[q])
    BY DEF Inv, TypeOK, Commit
  <1>2. \A p \in Requests : txn'[p] = None
    BY DEF Inv, TypeOK, Commit, Alone
  <1>3. MapOK(map')
    BY <1>1 DEF Commit, TxnOK
  <1>4. TypeOK'
    <2>1. map' \in [Ids -> Element]
      BY <1>1 DEF Commit, TxnType
    <2>2. txn[q].changeset \in Changesets /\ txn[q].box \in SUBSET Places
      BY <1>1 DEF TxnType
    <2>3. ASSUME NEW x \in ChangesetType, NEW box \in SUBSET Places
          PROVE  [x EXCEPT !.box = x.box \cup box] \in ChangesetType
      BY DEF ChangesetType
    <2>4. changeset' \in [Changesets -> ChangesetType]
      <3>1. changeset[txn[q].changeset] \in ChangesetType
        BY <2>2 DEF Inv, TypeOK
      <3>2. [changeset[txn[q].changeset] EXCEPT !.box = changeset[txn[q].changeset].box
                                                          \cup txn[q].box] \in ChangesetType
        BY <2>2, <2>3, <3>1
      <3> QED
        BY <2>2, <3>2 DEF Inv, TypeOK, Commit
    <2> QED
      BY <1>2, <2>1, <2>4 DEF Inv, TypeOK, Commit
  <1> QED
    BY <1>2, <1>3, <1>4 DEF Inv, Alone

------------------------------------------------------------------------------
(* The blocks of an upload.                                                *)

LEMMA BlocksType ==
  ASSUME NEW action \in {"create", "modify", "delete"}, NEW ids \in SUBSET Ids,
         NEW block \in Blocks(action, ids)
  PROVE  /\ block \in [Ids -> Change \cup {None}]
         /\ InBlock(block) = ids
         /\ \A i \in ids : Shaped(i, block[i])
  <1>1. ASSUME NEW i \in Ids, NEW c \in ChangesOf(action, i)
        PROVE  c \in Change /\ c # None /\ Shaped(i, c)
    <2>1. c \in Change
      <3>1. /\ c = [version |-> c.version, at |-> c.at, refs |-> c.refs,
                    retagged |-> c.retagged]
            /\ c.version \in (IF action = "create" THEN {0} ELSE 1..(MaxVersion - 1))
            /\ c.at \in (IF i \in Nodes THEN Places ELSE {None})
            /\ c.refs \in Shapes[i]
            /\ c.retagged \in (IF action = "modify" /\ i \in Relations
                               THEN BOOLEAN ELSE {FALSE})
        BY DEF ChangesOf
      <3>2. c.version \in Nat
        BY <3>1
      <3>3. c.at \in Places \cup {None}
        BY <3>1
      <3>4. c.retagged \in BOOLEAN
        BY <3>1
      <3> QED
        BY <3>1, <3>2, <3>3, <3>4 DEF Change
    <2>2. c.refs \in Shapes[i] /\ (i \in Nodes => c.at \in Places)
      BY DEF ChangesOf
    <2> QED
      BY <2>1, <2>2 DEF Shaped
  <1>2. PICK change \in [ids -> UNION {ChangesOf(action, i) : i \in ids}] :
          /\ \A i \in ids : change[i] \in ChangesOf(action, i)
          /\ block = [i \in Ids |-> IF i \in ids THEN change[i] ELSE None]
    BY DEF Blocks
  <1>3. \A i \in ids : block[i] \in Change /\ block[i] # None /\ Shaped(i, block[i])
    BY <1>1, <1>2
  <1> QED
    BY <1>2, <1>3 DEF InBlock

\* A transaction that was t and has read a block of such an action and elements.
WithBlock(t, new, action, ids) ==
    /\ new.map = t.map /\ new.box = t.box /\ new.changeset = t.changeset
    /\ new.stage = IF action = "delete" THEN "relations" ELSE "store"
    /\ new.elements = t.elements + Cardinality(ids)
    /\ new.action = action /\ new.asked = ids
    /\ InBlock(new.block) = ids
    /\ \A i \in ids : Shaped(i, new.block[i])
    /\ ReferencesFound(new.map, action, new.block)
    /\ VersionsMatch(new.map, new.block)

LEMMA ReadIs ==
  ASSUME Inv, NEW q \in Requests, NEW action \in {"create", "modify", "delete"},
         NEW ids \in SUBSET Ids, NEW ifunused \in BOOLEAN,
         ReadBlock(q, action, ids, ifunused)
  PROVE  \E t \in TxnType : txn' = [txn EXCEPT ![q] = t] /\ WithBlock(txn[q], t, action, ids)
  <1>1. txn[q] \in TxnType
    BY DEF Inv, TypeOK, ReadBlock
  <1>2. PICK block \in Blocks(action, ids) :
          /\ ReferencesFound(txn[q].map, action, block)
          /\ VersionsMatch(txn[q].map, block)
          /\ txn' = [txn EXCEPT ![q] = [txn[q] EXCEPT
                !.stage = IF action = "delete" THEN "relations" ELSE "store",
                !.elements = @ + Cardinality(ids),
                !.action = action, !.ifunused = ifunused,
                !.asked = ids, !.block = block]]
    BY DEF ReadBlock
  <1> DEFINE count == txn[q].elements + Cardinality(ids)
             stage == IF action = "delete" THEN "relations" ELSE "store"
             t == [txn[q] EXCEPT !.stage = stage, !.elements = count,
                                 !.action = action, !.ifunused = ifunused,
                                 !.asked = ids, !.block = block]
  <1>3. txn' = [txn EXCEPT ![q] = t]
    BY <1>2
  <1>4. count \in 0..MaxElements
    <2>1. IsFiniteSet(ids)
      BY FS_Subset
    <2>2. Cardinality(ids) \in Nat
      BY <2>1, FS_CardinalityType
    <2>3. count <= MaxElements
      BY DEF ReadBlock, UploadFits
    <2> QED
      BY <1>1, <2>2, <2>3 DEF TxnType
  <1>5. /\ block \in [Ids -> Change \cup {None}]
        /\ InBlock(block) = ids
        /\ \A i \in ids : Shaped(i, block[i])
    BY BlocksType
  <1>6. stage \in Stages
    BY DEF Stages
  <1> HIDE DEF count, stage
  <1>7. t \in TxnType
    BY <1>1, <1>4, <1>5, <1>6 DEF TxnType
  <1>8. /\ t.map = txn[q].map /\ t.box = txn[q].box /\ t.changeset = txn[q].changeset
        /\ t.stage = stage /\ t.elements = count /\ t.action = action /\ t.asked = ids
        /\ t.block = block
    BY <1>1 DEF TxnType
  <1> HIDE DEF t
  <1> QED
    BY <1>2, <1>3, <1>5, <1>7, <1>8 DEF count, stage, WithBlock

LEMMA ReadInv ==
  ASSUME Inv, NEW q \in Requests, NEW action \in {"create", "modify", "delete"},
         NEW ids \in SUBSET Ids, NEW ifunused \in BOOLEAN,
         ReadBlock(q, action, ids, ifunused)
  PROVE  Inv'
  <1> HIDE ElementsAssumption, BoundsAssumption, ShapesAssumption, StartsAssumption
  <1>1. TxnOK(q, txn[q]) /\ txn[q] # None
    BY DEF Inv, ReadBlock
  <1>2. PICK t \in TxnType : txn' = [txn EXCEPT ![q] = t] /\ WithBlock(txn[q], t, action, ids)
    BY ReadIs
  <1>3. BlockOK(t)
    BY <1>2 DEF WithBlock, BlockOK, Passed, KeptUsed
  <1>4. TxnOK(q, t)
    BY <1>1, <1>2, <1>3 DEF WithBlock, TxnOK, Changes
  <1> QED
    BY <1>1, <1>2, <1>4, TxnStep DEF ReadBlock

\* What a check of deletions leaves of a transaction.
Kept(t, next, used) ==
    [t EXCEPT !.stage = next,
              !.block = [i \in Ids |-> IF i \in used THEN None ELSE t.block[i]]]

\* A check of deletions, and what it is to have made sure of.
LEMMA KeepStep ==
  ASSUME Inv, NEW q \in Requests, NEW stage \in Stages \ {"read", "store"},
         NEW next \in Stages \ {"read"}, NEW used \in SUBSET Ids,
         Keep(q, stage, used, next),
         used \subseteq InBlock(txn[q].block),
         \A i \in used : \E p \in Ids \ InBlock(txn[q].block) :
             txn[q].map[p].live /\ i \in txn[q].map[p].refs,
         Passed(Kept(txn[q], next, used))
  PROVE  Inv'
  <1> DEFINE t == Kept(txn[q], next, used)
  <1>1. txn[q] \in TxnType /\ TxnOK(q, txn[q]) /\ txn[q] # None
    BY DEF Inv, TypeOK, Keep
  <1>2. txn' = [txn EXCEPT ![q] = t]
    BY DEF Keep, Kept
  <1> DEFINE block == [i \in Ids |-> IF i \in used THEN None ELSE txn[q].block[i]]
  <1>3. block \in [Ids -> Change \cup {None}]
    BY <1>1 DEF TxnType
  <1>4. /\ InBlock(block) = InBlock(txn[q].block) \ used
        /\ \A i \in InBlock(block) : block[i] = txn[q].block[i]
    BY DEF InBlock
  <1> HIDE DEF block
  <1>5. t = [txn[q] EXCEPT !.stage = next, !.block = block]
    BY DEF block, Kept
  <1> HIDE DEF t
  <1>6. t \in TxnType
    BY <1>1, <1>3, <1>5 DEF TxnType
  <1>7. /\ t.map = txn[q].map /\ t.changeset = txn[q].changeset
        /\ t.stage = next /\ t.action = txn[q].action /\ t.asked = txn[q].asked
        /\ t.block = block
    BY <1>1, <1>5 DEF TxnType
  <1>8. BlockOK(txn[q]) /\ txn[q].action = "delete"
    BY <1>1 DEF TxnOK, Keep, BlockOK
  <1>9. KeptUsed(t)
    BY <1>4, <1>7, <1>8 DEF BlockOK, KeptUsed
  <1>10. BlockOK(t)
    BY <1>4, <1>7, <1>8, <1>9 DEF t, BlockOK, ReferencesFound, VersionsMatch
  <1>11. TxnOK(q, t)
    BY <1>1, <1>7, <1>10 DEF TxnOK, Changes
  <1> QED
    BY <1>1, <1>2, <1>6, <1>11, TxnStep DEF Keep, t

LEMMA KeepInv ==
  ASSUME Inv, NEW q \in Requests,
         KeepRelations(q) \/ KeepWays(q) \/ KeepNodesOfWays(q) \/ KeepMemberNodes(q)
  PROVE  Inv'
  <1>1. /\ txn[q] \in TxnType /\ txn[q] # None
        /\ TxnOK(q, txn[q]) /\ txn[q].stage # "read"
    BY DEF Inv, TypeOK, KeepRelations, KeepWays, KeepNodesOfWays, KeepMemberNodes, Keep
  <1>2. Passed(txn[q]) \/ txn[q].stage = "store"
    BY <1>1 DEF TxnOK, BlockOK
  <1>3. ASSUME NEW next, NEW used \in SUBSET Ids
        PROVE  /\ Kept(txn[q], next, used).map = txn[q].map
               /\ Kept(txn[q], next, used).stage = next
               /\ InBlock(Kept(txn[q], next, used).block) = InBlock(txn[q].block) \ used
    BY <1>1 DEF TxnType, InBlock, Kept
  <1>4. ASSUME NEW next, NEW used \in SUBSET Ids,
               NEW kind, NEW parents, parents \cap used = {}
        PROVE  InUse(Kept(txn[q], next, used), kind, parents) = InUse(txn[q], kind, parents) \ used
    <2> DEFINE s == Kept(txn[q], next, used)
    <2>1. s.map = txn[q].map /\ InBlock(s.block) = InBlock(txn[q].block) \ used
      BY <1>3
    <2> HIDE DEF s
    <2>2. parents \ InBlock(s.block) = parents \ InBlock(txn[q].block)
      BY <1>4, <2>1
    <2>3. InUse(s, kind, parents) = InUse(txn[q], kind, parents) \ used
      BY <2>1, <2>2, Zenon DEF InUse
    <2> QED
      BY <2>3 DEF s
  <1>5. ASSUME NEW kind \in SUBSET Ids, NEW parents \in SUBSET Ids
        PROVE  /\ InUse(txn[q], kind, parents) \subseteq kind
               /\ InUse(txn[q], kind, parents) \subseteq InBlock(txn[q].block)
               /\ \A i \in InUse(txn[q], kind, parents) :
                     \E p \in Ids \ InBlock(txn[q].block) :
                         txn[q].map[p].live /\ i \in txn[q].map[p].refs
    BY DEF InUse
  <1>6. Nodes \in SUBSET Ids /\ Ways \in SUBSET Ids /\ Relations \in SUBSET Ids
    BY DEF Ids
  <1>7. CASE KeepRelations(q)
    <2> DEFINE used == InUse(txn[q], Relations, Relations)
               next == IF used = {} THEN "ways" ELSE "relations"
               t == Kept(txn[q], next, used)
    <2>1. Keep(q, "relations", used, next)
      BY <1>7 DEF KeepRelations
    <2>2. next \in Stages \ {"read"} /\ "relations" \in Stages \ {"read", "store"}
      BY DEF Stages
    <2>3. /\ used \in SUBSET Relations /\ used \in SUBSET Ids
          /\ used \subseteq InBlock(txn[q].block)
          /\ \A i \in used : \E p \in Ids \ InBlock(txn[q].block) :
                 txn[q].map[p].live /\ i \in txn[q].map[p].refs
      BY <1>5, <1>6
    <2>4. t.stage = next
      BY <1>3, <2>3
    <2>5. Passed(t)
      <3>1. CASE used = {}
        <4>1. InUse(t, Relations, Relations) = {}
          BY <1>4, <2>3, <3>1
        <4> QED
          BY <2>4, <3>1, <4>1 DEF Passed
      <3>2. CASE used # {}
        BY <2>4, <3>2 DEF Passed
      <3> QED
        BY <3>1, <3>2
    <2> HIDE DEF used, next
    <2> QED
      BY <2>1, <2>2, <2>3, <2>5, KeepStep
  <1>8. CASE KeepWays(q)
    <2> DEFINE used == InUse(txn[q], Ways, Relations)
               t == Kept(txn[q], "nodes", used)
    <2>1. Keep(q, "ways", used, "nodes") /\ txn[q].stage = "ways"
      BY <1>8 DEF KeepWays, Keep
    <2>2. "ways" \in Stages \ {"read", "store"} /\ "nodes" \in Stages \ {"read"}
      BY DEF Stages
    <2>3. /\ used \in SUBSET Ways /\ used \in SUBSET Ids
          /\ used \subseteq InBlock(txn[q].block)
          /\ \A i \in used : \E p \in Ids \ InBlock(txn[q].block) :
                 txn[q].map[p].live /\ i \in txn[q].map[p].refs
      BY <1>5, <1>6
    <2>4. InUse(t, Ways, Relations) = {} /\ t.stage = "nodes"
      <3>1. Relations \cap used = {}
        BY <2>3
      <3>2. InUse(t, Ways, Relations) = used \ used
        BY <1>4, <2>3, <3>1
      <3>3. t.stage = "nodes"
        BY <1>3, <2>3
      <3> QED
        BY <3>2, <3>3
    <2>5. /\ InUse(t, Relations, Relations) = InUse(txn[q], Relations, Relations) \ used
      <3>1. Relations \cap used = {}
        BY <2>3
      <3> HIDE DEF used
      <3> QED
        BY <1>4, <2>3, <3>1
    <2>6. Passed(t)
      BY <1>2, <2>1, <2>4, <2>5 DEF Passed
    <2> HIDE DEF used
    <2> QED
      BY <2>1, <2>2, <2>3, <2>6, KeepStep
  <1>9. CASE KeepNodesOfWays(q)
    <2> DEFINE used == InUse(txn[q], Nodes, Ways)
               t == Kept(txn[q], "members", used)
    <2>1. Keep(q, "nodes", used, "members") /\ txn[q].stage = "nodes"
      BY <1>9 DEF KeepNodesOfWays, Keep
    <2>2. "nodes" \in Stages \ {"read", "store"} /\ "members" \in Stages \ {"read"}
      BY DEF Stages
    <2>3. /\ used \in SUBSET Nodes /\ used \in SUBSET Ids
          /\ used \subseteq InBlock(txn[q].block)
          /\ \A i \in used : \E p \in Ids \ InBlock(txn[q].block) :
                 txn[q].map[p].live /\ i \in txn[q].map[p].refs
      BY <1>5, <1>6
    <2>4. InUse(t, Nodes, Ways) = {} /\ t.stage = "members"
      <3>1. Ways \cap used = {}
        BY <2>3
      <3>2. InUse(t, Nodes, Ways) = used \ used
        BY <1>4, <2>3, <3>1
      <3>3. t.stage = "members"
        BY <1>3, <2>3
      <3> QED
        BY <3>2, <3>3
    <2>5. /\ InUse(t, Relations, Relations) = InUse(txn[q], Relations, Relations) \ used
          /\ InUse(t, Ways, Relations) = InUse(txn[q], Ways, Relations) \ used
      <3>1. Relations \cap used = {}
        BY <2>3
      <3> HIDE DEF used
      <3> QED
        BY <1>4, <2>3, <3>1
    <2>6. Passed(t)
      BY <1>2, <2>1, <2>4, <2>5 DEF Passed
    <2> HIDE DEF used
    <2> QED
      BY <2>1, <2>2, <2>3, <2>6, KeepStep
  <1>10. CASE KeepMemberNodes(q)
    <2> DEFINE used == InUse(txn[q], Nodes, Relations)
               t == Kept(txn[q], "store", used)
    <2>1. Keep(q, "members", used, "store") /\ txn[q].stage = "members"
      BY <1>10 DEF KeepMemberNodes, Keep
    <2>2. "members" \in Stages \ {"read", "store"} /\ "store" \in Stages \ {"read"}
      BY DEF Stages
    <2>3. /\ used \in SUBSET Nodes /\ used \in SUBSET Ids
          /\ used \subseteq InBlock(txn[q].block)
          /\ \A i \in used : \E p \in Ids \ InBlock(txn[q].block) :
                 txn[q].map[p].live /\ i \in txn[q].map[p].refs
      BY <1>5, <1>6
    <2>4. InUse(t, Nodes, Relations) = {} /\ t.stage = "store"
      <3>1. Relations \cap used = {}
        BY <2>3
      <3>2. InUse(t, Nodes, Relations) = used \ used
        BY <1>4, <2>3, <3>1
      <3>3. t.stage = "store"
        BY <1>3, <2>3
      <3> QED
        BY <3>2, <3>3
    <2>5. /\ InUse(t, Relations, Relations) = InUse(txn[q], Relations, Relations) \ used
          /\ InUse(t, Ways, Relations) = InUse(txn[q], Ways, Relations) \ used
          /\ InUse(t, Nodes, Ways) = InUse(txn[q], Nodes, Ways) \ used
      <3>1. Relations \cap used = {} /\ Ways \cap used = {}
        BY <2>3
      <3> HIDE DEF used
      <3> QED
        BY <1>4, <2>3, <3>1
    <2>6. Passed(t)
      BY <1>2, <2>1, <2>4, <2>5 DEF Passed
    <2> HIDE DEF used
    <2> QED
      BY <2>1, <2>2, <2>3, <2>6, KeepStep
  <1> QED
    BY <1>7, <1>8, <1>9, <1>10

------------------------------------------------------------------------------
(* What storing a block makes of the map.                                  *)

LEMMA StoredIs ==
  ASSUME NEW t \in TxnType, NEW i \in Ids
  PROVE  /\ i \in InBlock(t.block) =>
              /\ Stored(t)[i].version = t.block[i].version + 1
              /\ Stored(t)[i].live = (t.action # "delete")
              /\ t.action # "delete" => Stored(t)[i].refs = t.block[i].refs
                                      /\ Stored(t)[i].at = t.block[i].at
              /\ Stored(t)[i].changeset = t.changeset
              /\ Stored(t)[i] \in Element
         /\ i \notin InBlock(t.block) => Stored(t)[i] = t.map[i]
  <1>1. CASE i \in InBlock(t.block)
    <2>1. t.block[i] \in Change
      BY <1>1 DEF TxnType, InBlock
    <2> QED
      BY <1>1, <2>1 DEF Stored, TxnType, Change, Element
  <1>2. CASE i \notin InBlock(t.block)
    BY <1>2 DEF Stored
  <1> QED
    BY <1>1, <1>2

LEMMA StoredType ==
  ASSUME NEW t \in TxnType
  PROVE  Stored(t) \in [Ids -> Element]
  <1>1. \A i \in Ids : Stored(t)[i] \in Element
    BY StoredIs DEF TxnType
  <1> QED
    BY <1>1 DEF Stored

LEMMA StoredOK ==
  ASSUME NEW t \in TxnType, t.stage = "store", MapOK(t.map), BlockOK(t)
  PROVE  MapOK(Stored(t))
  <1> DEFINE m == Stored(t)
  <1>1. CASE t.action # "delete"
    <2>1. ASSUME NEW i \in Ids, t.map[i].live PROVE m[i].live
      BY <1>1, <2>1, StoredIs
    <2>2. ASSUME NEW i \in Ids, m[i].live
          PROVE  Shaped(i, m[i]) /\ \A j \in m[i].refs : m[j].live
      <3>1. CASE i \in InBlock(t.block)
        <4>1. m[i].refs = t.block[i].refs /\ m[i].at = t.block[i].at
          BY <1>1, <3>1, StoredIs
        <4>2. t.block[i] \in Change
          BY <3>1 DEF TxnType, InBlock
        <4>3. \A j \in t.block[i].refs : j \in Ids /\ (t.map[j].live \/ j \in InBlock(t.block))
          BY <3>1, <4>2 DEF BlockOK, ReferencesFound, Change
        <4>4. \A j \in t.block[i].refs : m[j].live
          BY <1>1, <2>1, <4>3, StoredIs
        <4> QED
          BY <3>1, <4>1, <4>4 DEF BlockOK, Shaped
      <3>2. CASE i \notin InBlock(t.block)
        <4>1. m[i] = t.map[i]
          BY <3>2, StoredIs
        <4>2. t.map[i] \in Element
          BY DEF TxnType
        <4>3. \A j \in t.map[i].refs : j \in Ids /\ t.map[j].live
          BY <2>2, <4>1, <4>2 DEF MapOK, Consistent, Element
        <4> QED
          BY <2>1, <2>2, <4>1, <4>3 DEF MapOK
      <3> QED
        BY <3>1, <3>2
    <2> QED
      BY <2>2 DEF MapOK, Consistent
  <1>2. CASE t.action = "delete"
    <2>1. /\ InUse(t, Relations, Relations) = {} /\ InUse(t, Ways, Relations) = {}
          /\ InUse(t, Nodes, Ways) = {} /\ InUse(t, Nodes, Relations) = {}
      BY <1>2 DEF BlockOK, Passed
    <2>2. ASSUME NEW i \in Ids, m[i].live
          PROVE  Shaped(i, m[i]) /\ \A j \in m[i].refs : m[j].live
      <3>1. i \notin InBlock(t.block) /\ m[i] = t.map[i]
        BY <1>2, <2>2, StoredIs
      <3>2. t.map[i].live /\ Shaped(i, t.map[i])
        BY <2>2, <3>1 DEF MapOK
      <3>3. ASSUME NEW j \in t.map[i].refs PROVE m[j].live
        <4>1. j \in Ids /\ t.map[j].live
          <5>1. t.map[i] \in Element
            BY DEF TxnType
          <5> QED
            BY <3>2, <5>1 DEF MapOK, Consistent, Element
        <4>2. j \notin InBlock(t.block)
          <5>1. CASE i \in Relations
            <6>1. j \in Relations \/ j \in Ways \/ j \in Nodes
              BY <4>1 DEF Ids
            <6> QED
              BY <2>1, <3>1, <3>2, <5>1, <6>1 DEF InUse
          <5>2. CASE i \in Ways
            <6>1. j \in Nodes
              BY <3>2, <5>2 DEF Shaped
            <6> QED
              BY <2>1, <3>1, <3>2, <5>2, <6>1 DEF InUse
          <5>3. CASE i \in Nodes
            BY <3>2, <5>3 DEF Shaped
          <5> QED
            BY <5>1, <5>2, <5>3 DEF Ids
        <4> QED
          BY <4>1, <4>2, StoredIs
      <3> QED
        BY <3>1, <3>2, <3>3
    <2> QED
      BY <2>2 DEF MapOK, Consistent
  <1> QED
    BY <1>1, <1>2

LEMMA WhereType ==
  ASSUME NEW m, MapOK(m), NEW ids
  PROVE  Where(m, ids) \subseteq Places
  BY DEF Where, MapOK, Shaped, Ids

LEMMA StretchType ==
  ASSUME NEW t \in TxnType, t.stage = "store", MapOK(t.map), BlockOK(t)
  PROVE  Stretch(t, Stored(t)) \subseteq Places
  <1>1. \A n \in Nodes \cap InBlock(t.block) : t.block[n].at \in Places
    BY DEF BlockOK, Shaped
  <1>2. MapOK(Stored(t))
    BY StoredOK
  <1>3. Extent(Stored(t), MembersTouched(t)) \subseteq Places
    BY <1>2, WhereType DEF Extent
  <1>4. Where(Stored(t), UNION {t.block[w].refs : w \in Ways \cap InBlock(t.block)})
          \subseteq Places
    BY <1>2, WhereType
  <1>5. Where(t.map, t.asked) \subseteq Places
    BY WhereType
  <1> QED
    BY <1>1, <1>3, <1>4, <1>5 DEF Stretch

LEMMA StoreInv ==
  ASSUME Inv, NEW q \in Requests, StoreBlock(q)
  PROVE  Inv'
  <1>1. /\ txn[q] \in TxnType /\ txn[q] # None /\ TxnOK(q, txn[q])
        /\ txn[q].stage = "store" /\ BlockOK(txn[q]) /\ MapOK(txn[q].map)
    BY DEF Inv, TypeOK, StoreBlock, TxnOK
  <1> DEFINE m == Stored(txn[q])
             box == txn[q].box \cup Stretch(txn[q], m)
             t == [txn[q] EXCEPT !.stage = "read", !.map = m, !.box = box,
                                 !.action = "create", !.ifunused = FALSE,
                                 !.asked = {}, !.block = NoBlock]
  <1>2. txn' = [txn EXCEPT ![q] = t]
    BY DEF StoreBlock
  <1>3. m \in [Ids -> Element]
    BY <1>1, StoredType
  <1>4. box \in SUBSET Places
    BY <1>1, StretchType DEF TxnType
  <1>5. MapOK(m)
    BY <1>1, StoredOK
  <1>6. Changes(map, [txn[q] EXCEPT !.map = m])
    <2>1. ASSUME NEW i \in Ids
          PROVE  \/ m[i] = map[i]
                 \/ m[i].changeset = txn[q].changeset /\ m[i].version > map[i].version
      <3>1. CASE i \in InBlock(txn[q].block)
        <4>1. /\ m[i].version = txn[q].block[i].version + 1
              /\ m[i].changeset = txn[q].changeset
          BY <1>1, <3>1, StoredIs
        <4>2. txn[q].block[i].version = txn[q].map[i].version
          BY <1>1, <3>1 DEF BlockOK, VersionsMatch
        <4>3. \/ txn[q].map[i].version = map[i].version
              \/ txn[q].map[i].version > map[i].version
          BY <1>1 DEF TxnOK, Changes
        <4>4. txn[q].map[i].version \in Nat /\ map[i].version \in Nat
          BY <1>1 DEF Inv, TypeOK, TxnType, Element
        <4> QED
          BY <4>1, <4>2, <4>3, <4>4
      <3>2. CASE i \notin InBlock(txn[q].block)
        BY <1>1, <3>2, StoredIs DEF TxnOK, Changes
      <3> QED
        BY <3>1, <3>2
    <2> HIDE DEF m
    <2> QED
      BY <1>1, <2>1 DEF Changes, TxnType
  <1> HIDE DEF m, box
  <1>7. t \in TxnType
    BY <1>1, <1>3, <1>4 DEF TxnType, Stages, NoBlock
  <1>8. /\ t.map = m /\ t.stage = "read" /\ t.changeset = txn[q].changeset
        /\ Changes(map, t)
    BY <1>1, <1>6 DEF TxnType, Changes
  <1> HIDE DEF t
  <1>9. TxnOK(q, t)
    BY <1>1, <1>5, <1>8 DEF TxnOK
  <1> QED
    BY <1>1, <1>2, <1>7, <1>9, TxnStep DEF StoreBlock

LEMMA NextInv == Inv /\ [Next]_vars => Inv'
  <1> SUFFICES ASSUME Inv, [Next]_vars PROVE Inv'
    OBVIOUS
  <1>1. CASE UNCHANGED vars
    <2>1. \A q \in Requests : TxnOK(q, txn[q])' <=> TxnOK(q, txn[q])
      BY <1>1 DEF vars, TxnOK
    <2> QED
      BY <1>1, <2>1 DEF Inv, vars, TypeOK, Alone
  <1>2. CASE CloseOldChangesets
    <2>1. MapFree /\ UNCHANGED <<map, txn>>
      BY <1>2 DEF CloseOldChangesets
    <2> QED
      BY <1>2, <2>1, CloseOldType, ChangesetStep
  <1>3. ASSUME NEW q \in Requests, NEW c \in Changesets,
               OpenChangeset(q, c) \/ CloseChangeset(q, c) \/ BeginUpload(q, c)
        PROVE  Inv'
    BY <1>3, ChangesetsInv, BeginInv
  <1>4. ASSUME NEW q \in Requests, NEW action \in {"create", "modify"},
               NEW ids \in SUBSET Ids, ReadBlock(q, action, ids, FALSE)
        PROVE  Inv'
    <2>1. action \in {"create", "modify", "delete"}
      BY <1>4
    <2> QED
      BY <1>4, <2>1, ReadInv
  <1>5. ASSUME NEW q \in Requests, NEW ids \in SUBSET Ids, NEW ifunused \in BOOLEAN,
               ReadBlock(q, "delete", ids, ifunused)
        PROVE  Inv'
    BY <1>5, ReadInv
  <1>6. ASSUME NEW q \in Requests,
               \/ KeepRelations(q) \/ KeepWays(q)
               \/ KeepNodesOfWays(q) \/ KeepMemberNodes(q)
        PROVE  Inv'
    BY <1>6, KeepInv
  <1>7. ASSUME NEW q \in Requests, StoreBlock(q) \/ Commit(q) \/ Abort(q)
        PROVE  Inv'
    BY <1>7, StoreInv, CommitInv, AbortInv
  <1> QED
    <2>1. CASE \E q \in Requests, c \in Changesets :
                 OpenChangeset(q, c) \/ CloseChangeset(q, c) \/ BeginUpload(q, c)
      BY <1>3, <2>1
    <2>2. CASE \E q \in Requests, action \in {"create", "modify"}, ids \in SUBSET Ids :
                 ReadBlock(q, action, ids, FALSE)
      BY <1>4, <2>2
    <2>3. CASE \E q \in Requests, ids \in SUBSET Ids, ifunused \in BOOLEAN :
                 ReadBlock(q, "delete", ids, ifunused)
      BY <1>5, <2>3
    <2>4. CASE Next
      BY <1>2, <1>6, <1>7, <2>1, <2>2, <2>3, <2>4, Zenon DEF Next
    <2> QED
      BY <1>1, <2>4

THEOREM Invariance == Spec => []Inv
  BY InitInv, NextInv, PTL DEF Spec

------------------------------------------------------------------------------
\* Every variable keeps its type: among others, the elements of an upload are
\* no more than CHANGESETS_MAXIMUM_ELEMENTS, however they are spread over blocks.
THEOREM UploadTypeCorrect == Spec => []TypeOK
  <1>1. Inv => TypeOK
    BY DEF Inv
  <1> QED
    BY <1>1, Invariance, PTL

\* Nothing live refers to what is not, in the committed map or in that of an
\* upload between its blocks.
THEOREM IntegrityKept == Spec => []Integrity
  <1>1. Inv => Integrity
    BY DEF Inv, Integrity, MapOK, TxnOK
  <1> QED
    BY <1>1, Invariance, PTL

\* Only a commit changes the committed map.
LEMMA OnlyCommit ==
  ASSUME [Next]_vars, map' # map
  PROVE  \E q \in Requests : Commit(q)
  BY DEF Next, vars, CloseOldChangesets, OpenChangeset, CloseChangeset, BeginUpload,
         ReadBlock, KeepRelations, KeepWays, KeepNodesOfWays, KeepMemberNodes, Keep,
         StoreBlock, Abort

\* The committed map changes only in an open changeset of the user who uploads.
THEOREM OpenChangesetsOnly == Spec => OnlyOpenChangesets
  <1> DEFINE A == \A i \in Ids : map'[i] # map[i] =>
                 LET c == map'[i].changeset
                 IN /\ changeset[c].open
                    /\ \E q \in Requests :
                          txn[q] # None /\ txn'[q] = None /\ changeset[c].owner = UserOf[q]
  <1>1. Inv /\ [Next]_vars => A
    <2> SUFFICES ASSUME Inv, [Next]_vars, NEW i \in Ids, map'[i] # map[i]
                 PROVE  /\ changeset[map'[i].changeset].open
                        /\ \E q \in Requests :
                              /\ txn[q] # None /\ txn'[q] = None
                              /\ changeset[map'[i].changeset].owner = UserOf[q]
      OBVIOUS
    <2>1. PICK q \in Requests : Commit(q)
      BY OnlyCommit
    <2>2. TxnOK(q, txn[q])
      BY <2>1 DEF Inv, Commit
    <2>3. map'[i] = txn[q].map[i] /\ txn[q] # None /\ txn'[q] = None
      BY <2>1 DEF Commit, Inv, TypeOK
    <2>4. map'[i].changeset = txn[q].changeset
      BY <2>2, <2>3 DEF TxnOK, Changes
    <2> QED
      BY <2>2, <2>3, <2>4 DEF TxnOK
  <1> QED
    BY <1>1, Invariance, PTL DEF Spec, OnlyOpenChangesets

\* A commit raises the version of each element that it changes.
THEOREM VersionsOnce == Spec => VersionsStoredOnce
  <1> DEFINE A == \A i \in Ids : map'[i] # map[i] => map'[i].version > map[i].version
  <1>1. Inv /\ [Next]_vars => A
    <2> SUFFICES ASSUME Inv, [Next]_vars, NEW i \in Ids, map'[i] # map[i]
                 PROVE  map'[i].version > map[i].version
      OBVIOUS
    <2>1. PICK q \in Requests : Commit(q)
      BY OnlyCommit
    <2>2. Changes(map, txn[q])
      BY <2>1 DEF Inv, Commit, TxnOK
    <2>3. map' = txn[q].map
      BY <2>1 DEF Commit
    <2> QED
      BY <2>2, <2>3 DEF Changes
  <1> QED
    BY <1>1, Invariance, PTL DEF Spec, VersionsStoredOnce

\* With if-unused, what is kept is in use once the rest is deleted.
THEOREM KeptInUse == Spec => KeptForAUse
  <1> DEFINE A == \A q \in Requests :
                 StoreBlock(q) /\ txn[q].action = "delete" =>
                     \A i \in txn[q].asked \ InBlock(txn[q].block) :
                         \E p \in Ids : txn[q]'.map[p].live /\ i \in txn[q]'.map[p].refs
  <1>1. Inv /\ [Next]_vars => A
    <2> SUFFICES ASSUME Inv, NEW q \in Requests, StoreBlock(q), txn[q].action = "delete",
                        NEW i \in txn[q].asked \ InBlock(txn[q].block)
                 PROVE  \E p \in Ids : txn[q]'.map[p].live /\ i \in txn[q]'.map[p].refs
      OBVIOUS
    <2>1. txn[q] \in TxnType /\ BlockOK(txn[q])
      BY DEF Inv, TypeOK, StoreBlock, TxnOK
    <2>2. PICK p \in Ids \ InBlock(txn[q].block) :
            txn[q].map[p].live /\ i \in txn[q].map[p].refs
      BY <2>1 DEF BlockOK, KeptUsed
    <2>3. txn[q]'.map = Stored(txn[q])
      BY <2>1 DEF StoreBlock, TxnType, Inv, TypeOK
    <2>4. txn[q]'.map[p] = txn[q].map[p]
      BY <2>1, <2>2, <2>3, StoredIs
    <2> QED
      BY <2>2, <2>4
  <1> QED
    BY <1>1, Invariance, PTL DEF Spec, KeptForAUse

------------------------------------------------------------------------------
(* The box of a changeset.  A transaction's box is stretched block by block *)
(* by what the map holds then.  That it is right when all the blocks are    *)
(* committed needs, of each element changed so far, that the box has what   *)
(* the change would touch if nothing followed: and a later block, where it  *)
(* moves what an earlier one touched, stretches the box for that itself.    *)

\* What is live was created, as the versions tell.
Made(m) == \A i \in Ids : m[i].live => m[i].version > 0

\* A block is of what was asked; what it creates was never there.
BlockAsked(t) ==
    /\ InBlock(t.block) \subseteq t.asked
    /\ t.action = "create" => \A i \in InBlock(t.block) : t.map[i].version = 0

\* Of a relation that was m and is by now as the transaction has it, the members
\* that its box must have.
Members(old, new) ==
    IF ~old.live
    THEN IF new.live THEN new.refs ELSE {}
    ELSE IF ~new.live THEN old.refs
    ELSE IF SymDiff(old.refs, new.refs) \cap Relations # {} THEN old.refs \cup new.refs
    ELSE SymDiff(old.refs, new.refs)

\* The transaction's box has the places of an element, as its map has it.
Boxed(t, j) == Extent(t.map, {j}) \subseteq t.box

\* The box has what a change touches, were the transaction to commit now.
ChangeBoxed(m, t, i) ==
    /\ i \in Nodes => Where(m, {i}) \subseteq t.box
    /\ i \in Nodes \cup Ways => Boxed(t, i)
    /\ i \in Relations => \A j \in Members(m[i], t.map[i]) : Boxed(t, j)

BoxOK(m, t) ==
    /\ Made(t.map)
    /\ t.stage # "read" => BlockAsked(t)
    /\ \A i \in Ids : t.map[i] # m[i] => ChangeBoxed(m, t, i)

BoxInv ==
    /\ Made(map)
    /\ \A q \in Requests : txn[q] # None => BoxOK(map, txn[q])

\* The places of elements, one by one.
LEMMA InWhere ==
  ASSUME NEW m, NEW ids, NEW p
  PROVE  p \in Where(m, ids) <=> \E n \in ids \cap Nodes : m[n].live /\ p = m[n].at
  BY DEF Where

LEMMA InExtent ==
  ASSUME NEW m, NEW ids, NEW p
  PROVE  p \in Extent(m, ids) <=>
            \/ \E n \in ids \cap Nodes : m[n].live /\ p = m[n].at
            \/ \E w \in ids \cap Ways : m[w].live /\
                  \E n \in m[w].refs \cap Nodes : m[n].live /\ p = m[n].at
  <1> DEFINE ids2 == ids \cup UNION {m[w].refs : w \in {w \in ids \cap Ways : m[w].live}}
  <1>1. \A n : n \in ids2 <=> n \in ids \/ \E w \in ids \cap Ways : m[w].live /\ n \in m[w].refs
    OBVIOUS
  <1>2. p \in Where(m, ids2) <=> \E n \in ids2 \cap Nodes : m[n].live /\ p = m[n].at
    BY InWhere
  <1>3. Extent(m, ids) = Where(m, ids2)
    BY DEF Extent
  <1> HIDE DEF ids2
  <1> QED
    BY <1>1, <1>2, <1>3

\* The places of some elements are those of each.
LEMMA ExtentPart ==
  ASSUME NEW m, NEW ids, NEW j \in ids
  PROVE  Extent(m, {j}) \subseteq Extent(m, ids)
  BY InExtent

LEMMA ExtentWhole ==
  ASSUME NEW m, NEW ids, NEW box, \A j \in ids : Extent(m, {j}) \subseteq box
  PROVE  Extent(m, ids) \subseteq box
  <1> SUFFICES ASSUME NEW p \in Extent(m, ids) PROVE p \in box
    OBVIOUS
  <1>1. CASE \E n \in ids \cap Nodes : m[n].live /\ p = m[n].at
    <2>1. PICK n \in ids \cap Nodes : m[n].live /\ p = m[n].at
      BY <1>1
    <2>2. p \in Extent(m, {n})
      BY <2>1, InExtent
    <2> QED
      BY <2>1, <2>2
  <1>2. CASE \E w \in ids \cap Ways : m[w].live /\
                \E n \in m[w].refs \cap Nodes : m[n].live /\ p = m[n].at
    <2>1. PICK w \in ids \cap Ways : m[w].live /\
                \E n \in m[w].refs \cap Nodes : m[n].live /\ p = m[n].at
      BY <1>2
    <2>2. p \in Extent(m, {w})
      BY <2>1, InExtent
    <2> QED
      BY <2>1, <2>2
  <1>3. \/ \E n \in ids \cap Nodes : m[n].live /\ p = m[n].at
        \/ \E w \in ids \cap Ways : m[w].live /\
              \E n \in m[w].refs \cap Nodes : m[n].live /\ p = m[n].at
    BY InExtent
  <1> QED
    BY <1>1, <1>2, <1>3

\* What a block stretches the box by: the places of its nodes, as they were and
\* will be, those of its ways' nodes, and those of the members it touches.
LEMMA NodeStretch ==
  ASSUME NEW t \in TxnType, NEW n \in Nodes \cap InBlock(t.block), BlockAsked(t)
  PROVE  /\ Where(t.map, {n}) \subseteq Stretch(t, Stored(t))
         /\ Where(Stored(t), {n}) \subseteq Stretch(t, Stored(t))
  <1>1. n \in Ids
    BY DEF Ids
  <1>2. n \in t.asked
    BY DEF BlockAsked
  <1>3. Where(t.map, {n}) \subseteq Where(t.map, t.asked)
    BY <1>2 DEF Where
  <1>4. Stored(t)[n].live => Stored(t)[n].at = t.block[n].at
    BY <1>1, StoredIs
  <1>5. Where(Stored(t), {n}) \subseteq {t.block[k].at : k \in Nodes \cap InBlock(t.block)}
    BY <1>4 DEF Where
  <1> QED
    BY <1>3, <1>5 DEF Stretch

LEMMA WayStretch ==
  ASSUME NEW t \in TxnType, NEW w \in Ways \cap InBlock(t.block), Stored(t)[w].live
  PROVE  Where(Stored(t), Stored(t)[w].refs) \subseteq Stretch(t, Stored(t))
  <1>1. Stored(t)[w].refs = t.block[w].refs
    BY StoredIs DEF Ids
  <1>2. Where(Stored(t), t.block[w].refs)
          \subseteq Where(Stored(t), UNION {t.block[v].refs : v \in Ways \cap InBlock(t.block)})
    BY DEF Where
  <1> QED
    BY <1>1, <1>2 DEF Stretch

LEMMA MemberStretch ==
  ASSUME NEW t \in TxnType, NEW j \in MembersTouched(t)
  PROVE  Extent(Stored(t), {j}) \subseteq Stretch(t, Stored(t))
  <1> DEFINE m == Stored(t)
             touched == MembersTouched(t)
  <1>1. j \in touched
    OBVIOUS
  <1> HIDE DEF m, touched
  <1>2. Extent(m, {j}) \subseteq Extent(m, touched)
    BY <1>1, ExtentPart
  <1> QED
    BY <1>2 DEF Stretch, m, touched

\* The members that a block touches, relation by relation.
LEMMA RelationTouched ==
  ASSUME NEW t \in TxnType, NEW r \in Relations \cap InBlock(t.block), BlockAsked(t)
  PROVE  /\ t.action = "create" => t.block[r].refs \subseteq MembersTouched(t)
         /\ t.action = "modify" =>
              /\ SymDiff(t.map[r].refs, t.block[r].refs) \subseteq MembersTouched(t)
              /\ SymDiff(t.map[r].refs, t.block[r].refs) \cap Relations # {} =>
                    t.map[r].refs \cup t.block[r].refs \subseteq MembersTouched(t)
         /\ t.action = "delete" => t.map[r].refs \subseteq MembersTouched(t)
  <1>1. t.action = "create" => t.block[r].refs \subseteq MembersTouched(t)
    BY DEF MembersTouched
  <1>2. t.action = "modify" => RelationChanged(t.map[r], t.block[r]) \subseteq MembersTouched(t)
    BY DEF MembersTouched
  <1>3. SymDiff(t.map[r].refs, t.block[r].refs) \subseteq RelationChanged(t.map[r], t.block[r])
    BY DEF RelationChanged, SymDiff
  <1>4. SymDiff(t.map[r].refs, t.block[r].refs) \cap Relations # {} =>
          t.map[r].refs \cup t.block[r].refs = RelationChanged(t.map[r], t.block[r])
    BY DEF RelationChanged
  <1>5. t.action = "delete" => t.map[r].refs \subseteq MembersTouched(t)
    BY DEF MembersTouched, BlockAsked
  <1> QED
    BY <1>1, <1>2, <1>3, <1>4, <1>5

\* What a box had of an element, it has once another block is stored: where the
\* block changes the element or a way's node, it stretches the box there.
LEMMA BoxedStill ==
  ASSUME NEW t \in TxnType, t.stage = "store", MapOK(t.map), BlockOK(t), BlockAsked(t),
         NEW j \in Ids, Boxed(t, j)
  PROVE  Extent(Stored(t), {j}) \subseteq t.box \cup Stretch(t, Stored(t))
  <1> DEFINE m == Stored(t)
             box == t.box \cup Stretch(t, m)
  \* A node that was in the box, where it is then.
  <1>1. ASSUME NEW n \in Nodes, m[n].live, t.map[n].live => t.map[n].at \in t.box
        PROVE  m[n].at \in box
    <2>1. n \in Ids
      BY DEF Ids
    <2>2. CASE n \in InBlock(t.block)
      <3>1. Where(m, {n}) \subseteq Stretch(t, m)
        BY <2>2, NodeStretch
      <3>2. m[n].at \in Where(m, {n})
        BY <1>1 DEF Where
      <3> QED
        BY <3>1, <3>2
    <2>3. CASE n \notin InBlock(t.block)
      BY <1>1, <2>1, <2>3, StoredIs
    <2> QED
      BY <2>2, <2>3
  <1>2. CASE j \in Nodes
    <2>1. t.map[j].live => t.map[j].at \in t.box
      BY <1>2, InExtent DEF Boxed
    <2>2. m[j].live => m[j].at \in box
      BY <1>1, <1>2, <2>1
    <2>3. j \notin Ways
      BY <1>2
    <2> HIDE DEF m, box
    <2>4. Extent(m, {j}) \subseteq box
      BY <2>2, <2>3, InExtent
    <2> QED
      BY <2>4 DEF m, box
  <1>3. CASE j \in Ways
    <2>1. CASE ~m[j].live
      <3> HIDE DEF m
      <3>1. Extent(m, {j}) = {}
        BY <1>3, <2>1, InExtent
      <3> QED
        BY <3>1 DEF m
    <2>2. CASE m[j].live /\ j \in InBlock(t.block)
      <3>1. Where(m, m[j].refs) \subseteq box
        BY <1>3, <2>2, WayStretch
      <3>2. j \notin Nodes
        BY <1>3
      <3> HIDE DEF m, box
      <3>3. Extent(m, {j}) \subseteq box
        BY <3>1, <3>2, InExtent, InWhere
      <3> QED
        BY <3>3 DEF m, box
    <2>3. CASE m[j].live /\ j \notin InBlock(t.block)
      <3>1. m[j] = t.map[j]
        BY <2>3, StoredIs
      <3>2. ASSUME NEW n \in t.map[j].refs \cap Nodes, m[n].live PROVE m[n].at \in box
        <4>1. t.map[n].live => t.map[n].at \in t.box
          BY <1>3, <2>3, <3>1, InExtent DEF Boxed
        <4> QED
          BY <1>1, <3>2, <4>1
      <3>3. j \notin Nodes
        BY <1>3
      <3> HIDE DEF m, box
      <3>4. Extent(m, {j}) \subseteq box
        BY <3>1, <3>2, <3>3, InExtent
      <3> QED
        BY <3>4 DEF m, box
    <2> QED
      BY <2>1, <2>2, <2>3
  <1>4. CASE j \in Relations
    <2> HIDE DEF m, box
    <2>1. Extent(m, {j}) \subseteq box
      BY <1>4, InExtent
    <2> QED
      BY <2>1 DEF m, box
  <1> QED
    BY <1>2, <1>3, <1>4 DEF Ids

\* The members that a relation's box must have, once a block changes it: those it
\* had to have before, or those the block touches.
LEMMA MembersGrow ==
  ASSUME NEW t \in TxnType, t.stage = "store", BlockOK(t), BlockAsked(t),
         NEW r \in Relations \cap InBlock(t.block), NEW old \in Element,
         t.map[r] = old \/ t.map[r].version > old.version,
         Made(t.map), old.live => old.version > 0
  PROVE  Members(old, Stored(t)[r]) \subseteq Members(old, t.map[r]) \cup MembersTouched(t)
  <1> DEFINE e == t.map[r]
             new == Stored(t)[r]
  <1>1. r \in Ids /\ e \in Element /\ t.action \in {"create", "modify", "delete"}
    BY DEF TxnType, Ids
  <1>2. CASE t.action = "create"
    <2>1. e.version = 0
      BY <1>2 DEF BlockAsked
    <2>2. ~old.live
      BY <1>1, <2>1 DEF Made, Element
    <2>3. new.refs = t.block[r].refs
      BY <1>1, <1>2, StoredIs
    <2> QED
      BY <1>2, <2>2, <2>3, RelationTouched DEF Members
  <1>3. CASE t.action = "modify"
    <2>1. e.live
      BY <1>3 DEF BlockOK, ReferencesFound
    <2>2. new.refs = t.block[r].refs /\ new.live
      BY <1>1, <1>3, StoredIs
    <2>3. /\ SymDiff(e.refs, new.refs) \subseteq MembersTouched(t)
          /\ SymDiff(e.refs, new.refs) \cap Relations # {} =>
                e.refs \cup new.refs \subseteq MembersTouched(t)
      BY <1>3, <2>2, RelationTouched
    <2> HIDE DEF e, new
    <2>4. Members(old, new) \subseteq Members(old, e) \cup MembersTouched(t)
      BY <2>1, <2>2, <2>3 DEF Members, SymDiff
    <2> QED
      BY <2>4 DEF e, new
  <1>4. CASE t.action = "delete"
    <2>1. e.live
      BY <1>4 DEF BlockOK, ReferencesFound
    <2>2. ~new.live
      BY <1>1, <1>4, StoredIs
    <2>3. e.refs \subseteq MembersTouched(t)
      BY <1>4, RelationTouched
    <2> HIDE DEF e, new
    <2>4. Members(old, new) \subseteq Members(old, e) \cup MembersTouched(t)
      BY <2>1, <2>2, <2>3 DEF Members, SymDiff
    <2> QED
      BY <2>4 DEF e, new
  <1> QED
    BY <1>1, <1>2, <1>3, <1>4

\* A transaction's block, once stored, leaves its box in order.
LEMMA StoredBox ==
  ASSUME NEW m \in [Ids -> Element], Made(m), NEW t \in TxnType, t.stage = "store",
         MapOK(t.map), BlockOK(t), Changes(m, t), BoxOK(m, t),
         NEW u, u.map = Stored(t), u.box = t.box \cup Stretch(t, Stored(t)),
         u.stage = "read"
  PROVE  BoxOK(m, u)
  <1>1. BlockAsked(t) /\ Made(t.map)
    BY DEF BoxOK
  <1>2. Made(u.map)
    <2>1. ASSUME NEW i \in Ids, Stored(t)[i].live PROVE Stored(t)[i].version > 0
      <3>1. CASE i \in InBlock(t.block)
        <4>1. t.block[i].version \in Nat
          BY <3>1 DEF InBlock, TxnType, Change
        <4> QED
          BY <3>1, <4>1, StoredIs
      <3>2. CASE i \notin InBlock(t.block)
        BY <1>1, <2>1, <3>2, StoredIs DEF Made
      <3> QED
        BY <3>1, <3>2
    <2> QED
      BY <2>1 DEF Made
  <1>3. \A j \in Ids : Boxed(t, j) => Boxed(u, j)
    BY <1>1, BoxedStill DEF Boxed
  <1>4. ASSUME NEW j \in MembersTouched(t) PROVE Boxed(u, j)
    BY <1>4, MemberStretch DEF Boxed
  <1>5. ASSUME NEW i \in Ids, u.map[i] # m[i]
        PROVE  ChangeBoxed(m, u, i)
    <2>0. t.box \subseteq u.box
      OBVIOUS
    <2>1. CASE i \notin InBlock(t.block)
      <3>1. u.map[i] = t.map[i] /\ ChangeBoxed(m, t, i)
        BY <1>5, <2>1, StoredIs DEF BoxOK
      <3>2. t.map[i] \in Element /\ m[i] \in Element
        BY DEF TxnType
      <3>3. Members(m[i], t.map[i]) \subseteq Ids
        BY <3>2 DEF Members, SymDiff, Element
      <3> QED
        BY <1>3, <2>0, <3>1, <3>3 DEF ChangeBoxed
    <2>2. CASE i \in InBlock(t.block)
      <3>1. CASE i \in Nodes
        <4>1. Where(m, {i}) \subseteq u.box
          <5>1. CASE t.map[i] = m[i]
            <6>1. Where(m, {i}) = Where(t.map, {i})
              BY <5>1 DEF Where
            <6> QED
              BY <1>1, <2>2, <3>1, <6>1, NodeStretch
          <5>2. CASE t.map[i] # m[i]
            BY <2>0, <3>1, <5>2 DEF BoxOK, ChangeBoxed
          <5> QED
            BY <5>1, <5>2
        <4>2. Where(u.map, {i}) \subseteq u.box
          BY <1>1, <2>2, <3>1, NodeStretch
        <4>3. i \notin Ways
          BY <3>1
        <4>4. Boxed(u, i)
          BY <3>1, <4>2, <4>3, InExtent, InWhere DEF Boxed
        <4> QED
          BY <3>1, <4>1, <4>4 DEF ChangeBoxed
      <3>2. CASE i \in Ways
        <4>1. i \notin Nodes /\ i \notin Relations
          BY <3>2
        <4>2. u.map[i].live => Where(u.map, u.map[i].refs) \subseteq u.box
          BY <2>2, <3>2, WayStretch
        <4>3. Boxed(u, i)
          BY <3>2, <4>1, <4>2, InExtent, InWhere DEF Boxed
        <4> QED
          BY <3>2, <4>1, <4>3 DEF ChangeBoxed
      <3>3. CASE i \in Relations
        <4>1. i \notin Nodes /\ i \notin Ways
          BY <3>3
        <4>2. t.map[i] \in Element /\ m[i] \in Element
          BY DEF TxnType
        <4>3. Members(m[i], t.map[i]) \subseteq Ids
          BY <4>2 DEF Members, SymDiff, Element
        <4>4. \A j \in Members(m[i], t.map[i]) : Boxed(t, j)
          <5>1. CASE t.map[i] = m[i]
            BY <5>1 DEF Members, SymDiff
          <5>2. CASE t.map[i] # m[i]
            BY <3>3, <5>2 DEF BoxOK, ChangeBoxed
          <5> QED
            BY <5>1, <5>2
        <4>5. t.map[i] = m[i] \/ t.map[i].version > m[i].version
          BY DEF Changes
        <4>6. m[i].live => m[i].version > 0
          BY DEF Made
        <4>7. Members(m[i], u.map[i]) \subseteq Members(m[i], t.map[i]) \cup MembersTouched(t)
          BY <1>1, <2>2, <3>3, <4>2, <4>5, <4>6, MembersGrow
        <4>8. \A j \in Members(m[i], u.map[i]) : Boxed(u, j)
          BY <1>3, <1>4, <4>3, <4>4, <4>7
        <4> QED
          BY <3>3, <4>1, <4>8 DEF ChangeBoxed
      <3> QED
        BY <3>1, <3>2, <3>3 DEF Ids
    <2> QED
      BY <2>1, <2>2
  <1> QED
    BY <1>2, <1>5 DEF BoxOK

LEMMA InitBox == Init => BoxInv
  BY DEF Init, BoxInv, Made

\* A step of one transaction that leaves its map and its box alone.
LEMMA BoxAlone ==
  ASSUME Inv, BoxInv, NEW q \in Requests, txn[q] # None, NEW t, txn' = [txn EXCEPT ![q] = t],
         UNCHANGED map, t.map = txn[q].map, t.box = txn[q].box, t.stage # "read" => BlockAsked(t)
  PROVE  BoxInv'
  <1>1. \A i \in Ids : ChangeBoxed(map, txn[q], i) => ChangeBoxed(map, t, i)
    BY DEF ChangeBoxed, Boxed
  <1>2. BoxOK(map, t)
    BY <1>1 DEF BoxInv, BoxOK
  <1>3. \A p \in Requests : txn'[p] = IF p = q THEN t ELSE txn[p]
    BY DEF Inv, TypeOK
  <1> QED
    BY <1>2, <1>3 DEF BoxInv

LEMMA ReadBox ==
  ASSUME Inv, BoxInv, NEW q \in Requests, NEW action \in {"create", "modify", "delete"},
         NEW ids \in SUBSET Ids, NEW ifunused \in BOOLEAN,
         ReadBlock(q, action, ids, ifunused)
  PROVE  BoxInv'
  <1> HIDE ElementsAssumption, BoundsAssumption, ShapesAssumption, StartsAssumption
  <1>1. PICK t \in TxnType : txn' = [txn EXCEPT ![q] = t] /\ WithBlock(txn[q], t, action, ids)
    BY ReadIs
  <1>2. action = "create" => \A i \in ids : txn[q].map[i].version = 0
    BY DEF ReadBlock
  <1>3. BlockAsked(t)
    BY <1>1, <1>2 DEF WithBlock, BlockAsked
  <1> QED
    BY <1>1, <1>3, BoxAlone DEF WithBlock, ReadBlock

LEMMA KeepBox ==
  ASSUME Inv, BoxInv, NEW q \in Requests, NEW stage \in Stages \ {"read", "store"},
         NEW next, NEW used, Keep(q, stage, used, next)
  PROVE  BoxInv'
  <1> DEFINE t == Kept(txn[q], next, used)
  <1>1. txn[q] \in TxnType /\ txn[q] # None /\ BoxOK(map, txn[q]) /\ txn[q].stage # "read"
    BY DEF Inv, TypeOK, Keep, BoxInv
  <1>2. txn' = [txn EXCEPT ![q] = t]
    BY DEF Keep, Kept
  <1>3. /\ t.map = txn[q].map /\ t.box = txn[q].box
        /\ t.action = txn[q].action /\ t.asked = txn[q].asked
        /\ InBlock(t.block) \subseteq InBlock(txn[q].block)
    BY <1>1 DEF TxnType, Kept, InBlock
  <1> HIDE DEF t
  <1>4. BlockAsked(t)
    BY <1>1, <1>3 DEF BoxOK, BlockAsked
  <1> QED
    BY <1>1, <1>2, <1>3, <1>4, BoxAlone DEF Keep

LEMMA StoreBox ==
  ASSUME Inv, BoxInv, NEW q \in Requests, StoreBlock(q)
  PROVE  BoxInv'
  <1>1. /\ txn[q] \in TxnType /\ txn[q] # None /\ TxnOK(q, txn[q])
        /\ txn[q].stage = "store" /\ BlockOK(txn[q]) /\ MapOK(txn[q].map)
        /\ map \in [Ids -> Element]
    BY DEF Inv, TypeOK, StoreBlock, TxnOK
  <1> DEFINE u == txn'[q]
  <1>2. /\ u.map = Stored(txn[q]) /\ u.stage = "read"
        /\ u.box = txn[q].box \cup Stretch(txn[q], Stored(txn[q]))
    BY <1>1 DEF StoreBlock, TxnType, Inv, TypeOK
  <1> HIDE DEF u
  <1>3. Made(map) /\ BoxOK(map, txn[q]) /\ Changes(map, txn[q])
    BY <1>1 DEF BoxInv, TxnOK
  <1>4. BoxOK(map, u)
    BY <1>1, <1>2, <1>3, StoredBox
  <1>5. \A p \in Requests : p # q => txn'[p] = txn[p]
    BY DEF StoreBlock, Inv, TypeOK
  <1>6. map' = map
    BY DEF StoreBlock
  <1>7. \A p \in Requests : txn'[p] # None => BoxOK(map, txn'[p])
    BY <1>4, <1>5 DEF u, BoxInv
  <1> QED
    BY <1>6, <1>7 DEF BoxInv

LEMMA BeginBox ==
  ASSUME Inv, BoxInv, NEW q \in Requests, NEW c \in Changesets, BeginUpload(q, c)
  PROVE  BoxInv'
  <1> DEFINE t == [changeset |-> c, map |-> map, box |-> {}, elements |-> 0,
                   stage |-> "read", action |-> "create", ifunused |-> FALSE,
                   asked |-> {}, block |-> NoBlock]
  <1>1. txn' = [txn EXCEPT ![q] = t] /\ map' = map
    BY DEF BeginUpload
  <1>2. t.map = map /\ t.stage = "read"
    OBVIOUS
  <1> HIDE DEF t
  <1>3. BoxOK(map, t)
    BY <1>2 DEF BoxOK, BoxInv
  <1>4. \A p \in Requests : txn'[p] = IF p = q THEN t ELSE txn[p]
    BY <1>1 DEF Inv, TypeOK
  <1> QED
    BY <1>1, <1>3, <1>4 DEF BoxInv

LEMMA EndBox ==
  ASSUME Inv, BoxInv, NEW q \in Requests, Commit(q) \/ Abort(q)
  PROVE  BoxInv'
  <1>1. \A p \in Requests : txn'[p] = None
    BY DEF Inv, TypeOK, Commit, Abort, Alone
  <1>2. Made(map')
    BY DEF Commit, Abort, BoxInv, BoxOK
  <1> QED
    BY <1>1, <1>2 DEF BoxInv

LEMMA NextBox == Inv /\ BoxInv /\ [Next]_vars => BoxInv'
  <1> SUFFICES ASSUME Inv, BoxInv, [Next]_vars PROVE BoxInv'
    OBVIOUS
  <1>1. CASE UNCHANGED <<map, txn>>
    BY <1>1 DEF BoxInv
  <1>2. ASSUME NEW q \in Requests, NEW c \in Changesets,
               OpenChangeset(q, c) \/ CloseChangeset(q, c) \/ BeginUpload(q, c)
        PROVE  BoxInv'
    BY <1>1, <1>2, BeginBox DEF OpenChangeset, CloseChangeset
  <1>3. ASSUME NEW q \in Requests, NEW action \in {"create", "modify"},
               NEW ids \in SUBSET Ids, ReadBlock(q, action, ids, FALSE)
        PROVE  BoxInv'
    <2>1. action \in {"create", "modify", "delete"}
      BY <1>3
    <2> QED
      BY <1>3, <2>1, ReadBox
  <1>4. ASSUME NEW q \in Requests, NEW ids \in SUBSET Ids, NEW ifunused \in BOOLEAN,
               ReadBlock(q, "delete", ids, ifunused)
        PROVE  BoxInv'
    BY <1>4, ReadBox
  <1>5. ASSUME NEW q \in Requests,
               \/ KeepRelations(q) \/ KeepWays(q)
               \/ KeepNodesOfWays(q) \/ KeepMemberNodes(q)
        PROVE  BoxInv'
    BY <1>5, KeepBox DEF KeepRelations, KeepWays, KeepNodesOfWays, KeepMemberNodes, Stages
  <1>6. ASSUME NEW q \in Requests, StoreBlock(q) \/ Commit(q) \/ Abort(q)
        PROVE  BoxInv'
    BY <1>6, StoreBox, EndBox
  <1> QED
    <2>1. CASE \E q \in Requests, c \in Changesets :
                 OpenChangeset(q, c) \/ CloseChangeset(q, c) \/ BeginUpload(q, c)
      BY <1>2, <2>1
    <2>2. CASE \E q \in Requests, action \in {"create", "modify"}, ids \in SUBSET Ids :
                 ReadBlock(q, action, ids, FALSE)
      BY <1>3, <2>2
    <2>3. CASE \E q \in Requests, ids \in SUBSET Ids, ifunused \in BOOLEAN :
                 ReadBlock(q, "delete", ids, ifunused)
      BY <1>4, <2>3
    <2>4. CASE CloseOldChangesets
      BY <1>1, <2>4 DEF CloseOldChangesets
    <2>5. CASE Next
      BY <1>5, <1>6, <2>1, <2>2, <2>3, <2>4, <2>5, Zenon DEF Next
    <2>6. CASE UNCHANGED vars
      BY <1>1, <2>6 DEF vars
    <2> QED
      BY <2>5, <2>6

\* The committed changeset's box has what its changes touched, however many
\* blocks they were made in, and wherever those blocks moved what an earlier one
\* had touched.
THEOREM BoxIsRight == Spec => BoxHasChanges
  <1> DEFINE A == \A i \in Ids : map'[i] # map[i] =>
                 Touched(i) \subseteq changeset'[map'[i].changeset].box
  <1>1. Inv /\ BoxInv /\ [Next]_vars => A
    <2> SUFFICES ASSUME Inv, BoxInv, [Next]_vars, NEW i \in Ids, map'[i] # map[i]
                 PROVE  Touched(i) \subseteq changeset'[map'[i].changeset].box
      OBVIOUS
    <2>1. PICK q \in Requests : Commit(q)
      BY OnlyCommit
    <2> DEFINE t == txn[q]
    <2>2. t \in TxnType /\ Changes(map, t) /\ BoxOK(map, t) /\ map' = t.map
      BY <2>1 DEF Inv, TypeOK, Commit, TxnOK, BoxInv
    <2>3. map'[i].changeset = t.changeset
      BY <2>2 DEF Changes
    <2>4. t.box \subseteq changeset'[t.changeset].box
      <3>1. t.changeset \in Changesets /\ changeset[t.changeset] \in ChangesetType
        BY <2>2 DEF TxnType, Inv, TypeOK
      <3> QED
        BY <2>1, <3>1 DEF Commit, Inv, TypeOK, ChangesetType
    <2>5. ChangeBoxed(map, t, i)
      BY <2>2 DEF BoxOK
    <2> HIDE DEF t
    <2>6. CASE i \in Nodes
      <3>1. Where(map', {i}) \subseteq t.box
        BY <2>2, <2>5, <2>6, InExtent, InWhere DEF ChangeBoxed, Boxed
      <3> QED
        BY <2>3, <2>4, <2>5, <2>6, <3>1 DEF Touched, ChangeBoxed
    <2>7. CASE i \in Ways
      <3>1. i \notin Nodes
        BY <2>7
      <3>2. map'[i].live => Where(map', map'[i].refs) \subseteq t.box
        BY <2>2, <2>5, <2>7, InExtent, InWhere DEF ChangeBoxed, Boxed
      <3> QED
        BY <2>3, <2>4, <2>7, <3>1, <3>2 DEF Touched
    <2>8. CASE i \in Relations
      <3>1. i \notin Nodes /\ i \notin Ways
        BY <2>8
      <3>2. Extent(map', Members(map[i], map'[i])) \subseteq t.box
        <4> DEFINE members == Members(map[i], map'[i])
                   box == t.box
                   m == map'
        <4>1. \A j \in members : Extent(m, {j}) \subseteq box
          BY <2>2, <2>5, <2>8 DEF ChangeBoxed, Boxed
        <4> HIDE DEF members, box, m
        <4>2. Extent(m, members) \subseteq box
          BY <4>1, ExtentWhole
        <4> QED
          BY <4>2 DEF members, box, m
      <3>3. Extent(map', {}) = {}
        BY InExtent
      <3>4. Touched(i) \subseteq Extent(map', Members(map[i], map'[i]))
        BY <2>8, <3>1, <3>3 DEF Touched, Members
      <3> QED
        BY <2>3, <2>4, <3>2, <3>4
    <2> QED
      BY <2>6, <2>7, <2>8 DEF Ids
  <1>2. Spec => []BoxInv
    BY InitBox, NextBox, Invariance, PTL DEF Spec
  <1> QED
    BY <1>1, <1>2, Invariance, PTL DEF Spec, BoxHasChanges
------------------------------------------------------------------------------
(* Uploads are atomic.  That a block deletes as much as can be deleted needs *)
(* to be known at each of its checks: what nothing else refers to has not    *)
(* been taken out of it, as what is taken out is used by what is not in it.  *)

\* A block, and what was asked: it is all of it, or it is what is left, and that
\* has whatever could be deleted together.
AskedOK(t) ==
    /\ Cardinality(t.asked) <= t.elements
    /\ InBlock(t.block) \subseteq t.asked
    /\ t.action # "delete" => InBlock(t.block) = t.asked
    /\ t.action = "create" => \A i \in t.asked : t.map[i].version = 0
    /\ t.action = "delete" =>
          /\ \A i \in t.asked : t.map[i].live
          /\ \A more \in SUBSET t.asked : Atomic!Unused(t.map, more) => more \subseteq InBlock(t.block)

AskedInv == \A q \in Requests : txn[q] # None /\ txn[q].stage # "read" => AskedOK(txn[q])

LEMMA AskedStep ==
  ASSUME Inv, AskedInv, NEW q \in Requests, NEW t, txn' = [txn EXCEPT ![q] = t],
         t.stage # "read" => AskedOK(t)
  PROVE  AskedInv'
  <1>1. \A p \in Requests : txn'[p] = IF p = q THEN t ELSE txn[p]
    BY DEF Inv, TypeOK
  <1> QED
    BY <1>1 DEF AskedInv

\* Drafts are those of before, but for one.
LEMMA DraftsStep ==
  ASSUME Inv, NEW q \in Requests, NEW t, txn' = [txn EXCEPT ![q] = t], map' = map
  PROVE  /\ Drafts[q] = DraftOf(txn[q])
         /\ Drafts'[q] = DraftOf(t)
         /\ Drafts' = [Drafts EXCEPT ![q] = Drafts'[q]]
         /\ DraftOf(t) = DraftOf(txn[q]) => Drafts' = Drafts
  <1>1. \A p \in Requests : txn'[p] = IF p = q THEN t ELSE txn[p]
    BY DEF Inv, TypeOK
  <1>2. \A x : DraftOf(x)' = DraftOf(x)
    BY DEF DraftOf
  <1>3. Drafts = [p \in Requests |-> DraftOf(txn[p])]
    BY DEF Drafts
  <1>4. Drafts' = [p \in Requests |-> IF p = q THEN DraftOf(t) ELSE DraftOf(txn[p])]
    BY <1>1 DEF Drafts, DraftOf
  <1>5. Drafts' = [Drafts EXCEPT ![q] = DraftOf(t)]
    BY <1>1 DEF Drafts, DraftOf
  <1> HIDE DEF Drafts
  <1>6. Drafts[q] = DraftOf(txn[q]) /\ Drafts'[q] = DraftOf(t)
    BY <1>3, <1>4
  <1>7. ASSUME DraftOf(t) = DraftOf(txn[q]) PROVE Drafts' = Drafts
    <2>1. \A p \in Requests : (IF p = q THEN DraftOf(t) ELSE DraftOf(txn[p])) = DraftOf(txn[p])
      BY <1>7
    <2> QED
      BY <1>3, <1>4, <2>1
  <1> QED
    BY <1>5, <1>6, <1>7

LEMMA ReadAsked ==
  ASSUME Inv, AskedInv, NEW q \in Requests, NEW action \in {"create", "modify", "delete"},
         NEW ids \in SUBSET Ids, NEW ifunused \in BOOLEAN,
         ReadBlock(q, action, ids, ifunused)
  PROVE  AskedInv' /\ Drafts' = Drafts
  <1> HIDE ElementsAssumption, BoundsAssumption, ShapesAssumption, StartsAssumption
  <1>1. /\ txn[q] \in TxnType /\ txn[q] # None /\ txn[q].stage = "read"
        /\ map' = map
    BY DEF Inv, TypeOK, ReadBlock
  <1>2. PICK t \in TxnType : txn' = [txn EXCEPT ![q] = t] /\ WithBlock(txn[q], t, action, ids)
    BY ReadIs
  <1>3. action = "create" => \A i \in ids : txn[q].map[i].version = 0
    BY DEF ReadBlock
  <1>4. action = "delete" => \A i \in ids : txn[q].map[i].live
    BY <1>2 DEF WithBlock, ReferencesFound
  <1>5. Cardinality(ids) \in Nat /\ txn[q].elements \in Nat
    BY <1>1, FS_Subset, FS_CardinalityType, BoundsAssumption DEF TxnType
  <1>6. AskedOK(t)
    BY <1>2, <1>3, <1>4, <1>5 DEF WithBlock, AskedOK
  <1>7. DraftOf(t) = DraftOf(txn[q])
    <2>1. Written(t) = Written(txn[q])
      BY <1>1, <1>2, <1>5 DEF WithBlock, Written
    <2> QED
      BY <1>1, <1>2, <2>1, DraftsAssumption DEF WithBlock, DraftOf
  <1>8. Drafts' = Drafts
    BY <1>1, <1>2, <1>7, DraftsStep
  <1> QED
    BY <1>2, <1>6, <1>8, AskedStep

\* A draft is not touched by the checks of a block.
LEMMA KeepAsked ==
  ASSUME Inv, AskedInv, NEW q \in Requests, NEW stage \in Stages \ {"read", "store"},
         NEW next \in Stages \ {"read"}, NEW used \in SUBSET Ids,
         Keep(q, stage, used, next),
         \A i \in used : \E p \in Ids \ InBlock(txn[q].block) :
             txn[q].map[p].live /\ i \in txn[q].map[p].refs
  PROVE  AskedInv' /\ Drafts' = Drafts
  <1>1. /\ txn[q] \in TxnType /\ txn[q] # None /\ txn[q].stage # "read" /\ txn[q].action = "delete"
        /\ AskedOK(txn[q]) /\ map' = map
    BY DEF Inv, TypeOK, Keep, AskedInv, TxnOK, BlockOK
  <1> DEFINE t == Kept(txn[q], next, used)
  <1>2. txn' = [txn EXCEPT ![q] = t]
    BY DEF Keep, Kept
  <1>3. /\ t.map = txn[q].map /\ t.changeset = txn[q].changeset /\ t.elements = txn[q].elements
        /\ t.stage = next /\ t.action = txn[q].action /\ t.asked = txn[q].asked
        /\ InBlock(t.block) = InBlock(txn[q].block) \ used
    BY <1>1 DEF TxnType, Kept, InBlock
  <1>4. t \in TxnType
    <2> DEFINE block == [i \in Ids |-> IF i \in used THEN None ELSE txn[q].block[i]]
    <2>1. block \in [Ids -> Change \cup {None}]
      BY <1>1 DEF TxnType
    <2> HIDE DEF block
    <2>2. [txn[q] EXCEPT !.stage = next, !.block = block] \in TxnType
      BY <1>1, <2>1 DEF TxnType
    <2> QED
      BY <2>2 DEF Kept, block
  <1> HIDE DEF t
  <1>5. AskedOK(t)
    <2>1. ASSUME NEW more \in SUBSET t.asked, Atomic!Unused(t.map, more)
          PROVE  more \subseteq InBlock(t.block)
      <3>1. more \subseteq InBlock(txn[q].block)
        BY <1>1, <1>3, <2>1 DEF AskedOK
      <3>2. more \cap used = {}
        BY <1>3, <2>1, <3>1 DEF Atomic!Unused
      <3> QED
        BY <1>3, <3>1, <3>2
    <2> QED
      BY <1>1, <1>3, <2>1 DEF AskedOK
  <1>6. DraftOf(t) = DraftOf(txn[q])
    BY <1>1, <1>3, <1>4, DraftsAssumption DEF DraftOf, Written
  <1>7. Drafts' = Drafts
    BY <1>1, <1>2, <1>6, DraftsStep
  <1> QED
    BY <1>2, <1>5, <1>7, AskedStep

\* What has passed the checks of a deletion is used by nothing else.
LEMMA BlockUnused ==
  ASSUME NEW t \in TxnType, t.stage = "store", t.action = "delete", MapOK(t.map), BlockOK(t)
  PROVE  Atomic!Unused(t.map, InBlock(t.block))
  <1>1. /\ InUse(t, Relations, Relations) = {} /\ InUse(t, Ways, Relations) = {}
        /\ InUse(t, Nodes, Ways) = {} /\ InUse(t, Nodes, Relations) = {}
    BY DEF BlockOK, Passed
  <1>2. SUFFICES ASSUME NEW p \in Ids \ InBlock(t.block), t.map[p].live,
                        NEW i \in InBlock(t.block), i \in t.map[p].refs
                 PROVE  FALSE
    BY DEF Atomic!Unused
  <1>3. i \in Ids /\ (i \in Nodes \/ i \in Ways \/ i \in Relations) /\ Shaped(p, t.map[p])
    BY <1>2 DEF InBlock, MapOK, Ids
  <1>4. CASE p \in Relations
    BY <1>1, <1>2, <1>3, <1>4 DEF InUse
  <1>5. CASE p \in Ways
    BY <1>1, <1>2, <1>3, <1>5 DEF InUse, Shaped
  <1>6. CASE p \in Nodes
    BY <1>2, <1>3, <1>6 DEF Shaped
  <1> QED
    BY <1>4, <1>5, <1>6 DEF Ids

LEMMA SameCardinality == \A S : Atomic!Cardinality(S) = Cardinality(S)
  BY DEF Atomic!Cardinality, Cardinality

\* Storing a block is writing it in the draft.
LEMMA StoreDraft ==
  ASSUME Inv, AskedInv, NEW q \in Requests, StoreBlock(q)
  PROVE  AskedInv' /\ [Atomic!Next]_(Atomic!vars)
  <1> DEFINE t == txn[q]
             u == txn'[q]
             m == Stored(txn[q])
  <1>1. /\ t \in TxnType /\ t # None /\ TxnOK(q, t) /\ AskedOK(t)
        /\ t.stage = "store" /\ BlockOK(t) /\ MapOK(t.map)
        /\ map \in [Ids -> Element]
    BY DEF Inv, TypeOK, StoreBlock, TxnOK, AskedInv
  <1>2. /\ u \in TxnType /\ u # None
        /\ u.map = m /\ u.stage = "read" /\ u.elements = t.elements /\ u.changeset = t.changeset
        /\ txn' = [txn EXCEPT ![q] = u]
        /\ UNCHANGED <<map, changeset>>
    <2>1. txn'[q] \in TxnType \cup {None}
      BY StoreInv DEF Inv, TypeOK
    <2>2. txn' = [txn EXCEPT ![q] = [t EXCEPT
            !.stage = "read", !.map = m, !.box = @ \cup Stretch(t, m),
            !.action = "create", !.ifunused = FALSE, !.asked = {}, !.block = NoBlock]]
      BY DEF StoreBlock
    <2>3. /\ u.map = m /\ u.stage = "read" /\ u.elements = t.elements /\ u.changeset = t.changeset
          /\ txn' = [txn EXCEPT ![q] = u]
      BY <1>1, <2>2 DEF TxnType, Inv, TypeOK
    <2>4. u # None
      <3> DEFINE box == t.box \cup Stretch(t, m)
                 new == [t EXCEPT !.stage = "read", !.map = m, !.box = box,
                          !.action = "create", !.ifunused = FALSE, !.asked = {}, !.block = NoBlock]
      <3>1. m \in [Ids -> Element] /\ box \in SUBSET Places
        BY <1>1, StoredType, StretchType DEF TxnType
      <3>2. u = new
        BY <2>2 DEF Inv, TypeOK
      <3> HIDE DEF m, box
      <3>3. new \in TxnType
        BY <1>1, <3>1 DEF TxnType, Stages, NoBlock
      <3> QED
        BY <3>2, <3>3, DraftsAssumption
    <2> QED
      BY <2>1, <2>3, <2>4 DEF StoreBlock
  <1> HIDE DEF u
  <1>3. AskedInv'
    BY <1>2, AskedStep
  <1> DEFINE old == DraftOf(t)
             new == DraftOf(u)
             ids == InBlock(t.block)
             size == Cardinality(t.asked)
  <1>4. Drafts[q] = old /\ Drafts'[q] = new /\ Drafts' = [Drafts EXCEPT ![q] = Drafts'[q]]
          /\ (new = old => Drafts' = Drafts)
    BY <1>2, DraftsStep
  <1>5. IsFiniteSet(t.asked) /\ size \in Nat /\ t.elements \in Nat /\ t.elements <= MaxElements
        /\ size <= t.elements
    BY <1>1, FS_Subset, FS_CardinalityType DEF TxnType, AskedOK
  <1>6. /\ old = [changeset |-> t.changeset, base |-> map, map |-> t.map, elements |-> t.elements - size]
        /\ new = [changeset |-> t.changeset, base |-> map, map |-> m, elements |-> t.elements]
    BY <1>1, <1>2 DEF DraftOf, Written
  <1>7. m \in [Ids -> Element] /\ MapOK(m)
    BY <1>1, StoredType, StoredOK
  <1>8. old # None /\ new # None
    <2>1. t.elements - size \in Nat
      BY <1>5
    <2> HIDE DEF size, m
    <2>2. old \in [changeset: Changesets, base: [Ids -> Element], map: [Ids -> Element], elements: Nat]
      BY <1>1, <1>6, <2>1 DEF TxnType
    <2>3. new \in [changeset: Changesets, base: [Ids -> Element], map: [Ids -> Element], elements: Nat]
      BY <1>1, <1>5, <1>6, <1>7 DEF TxnType
    <2> QED
      BY <2>2, <2>3, DraftsAssumption
  <1>9. \A i \in Ids : IF i \in ids
                       THEN /\ m[i].version = t.map[i].version + 1 /\ m[i].changeset = t.changeset
                            /\ m[i].live = (t.action # "delete") /\ m[i] # t.map[i]
                       ELSE m[i] = t.map[i]
    <2> TAKE i \in Ids
    <2>1. CASE i \in ids
      <3>1. t.block[i].version = t.map[i].version /\ t.map[i].version \in Nat
        BY <1>1, <2>1 DEF BlockOK, VersionsMatch, TxnType, Element
      <3>2. m[i].version # t.map[i].version
        BY <1>1, <2>1, <3>1, StoredIs
      <3> QED
        BY <1>1, <2>1, <3>1, <3>2, StoredIs
    <2> QED
      BY <1>1, <2>1, StoredIs
  <1>10. Atomic!Changed(q) = ids
    <2>1. Atomic!Changed(q) = {i \in Ids : m[i] # t.map[i]}
      BY <1>4, <1>6 DEF Atomic!Changed
    <2> HIDE DEF m
    <2> QED
      BY <1>9, <2>1 DEF InBlock
  <1>11. ids \subseteq t.asked
    BY <1>1 DEF AskedOK
  <1> HIDE DEF m, ids
  <1>12. Atomic!Write(q, t.asked)
    <2>1. old.elements + size = t.elements
      BY <1>5, <1>6
    <2>2. new = [changeset |-> old.changeset, base |-> old.base, map |-> new.map,
                 elements |-> old.elements + size]
      <3> HIDE DEF size, t
      <3> QED
        BY <1>6, <2>1
    <2>3. Atomic!Whole(new.map)
      BY <1>6, <1>7 DEF MapOK, Consistent, Atomic!Whole
    <2>4. \A i \in ids : new.map[i].version = old.map[i].version + 1
                         /\ new.map[i].changeset = old.changeset
      BY <1>6, <1>9 DEF ids, InBlock
    <2>5. Atomic!Cardinality(t.asked) = size
      BY SameCardinality
    <2>6. new.map \in [Ids -> Element]
      BY <1>6, <1>7
    <2>7. old.elements + size <= MaxElements
      BY <1>5, <2>1
    <2> HIDE DEF old, new, size, t
    <2> QED
      BY <1>4, <1>10, <1>11, <2>2, <2>3, <2>4, <2>5, <2>6, <2>7 DEF Atomic!Write
  <1>13. Atomic!Create(q) \/ Atomic!Modify(q) \/ Atomic!Delete(q, t.asked)
    <2>1. old.map = t.map /\ new.map = m
      BY <1>6
    <2> HIDE DEF old, new
    <2>2. CASE t.action = "create"
      <3>1. ids = t.asked /\ \A i \in ids : t.map[i].version = 0 /\ m[i].live
        BY <1>1, <1>9, <2>2 DEF AskedOK, ids, InBlock
      <3> QED
        BY <1>4, <1>10, <1>12, <2>1, <3>1 DEF Atomic!Create
    <2>3. CASE t.action = "modify"
      <3>1. ids = t.asked /\ \A i \in ids : t.map[i].live /\ m[i].live
        BY <1>1, <1>9, <2>3 DEF AskedOK, ids, InBlock, BlockOK, ReferencesFound
      <3> QED
        BY <1>4, <1>10, <1>12, <2>1, <3>1 DEF Atomic!Modify
    <2>4. CASE t.action = "delete"
      <3>1. (\A i \in t.asked : t.map[i].live) /\ (\A i \in ids : ~m[i].live)
        BY <1>1, <1>9, <2>4 DEF AskedOK, ids, InBlock
      <3>2. Atomic!LargestUnused(t.map, t.asked, ids)
        BY <1>1, <1>11, <2>4, BlockUnused DEF AskedOK, ids, Atomic!LargestUnused
      <3> QED
        BY <1>4, <1>10, <1>12, <2>1, <3>1, <3>2 DEF Atomic!Delete
    <2> QED
      BY <1>1, <2>2, <2>3, <2>4 DEF TxnType
  <1>14. t.asked \in SUBSET Ids
    BY <1>1 DEF TxnType
  <1> HIDE DEF old, new
  <1>15. CASE new = old
    <2>1. Drafts' = Drafts
      BY <1>4, <1>15
    <2> QED
      BY <1>2, <1>3, <2>1 DEF Atomic!vars
  <1>16. CASE new # old
    <2>1. Atomic!Block(q)
      BY <1>2, <1>4, <1>8, <1>13, <1>14, <1>16 DEF Atomic!Block
    <2> QED
      BY <1>3, <2>1 DEF Atomic!Next
  <1> QED
    BY <1>15, <1>16

LEMMA InitAtomic == Init => AskedInv /\ Atomic!Init
  BY DEF Init, AskedInv, Atomic!Init, Atomic!NoChangeset, NoChangeset, Drafts, DraftOf

\* With no transaction there is no draft.
LEMMA NoDrafts == MapFree => Drafts = [q \in Requests |-> None]
  BY DEF MapFree, Drafts, DraftOf

\* Opening and closing changesets.
LEMMA ChangesetsAtomic ==
  ASSUME Inv, AskedInv, NEW q \in Requests, NEW c \in Changesets,
         OpenChangeset(q, c) \/ CloseChangeset(q, c) \/ CloseOldChangesets
  PROVE  AskedInv' /\ [Atomic!Next]_(Atomic!vars)
  <1>1. txn' = txn /\ map' = map
    BY DEF OpenChangeset, CloseChangeset, CloseOldChangesets
  <1>2. AskedInv'
    BY <1>1 DEF AskedInv
  <1>3. Drafts' = Drafts
    BY <1>1 DEF Drafts, DraftOf
  <1>4. CASE OpenChangeset(q, c)
    <2>1. Atomic!Open(q, c)
      BY <1>1, <1>3, <1>4 DEF OpenChangeset, NoChangeset, Atomic!Open, Atomic!NoChangeset
    <2> QED
      BY <1>2, <2>1 DEF Atomic!Next
  <1>5. CASE CloseChangeset(q, c)
    <2>1. changeset' = [d \in Changesets |->
            IF d \in {c} THEN [changeset[d] EXCEPT !.open = FALSE] ELSE changeset[d]]
      BY <1>5 DEF CloseChangeset, Inv, TypeOK
    <2>2. Atomic!Close({c})
      BY <1>1, <1>3, <2>1 DEF Atomic!Close
    <2> QED
      BY <1>2, <2>2 DEF Atomic!Next
  <1>6. CASE CloseOldChangesets
    <2>1. PICK old \in SUBSET {d \in Changesets : changeset[d].open} :
            changeset' = [d \in Changesets |->
                IF d \in old THEN [changeset[d] EXCEPT !.open = FALSE] ELSE changeset[d]]
      BY <1>6 DEF CloseOldChangesets
    <2>2. old \in SUBSET Changesets /\ Atomic!Close(old)
      BY <1>1, <1>3, <2>1 DEF Atomic!Close
    <2> QED
      BY <1>2, <2>2 DEF Atomic!Next
  <1> QED
    BY <1>4, <1>5, <1>6

LEMMA BeginAtomic ==
  ASSUME Inv, AskedInv, NEW q \in Requests, NEW c \in Changesets, BeginUpload(q, c)
  PROVE  AskedInv' /\ [Atomic!Next]_(Atomic!vars)
  <1> DEFINE t == [changeset |-> c, map |-> map, box |-> {}, elements |-> 0,
                   stage |-> "read", action |-> "create", ifunused |-> FALSE,
                   asked |-> {}, block |-> NoBlock]
  <1>1. txn' = [txn EXCEPT ![q] = t] /\ UNCHANGED <<map, changeset>> /\ MapFree
    BY DEF BeginUpload
  <1>2. t \in TxnType
    BY DEF Inv, TypeOK, TxnType, Stages, NoBlock
  <1>3. t # None /\ t.stage = "read" /\ t.changeset = c /\ t.map = map /\ t.elements = 0
    BY <1>2, DraftsAssumption
  <1> HIDE DEF t
  <1>4. AskedInv'
    BY <1>1, <1>3, AskedStep
  <1>5. DraftOf(t) = [changeset |-> c, base |-> map, map |-> map, elements |-> 0]
    BY <1>3 DEF DraftOf, Written
  <1>6. /\ Drafts'[q] = DraftOf(t)
        /\ Drafts' = [Drafts EXCEPT ![q] = Drafts'[q]]
    BY <1>1, DraftsStep
  <1>7. Drafts[q] = None
    BY <1>1, NoDrafts
  <1>8. Atomic!Begin(q, c)
    BY <1>1, <1>5, <1>6, <1>7 DEF Atomic!Begin
  <1> QED
    BY <1>4, <1>8 DEF Atomic!Next

\* A transaction's end is its draft's, published or not.
LEMMA EndAtomic ==
  ASSUME Inv, AskedInv, NEW q \in Requests, Commit(q) \/ Abort(q)
  PROVE  AskedInv' /\ [Atomic!Next]_(Atomic!vars)
  <1> DEFINE t == txn[q]
  <1>1. /\ t \in TxnType /\ t # None /\ TxnOK(q, t)
        /\ txn' = [txn EXCEPT ![q] = None]
    BY DEF Inv, TypeOK, Commit, Abort
  <1>2. \A p \in Requests : txn'[p] = None /\ (p # q => txn[p] = None)
    BY <1>1 DEF Inv, TypeOK, Alone
  <1>3. AskedInv'
    BY <1>2 DEF AskedInv
  <1>4. Drafts' = [p \in Requests |-> None]
    BY <1>2 DEF Drafts, DraftOf
  <1>5. Drafts = [p \in Requests |-> IF p = q THEN DraftOf(t) ELSE None]
    BY <1>2 DEF Drafts, DraftOf
  <1>6. Drafts' = [Drafts EXCEPT ![q] = None] /\ Drafts[q] = DraftOf(t)
    <2> HIDE DEF t
    <2> QED
      BY <1>4, <1>5
  <1> HIDE DEF t
  <1>7. CASE Abort(q)
    <2>1. Atomic!Drop(q)
      BY <1>6, <1>7 DEF Abort, Atomic!Drop
    <2> QED
      BY <1>3, <2>1 DEF Atomic!Next
  <1>8. CASE Commit(q)
    <2>1. t.stage = "read" /\ map' = t.map
          /\ changeset' = [changeset EXCEPT ![t.changeset].box = @ \cup t.box]
      BY <1>8 DEF Commit, t
    <2> DEFINE d == DraftOf(t)
    <2>2. d = [changeset |-> t.changeset, base |-> map, map |-> t.map, elements |-> t.elements]
      BY <1>1, <2>1 DEF DraftOf, Written
    <2>3. d # None
      <3>1. t.elements \in Nat /\ t.changeset \in Changesets /\ t.map \in [Ids -> Element]
        BY <1>1 DEF TxnType
      <3>2. map \in [Ids -> Element]
        BY DEF Inv, TypeOK
      <3>3. d \in [changeset: Changesets, base: [Ids -> Element], map: [Ids -> Element],
                   elements: Nat]
        BY <2>2, <3>1, <3>2
      <3> QED
        BY <3>3, DraftsAssumption
    <2>4. d.base = map /\ d.map = t.map /\ d.changeset = t.changeset
      BY <2>2
    <2>5. changeset[t.changeset].open /\ changeset[t.changeset].owner = UserOf[q]
      BY <1>1 DEF TxnOK
    <2>6. t.box \in SUBSET Places
      BY <1>1 DEF TxnType
    <2> HIDE DEF d
    <2>7. Atomic!Publish(q)
      BY <1>6, <2>1, <2>3, <2>4, <2>5, <2>6 DEF d, Atomic!Publish
    <2> QED
      BY <1>3, <2>7 DEF Atomic!Next
  <1> QED
    BY <1>7, <1>8

LEMMA KeepsAtomic ==
  ASSUME Inv, AskedInv, NEW q \in Requests,
         KeepRelations(q) \/ KeepWays(q) \/ KeepNodesOfWays(q) \/ KeepMemberNodes(q)
  PROVE  AskedInv' /\ Drafts' = Drafts
  <1>1. /\ Relations \subseteq Ids /\ Ways \subseteq Ids
        /\ "relations" \in Stages /\ "ways" \in Stages /\ "nodes" \in Stages
        /\ "members" \in Stages /\ "store" \in Stages
    BY DEF Ids, Stages
  <1>2. \A kind, parents : parents \subseteq Ids =>
           /\ InUse(txn[q], kind, parents) \in SUBSET Ids
           /\ \A i \in InUse(txn[q], kind, parents) : \E p \in Ids \ InBlock(txn[q].block) :
                  txn[q].map[p].live /\ i \in txn[q].map[p].refs
    BY DEF InUse, InBlock
  <1>3. CASE KeepRelations(q)
    <2> DEFINE used == InUse(txn[q], Relations, Relations)
               next == IF used = {} THEN "ways" ELSE "relations"
    <2>1. Keep(q, "relations", used, next) /\ next \in Stages \ {"read"}
      BY <1>1, <1>3 DEF KeepRelations
    <2> HIDE DEF used, next
    <2> QED
      BY <1>1, <1>2, <2>1, KeepAsked DEF used
  <1>4. CASE KeepWays(q)
    BY <1>1, <1>2, <1>4, KeepAsked DEF KeepWays
  <1>5. CASE KeepNodesOfWays(q)
    BY <1>1, <1>2, <1>5, KeepAsked DEF KeepNodesOfWays
  <1>6. CASE KeepMemberNodes(q)
    BY <1>1, <1>2, <1>6, KeepAsked DEF KeepMemberNodes
  <1> QED
    BY <1>3, <1>4, <1>5, <1>6

AtomicStep == AskedInv' /\ [Atomic!Next]_(Atomic!vars)

LEMMA NextAtomic ==
  ASSUME Inv, AskedInv, [Next]_vars PROVE AtomicStep
  <1>1. CASE UNCHANGED vars
    <2>1. Drafts' = Drafts
      BY <1>1 DEF vars, Drafts, DraftOf
    <2> QED
      BY <1>1, <2>1 DEF vars, AskedInv, Atomic!vars, AtomicStep
  <1>2. ASSUME AskedInv', Drafts' = Drafts, UNCHANGED <<map, changeset>> PROVE AtomicStep
    BY <1>2 DEF Atomic!vars, AtomicStep
  <1>3. ASSUME NEW q \in Requests, NEW c \in Changesets,
               OpenChangeset(q, c) \/ CloseChangeset(q, c) \/ BeginUpload(q, c)
        PROVE  AtomicStep
    BY <1>3, ChangesetsAtomic, BeginAtomic DEF AtomicStep
  <1>4. ASSUME NEW q \in Requests, NEW action \in {"create", "modify", "delete"},
               NEW ids \in SUBSET Ids, NEW ifunused \in BOOLEAN,
               ReadBlock(q, action, ids, ifunused)
        PROVE  AtomicStep
    <2>1. AskedInv' /\ Drafts' = Drafts
      BY <1>4, ReadAsked
    <2> QED
      BY <1>2, <1>4, <2>1 DEF ReadBlock
  <1>5. ASSUME NEW q \in Requests, NEW action \in {"create", "modify"},
               NEW ids \in SUBSET Ids, ReadBlock(q, action, ids, FALSE)
        PROVE  AtomicStep
    <2>1. action \in {"create", "modify", "delete"} /\ FALSE \in BOOLEAN
      BY <1>5
    <2> QED
      BY <1>4, <1>5, <2>1
  <1>6. ASSUME NEW q \in Requests,
               \/ KeepRelations(q) \/ KeepWays(q)
               \/ KeepNodesOfWays(q) \/ KeepMemberNodes(q)
        PROVE  AtomicStep
    <2>1. AskedInv' /\ Drafts' = Drafts
      BY <1>6, KeepsAtomic
    <2>2. UNCHANGED <<map, changeset>>
      BY <1>6 DEF KeepRelations, KeepWays, KeepNodesOfWays, KeepMemberNodes, Keep
    <2> QED
      BY <1>2, <2>1, <2>2
  <1>7. ASSUME NEW q \in Requests, StoreBlock(q) \/ Commit(q) \/ Abort(q) PROVE AtomicStep
    BY <1>7, StoreDraft, EndAtomic DEF AtomicStep
  <1>8. CASE CloseOldChangesets
    <2>1. txn' = txn /\ map' = map
      BY <1>8 DEF CloseOldChangesets
    <2>2. Drafts' = Drafts /\ AskedInv'
      BY <2>1 DEF Drafts, DraftOf, AskedInv
    <2>3. PICK old \in SUBSET {d \in Changesets : changeset[d].open} :
            changeset' = [d \in Changesets |->
                IF d \in old THEN [changeset[d] EXCEPT !.open = FALSE] ELSE changeset[d]]
      BY <1>8 DEF CloseOldChangesets
    <2>4. old \in SUBSET Changesets /\ Atomic!Close(old)
      BY <2>1, <2>2, <2>3 DEF Atomic!Close
    <2> QED
      BY <2>2, <2>4 DEF Atomic!Next, AtomicStep
  <1> QED
    <2>1. CASE \E q \in Requests, c \in Changesets :
                 OpenChangeset(q, c) \/ CloseChangeset(q, c) \/ BeginUpload(q, c)
      BY <1>3, <2>1
    <2>2. CASE \E q \in Requests, action \in {"create", "modify"}, ids \in SUBSET Ids :
                 ReadBlock(q, action, ids, FALSE)
      BY <1>5, <2>2
    <2>3. CASE \E q \in Requests, ids \in SUBSET Ids, ifunused \in BOOLEAN :
                 ReadBlock(q, "delete", ids, ifunused)
      BY <1>4, <2>3
    <2>4. CASE Next
      BY <1>6, <1>7, <1>8, <2>1, <2>2, <2>3, <2>4, Zenon DEF Next
    <2> QED
      BY <1>1, <2>4

\* Every upload is as if made at one moment, on a map that nobody else changed
\* since it was begun, and every block of it too, however the steps of requests
\* come between one another, and wherever one of them stops.
THEOREM UploadsAreAtomic == Spec => UploadsAtomic
  BY InitAtomic, NextAtomic, Invariance, PTL DEF AtomicStep, Spec, UploadsAtomic, Atomic!Spec
==============================================================================
