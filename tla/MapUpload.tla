------------------------------ MODULE MapUpload ------------------------------
(***************************************************************************)
(* Writes to the map: changesets, and uploads made in them block by block. *)
(*                                                                         *)
(* Each request that writes works in a transaction of its own, on the map  *)
(* as it was committed, and takes the map's EXCLUSIVE lock before it reads *)
(* anything.  Requests that read take a shared lock and see `map' and      *)
(* `changeset', what is committed, at any time.                            *)
(*                                                                         *)
(* Abstracted: tags (only whether a relation's were changed is kept), the  *)
(* order of a way's nodes and of members, and what pgmap does beneath (how *)
(* it resolves the placeholders of an upload, the boxes it keeps of ways   *)
(* and relations, its records of edit activity).  A box is the set of      *)
(* places it was stretched to include.                                     *)
(***************************************************************************)
EXTENDS Naturals, FiniteSets

CONSTANTS
    Nodes, Ways, Relations,  \* the elements of the map
    Places,                  \* where a node can be
    Shapes,                  \* for an element, what it may refer to
    Starts,                  \* the maps that the system may start from
    Changesets,              \* bound: the changesets that can be opened
    Requests,                \* those that write, with one transaction at a time each
    UserOf,                  \* the user that makes a request
    MaxElements,             \* CHANGESETS_MAXIMUM_ELEMENTS
    MaxVersion,              \* bound: the versions of an element
    None

Users == {UserOf[q] : q \in Requests}

Ids == Nodes \cup Ways \cup Relations

\* An element as stored: its number of versions (0 before it is created), the
\* changeset of the last, and what that one says.
Element ==
    [version: Nat, live: BOOLEAN, at: Places \cup {None}, refs: SUBSET Ids,
     changeset: Changesets \cup {None}]

\* An element as an upload gives it: `version' is the one the client has seen,
\* `retagged' whether its tags differ from those stored.
Change ==
    [version: Nat, at: Places \cup {None}, refs: SUBSET Ids, retagged: BOOLEAN]

\* What is live refers to what is live.
Consistent(m) ==
    \A i \in Ids : m[i].live => \A j \in m[i].refs : m[j].live

ASSUME ElementsAssumption ==
    /\ Nodes \cap Ways = {} /\ Nodes \cap Relations = {} /\ Ways \cap Relations = {}
    /\ None \notin Changesets \cup Change

ASSUME BoundsAssumption ==
    /\ MaxElements \in Nat /\ MaxVersion \in Nat
    /\ IsFiniteSet(Ids)

ASSUME ShapesAssumption ==
    /\ Shapes \in [Ids -> SUBSET SUBSET Ids]
    /\ \A i \in Nodes : Shapes[i] = {{}}
    /\ \A i \in Ways : \A refs \in Shapes[i] : refs \subseteq Nodes

ASSUME StartsAssumption ==
    \A m \in Starts :
        /\ m \in [Ids -> Element]
        /\ Consistent(m)
        /\ \A i \in Ids : m[i].live => m[i].version > 0 /\ m[i].refs \in Shapes[i]
        /\ \A i \in Nodes : m[i].live => m[i].at \in Places

VARIABLES
    map,        \* the elements, as committed
    changeset,  \* the changesets, as committed
    txn         \* the transaction of each request, None without one

vars == <<map, changeset, txn>>

NoChangeset == [owner |-> None, open |-> FALSE, box |-> {}]

\* A block, as what it has of each element; and the elements it is of.
NoBlock == [i \in Ids |-> None]
InBlock(block) == {i \in Ids : block[i] # None}

\* A transaction's next step: to read a block of the upload; to see what a
\* block of deletions would break; to store the block.
Stages == {"read", "relations", "ways", "nodes", "members", "store"}

TxnType ==
    [changeset: Changesets, map: [Ids -> Element], box: SUBSET Places,
     elements: 0..MaxElements, stage: Stages,
     action: {"create", "modify", "delete"}, ifunused: BOOLEAN,
     asked: SUBSET Ids, block: [Ids -> Change \cup {None}]]

ChangesetType == [owner: Users \cup {None}, open: BOOLEAN, box: SUBSET Places]

TypeOK ==
    /\ map \in [Ids -> Element]
    /\ changeset \in [Changesets -> ChangesetType]
    /\ txn \in [Requests -> TxnType \cup {None}]

Init ==
    /\ map \in Starts
    /\ changeset = [c \in Changesets |-> NoChangeset]
    /\ txn = [q \in Requests |-> None]

\* (Mutant: a writer does not take the lock.)
MapUnlocked == TRUE

\* The lock is held by the transaction of a request until it ends.
MapFree == \A q \in Requests : txn[q] = None

(***************************************************************************)
(* Changesets.                                                             *)
(***************************************************************************)
OpenChangeset(q, c) ==
    /\ MapFree
    /\ changeset[c] = NoChangeset
    /\ changeset' = [changeset EXCEPT ![c] = [@ EXCEPT !.owner = UserOf[q], !.open = TRUE]]
    /\ UNCHANGED <<map, txn>>

CloseChangeset(q, c) ==
    /\ MapFree
    /\ changeset[c].open
    /\ changeset[c].owner = UserOf[q]
    /\ changeset' = [changeset EXCEPT ![c] = [@ EXCEPT !.open = FALSE]]
    /\ UNCHANGED <<map, txn>>

\* The command run from time to time; which are old is not modelled.
CloseOldChangesets ==
    /\ MapFree
    /\ \E old \in SUBSET {c \in Changesets : changeset[c].open} :
          changeset' = [c \in Changesets |->
              IF c \in old THEN [changeset[c] EXCEPT !.open = FALSE] ELSE changeset[c]]
    /\ UNCHANGED <<map, txn>>

(***************************************************************************)
(* An upload.  It changes its transaction's map, which Commit makes the    *)
(* committed one; when a check of it fails, when the database does or when *)
(* the process dies, Abort leaves nothing of it.                           *)
(***************************************************************************)
BeginUpload(q, c) ==
    /\ MapFree
    /\ changeset[c].open
    /\ changeset[c].owner = UserOf[q]
    /\ txn' = [txn EXCEPT ![q] =
          [changeset |-> c, map |-> map, box |-> {}, elements |-> 0,
           stage |-> "read", action |-> "create", ifunused |-> FALSE,
           asked |-> {}, block |-> NoBlock]]
    /\ UNCHANGED <<map, changeset>>

Commit(q) ==
    /\ txn[q] # None
    /\ txn[q].stage = "read"
    /\ map' = txn[q].map
    /\ changeset' = [changeset EXCEPT ![txn[q].changeset].box = @ \cup txn[q].box]
    /\ txn' = [txn EXCEPT ![q] = None]

Abort(q) ==
    /\ txn[q] # None
    /\ txn' = [txn EXCEPT ![q] = None]
    /\ UNCHANGED <<map, changeset>>

\* (Mutant: the version is not checked.)
VersionsGiven(m, block) == \A i \in InBlock(block) : block[i].version \in Nat

\* The version that the client says it changes is the one stored.
VersionsMatch(m, block) == \A i \in InBlock(block) : block[i].version = m[i].version

\* An element that is modified or deleted, and what it refers to, is there; a
\* created element may refer to others that its block creates.
ReferencesFound(m, action, block) ==
    \A i \in InBlock(block) :
        /\ action = "create" \/ m[i].live
        /\ \A j \in block[i].refs : m[j].live \/ (action = "create" /\ j \in InBlock(block))

\* A way has nodes.  (It needs two references, which may be to one node.)
WaysHaveNodes(block) == \A i \in Ways \cap InBlock(block) : block[i].refs # {}

\* The changes that a client can ask of an element.  One that is created has
\* no version yet; to change another its version must be given.
ChangesOf(action, i) ==
    [version: IF action = "create" THEN {0} ELSE 1..(MaxVersion - 1),
     at: IF i \in Nodes THEN Places ELSE {None},
     refs: Shapes[i],
     retagged: IF action = "modify" /\ i \in Relations THEN BOOLEAN ELSE {FALSE}]

Blocks(action, ids) ==
    {[i \in Ids |-> IF i \in ids THEN change[i] ELSE None] : change \in
        {c \in [ids -> UNION {ChangesOf(action, i) : i \in ids}] :
            \A i \in ids : c[i] \in ChangesOf(action, i)}}

\* (Mutant: the elements of each block are counted apart.)
BlockFits(t, ids) == t.elements \in Nat /\ Cardinality(ids) <= MaxElements

\* The elements of all the blocks are counted together.
UploadFits(t, ids) == t.elements + Cardinality(ids) <= MaxElements

\* The next block of the upload, and the checks made of any block.  A created
\* element is given an identifier that was never used.  (A block of any other
\* action is skipped.)
ReadBlock(q, action, ids, ifunused) ==
    /\ txn[q] # None
    /\ txn[q].stage = "read"
    /\ UploadFits(txn[q], ids)
    /\ action = "create" => \A i \in ids : txn[q].map[i].version = 0
    /\ \E block \in Blocks(action, ids) :
          /\ action # "delete" => WaysHaveNodes(block)
          /\ ReferencesFound(txn[q].map, action, block)
          /\ VersionsMatch(txn[q].map, block)
          /\ txn' = [txn EXCEPT ![q] = [txn[q] EXCEPT
                !.stage = IF action = "delete" THEN "relations" ELSE "store",
                !.elements = @ + Cardinality(ids),
                !.action = action, !.ifunused = ifunused,
                !.asked = ids, !.block = block]]
    /\ UNCHANGED <<map, changeset>>

\* (Mutant: parents that are deleted too count as well.)
InUseByAny(t, kind, parents) ==
    {i \in kind \cap InBlock(t.block) :
        \E p \in parents : t.map[p].live /\ i \in t.map[p].refs}

\* Of a block's elements of one kind, those that parents outside it refer to.
InUse(t, kind, parents) ==
    {i \in kind \cap InBlock(t.block) :
        \E p \in parents \ InBlock(t.block) : t.map[p].live /\ i \in t.map[p].refs}

\* One of the checks of a block of deletions.  What is in use fails it or, when
\* only what is unused is to be deleted, is kept: taken out of the block.
Keep(q, stage, used, next) ==
    /\ txn[q] # None
    /\ txn[q].stage = stage
    /\ used # {} => txn[q].ifunused
    /\ txn' = [txn EXCEPT ![q] = [txn[q] EXCEPT
          !.stage = next,
          !.block = [i \in Ids |-> IF i \in used THEN None ELSE @[i]]]]
    /\ UNCHANGED <<map, changeset>>

\* (Mutant: the check of relations is made once.)
KeepRelationsOnce(q) == Keep(q, "relations", InUse(txn[q], Relations, Relations), "ways")

\* A relation that is kept goes on using its members, so the check of relations
\* is repeated until it keeps no more.
KeepRelations(q) ==
    LET used == InUse(txn[q], Relations, Relations)
    IN Keep(q, "relations", used, IF used = {} THEN "ways" ELSE "relations")

KeepWays(q) == Keep(q, "ways", InUse(txn[q], Ways, Relations), "nodes")

KeepNodesOfWays(q) == Keep(q, "nodes", InUse(txn[q], Nodes, Ways), "members")

KeepMemberNodes(q) == Keep(q, "members", InUse(txn[q], Nodes, Relations), "store")

\* Where the nodes of a set of elements are, and those of the ways in it.
Where(m, ids) == {m[i].at : i \in {n \in ids \cap Nodes : m[n].live}}

Extent(m, ids) ==
    Where(m, ids \cup UNION {m[w].refs : w \in {w \in ids \cap Ways : m[w].live}})

SymDiff(S, T) == (S \ T) \cup (T \ S)

\* (Mutant: members removed are left out.)
RelationGains(old, change) == change.refs \ old.refs

\* A modified relation stretches the box by its members that come or go or, if
\* a relation does or its tags change, by all its members.
RelationChanged(old, change) ==
    LET differ == SymDiff(old.refs, change.refs)
    IN IF change.retagged \/ differ \cap Relations # {}
       THEN old.refs \cup change.refs
       ELSE differ

\* The members by which the relations of a block stretch the box: of those it
\* deletes, also the ones asked for and kept.
MembersTouched(t) ==
    LET relations == Relations \cap InBlock(t.block)
    IN UNION CASE t.action = "create" -> {t.block[r].refs : r \in relations}
               [] t.action = "modify" ->
                     {RelationChanged(t.map[r], t.block[r]) : r \in relations}
               [] t.action = "delete" -> {t.map[r].refs : r \in t.asked \cap Relations}

\* What a block adds to the box, `after' being the map with it stored.
Stretch(t, after) ==
    LET nodes == Nodes \cap InBlock(t.block)
        ways == Ways \cap InBlock(t.block)
    IN Where(t.map, t.asked)
         \cup {t.block[n].at : n \in nodes}
         \cup Where(after, UNION {t.block[w].refs : w \in ways})
         \cup Extent(after, MembersTouched(t))

\* The map with a block stored.  What the last version of a deleted element says
\* is not used, and not kept here.
Stored(t) ==
    [i \in Ids |->
        IF i \in InBlock(t.block)
        THEN [version |-> t.block[i].version + 1,
              live |-> t.action # "delete",
              at |-> IF t.action = "delete" THEN None ELSE t.block[i].at,
              refs |-> IF t.action = "delete" THEN {} ELSE t.block[i].refs,
              changeset |-> t.changeset]
        ELSE t.map[i]]

StoreBlock(q) ==
    /\ txn[q] # None
    /\ txn[q].stage = "store"
    /\ txn' = [txn EXCEPT ![q] = [txn[q] EXCEPT
          !.stage = "read",
          !.map = Stored(txn[q]),
          !.box = @ \cup Stretch(txn[q], Stored(txn[q])),
          !.action = "create", !.ifunused = FALSE,
          !.asked = {}, !.block = NoBlock]]
    /\ UNCHANGED <<map, changeset>>

Next ==
    \/ CloseOldChangesets
    \/ \E q \in Requests :
          \/ \E c \in Changesets : OpenChangeset(q, c)
          \/ \E c \in Changesets : CloseChangeset(q, c)
          \/ \E c \in Changesets : BeginUpload(q, c)
          \/ \E action \in {"create", "modify"}, ids \in SUBSET Ids :
                ReadBlock(q, action, ids, FALSE)
          \/ \E ids \in SUBSET Ids, ifunused \in BOOLEAN :
                ReadBlock(q, "delete", ids, ifunused)
          \/ KeepRelations(q)
          \/ KeepWays(q)
          \/ KeepNodesOfWays(q)
          \/ KeepMemberNodes(q)
          \/ StoreBlock(q)
          \/ Commit(q)
          \/ Abort(q)

Spec == Init /\ [][Next]_vars

(***************************************************************************)
(* What the checks and the lock are there for.                             *)
(***************************************************************************)

\* Nothing live refers to an element that is deleted or was never there: in
\* the committed map, and in that of a transaction after each of its blocks.
\* A block of deletions is checked kind by kind, and what one check keeps goes
\* on using what the checks before and after it are about.
Integrity ==
    /\ Consistent(map)
    /\ \A q \in Requests : txn[q] # None => Consistent(txn[q].map)

\* A block that deletes only what is unused keeps no more than it has to: each
\* element it was asked to delete and keeps is, once it is stored, a member or
\* a node of something live.
KeptForAUse ==
    [][\A q \in Requests :
        StoreBlock(q) /\ txn[q].action = "delete" =>
            \A i \in txn[q].asked \ InBlock(txn[q].block) :
                \E p \in Ids : txn[q]'.map[p].live /\ i \in txn[q]'.map[p].refs]_vars

\* The committed map changes only under a changeset that is open and belongs to
\* the user whose upload commits: it is not closed between the upload's check
\* of it and the commit.
OnlyOpenChangesets ==
    [][\A i \in Ids : map'[i] # map[i] =>
        LET c == map'[i].changeset
        IN /\ changeset[c].open
           /\ \E q \in Requests : txn[q] # None /\ txn'[q] = None /\ changeset[c].owner = UserOf[q]]_vars

\* No version of an element is stored twice: an edit made from a version that
\* is no longer the latest does not overwrite the edit that came between.
VersionsStoredOnce ==
    [][\A i \in Ids : map'[i] # map[i] => map'[i].version > map[i].version]_vars

\* A changeset's box has the places that its changes touched: where a changed
\* node was and is, where the nodes of a way are, and where the members are
\* that a relation gains, loses, is created or is deleted with, all of them
\* when it gains or loses a relation.  It is found in each block, from what the
\* map holds then, and is to be right when all of them are committed.  Of a
\* deleted way it has no more than the upload names.
Touched(i) ==
    LET old == map[i].refs
        new == map'[i].refs
        differ == SymDiff(old, new)
    IN CASE i \in Nodes -> Where(map, {i}) \cup Where(map', {i})
         [] i \in Ways -> IF map'[i].live THEN Where(map', new) ELSE {}
         [] i \in Relations ->
               IF ~map[i].live
               THEN IF map'[i].live THEN Extent(map', new) ELSE {}
               ELSE IF ~map'[i].live THEN Extent(map', old)
                    ELSE Extent(map', IF differ \cap Relations # {} THEN old \cup new ELSE differ)

BoxHasChanges ==
    [][\A i \in Ids : map'[i] # map[i] =>
        Touched(i) \subseteq changeset'[map'[i].changeset].box]_vars
==============================================================================
