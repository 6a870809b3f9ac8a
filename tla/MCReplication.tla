--------------------------- MODULE MCReplication ---------------------------
(***************************************************************************)
(* Small instances of Replication for TLC.  As neither part touches what   *)
(* the other keeps, a behaviour is of one of them, chosen at first.        *)
(***************************************************************************)
EXTENDS Replication

CONSTANTS mover, far, w1, r1

VARIABLE part

\* A way with one node that can move into the rectangle and one that cannot, and
\* a relation that holds its far node.
SmallShapes ==
    [i \in Ids |->
        CASE i \in Nodes -> {{}}
          [] i = w1 -> {{mover, far}}
          [] i = r1 -> {{far}}]

Drawn(refs) == [version |-> 1, live |-> TRUE, at |-> "out", refs |-> refs]

SmallStart ==
    [i \in Ids |->
        CASE i \in Nodes -> Drawn({})
          [] i = w1 -> Drawn({mover, far})
          [] i = r1 -> Drawn({far})]

SmallVersions == [i \in Ids |-> IF i = mover THEN 4 ELSE 2]

SmallRows == [k \in 0..Cardinality(Extracts) |-> IF k = 2 THEN 1 ELSE 3]

\* Extracts updated automatically since the import, one of another server and
\* perhaps one of this, or one still to be saved or imported.
Kept(remote) ==
    [stored |-> "yes", content |-> {}, row |-> 0, automatic |-> TRUE, remote |-> remote]

Gone == [NoExtract EXCEPT !.stored = "deleted"]

SmallInitial ==
    [useBbox: {TRUE}, extract: {<<Gone, Kept(TRUE)>>}]
        \cup [useBbox: BOOLEAN, extract: {<<Kept(FALSE), Kept(TRUE)>>}]
        \cup [useBbox: {FALSE}, extract: {<<NoExtract, Gone>>}]

\* A way that loses its node in the rectangle while that is away from it.
MovedShapes == [i \in Ids |-> IF i = w1 THEN {{mover, far}, {far}} ELSE {{}}]

MovedStart == [SmallStart EXCEPT ![mover].at = "in"]

MovedRows == [k \in 0..Cardinality(Extracts) |-> 3]

MovedInitial ==
    [useBbox: {TRUE},
     extract: {<<[Kept(TRUE) EXCEPT !.content = Select(Copies(MovedStart, Ids))]>>}]

PartInit ==
    /\ part \in {"extracts", "diffs"}
    /\ ReplicationInit
    /\ part = "diffs" => extract[1] = NoExtract

PartNext ==
    /\ UNCHANGED part
    /\ \/ part = "extracts" /\ Next /\ UNCHANGED diffVars
       \/ part = "diffs" /\ NextDiffs /\ UNCHANGED vars

PartSpec ==
    /\ PartInit
    /\ [][PartNext]_<<part, replicationVars>>
    /\ SF_vars(\E p \in Commands : BeginCommand(p, Automatic))
    /\ WF_vars(\E p \in Commands : Step(p))
=============================================================================
