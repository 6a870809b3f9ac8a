---------------------------- MODULE MCMapUpload ----------------------------
(***************************************************************************)
(* Small instances of MapUpload for TLC.                                   *)
(***************************************************************************)
EXTENDS MapUploadRefinement, TLC

CONSTANTS n1, n2, w1, r1, r2, r3, p1, p2, c1, q1, q2, u1

TwoRequests == {q1, q2}
OneUser == [q \in TwoRequests |-> u1]
Alike == Permutations(TwoRequests)

\* What each element may refer to: the relations can make a chain, at the end
\* of which is the way or a node.
SmallShapes ==
    [i \in Ids |->
        CASE i \in Nodes -> {{}}
          [] i = w1 -> {{}, {n1, n2}}
          [] i = r1 -> {{n2}, {w1}}
          [] i = r2 -> {{r1}}
          [] i = r3 -> {{w1}, {r2}}]

Drawn(i, refs, at) ==
    [version |-> 1, live |-> TRUE, at |-> at, refs |-> refs, changeset |-> None]

Undrawn ==
    [version |-> 0, live |-> FALSE, at |-> None, refs |-> {}, changeset |-> None]

\* A chain of relations over a way, with its nodes in two places.
Chain ==
    [i \in Ids |->
        CASE i = n1 -> Drawn(i, {}, p1)
          [] i = n2 -> Drawn(i, {}, p2)
          [] i = w1 -> Drawn(i, {n1, n2}, None)
          [] i = r1 -> Drawn(i, {w1}, None)
          [] i = r2 -> Drawn(i, {r1}, None)
          [] i = r3 -> Drawn(i, {r2}, None)]

\* A map with one node left of a chain, where others can be created.
Gone == [Undrawn EXCEPT !.version = MaxVersion]

Bare ==
    [i \in Ids |->
        CASE i = n1 -> Chain[n1]
          [] i \in {n2, w1, r1} -> Undrawn
          [] OTHER -> Gone]

SmallStarts == {Chain, Bare}
==============================================================================
