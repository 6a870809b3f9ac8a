---------------------------- MODULE AtomicUploads ----------------------------
(***************************************************************************)
(* What uploads promise to those who read the map and to each other.  An   *)
(* upload is written in a draft of the map, and published all at once or   *)
(* not at all, if nobody published anything since it was begun and its     *)
(* changeset is still open.  So the map is as if uploads were made one     *)
(* after another, each at one moment.  A block of a draft is written at    *)
(* one moment too, and leaves nothing that refers to what is not there.    *)
(***************************************************************************)
EXTENDS Naturals, FiniteSets

CONSTANTS Ids, Element, Starts, Changesets, Requests, UserOf, Places, MaxElements, None

VARIABLES map, changeset, draft

vars == <<map, changeset, draft>>

NoChangeset == [owner |-> None, open |-> FALSE, box |-> {}]

\* What is live refers to what is live.
Whole(m) == \A i \in Ids : m[i].live => \A j \in m[i].refs : m[j].live

\* Nothing else that is live refers to any of these elements.
Unused(m, ids) == \A p \in Ids \ ids : m[p].live => m[p].refs \cap ids = {}

\* Of some elements, the most that can be deleted together.
LargestUnused(m, asked, ids) ==
    /\ ids \subseteq asked
    /\ Unused(m, ids)
    /\ \A more \in SUBSET asked : Unused(m, more) => more \subseteq ids

Init ==
    /\ map \in Starts
    /\ changeset = [c \in Changesets |-> NoChangeset]
    /\ draft = [q \in Requests |-> None]

Open(q, c) ==
    /\ changeset[c] = NoChangeset
    /\ changeset' = [changeset EXCEPT ![c] = [@ EXCEPT !.owner = UserOf[q], !.open = TRUE]]
    /\ UNCHANGED <<map, draft>>

\* Changesets are closed by their users, or when they are old.
Close(old) ==
    /\ changeset' = [c \in Changesets |->
          IF c \in old THEN [changeset[c] EXCEPT !.open = FALSE] ELSE changeset[c]]
    /\ UNCHANGED <<map, draft>>

Begin(q, c) ==
    /\ draft[q] = None
    /\ draft' = [draft EXCEPT ![q] =
          [changeset |-> c, base |-> map, map |-> map, elements |-> 0]]
    /\ UNCHANGED <<map, changeset>>

\* The elements that a step changes in a draft.
Changed(q) == {i \in Ids : draft'[q].map[i] # draft[q].map[i]}

\* A block of so many elements is written in a draft: what it changes has its
\* next version, made in the draft's changeset.
Write(q, asked) ==
    LET old == draft[q]
        new == draft'[q]
    IN /\ Changed(q) \subseteq asked
       /\ old.elements + Cardinality(asked) <= MaxElements
       /\ new.map \in [Ids -> Element]
       /\ new = [changeset |-> old.changeset, base |-> old.base, map |-> new.map,
                 elements |-> old.elements + Cardinality(asked)]
       /\ \A i \in Changed(q) : /\ new.map[i].version = old.map[i].version + 1
                                /\ new.map[i].changeset = old.changeset
       /\ Whole(new.map)

\* Elements are created that never were, or modified that are there.
Create(q) ==
    /\ Write(q, Changed(q))
    /\ \A i \in Changed(q) : draft[q].map[i].version = 0 /\ draft'[q].map[i].live

Modify(q) ==
    /\ Write(q, Changed(q))
    /\ \A i \in Changed(q) : draft[q].map[i].live /\ draft'[q].map[i].live

\* Elements are deleted: all that were asked for or, if the upload wants it so,
\* as many of them as nothing else refers to.
Delete(q, asked) ==
    /\ Write(q, asked)
    /\ \A i \in asked : draft[q].map[i].live
    /\ \A i \in Changed(q) : ~draft'[q].map[i].live
    /\ LargestUnused(draft[q].map, asked, Changed(q))

Block(q) ==
    /\ draft[q] # None /\ draft'[q] # None
    /\ draft'[q] # draft[q]
    /\ Create(q) \/ Modify(q) \/ \E asked \in SUBSET Ids : Delete(q, asked)
    /\ draft' = [draft EXCEPT ![q] = draft'[q]]
    /\ UNCHANGED <<map, changeset>>

\* The draft becomes the map, and its changeset's box gets larger.
Publish(q) ==
    LET d == draft[q]
    IN /\ d # None
       /\ d.base = map
       /\ changeset[d.changeset].open
       /\ changeset[d.changeset].owner = UserOf[q]
       /\ map' = d.map
       /\ \E box \in SUBSET Places :
             changeset' = [changeset EXCEPT ![d.changeset].box = @ \cup box]
       /\ draft' = [draft EXCEPT ![q] = None]

Drop(q) ==
    /\ draft' = [draft EXCEPT ![q] = None]
    /\ UNCHANGED <<map, changeset>>

Next ==
    \/ \E old \in SUBSET Changesets : Close(old)
    \/ \E q \in Requests :
          \/ \E c \in Changesets : Open(q, c) \/ Begin(q, c)
          \/ Block(q)
          \/ Publish(q)
          \/ Drop(q)

Spec == Init /\ [][Next]_vars
==============================================================================
