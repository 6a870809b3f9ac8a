------------------------------ MODULE EditFeed ------------------------------
(***************************************************************************)
(* What the notification server promises those who follow records: a feed  *)
(* of committed edits.  The feed reaches further along the log in one step *)
(* for all: every follower is then sent all that concerns it of the edits  *)
(* reached, each once, or is let go.  A follower is told where it joins,   *)
(* and that is where the feed has got to.                                  *)
(*                                                                         *)
(* The log may begin again.  That spoils no more than the step that the    *)
(* feed was about to take, in which followers may then miss entries, and   *)
(* be sent others of the same numbers, but none that they were sent since  *)
(* the feed last went back, and none from where it has not reached.        *)
(***************************************************************************)
EXTENDS Naturals, Sequences

CONSTANTS Followers, Interests, Entries, Nobody, MaxLog
CONSTANT Matches(_, _)   \* whether an entry of the log concerns an interest

VARIABLES log, reached, follower,
    spoiled   \* whether the log began again as the feed was about to reach further

vars == <<log, reached, follower, spoiled>>

\* A follower: its interest, where it joined, and how often it was sent each.
NoneSent == [e \in 1..MaxLog |-> 0]
Follower(interest, from, sent) == [interest |-> interest, from |-> from, sent |-> sent]

Between(first, last, interest) ==
    {e \in (first + 1)..last : Matches(log[e], interest)}

Init ==
    /\ log = <<>> /\ reached = 0 /\ spoiled = FALSE
    /\ follower = [f \in Followers |-> Nobody]

\* The log grows.
Grow(entry) ==
    /\ Len(log) < MaxLog
    /\ log' = Append(log, entry)
    /\ UNCHANGED <<reached, follower, spoiled>>

\* The log begins again.
Restart ==
    /\ log' = <<>>
    /\ spoiled' \in BOOLEAN
    /\ UNCHANGED <<reached, follower>>

Join(f, interest) ==
    /\ follower[f] = Nobody
    /\ follower' = [follower EXCEPT ![f] = Follower(interest, reached, NoneSent)]
    /\ UNCHANGED <<log, reached, spoiled>>

Leave(f) ==
    /\ follower' = [follower EXCEPT ![f] = Nobody]
    /\ UNCHANGED <<log, reached, spoiled>>

Sent(f, new) ==
    [follower[f] EXCEPT !.sent = [e \in 1..MaxLog |-> @[e] + IF e \in new THEN 1 ELSE 0]]

\* The feed reaches further, letting some go and sending the others these.
Reach(last, gone, new) ==
    /\ reached' = last
    /\ spoiled' = FALSE
    /\ follower' = [f \in Followers |->
                       IF follower[f] = Nobody \/ f \in gone THEN Nobody ELSE Sent(f, new[f])]
    /\ UNCHANGED log

\* ...all that concerns each.
ReachAll(last, gone) ==
    /\ last \in (reached + 1)..Len(log)
    /\ Reach(last, gone, [f \in Followers |-> Between(reached, last, follower[f].interest)])

\* ...or, spoiled, only some of the numbers that it reaches.
ReachSpoiled(last, gone) ==
    /\ spoiled
    /\ last \in (reached + 1)..MaxLog
    /\ \E new \in [Followers -> SUBSET ((reached + 1)..last)] : Reach(last, gone, new)

\* The feed goes back, as the log began again, or only gives up its step.
GoBack(last) ==
    /\ last <= reached
    /\ ~spoiled => last <= Len(log)
    /\ reached' = last
    /\ spoiled' = FALSE
    /\ UNCHANGED <<log, follower>>

Next ==
    \/ \E entry \in Entries : Grow(entry)
    \/ \E f \in Followers : Leave(f) \/ \E interest \in Interests : Join(f, interest)
    \/ Restart
    \/ \E last \in 1..MaxLog, gone \in SUBSET Followers :
          ReachAll(last, gone) \/ ReachSpoiled(last, gone)
    \/ \E last \in 0..MaxLog : GoBack(last)

Spec == Init /\ [][Next]_vars
=============================================================================
