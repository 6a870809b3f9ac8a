----------------------------- MODULE RateLimit -----------------------------
(***************************************************************************)
(* How often one client may call a view: a counter in a cache, which the   *)
(* cache drops when its time is over.  Each step is one access of the      *)
(* cache, and requests of one client are answered at the same time.        *)
(*                                                                         *)
(* There are two caches.  The local one is the default, Django's           *)
(* LocMemCache: the counter is one worker's, and incr counts under a lock. *)
(* The database's (DatabaseCache, which PRODUCTION.md:62-79 sets up) is    *)
(* shared by all workers.  Its incr is that of BaseCache: a get and then a *)
(* set, which gives the counter the cache's own timeout.                   *)
(***************************************************************************)
EXTENDS Naturals, FiniteSets

CONSTANTS
    Callers,         \* the threads that serve one client: a worker's, or with the database all
    Caches,          \* those that may be set up
    Limit, Window,   \* of the settings, both more than 0
    DefaultTimeout,  \* of the cache, 300 seconds
    MaxClock,        \* bound: when time ends
    MaxRequests      \* bound: the requests that come

ASSUME RateAssumption ==
    /\ IsFiniteSet(Callers) /\ Caches \subseteq {"local", "database"}
    /\ Limit \in Nat \ {0} /\ Window \in Nat \ {0} /\ DefaultTimeout \in Nat \ {0}
    /\ MaxClock \in Nat /\ MaxRequests \in Nat

VARIABLES
    clock,
    cache,
    entry,     \* the cache's counter: whether it is there, its count and when it is dropped
    stage,     \* how far each request has got
    seen,      \* what it read before it writes one more
    counted,   \* what it was told the count is
    came,      \* history: the requests there have been
    asked,     \* history: of those, since there was neither a counter nor a request at work
    admitted,  \* history: how many were told a count within the limit since the counter was made
    last,      \* history: when a request was last done
    fresh      \* history: whether the last that came did so a window after that, and alone

rateVars == <<clock, cache, entry, stage, seen, counted, came, asked, admitted, last, fresh>>

RateTypeOK ==
    /\ clock \in 0..MaxClock /\ cache \in Caches
    /\ entry \in [there : BOOLEAN, count : Nat, ends : Nat]
    /\ stage \in [Callers -> {"idle", "add", "incr", "set", "again", "decide"}]
    /\ seen \in [Callers -> Nat] /\ counted \in [Callers -> Nat]
    /\ came \in Nat /\ asked \in Nat /\ admitted \in Nat /\ last \in Nat /\ fresh \in BOOLEAN

Gone == [there |-> FALSE, count |-> 0, ends |-> 0]

InitRate ==
    /\ clock = 0 /\ cache \in Caches
    /\ entry = Gone
    /\ stage = [r \in Callers |-> "idle"]
    /\ seen = [r \in Callers |-> 0] /\ counted = [r \in Callers |-> 0]
    /\ came = 0 /\ asked = 0 /\ admitted = 0 /\ last = 0 /\ fresh = FALSE

Idle == \A r \in Callers : stage[r] = "idle"

TickClock ==
    /\ clock < MaxClock
    /\ clock' = clock + 1
    /\ entry' = IF entry.there /\ clock + 1 < entry.ends THEN entry ELSE Gone
    /\ UNCHANGED <<cache, stage, seen, counted, came, asked, admitted, last, fresh>>

\* The cache makes room, or the worker that has it is replaced.
Drop ==
    /\ entry.there
    /\ entry' = Gone
    /\ UNCHANGED <<clock, cache, stage, seen, counted, came, asked, admitted, last, fresh>>

Come(r) ==
    /\ stage[r] = "idle" /\ came < MaxRequests
    /\ stage' = [stage EXCEPT ![r] = "add"]
    /\ came' = came + 1
    /\ asked' = IF Idle /\ ~entry.there THEN 1 ELSE asked + 1
    /\ fresh' = (Idle /\ clock >= last + Window)
    /\ UNCHANGED <<clock, cache, entry, seen, counted, admitted, last>>

One(count) == IF count <= Limit THEN 1 ELSE 0

\* The cache has a counter from now on.
Make(count, timeout, told) ==
    /\ entry' = [there |-> TRUE, count |-> count, ends |-> clock + timeout]
    /\ admitted' = told

Add(r) ==
    /\ stage[r] = "add"
    /\ IF entry.there THEN UNCHANGED <<entry, admitted>> ELSE Make(0, Window, 0)
    /\ stage' = [stage EXCEPT ![r] = "incr"]
    /\ UNCHANGED <<clock, cache, seen, counted, came, asked, last, fresh>>

Told(r, count) ==
    /\ counted' = [counted EXCEPT ![r] = count]
    /\ stage' = [stage EXCEPT ![r] = "decide"]

\* LocMemCache.incr: one more, in one step.
IncrLocal(r) ==
    /\ cache = "local" /\ stage[r] = "incr" /\ entry.there
    /\ entry' = [entry EXCEPT !.count = @ + 1]
    /\ admitted' = admitted + One(entry.count + 1)
    /\ Told(r, entry.count + 1)
    /\ UNCHANGED <<clock, cache, seen, came, asked, last, fresh>>

\* BaseCache.incr: what the count is...
IncrGet(r) ==
    /\ cache = "database" /\ stage[r] = "incr" /\ entry.there
    /\ seen' = [seen EXCEPT ![r] = entry.count]
    /\ stage' = [stage EXCEPT ![r] = "set"]
    /\ UNCHANGED <<clock, cache, entry, counted, came, asked, admitted, last, fresh>>

\* ...and then one more, whatever it is by now.
IncrSet(r) ==
    /\ stage[r] = "set"
    /\ Make(seen[r] + 1, DefaultTimeout,
            (IF entry.there THEN admitted ELSE 0) + One(seen[r] + 1))
    /\ Told(r, seen[r] + 1)
    /\ seen' = [seen EXCEPT ![r] = 0]
    /\ UNCHANGED <<clock, cache, came, asked, last, fresh>>

\* The counter is gone: ValueError.
IncrFails(r) ==
    /\ stage[r] = "incr" /\ ~entry.there
    /\ stage' = [stage EXCEPT ![r] = "again"]
    /\ UNCHANGED <<clock, cache, entry, seen, counted, came, asked, admitted, last, fresh>>

\* (Mutant: the counter is made as if nobody had asked yet.)
AddZeroAgain(r) ==
    /\ stage[r] = "again"
    /\ IF entry.there THEN admitted' = admitted + 1 /\ UNCHANGED entry ELSE Make(0, Window, 1)
    /\ Told(r, 1)
    /\ UNCHANGED <<clock, cache, seen, came, asked, last, fresh>>

\* The request is the first of a new counter, or goes uncounted if another has
\* made it meanwhile.
AddAgain(r) ==
    /\ stage[r] = "again"
    /\ IF entry.there THEN admitted' = admitted + 1 /\ UNCHANGED entry ELSE Make(1, Window, 1)
    /\ Told(r, 1)
    /\ UNCHANGED <<clock, cache, seen, came, asked, last, fresh>>

\* The view is called if counted[r] <= Limit, else the answer is 429.
Decide(r) ==
    /\ stage[r] = "decide"
    /\ stage' = [stage EXCEPT ![r] = "idle"]
    /\ counted' = [counted EXCEPT ![r] = 0]
    /\ last' = clock
    /\ UNCHANGED <<clock, cache, entry, seen, came, asked, admitted, fresh>>

NextRate ==
    \/ TickClock \/ Drop
    \/ \E r \in Callers :
          \/ Come(r) \/ Add(r) \/ IncrLocal(r) \/ IncrGet(r) \/ IncrSet(r) \/ IncrFails(r)
          \/ AddAgain(r) \/ Decide(r)

RateSpec == InitRate /\ [][NextRate]_rateVars

(***************************************************************************)
(* What the limit is worth.                                                *)
(***************************************************************************)

\* Writes that let a request through, of n threads, each from what it read, once
\* the counter is at count.  While one of them waits to write, the others may go on
\* to the limit; then it sets the counter back to one more than it read.
Writes ==
    LET most[n \in 0..Cardinality(Callers), count \in 0..Limit] ==
            IF n = 0 \/ count = Limit THEN 0 ELSE most[n - 1, count] + 1 + most[n, count + 1]
    IN most[Cardinality(Callers), 0]

\* Of one counter, the limit is let through, and in the database what is written
\* over; and as many more as may have found the one before it gone.
NotTooManyPass ==
    admitted <= (IF cache = "local" THEN Limit ELSE Writes) + Cardinality(Callers) - 1

\* Nobody is told a higher count than there were requests since there was neither a
\* counter nor a request at work: so nobody is refused before the limit.
NotRefusedEarly == \A r \in Callers : stage[r] = "decide" => counted[r] <= asked

\* A request that comes a window after all others were done, and alone, is let through.
FreeAfterWindow == fresh => \A r \in Callers : stage[r] = "decide" => counted[r] <= Limit

\* In every state of either cache, however requests meet and whenever the counter is
\* dropped (pycrocosm/ratelimit.py:29-42): so many pass as can have met, none is
\* refused before the limit, and with the local cache a window's wait is enough.
LimitHolds ==
    /\ NotTooManyPass
    /\ NotRefusedEarly
    /\ cache = "local" => FreeAfterWindow
=============================================================================
