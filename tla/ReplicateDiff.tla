--------------------------- MODULE ReplicateDiff ---------------------------
(***************************************************************************)
(* The diffs this server publishes: what was edited in a range of time.    *)
(*                                                                         *)
(* An upload takes the map's exclusive lock, gives each of its blocks the  *)
(* time at which it stores it, and commits later.  A diff once given must  *)
(* therefore wait for the uploads that are at work, or it would lack edits *)
(* timed in its range for good.  The diffs of whole minutes, hours and     *)
(* days have pages, found through three catalogs of up to a thousand       *)
(* entries each.                                                           *)
(*                                                                         *)
(* Of pgmap it is taken that a diff has the committed edits whose time is  *)
(* from its start up to but not including its end, as the paths worked     *)
(* out for an edit's time have it.  Times are whole seconds.               *)
(***************************************************************************)
EXTENDS Naturals, FiniteSets

CONSTANTS
    Uploads, Readers,
    Steps,            \* the lengths of the diffs: of a minute, an hour and a day
    Fan,              \* how many entries a catalog has: a thousand
    Offset,           \* REPLICATE_OFFSET
    Epoch,            \* REPLICATE_EPOCH
    MaximumSeconds,   \* REPLICATE_DIFF_MAXIMUM_SECONDS
    MaxTime,          \* bound: when time ends
    MaxBlocks,        \* bound: the blocks that are stored
    MaxAnswers,       \* bound: the diffs given
    Nobody

ASSUME TimesAssumption ==
    /\ Steps \subseteq Nat \ {0} /\ IsFiniteSet(Steps) /\ Fan \in Nat \ {0}
    /\ Offset \in Nat /\ Epoch \in Nat /\ MaximumSeconds \in Nat
    /\ \A step \in Steps : step <= Epoch
    /\ MaxTime \in Nat /\ Epoch < MaxTime /\ MaxBlocks \in Nat /\ MaxAnswers \in Nat
    /\ Uploads \cap Readers = {} /\ Nobody \notin Uploads \cup Readers

VARIABLES
    now,
    mapLock,   \* who holds the exclusive lock
    stored,    \* what each upload has stored and not committed: blocks with their times
    edits,     \* the blocks committed, with their times
    asked,     \* how far each reader has got, and for which range
    answers    \* history: the diffs given

diffVars == <<now, mapLock, stored, edits, asked, answers>>

Edit == [block: Nat, time: Nat]

NotAsked == [stage |-> "idle", from |-> 0, to |-> 0]

DiffTypeOK ==
    /\ now \in Epoch..MaxTime
    /\ mapLock \in Uploads \cup Readers \cup {Nobody}
    /\ stored \in [Uploads -> SUBSET Edit]
    /\ edits \subseteq Edit
    /\ asked \in [Readers -> [stage: {"idle", "wait", "leave", "read"}, from: Nat, to: Nat]]
    /\ answers \subseteq [from: Nat, to: Nat, edits: SUBSET Edit]

InitDiffs ==
    /\ now = Epoch
    /\ mapLock = Nobody
    /\ stored = [u \in Uploads |-> {}]
    /\ edits = {}
    /\ asked = [r \in Readers |-> NotAsked]
    /\ answers = {}

(***************************************************************************)
(* The pages.                                                              *)
(***************************************************************************)

PageStep2(step) == step * Fan
PageStep(step) == PageStep2(step) * Fan

\* When a page can be read: its diff is of the step before.
PageStart(step, page) ==
    (page[1] - Offset) * PageStep(step) + page[2] * PageStep2(step) + page[3] * step + Epoch

\* (Mutant: the page that starts with the step of the time.)
PathAtStart(ts, step) ==
    LET t == ts - Epoch
    IN <<t \div PageStep(step) + Offset,
         (t % PageStep(step)) \div PageStep2(step),
         (t % PageStep2(step)) \div step>>

\* The page whose diff has an edit of the given time.
TimestampToPath(ts, step) ==
    LET t == ts - Epoch
    IN <<t \div PageStep(step) + Offset,
         (t % PageStep(step)) \div PageStep2(step),
         (t % PageStep2(step)) \div step + 1>>

\* What the catalogs list: a first entry for every time up to now, and under it
\* the entries and pages that have begun, Fan of each at most.
catalog(step) == Offset..((now - Epoch) \div PageStep(step) + Offset)

Entries(elapsed) == 0..(IF elapsed > Fan - 1 THEN Fan - 1 ELSE elapsed)

catalog2(step, cat1) ==
    LET start == PageStart(step, <<cat1, 0, 0>>)
    IN IF now < start THEN {} ELSE Entries((now - start) \div PageStep2(step))

\* (Mutant: the pages of an entry are numbered on past its last.)
UnendingCatalog3(step, cat1, cat2) ==
    LET start == PageStart(step, <<cat1, cat2, 0>>)
    IN IF now < start THEN {} ELSE 0..((now - start) \div step)

catalog3(step, cat1, cat2) ==
    LET start == PageStart(step, <<cat1, cat2, 0>>)
    IN IF now < start THEN {} ELSE Entries((now - start) \div step)

Listed(step) ==
    UNION {UNION {{<<cat1, cat2, cat3>> : cat3 \in catalog3(step, cat1, cat2)} :
                     cat2 \in catalog2(step, cat1)} : cat1 \in catalog(step)}

\* The pages that a request for a diff, or for its state, finds.
Found(step, page) == now >= PageStart(step, page)

Paths(step) ==
    (Offset..((MaxTime - Epoch) \div PageStep(step) + Offset)) \X (0..(Fan - 1)) \X (0..(Fan - 1))

(***************************************************************************)
(* Uploads, readers and time.                                              *)
(***************************************************************************)
Tick ==
    /\ now < MaxTime
    /\ now' = now + 1
    /\ UNCHANGED <<mapLock, stored, edits, asked, answers>>

LockMap(u) ==
    /\ mapLock = Nobody
    /\ mapLock' = u
    /\ UNCHANGED <<now, stored, edits, asked, answers>>

Blocks == edits \cup UNION {stored[u] : u \in Uploads}

StoreBlock(u) ==
    /\ mapLock = u
    /\ Cardinality(Blocks) < MaxBlocks
    /\ stored' = [stored EXCEPT ![u] = @ \cup {[block |-> Cardinality(Blocks) + 1, time |-> now]}]
    /\ UNCHANGED <<now, mapLock, edits, asked, answers>>

\* An upload commits what it stored, or has stored nothing: aborted, or dead.
EndUpload(u) ==
    /\ mapLock = u
    /\ \/ edits' = edits \cup stored[u]
       \/ UNCHANGED edits
    /\ stored' = [stored EXCEPT ![u] = {}]
    /\ mapLock' = Nobody
    /\ UNCHANGED <<now, asked, answers>>

Ask(r, from, to) ==
    /\ asked[r].stage = "idle"
    /\ Cardinality(answers) < MaxAnswers
    /\ asked' = [asked EXCEPT ![r] = [stage |-> "wait", from |-> from, to |-> to]]
    /\ UNCHANGED <<now, mapLock, stored, edits, answers>>

\* A page of the diffs, if it has begun.
getoscdiff(r, step, page) ==
    /\ Found(step, page)
    /\ Ask(r, PageStart(step, page) - step, PageStart(step, page))

\* A range that does not end in the future and is not too long.
customdiff(r, from, to) ==
    /\ from <= to /\ to <= now
    /\ to - from <= MaximumSeconds
    /\ Ask(r, from, to)

\* (Mutant: the lock is not waited for.)
WaitNot(r) ==
    /\ asked[r].stage = "wait"
    /\ asked' = [asked EXCEPT ![r].stage = "leave"]
    /\ mapLock' = IF mapLock = Nobody THEN r ELSE mapLock
    /\ UNCHANGED <<now, stored, edits, answers>>

\* The lock is taken, so no upload is at work,
WaitForUploads(r) ==
    /\ asked[r].stage = "wait"
    /\ mapLock = Nobody
    /\ mapLock' = r
    /\ asked' = [asked EXCEPT ![r].stage = "leave"]
    /\ UNCHANGED <<now, stored, edits, answers>>

\* let go of at once,
LetGo(r) ==
    /\ asked[r].stage = "leave"
    /\ mapLock' = IF mapLock = r THEN Nobody ELSE mapLock
    /\ asked' = [asked EXCEPT ![r].stage = "read"]
    /\ UNCHANGED <<now, stored, edits, answers>>

InRange(from, to) == {e \in edits : from <= e.time /\ e.time < to}

\* and the diff read as the map is by then.
ReadDiff(r) ==
    /\ asked[r].stage = "read"
    /\ answers' = answers \cup
          {[from |-> asked[r].from, to |-> asked[r].to, edits |-> InRange(asked[r].from, asked[r].to)]}
    /\ asked' = [asked EXCEPT ![r] = NotAsked]
    /\ UNCHANGED <<now, mapLock, stored, edits>>

NextDiffs ==
    \/ Tick
    \/ \E u \in Uploads : LockMap(u) \/ StoreBlock(u) \/ EndUpload(u)
    \/ \E r \in Readers :
          \/ \E step \in Steps : \E page \in Paths(step) : getoscdiff(r, step, page)
          \/ \E from, to \in Epoch..now : customdiff(r, from, to)
          \/ WaitForUploads(r)
          \/ LetGo(r)
          \/ ReadDiff(r)

DiffSpec == InitDiffs /\ [][NextDiffs]_diffVars

(***************************************************************************)
(* What holds of the diffs.                                                *)
(***************************************************************************)

\* A diff that was given has, of its range, all the edits there will ever be:
\* whenever uploads began, however long they took, and whatever was read in
\* between.  Whoever follows the pages one after another misses none.
DiffsFinal == \A a \in answers : a.edits = InRange(a.from, a.to)

\* The page worked out for a time is the one whose diff has it, also where one
\* page, entry or catalog ends and the next begins.
PathsHaveTheirTimes ==
    \A step \in Steps : \A ts \in Epoch..now :
        LET start == PageStart(step, TimestampToPath(ts, step))
        IN start - step <= ts /\ ts < start

\* The pages listed in the catalogs are those that can be read, each once.
CatalogsListWhatIsFound ==
    \A step \in Steps : Listed(step) = {page \in Paths(step) : Found(step, page)}

\* Whoever follows the pages finds every time's edits where the time says, and every
\* page that there is in the lists.
PagesFitTimes == PathsHaveTheirTimes /\ CatalogsListWhatIsFound
=============================================================================
