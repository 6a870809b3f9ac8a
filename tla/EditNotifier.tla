---------------------------- MODULE EditNotifier ----------------------------
(***************************************************************************)
(* The edit notification server (src/notify/server.py): an asyncio loop    *)
(* that hears of committed edits from PostgreSQL, asks the map, through    *)
(* one executor thread, whether they concern the areas its clients follow, *)
(* and tells the clients.                                                  *)
(*                                                                         *)
(* One action is what the loop runs between two awaits, or one step of the *)
(* outside world: an edit committed, a connection made or lost, bytes      *)
(* received, a timer.  Edits are counted from where the server started:    *)
(* edits[i] is edit activity i, and holds the areas it may concern.  Of an *)
(* (edit activity, atomic edit) pair of IDs only the first is kept, which  *)
(* is all the server compares.                                             *)
(***************************************************************************)
EXTENDS Integers, Sequences, FiniteSets

CONSTANTS
    Conns,           \* connection objects, each used again once lost
    AddressOf,       \* the host each connects from
    Addresses,
    Areas,           \* areas other than everywhere, after rounding to the grid
    Wkt,             \* those given as WKT, which the map checks and tidies
    Tidy,            \* what it makes of each, None where it refuses it
    Everywhere,
    Formats,         \* of records: xml, msgpack
    None,
    MaxConnections, MaxPerAddress,
    MaxAreas         \* 0 for no limit

\* The environment, and the bounds of a model.
CONSTANTS
    Requests,        \* what clients may ask
    EditKinds,       \* the sets of areas an edit may concern
    Slow,            \* connections that may leave what they are sent unread
    Failing,         \* the source's calls that may fail
    Heartbeats,      \* whether the heartbeat runs; FALSE leaves only LISTEN
    Stoppable,       \* whether SIGTERM may come
    MaxEdits, MaxResets, MaxFailures, MaxDrops, MaxConnects, MaxQueue

AllAreas == Areas \cup {Everywhere}
Keys == AllAreas \X Formats
Kinds == {"edits", "records"}
EditIds == 1..MaxEdits
RequestType ==
    [op : {"hello", "subscribe", "unsubscribe", "ping"},
     kind : Kinds, area : AllAreas, format : Formats]

ASSUME ConnectionsAssumption ==
    /\ IsFiniteSet(Conns) /\ AddressOf \in [Conns -> Addresses]
    /\ MaxConnections \in Nat /\ MaxPerAddress \in Nat /\ MaxAreas \in Nat

ASSUME AreasAssumption ==
    /\ Wkt \subseteq Areas /\ Tidy \in [Wkt -> Areas \cup {None}]
    /\ Everywhere \notin Areas
    /\ None \notin AllAreas /\ None \notin Keys /\ None \notin RequestType

ASSUME EnvironmentAssumption ==
    /\ Requests \subseteq RequestType /\ EditKinds \subseteq SUBSET Areas
    /\ Slow \subseteq Conns
    /\ Failing \subseteq {"latest", "concerns", "records", "check_wkt"}
    /\ Heartbeats \in BOOLEAN /\ Stoppable \in BOOLEAN
    /\ \A bound \in {MaxEdits, MaxResets, MaxFailures, MaxDrops, MaxConnects, MaxQueue} :
          bound \in Nat

VARIABLES
    edits,           \* the map's edit activity, committed
    listener,        \* PgListener: up, dead but not noticed, down, closed
    notified,        \* whether a NOTIFY waits to be read
    phase,           \* starting, serving, stopping, stopped
    known,           \* EditNotifier.latest
    check,           \* _check_until_settled: none, begin, latest, read, asking,
                     \* or cancelled before it began, for ever
    again,           \* _again
    ask,             \* the locals of _check
    client,          \* each connection, and what it was answered and sent
    perAddress,      \* EditNotifier.per_address
    count            \* of what the bounds bound

vars == <<edits, listener, notified, phase, known, check, again, ask, client,
          perAddress, count>>

\* The locals of _check: the latest ID read; the areas and <<area, format>>
\* still to ask about in this round; those asked about, and of those the
\* areas answered True, the records found, and those that could not be read.
\* History: spoiled is whether the map was reset after the latest ID was read.
AskType ==
    [target : 0..MaxEdits, areas : SUBSET AllAreas, keys : SUBSET Keys,
     answered : SUBSET AllAreas, concerned : SUBSET AllAreas,
     read : SUBSET Keys, found : [Keys -> SUBSET EditIds], failed : SUBSET Keys,
     spoiled : BOOLEAN]
NothingAsked ==
    [target |-> 0, areas |-> {}, keys |-> {}, answered |-> {}, concerned |-> {},
     read |-> {}, found |-> [k \in Keys |-> {}], failed |-> {}, spoiled |-> FALSE]

\* A connection.  work is its worker: none, ready, or where the request it is
\* in the middle of waits.  sub holds the <<area, format>> subscribed to for
\* each kind (nothing looks at the format of an edits subscription), and start
\* the ID it was answered with.  History: asked is where the map was when the
\* client asked, told the ID of its last edits notification, and heard how
\* many times each record was sent to it.
Queues == Seq(RequestType)
ClientType ==
    [state : {"none", "open", "closing"}, greeted : BOOLEAN,
     deadline : {"none", "hello", "subscribe"}, behind : BOOLEAN,
     queue : Queues, request : RequestType \cup {None},
     work : {"none", "ready", "wkt", "waiting", "woken"},
     sub : [Kinds -> Keys \cup {None}], start : [Kinds -> 0..MaxEdits],
     asked : 0..MaxEdits, told : 0..MaxEdits, heard : [EditIds -> Nat]]
NoneHeard == [e \in EditIds |-> 0]
NoClient ==
    [state |-> "none", greeted |-> FALSE, deadline |-> "none", behind |-> FALSE,
     queue |-> <<>>, request |-> None, work |-> "none",
     sub |-> [k \in Kinds |-> None], start |-> [k \in Kinds |-> 0],
     asked |-> 0, told |-> 0, heard |-> NoneHeard]

TypeOK ==
    /\ edits \in Seq(SUBSET Areas) /\ Len(edits) <= MaxEdits
    /\ listener \in {"up", "dead", "down", "closed"} /\ notified \in BOOLEAN
    /\ phase \in {"starting", "serving", "stopping", "stopped"}
    /\ known \in 0..MaxEdits
    /\ check \in {"none", "begin", "latest", "read", "asking", "cancelled"}
    /\ again \in BOOLEAN
    /\ ask \in AskType
    /\ client \in [Conns -> ClientType]
    /\ perAddress \in [Addresses -> Int]
    /\ count \in [resets : Nat, failures : Nat, drops : Nat, connects : Nat]

\* As start() leaves it once the server accepts connections: the latest IDs
\* read, and the listener about to connect.
Init ==
    /\ edits = <<>> /\ listener = "down" /\ notified = FALSE
    /\ phase = "starting" /\ known = 0
    /\ check = "none" /\ again = FALSE /\ ask = NothingAsked
    /\ client = [c \in Conns |-> NoClient]
    /\ perAddress = [a \in Addresses |-> 0]
    /\ count = [resets |-> 0, failures |-> 0, drops |-> 0, connects |-> 0]

-----------------------------------------------------------------------------
(* What the map and the subscriptions are asked.                           *)

Concerns(e, area) == area = Everywhere \/ area \in edits[e]

\* PgmapEditSource._query: the edits in a range that may concern an area,
\* from those the map holds at the time.
Concerning(first, last, area) ==
    {e \in EditIds : first <= e /\ e <= last /\ e <= Len(edits) /\ Concerns(e, area)}

Subscribed(c, kind) == client[c].sub[kind] # None

\* EditNotifier._areas
Subscriptions(kind) == {client[c].sub[kind] : c \in {d \in Conns : Subscribed(d, kind)}}
EditsAreas == {k[1] : k \in Subscriptions("edits")}

\* EditNotifier.areas
AreasFollowed == (EditsAreas \cup {k[1] : k \in Subscriptions("records")}) \ {Everywhere}

\* EditNotifier.check_area_allowed
AreaAllowed(area) ==
    \/ area = Everywhere
    \/ MaxAreas = 0
    \/ area \in AreasFollowed
    \/ Cardinality(AreasFollowed) < MaxAreas

\* (Mutant: a change noticed during a check is left to that check.)
EditsChangedOnce ==
    /\ check' = (IF check = "none" THEN "begin" ELSE check)
    /\ again' = again

\* edits_changed, and refresh up to its await: one check at a time, and one
\* more after it if anything happened meanwhile.
EditsChanged ==
    IF check = "none"
    THEN check' = "begin" /\ again' = again
    ELSE check' = check /\ again' = TRUE

MayFail(call) ==
    /\ call \in Failing /\ count.failures < MaxFailures
    /\ count' = [count EXCEPT !.failures = @ + 1]

-----------------------------------------------------------------------------
(* The map, and the listener on its notifications.                         *)

\* An edit is committed.  PostgreSQL notifies the listener if it is there.
Commit(areas) ==
    /\ Len(edits) < MaxEdits
    /\ edits' = Append(edits, areas)
    /\ notified' = (notified \/ listener = "up")
    /\ UNCHANGED <<listener, phase, known, check, again, ask, client, perAddress, count>>

\* The map is reset: its IDs begin again.
MapReset ==
    /\ count.resets < MaxResets
    /\ count' = [count EXCEPT !.resets = @ + 1]
    /\ edits' = <<>>
    /\ ask' = [ask EXCEPT !.spoiled = check \in {"read", "asking"}]
    /\ UNCHANGED <<listener, notified, phase, known, check, again, client, perAddress>>

\* The listener's connection fails; what PostgreSQL announces now is lost.
ListenerDies ==
    /\ listener = "up" /\ count.drops < MaxDrops
    /\ count' = [count EXCEPT !.drops = @ + 1]
    /\ listener' = "dead" /\ notified' = FALSE
    /\ UNCHANGED <<edits, phase, known, check, again, ask, client, perAddress>>

\* PgListener._readable, when the poll fails: drop it, and make another.
ListenerNoticesLoss ==
    /\ listener = "dead"
    /\ listener' = "down"
    /\ UNCHANGED <<edits, notified, phase, known, check, again, ask, client, perAddress, count>>

\* PgListener._connect, when it succeeds, calling on_connect.  The first time
\* is the last await of start(), which then begins the heartbeat.
ListenerConnects ==
    /\ listener = "down"
    /\ listener' = "up"
    /\ phase' = (IF phase = "starting" THEN "serving" ELSE phase)
    /\ EditsChanged
    /\ UNCHANGED <<edits, notified, known, ask, client, perAddress, count>>

\* PgListener._connect gives up between attempts once closed.
ListenerGivesUp ==
    /\ listener = "down" /\ phase \in {"stopping", "stopped"}
    /\ listener' = "closed"
    /\ UNCHANGED <<edits, notified, phase, known, check, again, ask, client, perAddress, count>>

\* PgListener._readable: every notification waiting is read, each calling
\* edits_changed.
ListenerHears ==
    /\ listener = "up" /\ notified
    /\ notified' = FALSE
    /\ EditsChanged
    /\ UNCHANGED <<edits, listener, phase, known, ask, client, perAddress, count>>

\* (Mutant: a heartbeat that does not check.)
HeartbeatOnly == Heartbeats /\ phase = "serving" /\ UNCHANGED vars

\* EditNotifier._heartbeat
Heartbeat ==
    /\ Heartbeats /\ phase = "serving"
    /\ EditsChanged
    /\ UNCHANGED <<edits, listener, notified, phase, known, ask, client, perAddress, count>>

-----------------------------------------------------------------------------
(* The check for new edits: _check_until_settled and _check.               *)

\* asyncio.Event.set() of _idle: those waiting in refresh() will run.
Woken(clients) ==
    [c \in Conns |-> IF clients[c].work = "waiting"
                     THEN [clients[c] EXCEPT !.work = "woken"] ELSE clients[c]]

\* (Mutant: idle is never set.)
SettleUnheard(clients) ==
    /\ check' = (IF again THEN "latest" ELSE "none") /\ again' = FALSE
    /\ ask' = NothingAsked /\ client' = clients

\* _check ended, or raised: once more if anything happened since it began,
\* else idle.
Settle(clients) ==
    /\ check' = (IF again THEN "latest" ELSE "none") /\ again' = FALSE
    /\ ask' = NothingAsked
    /\ client' = (IF again THEN clients ELSE Woken(clients))

\* The task first runs.
CheckBegins ==
    /\ check = "begin"
    /\ check' = "latest" /\ again' = FALSE
    /\ UNCHANGED <<edits, listener, notified, phase, known, ask, client, perAddress, count>>

\* The executor reads the latest IDs; the loop sees them later.
ReadLatest ==
    /\ check = "latest"
    /\ check' = "read" /\ ask' = [ask EXCEPT !.target = Len(edits)]
    /\ UNCHANGED <<edits, listener, notified, phase, known, again, client, perAddress, count>>

\* ...or cannot: logged, and the check is over.
ReadLatestFails ==
    /\ check = "latest" /\ MayFail("latest")
    /\ Settle(client)
    /\ UNCHANGED <<edits, listener, notified, phase, known, perAddress>>

\* (Mutant: subscribers whose records could not be read are kept.)
NoneDropped(c, q) == FALSE

\* The subscribers _check closes, as they would miss records.
Dropped(c, q) ==
    client[c].state = "open" /\ Subscribed(c, "records") /\ client[c].sub["records"] \in q.failed

\* What _check sends a client: an edits notification if its area's answer is
\* yes, and the records found for it.
Told(c, q) ==
    LET cl == client[c]
        edited == Subscribed(c, "edits") /\ cl.sub["edits"][1] \in q.concerned
        records == IF Subscribed(c, "records") THEN q.found[cl.sub["records"]] ELSE {}
    IN  [cl EXCEPT !.told = IF edited THEN q.target ELSE @,
                   !.heard = [e \in EditIds |-> @[e] + IF e \in records THEN 1 ELSE 0]]

\* The end of _check: the clients are told up to the target, in one go.
Announce(q) ==
    /\ known' = q.target
    /\ Settle([c \in Conns |->
                  IF Dropped(c, q) THEN [client[c] EXCEPT !.state = "closing"]
                  ELSE IF client[c].state = "open" THEN Told(c, q) ELSE client[c]])

\* The head of _check's loop: ask about what is subscribed to by now and not
\* yet asked about; with nothing left, announce.
AskOrAnnounce(q) ==
    LET areas == EditsAreas \ q.answered
        keys == (Subscriptions("records") \ q.read) \ q.failed
    IN  IF areas = {} /\ keys = {}
        THEN Announce(q)
        ELSE /\ check' = "asking"
             /\ ask' = [q EXCEPT !.areas = areas, !.keys = keys]
             /\ UNCHANGED <<again, known, client>>

\* (Mutant: idle is not set when there is nothing newer.)
CheckLatestUnheard ==
    /\ check = "read"
    /\ IF ask.target <= known
       THEN known' = ask.target /\ SettleUnheard(client)
       ELSE AskOrAnnounce([ask EXCEPT !.answered = {Everywhere}, !.concerned = {Everywhere}])
    /\ UNCHANGED <<edits, listener, notified, phase, perAddress, count>>

\* The loop has the latest IDs: no newer (nothing to do), gone back (follow
\* them), or new edits.
CheckLatest ==
    /\ check = "read"
    /\ IF ask.target <= known
       THEN known' = ask.target /\ Settle(client)
       ELSE AskOrAnnounce([ask EXCEPT !.answered = {Everywhere}, !.concerned = {Everywhere}])
    /\ UNCHANGED <<edits, listener, notified, phase, perAddress, count>>

\* (Mutant: areas subscribed to while asking are not asked about.)
NextAnswerOneRound(q) ==
    IF q.areas = {} /\ q.keys = {}
    THEN Announce(q)
    ELSE ask' = q /\ UNCHANGED <<check, again, known, client>>

\* One answer is in: on to the next of this round, or to the next round.
NextAnswer(q) ==
    IF q.areas = {} /\ q.keys = {}
    THEN AskOrAnnounce(q)
    ELSE ask' = q /\ UNCHANGED <<check, again, known, client>>

\* (Mutant: failing counts as no.)
AreaAnsweredNo(area) ==
    /\ check = "asking" /\ area \in ask.areas
    /\ \E yes \in BOOLEAN :
          /\ \/ yes = (Concerning(known + 1, ask.target, area) # {}) /\ count' = count
             \/ yes = FALSE /\ MayFail("concerns")
          /\ NextAnswer([ask EXCEPT !.areas = @ \ {area}, !.answered = @ \cup {area},
                                    !.concerned = IF yes THEN @ \cup {area} ELSE @])
    /\ UNCHANGED <<edits, listener, notified, phase, perAddress>>

\* concerns() answers for an area, or fails, which counts as yes.
AreaAnswered(area) ==
    /\ check = "asking" /\ area \in ask.areas
    /\ \E yes \in BOOLEAN :
          /\ \/ yes = (Concerning(known + 1, ask.target, area) # {}) /\ count' = count
             \/ yes = TRUE /\ MayFail("concerns")
          /\ NextAnswer([ask EXCEPT !.areas = @ \ {area}, !.answered = @ \cup {area},
                                    !.concerned = IF yes THEN @ \cup {area} ELSE @])
    /\ UNCHANGED <<edits, listener, notified, phase, perAddress>>

\* _records_messages() gives the records for an area in a format, or fails.
RecordsAnswered(key) ==
    /\ check = "asking" /\ ask.areas = {} /\ key \in ask.keys
    /\ \/ /\ NextAnswer([ask EXCEPT !.keys = @ \ {key}, !.read = @ \cup {key},
                           !.found[key] = Concerning(known + 1, ask.target, key[1])])
          /\ count' = count
       \/ /\ NextAnswer([ask EXCEPT !.keys = @ \ {key}, !.failed = @ \cup {key}])
          /\ MayFail("records")
    /\ UNCHANGED <<edits, listener, notified, phase, perAddress>>

-----------------------------------------------------------------------------
(* Connections: made, lost, too slow, out of time.                         *)

Connections == {c \in Conns : client[c].state # "none"}

\* (Mutant: connections are counted in all, but not for each address.)
AdmittedInAll(c) == Cardinality(Connections) < MaxConnections

\* EditNotifier.admit
Admitted(c) ==
    /\ Cardinality(Connections) < MaxConnections
    /\ perAddress[AddressOf[c]] < MaxPerAddress

\* Connection.connection_made.  A connection refused leaves no trace.
Connect(c) ==
    /\ phase \in {"starting", "serving"} /\ client[c].state = "none" /\ Admitted(c)
    /\ count.connects < MaxConnects
    /\ count' = [count EXCEPT !.connects = @ + 1]
    /\ client' = [client EXCEPT ![c].state = "open", ![c].deadline = "hello"]
    /\ perAddress' = [perAddress EXCEPT ![AddressOf[c]] = @ + 1]
    /\ UNCHANGED <<edits, listener, notified, phase, known, check, again, ask>>

\* Connection.connection_lost, and the object with all it held is gone.
ConnectionLost(c) ==
    /\ client[c].state # "none"
    /\ client' = [client EXCEPT ![c] = NoClient]
    /\ perAddress' = [perAddress EXCEPT ![AddressOf[c]] = @ - 1]
    /\ UNCHANGED <<edits, listener, notified, phase, known, check, again, ask, count>>

\* What an action changes when it changes a connection and no more.
OnlyClient(c, new) ==
    /\ client' = [client EXCEPT ![c] = new]
    /\ UNCHANGED <<edits, listener, notified, phase, known, check, again, ask, perAddress, count>>

\* Connection.close, by the timer of _set_deadline: no more is read or sent,
\* and the transport ends in time.
DeadlineFires(c) ==
    /\ client[c].state = "open" /\ client[c].deadline # "none"
    /\ OnlyClient(c, [client[c] EXCEPT !.state = "closing"])

\* Connection.pause_writing: the client leaves more than write_high_water
\* unread, and the timer for dropping it starts.
PauseWriting(c) ==
    /\ c \in Slow /\ client[c].state = "open" /\ client[c].greeted /\ ~client[c].behind
    /\ OnlyClient(c, [client[c] EXCEPT !.behind = TRUE])

\* Connection.resume_writing
ResumeWriting(c) ==
    /\ client[c].behind
    /\ OnlyClient(c, [client[c] EXCEPT !.behind = FALSE])

\* Connection._too_slow
TooSlow(c) ==
    /\ client[c].behind
    /\ OnlyClient(c, [client[c] EXCEPT !.behind = FALSE, !.state = "closing"])

\* Connection.data_received of what cannot be read, is too large, or is one
\* request too many: the connection is closed.
BadData(c) ==
    /\ client[c].state = "open"
    /\ OnlyClient(c, [client[c] EXCEPT !.state = "closing"])

\* Connection.data_received of a request, which starts the worker if there
\* is none.
DataReceived(c, r) ==
    /\ client[c].state = "open" /\ Len(client[c].queue) < MaxQueue
    /\ OnlyClient(c, [client[c] EXCEPT !.queue = Append(@, r),
                                       !.work = IF @ = "none" THEN "ready" ELSE @])

-----------------------------------------------------------------------------
(* The worker of a connection: Connection._work and _handle.  Between two  *)
(* requests answered at once the loop would not run anything else; that    *)
(* the model lets it adds interleavings and takes none away.               *)

Handling(c, r) ==
    /\ client[c].work = "ready" /\ client[c].state = "open" /\ client[c].queue # <<>>
    /\ r = Head(client[c].queue)

\* The condition of _work's loop, once a request is over.
NextWork(c, rest) == IF rest = <<>> \/ client[c].state # "open" THEN "none" ELSE "ready"

\* A connection whose next request has been answered at once, and one whose
\* request has been answered after waiting.
Answered(c) ==
    LET rest == Tail(client[c].queue)
    IN  [client[c] EXCEPT !.queue = rest, !.work = NextWork(c, rest)]
RequestOver(c) ==
    [client[c] EXCEPT !.request = None, !.asked = 0, !.work = NextWork(c, client[c].queue)]

\* The loop of _work ends: the connection closes.
WorkerEnds(c) ==
    /\ client[c].work = "ready" /\ client[c].state = "closing"
    /\ OnlyClient(c, [client[c] EXCEPT !.work = "none"])

\* _request_hello
Hello(c) ==
    /\ \E r \in Requests : Handling(c, r) /\ r.op = "hello"
    /\ OnlyClient(c, [Answered(c) EXCEPT
           !.greeted = TRUE,
           !.deadline = IF client[c].greeted THEN @ ELSE "subscribe"])

\* A request answered at once that changes nothing: a ping, or one refused
\* with NOT_READY, ALREADY_SUBSCRIBED, NOT_SUBSCRIBED or the like.
AnswerAtOnce(c) ==
    /\ \E r \in Requests :
          /\ Handling(c, r)
          /\ \/ r.op = "ping"
             \/ r.op # "hello" /\ ~client[c].greeted
             \/ r.op = "subscribe" /\ Subscribed(c, r.kind)
             \/ r.op = "unsubscribe" /\ ~Subscribed(c, r.kind)
    /\ OnlyClient(c, Answered(c))

\* A request to subscribe that is not refused by what the connection is.
AsksToSubscribe(c, r) ==
    Handling(c, r) /\ client[c].greeted /\ r.op = "subscribe" /\ ~Subscribed(c, r.kind)

\* _subscribe refuses with TOO_MANY_AREAS before asking the map anything.
RefuseArea(c) ==
    /\ \E r \in Requests : AsksToSubscribe(c, r) /\ ~AreaAllowed(r.area)
    /\ OnlyClient(c, Answered(c))

\* _subscribe up to its first await: check_wkt, or refresh.
AskToSubscribe(c) ==
    \E r \in Requests :
        /\ AsksToSubscribe(c, r) /\ AreaAllowed(r.area)
        /\ client' = [client EXCEPT ![c].queue = Tail(@), ![c].request = r,
                                    ![c].asked = Len(edits),
                                    ![c].work = IF r.area \in Wkt THEN "wkt" ELSE "waiting"]
        /\ IF r.area \in Wkt THEN UNCHANGED <<check, again>> ELSE EditsChanged
        /\ UNCHANGED <<edits, listener, notified, phase, known, ask, perAddress, count>>

\* (Mutant: what the map says of the area is not looked at.)
WktAnything(c) == TRUE

\* Whether check_wkt gives the area tidied, rather than raising ValueError.
WktValid(c) == Tidy[client[c].request.area] # None

\* The area tidied, refresh() is called.
WktChecked(c) ==
    /\ client[c].work = "wkt" /\ WktValid(c)
    /\ client' = [client EXCEPT ![c].request.area = Tidy[@], ![c].work = "waiting"]
    /\ EditsChanged
    /\ UNCHANGED <<edits, listener, notified, phase, known, ask, perAddress, count>>

\* The area refused, as INVALID_PARAMS.
WktRefused(c) ==
    /\ client[c].work = "wkt" /\ ~WktValid(c)
    /\ OnlyClient(c, RequestOver(c))

\* check_wkt cannot reach the map: the error is not a ProtocolError, and ends
\* the worker's task.
WktFails(c) ==
    /\ client[c].work = "wkt" /\ MayFail("check_wkt")
    /\ client' = [client EXCEPT ![c] = [RequestOver(c) EXCEPT !.work = "none"]]
    /\ UNCHANGED <<edits, listener, notified, phase, known, check, again, ask, perAddress>>

\* (Mutant: the area is not checked again after waiting.)
StillOpen(c) == client[c].state = "open"

\* Whether _subscribe goes ahead after refresh(): the connection is not
\* closing, and others have not taken the last area meanwhile.
StillAllowed(c) == client[c].state = "open" /\ AreaAllowed(client[c].request.area)

\* _subscribe after refresh(): subscribed, and answered with the latest IDs.
Subscribe(c) ==
    LET r == client[c].request
    IN  /\ client[c].work = "woken" /\ StillAllowed(c)
        /\ OnlyClient(c, [RequestOver(c) EXCEPT !.sub[r.kind] = <<r.area, r.format>>,
                                                !.start[r.kind] = known,
                                                !.deadline = "none"])

\* ...or refused.
SubscribeRefused(c) ==
    /\ client[c].work = "woken" /\ ~StillAllowed(c)
    /\ OnlyClient(c, RequestOver(c))

\* (Mutant: giving up a subscription starts no timer.)
DeadlineKept(c, kind) == client[c].deadline

\* What _unsubscribe leaves the deadline at: "An idle connection is not kept
\* for ever".
DeadlineWithout(c, kind) ==
    IF \E other \in Kinds \ {kind} : Subscribed(c, other)
    THEN client[c].deadline ELSE "subscribe"

\* _unsubscribe
Unsubscribe(c) ==
    \E r \in Requests :
        /\ Handling(c, r) /\ client[c].greeted
        /\ r.op = "unsubscribe" /\ Subscribed(c, r.kind)
        /\ OnlyClient(c, [Answered(c) EXCEPT
               !.sub[r.kind] = None, !.start[r.kind] = 0,
               !.told = IF r.kind = "edits" THEN 0 ELSE @,
               !.heard = IF r.kind = "records" THEN NoneHeard ELSE @,
               !.deadline = DeadlineWithout(c, r.kind)])

-----------------------------------------------------------------------------
(* Stopping, on SIGTERM.                                                   *)

\* EditNotifier.stop up to wait_closed(): the listener is closed, and the
\* heartbeat and the check cancelled.  A check cancelled in an await sets
\* idle on its way out; one whose task has not first run never does.  An
\* attempt to connect the listener that is under way is not called off.
Stop ==
    /\ Stoppable /\ phase = "serving"
    /\ phase' = "stopping"
    /\ listener' = (IF listener = "down" THEN "down" ELSE "closed")
    /\ notified' = FALSE
    /\ check' = (IF check = "begin" THEN "cancelled" ELSE "none")
    /\ client' = (IF check = "begin" THEN client ELSE Woken(client))
    /\ ask' = NothingAsked
    /\ UNCHANGED <<edits, known, again, perAddress, count>>

\* wait_closed() returns once every connection has ended; stop() closes them
\* after it, when none are left.
Stopped ==
    /\ phase = "stopping" /\ Connections = {}
    /\ phase' = "stopped"
    /\ UNCHANGED <<edits, listener, notified, known, check, again, ask, client, perAddress, count>>

-----------------------------------------------------------------------------

Map == (\E areas \in EditKinds : Commit(areas)) \/ MapReset

Listening ==
    \/ ListenerDies \/ ListenerNoticesLoss \/ ListenerConnects
    \/ ListenerGivesUp \/ ListenerHears

Checking ==
    \/ CheckBegins \/ ReadLatest \/ ReadLatestFails \/ CheckLatest
    \/ \E area \in AllAreas : AreaAnswered(area)
    \/ \E key \in Keys : RecordsAnswered(key)

Peer(c) ==
    \/ Connect(c) \/ ConnectionLost(c) \/ BadData(c)
    \/ PauseWriting(c) \/ ResumeWriting(c)
    \/ \E r \in Requests : DataReceived(c, r)

Timers(c) == DeadlineFires(c) \/ TooSlow(c)

Worker(c) ==
    \/ WorkerEnds(c) \/ Hello(c) \/ AnswerAtOnce(c) \/ RefuseArea(c)
    \/ AskToSubscribe(c) \/ WktChecked(c) \/ WktRefused(c) \/ WktFails(c)
    \/ Subscribe(c) \/ SubscribeRefused(c) \/ Unsubscribe(c)

Next ==
    \/ Map \/ Listening \/ Heartbeat \/ Checking
    \/ \E c \in Conns : Peer(c) \/ Timers(c) \/ Worker(c)
    \/ Stop \/ Stopped

Spec == Init /\ [][Next]_vars

(* The loop runs what is ready, the executor answers, timers fire, the     *)
(* listener's attempts to connect succeed in the end, and a transport that *)
(* is closed ends.  Nothing is assumed of clients, edits or failures, and  *)
(* a listener whose connection is dead may never notice.                   *)
Fairness ==
    /\ WF_vars(ListenerConnects)
    /\ WF_vars(ListenerHears)
    /\ WF_vars(Heartbeat)
    /\ WF_vars(Checking)
    /\ \A c \in Conns :
          /\ WF_vars(Worker(c))
          /\ WF_vars(Timers(c))
          /\ WF_vars(client[c].state = "closing" /\ ConnectionLost(c))
    /\ WF_vars(Stopped)

FairSpec == Spec /\ Fairness

-----------------------------------------------------------------------------
(* What the server promises.                                               *)

Following(c, kind) == client[c].state = "open" /\ Subscribed(c, kind)

\* The edits a subscription is to have heard of by now.
Due(c, kind) == Concerning(client[c].start[kind] + 1, known, client[c].sub[kind][1])

\* A records subscriber that is still connected has been sent each record
\* that may concern its area once: those after the ID its subscription was
\* answered with, up to where the server has got, and no others.
\* (notify/README.md: "Nothing up to these IDs is sent, and nothing after
\* them is missed."  A map reset begins the IDs again.)
RecordsExactlyOnce ==
    count.resets = 0 =>
        \A c \in Conns : Following(c, "records") =>
            \A e \in EditIds : client[c].heard[e] = IF e \in Due(c, "records") THEN 1 ELSE 0

\* An edits subscriber that is still connected has been told of some ID at or
\* after every edit that may concern it since its subscription, and of none
\* the server has not reached or from before the subscription.
EditsHinted ==
    count.resets = 0 =>
        \A c \in Conns : Following(c, "edits") =>
            /\ \A e \in Due(c, "edits") : client[c].told >= e
            /\ client[c].told <= known
            /\ client[c].told = 0 \/ client[c].told > client[c].start["edits"]

\* Records reach a subscriber in the order of their IDs.
RecordsInOrder ==
    [][\A c \in Conns : \A e, d \in EditIds :
          /\ client'[c].heard[e] > client[c].heard[e]
          /\ client[c].heard[d] > 0
          /\ count.resets = 0
          => e > d]_vars

\* The ID a subscription is answered with is no older than the map's latest
\* when it was asked for (_subscribe: "The IDs given are the map's latest,
\* read now"), so a check that had read the map before cannot answer for it.
StartsFresh ==
    [][\A c \in Conns, kind \in Kinds :
          /\ ~Subscribed(c, kind) /\ Subscribed(c, kind)'
          /\ count.resets = 0 /\ phase \in {"starting", "serving"}
          => client'[c].start[kind] >= client[c].asked]_vars

\* A subscriber waiting for the server to catch up waits for a check that is
\* under way: the wakeup cannot be lost between two checks.  Only a server that
\* is stopping may leave it a check that was cancelled before it began.
WaitersHaveCheck ==
    \A c \in Conns : client[c].work = "waiting" =>
        /\ check # "none"
        /\ check = "cancelled" => phase \in {"stopping", "stopped"}

\* The areas followed, which the map is asked about at every edit, stay
\* within the limit, though subscribers wait between being let in and
\* subscribing.
AreasWithinLimit == MaxAreas # 0 => Cardinality(AreasFollowed) <= MaxAreas

\* An area already followed is never refused for want of room (notify/README.md
\* on --max-areas: "An area already followed, and everywhere, can always be
\* subscribed to").
FollowedAreasFree ==
    [][\A c \in Conns :
          RefuseArea(c) => LET area == Head(client[c].queue).area
                           IN  area \in Wkt => Tidy[area] \notin AreasFollowed]_vars

\* Connections are within the limits in all and for each address, whose count
\* is of the connections it has.
ConnectionsWithinLimits ==
    /\ Cardinality(Connections) <= MaxConnections
    /\ \A a \in Addresses :
          /\ perAddress[a] = Cardinality({c \in Connections : AddressOf[c] = a})
          /\ perAddress[a] <= MaxPerAddress

\* An open connection either follows something or has a time to subscribe in:
\* "An idle connection is not kept for ever" (_unsubscribe), and a subscriber
\* is not closed for idleness.
IdleHasDeadline ==
    \A c \in Conns : client[c].state = "open" =>
        ((\A kind \in Kinds : ~Subscribed(c, kind)) <=> client[c].deadline # "none")

\* Every request received of an open connection has a worker to handle it
\* (data_received: "Handled one at a time, in order, as some wait on the
\* database").
RequestsHaveWorker ==
    \A c \in Conns : client[c].state = "open" /\ client[c].queue # <<>> => client[c].work # "none"

\* Once the edits end, the server comes to know of the last.
CatchesUp == <>[](known = Len(edits) \/ phase \in {"stopping", "stopped"})

\* Each record that concerns a records subscriber reaches it, unless the
\* subscription or the connection ends, or the map is reset, first.
RecordsReachSubscribers ==
    \A c \in Conns : \A e \in EditIds :
        (/\ Following(c, "records")
         /\ e \in Concerning(client[c].start["records"] + 1, Len(edits),
                             client[c].sub["records"][1]))
        ~> (client[c].heard[e] = 1 \/ ~Following(c, "records") \/ count.resets > 0)

\* A subscriber that waits, for the map to check its area or for the server to
\* catch up, is answered, unless its connection ends, or something changes
\* during every check from then on, as idle is only set after a check during
\* which nothing did.
SubscribersAnswered ==
    \/ []<><<~again /\ again'>>_again
    \/ \A c \in Conns :
          (client[c].state = "open" /\ client[c].request # None)
          ~> (client[c].state # "open" \/ client[c].request = None)

\* A connection that follows nothing comes to follow something, or ends.
IdleConnectionsEnd ==
    \A c \in Conns :
        (client[c].state # "none" /\ \A kind \in Kinds : ~Subscribed(c, kind))
        ~> (client[c].state = "none" \/ \E kind \in Kinds : Subscribed(c, kind))

\* The server asked to stop stops (notify/README.md: "It stops cleanly on
\* SIGTERM").
StopsCleanly == phase = "stopping" ~> phase = "stopped"
=============================================================================
