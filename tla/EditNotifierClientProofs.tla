--------------------- MODULE EditNotifierClientProofs ---------------------
(***************************************************************************)
(* Proofs about the clients of EditNotifier: that one that waits has a     *)
(* check to wait for (WaitersHaveCheck) which reads the map after it asked *)
(* (StartsFresh), that areas and connections stay within their limits      *)
(* (AreasWithinLimit, ConnectionsWithinLimits), that an idle connection is *)
(* timed (IdleHasDeadline), and that records come in order                 *)
(* (RecordsInOrder).  The last part proves the refinement: EditNotifier    *)
(* implements EditFeed, for every set of clients, areas and formats and    *)
(* every bound on the edits (ImplementsFeed).                              *)
(***************************************************************************)
EXTENDS EditNotifierRefinement, EditNotifierProofs, FiniteSetTheorems

SomeCheck == \A c \in Conns : client[c].work = "waiting" => check # "none"
CancelledStopping == check = "cancelled" => phase \in {"stopping", "stopped"}

\* A client that waits has a check ahead of it that reads the map after it
\* asked, or one under way that has; one woken has been caught up with.  A
\* check is only cancelled for ever as the server stops.
Ahead(stage, more, target, n) ==
    \/ stage \in {"begin", "latest"}
    \/ stage \in {"read", "asking"} /\ (more = TRUE \/ n <= target)
FreshInv ==
    /\ check = "cancelled" => phase \notin {"starting", "serving"}
    /\ count.resets = 0 /\ phase \in {"starting", "serving"} =>
          \A c \in Conns :
              /\ client[c].asked <= Len(edits)
              /\ client[c].work = "waiting" => Ahead(check, again, ask.target, client[c].asked)
              /\ client[c].work = "woken" => client[c].asked <= known

LEMMA EditsChangedAhead ==
  ASSUME CheckOK, EditsChanged, check # "cancelled", NEW target, NEW n
  PROVE  Ahead(check', again', target, n)
  <1>1. check' \in {"begin", "latest"} \/ (check' \in {"read", "asking"} /\ again' = TRUE)
    BY DEF EditsChanged, CheckOK
  <1> QED
    BY <1>1 DEF Ahead

\* Steps that change no connection.
LEMMA OutsideWaitInv ==
  ASSUME TypeInv, SomeCheck, Map \/ Listening \/ Heartbeat
  PROVE  SomeCheck' /\ (FreshInv => FreshInv')
  <1>1. Len(edits) \in Nat /\ Len(edits') \in Nat
    BY OutsideTypeInv DEF TypeInv, EditsOK
  <1> USE DEF Map, Commit, MapReset, Listening, ListenerDies, ListenerNoticesLoss,
              ListenerConnects, ListenerGivesUp, ListenerHears, Heartbeat
  <1>2. UNCHANGED <<known, client>> /\ ask'.target = ask.target
    BY DEF TypeInv, CheckOK, AskType
  <1>3. EditsChanged \/ UNCHANGED <<check, again>>
    OBVIOUS
  <1>4. SomeCheck'
    BY <1>2, <1>3 DEF SomeCheck, EditsChanged
  <1>5. phase' = phase \/ (phase = "starting" /\ phase' = "serving")
    OBVIOUS
  <1>6. count'.resets = 0 => count.resets = 0 /\ Len(edits') >= Len(edits)
    BY EnvironmentAssumption DEF TypeInv, ServerOK, EditsOK
  <1>7. check' = "cancelled" => check = "cancelled"
    BY <1>3 DEF EditsChanged
  <1>8. \A c \in Conns : client[c].asked \in Nat
    BY BoundsNat DEF TypeInv, ClientsOK, ClientType
  <1>9. ASSUME FreshInv, count'.resets = 0, phase' \in {"starting", "serving"}, NEW c \in Conns
        PROVE  /\ client[c].asked <= Len(edits')
               /\ client[c].work = "waiting" => Ahead(check', again', ask'.target, client[c].asked)
               /\ client[c].work = "woken" => client[c].asked <= known
    <2>1. /\ client[c].asked <= Len(edits)
          /\ client[c].work = "waiting" => Ahead(check, again, ask.target, client[c].asked)
          /\ client[c].work = "woken" => client[c].asked <= known
      BY <1>5, <1>6, <1>9 DEF FreshInv
    <2>2. check # "cancelled"
      BY <1>5, <1>9 DEF FreshInv
    <2>3. client[c].work = "waiting" => Ahead(check', again', ask'.target, client[c].asked)
      <3>1. CASE EditsChanged
        BY <2>2, <3>1, EditsChangedAhead DEF TypeInv
      <3>2. CASE UNCHANGED <<check, again>>
        BY <1>2, <2>1, <3>2
      <3> QED
        BY <1>3, <3>1, <3>2
    <2> QED
      BY <1>6, <1>8, <1>1, <1>9, <2>1, <2>3
  <1>10. FreshInv => FreshInv'
    BY <1>2, <1>5, <1>7, <1>9 DEF FreshInv
  <1> QED
    BY <1>4, <1>10

\* Steps that change one connection.
LEMMA OneClientWaitInv ==
  ASSUME TypeInv, SomeCheck, NEW c \in Conns, NEW new \in ClientType,
         client' = [client EXCEPT ![c] = new],
         UNCHANGED <<edits, phase, known, ask>>, count'.resets = count.resets,
         EditsChanged \/ UNCHANGED <<check, again>>,
         new.work \in {"waiting", "woken"} =>
             \/ new.work = client[c].work /\ new.asked = client[c].asked
             \/ new.work = "waiting" /\ EditsChanged,
         new.asked \in {client[c].asked, 0, Len(edits)}
  PROVE  SomeCheck' /\ (FreshInv => FreshInv')
  <1>1. \A d \in Conns : client'[d] = IF d = c THEN new ELSE client[d]
    BY DEF TypeInv, ClientsOK
  <1>2. EditsChanged => check' # "none" /\ (check' = "cancelled" => check = "cancelled")
    BY DEF EditsChanged
  <1>3. SomeCheck'
    BY <1>1, <1>2 DEF SomeCheck
  <1>4. Len(edits) \in Nat
    BY DEF TypeInv, EditsOK
  <1>5. ASSUME FreshInv, count.resets = 0, phase \in {"starting", "serving"}, NEW d \in Conns
        PROVE  /\ client'[d].asked <= Len(edits)
               /\ client'[d].work = "waiting" => Ahead(check', again', ask.target, client'[d].asked)
               /\ client'[d].work = "woken" => client'[d].asked <= known
    <2>1. /\ client[d].asked <= Len(edits)
          /\ client[d].work = "waiting" => Ahead(check, again, ask.target, client[d].asked)
          /\ client[d].work = "woken" => client[d].asked <= known
      BY <1>5 DEF FreshInv
    <2>2. check # "cancelled"
      BY <1>5 DEF FreshInv
    <2>3. EditsChanged => Ahead(check', again', ask.target, client'[d].asked)
      BY <2>2, EditsChangedAhead DEF TypeInv
    <2>4. CASE d = c
      BY <1>1, <1>4, <2>1, <2>3, <2>4
    <2>5. CASE d # c
      BY <1>1, <2>1, <2>3, <2>5
    <2> QED
      BY <2>4, <2>5
  <1>6. FreshInv => FreshInv'
    BY <1>2, <1>5 DEF FreshInv
  <1> QED
    BY <1>3, <1>6

LEMMA PeerWaitInv ==
  ASSUME TypeInv, Tidied, SomeCheck, NEW c \in Conns, Peer(c) \/ Timers(c)
  PROVE  SomeCheck' /\ (FreshInv => FreshInv')
  <1>0. client[c] \in ClientType /\ TypeInv'
    BY PeerTypeInv DEF TypeInv, ClientsOK
  <1>1. PICK new : /\ client' = [client EXCEPT ![c] = new]
                   /\ new.asked \in {client[c].asked, 0}
                   /\ new.work \in {"waiting", "woken"} =>
                        new.work = client[c].work /\ new.asked = client[c].asked
    <2>1. CASE Connect(c)
      <3> DEFINE new == [client[c] EXCEPT !.state = "open", !.deadline = "hello"]
      <3>1. client' = [client EXCEPT ![c] = new]
        BY <2>1 DEF Connect, TypeInv, ClientsOK
      <3>2. new.asked = client[c].asked /\ new.work = client[c].work
        BY <1>0 DEF ClientType
      <3> HIDE DEF new
      <3> QED
        BY <3>1, <3>2
    <2>2. CASE ConnectionLost(c)
      <3> WITNESS NoClient
      <3> QED
        BY <2>2 DEF ConnectionLost, NoClient
    <2>3. CASE BadData(c) \/ DeadlineFires(c)
      <3> WITNESS [client[c] EXCEPT !.state = "closing"]
      <3> QED
        BY <1>0, <2>3 DEF BadData, DeadlineFires, OnlyClient, ClientType
    <2>4. CASE PauseWriting(c)
      <3> WITNESS [client[c] EXCEPT !.behind = TRUE]
      <3> QED
        BY <1>0, <2>4 DEF PauseWriting, OnlyClient, ClientType
    <2>5. CASE ResumeWriting(c)
      <3> WITNESS [client[c] EXCEPT !.behind = FALSE]
      <3> QED
        BY <1>0, <2>5 DEF ResumeWriting, OnlyClient, ClientType
    <2>6. CASE TooSlow(c)
      <3> WITNESS [client[c] EXCEPT !.behind = FALSE, !.state = "closing"]
      <3> QED
        BY <1>0, <2>6 DEF TooSlow, OnlyClient, ClientType
    <2>7. ASSUME NEW r \in Requests, DataReceived(c, r)
          PROVE  \E new : /\ client' = [client EXCEPT ![c] = new]
                          /\ new.asked \in {client[c].asked, 0}
                          /\ new.work \in {"waiting", "woken"} =>
                               new.work = client[c].work /\ new.asked = client[c].asked
      <3> DEFINE queue == Append(client[c].queue, r)
                 work == IF client[c].work = "none" THEN "ready" ELSE client[c].work
      <3>1. client' = [client EXCEPT ![c] = [client[c] EXCEPT !.queue = queue, !.work = work]]
        BY <2>7 DEF DataReceived, OnlyClient
      <3> HIDE DEF queue
      <3> WITNESS [client[c] EXCEPT !.queue = queue, !.work = work]
      <3> QED
        BY <1>0, <3>1 DEF ClientType
    <2> QED
      BY <2>1, <2>2, <2>3, <2>4, <2>5, <2>6, <2>7 DEF Peer, Timers
  <1>2. client'[c] = new /\ new \in ClientType
    BY <1>0, <1>1 DEF TypeInv, ClientsOK
  <1>3. UNCHANGED <<edits, phase, known, ask, check, again>>
    BY DEF Peer, Timers, Connect, ConnectionLost, BadData, DeadlineFires, PauseWriting,
           ResumeWriting, TooSlow, DataReceived, OnlyClient
  <1>4. count'.resets = count.resets
    BY DEF Peer, Timers, Connect, ConnectionLost, BadData, DeadlineFires, PauseWriting,
           ResumeWriting, TooSlow, DataReceived, OnlyClient, TypeInv, ServerOK
  <1> QED
    BY <1>1, <1>2, <1>3, <1>4, OneClientWaitInv

LEMMA RequestAsked ==
  ASSUME TypeInv, NEW c \in Conns
  PROVE  RequestOver(c).asked = 0 /\ Answered(c).asked = client[c].asked
  <1>1. client[c] \in ClientType
    BY DEF TypeInv, ClientsOK
  <1> QED
    BY <1>1 DEF RequestOver, Answered, ClientType

\* A connection's fields changed one by one, or the connection at once.
LEMMA RequestTaken ==
  ASSUME NEW f \in [Conns -> ClientType], NEW c \in Conns, NEW r, NEW now, NEW work
  PROVE  [f EXCEPT ![c].queue = Tail(@), ![c].request = r, ![c].asked = now, ![c].work = work]
           = [f EXCEPT ![c] = [f[c] EXCEPT !.queue = Tail(f[c].queue), !.request = r,
                                           !.asked = now, !.work = work]]
  <1>1. f[c] \in ClientType
    OBVIOUS
  <1> QED
    BY <1>1 DEF ClientType

LEMMA WorkerWaitInv ==
  ASSUME TypeInv, SomeCheck, NEW c \in Conns, Worker(c)
  PROVE  SomeCheck' /\ (FreshInv => FreshInv')
  <1>0. client[c] \in ClientType /\ TypeInv'
    BY WorkerTypeInv DEF TypeInv, ClientsOK
  <1>1. UNCHANGED <<edits, phase, known, ask>>
    BY DEF Worker, WorkerEnds, Hello, AnswerAtOnce, RefuseArea, AskToSubscribe, WktChecked,
           WktRefused, WktFails, Subscribe, SubscribeRefused, Unsubscribe, OnlyClient
  <1>2. count'.resets = count.resets
    BY DEF Worker, WorkerEnds, Hello, AnswerAtOnce, RefuseArea, AskToSubscribe, WktChecked,
           WktRefused, WktFails, Subscribe, SubscribeRefused, Unsubscribe, OnlyClient,
           MayFail, TypeInv, ServerOK
  <1>3. EditsChanged \/ UNCHANGED <<check, again>>
    BY DEF Worker, WorkerEnds, Hello, AnswerAtOnce, RefuseArea, AskToSubscribe, WktChecked,
           WktRefused, WktFails, Subscribe, SubscribeRefused, Unsubscribe, OnlyClient
  <1>4. PICK new : /\ client' = [client EXCEPT ![c] = new]
                   /\ new.asked \in {client[c].asked, 0, Len(edits)}
                   /\ new.work \in {"waiting", "woken"} =>
                        new.work = "waiting" /\ EditsChanged
    <2>1. CASE WorkerEnds(c)
      <3> WITNESS [client[c] EXCEPT !.work = "none"]
      <3> QED
        BY <1>0, <2>1 DEF WorkerEnds, OnlyClient, ClientType
    <2>2. ASSUME NEW r, Handling(c, r),
                 Hello(c) \/ AnswerAtOnce(c) \/ RefuseArea(c) \/ Unsubscribe(c)
          PROVE  \E new : /\ client' = [client EXCEPT ![c] = new]
                          /\ new.asked = client[c].asked
                          /\ new.work \in {"none", "ready"}
      <3>1. /\ Answered(c) \in ClientType /\ Answered(c).work \in {"none", "ready"}
            /\ Answered(c).asked = client[c].asked
        BY <2>2, AnsweredOK, RequestAsked
      <3>2. CASE Hello(c)
        <4> DEFINE deadline == IF client[c].greeted THEN Answered(c).deadline ELSE "subscribe"
        <4>1. client' = [client EXCEPT ![c] = [Answered(c) EXCEPT !.greeted = TRUE,
                                                               !.deadline = deadline]]
          BY <3>2 DEF Hello, OnlyClient
        <4> HIDE DEF deadline
        <4> WITNESS [Answered(c) EXCEPT !.greeted = TRUE, !.deadline = deadline]
        <4> QED
          BY <3>1, <4>1 DEF ClientType
      <3>3. CASE AnswerAtOnce(c) \/ RefuseArea(c)
        BY <3>1, <3>3 DEF AnswerAtOnce, RefuseArea, OnlyClient
      <3>4. ASSUME NEW q,
                   OnlyClient(c, [Answered(c) EXCEPT
                       !.sub[q.kind] = None, !.start[q.kind] = 0,
                       !.told = IF q.kind = "edits" THEN 0 ELSE @,
                       !.heard = IF q.kind = "records" THEN NoneHeard ELSE @,
                       !.deadline = DeadlineWithout(c, q.kind)])
            PROVE  \E new : /\ client' = [client EXCEPT ![c] = new]
                            /\ new.asked = client[c].asked
                            /\ new.work \in {"none", "ready"}
        <4> DEFINE told == IF q.kind = "edits" THEN 0 ELSE Answered(c).told
                   heard == IF q.kind = "records" THEN NoneHeard ELSE Answered(c).heard
                   deadline == DeadlineWithout(c, q.kind)
        <4>1. client' = [client EXCEPT ![c] = [Answered(c) EXCEPT
                            !.sub[q.kind] = None, !.start[q.kind] = 0,
                            !.told = told, !.heard = heard, !.deadline = deadline]]
          BY <3>4 DEF OnlyClient
        <4> HIDE DEF told, heard, deadline
        <4> WITNESS [Answered(c) EXCEPT !.sub[q.kind] = None, !.start[q.kind] = 0,
                                        !.told = told, !.heard = heard, !.deadline = deadline]
        <4> QED
          BY <3>1, <4>1 DEF ClientType
      <3> QED
        BY <2>2, <3>2, <3>3, <3>4 DEF Unsubscribe
    <2>3. CASE Hello(c) \/ AnswerAtOnce(c) \/ RefuseArea(c) \/ Unsubscribe(c)
      <3>1. PICK r : Handling(c, r)
        BY <2>3 DEF Hello, AnswerAtOnce, RefuseArea, AsksToSubscribe, Unsubscribe
      <3> QED
        BY <2>2, <2>3, <3>1
    <2>4. CASE WktRefused(c) \/ SubscribeRefused(c) \/ WktFails(c) \/ Subscribe(c)
      <3>1. /\ RequestOver(c) \in ClientType /\ RequestOver(c).work \in {"none", "ready"}
            /\ RequestOver(c).asked = 0
        BY RequestOverOK, RequestAsked
      <3>2. CASE WktRefused(c) \/ SubscribeRefused(c)
        BY <3>1, <3>2 DEF WktRefused, SubscribeRefused, OnlyClient
      <3>3. CASE WktFails(c)
        <4> WITNESS [RequestOver(c) EXCEPT !.work = "none"]
        <4> QED
          BY <3>1, <3>3 DEF WktFails, ClientType
      <3>4. CASE Subscribe(c)
        <4> DEFINE kind == client[c].request.kind
                   key == <<client[c].request.area, client[c].request.format>>
        <4>1. client' = [client EXCEPT ![c] = [RequestOver(c) EXCEPT
                            !.sub[kind] = key, !.start[kind] = known, !.deadline = "none"]]
          BY <3>4 DEF Subscribe, OnlyClient
        <4> HIDE DEF kind, key
        <4> WITNESS [RequestOver(c) EXCEPT !.sub[kind] = key, !.start[kind] = known,
                                           !.deadline = "none"]
        <4> QED
          BY <3>1, <4>1 DEF ClientType
      <3> QED
        BY <2>4, <3>2, <3>3, <3>4
    <2>5. CASE AskToSubscribe(c)
      <3>1. PICK r \in Requests :
              /\ client' = [client EXCEPT ![c].queue = Tail(@), ![c].request = r,
                                         ![c].asked = Len(edits),
                                         ![c].work = IF r.area \in Wkt THEN "wkt" ELSE "waiting"]
              /\ IF r.area \in Wkt THEN UNCHANGED <<check, again>> ELSE EditsChanged
        BY <2>5 DEF AskToSubscribe
      <3> DEFINE rest == Tail(client[c].queue)
                 now == Len(edits)
                 work == IF r.area \in Wkt THEN "wkt" ELSE "waiting"
      <3>2. client' = [client EXCEPT ![c] = [client[c] EXCEPT !.queue = rest, !.request = r,
                                                           !.asked = now, !.work = work]]
        <4>1. client \in [Conns -> ClientType]
          BY DEF TypeInv, ClientsOK
        <4> HIDE DEF now, work
        <4>2. [client EXCEPT ![c].queue = Tail(@), ![c].request = r, ![c].asked = now,
                             ![c].work = work]
                = [client EXCEPT ![c] = [client[c] EXCEPT !.queue = rest, !.request = r,
                                                          !.asked = now, !.work = work]]
          BY <4>1, RequestTaken, Zenon
        <4> QED
          BY <3>1, <4>2 DEF now, work
      <3>3. work = "wkt" \/ (work = "waiting" /\ EditsChanged)
        BY <3>1
      <3> HIDE DEF rest, work
      <3> WITNESS [client[c] EXCEPT !.queue = rest, !.request = r, !.asked = now, !.work = work]
      <3> QED
        BY <1>0, <3>2, <3>3 DEF ClientType
    <2>6. CASE WktChecked(c)
      <3> DEFINE request == [client[c].request EXCEPT !.area = Tidy[@]]
      <3>1. client' = [client EXCEPT ![c].request.area = Tidy[@], ![c].work = "waiting"]
            /\ EditsChanged
        BY <2>6 DEF WktChecked
      <3>2. client' = [client EXCEPT ![c] = [client[c] EXCEPT !.request = request,
                                                           !.work = "waiting"]]
        BY <1>0, <3>1 DEF TypeInv, ClientsOK, ClientType
      <3> HIDE DEF request
      <3> WITNESS [client[c] EXCEPT !.request = request, !.work = "waiting"]
      <3> QED
        BY <1>0, <3>1, <3>2 DEF ClientType
    <2> QED
      BY <2>1, <2>3, <2>4, <2>5, <2>6, <2>2 DEF Worker
  <1>5. client'[c] = new /\ new \in ClientType
    BY <1>0, <1>4 DEF TypeInv, ClientsOK
  <1> QED
    BY <1>1, <1>2, <1>3, <1>4, <1>5, OneClientWaitInv

LEMMA WokenWork ==
  ASSUME NEW clients \in [Conns -> ClientType], NEW c \in Conns
  PROVE  /\ Woken(clients)[c].work = IF clients[c].work = "waiting" THEN "woken" ELSE clients[c].work
         /\ Woken(clients)[c].asked = clients[c].asked
  BY DEF Woken, ClientType

LEMMA SettleWaiters ==
  ASSUME NEW clients \in [Conns -> ClientType], Settle(clients)
  PROVE  SomeCheck'
  <1>1. \A c \in Conns : Woken(clients)[c].work # "waiting"
    BY WokenWork
  <1> QED
    BY <1>1 DEF Settle, SomeCheck

LEMMA SettleFresh ==
  ASSUME TypeInv, FreshInv, NEW clients \in [Conns -> ClientType], Settle(clients),
         \A c \in Conns : clients[c].work = client[c].work /\ clients[c].asked = client[c].asked,
         UNCHANGED <<edits, phase>>, count'.resets = count.resets,
         check \in {"read", "asking"},
         count.resets = 0 => known' = ask.target /\ known <= ask.target
  PROVE  FreshInv'
  <1>1. /\ again \in BOOLEAN /\ known \in Nat /\ ask.target \in Nat
        /\ \A c \in Conns : client[c].asked \in Nat
    BY BoundsNat DEF TypeInv, CheckOK, ClientsOK, AskType, ClientType
  <1>2. ASSUME count.resets = 0, phase \in {"starting", "serving"}, NEW c \in Conns
        PROVE  /\ client'[c].asked <= Len(edits)
               /\ client'[c].work = "waiting" => Ahead(check', again', ask'.target, client'[c].asked)
               /\ client'[c].work = "woken" => client'[c].asked <= known'
    <2>1. /\ client[c].asked <= Len(edits)
          /\ client[c].work = "waiting" => Ahead(check, again, ask.target, client[c].asked)
          /\ client[c].work = "woken" => client[c].asked <= known
      BY <1>2 DEF FreshInv
    <2>2. CASE again = TRUE
      <3>1. check' = "latest" /\ client' = clients
        BY <2>2 DEF Settle
      <3> QED
        BY <1>1, <1>2, <2>1, <3>1 DEF Ahead
    <2>3. CASE again = FALSE
      <3>1. client' = Woken(clients)
        BY <2>3 DEF Settle
      <3>2. /\ client'[c].asked = client[c].asked
            /\ client'[c].work = IF client[c].work = "waiting" THEN "woken" ELSE client[c].work
        BY <3>1, WokenWork
      <3>3. client[c].work = "waiting" => client[c].asked <= ask.target
        BY <2>1, <2>3 DEF Ahead
      <3> QED
        BY <1>1, <1>2, <2>1, <3>2, <3>3
    <2> QED
      BY <1>1, <2>2, <2>3
  <1>3. check' # "cancelled"
    BY DEF Settle
  <1> QED
    BY <1>2, <1>3 DEF FreshInv

LEMMA AnnounceWait ==
  ASSUME TypeInv, NEW q \in AskType, q.target = ask.target, Announce(q),
         UNCHANGED <<edits, phase>>, count'.resets = count.resets,
         check \in {"read", "asking"}, count.resets = 0 => known <= ask.target
  PROVE  SomeCheck' /\ (FreshInv => FreshInv')
  <1> DEFINE clients == [c \in Conns |->
                  IF Dropped(c, q) THEN [client[c] EXCEPT !.state = "closing"]
                  ELSE IF client[c].state = "open" THEN Told(c, q) ELSE client[c]]
  <1>1. \A c \in Conns : client[c] \in ClientType
    BY DEF TypeInv, ClientsOK
  <1>2. ASSUME NEW c \in Conns
        PROVE  LET new == [client[c] EXCEPT !.state = "closing"]
               IN  new \in ClientType /\ new.work = client[c].work /\ new.asked = client[c].asked
    BY <1>1 DEF ClientType
  <1>3. ASSUME NEW c \in Conns
        PROVE  /\ Told(c, q) \in ClientType /\ Told(c, q).work = client[c].work
               /\ Told(c, q).asked = client[c].asked
    <2>1. Told(c, q).work = client[c].work /\ Told(c, q).asked = client[c].asked
      BY <1>1 DEF Told, ClientType
    <2> QED
      BY <2>1, ToldOK DEF TypeInv
  <1>4. \A c \in Conns : clients[c] \in ClientType /\ clients[c].work = client[c].work
                          /\ clients[c].asked = client[c].asked
    BY <1>1, <1>2, <1>3
  <1>5. clients \in [Conns -> ClientType]
    BY <1>4
  <1>6. Settle(clients) /\ known' = ask.target
    BY DEF Announce
  <1> HIDE DEF clients
  <1> QED
    BY <1>4, <1>5, <1>6, SettleWaiters, SettleFresh

LEMMA AnswerWait ==
  ASSUME TypeInv, NEW q \in AskType, q.target = ask.target, NextAnswer(q) \/ AskOrAnnounce(q),
         UNCHANGED <<edits, phase>>, count'.resets = count.resets,
         check \in {"read", "asking"}, count.resets = 0 => known <= ask.target,
         SomeCheck
  PROVE  SomeCheck' /\ (FreshInv => FreshInv')
  <1>1. CASE Announce(q)
    BY <1>1, AnnounceWait
  <1>2. CASE ~Announce(q)
    <2>1. UNCHANGED <<again, known, client>> /\ check' \in {"read", "asking"}
          /\ ask'.target = ask.target
      BY <1>2 DEF NextAnswer, AskOrAnnounce, AskType
    <2>2. FreshInv => FreshInv'
      BY <2>1 DEF FreshInv, Ahead
    <2>3. SomeCheck'
      BY <2>1 DEF SomeCheck
    <2> QED
      BY <2>2, <2>3
  <1> QED
    BY <1>1, <1>2

LEMMA CheckingWaitInv ==
  ASSUME TypeInv, FeedInv, SomeCheck, Checking
  PROVE  /\ SomeCheck'
         /\ "latest" \notin Failing /\ FreshInv => FreshInv'
  <1>1. UNCHANGED <<edits, phase>>
    BY DEF Checking, CheckBegins, ReadLatest, ReadLatestFails, CheckLatest, AreaAnswered,
           RecordsAnswered
  <1>2. count'.resets = count.resets
    BY DEF Checking, CheckBegins, ReadLatest, ReadLatestFails, CheckLatest, AreaAnswered,
           RecordsAnswered, MayFail, TypeInv, ServerOK
  <1>3. /\ ask \in AskType /\ client \in [Conns -> ClientType] /\ known \in Nat
        /\ ask.target \in Nat /\ Len(edits) \in Nat
        /\ \A c \in Conns : client[c].asked \in Nat
    BY BoundsNat DEF TypeInv, EditsOK, CheckOK, ClientsOK, AskType, ClientType
  <1>4. CASE CheckBegins
    <2>1. UNCHANGED <<known, ask, client>> /\ check' = "latest"
      BY <1>4 DEF CheckBegins
    <2> QED
      BY <1>1, <1>2, <2>1 DEF SomeCheck, FreshInv, Ahead
  <1>5. CASE ReadLatest
    <2>1. UNCHANGED <<known, again, client>> /\ check' = "read" /\ ask'.target = Len(edits)
      BY <1>3, <1>5 DEF ReadLatest, AskType
    <2> QED
      BY <1>1, <1>2, <2>1 DEF SomeCheck, FreshInv, Ahead
  <1>6. CASE ReadLatestFails
    BY <1>3, <1>6, SettleWaiters DEF ReadLatestFails, MayFail
  <1>7. CASE CheckLatest
    <2>0. check = "read" /\ (count.resets = 0 => known <= ask.target)
      BY <1>7 DEF CheckLatest, FeedInv
    <2>1. CASE ask.target <= known
      <3>1. Settle(client) /\ known' = ask.target
        BY <1>7, <2>1 DEF CheckLatest
      <3> QED
        BY <1>1, <1>2, <1>3, <2>0, <3>1, SettleWaiters, SettleFresh
    <2>2. CASE ~(ask.target <= known)
      <3> DEFINE q == [ask EXCEPT !.answered = {Everywhere}, !.concerned = {Everywhere}]
      <3>1. q \in AskType /\ q.target = ask.target
        BY <1>3 DEF AskType, AllAreas
      <3>2. AskOrAnnounce(q)
        BY <1>7, <2>2 DEF CheckLatest
      <3> HIDE DEF q
      <3> QED
        BY <1>1, <1>2, <2>0, <3>1, <3>2, AnswerWait
    <2> QED
      BY <2>1, <2>2
  <1>8. ASSUME check = "asking"
        PROVE  count.resets = 0 => known <= ask.target
    BY <1>3, <1>8 DEF FeedInv, Learned
  <1>9. ASSUME NEW area \in AllAreas, AreaAnswered(area)
        PROVE  SomeCheck' /\ (FreshInv => FreshInv')
    <2>1. PICK yes \in BOOLEAN :
             NextAnswer([ask EXCEPT !.areas = @ \ {area}, !.answered = @ \cup {area},
                                    !.concerned = IF yes THEN @ \cup {area} ELSE @])
      BY <1>9 DEF AreaAnswered
    <2> DEFINE q == [ask EXCEPT !.areas = @ \ {area}, !.answered = @ \cup {area},
                                !.concerned = IF yes THEN @ \cup {area} ELSE @]
    <2>2. q \in AskType /\ q.target = ask.target
      BY <1>3 DEF AskType
    <2>3. NextAnswer(q) /\ check = "asking"
      BY <1>9, <2>1 DEF AreaAnswered
    <2> HIDE DEF q
    <2> QED
      BY <1>1, <1>2, <1>8, <2>2, <2>3, AnswerWait
  <1>10. ASSUME NEW key \in Keys, RecordsAnswered(key)
         PROVE  SomeCheck' /\ (FreshInv => FreshInv')
    <2> DEFINE some == Concerning(known + 1, ask.target, key[1])
               found == [ask EXCEPT !.keys = @ \ {key}, !.read = @ \cup {key}, !.found[key] = some]
               failed == [ask EXCEPT !.keys = @ \ {key}, !.failed = @ \cup {key}]
    <2>1. check = "asking" /\ (NextAnswer(found) \/ NextAnswer(failed))
      BY <1>10 DEF RecordsAnswered
    <2>2. some \subseteq EditIds
      BY ConcerningOK
    <2> HIDE DEF some
    <2>3. found \in AskType /\ found.target = ask.target
      BY <1>3, <2>2 DEF AskType
    <2>4. failed \in AskType /\ failed.target = ask.target
      BY <1>3 DEF AskType
    <2> HIDE DEF found, failed
    <2> QED
      BY <1>1, <1>2, <1>8, <2>1, <2>3, <2>4, AnswerWait
  <1> QED
    BY <1>4, <1>5, <1>6, <1>7, <1>9, <1>10 DEF Checking

LEMMA StopWaitInv ==
  ASSUME TypeInv, SomeCheck, Stop \/ Stopped \/ UNCHANGED vars
  PROVE  SomeCheck' /\ (FreshInv => FreshInv')
  <1>1. CASE Stop
    <2>1. phase' = "stopping"
      BY <1>1 DEF Stop
    <2>2. client \in [Conns -> ClientType]
      BY DEF TypeInv, ClientsOK
    <2>3. SomeCheck'
      BY <1>1, <2>2, WokenWork DEF Stop, SomeCheck
    <2> QED
      BY <2>1, <2>3 DEF FreshInv
  <1>2. CASE Stopped \/ UNCHANGED vars
    <2>1. UNCHANGED <<edits, known, check, again, ask, client, count>>
          /\ (phase' = phase \/ phase' = "stopped")
      BY <1>2 DEF Stopped, vars
    <2> QED
      BY <2>1 DEF SomeCheck, FreshInv
  <1> QED
    BY <1>1, <1>2

LEMMA NextWaitInv ==
  ASSUME SafeInv, SomeCheck, [Next]_vars
  PROVE  /\ SomeCheck'
         /\ "latest" \notin Failing /\ FreshInv => FreshInv'
  BY OutsideWaitInv, CheckingWaitInv, PeerWaitInv, WorkerWaitInv, StopWaitInv DEF Next, SafeInv

LEMMA NextCancelled ==
  ASSUME TypeInv, CancelledStopping, [Next]_vars
  PROVE  CancelledStopping'
  <1>1. CASE Map \/ Listening \/ Heartbeat \/ Stop \/ Stopped \/ UNCHANGED vars
    BY <1>1 DEF Map, Commit, MapReset, Listening, ListenerDies, ListenerNoticesLoss,
           ListenerConnects, ListenerGivesUp, ListenerHears, Heartbeat, Stop, Stopped, vars,
           EditsChanged, CancelledStopping
  <1>2. CASE Checking
    <2>1. \A clients : Settle(clients) => check' \in {"latest", "none"}
      BY DEF Settle
    <2>2. \A q : AskOrAnnounce(q) => check' \in {"latest", "none", "asking"}
      BY <2>1 DEF AskOrAnnounce, Announce
    <2>3. \A q : check = "asking" /\ NextAnswer(q) => check' \in {"latest", "none", "asking"}
      BY <2>2 DEF NextAnswer
    <2>4. CASE CheckBegins \/ ReadLatest \/ ReadLatestFails \/ CheckLatest
      BY <2>1, <2>2, <2>4 DEF CheckBegins, ReadLatest, ReadLatestFails, CheckLatest, CancelledStopping
    <2>5. ASSUME NEW area \in AllAreas, AreaAnswered(area) PROVE CancelledStopping'
      BY <2>3, <2>5 DEF AreaAnswered, CancelledStopping
    <2>6. ASSUME NEW key \in Keys, RecordsAnswered(key) PROVE CancelledStopping'
      BY <2>3, <2>6 DEF RecordsAnswered, CancelledStopping
    <2> QED
      BY <1>2, <2>4, <2>5, <2>6 DEF Checking
  <1>3. ASSUME NEW c \in Conns, Peer(c) \/ Timers(c)
        PROVE  CancelledStopping'
    BY <1>3 DEF Peer, Timers, Connect, ConnectionLost, BadData, DeadlineFires, PauseWriting,
           ResumeWriting, TooSlow, DataReceived, OnlyClient, CancelledStopping
  <1>4. ASSUME NEW c \in Conns, Worker(c)
        PROVE  CancelledStopping'
    <2>1. phase' = phase /\ (check' = "cancelled" => check = "cancelled")
      BY <1>4 DEF Worker, WorkerEnds, Hello, AnswerAtOnce, RefuseArea, AskToSubscribe,
             WktChecked, WktRefused, WktFails, Subscribe, SubscribeRefused, Unsubscribe,
             OnlyClient, EditsChanged
    <2> QED
      BY <2>1 DEF CancelledStopping
  <1> QED
    BY <1>1, <1>2, <1>3, <1>4 DEF Next

\* No client waits for a check that is not coming: the wakeup is not lost,
\* whichever calls fail and whenever the server is stopped.
THEOREM WaitersChecked == Spec => []WaitersHaveCheck
  <1> DEFINE Inv == SafeInv /\ SomeCheck /\ CancelledStopping
  <1>1. Init => Inv
    <2>1. Init => SomeCheck /\ CancelledStopping
      BY DEF Init, SomeCheck, CancelledStopping, NoClient
    <2> QED
      BY <2>1, InitSafeInv
  <1>2. Inv /\ [Next]_vars => Inv'
    <2>1. SafeInv => TypeInv
      BY DEF SafeInv
    <2> QED
      BY <2>1, NextSafeInv, NextWaitInv, NextCancelled
  <1>3. Inv => WaitersHaveCheck
    BY DEF SomeCheck, CancelledStopping, WaitersHaveCheck
  <1> QED
    BY <1>1, <1>2, <1>3, PTL DEF Spec

-----------------------------------------------------------------------------
(* What a step makes of a client.                                          *)

Busy == {"wkt", "waiting", "woken"}

\* It keeps its subscriptions; it may start to close, or, once greeted, begin
\* a request that waits.
Steady(new, cl) ==
    /\ new.state = cl.state \/ (cl.state = "open" /\ new.state = "closing")
    /\ new.sub = cl.sub /\ new.start = cl.start
    /\ new.deadline = cl.deadline /\ new.greeted = cl.greeted
    /\ new.work \in Busy => cl.work \in Busy \/ cl.greeted

\* ...and is sent nothing.
Quiet(new, cl) == Steady(new, cl) /\ new.heard = cl.heard

\* It is greeted.
Greets(new, cl) ==
    /\ new.state = cl.state /\ new.work \notin Busy
    /\ new.sub = cl.sub /\ new.start = cl.start /\ new.heard = cl.heard
    /\ new.greeted = TRUE
    /\ new.deadline = (IF cl.greeted THEN cl.deadline ELSE "subscribe")

\* It is subscribed, at the ID the server has got to.
Subscribes(new, cl, kind, key) ==
    /\ cl.work = "woken" /\ cl.state = "open" /\ cl.sub[kind] = None
    /\ AreaAllowed(key[1])
    /\ new.state = cl.state /\ new.work \notin Busy
    /\ new.sub = [cl.sub EXCEPT ![kind] = key]
    /\ new.start = [cl.start EXCEPT ![kind] = known]
    /\ new.heard = cl.heard
    /\ new.greeted = cl.greeted /\ new.deadline = "none"

\* It gives up a subscription.
GivesUp(new, cl, kind) ==
    /\ new.state = cl.state /\ new.work \notin Busy
    /\ new.sub = [cl.sub EXCEPT ![kind] = None]
    /\ new.start = [cl.start EXCEPT ![kind] = 0]
    /\ new.heard = (IF kind = "records" THEN NoneHeard ELSE cl.heard)
    /\ new.greeted = cl.greeted
    /\ new.deadline = (IF \E other \in Kinds \ {kind} : cl.sub[other] # None
                       THEN cl.deadline ELSE "subscribe")

LEMMA WokenQuiet ==
  ASSUME NEW clients \in [Conns -> ClientType], NEW c \in Conns
  PROVE  Quiet(Woken(clients)[c], clients[c])
  BY DEF Woken, ClientType, Quiet, Steady, Busy

LEMMA PeerQuiet ==
  ASSUME TypeInv, Tidied, NEW c \in Conns, Peer(c) \/ Timers(c), ~Connect(c), ~ConnectionLost(c)
  PROVE  \E new : client' = [client EXCEPT ![c] = new] /\ Quiet(new, client[c])
  <1>1. client[c] \in ClientType /\ client \in [Conns -> ClientType]
    BY DEF TypeInv, ClientsOK
  <1>2. CASE BadData(c) \/ DeadlineFires(c)
    <2> DEFINE new == [client[c] EXCEPT !.state = "closing"]
    <2>1. client' = [client EXCEPT ![c] = new] /\ client[c].state = "open"
      BY <1>2 DEF BadData, DeadlineFires, OnlyClient
    <2>2. Quiet(new, client[c])
      BY <1>1, <2>1 DEF Quiet, Steady, ClientType
    <2> QED
      BY <2>1, <2>2
  <1>3. ASSUME NEW behind, client' = [client EXCEPT ![c] = [client[c] EXCEPT !.behind = behind]]
        PROVE  \E new : client' = [client EXCEPT ![c] = new] /\ Quiet(new, client[c])
    <2>1. Quiet([client[c] EXCEPT !.behind = behind], client[c])
      BY <1>1 DEF Quiet, Steady, ClientType
    <2> QED
      BY <1>3, <2>1
  <1>4. CASE PauseWriting(c) \/ ResumeWriting(c)
    BY <1>3, <1>4 DEF PauseWriting, ResumeWriting, OnlyClient
  <1>5. CASE TooSlow(c)
    <2> DEFINE new == [client[c] EXCEPT !.behind = FALSE, !.state = "closing"]
    <2>1. client' = [client EXCEPT ![c] = new]
      BY <1>5 DEF TooSlow, OnlyClient
    <2>2. client[c].state \in {"open", "closing"}
      <3>1. client[c].behind /\ TidyClient(client[c])
        BY <1>5 DEF TooSlow, Tidied
      <3> QED
        BY <1>1, <3>1 DEF TidyClient, NoClient, ClientType
    <2>3. Quiet(new, client[c])
      BY <1>1, <2>2 DEF Quiet, Steady, ClientType
    <2> QED
      BY <2>1, <2>3
  <1>6. ASSUME NEW r \in Requests, DataReceived(c, r)
        PROVE  \E new : client' = [client EXCEPT ![c] = new] /\ Quiet(new, client[c])
    <2> DEFINE queue == Append(client[c].queue, r)
               work == IF client[c].work = "none" THEN "ready" ELSE client[c].work
               new == [client[c] EXCEPT !.queue = queue, !.work = work]
    <2>1. client' = [client EXCEPT ![c] = new]
      BY <1>6 DEF DataReceived, OnlyClient
    <2> HIDE DEF queue
    <2>2. Quiet(new, client[c])
      BY <1>1 DEF Quiet, Steady, ClientType, Busy
    <2> QED
      BY <2>1, <2>2
  <1> QED
    BY <1>2, <1>4, <1>5, <1>6 DEF Peer, Timers

\* What the worker of a connection does to it.
LEMMA WorkerSteps ==
  ASSUME TypeInv, Tidied, NEW c \in Conns, Worker(c)
  PROVE  \E new :
            /\ client' = [client EXCEPT ![c] = new]
            /\ \/ Quiet(new, client[c])
               \/ Greets(new, client[c])
               \/ \E kind \in Kinds, key \in Keys : Subscribes(new, client[c], kind, key)
               \/ \E kind \in Kinds : GivesUp(new, client[c], kind)
  <1> DEFINE Goal == \E new :
                /\ client' = [client EXCEPT ![c] = new]
                /\ \/ Quiet(new, client[c])
                   \/ Greets(new, client[c])
                   \/ \E kind \in Kinds, key \in Keys : Subscribes(new, client[c], kind, key)
                   \/ \E kind \in Kinds : GivesUp(new, client[c], kind)
  <1> SUFFICES Goal
    OBVIOUS
  <1>1. client[c] \in ClientType /\ client \in [Conns -> ClientType] /\ TidyClient(client[c])
    BY DEF TypeInv, ClientsOK, Tidied
  <1>2. ASSUME NEW new, client' = [client EXCEPT ![c] = new], Quiet(new, client[c])
        PROVE  Goal
    BY <1>2
  <1>3. /\ RequestOver(c) \in ClientType /\ SameFeed(RequestOver(c), client[c])
        /\ RequestOver(c).work \notin Busy
        /\ RequestOver(c).deadline = client[c].deadline
        /\ RequestOver(c).greeted = client[c].greeted
    <2>1. /\ RequestOver(c).deadline = client[c].deadline
          /\ RequestOver(c).greeted = client[c].greeted
      BY <1>1 DEF RequestOver, ClientType
    <2> QED
      BY <2>1, RequestOverOK, RequestSameFeed DEF Busy
  <1>4. ASSUME NEW r, Handling(c, r)
        PROVE  /\ Answered(c) \in ClientType /\ SameFeed(Answered(c), client[c])
               /\ Answered(c).work \notin Busy
               /\ Answered(c).deadline = client[c].deadline
               /\ Answered(c).greeted = client[c].greeted
               /\ r \in RequestType
    <2>1. /\ Answered(c).deadline = client[c].deadline
          /\ Answered(c).greeted = client[c].greeted
      BY <1>1 DEF Answered, ClientType
    <2> QED
      BY <1>4, <2>1, AnsweredOK, RequestSameFeed DEF Busy
  <1>5. CASE WorkerEnds(c)
    <2> DEFINE new == [client[c] EXCEPT !.work = "none"]
    <2>1. client' = [client EXCEPT ![c] = new]
      BY <1>5 DEF WorkerEnds, OnlyClient
    <2>2. Quiet(new, client[c])
      BY <1>1 DEF ClientType, Quiet, Steady, Busy
    <2> QED
      BY <1>2, <2>1, <2>2
  <1>6. CASE Hello(c)
    <2> DEFINE deadline == IF client[c].greeted THEN Answered(c).deadline ELSE "subscribe"
               new == [Answered(c) EXCEPT !.greeted = TRUE, !.deadline = deadline]
    <2>1. client' = [client EXCEPT ![c] = new]
      BY <1>6 DEF Hello, OnlyClient
    <2>2. PICK r : Handling(c, r)
      BY <1>6 DEF Hello
    <2>3. deadline = IF client[c].greeted THEN client[c].deadline ELSE "subscribe"
      BY <1>4, <2>2
    <2> HIDE DEF deadline
    <2>4. /\ new.state = client[c].state /\ new.sub = client[c].sub
          /\ new.start = client[c].start /\ new.heard = client[c].heard
          /\ new.work = Answered(c).work /\ new.greeted = TRUE /\ new.deadline = deadline
      BY <1>4, <2>2 DEF ClientType, SameFeed
    <2>5. Greets(new, client[c])
      BY <1>4, <2>2, <2>3, <2>4 DEF Greets
    <2> HIDE DEF new
    <2> QED
      BY <2>1, <2>5
  <1>7. CASE AnswerAtOnce(c) \/ RefuseArea(c)
    <2>1. PICK r : Handling(c, r)
      BY <1>7 DEF AnswerAtOnce, RefuseArea, AsksToSubscribe
    <2>2. client' = [client EXCEPT ![c] = Answered(c)]
      BY <1>7 DEF AnswerAtOnce, RefuseArea, OnlyClient
    <2>3. Quiet(Answered(c), client[c])
      BY <1>4, <2>1 DEF Quiet, Steady, SameFeed
    <2> QED
      BY <1>2, <2>2, <2>3
  <1>8. CASE WktRefused(c) \/ SubscribeRefused(c)
    <2>1. client' = [client EXCEPT ![c] = RequestOver(c)]
      BY <1>8 DEF WktRefused, SubscribeRefused, OnlyClient
    <2>2. Quiet(RequestOver(c), client[c])
      BY <1>3 DEF Quiet, Steady, SameFeed
    <2> QED
      BY <1>2, <2>1, <2>2
  <1>9. CASE WktFails(c)
    <2> DEFINE new == [RequestOver(c) EXCEPT !.work = "none"]
    <2>1. client' = [client EXCEPT ![c] = new]
      BY <1>9 DEF WktFails
    <2>2. Quiet(new, client[c])
      BY <1>3 DEF ClientType, Quiet, Steady, SameFeed, Busy
    <2> QED
      BY <1>2, <2>1, <2>2
  <1>10. CASE AskToSubscribe(c)
    <2>1. PICK r \in Requests :
            /\ AsksToSubscribe(c, r)
            /\ client' = [client EXCEPT ![c].queue = Tail(@), ![c].request = r,
                                       ![c].asked = Len(edits),
                                       ![c].work = IF r.area \in Wkt THEN "wkt" ELSE "waiting"]
      BY <1>10 DEF AskToSubscribe
    <2> DEFINE rest == Tail(client[c].queue)
               now == Len(edits)
               work == IF r.area \in Wkt THEN "wkt" ELSE "waiting"
               new == [client[c] EXCEPT !.queue = rest, !.request = r, !.asked = now,
                                        !.work = work]
    <2>2. client' = [client EXCEPT ![c] = new]
      BY <1>1, <2>1 DEF ClientType
    <2> HIDE DEF rest, now, work
    <2>3. client[c].greeted
      BY <2>1 DEF AsksToSubscribe
    <2>4. Quiet(new, client[c])
      BY <1>1, <2>3 DEF ClientType, Quiet, Steady
    <2> HIDE DEF new
    <2> QED
      BY <1>2, <2>2, <2>4
  <1>11. CASE WktChecked(c)
    <2> DEFINE request == [client[c].request EXCEPT !.area = Tidy[@]]
               new == [client[c] EXCEPT !.request = request, !.work = "waiting"]
    <2>1. client' = [client EXCEPT ![c].request.area = Tidy[@], ![c].work = "waiting"]
          /\ client[c].work \in Busy
      BY <1>11 DEF WktChecked, Busy
    <2>2. client' = [client EXCEPT ![c] = new]
      BY <1>1, <2>1 DEF ClientType
    <2> HIDE DEF request
    <2>3. Quiet(new, client[c])
      BY <1>1, <2>1 DEF ClientType, Quiet, Steady
    <2> HIDE DEF new
    <2> QED
      BY <1>2, <2>2, <2>3
  <1>12. CASE Subscribe(c)
    <2> DEFINE k == client[c].request.kind
               key == <<client[c].request.area, client[c].request.format>>
               new == [RequestOver(c) EXCEPT !.sub[k] = key, !.start[k] = known,
                                             !.deadline = "none"]
    <2>1. client' = [client EXCEPT ![c] = new]
      BY <1>12 DEF Subscribe, OnlyClient
    <2>2. client[c].work = "woken" /\ client[c].state = "open"
      BY <1>12 DEF Subscribe, StillAllowed
    <2>3. client[c].request \in RequestType
      BY <2>2, RequestOK
    <2>4. k \in Kinds /\ key \in Keys
      BY <2>3 DEF RequestType, Keys
    <2>5. client[c].sub[k] = None
      BY <1>1, <2>2 DEF TidyClient
    <2>6. AreaAllowed(key[1])
      BY <1>12 DEF Subscribe, StillAllowed
    <2> HIDE DEF k, key
    <2>7. /\ new.state = RequestOver(c).state /\ new.work = RequestOver(c).work
          /\ new.sub = [RequestOver(c).sub EXCEPT ![k] = key]
          /\ new.start = [RequestOver(c).start EXCEPT ![k] = known]
          /\ new.heard = RequestOver(c).heard
          /\ new.greeted = RequestOver(c).greeted /\ new.deadline = "none"
      BY <1>3 DEF ClientType
    <2> HIDE DEF new
    <2>8. Subscribes(new, client[c], k, key)
      BY <1>3, <2>2, <2>5, <2>6, <2>7 DEF Subscribes, SameFeed
    <2> QED
      BY <2>1, <2>4, <2>8
  <1>13. CASE Unsubscribe(c)
    <2>1. PICK r \in Requests :
            /\ Handling(c, r)
            /\ OnlyClient(c, [Answered(c) EXCEPT
                   !.sub[r.kind] = None, !.start[r.kind] = 0,
                   !.told = IF r.kind = "edits" THEN 0 ELSE @,
                   !.heard = IF r.kind = "records" THEN NoneHeard ELSE @,
                   !.deadline = DeadlineWithout(c, r.kind)])
      BY <1>13 DEF Unsubscribe
    <2> DEFINE k == r.kind
               told == IF k = "edits" THEN 0 ELSE Answered(c).told
               heard == IF k = "records" THEN NoneHeard ELSE Answered(c).heard
               deadline == DeadlineWithout(c, k)
               new == [Answered(c) EXCEPT !.sub[k] = None, !.start[k] = 0,
                                          !.told = told, !.heard = heard, !.deadline = deadline]
    <2>2. client' = [client EXCEPT ![c] = new]
      BY <2>1 DEF OnlyClient
    <2>3. /\ Answered(c) \in ClientType /\ SameFeed(Answered(c), client[c])
          /\ Answered(c).work \notin Busy
          /\ Answered(c).greeted = client[c].greeted
          /\ k \in Kinds
      BY <1>4, <2>1 DEF RequestType
    <2>4. heard = IF k = "records" THEN NoneHeard ELSE client[c].heard
      BY <2>3 DEF SameFeed
    <2>5. deadline = IF \E other \in Kinds \ {k} : client[c].sub[other] # None
                     THEN client[c].deadline ELSE "subscribe"
      BY DEF DeadlineWithout, Subscribed
    <2> HIDE DEF k, told, heard, deadline
    <2>6. /\ new.state = Answered(c).state /\ new.work = Answered(c).work
          /\ new.sub = [Answered(c).sub EXCEPT ![k] = None]
          /\ new.start = [Answered(c).start EXCEPT ![k] = 0]
          /\ new.heard = heard
          /\ new.greeted = Answered(c).greeted /\ new.deadline = deadline
      BY <2>3 DEF ClientType
    <2> HIDE DEF new
    <2>7. GivesUp(new, client[c], k)
      BY <2>3, <2>4, <2>5, <2>6 DEF GivesUp, SameFeed
    <2> QED
      BY <2>2, <2>3, <2>7
  <1> QED
    BY <1>5, <1>6, <1>7, <1>8, <1>9, <1>10, <1>11, <1>12, <1>13 DEF Worker

\* A check that has asked about all that is followed, and tells the clients.
Ended(q) ==
    /\ Announce(q)
    /\ EditsAreas \subseteq q.answered
    /\ Subscriptions("records") \subseteq q.read \cup q.failed
    /\ count.resets = 0 => Learned(edits, known, q)

LEMMA AskEnds ==
  ASSUME NEW q \in AskType, NextAnswer(q) \/ AskOrAnnounce(q),
         count.resets = 0 => Learned(edits, known, q)
  PROVE  UNCHANGED <<known, client>> \/ Ended(q)
  BY DEF NextAnswer, AskOrAnnounce, Ended

\* A step of a check either tells nobody anything or ends it.
LEMMA CheckingSteps ==
  ASSUME TypeInv, FeedInv, Checking
  PROVE  \/ /\ count.resets = 0 => known' = known
            /\ client' = client \/ client' = Woken(client)
         \/ \E q \in AskType : Ended(q)
  <1> DEFINE Goal == \/ /\ count.resets = 0 => known' = known
                        /\ client' = client \/ client' = Woken(client)
                     \/ \E q \in AskType : Ended(q)
  <1> SUFFICES Goal
    OBVIOUS
  <1>1. count.resets = 0 =>
           /\ check # "asking" => ask.read = {}
           /\ check = "read" => known <= ask.target /\ ask.target <= Len(edits)
           /\ check = "asking" => Learned(edits, known, ask)
    BY DEF FeedInv
  <1>2. known \in Nat /\ ask.target \in Nat /\ ask \in AskType
    BY BoundsNat DEF TypeInv, CheckOK, AskType
  <1>3. ASSUME NEW q \in AskType, NextAnswer(q) \/ AskOrAnnounce(q),
               count.resets = 0 => Learned(edits, known, q)
        PROVE  Goal
    BY <1>3, AskEnds
  <1>4. CASE CheckBegins \/ ReadLatest \/ ReadLatestFails
    BY <1>4 DEF CheckBegins, ReadLatest, ReadLatestFails, Settle
  <1>5. CASE CheckLatest
    <2>1. CASE ask.target <= known
      BY <1>1, <1>2, <1>5, <2>1 DEF CheckLatest, Settle
    <2>2. CASE ~(ask.target <= known)
      <3> DEFINE q == [ask EXCEPT !.answered = {Everywhere}, !.concerned = {Everywhere}]
      <3>1. AskOrAnnounce(q) /\ check = "read"
        BY <1>5, <2>2 DEF CheckLatest
      <3>2. q \in AskType /\ q.target = ask.target /\ q.answered = {Everywhere}
            /\ q.concerned = {Everywhere} /\ q.read = ask.read
        BY <1>2 DEF AskType, AllAreas
      <3> HIDE DEF q
      <3>3. count.resets = 0 => Learned(edits, known, q)
        BY <1>1, <1>2, <2>2, <3>1, <3>2 DEF Learned
      <3> QED
        BY <1>3, <3>1, <3>2, <3>3
    <2> QED
      BY <2>1, <2>2
  <1>6. ASSUME NEW area \in AllAreas, AreaAnswered(area)
        PROVE  Goal
    <2>1. PICK yes \in BOOLEAN :
             /\ yes = (Concerning(known + 1, ask.target, area) # {}) \/ yes = TRUE
             /\ NextAnswer([ask EXCEPT !.areas = @ \ {area}, !.answered = @ \cup {area},
                                       !.concerned = IF yes THEN @ \cup {area} ELSE @])
      BY <1>6 DEF AreaAnswered
    <2> DEFINE concerned == IF yes THEN ask.concerned \cup {area} ELSE ask.concerned
               q == [ask EXCEPT !.areas = @ \ {area}, !.answered = @ \cup {area},
                                !.concerned = concerned]
    <2>2. NextAnswer(q) /\ check = "asking"
      BY <1>6, <2>1 DEF AreaAnswered
    <2>3. q \in AskType /\ q.target = ask.target /\ q.answered = ask.answered \cup {area}
          /\ q.concerned = concerned /\ q.read = ask.read /\ q.found = ask.found
      BY <1>2 DEF AskType
    <2>4. ask.concerned \subseteq concerned
          /\ (area \notin concerned => Concerning(known + 1, ask.target, area) = {})
      BY <2>1
    <2>5. Concerning(known + 1, ask.target, area) = ConcerningIn(edits, known + 1, ask.target, area)
      BY ConcerningIs
    <2> HIDE DEF q, concerned
    <2>6. count.resets = 0 => Learned(edits, known, q)
      BY <1>1, <2>2, <2>3, <2>4, <2>5 DEF Learned
    <2> QED
      BY <1>3, <2>2, <2>3, <2>6
  <1>7. ASSUME NEW key \in Keys, RecordsAnswered(key)
        PROVE  Goal
    <2> DEFINE some == Concerning(known + 1, ask.target, key[1])
               found == [ask EXCEPT !.keys = @ \ {key}, !.read = @ \cup {key}, !.found[key] = some]
               failed == [ask EXCEPT !.keys = @ \ {key}, !.failed = @ \cup {key}]
    <2>1. (NextAnswer(found) \/ NextAnswer(failed)) /\ check = "asking"
      BY <1>7 DEF RecordsAnswered
    <2>2. some \subseteq EditIds /\ some = ConcerningIn(edits, known + 1, ask.target, key[1])
      BY ConcerningOK, ConcerningIs
    <2> HIDE DEF some
    <2>3. found \in AskType /\ found.target = ask.target /\ found.answered = ask.answered
          /\ found.concerned = ask.concerned /\ found.read = ask.read \cup {key}
          /\ found.found = [ask.found EXCEPT ![key] = some]
      BY <1>2, <2>2 DEF AskType
    <2>4. failed \in AskType /\ failed.target = ask.target /\ failed.answered = ask.answered
          /\ failed.concerned = ask.concerned /\ failed.read = ask.read
          /\ failed.found = ask.found
      BY <1>2 DEF AskType
    <2>5. /\ found.found[key] = some
          /\ \A k \in ask.read : k # key => found.found[k] = ask.found[k]
      BY <1>2, <2>3 DEF AskType
    <2> HIDE DEF found, failed
    <2>6. count.resets = 0 => Learned(edits, known, found)
      BY <1>1, <2>1, <2>2, <2>3, <2>5 DEF Learned
    <2>7. count.resets = 0 => Learned(edits, known, failed)
      BY <1>1, <2>1, <2>4 DEF Learned
    <2> QED
      BY <1>3, <2>1, <2>3, <2>4, <2>6, <2>7
  <1> QED
    BY <1>4, <1>5, <1>6, <1>7 DEF Checking

\* What the end of a check makes of a client.
LEMMA EndedClient ==
  ASSUME TypeInv, NEW q \in AskType, Announce(q), NEW c \in Conns
  PROVE  /\ client'[c].state = IF Dropped(c, q) THEN "closing" ELSE client[c].state
         /\ client'[c].sub = client[c].sub /\ client'[c].start = client[c].start
         /\ client'[c].deadline = client[c].deadline /\ client'[c].greeted = client[c].greeted
         /\ client'[c].work \in Busy => client[c].work \in Busy
         /\ Dropped(c, q) \/ client[c].state # "open" => client'[c].heard = client[c].heard
         /\ ~Dropped(c, q) /\ client[c].state = "open" => client'[c].heard = Told(c, q).heard
  <1> DEFINE clients == [d \in Conns |->
                  IF Dropped(d, q) THEN [client[d] EXCEPT !.state = "closing"]
                  ELSE IF client[d].state = "open" THEN Told(d, q) ELSE client[d]]
  <1>1. ASSUME NEW d \in Conns
        PROVE  client[d] \in ClientType /\ Told(d, q) \in ClientType
               /\ [client[d] EXCEPT !.state = "closing"] \in ClientType
    <2>1. client[d] \in ClientType /\ ClientsOK
      BY DEF TypeInv, ClientsOK
    <2> QED
      BY <2>1, ToldOK DEF ClientType
  <1>2. clients \in [Conns -> ClientType]
    BY <1>1
  <1>3. /\ Told(c, q).state = client[c].state /\ Told(c, q).work = client[c].work
        /\ Told(c, q).sub = client[c].sub /\ Told(c, q).start = client[c].start
        /\ Told(c, q).deadline = client[c].deadline /\ Told(c, q).greeted = client[c].greeted
    <2>1. PICK told, heard : Told(c, q) = [client[c] EXCEPT !.told = told, !.heard = heard]
      BY DEF Told
    <2> QED
      BY <1>1, <2>1 DEF ClientType
  <1>4. /\ clients[c].state = IF Dropped(c, q) THEN "closing" ELSE client[c].state
        /\ clients[c].sub = client[c].sub /\ clients[c].start = client[c].start
        /\ clients[c].deadline = client[c].deadline /\ clients[c].greeted = client[c].greeted
        /\ clients[c].work = client[c].work
        /\ Dropped(c, q) \/ client[c].state # "open" => clients[c].heard = client[c].heard
        /\ ~Dropped(c, q) /\ client[c].state = "open" => clients[c].heard = Told(c, q).heard
    <2>1. CASE Dropped(c, q)
      BY <1>1, <2>1 DEF ClientType
    <2>2. CASE ~Dropped(c, q)
      BY <1>3, <2>2
    <2> QED
      BY <2>1, <2>2
  <1>5. client' = clients \/ client' = Woken(clients)
    BY DEF Announce, Settle
  <1> HIDE DEF clients
  <1>6. \/ client'[c] = clients[c]
        \/ clients[c].work = "waiting" /\ client'[c] = [clients[c] EXCEPT !.work = "woken"]
    BY <1>2, <1>5 DEF Woken
  <1>7. client[c].work = "waiting" => client[c].work \in Busy
    BY DEF Busy
  <1>8. clients[c] \in ClientType
    BY <1>2
  <1>9. /\ client'[c].state = clients[c].state /\ client'[c].heard = clients[c].heard
        /\ client'[c].sub = clients[c].sub /\ client'[c].start = clients[c].start
        /\ client'[c].deadline = clients[c].deadline /\ client'[c].greeted = clients[c].greeted
    BY <1>6, <1>8 DEF ClientType
  <1>10. client'[c].work \in Busy => clients[c].work \in Busy
    BY <1>6, <1>8 DEF ClientType, Busy
  <1> HIDE DEF Busy
  <1> QED
    BY <1>4, <1>9, <1>10

\* What a step makes of each client.
LEMMA ClientSteps ==
  ASSUME SafeInv, [Next]_vars, NEW c \in Conns
  PROVE  \/ Quiet(client'[c], client[c]) \/ Greets(client'[c], client[c])
         \/ \E kind \in Kinds, key \in Keys : Subscribes(client'[c], client[c], kind, key)
         \/ \E kind \in Kinds : GivesUp(client'[c], client[c], kind)
         \/ Connect(c) \/ ConnectionLost(c)
         \/ \E q \in AskType : Ended(q)
  <1>1. client \in [Conns -> ClientType] /\ TypeInv /\ Tidied /\ FeedInv
    BY DEF SafeInv, TypeInv, ClientsOK
  <1>2. Quiet(client[c], client[c])
    BY DEF Quiet, Steady
  <1>3. CASE client' = client \/ client' = Woken(client)
    BY <1>1, <1>2, <1>3, WokenQuiet
  <1>4. CASE Map \/ Listening \/ Heartbeat \/ Stop \/ Stopped \/ UNCHANGED vars
    BY <1>3, <1>4 DEF Map, Commit, MapReset, Listening, ListenerDies, ListenerNoticesLoss,
           ListenerConnects, ListenerGivesUp, ListenerHears, Heartbeat, Stop, Stopped, vars
  <1>5. CASE Checking
    BY <1>1, <1>3, <1>5, CheckingSteps
  <1>6. ASSUME NEW d \in Conns, Peer(d) \/ Timers(d)
        PROVE  \/ Quiet(client'[c], client[c]) \/ Connect(c) \/ ConnectionLost(c)
    <2>1. CASE Connect(d) \/ ConnectionLost(d)
      BY <1>1, <1>2, <2>1 DEF Connect, ConnectionLost
    <2>2. CASE ~Connect(d) /\ ~ConnectionLost(d)
      <3>1. PICK new : client' = [client EXCEPT ![d] = new] /\ Quiet(new, client[d])
        BY <1>1, <1>6, <2>2, PeerQuiet
      <3> QED
        BY <1>1, <1>2, <3>1
    <2> QED
      BY <2>1, <2>2
  <1>7. ASSUME NEW d \in Conns, Worker(d)
        PROVE  \/ Quiet(client'[c], client[c]) \/ Greets(client'[c], client[c])
               \/ \E kind \in Kinds, key \in Keys : Subscribes(client'[c], client[c], kind, key)
               \/ \E kind \in Kinds : GivesUp(client'[c], client[c], kind)
    <2>1. PICK new :
            /\ client' = [client EXCEPT ![d] = new]
            /\ \/ Quiet(new, client[d])
               \/ Greets(new, client[d])
               \/ \E kind \in Kinds, key \in Keys : Subscribes(new, client[d], kind, key)
               \/ \E kind \in Kinds : GivesUp(new, client[d], kind)
      BY <1>1, <1>7, WorkerSteps
    <2> QED
      BY <1>1, <1>2, <2>1
  <1> QED
    BY <1>4, <1>5, <1>6, <1>7 DEF Next

LEMMA EndedSteady ==
  ASSUME TypeInv, NEW q \in AskType, Ended(q), NEW c \in Conns
  PROVE  Steady(client'[c], client[c])
  BY EndedClient DEF Ended, Steady, Dropped

\* What a step that does not subscribe a client makes of what it follows.
SubKept(new, cl) == \A kind \in Kinds : new.sub[kind] \in {cl.sub[kind], None}

LEMMA SameSubKept ==
  ASSUME NEW cl \in ClientType, NEW new,
         Steady(new, cl) \/ Greets(new, cl) \/ \E kind \in Kinds : GivesUp(new, cl, kind)
  PROVE  SubKept(new, cl)
  BY DEF ClientType, Steady, Greets, GivesUp, SubKept

\* A step subscribes at most one client.
LEMMA NextSubKept ==
  ASSUME SafeInv, [Next]_vars
  PROVE  \/ \A c \in Conns : SubKept(client'[c], client[c])
         \/ \E c \in Conns, kind \in Kinds, key \in Keys : \E new :
               client' = [client EXCEPT ![c] = new] /\ Subscribes(new, client[c], kind, key)
  <1>1. client \in [Conns -> ClientType] /\ TypeInv /\ Tidied /\ FeedInv
    BY DEF SafeInv, TypeInv, ClientsOK
  <1>2. \A c \in Conns : SubKept(client[c], client[c])
    BY DEF SubKept
  <1>3. CASE client' = client \/ client' = Woken(client)
    BY <1>1, <1>3, WokenQuiet, SameSubKept DEF Quiet, SubKept
  <1>4. CASE Map \/ Listening \/ Heartbeat \/ Stop \/ Stopped \/ UNCHANGED vars
    BY <1>3, <1>4 DEF Map, Commit, MapReset, Listening, ListenerDies, ListenerNoticesLoss,
           ListenerConnects, ListenerGivesUp, ListenerHears, Heartbeat, Stop, Stopped, vars
  <1>5. CASE Checking
    BY <1>1, <1>3, <1>5, CheckingSteps, EndedSteady, SameSubKept
  <1>6. ASSUME NEW c \in Conns, NEW new, client' = [client EXCEPT ![c] = new],
               SubKept(new, client[c])
        PROVE  \A d \in Conns : SubKept(client'[d], client[d])
    BY <1>1, <1>2, <1>6
  <1>7. ASSUME NEW c \in Conns, Peer(c) \/ Timers(c)
        PROVE  \A d \in Conns : SubKept(client'[d], client[d])
    <2>1. CASE Connect(c)
      <3> DEFINE new == [client[c] EXCEPT !.state = "open", !.deadline = "hello"]
      <3>1. client' = [client EXCEPT ![c] = new] /\ new.sub = client[c].sub
        BY <1>1, <2>1 DEF Connect, ClientType
      <3> HIDE DEF new
      <3> QED
        BY <1>6, <3>1 DEF SubKept
    <2>2. CASE ConnectionLost(c)
      <3>1. SubKept(NoClient, client[c])
        BY DEF SubKept, NoClient
      <3> QED
        BY <1>6, <2>2, <3>1 DEF ConnectionLost
    <2>3. CASE ~Connect(c) /\ ~ConnectionLost(c)
      <3>1. PICK new : client' = [client EXCEPT ![c] = new] /\ Quiet(new, client[c])
        BY <1>1, <1>7, <2>3, PeerQuiet
      <3> QED
        BY <1>1, <1>6, <3>1, SameSubKept DEF Quiet
    <2> QED
      BY <2>1, <2>2, <2>3
  <1>8. ASSUME NEW c \in Conns, Worker(c)
        PROVE  \/ \A d \in Conns : SubKept(client'[d], client[d])
               \/ \E kind \in Kinds, key \in Keys : \E new :
                     client' = [client EXCEPT ![c] = new] /\ Subscribes(new, client[c], kind, key)
    <2>1. PICK new :
            /\ client' = [client EXCEPT ![c] = new]
            /\ \/ Quiet(new, client[c])
               \/ Greets(new, client[c])
               \/ \E kind \in Kinds, key \in Keys : Subscribes(new, client[c], kind, key)
               \/ \E kind \in Kinds : GivesUp(new, client[c], kind)
      BY <1>1, <1>8, WorkerSteps
    <2>2. CASE Quiet(new, client[c]) \/ Greets(new, client[c])
               \/ \E kind \in Kinds : GivesUp(new, client[c], kind)
      BY <1>1, <1>6, <2>1, <2>2, SameSubKept DEF Quiet
    <2> QED
      BY <2>1, <2>2
  <1> QED
    BY <1>4, <1>5, <1>7, <1>8 DEF Next

-----------------------------------------------------------------------------
(* Where subscriptions start.                                              *)

\* As long as reading the latest IDs does not fail, a subscription is answered
\* with an ID no older than the map's latest when it was asked for.
THEOREM SubscriptionsStartFresh ==
  ASSUME "latest" \notin Failing
  PROVE  Spec => StartsFresh
  <1> DEFINE Inv == SafeInv /\ SomeCheck /\ FreshInv
  <1>1. Init => Inv
    <2>1. Init => SomeCheck
      BY DEF Init, SomeCheck, NoClient
    <2>2. Init => FreshInv
      BY DEF Init, FreshInv, NoClient
    <2> QED
      BY <2>1, <2>2, InitSafeInv
  <1>2. Inv /\ [Next]_vars => Inv'
    BY NextSafeInv, NextWaitInv
  <1>3. Inv /\ [Next]_vars =>
          \A c \in Conns, kind \in Kinds :
             /\ ~Subscribed(c, kind) /\ Subscribed(c, kind)'
             /\ count.resets = 0 /\ phase \in {"starting", "serving"}
             => client'[c].start[kind] >= client[c].asked
    <2> SUFFICES ASSUME Inv, [Next]_vars, NEW c \in Conns, NEW kind \in Kinds,
                        ~Subscribed(c, kind), Subscribed(c, kind)',
                        count.resets = 0, phase \in {"starting", "serving"}
                 PROVE  client'[c].start[kind] >= client[c].asked
      OBVIOUS
    <2>1. client[c].sub[kind] = None /\ client'[c].sub[kind] # None
      BY DEF Subscribed
    <2>2. \E k \in Kinds, key \in Keys : Subscribes(client'[c], client[c], k, key)
      <3>1. ~SubKept(client'[c], client[c])
        BY <2>1 DEF SubKept
      <3>2. PICK d \in Conns, k \in Kinds, key \in Keys :
              \E new : client' = [client EXCEPT ![d] = new] /\ Subscribes(new, client[d], k, key)
        BY <3>1, NextSubKept
      <3>5. PICK new : client' = [client EXCEPT ![d] = new] /\ Subscribes(new, client[d], k, key)
        BY <3>2
      <3>3. client \in [Conns -> ClientType]
        BY DEF SafeInv, TypeInv, ClientsOK
      <3>4. d = c /\ client'[c] = new
        BY <2>1, <3>5, <3>3
      <3> QED
        BY <3>5, <3>4
    <2>3. client'[c].start[kind] = known /\ client[c].work = "woken"
      <3>1. client[c].sub \in [Kinds -> Keys \cup {None}] /\ client[c].start \in [Kinds -> 0..MaxEdits]
        BY DEF SafeInv, TypeInv, ClientsOK, ClientType
      <3> QED
        BY <2>1, <2>2, <3>1 DEF Subscribes
    <2>4. client[c].asked <= known
      BY <2>3 DEF FreshInv
    <2>5. client[c].asked \in Nat /\ known \in Nat
      BY BoundsNat DEF SafeInv, TypeInv, CheckOK, ClientsOK, ClientType
    <2> QED
      BY <2>3, <2>4, <2>5
  <1> QED
    BY <1>1, <1>2, <1>3, PTL DEF Spec, StartsFresh

-----------------------------------------------------------------------------
(* The areas followed.                                                     *)

\* What the limit rests on: the areas followed can be counted.
AreasInv == IsFiniteSet(AreasFollowed) /\ AreasWithinLimit

LEMMA FollowedIs ==
  ASSUME NEW area
  PROVE  area \in AreasFollowed <=>
           /\ area # Everywhere
           /\ \E c \in Conns, kind \in Kinds :
                 client[c].sub[kind] # None /\ area = client[c].sub[kind][1]
  BY DEF AreasFollowed, EditsAreas, Subscriptions, Subscribed, Kinds

LEMMA FollowedIsNext ==
  ASSUME NEW area
  PROVE  area \in AreasFollowed' <=>
           /\ area # Everywhere
           /\ \E c \in Conns, kind \in Kinds :
                 client'[c].sub[kind] # None /\ area = client'[c].sub[kind][1]
  BY DEF AreasFollowed, EditsAreas, Subscriptions, Subscribed, Kinds

\* A step follows at most one area more, which the limit lets in.
LEMMA FollowedAdded ==
  ASSUME SafeInv, [Next]_vars
  PROVE  \/ AreasFollowed' \subseteq AreasFollowed
         \/ \E area : AreaAllowed(area) /\ AreasFollowed' \subseteq AreasFollowed \cup ({area} \ {Everywhere})
  <1>1. client \in [Conns -> ClientType]
    BY DEF SafeInv, TypeInv, ClientsOK
  <1>2. CASE \A c \in Conns : SubKept(client'[c], client[c])
    <2>1. SUFFICES ASSUME NEW area \in AreasFollowed' PROVE area \in AreasFollowed
      OBVIOUS
    <2>2. PICK c \in Conns, kind \in Kinds :
             client'[c].sub[kind] # None /\ area = client'[c].sub[kind][1]
      BY FollowedIsNext
    <2>3. client[c].sub[kind] = client'[c].sub[kind] /\ area # Everywhere
      BY <1>2, <2>2, FollowedIsNext DEF SubKept
    <2> QED
      BY <2>2, <2>3, FollowedIs
  <1>3. ASSUME NEW c \in Conns, NEW kind \in Kinds, NEW key \in Keys, NEW new,
               client' = [client EXCEPT ![c] = new], Subscribes(new, client[c], kind, key)
        PROVE  /\ AreaAllowed(key[1])
               /\ AreasFollowed' \subseteq AreasFollowed \cup ({key[1]} \ {Everywhere})
    <2>1. AreaAllowed(key[1])
      BY <1>3 DEF Subscribes
    <2>2. ASSUME NEW area \in AreasFollowed', area \notin AreasFollowed
          PROVE  area = key[1] /\ area # Everywhere
      <3>1. PICK d \in Conns, k \in Kinds :
               client'[d].sub[k] # None /\ area = client'[d].sub[k][1]
        BY FollowedIsNext
      <3>2. area # Everywhere
        BY FollowedIsNext
      <3>3. client'[d].sub[k] # client[d].sub[k]
        BY <2>2, <3>1, <3>2, FollowedIs
      <3>4. d = c /\ client'[d] = new
        BY <1>1, <1>3, <3>3
      <3>5. client[c].sub \in [Kinds -> Keys \cup {None}]
        BY <1>1 DEF ClientType
      <3>6. client'[d].sub[k] = key
        BY <1>3, <3>3, <3>4, <3>5 DEF Subscribes
      <3> QED
        BY <3>1, <3>2, <3>6
    <2> QED
      BY <2>1, <2>2
  <1> QED
    BY <1>2, <1>3, NextSubKept

LEMMA NextAreasInv ==
  ASSUME SafeInv, AreasInv, [Next]_vars
  PROVE  AreasInv'
  <1>1. IsFiniteSet(AreasFollowed) /\ Cardinality(AreasFollowed) \in Nat /\ MaxAreas \in Nat
    BY FS_CardinalityType, ConnectionsAssumption DEF AreasInv
  <1>2. CASE AreasFollowed' \subseteq AreasFollowed
    <2>1. AreasFollowed' \in SUBSET AreasFollowed
      BY <1>2
    <2>2. IsFiniteSet(AreasFollowed') /\ Cardinality(AreasFollowed') <= Cardinality(AreasFollowed)
      BY <1>1, <2>1, FS_Subset
    <2>3. Cardinality(AreasFollowed') \in Nat
      BY <2>2, FS_CardinalityType
    <2> QED
      BY <1>1, <2>2, <2>3 DEF AreasInv, AreasWithinLimit
  <1>3. ASSUME NEW area, AreaAllowed(area),
               AreasFollowed' \subseteq AreasFollowed \cup ({area} \ {Everywhere})
        PROVE  AreasInv'
    <2>1. CASE area = Everywhere \/ area \in AreasFollowed
      BY <1>2, <1>3, <2>1
    <2>2. CASE MaxAreas = 0 \/ Cardinality(AreasFollowed) < MaxAreas
      <3>1. /\ IsFiniteSet(AreasFollowed \cup {area})
            /\ Cardinality(AreasFollowed \cup {area}) <= Cardinality(AreasFollowed) + 1
            /\ Cardinality(AreasFollowed \cup {area}) \in Nat
        BY <1>1, FS_AddElement, FS_CardinalityType
      <3>2. AreasFollowed' \in SUBSET (AreasFollowed \cup {area})
        BY <1>3
      <3>3. /\ IsFiniteSet(AreasFollowed')
            /\ Cardinality(AreasFollowed') <= Cardinality(AreasFollowed \cup {area})
        BY <3>1, <3>2, FS_Subset
      <3>4. Cardinality(AreasFollowed') \in Nat
        BY <3>3, FS_CardinalityType
      <3> QED
        BY <1>1, <2>2, <3>1, <3>3, <3>4 DEF AreasInv, AreasWithinLimit
    <2> QED
      BY <1>3, <2>1, <2>2 DEF AreaAllowed
  <1> QED
    BY <1>2, <1>3, FollowedAdded

\* The areas followed never exceed the limit, though many clients may have been
\* let in while each waited for the map and then for the server to catch up.
THEOREM AreasLimited == Spec => []AreasWithinLimit
  <1>1. Init => SafeInv /\ AreasInv
    <2> SUFFICES ASSUME Init PROVE AreasInv
      BY InitSafeInv
    <2>1. AreasFollowed = {}
      <3>1. \A c \in Conns, kind \in Kinds : client[c].sub[kind] = None
        BY DEF Init, NoClient
      <3> QED
        BY <3>1, FollowedIs
    <2> QED
      BY <2>1, FS_EmptySet, ConnectionsAssumption DEF AreasInv, AreasWithinLimit
  <1>2. SafeInv /\ AreasInv /\ [Next]_vars => SafeInv' /\ AreasInv'
    BY NextSafeInv, NextAreasInv
  <1>3. AreasInv => AreasWithinLimit
    BY DEF AreasInv
  <1> QED
    BY <1>1, <1>2, <1>3, PTL DEF Spec

-----------------------------------------------------------------------------
(* Connections: how many there are, and how long an idle one is kept.      *)

ConnectionsOf(a) == {c \in Connections : AddressOf[c] = a}

\* Only connecting and losing a connection change how many there are.
LEMMA ConnectionsKept ==
  ASSUME SafeInv, [Next]_vars, \A c \in Conns : ~Connect(c) /\ ~ConnectionLost(c)
  PROVE  Connections' = Connections /\ perAddress' = perAddress
  <1>1. ASSUME NEW c \in Conns
        PROVE  client'[c].state # "none" <=> client[c].state # "none"
    <2>1. CASE \E q \in AskType : Ended(q)
      BY <2>1, EndedSteady DEF SafeInv, Steady
    <2>2. CASE ~\E q \in AskType : Ended(q)
      BY <2>2, ClientSteps DEF Quiet, Steady, Greets, Subscribes, GivesUp
    <2> QED
      BY <2>1, <2>2
  <1>2. perAddress' = perAddress
    <2>1. CASE Map \/ Listening \/ Heartbeat \/ Stop \/ Stopped \/ UNCHANGED vars
      BY <2>1 DEF Map, Commit, MapReset, Listening, ListenerDies, ListenerNoticesLoss,
             ListenerConnects, ListenerGivesUp, ListenerHears, Heartbeat, Stop, Stopped, vars
    <2>2. CASE Checking
      BY <2>2 DEF Checking, CheckBegins, ReadLatest, ReadLatestFails, CheckLatest, AreaAnswered,
             RecordsAnswered
    <2>3. ASSUME NEW c \in Conns, Peer(c) \/ Timers(c)
          PROVE  perAddress' = perAddress
      BY <2>3 DEF Peer, Timers, BadData, PauseWriting, ResumeWriting, DataReceived, DeadlineFires,
             TooSlow, OnlyClient
    <2>4. ASSUME NEW c \in Conns, Worker(c)
          PROVE  perAddress' = perAddress
      BY <2>4 DEF Worker, WorkerEnds, Hello, AnswerAtOnce, RefuseArea, AskToSubscribe, WktChecked,
             WktRefused, WktFails, Subscribe, SubscribeRefused, Unsubscribe, OnlyClient
    <2> QED
      BY <2>1, <2>2, <2>3, <2>4 DEF Next
  <1> QED
    BY <1>1, <1>2 DEF Connections

LEMMA ConnectionsCounted ==
  /\ IsFiniteSet(Connections) /\ Cardinality(Connections) \in Nat
  /\ \A a : IsFiniteSet(ConnectionsOf(a)) /\ Cardinality(ConnectionsOf(a)) \in Nat
  <1>1. Connections \in SUBSET Conns /\ \A a : ConnectionsOf(a) \in SUBSET Conns
    BY DEF Connections, ConnectionsOf
  <1> QED
    BY <1>1, ConnectionsAssumption, FS_Subset, FS_CardinalityType

LEMMA NextConnections ==
  ASSUME SafeInv, ConnectionsWithinLimits, [Next]_vars
  PROVE  ConnectionsWithinLimits'
  <1>1. client \in [Conns -> ClientType] /\ perAddress \in [Addresses -> Int]
    BY DEF SafeInv, TypeInv, ClientsOK, ServerOK
  <1>2. /\ Cardinality(Connections) <= MaxConnections
        /\ \A a \in Addresses : /\ perAddress[a] = Cardinality(ConnectionsOf(a))
                                /\ perAddress[a] <= MaxPerAddress
    BY DEF ConnectionsWithinLimits, ConnectionsOf
  <1>3. SUFFICES /\ Cardinality(Connections') <= MaxConnections
                 /\ \A a \in Addresses : /\ perAddress'[a] = Cardinality(ConnectionsOf(a)')
                                         /\ perAddress'[a] <= MaxPerAddress
    BY DEF ConnectionsWithinLimits, ConnectionsOf
  <1>4. MaxConnections \in Nat /\ MaxPerAddress \in Nat /\ AddressOf \in [Conns -> Addresses]
    BY ConnectionsAssumption
  <1>5. ASSUME NEW c \in Conns, Connect(c)
        PROVE  /\ Cardinality(Connections') <= MaxConnections
               /\ \A a \in Addresses : /\ perAddress'[a] = Cardinality(ConnectionsOf(a)')
                                       /\ perAddress'[a] <= MaxPerAddress
    <2>1. \A d \in Conns : client'[d].state = IF d = c THEN "open" ELSE client[d].state
      BY <1>1, <1>5 DEF Connect, ClientType
    <2>2. client[c].state = "none" /\ Admitted(c)
      BY <1>5 DEF Connect
    <2>3. Connections' = Connections \cup {c} /\ c \notin Connections
      BY <2>1, <2>2 DEF Connections
    <2>4. Cardinality(Connections') = Cardinality(Connections) + 1
      BY <2>3, ConnectionsCounted, FS_AddElement
    <2>5. Cardinality(Connections') <= MaxConnections
      BY <1>4, <2>2, <2>4, ConnectionsCounted DEF Admitted
    <2>6. ASSUME NEW a \in Addresses
          PROVE  perAddress'[a] = Cardinality(ConnectionsOf(a)') /\ perAddress'[a] <= MaxPerAddress
      <3>1. CASE a = AddressOf[c]
        <4>1. ConnectionsOf(a)' = ConnectionsOf(a) \cup {c} /\ c \notin ConnectionsOf(a)
          BY <2>3, <3>1 DEF ConnectionsOf
        <4>2. Cardinality(ConnectionsOf(a)') = Cardinality(ConnectionsOf(a)) + 1
          BY <4>1, ConnectionsCounted, FS_AddElement
        <4>3. perAddress'[a] = perAddress[a] + 1 /\ perAddress[a] < MaxPerAddress
          BY <1>1, <1>5, <2>2, <3>1 DEF Connect, Admitted
        <4> QED
          BY <1>1, <1>2, <1>4, <4>2, <4>3
      <3>2. CASE a # AddressOf[c]
        <4>1. ConnectionsOf(a)' = ConnectionsOf(a)
          BY <2>3, <3>2 DEF ConnectionsOf
        <4>2. perAddress'[a] = perAddress[a]
          BY <1>1, <1>5, <3>2 DEF Connect
        <4> QED
          BY <1>2, <4>1, <4>2
      <3> QED
        BY <3>1, <3>2
    <2> QED
      BY <2>5, <2>6
  <1>6. ASSUME NEW c \in Conns, ConnectionLost(c)
        PROVE  /\ Cardinality(Connections') <= MaxConnections
               /\ \A a \in Addresses : /\ perAddress'[a] = Cardinality(ConnectionsOf(a)')
                                       /\ perAddress'[a] <= MaxPerAddress
    <2>1. \A d \in Conns : client'[d].state = IF d = c THEN "none" ELSE client[d].state
      BY <1>1, <1>6 DEF ConnectionLost, NoClient
    <2>2. Connections' = Connections \ {c} /\ c \in Connections
      BY <1>6, <2>1 DEF Connections, ConnectionLost
    <2>3. Cardinality(Connections') = Cardinality(Connections) - 1
      BY <2>2, ConnectionsCounted, FS_RemoveElement
    <2>4. Cardinality(Connections') <= MaxConnections
      BY <1>2, <1>4, <2>3, ConnectionsCounted
    <2>5. ASSUME NEW a \in Addresses
          PROVE  perAddress'[a] = Cardinality(ConnectionsOf(a)') /\ perAddress'[a] <= MaxPerAddress
      <3>1. CASE a = AddressOf[c]
        <4>1. ConnectionsOf(a)' = ConnectionsOf(a) \ {c} /\ c \in ConnectionsOf(a)
          BY <2>2, <3>1 DEF ConnectionsOf
        <4>2. Cardinality(ConnectionsOf(a)') = Cardinality(ConnectionsOf(a)) - 1
          BY <4>1, ConnectionsCounted, FS_RemoveElement
        <4>3. perAddress'[a] = perAddress[a] - 1
          BY <1>1, <1>6, <3>1 DEF ConnectionLost
        <4> QED
          BY <1>1, <1>2, <1>4, <4>2, <4>3
      <3>2. CASE a # AddressOf[c]
        <4>1. ConnectionsOf(a)' = ConnectionsOf(a)
          BY <2>2, <3>2 DEF ConnectionsOf
        <4>2. perAddress'[a] = perAddress[a]
          BY <1>1, <1>6, <3>2 DEF ConnectionLost
        <4> QED
          BY <1>2, <4>1, <4>2
      <3> QED
        BY <3>1, <3>2
    <2> QED
      BY <2>4, <2>5
  <1>7. CASE \A c \in Conns : ~Connect(c) /\ ~ConnectionLost(c)
    <2>1. Connections' = Connections /\ perAddress' = perAddress
      BY <1>7, ConnectionsKept
    <2> QED
      BY <1>2, <2>1 DEF ConnectionsOf
  <1> QED
    BY <1>5, <1>6, <1>7

\* Connections stay within the limits in all and for each address, whose count
\* is of the connections it has, in whatever order they are made and lost.
THEOREM ConnectionsLimited == Spec => []ConnectionsWithinLimits
  <1>1. Init => SafeInv /\ ConnectionsWithinLimits
    <2> SUFFICES ASSUME Init PROVE ConnectionsWithinLimits
      BY InitSafeInv
    <2>1. Connections = {} /\ \A a \in Addresses : perAddress[a] = 0
      BY DEF Init, Connections, NoClient
    <2>2. \A a : {c \in Connections : AddressOf[c] = a} = {}
      BY <2>1
    <2> QED
      BY <2>1, <2>2, FS_EmptySet, ConnectionsAssumption DEF ConnectionsWithinLimits
  <1>2. SafeInv /\ ConnectionsWithinLimits /\ [Next]_vars => SafeInv' /\ ConnectionsWithinLimits'
    BY NextSafeInv, NextConnections
  <1> QED
    BY <1>1, <1>2, PTL DEF Spec

\* A connection that follows nothing has a deadline, one that follows something
\* has none, and only one that was greeted can come to follow anything.
DeadlineOK(cl) ==
    /\ (\E kind \in Kinds : cl.sub[kind] # None) => cl.greeted
    /\ cl.work \in Busy => cl.greeted
    /\ cl.state = "open" => ((\A kind \in Kinds : cl.sub[kind] = None) <=> cl.deadline # "none")
DeadlinesOK == \A c \in Conns : DeadlineOK(client[c])

LEMMA DeadlineStays ==
  ASSUME NEW cl \in ClientType, NEW new, DeadlineOK(cl),
         \/ Steady(new, cl) \/ Greets(new, cl)
         \/ \E kind \in Kinds, key \in Keys : Subscribes(new, cl, kind, key)
         \/ \E kind \in Kinds : GivesUp(new, cl, kind)
  PROVE  DeadlineOK(new)
  <1>1. cl.sub \in [Kinds -> Keys \cup {None}] /\ None \notin Keys
    BY AreasAssumption DEF ClientType
  <1>2. CASE Steady(new, cl)
    BY <1>2 DEF Steady, DeadlineOK
  <1>3. CASE Greets(new, cl)
    BY <1>3 DEF Greets, DeadlineOK
  <1>4. ASSUME NEW kind \in Kinds, NEW key \in Keys, Subscribes(new, cl, kind, key)
        PROVE  DeadlineOK(new)
    <2>1. new.sub[kind] = key /\ key # None /\ new.deadline = "none" /\ new.work \notin Busy
      BY <1>1, <1>4 DEF Subscribes
    <2>2. new.greeted
      BY <1>4 DEF Subscribes, DeadlineOK, Busy
    <2> HIDE DEF Busy
    <2> QED
      BY <2>1, <2>2 DEF DeadlineOK
  <1>5. ASSUME NEW kind \in Kinds, GivesUp(new, cl, kind)
        PROVE  DeadlineOK(new)
    <2>1. \A k \in Kinds : new.sub[k] = IF k = kind THEN None ELSE cl.sub[k]
      BY <1>1, <1>5 DEF GivesUp
    <2>2. new.work \notin Busy /\ new.greeted = cl.greeted /\ new.state = cl.state
      BY <1>5 DEF GivesUp
    <2>3. CASE \E other \in Kinds \ {kind} : cl.sub[other] # None
      BY <1>5, <2>1, <2>2, <2>3 DEF GivesUp, DeadlineOK
    <2>4. CASE ~\E other \in Kinds \ {kind} : cl.sub[other] # None
      <3>1. \A k \in Kinds : new.sub[k] = None
        BY <2>1, <2>4
      <3>2. new.deadline = "subscribe"
        BY <1>5, <2>4 DEF GivesUp
      <3> QED
        BY <2>2, <3>1, <3>2 DEF DeadlineOK
    <2> QED
      BY <2>3, <2>4
  <1> QED
    BY <1>2, <1>3, <1>4, <1>5

LEMMA NextDeadlines ==
  ASSUME SafeInv, DeadlinesOK, [Next]_vars
  PROVE  DeadlinesOK'
  <1> SUFFICES ASSUME NEW c \in Conns PROVE DeadlineOK(client'[c])
    BY DEF DeadlinesOK
  <1>1. client \in [Conns -> ClientType] /\ client[c] \in ClientType /\ DeadlineOK(client[c])
        /\ TypeInv /\ TidyClient(client[c])
    BY DEF SafeInv, TypeInv, ClientsOK, DeadlinesOK, Tidied
  <1>2. CASE \E q \in AskType : Ended(q)
    BY <1>1, <1>2, EndedSteady, DeadlineStays
  <1>3. CASE ConnectionLost(c)
    BY <1>1, <1>3 DEF ConnectionLost, NoClient, DeadlineOK, Busy
  <1>4. CASE Connect(c)
    <2>1. client[c] = NoClient
      BY <1>1, <1>4 DEF Connect, TidyClient
    <2>2. /\ client'[c].deadline = "hello" /\ client'[c].work = client[c].work
          /\ client'[c].sub = client[c].sub
      BY <1>1, <1>4 DEF Connect, ClientType
    <2> QED
      BY <2>1, <2>2 DEF NoClient, DeadlineOK, Busy
  <1>5. CASE \/ Quiet(client'[c], client[c]) \/ Greets(client'[c], client[c])
             \/ \E kind \in Kinds, key \in Keys : Subscribes(client'[c], client[c], kind, key)
             \/ \E kind \in Kinds : GivesUp(client'[c], client[c], kind)
    BY <1>1, <1>5, DeadlineStays DEF Quiet
  <1> QED
    BY <1>2, <1>3, <1>4, <1>5, ClientSteps

\* An open connection either follows something or has a time to subscribe in,
\* and no subscriber has.
THEOREM IdleTimed == Spec => []IdleHasDeadline
  <1>1. Init => SafeInv /\ DeadlinesOK
    <2>1. Init => DeadlinesOK
      BY DEF Init, DeadlinesOK, DeadlineOK, NoClient, Busy
    <2> QED
      BY <2>1, InitSafeInv
  <1>2. SafeInv /\ DeadlinesOK /\ [Next]_vars => SafeInv' /\ DeadlinesOK'
    BY NextSafeInv, NextDeadlines
  <1>3. DeadlinesOK => IdleHasDeadline
    BY DEF DeadlinesOK, DeadlineOK, IdleHasDeadline, Subscribed
  <1> QED
    BY <1>1, <1>2, <1>3, PTL DEF Spec

-----------------------------------------------------------------------------
(* The order of records.                                                   *)

\* At the end of a check a subscriber is sent the records found for its area and
\* format, and a client that follows no records is sent none.
LEMMA AnnouncedHeard ==
  ASSUME TypeInv, NEW q \in AskType, Announce(q), NEW c \in Conns,
         client[c].state = "open", ~Dropped(c, q), NEW e \in EditIds
  PROVE  /\ client[c].sub["records"] = None => client'[c].heard[e] = client[c].heard[e]
         /\ client[c].sub["records"] # None =>
              client'[c].heard[e] = client[c].heard[e]
                + IF e \in q.found[client[c].sub["records"]] THEN 1 ELSE 0
  <1> DEFINE key == client[c].sub["records"]
             records == IF key # None THEN q.found[key] ELSE {}
  <1>1. client[c] \in ClientType /\ client[c].heard[e] \in Nat
    BY DEF TypeInv, ClientsOK, ClientType
  <1>2. client'[c].heard = Told(c, q).heard
    BY EndedClient
  <1>3. Told(c, q).heard = [d \in EditIds |-> client[c].heard[d] + IF d \in records THEN 1 ELSE 0]
    BY <1>1 DEF Told, ClientType, Subscribed
  <1>4. client'[c].heard[e] = client[c].heard[e] + IF e \in records THEN 1 ELSE 0
    BY <1>2, <1>3
  <1> QED
    BY <1>1, <1>4

\* ...which, as long as the map has not been reset, are all that concern it of
\* the edits the check was about.
LEMMA EndedHeard ==
  ASSUME SafeInv, count.resets = 0, NEW q \in AskType, Ended(q), NEW c \in Conns,
         client[c].state = "open", ~Dropped(c, q), NEW e \in EditIds
  PROVE  /\ client[c].sub["records"] = None => client'[c].heard[e] = client[c].heard[e]
         /\ client[c].sub["records"] # None =>
              client'[c].heard[e] = client[c].heard[e]
                + IF e \in ConcerningIn(edits, known + 1, q.target, client[c].sub["records"][1])
                  THEN 1 ELSE 0
  <1> DEFINE key == client[c].sub["records"]
  <1>1. TypeInv /\ Announce(q)
    BY DEF SafeInv, Ended
  <1>2. ASSUME key # None
        PROVE  q.found[key] = ConcerningIn(edits, known + 1, q.target, key[1])
    <2>1. key \in Subscriptions("records")
      BY <1>2 DEF Subscriptions, Subscribed
    <2>2. key \in q.read
      BY <1>2, <2>1 DEF Ended, Dropped, Subscribed
    <2> QED
      BY <2>2 DEF Ended, Learned
  <1> QED
    BY <1>1, <1>2, AnnouncedHeard

\* A record sent is of an edit later than those of all the records sent to the
\* subscriber before.
THEOREM RecordsOrdered == Spec => RecordsInOrder
  <1>1. Init => SafeInv
    BY InitSafeInv
  <1>2. SafeInv /\ [Next]_vars => SafeInv'
    BY NextSafeInv
  <1>3. SafeInv /\ [Next]_vars =>
          \A c \in Conns : \A e, d \in EditIds :
             /\ client'[c].heard[e] > client[c].heard[e]
             /\ client[c].heard[d] > 0
             /\ count.resets = 0
             => e > d
    <2> SUFFICES ASSUME SafeInv, [Next]_vars, NEW c \in Conns, NEW e \in EditIds, NEW d \in EditIds,
                        client'[c].heard[e] > client[c].heard[e], client[c].heard[d] > 0,
                        count.resets = 0
                 PROVE  e > d
      OBVIOUS
    <2>1. /\ client \in [Conns -> ClientType] /\ client[c] \in ClientType
          /\ client[c].heard[e] \in Nat /\ client[c].heard[d] \in Nat
      BY DEF SafeInv, TypeInv, ClientsOK, ClientType
    <2>2. /\ known \in Nat /\ e \in Nat /\ d \in Nat
      BY BoundsNat DEF SafeInv, TypeInv, CheckOK, EditIds
    <2>3. client'[c].heard # client[c].heard /\ client'[c].heard # NoneHeard
      BY <2>1 DEF NoneHeard
    <2>4. ~Connect(c) /\ ~ConnectionLost(c)
      BY <2>1, <2>3 DEF Connect, ConnectionLost, NoClient, ClientType
    <2>5. PICK q \in AskType : Ended(q)
      BY <2>3, <2>4, ClientSteps DEF Quiet, Greets, Subscribes, GivesUp
    <2>6. client[c].state = "open" /\ ~Dropped(c, q)
      BY <2>3, <2>5, EndedClient DEF SafeInv, Ended
    <2>7. /\ client[c].sub["records"] # None
          /\ e \in ConcerningIn(edits, known + 1, q.target, client[c].sub["records"][1])
      BY <2>1, <2>5, <2>6, EndedHeard
    <2>8. HeardDue(edits, client[c], known)
      BY DEF SafeInv, FeedInv
    <2>9. d \in ConcerningIn(edits, client[c].start["records"] + 1, known,
                             client[c].sub["records"][1])
      BY <2>6, <2>7, <2>8 DEF HeardDue
    <2>10. known + 1 <= e /\ d <= known
      BY <2>7, <2>9 DEF ConcerningIn
    <2> QED
      BY <2>2, <2>10
  <1> QED
    BY <1>1, <1>2, <1>3, PTL DEF Spec, RecordsInOrder

-----------------------------------------------------------------------------
(* What a check has found, for a map that may be reset.                    *)

\* The records found are of the edits asked about, and, unless the map was
\* reset after its latest IDs were read, are all that it has of them.
Ranging(n, q) == \A key \in q.read : q.found[key] \subseteq (n + 1)..q.target
Sound(q) ==
    /\ known < q.target /\ Ranging(known, q)
    /\ q.spoiled = FALSE => Learned(edits, known, q)
AskInv ==
    /\ check # "asking" => ask.read = {}
    /\ check \notin {"read", "asking"} => ask.spoiled = FALSE
    /\ check = "read" /\ ask.spoiled = FALSE => ask.target <= Len(edits)
    /\ check = "asking" => Sound(ask)

\* A client that follows no records has been sent none.
UnheardInv == \A c \in Conns : client[c].sub["records"] = None => client[c].heard = NoneHeard

\* A check that tells the clients what it has found, and one that gives up.
Finished(q) ==
    /\ Announce(q) /\ Sound(q) /\ q.spoiled = ask.spoiled
    /\ Subscriptions("records") \subseteq q.read \cup q.failed
Ceases ==
    /\ known' <= known /\ (ask.spoiled = FALSE /\ known' # known => known' <= Len(edits))
    /\ ask'.spoiled = FALSE
    /\ client' = client \/ client' = Woken(client)
Goes ==
    /\ UNCHANGED known /\ ask'.spoiled = ask.spoiled
    /\ client' = client \/ client' = Woken(client)
Checked == AskInv' /\ (Goes \/ Ceases \/ \E q \in AskType : Finished(q))

LEMMA SettledAsk ==
  ASSUME NEW clients, Settle(clients)
  PROVE  /\ AskInv' /\ ask'.spoiled = FALSE
         /\ client' = clients \/ client' = Woken(clients)
  <1>1. check' \in {"latest", "none"} /\ ask' = NothingAsked
    BY DEF Settle
  <1>2. ask'.read = {} /\ ask'.spoiled = FALSE
    BY <1>1 DEF NothingAsked
  <1> QED
    BY <1>1, <1>2 DEF AskInv, Settle

LEMMA AnswerChecked ==
  ASSUME NEW q \in AskType, AskOrAnnounce(q) \/ (NextAnswer(q) /\ check = "asking"),
         Sound(q), q.spoiled = ask.spoiled, edits' = edits
  PROVE  Checked
  <1>1. CASE Announce(q) /\ Subscriptions("records") \subseteq q.read \cup q.failed
    <2>1. PICK clients : Settle(clients)
      BY <1>1 DEF Announce
    <2>2. AskInv'
      BY <2>1, SettledAsk
    <2> QED
      BY <1>1, <2>2 DEF Checked, Finished
  <1>2. CASE ask' = q /\ check = "asking" /\ UNCHANGED <<check, again, known, client>>
    <2>1. Sound(ask)'
      BY <1>2 DEF Sound
    <2> QED
      BY <1>2, <2>1 DEF AskInv, Checked, Goes
  <1>3. ASSUME NEW areas, NEW keys, ask' = [q EXCEPT !.areas = areas, !.keys = keys],
               check' = "asking", UNCHANGED <<again, known, client>>
        PROVE  Checked
    <2>1. /\ ask'.target = q.target /\ ask'.answered = q.answered /\ ask'.spoiled = q.spoiled
          /\ ask'.concerned = q.concerned /\ ask'.read = q.read /\ ask'.found = q.found
      BY <1>3 DEF AskType
    <2>2. Sound(ask)'
      BY <1>3, <2>1 DEF Sound, Ranging, Learned
    <2> QED
      BY <1>3, <2>1, <2>2 DEF AskInv, Checked, Goes
  <1> QED
    BY <1>1, <1>2, <1>3 DEF NextAnswer, AskOrAnnounce

LEMMA CheckingChecked ==
  ASSUME TypeInv, AskInv, Checking
  PROVE  Checked
  <1>1. /\ known \in Nat /\ ask.target \in Nat /\ ask \in AskType /\ Len(edits) \in Nat
        /\ ask.spoiled \in BOOLEAN
    BY BoundsNat DEF TypeInv, EditsOK, CheckOK, AskType
  <1>2. edits' = edits
    BY DEF Checking, CheckBegins, ReadLatest, ReadLatestFails, CheckLatest, AreaAnswered,
           RecordsAnswered
  <1>3. CASE CheckBegins
    BY <1>3 DEF CheckBegins, AskInv, Checked, Goes
  <1>4. CASE ReadLatest
    <2>1. ask'.target = Len(edits) /\ ask'.read = ask.read /\ ask'.spoiled = ask.spoiled
      BY <1>1, <1>4 DEF ReadLatest, AskType
    <2> QED
      BY <1>1, <1>4, <2>1 DEF ReadLatest, AskInv, Checked, Goes
  <1>5. CASE ReadLatestFails
    <2>1. Settle(client) /\ known' = known
      BY <1>5 DEF ReadLatestFails
    <2>2. AskInv' /\ ask'.spoiled = FALSE /\ (client' = client \/ client' = Woken(client))
      BY <2>1, SettledAsk
    <2>3. Ceases
      BY <1>1, <2>1, <2>2 DEF Ceases
    <2> QED
      BY <2>2, <2>3 DEF Checked
  <1>6. CASE CheckLatest
    <2>1. CASE ask.target <= known
      <3>1. Settle(client) /\ known' = ask.target /\ check = "read"
        BY <1>6, <2>1 DEF CheckLatest
      <3> QED
        BY <1>1, <2>1, <3>1, SettledAsk DEF AskInv, Checked, Ceases
    <2>2. CASE ~(ask.target <= known)
      <3> DEFINE q == [ask EXCEPT !.answered = {Everywhere}, !.concerned = {Everywhere}]
      <3>1. AskOrAnnounce(q) /\ check = "read"
        BY <1>6, <2>2 DEF CheckLatest
      <3>2. q \in AskType /\ q.target = ask.target /\ q.answered = {Everywhere}
            /\ q.concerned = {Everywhere} /\ q.read = ask.read /\ q.spoiled = ask.spoiled
        BY <1>1 DEF AskType, AllAreas
      <3> HIDE DEF q
      <3>3. Sound(q)
        BY <1>1, <2>2, <3>1, <3>2 DEF AskInv, Sound, Ranging, Learned
      <3> QED
        BY <1>2, <3>1, <3>2, <3>3, AnswerChecked
    <2> QED
      BY <2>1, <2>2
  <1>7. ASSUME NEW area \in AllAreas, AreaAnswered(area)
        PROVE  Checked
    <2>1. PICK yes \in BOOLEAN :
             /\ yes = (Concerning(known + 1, ask.target, area) # {}) \/ yes = TRUE
             /\ NextAnswer([ask EXCEPT !.areas = @ \ {area}, !.answered = @ \cup {area},
                                       !.concerned = IF yes THEN @ \cup {area} ELSE @])
      BY <1>7 DEF AreaAnswered
    <2> DEFINE concerned == IF yes THEN ask.concerned \cup {area} ELSE ask.concerned
               q == [ask EXCEPT !.areas = @ \ {area}, !.answered = @ \cup {area},
                                !.concerned = concerned]
    <2>2. NextAnswer(q) /\ check = "asking"
      BY <1>7, <2>1 DEF AreaAnswered
    <2>3. q \in AskType /\ q.target = ask.target /\ q.answered = ask.answered \cup {area}
          /\ q.concerned = concerned /\ q.read = ask.read /\ q.found = ask.found
          /\ q.spoiled = ask.spoiled
      BY <1>1 DEF AskType
    <2>4. ask.concerned \subseteq concerned
          /\ (area \notin concerned => Concerning(known + 1, ask.target, area) = {})
      BY <2>1
    <2>5. Concerning(known + 1, ask.target, area) = ConcerningIn(edits, known + 1, ask.target, area)
      BY ConcerningIs
    <2> HIDE DEF q, concerned
    <2>6. Sound(q)
      BY <2>2, <2>3, <2>4, <2>5 DEF AskInv, Sound, Ranging, Learned
    <2> QED
      BY <1>2, <2>2, <2>3, <2>6, AnswerChecked
  <1>8. ASSUME NEW key \in Keys, RecordsAnswered(key)
        PROVE  Checked
    <2> DEFINE some == Concerning(known + 1, ask.target, key[1])
               found == [ask EXCEPT !.keys = @ \ {key}, !.read = @ \cup {key}, !.found[key] = some]
               failed == [ask EXCEPT !.keys = @ \ {key}, !.failed = @ \cup {key}]
    <2>1. (NextAnswer(found) \/ NextAnswer(failed)) /\ check = "asking"
      BY <1>8 DEF RecordsAnswered
    <2>2. /\ some \subseteq EditIds /\ some = ConcerningIn(edits, known + 1, ask.target, key[1])
          /\ some \subseteq (known + 1)..ask.target
      BY <1>1, ConcerningOK, ConcerningIs, BoundsNat DEF Concerning, EditIds
    <2> HIDE DEF some
    <2>3. found \in AskType /\ found.target = ask.target /\ found.answered = ask.answered
          /\ found.concerned = ask.concerned /\ found.read = ask.read \cup {key}
          /\ found.found = [ask.found EXCEPT ![key] = some] /\ found.spoiled = ask.spoiled
      BY <1>1, <2>2 DEF AskType
    <2>4. failed \in AskType /\ failed.target = ask.target /\ failed.answered = ask.answered
          /\ failed.concerned = ask.concerned /\ failed.read = ask.read
          /\ failed.found = ask.found /\ failed.spoiled = ask.spoiled
      BY <1>1 DEF AskType
    <2>5. /\ found.found[key] = some
          /\ \A k \in ask.read : k # key => found.found[k] = ask.found[k]
      BY <1>1, <2>3 DEF AskType
    <2> HIDE DEF found, failed
    <2>6. Sound(found)
      BY <2>1, <2>2, <2>3, <2>5 DEF AskInv, Sound, Ranging, Learned
    <2>7. Sound(failed)
      BY <2>1, <2>4 DEF AskInv, Sound, Ranging, Learned
    <2> QED
      BY <1>2, <2>1, <2>3, <2>4, <2>6, <2>7, AnswerChecked
  <1> QED
    BY <1>3, <1>4, <1>5, <1>6, <1>7, <1>8 DEF Checking

LEMMA OutsideAskInv ==
  ASSUME TypeInv, AskInv, Map \/ Listening \/ Heartbeat
  PROVE  AskInv'
  <1>0. known \in Nat /\ ask \in AskType /\ ask.target \in Nat
    BY BoundsNat DEF TypeInv, CheckOK, AskType
  <1>1. ASSUME NEW areas \in EditKinds, Commit(areas)
        PROVE  AskInv'
    <2>1. /\ edits \in Seq(SUBSET Areas) /\ areas \in SUBSET Areas
          /\ edits' = Append(edits, areas)
          /\ UNCHANGED <<known, check, ask>>
      BY <1>1, EnvironmentAssumption DEF Commit, TypeInv, EditsOK
    <2>2. Len(edits') = Len(edits) + 1 /\ Len(edits) \in Nat
      BY <2>1
    <2>3. ASSUME Learned(edits, known, ask)
          PROVE  Learned(edits', known, ask)
      BY <1>0, <2>1, <2>3, LearnedAppend
    <2> QED
      BY <1>0, <2>1, <2>2, <2>3 DEF AskInv, Sound
  <1>2. CASE MapReset
    <2> DEFINE spoiled == check \in {"read", "asking"}
    <2>1. ask' = [ask EXCEPT !.spoiled = spoiled] /\ UNCHANGED <<known, check>>
      BY <1>2 DEF MapReset
    <2>2. spoiled \in BOOLEAN /\ (check \in {"read", "asking"} => spoiled = TRUE)
          /\ (check \notin {"read", "asking"} => spoiled = FALSE)
      OBVIOUS
    <2> HIDE DEF spoiled
    <2>3. /\ ask'.target = ask.target /\ ask'.read = ask.read /\ ask'.found = ask.found
          /\ ask'.spoiled = spoiled
      BY <1>0, <2>1 DEF AskType
    <2> QED
      BY <2>1, <2>2, <2>3 DEF AskInv, Sound, Ranging
  <1>3. CASE Listening \/ Heartbeat
    <2> USE DEF Listening, ListenerDies, ListenerNoticesLoss, ListenerConnects,
                ListenerGivesUp, ListenerHears, Heartbeat
    <2>1. UNCHANGED <<edits, known, ask>>
      BY <1>3
    <2>2. check' = check \/ (check' = "begin" /\ check = "none")
      <3>1. EditsChanged \/ check' = check
        BY <1>3
      <3> QED
        BY <3>1 DEF EditsChanged
    <2> QED
      BY <2>1, <2>2 DEF AskInv, Sound
  <1> QED
    BY <1>1, <1>2, <1>3 DEF Map

LEMMA NextAskInv ==
  ASSUME TypeInv, AskInv, [Next]_vars
  PROVE  AskInv'
  <1>1. CASE Checking
    BY <1>1, CheckingChecked DEF Checked
  <1>2. CASE Map \/ Listening \/ Heartbeat
    BY <1>2, OutsideAskInv
  <1>3. ASSUME UNCHANGED <<edits, known, ask>>,
               check' = check \/ (check' = "begin" /\ check \notin {"read", "asking"})
        PROVE  AskInv'
    BY <1>3 DEF AskInv, Sound
  <1>4. ASSUME NEW c \in Conns, Peer(c) \/ Timers(c)
        PROVE  AskInv'
    <2>1. UNCHANGED <<edits, known, ask, check>>
      BY <1>4 DEF Peer, Timers, Connect, ConnectionLost, BadData, PauseWriting, ResumeWriting,
             DataReceived, DeadlineFires, TooSlow, OnlyClient
    <2> QED
      BY <1>3, <2>1
  <1>5. ASSUME NEW c \in Conns, Worker(c)
        PROVE  AskInv'
    <2>1. UNCHANGED <<edits, known, ask>> /\ (check' = check \/ EditsChanged)
      BY <1>5 DEF Worker, WorkerEnds, Hello, AnswerAtOnce, RefuseArea, AskToSubscribe, WktChecked,
             WktRefused, WktFails, Subscribe, SubscribeRefused, Unsubscribe, OnlyClient
    <2> QED
      BY <1>3, <2>1 DEF EditsChanged
  <1>6. CASE Stop
    <2>1. check' \in {"cancelled", "none"} /\ ask'.read = {} /\ ask'.spoiled = FALSE
      BY <1>6 DEF Stop, NothingAsked
    <2> QED
      BY <2>1 DEF AskInv
  <1>7. CASE Stopped \/ UNCHANGED vars
    BY <1>3, <1>7 DEF Stopped, vars
  <1> QED
    BY <1>1, <1>2, <1>4, <1>5, <1>6, <1>7 DEF Next

LEMMA NextUnheardInv ==
  ASSUME SafeInv, UnheardInv, [Next]_vars
  PROVE  UnheardInv'
  <1> SUFFICES ASSUME NEW c \in Conns, client'[c].sub["records"] = None
               PROVE  client'[c].heard = NoneHeard
    BY DEF UnheardInv
  <1>1. /\ client \in [Conns -> ClientType] /\ client[c] \in ClientType /\ TypeInv
        /\ client[c].sub \in [Kinds -> Keys \cup {None}] /\ client[c].heard \in [EditIds -> Nat]
        /\ client'[c].heard \in [EditIds -> Nat]
        /\ client[c].sub["records"] = None => client[c].heard = NoneHeard
    BY NextSafeInv DEF SafeInv, TypeInv, ClientsOK, ClientType, UnheardInv
  <1>2. CASE Quiet(client'[c], client[c]) \/ Greets(client'[c], client[c])
    BY <1>1, <1>2 DEF Quiet, Steady, Greets
  <1>3. ASSUME NEW kind \in Kinds, NEW key \in Keys, Subscribes(client'[c], client[c], kind, key)
        PROVE  client'[c].heard = NoneHeard
    <2>1. kind # "records"
      BY <1>1, <1>3, AreasAssumption DEF Subscribes, Kinds
    <2> QED
      BY <1>1, <1>3, <2>1 DEF Subscribes, Kinds
  <1>4. ASSUME NEW kind \in Kinds, GivesUp(client'[c], client[c], kind)
        PROVE  client'[c].heard = NoneHeard
    BY <1>1, <1>4 DEF GivesUp, Kinds
  <1>5. CASE Connect(c)
    <2>1. client[c] = NoClient
      BY <1>5 DEF Connect, SafeInv, Tidied, TidyClient
    <2>2. client'[c].heard = client[c].heard
      BY <1>1, <1>5 DEF Connect, ClientType
    <2> QED
      BY <2>1, <2>2 DEF NoClient
  <1>6. CASE ConnectionLost(c)
    BY <1>1, <1>6 DEF ConnectionLost, NoClient
  <1>7. ASSUME NEW q \in AskType, Ended(q)
        PROVE  client'[c].heard = NoneHeard
    <2>1. Announce(q)
      BY <1>7 DEF Ended
    <2>2. client[c].sub["records"] = None
      BY <1>1, <2>1, EndedClient
    <2>3. CASE Dropped(c, q) \/ client[c].state # "open"
      BY <1>1, <2>1, <2>2, <2>3, EndedClient
    <2>4. CASE ~Dropped(c, q) /\ client[c].state = "open"
      <3>1. \A e \in EditIds : client'[c].heard[e] = client[c].heard[e]
        BY <1>1, <2>1, <2>2, <2>4, AnnouncedHeard
      <3> QED
        BY <1>1, <2>2, <3>1
    <2> QED
      BY <2>3, <2>4
  <1> QED
    BY <1>2, <1>3, <1>4, <1>5, <1>6, <1>7, ClientSteps

-----------------------------------------------------------------------------
(* The steps of the feed.                                                  *)

\* A records subscriber as the feed sees it.
FollowerOf(cl) ==
    IF cl.state = "open" /\ cl.sub["records"] # None
    THEN [interest |-> cl.sub["records"], from |-> cl.start["records"], sent |-> cl.heard]
    ELSE None

LEMMA FollowerIs ==
  ASSUME NEW cl \in ClientType
  PROVE  FollowerOf(cl) # None <=> cl.state = "open" /\ cl.sub["records"] # None
  BY FollowersAssumption DEF FollowerOf, ClientType, Kinds

LEMMA FollowersAre == RecordsFollowers = [c \in Conns |-> FollowerOf(client[c])]
  BY DEF RecordsFollowers, Following, Subscribed, FollowerOf

LEMMA FollowersAreNext == RecordsFollowers' = [c \in Conns |-> FollowerOf(client'[c])]
  BY DEF RecordsFollowers, Following, Subscribed, FollowerOf

LEMMA InitFeed == ASSUME Init PROVE Feed!Init
  <1>1. FollowerOf(NoClient) = None
    BY DEF FollowerOf, NoClient
  <1> QED
    BY <1>1, FollowersAre DEF Init, NothingAsked, Feed!Init

\* Another client only leaves the followers be.
LEMMA OneFollower ==
  ASSUME SafeInv, NEW c \in Conns, NEW new, client' = [client EXCEPT ![c] = new]
  PROVE  RecordsFollowers' = [RecordsFollowers EXCEPT ![c] = FollowerOf(new)]
  <1>1. \A d \in Conns : client'[d] = IF d = c THEN new ELSE client[d]
    BY DEF SafeInv, TypeInv, ClientsOK
  <1> QED
    BY <1>1, FollowersAre, FollowersAreNext

\* One client may leave, or be told nothing.
LEMMA PeerFeedStep ==
  ASSUME SafeInv, NEW c \in Conns, NEW new, client' = [client EXCEPT ![c] = new],
         UNCHANGED <<edits, known, ask>>,
         FollowerOf(new) \in {FollowerOf(client[c]), None}
  PROVE  [Feed!Next]_(Feed!vars)
  <1>1. RecordsFollowers' = [RecordsFollowers EXCEPT ![c] = FollowerOf(new)]
    BY OneFollower
  <1>2. CASE FollowerOf(new) = FollowerOf(client[c])
    <2>1. RecordsFollowers' = RecordsFollowers
      BY <1>1, <1>2, FollowersAre
    <2> QED
      BY <2>1 DEF Feed!vars
  <1>3. CASE FollowerOf(new) = None
    <2>1. Feed!Leave(c)
      BY <1>1, <1>3 DEF Feed!Leave
    <2> QED
      BY <2>1 DEF Feed!Next
  <1> QED
    BY <1>2, <1>3

\* One that subscribes joins where the feed has got to.
LEMMA SubscribeFeedStep ==
  ASSUME SafeInv, UnheardInv, NEW c \in Conns, NEW new, client' = [client EXCEPT ![c] = new],
         UNCHANGED <<edits, known, ask>>,
         NEW kind \in Kinds, NEW key \in Keys, Subscribes(new, client[c], kind, key)
  PROVE  [Feed!Next]_(Feed!vars)
  <1>1. /\ client[c] \in ClientType
        /\ client[c].sub["records"] = None => client[c].heard = NoneHeard
        /\ client[c].sub \in [Kinds -> Keys \cup {None}]
        /\ client[c].start \in [Kinds -> 0..MaxEdits]
    BY DEF SafeInv, TypeInv, ClientsOK, UnheardInv, ClientType
  <1>2. CASE kind = "records"
    <2>1. /\ new.sub["records"] = key /\ new.start["records"] = known /\ new.state = "open"
          /\ new.heard = client[c].heard /\ client[c].sub["records"] = None
      BY <1>1, <1>2 DEF Subscribes
    <2>2. new.heard = NoneHeard
      BY <1>1, <2>1
    <2>3. key # None
      BY AreasAssumption
    <2>4. FollowerOf(new) = [interest |-> key, from |-> known, sent |-> NoneHeard]
      BY <2>1, <2>2, <2>3 DEF FollowerOf
    <2>5. FollowerOf(client[c]) = None
      BY <2>1 DEF FollowerOf
    <2>6. Feed!NoneSent = NoneHeard
      BY DEF Feed!NoneSent, NoneHeard, EditIds
    <2>7. Feed!Join(c, key)
      BY <2>4, <2>5, <2>6, OneFollower, FollowersAre DEF Feed!Join, Feed!Follower
    <2> QED
      BY <2>7 DEF Feed!Next
  <1>3. CASE kind = "edits"
    <2>1. /\ new.sub["records"] = client[c].sub["records"]
          /\ new.start["records"] = client[c].start["records"]
          /\ new.state = client[c].state /\ new.heard = client[c].heard
      BY <1>1, <1>3 DEF Subscribes
    <2>2. FollowerOf(new) = FollowerOf(client[c])
      BY <2>1 DEF FollowerOf
    <2> QED
      BY <2>2, PeerFeedStep
  <1> QED
    BY <1>2, <1>3 DEF Kinds

\* Waking the clients that wait, the feed does not see.
LEMMA WokenFollowers ==
  ASSUME SafeInv, client' = client \/ client' = Woken(client)
  PROVE  RecordsFollowers' = RecordsFollowers
  <1>1. client \in [Conns -> ClientType]
    BY DEF SafeInv, TypeInv, ClientsOK
  <1>2. \A c \in Conns : FollowerOf(client'[c]) = FollowerOf(client[c])
    <2> TAKE c \in Conns
    <2>1. /\ client'[c].state = client[c].state /\ client'[c].sub = client[c].sub
          /\ client'[c].start = client[c].start /\ client'[c].heard = client[c].heard
      BY <1>1 DEF Woken, ClientType
    <2> QED
      BY <2>1 DEF FollowerOf
  <1> QED
    BY <1>2, FollowersAre, FollowersAreNext

LEMMA CommitFeedStep ==
  ASSUME SafeInv, NEW areas \in EditKinds, Commit(areas)
  PROVE  Feed!Next
  <1>1. RecordsFollowers' = RecordsFollowers
    BY FollowersAre, FollowersAreNext DEF Commit
  <1>2. Feed!Grow(areas)
    BY <1>1 DEF Commit, Feed!Grow
  <1> QED
    BY <1>2 DEF Feed!Next

LEMMA ResetFeedStep ==
  ASSUME SafeInv, MapReset
  PROVE  Feed!Next
  <1> DEFINE spoiled == check \in {"read", "asking"}
  <1>1. ask' = [ask EXCEPT !.spoiled = spoiled] /\ edits' = <<>> /\ UNCHANGED <<known, client>>
    BY DEF MapReset
  <1>2. spoiled \in BOOLEAN
    OBVIOUS
  <1> HIDE DEF spoiled
  <1>3. ask'.spoiled = spoiled
    BY <1>1 DEF SafeInv, TypeInv, CheckOK, AskType
  <1>4. RecordsFollowers' = RecordsFollowers
    BY <1>1, FollowersAre, FollowersAreNext
  <1>5. Feed!Restart
    BY <1>1, <1>2, <1>3, <1>4 DEF Feed!Restart
  <1> QED
    BY <1>5 DEF Feed!Next

\* A check that gives up takes the feed back, or only the spoiled step from it.
LEMMA CeasesFeedStep ==
  ASSUME SafeInv, Ceases, edits' = edits, known' \in Nat
  PROVE  [Feed!Next]_(Feed!vars)
  <1>1. /\ known \in Nat /\ known <= MaxEdits /\ MaxEdits \in Nat /\ Len(edits) \in Nat
        /\ ask.spoiled \in BOOLEAN
    BY BoundsNat DEF SafeInv, TypeInv, EditsOK, CheckOK, AskType
  <1>2. RecordsFollowers' = RecordsFollowers
    BY WokenFollowers DEF Ceases
  <1>3. CASE ask.spoiled = FALSE /\ known' = known
    BY <1>2, <1>3 DEF Ceases, Feed!vars
  <1>4. CASE ask.spoiled = TRUE \/ known' # known
    <2>1. ask.spoiled = FALSE => known' <= Len(edits)
      BY <1>4 DEF Ceases
    <2>2. Feed!GoBack(known')
      BY <1>1, <1>2, <2>1 DEF Ceases, Feed!GoBack
    <2>3. known' \in 0..MaxEdits
      BY <1>1 DEF Ceases
    <2> QED
      BY <2>2, <2>3 DEF Feed!Next
  <1> QED
    BY <1>1, <1>3, <1>4

\* The end of a check is the feed reaching further for all: those are let go
\* whose records could not be read, and the others are sent what was found.
LEMMA FinishedReaches ==
  ASSUME SafeInv, [Next]_vars, NEW q \in AskType, Finished(q), edits' = edits, NEW new,
         \A c \in Conns :
            FollowerOf(client[c]) # None /\ ~Dropped(c, q)
              => \A e \in EditIds : e \in new[c] <=> e \in q.found[client[c].sub["records"]]
  PROVE  Feed!Reach(q.target, {c \in Conns : Dropped(c, q)}, new)
  <1> DEFINE gone == {c \in Conns : Dropped(c, q)}
  <1>1. client \in [Conns -> ClientType] /\ TypeInv /\ Announce(q)
    BY DEF SafeInv, TypeInv, ClientsOK, Finished
  <1>2. known' = q.target /\ ask'.spoiled = FALSE
    BY <1>1, SettledAsk DEF Announce
  <1>3. \A c \in Conns : client'[c].heard \in [EditIds -> Nat]
    BY NextSafeInv DEF SafeInv, TypeInv, ClientsOK, ClientType
  <1>4. ASSUME NEW c \in Conns
        PROVE  FollowerOf(client'[c]) =
                  IF RecordsFollowers[c] = None \/ c \in gone THEN None ELSE Feed!Sent(c, new[c])
    <2>0. RecordsFollowers[c] = FollowerOf(client[c])
      BY FollowersAre
    <2>1. CASE c \in gone
      BY <1>1, <2>1, EndedClient DEF FollowerOf
    <2>2. CASE c \notin gone /\ FollowerOf(client[c]) = None
      <3>1. client'[c].state = client[c].state /\ client'[c].sub = client[c].sub
        BY <1>1, <2>2, EndedClient
      <3>2. ~(client[c].state = "open" /\ client[c].sub["records"] # None)
        BY <1>1, <2>2, FollowerIs
      <3> QED
        BY <2>0, <2>2, <3>1, <3>2 DEF FollowerOf
    <2>3. CASE c \notin gone /\ FollowerOf(client[c]) # None
      <3> DEFINE key == client[c].sub["records"]
                 sent == [e \in 1..MaxEdits |-> client[c].heard[e] + IF e \in new[c] THEN 1 ELSE 0]
      <3>1. client[c].state = "open" /\ key # None
        BY <2>3 DEF FollowerOf
      <3>2. /\ client'[c].state = "open" /\ client'[c].sub = client[c].sub
            /\ client'[c].start = client[c].start
        BY <1>1, <2>3, <3>1, EndedClient
      <3>3. client'[c].heard \in [EditIds -> Nat]
        BY <1>3
      <3>4. \A e \in EditIds : client'[c].heard[e] = sent[e]
        BY <1>1, <2>3, <3>1, AnnouncedHeard DEF EditIds
      <3>5. client'[c].heard = sent
        BY <3>3, <3>4 DEF EditIds
      <3>6. FollowerOf(client'[c]) = [interest |-> key, from |-> client[c].start["records"], sent |-> sent]
        BY <3>1, <3>2, <3>5 DEF FollowerOf
      <3>7. FollowerOf(client[c]) =
               [interest |-> key, from |-> client[c].start["records"], sent |-> client[c].heard]
        BY <3>1 DEF FollowerOf
      <3>8. Feed!Sent(c, new[c]) =
               [interest |-> key, from |-> client[c].start["records"], sent |-> sent]
        <4>1. Feed!Sent(c, new[c]) =
                [RecordsFollowers[c] EXCEPT !.sent =
                   [e \in 1..MaxEdits |-> RecordsFollowers[c].sent[e] + IF e \in new[c] THEN 1 ELSE 0]]
          BY DEF Feed!Sent
        <4>2. RecordsFollowers[c].sent = client[c].heard
          BY <2>0, <3>7
        <4>3. Feed!Sent(c, new[c]) = [RecordsFollowers[c] EXCEPT !.sent = sent]
          BY <4>1, <4>2
        <4> HIDE DEF sent, key
        <4> QED
          BY <2>0, <3>7, <4>3
      <3> QED
        BY <2>0, <2>3, <3>6, <3>8
    <2> QED
      BY <2>0, <2>1, <2>2, <2>3
  <1>5. RecordsFollowers' =
          [c \in Conns |-> IF RecordsFollowers[c] = None \/ c \in gone
                           THEN None ELSE Feed!Sent(c, new[c])]
    BY <1>4, FollowersAreNext
  <1> QED
    BY <1>2, <1>5 DEF Feed!Reach

\* What a follower that is kept was found, is of the edits the check was about.
LEMMA FoundFor ==
  ASSUME NEW q \in AskType, Finished(q), NEW c \in Conns,
         FollowerOf(client[c]) # None, ~Dropped(c, q)
  PROVE  /\ client[c].sub["records"] \in q.read
         /\ q.found[client[c].sub["records"]] \subseteq (known + 1)..q.target
  <1>1. client[c].state = "open" /\ client[c].sub["records"] # None
    BY DEF FollowerOf
  <1>2. client[c].sub["records"] \in Subscriptions("records")
    BY <1>1 DEF Subscriptions, Subscribed
  <1>3. client[c].sub["records"] \in q.read
    BY <1>1, <1>2 DEF Finished, Dropped, Subscribed
  <1> QED
    BY <1>3 DEF Finished, Sound, Ranging

LEMMA FinishedFeedStep ==
  ASSUME SafeInv, [Next]_vars, NEW q \in AskType, Finished(q), edits' = edits
  PROVE  Feed!Next
  <1> DEFINE gone == {c \in Conns : Dropped(c, q)}
             last == q.target
  <1>1. /\ known \in Nat /\ last \in Nat /\ known < last /\ last <= MaxEdits /\ MaxEdits \in Nat
        /\ ask.spoiled \in BOOLEAN
    BY BoundsNat DEF SafeInv, TypeInv, CheckOK, AskType, Finished, Sound
  <1>2. last \in 1..MaxEdits /\ last \in (known + 1)..MaxEdits /\ gone \in SUBSET Conns
    BY <1>1
  <1>3. CASE ask.spoiled = FALSE
    <2> DEFINE new == [c \in Conns |-> Feed!Between(known, last, RecordsFollowers[c].interest)]
    <2>1. Learned(edits, known, q) /\ last <= Len(edits) /\ Len(edits) \in Nat
      BY <1>3 DEF Finished, Sound, Learned, SafeInv, TypeInv, EditsOK
    <2>2. ASSUME NEW c \in Conns, FollowerOf(client[c]) # None, ~Dropped(c, q), NEW e \in EditIds
          PROVE  e \in new[c] <=> e \in q.found[client[c].sub["records"]]
      <3> DEFINE key == client[c].sub["records"]
      <3>1. RecordsFollowers[c].interest = key
        BY <2>2, FollowersAre DEF FollowerOf
      <3>2. q.found[key] = ConcerningIn(edits, known + 1, last, key[1])
        BY <2>1, <2>2, FoundFor DEF Learned
      <3>3. e \in ConcerningIn(edits, known + 1, last, key[1])
               <=> e \in (known + 1)..last /\ (key[1] = Everywhere \/ key[1] \in edits[e])
        BY <1>1, <2>1, BoundsNat DEF ConcerningIn, EditIds
      <3>4. e \in Feed!Between(known, last, key)
               <=> e \in (known + 1)..last /\ (key[1] = Everywhere \/ key[1] \in edits[e])
        BY DEF Feed!Between, Matching
      <3>5. new[c] = Feed!Between(known, last, key)
        BY <3>1
      <3> HIDE DEF new, last
      <3> QED
        BY <3>2, <3>3, <3>4, <3>5
    <2>3. Feed!Reach(last, gone, new)
      <3> HIDE DEF new
      <3> QED
        BY <2>2, FinishedReaches
    <2>4. Feed!ReachAll(last, gone)
      BY <1>1, <2>1, <2>3 DEF Feed!ReachAll
    <2> HIDE DEF last, gone
    <2> QED
      BY <1>2, <2>4 DEF Feed!Next
  <1>4. CASE ask.spoiled = TRUE
    <2> DEFINE new == [c \in Conns |-> IF FollowerOf(client[c]) # None /\ ~Dropped(c, q)
                                       THEN q.found[client[c].sub["records"]] ELSE {}]
    <2>1. new \in [Conns -> SUBSET ((known + 1)..last)]
      BY FoundFor
    <2>2. Feed!Reach(last, gone, new)
      <3>1. \A c \in Conns : FollowerOf(client[c]) # None /\ ~Dropped(c, q)
               => new[c] = q.found[client[c].sub["records"]]
        OBVIOUS
      <3> HIDE DEF new
      <3> QED
        BY <3>1, FinishedReaches
    <2> HIDE DEF new, last, gone
    <2>3. Feed!ReachSpoiled(last, gone)
      BY <1>2, <1>4, <2>1, <2>2 DEF Feed!ReachSpoiled
    <2> QED
      BY <1>2, <2>3 DEF Feed!Next
  <1> QED
    BY <1>1, <1>3, <1>4

\* Every step of the server is a step of the feed, or one it does not see.
LEMMA NextFeedStep ==
  ASSUME SafeInv, AskInv, UnheardInv, [Next]_vars
  PROVE  [Feed!Next]_(Feed!vars)
  <1>1. client \in [Conns -> ClientType] /\ TypeInv /\ Tidied /\ FeedInv
    BY DEF SafeInv, TypeInv, ClientsOK
  <1>2. CASE \E areas \in EditKinds : Commit(areas)
    BY <1>2, CommitFeedStep
  <1>3. CASE MapReset
    BY <1>3, ResetFeedStep
  <1>4. CASE Listening \/ Heartbeat \/ Stopped \/ UNCHANGED vars
    <2>1. UNCHANGED <<edits, known, ask, client>>
      BY <1>4 DEF Listening, ListenerDies, ListenerNoticesLoss, ListenerConnects,
             ListenerGivesUp, ListenerHears, Heartbeat, Stopped, vars
    <2>2. RecordsFollowers' = RecordsFollowers
      BY <2>1, WokenFollowers
    <2> QED
      BY <2>1, <2>2 DEF Feed!vars
  <1>5. CASE Checking
    <2>1. edits' = edits
      BY <1>5 DEF Checking, CheckBegins, ReadLatest, ReadLatestFails, CheckLatest, AreaAnswered,
             RecordsAnswered
    <2>2. CASE Goes
      BY <2>1, <2>2, WokenFollowers DEF Goes, Feed!vars
    <2>3. known' \in Nat
      BY NextSafeInv, BoundsNat DEF SafeInv, TypeInv, CheckOK
    <2> QED
      BY <1>1, <1>5, <2>1, <2>2, <2>3, CheckingChecked, CeasesFeedStep, FinishedFeedStep DEF Checked
  <1>6. CASE Stop
    <2>1. UNCHANGED <<edits, known>> /\ ask'.spoiled = FALSE
          /\ (client' = client \/ client' = Woken(client))
      BY <1>6 DEF Stop, NothingAsked
    <2>2. known \in Nat
      BY BoundsNat DEF SafeInv, TypeInv, CheckOK
    <2>3. Ceases
      BY <2>1, <2>2 DEF Ceases
    <2> QED
      BY <2>1, <2>2, <2>3, CeasesFeedStep
  <1>7. ASSUME NEW c \in Conns, Peer(c) \/ Timers(c)
        PROVE  [Feed!Next]_(Feed!vars)
    <2>1. UNCHANGED <<edits, known, ask>>
      BY <1>7 DEF Peer, Timers, Connect, ConnectionLost, BadData, PauseWriting, ResumeWriting,
             DataReceived, DeadlineFires, TooSlow, OnlyClient
    <2>2. PICK new : client' = [client EXCEPT ![c] = new]
                     /\ FollowerOf(new) \in {FollowerOf(client[c]), None}
      <3>1. CASE Connect(c)
        <4> DEFINE new == [client[c] EXCEPT !.state = "open", !.deadline = "hello"]
        <4>1. client[c] = NoClient
          BY <1>1, <3>1 DEF Connect, Tidied, TidyClient
        <4>2. client' = [client EXCEPT ![c] = new]
          BY <1>1, <3>1 DEF Connect, ClientType
        <4>3. new.sub["records"] = None
          BY <1>1, <4>1 DEF ClientType, NoClient, Kinds
        <4> HIDE DEF new
        <4>4. FollowerOf(new) = None
          BY <4>3 DEF FollowerOf
        <4> QED
          BY <4>2, <4>4
      <3>2. CASE ConnectionLost(c)
        <4>1. FollowerOf(NoClient) = None
          BY DEF FollowerOf, NoClient
        <4> QED
          BY <3>2, <4>1 DEF ConnectionLost
      <3>3. CASE ~Connect(c) /\ ~ConnectionLost(c)
        <4>1. PICK new : client' = [client EXCEPT ![c] = new] /\ Quiet(new, client[c])
          BY <1>1, <1>7, <3>3, PeerQuiet
        <4>2. FollowerOf(new) \in {FollowerOf(client[c]), None}
          BY <4>1 DEF Quiet, Steady, FollowerOf
        <4> QED
          BY <4>1, <4>2
      <3> QED
        BY <3>1, <3>2, <3>3
    <2> QED
      BY <2>1, <2>2, PeerFeedStep
  <1>8. ASSUME NEW c \in Conns, Worker(c)
        PROVE  [Feed!Next]_(Feed!vars)
    <2>1. UNCHANGED <<edits, known, ask>>
      BY <1>8 DEF Worker, WorkerEnds, Hello, AnswerAtOnce, RefuseArea, AskToSubscribe, WktChecked,
             WktRefused, WktFails, Subscribe, SubscribeRefused, Unsubscribe, OnlyClient
    <2>2. PICK new :
            /\ client' = [client EXCEPT ![c] = new]
            /\ \/ Quiet(new, client[c])
               \/ Greets(new, client[c])
               \/ \E kind \in Kinds, key \in Keys : Subscribes(new, client[c], kind, key)
               \/ \E kind \in Kinds : GivesUp(new, client[c], kind)
      BY <1>1, <1>8, WorkerSteps
    <2>3. CASE Quiet(new, client[c]) \/ Greets(new, client[c])
      <3>1. FollowerOf(new) \in {FollowerOf(client[c]), None}
        BY <2>3 DEF Quiet, Steady, Greets, FollowerOf
      <3> QED
        BY <2>1, <2>2, <3>1, PeerFeedStep
    <2>4. ASSUME NEW kind \in Kinds, NEW key \in Keys, Subscribes(new, client[c], kind, key)
          PROVE  [Feed!Next]_(Feed!vars)
      BY <2>1, <2>2, <2>4, SubscribeFeedStep
    <2>5. ASSUME NEW kind \in Kinds, GivesUp(new, client[c], kind)
          PROVE  [Feed!Next]_(Feed!vars)
      <3>1. client[c].sub \in [Kinds -> Keys \cup {None}] /\ client[c].start \in [Kinds -> 0..MaxEdits]
        BY <1>1 DEF ClientType
      <3>2. CASE kind = "records"
        <4>1. new.sub["records"] = None
          BY <2>5, <3>1, <3>2 DEF GivesUp
        <4> QED
          BY <2>1, <2>2, <4>1, PeerFeedStep DEF FollowerOf
      <3>3. CASE kind = "edits"
        <4>1. /\ new.sub["records"] = client[c].sub["records"]
              /\ new.start["records"] = client[c].start["records"]
              /\ new.state = client[c].state /\ new.heard = client[c].heard
          BY <2>5, <3>1, <3>3 DEF GivesUp
        <4>2. FollowerOf(new) = FollowerOf(client[c])
          BY <4>1 DEF FollowerOf
        <4> QED
          BY <2>1, <2>2, <4>2, PeerFeedStep
      <3> QED
        BY <3>2, <3>3 DEF Kinds
    <2> QED
      BY <2>2, <2>3, <2>4, <2>5
  <1> QED
    BY <1>2, <1>3, <1>4, <1>5, <1>6, <1>7, <1>8 DEF Next, Map

\* The server is a feed of records: whatever happens between reading the map's
\* latest IDs and telling the clients, it reaches further along the edits for
\* all its records subscribers at once, and a reset of the map spoils no more
\* than the check that it falls into.
THEOREM ServerIsAFeed == Spec => ImplementsFeed
  <1> DEFINE Inv == SafeInv /\ AskInv /\ UnheardInv
  <1>1. Init => Inv /\ Feed!Init
    <2>1. Init => AskInv /\ UnheardInv
      BY DEF Init, AskInv, UnheardInv, NothingAsked, NoClient
    <2> QED
      BY <2>1, InitSafeInv, InitFeed
  <1>2. Inv /\ [Next]_vars => Inv'
    BY NextSafeInv, NextAskInv, NextUnheardInv DEF SafeInv
  <1>3. Inv /\ [Next]_vars => [Feed!Next]_(Feed!vars)
    BY NextFeedStep
  <1> QED
    BY <1>1, <1>2, <1>3, PTL DEF Spec, ImplementsFeed, Feed!Spec
=============================================================================
