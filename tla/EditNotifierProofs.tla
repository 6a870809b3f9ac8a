------------------------- MODULE EditNotifierProofs -------------------------
(***************************************************************************)
(* What is proved of EditNotifier, for every set of clients and areas and  *)
(* every bound: its types, and what subscribers are sent (records once     *)
(* each, edits hinted at, and subscriptions that begin where the map is).  *)
(***************************************************************************)
EXTENDS EditNotifier, TLAPS

-----------------------------------------------------------------------------
(* Types.                                                                  *)

\* A worker in the middle of a request has one, and asks the map about an area
\* only when it is given as WKT.
WorkerOK(cl) ==
    /\ cl.work \in {"wkt", "waiting", "woken"} => cl.request # None
    /\ cl.work = "wkt" => cl.request.area \in Wkt

EditsOK == edits \in Seq(SUBSET Areas) /\ Len(edits) <= MaxEdits
ServerOK ==
    /\ listener \in {"up", "dead", "down", "closed"} /\ notified \in BOOLEAN
    /\ phase \in {"starting", "serving", "stopping", "stopped"}
    /\ perAddress \in [Addresses -> Int]
    /\ count \in [resets : Nat, failures : Nat, drops : Nat, connects : Nat]
CheckOK ==
    /\ known \in 0..MaxEdits
    /\ check \in {"none", "begin", "latest", "read", "asking", "cancelled"}
    /\ again \in BOOLEAN
    /\ ask \in AskType
ClientsOK == client \in [Conns -> ClientType] /\ \A c \in Conns : WorkerOK(client[c])

TypeInv == EditsOK /\ ServerOK /\ CheckOK /\ ClientsOK

LEMMA BoundsNat ==
    /\ MaxEdits \in Nat /\ MaxResets \in Nat /\ MaxFailures \in Nat
    /\ MaxDrops \in Nat /\ MaxConnects \in Nat /\ MaxQueue \in Nat
  BY EnvironmentAssumption

LEMMA QueuesOK ==
    /\ <<>> \in Queues
    /\ \A q \in Queues, r \in RequestType : Append(q, r) \in Queues
    /\ \A q \in Queues : q # <<>> => Head(q) \in RequestType /\ Tail(q) \in Queues
  BY DEF Queues

LEMMA NoClientOK == NoClient \in ClientType /\ WorkerOK(NoClient)
  <1>1. NoClient \in ClientType
    BY BoundsNat, QueuesOK DEF NoClient, ClientType, NoneHeard
  <1>2. WorkerOK(NoClient)
    BY DEF NoClient, WorkerOK
  <1> QED
    BY <1>1, <1>2

LEMMA NothingAskedOK == NothingAsked \in AskType
  BY BoundsNat DEF NothingAsked, AskType

LEMMA InitTypeInv == Init => TypeInv
  <1> SUFFICES ASSUME Init PROVE TypeInv
    OBVIOUS
  <1>0. EditsOK
    BY BoundsNat DEF Init, EditsOK
  <1>1. ServerOK
    <2>1. notified \in BOOLEAN
      BY DEF Init
    <2> QED
      BY <2>1 DEF Init, ServerOK
  <1>2. CheckOK
    <2>1. again \in BOOLEAN
      BY DEF Init
    <2> QED
      BY <2>1, BoundsNat, NothingAskedOK DEF Init, CheckOK
  <1>3. ClientsOK
    BY NoClientOK DEF Init, ClientsOK
  <1> QED
    BY <1>0, <1>1, <1>2, <1>3 DEF TypeInv

LEMMA OneClientOK ==
  ASSUME ClientsOK, NEW c \in Conns, NEW new, new \in ClientType, WorkerOK(new),
         client' = [client EXCEPT ![c] = new]
  PROVE  ClientsOK'
  BY DEF ClientsOK

LEMMA EditsChangedOK ==
  ASSUME CheckOK, EditsChanged, known' = known, ask' \in AskType
  PROVE  CheckOK'
  BY DEF CheckOK, EditsChanged

LEMMA WokenOK ==
  ASSUME NEW clients \in [Conns -> ClientType], \A c \in Conns : WorkerOK(clients[c])
  PROVE  /\ Woken(clients) \in [Conns -> ClientType]
         /\ \A c \in Conns : WorkerOK(Woken(clients)[c])
  <1>1. ASSUME NEW c \in Conns, clients[c].work = "waiting"
        PROVE  /\ [clients[c] EXCEPT !.work = "woken"] \in ClientType
               /\ WorkerOK([clients[c] EXCEPT !.work = "woken"])
    <2>1. clients[c] \in ClientType
      OBVIOUS
    <2>2. [clients[c] EXCEPT !.work = "woken"] \in ClientType
      BY <2>1 DEF ClientType
    <2>3. clients[c].request # None
      BY <1>1 DEF WorkerOK
    <2>4. WorkerOK([clients[c] EXCEPT !.work = "woken"])
      BY <2>1, <2>3 DEF ClientType, WorkerOK
    <2> QED
      BY <2>2, <2>4
  <1> QED
    BY <1>1 DEF Woken

LEMMA SettleOK ==
  ASSUME NEW clients \in [Conns -> ClientType], \A c \in Conns : WorkerOK(clients[c]),
         again \in BOOLEAN, Settle(clients), known' \in 0..MaxEdits
  PROVE  CheckOK' /\ ClientsOK'
  BY WokenOK, NothingAskedOK DEF Settle, CheckOK, ClientsOK

LEMMA ConcerningOK ==
  ASSUME NEW first, NEW last, NEW area
  PROVE  Concerning(first, last, area) \subseteq EditIds
  BY DEF Concerning

LEMMA ToldOK ==
  ASSUME NEW q \in AskType, NEW c \in Conns, ClientsOK
  PROVE  Told(c, q) \in ClientType /\ WorkerOK(Told(c, q))
  <1> DEFINE edited == Subscribed(c, "edits") /\ client[c].sub["edits"][1] \in q.concerned
             records == IF Subscribed(c, "records") THEN q.found[client[c].sub["records"]] ELSE {}
             told == IF edited THEN q.target ELSE client[c].told
             heard == [e \in EditIds |-> client[c].heard[e] + IF e \in records THEN 1 ELSE 0]
  <1>1. client[c] \in ClientType /\ WorkerOK(client[c])
    BY DEF ClientsOK
  <1>2. told \in 0..MaxEdits /\ heard \in [EditIds -> Nat]
    BY <1>1 DEF ClientType, AskType
  <1>3. Told(c, q) = [client[c] EXCEPT !.told = told, !.heard = heard]
    BY <1>1 DEF Told, ClientType
  <1> HIDE DEF told, heard
  <1>4. Told(c, q) \in ClientType
    BY <1>1, <1>2, <1>3 DEF ClientType
  <1>5. Told(c, q).work = client[c].work /\ Told(c, q).request = client[c].request
    BY <1>1, <1>3 DEF ClientType
  <1> QED
    BY <1>1, <1>4, <1>5 DEF WorkerOK

LEMMA SubscriptionsOK ==
  ASSUME ClientsOK
  PROVE  /\ \A kind \in Kinds : Subscriptions(kind) \subseteq Keys
         /\ EditsAreas \subseteq AllAreas /\ AreasFollowed \subseteq Areas
  <1>1. \A c \in Conns, kind \in Kinds :
           Subscribed(c, kind) => client[c].sub[kind] \in Keys
    BY DEF ClientsOK, ClientType, Subscribed
  <1>2. \A kind \in Kinds : Subscriptions(kind) \subseteq Keys
    BY <1>1 DEF Subscriptions
  <1> QED
    BY <1>2 DEF EditsAreas, AreasFollowed, Keys, Kinds, AllAreas

LEMMA AnnounceOK ==
  ASSUME CheckOK, ClientsOK, NEW q \in AskType, Announce(q)
  PROVE  CheckOK' /\ ClientsOK'
  <1> DEFINE clients == [c \in Conns |->
                  IF Dropped(c, q) THEN [client[c] EXCEPT !.state = "closing"]
                  ELSE IF client[c].state = "open" THEN Told(c, q) ELSE client[c]]
  <1>1. \A c \in Conns : client[c] \in ClientType /\ WorkerOK(client[c])
    BY DEF ClientsOK
  <1>2. \A c \in Conns : /\ [client[c] EXCEPT !.state = "closing"] \in ClientType
                         /\ WorkerOK([client[c] EXCEPT !.state = "closing"])
    <2> TAKE c \in Conns
    <2>1. [client[c] EXCEPT !.state = "closing"] \in ClientType
      BY <1>1 DEF ClientType
    <2>2. WorkerOK([client[c] EXCEPT !.state = "closing"])
      BY <1>1 DEF ClientType, WorkerOK
    <2> QED
      BY <2>1, <2>2
  <1>3. \A c \in Conns : Told(c, q) \in ClientType /\ WorkerOK(Told(c, q))
    BY ToldOK
  <1>4. /\ clients \in [Conns -> ClientType]
        /\ \A c \in Conns : WorkerOK(clients[c])
    BY <1>1, <1>2, <1>3
  <1>5. Settle(clients) /\ known' \in 0..MaxEdits
    BY DEF Announce, AskType
  <1>6. again \in BOOLEAN
    BY DEF CheckOK
  <1> HIDE DEF clients
  <1> QED
    BY <1>4, <1>5, <1>6, SettleOK

LEMMA AskOrAnnounceOK ==
  ASSUME CheckOK, ClientsOK, NEW q \in AskType, AskOrAnnounce(q)
  PROVE  CheckOK' /\ ClientsOK'
  <1> DEFINE areas == EditsAreas \ q.answered
             keys == (Subscriptions("records") \ q.read) \ q.failed
  <1>1. CASE areas = {} /\ keys = {}
    BY <1>1, AnnounceOK DEF AskOrAnnounce
  <1>2. CASE ~(areas = {} /\ keys = {})
    <2>1. /\ check' = "asking" /\ ask' = [q EXCEPT !.areas = areas, !.keys = keys]
          /\ UNCHANGED <<again, known, client>>
      BY <1>2 DEF AskOrAnnounce
    <2>2. areas \subseteq AllAreas /\ keys \subseteq Keys
      BY SubscriptionsOK DEF Kinds
    <2> HIDE DEF areas, keys
    <2>3. ask' \in AskType
      BY <2>1, <2>2 DEF AskType
    <2>4. ClientsOK'
      BY <2>1 DEF ClientsOK
    <2> QED
      BY <2>1, <2>3, <2>4 DEF CheckOK
  <1> QED
    BY <1>1, <1>2

LEMMA NextAnswerOK ==
  ASSUME CheckOK, ClientsOK, NEW q \in AskType, NextAnswer(q)
  PROVE  CheckOK' /\ ClientsOK'
  <1>1. CASE q.areas = {} /\ q.keys = {}
    BY <1>1, AskOrAnnounceOK DEF NextAnswer
  <1>2. CASE ~(q.areas = {} /\ q.keys = {})
    <2>1. ask' = q /\ UNCHANGED <<check, again, known, client>>
      BY <1>2 DEF NextAnswer
    <2> QED
      BY <2>1 DEF CheckOK, ClientsOK
  <1> QED
    BY <1>1, <1>2

LEMMA MayFailOK ==
  ASSUME ServerOK, NEW call, MayFail(call)
  PROVE  count' \in [resets : Nat, failures : Nat, drops : Nat, connects : Nat]
  BY DEF ServerOK, MayFail

LEMMA CheckingTypeInv ==
  ASSUME TypeInv, Checking
  PROVE  TypeInv'
  <1> USE DEF TypeInv
  <1>1. EditsOK'
    <2>1. edits' = edits
      BY DEF Checking, CheckBegins, ReadLatest, ReadLatestFails, CheckLatest, AreaAnswered,
             RecordsAnswered
    <2> QED
      BY <2>1 DEF EditsOK
  <1>2. ServerOK'
    <2>1. UNCHANGED <<listener, notified, phase, perAddress>>
      BY DEF Checking, CheckBegins, ReadLatest, ReadLatestFails, CheckLatest, AreaAnswered,
             RecordsAnswered
    <2>2. count' = count \/ \E call : MayFail(call)
      BY DEF Checking, CheckBegins, ReadLatest, ReadLatestFails, CheckLatest, AreaAnswered,
             RecordsAnswered
    <2>3. notified' \in BOOLEAN
      BY <2>1 DEF ServerOK
    <2>4. count' \in [resets : Nat, failures : Nat, drops : Nat, connects : Nat]
      BY <2>2, MayFailOK DEF ServerOK
    <2> QED
      BY <2>1, <2>3, <2>4 DEF ServerOK
  <1>3. CheckOK' /\ ClientsOK'
    <2>1. CASE CheckBegins
      BY <2>1 DEF CheckBegins, CheckOK, ClientsOK
    <2>2. CASE ReadLatest
      <3>1. Len(edits) \in 0..MaxEdits
        BY DEF EditsOK
      <3>2. ask' = [ask EXCEPT !.target = Len(edits)]
        BY <2>2 DEF ReadLatest
      <3>3. ask' \in AskType
        BY <3>1, <3>2 DEF CheckOK, AskType
      <3> QED
        BY <2>2, <3>3 DEF ReadLatest, CheckOK, ClientsOK
    <2>3. CASE ReadLatestFails
      BY <2>3, SettleOK DEF ReadLatestFails, CheckOK, ClientsOK
    <2>4. CASE CheckLatest
      <3>1. CASE ask.target <= known
        <4>1. known' \in 0..MaxEdits /\ Settle(client)
          BY <2>4, <3>1 DEF CheckLatest, CheckOK, AskType
        <4> QED
          BY <4>1, SettleOK DEF CheckOK, ClientsOK
      <3>2. CASE ~(ask.target <= known)
        <4> DEFINE q == [ask EXCEPT !.answered = {Everywhere}, !.concerned = {Everywhere}]
        <4>1. q \in AskType
          BY DEF CheckOK, AskType, AllAreas
        <4>2. AskOrAnnounce(q)
          BY <2>4, <3>2 DEF CheckLatest
        <4> QED
          BY <4>1, <4>2, AskOrAnnounceOK
      <3> QED
        BY <3>1, <3>2
    <2>5. ASSUME NEW area \in AllAreas, AreaAnswered(area)
          PROVE  CheckOK' /\ ClientsOK'
      <3>1. PICK yes \in BOOLEAN :
               NextAnswer([ask EXCEPT !.areas = @ \ {area}, !.answered = @ \cup {area},
                                      !.concerned = IF yes THEN @ \cup {area} ELSE @])
        BY <2>5 DEF AreaAnswered
      <3>2. [ask EXCEPT !.areas = @ \ {area}, !.answered = @ \cup {area},
                        !.concerned = IF yes THEN @ \cup {area} ELSE @] \in AskType
        BY DEF CheckOK, AskType
      <3> QED
        BY <3>1, <3>2, NextAnswerOK
    <2>6. ASSUME NEW key \in Keys, RecordsAnswered(key)
          PROVE  CheckOK' /\ ClientsOK'
      <3> DEFINE some == Concerning(known + 1, ask.target, key[1])
      <3>1. [ask EXCEPT !.keys = @ \ {key}, !.read = @ \cup {key}, !.found[key] = some] \in AskType
        <4>1. some \subseteq EditIds
          BY ConcerningOK
        <4> HIDE DEF some
        <4> QED
          BY <4>1 DEF CheckOK, AskType
      <3>2. [ask EXCEPT !.keys = @ \ {key}, !.failed = @ \cup {key}] \in AskType
        BY DEF CheckOK, AskType
      <3>3. \/ NextAnswer([ask EXCEPT !.keys = @ \ {key}, !.read = @ \cup {key}, !.found[key] = some])
            \/ NextAnswer([ask EXCEPT !.keys = @ \ {key}, !.failed = @ \cup {key}])
        BY <2>6 DEF RecordsAnswered
      <3> QED
        BY <3>1, <3>2, <3>3, NextAnswerOK
    <2> QED
      BY <2>1, <2>2, <2>3, <2>4, <2>5, <2>6 DEF Checking
  <1> QED
    BY <1>1, <1>2, <1>3

LEMMA OutsideTypeInv ==
  ASSUME TypeInv, Map \/ Listening \/ Heartbeat
  PROVE  TypeInv'
  <1> USE DEF TypeInv
  <1>1. EditsOK'
    <2>1. edits' = edits \/ edits' = <<>>
          \/ \E areas \in EditKinds : Len(edits) < MaxEdits /\ edits' = Append(edits, areas)
      BY DEF Map, Commit, MapReset, Listening, ListenerDies, ListenerNoticesLoss,
             ListenerConnects, ListenerGivesUp, ListenerHears, Heartbeat
    <2>2. \A areas \in EditKinds : areas \in SUBSET Areas
      BY EnvironmentAssumption
    <2>3. CASE edits' = <<>>
      BY <2>3, BoundsNat DEF EditsOK
    <2>4. ASSUME NEW areas \in EditKinds, Len(edits) < MaxEdits, edits' = Append(edits, areas)
          PROVE  EditsOK'
      BY <2>2, <2>4, BoundsNat DEF EditsOK
    <2> QED
      BY <2>1, <2>3, <2>4 DEF EditsOK
  <1>2. ServerOK'
    <2> USE DEF Map, Commit, MapReset, Listening, ListenerDies, ListenerNoticesLoss,
                ListenerConnects, ListenerGivesUp, ListenerHears, Heartbeat
    <2>1. listener' \in {"up", "dead", "down", "closed"}
      BY DEF ServerOK
    <2>2. notified' \in BOOLEAN
      BY DEF ServerOK
    <2>3. phase' \in {"starting", "serving", "stopping", "stopped"}
      BY DEF ServerOK
    <2>4. perAddress' \in [Addresses -> Int]
      BY DEF ServerOK
    <2>5. count' \in [resets : Nat, failures : Nat, drops : Nat, connects : Nat]
      BY DEF ServerOK
    <2> QED
      BY <2>1, <2>2, <2>3, <2>4, <2>5 DEF ServerOK
  <1>3. CheckOK'
    <2> USE DEF Map, Commit, MapReset, Listening, ListenerDies, ListenerNoticesLoss,
                ListenerConnects, ListenerGivesUp, ListenerHears, Heartbeat
    <2> DEFINE spoiled == check \in {"read", "asking"}
    <2>1. known' = known /\ (ask' = ask \/ ask' = [ask EXCEPT !.spoiled = spoiled])
      OBVIOUS
    <2>3. spoiled \in BOOLEAN
      OBVIOUS
    <2> HIDE DEF spoiled
    <2>4. [ask EXCEPT !.spoiled = spoiled] \in AskType
      BY ONLY CheckOK, <2>3 DEF CheckOK, AskType
    <2>2. EditsChanged \/ UNCHANGED <<check, again>>
      OBVIOUS
    <2> QED
      BY ONLY CheckOK, <2>1, <2>2, <2>4, EditsChangedOK DEF CheckOK
  <1>4. ClientsOK'
    BY DEF Map, Commit, MapReset, Listening, ListenerDies, ListenerNoticesLoss,
           ListenerConnects, ListenerGivesUp, ListenerHears, Heartbeat, ClientsOK
  <1> QED
    BY <1>1, <1>2, <1>3, <1>4

\* An action that changes one connection, to another of the type.
LEMMA OnlyClientTypeInv ==
  ASSUME TypeInv, NEW c \in Conns, NEW new \in ClientType, WorkerOK(new), OnlyClient(c, new)
  PROVE  TypeInv'
  <1>1. EditsOK' /\ CheckOK'
    BY DEF OnlyClient, TypeInv, EditsOK, CheckOK
  <1>2. ServerOK'
    BY DEF OnlyClient, TypeInv, ServerOK
  <1>3. ClientsOK'
    BY OneClientOK DEF OnlyClient, TypeInv
  <1> QED
    BY <1>1, <1>2, <1>3 DEF TypeInv

LEMMA NoClientServerOK ==
  ASSUME ServerOK, UNCHANGED <<listener, notified, phase>>,
         perAddress' \in [Addresses -> Int],
         count' \in [resets : Nat, failures : Nat, drops : Nat, connects : Nat]
  PROVE  ServerOK'
  BY DEF ServerOK

LEMMA PeerTypeInv ==
  ASSUME TypeInv, NEW c \in Conns, Peer(c) \/ Timers(c)
  PROVE  TypeInv'
  <1>1. client[c] \in ClientType /\ WorkerOK(client[c])
    BY DEF TypeInv, ClientsOK
  <1>2. AddressOf[c] \in Addresses
    BY ConnectionsAssumption
  <1>3. CASE Connect(c)
    <2>1. EditsOK' /\ CheckOK'
      BY <1>3 DEF Connect, TypeInv, EditsOK, CheckOK
    <2>2. ServerOK'
      <3>1. perAddress' \in [Addresses -> Int]
        BY <1>2, <1>3 DEF Connect, TypeInv, ServerOK
      <3>2. count' \in [resets : Nat, failures : Nat, drops : Nat, connects : Nat]
        BY <1>3 DEF Connect, TypeInv, ServerOK
      <3> QED
        BY <1>3, <3>1, <3>2, NoClientServerOK DEF Connect, TypeInv
    <2>3. ClientsOK'
      <3> DEFINE new == [client[c] EXCEPT !.state = "open", !.deadline = "hello"]
      <3>1. new \in ClientType
        BY <1>1 DEF ClientType
      <3>2. WorkerOK(new)
        BY <1>1 DEF ClientType, WorkerOK
      <3>3. client' = [client EXCEPT ![c] = new]
        BY <1>1, <1>3 DEF Connect, TypeInv, ClientsOK
      <3> QED
        BY <3>1, <3>2, <3>3, OneClientOK DEF TypeInv
    <2> QED
      BY <2>1, <2>2, <2>3 DEF TypeInv
  <1>4. CASE ConnectionLost(c)
    <2>1. EditsOK' /\ CheckOK'
      BY <1>4 DEF ConnectionLost, TypeInv, EditsOK, CheckOK
    <2>2. ServerOK'
      <3>1. perAddress' \in [Addresses -> Int]
        BY <1>2, <1>4 DEF ConnectionLost, TypeInv, ServerOK
      <3> QED
        BY <1>4, <3>1, NoClientServerOK DEF ConnectionLost, TypeInv, ServerOK
    <2>3. ClientsOK'
      BY <1>4, NoClientOK, OneClientOK DEF ConnectionLost, TypeInv
    <2> QED
      BY <2>1, <2>2, <2>3 DEF TypeInv
  <1>5. CASE BadData(c) \/ DeadlineFires(c)
    <2> DEFINE new == [client[c] EXCEPT !.state = "closing"]
    <2>1. new \in ClientType
      BY <1>1 DEF ClientType
    <2>2. WorkerOK(new)
      BY <1>1 DEF ClientType, WorkerOK
    <2>3. OnlyClient(c, new)
      BY <1>5 DEF BadData, DeadlineFires
    <2> QED
      BY <2>1, <2>2, <2>3, OnlyClientTypeInv
  <1>6. CASE PauseWriting(c)
    <2> DEFINE new == [client[c] EXCEPT !.behind = TRUE]
    <2>1. new \in ClientType
      BY <1>1 DEF ClientType
    <2>2. WorkerOK(new)
      BY <1>1 DEF ClientType, WorkerOK
    <2>3. OnlyClient(c, new)
      BY <1>6 DEF PauseWriting
    <2> QED
      BY <2>1, <2>2, <2>3, OnlyClientTypeInv
  <1>7. CASE ResumeWriting(c)
    <2> DEFINE new == [client[c] EXCEPT !.behind = FALSE]
    <2>1. new \in ClientType
      BY <1>1 DEF ClientType
    <2>2. WorkerOK(new)
      BY <1>1 DEF ClientType, WorkerOK
    <2>3. OnlyClient(c, new)
      BY <1>7 DEF ResumeWriting
    <2> QED
      BY <2>1, <2>2, <2>3, OnlyClientTypeInv
  <1>8. CASE TooSlow(c)
    <2> DEFINE new == [client[c] EXCEPT !.behind = FALSE, !.state = "closing"]
    <2>1. new \in ClientType
      BY <1>1 DEF ClientType
    <2>2. WorkerOK(new)
      BY <1>1 DEF ClientType, WorkerOK
    <2>3. OnlyClient(c, new)
      BY <1>8 DEF TooSlow
    <2> QED
      BY <2>1, <2>2, <2>3, OnlyClientTypeInv
  <1>9. ASSUME NEW r \in Requests, DataReceived(c, r)
        PROVE  TypeInv'
    <2> DEFINE queue == Append(client[c].queue, r)
               work == IF client[c].work = "none" THEN "ready" ELSE client[c].work
               new == [client[c] EXCEPT !.queue = queue, !.work = work]
    <2>1. queue \in Queues
      BY <1>1, QueuesOK, EnvironmentAssumption DEF ClientType
    <2>2. OnlyClient(c, new)
      BY <1>1, <1>9 DEF DataReceived, ClientType
    <2>3. work \in {"none", "ready", "wkt", "waiting", "woken"}
      BY <1>1 DEF ClientType
    <2>4. work \in {"wkt", "waiting", "woken"} => work = client[c].work
      BY <1>1 DEF ClientType
    <2> HIDE DEF queue, work
    <2>5. new \in ClientType
      BY <1>1, <2>1, <2>3 DEF ClientType
    <2>6. WorkerOK(new)
      BY <1>1, <2>4 DEF ClientType, WorkerOK
    <2> HIDE DEF new
    <2> QED
      BY <2>2, <2>5, <2>6, OnlyClientTypeInv
  <1> QED
    BY <1>3, <1>4, <1>5, <1>6, <1>7, <1>8, <1>9 DEF Peer, Timers

LEMMA AnsweredOK ==
  ASSUME TypeInv, NEW c \in Conns, NEW r, Handling(c, r)
  PROVE  /\ client[c] \in ClientType /\ r \in RequestType
         /\ Answered(c) \in ClientType
         /\ Answered(c).work \in {"none", "ready"}
  <1> DEFINE rest == Tail(client[c].queue)
             work == NextWork(c, rest)
  <1>1. client[c] \in ClientType /\ client[c].queue \in Queues
    BY DEF TypeInv, ClientsOK, ClientType
  <1>2. rest \in Queues /\ r \in RequestType
    BY <1>1, QueuesOK DEF Handling
  <1>3. work \in {"none", "ready"}
    BY DEF NextWork
  <1>4. Answered(c) = [client[c] EXCEPT !.queue = rest, !.work = work]
    BY DEF Answered
  <1> HIDE DEF rest, work
  <1>5. Answered(c) \in ClientType
    BY <1>1, <1>2, <1>3, <1>4 DEF ClientType
  <1>6. Answered(c).work = work
    BY <1>1, <1>4 DEF ClientType
  <1> QED
    BY <1>1, <1>2, <1>3, <1>5, <1>6

LEMMA RequestOverOK ==
  ASSUME TypeInv, NEW c \in Conns
  PROVE  /\ RequestOver(c) \in ClientType
         /\ RequestOver(c).work \in {"none", "ready"}
  <1> DEFINE work == NextWork(c, client[c].queue)
  <1>1. client[c] \in ClientType
    BY DEF TypeInv, ClientsOK
  <1>2. work \in {"none", "ready"}
    BY DEF NextWork
  <1>3. RequestOver(c) = [client[c] EXCEPT !.request = None, !.asked = 0, !.work = work]
    BY DEF RequestOver
  <1> HIDE DEF work
  <1>0. 0 \in 0..MaxEdits
    BY BoundsNat
  <1>4. RequestOver(c) \in ClientType
    BY <1>1, <1>2, <1>3, <1>0 DEF ClientType
  <1>5. RequestOver(c).work = work
    BY <1>1, <1>3 DEF ClientType
  <1> QED
    BY <1>2, <1>4, <1>5

LEMMA IdleWorkerOK ==
  ASSUME NEW cl, cl.work \in {"none", "ready"}
  PROVE  WorkerOK(cl)
  BY DEF WorkerOK

\* The request a worker is in the middle of.
LEMMA RequestOK ==
  ASSUME TypeInv, NEW c \in Conns, client[c].work \in {"wkt", "waiting", "woken"}
  PROVE  /\ client[c] \in ClientType /\ client[c].request \in RequestType
         /\ client[c].work = "wkt" => client[c].request.area \in Wkt
  BY DEF TypeInv, ClientsOK, ClientType, WorkerOK

LEMMA WorkerTypeInv ==
  ASSUME TypeInv, NEW c \in Conns, Worker(c)
  PROVE  TypeInv'
  <1>0. client[c] \in ClientType /\ WorkerOK(client[c])
    BY DEF TypeInv, ClientsOK
  <1>1. CASE WorkerEnds(c)
    <2> DEFINE new == [client[c] EXCEPT !.work = "none"]
    <2>1. new \in ClientType /\ new.work = "none"
      BY <1>0 DEF ClientType
    <2>2. OnlyClient(c, new)
      BY <1>1 DEF WorkerEnds
    <2> HIDE DEF new
    <2> QED
      BY <2>1, <2>2, IdleWorkerOK, OnlyClientTypeInv
  <1>2. CASE Hello(c)
    <2> DEFINE deadline == IF client[c].greeted THEN Answered(c).deadline ELSE "subscribe"
               new == [Answered(c) EXCEPT !.greeted = TRUE, !.deadline = deadline]
    <2>1. PICK r : Handling(c, r)
      BY <1>2 DEF Hello
    <2>2. Answered(c) \in ClientType /\ Answered(c).work \in {"none", "ready"}
      BY <2>1, AnsweredOK
    <2>3. deadline \in {"none", "hello", "subscribe"}
      BY <2>2 DEF ClientType
    <2>4. OnlyClient(c, new)
      BY <1>2 DEF Hello
    <2> HIDE DEF deadline
    <2>5. new \in ClientType /\ new.work \in {"none", "ready"}
      BY <2>2, <2>3 DEF ClientType
    <2> HIDE DEF new
    <2> QED
      BY <2>4, <2>5, IdleWorkerOK, OnlyClientTypeInv
  <1>3. CASE AnswerAtOnce(c) \/ RefuseArea(c)
    <2>1. PICK r : Handling(c, r)
      BY <1>3 DEF AnswerAtOnce, RefuseArea, AsksToSubscribe
    <2>2. OnlyClient(c, Answered(c))
      BY <1>3 DEF AnswerAtOnce, RefuseArea
    <2> QED
      BY <2>1, <2>2, AnsweredOK, IdleWorkerOK, OnlyClientTypeInv
  <1>4. CASE AskToSubscribe(c)
    <2>1. PICK r \in Requests :
            /\ AsksToSubscribe(c, r)
            /\ client' = [client EXCEPT ![c].queue = Tail(@), ![c].request = r,
                                       ![c].asked = Len(edits),
                                       ![c].work = IF r.area \in Wkt THEN "wkt" ELSE "waiting"]
            /\ IF r.area \in Wkt THEN UNCHANGED <<check, again>> ELSE EditsChanged
      BY <1>4 DEF AskToSubscribe
    <2>2. UNCHANGED <<edits, listener, notified, phase, known, ask, perAddress, count>>
      BY <1>4 DEF AskToSubscribe
    <2>3. EditsOK' /\ CheckOK'
      BY <2>1, <2>2, EditsChangedOK DEF TypeInv, EditsOK, CheckOK
    <2>4. ServerOK'
      BY <2>2 DEF TypeInv, ServerOK
    <2>5. ClientsOK'
      <3> DEFINE rest == Tail(client[c].queue)
                 now == Len(edits)
                 work == IF r.area \in Wkt THEN "wkt" ELSE "waiting"
                 new == [client[c] EXCEPT !.queue = rest, !.request = r, !.asked = now,
                                          !.work = work]
      <3>1. rest \in Queues /\ r \in RequestType
        BY <1>0, <2>1, QueuesOK DEF AsksToSubscribe, Handling, ClientType
      <3>2. now \in 0..MaxEdits
        BY DEF TypeInv, EditsOK
      <3>3. work \in {"wkt", "waiting"} /\ (work = "wkt" => r.area \in Wkt)
        OBVIOUS
      <3>4. client' = [client EXCEPT ![c] = new]
        BY <1>0, <2>1 DEF TypeInv, ClientsOK, ClientType
      <3> HIDE DEF rest, now, work
      <3>5. new \in ClientType
        BY <1>0, <3>1, <3>2, <3>3 DEF ClientType
      <3>6. new.work = work /\ new.request = r
        BY <1>0 DEF ClientType
      <3> HIDE DEF new
      <3>7. WorkerOK(new)
        BY <3>1, <3>3, <3>6, AreasAssumption DEF WorkerOK
      <3> QED
        BY <3>4, <3>5, <3>7, OneClientOK DEF TypeInv
    <2> QED
      BY <2>3, <2>4, <2>5 DEF TypeInv
  <1>5. CASE WktChecked(c)
    <2>1. /\ client' = [client EXCEPT ![c].request.area = Tidy[@], ![c].work = "waiting"]
          /\ EditsChanged
          /\ UNCHANGED <<edits, listener, notified, phase, known, ask, perAddress, count>>
          /\ client[c].work = "wkt" /\ WktValid(c)
      BY <1>5 DEF WktChecked
    <2>2. EditsOK' /\ CheckOK'
      BY <2>1, EditsChangedOK DEF TypeInv, EditsOK, CheckOK
    <2>3. ServerOK'
      BY <2>1 DEF TypeInv, ServerOK
    <2>4. ClientsOK'
      <3> DEFINE area == Tidy[client[c].request.area]
                 request == [client[c].request EXCEPT !.area = area]
                 new == [client[c] EXCEPT !.request = request, !.work = "waiting"]
      <3>1. client[c].request \in RequestType /\ client[c].request.area \in Wkt
        BY <2>1, RequestOK
      <3>2. area \in AllAreas
        BY <2>1, <3>1, AreasAssumption DEF WktValid, AllAreas
      <3>3. client' = [client EXCEPT ![c] = new]
        BY <1>0, <2>1 DEF TypeInv, ClientsOK, ClientType
      <3> HIDE DEF area
      <3>4. request \in RequestType
        BY <3>1, <3>2 DEF RequestType
      <3> HIDE DEF request
      <3>5. new \in ClientType
        BY <1>0, <3>4 DEF ClientType
      <3>6. WorkerOK(new)
        BY <1>0, <3>4, AreasAssumption DEF ClientType, WorkerOK
      <3> HIDE DEF new
      <3> QED
        BY <3>3, <3>5, <3>6, OneClientOK DEF TypeInv
    <2> QED
      BY <2>2, <2>3, <2>4 DEF TypeInv
  <1>6. CASE WktRefused(c) \/ SubscribeRefused(c)
    <2>1. OnlyClient(c, RequestOver(c))
      BY <1>6 DEF WktRefused, SubscribeRefused
    <2> QED
      BY <2>1, RequestOverOK, IdleWorkerOK, OnlyClientTypeInv
  <1>7. CASE WktFails(c)
    <2> DEFINE new == [RequestOver(c) EXCEPT !.work = "none"]
    <2>1. /\ client' = [client EXCEPT ![c] = new] /\ MayFail("check_wkt")
          /\ UNCHANGED <<edits, listener, notified, phase, known, check, again, ask, perAddress>>
      BY <1>7 DEF WktFails
    <2>2. new \in ClientType /\ new.work = "none"
      BY RequestOverOK DEF ClientType
    <2> HIDE DEF new
    <2>3. ClientsOK'
      <3>1. WorkerOK(new)
        BY <2>2, IdleWorkerOK
      <3> QED
        BY <2>1, <2>2, <3>1, OneClientOK DEF TypeInv
    <2>4. EditsOK' /\ CheckOK'
      BY <2>1 DEF TypeInv, EditsOK, CheckOK
    <2>5. ServerOK'
      <3>1. count' \in [resets : Nat, failures : Nat, drops : Nat, connects : Nat]
        BY <2>1, MayFailOK DEF TypeInv
      <3> QED
        BY <2>1, <3>1 DEF TypeInv, ServerOK
    <2> QED
      BY <2>3, <2>4, <2>5 DEF TypeInv
  <1>8. CASE Subscribe(c)
    <2> DEFINE r == client[c].request
               key == <<r.area, r.format>>
               new == [RequestOver(c) EXCEPT !.sub[r.kind] = key, !.start[r.kind] = known,
                                             !.deadline = "none"]
    <2>1. OnlyClient(c, new) /\ client[c].work = "woken"
      BY <1>8 DEF Subscribe
    <2>2. r \in RequestType
      BY <2>1, RequestOK
    <2>3. r.kind \in Kinds /\ key \in Keys
      BY <2>2 DEF RequestType, Keys
    <2>4. known \in 0..MaxEdits
      BY DEF TypeInv, CheckOK
    <2>5. RequestOver(c) \in ClientType /\ RequestOver(c).work \in {"none", "ready"}
      BY RequestOverOK
    <2> HIDE DEF key, r
    <2>6. new \in ClientType /\ new.work \in {"none", "ready"}
      BY <2>3, <2>4, <2>5 DEF ClientType
    <2> HIDE DEF new
    <2> QED
      BY <2>1, <2>6, IdleWorkerOK, OnlyClientTypeInv
  <1>9. CASE Unsubscribe(c)
    <2>1. PICK r \in Requests :
            /\ Handling(c, r)
            /\ OnlyClient(c, [Answered(c) EXCEPT
                   !.sub[r.kind] = None, !.start[r.kind] = 0,
                   !.told = IF r.kind = "edits" THEN 0 ELSE @,
                   !.heard = IF r.kind = "records" THEN NoneHeard ELSE @,
                   !.deadline = DeadlineWithout(c, r.kind)])
      BY <1>9 DEF Unsubscribe
    <2> DEFINE told == IF r.kind = "edits" THEN 0 ELSE Answered(c).told
               heard == IF r.kind = "records" THEN NoneHeard ELSE Answered(c).heard
               deadline == DeadlineWithout(c, r.kind)
               new == [Answered(c) EXCEPT !.sub[r.kind] = None, !.start[r.kind] = 0,
                                          !.told = told, !.heard = heard, !.deadline = deadline]
    <2>2. Answered(c) \in ClientType /\ Answered(c).work \in {"none", "ready"}
      BY <2>1, AnsweredOK
    <2>3. told \in 0..MaxEdits /\ heard \in [EditIds -> Nat]
      BY <2>2, BoundsNat DEF ClientType, NoneHeard
    <2>4. deadline \in {"none", "hello", "subscribe"}
      BY <1>0 DEF DeadlineWithout, ClientType
    <2>5. OnlyClient(c, new)
      BY <2>1
    <2> HIDE DEF told, heard, deadline
    <2>0. 0 \in 0..MaxEdits
      BY BoundsNat
    <2>6. new \in ClientType /\ new.work \in {"none", "ready"}
      BY <2>2, <2>3, <2>4, <2>0 DEF ClientType
    <2> HIDE DEF new
    <2> QED
      BY <2>5, <2>6, IdleWorkerOK, OnlyClientTypeInv
  <1> QED
    BY <1>1, <1>2, <1>3, <1>4, <1>5, <1>6, <1>7, <1>8, <1>9 DEF Worker

LEMMA StopTypeInv ==
  ASSUME TypeInv, Stop \/ Stopped
  PROVE  TypeInv'
  <1> USE DEF TypeInv
  <1>1. EditsOK'
    BY DEF Stop, Stopped, EditsOK
  <1>2. ServerOK'
    <2>1. notified' \in BOOLEAN
      BY DEF Stop, Stopped, ServerOK
    <2>2. UNCHANGED <<perAddress, count>> /\ phase' \in {"stopping", "stopped"}
          /\ (listener' = listener \/ listener' \in {"down", "closed"})
      BY DEF Stop, Stopped
    <2> QED
      BY <2>1, <2>2 DEF ServerOK
  <1>3. CheckOK' /\ ClientsOK'
    <2>1. CASE Stop
      <3>1. client' = client \/ client' = Woken(client)
        BY <2>1 DEF Stop
      <3>2. ClientsOK'
        BY <3>1, WokenOK DEF ClientsOK
      <3>3. UNCHANGED <<known, again>> /\ ask' = NothingAsked
            /\ check' \in {"cancelled", "none"}
        BY <2>1 DEF Stop
      <3> QED
        BY <3>2, <3>3, NothingAskedOK DEF CheckOK
    <2>2. CASE Stopped
      BY <2>2 DEF Stopped, CheckOK, ClientsOK
    <2> QED
      BY <2>1, <2>2
  <1> QED
    BY <1>1, <1>2, <1>3

LEMMA StutterTypeInv ==
  ASSUME TypeInv, UNCHANGED vars
  PROVE  TypeInv'
  BY DEF TypeInv, EditsOK, ServerOK, CheckOK, ClientsOK, vars

LEMMA NextTypeInv ==
  ASSUME TypeInv, [Next]_vars
  PROVE  TypeInv'
  BY OutsideTypeInv, CheckingTypeInv, PeerTypeInv, WorkerTypeInv, StopTypeInv, StutterTypeInv
     DEF Next

\* Every variable keeps its type: what is asked of the map, told to clients and
\* waited for stays within what the code can hold.
THEOREM TypeCorrect == Spec => []TypeOK
  <1>1. Init => TypeInv
    BY InitTypeInv
  <1>2. TypeInv /\ [Next]_vars => TypeInv'
    BY NextTypeInv
  <1>3. TypeInv => TypeOK
    BY DEF TypeInv, EditsOK, ServerOK, CheckOK, ClientsOK, TypeOK
  <1> QED
    BY <1>1, <1>2, <1>3, PTL DEF Spec


-----------------------------------------------------------------------------
(* The inductive invariant.  Its parts speak of a history of edits h and a *)
(* client cl rather than of the variables, so that the lemmas about them   *)
(* are about values.                                                       *)

ConcerningIn(h, first, last, area) ==
    {e \in EditIds : /\ first <= e /\ e <= last /\ e <= Len(h)
                     /\ area = Everywhere \/ area \in h[e]}

\* A connection lost has left nothing behind, and one that waits to subscribe
\* has not subscribed meanwhile: its worker handles one request at a time.
TidyClient(cl) ==
    /\ cl.state = "none" => cl = NoClient
    /\ cl.work \in {"wkt", "waiting", "woken"} => cl.sub[cl.request.kind] = None
Tidied == \A c \in Conns : TidyClient(client[c])

\* What a client was sent is what its subscriptions are due up to edit n.
HeardDue(h, cl, n) ==
    /\ \A kind \in Kinds : cl.start[kind] <= n
    /\ cl.sub["records"] = None => cl.heard = NoneHeard
    /\ cl.sub["edits"] = None => cl.told = 0
    /\ cl.state = "open" /\ cl.sub["records"] # None =>
          \A e \in EditIds :
              cl.heard[e] = IF e \in ConcerningIn(h, cl.start["records"] + 1, n, cl.sub["records"][1])
                            THEN 1 ELSE 0
    /\ cl.state = "open" /\ cl.sub["edits"] # None =>
          /\ \A e \in ConcerningIn(h, cl.start["edits"] + 1, n, cl.sub["edits"][1]) : cl.told >= e
          /\ cl.told <= n
          /\ cl.told = 0 \/ cl.told > cl.start["edits"]

\* What a check has learned, of the edits after n, is what the map holds: an
\* area answered no has none, and the records found are all.
Learned(h, n, q) ==
    /\ n < q.target /\ q.target <= Len(h)
    /\ Everywhere \in q.concerned
    /\ \A area \in q.answered \ q.concerned : ConcerningIn(h, n + 1, q.target, area) = {}
    /\ \A key \in q.read : q.found[key] = ConcerningIn(h, n + 1, q.target, key[1])

FeedInv ==
    count.resets = 0 =>
        /\ known <= Len(edits)
        /\ check # "asking" => ask.read = {}
        /\ check = "read" => known <= ask.target /\ ask.target <= Len(edits)
        /\ check = "asking" => Learned(edits, known, ask)
        /\ \A c \in Conns : HeardDue(edits, client[c], known)

-----------------------------------------------------------------------------
(* About values.                                                           *)

LEMMA ConcerningAppend ==
  ASSUME NEW S, NEW h \in Seq(S), NEW areas \in S, NEW first, NEW area,
         NEW last \in Nat, last <= Len(h)
  PROVE  ConcerningIn(Append(h, areas), first, last, area) = ConcerningIn(h, first, last, area)
  <1>1. \A e \in EditIds : e <= last =>
           /\ e <= Len(h) /\ e <= Len(Append(h, areas)) /\ Append(h, areas)[e] = h[e]
    BY BoundsNat DEF EditIds
  <1> HIDE DEF EditIds
  <1> QED
    BY <1>1 DEF ConcerningIn

LEMMA ConcerningAdvance ==
  ASSUME NEW h, NEW start \in Nat, NEW n \in Nat, NEW last \in Nat,
         start <= n, n <= last, NEW area, NEW e \in EditIds
  PROVE  e \in ConcerningIn(h, start + 1, last, area)
            <=> \/ e \in ConcerningIn(h, start + 1, n, area)
                \/ e \in ConcerningIn(h, n + 1, last, area)
  BY BoundsNat DEF ConcerningIn, EditIds

LEMMA ConcerningApart ==
  ASSUME NEW h, NEW start \in Nat, NEW n \in Nat, NEW last \in Nat,
         NEW area, NEW e \in EditIds
  PROVE  ~(/\ e \in ConcerningIn(h, start + 1, n, area)
           /\ e \in ConcerningIn(h, n + 1, last, area))
  BY BoundsNat DEF ConcerningIn, EditIds

\* What a client was sent is still all it is due after an edit is committed.
LEMMA HeardDueAppend ==
  ASSUME NEW S, NEW h \in Seq(S), NEW areas \in S, NEW n \in Nat, n <= Len(h),
         NEW cl, HeardDue(h, cl, n)
  PROVE  HeardDue(Append(h, areas), cl, n)
  BY ConcerningAppend DEF HeardDue

LEMMA LearnedAppend ==
  ASSUME NEW S, NEW h \in Seq(S), NEW areas \in S, NEW n \in Nat,
         NEW q \in AskType, Learned(h, n, q)
  PROVE  Learned(Append(h, areas), n, q)
  <1>1. q.target \in Nat /\ q.target <= Len(h) /\ n < q.target
    BY BoundsNat DEF AskType, Learned
  <1>2. \A area : ConcerningIn(Append(h, areas), n + 1, q.target, area)
                     = ConcerningIn(h, n + 1, q.target, area)
    BY <1>1, ConcerningAppend
  <1>3. q.target <= Len(Append(h, areas))
    BY <1>1
  <1> QED
    BY <1>1, <1>2, <1>3 DEF Learned

\* A client that keeps its subscriptions and is sent nothing.
LEMMA HeardDueQuiet ==
  ASSUME NEW h, NEW n, NEW cl, NEW new, HeardDue(h, cl, n),
         new.sub = cl.sub, new.start = cl.start, new.told = cl.told, new.heard = cl.heard,
         new.state = "open" => cl.state = "open"
  PROVE  HeardDue(h, new, n)
  BY DEF HeardDue

LEMMA HeardDueClosed ==
  ASSUME NEW h, NEW n \in Nat, NEW m \in Nat, n <= m, NEW cl \in ClientType,
         cl.state # "open", HeardDue(h, cl, n)
  PROVE  HeardDue(h, cl, m)
  <1>1. \A kind \in Kinds : cl.start[kind] \in Nat
    BY BoundsNat DEF ClientType
  <1> QED
    BY <1>1 DEF HeardDue

\* A client told at the end of a check that asked about all it follows.
LEMMA HeardDueTold ==
  ASSUME ClientsOK, CheckOK, NEW c \in Conns, NEW q \in AskType,
         client[c].state = "open", HeardDue(edits, client[c], known), Learned(edits, known, q),
         Subscribed(c, "edits") => client[c].sub["edits"][1] \in q.answered,
         Subscribed(c, "records") => client[c].sub["records"] \in q.read
  PROVE  HeardDue(edits, Told(c, q), q.target)
  <1> DEFINE cl == client[c]
             edited == Subscribed(c, "edits") /\ cl.sub["edits"][1] \in q.concerned
             records == IF Subscribed(c, "records") THEN q.found[cl.sub["records"]] ELSE {}
             told == IF edited THEN q.target ELSE cl.told
             heard == [e \in EditIds |-> cl.heard[e] + IF e \in records THEN 1 ELSE 0]
             new == Told(c, q)
  <1>1. cl \in ClientType
    BY DEF ClientsOK
  <1>2. /\ new.sub = cl.sub /\ new.start = cl.start /\ new.state = cl.state
        /\ new.told = told /\ new.heard = heard
    BY <1>1 DEF Told, ClientType
  <1>3. /\ known \in Nat /\ q.target \in Nat /\ known < q.target
        /\ \A kind \in Kinds : cl.start[kind] \in Nat /\ cl.start[kind] <= known
        /\ cl.told \in Nat /\ cl.heard \in [EditIds -> Nat]
    BY <1>1, BoundsNat DEF CheckOK, AskType, ClientType, Learned, HeardDue
  <1>4. \A kind \in Kinds : new.start[kind] <= q.target
    BY <1>2, <1>3
  <1>5. cl.sub["records"] = None => heard = NoneHeard
    <2> SUFFICES ASSUME cl.sub["records"] = None PROVE heard = NoneHeard
      OBVIOUS
    <2>1. records = {} /\ cl.heard = NoneHeard
      BY DEF Subscribed, HeardDue
    <2> QED
      BY <2>1 DEF NoneHeard
  <1>6. cl.sub["edits"] = None => told = 0
    BY DEF HeardDue, Subscribed
  <1>7. ASSUME cl.sub["records"] # None, NEW e \in EditIds
        PROVE  heard[e] = IF e \in ConcerningIn(edits, cl.start["records"] + 1, q.target,
                                               cl.sub["records"][1])
                          THEN 1 ELSE 0
    <2> DEFINE area == cl.sub["records"][1]
               before == ConcerningIn(edits, cl.start["records"] + 1, known, area)
               after == ConcerningIn(edits, known + 1, q.target, area)
    <2>1. cl.heard[e] = IF e \in before THEN 1 ELSE 0
      BY <1>7 DEF HeardDue
    <2>2. records = after
      BY <1>7 DEF Learned, Subscribed
    <2>3. ~(e \in before /\ e \in after)
      BY <1>3, ConcerningApart DEF Kinds
    <2>4. e \in ConcerningIn(edits, cl.start["records"] + 1, q.target, area)
             <=> e \in before \/ e \in after
      <3>1. cl.start["records"] \in Nat /\ cl.start["records"] <= known /\ known <= q.target
        BY <1>3 DEF Kinds
      <3>2. known \in Nat /\ q.target \in Nat /\ e \in EditIds
        BY <1>3, <1>7
      <3> HIDE DEF cl, area
      <3> QED
        BY <3>1, <3>2, BoundsNat DEF ConcerningIn, EditIds
    <2>5. heard[e] = cl.heard[e] + IF e \in after THEN 1 ELSE 0
      BY <2>2
    <2> HIDE DEF before, after, heard
    <2> QED
      BY <2>1, <2>3, <2>4, <2>5
  <1>8. ASSUME cl.sub["edits"] # None
        PROVE  /\ \A e \in ConcerningIn(edits, cl.start["edits"] + 1, q.target, cl.sub["edits"][1]) :
                     told >= e
               /\ told <= q.target
               /\ told = 0 \/ told > cl.start["edits"]
    <2> DEFINE area == cl.sub["edits"][1]
    <2>1. /\ \A e \in ConcerningIn(edits, cl.start["edits"] + 1, known, area) : cl.told >= e
          /\ cl.told <= known
          /\ cl.told = 0 \/ cl.told > cl.start["edits"]
      BY <1>8 DEF HeardDue
    <2>2. CASE area \in q.concerned
      <3>1. told = q.target
        BY <1>8, <2>2 DEF Subscribed
      <3> QED
        BY <1>3, <3>1, BoundsNat DEF ConcerningIn, EditIds, Kinds
    <2>3. CASE area \notin q.concerned
      <3>1. told = cl.told
        BY <2>3
      <3>2. ConcerningIn(edits, known + 1, q.target, area) = {}
        BY <1>8, <2>3 DEF Learned, Subscribed
      <3>3. \A e \in ConcerningIn(edits, cl.start["edits"] + 1, q.target, area) :
               e \in ConcerningIn(edits, cl.start["edits"] + 1, known, area)
        <4> TAKE e \in ConcerningIn(edits, cl.start["edits"] + 1, q.target, area)
        <4>1. e \in EditIds
          BY DEF ConcerningIn
        <4> QED
          BY <1>3, <3>2, <4>1, ConcerningAdvance DEF Kinds
      <3> HIDE DEF told
      <3> QED
        BY <1>3, <2>1, <3>1, <3>3
    <2> QED
      BY <2>2, <2>3
  <1> HIDE DEF told, heard, new
  <1>9. new.sub["records"] = cl.sub["records"] /\ new.sub["edits"] = cl.sub["edits"]
        /\ new.start["records"] = cl.start["records"] /\ new.start["edits"] = cl.start["edits"]
    BY <1>2
  <1>10. HeardDue(edits, new, q.target)
    BY <1>2, <1>4, <1>5, <1>6, <1>7, <1>8, <1>9 DEF HeardDue
  <1> QED
    BY <1>10 DEF new

\* Woken, a client is sent nothing.
LEMMA HeardDueWoken ==
  ASSUME NEW clients \in [Conns -> ClientType], NEW h, NEW n,
         \A c \in Conns : HeardDue(h, clients[c], n)
  PROVE  \A c \in Conns : HeardDue(h, Woken(clients)[c], n)
  <1> TAKE c \in Conns
  <1> DEFINE new == [clients[c] EXCEPT !.work = "woken"]
  <1>1. /\ new.sub = clients[c].sub /\ new.start = clients[c].start
        /\ new.told = clients[c].told /\ new.heard = clients[c].heard
        /\ new.state = clients[c].state
    BY DEF ClientType
  <1>2. Woken(clients)[c] = clients[c] \/ Woken(clients)[c] = new
    BY DEF Woken
  <1> HIDE DEF new
  <1> QED
    BY <1>1, <1>2, HeardDueQuiet

-----------------------------------------------------------------------------
(* The check.                                                              *)

\* What the loop leaves of the invariant as it takes a check further.
FeedKept ==
    /\ known' <= Len(edits) /\ check' # "read"
    /\ check' # "asking" => ask'.read = {}
    /\ check' = "asking" => Learned(edits, known', ask')
    /\ \A c \in Conns : HeardDue(edits, client'[c], known')

LEMMA SettleFeed ==
  ASSUME NEW clients \in [Conns -> ClientType], Settle(clients), known' <= Len(edits),
         \A c \in Conns : HeardDue(edits, clients[c], known')
  PROVE  FeedKept
  <1>1. client' = clients \/ client' = Woken(clients)
    BY DEF Settle
  <1>2. \A c \in Conns : HeardDue(edits, Woken(clients)[c], known')
    BY HeardDueWoken
  <1>3. check' \in {"latest", "none"} /\ ask'.read = {}
    BY DEF Settle, NothingAsked
  <1> QED
    BY <1>1, <1>2, <1>3 DEF FeedKept

LEMMA AnnounceFeed ==
  ASSUME TypeInv, NEW q \in AskType, Announce(q), Learned(edits, known, q),
         \A c \in Conns : HeardDue(edits, client[c], known),
         EditsAreas \subseteq q.answered,
         Subscriptions("records") \subseteq q.read \cup q.failed
  PROVE  FeedKept
  <1> DEFINE clients == [c \in Conns |->
                  IF Dropped(c, q) THEN [client[c] EXCEPT !.state = "closing"]
                  ELSE IF client[c].state = "open" THEN Told(c, q) ELSE client[c]]
  <1>0. CheckOK /\ ClientsOK
    BY DEF TypeInv
  <1>1. known \in Nat /\ q.target \in Nat /\ known <= q.target /\ q.target <= Len(edits)
    BY BoundsNat DEF TypeInv, CheckOK, AskType, Learned
  <1>2. \A c \in Conns : client[c] \in ClientType
    BY DEF TypeInv, ClientsOK
  <1>3. ASSUME NEW c \in Conns, Dropped(c, q)
        PROVE  /\ [client[c] EXCEPT !.state = "closing"] \in ClientType
               /\ HeardDue(edits, [client[c] EXCEPT !.state = "closing"], q.target)
    <2> DEFINE new == [client[c] EXCEPT !.state = "closing"]
    <2>1. /\ new \in ClientType /\ new.state = "closing"
          /\ new.sub = client[c].sub /\ new.start = client[c].start
          /\ new.told = client[c].told /\ new.heard = client[c].heard
      BY <1>2 DEF ClientType
    <2> HIDE DEF new
    <2>2. HeardDue(edits, new, known)
      BY <2>1, HeardDueQuiet
    <2>3. HeardDue(edits, new, q.target)
      BY <1>1, <2>1, <2>2, HeardDueClosed
    <2> QED
      BY <2>1, <2>3 DEF new
  <1>4. ASSUME NEW c \in Conns, ~Dropped(c, q), client[c].state = "open"
        PROVE  Told(c, q) \in ClientType /\ HeardDue(edits, Told(c, q), q.target)
    <2>1. Subscribed(c, "edits") => client[c].sub["edits"][1] \in q.answered
      BY DEF EditsAreas, Subscriptions
    <2>2. Subscribed(c, "records") => client[c].sub["records"] \in q.read
      <3>1. Subscribed(c, "records") => client[c].sub["records"] \in Subscriptions("records")
        BY DEF Subscriptions
      <3> QED
        BY <1>4, <3>1 DEF Dropped
    <2>3. HeardDue(edits, client[c], known)
      OBVIOUS
    <2> QED
      BY <1>0, <1>4, <2>1, <2>2, <2>3, HeardDueTold, ToldOK
  <1>5. ASSUME NEW c \in Conns, client[c].state # "open"
        PROVE  HeardDue(edits, client[c], q.target)
    BY <1>1, <1>2, <1>5, HeardDueClosed
  <1>6. ASSUME NEW c \in Conns
        PROVE  clients[c] \in ClientType /\ HeardDue(edits, clients[c], q.target)
    <2>1. CASE Dropped(c, q)
      BY <1>3, <2>1
    <2>2. CASE ~Dropped(c, q) /\ client[c].state = "open"
      BY <1>4, <2>2
    <2>3. CASE ~Dropped(c, q) /\ client[c].state # "open"
      BY <1>2, <1>5, <2>3
    <2> QED
      BY <2>1, <2>2, <2>3
  <1>7. clients \in [Conns -> ClientType]
    BY <1>6
  <1>8. Settle(clients) /\ known' = q.target
    BY DEF Announce
  <1> HIDE DEF clients
  <1> QED
    BY <1>1, <1>6, <1>7, <1>8, SettleFeed

LEMMA AskOrAnnounceFeed ==
  ASSUME TypeInv, NEW q \in AskType, AskOrAnnounce(q), Learned(edits, known, q),
         known <= Len(edits),
         \A c \in Conns : HeardDue(edits, client[c], known)
  PROVE  FeedKept
  <1> DEFINE areas == EditsAreas \ q.answered
             keys == (Subscriptions("records") \ q.read) \ q.failed
  <1>1. CASE areas = {} /\ keys = {}
    <2>1. Announce(q)
      BY <1>1 DEF AskOrAnnounce
    <2>2. EditsAreas \subseteq q.answered /\ Subscriptions("records") \subseteq q.read \cup q.failed
      BY <1>1
    <2> QED
      BY <2>1, <2>2, AnnounceFeed
  <1>2. CASE ~(areas = {} /\ keys = {})
    <2>1. /\ check' = "asking" /\ ask' = [q EXCEPT !.areas = areas, !.keys = keys]
          /\ UNCHANGED <<again, known, client>>
      BY <1>2 DEF AskOrAnnounce
    <2> HIDE DEF areas, keys
    <2>2. Learned(edits, known, ask')
      <3>1. /\ ask'.target = q.target /\ ask'.answered = q.answered
            /\ ask'.concerned = q.concerned /\ ask'.read = q.read /\ ask'.found = q.found
        BY <2>1 DEF AskType
      <3> QED
        BY <3>1 DEF Learned
    <2> QED
      BY <2>1, <2>2 DEF FeedKept
  <1> QED
    BY <1>1, <1>2

LEMMA NextAnswerFeed ==
  ASSUME TypeInv, NEW q \in AskType, NextAnswer(q), check = "asking",
         Learned(edits, known, q), known <= Len(edits),
         \A c \in Conns : HeardDue(edits, client[c], known)
  PROVE  FeedKept
  <1>1. CASE q.areas = {} /\ q.keys = {}
    BY <1>1, AskOrAnnounceFeed DEF NextAnswer
  <1>2. CASE ~(q.areas = {} /\ q.keys = {})
    BY <1>2 DEF NextAnswer, FeedKept
  <1> QED
    BY <1>1, <1>2

LEMMA CheckingFeedInv ==
  ASSUME TypeInv, FeedInv, Checking
  PROVE  FeedInv'
  <1> SUFFICES ASSUME count.resets = 0
               PROVE  /\ known' <= Len(edits)
                      /\ check' # "asking" => ask'.read = {}
                      /\ check' = "read" => known' <= ask'.target /\ ask'.target <= Len(edits)
                      /\ check' = "asking" => Learned(edits, known', ask')
                      /\ \A c \in Conns : HeardDue(edits, client'[c], known')
    <2>1. edits' = edits
      BY DEF Checking, CheckBegins, ReadLatest, ReadLatestFails, CheckLatest, AreaAnswered,
             RecordsAnswered
    <2>2. count'.resets = count.resets
      BY DEF Checking, CheckBegins, ReadLatest, ReadLatestFails, CheckLatest, AreaAnswered,
             RecordsAnswered, MayFail, TypeInv, ServerOK
    <2> QED
      BY <2>1, <2>2 DEF FeedInv
  <1>1. /\ known <= Len(edits)
        /\ check # "asking" => ask.read = {}
        /\ check = "read" => known <= ask.target /\ ask.target <= Len(edits)
        /\ check = "asking" => Learned(edits, known, ask)
        /\ \A c \in Conns : HeardDue(edits, client[c], known)
    BY DEF FeedInv
  <1>2. known \in Nat /\ ask.target \in Nat /\ ask \in AskType /\ client \in [Conns -> ClientType]
        /\ Len(edits) \in Nat
    BY BoundsNat DEF TypeInv, EditsOK, CheckOK, ClientsOK, AskType
  <1>3. CASE CheckBegins
    BY <1>1, <1>3 DEF CheckBegins
  <1>4. CASE ReadLatest
    <2>1. ask'.target = Len(edits) /\ ask'.read = ask.read
      BY <1>2, <1>4 DEF ReadLatest, AskType
    <2> QED
      BY <1>1, <1>2, <1>4, <2>1 DEF ReadLatest
  <1>5. CASE ReadLatestFails
    <2>1. Settle(client) /\ known' = known
      BY <1>5 DEF ReadLatestFails
    <2> QED
      BY <1>1, <1>2, <2>1, SettleFeed DEF FeedKept
  <1>6. CASE CheckLatest
    <2>1. CASE ask.target <= known
      <3>1. Settle(client) /\ known' = known
        BY <1>1, <1>2, <1>6, <2>1 DEF CheckLatest
      <3> QED
        BY <1>1, <1>2, <3>1, SettleFeed DEF FeedKept
    <2>2. CASE ~(ask.target <= known)
      <3> DEFINE q == [ask EXCEPT !.answered = {Everywhere}, !.concerned = {Everywhere}]
      <3>1. AskOrAnnounce(q)
        BY <1>6, <2>2 DEF CheckLatest
      <3>2. q \in AskType /\ q.target = ask.target /\ q.answered = {Everywhere}
            /\ q.concerned = {Everywhere} /\ q.read = ask.read /\ q.found = ask.found
        BY <1>2 DEF AskType, AllAreas
      <3> HIDE DEF q
      <3>3. Learned(edits, known, q)
        BY <1>1, <1>2, <1>6, <2>2, <3>2 DEF CheckLatest, Learned
      <3> QED
        BY <1>1, <3>1, <3>2, <3>3, AskOrAnnounceFeed DEF FeedKept
    <2> QED
      BY <2>1, <2>2
  <1>7. ASSUME NEW area \in AllAreas, AreaAnswered(area)
        PROVE  FeedKept
    <2>1. PICK yes \in BOOLEAN :
             /\ yes = (Concerning(known + 1, ask.target, area) # {}) \/ yes = TRUE
             /\ NextAnswer([ask EXCEPT !.areas = @ \ {area}, !.answered = @ \cup {area},
                                       !.concerned = IF yes THEN @ \cup {area} ELSE @])
      BY <1>7 DEF AreaAnswered
    <2> DEFINE concerned == IF yes THEN ask.concerned \cup {area} ELSE ask.concerned
               q == [ask EXCEPT !.areas = @ \ {area}, !.answered = @ \cup {area},
                                !.concerned = concerned]
    <2>2. NextAnswer(q)
      BY <2>1
    <2>3. q \in AskType /\ q.target = ask.target /\ q.answered = ask.answered \cup {area}
          /\ q.concerned = concerned /\ q.read = ask.read /\ q.found = ask.found
      BY <1>2 DEF AskType
    <2>4. ask.concerned \subseteq concerned
          /\ (area \notin concerned => Concerning(known + 1, ask.target, area) = {})
      BY <2>1
    <2>5. Concerning(known + 1, ask.target, area) = ConcerningIn(edits, known + 1, ask.target, area)
      BY DEF Concerning, ConcerningIn, Concerns
    <2>6. check = "asking"
      BY <1>7 DEF AreaAnswered
    <2> HIDE DEF q, concerned
    <2>7. Learned(edits, known, q)
      BY <1>1, <2>3, <2>4, <2>5, <2>6 DEF Learned
    <2> QED
      BY <1>1, <2>2, <2>3, <2>6, <2>7, NextAnswerFeed
  <1>8. ASSUME NEW key \in Keys, RecordsAnswered(key)
        PROVE  FeedKept
    <2> DEFINE some == Concerning(known + 1, ask.target, key[1])
               found == [ask EXCEPT !.keys = @ \ {key}, !.read = @ \cup {key}, !.found[key] = some]
               failed == [ask EXCEPT !.keys = @ \ {key}, !.failed = @ \cup {key}]
    <2>1. check = "asking"
      BY <1>8 DEF RecordsAnswered
    <2>2. NextAnswer(found) \/ NextAnswer(failed)
      BY <1>8 DEF RecordsAnswered
    <2>3. some \subseteq EditIds /\ some = ConcerningIn(edits, known + 1, ask.target, key[1])
      BY DEF Concerning, ConcerningIn, Concerns
    <2> HIDE DEF some
    <2>4. found \in AskType /\ found.target = ask.target /\ found.answered = ask.answered
          /\ found.concerned = ask.concerned /\ found.read = ask.read \cup {key}
          /\ found.found = [ask.found EXCEPT ![key] = some]
      BY <1>2, <2>3 DEF AskType
    <2>5. failed \in AskType /\ failed.target = ask.target /\ failed.answered = ask.answered
          /\ failed.concerned = ask.concerned /\ failed.read = ask.read
          /\ failed.found = ask.found
      BY <1>2 DEF AskType
    <2>6. /\ found.found[key] = some
          /\ \A k \in ask.read : k # key => found.found[k] = ask.found[k]
      BY <1>2, <2>4 DEF AskType
    <2> HIDE DEF found, failed
    <2>7. Learned(edits, known, found)
      BY <1>1, <2>1, <2>3, <2>4, <2>6 DEF Learned
    <2>8. Learned(edits, known, failed)
      BY <1>1, <2>1, <2>5 DEF Learned
    <2> QED
      BY <1>1, <2>1, <2>2, <2>4, <2>5, <2>7, <2>8, NextAnswerFeed
  <1> QED
    BY <1>3, <1>4, <1>5, <1>6, <1>7, <1>8 DEF Checking, FeedKept

-----------------------------------------------------------------------------
(* The rest of the system leaves the feed alone, but for subscribing.      *)

\* A step that leaves the map and the check where they are, or begins one.
LEMMA ClientsFeedInv ==
  ASSUME TypeInv, FeedInv, UNCHANGED <<edits, known, ask>>,
         check' = check \/ (check' \in {"begin", "none", "cancelled"} /\ check # "asking"),
         count'.resets = count.resets,
         count.resets = 0 /\ known <= Len(edits) =>
             \A c \in Conns : HeardDue(edits, client[c], known) => HeardDue(edits, client'[c], known)
  PROVE  FeedInv'
  BY DEF FeedInv

LEMMA OutsideFeedInv ==
  ASSUME TypeInv, FeedInv, Map \/ Listening \/ Heartbeat
  PROVE  FeedInv'
  <1>0. known \in Nat /\ ask \in AskType
    BY BoundsNat DEF TypeInv, CheckOK
  <1>1. ASSUME NEW areas \in EditKinds, Commit(areas)
        PROVE  FeedInv'
    <2>1. /\ edits \in Seq(SUBSET Areas) /\ areas \in SUBSET Areas
          /\ edits' = Append(edits, areas)
          /\ UNCHANGED <<known, check, ask, client, count>>
      BY <1>1, EnvironmentAssumption DEF Commit, TypeInv, EditsOK
    <2>2. Len(edits') = Len(edits) + 1 /\ Len(edits) \in Nat
      BY <2>1
    <2>3. ask.target \in Nat
      BY <1>0, BoundsNat DEF AskType
    <2>4. ASSUME known <= Len(edits), NEW c \in Conns, HeardDue(edits, client[c], known)
          PROVE  HeardDue(edits', client[c], known)
      BY <1>0, <2>1, <2>4, HeardDueAppend
    <2>5. ASSUME Learned(edits, known, ask)
          PROVE  Learned(edits', known, ask)
      BY <1>0, <2>1, <2>5, LearnedAppend
    <2> QED
      BY <1>0, <2>1, <2>2, <2>3, <2>4, <2>5 DEF FeedInv
  <1>2. CASE MapReset
    <2>1. count'.resets = count.resets + 1 /\ count.resets \in Nat
      BY <1>2 DEF MapReset, TypeInv, ServerOK
    <2> QED
      BY <2>1 DEF FeedInv
  <1>3. CASE Listening \/ Heartbeat
    <2> USE DEF Listening, ListenerDies, ListenerNoticesLoss, ListenerConnects,
                ListenerGivesUp, ListenerHears, Heartbeat
    <2>1. UNCHANGED <<edits, known, ask, client>>
      BY <1>3
    <2>2. check' = check \/ (check' = "begin" /\ check = "none")
      <3>1. EditsChanged \/ check' = check
        BY <1>3
      <3> QED
        BY <3>1 DEF EditsChanged
    <2>3. count'.resets = count.resets
      BY <1>3 DEF TypeInv, ServerOK
    <2> QED
      BY <2>1, <2>2, <2>3, ClientsFeedInv
  <1> QED
    BY <1>1, <1>2, <1>3 DEF Map

\* A connection changed in nothing that the feed is about.
LEMMA QuietFeedInv ==
  ASSUME TypeInv, FeedInv, NEW c \in Conns, NEW new,
         client' = [client EXCEPT ![c] = new],
         UNCHANGED <<edits, known, ask>>,
         check' = check \/ (check' \in {"begin", "none", "cancelled"} /\ check # "asking"),
         count'.resets = count.resets,
         new.sub = client[c].sub, new.start = client[c].start, new.told = client[c].told,
         new.heard = client[c].heard, new.state = "open" => client[c].state = "open"
  PROVE  FeedInv'
  <1>1. \A d \in Conns : client'[d] = IF d = c THEN new ELSE client[d]
    BY DEF TypeInv, ClientsOK
  <1>2. ASSUME NEW d \in Conns, HeardDue(edits, client[d], known)
        PROVE  HeardDue(edits, client'[d], known)
    BY <1>1, <1>2, HeardDueQuiet
  <1> QED
    BY <1>2, ClientsFeedInv

LEMMA NoClientHeardDue ==
  ASSUME NEW h, NEW n \in Nat
  PROVE  HeardDue(h, NoClient, n)
  BY DEF HeardDue, NoClient, Kinds

LEMMA PeerFeedInv ==
  ASSUME TypeInv, Tidied, FeedInv, NEW c \in Conns, Peer(c) \/ Timers(c)
  PROVE  FeedInv'
  <1>0. client[c] \in ClientType /\ TidyClient(client[c])
    BY DEF TypeInv, ClientsOK, Tidied
  <1>1. known \in Nat
    BY BoundsNat DEF TypeInv, CheckOK
  <1>2. CASE Connect(c)
    <2> DEFINE new == [NoClient EXCEPT !.state = "open", !.deadline = "hello"]
    <2>1. client[c] = NoClient
      BY <1>0, <1>2 DEF Connect, TidyClient
    <2>2. \A d \in Conns : client'[d] = IF d = c THEN new ELSE client[d]
      BY <1>2, <2>1 DEF Connect, TypeInv, ClientsOK
    <2>3. HeardDue(edits, new, known)
      BY <1>1 DEF HeardDue, NoClient, Kinds
    <2>4. UNCHANGED <<edits, known, ask, check>> /\ count'.resets = count.resets
      BY <1>2 DEF Connect, TypeInv, ServerOK
    <2> HIDE DEF new
    <2>5. \A d \in Conns : HeardDue(edits, client[d], known) => HeardDue(edits, client'[d], known)
      BY <2>2, <2>3
    <2> QED
      BY <2>4, <2>5, ClientsFeedInv
  <1>3. CASE ConnectionLost(c)
    <2>1. \A d \in Conns : client'[d] = IF d = c THEN NoClient ELSE client[d]
      BY <1>3 DEF ConnectionLost, TypeInv, ClientsOK
    <2>2. UNCHANGED <<edits, known, ask, check>> /\ count'.resets = count.resets
      BY <1>3 DEF ConnectionLost
    <2>3. \A d \in Conns : HeardDue(edits, client[d], known) => HeardDue(edits, client'[d], known)
      BY <1>1, <2>1, NoClientHeardDue
    <2> QED
      BY <2>2, <2>3, ClientsFeedInv
  <1>4. CASE BadData(c) \/ DeadlineFires(c) \/ PauseWriting(c) \/ ResumeWriting(c)
             \/ TooSlow(c) \/ \E r \in Requests : DataReceived(c, r)
    <2>1. PICK new :
            /\ OnlyClient(c, new)
            /\ new.sub = client[c].sub /\ new.start = client[c].start
            /\ new.told = client[c].told /\ new.heard = client[c].heard
            /\ new.state = "open" => client[c].state = "open"
      <3>1. CASE BadData(c) \/ DeadlineFires(c)
        <4> WITNESS [client[c] EXCEPT !.state = "closing"]
        <4> QED
          BY <1>0, <3>1 DEF BadData, DeadlineFires, ClientType
      <3>2. CASE PauseWriting(c)
        <4> WITNESS [client[c] EXCEPT !.behind = TRUE]
        <4> QED
          BY <1>0, <3>2 DEF PauseWriting, ClientType
      <3>3. CASE ResumeWriting(c)
        <4> WITNESS [client[c] EXCEPT !.behind = FALSE]
        <4> QED
          BY <1>0, <3>3 DEF ResumeWriting, ClientType
      <3>4. CASE TooSlow(c)
        <4> WITNESS [client[c] EXCEPT !.behind = FALSE, !.state = "closing"]
        <4> QED
          BY <1>0, <3>4 DEF TooSlow, ClientType
      <3>5. ASSUME NEW r \in Requests, DataReceived(c, r)
            PROVE  \E new :
                     /\ OnlyClient(c, new)
                     /\ new.sub = client[c].sub /\ new.start = client[c].start
                     /\ new.told = client[c].told /\ new.heard = client[c].heard
                     /\ new.state = "open" => client[c].state = "open"
        <4> DEFINE queue == Append(client[c].queue, r)
                   work == IF client[c].work = "none" THEN "ready" ELSE client[c].work
        <4>1. OnlyClient(c, [client[c] EXCEPT !.queue = queue, !.work = work])
          BY <3>5 DEF DataReceived
        <4> HIDE DEF queue, work
        <4> WITNESS [client[c] EXCEPT !.queue = queue, !.work = work]
        <4> QED
          BY <1>0, <4>1 DEF ClientType
      <3> QED
        BY <1>4, <3>1, <3>2, <3>3, <3>4, <3>5
    <2>2. client' = [client EXCEPT ![c] = new] /\ UNCHANGED <<edits, known, ask>>
          /\ check' = check /\ count'.resets = count.resets
      BY <2>1 DEF OnlyClient
    <2> QED
      BY <2>1, <2>2, QuietFeedInv
  <1> QED
    BY <1>2, <1>3, <1>4 DEF Peer, Timers

\* Two clients that the feed does not tell apart.
SameFeed(new, cl) ==
    /\ new.sub = cl.sub /\ new.start = cl.start
    /\ new.told = cl.told /\ new.heard = cl.heard /\ new.state = cl.state

LEMMA RequestSameFeed ==
  ASSUME TypeInv, NEW c \in Conns
  PROVE  /\ SameFeed(RequestOver(c), client[c])
         /\ \A r : Handling(c, r) => SameFeed(Answered(c), client[c])
  <1>1. client[c] \in ClientType
    BY DEF TypeInv, ClientsOK
  <1>2. SameFeed(RequestOver(c), client[c])
    BY <1>1 DEF RequestOver, SameFeed, ClientType
  <1>3. SameFeed(Answered(c), client[c])
    BY <1>1 DEF Answered, SameFeed, ClientType
  <1> QED
    BY <1>2, <1>3

LEMMA SubscribeHeardDue ==
  ASSUME TypeInv, NEW c \in Conns, HeardDue(edits, client[c], known),
         NEW kind \in Kinds, client[c].sub[kind] = None, NEW key,
         NEW new, new.state = client[c].state, new.told = client[c].told,
         new.heard = client[c].heard, new.sub = [client[c].sub EXCEPT ![kind] = key],
         new.start = [client[c].start EXCEPT ![kind] = known]
  PROVE  HeardDue(edits, new, known)
  <1>1. client[c] \in ClientType /\ known \in Nat
    BY BoundsNat DEF TypeInv, ClientsOK, CheckOK
  <1>2. \A k \in Kinds : /\ new.sub[k] = IF k = kind THEN key ELSE client[c].sub[k]
                        /\ new.start[k] = IF k = kind THEN known ELSE client[c].start[k]
    BY <1>1 DEF ClientType
  <1>3. \A area : ConcerningIn(edits, known + 1, known, area) = {}
    BY <1>1, BoundsNat DEF ConcerningIn, EditIds
  <1>4. CASE kind = "records"
    <2>1. client[c].heard = NoneHeard
      BY <1>4 DEF HeardDue
    <2>2. /\ new.sub["edits"] = client[c].sub["edits"]
          /\ new.start["edits"] = client[c].start["edits"]
          /\ new.start["records"] = known
      BY <1>2, <1>4 DEF Kinds
    <2>3. \A e \in EditIds : new.heard[e] = 0
      BY <2>1 DEF NoneHeard
    <2>4. \A k \in Kinds : new.start[k] <= known
      BY <1>1, <1>2 DEF HeardDue
    <2>5. new.sub["records"] = None => new.heard = NoneHeard
      BY <2>1
    <2> QED
      BY <1>3, <2>2, <2>3, <2>4, <2>5 DEF HeardDue
  <1>5. CASE kind = "edits"
    <2>1. client[c].told = 0
      BY <1>5 DEF HeardDue
    <2>2. /\ new.sub["records"] = client[c].sub["records"]
          /\ new.start["records"] = client[c].start["records"]
          /\ new.start["edits"] = known
      BY <1>2, <1>5 DEF Kinds
    <2>3. \A k \in Kinds : new.start[k] <= known
      BY <1>1, <1>2 DEF HeardDue
    <2> QED
      BY <1>1, <1>3, <2>1, <2>2, <2>3 DEF HeardDue
  <1> QED
    BY <1>4, <1>5 DEF Kinds

LEMMA UnsubscribeHeardDue ==
  ASSUME TypeInv, NEW c \in Conns, HeardDue(edits, client[c], known),
         NEW kind \in Kinds,
         NEW new, new.state = client[c].state,
         new.told = IF kind = "edits" THEN 0 ELSE client[c].told,
         new.heard = IF kind = "records" THEN NoneHeard ELSE client[c].heard,
         new.sub = [client[c].sub EXCEPT ![kind] = None],
         new.start = [client[c].start EXCEPT ![kind] = 0]
  PROVE  HeardDue(edits, new, known)
  <1>1. client[c] \in ClientType /\ known \in Nat
    BY BoundsNat DEF TypeInv, ClientsOK, CheckOK
  <1>2. \A k \in Kinds : /\ new.sub[k] = IF k = kind THEN None ELSE client[c].sub[k]
                        /\ new.start[k] = IF k = kind THEN 0 ELSE client[c].start[k]
    BY <1>1 DEF ClientType
  <1>3. \A k \in Kinds : new.start[k] <= known
    BY <1>1, <1>2 DEF HeardDue
  <1>4. CASE kind = "records"
    <2>1. /\ new.sub["edits"] = client[c].sub["edits"] /\ new.told = client[c].told
          /\ new.start["edits"] = client[c].start["edits"]
          /\ new.sub["records"] = None /\ new.heard = NoneHeard
      BY <1>2, <1>4 DEF Kinds
    <2> QED
      BY <1>3, <2>1 DEF HeardDue
  <1>5. CASE kind = "edits"
    <2>1. /\ new.sub["records"] = client[c].sub["records"] /\ new.heard = client[c].heard
          /\ new.start["records"] = client[c].start["records"]
          /\ new.sub["edits"] = None /\ new.told = 0
      BY <1>2, <1>5 DEF Kinds
    <2> QED
      BY <1>3, <2>1 DEF HeardDue
  <1> QED
    BY <1>4, <1>5 DEF Kinds

LEMMA WorkerFeedInv ==
  ASSUME TypeInv, Tidied, FeedInv, NEW c \in Conns, Worker(c)
  PROVE  FeedInv'
  <1>0. client[c] \in ClientType /\ TidyClient(client[c])
    BY DEF TypeInv, ClientsOK, Tidied
  <1>1. CASE \/ WorkerEnds(c) \/ Hello(c) \/ AnswerAtOnce(c) \/ RefuseArea(c)
             \/ WktRefused(c) \/ SubscribeRefused(c) \/ WktFails(c)
    <2>1. \E new : client' = [client EXCEPT ![c] = new] /\ SameFeed(new, client[c])
      <3>1. CASE WorkerEnds(c)
        <4> WITNESS [client[c] EXCEPT !.work = "none"]
        <4> QED
          BY <1>0, <3>1 DEF WorkerEnds, OnlyClient, SameFeed, ClientType
      <3>2. CASE Hello(c)
        <4> DEFINE deadline == IF client[c].greeted THEN Answered(c).deadline ELSE "subscribe"
        <4>1. PICK r : Handling(c, r)
          BY <3>2 DEF Hello
        <4>2. Answered(c) \in ClientType /\ SameFeed(Answered(c), client[c])
          BY <4>1, AnsweredOK, RequestSameFeed
        <4>3. client' = [client EXCEPT ![c] = [Answered(c) EXCEPT !.greeted = TRUE,
                                                               !.deadline = deadline]]
          BY <3>2 DEF Hello, OnlyClient
        <4> HIDE DEF deadline
        <4> WITNESS [Answered(c) EXCEPT !.greeted = TRUE, !.deadline = deadline]
        <4> QED
          BY <4>2, <4>3 DEF SameFeed, ClientType
      <3>3. CASE AnswerAtOnce(c) \/ RefuseArea(c)
        <4>1. PICK r : Handling(c, r)
          BY <3>3 DEF AnswerAtOnce, RefuseArea, AsksToSubscribe
        <4>2. client' = [client EXCEPT ![c] = Answered(c)]
          BY <3>3 DEF AnswerAtOnce, RefuseArea, OnlyClient
        <4> QED
          BY <4>1, <4>2, RequestSameFeed
      <3>4. CASE WktRefused(c) \/ SubscribeRefused(c)
        BY <3>4, RequestSameFeed DEF WktRefused, SubscribeRefused, OnlyClient
      <3>5. CASE WktFails(c)
        <4>1. RequestOver(c) \in ClientType /\ SameFeed(RequestOver(c), client[c])
          BY RequestOverOK, RequestSameFeed
        <4>2. client' = [client EXCEPT ![c] = [RequestOver(c) EXCEPT !.work = "none"]]
          BY <3>5 DEF WktFails
        <4> WITNESS [RequestOver(c) EXCEPT !.work = "none"]
        <4> QED
          BY <4>1, <4>2 DEF SameFeed, ClientType
      <3> QED
        BY <1>1, <3>1, <3>2, <3>3, <3>4, <3>5
    <2>2. UNCHANGED <<edits, known, ask>> /\ check' = check
      BY <1>1 DEF WorkerEnds, Hello, AnswerAtOnce, RefuseArea, WktRefused, SubscribeRefused,
                  WktFails, OnlyClient
    <2>3. count'.resets = count.resets
      BY <1>1 DEF WorkerEnds, Hello, AnswerAtOnce, RefuseArea, WktRefused, SubscribeRefused,
                  WktFails, OnlyClient, MayFail, TypeInv, ServerOK
    <2> QED
      BY <2>1, <2>2, <2>3, QuietFeedInv DEF SameFeed
  <1>2. CASE AskToSubscribe(c) \/ WktChecked(c)
    <2>1. \E new : client' = [client EXCEPT ![c] = new] /\ SameFeed(new, client[c])
      <3>1. ASSUME NEW r \in Requests,
                   client' = [client EXCEPT ![c].queue = Tail(@), ![c].request = r,
                                            ![c].asked = Len(edits),
                                            ![c].work = IF r.area \in Wkt THEN "wkt" ELSE "waiting"]
            PROVE  \E new : client' = [client EXCEPT ![c] = new] /\ SameFeed(new, client[c])
        <4> DEFINE rest == Tail(client[c].queue)
                   now == Len(edits)
                   work == IF r.area \in Wkt THEN "wkt" ELSE "waiting"
                   new == [client[c] EXCEPT !.queue = rest, !.request = r, !.asked = now,
                                            !.work = work]
        <4>1. client' = [client EXCEPT ![c] = new]
          BY <1>0, <3>1 DEF TypeInv, ClientsOK, ClientType
        <4> HIDE DEF rest, now, work
        <4>2. SameFeed(new, client[c])
          BY <1>0 DEF SameFeed, ClientType
        <4> QED
          BY <4>1, <4>2
      <3>2. CASE WktChecked(c)
        <4> DEFINE request == [client[c].request EXCEPT !.area = Tidy[@]]
                   new == [client[c] EXCEPT !.request = request, !.work = "waiting"]
        <4>1. client' = [client EXCEPT ![c].request.area = Tidy[@], ![c].work = "waiting"]
          BY <3>2 DEF WktChecked
        <4>2. client' = [client EXCEPT ![c] = new]
          BY <1>0, <4>1 DEF TypeInv, ClientsOK, ClientType
        <4> HIDE DEF request
        <4>3. SameFeed(new, client[c])
          BY <1>0 DEF SameFeed, ClientType
        <4> QED
          BY <4>2, <4>3
      <3> QED
        BY <1>2, <3>1, <3>2 DEF AskToSubscribe
    <2>2. UNCHANGED <<edits, known, ask>> /\ count'.resets = count.resets
      BY <1>2 DEF AskToSubscribe, WktChecked
    <2>3. check' = check \/ (check' = "begin" /\ check = "none")
      <3>1. EditsChanged \/ check' = check
        BY <1>2 DEF AskToSubscribe, WktChecked
      <3> QED
        BY <3>1 DEF EditsChanged
    <2> QED
      BY <2>1, <2>2, <2>3, QuietFeedInv DEF SameFeed
  <1>3. ASSUME NEW new, OnlyClient(c, new),
               HeardDue(edits, client[c], known) => HeardDue(edits, new, known)
        PROVE  FeedInv'
    <2>1. \A d \in Conns : client'[d] = IF d = c THEN new ELSE client[d]
      BY <1>3 DEF OnlyClient, TypeInv, ClientsOK
    <2>2. \A d \in Conns : HeardDue(edits, client[d], known) => HeardDue(edits, client'[d], known)
      BY <1>3, <2>1
    <2>3. UNCHANGED <<edits, known, ask>> /\ check' = check /\ count'.resets = count.resets
      BY <1>3 DEF OnlyClient
    <2> QED
      BY <2>2, <2>3, ClientsFeedInv
  <1>4. CASE Subscribe(c)
    <2> DEFINE r == client[c].request
               key == <<r.area, r.format>>
               new == [RequestOver(c) EXCEPT !.sub[r.kind] = key, !.start[r.kind] = known,
                                             !.deadline = "none"]
    <2>1. OnlyClient(c, new) /\ client[c].work = "woken"
      BY <1>4 DEF Subscribe
    <2>2. r \in RequestType /\ r.kind \in Kinds
      BY <2>1, RequestOK DEF RequestType
    <2>3. client[c].sub[r.kind] = None
      BY <1>0, <2>1 DEF TidyClient
    <2>4. RequestOver(c) \in ClientType /\ SameFeed(RequestOver(c), client[c])
      BY RequestOverOK, RequestSameFeed
    <2> HIDE DEF key, r
    <2>5. /\ new.state = client[c].state /\ new.told = client[c].told
          /\ new.heard = client[c].heard /\ new.sub = [client[c].sub EXCEPT ![r.kind] = key]
          /\ new.start = [client[c].start EXCEPT ![r.kind] = known]
      BY <2>4 DEF SameFeed, ClientType
    <2> HIDE DEF new
    <2>6. HeardDue(edits, client[c], known) => HeardDue(edits, new, known)
      BY <2>2, <2>3, <2>5, SubscribeHeardDue
    <2> QED
      BY <1>3, <2>1, <2>6
  <1>5. CASE Unsubscribe(c)
    <2>1. PICK r \in Requests :
            /\ Handling(c, r)
            /\ OnlyClient(c, [Answered(c) EXCEPT
                   !.sub[r.kind] = None, !.start[r.kind] = 0,
                   !.told = IF r.kind = "edits" THEN 0 ELSE @,
                   !.heard = IF r.kind = "records" THEN NoneHeard ELSE @,
                   !.deadline = DeadlineWithout(c, r.kind)])
      BY <1>5 DEF Unsubscribe
    <2> DEFINE told == IF r.kind = "edits" THEN 0 ELSE Answered(c).told
               heard == IF r.kind = "records" THEN NoneHeard ELSE Answered(c).heard
               deadline == DeadlineWithout(c, r.kind)
               new == [Answered(c) EXCEPT !.sub[r.kind] = None, !.start[r.kind] = 0,
                                          !.told = told, !.heard = heard, !.deadline = deadline]
    <2>2. OnlyClient(c, new)
      BY <2>1
    <2>3. Answered(c) \in ClientType /\ SameFeed(Answered(c), client[c]) /\ r.kind \in Kinds
      BY <2>1, AnsweredOK, RequestSameFeed, EnvironmentAssumption DEF RequestType
    <2>4. /\ told = IF r.kind = "edits" THEN 0 ELSE client[c].told
          /\ heard = IF r.kind = "records" THEN NoneHeard ELSE client[c].heard
      BY <2>3 DEF SameFeed
    <2> HIDE DEF told, heard, deadline
    <2>5. /\ new.state = client[c].state /\ new.told = told /\ new.heard = heard
          /\ new.sub = [client[c].sub EXCEPT ![r.kind] = None]
          /\ new.start = [client[c].start EXCEPT ![r.kind] = 0]
      BY <2>3 DEF SameFeed, ClientType
    <2> HIDE DEF new
    <2>6. HeardDue(edits, client[c], known) => HeardDue(edits, new, known)
      BY <2>3, <2>4, <2>5, UnsubscribeHeardDue
    <2> QED
      BY <1>3, <2>2, <2>6
  <1> QED
    BY <1>1, <1>2, <1>4, <1>5 DEF Worker

LEMMA StopFeedInv ==
  ASSUME TypeInv, FeedInv, Stop \/ Stopped \/ UNCHANGED vars
  PROVE  FeedInv'
  <1>1. CASE Stop
    <2>1. UNCHANGED <<edits, known, count>> /\ (client' = client \/ client' = Woken(client))
          /\ check' \in {"cancelled", "none"} /\ ask'.read = {}
      BY <1>1 DEF Stop, NothingAsked
    <2>2. client \in [Conns -> ClientType]
      BY DEF TypeInv, ClientsOK
    <2>3. count.resets = 0 => \A c \in Conns : HeardDue(edits, client'[c], known)
      BY <2>1, <2>2, HeardDueWoken DEF FeedInv
    <2> QED
      BY <2>1, <2>3 DEF FeedInv
  <1>2. CASE Stopped \/ UNCHANGED vars
    BY <1>2 DEF Stopped, vars, FeedInv
  <1> QED
    BY <1>1, <1>2

-----------------------------------------------------------------------------
(* Connections leave nothing behind.                                       *)

LEMMA TidyWoken ==
  ASSUME NEW clients \in [Conns -> ClientType], \A c \in Conns : TidyClient(clients[c])
  PROVE  \A c \in Conns : TidyClient(Woken(clients)[c])
  <1> TAKE c \in Conns
  <1>1. CASE clients[c].work = "waiting"
    <2> DEFINE new == [clients[c] EXCEPT !.work = "woken"]
    <2>1. /\ new.state = clients[c].state /\ new.sub = clients[c].sub
          /\ new.request = clients[c].request
      BY DEF ClientType
    <2>2. clients[c].state # "none"
      BY <1>1 DEF TidyClient, NoClient
    <2>3. clients[c].sub[clients[c].request.kind] = None
      BY <1>1 DEF TidyClient
    <2> HIDE DEF new
    <2>4. TidyClient(new)
      BY <2>1, <2>2, <2>3 DEF TidyClient
    <2> QED
      BY <1>1, <2>4 DEF Woken, new
  <1>2. CASE clients[c].work # "waiting"
    BY <1>2 DEF Woken
  <1> QED
    BY <1>1, <1>2

LEMMA TidySettle ==
  ASSUME NEW clients \in [Conns -> ClientType], \A c \in Conns : TidyClient(clients[c]),
         Settle(clients)
  PROVE  Tidied'
  BY TidyWoken DEF Settle, Tidied

LEMMA TidyAnnounce ==
  ASSUME TypeInv, Tidied, NEW q \in AskType, Announce(q)
  PROVE  Tidied'
  <1> DEFINE clients == [c \in Conns |->
                  IF Dropped(c, q) THEN [client[c] EXCEPT !.state = "closing"]
                  ELSE IF client[c].state = "open" THEN Told(c, q) ELSE client[c]]
  <1>1. \A c \in Conns : client[c] \in ClientType /\ TidyClient(client[c])
    BY DEF TypeInv, ClientsOK, Tidied
  <1>2. ASSUME NEW c \in Conns
        PROVE  /\ [client[c] EXCEPT !.state = "closing"] \in ClientType
               /\ client[c].state = "open" => TidyClient([client[c] EXCEPT !.state = "closing"])
    <2>1. [client[c] EXCEPT !.state = "closing"] \in ClientType
      BY <1>1 DEF ClientType
    <2>2. client[c].state = "open" => TidyClient([client[c] EXCEPT !.state = "closing"])
      BY <1>1 DEF ClientType, TidyClient
    <2> QED
      BY <2>1, <2>2
  <1>3. ASSUME NEW c \in Conns, client[c].state = "open"
        PROVE  Told(c, q) \in ClientType /\ TidyClient(Told(c, q))
    <2>1. /\ Told(c, q).state = "open" /\ Told(c, q).work = client[c].work
          /\ Told(c, q).sub = client[c].sub /\ Told(c, q).request = client[c].request
      BY <1>1, <1>3 DEF Told, ClientType
    <2>2. TidyClient(Told(c, q))
      BY <1>1, <2>1 DEF TidyClient
    <2> QED
      BY <2>2, ToldOK DEF TypeInv
  <1>4. \A c \in Conns : Dropped(c, q) => client[c].state = "open"
    BY DEF Dropped
  <1>5. clients \in [Conns -> ClientType] /\ \A c \in Conns : TidyClient(clients[c])
    BY <1>1, <1>2, <1>3, <1>4
  <1>6. Settle(clients)
    BY DEF Announce
  <1> HIDE DEF clients
  <1> QED
    BY <1>5, <1>6, TidySettle

LEMMA TidyAnswer ==
  ASSUME TypeInv, Tidied, NEW q \in AskType, NextAnswer(q) \/ AskOrAnnounce(q)
  PROVE  Tidied'
  <1>1. Announce(q) \/ client' = client
    BY DEF NextAnswer, AskOrAnnounce
  <1> QED
    BY <1>1, TidyAnnounce DEF Tidied

LEMMA CheckingTidied ==
  ASSUME TypeInv, Tidied, Checking
  PROVE  Tidied'
  <1>1. ask \in AskType /\ client \in [Conns -> ClientType]
    BY DEF TypeInv, CheckOK, ClientsOK
  <1>2. CASE CheckBegins \/ ReadLatest
    BY <1>2 DEF CheckBegins, ReadLatest, Tidied
  <1>3. CASE ReadLatestFails
    BY <1>1, <1>3, TidySettle DEF ReadLatestFails, Tidied
  <1>4. CASE CheckLatest
    <2>1. CASE ask.target <= known
      BY <1>1, <1>4, <2>1, TidySettle DEF CheckLatest, Tidied
    <2>2. CASE ~(ask.target <= known)
      <3> DEFINE q == [ask EXCEPT !.answered = {Everywhere}, !.concerned = {Everywhere}]
      <3>1. q \in AskType
        BY <1>1 DEF AskType, AllAreas
      <3>2. AskOrAnnounce(q)
        BY <1>4, <2>2 DEF CheckLatest
      <3> HIDE DEF q
      <3> QED
        BY <3>1, <3>2, TidyAnswer
    <2> QED
      BY <2>1, <2>2
  <1>5. ASSUME NEW area \in AllAreas, AreaAnswered(area)
        PROVE  Tidied'
    <2>1. PICK yes \in BOOLEAN :
             NextAnswer([ask EXCEPT !.areas = @ \ {area}, !.answered = @ \cup {area},
                                    !.concerned = IF yes THEN @ \cup {area} ELSE @])
      BY <1>5 DEF AreaAnswered
    <2> DEFINE q == [ask EXCEPT !.areas = @ \ {area}, !.answered = @ \cup {area},
                                !.concerned = IF yes THEN @ \cup {area} ELSE @]
    <2>2. q \in AskType
      BY <1>1 DEF AskType
    <2>3. NextAnswer(q)
      BY <2>1
    <2> HIDE DEF q
    <2> QED
      BY <2>2, <2>3, TidyAnswer
  <1>6. ASSUME NEW key \in Keys, RecordsAnswered(key)
        PROVE  Tidied'
    <2> DEFINE some == Concerning(known + 1, ask.target, key[1])
               found == [ask EXCEPT !.keys = @ \ {key}, !.read = @ \cup {key}, !.found[key] = some]
               failed == [ask EXCEPT !.keys = @ \ {key}, !.failed = @ \cup {key}]
    <2>1. NextAnswer(found) \/ NextAnswer(failed)
      BY <1>6 DEF RecordsAnswered
    <2>2. some \subseteq EditIds
      BY ConcerningOK
    <2> HIDE DEF some
    <2>3. found \in AskType
      BY <1>1, <2>2 DEF AskType
    <2>4. failed \in AskType
      BY <1>1 DEF AskType
    <2> HIDE DEF found, failed
    <2> QED
      BY <2>1, <2>3, <2>4, TidyAnswer
  <1> QED
    BY <1>2, <1>3, <1>4, <1>5, <1>6 DEF Checking

LEMMA OneClientTidied ==
  ASSUME TypeInv, Tidied, NEW c \in Conns, NEW new, TidyClient(new),
         client' = [client EXCEPT ![c] = new]
  PROVE  Tidied'
  BY DEF TypeInv, ClientsOK, Tidied

\* A worker between two requests has none that could conflict.
LEMMA IdleTidied ==
  ASSUME TypeInv, Tidied, NEW c \in Conns, client[c].work # "none",
         NEW new, new.state = client[c].state, new.work \in {"none", "ready"},
         client' = [client EXCEPT ![c] = new]
  PROVE  Tidied'
  <1>1. client[c].state # "none"
    BY DEF Tidied, TidyClient, NoClient
  <1>2. TidyClient(new)
    BY <1>1 DEF TidyClient
  <1> QED
    BY <1>2, OneClientTidied

LEMMA PeerTidied ==
  ASSUME TypeInv, Tidied, NEW c \in Conns, Peer(c) \/ Timers(c)
  PROVE  Tidied'
  <1>0. client[c] \in ClientType /\ TidyClient(client[c])
    BY DEF TypeInv, ClientsOK, Tidied
  <1>1. CASE Connect(c)
    <2> DEFINE new == [client[c] EXCEPT !.state = "open", !.deadline = "hello"]
    <2>1. client[c] = NoClient
      BY <1>0, <1>1 DEF Connect, TidyClient
    <2>2. new.state = "open" /\ new.work = "none"
      BY <1>0, <2>1 DEF ClientType, NoClient
    <2>3. client' = [client EXCEPT ![c] = new]
      BY <1>0, <1>1 DEF Connect, TypeInv, ClientsOK
    <2> HIDE DEF new
    <2>4. TidyClient(new)
      BY <2>2 DEF TidyClient
    <2> QED
      BY <2>3, <2>4, OneClientTidied
  <1>2. CASE ConnectionLost(c)
    <2>1. TidyClient(NoClient)
      BY DEF TidyClient, NoClient
    <2> QED
      BY <1>2, <2>1, OneClientTidied DEF ConnectionLost
  <1>3. ASSUME NEW new, client' = [client EXCEPT ![c] = new], client[c].state # "none",
               new.state # "none", new.work = client[c].work, new.sub = client[c].sub,
               new.request = client[c].request
        PROVE  Tidied'
    <2>1. TidyClient(new)
      BY <1>0, <1>3 DEF TidyClient
    <2> QED
      BY <1>3, <2>1, OneClientTidied
  <1>4. CASE BadData(c) \/ DeadlineFires(c)
    <2> DEFINE new == [client[c] EXCEPT !.state = "closing"]
    <2>1. client' = [client EXCEPT ![c] = new] /\ client[c].state # "none"
      BY <1>4 DEF BadData, DeadlineFires, OnlyClient
    <2>2. /\ new.state # "none" /\ new.work = client[c].work /\ new.sub = client[c].sub
          /\ new.request = client[c].request
      BY <1>0 DEF ClientType
    <2> HIDE DEF new
    <2> QED
      BY <1>3, <2>1, <2>2
  <1>5. CASE PauseWriting(c)
    <2> DEFINE new == [client[c] EXCEPT !.behind = TRUE]
    <2>1. client' = [client EXCEPT ![c] = new] /\ client[c].state # "none"
      BY <1>5 DEF PauseWriting, OnlyClient
    <2>2. /\ new.state = client[c].state /\ new.work = client[c].work /\ new.sub = client[c].sub
          /\ new.request = client[c].request
      BY <1>0 DEF ClientType
    <2> HIDE DEF new
    <2> QED
      BY <1>3, <2>1, <2>2
  <1>6. CASE ResumeWriting(c)
    <2> DEFINE new == [client[c] EXCEPT !.behind = FALSE]
    <2>1. client' = [client EXCEPT ![c] = new] /\ client[c].behind
      BY <1>6 DEF ResumeWriting, OnlyClient
    <2>2. client[c].state # "none"
      BY <1>0, <2>1 DEF TidyClient, NoClient
    <2>3. /\ new.state = client[c].state /\ new.work = client[c].work /\ new.sub = client[c].sub
          /\ new.request = client[c].request
      BY <1>0 DEF ClientType
    <2> HIDE DEF new
    <2> QED
      BY <1>3, <2>1, <2>2, <2>3
  <1>7. CASE TooSlow(c)
    <2> DEFINE new == [client[c] EXCEPT !.behind = FALSE, !.state = "closing"]
    <2>1. client' = [client EXCEPT ![c] = new] /\ client[c].behind
      BY <1>7 DEF TooSlow, OnlyClient
    <2>2. client[c].state # "none"
      BY <1>0, <2>1 DEF TidyClient, NoClient
    <2>3. /\ new.state # "none" /\ new.work = client[c].work /\ new.sub = client[c].sub
          /\ new.request = client[c].request
      BY <1>0 DEF ClientType
    <2> HIDE DEF new
    <2> QED
      BY <1>3, <2>1, <2>2, <2>3
  <1>8. ASSUME NEW r \in Requests, DataReceived(c, r)
        PROVE  Tidied'
    <2> DEFINE queue == Append(client[c].queue, r)
               work == IF client[c].work = "none" THEN "ready" ELSE client[c].work
               new == [client[c] EXCEPT !.queue = queue, !.work = work]
    <2>1. client' = [client EXCEPT ![c] = new] /\ client[c].state = "open"
      BY <1>8 DEF DataReceived, OnlyClient
    <2> HIDE DEF queue
    <2>2. /\ new.state = client[c].state /\ new.sub = client[c].sub
          /\ new.request = client[c].request /\ new.work = work
      BY <1>0 DEF ClientType
    <2> HIDE DEF new
    <2>3. TidyClient(new)
      BY <1>0, <2>1, <2>2 DEF TidyClient
    <2> QED
      BY <2>1, <2>3, OneClientTidied
  <1> QED
    BY <1>1, <1>2, <1>4, <1>5, <1>6, <1>7, <1>8 DEF Peer, Timers

LEMMA WorkerTidied ==
  ASSUME TypeInv, Tidied, NEW c \in Conns, Worker(c)
  PROVE  Tidied'
  <1>0. client[c] \in ClientType /\ TidyClient(client[c])
    BY DEF TypeInv, ClientsOK, Tidied
  <1>1. CASE WorkerEnds(c)
    <2> DEFINE new == [client[c] EXCEPT !.work = "none"]
    <2>1. new.state = client[c].state /\ new.work = "none"
      BY <1>0 DEF ClientType
    <2>2. client' = [client EXCEPT ![c] = new] /\ client[c].work # "none"
      BY <1>1 DEF WorkerEnds, OnlyClient
    <2> HIDE DEF new
    <2> QED
      BY <2>1, <2>2, IdleTidied
  <1>2. CASE Hello(c) \/ AnswerAtOnce(c) \/ RefuseArea(c) \/ Unsubscribe(c)
    <2>1. PICK r : Handling(c, r)
      BY <1>2 DEF Hello, AnswerAtOnce, RefuseArea, AsksToSubscribe, Unsubscribe
    <2>2. Answered(c) \in ClientType /\ Answered(c).work \in {"none", "ready"}
          /\ Answered(c).state = client[c].state
      BY <2>1, AnsweredOK, RequestSameFeed DEF SameFeed
    <2>3. client[c].work # "none"
      BY <2>1 DEF Handling
    <2>4. PICK new : /\ new.state = Answered(c).state /\ new.work = Answered(c).work
                     /\ client' = [client EXCEPT ![c] = new]
      <3>1. CASE Hello(c)
        <4> DEFINE deadline == IF client[c].greeted THEN Answered(c).deadline ELSE "subscribe"
        <4>1. client' = [client EXCEPT ![c] = [Answered(c) EXCEPT !.greeted = TRUE,
                                                               !.deadline = deadline]]
          BY <3>1 DEF Hello, OnlyClient
        <4> HIDE DEF deadline
        <4> WITNESS [Answered(c) EXCEPT !.greeted = TRUE, !.deadline = deadline]
        <4> QED
          BY <2>2, <4>1 DEF ClientType
      <3>2. CASE AnswerAtOnce(c) \/ RefuseArea(c)
        BY <3>2 DEF AnswerAtOnce, RefuseArea, OnlyClient
      <3>3. ASSUME NEW q,
                   OnlyClient(c, [Answered(c) EXCEPT
                       !.sub[q.kind] = None, !.start[q.kind] = 0,
                       !.told = IF q.kind = "edits" THEN 0 ELSE @,
                       !.heard = IF q.kind = "records" THEN NoneHeard ELSE @,
                       !.deadline = DeadlineWithout(c, q.kind)])
            PROVE  \E new : /\ new.state = Answered(c).state /\ new.work = Answered(c).work
                            /\ client' = [client EXCEPT ![c] = new]
        <4> DEFINE told == IF q.kind = "edits" THEN 0 ELSE Answered(c).told
                   heard == IF q.kind = "records" THEN NoneHeard ELSE Answered(c).heard
                   deadline == DeadlineWithout(c, q.kind)
        <4>1. client' = [client EXCEPT ![c] = [Answered(c) EXCEPT
                            !.sub[q.kind] = None, !.start[q.kind] = 0,
                            !.told = told, !.heard = heard, !.deadline = deadline]]
          BY <3>3 DEF OnlyClient
        <4> HIDE DEF told, heard, deadline
        <4> WITNESS [Answered(c) EXCEPT !.sub[q.kind] = None, !.start[q.kind] = 0,
                                        !.told = told, !.heard = heard, !.deadline = deadline]
        <4> QED
          BY <2>2, <4>1 DEF ClientType
      <3> QED
        BY <1>2, <3>1, <3>2, <3>3 DEF Unsubscribe
    <2> QED
      BY <2>2, <2>3, <2>4, IdleTidied
  <1>3. CASE WktRefused(c) \/ SubscribeRefused(c) \/ WktFails(c) \/ Subscribe(c)
    <2>1. client[c].work # "none"
      BY <1>3 DEF WktRefused, SubscribeRefused, WktFails, Subscribe
    <2>2. /\ RequestOver(c) \in ClientType /\ RequestOver(c).work \in {"none", "ready"}
          /\ RequestOver(c).state = client[c].state
      BY RequestOverOK, RequestSameFeed DEF SameFeed
    <2>3. PICK new : /\ new.state = RequestOver(c).state /\ new.work \in {"none", "ready"}
                     /\ client' = [client EXCEPT ![c] = new]
      <3>1. CASE WktRefused(c) \/ SubscribeRefused(c)
        BY <2>2, <3>1 DEF WktRefused, SubscribeRefused, OnlyClient
      <3>2. CASE WktFails(c)
        <4> WITNESS [RequestOver(c) EXCEPT !.work = "none"]
        <4> QED
          BY <2>2, <3>2 DEF WktFails, ClientType
      <3>3. CASE Subscribe(c)
        <4> DEFINE kind == client[c].request.kind
                   key == <<client[c].request.area, client[c].request.format>>
        <4>1. client' = [client EXCEPT ![c] = [RequestOver(c) EXCEPT
                            !.sub[kind] = key, !.start[kind] = known, !.deadline = "none"]]
          BY <3>3 DEF Subscribe, OnlyClient
        <4> HIDE DEF kind, key
        <4> WITNESS [RequestOver(c) EXCEPT !.sub[kind] = key, !.start[kind] = known,
                                           !.deadline = "none"]
        <4> QED
          BY <2>2, <4>1 DEF ClientType
      <3> QED
        BY <1>3, <3>1, <3>2, <3>3
    <2> QED
      BY <2>1, <2>2, <2>3, IdleTidied
  <1>4. CASE AskToSubscribe(c)
    <2>1. PICK r \in Requests :
            /\ AsksToSubscribe(c, r)
            /\ client' = [client EXCEPT ![c].queue = Tail(@), ![c].request = r,
                                       ![c].asked = Len(edits),
                                       ![c].work = IF r.area \in Wkt THEN "wkt" ELSE "waiting"]
      BY <1>4 DEF AskToSubscribe
    <2> DEFINE rest == Tail(client[c].queue)
               now == Len(edits)
               work == IF r.area \in Wkt THEN "wkt" ELSE "waiting"
               new == [client[c] EXCEPT !.queue = rest, !.request = r, !.asked = now,
                                        !.work = work]
    <2>2. client' = [client EXCEPT ![c] = new]
      BY <1>0, <2>1 DEF TypeInv, ClientsOK, ClientType
    <2> HIDE DEF rest, now, work
    <2>3. new.state = client[c].state /\ new.sub = client[c].sub /\ new.request = r
      BY <1>0 DEF ClientType
    <2> HIDE DEF new
    <2>4. client[c].state = "open" /\ client[c].sub[r.kind] = None
      BY <2>1 DEF AsksToSubscribe, Handling, Subscribed
    <2>5. TidyClient(new)
      BY <2>3, <2>4 DEF TidyClient
    <2> QED
      BY <2>2, <2>5, OneClientTidied
  <1>5. CASE WktChecked(c)
    <2> DEFINE area == Tidy[client[c].request.area]
               request == [client[c].request EXCEPT !.area = area]
               new == [client[c] EXCEPT !.request = request, !.work = "waiting"]
    <2>1. client' = [client EXCEPT ![c].request.area = Tidy[@], ![c].work = "waiting"]
          /\ client[c].work = "wkt"
      BY <1>5 DEF WktChecked
    <2>2. client' = [client EXCEPT ![c] = new]
      BY <1>0, <2>1 DEF TypeInv, ClientsOK, ClientType
    <2>3. client[c].request \in RequestType
      BY <2>1, RequestOK
    <2> HIDE DEF area
    <2>4. request.kind = client[c].request.kind
      BY <2>3 DEF RequestType
    <2> HIDE DEF request
    <2>5. new.state = client[c].state /\ new.sub = client[c].sub /\ new.request = request
      BY <1>0 DEF ClientType
    <2> HIDE DEF new
    <2>6. client[c].state # "none" /\ client[c].sub[client[c].request.kind] = None
      BY <1>0, <2>1 DEF TidyClient, NoClient
    <2>7. TidyClient(new)
      BY <2>4, <2>5, <2>6 DEF TidyClient
    <2> QED
      BY <2>2, <2>7, OneClientTidied
  <1> QED
    BY <1>1, <1>2, <1>3, <1>4, <1>5 DEF Worker

LEMMA RestTidied ==
  ASSUME TypeInv, Tidied, Map \/ Listening \/ Heartbeat \/ Stop \/ Stopped \/ UNCHANGED vars
  PROVE  Tidied'
  <1>1. client' = client \/ client' = Woken(client)
    BY DEF Map, Commit, MapReset, Listening, ListenerDies, ListenerNoticesLoss,
           ListenerConnects, ListenerGivesUp, ListenerHears, Heartbeat, Stop, Stopped, vars
  <1>2. client \in [Conns -> ClientType]
    BY DEF TypeInv, ClientsOK
  <1> QED
    BY <1>1, <1>2, TidyWoken DEF Tidied

-----------------------------------------------------------------------------
(* The theorems.                                                           *)

SafeInv == TypeInv /\ Tidied /\ FeedInv

LEMMA InitSafeInv ==
  ASSUME Init
  PROVE  SafeInv
  <1>1. TypeInv
    BY InitTypeInv
  <1>2. TidyClient(NoClient)
    BY DEF TidyClient, NoClient
  <1>3. Tidied
    BY <1>2 DEF Init, Tidied
  <1>4. FeedInv
    <2>1. edits = <<>> /\ known = 0 /\ check = "none" /\ ask.read = {}
      BY DEF Init, NothingAsked
    <2>2. \A c \in Conns : HeardDue(edits, client[c], known)
      BY <2>1, NoClientHeardDue DEF Init
    <2> QED
      BY <2>1, <2>2 DEF FeedInv
  <1> QED
    BY <1>1, <1>3, <1>4 DEF SafeInv

LEMMA NextSafeInv ==
  ASSUME SafeInv, [Next]_vars
  PROVE  SafeInv'
  <1> USE DEF SafeInv
  <1>1. TypeInv'
    BY NextTypeInv
  <1>2. CASE Checking
    BY <1>1, <1>2, CheckingTidied, CheckingFeedInv
  <1>3. CASE Map \/ Listening \/ Heartbeat
    BY <1>1, <1>3, RestTidied, OutsideFeedInv
  <1>4. ASSUME NEW c \in Conns, Peer(c) \/ Timers(c)
        PROVE  SafeInv'
    BY <1>1, <1>4, PeerTidied, PeerFeedInv
  <1>5. ASSUME NEW c \in Conns, Worker(c)
        PROVE  SafeInv'
    BY <1>1, <1>5, WorkerTidied, WorkerFeedInv
  <1>6. CASE Stop \/ Stopped \/ UNCHANGED vars
    BY <1>1, <1>6, RestTidied, StopFeedInv
  <1> QED
    BY <1>2, <1>3, <1>4, <1>5, <1>6 DEF Next

LEMMA ConcerningIs ==
  ASSUME NEW first, NEW last, NEW area
  PROVE  Concerning(first, last, area) = ConcerningIn(edits, first, last, area)
  BY DEF Concerning, ConcerningIn, Concerns

\* Each record that may concern a records subscriber's area, after the ID its
\* subscription was answered with and up to where the server is, has been sent
\* to it once, and no other has: whatever edits are committed, subscriptions
\* are made and connections are lost while the map is asked.
THEOREM RecordsOnce == Spec => []RecordsExactlyOnce
  <1>1. Init => SafeInv
    BY InitSafeInv
  <1>2. SafeInv /\ [Next]_vars => SafeInv'
    BY NextSafeInv
  <1>3. SafeInv => RecordsExactlyOnce
    <2> SUFFICES ASSUME SafeInv, count.resets = 0, NEW c \in Conns, Following(c, "records"),
                        NEW e \in EditIds
                 PROVE  client[c].heard[e] = IF e \in Due(c, "records") THEN 1 ELSE 0
      BY DEF RecordsExactlyOnce
    <2>1. HeardDue(edits, client[c], known)
      BY DEF SafeInv, FeedInv
    <2>2. client[c].state = "open" /\ client[c].sub["records"] # None
      BY DEF Following, Subscribed
    <2>3. Due(c, "records") = ConcerningIn(edits, client[c].start["records"] + 1, known,
                                           client[c].sub["records"][1])
      BY ConcerningIs DEF Due
    <2> QED
      BY <2>1, <2>2, <2>3 DEF HeardDue
  <1> QED
    BY <1>1, <1>2, <1>3, PTL DEF Spec

\* An edits subscriber has been told of an ID at or after each edit that may
\* concern its area, and of none from before its subscription or that the
\* server has not reached.
THEOREM EditsTold == Spec => []EditsHinted
  <1>1. Init => SafeInv
    BY InitSafeInv
  <1>2. SafeInv /\ [Next]_vars => SafeInv'
    BY NextSafeInv
  <1>3. SafeInv => EditsHinted
    <2> SUFFICES ASSUME SafeInv, count.resets = 0, NEW c \in Conns, Following(c, "edits")
                 PROVE  /\ \A e \in Due(c, "edits") : client[c].told >= e
                        /\ client[c].told <= known
                        /\ client[c].told = 0 \/ client[c].told > client[c].start["edits"]
      BY DEF EditsHinted
    <2>1. HeardDue(edits, client[c], known)
      BY DEF SafeInv, FeedInv
    <2>2. client[c].state = "open" /\ client[c].sub["edits"] # None
      BY DEF Following, Subscribed
    <2>3. Due(c, "edits") = ConcerningIn(edits, client[c].start["edits"] + 1, known,
                                         client[c].sub["edits"][1])
      BY ConcerningIs DEF Due
    <2> QED
      BY <2>1, <2>2, <2>3 DEF HeardDue
  <1> QED
    BY <1>1, <1>2, <1>3, PTL DEF Spec
=============================================================================
