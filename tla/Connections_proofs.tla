------------------------- MODULE Connections_proofs -------------------------
(***************************************************************************)
(* The connections between handlers and storage servers: each is where its *)
(* handler believes, and none reaches a server that another one stands for *)
(* in the table.  On top of the invariant of NamingServer_proofs.          *)
(***************************************************************************)
EXTENDS NamingServer_proofs, FiniteSetTheorems

(* A slot has ports its server may be started with, and a server that was  *)
(* sent ACK a slot with those it was started with last.                    *)
PortPair(r) == <<r.naming_port, r.client_port>>
Owners ==
  /\ \A k \in Slots :
        /\ StorageServersInfo[k].server \in Server
        /\ PortPair(StorageServersInfo[k]) \in Ports[StorageServersInfo[k].server]
  /\ mpc = "publish" => \E k \in Slots : StorageServersInfo[k] = SlotOf(peer)
  /\ \A s \in Server :
        /\ ss[s] # "down" => PortPair(SlotOf(s)) \in Ports[s]
        /\ ss[s] \in {"acked", "listening"} => \E k \in Slots : StorageServersInfo[k] = SlotOf(s)

(* A storage server is in main's queue, or its peer, once, and still waits *)
(* for its verdict.                                                        *)
Queued ==
  /\ \A i \in 1..Len(incoming) : incoming[i] \in Server =>
        /\ ss[incoming[i]] = "connecting"
        /\ mpc # "accept" => incoming[i] # peer
        /\ \A k \in 1..Len(incoming) : incoming[k] = incoming[i] => k = i
  /\ mpc # "accept" /\ peer \in Server => ss[peer] = "connecting"

(* Main meets every client once, and before its handler runs. *)
Arriving == mpc \in {"token", "dispatch"}
Arrivals ==
  /\ Arriving /\ peer \in Client => pc[peer] = "connecting"
  /\ \A i \in 1..Len(incoming) : incoming[i] \in Client =>
        /\ pc[incoming[i]] = "connecting"
        /\ Arriving => incoming[i] # peer
        /\ \A k \in 1..Len(incoming) : incoming[k] = incoming[i] => k = i

(* A handler has a connection under way only where it uses it. *)
Busy(c, j) == sock[c][j] \in {"queued", "open"}
UsesFirst  == {"clear", "result", "copyFromWait", "copyTo", "copyToWait", "copying"}
UsesSecond == {"copyToWait", "copying"}
Sockets ==
  \A c \in Client :
     /\ Busy(c, 1) => pc[c] \in UsesFirst
     /\ Busy(c, 2) => pc[c] \in UsesSecond

(* Socket and servers agree, and a connection is in one place. *)
Waits(s, c, j) == \E i \in 1..Len(backlog[s]) : backlog[s][i] = <<c, j>>
Agree ==
  \A c \in Client : \A j \in {1, 2} :
     /\ sock[c][j] = "queued" <=> \E s \in Server : Waits(s, c, j)
     /\ sock[c][j] = "open" <=> \E s \in Server : session[s] = <<c, j>>

Once ==
  \A s, t \in Server :
     /\ \A i \in 1..Len(backlog[s]), k \in 1..Len(backlog[t]) :
           backlog[s][i] = backlog[t][k] => s = t /\ i = k
     /\ session[s] # Nobody /\ session[s] = session[t] => s = t

ConnInv == Inv /\ Owners /\ Queued /\ Arrivals /\ Sockets /\ Agree /\ Once /\ RightServer

-----------------------------------------------------------------------------
(* The owners of the slots. *)

LEMMA OwnersStutter ==
  ASSUME Owners, UNCHANGED <<StorageServersInfo, portVars>>,
         mpc' = "publish" => mpc = "publish" /\ peer' = peer,
         \A s \in Server : /\ ss'[s] # "down" => ss[s] # "down"
                           /\ ss'[s] \in {"acked", "listening"} => ss[s] \in {"acked", "listening"}
  PROVE  Owners'
<1>1. Slots' = Slots /\ \A s : SlotOf(s)' = SlotOf(s)
  BY DEF Slots, SlotOf, portVars
<1>2. mpc' = "publish" => \E k \in Slots' : StorageServersInfo'[k] = SlotOf(peer)'
  <2> SUFFICES ASSUME mpc' = "publish" PROVE \E k \in Slots : StorageServersInfo[k] = SlotOf(peer)'
    BY <1>1
  <2>1. PICK k \in Slots : StorageServersInfo[k] = SlotOf(peer)
    BY DEF Owners
  <2>2. SlotOf(peer)' = SlotOf(peer)
    BY DEF SlotOf, portVars
  <2> QED BY <2>1, <2>2
<1>3. \A k \in Slots' :
         /\ StorageServersInfo'[k].server \in Server
         /\ PortPair(StorageServersInfo'[k]) \in Ports[StorageServersInfo'[k].server]
  BY <1>1 DEF Owners
<1>4. ASSUME NEW s \in Server
      PROVE  /\ ss'[s] # "down" => PortPair(SlotOf(s)') \in Ports[s]
             /\ ss'[s] \in {"acked", "listening"} =>
                   \E k \in Slots' : StorageServersInfo'[k] = SlotOf(s)'
  BY <1>1, <1>4 DEF Owners
<1> QED BY <1>2, <1>3, <1>4 DEF Owners, PortPair

LEMMA StoreInfoOwners ==
  ASSUME TypeOK, PeerIsWhatItSaid, Owners, Queued, MainStoreInfo
  PROVE  Owners'
<1>1. PICK n \in Nat : n = Len(StorageServersInfo) /\ Slots = 1..n
  BY LenProperties DEF TypeOK, TableTypeOK, Slots
<1>2. /\ peer \in Server /\ peer' = peer /\ ss' = ss /\ mpc = "info"
      /\ StorageServersInfo' = Append(StorageServersInfo, SlotOf(peer))
      /\ UNCHANGED portVars
  BY DEF MainStoreInfo, PeerIsWhatItSaid, serverVars
<1>3. PICK new : new = SlotOf(peer)
  OBVIOUS
<1>4. StorageServersInfo \in Seq(SlotType)
  BY DEF TypeOK, TableTypeOK
<1>5. /\ Len(StorageServersInfo') = n + 1
      /\ \A k \in 1..n : StorageServersInfo'[k] = StorageServersInfo[k]
      /\ StorageServersInfo'[n + 1] = new
  BY <1>1, <1>2, <1>3, <1>4, AppendProperties
<1>6. /\ Slots' = 1..(n + 1) /\ n + 1 \in Slots' /\ \A k \in Slots : k \in Slots'
      /\ \A k \in Slots' : k \in Slots \/ k = n + 1
  BY <1>1, <1>5 DEF Slots
<1>7. \A s : SlotOf(s)' = SlotOf(s)
  BY <1>2 DEF SlotOf, portVars
<1>8. new.server = peer /\ PortPair(new) \in Ports[peer]
  <2>1. ss[peer] = "connecting"
    BY <1>2 DEF Queued
  <2>2. PortPair(SlotOf(peer)) \in Ports[peer]
    BY <1>2, <2>1 DEF Owners
  <2>3. SlotOf(peer).server = peer
    BY DEF SlotOf
  <2> QED BY <1>3, <2>2, <2>3
<1>9. ASSUME NEW k \in Slots'
      PROVE  /\ StorageServersInfo'[k].server \in Server
             /\ PortPair(StorageServersInfo'[k]) \in Ports[StorageServersInfo'[k].server]
  <2>1. CASE k \in Slots
    BY <1>1, <1>5, <2>1 DEF Owners
  <2>2. CASE k = n + 1
    BY <1>2, <1>5, <1>8, <2>2
  <2> QED BY <1>6, <2>1, <2>2
<1>10. \E k \in Slots' : StorageServersInfo'[k] = SlotOf(peer)'
  <2>1. SlotOf(peer)' = SlotOf(peer)
    BY <1>2 DEF SlotOf, portVars
  <2> QED BY <1>3, <1>5, <1>6, <2>1
<1>11. ASSUME NEW s \in Server
       PROVE  /\ ss'[s] # "down" => PortPair(SlotOf(s)') \in Ports[s]
              /\ ss'[s] \in {"acked", "listening"} =>
                    \E k \in Slots' : StorageServersInfo'[k] = SlotOf(s)'
  <2>1. ss[s] # "down" => PortPair(SlotOf(s)) \in Ports[s]
    BY DEF Owners
  <2>2. ASSUME ss[s] \in {"acked", "listening"}
        PROVE  \E k \in Slots' : StorageServersInfo'[k] = SlotOf(s)
    <3>1. PICK k \in Slots : StorageServersInfo[k] = SlotOf(s)
      BY <2>2 DEF Owners
    <3> QED BY <1>1, <1>5, <1>6, <3>1
  <2> QED BY <1>2, <1>7, <2>1, <2>2
<1> QED BY <1>9, <1>10, <1>11 DEF Owners, PortPair

LEMMA RegisterOwners ==
  ASSUME TypeOK, PeerIsWhatItSaid, Owners, Queued, MainRegister
  PROVE  Owners'
<1>1. /\ mpc = "publish" /\ mpc' = "accept" /\ UNCHANGED <<StorageServersInfo, portVars>>
      /\ ss' = [ss EXCEPT ![peer] = "acked"] /\ peer \in Server
  BY DEF MainRegister, tableVars, PeerIsWhatItSaid
<1>2. Slots' = Slots /\ \A s : SlotOf(s)' = SlotOf(s)
  BY <1>1 DEF Slots, SlotOf, portVars
<1>3. ss[peer] = "connecting"
  BY <1>1 DEF Queued
<1>4. ASSUME NEW s \in Server
      PROVE  /\ ss'[s] # "down" => PortPair(SlotOf(s)') \in Ports[s]
             /\ ss'[s] \in {"acked", "listening"} =>
                   \E k \in Slots' : StorageServersInfo'[k] = SlotOf(s)'
  <2>1. s = peer \/ ss'[s] = ss[s]
    BY <1>1 DEF TypeOK, ServerTypeOK
  <2>2. CASE ss'[s] = ss[s]
    BY <1>1, <1>2, <2>2 DEF Owners
  <2>3. CASE s = peer
    BY <1>1, <1>2, <1>3, <2>3 DEF Owners
  <2> QED BY <2>1, <2>2, <2>3
<1>5. \A k \in Slots' :
         /\ StorageServersInfo'[k].server \in Server
         /\ PortPair(StorageServersInfo'[k]) \in Ports[StorageServersInfo'[k].server]
  BY <1>1, <1>2 DEF Owners
<1> QED BY <1>1, <1>4, <1>5 DEF Owners, PortPair

(* A server that is started has no slot to its name yet, and main is not   *)
(* at work for it.                                                         *)
LEMMA StartOwners ==
  ASSUME TypeOK, PeerIsWhatItSaid, Owners, Queued, NEW s \in Server, ServerStart(s)
  PROVE  Owners'
<1>1. /\ UNCHANGED <<StorageServersInfo, mpc, peer>> /\ ss[s] = "down"
      /\ ss' = [ss EXCEPT ![s] = "connecting"]
  BY DEF ServerStart, tableVars
<1>2. PICK ports \in Ports[s] : /\ naming_port' = [naming_port EXCEPT ![s] = ports[1]]
                                /\ client_port' = [client_port EXCEPT ![s] = ports[2]]
  BY DEF ServerStart
<1>3. /\ ss \in [Server -> ServerState] /\ naming_port \in [Server -> Nat]
      /\ client_port \in [Server -> Nat]
  BY DEF TypeOK, ServerTypeOK
<1>4. ports = <<ports[1], ports[2]>>
  BY ConfigAssumption
<1>5. \A t \in Server \ {s} : SlotOf(t)' = SlotOf(t) /\ ss'[t] = ss[t]
  BY <1>1, <1>2, <1>3 DEF SlotOf
<1>6. ss'[s] = "connecting" /\ PortPair(SlotOf(s)') \in Ports[s]
  <2>1. naming_port'[s] = ports[1] /\ client_port'[s] = ports[2]
    BY <1>2, <1>3
  <2>2. SlotOf(s)' = [server |-> s, naming_port |-> ports[1], client_port |-> ports[2]]
    BY <2>1 DEF SlotOf
  <2>3. PortPair(SlotOf(s)') = <<ports[1], ports[2]>>
    BY <2>2 DEF PortPair
  <2> QED BY <1>1, <1>3, <1>4, <2>3
<1>7. Slots' = Slots
  BY <1>1 DEF Slots
<1>8. mpc' = "publish" => \E k \in Slots' : StorageServersInfo'[k] = SlotOf(peer)'
  <2> SUFFICES ASSUME mpc' = "publish" PROVE \E k \in Slots : StorageServersInfo[k] = SlotOf(peer)'
    BY <1>1, <1>7
  <2>1. peer \in Server /\ ss[peer] = "connecting"
    BY <1>1 DEF PeerIsWhatItSaid, Queued
  <2>2. SlotOf(peer)' = SlotOf(peer)
    <3>1. peer # s /\ naming_port'[peer] = naming_port[peer] /\ client_port'[peer] = client_port[peer]
      BY <1>1, <1>2, <1>3, <2>1
    <3> QED BY <1>1, <3>1 DEF SlotOf
  <2> QED BY <1>1, <2>2 DEF Owners
<1>9. ASSUME NEW t \in Server
      PROVE  /\ ss'[t] # "down" => PortPair(SlotOf(t)') \in Ports[t]
             /\ ss'[t] \in {"acked", "listening"} =>
                   \E k \in Slots' : StorageServersInfo'[k] = SlotOf(t)'
  <2>1. CASE t = s
    BY <1>6, <2>1
  <2>2. CASE t # s
    BY <1>1, <1>5, <1>7, <2>2 DEF Owners
  <2> QED BY <2>1, <2>2
<1>10. \A k \in Slots' :
          /\ StorageServersInfo'[k].server \in Server
          /\ PortPair(StorageServersInfo'[k]) \in Ports[StorageServersInfo'[k].server]
  BY <1>1, <1>7 DEF Owners
<1> QED BY <1>8, <1>9, <1>10 DEF Owners, PortPair

(* What a storage server does to the servers' states. *)
LEMMA ServerStates ==
  ASSUME TypeOK, NEW s \in Server, SSListen(s) \/ SSAccept(s) \/ SSServe(s) \/ SSCrash(s)
  PROVE  \A t \in Server : /\ ss'[t] # "down" => ss[t] # "down"
                           /\ ss'[t] \in {"acked", "listening"} => ss[t] \in {"acked", "listening"}
<1> DEFINE Goal == \A t \in Server :
                      /\ ss'[t] # "down" => ss[t] # "down"
                      /\ ss'[t] \in {"acked", "listening"} => ss[t] \in {"acked", "listening"}
<1>0. ss \in [Server -> ServerState]
  BY DEF TypeOK, ServerTypeOK
<1>1. UNCHANGED ss => Goal
  OBVIOUS
<1>2. SSDies(s) => Goal
  BY <1>0 DEF SSDies
<1>3. ASSUME NEW c, NEW j, NEW ok, SSAnswer(s, c, j, ok) PROVE UNCHANGED ss
  BY <1>3 DEF SSAnswer
<1>4. ASSUME NEW c, NEW name, NEW whole, ReceiveInto(s, c, name, whole) PROVE Goal
  BY <1>1, <1>2, <1>4, Zenon DEF ReceiveInto
<1>5. SSListen(s) => Goal
  BY <1>0 DEF SSListen
<1>6. SSAccept(s) => UNCHANGED ss
  BY DEF SSAccept
<1> HIDE DEF Goal
<1>7. ASSUME NEW c \in Client, SSCreate(s, c) \/ SSDelete(s, c) \/ SSSend(s, c) PROVE Goal
  BY <1>1, <1>2, <1>3, <1>7, Zenon DEF SSCreate, SSDelete, SSSend
<1>8. ASSUME NEW c \in Client, SSReceive(s, c) PROVE Goal
  BY <1>4, <1>8, Zenon DEF SSReceive
<1>9. SSCrash(s) => Goal
  BY <1>2 DEF SSCrash
<1>10. Goal
  BY <1>1, <1>5, <1>6, <1>7, <1>8, <1>9 DEF SSServe
<1> QED BY <1>10 DEF Goal

-----------------------------------------------------------------------------
(* What a step of a handler does to its connections: it goes on, opens one *)
(* to the server of the slot it looked up, or forgets both.                *)
GoesOn(c) ==
  /\ UNCHANGED <<sock, backlog>>
  /\ \A j \in {1, 2} : Busy(c, j) => target'[c][j] = target[c][j]
  /\ Busy(c, 1) => pc'[c] \in UsesFirst
  /\ Busy(c, 2) => pc'[c] \in UsesSecond

Opens(c, j, s) ==
  /\ ~Busy(c, j) /\ ~Busy(c, 2) /\ UNCHANGED target
  /\ target[c][j] + 1 \in Slots /\ StorageServersInfo[target[c][j] + 1].server = s
  /\ sock' = [sock EXCEPT ![c][j] = "queued"]
  /\ backlog' = [backlog EXCEPT ![s] = Append(@, <<c, j>>)]
  /\ pc'[c] \in UsesFirst /\ (j = 2 => pc'[c] \in UsesSecond)

Forgets(c) ==
  /\ ~Busy(c, 1) /\ ~Busy(c, 2) /\ UNCHANGED <<backlog, target>>
  /\ sock' = [sock EXCEPT ![c] = [j \in {1, 2} |-> "closed"]]

Handling(p) == p \notin {"off", "connecting"}
HandlerStep(c) ==
  /\ UNCHANGED <<mainVars, StorageServersInfo, ss, portVars, session>>
  /\ \A d \in Client : d # c => pc'[d] = pc[d] /\ target'[d] = target[d]
  /\ \/ UNCHANGED <<pc, sock, backlog, target>>
     \/ /\ Handling(pc[c]) /\ Handling(pc'[c])
        /\ GoesOn(c) \/ (\E j \in {1, 2} : \E s \in Server : Opens(c, j, s)) \/ Forgets(c)

LEMMA DeadHandler == ASSUME NEW c \in Client, NamingServerDies PROVE HandlerStep(c)
  BY DEF NamingServerDies, HandlerStep, tableVars, handlerVars, serverVars

LEMMA LineHandler ==
  ASSUME TypeOK, Sockets, NEW c \in Client, NEW cmd \in Command,
         HandleBlank(c, cmd) \/ HandleCreateDelete(c, cmd) \/ HandleLocate(c, cmd)
         \/ HandleCopy(c, cmd) \/ HandleInvalid(c, cmd)
  PROVE  HandlerStep(c)
<1>1. CASE HandleBlank(c, cmd)
  BY <1>1, DeadHandler DEF HandleBlank
<1>2. CASE HandleCreateDelete(c, cmd) \/ HandleLocate(c, cmd)
           \/ HandleCopy(c, cmd) \/ HandleInvalid(c, cmd)
  <2>1. pc[c] = "recv" /\ ~Busy(c, 1) /\ ~Busy(c, 2)
    <3>1. pc[c] = "recv"
      BY <1>2 DEF HandleCreateDelete, HandleLocate, HandleCopy, HandleInvalid, RecvCommand
    <3> QED BY <3>1 DEF Sockets, UsesFirst, UsesSecond
  <2>2. UNCHANGED <<mainVars, StorageServersInfo, ss, portVars, session, sock, backlog>>
    BY <1>2 DEF HandleCreateDelete, HandleLocate, HandleCopy, HandleInvalid, tableVars, serverVars
  <2>3. /\ pc'[c] \in {"recv", "connect", "copyFrom"}
        /\ \A d \in Client : d # c => pc'[d] = pc[d] /\ target'[d] = target[d]
    <3>0. pc \in [Client -> HandlerState] /\ target \in [Client -> [{1, 2} -> Int]]
      BY DEF TypeOK, HandlerTypeOK
    <3>1. CASE HandleCreateDelete(c, cmd)
      BY <3>0, <3>1 DEF HandleCreateDelete
    <3>2. CASE HandleLocate(c, cmd)
      BY <2>1, <3>0, <3>2 DEF HandleLocate
    <3>3. CASE HandleCopy(c, cmd)
      BY <3>0, <3>3 DEF HandleCopy
    <3>4. CASE HandleInvalid(c, cmd)
      BY <2>1, <3>0, <3>4 DEF HandleInvalid
    <3> QED BY <1>2, <3>1, <3>2, <3>3, <3>4
  <2>4. GoesOn(c)
    <3>1. \A j \in {1, 2} : ~Busy(c, j)
      BY <2>1
    <3> QED BY <2>1, <2>2, <3>1 DEF GoesOn
  <2>5. Handling(pc[c]) /\ Handling(pc'[c])
    BY <2>1, <2>3 DEF Handling
  <2> QED BY <2>2, <2>3, <2>4, <2>5 DEF HandlerStep
<1> QED BY <1>1, <1>2

(* The ports of the table are unique, so the one who listens on the port   *)
(* of a slot is the server of the slot.                                    *)
LEMMA ListenerOwns ==
  ASSUME PortsUnique, Owners, NEW k \in Slots,
         NEW s \in ListeningOn(StorageServersInfo[k].naming_port)
  PROVE  s \in Server /\ StorageServersInfo[k].server = s
<1>1. s \in Server /\ ss[s] = "listening" /\ naming_port[s] = StorageServersInfo[k].naming_port
  BY DEF ListeningOn
<1>2. PICK l \in Slots : StorageServersInfo[l] = SlotOf(s)
  BY <1>1 DEF Owners
<1>a. StorageServersInfo[l].server = s
  BY <1>2 DEF SlotOf
<1>3. StorageServersInfo[l].naming_port = StorageServersInfo[k].naming_port
  BY <1>1, <1>2 DEF SlotOf
<1>4. l = k
  <2>1. StorageServersInfo[k].naming_port \in PortsOf(l) \cap PortsOf(k)
    BY <1>3 DEF PortsOf
  <2> QED BY <2>1 DEF PortsUnique
<1> QED BY <1>1, <1>a, <1>4

LEMMA ConnectHandler ==
  ASSUME TypeOK, PortsUnique, Owners, Sockets, NEW c \in Client, NEW j \in {1, 2},
         NEW next \in HandlerState, Connect(c, j, next), target[c][j] + 1 \in Slots,
         ~Busy(c, j), ~Busy(c, 2), Handling(pc[c]), next \in UsesFirst,
         j = 2 => next \in UsesSecond
  PROVE  HandlerStep(c)
<1>1. CASE NamingServerDies
  BY <1>1, DeadHandler
<1>2. CASE ~NamingServerDies
  <2> DEFINE k == target[c][j] + 1
  <2>1. PICK s \in ListeningOn(StorageServersInfo[k].naming_port) :
          /\ sock' = [sock EXCEPT ![c][j] = "queued"]
          /\ backlog' = [backlog EXCEPT ![s] = Append(@, <<c, j>>)]
          /\ pc' = [pc EXCEPT ![c] = next]
          /\ UNCHANGED <<nm, mainVars, tableVars, naming_server_gets, lineVars,
                         target, result, reply, ss, portVars, session, disk, crashes>>
    BY <1>2 DEF Connect
  <2>2. s \in Server /\ StorageServersInfo[k].server = s
    BY <2>1, ListenerOwns
  <2>3. /\ pc'[c] = next
        /\ \A d \in Client : d # c => pc'[d] = pc[d] /\ target'[d] = target[d]
    BY <2>1 DEF TypeOK, HandlerTypeOK
  <2>4. Opens(c, j, s)
    BY <2>1, <2>2, <2>3 DEF Opens
  <2>5. Handling(pc'[c])
    BY <2>3 DEF Handling, UsesFirst
  <2> QED BY <2>1, <2>2, <2>3, <2>4, <2>5 DEF HandlerStep, tableVars
<1> QED BY <1>1, <1>2

LEMMA AnswerHandler ==
  ASSUME TypeOK, NEW c \in Client, NEW text, Answer(c, text), Handling(pc[c]),
         ~Busy(c, 1), ~Busy(c, 2)
  PROVE  HandlerStep(c)
<1>1. pc'[c] = "recv" /\ \A d \in Client : d # c => pc'[d] = pc[d] /\ target'[d] = target[d]
  BY DEF Answer, TypeOK, HandlerTypeOK
<1>2. Forgets(c)
  BY DEF Answer, Forgets, serverVars
<1>3. UNCHANGED <<mainVars, StorageServersInfo, ss, portVars, session>>
  BY DEF Answer, serverVars
<1>4. Handling(pc'[c])
  BY <1>1 DEF Handling
<1> QED BY <1>1, <1>2, <1>3, <1>4 DEF HandlerStep

(* A step that leaves the connections and the numbers looked up alone. *)
LEMMA MoveHandler ==
  ASSUME TypeOK, NEW c \in Client, NEW q \in HandlerState, pc' = [pc EXCEPT ![c] = q],
         UNCHANGED <<mainVars, StorageServersInfo, target, sock, serverVars>>,
         Handling(pc[c]), Handling(q),
         Busy(c, 1) => q \in UsesFirst, Busy(c, 2) => q \in UsesSecond
  PROVE  HandlerStep(c)
<1>1. pc'[c] = q /\ \A d \in Client : d # c => pc'[d] = pc[d]
  BY DEF TypeOK, HandlerTypeOK
<1>2. GoesOn(c)
  BY <1>1 DEF GoesOn, serverVars
<1> QED BY <1>1, <1>2 DEF HandlerStep, serverVars

LEMMA WorkHandler ==
  ASSUME TypeOK, PortsUnique, RoutesResolve, Owners, Sockets, NEW c \in Client, Work(c)
  PROVE  HandlerStep(c)
<1>0. /\ Busy(c, 1) => pc[c] \in UsesFirst
      /\ Busy(c, 2) => pc[c] \in UsesSecond
  BY DEF Sockets
<1>1. CASE NamingServerDies
  BY <1>1, DeadHandler
<1>2. CASE OpenSocket(c)
  <2>1. pc[c] = "connect" /\ Connect(c, 1, "clear") /\ target[c][1] + 1 \in Slots
    BY <1>2 DEF OpenSocket, RoutesResolve
  <2>2. ~Busy(c, 1) /\ ~Busy(c, 2)
    BY <1>0, <2>1 DEF UsesFirst, UsesSecond
  <2> QED BY <2>1, <2>2, ConnectHandler DEF HandlerState, Handling, UsesFirst
<1>3. CASE ClearBuffer(c) /\ ~NamingServerDies
  <2>1. /\ pc[c] = "clear" /\ pc' = [pc EXCEPT ![c] = "result"]
        /\ UNCHANGED <<mainVars, StorageServersInfo, target, sock, serverVars>>
    BY <1>3 DEF ClearBuffer, HandshakeFails, tableVars
  <2> QED BY <1>0, <2>1, MoveHandler DEF HandlerState, Handling, UsesFirst, UsesSecond
<1>4. CASE RecvResult(c) /\ ~NamingServerDies
  <2>1. /\ pc[c] = "result" /\ pc' = [pc EXCEPT ![c] = "check"]
        /\ UNCHANGED <<mainVars, StorageServersInfo, target, sock, serverVars>>
        /\ ~Busy(c, 1)
    BY <1>4 DEF RecvResult, tableVars, Busy
  <2> QED BY <1>0, <2>1, MoveHandler DEF HandlerState, Handling, UsesSecond
<1>5. CASE CheckResult(c)
  <2>1. /\ pc[c] = "check" /\ pc' = [pc EXCEPT ![c] = "commit"]
        /\ UNCHANGED <<mainVars, StorageServersInfo, target, sock, serverVars>>
    BY <1>5 DEF CheckResult, tableVars
  <2> QED BY <1>0, <2>1, MoveHandler DEF HandlerState, Handling, UsesFirst, UsesSecond
<1>6. CASE CommitCreate(c) \/ CommitDelete(c) \/ CommitFail(c)
           \/ CommitCopyFile(c) \/ CommitCopyDir(c)
  <2>1. pc[c] \in {"commit", "commitCopy"} /\ \E text : Answer(c, text)
    BY <1>6, Zenon DEF CommitCreate, CommitDelete, CommitFail, CommitCopyFile, CommitCopyDir
  <2>2. ~Busy(c, 1) /\ ~Busy(c, 2)
    BY <1>0, <2>1 DEF UsesFirst, UsesSecond
  <2>3. Handling(pc[c])
    BY <2>1 DEF Handling
  <2> QED BY <2>1, <2>2, <2>3, AnswerHandler
<1>7. CASE OpenFrom(c)
  <2>1. pc[c] = "copyFrom" /\ Connect(c, 1, "copyFromWait") /\ target[c][1] + 1 \in Slots
    BY <1>7 DEF OpenFrom, RoutesResolve
  <2>2. ~Busy(c, 1) /\ ~Busy(c, 2)
    BY <1>0, <2>1 DEF UsesFirst, UsesSecond
  <2> QED BY <2>1, <2>2, ConnectHandler DEF HandlerState, Handling, UsesFirst
<1>8. CASE OpenTo(c)
  <2>1. pc[c] = "copyTo" /\ Connect(c, 2, "copyToWait") /\ target[c][2] + 1 \in Slots
    BY <1>8 DEF OpenTo, RoutesResolve
  <2>2. ~Busy(c, 2)
    BY <1>0, <2>1 DEF UsesSecond
  <2> QED BY <2>1, <2>2, ConnectHandler DEF HandlerState, Handling, UsesFirst, UsesSecond
<1>9. CASE HandshakeOver(c) /\ ~NamingServerDies
  <2>1. PICK j \in {1, 2} :
          /\ pc[c] = IF j = 1 THEN "copyFromWait" ELSE "copyToWait"
          /\ pc' = [pc EXCEPT ![c] = IF j = 1 THEN "copyTo" ELSE "copying"]
          /\ UNCHANGED <<mainVars, StorageServersInfo, target, sock, serverVars>>
    BY <1>9 DEF HandshakeOver, HandshakeFails, tableVars
  <2>2. CASE j = 1
    <3>1. pc[c] = "copyFromWait" /\ pc' = [pc EXCEPT ![c] = "copyTo"]
      BY <2>1, <2>2
    <3> QED BY <1>0, <2>1, <3>1, MoveHandler DEF HandlerState, Handling, UsesFirst, UsesSecond
  <2>3. CASE j = 2
    <3>1. pc[c] = "copyToWait" /\ pc' = [pc EXCEPT ![c] = "copying"]
      BY <2>1, <2>3
    <3> QED BY <1>0, <2>1, <3>1, MoveHandler DEF HandlerState, Handling, UsesFirst, UsesSecond
  <2> QED BY <2>2, <2>3
<1>10. CASE FacilitateCopy(c) /\ ~NamingServerDies
  <2>1. /\ pc[c] = "copying" /\ ~Busy(c, 1) /\ ~Busy(c, 2)
        /\ \/ pc' = [pc EXCEPT ![c] = "relookup"]
              /\ UNCHANGED <<mainVars, StorageServersInfo, target, sock, serverVars>>
           \/ Answer(c, "FAIL")
    BY <1>10 DEF FacilitateCopy, tableVars, Busy
  <2>2. Handling(pc[c])
    BY <2>1 DEF Handling
  <2> QED BY <2>1, <2>2, MoveHandler, AnswerHandler DEF HandlerState, Handling
<1>11. CASE CopyRelookup(c)
  <2>1. /\ pc[c] = "relookup" /\ pc' = [pc EXCEPT ![c] = "commitCopy"]
        /\ \E n : target' = [target EXCEPT ![c][2] = n]
        /\ UNCHANGED <<mainVars, StorageServersInfo, sock, serverVars>>
    BY <1>11 DEF CopyRelookup, tableVars
  <2>2. /\ pc'[c] = "commitCopy"
        /\ \A d \in Client : d # c => pc'[d] = pc[d] /\ target'[d] = target[d]
    BY <2>1 DEF TypeOK, HandlerTypeOK
  <2>3. \A j \in {1, 2} : ~Busy(c, j)
    BY <1>0, <2>1 DEF UsesFirst, UsesSecond
  <2>4. GoesOn(c)
    BY <2>1, <2>3 DEF GoesOn, serverVars
  <2>5. Handling(pc[c]) /\ Handling(pc'[c])
    BY <2>1, <2>2 DEF Handling
  <2> QED BY <2>1, <2>2, <2>4, <2>5 DEF HandlerStep, serverVars
<1> QED BY <1>1, <1>2, <1>3, <1>4, <1>5, <1>6, <1>7, <1>8, <1>9, <1>10, <1>11 DEF Work

LEMMA HandleHandler ==
  ASSUME TypeOK, PortsUnique, RoutesResolve, Owners, Sockets, NEW c \in Client, Handle(c)
  PROVE  HandlerStep(c)
<1>1. CASE Work(c)
  BY <1>1, WorkHandler
<1>2. CASE ~Work(c)
  <2>1. PICK cmd \in Command :
          HandleBlank(c, cmd) \/ HandleCreateDelete(c, cmd) \/ HandleLocate(c, cmd)
          \/ HandleCopy(c, cmd) \/ HandleInvalid(c, cmd)
    BY <1>2 DEF Handle, Work
  <2> QED BY <2>1, LineHandler
<1> QED BY <1>1, <1>2

-----------------------------------------------------------------------------
(* What a storage server does to connections: it accepts the first of its  *)
(* backlog, ends the one it serves, or goes down with all it has.          *)
Accepts(s) ==
  /\ session[s] = Nobody /\ backlog[s] # << >>
  /\ session' = [session EXCEPT ![s] = Head(backlog[s])]
  /\ backlog' = [backlog EXCEPT ![s] = Tail(@)]
  /\ sock' = [sock EXCEPT ![Head(backlog[s])[1]][Head(backlog[s])[2]] = "open"]

Ends(s, c, j) ==
  /\ session[s] = <<c, j>> /\ session' = [session EXCEPT ![s] = Nobody] /\ UNCHANGED backlog
  /\ ~Busy(c, j)'
  /\ \A d \in Client : \A i \in {1, 2} :
        \/ (d = c /\ i = j)
        \/ sock'[d][i] = sock[d][i]
        \/ (~Busy(d, i) /\ ~Busy(d, i)' /\ pc[d] = "copying")

GoesDown(s) ==
  /\ session' = [session EXCEPT ![s] = Nobody]
  /\ backlog' = [backlog EXCEPT ![s] = << >>]
  /\ sock' = [c \in Client |-> [j \in {1, 2} |->
         CASE session[s] = <<c, j>> -> "dead"
           [] \E i \in 1..Len(backlog[s]) : backlog[s][i] = <<c, j>> -> "refused"
           [] OTHER -> sock[c][j]]]

PortStep(s) ==
  \/ UNCHANGED <<sock, backlog, session>>
  \/ Accepts(s) \/ GoesDown(s)
  \/ \E c \in Client : \E j \in {1, 2} : Ends(s, c, j)

LEMMA ServerPort ==
  ASSUME TypeOK, NEW s \in Server, SSListen(s) \/ SSAccept(s) \/ SSServe(s) \/ SSCrash(s)
  PROVE  PortStep(s)
<1>0. sock \in [Client -> [{1, 2} -> SocketState]]
  BY DEF TypeOK, HandlerTypeOK
<1>1. SSDies(s) => PortStep(s)
  BY DEF SSDies, GoesDown, PortStep
<1>2. ASSUME NEW c \in Client, NEW j \in {1, 2}, NEW ok, SSAnswer(s, c, j, ok),
             session[s] = <<c, j>>
      PROVE  PortStep(s)
  <2>1. /\ session' = [session EXCEPT ![s] = Nobody] /\ UNCHANGED backlog
        /\ sock' = [sock EXCEPT ![c][j] = IF ok THEN "ACK" ELSE "FAIL"]
    BY <1>2 DEF SSAnswer
  <2>2. sock'[c][j] \in {"ACK", "FAIL"}
    BY <1>0, <2>1
  <2>3. \A d \in Client : \A i \in {1, 2} : (d = c /\ i = j) \/ sock'[d][i] = sock[d][i]
    BY <1>0, <2>1
  <2>4. ~Busy(c, j)'
    BY <2>2 DEF Busy
  <2>5. Ends(s, c, j)
    BY <1>2, <2>1, <2>3, <2>4 DEF Ends
  <2> QED BY <2>5 DEF PortStep
<1>3. ASSUME NEW c \in Client, NEW name, NEW whole, ReceiveInto(s, c, name, whole),
             session[s] = <<c, 2>>, sock[c][1] \in {"ACK", "dead"}, pc[c] = "copying"
      PROVE  PortStep(s)
  <2>1. CASE SSDies(s)
    BY <1>1, <2>1
  <2>2. CASE ~SSDies(s)
    <3>1. /\ session' = [session EXCEPT ![s] = Nobody] /\ UNCHANGED backlog
          /\ sock' = [sock EXCEPT ![c] =
                [j \in {1, 2} |-> IF j = 2 THEN "ACK" ELSE IF whole THEN @[1] ELSE "FAIL"]]
      BY <1>3, <2>2 DEF ReceiveInto
    <3>2. sock'[c][2] = "ACK" /\ sock'[c][1] \in {"ACK", "dead", "FAIL"}
      BY <1>0, <1>3, <3>1
    <3>3. \A d \in Client : d # c => sock'[d] = sock[d]
      BY <1>0, <3>1
    <3>4. \A d \in Client : \A i \in {1, 2} :
             \/ (d = c /\ i = 2)
             \/ sock'[d][i] = sock[d][i]
             \/ (~Busy(d, i) /\ ~Busy(d, i)' /\ pc[d] = "copying")
      <4>1. ~Busy(c, 1) /\ ~Busy(c, 1)'
        BY <1>3, <3>2 DEF Busy
      <4> QED BY <1>3, <3>3, <4>1
    <3>5. ~Busy(c, 2)'
      BY <3>2 DEF Busy
    <3>6. Ends(s, c, 2)
      BY <1>3, <3>1, <3>4, <3>5 DEF Ends
    <3> QED BY <3>6 DEF PortStep
  <2> QED BY <2>1, <2>2
<1>4. SSListen(s) => PortStep(s)
  BY DEF SSListen, PortStep, handlerVars
<1>5. SSAccept(s) => PortStep(s)
  BY DEF SSAccept, Accepts, PortStep
<1>6. SSCrash(s) => PortStep(s)
  BY <1>1 DEF SSCrash
<1>7. ASSUME NEW c \in Client, SSCreate(s, c) \/ SSDelete(s, c) \/ SSSend(s, c)
      PROVE  PortStep(s)
  <2>1. session[s] = <<c, 1>>
    BY <1>7 DEF SSCreate, SSDelete, SSSend, Serving
  <2>2. SSDies(s) \/ \E ok : SSAnswer(s, c, 1, ok)
    BY <1>7, Zenon DEF SSCreate, SSDelete, SSSend
  <2> QED BY <1>1, <1>2, <2>1, <2>2
<1>8. ASSUME NEW c \in Client, SSReceive(s, c) PROVE PortStep(s)
  <2>1. session[s] = <<c, 2>> /\ sock[c][1] \in {"ACK", "dead"} /\ pc[c] = "copying"
    BY <1>8 DEF SSReceive, Serving
  <2>2. \E name, whole : ReceiveInto(s, c, name, whole)
    BY <1>8, Zenon DEF SSReceive
  <2> QED BY <1>3, <2>1, <2>2
<1> QED BY <1>4, <1>5, <1>6, <1>7, <1>8 DEF SSServe

-----------------------------------------------------------------------------
(* The connections under each kind of step. *)
Underway(s, c, j) == session[s] = <<c, j>> \/ Waits(s, c, j)
Leads(s, c, j) == /\ target[c][j] + 1 \in Slots
                  /\ StorageServersInfo[target[c][j] + 1].server = s

LEMMA RightIs ==
  /\ RightServer  <=> \A s \in Server : \A c \in Client : \A j \in {1, 2} :
                         Underway(s, c, j) => Leads(s, c, j)
  /\ RightServer' <=> \A s \in Server : \A c \in Client : \A j \in {1, 2} :
                         Underway(s, c, j)' => Leads(s, c, j)'
  BY DEF RightServer, Underway, Leads, Waits

LEMMA UnderBusy ==
  ASSUME Agree, NEW s \in Server, NEW c \in Client, NEW j \in {1, 2}, Underway(s, c, j)
  PROVE  Busy(c, j)
  BY DEF Agree, Underway, Busy

LEMMA Nobodies ==
  ASSUME NEW c \in Client, NEW j \in {1, 2}
  PROVE  <<c, j>> # Nobody /\ <<c, j>> \in Conn
  BY ProcessAssumption DEF Conn

LEMMA OnePlace ==
  ASSUME Once, NEW s \in Server, NEW t \in Server,
         NEW a \in 1..Len(backlog[s]), NEW b \in 1..Len(backlog[t]),
         backlog[s][a] = backlog[t][b]
  PROVE  s = t /\ a = b
  BY DEF Once

(* A step that leaves servers and sockets alone. *)
LEMMA StillAgrees ==
  ASSUME Agree, Once, UNCHANGED <<sock, backlog, session>>
  PROVE  /\ Agree' /\ Once'
         /\ \A s, c, j : Underway(s, c, j)' <=> Underway(s, c, j)
<1>1. \A s, c, j : Waits(s, c, j)' <=> Waits(s, c, j)
  BY DEF Waits
<1>2. \A s, c, j : Underway(s, c, j)' <=> Underway(s, c, j)
  BY <1>1 DEF Underway
<1>3. Agree'
  BY <1>1 DEF Agree
<1>4. Once'
  BY DEF Once
<1> QED BY <1>2, <1>3, <1>4

(* The places of the backlogs after another one is taken. *)
LEMMA OpensPlaces ==
  ASSUME TypeOK, NEW c \in Client, NEW j \in {1, 2}, NEW s \in Server, Opens(c, j, s)
  PROVE  /\ \A t \in Server : \A i \in 1..Len(backlog[t]) :
               i \in 1..Len(backlog'[t]) /\ backlog'[t][i] = backlog[t][i]
         /\ Len(backlog[s]) + 1 \in 1..Len(backlog'[s])
         /\ backlog'[s][Len(backlog[s]) + 1] = <<c, j>>
         /\ \A t \in Server : \A i \in 1..Len(backlog'[t]) :
               i \in 1..Len(backlog[t]) \/ (t = s /\ i = Len(backlog[s]) + 1)
<1>1. /\ backlog \in [Server -> Seq(Conn)] /\ <<c, j>> \in Conn
      /\ backlog' = [backlog EXCEPT ![s] = Append(@, <<c, j>>)]
  BY Nobodies DEF TypeOK, ServerTypeOK, Opens
<1>2. /\ backlog'[s] = Append(backlog[s], <<c, j>>)
      /\ \A t \in Server : t # s => backlog'[t] = backlog[t]
  BY <1>1
<1>3. PICK n \in Nat : n = Len(backlog[s])
  BY <1>1, LenProperties
<1>4. /\ Len(backlog'[s]) = n + 1 /\ backlog'[s][n + 1] = <<c, j>>
      /\ \A i \in 1..n : backlog'[s][i] = backlog[s][i]
  <2> DEFINE x == <<c, j>>
  <2>1. x \in Conn /\ backlog[s] \in Seq(Conn) /\ backlog'[s] = Append(backlog[s], x)
    BY <1>1, <1>2
  <2> HIDE DEF x
  <2>2. /\ Len(backlog'[s]) = n + 1 /\ backlog'[s][n + 1] = x
        /\ \A i \in 1..n : backlog'[s][i] = backlog[s][i]
    BY <1>3, <2>1, AppendProperties
  <2> QED BY <2>2 DEF x
<1>5. n + 1 \in 1..(n + 1) /\ \A i \in 1..(n + 1) : i \in 1..n \/ i = n + 1
  OBVIOUS
<1>6. \A i \in 1..n : i \in 1..(n + 1)
  OBVIOUS
<1>7. \A t \in Server : \A i \in 1..Len(backlog[t]) :
         i \in 1..Len(backlog'[t]) /\ backlog'[t][i] = backlog[t][i]
  BY <1>2, <1>3, <1>4, <1>6
<1>8. \A t \in Server : \A i \in 1..Len(backlog'[t]) :
         i \in 1..Len(backlog[t]) \/ (t = s /\ i = Len(backlog[s]) + 1)
  BY <1>2, <1>3, <1>4, <1>5
<1> QED BY <1>3, <1>4, <1>5, <1>7, <1>8

LEMMA OpensAgrees ==
  ASSUME TypeOK, Agree, Once, NEW c \in Client, NEW j \in {1, 2}, NEW s \in Server,
         Opens(c, j, s), UNCHANGED session
  PROVE  /\ Agree' /\ Once'
         /\ \A t \in Server : \A d \in Client : \A i \in {1, 2} :
               Underway(t, d, i)' => Underway(t, d, i) \/ (t = s /\ d = c /\ i = j)
<1> DEFINE n == Len(backlog[s])
<1>1. /\ \A t \in Server : \A i \in 1..Len(backlog[t]) :
            i \in 1..Len(backlog'[t]) /\ backlog'[t][i] = backlog[t][i]
      /\ n + 1 \in 1..Len(backlog'[s]) /\ backlog'[s][n + 1] = <<c, j>>
      /\ \A t \in Server : \A i \in 1..Len(backlog'[t]) :
            i \in 1..Len(backlog[t]) \/ (t = s /\ i = n + 1)
  BY OpensPlaces
<1>2. sock'[c][j] = "queued"
      /\ \A d \in Client : \A i \in {1, 2} : ~(d = c /\ i = j) => sock'[d][i] = sock[d][i]
  BY DEF Opens, TypeOK, HandlerTypeOK
<1>3. \A t \in Server : \A d \in Client : \A i \in {1, 2} :
         Waits(t, d, i)' <=> Waits(t, d, i) \/ (t = s /\ d = c /\ i = j)
  <2> SUFFICES ASSUME NEW t \in Server, NEW d \in Client, NEW i \in {1, 2}
               PROVE  Waits(t, d, i)' <=> Waits(t, d, i) \/ (t = s /\ d = c /\ i = j)
    OBVIOUS
  <2> HIDE DEF n
  <2>1. Waits(t, d, i) => Waits(t, d, i)'
    BY <1>1 DEF Waits
  <2>2. t = s /\ d = c /\ i = j => Waits(t, d, i)'
    BY <1>1 DEF Waits
  <2>3. ASSUME Waits(t, d, i)' PROVE Waits(t, d, i) \/ (t = s /\ d = c /\ i = j)
    <3>1. PICK a \in 1..Len(backlog'[t]) : backlog'[t][a] = <<d, i>>
      BY <2>3 DEF Waits
    <3>2. CASE a \in 1..Len(backlog[t])
      BY <1>1, <3>1, <3>2 DEF Waits
    <3>3. CASE t = s /\ a = n + 1
      BY <1>1, <3>1, <3>3
    <3> QED BY <1>1, <3>1, <3>2, <3>3
  <2> QED BY <2>1, <2>2, <2>3
<1>4. ~(\E t \in Server : Waits(t, c, j)) /\ ~(\E t \in Server : session[t] = <<c, j>>)
  BY DEF Agree, Opens, Busy
<1>5. Agree'
  <2> SUFFICES ASSUME NEW d \in Client, NEW i \in {1, 2}
               PROVE  /\ sock'[d][i] = "queued" <=> \E t \in Server : Waits(t, d, i)'
                      /\ sock'[d][i] = "open" <=> \E t \in Server : session'[t] = <<d, i>>
    BY DEF Agree
  <2>1. CASE d = c /\ i = j
    BY <1>2, <1>3, <1>4, <2>1
  <2>2. CASE ~(d = c /\ i = j)
    <3>1. sock'[d][i] = sock[d][i] /\ session' = session
      BY <1>2, <2>2
    <3>2. (\E t \in Server : Waits(t, d, i)') <=> \E t \in Server : Waits(t, d, i)
      BY <1>3, <2>2
    <3>3. /\ sock[d][i] = "queued" <=> \E t \in Server : Waits(t, d, i)
          /\ sock[d][i] = "open" <=> \E t \in Server : session[t] = <<d, i>>
      BY DEF Agree
    <3> QED BY <3>1, <3>2, <3>3, Zenon
  <2> QED BY <2>1, <2>2
<1>6. Once'
  <2>1. ASSUME NEW t \in Server, NEW u \in Server,
               NEW a \in 1..Len(backlog'[t]), NEW b \in 1..Len(backlog'[u]),
               backlog'[t][a] = backlog'[u][b]
        PROVE  t = u /\ a = b
    <3> HIDE DEF n
    <3>1. \A v \in Server : \A i \in 1..Len(backlog[v]) : backlog[v][i] # <<c, j>>
      BY <1>4 DEF Waits
    <3>2. CASE a \in 1..Len(backlog[t]) /\ b \in 1..Len(backlog[u])
      BY <1>1, <2>1, <3>2 DEF Once
    <3>3. CASE a \in 1..Len(backlog[t]) /\ u = s /\ b = n + 1
      BY <1>1, <2>1, <3>1, <3>3
    <3>4. CASE t = s /\ a = n + 1 /\ b \in 1..Len(backlog[u])
      BY <1>1, <2>1, <3>1, <3>4
    <3>5. CASE t = s /\ a = n + 1 /\ u = s /\ b = n + 1
      BY <3>5
    <3> QED BY <1>1, <3>2, <3>3, <3>4, <3>5
  <2> QED BY <2>1 DEF Once
<1>7. \A t \in Server : \A d \in Client : \A i \in {1, 2} :
         Underway(t, d, i)' => Underway(t, d, i) \/ (t = s /\ d = c /\ i = j)
  BY <1>3 DEF Underway
<1> QED BY <1>5, <1>6, <1>7

LEMMA ForgetsAgrees ==
  ASSUME TypeOK, Agree, Once, NEW c \in Client, Forgets(c), UNCHANGED session
  PROVE  /\ Agree' /\ Once'
         /\ \A s, d, i : Underway(s, d, i)' <=> Underway(s, d, i)
<1>1. UNCHANGED <<backlog, session>>
  BY DEF Forgets
<1>2. \A s, d, i : Waits(s, d, i)' <=> Waits(s, d, i)
  BY <1>1 DEF Waits
<1>3. \A d \in Client : \A i \in {1, 2} :
         sock'[d][i] = sock[d][i] \/ (~Busy(d, i) /\ ~Busy(d, i)')
  <2>1. \A i \in {1, 2} : ~Busy(c, i) /\ sock'[c][i] = "closed"
    BY DEF Forgets, TypeOK, HandlerTypeOK
  <2>2. \A d \in Client : d # c => sock'[d] = sock[d]
    BY DEF Forgets, TypeOK, HandlerTypeOK
  <2> QED BY <2>1, <2>2 DEF Busy
<1>4. Agree'
  <2> SUFFICES ASSUME NEW d \in Client, NEW i \in {1, 2}
               PROVE  /\ sock'[d][i] = "queued" <=> \E t \in Server : Waits(t, d, i)'
                      /\ sock'[d][i] = "open" <=> \E t \in Server : session'[t] = <<d, i>>
    BY DEF Agree
  <2>1. /\ sock'[d][i] = "queued" <=> sock[d][i] = "queued"
        /\ sock'[d][i] = "open" <=> sock[d][i] = "open"
    BY <1>3 DEF Busy
  <2>2. /\ sock[d][i] = "queued" <=> \E t \in Server : Waits(t, d, i)
        /\ sock[d][i] = "open" <=> \E t \in Server : session[t] = <<d, i>>
    BY DEF Agree
  <2> QED BY <1>1, <1>2, <2>1, <2>2, Zenon
<1>5. Once'
  BY <1>1 DEF Once
<1> QED BY <1>1, <1>2, <1>4, <1>5 DEF Underway

LEMMA EndsAgrees ==
  ASSUME TypeOK, Agree, Once, NEW s \in Server, NEW c \in Client, NEW j \in {1, 2},
         Ends(s, c, j)
  PROVE  /\ Agree' /\ Once'
         /\ \A t \in Server : \A d \in Client : \A i \in {1, 2} :
               Underway(t, d, i)' => Underway(t, d, i)
         /\ \A d \in Client : \A i \in {1, 2} : Busy(d, i)' => Busy(d, i)
<1>1. \A t, d, i : Waits(t, d, i)' <=> Waits(t, d, i)
  BY DEF Waits, Ends
<1>2. \A t \in Server : session'[t] = IF t = s THEN Nobody ELSE session[t]
  BY DEF Ends, TypeOK, ServerTypeOK
<1>3. \A d \in Client : \A i \in {1, 2} :
         \/ d = c /\ i = j
         \/ sock'[d][i] = sock[d][i]
         \/ (~Busy(d, i) /\ ~Busy(d, i)')
  BY DEF Ends
<1>4. session[s] = <<c, j>> /\ ~Busy(c, j)' /\ sock[c][j] = "open"
  BY DEF Ends, Agree
<1>5. ASSUME NEW d \in Client, NEW i \in {1, 2}
      PROVE  /\ sock'[d][i] = "queued" <=> \E t \in Server : Waits(t, d, i)'
             /\ sock'[d][i] = "open" <=> \E t \in Server : session'[t] = <<d, i>>
  <2>0. /\ sock[d][i] = "queued" <=> \E t \in Server : Waits(t, d, i)
        /\ sock[d][i] = "open" <=> \E t \in Server : session[t] = <<d, i>>
    BY DEF Agree
  <2>1. CASE d = c /\ i = j
    <3>1. ~(\E t \in Server : session'[t] = <<c, j>>)
      <4>1. <<c, j>> # Nobody
        BY Nobodies
      <4>2. \A t \in Server : session[t] = <<c, j>> => t = s
        BY <1>4, <4>1 DEF Once
      <4> QED BY <1>2, <4>1, <4>2
    <3>2. ~(\E t \in Server : Waits(t, c, j)')
      BY <1>1, <1>4, <2>0, <2>1
    <3> QED BY <1>4, <2>1, <3>1, <3>2 DEF Busy
  <2>2. CASE ~(d = c /\ i = j)
    <3>1. /\ sock'[d][i] = "queued" <=> sock[d][i] = "queued"
          /\ sock'[d][i] = "open" <=> sock[d][i] = "open"
      BY <1>3, <2>2 DEF Busy
    <3>2. <<d, i>> # <<c, j>> /\ <<d, i>> # Nobody
      BY <2>2, Nobodies
    <3>3. \A t \in Server : session'[t] = <<d, i>> <=> session[t] = <<d, i>>
      BY <1>2, <1>4, <3>2
    <3> QED BY <1>1, <2>0, <3>1, <3>3, Zenon
  <2> QED BY <2>1, <2>2
<1>6. Agree'
  BY <1>5 DEF Agree
<1>7. Once'
  <2>1. backlog' = backlog
    BY DEF Ends
  <2>2. \A t, u \in Server : session'[t] # Nobody /\ session'[t] = session'[u] => t = u
    BY <1>2 DEF Once
  <2> QED BY <2>1, <2>2 DEF Once
<1>8. ASSUME NEW t \in Server, NEW d \in Client, NEW i \in {1, 2}, Underway(t, d, i)'
      PROVE  Underway(t, d, i)
  <2>1. <<d, i>> # Nobody
    BY Nobodies
  <2> QED BY <1>1, <1>2, <1>8, <2>1 DEF Underway
<1>9. ASSUME NEW d \in Client, NEW i \in {1, 2}, Busy(d, i)' PROVE Busy(d, i)
  <2>1. CASE d = c /\ i = j
    BY <1>4, <2>1 DEF Busy
  <2>2. CASE sock'[d][i] = sock[d][i]
    BY <1>9, <2>2 DEF Busy
  <2> QED BY <1>3, <1>9, <2>1, <2>2
<1> QED BY <1>6, <1>7, <1>8, <1>9

LEMMA DownAgrees ==
  ASSUME TypeOK, Agree, Once, NEW s \in Server, GoesDown(s)
  PROVE  /\ Agree' /\ Once'
         /\ \A t \in Server : \A d \in Client : \A i \in {1, 2} :
               Underway(t, d, i)' => Underway(t, d, i)
         /\ \A d \in Client : \A i \in {1, 2} : Busy(d, i)' => Busy(d, i)
<1>1. \A t \in Server : session'[t] = IF t = s THEN Nobody ELSE session[t]
  BY DEF GoesDown, TypeOK, ServerTypeOK
<1>2. \A t \in Server : backlog'[t] = IF t = s THEN << >> ELSE backlog[t]
  BY DEF GoesDown, TypeOK, ServerTypeOK
<1>3. \A t \in Server : \A d, i : Waits(t, d, i)' <=> (t # s /\ Waits(t, d, i))
  BY <1>2 DEF Waits
<1>4. ASSUME NEW d \in Client, NEW i \in {1, 2}
      PROVE  sock'[d][i] = IF session[s] = <<d, i>> THEN "dead"
                           ELSE IF Waits(s, d, i) THEN "refused" ELSE sock[d][i]
  <2>1. sock'[d][i] = CASE session[s] = <<d, i>> -> "dead"
                        [] Waits(s, d, i) -> "refused"
                        [] OTHER -> sock[d][i]
    BY Zenon DEF GoesDown, Waits
  <2>2. CASE session[s] = <<d, i>> /\ ~Waits(s, d, i)
    BY <2>1, <2>2
  <2>3. CASE session[s] # <<d, i>>
    BY <2>1, <2>3
  <2>4. ~(session[s] = <<d, i>> /\ Waits(s, d, i))
    BY DEF Agree
  <2> QED BY <2>2, <2>3, <2>4
<1>5. ASSUME NEW d \in Client, NEW i \in {1, 2}
      PROVE  /\ sock'[d][i] = "queued" <=> \E t \in Server : Waits(t, d, i)'
             /\ sock'[d][i] = "open" <=> \E t \in Server : session'[t] = <<d, i>>
             /\ Busy(d, i)' => Busy(d, i)
             /\ \A t \in Server : Underway(t, d, i)' => Underway(t, d, i)
  <2>0. /\ sock[d][i] = "queued" <=> \E t \in Server : Waits(t, d, i)
        /\ sock[d][i] = "open" <=> \E t \in Server : session[t] = <<d, i>>
    BY DEF Agree
  <2>1. <<d, i>> # Nobody
    BY Nobodies
  <2>2. \A t \in Server : session'[t] = <<d, i>> <=> (t # s /\ session[t] = <<d, i>>)
    BY <1>1, <2>1
  <2>3. ASSUME NEW t \in Server, Waits(t, d, i), Waits(s, d, i) PROVE t = s
    <3>1. PICK a \in 1..Len(backlog[t]), b \in 1..Len(backlog[s]) :
            backlog[t][a] = <<d, i>> /\ backlog[s][b] = <<d, i>>
      BY <2>3 DEF Waits
    <3> QED BY <3>1, OnePlace
  <2>4. \A t \in Server : session[t] = <<d, i>> /\ session[s] = <<d, i>> => t = s
    BY <2>1 DEF Once
  <2>5. CASE session[s] = <<d, i>>
    <3>1. sock'[d][i] = "dead" /\ sock[d][i] = "open"
      BY <1>4, <2>0, <2>5
    <3>2. ~(\E t \in Server : Waits(t, d, i)') /\ ~(\E t \in Server : session'[t] = <<d, i>>)
      BY <1>3, <2>0, <2>2, <2>4, <2>5, <3>1
    <3> QED BY <3>1, <3>2 DEF Busy, Underway
  <2>6. CASE session[s] # <<d, i>> /\ Waits(s, d, i)
    <3>1. sock'[d][i] = "refused" /\ sock[d][i] = "queued"
      BY <1>4, <2>0, <2>6
    <3>2. ~(\E t \in Server : Waits(t, d, i)') /\ ~(\E t \in Server : session'[t] = <<d, i>>)
      BY <1>3, <2>0, <2>2, <2>3, <2>6, <3>1
    <3> QED BY <3>1, <3>2 DEF Busy, Underway
  <2>7. CASE session[s] # <<d, i>> /\ ~Waits(s, d, i)
    <3>1. sock'[d][i] = sock[d][i]
      BY <1>4, <2>7
    <3>2. \A t \in Server : /\ Waits(t, d, i)' <=> Waits(t, d, i)
                            /\ session'[t] = <<d, i>> <=> session[t] = <<d, i>>
      BY <1>3, <2>2, <2>7
    <3> QED BY <2>0, <3>1, <3>2 DEF Busy, Underway
  <2> QED BY <2>5, <2>6, <2>7
<1>6. Agree'
  BY <1>5 DEF Agree
<1>7. Once'
  <2>1. \A t, u \in Server : session'[t] # Nobody /\ session'[t] = session'[u] => t = u
    BY <1>1 DEF Once
  <2>2. ASSUME NEW t \in Server, NEW u \in Server,
               NEW a \in 1..Len(backlog'[t]), NEW b \in 1..Len(backlog'[u]),
               backlog'[t][a] = backlog'[u][b]
        PROVE  t = u /\ a = b
    <3>1. t # s /\ u # s
      BY <1>2
    <3> QED BY <1>2, <2>2, <3>1 DEF Once
  <2> QED BY <2>1, <2>2 DEF Once
<1> QED BY <1>5, <1>6, <1>7

(* accept takes the first place of the backlog, the others move up. *)
LEMMA AcceptsPlaces ==
  ASSUME TypeOK, NEW s \in Server, Accepts(s)
  PROVE  \E c \in Client : \E j \in {1, 2} :
            /\ Head(backlog[s]) = <<c, j>>
            /\ 1 \in 1..Len(backlog[s]) /\ backlog[s][1] = <<c, j>>
            /\ \A t \in Server : t # s => backlog'[t] = backlog[t]
            /\ \A a \in 1..Len(backlog'[s]) :
                  a + 1 \in 1..Len(backlog[s]) /\ backlog'[s][a] = backlog[s][a + 1]
            /\ \A a \in 1..Len(backlog[s]) : a # 1 =>
                  a - 1 \in 1..Len(backlog'[s]) /\ backlog'[s][a - 1] = backlog[s][a]
<1>1. /\ backlog \in [Server -> Seq(Conn)] /\ backlog[s] # << >>
      /\ backlog' = [backlog EXCEPT ![s] = Tail(@)]
  BY DEF TypeOK, ServerTypeOK, Accepts
<1>2. /\ backlog'[s] = Tail(backlog[s])
      /\ \A t \in Server : t # s => backlog'[t] = backlog[t]
  BY <1>1
<1>3. backlog[s] \in Seq(Conn) /\ backlog'[s] \in Seq(Conn)
  BY <1>1, <1>2
<1>4. PICK n \in Nat : n = Len(backlog[s]) /\ n > 0
  BY <1>1, <1>3, EmptySeq, LenProperties
<1>5. /\ Head(backlog[s]) = backlog[s][1] /\ Len(backlog'[s]) = n - 1
      /\ \A a \in 1..(n - 1) : backlog'[s][a] = backlog[s][a + 1]
  BY <1>1, <1>2, <1>3, <1>4, HeadTailProperties
<1>6. backlog[s][1] \in Conn
  BY <1>3, <1>4, ElementOfSeq
<1>7. PICK c \in Client, j \in {1, 2} : backlog[s][1] = <<c, j>>
  BY <1>6 DEF Conn
<1>8. \A a \in 1..(n - 1) : a + 1 \in 1..n
  BY <1>4
<1>9. \A a \in 1..n : a # 1 => a - 1 \in 1..(n - 1) /\ (a - 1) + 1 = a
  BY <1>4
<1>10. ASSUME NEW a \in 1..n, a # 1
       PROVE  a - 1 \in 1..(n - 1) /\ backlog'[s][a - 1] = backlog[s][a]
  <2>1. a - 1 \in 1..(n - 1) /\ (a - 1) + 1 = a
    BY <1>9, <1>10
  <2>2. backlog'[s][a - 1] = backlog[s][(a - 1) + 1]
    BY <1>5, <2>1
  <2> QED BY <2>1, <2>2, Zenon
<1>11. 1 \in 1..n
  BY <1>4
<1> QED BY <1>2, <1>4, <1>5, <1>7, <1>8, <1>10, <1>11

LEMMA AcceptsAgrees ==
  ASSUME TypeOK, Agree, Once, NEW s \in Server, Accepts(s)
  PROVE  /\ Agree' /\ Once'
         /\ \A t \in Server : \A d \in Client : \A i \in {1, 2} :
               Underway(t, d, i)' => Underway(t, d, i)
         /\ \A d \in Client : \A i \in {1, 2} : Busy(d, i)' => Busy(d, i)
<1>1. PICK c \in Client, j \in {1, 2} :
        /\ Head(backlog[s]) = <<c, j>>
        /\ 1 \in 1..Len(backlog[s]) /\ backlog[s][1] = <<c, j>>
        /\ \A t \in Server : t # s => backlog'[t] = backlog[t]
        /\ \A a \in 1..Len(backlog'[s]) :
              a + 1 \in 1..Len(backlog[s]) /\ backlog'[s][a] = backlog[s][a + 1]
        /\ \A a \in 1..Len(backlog[s]) : a # 1 =>
              a - 1 \in 1..Len(backlog'[s]) /\ backlog'[s][a - 1] = backlog[s][a]
  BY AcceptsPlaces
<1>2. /\ session[s] = Nobody
      /\ \A t \in Server : session'[t] = IF t = s THEN <<c, j>> ELSE session[t]
  BY <1>1 DEF Accepts, TypeOK, ServerTypeOK
<1>3. \A d \in Client : \A i \in {1, 2} :
         sock'[d][i] = IF d = c /\ i = j THEN "open" ELSE sock[d][i]
  <2>1. sock' = [sock EXCEPT ![c][j] = "open"]
    <3>1. Head(backlog[s])[1] = c /\ Head(backlog[s])[2] = j
      BY <1>1
    <3> QED BY <3>1 DEF Accepts
  <2> QED BY <2>1 DEF TypeOK, HandlerTypeOK
<1>4. Waits(s, c, j) /\ sock[c][j] = "queued" /\ <<c, j>> # Nobody
      /\ \A t \in Server : session[t] # <<c, j>>
  <2>1. Waits(s, c, j)
    BY <1>1 DEF Waits
  <2>2. sock[c][j] = "queued"
    BY <2>1 DEF Agree
  <2> QED BY <2>1, <2>2, Nobodies DEF Agree
<1>5. ASSUME NEW t \in Server, NEW d \in Client, NEW i \in {1, 2}
      PROVE  Waits(t, d, i)' <=> Waits(t, d, i) /\ ~(d = c /\ i = j)
  <2>1. CASE t # s
    <3>1. Waits(t, d, i)' <=> Waits(t, d, i)
      BY <1>1, <2>1 DEF Waits
    <3>2. ~Waits(t, c, j)
      BY <1>1, <2>1 DEF Waits, Once
    <3> QED BY <3>1, <3>2
  <2>2. CASE t = s
    <3>1. ASSUME Waits(s, d, i)' PROVE Waits(s, d, i) /\ ~(d = c /\ i = j)
      <4>1. PICK a \in 1..Len(backlog'[s]) : backlog'[s][a] = <<d, i>>
        BY <3>1 DEF Waits
      <4>2. a + 1 \in 1..Len(backlog[s]) /\ backlog[s][a + 1] = <<d, i>> /\ a + 1 # 1
        BY <1>1, <4>1
      <4>3. <<d, i>> # <<c, j>>
        <5>1. ASSUME <<d, i>> = <<c, j>> PROVE FALSE
          <6>1. backlog[s][a + 1] = backlog[s][1]
            BY <1>1, <4>2, <5>1
          <6>2. \A x, y \in 1..Len(backlog[s]) : backlog[s][x] = backlog[s][y] => x = y
            BY OnePlace
          <6>3. a + 1 = 1
            BY <1>1, <4>2, <6>1, <6>2
          <6> QED BY <4>2, <6>3
        <5> QED BY <5>1
      <4> QED BY <4>2, <4>3 DEF Waits
    <3>2. ASSUME Waits(s, d, i), ~(d = c /\ i = j) PROVE Waits(s, d, i)'
      <4>1. PICK a \in 1..Len(backlog[s]) : backlog[s][a] = <<d, i>>
        BY <3>2 DEF Waits
      <4>2. a # 1
        BY <1>1, <3>2, <4>1
      <4>3. a - 1 \in 1..Len(backlog'[s]) /\ backlog'[s][a - 1] = backlog[s][a]
        BY <1>1, <4>2
      <4>4. \E k \in 1..Len(backlog'[s]) : backlog'[s][k] = <<d, i>>
        BY <4>1, <4>3
      <4> QED BY <4>4 DEF Waits
    <3> QED BY <2>2, <3>1, <3>2
  <2> QED BY <2>1, <2>2
<1>6. ASSUME NEW d \in Client, NEW i \in {1, 2}
      PROVE  /\ sock'[d][i] = "queued" <=> \E t \in Server : Waits(t, d, i)'
             /\ sock'[d][i] = "open" <=> \E t \in Server : session'[t] = <<d, i>>
             /\ Busy(d, i)' => Busy(d, i)
             /\ \A t \in Server : Underway(t, d, i)' => Underway(t, d, i)
  <2>0. /\ sock[d][i] = "queued" <=> \E t \in Server : Waits(t, d, i)
        /\ sock[d][i] = "open" <=> \E t \in Server : session[t] = <<d, i>>
        /\ <<d, i>> # Nobody
    BY Nobodies DEF Agree
  <2>1. CASE d = c /\ i = j
    <3>1. sock'[d][i] = "open" /\ sock[d][i] = "queued" /\ session'[s] = <<d, i>>
      BY <1>2, <1>3, <1>4, <2>1
    <3>2. ~(\E t \in Server : Waits(t, d, i)')
      BY <1>5, <2>1
    <3>3. \A t \in Server : session'[t] = <<d, i>> => t = s
      BY <1>2, <1>4, <2>1
    <3>4. \A t \in Server : Underway(t, d, i)' => Underway(t, d, i)
      BY <1>4, <2>1, <3>2, <3>3 DEF Underway
    <3> QED BY <3>1, <3>2, <3>4 DEF Busy
  <2>2. CASE ~(d = c /\ i = j)
    <3>1. sock'[d][i] = sock[d][i]
      BY <1>3, <2>2
    <3>2. \A t \in Server : /\ Waits(t, d, i)' <=> Waits(t, d, i)
                            /\ session'[t] = <<d, i>> <=> session[t] = <<d, i>>
      BY <1>2, <1>5, <2>0, <2>2
    <3> QED BY <2>0, <3>1, <3>2 DEF Busy, Underway
  <2> QED BY <2>1, <2>2
<1>7. Agree'
  BY <1>6 DEF Agree
<1>8. Once'
  <2>1. \A t, u \in Server : session'[t] # Nobody /\ session'[t] = session'[u] => t = u
    BY <1>2, <1>4 DEF Once
  <2>2. ASSUME NEW t \in Server, NEW a \in 1..Len(backlog'[t])
        PROVE  \E x \in 1..Len(backlog[t]) :
                  /\ backlog'[t][a] = backlog[t][x]
                  /\ x = IF t = s THEN a + 1 ELSE a
    BY <1>1, <2>2
  <2>3. ASSUME NEW t \in Server, NEW u \in Server,
               NEW a \in 1..Len(backlog'[t]), NEW b \in 1..Len(backlog'[u]),
               backlog'[t][a] = backlog'[u][b]
        PROVE  t = u /\ a = b
    <3>1. PICK x \in 1..Len(backlog[t]) : /\ backlog'[t][a] = backlog[t][x]
                                          /\ x = IF t = s THEN a + 1 ELSE a
      BY <2>2
    <3>2. PICK y \in 1..Len(backlog[u]) : /\ backlog'[u][b] = backlog[u][y]
                                          /\ y = IF u = s THEN b + 1 ELSE b
      BY <2>2
    <3>3. t = u /\ x = y
      <4>1. backlog[t][x] = backlog[u][y]
        BY <2>3, <3>1, <3>2
      <4> QED BY <4>1, OnePlace
    <3>4. a \in Int /\ b \in Int
      OBVIOUS
    <3> QED BY <3>1, <3>2, <3>3, <3>4
  <2> QED BY <2>1, <2>3 DEF Once
<1> QED BY <1>6, <1>7, <1>8

-----------------------------------------------------------------------------
(* The invariant, step by step. *)

(* Routes to connections that were there before, or to the new one. *)
LEMMA RightKeeps ==
  ASSUME RightServer,
         \A k \in Slots : k \in Slots' /\ StorageServersInfo'[k].server = StorageServersInfo[k].server,
         \A s \in Server : \A c \in Client : \A j \in {1, 2} :
            Underway(s, c, j)' => \/ Underway(s, c, j) /\ target'[c][j] = target[c][j]
                                  \/ Leads(s, c, j)'
  PROVE  RightServer'
<1> SUFFICES ASSUME NEW s \in Server, NEW c \in Client, NEW j \in {1, 2}, Underway(s, c, j)'
             PROVE  Leads(s, c, j)'
  BY RightIs
<1>1. ASSUME Underway(s, c, j), target'[c][j] = target[c][j] PROVE Leads(s, c, j)'
  <2>1. Leads(s, c, j)
    BY <1>1, RightIs
  <2> QED BY <1>1, <2>1 DEF Leads
<1> QED BY <1>1

LEMMA HandlerKeeps ==
  ASSUME ConnInv, NEW c \in Client, Handle(c)
  PROVE  Owners' /\ Arrivals' /\ Sockets' /\ Agree' /\ Once' /\ RightServer'
<1>1. /\ TypeOK /\ PortsUnique /\ RoutesResolve
      /\ Owners /\ Arrivals /\ Sockets /\ Agree /\ Once /\ RightServer
  BY RoutesSuffice DEF ConnInv, Inv
<1>2. HandlerStep(c)
  BY <1>1, HandleHandler
<1>3. /\ UNCHANGED <<mpc, peer, incoming, StorageServersInfo, ss, portVars, session>>
      /\ \A d \in Client : d # c => pc'[d] = pc[d] /\ target'[d] = target[d]
  BY <1>2 DEF HandlerStep, mainVars
<1>4. Owners'
  BY <1>1, <1>3, OwnersStutter
<1>5. \A d \in Client : pc[d] = "connecting" => pc'[d] = "connecting"
  BY <1>2 DEF HandlerStep, Handling
<1>6. Arrivals'
  BY <1>1, <1>3, <1>5 DEF Arrivals, Arriving
<1>7. \A k \in Slots : k \in Slots' /\ StorageServersInfo'[k].server = StorageServersInfo[k].server
  BY <1>3 DEF Slots
<1>8. CASE UNCHANGED <<pc, sock, backlog, target>>
  <2>1. /\ Agree' /\ Once'
        /\ \A s, d, i : Underway(s, d, i)' <=> Underway(s, d, i)
    BY <1>1, <1>3, <1>8, StillAgrees
  <2>2. RightServer'
    BY <1>1, <1>7, <1>8, <2>1, RightKeeps
  <2>3. Sockets'
    BY <1>1, <1>8 DEF Sockets, Busy
  <2> QED BY <1>4, <1>6, <2>1, <2>2, <2>3
<1>9. CASE GoesOn(c)
  <2>1. UNCHANGED <<sock, backlog>>
    BY <1>9 DEF GoesOn
  <2>2. /\ Agree' /\ Once'
        /\ \A s, d, i : Underway(s, d, i)' <=> Underway(s, d, i)
    BY <1>1, <1>3, <2>1, StillAgrees
  <2>3. \A d \in Client : \A i \in {1, 2} : Busy(d, i) => target'[d][i] = target[d][i]
    BY <1>3, <1>9 DEF GoesOn
  <2>4. RightServer'
    <3>1. \A s \in Server : \A d \in Client : \A i \in {1, 2} :
             Underway(s, d, i)' => Underway(s, d, i) /\ target'[d][i] = target[d][i]
      BY <1>1, <2>2, <2>3, UnderBusy
    <3> QED BY <1>1, <1>7, <3>1, RightKeeps
  <2>5. Sockets'
    <3>1. \A d \in Client : \A i \in {1, 2} : Busy(d, i)' <=> Busy(d, i)
      BY <2>1 DEF Busy
    <3> QED BY <1>1, <1>3, <1>9, <3>1 DEF Sockets, GoesOn
  <2> QED BY <1>4, <1>6, <2>2, <2>4, <2>5
<1>10. ASSUME NEW j \in {1, 2}, NEW s \in Server, Opens(c, j, s)
       PROVE  Owners' /\ Arrivals' /\ Sockets' /\ Agree' /\ Once' /\ RightServer'
  <2>1. /\ Agree' /\ Once'
        /\ \A t \in Server : \A d \in Client : \A i \in {1, 2} :
              Underway(t, d, i)' => Underway(t, d, i) \/ (t = s /\ d = c /\ i = j)
    BY <1>1, <1>3, <1>10, OpensAgrees
  <2>2. Leads(s, c, j)'
    BY <1>3, <1>10 DEF Opens, Leads, Slots
  <2>3. target' = target
    BY <1>10 DEF Opens
  <2>4. RightServer'
    <3>1. \A t \in Server : \A d \in Client : \A i \in {1, 2} :
             Underway(t, d, i)' => \/ Underway(t, d, i) /\ target'[d][i] = target[d][i]
                                   \/ Leads(t, d, i)'
      BY <2>1, <2>2, <2>3
    <3> QED BY <1>1, <1>7, <3>1, RightKeeps
  <2>5. Sockets'
    <3>1. \A d \in Client : \A i \in {1, 2} : Busy(d, i)' => Busy(d, i) \/ (d = c /\ i = j)
      <4>1. \A d \in Client : \A i \in {1, 2} : ~(d = c /\ i = j) => sock'[d][i] = sock[d][i]
        BY <1>1, <1>10 DEF Opens, TypeOK, HandlerTypeOK
      <4> QED BY <4>1 DEF Busy
    <3>2. ~Busy(c, 2) /\ pc'[c] \in UsesFirst /\ (j = 2 => pc'[c] \in UsesSecond)
      BY <1>10 DEF Opens
    <3> QED BY <1>1, <1>3, <3>1, <3>2 DEF Sockets
  <2> QED BY <1>4, <1>6, <2>1, <2>4, <2>5
<1>11. CASE Forgets(c)
  <2>1. /\ Agree' /\ Once'
        /\ \A s, d, i : Underway(s, d, i)' <=> Underway(s, d, i)
    BY <1>1, <1>3, <1>11, ForgetsAgrees
  <2>2. target' = target
    BY <1>11 DEF Forgets
  <2>3. RightServer'
    BY <1>1, <1>7, <2>1, <2>2, RightKeeps
  <2>4. Sockets'
    <3>1. /\ ~Busy(c, 1)' /\ ~Busy(c, 2)'
          /\ \A d \in Client : d # c => sock'[d] = sock[d]
      BY <1>1, <1>11 DEF Forgets, TypeOK, HandlerTypeOK, Busy
    <3> QED BY <1>1, <1>3, <3>1 DEF Sockets, Busy
  <2> QED BY <1>4, <1>6, <2>1, <2>3, <2>4
<1> QED BY <1>2, <1>8, <1>9, <1>10, <1>11 DEF HandlerStep

LEMMA PortKeeps ==
  ASSUME ConnInv, NEW s \in Server, SSListen(s) \/ SSAccept(s) \/ SSServe(s) \/ SSCrash(s)
  PROVE  Owners' /\ Arrivals' /\ Sockets' /\ Agree' /\ Once' /\ RightServer'
<1>1. /\ TypeOK /\ Owners /\ Arrivals /\ Sockets /\ Agree /\ Once /\ RightServer
  BY DEF ConnInv, Inv
<1>2. PortStep(s)
  BY <1>1, ServerPort
<1>3. UNCHANGED <<mpc, peer, incoming, StorageServersInfo, portVars, pc, target>>
  BY ServerFrame DEF ServerStep, mainVars, tableVars
<1>4. Owners'
  BY <1>1, <1>3, ServerStates, OwnersStutter
<1>5. Arrivals'
  BY <1>1, <1>3 DEF Arrivals, Arriving
<1>6. /\ Agree' /\ Once'
      /\ \A t \in Server : \A d \in Client : \A i \in {1, 2} :
            Underway(t, d, i)' => Underway(t, d, i)
      /\ \A d \in Client : \A i \in {1, 2} : Busy(d, i)' => Busy(d, i)
  <2>1. CASE UNCHANGED <<sock, backlog, session>>
    BY <1>1, <2>1, StillAgrees DEF Busy
  <2>2. CASE Accepts(s)
    BY <1>1, <2>2, AcceptsAgrees
  <2>3. CASE GoesDown(s)
    BY <1>1, <2>3, DownAgrees
  <2>4. ASSUME NEW c \in Client, NEW j \in {1, 2}, Ends(s, c, j)
        PROVE  /\ Agree' /\ Once'
               /\ \A t \in Server : \A d \in Client : \A i \in {1, 2} :
                     Underway(t, d, i)' => Underway(t, d, i)
               /\ \A d \in Client : \A i \in {1, 2} : Busy(d, i)' => Busy(d, i)
    BY <1>1, <2>4, EndsAgrees
  <2> QED BY <1>2, <2>1, <2>2, <2>3, <2>4 DEF PortStep
<1>7. RightServer'
  <2>1. \A k \in Slots : k \in Slots' /\ StorageServersInfo'[k].server = StorageServersInfo[k].server
    BY <1>3 DEF Slots
  <2> QED BY <1>1, <1>3, <1>6, <2>1, RightKeeps
<1>8. Sockets'
  BY <1>1, <1>3, <1>6 DEF Sockets
<1> QED BY <1>4, <1>5, <1>6, <1>7, <1>8

(* The main thread, and who connects to it. *)
LEMMA MainKeeps ==
  ASSUME ConnInv, Main \/ (\E c \in Client : ClientConnect(c)) \/ (\E s \in Server : ServerStart(s))
  PROVE  Sockets' /\ Agree' /\ Once' /\ RightServer'
<1>1. /\ TypeOK /\ PeerIsWhatItSaid /\ Arrivals /\ Sockets /\ Agree /\ Once /\ RightServer
  BY DEF ConnInv, Inv
<1>2. UNCHANGED <<sock, backlog, session, target>>
  <2>1. CASE Main
    BY <2>1, Zenon DEF Main, MainAccept, MainRecvToken, MainStartHandler, MainAskInfo, MainReject,
       MainRefusePorts, MainStoreInfo, MainPublish, MainRegister, handlerVars, serverVars
  <2>2. CASE (\E c \in Client : ClientConnect(c)) \/ (\E s \in Server : ServerStart(s))
    BY <2>2, Zenon DEF ClientConnect, ServerStart, handlerVars, serverVars
  <2> QED BY <2>1, <2>2
<1>3. /\ Agree' /\ Once'
      /\ \A s, d, i : Underway(s, d, i)' <=> Underway(s, d, i)
  BY <1>1, <1>2, StillAgrees
<1>4. \A k \in Slots : k \in Slots' /\ StorageServersInfo'[k].server = StorageServersInfo[k].server
  <2>1. CASE MainStoreInfo
    <3> DEFINE new == SlotOf(peer)
    <3>1. StorageServersInfo' = Append(StorageServersInfo, new)
      BY <2>1 DEF MainStoreInfo
    <3>2. StorageServersInfo \in Seq(SlotType)
      BY <1>1 DEF TypeOK, TableTypeOK
    <3> HIDE DEF new
    <3>3. PICK n \in Nat : n = Len(StorageServersInfo)
      BY <3>2, LenProperties
    <3>4. /\ Len(StorageServersInfo') = n + 1
          /\ \A k \in 1..n : StorageServersInfo'[k] = StorageServersInfo[k]
      BY <3>1, <3>2, <3>3, AppendProperties
    <3> QED BY <3>3, <3>4 DEF Slots
  <2>2. CASE UNCHANGED StorageServersInfo
    BY <2>2 DEF Slots
  <2>3. MainStoreInfo \/ UNCHANGED StorageServersInfo
    <3>1. CASE Main
      BY <3>1, Zenon DEF Main, MainAccept, MainRecvToken, MainStartHandler, MainAskInfo,
         MainReject, MainRefusePorts, MainPublish, MainRegister, tableVars
    <3>2. CASE (\E c \in Client : ClientConnect(c)) \/ (\E s \in Server : ServerStart(s))
      BY <3>2, Zenon DEF ClientConnect, ServerStart, tableVars
    <3> QED BY <3>1, <3>2
  <2> QED BY <2>1, <2>2, <2>3
<1>5. RightServer'
  BY <1>1, <1>2, <1>3, <1>4, RightKeeps
<1>6. \A c \in Client : pc'[c] = pc[c] \/ pc[c] \in {"off", "connecting"}
  <2>0. pc \in [Client -> HandlerState]
    BY <1>1 DEF TypeOK, HandlerTypeOK
  <2>1. CASE MainStartHandler
    BY <1>1, <2>0, <2>1 DEF MainStartHandler, PeerIsWhatItSaid, Arrivals, Arriving
  <2>2. CASE MainReject
    BY <1>1, <2>0, <2>2 DEF MainReject, Arrivals, Arriving
  <2>3. CASE \E c \in Client : ClientConnect(c)
    BY <2>0, <2>3 DEF ClientConnect
  <2>4. CASE MainAccept \/ MainRecvToken \/ MainAskInfo \/ MainRefusePorts \/ MainStoreInfo
             \/ MainPublish \/ MainRegister \/ \E s \in Server : ServerStart(s)
    <3>1. UNCHANGED pc
      BY <2>4, Zenon DEF MainAccept, MainRecvToken, MainAskInfo, MainRefusePorts, MainStoreInfo,
         MainPublish, MainRegister, ServerStart, handlerVars
    <3> QED BY <3>1
  <2> QED BY <2>1, <2>2, <2>3, <2>4 DEF Main
<1>7. Sockets'
  <2>1. ASSUME NEW c \in Client
        PROVE  /\ Busy(c, 1)' => pc'[c] \in UsesFirst
               /\ Busy(c, 2)' => pc'[c] \in UsesSecond
    <3>1. /\ Busy(c, 1) => pc[c] \in UsesFirst
          /\ Busy(c, 2) => pc[c] \in UsesSecond
      BY <1>1 DEF Sockets
    <3>2. Busy(c, 1)' = Busy(c, 1) /\ Busy(c, 2)' = Busy(c, 2)
      BY <1>2 DEF Busy
    <3>3. pc[c] \in {"off", "connecting"} => pc[c] \notin UsesFirst /\ pc[c] \notin UsesSecond
      BY DEF UsesFirst, UsesSecond
    <3> QED BY <1>6, <3>1, <3>2, <3>3
  <2> QED BY <2>1 DEF Sockets
<1> QED BY <1>3, <1>5, <1>7

LEMMA MainOwners ==
  ASSUME TypeOK, PeerIsWhatItSaid, Owners, Queued,
         Main \/ (\E c \in Client : ClientConnect(c)) \/ (\E s \in Server : ServerStart(s))
  PROVE  Owners'
<1>0. ss \in [Server -> ServerState]
  BY DEF TypeOK, ServerTypeOK
<1>1. CASE MainStoreInfo
  BY <1>1, StoreInfoOwners
<1>2. CASE MainRegister
  BY <1>2, RegisterOwners
<1>3. CASE MainPublish
  BY <1>3, OwnersStutter DEF MainPublish, serverVars
<1>4. CASE MainAccept \/ MainRecvToken \/ MainStartHandler \/ MainAskInfo
  <2>1. UNCHANGED <<StorageServersInfo, portVars, ss>> /\ mpc' # "publish"
    BY <1>4 DEF MainAccept, MainRecvToken, MainStartHandler, MainAskInfo, tableVars, serverVars
  <2> QED BY <2>1, OwnersStutter
<1>5. CASE MainReject
  <2>1. UNCHANGED <<StorageServersInfo, portVars>> /\ mpc' # "publish"
        /\ \A s \in Server : ss'[s] = "down" \/ ss'[s] = ss[s]
    BY <1>5 DEF MainReject, tableVars
  <2> QED BY <2>1, OwnersStutter
<1>6. CASE MainRefusePorts
  <2>1. UNCHANGED <<StorageServersInfo, portVars>> /\ mpc' # "publish"
        /\ \A s \in Server : ss'[s] = "down" \/ ss'[s] = ss[s]
    BY <1>0, <1>6 DEF MainRefusePorts, tableVars
  <2> QED BY <2>1, OwnersStutter
<1>7. ASSUME NEW c \in Client, ClientConnect(c) PROVE Owners'
  BY <1>7, OwnersStutter DEF ClientConnect, tableVars, serverVars
<1>8. ASSUME NEW s \in Server, ServerStart(s) PROVE Owners'
  BY <1>8, StartOwners
<1> QED BY <1>1, <1>2, <1>3, <1>4, <1>5, <1>6, <1>7, <1>8 DEF Main

(* The queue of those who want to be accepted. *)
LEMMA ArrivalsStutter ==
  ASSUME Arrivals, UNCHANGED incoming,
         Arriving' => Arriving /\ peer' = peer /\ UNCHANGED pc,
         \A i \in 1..Len(incoming) : incoming[i] \in Client => pc'[incoming[i]] = pc[incoming[i]]
  PROVE  Arrivals'
<1>1. Arriving' /\ peer' \in Client => pc'[peer'] = "connecting"
  BY DEF Arrivals
<1>2. \A i \in 1..Len(incoming') : incoming'[i] \in Client =>
        /\ pc'[incoming'[i]] = "connecting"
        /\ Arriving' => incoming'[i] # peer'
        /\ \A k \in 1..Len(incoming') : incoming'[k] = incoming'[i] => k = i
  BY DEF Arrivals
<1> QED BY <1>1, <1>2 DEF Arrivals

LEMMA AcceptArrivals == ASSUME TypeOK, Arrivals, MainAccept PROVE Arrivals'
<1>1. /\ incoming \in Seq(Client \cup Server) /\ incoming # << >> /\ ~Arriving /\ Arriving'
      /\ peer' = Head(incoming) /\ incoming' = Tail(incoming) /\ UNCHANGED pc
  BY DEF TypeOK, MainTypeOK, MainAccept, Arriving, handlerVars
<1>2. PICK n \in Nat : n = Len(incoming) /\ n > 0
  BY <1>1, EmptySeq, LenProperties
<1>3. /\ peer' = incoming[1] /\ Len(incoming') = n - 1
      /\ \A i \in 1..(n - 1) : incoming'[i] = incoming[i + 1]
  BY <1>1, <1>2, HeadTailProperties
<1>4. \A i, k \in 1..n : incoming[i] \in Client /\ incoming[i] = incoming[k] => k = i
  BY <1>2 DEF Arrivals
<1>5. \A i \in 1..n : incoming[i] \in Client => pc[incoming[i]] = "connecting"
  BY <1>2 DEF Arrivals
<1>6. 1 \in 1..n /\ \A i \in 1..(n - 1) : i + 1 \in 1..n /\ i + 1 # 1
  BY <1>2
<1>7. peer' \in Client => pc'[peer'] = "connecting"
  BY <1>1, <1>3, <1>5, <1>6
<1>8. ASSUME NEW i \in 1..(n - 1), incoming'[i] \in Client
      PROVE  /\ pc'[incoming'[i]] = "connecting"
             /\ incoming'[i] # peer'
             /\ \A k \in 1..(n - 1) : incoming'[k] = incoming'[i] => k = i
  <2>1. incoming'[i] = incoming[i + 1] /\ incoming[i + 1] \in Client /\ i + 1 \in 1..n
    BY <1>3, <1>6, <1>8
  <2>2. pc'[incoming'[i]] = "connecting"
    BY <1>1, <1>5, <2>1
  <2>3. incoming'[i] # peer'
    <3>1. i + 1 # 1 /\ 1 \in 1..n
      BY <1>6
    <3>2. incoming[i + 1] # incoming[1]
      BY <1>4, <2>1, <3>1
    <3> QED BY <1>3, <2>1, <3>2
  <2>4. ASSUME NEW k \in 1..(n - 1), incoming'[k] = incoming'[i] PROVE k = i
    <3>1. incoming[k + 1] = incoming[i + 1] /\ k + 1 \in 1..n
      BY <1>3, <1>6, <2>1, <2>4
    <3>2. k + 1 = i + 1
      BY <1>4, <2>1, <3>1
    <3> QED BY <3>2
  <2> QED BY <2>2, <2>3, <2>4
<1> QED BY <1>3, <1>7, <1>8 DEF Arrivals

(* A client comes to the queue once, a server is not meant. *)
LEMMA ConnectArrivals ==
  ASSUME TypeOK, Arrivals, NEW x \in Client \cup Server, incoming' = Append(incoming, x),
         UNCHANGED <<mpc, peer>>,
         \A c \in Client : pc'[c] = IF c = x THEN "connecting" ELSE pc[c],
         x \in Client => pc[x] = "off"
  PROVE  Arrivals'
<1>1. incoming \in Seq(Client \cup Server) /\ (Arriving' <=> Arriving) /\ peer' = peer
  BY DEF TypeOK, MainTypeOK, Arriving
<1>2. PICK n \in Nat : n = Len(incoming)
  BY <1>1, LenProperties
<1>3. /\ Len(incoming') = n + 1 /\ incoming'[n + 1] = x
      /\ \A i \in 1..n : incoming'[i] = incoming[i]
  BY <1>1, <1>2, AppendProperties
<1>4. /\ Arriving /\ peer \in Client => pc[peer] = "connecting"
      /\ \A i \in 1..n : incoming[i] \in Client =>
            /\ pc[incoming[i]] = "connecting"
            /\ Arriving => incoming[i] # peer
            /\ \A k \in 1..n : incoming[k] = incoming[i] => k = i
  BY <1>2 DEF Arrivals
<1>5. \A i \in 1..n : incoming[i] \in Client => incoming[i] # x
  BY <1>4
<1>6. \A i \in 1..(n + 1) : i \in 1..n \/ i = n + 1
  OBVIOUS
<1>7. Arriving' /\ peer' \in Client => pc'[peer'] = "connecting"
  BY <1>1, <1>4
<1>8. ASSUME NEW i \in 1..(n + 1), incoming'[i] \in Client
      PROVE  /\ pc'[incoming'[i]] = "connecting"
             /\ Arriving' => incoming'[i] # peer'
             /\ \A k \in 1..(n + 1) : incoming'[k] = incoming'[i] => k = i
  <2>1. CASE i \in 1..n
    <3>1. incoming'[i] = incoming[i] /\ incoming[i] \in Client /\ incoming[i] # x
      BY <1>3, <1>5, <1>8, <2>1
    <3>2. \A k \in 1..(n + 1) : incoming'[k] = incoming'[i] => k = i
      BY <1>3, <1>4, <1>6, <2>1, <3>1
    <3> QED BY <1>1, <1>4, <2>1, <3>1, <3>2
  <2>2. CASE i = n + 1
    <3>1. incoming'[i] = x /\ x \in Client
      BY <1>3, <1>8, <2>2
    <3>2. \A k \in 1..n : incoming'[k] # x
      BY <1>3, <1>5, <3>1
    <3>3. Arriving => x # peer
      BY <1>4, <3>1
    <3> QED BY <1>1, <1>6, <2>2, <3>1, <3>2, <3>3
  <2> QED BY <1>6, <2>1, <2>2
<1> QED BY <1>3, <1>7, <1>8 DEF Arrivals

LEMMA MainArrivals ==
  ASSUME TypeOK, PeerIsWhatItSaid, Arrivals,
         Main \/ (\E c \in Client : ClientConnect(c)) \/ (\E s \in Server : ServerStart(s))
  PROVE  Arrivals'
<1>0. pc \in [Client -> HandlerState]
  BY DEF TypeOK, HandlerTypeOK
<1>1. CASE MainAccept
  BY <1>1, AcceptArrivals
<1>2. CASE MainRecvToken \/ MainAskInfo \/ MainRefusePorts \/ MainStoreInfo \/ MainPublish
           \/ MainRegister
  <2>1. UNCHANGED <<incoming, pc>> /\ (Arriving' => Arriving /\ peer' = peer)
    BY <1>2 DEF MainRecvToken, MainAskInfo, MainRefusePorts, MainStoreInfo, MainPublish,
       MainRegister, handlerVars, Arriving
  <2> QED BY <2>1, ArrivalsStutter
<1>3. CASE MainStartHandler \/ MainReject
  <2>1. UNCHANGED incoming /\ ~Arriving' /\ Arriving
    BY <1>3 DEF MainStartHandler, MainReject, Arriving
  <2>2. \A c \in Client : c = peer \/ pc'[c] = pc[c]
    <3>1. MainStartHandler => \A c \in Client : c = peer \/ pc'[c] = pc[c]
      BY <1>0 DEF MainStartHandler
    <3>2. MainReject => \A c \in Client : c = peer \/ pc'[c] = pc[c]
      BY DEF MainReject
    <3> QED BY <1>3, <3>1, <3>2
  <2>3. \A i \in 1..Len(incoming) : incoming[i] \in Client => pc'[incoming[i]] = pc[incoming[i]]
    BY <2>1, <2>2 DEF Arrivals
  <2> QED BY <2>1, <2>3, ArrivalsStutter
<1>4. ASSUME NEW c \in Client, ClientConnect(c) PROVE Arrivals'
  <2>1. /\ incoming' = Append(incoming, c) /\ UNCHANGED <<mpc, peer>> /\ pc[c] = "off"
        /\ \A d \in Client : pc'[d] = IF d = c THEN "connecting" ELSE pc[d]
    BY <1>0, <1>4 DEF ClientConnect
  <2> QED BY <2>1, ConnectArrivals
<1>5. ASSUME NEW s \in Server, ServerStart(s) PROVE Arrivals'
  <2>1. /\ incoming' = Append(incoming, s) /\ UNCHANGED <<mpc, peer, pc>> /\ s \notin Client
    BY <1>5, ProcessAssumption DEF ServerStart, handlerVars
  <2> QED BY <2>1, ConnectArrivals
<1> QED BY <1>1, <1>2, <1>3, <1>4, <1>5 DEF Main

-----------------------------------------------------------------------------
(* The servers that wait for main. *)

LEMMA QueuedStutter ==
  ASSUME Queued, UNCHANGED incoming,
         mpc' # "accept" => mpc # "accept" /\ peer' = peer,
         \A s \in Server : ss[s] = "connecting" => ss'[s] = "connecting" \/ (s = peer /\ mpc # "accept" /\ mpc' = "accept")
  PROVE  Queued'
<1>1. ASSUME NEW i \in 1..Len(incoming), incoming[i] \in Server
      PROVE  ss'[incoming[i]] = "connecting"
  BY <1>1 DEF Queued
<1>2. mpc' # "accept" /\ peer' \in Server => ss'[peer'] = "connecting"
  BY DEF Queued
<1> QED BY <1>1, <1>2 DEF Queued

LEMMA AcceptQueued == ASSUME TypeOK, Queued, MainAccept PROVE Queued'
<1>1. /\ incoming \in Seq(Client \cup Server) /\ incoming # << >> /\ mpc' # "accept"
      /\ peer' = Head(incoming) /\ incoming' = Tail(incoming) /\ UNCHANGED ss
  BY DEF TypeOK, MainTypeOK, MainAccept, serverVars
<1>2. PICK n \in Nat : n = Len(incoming) /\ n > 0
  BY <1>1, EmptySeq, LenProperties
<1>3. /\ peer' = incoming[1] /\ Len(incoming') = n - 1
      /\ \A i \in 1..(n - 1) : incoming'[i] = incoming[i + 1]
  BY <1>1, <1>2, HeadTailProperties
<1>4. \A i, k \in 1..n : incoming[i] \in Server /\ incoming[i] = incoming[k] => k = i
  BY <1>2 DEF Queued
<1>5. \A i \in 1..n : incoming[i] \in Server => ss[incoming[i]] = "connecting"
  BY <1>2 DEF Queued
<1>6. 1 \in 1..n /\ \A i \in 1..(n - 1) : i + 1 \in 1..n /\ i + 1 # 1
  BY <1>2
<1>7. peer' \in Server => ss'[peer'] = "connecting"
  BY <1>1, <1>3, <1>5, <1>6
<1>8. ASSUME NEW i \in 1..(n - 1), incoming'[i] \in Server
      PROVE  /\ ss'[incoming'[i]] = "connecting"
             /\ incoming'[i] # peer'
             /\ \A k \in 1..(n - 1) : incoming'[k] = incoming'[i] => k = i
  <2>1. incoming'[i] = incoming[i + 1] /\ incoming[i + 1] \in Server /\ i + 1 \in 1..n
    BY <1>3, <1>6, <1>8
  <2>2. ss'[incoming'[i]] = "connecting"
    BY <1>1, <1>5, <2>1
  <2>3. incoming'[i] # peer'
    <3>1. i + 1 # 1 /\ 1 \in 1..n
      BY <1>6
    <3>2. incoming[i + 1] # incoming[1]
      BY <1>4, <2>1, <3>1
    <3> QED BY <1>3, <2>1, <3>2
  <2>4. ASSUME NEW k \in 1..(n - 1), incoming'[k] = incoming'[i] PROVE k = i
    <3>1. incoming[k + 1] = incoming[i + 1] /\ k + 1 \in 1..n
      BY <1>3, <1>6, <2>1, <2>4
    <3>2. k + 1 = i + 1
      BY <1>4, <2>1, <3>1
    <3> QED BY <3>2
  <2> QED BY <2>2, <2>3, <2>4
<1> QED BY <1>3, <1>7, <1>8 DEF Queued

(* Who comes to the queue was not in it. *)
LEMMA ConnectQueued ==
  ASSUME TypeOK, Queued, NEW x \in Client \cup Server, incoming' = Append(incoming, x),
         UNCHANGED <<mpc, peer>>,
         \A s \in Server : ss'[s] = IF s = x THEN "connecting" ELSE ss[s],
         x \in Server => ss[x] = "down"
  PROVE  Queued'
<1>1. incoming \in Seq(Client \cup Server) /\ mpc' = mpc /\ peer' = peer
  BY DEF TypeOK, MainTypeOK
<1>2. PICK n \in Nat : n = Len(incoming)
  BY <1>1, LenProperties
<1>3. /\ Len(incoming') = n + 1 /\ incoming'[n + 1] = x
      /\ \A i \in 1..n : incoming'[i] = incoming[i]
  BY <1>1, <1>2, AppendProperties
<1>4. /\ mpc # "accept" /\ peer \in Server => ss[peer] = "connecting"
      /\ \A i \in 1..n : incoming[i] \in Server =>
            /\ ss[incoming[i]] = "connecting"
            /\ mpc # "accept" => incoming[i] # peer
            /\ \A k \in 1..n : incoming[k] = incoming[i] => k = i
  BY <1>2 DEF Queued
<1>5. \A i \in 1..n : incoming[i] \in Server => incoming[i] # x
  BY <1>4
<1>6. \A i \in 1..(n + 1) : i \in 1..n \/ i = n + 1
  OBVIOUS
<1>7. mpc' # "accept" /\ peer' \in Server => ss'[peer'] = "connecting"
  BY <1>1, <1>4
<1>8. ASSUME NEW i \in 1..(n + 1), incoming'[i] \in Server
      PROVE  /\ ss'[incoming'[i]] = "connecting"
             /\ mpc' # "accept" => incoming'[i] # peer'
             /\ \A k \in 1..(n + 1) : incoming'[k] = incoming'[i] => k = i
  <2>1. CASE i \in 1..n
    <3>1. incoming'[i] = incoming[i] /\ incoming[i] \in Server /\ incoming[i] # x
      BY <1>3, <1>5, <1>8, <2>1
    <3>2. \A k \in 1..(n + 1) : incoming'[k] = incoming'[i] => k = i
      BY <1>3, <1>4, <1>6, <2>1, <3>1
    <3> QED BY <1>1, <1>4, <2>1, <3>1, <3>2
  <2>2. CASE i = n + 1
    <3>1. incoming'[i] = x /\ x \in Server
      BY <1>3, <1>8, <2>2
    <3>2. \A k \in 1..n : incoming'[k] # x
      BY <1>3, <1>5, <3>1
    <3>3. mpc # "accept" => x # peer
      BY <1>4, <3>1
    <3> QED BY <1>1, <1>6, <2>2, <3>1, <3>2, <3>3
  <2> QED BY <1>6, <2>1, <2>2
<1> QED BY <1>3, <1>7, <1>8 DEF Queued

(* Only main ends the waiting of a server it has not answered. *)
LEMMA StillConnecting ==
  ASSUME TypeOK, NEW s \in Server, SSListen(s) \/ SSAccept(s) \/ SSServe(s) \/ SSCrash(s)
  PROVE  \A t \in Server : ss[t] = "connecting" => ss'[t] = "connecting"
<1> DEFINE Goal == \A t \in Server : ss[t] = "connecting" => ss'[t] = "connecting"
<1>0. ss \in [Server -> ServerState]
  BY DEF TypeOK, ServerTypeOK
<1>1. UNCHANGED ss => Goal
  OBVIOUS
<1>2. ss[s] = "listening" /\ SSDies(s) => Goal
  BY <1>0 DEF SSDies
<1>3. ASSUME NEW c, NEW j, NEW ok, SSAnswer(s, c, j, ok) PROVE UNCHANGED ss
  BY <1>3 DEF SSAnswer
<1>4. ASSUME NEW c, NEW name, NEW whole, ReceiveInto(s, c, name, whole), ss[s] = "listening"
      PROVE  Goal
  BY <1>1, <1>2, <1>4, Zenon DEF ReceiveInto
<1>5. SSListen(s) => Goal
  BY <1>0 DEF SSListen
<1>6. SSAccept(s) => UNCHANGED ss
  BY DEF SSAccept
<1> HIDE DEF Goal
<1>7. ASSUME NEW c \in Client, SSCreate(s, c) \/ SSDelete(s, c) \/ SSSend(s, c) PROVE Goal
  <2>1. ss[s] = "listening"
    BY <1>7 DEF SSCreate, SSDelete, SSSend, Serving
  <2> QED BY <1>1, <1>2, <1>3, <1>7, <2>1, Zenon DEF SSCreate, SSDelete, SSSend
<1>8. ASSUME NEW c \in Client, SSReceive(s, c) PROVE Goal
  <2>1. ss[s] = "listening"
    BY <1>8 DEF SSReceive, Serving
  <2> QED BY <1>4, <1>8, <2>1, Zenon DEF SSReceive
<1>9. SSCrash(s) => Goal
  BY <1>2 DEF SSCrash
<1>10. Goal
  BY <1>1, <1>5, <1>6, <1>7, <1>8, <1>9 DEF SSServe
<1> QED BY <1>10 DEF Goal

LEMMA NextQueued ==
  ASSUME TypeOK, PortsUnique, RoutesResolve, Owners, Sockets, Queued, [Next]_vars
  PROVE  Queued'
<1>0. TypeOK /\ ss \in [Server -> ServerState]
  BY DEF TypeOK, ServerTypeOK
<1>1. CASE MainAccept
  BY <1>0, <1>1, AcceptQueued
<1>2. CASE MainRecvToken \/ MainStartHandler \/ MainAskInfo \/ MainStoreInfo \/ MainPublish
  <2>1. UNCHANGED <<incoming, ss>> /\ (mpc' # "accept" => mpc # "accept" /\ peer' = peer)
    BY <1>2 DEF MainRecvToken, MainStartHandler, MainAskInfo, MainStoreInfo, MainPublish, serverVars
  <2> QED BY <2>1, QueuedStutter
<1>3. CASE MainReject \/ MainRefusePorts \/ MainRegister
  <2>1. UNCHANGED incoming /\ mpc # "accept" /\ mpc' = "accept"
    BY <1>3 DEF MainReject, MainRefusePorts, MainRegister
  <2>2. \A s \in Server : s = peer \/ ss'[s] = ss[s]
    <3>1. MainReject => \A s \in Server : s = peer \/ ss'[s] = ss[s]
      BY DEF MainReject
    <3>2. MainRefusePorts \/ MainRegister => \A s \in Server : s = peer \/ ss'[s] = ss[s]
      BY <1>0 DEF MainRefusePorts, MainRegister
    <3> QED BY <1>3, <3>1, <3>2
  <2> QED BY <2>1, <2>2, QueuedStutter
<1>4. ASSUME NEW c \in Client, ClientConnect(c) PROVE Queued'
  <2>1. /\ incoming' = Append(incoming, c) /\ UNCHANGED <<mpc, peer, ss>> /\ c \notin Server
    BY <1>4, ProcessAssumption DEF ClientConnect, serverVars
  <2> QED BY <1>0, <2>1, ConnectQueued
<1>5. ASSUME NEW s \in Server, ServerStart(s) PROVE Queued'
  <2>1. /\ incoming' = Append(incoming, s) /\ UNCHANGED <<mpc, peer>> /\ ss[s] = "down"
        /\ \A t \in Server : ss'[t] = IF t = s THEN "connecting" ELSE ss[t]
    BY <1>0, <1>5 DEF ServerStart
  <2> QED BY <1>0, <2>1, ConnectQueued
<1>6. ASSUME NEW c \in Client, Handle(c) PROVE Queued'
  <2>1. UNCHANGED <<mainVars, ss>>
    BY <1>0, <1>6, HandleHandler DEF HandlerStep
  <2> QED BY <2>1, QueuedStutter DEF mainVars
<1>7. ASSUME NEW s \in Server, SSListen(s) \/ SSAccept(s) \/ SSServe(s) \/ SSCrash(s)
      PROVE  Queued'
  <2>1. UNCHANGED mainVars
    BY <1>0, <1>7, ServerFrame DEF ServerStep
  <2> QED BY <1>0, <1>7, <2>1, StillConnecting, QueuedStutter DEF mainVars
<1>8. CASE UNCHANGED vars
  BY <1>8, QueuedStutter DEF vars, mainVars, serverVars
<1> QED BY <1>1, <1>2, <1>3, <1>4, <1>5, <1>6, <1>7, <1>8 DEF Next, Main

-----------------------------------------------------------------------------
LEMMA ConnInit == Init => ConnInv
<1> SUFFICES ASSUME Init PROVE ConnInv
  OBVIOUS
<1>1. Inv
  BY InvInit
<1>2. Owners
  <2>1. Slots = {} /\ mpc # "publish" /\ \A s \in Server : ss[s] = "down"
    <3>1. Len(StorageServersInfo) = 0
      BY DEF Init
    <3>2. Slots = {}
      BY <3>1 DEF Slots
    <3> QED BY <3>2 DEF Init
  <2> QED BY <2>1 DEF Owners
<1>3. Arrivals /\ Queued
  <2>1. Len(incoming) = 0 /\ mpc = "accept"
    BY DEF Init
  <2>2. ~Arriving /\ 1..Len(incoming) = {}
    BY <2>1 DEF Arriving
  <2> QED BY <2>1, <2>2 DEF Arrivals, Queued
<1>4. \A c \in Client : \A j \in {1, 2} : sock[c][j] = "closed"
  BY DEF Init
<1>5. Sockets
  BY <1>4 DEF Sockets, Busy
<1>6. \A s \in Server : session[s] = Nobody /\ 1..Len(backlog[s]) = {}
  <2>1. \A s \in Server : session[s] = Nobody /\ Len(backlog[s]) = 0
    BY DEF Init
  <2> QED BY <2>1
<1>7. \A s \in Server : \A c \in Client : \A j \in {1, 2} : ~Underway(s, c, j)
  BY <1>6, Nobodies DEF Underway, Waits
<1>8. Agree
  BY <1>4, <1>7 DEF Agree, Underway
<1>9. Once
  BY <1>6 DEF Once
<1>10. RightServer
  BY <1>7, RightIs
<1> QED BY <1>1, <1>2, <1>3, <1>5, <1>8, <1>9, <1>10 DEF ConnInv

LEMMA ConnNext == ConnInv /\ [Next]_vars => ConnInv'
<1> SUFFICES ASSUME ConnInv, [Next]_vars PROVE ConnInv'
  OBVIOUS
<1>1. Inv' /\ Queued'
  <2>1. Inv'
    BY InvNext DEF ConnInv
  <2>2. TypeOK /\ PortsUnique /\ RoutesResolve /\ Owners /\ Sockets /\ Queued
    BY RoutesSuffice DEF ConnInv, Inv
  <2> QED BY <2>1, <2>2, NextQueued
<1>2. CASE Main \/ (\E c \in Client : ClientConnect(c)) \/ (\E s \in Server : ServerStart(s))
  BY <1>1, <1>2, MainKeeps, MainOwners, MainArrivals DEF ConnInv, Inv
<1>3. ASSUME NEW c \in Client, Handle(c) PROVE ConnInv'
  BY <1>1, <1>3, HandlerKeeps DEF ConnInv
<1>4. ASSUME NEW s \in Server, SSListen(s) \/ SSAccept(s) \/ SSServe(s) \/ SSCrash(s)
      PROVE  ConnInv'
  BY <1>1, <1>4, PortKeeps DEF ConnInv
<1>5. CASE UNCHANGED vars
  <2>1. UNCHANGED <<StorageServersInfo, mpc, peer, incoming, ss, portVars, pc, sock, backlog, session, target>>
    BY <1>5 DEF vars, mainVars, tableVars, handlerVars, serverVars
  <2>2. Owners'
    BY <2>1, OwnersStutter DEF ConnInv
  <2>3. Arrivals'
    BY <2>1 DEF ConnInv, Arrivals, Arriving
  <2>4. Sockets' /\ Agree' /\ Once'
    BY <2>1, StillAgrees DEF ConnInv, Sockets, Busy
  <2>5. RightServer'
    BY <2>1 DEF ConnInv, RightServer, Slots
  <2> QED BY <1>1, <2>2, <2>3, <2>4, <2>5 DEF ConnInv
<1> QED BY <1>2, <1>3, <1>4, <1>5 DEF Next

LEMMA ConnAlways == Spec => []ConnInv
BY ConnInit, ConnNext, PTL DEF Spec

(* No command ever reaches a storage server other than that of the slot    *)
(* its handler looked up, although connectToStorageServer knows servers by *)
(* port and they come, go, clash and crash while handlers wait.            *)
THEOREM CommandsReachTheirServer == Spec => []RightServer
<1>1. ConnInv => RightServer
  BY DEF ConnInv
<1> QED BY <1>1, ConnAlways, PTL

(* A connection a handler has opened is in one place: once in one backlog, *)
(* or served by one server, as its socket says, or over on both sides.     *)
LEMMA AgreeSuffices == ConnInv => ConnectionsAgree
<1> SUFFICES ASSUME ConnInv, NEW c \in Client, NEW j \in {1, 2}
             PROVE  LET places == {p \in UNION {{s} \X (1..Len(backlog[s])) : s \in Server} :
                                      backlog[p[1]][p[2]] = <<c, j>>}
                        serving == {s \in Server : session[s] = <<c, j>>}
                    IN  /\ Cardinality(places) = IF sock[c][j] = "queued" THEN 1 ELSE 0
                        /\ Cardinality(serving) = IF sock[c][j] = "open" THEN 1 ELSE 0
  BY DEF ConnectionsAgree
<1> DEFINE all == UNION {{s} \X (1..Len(backlog[s])) : s \in Server}
           places == {p \in all : backlog[p[1]][p[2]] = <<c, j>>}
           serving == {s \in Server : session[s] = <<c, j>>}
<1>0. Agree /\ Once /\ <<c, j>> # Nobody
  BY Nobodies DEF ConnInv
<1>1. \A p \in all : p = <<p[1], p[2]>> /\ p[1] \in Server /\ p[2] \in 1..Len(backlog[p[1]])
  OBVIOUS
<1>2. \A s \in Server : \A i \in 1..Len(backlog[s]) : <<s, i>> \in all
  OBVIOUS
<1> HIDE DEF all
<1>3. Cardinality(places) = IF sock[c][j] = "queued" THEN 1 ELSE 0
  <2>1. CASE sock[c][j] = "queued"
    <3>1. PICK s \in Server : Waits(s, c, j)
      BY <1>0, <2>1 DEF Agree
    <3>2. PICK i \in 1..Len(backlog[s]) : backlog[s][i] = <<c, j>>
      BY <3>1 DEF Waits
    <3>3. <<s, i>> \in places
      BY <1>2, <3>2
    <3>4. ASSUME NEW p \in places PROVE p = <<s, i>>
      <4>1. p[1] = s /\ p[2] = i
        BY <1>0, <1>1, <3>2, OnePlace
      <4> QED BY <1>1, <4>1
    <3>5. places = {<<s, i>>}
      BY <3>3, <3>4
    <3> HIDE DEF places
    <3> QED BY <2>1, <3>5, FS_Singleton
  <2>2. CASE sock[c][j] # "queued"
    <3>1. places = {}
      BY <1>0, <1>1, <2>2 DEF Agree, Waits
    <3> HIDE DEF places
    <3> QED BY <2>2, <3>1, FS_EmptySet
  <2> QED BY <2>1, <2>2
<1>4. Cardinality(serving) = IF sock[c][j] = "open" THEN 1 ELSE 0
  <2>1. CASE sock[c][j] = "open"
    <3>1. PICK s \in Server : session[s] = <<c, j>>
      BY <1>0, <2>1 DEF Agree
    <3>2. ASSUME NEW t \in Server, session[t] = <<c, j>> PROVE t = s
      BY <1>0, <3>1, <3>2 DEF Once
    <3>3. serving = {s}
      BY <3>1, <3>2
    <3> HIDE DEF serving
    <3> QED BY <2>1, <3>3, FS_Singleton
  <2>2. CASE sock[c][j] # "open"
    <3>1. serving = {}
      BY <1>0, <2>2 DEF Agree
    <3> HIDE DEF serving
    <3> QED BY <2>2, <3>1, FS_EmptySet
  <2> QED BY <2>1, <2>2
<1> QED BY <1>3, <1>4 DEF all

(* Handlers and servers never lose a connection nor have one twice, on any *)
(* way that a connection ends.                                             *)
THEOREM ConnectionsAlwaysAgree == Spec => []ConnectionsAgree
BY AgreeSuffices, ConnAlways, PTL

(* A server that runs is in the table, once, with the ports it listens on, *)
(* whatever the user chose at this and at earlier starts of it, and none   *)
(* of its ports is claimed by a slot of another server or an older one of  *)
(* its own: so a handler that follows the table to a port meets the server *)
(* the table means, or nobody.                                             *)
THEOREM RunningServersListedOnce == Spec => []ListedOnce
<1>1. ConnInv => ListedOnce
  <2> SUFFICES ASSUME ConnInv, NEW s \in Server, ss[s] \in {"acked", "listening"}
               PROVE  \E k \in Slots :
                         /\ StorageServersInfo[k] = SlotOf(s)
                         /\ \A l \in Slots \ {k} :
                               PortsOf(l) \cap {naming_port[s], client_port[s]} = {}
    BY DEF ListedOnce
  <2>1. PICK k \in Slots : StorageServersInfo[k] = SlotOf(s)
    BY DEF ConnInv, Owners
  <2>2. PortsOf(k) = {naming_port[s], client_port[s]}
    BY <2>1 DEF PortsOf, SlotOf
  <2>3. \A l \in Slots \ {k} : PortsOf(l) \cap PortsOf(k) = {}
    BY DEF ConnInv, Inv, PortsUnique
  <2> QED BY <2>1, <2>2, <2>3
<1> QED BY <1>1, ConnAlways, PTL

=============================================================================
