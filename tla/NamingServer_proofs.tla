------------------------ MODULE NamingServer_proofs -------------------------
(***************************************************************************)
(* Safety of the naming server for every set of clients, servers, ports,   *)
(* paths and commands.                                                     *)
(***************************************************************************)
EXTENDS NamingServer, Paths_proofs

(* The registration.  used_ports is the naming server's port and then the  *)
(* two ports of each slot in order; the slot being filled is one ahead.    *)
Registration ==
  /\ Len(used_ports) = 2 * storage_server_count + 1
  /\ used_ports[1] = NAMING_SERVER_PORT
  /\ Len(StorageServersInfo) = IF mpc = "publish" THEN storage_server_count + 1
                               ELSE storage_server_count
  /\ \A k \in 1..storage_server_count :
        /\ used_ports[2 * k] = StorageServersInfo[k].naming_port
        /\ used_ports[2 * k + 1] = StorageServersInfo[k].client_port

(* Most actions leave most of the state alone. *)
LEMMA StutterType ==
  /\ MainTypeOK /\ UNCHANGED <<nm, mainVars>> => MainTypeOK'
  /\ TableTypeOK /\ UNCHANGED <<tableVars, naming_server_gets>> => TableTypeOK'
  /\ HandlerTypeOK /\ UNCHANGED handlerVars => HandlerTypeOK'
  /\ ServerTypeOK /\ UNCHANGED serverVars => ServerTypeOK'
<1>1. MainTypeOK /\ UNCHANGED <<nm, mainVars>> => MainTypeOK'
  BY DEF MainTypeOK, mainVars
<1>2. TableTypeOK /\ UNCHANGED <<tableVars, naming_server_gets>> => TableTypeOK'
  BY DEF TableTypeOK, tableVars
<1>3. HandlerTypeOK /\ UNCHANGED handlerVars => HandlerTypeOK'
  BY DEF HandlerTypeOK, handlerVars, lineVars
<1>4. ServerTypeOK /\ UNCHANGED serverVars => ServerTypeOK'
  BY DEF ServerTypeOK, serverVars, portVars
<1> QED BY <1>1, <1>2, <1>3, <1>4

LEMMA InitType == Init => TypeOK
<1> SUFFICES ASSUME Init PROVE TypeOK
  OBVIOUS
<1>1. MainTypeOK
  <2>1. << >> \in Seq(Client \cup Server) /\ <<NAMING_SERVER_PORT>> \in Seq(Nat)
    BY ConfigAssumption
  <2>2. 0 \in 0..MAX_ACC_PATHS
    BY ConfigAssumption
  <2> QED BY <2>1, <2>2 DEF Init, MainTypeOK
<1>2. TableTypeOK
  <2>1. << >> \in Seq(SlotType)
    OBVIOUS
  <2>2. TableType(EmptyTable)
    BY DEF TableType, EmptyTable
  <2> QED BY <2>1, <2>2 DEF Init, TableTypeOK
<1>3. HandlerTypeOK
  <2>1. Empty \in Str
    BY DEF Empty, Str
  <2>2. NoReply \in ReplyType
    BY DEF ReplyType, NoReply, Reply
  <2>3. /\ pc \in [Client -> HandlerState] /\ verb \in [Client -> Verb]
        /\ no_args \in [Client -> Nat] /\ issued \in [Client -> 0..MaxCommands]
        /\ result \in [Client -> 0..2] /\ reply \in [Client -> ReplyType]
    <3>1. /\ pc = [c \in Client |-> "off"] /\ verb = [c \in Client |-> "OTHER"]
          /\ no_args = [c \in Client |-> 0] /\ issued = [c \in Client |-> 0]
          /\ result = [c \in Client |-> 0] /\ reply = [c \in Client |-> NoReply]
      BY DEF Init
    <3> QED BY <2>2, <3>1, ConfigAssumption DEF HandlerState, Verb
  <2>4. /\ args \in [Client -> [{1, 2} -> Str]]
        /\ target \in [Client -> [{1, 2} -> Int]]
        /\ sock \in [Client -> [{1, 2} -> SocketState]]
    <3>1. /\ args = [c \in Client |-> [i \in {1, 2} |-> Empty]]
          /\ target = [c \in Client |-> [i \in {1, 2} |-> -1]]
          /\ sock = [c \in Client |-> [i \in {1, 2} |-> "closed"]]
      BY DEF Init
    <3> QED BY <2>1, <3>1 DEF SocketState
  <2> QED BY <2>3, <2>4 DEF HandlerTypeOK
<1>4. ServerTypeOK
  <2>1. backlog \in [Server -> Seq(Conn)]
    <3>1. backlog = [s \in Server |-> << >>]
      BY DEF Init
    <3>2. << >> \in Seq(Conn)
      OBVIOUS
    <3> QED BY <3>1, <3>2
  <2>2. disk = InitialDisk /\ DOMAIN disk = Server
        /\ \A s \in Server : DOMAIN disk[s] \subseteq Str
    BY ProcessAssumption DEF Init
  <2>3. /\ ss \in [Server -> ServerState] /\ session \in [Server -> Conn \cup {Nobody}]
        /\ naming_port \in [Server -> Nat] /\ client_port \in [Server -> Nat]
        /\ shipment \in [Client -> Shipment] /\ crashes \in 0..MaxCrashes
    <3>1. /\ ss = [s \in Server |-> "down"] /\ session = [s \in Server |-> Nobody]
          /\ naming_port = [s \in Server |-> 0] /\ client_port = [s \in Server |-> 0]
          /\ shipment = [c \in Client |-> "none"] /\ crashes = 0
      BY DEF Init
    <3> QED BY <3>1, ConfigAssumption DEF ServerState, Shipment
  <2> QED BY <2>1, <2>2, <2>3 DEF ServerTypeOK
<1> QED BY <1>1, <1>2, <1>3, <1>4 DEF TypeOK

(* The main thread. *)
LEMMA MainType ==
  ASSUME TypeOK, PeerIsWhatItSaid, Registration,
         Main \/ (\E c \in Client : ClientConnect(c)) \/ (\E s \in Server : ServerStart(s))
  PROVE  TypeOK' /\ PeerIsWhatItSaid'
<1> USE DEF TypeOK, PeerIsWhatItSaid
<1>1. CASE MainAccept
  <2>1. MainTypeOK'
    BY <1>1, HeadTailProperties DEF MainAccept, MainTypeOK
  <2>2. TableTypeOK'
    BY <1>1 DEF MainAccept, TableTypeOK, tableVars
  <2>3. Head(incoming) \in Client \cup Server
    BY <1>1, HeadTailProperties DEF MainAccept, MainTypeOK
  <2> QED BY <1>1, <2>1, <2>2, <2>3, StutterType DEF MainAccept
<1>2. CASE MainRecvToken
  <2>1. MainTypeOK'
    BY <1>2 DEF MainRecvToken, MainTypeOK
  <2>2. TableTypeOK'
    BY <1>2 DEF MainRecvToken, TableTypeOK, tableVars
  <2>3. PeerIsWhatItSaid'
    <3>1. peer \in Client \cup Server
      BY <1>2 DEF MainRecvToken
    <3>2. /\ mpc' = "dispatch" /\ peer' = peer
          /\ naming_server_gets' = IF peer \in Client THEN "c" ELSE "s"
      BY <1>2 DEF MainRecvToken
    <3> QED BY <3>1, <3>2
  <2>4. HandlerTypeOK' /\ ServerTypeOK'
    BY <1>2, StutterType DEF MainRecvToken
  <2> QED BY <2>1, <2>2, <2>3, <2>4
<1>3. CASE MainStartHandler
  <2>1. MainTypeOK'
    BY <1>3 DEF MainStartHandler, MainTypeOK
  <2>2. HandlerTypeOK'
    BY <1>3 DEF MainStartHandler, HandlerTypeOK, HandlerState, lineVars
  <2> QED BY <1>3, <2>1, <2>2, StutterType DEF MainStartHandler
<1>4. CASE MainAskInfo
  <2>1. MainTypeOK'
    BY <1>4 DEF MainAskInfo, MainTypeOK
  <2> QED BY <1>4, <2>1, StutterType DEF MainAskInfo
<1>5. CASE MainReject
  <2>1. MainTypeOK'
    BY <1>5 DEF MainReject, MainTypeOK
  <2>2. HandlerTypeOK'
    BY <1>5 DEF MainReject, HandlerTypeOK, HandlerState, lineVars
  <2>3. ServerTypeOK'
    BY <1>5 DEF MainReject, ServerTypeOK, ServerState, portVars
  <2> QED BY <1>5, <2>1, <2>2, <2>3, StutterType DEF MainReject
<1>6. CASE MainRefusePorts
  <2>1. MainTypeOK'
    BY <1>6 DEF MainRefusePorts, MainTypeOK
  <2>2. ServerTypeOK'
    BY <1>6 DEF MainRefusePorts, ServerTypeOK, ServerState, portVars
  <2> QED BY <1>6, <2>1, <2>2, StutterType DEF MainRefusePorts
<1>7. CASE MainStoreInfo
  <2>1. MainTypeOK'
    BY <1>7, ConfigAssumption DEF MainStoreInfo, MainTypeOK
  <2>2. TableTypeOK'
    <3>1. SlotOf(peer) \in SlotType
      BY <1>7 DEF MainStoreInfo, SlotType, SlotOf, ServerTypeOK
    <3>2. StorageServersInfo' \in Seq(SlotType)
      BY <1>7, <3>1, AppendProperties DEF MainStoreInfo, TableTypeOK
    <3> QED BY <1>7, <3>2 DEF MainStoreInfo, TableTypeOK
  <2> QED BY <1>7, <2>1, <2>2, StutterType DEF MainStoreInfo
<1>8. CASE MainPublish
  <2>1. MainTypeOK'
    BY <1>8, ConfigAssumption DEF MainPublish, MainTypeOK
  <2>2. TableTypeOK'
    <3>1. PICK path : path = (IF slot < Len(Export[peer]) THEN Export[peer][slot + 1] ELSE Empty)
      OBVIOUS
    <3>2. slot \in Nat /\ peer \in Server
      BY <1>8 DEF MainPublish, MainTypeOK
    <3>3. path \in Str
      <4>1. Export[peer] \in Seq(Str) /\ Len(Export[peer]) \in Nat
        BY <3>2, ProcessAssumption, LenProperties
      <4>2. Empty \in Str
        BY DEF Empty, Str
      <4>3. slot + 1 \in 1..Len(Export[peer]) => Export[peer][slot + 1] \in Str
        BY <4>1, ElementOfSeq
      <4> QED BY <3>1, <3>2, <4>1, <4>2, <4>3
    <3>4. TableType(set_value(accessible_paths, path, storage_server_count))
      <4>1. TableType(accessible_paths)
        BY Zenon DEF TableTypeOK
      <4>2. storage_server_count \in Int
        BY DEF MainTypeOK
      <4> QED BY <3>3, <4>1, <4>2, SetValueType
    <3>5. TableType(accessible_paths')
      BY <1>8, <3>1, <3>4 DEF MainPublish
    <3> QED BY <1>8, <3>5 DEF MainPublish, TableTypeOK
  <2> QED BY <1>8, <2>1, <2>2, StutterType DEF MainPublish
<1>9. CASE MainRegister
  <2>1. MainTypeOK'
    <3>1. PICK storageServer : storageServer = StorageServersInfo[storage_server_count + 1]
      OBVIOUS
    <3>2. storageServer \in SlotType
      <4>1. /\ storage_server_count \in Nat /\ StorageServersInfo \in Seq(SlotType)
            /\ Len(StorageServersInfo) = storage_server_count + 1
        BY <1>9 DEF MainRegister, MainTypeOK, TableTypeOK, Registration
      <4>2. storage_server_count + 1 \in 1..Len(StorageServersInfo)
        BY <4>1
      <4> QED BY <3>1, <4>1, <4>2, ElementOfSeq
    <3>3. <<storageServer.naming_port, storageServer.client_port>> \in Seq(Nat)
      BY <3>2 DEF SlotType
    <3>4. used_ports' = used_ports \o <<storageServer.naming_port, storageServer.client_port>>
      BY <1>9, <3>1 DEF MainRegister
    <3>5. used_ports' \in Seq(Nat)
      BY <3>3, <3>4, ConcatProperties DEF MainTypeOK
    <3> QED BY <1>9, <3>5, ConfigAssumption DEF MainRegister, MainTypeOK
  <2>2. ServerTypeOK'
    BY <1>9 DEF MainRegister, ServerTypeOK, ServerState, portVars
  <2> QED BY <1>9, <2>1, <2>2, StutterType DEF MainRegister
<1>10. ASSUME NEW c \in Client, ClientConnect(c) PROVE TypeOK' /\ PeerIsWhatItSaid'
  <2>1. MainTypeOK'
    BY <1>10, AppendProperties DEF ClientConnect, MainTypeOK
  <2>2. HandlerTypeOK'
    BY <1>10 DEF ClientConnect, HandlerTypeOK, HandlerState, lineVars
  <2> QED BY <1>10, <2>1, <2>2, StutterType DEF ClientConnect
<1>11. ASSUME NEW s \in Server, ServerStart(s) PROVE TypeOK' /\ PeerIsWhatItSaid'
  <2>1. MainTypeOK'
    BY <1>11, AppendProperties DEF ServerStart, MainTypeOK
  <2>2. ServerTypeOK'
    <3>1. PICK ports \in Ports[s] : /\ naming_port' = [naming_port EXCEPT ![s] = ports[1]]
                                    /\ client_port' = [client_port EXCEPT ![s] = ports[2]]
      BY <1>11 DEF ServerStart
    <3>2. ports[1] \in Nat /\ ports[2] \in Nat
      BY ConfigAssumption
    <3> QED BY <1>11, <3>1, <3>2 DEF ServerStart, ServerTypeOK, ServerState
  <2> QED BY <1>11, <2>1, <2>2, StutterType DEF ServerStart
<1> QED BY <1>1, <1>2, <1>3, <1>4, <1>5, <1>6, <1>7, <1>8, <1>9, <1>10, <1>11 DEF Main

(* The handlers.  None of them moves the main thread or makes a token of   *)
(* the shared buffer.                                                      *)
LEMMA DieType ==
  ASSUME TypeOK, PeerIsWhatItSaid, NamingServerDies
  PROVE  TypeOK' /\ PeerIsWhatItSaid'
<1>1. MainTypeOK'
  BY DEF TypeOK, MainTypeOK, NamingServerDies, mainVars
<1>2. PeerIsWhatItSaid'
  BY DEF PeerIsWhatItSaid, NamingServerDies, mainVars
<1> QED BY <1>1, <1>2, StutterType DEF TypeOK, NamingServerDies

LineTypeOK ==
  /\ verb \in [Client -> Verb]
  /\ args \in [Client -> [{1, 2} -> Str]]
  /\ no_args \in [Client -> Nat]
  /\ issued \in [Client -> 0..MaxCommands]

LEMMA RecvCommandType ==
  ASSUME HandlerTypeOK, NEW c \in Client, NEW cmd \in Command, RecvCommand(c, cmd)
  PROVE  LineTypeOK'
<1>1. cmd.verb \in Verb /\ cmd.args \in Seq(Str) /\ Len(cmd.args) \in Nat
  BY ProcessAssumption, LenProperties
<1>2. verb' \in [Client -> Verb] /\ no_args' \in [Client -> Nat]
  BY <1>1 DEF RecvCommand, HandlerTypeOK
<1>3. issued' \in [Client -> 0..MaxCommands]
  BY ConfigAssumption DEF RecvCommand, HandlerTypeOK
<1>4. args' \in [Client -> [{1, 2} -> Str]]
  <2> DEFINE new == [i \in {1, 2} |-> IF i <= Len(cmd.args) THEN cmd.args[i] ELSE args[c][i]]
  <2>1. new \in [{1, 2} -> Str]
    <3>1. \A i \in {1, 2} : i <= Len(cmd.args) => cmd.args[i] \in Str
      BY <1>1, ElementOfSeq
    <3>2. \A i \in {1, 2} : args[c][i] \in Str
      BY DEF HandlerTypeOK
    <3> QED BY <3>1, <3>2
  <2>2. args' = [args EXCEPT ![c] = new]
    BY DEF RecvCommand
  <2> HIDE DEF new
  <2> QED BY <2>1, <2>2 DEF HandlerTypeOK
<1> QED BY <1>2, <1>3, <1>4 DEF LineTypeOK

(* The steps that take a line from the client. *)
LEMMA FoundSlot ==
  ASSUME TypeOK, RoutesResolve, NEW p, get_value(accessible_paths, p) # -1
  PROVE  get_value(accessible_paths, p) + 1 \in Slots
<1>1. get_value(accessible_paths, p) \in Int
  BY GetValueType DEF TypeOK, TableTypeOK
<1>2. p \in DOMAIN accessible_paths /\ get_value(accessible_paths, p) = accessible_paths[p]
  BY DEF get_value
<1>3. Len(StorageServersInfo) \in Nat
  BY LenProperties DEF TypeOK, TableTypeOK
<1> QED BY <1>1, <1>2, <1>3 DEF RoutesResolve, Slots

LEMMA CommandHandlerType ==
  ASSUME TypeOK, PeerIsWhatItSaid, RoutesResolve, NEW c \in Client, NEW cmd \in Command,
         HandleBlank(c, cmd) \/ HandleCreateDelete(c, cmd) \/ HandleLocate(c, cmd)
         \/ HandleCopy(c, cmd) \/ HandleInvalid(c, cmd)
  PROVE  TypeOK' /\ PeerIsWhatItSaid'
<1>0. /\ HandlerTypeOK /\ TableType(accessible_paths)
      /\ \A p : get_value(accessible_paths, p) \in Int
  BY GetValueType DEF TypeOK, TableTypeOK
<1>a. /\ "recv" \in HandlerState /\ "connect" \in HandlerState /\ "copyFrom" \in HandlerState
      /\ NoReply \in ReplyType /\ Reply(1, "NOT FOUND", 0) \in ReplyType
      /\ Reply(6, "", 0) \in ReplyType
  BY DEF HandlerState, ReplyType, NoReply, Reply
<1>1. CASE HandleBlank(c, cmd)
  BY <1>1, DieType DEF HandleBlank
<1>2. CASE HandleCreateDelete(c, cmd)
  <2>1. LineTypeOK'
    BY <1>0, <1>2, RecvCommandType DEF HandleCreateDelete
  <2>2. PICK n \in Int : target' = [target EXCEPT ![c][1] = n]
    BY <1>0, <1>2 DEF HandleCreateDelete
  <2>3. target' \in [Client -> [{1, 2} -> Int]]
    BY <1>0, <2>2 DEF HandlerTypeOK
  <2>4. HandlerTypeOK'
    BY <1>0, <1>a, <1>2, <2>1, <2>3 DEF HandleCreateDelete, HandlerTypeOK, LineTypeOK
  <2> QED BY <1>2, <2>4, StutterType DEF HandleCreateDelete, TypeOK, PeerIsWhatItSaid, mainVars
<1>3. CASE HandleLocate(c, cmd)
  <2>1. LineTypeOK'
    BY <1>0, <1>3, RecvCommandType DEF HandleLocate
  <2>2. PICK n : n = get_value(accessible_paths, args'[c][1])
    OBVIOUS
  <2>3. target' = [target EXCEPT ![c][1] = n] /\ n \in Int
    BY <1>0, <1>3, <2>2 DEF HandleLocate
  <2>4. target' \in [Client -> [{1, 2} -> Int]]
    BY <1>0, <2>3 DEF HandlerTypeOK
  <2>5. CommandType(cmd.verb) \in 0..6
    <3>1. cmd.verb \in {"READ", "WRITE", "DETAILS"}
      BY <1>3 DEF HandleLocate
    <3>2. CASE cmd.verb = "READ"
      BY <3>2 DEF CommandType
    <3>3. CASE cmd.verb = "WRITE"
      BY <3>3 DEF CommandType
    <3>4. CASE cmd.verb = "DETAILS"
      BY <3>4 DEF CommandType
    <3> QED BY <3>1, <3>2, <3>3, <3>4
  <2>6. n # -1 => StorageServersInfo[n + 1].client_port \in Nat
    <3>1. n # -1 => StorageServersInfo[n + 1] \in SlotType
      BY <2>2, FoundSlot, ElementOfSeq DEF Slots, TypeOK, TableTypeOK
    <3> QED BY <3>1 DEF SlotType
  <2>7. reply' \in [Client -> ReplyType]
    <3>1. PICK r : reply' = [reply EXCEPT ![c] = r]
                   /\ r = IF n = -1 THEN Reply(CommandType(cmd.verb), "NOT FOUND", 0)
                          ELSE Reply(CommandType(cmd.verb), "FOUND", StorageServersInfo[n + 1].client_port)
      BY <1>3, <2>2 DEF HandleLocate
    <3>2. r \in ReplyType
      BY <2>5, <2>6, <3>1 DEF Reply, ReplyType
    <3> QED BY <1>0, <3>1, <3>2 DEF HandlerTypeOK
  <2>8. HandlerTypeOK'
    BY <1>0, <1>3, <2>1, <2>4, <2>7 DEF HandleLocate, HandlerTypeOK, LineTypeOK
  <2> QED BY <1>3, <2>8, StutterType DEF HandleLocate, TypeOK, PeerIsWhatItSaid, mainVars
<1>4. CASE HandleCopy(c, cmd)
  <2>1. LineTypeOK'
    BY <1>0, <1>4, RecvCommandType DEF HandleCopy
  <2>2. PICK n, m \in Int : target' = [target EXCEPT ![c] = [i \in {1, 2} |-> IF i = 1 THEN n ELSE m]]
    BY <1>0, <1>4 DEF HandleCopy
  <2>3. target' \in [Client -> [{1, 2} -> Int]]
    BY <1>0, <2>2 DEF HandlerTypeOK
  <2>4. HandlerTypeOK'
    BY <1>0, <1>a, <1>4, <2>1, <2>3 DEF HandleCopy, HandlerTypeOK, LineTypeOK
  <2> QED BY <1>4, <2>4, StutterType DEF HandleCopy, TypeOK, PeerIsWhatItSaid, mainVars
<1>5. CASE HandleInvalid(c, cmd)
  <2>1. LineTypeOK'
    BY <1>0, <1>5, RecvCommandType DEF HandleInvalid
  <2>2. HandlerTypeOK'
    BY <1>0, <1>a, <1>5, <2>1 DEF HandleInvalid, HandlerTypeOK, LineTypeOK
  <2> QED BY <1>5, <2>2, StutterType DEF HandleInvalid, TypeOK, PeerIsWhatItSaid, mainVars
<1> QED BY <1>1, <1>2, <1>3, <1>4, <1>5

(* Connecting to a server, and answering the client. *)
LEMMA ConnectType ==
  ASSUME TypeOK, PeerIsWhatItSaid, NEW c \in Client, NEW j \in {1, 2},
         NEW next \in HandlerState, Connect(c, j, next)
  PROVE  TypeOK' /\ PeerIsWhatItSaid'
<1>1. CASE NamingServerDies
  BY <1>1, DieType
<1>2. CASE ~NamingServerDies
  <2>1. PICK s \in Server :
           /\ sock' = [sock EXCEPT ![c][j] = "queued"]
           /\ backlog' = [backlog EXCEPT ![s] = Append(@, <<c, j>>)]
           /\ pc' = [pc EXCEPT ![c] = next]
           /\ shipment' = [shipment EXCEPT ![c] = IF j = 1 THEN "none" ELSE @]
           /\ UNCHANGED <<nm, mainVars, tableVars, naming_server_gets, lineVars,
                          target, result, reply, ss, portVars, session, disk, crashes>>
    BY <1>2 DEF Connect, ListeningOn
  <2>2. HandlerTypeOK'
    BY <2>1 DEF TypeOK, HandlerTypeOK, SocketState, lineVars
  <2>3. backlog' \in [Server -> Seq(Conn)]
    <3>1. Append(backlog[s], <<c, j>>) \in Seq(Conn)
      BY AppendProperties DEF TypeOK, ServerTypeOK, Conn
    <3> QED BY <2>1, <3>1 DEF TypeOK, ServerTypeOK
  <2>4. ServerTypeOK'
    BY <2>1, <2>3 DEF TypeOK, ServerTypeOK, Shipment, portVars
  <2> QED BY <2>1, <2>2, <2>4, StutterType DEF TypeOK, PeerIsWhatItSaid, mainVars
<1> QED BY <1>1, <1>2

LEMMA AnswerType ==
  ASSUME TypeOK, PeerIsWhatItSaid, NEW c \in Client, NEW text \in {"ACK", "FAIL"},
         Answer(c, text), TableType(accessible_paths')
  PROVE  TypeOK' /\ PeerIsWhatItSaid'
<1>1. HandlerTypeOK'
  <2>0. "recv" \in HandlerState
    BY DEF HandlerState
  <2>1. Reply(1, text, 0) \in ReplyType
    <3>1. text \in {"", "ACK", "FAIL", "FOUND", "NOT FOUND"}
      BY Zenon
    <3>2. 1 \in 0..6 /\ 0 \in Nat
      OBVIOUS
    <3> HIDE DEF ReplyType
    <3> QED BY <3>1, <3>2 DEF Reply, ReplyType
  <2>2. [j \in {1, 2} |-> "closed"] \in [{1, 2} -> SocketState]
    BY DEF SocketState
  <2> QED BY <2>0, <2>1, <2>2 DEF Answer, TypeOK, HandlerTypeOK, lineVars
<1>2. TableTypeOK'
  BY DEF Answer, TypeOK, TableTypeOK
<1> QED BY <1>1, <1>2, StutterType DEF Answer, TypeOK, PeerIsWhatItSaid, mainVars

(* The steps of a handler between a command and its answer. *)
LEMMA WorkType ==
  ASSUME TypeOK, PeerIsWhatItSaid, NEW c \in Client, Work(c)
  PROVE  TypeOK' /\ PeerIsWhatItSaid'
<1>0. /\ TableType(accessible_paths) /\ HandlerTypeOK /\ TableTypeOK
      /\ \A i \in {1, 2} : args[c][i] \in Str /\ target[c][i] \in Int
  <2>1. HandlerTypeOK /\ TableTypeOK
    BY DEF TypeOK
  <2>2. TableType(accessible_paths)
    BY <2>1, Zenon DEF TableTypeOK
  <2>3. \A i \in {1, 2} : args[c][i] \in Str /\ target[c][i] \in Int
    BY <2>1 DEF HandlerTypeOK
  <2> QED BY <2>1, <2>2, <2>3
<1>a. \A x \in {"recv", "clear", "result", "check", "commit", "copyFromWait", "copyTo",
              "copyToWait", "copying", "relookup", "commitCopy"} : x \in HandlerState
  BY DEF HandlerState
<1>1. CASE OpenSocket(c)
  BY <1>1, <1>a, ConnectType DEF OpenSocket
<1>2. CASE OpenFrom(c)
  BY <1>2, <1>a, ConnectType DEF OpenFrom
<1>3. CASE OpenTo(c)
  BY <1>3, <1>a, ConnectType DEF OpenTo
<1>4. CASE ClearBuffer(c)
  <2>1. CASE NamingServerDies
    BY <2>1, DieType
  <2>2. CASE ~NamingServerDies
    <3>1. HandlerTypeOK'
      BY <1>0, <1>a, <1>4, <2>2 DEF ClearBuffer, HandshakeFails, HandlerTypeOK, lineVars
    <3>2. TableTypeOK'
      BY <1>0, <1>4, <2>2 DEF ClearBuffer, HandshakeFails, TableTypeOK, tableVars
    <3>3. PeerIsWhatItSaid'
      BY <1>4, <2>2 DEF ClearBuffer, HandshakeFails, PeerIsWhatItSaid, mainVars
    <3> QED BY <1>4, <2>2, <3>1, <3>2, <3>3, StutterType
            DEF ClearBuffer, HandshakeFails, TypeOK
  <2> QED BY <2>1, <2>2
<1>5. CASE RecvResult(c)
  <2>1. CASE NamingServerDies
    BY <2>1, DieType
  <2>2. CASE ~NamingServerDies
    <3>1. HandlerTypeOK'
      BY <1>0, <1>a, <1>5, <2>2 DEF RecvResult, HandlerTypeOK, lineVars
    <3>2. naming_server_gets' \in {naming_server_gets, "ACK", "FAIL"}
      BY <1>5, <2>2 DEF RecvResult
    <3>3. TableTypeOK'
      BY <1>0, <1>5, <2>2, <3>2 DEF RecvResult, TableTypeOK, tableVars
    <3>4. PeerIsWhatItSaid'
      BY <1>5, <2>2, <3>2 DEF RecvResult, PeerIsWhatItSaid, mainVars
    <3> QED BY <1>5, <2>2, <3>1, <3>3, <3>4, StutterType DEF RecvResult, TypeOK
  <2> QED BY <2>1, <2>2
<1>6. CASE CheckResult(c)
  <2>1. HandlerTypeOK'
    BY <1>0, <1>a, <1>6 DEF CheckResult, HandlerTypeOK, lineVars
  <2> QED BY <1>6, <2>1, StutterType DEF CheckResult, TypeOK, PeerIsWhatItSaid, mainVars
<1>7. CASE CommitCreate(c)
  <2>1. TableType(set_value(accessible_paths, Join(args[c][1], args[c][2]), target[c][1]))
    BY <1>0, JoinType, SetValueType
  <2> QED BY <1>7, <2>1, AnswerType DEF CommitCreate
<1>8. CASE CommitDelete(c)
  <2>1. \A stray : TableType(remove_entry(accessible_paths, args[c][1], stray))
    BY <1>0, RemoveEntryType
  <2> QED BY <1>8, <2>1, AnswerType DEF CommitDelete
<1>9. CASE CommitFail(c)
  <2>1. TableType(accessible_paths')
    BY <1>0, <1>9 DEF CommitFail
  <2> QED BY <1>9, <2>1, AnswerType DEF CommitFail
<1>10. CASE HandshakeOver(c)
  <2>1. CASE NamingServerDies
    BY <2>1, DieType
  <2>2. CASE ~NamingServerDies
    <3>1. HandlerTypeOK'
      BY <1>0, <1>a, <1>10, <2>2 DEF HandshakeOver, HandshakeFails, HandlerTypeOK, lineVars
    <3> QED BY <1>10, <2>2, <3>1, StutterType
            DEF HandshakeOver, HandshakeFails, TypeOK, PeerIsWhatItSaid, mainVars
  <2> QED BY <2>1, <2>2
<1>11. CASE FacilitateCopy(c)
  <2>1. CASE NamingServerDies
    BY <2>1, DieType
  <2>2. CASE Answer(c, "FAIL") /\ UNCHANGED accessible_paths
    <3>1. TableType(accessible_paths')
      BY <1>0, <2>2
    <3> QED BY <2>2, <3>1, AnswerType
  <2>3. CASE ~NamingServerDies /\ ~(Answer(c, "FAIL") /\ UNCHANGED accessible_paths)
    <3>1. /\ \E n \in {1, 2} : result' = [result EXCEPT ![c] = n]
          /\ pc' = [pc EXCEPT ![c] = "relookup"]
          /\ UNCHANGED <<nm, mainVars, tableVars, naming_server_gets, lineVars,
                         target, sock, reply, serverVars>>
      BY <1>11, <2>3, Zenon DEF FacilitateCopy
    <3>2. PICK n \in {1, 2} : result' = [result EXCEPT ![c] = n]
      BY <3>1
    <3>3. result' \in [Client -> 0..2] /\ pc' \in [Client -> HandlerState]
      BY <1>0, <1>a, <3>1, <3>2 DEF HandlerTypeOK
    <3>4. HandlerTypeOK'
      BY <1>0, <3>1, <3>3 DEF HandlerTypeOK, lineVars
    <3> QED BY <3>1, <3>4, StutterType DEF TypeOK, PeerIsWhatItSaid, mainVars
  <2> QED BY <2>1, <2>2, <2>3
<1>12. CASE CopyRelookup(c)
  <2>1. get_value(accessible_paths, args[c][2]) \in Int
    BY <1>0, GetValueType
  <2>2. HandlerTypeOK'
    BY <1>0, <1>a, <1>12, <2>1 DEF CopyRelookup, HandlerTypeOK, lineVars
  <2> QED BY <1>12, <2>2, StutterType DEF CopyRelookup, TypeOK, PeerIsWhatItSaid, mainVars
<1>13. CASE CommitCopyFile(c)
  <2>1. TableType(set_value(accessible_paths, Join(args[c][2], Basename(args[c][1])), target[c][2]))
    BY <1>0, JoinType, BasenameType, SetValueType
  <2> QED BY <1>13, <2>1, AnswerType DEF CommitCopyFile
<1>14. CASE CommitCopyDir(c)
  <2> DEFINE found == get_paths(accessible_paths, args[c][1])
  <2>1. PICK rank \in Rankings(found, Cardinality(found)) :
          accessible_paths' = add_paths_to_list(accessible_paths, args[c][2], found, rank)
    BY <1>14 DEF CommitCopyDir
  <2>2. found \in SUBSET DOMAIN accessible_paths
    BY DEF get_paths
  <2>3. TableType(accessible_paths')
    BY <1>0, <2>1, <2>2, AddPathsType
  <2> QED BY <1>14, <2>3, AnswerType DEF CommitCopyDir
<1> QED BY <1>1, <1>2, <1>3, <1>4, <1>5, <1>6, <1>7, <1>8, <1>9, <1>10, <1>11, <1>12,
           <1>13, <1>14 DEF Work

(* The storage servers.  They leave the main thread, the table and the     *)
(* buffer alone, and of a handler they change only its sockets.            *)
ServerStep == UNCHANGED <<nm, mainVars, tableVars, naming_server_gets, pc, lineVars, target,
                          result, reply, portVars>>

LEMMA ServerStepType ==
  ASSUME TypeOK, PeerIsWhatItSaid, ServerStep,
         sock' \in [Client -> [{1, 2} -> SocketState]], ServerTypeOK'
  PROVE  TypeOK' /\ PeerIsWhatItSaid'
<1>1. HandlerTypeOK'
  BY DEF TypeOK, HandlerTypeOK, ServerStep, lineVars
<1>2. PeerIsWhatItSaid'
  BY DEF PeerIsWhatItSaid, ServerStep, mainVars
<1> QED BY <1>1, <1>2, StutterType DEF TypeOK, ServerStep

LEMMA SSDiesType ==
  ASSUME TypeOK, NEW s \in Server, SSDies(s), crashes' \in 0..MaxCrashes
  PROVE  ServerStep /\ sock' \in [Client -> [{1, 2} -> SocketState]] /\ ServerTypeOK'
<1>1. sock' \in [Client -> [{1, 2} -> SocketState]]
  <2> DEFINE new(c, j) ==
        CASE session[s] = <<c, j>> -> "dead"
          [] \E i \in 1..Len(backlog[s]) : backlog[s][i] = <<c, j>> -> "refused"
          [] OTHER -> sock[c][j]
  <2>1. \A c \in Client : \A j \in {1, 2} : new(c, j) \in {"dead", "refused", sock[c][j]}
    OBVIOUS
  <2>2. \A c \in Client : \A j \in {1, 2} : sock[c][j] \in SocketState
    BY DEF TypeOK, HandlerTypeOK
  <2>3. "dead" \in SocketState /\ "refused" \in SocketState
    BY DEF SocketState
  <2>4. sock' = [c \in Client |-> [j \in {1, 2} |-> new(c, j)]]
    BY DEF SSDies
  <2>5. \A c \in Client : \A j \in {1, 2} : new(c, j) \in SocketState
    <3> HIDE DEF new
    <3> QED BY <2>1, <2>2, <2>3
  <2> HIDE DEF new
  <2> QED BY <2>4, <2>5
<1>2. ServerTypeOK'
  <2>1. << >> \in Seq(Conn) /\ "down" \in ServerState
    BY DEF ServerState
  <2> QED BY <2>1 DEF TypeOK, ServerTypeOK, SSDies, portVars
<1> QED BY <1>1, <1>2 DEF SSDies, ServerStep

LEMMA StoredType ==
  ASSUME ServerTypeOK, NEW s \in Server, NEW p \in Str, NEW kind, disk' = Stored(s, p, kind)
  PROVE  DOMAIN disk' = Server /\ \A t \in Server : DOMAIN disk'[t] \subseteq Str
  BY DEF ServerTypeOK, Stored

LEMMA RemovedType ==
  ASSUME ServerTypeOK, NEW s \in Server, NEW P, disk' = Removed(s, P)
  PROVE  DOMAIN disk' = Server /\ \A t \in Server : DOMAIN disk'[t] \subseteq Str
  BY DEF ServerTypeOK, Removed

LEMMA SSAnswerType ==
  ASSUME TypeOK, PeerIsWhatItSaid, NEW s \in Server, NEW c \in Client, NEW j \in {1, 2},
         NEW ok, SSAnswer(s, c, j, ok),
         DOMAIN disk' = Server, \A t \in Server : DOMAIN disk'[t] \subseteq Str,
         shipment' \in [Client -> Shipment]
  PROVE  TypeOK' /\ PeerIsWhatItSaid'
<1>1. PICK a \in SocketState : sock' = [sock EXCEPT ![c][j] = a]
  BY DEF SSAnswer, SocketState
<1>2. sock' \in [Client -> [{1, 2} -> SocketState]]
  BY <1>1 DEF TypeOK, HandlerTypeOK
<1>3. ServerTypeOK'
  BY DEF SSAnswer, TypeOK, ServerTypeOK, portVars
<1>4. ServerStep
  BY DEF SSAnswer, ServerStep
<1> QED BY <1>2, <1>3, <1>4, ServerStepType

LEMMA ReceiveIntoType ==
  ASSUME TypeOK, PeerIsWhatItSaid, NEW s \in Server, NEW c \in Client, NEW name \in Str,
         NEW whole, ReceiveInto(s, c, name, whole)
  PROVE  TypeOK' /\ PeerIsWhatItSaid'
<1> DEFINE file_path_name == Join(args[c][2], name)
<1>1. CASE SSDies(s) /\ UNCHANGED crashes
  <2>1. crashes' \in 0..MaxCrashes
    BY <1>1 DEF TypeOK, ServerTypeOK
  <2> QED BY <1>1, <2>1, SSDiesType, ServerStepType
<1>2. CASE ~(SSDies(s) /\ UNCHANGED crashes)
  <2>1. /\ disk' = Stored(s, file_path_name, "file")
        /\ \E k \in {"file", "dir"} : shipment' = [shipment EXCEPT ![c] = k]
        /\ session' = [session EXCEPT ![s] = Nobody]
        /\ sock' = [sock EXCEPT ![c] =
                [j \in {1, 2} |-> IF j = 2 THEN "ACK" ELSE IF whole THEN sock[c][1] ELSE "FAIL"]]
        /\ UNCHANGED <<nm, mainVars, tableVars, naming_server_gets, pc, lineVars,
                       target, result, reply, ss, portVars, backlog, crashes>>
    BY <1>2 DEF ReceiveInto
  <2>2. file_path_name \in Str
    <3>1. args[c][2] \in Str
      BY DEF TypeOK, HandlerTypeOK
    <3> QED BY <3>1, JoinType
  <2>3. DOMAIN disk' = Server /\ \A t \in Server : DOMAIN disk'[t] \subseteq Str
    BY <2>1, <2>2, StoredType DEF TypeOK
  <2>4. shipment' \in [Client -> Shipment]
    BY <2>1 DEF TypeOK, ServerTypeOK, Shipment
  <2>5. ServerTypeOK'
    BY <2>1, <2>3, <2>4 DEF TypeOK, ServerTypeOK, portVars
  <2>6. sock' \in [Client -> [{1, 2} -> SocketState]]
    <3>1. sock[c][1] \in SocketState /\ "ACK" \in SocketState /\ "FAIL" \in SocketState
      BY DEF TypeOK, HandlerTypeOK, SocketState
    <3> QED BY <2>1, <3>1 DEF TypeOK, HandlerTypeOK
  <2>7. ServerStep
    BY <2>1 DEF ServerStep
  <2> QED BY <2>5, <2>6, <2>7, ServerStepType
<1> QED BY <1>1, <1>2

LEMMA ServerType ==
  ASSUME TypeOK, PeerIsWhatItSaid, NEW s \in Server,
         SSListen(s) \/ SSAccept(s) \/ SSServe(s) \/ SSCrash(s)
  PROVE  TypeOK' /\ PeerIsWhatItSaid'
<1>0. /\ ServerTypeOK /\ HandlerTypeOK /\ crashes \in 0..MaxCrashes
      /\ sock \in [Client -> [{1, 2} -> SocketState]]
      /\ shipment \in [Client -> Shipment]
      /\ DOMAIN disk = Server /\ \A t \in Server : DOMAIN disk[t] \subseteq Str
  BY DEF TypeOK, ServerTypeOK, HandlerTypeOK
<1>1. CASE SSListen(s)
  <2>1. ServerTypeOK'
    BY <1>0, <1>1 DEF SSListen, ServerTypeOK, ServerState, portVars
  <2>2. ServerStep /\ UNCHANGED sock
    BY <1>1 DEF SSListen, ServerStep, handlerVars
  <2> QED BY <1>0, <2>1, <2>2, ServerStepType
<1>2. CASE SSAccept(s)
  <2>1. backlog[s] \in Seq(Conn) /\ backlog[s] # << >>
    BY <1>0, <1>2 DEF SSAccept, ServerTypeOK
  <2>2. Head(backlog[s]) \in Conn /\ Tail(backlog[s]) \in Seq(Conn)
    BY <2>1, HeadTailProperties
  <2>3. ServerTypeOK'
    BY <1>0, <1>2, <2>2 DEF SSAccept, ServerTypeOK, portVars
  <2>4. PICK c \in Client, j \in {1, 2} : Head(backlog[s]) = <<c, j>>
    BY <2>2 DEF Conn
  <2>5. sock' = [sock EXCEPT ![c][j] = "open"]
    <3>1. Head(backlog[s])[1] = c /\ Head(backlog[s])[2] = j
      BY <2>4
    <3>2. sock' = [sock EXCEPT ![Head(backlog[s])[1]][Head(backlog[s])[2]] = "open"]
      BY <1>2 DEF SSAccept
    <3> QED BY <3>1, <3>2, Zenon
  <2>6. sock' \in [Client -> [{1, 2} -> SocketState]]
    BY <1>0, <2>5 DEF SocketState
  <2>7. ServerStep
    BY <1>2 DEF SSAccept, ServerStep
  <2> QED BY <2>3, <2>6, <2>7, ServerStepType
<1>3. CASE SSCrash(s)
  <2>1. crashes' \in 0..MaxCrashes
    BY <1>0, <1>3, ConfigAssumption DEF SSCrash
  <2> QED BY <1>3, <2>1, SSDiesType, ServerStepType DEF SSCrash
<1>4. ASSUME NEW c \in Client, SSCreate(s, c) PROVE TypeOK' /\ PeerIsWhatItSaid'
  <2>1. DOMAIN disk' = Server /\ \A t \in Server : DOMAIN disk'[t] \subseteq Str
    <3>1. \/ disk' = disk
          \/ \E kind \in {"file", "dir"} : disk' = Stored(s, Join(args[c][1], args[c][2]), kind)
      BY <1>4 DEF SSCreate
    <3>2. Join(args[c][1], args[c][2]) \in Str
      BY <1>0, JoinType DEF HandlerTypeOK
    <3> QED BY <1>0, <3>1, <3>2, StoredType
  <2>2. PICK ok : SSAnswer(s, c, 1, ok)
    BY <1>4 DEF SSCreate
  <2>3. shipment' \in [Client -> Shipment]
    BY <1>0, <1>4 DEF SSCreate
  <2> QED BY <2>1, <2>2, <2>3, SSAnswerType
<1>5. ASSUME NEW c \in Client, SSDelete(s, c) PROVE TypeOK' /\ PeerIsWhatItSaid'
  <2>1. DOMAIN disk' = Server /\ \A t \in Server : DOMAIN disk'[t] \subseteq Str
    <3>1. disk' = disk \/ \E P : disk' = Removed(s, P)
      BY <1>5 DEF SSDelete
    <3> QED BY <1>0, <3>1, RemovedType
  <2>2. PICK ok : SSAnswer(s, c, 1, ok)
    BY <1>5 DEF SSDelete
  <2>3. shipment' \in [Client -> Shipment]
    BY <1>0, <1>5 DEF SSDelete
  <2> QED BY <2>1, <2>2, <2>3, SSAnswerType
<1>6. ASSUME NEW c \in Client, SSSend(s, c) PROVE TypeOK' /\ PeerIsWhatItSaid'
  <2>1. CASE SSDies(s) /\ UNCHANGED crashes
    <3>1. crashes' \in 0..MaxCrashes
      BY <1>0, <2>1
    <3> QED BY <2>1, <3>1, SSDiesType, ServerStepType
  <2>2. CASE ~(SSDies(s) /\ UNCHANGED crashes)
    <3>1. /\ \E k \in {"file", "dir"} : shipment' = [shipment EXCEPT ![c] = k]
          /\ disk' = disk \/ disk' = Stored(s, args[c][1] \o <<TarGz>>, "file")
          /\ SSAnswer(s, c, 1, TRUE)
      BY <1>6, <2>2 DEF SSSend
    <3>2. args[c][1] \o <<TarGz>> \in Str
      <4>1. <<TarGz>> \in Str
        BY ConfigAssumption, LetterAssumption, LetterType
      <4>2. args[c][1] \in Str
        BY <1>0 DEF HandlerTypeOK
      <4> QED BY <4>1, <4>2, ConcatType
    <3>3. DOMAIN disk' = Server /\ \A t \in Server : DOMAIN disk'[t] \subseteq Str
      BY <1>0, <3>1, <3>2, StoredType
    <3>4. shipment' \in [Client -> Shipment]
      BY <1>0, <3>1 DEF Shipment
    <3> QED BY <3>1, <3>3, <3>4, SSAnswerType
  <2> QED BY <2>1, <2>2
<1>7. ASSUME NEW c \in Client, SSReceive(s, c) PROVE TypeOK' /\ PeerIsWhatItSaid'
  <2> DEFINE base == Basename(args[c][1]) \o (IF shipment[c] = "dir" THEN <<TarGz>> ELSE << >>)
  <2>1. <<TarGz>> \in Str /\ <<Glue>> \in Str /\ << >> \in Str
    BY ConfigAssumption, LetterAssumption, LetterType DEF Str
  <2>2. base \in Str
    <3>1. Basename(args[c][1]) \in Str
      BY <1>0, BasenameType DEF HandlerTypeOK
    <3> QED BY <2>1, <3>1, ConcatType
  <2>3. base \o <<Glue>> \in Str /\ Empty \in Str
    <3> HIDE DEF base
    <3> QED BY <2>1, <2>2, ConcatType DEF Empty
  <2>4. \E name \in {base, base \o <<Glue>>, Empty} : \E whole \in BOOLEAN :
           ReceiveInto(s, c, name, whole)
    <3>1. TRUE \in BOOLEAN
      OBVIOUS
    <3> QED BY <1>7, <3>1, Zenon DEF SSReceive
  <2>5. PICK name \in Str, whole \in BOOLEAN : ReceiveInto(s, c, name, whole)
    <3> HIDE DEF base
    <3> QED BY <2>2, <2>3, <2>4
  <2> QED BY <2>5, ReceiveIntoType
<1> QED BY <1>1, <1>2, <1>3, <1>4, <1>5, <1>6, <1>7 DEF SSServe

LEMMA NextType == TypeOK /\ PeerIsWhatItSaid /\ Registration /\ RoutesResolve /\ [Next]_vars
                  => TypeOK' /\ PeerIsWhatItSaid'
<1> SUFFICES ASSUME TypeOK, PeerIsWhatItSaid, Registration, RoutesResolve, [Next]_vars
             PROVE  TypeOK' /\ PeerIsWhatItSaid'
  OBVIOUS
<1>1. CASE UNCHANGED vars
  BY <1>1, StutterType DEF vars, TypeOK, PeerIsWhatItSaid, mainVars
<1>2. CASE Main \/ (\E c \in Client : ClientConnect(c)) \/ (\E s \in Server : ServerStart(s))
  BY <1>2, MainType
<1>3. ASSUME NEW c \in Client, Handle(c) PROVE TypeOK' /\ PeerIsWhatItSaid'
  <2>1. CASE Work(c)
    BY <2>1, WorkType
  <2>2. CASE ~Work(c)
    <3>1. PICK cmd \in Command :
            HandleBlank(c, cmd) \/ HandleCreateDelete(c, cmd) \/ HandleLocate(c, cmd)
            \/ HandleCopy(c, cmd) \/ HandleInvalid(c, cmd)
      BY <1>3, <2>2 DEF Handle, Work
    <3> QED BY <3>1, CommandHandlerType
  <2> QED BY <2>1, <2>2
<1>4. ASSUME NEW s \in Server, SSListen(s) \/ SSAccept(s) \/ SSServe(s) \/ SSCrash(s)
      PROVE  TypeOK' /\ PeerIsWhatItSaid'
  BY <1>4, ServerType
<1> QED BY <1>1, <1>2, <1>3, <1>4 DEF Next

-----------------------------------------------------------------------------
(* Only the two steps that fill a slot move the registration. *)
registrationVars == <<mpc, peer, storage_server_count, used_ports, StorageServersInfo>>

LEMMA RegistrationStutter ==
  /\ Registration /\ UNCHANGED registrationVars => Registration'
  /\ PortsUnique /\ UNCHANGED StorageServersInfo => PortsUnique'
<1>1. Registration /\ UNCHANGED registrationVars => Registration'
  BY DEF Registration, registrationVars
<1>2. PortsUnique /\ UNCHANGED StorageServersInfo => PortsUnique'
  BY DEF PortsUnique, Slots, PortsOf
<1> QED BY <1>1, <1>2

(* Only the main thread registers. *)
LEMMA HandleFrame ==
  ASSUME NEW c \in Client, Handle(c)
  PROVE  UNCHANGED <<mainVars, StorageServersInfo>>
<1>1. ASSUME NamingServerDies PROVE UNCHANGED <<mainVars, StorageServersInfo>>
  BY <1>1 DEF NamingServerDies, tableVars
<1>2. ASSUME NEW cmd \in Command,
             HandleBlank(c, cmd) \/ HandleCreateDelete(c, cmd) \/ HandleLocate(c, cmd)
             \/ HandleCopy(c, cmd) \/ HandleInvalid(c, cmd)
      PROVE  UNCHANGED <<mainVars, StorageServersInfo>>
  BY <1>1, <1>2, Zenon DEF HandleBlank, HandleCreateDelete, HandleLocate, HandleCopy,
     HandleInvalid, tableVars
<1>3. ASSUME NEW j, NEW next, Connect(c, j, next)
      PROVE  UNCHANGED <<mainVars, StorageServersInfo>>
  BY <1>1, <1>3, Zenon DEF Connect, tableVars
<1>4. ASSUME NEW text, Answer(c, text) PROVE UNCHANGED <<mainVars, StorageServersInfo>>
  BY <1>4 DEF Answer
<1>5. CASE OpenSocket(c) \/ OpenFrom(c) \/ OpenTo(c)
  BY <1>3, <1>5, Zenon DEF OpenSocket, OpenFrom, OpenTo
<1>6. CASE ClearBuffer(c) \/ RecvResult(c) \/ CheckResult(c) \/ HandshakeOver(c)
  BY <1>1, <1>6, Zenon DEF ClearBuffer, RecvResult, CheckResult, HandshakeOver, HandshakeFails,
     tableVars
<1>7. CASE CommitCreate(c) \/ CommitDelete(c) \/ CommitFail(c)
           \/ CommitCopyFile(c) \/ CommitCopyDir(c)
  BY <1>4, <1>7, Zenon DEF CommitCreate, CommitDelete, CommitFail, CommitCopyFile, CommitCopyDir
<1>8. CASE FacilitateCopy(c) \/ CopyRelookup(c)
  BY <1>1, <1>4, <1>8, Zenon DEF FacilitateCopy, CopyRelookup, tableVars
<1> QED BY <1>2, <1>5, <1>6, <1>7, <1>8 DEF Handle

LEMMA ServerFrame ==
  ASSUME NEW s \in Server, SSListen(s) \/ SSAccept(s) \/ SSServe(s) \/ SSCrash(s)
  PROVE  ServerStep
<1>1. ASSUME SSDies(s) PROVE ServerStep
  BY <1>1 DEF SSDies, ServerStep
<1>2. ASSUME NEW c, NEW j, NEW ok, SSAnswer(s, c, j, ok) PROVE ServerStep
  BY <1>2 DEF SSAnswer, ServerStep
<1>3. ASSUME NEW c, NEW name, NEW whole, ReceiveInto(s, c, name, whole) PROVE ServerStep
  BY <1>1, <1>3, Zenon DEF ReceiveInto, ServerStep
<1>4. CASE SSListen(s) \/ SSAccept(s) \/ SSCrash(s)
  <2>1. SSListen(s) => ServerStep
    BY DEF SSListen, ServerStep, handlerVars
  <2>2. SSAccept(s) => ServerStep
    BY DEF SSAccept, ServerStep
  <2> QED BY <1>1, <1>4, <2>1, <2>2 DEF SSCrash
<1>5. ASSUME NEW c \in Client, SSCreate(s, c) \/ SSDelete(s, c) \/ SSSend(s, c) PROVE ServerStep
  BY <1>1, <1>2, <1>5, Zenon DEF SSCreate, SSDelete, SSSend
<1>6. ASSUME NEW c \in Client, SSReceive(s, c) PROVE ServerStep
  BY <1>3, <1>6, Zenon DEF SSReceive
<1> QED BY <1>4, <1>5, <1>6 DEF SSServe

LEMMA MainStoreInfoRegisters ==
  ASSUME TypeOK, Registration, PortsUnique, MainStoreInfo
  PROVE  Registration' /\ PortsUnique'
<1>0. PICK n \in Nat : n = storage_server_count
  BY DEF TypeOK, MainTypeOK
<1> DEFINE new == SlotOf(peer)
<1>1. /\ mpc = "info" /\ mpc' = "publish"
      /\ StorageServersInfo' = Append(StorageServersInfo, new)
      /\ UNCHANGED <<peer, storage_server_count, used_ports>>
  BY DEF MainStoreInfo
<1>2. /\ n \in Nat /\ Len(StorageServersInfo) = n /\ Len(used_ports) = 2 * n + 1
      /\ StorageServersInfo \in Seq(SlotType) /\ used_ports \in Seq(Nat)
  BY <1>0, <1>1 DEF TypeOK, MainTypeOK, TableTypeOK, Registration
<1>3. /\ Len(StorageServersInfo') = n + 1
      /\ \A k \in 1..n : StorageServersInfo'[k] = StorageServersInfo[k]
      /\ StorageServersInfo'[n + 1] = new
  <2> HIDE DEF new
  <2> QED BY <1>1, <1>2, AppendProperties
<1>4. \A k \in 1..n : PortsOf(k)' = PortsOf(k)
  BY <1>3 DEF PortsOf
<1>5. PortsOf(n + 1)' = {naming_port[peer], client_port[peer]}
  BY <1>3 DEF PortsOf, SlotOf
<1>6. \A i \in 1..(2 * n + 1) : used_ports[i] \notin PortsOf(n + 1)'
  BY <1>0, <1>5 DEF MainStoreInfo, port_available
<1>7. \A k \in 1..n : PortsOf(k) = {used_ports[2 * k], used_ports[2 * k + 1]}
  BY <1>0 DEF Registration, PortsOf
<1>8. \A k \in 1..n : PortsOf(k)' \cap PortsOf(n + 1)' = {}
  <2> SUFFICES ASSUME NEW k \in 1..n PROVE PortsOf(k)' \cap PortsOf(n + 1)' = {}
    OBVIOUS
  <2>1. 2 * k \in 1..(2 * n + 1) /\ 2 * k + 1 \in 1..(2 * n + 1)
    BY <1>2
  <2>2. used_ports[2 * k] \notin PortsOf(n + 1)' /\ used_ports[2 * k + 1] \notin PortsOf(n + 1)'
    BY <1>6, <2>1
  <2> QED BY <1>4, <1>7, <2>2
<1>9. NAMING_SERVER_PORT \notin PortsOf(n + 1)'
  <2>1. 1 \in 1..(2 * n + 1)
    BY <1>2
  <2> QED BY <1>6, <2>1 DEF Registration
<1>10. Slots' = 1..(n + 1) /\ Slots = 1..n
  BY <1>2, <1>3 DEF Slots
<1>11. PortsUnique'
  <2>1. \A k \in 1..n : NAMING_SERVER_PORT \notin PortsOf(k)'
    BY <1>4, <1>10 DEF PortsUnique
  <2>2. \A k, l \in 1..n : k # l => PortsOf(k)' \cap PortsOf(l)' = {}
    BY <1>4, <1>10 DEF PortsUnique
  <2>3. \A k \in 1..(n + 1) : k \in 1..n \/ k = n + 1
    BY <1>2
  <2>4. \A k \in Slots' : NAMING_SERVER_PORT \notin PortsOf(k)'
    BY <1>9, <1>10, <2>1, <2>3
  <2>5. ASSUME NEW k \in Slots', NEW l \in Slots', k # l PROVE PortsOf(k)' \cap PortsOf(l)' = {}
    BY <1>8, <1>10, <2>2, <2>3, <2>5
  <2> QED BY <2>4, <2>5 DEF PortsUnique
<1>12. Registration'
  BY <1>0, <1>1, <1>2, <1>3 DEF Registration
<1> QED BY <1>11, <1>12

LEMMA MainRegisterRegisters ==
  ASSUME TypeOK, PeerIsWhatItSaid, Registration, MainRegister
  PROVE  Registration'
<1>0. PICK n \in Nat : n = storage_server_count
  BY DEF TypeOK, MainTypeOK
<1>a. PICK new : new = StorageServersInfo[storage_server_count + 1]
  OBVIOUS
<1>1. /\ mpc = "publish" /\ mpc' = "accept" /\ storage_server_count' = n + 1
      /\ used_ports' = used_ports \o <<new.naming_port, new.client_port>>
      /\ UNCHANGED StorageServersInfo
  BY <1>0, <1>a DEF MainRegister, tableVars
<1>2. n \in Nat /\ Len(used_ports) = 2 * n + 1 /\ used_ports \in Seq(Nat)
      /\ Len(StorageServersInfo) = n + 1
  BY <1>0, <1>1 DEF TypeOK, MainTypeOK, Registration
<1>3. /\ Len(used_ports') = 2 * n + 3
      /\ \A i \in 1..(2 * n + 1) : used_ports'[i] = used_ports[i]
      /\ used_ports'[2 * n + 2] = new.naming_port
      /\ used_ports'[2 * n + 3] = new.client_port
  <2> DEFINE two == <<new.naming_port, new.client_port>>
  <2>1. two \in Seq(Nat) /\ Len(two) = 2
    <3>1. StorageServersInfo \in Seq(SlotType) /\ n + 1 \in 1..Len(StorageServersInfo)
      <4>1. StorageServersInfo \in Seq(SlotType)
        BY DEF TypeOK, TableTypeOK
      <4>2. n + 1 \in 1..Len(StorageServersInfo)
        BY <1>2
      <4> QED BY <4>1, <4>2
    <3>2. new \in SlotType
      BY <1>0, <1>a, <3>1, ElementOfSeq
    <3> QED BY <3>2 DEF SlotType
  <2>2. two[1] = new.naming_port /\ two[2] = new.client_port
    OBVIOUS
  <2>3. used_ports' = used_ports \o two
    BY <1>1
  <2> HIDE DEF two
  <2>4. /\ Len(used_ports') = 2 * n + 3
        /\ \A i \in 1..(2 * n + 3) :
              used_ports'[i] = IF i <= 2 * n + 1 THEN used_ports[i] ELSE two[i - (2 * n + 1)]
    <3>1. Len(used_ports) + Len(two) = 2 * n + 3
      BY <1>2, <2>1
    <3>2. /\ Len(used_ports \o two) = Len(used_ports) + Len(two)
          /\ \A i \in 1..(Len(used_ports) + Len(two)) :
                (used_ports \o two)[i] = IF i <= Len(used_ports) THEN used_ports[i]
                                        ELSE two[i - Len(used_ports)]
      BY <1>2, <2>1, ConcatProperties
    <3> QED BY <1>2, <2>3, <3>1, <3>2, Zenon
  <2>5. \A i \in 1..(2 * n + 1) : used_ports'[i] = used_ports[i]
    <3>1. \A i \in 1..(2 * n + 1) : i \in 1..(2 * n + 3) /\ i <= 2 * n + 1
      OBVIOUS
    <3> QED BY <2>4, <3>1
  <2>6. used_ports'[2 * n + 2] = two[1]
    <3>1. 2 * n + 2 \in 1..(2 * n + 3) /\ ~(2 * n + 2 <= 2 * n + 1)
      OBVIOUS
    <3>2. (2 * n + 2) - (2 * n + 1) = 1
      OBVIOUS
    <3>3. used_ports'[2 * n + 2] = two[(2 * n + 2) - (2 * n + 1)]
      BY <2>4, <3>1
    <3> QED BY <3>2, <3>3, Zenon
  <2>7. used_ports'[2 * n + 3] = two[2]
    <3>1. 2 * n + 3 \in 1..(2 * n + 3) /\ ~(2 * n + 3 <= 2 * n + 1)
      OBVIOUS
    <3>2. (2 * n + 3) - (2 * n + 1) = 2
      OBVIOUS
    <3>3. used_ports'[2 * n + 3] = two[(2 * n + 3) - (2 * n + 1)]
      BY <2>4, <3>1
    <3> QED BY <3>2, <3>3, Zenon
  <2> QED BY <2>2, <2>4, <2>5, <2>6, <2>7
<1>4. ASSUME NEW k \in 1..(n + 1)
      PROVE  /\ used_ports'[2 * k] = StorageServersInfo[k].naming_port
             /\ used_ports'[2 * k + 1] = StorageServersInfo[k].client_port
  <2>1. CASE k = n + 1
    <3>1. 2 * k = 2 * n + 2 /\ 2 * k + 1 = 2 * n + 3
      BY <2>1
    <3>2. new = StorageServersInfo[k]
      BY <1>0, <1>a, <2>1
    <3> QED BY <1>3, <3>1, <3>2
  <2>2. CASE k \in 1..n
    <3>1. 2 * k \in 1..(2 * n + 1) /\ 2 * k + 1 \in 1..(2 * n + 1)
      BY <1>2, <2>2
    <3> QED BY <1>0, <1>3, <2>2, <3>1 DEF Registration
  <2> QED BY <1>2, <2>1, <2>2
<1>5. used_ports'[1] = NAMING_SERVER_PORT
  BY <1>2, <1>3 DEF Registration
<1>6. 2 * (n + 1) + 1 = 2 * n + 3 /\ mpc' # "publish"
  BY <1>1
<1> QED BY <1>1, <1>2, <1>3, <1>4, <1>5, <1>6 DEF Registration

LEMMA NextRegisters ==
  ASSUME TypeOK, PeerIsWhatItSaid, Registration, PortsUnique, [Next]_vars
  PROVE  Registration' /\ PortsUnique'
<1>1. CASE MainStoreInfo
  BY <1>1, MainStoreInfoRegisters
<1>2. CASE MainRegister
  <2>1. UNCHANGED StorageServersInfo
    BY <1>2 DEF MainRegister, tableVars
  <2> QED BY <1>2, <2>1, MainRegisterRegisters, RegistrationStutter
<1>3. CASE MainPublish
  <2>1. UNCHANGED registrationVars
    BY <1>3 DEF MainPublish, registrationVars
  <2> QED BY <2>1, RegistrationStutter DEF registrationVars
<1>4. CASE MainAccept \/ MainRecvToken \/ MainStartHandler \/ MainAskInfo \/ MainReject
           \/ MainRefusePorts
  <2>1. /\ mpc # "publish" /\ mpc' # "publish"
        /\ UNCHANGED <<storage_server_count, used_ports, StorageServersInfo>>
    BY <1>4 DEF MainAccept, MainRecvToken, MainStartHandler, MainAskInfo, MainReject,
       MainRefusePorts, tableVars
  <2>2. Registration'
    BY <2>1 DEF Registration
  <2> QED BY <2>1, <2>2, RegistrationStutter
<1>5. ASSUME NEW c \in Client, ClientConnect(c) PROVE Registration' /\ PortsUnique'
  <2>1. UNCHANGED registrationVars
    BY <1>5 DEF ClientConnect, registrationVars, tableVars
  <2> QED BY <2>1, RegistrationStutter DEF registrationVars
<1>6. ASSUME NEW s \in Server, ServerStart(s) PROVE Registration' /\ PortsUnique'
  <2>1. UNCHANGED registrationVars
    BY <1>6 DEF ServerStart, registrationVars, tableVars
  <2> QED BY <2>1, RegistrationStutter DEF registrationVars
<1>7. ASSUME NEW c \in Client, Handle(c) PROVE Registration' /\ PortsUnique'
  <2>1. UNCHANGED registrationVars
    BY <1>7, HandleFrame DEF registrationVars, mainVars
  <2> QED BY <2>1, RegistrationStutter DEF registrationVars
<1>8. ASSUME NEW s \in Server, SSListen(s) \/ SSAccept(s) \/ SSServe(s) \/ SSCrash(s)
      PROVE  Registration' /\ PortsUnique'
  <2>1. UNCHANGED registrationVars
    BY <1>8, ServerFrame DEF ServerStep, registrationVars, mainVars, tableVars
  <2> QED BY <2>1, RegistrationStutter DEF registrationVars
<1>9. CASE UNCHANGED vars
  <2>1. UNCHANGED registrationVars
    BY <1>9 DEF vars, registrationVars, mainVars, tableVars
  <2> QED BY <2>1, RegistrationStutter DEF registrationVars
<1> QED BY <1>1, <1>2, <1>3, <1>4, <1>5, <1>6, <1>7, <1>8, <1>9 DEF Next, Main

-----------------------------------------------------------------------------
(* The routes.  A handler keeps the numbers it looked up and writes them   *)
(* back into the table, so they must stay in range all the time.           *)
TargetsInRange ==
  \A c \in Client : \A j \in {1, 2} :
     target[c][j] >= -1 /\ target[c][j] < Len(StorageServersInfo)

RoutesInRange(m, n) == \A p \in DOMAIN m : m[p] >= -1 /\ m[p] < n

LEMMA LookupInRange ==
  ASSUME NEW m, TableType(m), NEW n \in Nat, RoutesInRange(m, n), NEW p
  PROVE  get_value(m, p) >= -1 /\ get_value(m, p) < n
BY DEF get_value, RoutesInRange, TableType

LEMMA SetValueInRange ==
  ASSUME NEW m, TableType(m), NEW n \in Nat, RoutesInRange(m, n), NEW p,
         NEW v \in Int, v >= -1, v < n
  PROVE  RoutesInRange(set_value(m, p, v), n)
BY DEF set_value, RoutesInRange, TableType

LEMMA RemoveEntryInRange ==
  ASSUME NEW m, NEW n \in Nat, RoutesInRange(m, n), NEW dir, NEW stray
  PROVE  RoutesInRange(remove_entry(m, dir, stray), n)
BY DEF remove_entry, RoutesInRange

LEMMA AddPathsInRange ==
  ASSUME NEW m, TableType(m), NEW n \in Nat, RoutesInRange(m, n), NEW dir, NEW found, NEW rank
  PROVE  RoutesInRange(add_paths_to_list(m, dir, found, rank), n)
<1> DEFINE new == {ListedName(dir, q, rank[q]) : q \in found}
<1>1. \A p \in DOMAIN add_paths_to_list(m, dir, found, rank) :
         \/ add_paths_to_list(m, dir, found, rank)[p] = -1
         \/ p \in DOMAIN m /\ add_paths_to_list(m, dir, found, rank)[p] = m[p]
  <2> HIDE DEF ListedName
  <2> QED BY DEF add_paths_to_list
<1> QED BY <1>1 DEF RoutesInRange

(* The table and the numbers looked up, and who is about to use them. *)
Routes ==
  /\ RoutesInRange(accessible_paths, Len(StorageServersInfo))
  /\ TargetsInRange
  /\ \A c \in Client :
        /\ pc[c] \in {"connect", "copyFrom"} => target[c][1] # -1
        /\ pc[c] \in {"copyFrom", "copyFromWait", "copyTo"} => target[c][2] # -1

LEMMA RoutesSuffice == TypeOK /\ Routes => RoutesResolve
<1> SUFFICES ASSUME TypeOK, Routes PROVE RoutesResolve
  OBVIOUS
<1>1. Len(StorageServersInfo) \in Nat
  BY LenProperties DEF TypeOK, TableTypeOK
<1>2. ASSUME NEW c \in Client, NEW j \in {1, 2}, target[c][j] # -1
      PROVE  target[c][j] + 1 \in Slots
  <2>1. target[c][j] \in Int
    BY DEF TypeOK, HandlerTypeOK
  <2>2. target[c][j] >= -1 /\ target[c][j] < Len(StorageServersInfo)
    BY DEF Routes, TargetsInRange
  <2> QED BY <1>1, <1>2, <2>1, <2>2 DEF Slots
<1>3. \A c \in Client :
        /\ pc[c] \in {"connect", "copyFrom"} => target[c][1] + 1 \in Slots
        /\ pc[c] \in {"copyFrom", "copyFromWait", "copyTo"} => target[c][2] + 1 \in Slots
  BY <1>2 DEF Routes
<1> QED BY <1>3 DEF Routes, RoutesInRange, RoutesResolve

(* A step that leaves the routes alone and brings no handler to their use. *)
LEMMA RoutesStutter ==
  ASSUME Routes, UNCHANGED <<accessible_paths, StorageServersInfo, target>>,
         \A c \in Client : \/ pc'[c] = pc[c]
                           \/ pc'[c] \notin {"connect", "copyFrom", "copyFromWait", "copyTo"}
                           \/ pc[c] = "copyFrom" /\ pc'[c] = "copyFromWait"
                           \/ pc[c] = "copyFromWait" /\ pc'[c] = "copyTo"
  PROVE  Routes'
<1>1. RoutesInRange(accessible_paths, Len(StorageServersInfo))' /\ TargetsInRange'
  BY DEF Routes, RoutesInRange, TargetsInRange
<1>2. \A c \in Client :
        /\ pc'[c] \in {"connect", "copyFrom"} => target'[c][1] # -1
        /\ pc'[c] \in {"copyFrom", "copyFromWait", "copyTo"} => target'[c][2] # -1
  BY DEF Routes
<1> QED BY <1>1, <1>2 DEF Routes

LEMMA AnswerRoutes ==
  ASSUME TypeOK, Routes, NEW c \in Client, NEW text, Answer(c, text),
         RoutesInRange(accessible_paths', Len(StorageServersInfo))
  PROVE  Routes'
<1>1. /\ UNCHANGED <<StorageServersInfo, target>>
      /\ pc' = [pc EXCEPT ![c] = "recv"]
  BY DEF Answer
<1>2. \A d \in Client : pc'[d] = pc[d] \/ pc'[d] = "recv"
  BY <1>1 DEF TypeOK, HandlerTypeOK
<1>3. \A d \in Client :
        /\ pc'[d] \in {"connect", "copyFrom"} => target'[d][1] # -1
        /\ pc'[d] \in {"copyFrom", "copyFromWait", "copyTo"} => target'[d][2] # -1
  BY <1>1, <1>2 DEF Routes
<1> QED BY <1>1, <1>3 DEF Routes, TargetsInRange

LEMMA ConnectRoutes ==
  ASSUME TypeOK, Routes, NEW c \in Client, NEW j, NEW next, Connect(c, j, next),
         \/ next \in {"clear", "copyToWait"}
         \/ next = "copyFromWait" /\ pc[c] = "copyFrom"
  PROVE  Routes'
<1>1. CASE NamingServerDies
  BY <1>1, RoutesStutter DEF NamingServerDies, tableVars, handlerVars
<1>2. CASE ~NamingServerDies
  <2>1. /\ pc' = [pc EXCEPT ![c] = next]
        /\ UNCHANGED <<accessible_paths, StorageServersInfo, target>>
    BY <1>2 DEF Connect, tableVars
  <2>2. \A d \in Client : pc'[d] = IF d = c THEN next ELSE pc[d]
    BY <2>1 DEF TypeOK, HandlerTypeOK
  <2> QED BY <2>1, <2>2, RoutesStutter
<1> QED BY <1>1, <1>2

LEMMA CommandRoutes ==
  ASSUME TypeOK, Routes, NEW c \in Client, NEW cmd \in Command,
         HandleBlank(c, cmd) \/ HandleCreateDelete(c, cmd) \/ HandleLocate(c, cmd)
         \/ HandleCopy(c, cmd) \/ HandleInvalid(c, cmd)
  PROVE  Routes'
<1> DEFINE n == Len(StorageServersInfo)
           look(p) == get_value(accessible_paths, p)
<1>0. n \in Nat /\ TableType(accessible_paths)
  <2>1. TableTypeOK
    BY DEF TypeOK
  <2>2. n \in Nat
    BY <2>1, LenProperties DEF TableTypeOK
  <2>3. TableType(accessible_paths)
    BY <2>1, Zenon DEF TableTypeOK
  <2> QED BY <2>2, <2>3
<1>a. \A p : look(p) \in Int /\ look(p) >= -1 /\ look(p) < n
  BY <1>0, LookupInRange, GetValueType DEF Routes
<1>b. /\ pc \in [Client -> HandlerState] /\ target \in [Client -> [{1, 2} -> Int]]
      /\ \A d \in Client : \A j \in {1, 2} : target[d][j] >= -1 /\ target[d][j] < n
  BY DEF TypeOK, HandlerTypeOK, Routes, TargetsInRange
<1> HIDE DEF look
<1>1. CASE HandleBlank(c, cmd)
  BY <1>1, RoutesStutter DEF HandleBlank, NamingServerDies, tableVars, handlerVars
<1>2. CASE HandleCreateDelete(c, cmd)
  <2>1. PICK k : /\ k = look(args'[c][1])
                 /\ target' = [target EXCEPT ![c][1] = k]
                 /\ pc' = [pc EXCEPT ![c] = IF k # -1 THEN "connect" ELSE "recv"]
                 /\ UNCHANGED <<accessible_paths, StorageServersInfo>>
    BY <1>2 DEF HandleCreateDelete, tableVars, look
  <2>2. k \in Int /\ k >= -1 /\ k < n
    BY <1>a, <2>1
  <2>3. /\ \A d \in Client : \A j \in {1, 2} :
              target'[d][j] = IF d = c /\ j = 1 THEN k ELSE target[d][j]
        /\ \A d \in Client :
              pc'[d] = IF d = c THEN (IF k # -1 THEN "connect" ELSE "recv") ELSE pc[d]
    BY <1>b, <2>1
  <2>4. TargetsInRange'
    BY <1>b, <2>1, <2>2, <2>3 DEF TargetsInRange
  <2> QED BY <2>1, <2>3, <2>4 DEF Routes
<1>3. CASE HandleLocate(c, cmd)
  <2>1. PICK k : /\ k = look(args'[c][1])
                 /\ target' = [target EXCEPT ![c][1] = k]
                 /\ UNCHANGED <<pc, accessible_paths, StorageServersInfo>>
    BY <1>3 DEF HandleLocate, tableVars, look
  <2>2. k \in Int /\ k >= -1 /\ k < n
    BY <1>a, <2>1
  <2>3. \A d \in Client : \A j \in {1, 2} :
              target'[d][j] = IF d = c /\ j = 1 THEN k ELSE target[d][j]
    BY <1>b, <2>1
  <2>4. TargetsInRange'
    BY <1>b, <2>1, <2>2, <2>3 DEF TargetsInRange
  <2>5. pc[c] = "recv"
    BY <1>3 DEF HandleLocate, RecvCommand
  <2> QED BY <2>1, <2>3, <2>4, <2>5 DEF Routes
<1>4. CASE HandleCopy(c, cmd)
  <2>1. PICK k, l : /\ k = look(args'[c][1]) /\ l = look(args'[c][2])
                    /\ target' = [target EXCEPT ![c] =
                                     [i \in {1, 2} |-> IF i = 1 THEN k ELSE l]]
                    /\ pc' = [pc EXCEPT ![c] = IF k # -1 /\ l # -1 THEN "copyFrom" ELSE "recv"]
                    /\ UNCHANGED <<accessible_paths, StorageServersInfo>>
    BY <1>4 DEF HandleCopy, tableVars, look
  <2>2. k \in Int /\ k >= -1 /\ k < n /\ l \in Int /\ l >= -1 /\ l < n
    BY <1>a, <2>1
  <2>3. /\ \A d \in Client : \A j \in {1, 2} :
              target'[d][j] = IF d = c THEN (IF j = 1 THEN k ELSE l) ELSE target[d][j]
        /\ \A d \in Client :
              pc'[d] = IF d = c THEN (IF k # -1 /\ l # -1 THEN "copyFrom" ELSE "recv") ELSE pc[d]
    BY <1>b, <2>1
  <2>4. TargetsInRange'
    BY <1>b, <2>1, <2>2, <2>3 DEF TargetsInRange
  <2> QED BY <2>1, <2>3, <2>4 DEF Routes
<1>5. CASE HandleInvalid(c, cmd)
  BY <1>5, RoutesStutter DEF HandleInvalid, tableVars
<1> QED BY <1>1, <1>2, <1>3, <1>4, <1>5

LEMMA WorkRoutes ==
  ASSUME TypeOK, Routes, NEW c \in Client, Work(c)
  PROVE  Routes'
<1> DEFINE n == Len(StorageServersInfo)
           m == accessible_paths
<1>0. n \in Nat /\ TableType(m) /\ RoutesInRange(m, n)
  <2>1. TableTypeOK
    BY DEF TypeOK
  <2>2. n \in Nat
    BY <2>1, LenProperties DEF TableTypeOK
  <2>3. TableType(m)
    BY <2>1, Zenon DEF TableTypeOK
  <2> QED BY <2>2, <2>3 DEF Routes
<1>a. /\ pc \in [Client -> HandlerState] /\ target \in [Client -> [{1, 2} -> Int]]
      /\ \A d \in Client : \A j \in {1, 2} :
            target[d][j] \in Int /\ target[d][j] >= -1 /\ target[d][j] < n
  BY DEF TypeOK, HandlerTypeOK, Routes, TargetsInRange
<1>b. ASSUME NamingServerDies PROVE Routes'
  BY <1>b, RoutesStutter DEF NamingServerDies, tableVars, handlerVars
<1>c. ASSUME NEW next, pc' = [pc EXCEPT ![c] = next],
             UNCHANGED <<accessible_paths, StorageServersInfo, target>>,
             \/ next \notin {"connect", "copyFrom", "copyFromWait", "copyTo"}
             \/ pc[c] = "copyFromWait" /\ next = "copyTo"
      PROVE  Routes'
  <2>1. \A d \in Client : pc'[d] = IF d = c THEN next ELSE pc[d]
    BY <1>a, <1>c
  <2> QED BY <1>c, <2>1, RoutesStutter
<1>1. CASE OpenSocket(c) \/ OpenFrom(c) \/ OpenTo(c)
  BY <1>1, ConnectRoutes DEF OpenSocket, OpenFrom, OpenTo
<1>2. CASE ClearBuffer(c)
  BY <1>b, <1>c, <1>2 DEF ClearBuffer, HandshakeFails, tableVars
<1>3. CASE RecvResult(c)
  BY <1>b, <1>c, <1>3 DEF RecvResult, tableVars
<1>4. CASE CheckResult(c)
  BY <1>c, <1>4 DEF CheckResult, tableVars
<1>5. CASE HandshakeOver(c)
  BY <1>b, <1>c, <1>5 DEF HandshakeOver, HandshakeFails, tableVars
<1>6. CASE FacilitateCopy(c)
  <2>1. CASE NamingServerDies
    BY <1>b, <2>1
  <2>2. CASE Answer(c, "FAIL") /\ UNCHANGED accessible_paths
    BY <1>0, <2>2, AnswerRoutes
  <2>3. CASE ~NamingServerDies /\ ~(Answer(c, "FAIL") /\ UNCHANGED accessible_paths)
    <3>1. /\ pc' = [pc EXCEPT ![c] = "relookup"]
          /\ UNCHANGED <<accessible_paths, StorageServersInfo, target>>
      BY <1>6, <2>3, Zenon DEF FacilitateCopy, tableVars
    <3> QED BY <1>c, <3>1
  <2> QED BY <2>1, <2>2, <2>3
<1>7. CASE CopyRelookup(c)
  <2>1. PICK k : /\ k = get_value(accessible_paths, args[c][2])
                 /\ target' = [target EXCEPT ![c][2] = k]
                 /\ pc' = [pc EXCEPT ![c] = "commitCopy"]
                 /\ UNCHANGED <<accessible_paths, StorageServersInfo>>
    BY <1>7 DEF CopyRelookup, tableVars
  <2>2. k \in Int /\ k >= -1 /\ k < n
    BY <1>0, <2>1, LookupInRange, GetValueType
  <2>3. /\ \A d \in Client : \A j \in {1, 2} :
              target'[d][j] = IF d = c /\ j = 2 THEN k ELSE target[d][j]
        /\ \A d \in Client : pc'[d] = IF d = c THEN "commitCopy" ELSE pc[d]
    BY <1>a, <2>1
  <2>4. TargetsInRange'
    BY <1>a, <2>1, <2>2, <2>3 DEF TargetsInRange
  <2> QED BY <2>1, <2>3, <2>4 DEF Routes
<1>8. CASE CommitCreate(c)
  <2>1. RoutesInRange(set_value(m, Join(args[c][1], args[c][2]), target[c][1]), n)
    BY <1>0, <1>a, SetValueInRange
  <2> QED BY <1>8, <2>1, AnswerRoutes DEF CommitCreate
<1>9. CASE CommitDelete(c)
  <2>1. \A stray : RoutesInRange(remove_entry(m, args[c][1], stray), n)
    BY <1>0, RemoveEntryInRange
  <2> QED BY <1>9, <2>1, AnswerRoutes DEF CommitDelete
<1>10. CASE CommitFail(c)
  BY <1>0, <1>10, AnswerRoutes DEF CommitFail
<1>11. CASE CommitCopyFile(c)
  <2>1. RoutesInRange(set_value(m, Join(args[c][2], Basename(args[c][1])), target[c][2]), n)
    BY <1>0, <1>a, SetValueInRange
  <2> QED BY <1>11, <2>1, AnswerRoutes DEF CommitCopyFile
<1>12. CASE CommitCopyDir(c)
  <2> DEFINE found == get_paths(m, args[c][1])
  <2>1. PICK rank : accessible_paths' = add_paths_to_list(m, args[c][2], found, rank)
    BY <1>12 DEF CommitCopyDir
  <2>2. RoutesInRange(accessible_paths', n)
    BY <1>0, <2>1, AddPathsInRange
  <2> QED BY <1>12, <2>2, AnswerRoutes DEF CommitCopyDir
<1> QED BY <1>1, <1>2, <1>3, <1>4, <1>5, <1>6, <1>7, <1>8, <1>9, <1>10, <1>11, <1>12 DEF Work

LEMMA MainRoutes ==
  ASSUME TypeOK, Registration, Routes, Main
  PROVE  Routes'
<1>0. /\ pc \in [Client -> HandlerState] /\ target \in [Client -> [{1, 2} -> Int]]
      /\ storage_server_count \in Nat /\ StorageServersInfo \in Seq(SlotType)
      /\ Len(StorageServersInfo) \in Nat
  BY LenProperties DEF TypeOK, HandlerTypeOK, MainTypeOK, TableTypeOK
<1>1. CASE MainStartHandler
  <2>1. /\ pc' = [pc EXCEPT ![peer] = "recv"]
        /\ UNCHANGED <<accessible_paths, StorageServersInfo, target>>
    BY <1>1 DEF MainStartHandler, tableVars
  <2>2. \A d \in Client : pc'[d] = pc[d] \/ pc'[d] = "recv"
    BY <1>0, <2>1
  <2> QED BY <2>1, <2>2, RoutesStutter
<1>2. CASE MainReject
  <2>1. /\ pc' = [c \in Client |-> IF c = peer THEN "off" ELSE pc[c]]
        /\ UNCHANGED <<accessible_paths, StorageServersInfo, target>>
    BY <1>2 DEF MainReject, tableVars
  <2>2. \A d \in Client : pc'[d] = pc[d] \/ pc'[d] = "off"
    BY <2>1
  <2> QED BY <2>1, <2>2, RoutesStutter
<1>3. CASE MainStoreInfo
  <2>1. PICK info : StorageServersInfo' = Append(StorageServersInfo, info)
    BY <1>3 DEF MainStoreInfo
  <2>2. Len(StorageServersInfo') = Len(StorageServersInfo) + 1
    BY <1>0, <2>1, AppendProperties
  <2>3. UNCHANGED <<pc, accessible_paths, target>>
    BY <1>3 DEF MainStoreInfo, handlerVars
  <2>4. TargetsInRange'
    <3>1. \A c \in Client : \A j \in {1, 2} :
            target[c][j] \in Int /\ target[c][j] >= -1 /\ target[c][j] < Len(StorageServersInfo)
      BY <1>0 DEF Routes, TargetsInRange
    <3> QED BY <1>0, <2>2, <2>3, <3>1 DEF TargetsInRange
  <2>5. RoutesInRange(accessible_paths, Len(StorageServersInfo'))
    <3>1. TableTypeOK
      BY DEF TypeOK
    <3>2. TableType(accessible_paths)
      BY <3>1, Zenon DEF TableTypeOK
    <3>3. \A p \in DOMAIN accessible_paths : accessible_paths[p] \in Int
      BY <3>2 DEF TableType
    <3> QED BY <1>0, <2>2, <3>3 DEF Routes, RoutesInRange
  <2> QED BY <2>3, <2>4, <2>5 DEF Routes
<1>4. CASE MainPublish
  <2>1. /\ \E p : accessible_paths' = set_value(accessible_paths, p, storage_server_count)
        /\ UNCHANGED <<StorageServersInfo, pc, target>>
    BY <1>4 DEF MainPublish, handlerVars
  <2>2. Len(StorageServersInfo) = storage_server_count + 1
    BY <1>4 DEF MainPublish, Registration
  <2>3. RoutesInRange(accessible_paths', Len(StorageServersInfo))
    <3>1. TableTypeOK
      BY DEF TypeOK
    <3>2. TableType(accessible_paths)
      BY <3>1, Zenon DEF TableTypeOK
    <3>3. /\ storage_server_count \in Int /\ storage_server_count >= -1
          /\ storage_server_count < Len(StorageServersInfo)
      BY <1>0, <2>2
    <3>4. RoutesInRange(accessible_paths, Len(StorageServersInfo))
      BY DEF Routes
    <3> QED BY <1>0, <2>1, <3>2, <3>3, <3>4, SetValueInRange
  <2> QED BY <2>1, <2>3 DEF Routes, TargetsInRange
<1>5. CASE MainAccept \/ MainRecvToken \/ MainAskInfo \/ MainRefusePorts \/ MainRegister
  <2>1. UNCHANGED <<accessible_paths, StorageServersInfo, target, pc>>
    BY <1>5 DEF MainAccept, MainRecvToken, MainAskInfo, MainRefusePorts, MainRegister,
       tableVars, handlerVars
  <2> QED BY <2>1, RoutesStutter
<1> QED BY <1>1, <1>2, <1>3, <1>4, <1>5 DEF Main

LEMMA NextRoutes ==
  ASSUME TypeOK, Registration, Routes, [Next]_vars
  PROVE  Routes'
<1>1. CASE Main
  BY <1>1, MainRoutes
<1>2. ASSUME NEW c \in Client, ClientConnect(c) PROVE Routes'
  <2>1. /\ pc' = [pc EXCEPT ![c] = "connecting"]
        /\ UNCHANGED <<accessible_paths, StorageServersInfo, target>>
    BY <1>2 DEF ClientConnect, tableVars
  <2>2. \A d \in Client : pc'[d] = pc[d] \/ pc'[d] = "connecting"
    BY <2>1 DEF TypeOK, HandlerTypeOK
  <2> QED BY <2>1, <2>2, RoutesStutter
<1>3. ASSUME NEW s \in Server, ServerStart(s) PROVE Routes'
  BY <1>3, RoutesStutter DEF ServerStart, tableVars, handlerVars
<1>4. ASSUME NEW c \in Client, Handle(c) PROVE Routes'
  <2>1. CASE Work(c)
    BY <2>1, WorkRoutes
  <2>2. CASE ~Work(c)
    <3>1. PICK cmd \in Command :
            HandleBlank(c, cmd) \/ HandleCreateDelete(c, cmd) \/ HandleLocate(c, cmd)
            \/ HandleCopy(c, cmd) \/ HandleInvalid(c, cmd)
      BY <1>4, <2>2 DEF Handle, Work
    <3> QED BY <3>1, CommandRoutes
  <2> QED BY <2>1, <2>2
<1>5. ASSUME NEW s \in Server, SSListen(s) \/ SSAccept(s) \/ SSServe(s) \/ SSCrash(s)
      PROVE  Routes'
  <2>1. UNCHANGED <<accessible_paths, StorageServersInfo, target, pc>>
    BY <1>5, ServerFrame DEF ServerStep, tableVars
  <2> QED BY <2>1, RoutesStutter
<1>6. CASE UNCHANGED vars
  BY <1>6, RoutesStutter DEF vars, tableVars, handlerVars
<1> QED BY <1>1, <1>2, <1>3, <1>4, <1>5, <1>6 DEF Next

-----------------------------------------------------------------------------
(* The inductive invariant: types, the main thread's view of its peer, the *)
(* bookkeeping of ports and slots, and the routes.  Each part needs others *)
(* (the port a client is sent is a number because its route resolves, a    *)
(* published route resolves because the slot was stored first).            *)
Inv == TypeOK /\ PeerIsWhatItSaid /\ Registration /\ PortsUnique /\ Routes

LEMMA InvInit == Init => Inv
<1> SUFFICES ASSUME Init PROVE Inv
  OBVIOUS
<1>1. TypeOK
  BY InitType
<1>2. PeerIsWhatItSaid
  BY DEF Init, PeerIsWhatItSaid
<1>3. Registration
  <2>1. mpc = "accept" /\ used_ports = <<NAMING_SERVER_PORT>> /\ StorageServersInfo = << >>
        /\ storage_server_count = 0
    BY DEF Init
  <2> QED BY <2>1 DEF Registration
<1>4. PortsUnique
  <2>1. Len(StorageServersInfo) = 0
    BY DEF Init
  <2>2. Slots = {}
    BY <2>1 DEF Slots
  <2> QED BY <2>2 DEF PortsUnique
<1>5. Routes
  <2>1. RoutesInRange(accessible_paths, Len(StorageServersInfo))
    BY DEF Init, RoutesInRange, EmptyTable
  <2>2. TargetsInRange
    <3>1. \A c \in Client : \A j \in {1, 2} : target[c][j] = -1
      BY DEF Init
    <3>2. Len(StorageServersInfo) = 0
      BY DEF Init
    <3> QED BY <3>1, <3>2 DEF TargetsInRange
  <2>3. \A c \in Client : pc[c] = "off"
    BY DEF Init
  <2> QED BY <2>1, <2>2, <2>3 DEF Routes
<1> QED BY <1>1, <1>2, <1>3, <1>4, <1>5 DEF Inv

LEMMA InvNext == Inv /\ [Next]_vars => Inv'
<1> SUFFICES ASSUME Inv, [Next]_vars PROVE Inv'
  OBVIOUS
<1>1. TypeOK /\ PeerIsWhatItSaid /\ Registration /\ PortsUnique /\ Routes
  BY DEF Inv
<1>2. TypeOK' /\ PeerIsWhatItSaid'
  BY <1>1, RoutesSuffice, NextType
<1>3. Registration' /\ PortsUnique'
  BY <1>1, NextRegisters
<1>4. Routes'
  BY <1>1, NextRoutes
<1> QED BY <1>2, <1>3, <1>4 DEF Inv

LEMMA InvAlways == Spec => []Inv
BY InvInit, InvNext, PTL DEF Spec

(* Every variable of main, client_handler and the storage servers keeps    *)
(* its type: in particular slot never passes MAX_ACC_PATHS, the port sent  *)
(* with FOUND is the port of a slot, and ReplyType holds what              *)
(* printOutput knows how to print.                                         *)
THEOREM TypeCorrect == Spec => []TypeOK
<1>1. Inv => TypeOK
  BY DEF Inv
<1> QED BY <1>1, InvAlways, PTL

(* The scan of used_ports in main keeps the ports of the slots apart, from *)
(* each other and from NAMING_SERVER_PORT, for any number of servers and   *)
(* any interleaving with the handlers.                                     *)
THEOREM PortsAreUnique == Spec => []PortsUnique
<1>1. Inv => PortsUnique
  BY DEF Inv
<1> QED BY <1>1, InvAlways, PTL

(* No handler indexes StorageServersInfo outside the slots main has        *)
(* written: neither through the table nor through a number it looked up    *)
(* before another thread changed the table.                                *)
THEOREM RoutesAlwaysResolve == Spec => []RoutesResolve
<1>1. Inv => RoutesResolve
  BY RoutesSuffice DEF Inv
<1> QED BY <1>1, InvAlways, PTL

=============================================================================
