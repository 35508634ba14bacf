--------------------------- MODULE Session_proofs ---------------------------
(***************************************************************************)
(* One client: its handler acts on its own answers, and the directory is   *)
(* exact between its commands, for all servers that keep apart.            *)
(*                                                                         *)
(* With one client, and every server registered before it comes, main has  *)
(* nobody to talk to while the handler works, and the handler is the only  *)
(* one to write the buffer and the table.  SessionMirror is inductive on   *)
(* top of that and of the invariants of Connections_proofs.                *)
(***************************************************************************)
EXTENDS Session, Connections_proofs

-----------------------------------------------------------------------------
(* The answer a handler acts on.                                           *)

(* Once the only client has its handler and no server waits, main has      *)
(* nobody to talk to.                                                      *)
LEMMA MainIdle ==
  ASSUME ConnInv, NEW c \in Client, Client = {c}, Handling(pc[c]),
         \A s \in Server : ss[s] # "connecting"
  PROVE  incoming = << >> /\ mpc = "accept"
<1>1. incoming \in Seq(Client \cup Server) /\ peer \in Client \cup Server \cup {Nobody}
  BY DEF ConnInv, Inv, TypeOK, MainTypeOK
<1>2. pc[c] # "connecting"
  BY DEF Handling
<1>3. ASSUME NEW i \in 1..Len(incoming) PROVE FALSE
  <2>1. incoming[i] \in Client \cup Server
    BY <1>1, <1>3, ElementOfSeq
  <2> QED BY <1>2, <2>1 DEF ConnInv, Arrivals, Queued
<1>4. incoming = << >>
  <2>1. Len(incoming) \in Nat
    BY <1>1, LenProperties
  <2>2. Len(incoming) = 0
    BY <1>3, <2>1
  <2> QED BY <1>1, <2>2, EmptySeq
<1>5. mpc = "accept"
  <2> SUFFICES ASSUME mpc # "accept" PROVE FALSE
    OBVIOUS
  <2>1. peer \in Client
    <3>1. peer \in Client \cup Server
      BY DEF ConnInv, Inv, TypeOK, MainTypeOK, PeerIsWhatItSaid
    <3> QED BY <3>1 DEF ConnInv, Queued
  <2>2. Arriving
    BY <2>1, ProcessAssumption DEF ConnInv, Inv, TypeOK, MainTypeOK, PeerIsWhatItSaid, Arriving
  <2> QED BY <1>2, <2>1, <2>2 DEF ConnInv, Arrivals
<1> QED BY <1>4, <1>5

(* What is in the buffer of all while a handler waits for its answer, and  *)
(* what it made of it.                                                     *)
OwnBuffer(c) ==
  /\ pc[c] = "result" => naming_server_gets = ""
  /\ pc[c] = "check" =>
        /\ sock[c][1] \in {"ACK", "FAIL", "dead"}
        /\ naming_server_gets = IF sock[c][1] = "dead" THEN "" ELSE sock[c][1]
  /\ pc[c] = "commit" => (result[c] = 1 <=> sock[c][1] = "ACK")

LEMMA OwnStutter ==
  ASSUME NEW c \in Client, OwnBuffer(c), pc'[c] = pc[c],
         UNCHANGED <<naming_server_gets, result>>,
         pc[c] \in {"check", "commit"} => sock'[c][1] = sock[c][1]
  PROVE  OwnBuffer(c)'
  BY DEF OwnBuffer

LEMMA OwnElsewhere ==
  ASSUME NEW c \in Client, pc'[c] \notin {"result", "check", "commit"}
  PROVE  OwnBuffer(c)'
  BY DEF OwnBuffer

LEMMA HandleOwn ==
  ASSUME TypeOK, NEW c \in Client, OwnBuffer(c), Handle(c)
  PROVE  OwnBuffer(c)'
<1>0. /\ pc \in [Client -> HandlerState] /\ sock \in [Client -> [{1, 2} -> SocketState]]
      /\ result \in [Client -> 0..2]
  BY DEF TypeOK, HandlerTypeOK
<1>1. CASE NamingServerDies
  BY <1>1, OwnStutter DEF NamingServerDies, handlerVars
<1>2. ASSUME NEW cmd \in Command,
             HandleCreateDelete(c, cmd) \/ HandleLocate(c, cmd) \/ HandleCopy(c, cmd)
             \/ HandleInvalid(c, cmd)
      PROVE  OwnBuffer(c)'
  <2>1. pc[c] = "recv"
    BY <1>2 DEF HandleCreateDelete, HandleLocate, HandleCopy, HandleInvalid, RecvCommand
  <2>2. pc'[c] \in {"recv", "connect", "copyFrom"}
    BY <1>0, <1>2, <2>1 DEF HandleCreateDelete, HandleLocate, HandleCopy, HandleInvalid
  <2> QED BY <2>2, OwnElsewhere
<1>3. CASE ClearBuffer(c) /\ ~NamingServerDies
  <2>1. pc'[c] = "result" /\ naming_server_gets' = ""
    BY <1>0, <1>3 DEF ClearBuffer, HandshakeFails
  <2> QED BY <2>1 DEF OwnBuffer
<1>4. CASE RecvResult(c) /\ ~NamingServerDies
  <2>1. /\ pc[c] = "result" /\ pc'[c] = "check" /\ sock[c][1] \in {"ACK", "FAIL", "dead"}
        /\ sock' = sock
        /\ naming_server_gets' =
              IF sock[c][1] = "dead" THEN naming_server_gets ELSE sock[c][1]
    BY <1>0, <1>4 DEF RecvResult
  <2> QED BY <2>1 DEF OwnBuffer
<1>5. CASE CheckResult(c)
  <2>1. /\ pc[c] = "check" /\ pc'[c] = "commit" /\ sock' = sock
        /\ result'[c] = IF naming_server_gets = "ACK" THEN 1 ELSE 0
    BY <1>0, <1>5 DEF CheckResult
  <2>2. naming_server_gets = "ACK" <=> sock[c][1] = "ACK"
    <3>1. /\ sock[c][1] \in {"ACK", "FAIL", "dead"}
          /\ naming_server_gets = IF sock[c][1] = "dead" THEN "" ELSE sock[c][1]
      BY <2>1 DEF OwnBuffer
    <3> QED BY <3>1
  <2>3. result'[c] = 1 <=> sock'[c][1] = "ACK"
    BY <2>1, <2>2
  <2> QED BY <2>1, <2>3 DEF OwnBuffer
<1>6. CASE (OpenSocket(c) \/ OpenFrom(c) \/ OpenTo(c)) /\ ~NamingServerDies
  <2>1. pc'[c] \in {"clear", "copyFromWait", "copyToWait"}
    BY <1>0, <1>6 DEF OpenSocket, OpenFrom, OpenTo, Connect
  <2> QED BY <2>1, OwnElsewhere
<1>7. CASE HandshakeOver(c) /\ ~NamingServerDies
  <2>1. pc'[c] \in {"copyTo", "copying"}
    BY <1>0, <1>7 DEF HandshakeOver, HandshakeFails
  <2> QED BY <2>1, OwnElsewhere
<1>8. CASE \/ CommitCreate(c) \/ CommitDelete(c) \/ CommitFail(c)
           \/ CommitCopyFile(c) \/ CommitCopyDir(c)
  <2>1. \E text : Answer(c, text)
    BY <1>8, Zenon DEF CommitCreate, CommitDelete, CommitFail, CommitCopyFile, CommitCopyDir
  <2>2. pc'[c] = "recv"
    BY <1>0, <2>1 DEF Answer
  <2> QED BY <2>2, OwnElsewhere
<1>9. CASE (FacilitateCopy(c) \/ CopyRelookup(c)) /\ ~NamingServerDies
  <2>1. pc'[c] \in {"relookup", "recv", "commitCopy"}
    BY <1>0, <1>9 DEF FacilitateCopy, CopyRelookup, Answer
  <2> QED BY <2>1, OwnElsewhere
<1>10. ASSUME NEW cmd \in Command, HandleBlank(c, cmd) PROVE NamingServerDies
  BY <1>10 DEF HandleBlank
<1> QED BY <1>1, <1>2, <1>3, <1>4, <1>5, <1>6, <1>7, <1>8, <1>9, <1>10 DEF Handle

(* A storage server is done with a connection whose handler acts on it. *)
LEMMA PortOwn ==
  ASSUME ConnInv, NEW c \in Client, OwnBuffer(c), NEW s \in Server,
         SSListen(s) \/ SSAccept(s) \/ SSServe(s) \/ SSCrash(s)
  PROVE  OwnBuffer(c)'
<1>1. TypeOK /\ Sockets /\ Agree /\ sock \in [Client -> [{1, 2} -> SocketState]]
      /\ backlog \in [Server -> Seq(Conn)]
  BY DEF ConnInv, Inv, TypeOK, HandlerTypeOK, ServerTypeOK
<1>2. UNCHANGED <<pc, naming_server_gets, result>>
  BY <1>1, ServerFrame DEF ServerStep
<1>3. ASSUME pc[c] \in {"check", "commit"} PROVE sock'[c][1] = sock[c][1]
  <2>1. pc[c] # "copying" /\ ~Underway(s, c, 1)
    BY <1>1, <1>3, UnderBusy DEF Sockets, UsesFirst
  <2>2. PortStep(s)
    BY <1>1, ServerPort
  <2>3. CASE Accepts(s)
    <3>1. PICK h, n : h = Head(backlog[s]) /\ n = Len(backlog[s])
      OBVIOUS
    <3>2. backlog[s] \in Seq(Conn) /\ backlog[s] # << >>
      BY <1>1, <2>3 DEF Accepts
    <3>3. n \in Nat /\ n > 0 /\ h = backlog[s][1] /\ h \in Conn
      BY <3>1, <3>2, EmptySeq, LenProperties, HeadTailProperties, ElementOfSeq
    <3>4. h # <<c, 1>>
      BY <2>1, <3>1, <3>3 DEF Underway, Waits
    <3>5. PICK d \in Client, i \in {1, 2} : h = <<d, i>>
      BY <3>3 DEF Conn
    <3>6. sock' = [sock EXCEPT ![d][i] = "open"]
      <4>1. sock' = [sock EXCEPT ![h[1]][h[2]] = "open"]
        BY <2>3, <3>1 DEF Accepts
      <4>2. h[1] = d /\ h[2] = i
        BY <3>5
      <4> QED BY <4>1, <4>2
    <3> QED BY <1>1, <3>4, <3>5, <3>6
  <2>4. CASE GoesDown(s)
    BY <2>1, <2>4 DEF GoesDown, Underway, Waits
  <2>5. ASSUME NEW d \in Client, NEW j \in {1, 2}, Ends(s, d, j)
        PROVE  sock'[c][1] = sock[c][1]
    BY <2>1, <2>5 DEF Ends, Underway
  <2> QED BY <2>2, <2>3, <2>4, <2>5 DEF PortStep
<1> QED BY <1>2, <1>3, OwnStutter

SessionInv == ConnInv /\ \A c \in Client : OwnBuffer(c)

LEMMA SessionInit == Init => SessionInv
<1> SUFFICES ASSUME Init PROVE SessionInv
  OBVIOUS
<1>1. \A c \in Client : OwnBuffer(c)
  BY DEF Init, OwnBuffer
<1> QED BY <1>1, ConnInit DEF SessionInv

LEMMA SessionNext ==
  ASSUME NEW x, Client = {x}, SessionInv, [Next /\ ServersFirst]_vars
  PROVE  SessionInv'
<1>0. /\ ConnInv /\ [Next]_vars /\ x \in Client /\ OwnBuffer(x) /\ TypeOK
      /\ pc \in [Client -> HandlerState]
  BY DEF SessionInv, ConnInv, Inv, TypeOK, HandlerTypeOK
<1>1. ConnInv'
  BY <1>0, ConnNext
<1>2. ASSUME pc'[x] \notin {"result", "check", "commit"} PROVE OwnBuffer(x)'
  BY <1>0, <1>2, OwnElsewhere
<1>3. ASSUME UNCHANGED vars PROVE OwnBuffer(x)'
  BY <1>0, <1>3, OwnStutter DEF vars, handlerVars
<1>4. ASSUME Main, pc'[x] \in {"result", "check", "commit"}, ServersFirst PROVE OwnBuffer(x)'
  <2>1. \A s \in Server : ss[s] # "connecting"
    BY <1>0, <1>4 DEF ServersFirst
  <2>2. Handling(pc[x]) /\ mpc \notin {"dispatch"}
    <3>1. pc[x] \in {"result", "check", "commit"}
      <4>1. CASE MainStartHandler
        BY <1>0, <1>4, <4>1 DEF MainStartHandler
      <4>2. CASE MainReject
        BY <1>0, <1>4, <4>2 DEF MainReject
      <4>3. CASE ~MainStartHandler /\ ~MainReject
        BY <1>4, <4>3 DEF Main, MainAccept, MainRecvToken, MainAskInfo, MainRefusePorts,
           MainStoreInfo, MainPublish, MainRegister, handlerVars
      <4> QED BY <4>1, <4>2, <4>3
    <3>2. Handling(pc[x])
      BY <3>1 DEF Handling
    <3> QED BY <1>0, <2>1, <3>2, MainIdle
  <2>3. incoming = << >> /\ mpc = "accept"
    BY <1>0, <2>1, <2>2, MainIdle
  <2> QED BY <1>4, <2>3 DEF Main, MainAccept, MainRecvToken, MainStartHandler, MainAskInfo,
          MainReject, MainRefusePorts, MainStoreInfo, MainPublish, MainRegister
<1>5. ASSUME NEW c \in Client, ClientConnect(c) PROVE OwnBuffer(x)'
  BY <1>0, <1>5, OwnElsewhere DEF ClientConnect
<1>6. ASSUME NEW c \in Client, Handle(c) PROVE OwnBuffer(x)'
  BY <1>0, <1>6, HandleOwn
<1>7. ASSUME NEW s \in Server, ServerStart(s) PROVE OwnBuffer(x)'
  BY <1>0, <1>7, OwnStutter DEF ServerStart, handlerVars
<1>8. ASSUME NEW s \in Server, SSListen(s) \/ SSAccept(s) \/ SSServe(s) \/ SSCrash(s)
      PROVE  OwnBuffer(x)'
  BY <1>0, <1>8, PortOwn
<1>9. OwnBuffer(x)'
  BY <1>2, <1>3, <1>4, <1>5, <1>6, <1>7, <1>8 DEF Next
<1> QED BY <1>1, <1>9 DEF SessionInv

(* With one client, and every server registered before it comes, a handler *)
(* acts on the answer of its own storage server: nobody else is left to    *)
(* write the buffer it passes through, however servers crash.              *)
(* bad_own_result is the case of a second client.                          *)
THEOREM ResultIsOwn ==
  ASSUME NEW x, Client = {x}
  PROVE  SessionSpec => []OwnResult
<1>1. Init => SessionInv
  BY SessionInit
<1>2. SessionInv /\ [Next /\ ServersFirst]_vars => SessionInv'
  BY SessionNext
<1>3. SessionInv => OwnResult
  BY DEF SessionInv, OwnBuffer, OwnResult
<1> QED BY <1>1, <1>2, <1>3, PTL DEF SessionSpec

-----------------------------------------------------------------------------
(* The paths of servers that keep apart. *)

LEMMA StringsOf ==
  /\ \A s \in Server : \A e \in Exports(s) : e \in Str /\ e # Empty
  /\ \A cmd \in Command : \A i \in 1..Len(cmd.args) : cmd.args[i] \in Str
  /\ Empty \in Str
<1>1. ASSUME NEW s \in Server, NEW e \in Exports(s) PROVE e \in Str /\ e # Empty
  <2>1. Export[s] \in Seq(Str)
    BY ProcessAssumption
  <2> QED BY <1>1, <2>1, ElementOfSeq DEF Exports
<1>2. ASSUME NEW cmd \in Command, NEW i \in 1..Len(cmd.args) PROVE cmd.args[i] \in Str
  <2>1. cmd.args \in Seq(Str)
    BY ProcessAssumption
  <2> QED BY <1>2, <2>1, ElementOfSeq
<1>3. Empty \in Str
  BY DEF Empty, Str
<1> QED BY <1>1, <1>2, <1>3

LEMMA RootCopyType ==
  ASSUME PlainCommands, NEW cmd \in Command, cmd.verb = "COPY"
  PROVE  RootCopy(cmd) \in Str /\ cmd.args[1] \in Str
<1>1. Len(cmd.args) \in Nat
  BY ProcessAssumption, LenProperties
<1>2. 1 \in 1..Len(cmd.args)
  BY <1>1 DEF PlainCommands
<1>3. cmd.args[1] \in Str /\ Empty \in Str
  BY <1>2, StringsOf
<1>4. Basename(cmd.args[1]) \in Str
  BY <1>3, BasenameType
<1> QED BY <1>3, <1>4, JoinType DEF RootCopy

(* What belongs to a server takes all below it along. *)
LEMMA BelongsUnder ==
  ASSUME PlainCommands, NEW s \in Server, NEW r, NEW p \in Str, NEW q \in Str,
         Belongs(s, p, r), Under(q, p), q # Empty
  PROVE  Belongs(s, q, r)
<1>1. CASE InTree(s, p)
  <2>1. PICK e \in Exports(s) : Under(p, e)
    BY <1>1 DEF InTree
  <2>2. Under(q, e)
    BY <2>1, StringsOf, UnderTrans
  <2> QED BY <2>2 DEF InTree, Belongs
<1>2. CASE AtRoot(p) /\ s = r
  <2>1. PICK cmd \in Command :
          cmd.verb = "COPY" /\ Len(cmd.args) = 1 /\ Under(p, RootCopy(cmd))
    BY <1>2 DEF AtRoot
  <2>2. Under(q, RootCopy(cmd))
    BY <2>1, RootCopyType, UnderTrans
  <2> QED BY <1>2, <2>1, <2>2 DEF AtRoot, Belongs
<1> QED BY <1>1, <1>2 DEF Belongs

(* No path belongs to two. *)
LEMMA BelongsOnce ==
  ASSUME ServersApart, PlainCommands, NEW s \in Server, NEW t \in Server, NEW r,
         NEW p \in Str, Belongs(s, p, r), Belongs(t, p, r)
  PROVE  s = t
<1>1. ASSUME NEW u \in Server, InTree(u, p), AtRoot(p) PROVE FALSE
  <2>1. PICK e \in Exports(u) : Under(p, e)
    BY <1>1 DEF InTree
  <2>2. PICK cmd \in Command :
          cmd.verb = "COPY" /\ Len(cmd.args) = 1 /\ Under(p, RootCopy(cmd))
    BY <1>1 DEF AtRoot
  <2>3. Under(e, RootCopy(cmd)) \/ Under(RootCopy(cmd), e)
    BY <2>1, <2>2, RootCopyType, StringsOf, UnderBoth
  <2> QED BY <2>1, <2>2, <2>3 DEF PlainCommands
<1>2. CASE InTree(s, p) /\ InTree(t, p)
  <2>1. PICK e \in Exports(s) : Under(p, e)
    BY <1>2 DEF InTree
  <2>2. PICK f \in Exports(t) : Under(p, f)
    BY <1>2 DEF InTree
  <2>3. Under(e, f) \/ Under(f, e)
    BY <2>1, <2>2, StringsOf, UnderBoth
  <2> QED BY <2>1, <2>2, <2>3 DEF ServersApart
<1> QED BY <1>1, <1>2 DEF Belongs

-----------------------------------------------------------------------------
(* Slots and routes. *)

LEMMA SlotsAre ==
  ASSUME ConnInv
  PROVE  (\A k \in Slots : SlotServer(k) \in Server) /\ Slots \subseteq Int
  BY DEF ConnInv, Owners, SlotServer, Slots

(* Servers that always start with the same ports have one slot each. *)
LEMMA SlotOnce ==
  ASSUME ServersApart, ConnInv, NEW k \in Slots, NEW l \in Slots, SlotServer(k) = SlotServer(l)
  PROVE  k = l
<1>1. PICK s \in Server : s = SlotServer(k) /\ s = SlotServer(l)
  BY SlotsAre
<1>2. PortPair(StorageServersInfo[k]) \in Ports[s] /\ PortPair(StorageServersInfo[l]) \in Ports[s]
  BY <1>1 DEF ConnInv, Owners, SlotServer
<1>3. PortPair(StorageServersInfo[k]) = PortPair(StorageServersInfo[l])
  BY <1>2 DEF ServersApart
<1>4. StorageServersInfo[k].naming_port = StorageServersInfo[l].naming_port
  BY <1>3 DEF PortPair
<1>5. StorageServersInfo[k].naming_port \in PortsOf(k) \cap PortsOf(l)
  BY <1>4 DEF PortsOf
<1> QED BY <1>5 DEF ConnInv, Inv, PortsUnique

LEMMA SetRoutes ==
  ASSUME NEW p, NEW v \in Int, accessible_paths' = set_value(accessible_paths, p, v)
  PROVE  \A k \in Int : RoutesTo(k)' = IF v = k - 1 THEN RoutesTo(k) \cup ({p} \ {Empty})
                                       ELSE RoutesTo(k) \ {p}
<1>1. /\ DOMAIN accessible_paths' = DOMAIN accessible_paths \cup {p}
      /\ \A q \in DOMAIN accessible_paths' :
            accessible_paths'[q] = IF q = p THEN v ELSE accessible_paths[q]
  BY DEF set_value
<1> QED BY <1>1 DEF RoutesTo

LEMMA RemoveRoutes ==
  ASSUME NEW dir, NEW stray, accessible_paths' = remove_entry(accessible_paths, dir, stray)
  PROVE  \A k : RoutesTo(k)' = {q \in RoutesTo(k) : ~Under(q, dir)}
<1>1. /\ DOMAIN accessible_paths' =
            {q \in DOMAIN accessible_paths : ~Under(q, dir) /\ ~(stray /\ q = Empty)}
      /\ \A q \in DOMAIN accessible_paths' : accessible_paths'[q] = accessible_paths[q]
  BY DEF remove_entry
<1> QED BY <1>1 DEF RoutesTo

LEMMA SameRoutes ==
  ASSUME UNCHANGED <<accessible_paths, StorageServersInfo>>
  PROVE  /\ \A k : RoutesTo(k)' = RoutesTo(k)
         /\ \A k : SlotServer(k)' = SlotServer(k)
         /\ Slots' = Slots
  BY DEF RoutesTo, SlotServer, Slots

(* A path looked up and not Empty is a route of the slot it was found at. *)
LEMMA LookedUp ==
  ASSUME ConnInv, NEW p, NEW v, v = get_value(accessible_paths, p), v # -1
  PROVE  /\ v + 1 \in Slots /\ p \in DOMAIN accessible_paths /\ accessible_paths[p] = v
         /\ p # Empty => p \in RoutesTo(v + 1)
<1>1. p \in DOMAIN accessible_paths /\ accessible_paths[p] = v
  BY DEF get_value
<1>2. v \in Int /\ v >= -1 /\ v < Len(StorageServersInfo) /\ Len(StorageServersInfo) \in Nat
  <2>1. RoutesResolve /\ TypeOK
    BY RoutesSuffice DEF ConnInv, Inv
  <2>2. Len(StorageServersInfo) \in Nat /\ TableType(accessible_paths)
    BY <2>1, LenProperties DEF TypeOK, TableTypeOK
  <2> QED BY <1>1, <2>1, <2>2 DEF RoutesResolve, TableType
<1>3. v + 1 \in Slots /\ v = (v + 1) - 1
  BY <1>2 DEF Slots
<1> QED BY <1>1, <1>3 DEF RoutesTo

-----------------------------------------------------------------------------
(* What leaves the mirror as it is. *)

LEMMA HandlerTypes ==
  ASSUME ConnInv
  PROVE  /\ TypeOK
         /\ pc \in [Client -> HandlerState] /\ verb \in [Client -> Verb]
         /\ args \in [Client -> [{1, 2} -> Str]] /\ no_args \in [Client -> Nat]
         /\ target \in [Client -> [{1, 2} -> Int]]
         /\ sock \in [Client -> [{1, 2} -> SocketState]] /\ result \in [Client -> 0..2]
         /\ shipment \in [Client -> Shipment] /\ DOMAIN disk = Server
         /\ \A s \in Server : DOMAIN disk[s] \subseteq Str
  BY DEF ConnInv, Inv, TypeOK, HandlerTypeOK, ServerTypeOK

LEMMA PlacedStutter ==
  ASSUME Placed, UNCHANGED <<disk, StorageServersInfo>>,
         Empty \in DOMAIN accessible_paths' =>
            Empty \in DOMAIN accessible_paths /\ accessible_paths'[Empty] = accessible_paths[Empty]
  PROVE  Placed'
  BY DEF Placed, PlacedAt, SlotServer, Slots

LEMMA KindsStutter == ASSUME Kinds, UNCHANGED disk PROVE Kinds'
  BY DEF Kinds

(* No command is pending, before and after. *)
LEMMA StillIdle ==
  ASSUME NEW c \in Client, Mirrored(c), ~Pending(c), ~Pending(c)',
         UNCHANGED <<accessible_paths, StorageServersInfo, disk>>
  PROVE  Mirrored(c)'
<1>1. \A k \in Slots : Expected(c, k) = RoutesTo(k)
  BY DEF Expected, Pending
<1>2. \A k : Expected(c, k)' = RoutesTo(k)'
  BY DEF Expected, Pending
<1>3. /\ \A k : RoutesTo(k)' = RoutesTo(k) /\ SlotServer(k)' = SlotServer(k)
      /\ Slots' = Slots /\ disk' = disk
  BY SameRoutes
<1> QED BY <1>1, <1>2, <1>3 DEF Mirrored

(* The same is pending. *)
LEMMA StillPending ==
  ASSUME NEW c \in Client, Mirrored(c), args'[c] = args[c],
         \A j \in {1, 2} : target'[c][j] = target[c][j],
         Created(c)' <=> Created(c), Deleted(c)' <=> Deleted(c), Copied(c)' <=> Copied(c),
         UNCHANGED <<accessible_paths, StorageServersInfo, disk>>
  PROVE  Mirrored(c)'
<1>1. /\ \A k : RoutesTo(k)' = RoutesTo(k) /\ SlotServer(k)' = SlotServer(k)
      /\ Slots' = Slots /\ disk' = disk
  BY SameRoutes
<1>2. Copy(c)' = Copy(c)
  BY DEF Copy
<1>3. \A k : Expected(c, k)' = Expected(c, k)
  BY <1>1, <1>2 DEF Expected
<1> QED BY <1>1, <1>3 DEF Mirrored

(* Only sockets change, and none to or from an ACK. *)
LEMMA SettledStutter ==
  ASSUME NEW c \in Client, Settled(c),
         UNCHANGED <<mpc, pc, verb, args, no_args, target, result, accessible_paths,
                     StorageServersInfo, disk, shipment>>,
         \A j \in {1, 2} : sock'[c][j] = "ACK" <=> sock[c][j] = "ACK",
         pc[c] \in Copying /\ pc[c] # "copyFrom" => sock'[c][1] \in {"queued", "open", "ACK"}
  PROVE  Settled(c)'
<1>1. (Created(c)' <=> Created(c)) /\ (Deleted(c)' <=> Deleted(c)) /\ (Copied(c)' <=> Copied(c))
  BY DEF Created, Deleted, Copied
<1>2. Mirrored(c)'
  BY <1>1, StillPending DEF Settled
<1>3. Placed' /\ Kinds' /\ mpc' = "accept"
  BY PlacedStutter, KindsStutter DEF Settled
<1>4. GivenArgs(c)' /\ EditFacts(c)'
  BY <1>1 DEF Settled, GivenArgs, EditFacts
<1>5. CopyFacts(c)'
  <2>1. Copy(c)' = Copy(c)
    BY DEF Copy
  <2> QED BY <1>1, <2>1 DEF Settled, CopyFacts
<1> QED BY <1>2, <1>3, <1>4, <1>5 DEF Settled

-----------------------------------------------------------------------------
(* The steps of the handler. *)

LEMMA LineSettled ==
  ASSUME PlainCommands, ConnInv, NEW c \in Client, Settled(c), NEW cmd \in Command,
         HandleCreateDelete(c, cmd) \/ HandleLocate(c, cmd) \/ HandleCopy(c, cmd)
         \/ HandleInvalid(c, cmd)
  PROVE  Settled(c)'
<1>0. /\ RecvCommand(c, cmd) /\ pc[c] = "recv"
      /\ UNCHANGED <<mainVars, tableVars, sock, result, serverVars>>
  BY DEF HandleCreateDelete, HandleLocate, HandleCopy, HandleInvalid, RecvCommand
<1>1. PICK n \in Nat : n = Len(cmd.args)
  BY ProcessAssumption, LenProperties
<1>2. /\ verb'[c] = cmd.verb /\ no_args'[c] = 1 + n
      /\ \A i \in {1, 2} : i <= n => args'[c][i] = cmd.args[i]
  BY <1>0, <1>1, HandlerTypes DEF RecvCommand
<1>3. \A i \in {1, 2} : i <= n => cmd.args[i] # Empty /\ cmd.args[i] \in Str
  <2>1. \A i \in {1, 2} : i <= n => i \in 1..Len(cmd.args)
    BY <1>1
  <2> QED BY <2>1, StringsOf DEF PlainCommands
<1>4. GivenArgs(c)'
  <2>1. (1 + n >= 2 => 1 <= n) /\ (1 + n >= 3 => 2 <= n)
    OBVIOUS
  <2> QED BY <1>2, <1>3, <2>1 DEF GivenArgs
<1>5. pc'[c] \in {"recv", "connect", "copyFrom"}
  BY <1>0, HandlerTypes DEF HandleCreateDelete, HandleLocate, HandleCopy, HandleInvalid
<1>6. ~Pending(c) /\ ~Pending(c)'
  BY <1>0, <1>5 DEF Pending, Created, Deleted, Copied, Editing
<1>7. Mirrored(c)' /\ Placed' /\ Kinds' /\ mpc' = "accept"
  BY <1>0, <1>6, StillIdle, PlacedStutter, KindsStutter
     DEF Settled, mainVars, tableVars, serverVars
<1>8. EditFacts(c)'
  <2> SUFFICES ASSUME pc'[c] = "connect" PROVE EditFacts(c)'
    BY <1>5 DEF EditFacts, Editing
  <2>1. HandleCreateDelete(c, cmd) /\ ~HandleCopy(c, cmd)
    BY <1>0, HandlerTypes DEF HandleCreateDelete, HandleLocate, HandleCopy, HandleInvalid
  <2>2. /\ cmd.verb \in {"CREATE", "DELETE"} /\ accessible_paths' = accessible_paths
        /\ target'[c][1] = get_value(accessible_paths, args'[c][1]) /\ target'[c][1] # -1
    <3>1. /\ cmd.verb \in {"CREATE", "DELETE"} /\ accessible_paths' = accessible_paths
          /\ target' = [target EXCEPT ![c][1] = get_value(accessible_paths, args'[c][1])]
          /\ get_value(accessible_paths, args'[c][1]) # -1
      BY <1>0, <2>1, HandlerTypes DEF HandleCreateDelete, tableVars
    <3> QED BY <3>1, HandlerTypes
  <2>3. ~Created(c)' /\ ~Deleted(c)'
    BY <1>6 DEF Pending
  <2> QED BY <1>2, <2>2, <2>3 DEF EditFacts
<1>9. CopyFacts(c)'
  <2> SUFFICES ASSUME pc'[c] = "copyFrom" PROVE CopyFacts(c)'
    BY <1>5 DEF CopyFacts, Copying
  <2>1. HandleCopy(c, cmd)
    BY <1>0, HandlerTypes DEF HandleCreateDelete, HandleLocate, HandleCopy, HandleInvalid
  <2>2. /\ cmd.verb = "COPY" /\ accessible_paths' = accessible_paths
        /\ \A j \in {1, 2} : /\ target'[c][j] = get_value(accessible_paths, args'[c][j])
                             /\ target'[c][j] # -1
    <3>1. PICK a, b : a = get_value(accessible_paths, args'[c][1]) /\ b = get_value(accessible_paths, args'[c][2])
      OBVIOUS
    <3>2. /\ cmd.verb = "COPY" /\ accessible_paths' = accessible_paths
          /\ target' = [target EXCEPT ![c] = [i \in {1, 2} |-> IF i = 1 THEN a ELSE b]]
          /\ a # -1 /\ b # -1
      BY <1>0, <2>1, <3>1, HandlerTypes DEF HandleCopy, tableVars
    <3>3. target'[c][1] = a /\ target'[c][2] = b
      BY <3>2, HandlerTypes
    <3> QED BY <3>1, <3>2, <3>3
  <2>3. MaxCrashes = 0 /\ 1 <= n /\ Dotted(Basename(cmd.args[1]))
    BY <1>1, <2>2 DEF PlainCommands
  <2>4. args'[c][1] = cmd.args[1] /\ args'[c][1] # Empty
    BY <1>2, <1>3, <2>3
  <2>5. ASSUME args'[c][2] = Empty PROVE AtRoot(Copy(c)')
    <3>1. n = 1
      BY <1>2, <1>3, <2>3, <2>5
    <3>2. Copy(c)' = RootCopy(cmd)
      BY <2>4, <2>5 DEF Copy, RootCopy
    <3>3. Under(RootCopy(cmd), RootCopy(cmd))
      BY <2>2, RootCopyType, UnderSelf
    <3> QED BY <1>1, <2>2, <3>1, <3>2, <3>3 DEF AtRoot
  <2>6. ~Copied(c)'
    BY <1>6 DEF Pending
  <2>7. AtRoot(Copy(c))' <=> AtRoot(Copy(c)')
    BY DEF AtRoot
  <2> QED BY <1>2, <2>2, <2>3, <2>4, <2>5, <2>6, <2>7 DEF CopyFacts
<1> QED BY <1>4, <1>7, <1>8, <1>9 DEF Settled

(* The steps between the command line and the end of it. *)
LEMMA WaitSettled ==
  ASSUME ConnInv, NEW c \in Client, Settled(c), pc[c] \in Editing, pc'[c] \in Editing \ {"connect"},
         UNCHANGED <<mpc, verb, args, no_args, target, accessible_paths, StorageServersInfo, disk>>,
         \/ pc[c] # "connect" /\ UNCHANGED sock
         \/ pc[c] = "connect" /\ sock'[c][1] = "queued"
  PROVE  Settled(c)'
<1>1. (Created(c)' <=> Created(c)) /\ (Deleted(c)' <=> Deleted(c)) /\ (Copied(c)' <=> Copied(c))
  BY DEF Created, Deleted, Copied, Editing
<1>2. Mirrored(c)'
  BY <1>1, StillPending DEF Settled
<1>3. Placed' /\ Kinds' /\ mpc' = "accept"
  BY PlacedStutter, KindsStutter DEF Settled
<1>4. GivenArgs(c)' /\ EditFacts(c)'
  BY <1>1 DEF Settled, GivenArgs, EditFacts
<1>5. CopyFacts(c)'
  BY DEF CopyFacts, Copying, Editing
<1> QED BY <1>2, <1>3, <1>4, <1>5 DEF Settled

LEMMA EditSettled ==
  ASSUME ConnInv, NEW c \in Client, Settled(c), ~NamingServerDies,
         OpenSocket(c) \/ ClearBuffer(c) \/ RecvResult(c) \/ CheckResult(c)
  PROVE  Settled(c)'
<1>1. CASE OpenSocket(c)
  <2>1. /\ pc[c] = "connect" /\ sock' = [sock EXCEPT ![c][1] = "queued"]
        /\ pc' = [pc EXCEPT ![c] = "clear"]
        /\ UNCHANGED <<mainVars, tableVars, lineVars, target, disk>>
    BY <1>1 DEF OpenSocket, Connect
  <2>2. sock'[c][1] = "queued" /\ pc'[c] = "clear"
    BY <2>1, HandlerTypes
  <2> QED BY <2>1, <2>2, WaitSettled DEF mainVars, tableVars, lineVars, Editing
<1>2. CASE ClearBuffer(c) \/ RecvResult(c) \/ CheckResult(c)
  <2>1. /\ pc[c] \in {"clear", "result", "check"} /\ pc'[c] \in {"result", "check", "commit"}
        /\ UNCHANGED <<mainVars, tableVars, lineVars, target, sock, serverVars>>
    BY <1>2, HandlerTypes DEF ClearBuffer, RecvResult, CheckResult, HandshakeFails
  <2> QED BY <2>1, WaitSettled DEF mainVars, tableVars, lineVars, serverVars, Editing
<1> QED BY <1>1, <1>2

LEMMA IdleAgain ==
  ASSUME NEW c \in Client, pc'[c] = "recv"
  PROVE  ~Pending(c)' /\ EditFacts(c)' /\ CopyFacts(c)'
  BY DEF Pending, Created, Deleted, Copied, EditFacts, CopyFacts, Editing, Copying

(* The end of a command that changed nothing, or nothing any more. *)
LEMMA AnswerSettled ==
  ASSUME ConnInv, NEW c \in Client, Settled(c), NEW text, Answer(c, text), ~Pending(c),
         UNCHANGED accessible_paths
  PROVE  Settled(c)'
<1>1. /\ pc' = [pc EXCEPT ![c] = "recv"]
      /\ UNCHANGED <<mpc, StorageServersInfo, args, no_args, disk>>
  BY DEF Answer, mainVars, lineVars, serverVars
<1>2. pc'[c] = "recv"
  BY <1>1, HandlerTypes
<1>3. Mirrored(c)'
  BY <1>1, <1>2, IdleAgain, StillIdle DEF Settled
<1>4. Placed' /\ Kinds' /\ mpc' = "accept" /\ GivenArgs(c)'
  BY <1>1, PlacedStutter, KindsStutter DEF Settled, GivenArgs
<1> QED BY <1>2, <1>3, <1>4, IdleAgain DEF Settled

(* The end of one that put its path into the table. *)
LEMMA EnterSettled ==
  ASSUME ServersApart, PlainCommands, ConnInv, NEW c \in Client, Settled(c),
         NEW text, Answer(c, text), NEW p \in Str, p # Empty, NEW v \in Int, v + 1 \in Slots,
         accessible_paths' = set_value(accessible_paths, p, v),
         \A k \in Slots : Expected(c, k) = RoutesTo(k) \cup (IF k = v + 1 THEN {p} ELSE {})
  PROVE  Settled(c)'
<1>1. /\ pc' = [pc EXCEPT ![c] = "recv"]
      /\ UNCHANGED <<mpc, StorageServersInfo, args, no_args, disk>>
  BY DEF Answer, mainVars, lineVars, serverVars
<1>2. pc'[c] = "recv"
  BY <1>1, HandlerTypes
<1>3. \A k \in Slots : DOMAIN disk[SlotServer(k)] = RoutesTo(k) \cup (IF k = v + 1 THEN {p} ELSE {})
  BY DEF Settled, Mirrored
<1>4. PICK r \in Server \cup {Nobody} : \A s \in Server : \A q \in DOMAIN disk[s] : Belongs(s, q, r)
  BY DEF Settled, Placed, PlacedAt
<1>5. ASSUME NEW k \in Slots, k # v + 1 PROVE p \notin RoutesTo(k)
  <2> SUFFICES ASSUME p \in RoutesTo(k) PROVE FALSE
    OBVIOUS
  <2>1. p \in DOMAIN disk[SlotServer(k)] /\ p \in DOMAIN disk[SlotServer(v + 1)]
    BY <1>3
  <2>2. SlotServer(k) \in Server /\ SlotServer(v + 1) \in Server
    BY SlotsAre
  <2>3. Belongs(SlotServer(k), p, r) /\ Belongs(SlotServer(v + 1), p, r)
    BY <1>4, <2>1, <2>2
  <2>4. SlotServer(k) = SlotServer(v + 1)
    BY <2>2, <2>3, BelongsOnce
  <2> QED BY <1>5, <2>4, SlotsAre, SlotOnce
<1>6. ASSUME NEW k \in Slots
      PROVE  RoutesTo(k)' = RoutesTo(k) \cup (IF k = v + 1 THEN {p} ELSE {})
  <2>1. k \in Int
    BY SlotsAre
  <2>2. RoutesTo(k)' = IF v = k - 1 THEN RoutesTo(k) \cup ({p} \ {Empty})
                       ELSE RoutesTo(k) \ {p}
    BY <2>1, SetRoutes
  <2>3. v = k - 1 <=> k = v + 1
    BY <2>1
  <2>4. CASE k = v + 1
    BY <2>2, <2>3, <2>4
  <2>5. CASE k # v + 1
    BY <1>5, <2>2, <2>3, <2>5
  <2> QED BY <2>4, <2>5
<1>7. Mirrored(c)'
  <2>1. \A k : Expected(c, k)' = RoutesTo(k)'
    BY <1>2, IdleAgain DEF Expected, Pending
  <2>2. Slots' = Slots /\ \A k : SlotServer(k)' = SlotServer(k)
    BY <1>1 DEF Slots, SlotServer
  <2> QED BY <1>1, <1>3, <1>6, <2>1, <2>2 DEF Mirrored
<1>8. Placed'
  <2>1. Empty \in DOMAIN accessible_paths' =>
           Empty \in DOMAIN accessible_paths /\ accessible_paths'[Empty] = accessible_paths[Empty]
    BY DEF set_value
  <2> QED BY <1>1, <2>1, PlacedStutter DEF Settled
<1>9. Kinds' /\ mpc' = "accept" /\ GivenArgs(c)'
  BY <1>1, KindsStutter DEF Settled, GivenArgs
<1> QED BY <1>2, <1>7, <1>8, <1>9, IdleAgain DEF Settled

(* What the result says of a CREATE or a DELETE. *)
LEMMA CommitIs ==
  ASSUME ConnInv, NEW c \in Client, Settled(c), OwnBuffer(c), pc[c] = "commit"
  PROVE  /\ verb[c] \in {"CREATE", "DELETE"} /\ ~Copied(c)
         /\ Created(c) <=> result[c] = 1 /\ verb[c] = "CREATE"
         /\ Deleted(c) <=> result[c] = 1 /\ verb[c] = "DELETE"
<1>1. verb[c] \in {"CREATE", "DELETE"}
  BY DEF Settled, EditFacts, Editing
<1>2. result[c] = 1 <=> sock[c][1] = "ACK"
  BY DEF OwnBuffer
<1> QED BY <1>1, <1>2 DEF Created, Deleted, Copied, Editing

LEMMA CommitCreateSettled ==
  ASSUME ServersApart, PlainCommands, ConnInv, NEW c \in Client, Settled(c), OwnBuffer(c),
         CommitCreate(c)
  PROVE  Settled(c)'
<1> DEFINE p == Join(args[c][1], args[c][2])
           v == target[c][1]
<1>1. /\ pc[c] = "commit" /\ result[c] = 1 /\ verb[c] = "CREATE" /\ Answer(c, "ACK")
      /\ accessible_paths' = set_value(accessible_paths, p, v)
  BY DEF CommitCreate
<1>2. Created(c) /\ ~Deleted(c) /\ ~Copied(c)
  BY <1>1, CommitIs
<1>3. p \in Str /\ p # Empty /\ v \in Int
  <2>1. args[c][1] \in Str /\ args[c][2] \in Str /\ target[c][1] \in Int
    BY HandlerTypes
  <2> QED BY <2>1, JoinType, JoinNotEmpty
<1>4. v + 1 \in Slots
  BY <1>1, LookedUp DEF Settled, EditFacts, Editing
<1>5. \A k \in Slots : Expected(c, k) = RoutesTo(k) \cup (IF k = v + 1 THEN {p} ELSE {})
  BY <1>2 DEF Expected
<1> HIDE DEF p, v
<1> QED BY <1>1, <1>3, <1>4, <1>5, EnterSettled

LEMMA CommitDeleteSettled ==
  ASSUME ConnInv, NEW c \in Client, Settled(c), OwnBuffer(c), CommitDelete(c)
  PROVE  Settled(c)'
<1>1. pc[c] = "commit" /\ result[c] = 1 /\ verb[c] = "DELETE" /\ Answer(c, "ACK")
  BY DEF CommitDelete
<1>2. PICK stray \in BOOLEAN :
        accessible_paths' = remove_entry(accessible_paths, args[c][1], stray)
  BY DEF CommitDelete
<1>3. /\ pc' = [pc EXCEPT ![c] = "recv"]
      /\ UNCHANGED <<mpc, StorageServersInfo, args, no_args, disk>>
  BY <1>1 DEF Answer, mainVars, lineVars, serverVars
<1>4. pc'[c] = "recv"
  BY <1>3, HandlerTypes
<1>5. Deleted(c) /\ ~Created(c) /\ ~Copied(c)
  BY <1>1, CommitIs
<1>6. \A k : RoutesTo(k)' = {q \in RoutesTo(k) : ~Under(q, args[c][1])}
  BY <1>2, RemoveRoutes
<1>7. \A k : Expected(c, k)' = RoutesTo(k)'
  BY <1>4, IdleAgain DEF Expected, Pending
<1>8. \A k : Expected(c, k) = RoutesTo(k)'
  BY <1>5, <1>6 DEF Expected
<1>9. Mirrored(c)'
  <2>1. Slots' = Slots /\ \A k : SlotServer(k)' = SlotServer(k)
    BY <1>3 DEF Slots, SlotServer
  <2> QED BY <1>3, <1>7, <1>8, <2>1 DEF Settled, Mirrored
<1>10. Placed'
  <2>1. Empty \in DOMAIN accessible_paths' =>
           Empty \in DOMAIN accessible_paths /\ accessible_paths'[Empty] = accessible_paths[Empty]
    BY <1>2 DEF remove_entry
  <2> QED BY <1>3, <2>1, PlacedStutter DEF Settled
<1>11. Kinds' /\ mpc' = "accept" /\ GivenArgs(c)'
  BY <1>3, KindsStutter DEF Settled, GivenArgs
<1> QED BY <1>4, <1>9, <1>10, <1>11, IdleAgain DEF Settled

LEMMA CommitFailSettled ==
  ASSUME ConnInv, NEW c \in Client, Settled(c), OwnBuffer(c), CommitFail(c)
  PROVE  Settled(c)'
<1>1. pc[c] = "commit" /\ result[c] # 1 /\ Answer(c, "FAIL") /\ UNCHANGED accessible_paths
  BY DEF CommitFail
<1>2. ~Pending(c)
  BY <1>1, CommitIs DEF Pending
<1> QED BY <1>1, <1>2, AnswerSettled

(* The steps of a copy up to its entry in the table. *)
LEMMA CopyStepSettled ==
  ASSUME ConnInv, NEW c \in Client, Settled(c), pc[c] \in Copying, pc'[c] \in Copying \ {"copyFrom"},
         UNCHANGED <<mpc, verb, args, no_args, accessible_paths, StorageServersInfo, disk>>,
         \A j \in {1, 2} : target'[c][j] = target[c][j],
         Copied(c)' <=> Copied(c), Copied(c) => sock'[c][1] = "ACK",
         sock'[c][1] \in {"queued", "open", "ACK"},
         sock'[c][1] = "ACK" => shipment'[c] = "file",
         pc'[c] = "copyToWait" => sock'[c][2] # "ACK",
         pc'[c] \in {"relookup", "commitCopy"} => sock'[c][2] = "ACK" /\ result'[c] = 1
  PROVE  Settled(c)'
<1>1. (Created(c)' <=> Created(c)) /\ (Deleted(c)' <=> Deleted(c))
  BY DEF Created, Deleted, Editing, Copying
<1>2. Mirrored(c)'
  BY <1>1, StillPending DEF Settled
<1>3. Placed' /\ Kinds' /\ mpc' = "accept" /\ GivenArgs(c)'
  BY PlacedStutter, KindsStutter DEF Settled, GivenArgs
<1>4. EditFacts(c)'
  BY DEF EditFacts, Copying, Editing
<1>5. Copy(c)' = Copy(c) /\ (AtRoot(Copy(c))' <=> AtRoot(Copy(c)'))
  BY DEF Copy, AtRoot
<1>6. /\ verb[c] = "COPY" /\ MaxCrashes = 0 /\ args[c][1] # Empty
      /\ \A j \in {1, 2} : target[c][j] = get_value(accessible_paths, args[c][j]) /\ target[c][j] # -1
      /\ Dotted(Basename(args[c][1]))
      /\ args[c][2] = Empty => AtRoot(Copy(c))
  BY DEF Settled, CopyFacts
<1>7. CopyFacts(c)'
  BY <1>5, <1>6 DEF CopyFacts
<1> QED BY <1>2, <1>3, <1>4, <1>7 DEF Settled

LEMMA OpenSettled ==
  ASSUME ConnInv, NEW c \in Client, Settled(c), ~NamingServerDies, OpenFrom(c) \/ OpenTo(c)
  PROVE  Settled(c)'
<1>1. CASE OpenFrom(c)
  <2>1. /\ pc[c] = "copyFrom" /\ sock' = [sock EXCEPT ![c][1] = "queued"]
        /\ pc' = [pc EXCEPT ![c] = "copyFromWait"]
        /\ UNCHANGED <<mainVars, tableVars, lineVars, target, disk>>
    BY <1>1 DEF OpenFrom, Connect
  <2>2. sock'[c][1] = "queued" /\ pc'[c] = "copyFromWait"
    BY <2>1, HandlerTypes
  <2>3. ~Copied(c) /\ ~Copied(c)'
    BY <2>1, <2>2 DEF Copied
  <2> QED BY <2>1, <2>2, <2>3, CopyStepSettled DEF mainVars, tableVars, lineVars, Copying
<1>2. CASE OpenTo(c)
  <2>1. /\ pc[c] = "copyTo" /\ sock' = [sock EXCEPT ![c][2] = "queued"]
        /\ pc' = [pc EXCEPT ![c] = "copyToWait"]
        /\ shipment' = [shipment EXCEPT ![c] = shipment[c]]
        /\ UNCHANGED <<mainVars, tableVars, lineVars, target, disk>>
    BY <1>2 DEF OpenTo, Connect
  <2>2. /\ sock'[c][2] = "queued" /\ sock'[c][1] = sock[c][1] /\ pc'[c] = "copyToWait"
        /\ shipment'[c] = shipment[c]
    BY <2>1, HandlerTypes
  <2>3. ~Copied(c) /\ ~Copied(c)'
    BY <2>1, <2>2 DEF Copied
  <2>4. sock[c][1] \in {"queued", "open", "ACK"} /\ (sock[c][1] = "ACK" => shipment[c] = "file")
    BY <2>1 DEF Settled, CopyFacts, Copying
  <2> QED BY <2>1, <2>2, <2>3, <2>4, CopyStepSettled DEF mainVars, tableVars, lineVars, Copying
<1> QED BY <1>1, <1>2

LEMMA CopySettled ==
  ASSUME ConnInv, NEW c \in Client, Settled(c), ~NamingServerDies,
         HandshakeOver(c) \/ FacilitateCopy(c) \/ CopyRelookup(c)
  PROVE  Settled(c)'
<1>0. pc[c] \in {"copyFromWait", "copyToWait", "copying", "relookup"}
  BY DEF HandshakeOver, FacilitateCopy, CopyRelookup
<1>1. /\ pc[c] \in Copying /\ pc[c] # "copyFrom"
      /\ sock[c][1] \in {"queued", "open", "ACK"} /\ (sock[c][1] = "ACK" => shipment[c] = "file")
      /\ pc[c] = "copyToWait" => sock[c][2] # "ACK"
      /\ Copied(c) => sock[c][1] = "ACK"
      /\ pc[c] = "relookup" => sock[c][2] = "ACK" /\ result[c] = 1
  BY <1>0 DEF Settled, CopyFacts, Copying
<1>2. CASE HandshakeOver(c)
  <2>1. /\ \/ pc[c] = "copyFromWait" /\ pc'[c] = "copyTo"
           \/ pc[c] = "copyToWait" /\ pc'[c] = "copying"
        /\ UNCHANGED <<mainVars, tableVars, lineVars, target, sock, serverVars>>
    BY <1>2, HandlerTypes DEF HandshakeOver, HandshakeFails
  <2>2. ~Copied(c) /\ ~Copied(c)'
    BY <1>1, <2>1 DEF Copied
  <2> QED BY <1>1, <2>1, <2>2, CopyStepSettled DEF mainVars, tableVars, lineVars, serverVars, Copying
<1>3. CASE FacilitateCopy(c) /\ sock[c][1] = "ACK" /\ sock[c][2] = "ACK"
  <2>1. /\ pc[c] = "copying" /\ pc'[c] = "relookup"
        /\ result' = [result EXCEPT ![c] = IF shipment[c] = "dir" THEN 2 ELSE 1]
        /\ UNCHANGED <<mainVars, tableVars, lineVars, target, sock, serverVars>>
    BY <1>3, HandlerTypes DEF FacilitateCopy
  <2>2. result'[c] = 1
    BY <1>1, <1>3, <2>1, HandlerTypes
  <2>3. Copied(c) /\ Copied(c)'
    BY <1>3, <2>1 DEF Copied
  <2> QED BY <1>1, <1>3, <2>1, <2>2, <2>3, CopyStepSettled
          DEF mainVars, tableVars, lineVars, serverVars, Copying
<1>4. CASE FacilitateCopy(c) /\ ~(sock[c][1] = "ACK" /\ sock[c][2] = "ACK")
  <2>1. pc[c] = "copying" /\ Answer(c, "FAIL") /\ UNCHANGED accessible_paths
        /\ sock[c][1] \in {"ACK", "FAIL", "dead"}
    BY <1>4 DEF FacilitateCopy
  <2>2. ~Pending(c)
    BY <1>1, <1>4, <2>1 DEF Pending, Created, Deleted, Copied, Editing
  <2> QED BY <2>1, <2>2, AnswerSettled
<1>5. CASE CopyRelookup(c)
  <2>1. PICK v : v = get_value(accessible_paths, args[c][2])
    OBVIOUS
  <2>2. /\ pc[c] = "relookup" /\ pc'[c] = "commitCopy"
        /\ target' = [target EXCEPT ![c][2] = v]
        /\ UNCHANGED <<mainVars, tableVars, lineVars, sock, result, serverVars>>
    BY <1>5, <2>1, HandlerTypes DEF CopyRelookup
  <2>3. target[c][2] = v
    BY <1>1, <2>1 DEF Settled, CopyFacts
  <2>4. \A j \in {1, 2} : target'[c][j] = target[c][j]
    BY <2>2, <2>3, HandlerTypes
  <2>5. Copied(c) /\ Copied(c)'
    BY <1>1, <2>2 DEF Copied
  <2> QED BY <1>1, <2>2, <2>4, <2>5, CopyStepSettled
          DEF mainVars, tableVars, lineVars, serverVars, Copying
<1> QED BY <1>2, <1>3, <1>4, <1>5

LEMMA CommitCopySettled ==
  ASSUME ServersApart, PlainCommands, ConnInv, NEW c \in Client, Settled(c),
         CommitCopyFile(c) \/ CommitCopyDir(c)
  PROVE  Settled(c)'
<1> DEFINE p == Copy(c)
           v == target[c][2]
<1>1. /\ pc[c] = "commitCopy" /\ sock[c][2] = "ACK" /\ result[c] = 1
      /\ v = get_value(accessible_paths, args[c][2]) /\ v # -1
  <2>1. pc[c] = "commitCopy"
    BY DEF CommitCopyFile, CommitCopyDir
  <2> QED BY <2>1 DEF Settled, CopyFacts, Copying
<1>2. Answer(c, "ACK") /\ accessible_paths' = set_value(accessible_paths, p, v)
  BY <1>1 DEF CommitCopyFile, CommitCopyDir, Copy
<1>3. Copied(c) /\ ~Created(c) /\ ~Deleted(c)
  BY <1>1 DEF Created, Deleted, Copied, Editing
<1>4. p \in Str /\ p # Empty /\ v \in Int
  <2>1. args[c][1] \in Str /\ args[c][2] \in Str /\ target[c][2] \in Int
    BY HandlerTypes
  <2>2. Basename(args[c][1]) \in Str
    BY <2>1, BasenameType
  <2> QED BY <2>1, <2>2, JoinType, JoinNotEmpty DEF Copy
<1>5. v + 1 \in Slots
  BY <1>1, LookedUp
<1>6. \A k \in Slots : Expected(c, k) = RoutesTo(k) \cup (IF k = v + 1 THEN {p} ELSE {})
  BY <1>3 DEF Expected
<1> HIDE DEF p, v
<1> QED BY <1>2, <1>4, <1>5, <1>6, EnterSettled

(* Every step of the handler. *)
LEMMA HandleSettled ==
  ASSUME ServersApart, PlainCommands, ConnInv, NEW c \in Client, Settled(c), OwnBuffer(c),
         Handle(c)
  PROVE  Settled(c)'
<1>1. CASE NamingServerDies
  <2>1. UNCHANGED <<mpc, pc, verb, args, no_args, target, result, accessible_paths,
                    StorageServersInfo, disk, shipment, sock>>
    BY <1>1 DEF NamingServerDies, mainVars, tableVars, handlerVars, lineVars, serverVars
  <2>2. pc[c] \in Copying /\ pc[c] # "copyFrom" => sock'[c][1] \in {"queued", "open", "ACK"}
    BY <2>1 DEF Settled, CopyFacts
  <2> QED BY <2>1, <2>2, SettledStutter
<1>2. ASSUME NEW cmd \in Command,
             HandleCreateDelete(c, cmd) \/ HandleLocate(c, cmd) \/ HandleCopy(c, cmd)
             \/ HandleInvalid(c, cmd)
      PROVE  Settled(c)'
  BY <1>2, LineSettled
<1>3. ASSUME NEW cmd \in Command, HandleBlank(c, cmd) PROVE NamingServerDies
  BY <1>3 DEF HandleBlank
<1>4. CASE CommitCreate(c) \/ CommitDelete(c) \/ CommitFail(c)
  BY <1>4, CommitCreateSettled, CommitDeleteSettled, CommitFailSettled
<1>5. CASE CommitCopyFile(c) \/ CommitCopyDir(c)
  BY <1>5, CommitCopySettled
<1>6. CASE /\ ~NamingServerDies
           /\ OpenSocket(c) \/ ClearBuffer(c) \/ RecvResult(c) \/ CheckResult(c)
  BY <1>6, EditSettled
<1>7. CASE /\ ~NamingServerDies
           /\ \/ OpenFrom(c) \/ OpenTo(c) \/ HandshakeOver(c) \/ FacilitateCopy(c)
              \/ CopyRelookup(c)
  BY <1>7, OpenSettled, CopySettled
<1> QED BY <1>1, <1>2, <1>3, <1>4, <1>5, <1>6, <1>7 DEF Handle

-----------------------------------------------------------------------------
(* The steps of the storage servers. *)

(* The connection a server serves is open, and it is the server of the     *)
(* slot that the handler looked up.                                        *)
LEMMA Serves ==
  ASSUME ConnInv, NEW c \in Client, NEW s \in Server, NEW j \in {1, 2}, session[s] = <<c, j>>
  PROVE  /\ sock[c][j] = "open" /\ target[c][j] + 1 \in Slots /\ s = SlotServer(target[c][j] + 1)
         /\ j = 1 => pc[c] \in UsesFirst
         /\ j = 2 => pc[c] \in UsesSecond
<1>1. sock[c][j] = "open"
  BY DEF ConnInv, Agree
<1>2. target[c][j] + 1 \in Slots /\ s = SlotServer(target[c][j] + 1)
  BY DEF ConnInv, RightServer, SlotServer
<1> QED BY <1>1, <1>2 DEF ConnInv, Sockets, Busy

LEMMA StoredIs ==
  ASSUME DOMAIN disk = Server, NEW s \in Server, NEW p, NEW kind, disk' = Stored(s, p, kind)
  PROVE  /\ DOMAIN disk'[s] = DOMAIN disk[s] \cup {p}
         /\ \A q \in DOMAIN disk[s] \cup {p} : disk'[s][q] = IF q = p THEN kind ELSE disk[s][q]
         /\ \A t \in Server \ {s} : disk'[t] = disk[t]
  BY DEF Stored

LEMMA RemovedIs ==
  ASSUME DOMAIN disk = Server, NEW s \in Server, NEW P, disk' = Removed(s, P)
  PROVE  /\ DOMAIN disk'[s] = DOMAIN disk[s] \ P
         /\ \A q \in DOMAIN disk[s] \ P : disk'[s][q] = disk[s][q]
         /\ \A t \in Server \ {s} : disk'[t] = disk[t]
  BY DEF Removed

(* A path of a command that is not Empty is on the disk of the server its  *)
(* lookup led to.                                                          *)
LEMMA OnDisk ==
  ASSUME ConnInv, NEW c \in Client, Mirrored(c), ~Deleted(c), NEW p, NEW v,
         v = get_value(accessible_paths, p), v # -1, p # Empty
  PROVE  p \in DOMAIN disk[SlotServer(v + 1)]
<1>1. v + 1 \in Slots /\ p \in RoutesTo(v + 1)
  BY LookedUp
<1> QED BY <1>1 DEF Mirrored, Expected

(* A server has carried out a command that makes the path p. *)
LEMMA GrownMirror ==
  ASSUME ServersApart, ConnInv, NEW c \in Client, Settled(c), ~Pending(c), NEW v, v + 1 \in Slots,
         NEW s, s = SlotServer(v + 1), NEW p,
         UNCHANGED <<accessible_paths, StorageServersInfo>>,
         DOMAIN disk'[s] = DOMAIN disk[s] \cup {p},
         \A t \in Server \ {s} : disk'[t] = disk[t],
         \A q \in DOMAIN disk'[s] : disk'[s][q] = "dir" => ~Dotted(Basename(q)),
         \A r \in Server \cup {Nobody} : PlacedAt(r) => Belongs(s, p, r),
         \A k \in Slots : Expected(c, k)' = RoutesTo(k)' \cup (IF k = v + 1 THEN {p} ELSE {})
  PROVE  Mirrored(c)' /\ Placed' /\ Kinds'
<1>0. s \in Server
  BY SlotsAre
<1>1. /\ \A k : RoutesTo(k)' = RoutesTo(k) /\ SlotServer(k)' = SlotServer(k)
      /\ Slots' = Slots
  BY SameRoutes
<1>2. \A k \in Slots : DOMAIN disk[SlotServer(k)] = RoutesTo(k)
  <2>1. ~Created(c) /\ ~Deleted(c) /\ ~Copied(c)
    BY DEF Pending
  <2>2. \A k : Expected(c, k) = RoutesTo(k)
    BY <2>1 DEF Expected
  <2> QED BY <2>2 DEF Settled, Mirrored
<1>3. ASSUME NEW k \in Slots
      PROVE  DOMAIN disk'[SlotServer(k)] = RoutesTo(k) \cup (IF k = v + 1 THEN {p} ELSE {})
  <2>1. CASE k = v + 1
    BY <1>2, <2>1
  <2>2. CASE k # v + 1
    <3>1. SlotServer(k) \in Server \ {s}
      BY <2>2, SlotsAre, SlotOnce
    <3> QED BY <1>2, <2>2, <3>1
  <2> QED BY <2>1, <2>2
<1>4. Mirrored(c)'
  BY <1>1, <1>3 DEF Mirrored
<1>5. Placed'
  <2>1. PICK r \in Server \cup {Nobody} : PlacedAt(r)
    BY DEF Settled, Placed
  <2>2. \A t \in Server : \A q \in DOMAIN disk'[t] : Belongs(t, q, r)
    BY <1>0, <2>1 DEF PlacedAt
  <2>3. PlacedAt(r)'
    BY <1>1, <2>1, <2>2 DEF PlacedAt
  <2> QED BY <2>3 DEF Placed
<1>6. Kinds'
  BY <1>0 DEF Settled, Kinds
<1> QED BY <1>4, <1>5, <1>6

(* What a command leaves as it is while it is edited. *)
LEMMA EditedSettled ==
  ASSUME NEW c \in Client, Settled(c), pc[c] \in {"clear", "result"},
         UNCHANGED <<mpc, pc, verb, args, no_args, target, accessible_paths>>,
         Created(c)' => no_args[c] = 3, Deleted(c)' => no_args[c] = 2,
         Mirrored(c)', Placed', Kinds'
  PROVE  Settled(c)'
<1>1. GivenArgs(c)' /\ EditFacts(c)'
  BY DEF Settled, GivenArgs, EditFacts, Editing
<1>2. CopyFacts(c)'
  BY DEF CopyFacts, Copying
<1> QED BY <1>1, <1>2 DEF Settled

LEMMA EditServed ==
  ASSUME ConnInv, NEW c \in Client, Settled(c), NEW s \in Server, session[s] = <<c, 1>>,
         verb[c] \in {"CREATE", "DELETE"}
  PROVE  /\ pc[c] \in {"clear", "result"} /\ ~Pending(c)
         /\ target[c][1] = get_value(accessible_paths, args[c][1]) /\ target[c][1] # -1
<1>1. sock[c][1] = "open" /\ pc[c] \in UsesFirst
  BY Serves
<1>2. pc[c] \in {"clear", "result"}
  BY <1>1 DEF UsesFirst, Settled, CopyFacts, Copying
<1> QED BY <1>1, <1>2 DEF Pending, Created, Deleted, Copied, Settled, EditFacts, Editing

LEMMA CreateSettled ==
  ASSUME ServersApart, PlainCommands, ConnInv, NEW c \in Client, Settled(c), NEW s \in Server,
         SSCreate(s, c)
  PROVE  Settled(c)'
<1> DEFINE full_path == Join(args[c][1], args[c][2])
           touch == Dotted(args[c][2])
           ok == /\ no_args[c] = 3
                 /\ IF touch THEN Exists(s, full_path) \/ IsDir(s, Parent(full_path))
                             ELSE ~Exists(s, full_path) /\ IsDir(s, Parent(full_path))
<1>1. /\ session[s] = <<c, 1>> /\ verb[c] = "CREATE"
      /\ disk' = IF ok /\ ~Exists(s, full_path)
                 THEN Stored(s, full_path, IF touch THEN "file" ELSE "dir")
                 ELSE disk
      /\ sock' = [sock EXCEPT ![c][1] = IF ok THEN "ACK" ELSE "FAIL"]
      /\ UNCHANGED <<mainVars, tableVars, pc, lineVars, target>>
  BY DEF SSCreate, Serving, SSAnswer
<1>2. /\ pc[c] \in {"clear", "result"} /\ ~Pending(c)
      /\ target[c][1] = get_value(accessible_paths, args[c][1]) /\ target[c][1] # -1
  BY <1>1, EditServed
<1>3. PICK v : v = target[c][1]
  OBVIOUS
<1>4. v + 1 \in Slots /\ s = SlotServer(v + 1)
  BY <1>1, <1>3, Serves
<1>5. UNCHANGED <<mpc, pc, verb, args, no_args, target, accessible_paths, StorageServersInfo>>
  BY <1>1 DEF mainVars, tableVars, lineVars
<1>6. args[c][1] \in Str /\ args[c][2] \in Str /\ full_path \in Str /\ full_path # Empty
  <2>1. args[c][1] \in Str /\ args[c][2] \in Str
    BY HandlerTypes
  <2> QED BY <2>1, JoinType, JoinNotEmpty
<1> HIDE DEF ok
<1>7. CASE ~ok
  <2>1. disk' = disk /\ sock'[c][1] = "FAIL"
    BY <1>1, <1>7, HandlerTypes
  <2>2. ~Pending(c)' /\ ~Created(c)' /\ ~Deleted(c)'
    BY <1>2, <1>5, <2>1 DEF Pending, Created, Deleted, Copied
  <2>3. Mirrored(c)' /\ Placed' /\ Kinds'
    BY <1>2, <1>5, <2>1, <2>2, StillIdle, PlacedStutter, KindsStutter DEF Settled
  <2> QED BY <1>2, <1>5, <2>2, <2>3, EditedSettled
<1>8. CASE ok
  <2>1. sock'[c][1] = "ACK"
    BY <1>1, <1>8, HandlerTypes
  <2>2. Created(c)' /\ ~Deleted(c)' /\ ~Copied(c)'
    BY <1>1, <1>2, <1>5, <2>1 DEF Created, Deleted, Copied, Editing
  <2>3. no_args[c] = 3
    BY <1>8 DEF ok
  <2>4. args[c][1] # Empty /\ args[c][1] \in DOMAIN disk[s]
    <3>1. args[c][1] # Empty
      BY <2>3 DEF Settled, GivenArgs
    <3>2. Mirrored(c) /\ ~Deleted(c)
      BY <1>2 DEF Settled, Pending
    <3> QED BY <1>2, <1>3, <1>4, <3>1, <3>2, OnDisk
  <2>5. ASSUME NEW r \in Server \cup {Nobody}, PlacedAt(r) PROVE Belongs(s, full_path, r)
    <3>1. Belongs(s, args[c][1], r)
      BY <2>4, <2>5 DEF PlacedAt
    <3>2. Under(full_path, args[c][1])
      BY <1>6, UnderJoin
    <3> QED BY <1>6, <3>1, <3>2, BelongsUnder
  <2>6. \A k \in Slots : Expected(c, k)' =
           RoutesTo(k)' \cup (IF k = v + 1 THEN {full_path} ELSE {})
    BY <1>3, <1>5, <2>2 DEF Expected
  <2>7. /\ DOMAIN disk'[s] = DOMAIN disk[s] \cup {full_path}
        /\ \A t \in Server \ {s} : disk'[t] = disk[t]
        /\ \A q \in DOMAIN disk'[s] : disk'[s][q] = "dir" => ~Dotted(Basename(q))
    <3>1. \A q \in DOMAIN disk[s] : disk[s][q] = "dir" => ~Dotted(Basename(q))
      BY DEF Settled, Kinds
    <3>2. CASE Exists(s, full_path)
      <4>1. full_path \in DOMAIN disk[s]
        BY <1>6, <3>2 DEF Exists
      <4> QED BY <1>1, <3>1, <3>2, <4>1
    <3>3. CASE ~Exists(s, full_path)
      <4>1. PICK kind : kind = IF touch THEN "file" ELSE "dir"
        OBVIOUS
      <4>2. disk' = Stored(s, full_path, kind)
        BY <1>1, <1>8, <3>3, <4>1
      <4>3. /\ DOMAIN disk'[s] = DOMAIN disk[s] \cup {full_path}
            /\ \A q \in DOMAIN disk[s] \cup {full_path} :
                  disk'[s][q] = IF q = full_path THEN kind ELSE disk[s][q]
            /\ \A t \in Server \ {s} : disk'[t] = disk[t]
        BY <4>2, HandlerTypes, StoredIs
      <4>4. kind = "dir" => ~Dotted(Basename(full_path))
        BY <1>6, <4>1, PlainBasename
      <4> QED BY <3>1, <4>3, <4>4
    <3> QED BY <3>2, <3>3
  <2> HIDE DEF full_path
  <2>8. Mirrored(c)' /\ Placed' /\ Kinds'
    BY <1>2, <1>4, <1>5, <2>5, <2>6, <2>7, GrownMirror
  <2> QED BY <1>2, <1>5, <2>2, <2>3, <2>8, EditedSettled
<1> QED BY <1>7, <1>8

LEMMA DeleteSettled ==
  ASSUME ServersApart, PlainCommands, ConnInv, NEW c \in Client, Settled(c), NEW s \in Server,
         SSDelete(s, c)
  PROVE  Settled(c)'
<1> DEFINE path == args[c][1]
           ok == no_args[c] = 2 /\ (Dotted(path) => IsFile(s, path))
           gone == {q \in DOMAIN disk[s] : Under(q, path)}
<1>1. /\ session[s] = <<c, 1>> /\ verb[c] = "DELETE"
      /\ disk' = IF ok THEN Removed(s, gone) ELSE disk
      /\ sock' = [sock EXCEPT ![c][1] = IF ok THEN "ACK" ELSE "FAIL"]
      /\ UNCHANGED <<mainVars, tableVars, pc, lineVars, target>>
  BY DEF SSDelete, Serving, SSAnswer
<1>2. /\ pc[c] \in {"clear", "result"} /\ ~Pending(c)
      /\ target[c][1] = get_value(accessible_paths, path) /\ target[c][1] # -1
  BY <1>1, EditServed
<1>3. PICK v : v = target[c][1]
  OBVIOUS
<1>4. v + 1 \in Slots /\ s = SlotServer(v + 1)
  BY <1>1, <1>3, Serves
<1>5. UNCHANGED <<mpc, pc, verb, args, no_args, target, accessible_paths, StorageServersInfo>>
  BY <1>1 DEF mainVars, tableVars, lineVars
<1> HIDE DEF ok
<1>6. CASE ~ok
  <2>1. disk' = disk /\ sock'[c][1] = "FAIL"
    BY <1>1, <1>6, HandlerTypes
  <2>2. ~Pending(c)' /\ ~Created(c)' /\ ~Deleted(c)'
    BY <1>2, <1>5, <2>1 DEF Pending, Created, Deleted, Copied
  <2>3. Mirrored(c)' /\ Placed' /\ Kinds'
    BY <1>2, <1>5, <2>1, <2>2, StillIdle, PlacedStutter, KindsStutter DEF Settled
  <2> QED BY <1>2, <1>5, <2>2, <2>3, EditedSettled
<1>7. CASE ok
  <2>1. sock'[c][1] = "ACK"
    BY <1>1, <1>7, HandlerTypes
  <2>2. Deleted(c)' /\ ~Created(c)' /\ ~Copied(c)'
    BY <1>1, <1>2, <1>5, <2>1 DEF Created, Deleted, Copied, Editing
  <2>3. no_args[c] = 2
    BY <1>7 DEF ok
  <2>4. path # Empty /\ path \in DOMAIN disk[s] /\ path \in Str
    <3>1. path # Empty /\ path \in Str
      BY <2>3, HandlerTypes DEF Settled, GivenArgs
    <3>2. Mirrored(c) /\ ~Deleted(c)
      BY <1>2 DEF Settled, Pending
    <3> QED BY <1>2, <1>3, <1>4, <3>1, <3>2, OnDisk
  <2>5. /\ DOMAIN disk'[s] = DOMAIN disk[s] \ gone
        /\ \A q \in DOMAIN disk[s] \ gone : disk'[s][q] = disk[s][q]
        /\ \A t \in Server \ {s} : disk'[t] = disk[t]
    <3>1. disk' = Removed(s, gone)
      BY <1>1, <1>7
    <3> HIDE DEF gone
    <3> QED BY <3>1, HandlerTypes, RemovedIs
  <2>6. PICK r \in Server \cup {Nobody} : PlacedAt(r)
    BY DEF Settled, Placed
  <2>7. \A k \in Slots : DOMAIN disk[SlotServer(k)] = RoutesTo(k)
    BY <1>2 DEF Settled, Mirrored, Expected, Pending
  <2>8. ASSUME NEW k \in Slots, k # v + 1, NEW q \in RoutesTo(k), Under(q, path) PROVE FALSE
    <3>1. SlotServer(k) \in Server /\ q \in DOMAIN disk[SlotServer(k)]
      BY <2>7, <2>8, SlotsAre
    <3>2. Belongs(SlotServer(k), q, r) /\ Belongs(s, path, r) /\ q \in Str
      BY <2>4, <2>6, <3>1, HandlerTypes DEF PlacedAt
    <3>3. q # Empty
      BY <2>8 DEF RoutesTo
    <3>4. Belongs(s, q, r)
      BY <2>4, <2>8, <3>2, <3>3, BelongsUnder
    <3>5. SlotServer(k) = s
      BY <3>1, <3>2, <3>4, BelongsOnce
    <3> QED BY <1>4, <2>8, <3>5, SlotOnce
  <2>9. /\ \A k : RoutesTo(k)' = RoutesTo(k) /\ SlotServer(k)' = SlotServer(k)
        /\ Slots' = Slots
    BY <1>5, SameRoutes
  <2>10. \A k : Expected(c, k)' = {p \in RoutesTo(k) : ~Under(p, path)}
    BY <1>5, <2>2, <2>9 DEF Expected
  <2>11. ASSUME NEW k \in Slots
         PROVE  DOMAIN disk'[SlotServer(k)] = {p \in RoutesTo(k) : ~Under(p, path)}
    <3>1. CASE k = v + 1
      BY <1>4, <2>5, <2>7, <3>1
    <3>2. CASE k # v + 1
      <4>1. SlotServer(k) \in Server \ {s}
        BY <1>4, <3>2, SlotsAre, SlotOnce
      <4>2. DOMAIN disk'[SlotServer(k)] = RoutesTo(k)
        BY <2>5, <2>7, <4>1
      <4> QED BY <2>8, <3>2, <4>2
    <3> QED BY <3>1, <3>2
  <2>12. Mirrored(c)'
    BY <2>9, <2>10, <2>11 DEF Mirrored
  <2>13. \A t \in Server : \A q \in DOMAIN disk'[t] :
            q \in DOMAIN disk[t] /\ disk'[t][q] = disk[t][q]
    BY <2>5
  <2>14. Placed'
    <3>1. \A t \in Server : \A q \in DOMAIN disk'[t] : Belongs(t, q, r)
      BY <2>6, <2>13 DEF PlacedAt
    <3>2. PlacedAt(r)'
      BY <1>5, <2>6, <2>9, <3>1 DEF PlacedAt
    <3> QED BY <3>2 DEF Placed
  <2>15. Kinds'
    BY <2>13 DEF Settled, Kinds
  <2> QED BY <1>2, <1>5, <2>2, <2>3, <2>12, <2>14, <2>15, EditedSettled
<1> QED BY <1>6, <1>7

(* What a copy leaves as it is while its servers work. *)
LEMMA CopyServed ==
  ASSUME ConnInv, NEW c \in Client, Settled(c), pc[c] \in Copying, pc[c] # "copyFrom",
         UNCHANGED <<mpc, pc, verb, args, no_args, target, accessible_paths, result>>,
         sock'[c][1] \in {"queued", "open", "ACK"},
         sock'[c][1] = "ACK" => shipment'[c] = "file",
         pc[c] = "copyToWait" => sock'[c][2] # "ACK",
         Copied(c)' => sock'[c][1] = "ACK",
         pc[c] \in {"relookup", "commitCopy"} => sock'[c][2] = "ACK",
         Mirrored(c)', Placed', Kinds'
  PROVE  Settled(c)'
<1>1. GivenArgs(c)' /\ EditFacts(c)'
  BY DEF Settled, GivenArgs, EditFacts, Copying, Editing
<1>2. Copy(c)' = Copy(c) /\ (AtRoot(Copy(c))' <=> AtRoot(Copy(c)'))
  BY DEF Copy, AtRoot
<1>3. CopyFacts(c)'
  BY <1>2 DEF Settled, CopyFacts
<1> QED BY <1>1, <1>3 DEF Settled

LEMMA SendSettled ==
  ASSUME ServersApart, PlainCommands, ConnInv, NEW c \in Client, Settled(c), NEW s \in Server,
         SSSend(s, c)
  PROVE  Settled(c)'
<1> DEFINE path == args[c][1]
<1>1. session[s] = <<c, 1>> /\ verb[c] = "COPY"
  BY DEF SSSend, Serving
<1>2. sock[c][1] = "open" /\ s = SlotServer(target[c][1] + 1) /\ pc[c] \in UsesFirst
  BY <1>1, Serves
<1>3. pc[c] \in Copying /\ pc[c] \notin {"copyFrom", "relookup", "commitCopy"}
  BY <1>1, <1>2 DEF UsesFirst, Settled, EditFacts, Editing, Copying
<1>4. /\ target[c][1] = get_value(accessible_paths, path) /\ target[c][1] # -1
      /\ path # Empty /\ Dotted(Basename(path))
      /\ pc[c] = "copyToWait" => sock[c][2] # "ACK"
  BY <1>3 DEF Settled, CopyFacts
<1>5. path \in DOMAIN disk[s]
  <2>1. Mirrored(c) /\ ~Deleted(c)
    BY <1>3 DEF Settled, Deleted, Copying, Editing
  <2> QED BY <1>2, <1>4, <2>1, OnDisk
<1>6. Exists(s, path) /\ ~IsDir(s, path)
  BY <1>4, <1>5 DEF Exists, IsDir, Settled, Kinds
<1>7. /\ shipment' = [shipment EXCEPT ![c] = "file"] /\ disk' = disk
      /\ SSAnswer(s, c, 1, TRUE)
  BY <1>6 DEF SSSend
<1>8. /\ sock' = [sock EXCEPT ![c][1] = "ACK"]
      /\ UNCHANGED <<mpc, pc, verb, args, no_args, target, accessible_paths, StorageServersInfo,
                     result>>
  BY <1>7 DEF SSAnswer, mainVars, tableVars, lineVars
<1>9. sock'[c][1] = "ACK" /\ sock'[c][2] = sock[c][2] /\ shipment'[c] = "file"
  BY <1>7, <1>8, HandlerTypes
<1>10. (Created(c)' <=> Created(c)) /\ (Deleted(c)' <=> Deleted(c)) /\ (Copied(c)' <=> Copied(c))
  BY <1>3, <1>8, <1>9 DEF Created, Deleted, Copied, Copying, Editing
<1>11. Mirrored(c)' /\ Placed' /\ Kinds'
  BY <1>7, <1>8, <1>10, StillPending, PlacedStutter, KindsStutter DEF Settled
<1> QED BY <1>3, <1>4, <1>8, <1>9, <1>11, CopyServed

(* The file a copy makes belongs to the server it is made on. *)
LEMMA CopyBelongs ==
  ASSUME PlainCommands, ConnInv, NEW c \in Client, Settled(c), pc[c] \in Copying, ~Pending(c),
         NEW s \in Server, s = SlotServer(target[c][2] + 1),
         NEW r, PlacedAt(r)
  PROVE  Belongs(s, Copy(c), r)
<1>1. PICK v : v = target[c][2]
  OBVIOUS
<1>2. /\ v = get_value(accessible_paths, args[c][2]) /\ v # -1
      /\ args[c][2] = Empty => AtRoot(Copy(c))
  BY <1>1 DEF Settled, CopyFacts
<1>3. args[c][1] \in Str /\ args[c][2] \in Str
  BY HandlerTypes
<1>4. Basename(args[c][1]) \in Str
  BY <1>3, BasenameType
<1>5. Copy(c) \in Str /\ Copy(c) # Empty /\ Under(Copy(c), args[c][2])
  BY <1>3, <1>4, JoinType, JoinNotEmpty, UnderJoin DEF Copy
<1>6. CASE args[c][2] = Empty
  <2>1. Empty \in DOMAIN accessible_paths /\ accessible_paths[Empty] + 1 \in Slots
        /\ accessible_paths[Empty] = v
    BY <1>2, <1>6, LookedUp
  <2>2. r = s
    BY <1>1, <2>1 DEF PlacedAt
  <2> QED BY <1>2, <1>5, <1>6, <2>2 DEF Belongs
<1>7. CASE args[c][2] # Empty
  <2>1. Mirrored(c) /\ ~Deleted(c)
    BY DEF Settled, Pending
  <2>2. args[c][2] \in DOMAIN disk[s]
    BY <1>1, <1>2, <1>7, <2>1, OnDisk
  <2>3. Belongs(s, args[c][2], r)
    BY <2>2 DEF PlacedAt
  <2> QED BY <1>3, <1>5, <2>3, BelongsUnder
<1> QED BY <1>6, <1>7

LEMMA ReceiveSettled ==
  ASSUME ServersApart, PlainCommands, ConnInv, NEW c \in Client, Settled(c), NEW s \in Server,
         SSReceive(s, c)
  PROVE  Settled(c)'
<1>1. session[s] = <<c, 2>> /\ pc[c] = "copying"
  BY DEF SSReceive, Serving
<1>2. sock[c][2] = "open" /\ target[c][2] + 1 \in Slots /\ s = SlotServer(target[c][2] + 1)
  BY <1>1, Serves
<1>3. sock[c][1] \in {"queued", "open", "ACK"} /\ (sock[c][1] = "ACK" => shipment[c] = "file")
  BY <1>1 DEF Settled, CopyFacts, Copying
<1>4. ~Pending(c) /\ pc[c] \in Copying
  BY <1>1, <1>2 DEF Pending, Created, Deleted, Copied, Editing, Copying
<1>5. PICK name : name = Basename(args[c][1])
  OBVIOUS
<1>6. name \in Str /\ name \o << >> = name
  <2>1. name \in Str
    BY <1>5, HandlerTypes, BasenameType
  <2> QED BY <2>1, ConcatEmptySeq DEF Str
<1>7. sock[c][1] = "ACK" /\ shipment[c] = "file" /\ ReceiveInto(s, c, name, TRUE)
  <2>1. sock[c][1] = "ACK" /\ shipment[c] = "file"
    BY <1>3 DEF SSReceive
  <2>2. ~Coalesce
    BY DEF PlainCommands
  <2>3. ReceiveInto(s, c, name \o << >>, TRUE)
    BY <1>5, <2>1, <2>2, Zenon DEF SSReceive
  <2> QED BY <1>6, <2>1, <2>3
<1>8. UNCHANGED <<mpc, pc, verb, args, no_args, target, accessible_paths, StorageServersInfo,
                  result>>
  BY <1>7 DEF ReceiveInto, SSDies, mainVars, tableVars, lineVars
<1>9. CASE SSDies(s)
  <2>1. disk' = disk /\ shipment' = shipment
    BY <1>9 DEF SSDies
  <2>2. sock'[c][2] \in {"dead", "refused"}
    <3>1. sock'[c][2] = CASE session[s] = <<c, 2>> -> "dead"
                          [] \E i \in 1..Len(backlog[s]) : backlog[s][i] = <<c, 2>> -> "refused"
                          [] OTHER -> sock[c][2]
      BY <1>9 DEF SSDies
    <3> QED BY <1>1, <3>1
  <2>3. sock'[c][1] = "ACK"
    <3>1. session[s] # <<c, 1>>
      BY <1>1
    <3>2. ~\E i \in 1..Len(backlog[s]) : backlog[s][i] = <<c, 1>>
      BY <1>7 DEF ConnInv, Agree, Waits
    <3> QED BY <1>7, <1>9, <3>1, <3>2 DEF SSDies
  <2>4. ~Pending(c)' /\ ~Copied(c)'
    BY <1>1, <1>8, <2>2 DEF Pending, Created, Deleted, Copied, Editing
  <2>5. Mirrored(c)' /\ Placed' /\ Kinds'
    BY <1>4, <1>8, <2>1, <2>4, StillIdle, PlacedStutter, KindsStutter DEF Settled
  <2> QED BY <1>1, <1>4, <1>7, <1>8, <2>1, <2>3, <2>4, <2>5, CopyServed
<1>10. CASE ~SSDies(s)
  <2>1. PICK p : p = Copy(c) /\ p = Join(args[c][2], name)
    BY <1>5 DEF Copy
  <2>2. name # name \o <<TarGz>>
    BY <1>6, LongerName
  <2>3. /\ disk' = Stored(s, p, "file")
        /\ shipment' = [shipment EXCEPT ![c] = "file"]
        /\ sock' = [sock EXCEPT ![c] = [j \in {1, 2} |-> IF j = 2 THEN "ACK" ELSE sock[c][1]]]
    BY <1>5, <1>7, <1>10, <2>1, <2>2 DEF ReceiveInto
  <2>4. sock'[c][2] = "ACK" /\ sock'[c][1] = "ACK" /\ shipment'[c] = "file"
    BY <1>7, <2>3, HandlerTypes
  <2>5. Copied(c)' /\ ~Created(c)' /\ ~Deleted(c)'
    BY <1>1, <1>8, <2>4 DEF Created, Deleted, Copied, Editing
  <2>6. /\ DOMAIN disk'[s] = DOMAIN disk[s] \cup {p}
        /\ \A t \in Server \ {s} : disk'[t] = disk[t]
        /\ \A q \in DOMAIN disk'[s] : disk'[s][q] = "dir" => ~Dotted(Basename(q))
    <3>1. /\ DOMAIN disk'[s] = DOMAIN disk[s] \cup {p}
          /\ \A q \in DOMAIN disk[s] \cup {p} : disk'[s][q] = IF q = p THEN "file" ELSE disk[s][q]
          /\ \A t \in Server \ {s} : disk'[t] = disk[t]
      BY <2>3, HandlerTypes, StoredIs
    <3>2. \A q \in DOMAIN disk[s] : disk[s][q] = "dir" => ~Dotted(Basename(q))
      BY DEF Settled, Kinds
    <3> QED BY <3>1, <3>2
  <2>7. PICK v : v = target[c][2] /\ v + 1 \in Slots /\ s = SlotServer(v + 1)
    BY <1>2
  <2>8. \A k \in Slots : Expected(c, k)' = RoutesTo(k)' \cup (IF k = v + 1 THEN {p} ELSE {})
    <3>1. Copy(c)' = p /\ target'[c][2] = v
      BY <1>8, <2>1, <2>7 DEF Copy
    <3> QED BY <2>5, <3>1 DEF Expected
  <2>9. \A r \in Server \cup {Nobody} : PlacedAt(r) => Belongs(s, p, r)
    BY <1>2, <1>4, <2>1, CopyBelongs
  <2>10. Mirrored(c)' /\ Placed' /\ Kinds'
    BY <1>4, <1>8, <2>6, <2>7, <2>8, <2>9, GrownMirror
  <2> QED BY <1>1, <1>4, <1>8, <2>4, <2>10, CopyServed
<1> QED BY <1>9, <1>10

(* A server that listens, accepts or crashes takes no answer back. *)
LEMMA QuietSockets ==
  ASSUME ConnInv, NEW c \in Client, NEW s \in Server, SSListen(s) \/ SSAccept(s) \/ SSCrash(s)
  PROVE  /\ UNCHANGED <<mpc, pc, verb, args, no_args, target, result, reply, accessible_paths,
                        StorageServersInfo, disk, shipment>>
         /\ \A j \in {1, 2} : sock'[c][j] = "ACK" <=> sock[c][j] = "ACK"
         /\ MaxCrashes = 0 /\ sock[c][1] \in {"queued", "open", "ACK"} =>
               sock'[c][1] \in {"queued", "open", "ACK"}
<1>1. UNCHANGED <<mpc, pc, verb, args, no_args, target, result, reply, accessible_paths,
                  StorageServersInfo, disk, shipment>>
  BY DEF SSListen, SSAccept, SSCrash, SSDies, mainVars, tableVars, handlerVars, lineVars
<1>2. CASE SSListen(s)
  <2>1. UNCHANGED sock
    BY <1>2 DEF SSListen, handlerVars
  <2> QED BY <1>1, <2>1
<1>3. CASE SSAccept(s)
  <2>1. PICK h : h = Head(backlog[s])
    OBVIOUS
  <2>2. backlog[s] \in Seq(Conn) /\ backlog[s] # << >>
    BY <1>3, HandlerTypes DEF SSAccept, TypeOK, ServerTypeOK
  <2>3. 1 \in 1..Len(backlog[s]) /\ h = backlog[s][1] /\ h \in Conn
    BY <2>1, <2>2, EmptySeq, LenProperties, HeadTailProperties, ElementOfSeq
  <2>4. PICK d \in Client, i \in {1, 2} : h = <<d, i>>
    BY <2>3 DEF Conn
  <2>5. sock[d][i] = "queued"
    <3>1. Waits(s, d, i)
      BY <2>3, <2>4 DEF Waits
    <3> QED BY <3>1 DEF ConnInv, Agree
  <2>6. sock' = [sock EXCEPT ![d][i] = "open"]
    <3>1. sock' = [sock EXCEPT ![h[1]][h[2]] = "open"]
      BY <1>3, <2>1 DEF SSAccept
    <3>2. h[1] = d /\ h[2] = i
      BY <2>4
    <3> QED BY <3>1, <3>2
  <2>7. \A j \in {1, 2} : sock'[c][j] = sock[c][j] \/ (sock[c][j] = "queued" /\ sock'[c][j] = "open")
    BY <2>5, <2>6, HandlerTypes
  <2> QED BY <1>1, <2>7
<1>4. CASE SSCrash(s)
  <2>1. SSDies(s) /\ MaxCrashes # 0
    BY <1>4, ConfigAssumption, HandlerTypes DEF SSCrash, TypeOK, ServerTypeOK
  <2>2. \A j \in {1, 2} : sock'[c][j] = "ACK" <=> sock[c][j] = "ACK"
    <3> SUFFICES ASSUME NEW j \in {1, 2} PROVE sock'[c][j] = "ACK" <=> sock[c][j] = "ACK"
      OBVIOUS
    <3>1. session[s] = <<c, j>> => sock[c][j] # "ACK"
      BY DEF ConnInv, Agree
    <3>2. (\E i \in 1..Len(backlog[s]) : backlog[s][i] = <<c, j>>) => sock[c][j] # "ACK"
      BY DEF ConnInv, Agree, Waits
    <3>3. sock'[c][j] = CASE session[s] = <<c, j>> -> "dead"
                          [] \E i \in 1..Len(backlog[s]) : backlog[s][i] = <<c, j>> -> "refused"
                          [] OTHER -> sock[c][j]
      BY <2>1 DEF SSDies
    <3>4. CASE session[s] = <<c, j>>
      <4>1. sock'[c][j] \in {"dead", "refused"}
        BY <3>3, <3>4
      <4> QED BY <3>1, <3>4, <4>1
    <3>5. CASE session[s] # <<c, j>>
      BY <3>2, <3>3, <3>5
    <3> QED BY <3>4, <3>5
  <2> QED BY <1>1, <2>1, <2>2
<1> QED BY <1>2, <1>3, <1>4

LEMMA QuietSettled ==
  ASSUME ConnInv, NEW c \in Client, Settled(c), NEW s \in Server,
         SSListen(s) \/ SSAccept(s) \/ SSCrash(s)
  PROVE  Settled(c)'
<1>1. pc[c] \in Copying /\ pc[c] # "copyFrom" =>
         sock[c][1] \in {"queued", "open", "ACK"} /\ MaxCrashes = 0
  BY DEF Settled, CopyFacts
<1> QED BY <1>1, QuietSockets, SettledStutter

-----------------------------------------------------------------------------
(* Before the client has its handler. *)

LEMMA PublishedStutter ==
  ASSUME NEW c \in Client, Published(c), mpc # "publish", mpc' # "publish",
         UNCHANGED <<args, no_args, accessible_paths, StorageServersInfo, disk>>
  PROVE  Published(c)'
<1>1. /\ \A k : RoutesTo(k)' = RoutesTo(k) /\ SlotServer(k)' = SlotServer(k)
      /\ Slots' = Slots
  BY SameRoutes
<1> QED BY <1>1 DEF Published, GivenArgs

LEMMA PublishedFrame ==
  ASSUME NEW c \in Client, Published(c),
         UNCHANGED <<mpc, peer, slot, args, no_args, accessible_paths, StorageServersInfo, disk>>
  PROVE  Published(c)'
<1>1. /\ \A k : RoutesTo(k)' = RoutesTo(k) /\ SlotServer(k)' = SlotServer(k)
      /\ Slots' = Slots
  BY SameRoutes
<1> QED BY <1>1 DEF Published, GivenArgs

LEMMA SlotStored ==
  ASSUME ConnInv, NEW new, StorageServersInfo' = Append(StorageServersInfo, new)
  PROVE  /\ Len(StorageServersInfo') = Len(StorageServersInfo) + 1 /\ Slots \subseteq Slots'
         /\ StorageServersInfo'[Len(StorageServersInfo) + 1] = new
         /\ \A k \in Slots : StorageServersInfo'[k] = StorageServersInfo[k]
<1>1. PICK n \in Nat : n = Len(StorageServersInfo) /\ Slots = 1..n
  BY HandlerTypes, LenProperties DEF TypeOK, TableTypeOK, Slots
<1>2. StorageServersInfo \in Seq(SlotType)
  BY HandlerTypes DEF TypeOK, TableTypeOK
<1>3. StorageServersInfo \in Seq(SlotType \cup {new}) /\ new \in SlotType \cup {new}
  <2>1. Len(StorageServersInfo) \in Nat /\ \A k \in 1..Len(StorageServersInfo) : StorageServersInfo[k] \in SlotType
    BY <1>2, LenProperties, ElementOfSeq
  <2> QED BY <1>2, <2>1
<1>4. /\ Len(StorageServersInfo') = n + 1 /\ StorageServersInfo'[n + 1] = new
      /\ \A k \in 1..n : StorageServersInfo'[k] = StorageServersInfo[k]
  BY <1>1, <1>3, AppendProperties
<1>5. Slots' = 1..(n + 1)
  BY <1>4 DEF Slots
<1> QED BY <1>1, <1>4, <1>5

(* A slot comes without routes. *)
LEMMA StoreInfoPublished ==
  ASSUME ConnInv, NEW c \in Client, Published(c), MainStoreInfo
  PROVE  Published(c)'
<1> DEFINE new == SlotOf(peer)
<1>1. /\ mpc = "info" /\ mpc' = "publish" /\ slot' = 0 /\ peer' = peer
      /\ StorageServersInfo' = Append(StorageServersInfo, new)
      /\ UNCHANGED <<accessible_paths, args, no_args, disk>>
  BY DEF MainStoreInfo, handlerVars, lineVars, serverVars
<1>2. PICK n \in Nat : n = Len(StorageServersInfo) /\ Slots = 1..n
  BY HandlerTypes, LenProperties DEF TypeOK, TableTypeOK, Slots
<1>3. /\ Len(StorageServersInfo') = n + 1 /\ StorageServersInfo'[n + 1] = new
      /\ \A k \in 1..n : StorageServersInfo'[k] = StorageServersInfo[k]
  <2> HIDE DEF new
  <2> QED BY <1>1, <1>2, SlotStored
<1>4. SlotServer(n + 1)' = peer' /\ \A k \in 1..n : SlotServer(k)' = SlotServer(k)
  <2>1. new.server = peer
    BY DEF SlotOf
  <2> QED BY <1>1, <1>3, <2>1 DEF SlotServer
<1>5. \A k : RoutesTo(k)' = RoutesTo(k)
  BY <1>1 DEF RoutesTo
<1>6. RoutesTo(n + 1) = {}
  <2>1. \A p \in DOMAIN accessible_paths :
           accessible_paths[p] \in Int /\ accessible_paths[p] < n
    <3>1. RoutesResolve
      BY RoutesSuffice DEF ConnInv, Inv
    <3> QED BY <1>2, <3>1, HandlerTypes DEF RoutesResolve, TypeOK, TableTypeOK, TableType
  <2>2. \A v \in Int : v < n => v # (n + 1) - 1
    OBVIOUS
  <2> QED BY <2>1, <2>2 DEF RoutesTo
<1>7. {Export[peer'][i] : i \in {i \in 1..Len(Export[peer']) : i <= slot'}} \ {Empty} = {}
  BY <1>1
<1>8. \A k \in 1..n : RoutesTo(k) = Exports(SlotServer(k))
  BY <1>1, <1>2 DEF Published
<1>9. Slots' = 1..(n + 1)
  BY <1>3 DEF Slots
<1>10. ASSUME NEW k \in Slots'
       PROVE  RoutesTo(k)' = IF mpc' = "publish" /\ k = Len(StorageServersInfo')
                 THEN {Export[peer'][i] : i \in {i \in 1..Len(Export[peer']) : i <= slot'}} \ {Empty}
                 ELSE Exports(SlotServer(k)')
  <2>1. CASE k = n + 1
    BY <1>1, <1>3, <1>5, <1>6, <1>7, <2>1
  <2>2. CASE k # n + 1
    <3>1. k \in 1..n /\ k # Len(StorageServersInfo')
      BY <1>3, <1>9, <2>2
    <3> QED BY <1>4, <1>5, <1>8, <3>1
  <2> QED BY <2>1, <2>2
<1>11. \A k : Exports(SlotServer(k))' = Exports(SlotServer(k)')
  BY DEF Exports
<1>12. peer' = SlotServer(Len(StorageServersInfo))'
  BY <1>3, <1>4 DEF SlotServer
<1> QED BY <1>1, <1>10, <1>11, <1>12 DEF Published, GivenArgs

(* One path more of the server that registers; no other slot loses it. *)
LEMMA PublishPublished ==
  ASSUME ServersApart, ConnInv, NEW c \in Client, Published(c), MainPublish
  PROVE  Published(c)'
<1>1. /\ mpc = "publish" /\ mpc' = "publish" /\ peer' = peer /\ slot' = slot + 1
      /\ UNCHANGED <<StorageServersInfo, args, no_args, disk>>
  BY DEF MainPublish, handlerVars, lineVars, serverVars
<1>2. PICK n \in Nat : n = Len(StorageServersInfo) /\ Slots = 1..n
  BY HandlerTypes, LenProperties DEF TypeOK, TableTypeOK, Slots
<1>3. storage_server_count = n - 1 /\ n \in Slots
  <2>1. storage_server_count \in Nat
    BY HandlerTypes DEF TypeOK, MainTypeOK
  <2>2. n = storage_server_count + 1
    BY <1>1, <1>2 DEF ConnInv, Inv, Registration
  <2> QED BY <1>2, <2>1, <2>2
<1>4. peer \in Server /\ peer = SlotServer(n)
  BY <1>1, <1>2 DEF Published, ConnInv, Inv, PeerIsWhatItSaid
<1>5. PICK m \in Nat : m = Len(Export[peer])
  BY <1>4, ProcessAssumption, LenProperties
<1>6. slot \in Nat
  BY HandlerTypes DEF TypeOK, MainTypeOK
<1>7. PICK path : path = IF slot < m THEN Export[peer][slot + 1] ELSE Empty
  OBVIOUS
<1>8. accessible_paths' = set_value(accessible_paths, path, n - 1)
  BY <1>3, <1>5, <1>7 DEF MainPublish
<1>9. \A k \in Int : RoutesTo(k)' = IF n - 1 = k - 1 THEN RoutesTo(k) \cup ({path} \ {Empty})
                                    ELSE RoutesTo(k) \ {path}
  <2>1. n - 1 \in Int
    OBVIOUS
  <2> QED BY <1>8, <2>1, SetRoutes
<1> DEFINE Shown(i) == {Export[peer][k] : k \in {k \in 1..m : k <= i}} \ {Empty}
<1>10. Shown(slot) \cup ({path} \ {Empty}) = Shown(slot + 1)
  <2>1. CASE slot < m
    <3>1. {k \in 1..m : k <= slot + 1} = {k \in 1..m : k <= slot} \cup {slot + 1}
      BY <1>6, <2>1
    <3>2. path = Export[peer][slot + 1]
      BY <1>7, <2>1
    <3> QED BY <3>1, <3>2
  <2>2. CASE ~(slot < m)
    <3>1. {k \in 1..m : k <= slot + 1} = {k \in 1..m : k <= slot}
      BY <1>6, <2>2
    <3>2. path = Empty
      BY <1>7, <2>2
    <3> QED BY <3>1, <3>2
  <2> QED BY <2>1, <2>2
<1>11. RoutesTo(n)' = Shown(slot + 1)
  <2>1. RoutesTo(n) = Shown(slot)
    BY <1>1, <1>2, <1>3, <1>5 DEF Published
  <2>2. RoutesTo(n)' = RoutesTo(n) \cup ({path} \ {Empty})
    BY <1>9
  <2> HIDE DEF Shown
  <2> QED BY <1>10, <2>1, <2>2
<1>12. ASSUME NEW k \in Slots, k # n PROVE RoutesTo(k)' = Exports(SlotServer(k))
  <2>1. RoutesTo(k) = Exports(SlotServer(k))
    BY <1>2, <1>12 DEF Published
  <2>2. RoutesTo(k)' = RoutesTo(k) \ {path}
    BY <1>2, <1>9, <1>12
  <2>3. SlotServer(k) \in Server \ {peer}
    BY <1>3, <1>4, <1>12, SlotsAre, SlotOnce
  <2>4. path \notin Exports(SlotServer(k))
    <3>1. CASE path = Empty
      BY <3>1 DEF Exports
    <3>2. CASE path # Empty
      <4>1. path \in Exports(peer)
        <5>1. slot < m /\ path = Export[peer][slot + 1]
          BY <1>7, <3>2
        <5>2. slot + 1 \in 1..m
          BY <1>6, <5>1
        <5> QED BY <1>5, <3>2, <5>1, <5>2 DEF Exports
      <4>2. Under(path, path)
        BY <1>4, <4>1, StringsOf, UnderSelf
      <4> QED BY <1>4, <2>3, <4>1, <4>2 DEF ServersApart
    <3> QED BY <3>1, <3>2
  <2> QED BY <2>1, <2>2, <2>4
<1>13. Slots' = Slots /\ Len(StorageServersInfo') = n /\ \A k : SlotServer(k)' = SlotServer(k)
  BY <1>1, <1>2 DEF Slots, SlotServer
<1>14. \A k : Exports(SlotServer(k))' = Exports(SlotServer(k)')
  BY DEF Exports
<1>15. peer' = SlotServer(Len(StorageServersInfo))'
  BY <1>1, <1>2, <1>4, <1>13 DEF SlotServer
<1> QED BY <1>1, <1>5, <1>11, <1>12, <1>13, <1>14, <1>15 DEF Published, GivenArgs

(* A server that is told ACK has all its paths published. *)
LEMMA RegisterPublished ==
  ASSUME ConnInv, NEW c \in Client, Published(c), MainRegister
  PROVE  Published(c)'
<1>1. /\ mpc = "publish" /\ mpc' = "accept" /\ slot >= MAX_ACC_PATHS
      /\ UNCHANGED <<StorageServersInfo, accessible_paths, args, no_args, disk>>
  BY DEF MainRegister, tableVars, handlerVars, lineVars
<1>2. peer \in Server /\ peer = SlotServer(Len(StorageServersInfo))
  BY <1>1 DEF Published, ConnInv, Inv, PeerIsWhatItSaid
<1>3. {i \in 1..Len(Export[peer]) : i <= slot} = 1..Len(Export[peer])
  <2>1. Len(Export[peer]) \in Nat /\ Len(Export[peer]) <= MAX_ACC_PATHS
    BY <1>2, ProcessAssumption, LenProperties
  <2>2. slot \in Int /\ MAX_ACC_PATHS \in Int
    BY HandlerTypes, ConfigAssumption DEF TypeOK, MainTypeOK
  <2> QED BY <1>1, <2>1, <2>2
<1>4. \A k \in Slots : RoutesTo(k) = Exports(SlotServer(k))
  <2> SUFFICES ASSUME NEW k \in Slots PROVE RoutesTo(k) = Exports(SlotServer(k))
    OBVIOUS
  <2>1. CASE k = Len(StorageServersInfo)
    BY <1>1, <1>2, <1>3, <2>1 DEF Published, Exports
  <2>2. CASE k # Len(StorageServersInfo)
    BY <2>2 DEF Published
  <2> QED BY <2>1, <2>2
<1>5. /\ \A k : RoutesTo(k)' = RoutesTo(k) /\ SlotServer(k)' = SlotServer(k)
      /\ Slots' = Slots
  BY <1>1, SameRoutes
<1>6. \A k : Exports(SlotServer(k))' = Exports(SlotServer(k)')
  BY DEF Exports
<1> QED BY <1>1, <1>4, <1>5, <1>6 DEF Published, GivenArgs

(* The handler finds the directory exact. *)
LEMMA StartSettled ==
  ASSUME ServersApart, ConnInv, NEW c \in Client, Published(c), MainStartHandler, peer = c
  PROVE  Started(c)' /\ Settled(c)'
<1>1. /\ mpc = "dispatch" /\ mpc' = "accept" /\ pc' = [pc EXCEPT ![c] = "recv"]
      /\ UNCHANGED <<StorageServersInfo, accessible_paths, args, no_args, disk>>
  BY DEF MainStartHandler, tableVars, lineVars, serverVars
<1>2. pc'[c] = "recv" /\ Started(c)'
  BY <1>1, HandlerTypes DEF Started
<1>3. disk = InitialDisk /\ \A k \in Slots : RoutesTo(k) = Exports(SlotServer(k))
  BY <1>1 DEF Published
<1>4. \A s \in Server : DOMAIN disk[s] = Exports(s)
  BY <1>3 DEF ServersApart
<1>5. Mirrored(c)'
  <2>1. \A k : Expected(c, k)' = RoutesTo(k)'
    BY <1>2, IdleAgain DEF Expected, Pending
  <2>2. /\ \A k : RoutesTo(k)' = RoutesTo(k) /\ SlotServer(k)' = SlotServer(k)
        /\ Slots' = Slots
    BY <1>1, SameRoutes
  <2> QED BY <1>1, <1>3, <1>4, <2>1, <2>2, SlotsAre, SlotOnce DEF Mirrored
<1>6. Placed'
  <2>1. PICK r \in Server \cup {Nobody} :
          Empty \in DOMAIN accessible_paths /\ accessible_paths[Empty] + 1 \in Slots =>
             r = SlotServer(accessible_paths[Empty] + 1)
    <3>1. CASE Empty \in DOMAIN accessible_paths /\ accessible_paths[Empty] + 1 \in Slots
      BY <3>1, SlotsAre
    <3>2. CASE ~(Empty \in DOMAIN accessible_paths /\ accessible_paths[Empty] + 1 \in Slots)
      BY <3>2
    <3> QED BY <3>1, <3>2
  <2>2. ASSUME NEW s \in Server, NEW p \in DOMAIN disk[s] PROVE Belongs(s, p, r)
    <3>1. p \in Exports(s) /\ p # Empty /\ Under(p, p)
      BY <1>4, StringsOf, UnderSelf
    <3> QED BY <3>1 DEF Belongs, InTree
  <2>3. Placed
    BY <2>1, <2>2 DEF Placed, PlacedAt
  <2> QED BY <1>1, <2>3, PlacedStutter
<1>7. Kinds'
  <2>1. Kinds
    BY <1>3, <1>4 DEF Kinds, ServersApart
  <2> QED BY <1>1, <2>1, KindsStutter
<1>8. GivenArgs(c)'
  BY <1>1 DEF Published, GivenArgs
<1> QED BY <1>1, <1>2, <1>5, <1>6, <1>7, <1>8, IdleAgain DEF Settled

LEMMA HandleHandles == ASSUME NEW c \in Client, Handle(c) PROVE Handling(pc[c])
BY DEF Handling, Handle, HandleBlank, HandleCreateDelete, HandleLocate, HandleCopy,
   HandleInvalid, RecvCommand, OpenSocket, ClearBuffer, RecvResult, CheckResult,
   CommitCreate, CommitDelete, CommitFail, OpenFrom, OpenTo, HandshakeOver,
   FacilitateCopy, CopyRelookup, CommitCopyFile, CommitCopyDir

LEMMA NoneServed ==
  ASSUME NEW x, Client = {x}, ConnInv, ~Started(x), NEW s \in Server
  PROVE  ~SSServe(s)
<1> SUFFICES ASSUME SSServe(s) PROVE FALSE
  OBVIOUS
<1>1. PICK c \in Client, j \in {1, 2} : session[s] = <<c, j>>
  BY DEF SSServe, SSCreate, SSDelete, SSSend, SSReceive, Serving
<1>2. pc[c] \in UsesFirst \cup UsesSecond
  BY <1>1, Serves
<1> QED BY <1>2 DEF UsesFirst, UsesSecond, Started

(* Every step before the handler starts, and the one that starts it. *)
LEMMA PublishedNext ==
  ASSUME NEW x, Client = {x}, ServersApart, PlainCommands, ConnInv, Published(x), ~Started(x),
         [Next]_vars
  PROVE  IF Started(x)' THEN Settled(x)' ELSE Published(x)'
<1>0. x \in Client /\ pc \in [Client -> HandlerState] /\ TypeOK
  BY HandlerTypes
<1>1. ASSUME UNCHANGED pc PROVE ~Started(x)'
  BY <1>1 DEF Started
<1>2. CASE MainAccept \/ MainRecvToken \/ MainAskInfo \/ MainRefusePorts
  <2>1. /\ mpc # "publish" /\ mpc' # "publish" /\ UNCHANGED pc
        /\ UNCHANGED <<args, no_args, accessible_paths, StorageServersInfo, disk>>
    BY <1>2 DEF MainAccept, MainRecvToken, MainAskInfo, MainRefusePorts,
       tableVars, handlerVars, lineVars, serverVars
  <2> QED BY <1>0, <1>1, <2>1, PublishedStutter
<1>3. CASE MainReject
  <2>1. /\ mpc # "publish" /\ mpc' # "publish"
        /\ UNCHANGED <<args, no_args, accessible_paths, StorageServersInfo, disk>>
    BY <1>3 DEF MainReject, tableVars, lineVars
  <2>2. pc'[x] = "off" \/ pc'[x] = pc[x]
    BY <1>0, <1>3 DEF MainReject
  <2> QED BY <1>0, <2>1, <2>2, PublishedStutter DEF Started
<1>4. CASE MainStartHandler
  <2>1. peer = x
    BY <1>4 DEF MainStartHandler, ConnInv, Inv, PeerIsWhatItSaid
  <2> QED BY <1>0, <1>4, <2>1, StartSettled
<1>5. CASE MainStoreInfo
  <2>1. UNCHANGED pc
    BY <1>5 DEF MainStoreInfo, handlerVars
  <2> QED BY <1>0, <1>1, <1>5, <2>1, StoreInfoPublished
<1>6. CASE MainPublish
  <2>1. UNCHANGED pc
    BY <1>6 DEF MainPublish, handlerVars
  <2> QED BY <1>0, <1>1, <1>6, <2>1, PublishPublished
<1>7. CASE MainRegister
  <2>1. UNCHANGED pc
    BY <1>7 DEF MainRegister, handlerVars
  <2> QED BY <1>0, <1>1, <1>7, <2>1, RegisterPublished
<1>8. ASSUME NEW c \in Client, ClientConnect(c)
      PROVE  IF Started(x)' THEN Settled(x)' ELSE Published(x)'
  <2>1. UNCHANGED <<mpc, peer, slot, args, no_args, accessible_paths, StorageServersInfo, disk>>
    BY <1>8 DEF ClientConnect, tableVars, lineVars, serverVars
  <2>2. pc'[x] = "connecting" \/ pc'[x] = pc[x]
    BY <1>0, <1>8 DEF ClientConnect
  <2> QED BY <1>0, <2>1, <2>2, PublishedFrame DEF Started
<1>9. ASSUME NEW c \in Client, Handle(c) PROVE FALSE
  <2>1. Handling(pc[c])
    BY <1>9, HandleHandles
  <2> QED BY <2>1 DEF Handling, Started
<1>10. ASSUME NEW s \in Server, ServerStart(s)
       PROVE  IF Started(x)' THEN Settled(x)' ELSE Published(x)'
  <2>1. UNCHANGED <<pc, mpc, peer, slot, args, no_args, accessible_paths, StorageServersInfo, disk>>
    BY <1>10 DEF ServerStart, tableVars, handlerVars, lineVars
  <2> QED BY <1>0, <1>1, <2>1, PublishedFrame
<1>11. ASSUME NEW s \in Server, SSListen(s) \/ SSAccept(s) \/ SSServe(s) \/ SSCrash(s)
       PROVE  IF Started(x)' THEN Settled(x)' ELSE Published(x)'
  <2>1. UNCHANGED <<pc, mpc, peer, slot, args, no_args, accessible_paths, StorageServersInfo>>
    BY <1>0, <1>11, ServerFrame DEF ServerStep, mainVars, tableVars, lineVars
  <2>2. ~SSServe(s)
    BY <1>0, NoneServed
  <2>3. UNCHANGED disk
    BY <1>11, <2>2 DEF SSListen, SSAccept, SSCrash, SSDies
  <2> QED BY <1>0, <1>1, <2>1, <2>3, PublishedFrame
<1>12. CASE UNCHANGED vars
  <2>1. UNCHANGED <<pc, mpc, peer, slot, args, no_args, accessible_paths, StorageServersInfo, disk>>
    BY <1>12 DEF vars, mainVars, tableVars, handlerVars, lineVars, serverVars
  <2> QED BY <1>0, <1>1, <2>1, PublishedFrame
<1> QED BY <1>2, <1>3, <1>4, <1>5, <1>6, <1>7, <1>8, <1>9, <1>10, <1>11, <1>12 DEF Next, Main

(* Main has nobody to talk to while the handler works. *)
LEMMA MainSilent ==
  ASSUME NEW x, Client = {x}, SessionInv, Settled(x), Started(x), Main, ServersFirst
  PROVE  FALSE
<1>0. /\ x \in Client /\ ConnInv /\ TypeOK
      /\ pc \in [Client -> HandlerState] /\ Handling(pc[x]) /\ mpc = "accept"
  BY HandlerTypes DEF SessionInv, Started, Handling, Settled
<1>1. MainAccept
  BY <1>0 DEF Main, MainAccept, MainRecvToken, MainStartHandler, MainAskInfo, MainReject,
     MainRefusePorts, MainStoreInfo, MainPublish, MainRegister
<1>2. incoming # << >> /\ pc'[x] # "off"
  BY <1>0, <1>1 DEF MainAccept, handlerVars, Handling
<1>3. \A s \in Server : ss[s] # "connecting"
  BY <1>0, <1>2 DEF ServersFirst
<1> QED BY <1>0, <1>2, <1>3, MainIdle

(* Every step after that. *)
LEMMA SettledNext ==
  ASSUME NEW x, Client = {x}, ServersApart, PlainCommands, SessionInv, Settled(x), Started(x),
         [Next /\ ServersFirst]_vars
  PROVE  Started(x)' /\ Settled(x)'
<1>0. /\ x \in Client /\ ConnInv /\ OwnBuffer(x) /\ TypeOK
      /\ pc \in [Client -> HandlerState] /\ Handling(pc[x]) /\ mpc = "accept"
  BY HandlerTypes DEF SessionInv, Started, Handling, Settled
<1>1. ASSUME UNCHANGED pc PROVE Started(x)'
  BY <1>1 DEF Started
<1>2. pc[x] \in Copying /\ pc[x] # "copyFrom" => sock[x][1] \in {"queued", "open", "ACK"}
  BY DEF Settled, CopyFacts
<1>3. ASSUME UNCHANGED <<mpc, pc, verb, args, no_args, target, result, accessible_paths,
                         StorageServersInfo, disk, shipment, sock>>
      PROVE  Started(x)' /\ Settled(x)'
  BY <1>0, <1>1, <1>2, <1>3, SettledStutter
<1>4. ASSUME Main, ServersFirst PROVE FALSE
  BY <1>4, MainSilent
<1>5. ASSUME NEW c \in Client, ClientConnect(c) PROVE FALSE
  BY <1>0, <1>5 DEF ClientConnect, Handling
<1>6. ASSUME NEW c \in Client, Handle(c) PROVE Started(x)' /\ Settled(x)'
  <2>1. Settled(x)'
    BY <1>0, <1>6, HandleSettled
  <2>2. TypeOK /\ PortsUnique /\ RoutesResolve /\ Owners /\ Sockets
    BY <1>0, RoutesSuffice DEF ConnInv, Inv
  <2>3. HandlerStep(x)
    BY <1>0, <1>6, <2>2, HandleHandler
  <2> QED BY <1>0, <2>1, <2>3 DEF HandlerStep, Handling, Started
<1>7. ASSUME NEW s \in Server, ServerStart(s) PROVE Started(x)' /\ Settled(x)'
  BY <1>3, <1>7 DEF ServerStart, tableVars, handlerVars, lineVars
<1>8. ASSUME NEW s \in Server, SSListen(s) \/ SSAccept(s) \/ SSServe(s) \/ SSCrash(s)
      PROVE  Started(x)' /\ Settled(x)'
  <2>1. UNCHANGED pc
    BY <1>0, <1>8, ServerFrame DEF ServerStep
  <2>2. CASE SSListen(s) \/ SSAccept(s) \/ SSCrash(s)
    BY <1>0, <1>1, <2>1, <2>2, QuietSettled
  <2>3. CASE SSServe(s)
    <3>1. SSCreate(s, x) \/ SSDelete(s, x) \/ SSSend(s, x) \/ SSReceive(s, x)
      BY <2>3 DEF SSServe
    <3> QED BY <1>0, <1>1, <2>1, <3>1, CreateSettled, DeleteSettled, SendSettled, ReceiveSettled
  <2> QED BY <1>8, <2>2, <2>3
<1>9. CASE UNCHANGED vars
  BY <1>3, <1>9 DEF vars, mainVars, tableVars, handlerVars, lineVars, serverVars
<1> QED BY <1>4, <1>5, <1>6, <1>7, <1>8, <1>9 DEF Next

(* The inductive invariant, with all that it rests on. *)
MirrorInv == SessionInv /\ SessionMirror

LEMMA MirrorInit == ASSUME Init PROVE MirrorInv
<1>1. SessionInv
  BY SessionInit
<1>2. Slots = {}
  <2>1. StorageServersInfo = << >>
    BY DEF Init
  <2>2. Len(StorageServersInfo) = 0
    BY <2>1
  <2> QED BY <2>2 DEF Slots
<1>3. ASSUME NEW c \in Client PROVE Published(c) /\ ~Started(c)
  <2>1. mpc = "accept" /\ disk = InitialDisk
    BY DEF Init
  <2>2. no_args[c] = 0 /\ pc[c] = "off"
    BY DEF Init
  <2>3. GivenArgs(c)
    BY <2>2 DEF GivenArgs
  <2> QED BY <1>2, <2>1, <2>2, <2>3 DEF Published, Started
<1> QED BY <1>1, <1>3 DEF SessionMirror, MirrorInv

LEMMA MirrorNext ==
  ASSUME NEW x, Client = {x}, ServersApart, PlainCommands, MirrorInv, [Next /\ ServersFirst]_vars
  PROVE  MirrorInv'
<1>1. SessionInv /\ SessionMirror
  BY DEF MirrorInv
<1>2. SessionInv'
  BY <1>1, SessionNext
<1>3. ConnInv /\ [Next]_vars
  BY <1>1 DEF SessionInv
<1>4. CASE Started(x)
  BY <1>1, <1>2, <1>4, SettledNext DEF SessionMirror, MirrorInv
<1>5. CASE ~Started(x)
  BY <1>1, <1>2, <1>3, <1>5, PublishedNext DEF SessionMirror, MirrorInv
<1> QED BY <1>4, <1>5

(* With one client, and every server registered before it comes: between   *)
(* its commands the routes of each server are exactly what is on its disk, *)
(* for servers that keep apart and always start with the same ports, and   *)
(* commands that copy files, if a recv returns what one send sent; then    *)
(* whatever fails, and however servers crash when nothing is copied.       *)
THEOREM DirectoryMirrored ==
  ASSUME NEW x, Client = {x}, ServersApart, PlainCommands
  PROVE  SessionSpec => []DirectoryMirrorsDisks
<1>1. MirrorInv => DirectoryMirrorsDisks
  <2> SUFFICES ASSUME MirrorInv, Quiescent, NEW k \in Slots
               PROVE  RoutesTo(k) = DOMAIN disk[SlotServer(k)]
    BY DEF DirectoryMirrorsDisks, SlotServer
  <2> USE DEF MirrorInv
  <2>1. mpc = "accept" /\ pc[x] \in {"off", "connecting", "recv"}
    BY DEF Quiescent
  <2>2. CASE Started(x)
    BY <2>1, <2>2 DEF Started, SessionMirror, Settled, Mirrored, Expected, Created, Deleted,
       Copied, Editing
  <2>3. CASE ~Started(x)
    <3>1. SlotServer(k) \in Server
      BY SlotsAre DEF SessionInv
    <3> QED BY <2>1, <2>3, <3>1 DEF SessionMirror, Published, ServersApart
  <2> QED BY <2>2, <2>3
<1> QED BY <1>1, MirrorInit, MirrorNext, PTL DEF SessionSpec

-----------------------------------------------------------------------------
(* The refinement of Directory. *)

LEMMA DirectoryPaths ==
  /\ D!Str = Str /\ D!Empty = Empty
  /\ \A a, b : D!Join(a, b) = Join(a, b) /\ D!Under(a, b) = Under(a, b)
  /\ \A a : D!Basename(a) = Basename(a)
BY DEF D!Str, D!Char, Str, Char, D!Empty, Empty, D!Join, Join, D!Under, Under, D!Basename, Basename

(* Nothing the client could see. *)
Unseen(c) == UNCHANGED <<Files, Asked(c), Phase(c), reply[c].text>>

LEMMA UnseenIs ==
  ASSUME NEW c \in Client, c = TheClient, Unseen(c)
  PROVE  UNCHANGED D!directoryVars
BY DEF Unseen, D!directoryVars

LEMMA SameFiles == ASSUME UNCHANGED <<disk, StorageServersInfo>> PROVE Files' = Files
BY DEF Files, Slots, SlotServer

LEMMA SameUnseen ==
  ASSUME NEW c \in Client, UNCHANGED <<disk, StorageServersInfo, verb, args, reply>>,
         Phase(c)' = Phase(c)
  PROVE  Unseen(c)
BY SameFiles DEF Unseen, Asked

(* Of a path that the table leads nowhere no server has a file, of the     *)
(* others one has.                                                         *)
LEMMA KnownFiles ==
  ASSUME ConnInv, NEW c \in Client, Mirrored(c), ~Pending(c), NEW p, NEW v,
         v = get_value(accessible_paths, p)
  PROVE  /\ v # -1 => p \in Files \cup {Empty}
         /\ v = -1 => p \notin Files
<1>1. \A k \in Slots : DOMAIN disk[SlotServer(k)] = RoutesTo(k)
  BY DEF Mirrored, Expected, Pending
<1>2. CASE v # -1
  <2>1. v + 1 \in Slots /\ (p # Empty => p \in RoutesTo(v + 1))
    BY <1>2, LookedUp
  <2> QED BY <1>1, <1>2, <2>1 DEF Files
<1>3. CASE v = -1
  <2> SUFFICES ASSUME NEW k \in Slots, p \in RoutesTo(k) PROVE FALSE
    BY <1>1, <1>3 DEF Files
  <2>1. p \in DOMAIN accessible_paths /\ accessible_paths[p] = k - 1
    BY DEF RoutesTo
  <2>2. PICK n \in Nat : n = Len(StorageServersInfo) /\ Slots = 1..n
    BY HandlerTypes, LenProperties DEF TypeOK, TableTypeOK, Slots
  <2> QED BY <1>3, <2>1, <2>2 DEF get_value
<1> QED BY <1>2, <1>3

(* A command line arrives.                                                 *)
LEMMA AskedIs ==
  ASSUME ConnInv, NEW c \in Client, NEW cmd \in Command, RecvCommand(c, cmd),
         cmd.verb # "BLANK"
  PROVE  /\ Asked(c)' \in D!Request
         /\ Asked(c)'.verb = cmd.verb /\ Asked(c)'.from = args'[c][1] /\ Asked(c)'.to = args'[c][2]
<1>1. verb'[c] = cmd.verb /\ cmd.verb \in Verb
  BY HandlerTypes, ProcessAssumption DEF RecvCommand
<1>2. args'[c][1] \in Str /\ args'[c][2] \in Str
  <2>1. \A i \in {1, 2} : (IF i <= Len(cmd.args) THEN cmd.args[i] ELSE args[c][i]) \in Str
    <3>1. \A i \in {1, 2} : i <= Len(cmd.args) => i \in 1..Len(cmd.args)
      BY ProcessAssumption, LenProperties
    <3> QED BY <3>1, StringsOf, HandlerTypes
  <2>2. args'[c] = [i \in {1, 2} |-> IF i <= Len(cmd.args) THEN cmd.args[i] ELSE args[c][i]]
    BY HandlerTypes DEF RecvCommand
  <2> QED BY <2>1, <2>2
<1> QED BY <1>1, <1>2, DirectoryPaths
        DEF Asked, D!Request, D!Changing, D!Locating, Verb

LEMMA IdleFacts ==
  ASSUME NEW c \in Client, pc[c] \in {"off", "connecting", "recv"}
  PROVE  ~Pending(c) /\ Phase(c) = "idle"
BY DEF Pending, Created, Deleted, Copied, Editing, Phase

LEMMA BusyFacts ==
  ASSUME NEW c \in Client, pc[c] \notin {"off", "connecting", "recv"}
  PROVE  Phase(c) = (IF Pending(c) THEN "done" ELSE "asked")
BY DEF Phase

LEMMA CreateDeleteAsks ==
  ASSUME ConnInv, NEW c \in Client, c = TheClient, Settled(c), NEW cmd \in Command,
         HandleCreateDelete(c, cmd)
  PROVE  D!Ask \/ D!NotFound
<1> DEFINE v == get_value(accessible_paths, args'[c][1])
<1>0. /\ RecvCommand(c, cmd) /\ pc[c] = "recv" /\ cmd.verb \in {"CREATE", "DELETE"}
      /\ UNCHANGED <<tableVars, serverVars>>
      /\ pc' = [pc EXCEPT ![c] = IF v # -1 THEN "connect" ELSE "recv"]
      /\ reply' = [reply EXCEPT ![c] = IF v # -1 THEN NoReply ELSE Reply(1, "NOT FOUND", 0)]
      /\ UNCHANGED sock
  BY DEF HandleCreateDelete, RecvCommand
<1>1. /\ Asked(c)' \in D!Request
      /\ Asked(c)'.verb = cmd.verb /\ Asked(c)'.from = args'[c][1] /\ Asked(c)'.to = args'[c][2]
  BY <1>0, AskedIs
<1>2. Files' = Files
  BY <1>0, SameFiles DEF tableVars, serverVars
<1>3. Phase(c) = "idle" /\ ~Pending(c)
  BY <1>0, IdleFacts
<1>4. /\ v # -1 => args'[c][1] \in Files \cup {Empty}
      /\ v = -1 => args'[c][1] \notin Files
  BY <1>3, KnownFiles DEF Settled
<1>5. pc'[c] = IF v # -1 THEN "connect" ELSE "recv"
  BY <1>0, HandlerTypes
<1>6. reply'[c].text = IF v # -1 THEN "" ELSE "NOT FOUND"
  <2>1. reply \in [Client -> ReplyType]
    BY HandlerTypes DEF TypeOK, HandlerTypeOK
  <2>2. reply'[c] = IF v # -1 THEN NoReply ELSE Reply(1, "NOT FOUND", 0)
    BY <1>0, <2>1
  <2>3. NoReply.text = "" /\ Reply(1, "NOT FOUND", 0).text = "NOT FOUND"
    BY DEF NoReply, Reply
  <2> HIDE DEF v
  <2> QED BY <2>2, <2>3
<1>7. D!Named(Asked(c)') = {args'[c][1]}
  BY <1>0, <1>1 DEF D!Named
<1>8. CASE v # -1
  <2>1. Phase(c)' = "asked"
    BY <1>5, <1>8 DEF Phase, Pending, Created, Deleted, Copied, Editing
  <2>2. \A p \in D!Named(Asked(c)') : p \in Files \cup {Empty}
    BY <1>4, <1>7, <1>8
  <2> HIDE DEF v
  <2> QED BY <1>0, <1>1, <1>2, <1>3, <1>6, <1>8, <2>1, <2>2, DirectoryPaths
          DEF D!Ask, D!Changing, D!Known
<1>9. CASE v = -1
  <2>1. Phase(c)' = "idle"
    BY <1>5, <1>9 DEF Phase
  <2>2. \E p \in D!Named(Asked(c)') : p \notin Files
    BY <1>4, <1>7, <1>9
  <2> HIDE DEF v
  <2> QED BY <1>0, <1>1, <1>2, <1>3, <1>6, <1>9, <2>1, <2>2
          DEF D!NotFound, D!Answer, D!Changing, D!Missing
<1> QED BY <1>8, <1>9

LEMMA CopyAsks ==
  ASSUME ConnInv, NEW c \in Client, c = TheClient, Settled(c), NEW cmd \in Command,
         HandleCopy(c, cmd)
  PROVE  D!Ask \/ D!NotFound
<1> DEFINE v(i) == get_value(accessible_paths, args'[c][i])
           found == v(1) # -1 /\ v(2) # -1
<1>0. /\ RecvCommand(c, cmd) /\ pc[c] = "recv" /\ cmd.verb = "COPY"
      /\ UNCHANGED <<tableVars, serverVars>>
      /\ pc' = [pc EXCEPT ![c] = IF found THEN "copyFrom" ELSE "recv"]
      /\ reply' = [reply EXCEPT ![c] = IF found THEN NoReply ELSE Reply(1, "NOT FOUND", 0)]
      /\ UNCHANGED sock
  BY DEF HandleCopy, RecvCommand
<1>1. /\ Asked(c)' \in D!Request
      /\ Asked(c)'.verb = cmd.verb /\ Asked(c)'.from = args'[c][1] /\ Asked(c)'.to = args'[c][2]
  BY <1>0, AskedIs
<1>2. Files' = Files
  BY <1>0, SameFiles DEF tableVars, serverVars
<1>3. Phase(c) = "idle" /\ ~Pending(c)
  BY <1>0, IdleFacts
<1>4. \A i \in {1, 2} : /\ v(i) # -1 => args'[c][i] \in Files \cup {Empty}
                        /\ v(i) = -1 => args'[c][i] \notin Files
  BY <1>3, KnownFiles DEF Settled
<1>5. pc'[c] = IF found THEN "copyFrom" ELSE "recv"
  BY <1>0, HandlerTypes
<1>6. reply'[c].text = IF found THEN "" ELSE "NOT FOUND"
  <2>1. reply \in [Client -> ReplyType]
    BY HandlerTypes DEF TypeOK, HandlerTypeOK
  <2>2. reply'[c] = IF found THEN NoReply ELSE Reply(1, "NOT FOUND", 0)
    BY <1>0, <2>1
  <2>3. NoReply.text = "" /\ Reply(1, "NOT FOUND", 0).text = "NOT FOUND"
    BY DEF NoReply, Reply
  <2> HIDE DEF found
  <2> QED BY <2>2, <2>3
<1>7. D!Named(Asked(c)') = {args'[c][1], args'[c][2]}
  BY <1>0, <1>1 DEF D!Named
<1>8. CASE found
  <2>1. Phase(c)' = "asked"
    <3>1. pc'[c] = "copyFrom"
      BY <1>5, <1>8
    <3> QED BY <3>1 DEF Phase, Pending, Created, Deleted, Copied, Editing
  <2>2. \A p \in D!Named(Asked(c)') : p \in Files \cup {Empty}
    BY <1>4, <1>7, <1>8
  <2> HIDE DEF found
  <2> QED BY <1>0, <1>1, <1>2, <1>3, <1>6, <1>8, <2>1, <2>2, DirectoryPaths
          DEF D!Ask, D!Changing, D!Known
<1>9. CASE ~found
  <2>1. Phase(c)' = "idle"
    <3>1. pc'[c] = "recv"
      BY <1>5, <1>9
    <3> QED BY <3>1 DEF Phase
  <2>2. \E p \in D!Named(Asked(c)') : p \notin Files
    BY <1>4, <1>7, <1>9
  <2> HIDE DEF found
  <2> QED BY <1>0, <1>1, <1>2, <1>3, <1>6, <1>9, <2>1, <2>2
          DEF D!NotFound, D!Answer, D!Changing, D!Missing
<1> QED BY <1>8, <1>9

(* What is answered at once, and changes nothing. *)
LEMMA LocateAnswers ==
  ASSUME ConnInv, NEW c \in Client, c = TheClient, Settled(c), NEW cmd \in Command,
         HandleLocate(c, cmd) \/ HandleInvalid(c, cmd)
  PROVE  D!Locate \/ D!NotFound \/ D!Invalid
<1> DEFINE v == get_value(accessible_paths, args'[c][1])
<1>0. /\ RecvCommand(c, cmd) /\ pc[c] = "recv" /\ cmd.verb # "BLANK"
      /\ UNCHANGED <<tableVars, serverVars, pc, sock>>
  BY DEF HandleLocate, HandleInvalid, RecvCommand
<1>1. /\ Asked(c)' \in D!Request
      /\ Asked(c)'.verb = cmd.verb /\ Asked(c)'.from = args'[c][1] /\ Asked(c)'.to = args'[c][2]
  BY <1>0, AskedIs
<1>2. Files' = Files
  BY <1>0, SameFiles DEF tableVars, serverVars
<1>3. Phase(c) = "idle" /\ ~Pending(c) /\ Phase(c)' = "idle"
  <2>1. Phase(c)' = "idle"
    BY <1>0 DEF Phase
  <2> QED BY <1>0, <2>1, IdleFacts
<1>4. /\ v # -1 => args'[c][1] \in Files \cup {Empty}
      /\ v = -1 => args'[c][1] \notin Files
  BY <1>3, KnownFiles DEF Settled
<1>5. reply \in [Client -> ReplyType]
  BY HandlerTypes DEF TypeOK, HandlerTypeOK
<1>6. CASE HandleInvalid(c, cmd)
  <2>1. reply'[c] = Reply(6, "", 0) /\ cmd.verb \in {"EXIT", "OTHER"}
    BY <1>5, <1>6 DEF HandleInvalid
  <2>2. reply'[c].text = ""
    <3>1. Reply(6, "", 0).text = ""
      BY DEF Reply
    <3> QED BY <2>1, <3>1
  <2> QED BY <1>1, <1>2, <1>3, <2>1, <2>2 DEF D!Invalid, D!Answer, D!Changing, D!Locating
<1>7. CASE HandleLocate(c, cmd)
  <2>1. PICK t, port : \/ v = -1 /\ reply' = [reply EXCEPT ![c] = Reply(t, "NOT FOUND", 0)]
                       \/ v # -1 /\ reply' = [reply EXCEPT ![c] = Reply(t, "FOUND", port)]
    <3> HIDE DEF v
    <3>1. reply' = [reply EXCEPT ![c] =
               IF v = -1 THEN Reply(CommandType(cmd.verb), "NOT FOUND", 0)
               ELSE Reply(CommandType(cmd.verb), "FOUND", StorageServersInfo[v + 1].client_port)]
      BY <1>7 DEF HandleLocate, v
    <3> QED BY <3>1
  <2>2. reply'[c].text = IF v = -1 THEN "NOT FOUND" ELSE "FOUND"
    <3> HIDE DEF v
    <3>1. v = -1 => reply'[c] = Reply(t, "NOT FOUND", 0)
      BY <1>5, <2>1
    <3>2. v # -1 => reply'[c] = Reply(t, "FOUND", port)
      BY <1>5, <2>1
    <3>3. Reply(t, "NOT FOUND", 0).text = "NOT FOUND" /\ Reply(t, "FOUND", port).text = "FOUND"
      BY DEF Reply
    <3> QED BY <3>1, <3>2, <3>3
  <2>3. cmd.verb \in {"READ", "WRITE", "DETAILS"}
    BY <1>7 DEF HandleLocate
  <2>4. D!Named(Asked(c)') = {args'[c][1]}
    BY <1>1, <2>3 DEF D!Named
  <2>5. CASE v = -1
    <3>1. \E p \in D!Named(Asked(c)') : p \notin Files
      BY <1>4, <2>4, <2>5
    <3> HIDE DEF v
    <3> QED BY <1>1, <1>2, <1>3, <2>2, <2>3, <2>5, <3>1
            DEF D!NotFound, D!Answer, D!Locating, D!Missing
  <2>6. CASE v # -1
    <3>1. Asked(c)'.from \in Files \cup {Empty}
      BY <1>1, <1>4, <2>6
    <3> HIDE DEF v
    <3> QED BY <1>1, <1>2, <1>3, <2>2, <2>3, <2>6, <3>1, DirectoryPaths
            DEF D!Locate, D!Answer, D!Locating, D!Known
  <2> QED BY <2>5, <2>6
<1> QED BY <1>6, <1>7

(* The steps of the handler between the command line and the answer.       *)
LEMMA WaitUnseen ==
  ASSUME NEW c \in Client, UNCHANGED <<disk, StorageServersInfo, verb, args, reply>>,
         pc[c] \notin {"off", "connecting", "recv"}, pc'[c] \notin {"off", "connecting", "recv"},
         Pending(c)' <=> Pending(c)
  PROVE  Unseen(c)
<1>1. Phase(c)' = Phase(c)
  BY DEF Phase
<1> QED BY <1>1, SameUnseen

LEMMA EditUnseen ==
  ASSUME ConnInv, NEW c \in Client, ~NamingServerDies,
         OpenSocket(c) \/ ClearBuffer(c) \/ RecvResult(c) \/ CheckResult(c)
  PROVE  Unseen(c)
<1>1. CASE OpenSocket(c)
  <2>1. /\ pc[c] = "connect" /\ sock' = [sock EXCEPT ![c][1] = "queued"]
        /\ pc' = [pc EXCEPT ![c] = "clear"]
        /\ UNCHANGED <<tableVars, lineVars, reply, disk>>
    BY <1>1 DEF OpenSocket, Connect
  <2>2. sock'[c][1] = "queued" /\ pc'[c] = "clear"
    BY <2>1, HandlerTypes
  <2>3. Pending(c)' <=> Pending(c)
    BY <2>1, <2>2 DEF Pending, Created, Deleted, Copied, Editing
  <2> QED BY <2>1, <2>2, <2>3, WaitUnseen DEF tableVars, lineVars
<1>2. CASE ClearBuffer(c) \/ RecvResult(c) \/ CheckResult(c)
  <2>1. /\ pc[c] \in {"clear", "result", "check"} /\ pc'[c] \in {"result", "check", "commit"}
        /\ UNCHANGED <<tableVars, lineVars, sock, reply, serverVars>>
    BY <1>2, HandlerTypes DEF ClearBuffer, RecvResult, CheckResult, HandshakeFails
  <2>2. Pending(c)' <=> Pending(c)
    BY <2>1 DEF Pending, Created, Deleted, Copied, Editing, lineVars
  <2> QED BY <2>1, <2>2, WaitUnseen DEF tableVars, lineVars, serverVars
<1> QED BY <1>1, <1>2

LEMMA CopyUnseen ==
  ASSUME ConnInv, NEW c \in Client, Settled(c), ~NamingServerDies,
         \/ OpenFrom(c) \/ OpenTo(c) \/ HandshakeOver(c) \/ CopyRelookup(c)
         \/ FacilitateCopy(c) /\ sock[c][1] = "ACK" /\ sock[c][2] = "ACK"
  PROVE  Unseen(c)
<1>1. CASE OpenFrom(c) \/ OpenTo(c)
  <2>1. PICK j \in {1, 2} :
           /\ pc[c] = (IF j = 1 THEN "copyFrom" ELSE "copyTo")
           /\ pc' = [pc EXCEPT ![c] = IF j = 1 THEN "copyFromWait" ELSE "copyToWait"]
           /\ sock' = [sock EXCEPT ![c][j] = "queued"]
           /\ UNCHANGED <<tableVars, lineVars, reply, disk>>
    <3>1. CASE OpenFrom(c)
      BY <3>1 DEF OpenFrom, Connect
    <3>2. CASE OpenTo(c)
      BY <3>2 DEF OpenTo, Connect
    <3> QED BY <1>1, <3>1, <3>2
  <2>2. pc'[c] = IF j = 1 THEN "copyFromWait" ELSE "copyToWait"
    BY <2>1, HandlerTypes
  <2>3. ~Pending(c) /\ ~Pending(c)'
    BY <2>1, <2>2 DEF Pending, Created, Deleted, Copied, Editing
  <2> QED BY <2>1, <2>2, <2>3, WaitUnseen DEF tableVars, lineVars
<1>2. CASE HandshakeOver(c)
  <2>1. /\ \/ pc[c] = "copyFromWait" /\ pc'[c] = "copyTo"
           \/ pc[c] = "copyToWait" /\ pc'[c] = "copying"
        /\ UNCHANGED <<tableVars, lineVars, sock, reply, serverVars>>
    BY <1>2, HandlerTypes DEF HandshakeOver, HandshakeFails
  <2>2. pc[c] = "copyToWait" => sock[c][2] # "ACK"
    BY <2>1 DEF Settled, CopyFacts, Copying
  <2>3. ~Pending(c) /\ ~Pending(c)'
    BY <2>1, <2>2 DEF Pending, Created, Deleted, Copied, Editing
  <2> QED BY <2>1, <2>3, WaitUnseen DEF tableVars, lineVars, serverVars
<1>3. CASE FacilitateCopy(c) /\ sock[c][1] = "ACK" /\ sock[c][2] = "ACK"
  <2>1. /\ pc[c] = "copying" /\ pc'[c] = "relookup"
        /\ UNCHANGED <<tableVars, lineVars, sock, reply, serverVars>>
    BY <1>3, HandlerTypes DEF FacilitateCopy
  <2>2. Pending(c) /\ Pending(c)'
    BY <1>3, <2>1 DEF Pending, Copied
  <2> QED BY <2>1, <2>2, WaitUnseen DEF tableVars, lineVars, serverVars
<1>4. CASE CopyRelookup(c)
  <2>1. /\ pc[c] = "relookup" /\ pc'[c] = "commitCopy"
        /\ UNCHANGED <<tableVars, lineVars, sock, reply, serverVars>>
    BY <1>4, HandlerTypes DEF CopyRelookup
  <2>2. Pending(c)' <=> Pending(c)
    BY <2>1 DEF Pending, Created, Deleted, Copied, Editing
  <2> QED BY <2>1, <2>2, WaitUnseen DEF tableVars, lineVars, serverVars
<1> QED BY <1>1, <1>2, <1>3, <1>4

(* The end of every command sent to a storage server. *)
LEMMA AnswerTells ==
  ASSUME ConnInv, NEW c \in Client, c = TheClient, NEW text, Answer(c, text),
         pc[c] \notin {"off", "connecting", "recv"},
         text = IF Pending(c) THEN "ACK" ELSE "FAIL"
  PROVE  D!Tell
<1>1. /\ reply' = [reply EXCEPT ![c] = Reply(1, text, 0)] /\ pc' = [pc EXCEPT ![c] = "recv"]
      /\ UNCHANGED <<StorageServersInfo, disk, verb, args>>
  BY DEF Answer, lineVars, serverVars
<1>2. reply'[c].text = text
  <2>1. reply \in [Client -> ReplyType]
    BY HandlerTypes DEF TypeOK, HandlerTypeOK
  <2>2. reply'[c] = Reply(1, text, 0)
    BY <1>1, <2>1
  <2>3. Reply(1, text, 0).text = text
    BY DEF Reply
  <2> QED BY <2>2, <2>3
<1>3. Phase(c)' = "idle"
  <2>1. pc'[c] = "recv"
    BY <1>1, HandlerTypes
  <2> QED BY <2>1 DEF Phase
<1>4. Phase(c) = IF Pending(c) THEN "done" ELSE "asked"
  BY BusyFacts
<1>5. Files' = Files /\ Asked(c)' = Asked(c)
  BY <1>1, SameFiles DEF Asked
<1> QED BY <1>2, <1>3, <1>4, <1>5 DEF D!Tell

LEMMA CommitTells ==
  ASSUME ConnInv, NEW c \in Client, c = TheClient, Settled(c), OwnBuffer(c),
         \/ CommitCreate(c) \/ CommitDelete(c) \/ CommitFail(c)
         \/ CommitCopyFile(c) \/ CommitCopyDir(c)
         \/ FacilitateCopy(c) /\ ~NamingServerDies /\ ~(sock[c][1] = "ACK" /\ sock[c][2] = "ACK")
  PROVE  D!Tell
<1>1. CASE CommitCreate(c) \/ CommitDelete(c)
  <2>1. pc[c] = "commit" /\ result[c] = 1 /\ Answer(c, "ACK")
    BY <1>1 DEF CommitCreate, CommitDelete
  <2>2. Pending(c)
    BY <2>1, CommitIs DEF Pending
  <2> QED BY <2>1, <2>2, AnswerTells
<1>2. CASE CommitFail(c)
  <2>1. pc[c] = "commit" /\ result[c] # 1 /\ Answer(c, "FAIL")
    BY <1>2 DEF CommitFail
  <2>2. ~Pending(c)
    BY <2>1, CommitIs DEF Pending
  <2> QED BY <2>1, <2>2, AnswerTells
<1>3. CASE CommitCopyFile(c) \/ CommitCopyDir(c)
  <2>1. pc[c] = "commitCopy" /\ Answer(c, "ACK")
    BY <1>3 DEF CommitCopyFile, CommitCopyDir
  <2>2. Pending(c)
    BY <2>1 DEF Settled, CopyFacts, Copying, Pending, Copied
  <2> QED BY <2>1, <2>2, AnswerTells
<1>4. CASE FacilitateCopy(c) /\ ~NamingServerDies /\ ~(sock[c][1] = "ACK" /\ sock[c][2] = "ACK")
  <2>1. pc[c] = "copying" /\ Answer(c, "FAIL")
    BY <1>4 DEF FacilitateCopy
  <2>2. ~Pending(c)
    BY <1>4, <2>1 DEF Settled, CopyFacts, Copying, Pending, Created, Deleted, Copied, Editing
  <2> QED BY <2>1, <2>2, AnswerTells
<1> QED BY <1>1, <1>2, <1>3, <1>4

(* Every step of the handler. *)
LEMMA HandleRefines ==
  ASSUME ConnInv, NEW c \in Client, c = TheClient, Settled(c), OwnBuffer(c), Handle(c)
  PROVE  D!Next \/ Unseen(c)
<1>1. CASE NamingServerDies
  <2>1. UNCHANGED <<pc, verb, args, reply, sock, StorageServersInfo, disk>>
    BY <1>1 DEF NamingServerDies, tableVars, handlerVars, lineVars, serverVars
  <2>2. Phase(c)' = Phase(c)
    BY <2>1 DEF Phase, Pending, Created, Deleted, Copied
  <2> QED BY <2>1, <2>2, SameUnseen
<1>2. ASSUME NEW cmd \in Command,
             HandleCreateDelete(c, cmd) \/ HandleLocate(c, cmd) \/ HandleCopy(c, cmd)
             \/ HandleInvalid(c, cmd)
      PROVE  D!Next
  BY <1>2, CreateDeleteAsks, CopyAsks, LocateAnswers DEF D!Next
<1>3. ASSUME NEW cmd \in Command, HandleBlank(c, cmd) PROVE NamingServerDies
  BY <1>3 DEF HandleBlank
<1>4. CASE \/ CommitCreate(c) \/ CommitDelete(c) \/ CommitFail(c)
           \/ CommitCopyFile(c) \/ CommitCopyDir(c)
           \/ FacilitateCopy(c) /\ ~NamingServerDies
              /\ ~(sock[c][1] = "ACK" /\ sock[c][2] = "ACK")
  BY <1>4, CommitTells DEF D!Next
<1>5. CASE /\ ~NamingServerDies
           /\ OpenSocket(c) \/ ClearBuffer(c) \/ RecvResult(c) \/ CheckResult(c)
  BY <1>5, EditUnseen
<1>6. CASE /\ ~NamingServerDies
           /\ \/ OpenFrom(c) \/ OpenTo(c) \/ HandshakeOver(c) \/ CopyRelookup(c)
              \/ FacilitateCopy(c) /\ sock[c][1] = "ACK" /\ sock[c][2] = "ACK"
  BY <1>6, CopyUnseen
<1> QED BY <1>1, <1>2, <1>3, <1>4, <1>5, <1>6 DEF Handle

(* A step of a server that leaves the answers alone. *)
LEMMA QuietUnseen ==
  ASSUME NEW c \in Client,
         UNCHANGED <<pc, verb, args, reply, StorageServersInfo, disk>>,
         \A j \in {1, 2} : sock'[c][j] = "ACK" <=> sock[c][j] = "ACK"
  PROVE  Unseen(c)
<1>1. Phase(c)' = Phase(c)
  BY DEF Phase, Pending, Created, Deleted, Copied
<1> QED BY <1>1, SameUnseen

(* A server that serves a command carries it out, and nobody else does. *)
LEMMA ServePerforms ==
  ASSUME ConnInv, NEW c \in Client, c = TheClient, Settled(c), Settled(c)', NEW s \in Server,
         ServerStep, NEW j \in {1, 2}, session[s] = <<c, j>>
  PROVE  D!Perform \/ Unseen(c)
<1>0. UNCHANGED <<pc, verb, args, target, reply, accessible_paths, StorageServersInfo>>
  BY DEF ServerStep, tableVars, lineVars
<1>1. sock[c][j] = "open" /\ (j = 1 => pc[c] \in UsesFirst) /\ (j = 2 => pc[c] \in UsesSecond)
  BY Serves
<1>2. pc[c] \notin {"off", "connecting", "recv"} /\ pc'[c] \notin {"off", "connecting", "recv"}
  BY <1>0, <1>1 DEF UsesFirst, UsesSecond
<1>3. ~Pending(c)
  <2>1. ~Created(c) /\ ~Deleted(c)
    BY <1>1 DEF Created, Deleted, Editing, UsesSecond
  <2>2. ~Copied(c)
    BY <1>1 DEF Settled, CopyFacts, Copied, Copying
  <2> QED BY <2>1, <2>2 DEF Pending
<1>4. /\ Phase(c) = "asked" /\ Phase(c)' = IF Pending(c)' THEN "done" ELSE "asked"
      /\ Asked(c)' = Asked(c) /\ reply'[c].text = reply[c].text
  BY <1>0, <1>2, <1>3 DEF Phase, Asked
<1>5. /\ \A k : RoutesTo(k)' = RoutesTo(k) /\ SlotServer(k)' = SlotServer(k)
      /\ Slots' = Slots
  BY <1>0, SameRoutes
<1>6. Files = UNION {RoutesTo(k) : k \in Slots}
  <2>1. \A k \in Slots : DOMAIN disk[SlotServer(k)] = RoutesTo(k)
    BY <1>3 DEF Settled, Mirrored, Expected, Pending
  <2> QED BY <2>1 DEF Files
<1>7. Files' = UNION {Expected(c, k)' : k \in Slots}
  <2>1. \A k \in Slots' : DOMAIN disk'[SlotServer(k)'] = Expected(c, k)'
    BY DEF Settled, Mirrored
  <2> QED BY <1>5, <2>1 DEF Files
<1>8. CASE ~Pending(c)'
  <2>1. \A k : Expected(c, k)' = RoutesTo(k)
    BY <1>5, <1>8 DEF Pending, Expected
  <2> QED BY <1>4, <1>6, <1>7, <1>8, <2>1 DEF Unseen
<1>9. CASE Created(c)'
  <2>1. verb[c] = "CREATE" /\ pc[c] \in Editing /\ ~Deleted(c)' /\ ~Copied(c)'
    BY <1>0, <1>9 DEF Created, Deleted, Copied, Editing
  <2>2. target[c][1] + 1 \in Slots
    BY <2>1, LookedUp DEF Settled, EditFacts
  <2>3. PICK p, v : p = Join(args[c][1], args[c][2]) /\ v = target[c][1] + 1
    OBVIOUS
  <2>4. \A k : Expected(c, k)' = RoutesTo(k) \cup (IF k = v THEN {p} ELSE {})
    BY <1>0, <1>5, <1>9, <2>1, <2>3 DEF Expected
  <2>5. Files' = Files \cup {p}
    BY <1>6, <1>7, <2>2, <2>3, <2>4
  <2>6. D!Effect(Asked(c)) = Files \cup {p}
    BY <2>1, <2>3, DirectoryPaths DEF D!Effect, Asked
  <2> QED BY <1>4, <1>9, <2>5, <2>6 DEF D!Perform, Pending
<1>10. CASE Deleted(c)'
  <2>1. verb[c] = "DELETE" /\ ~Created(c)' /\ ~Copied(c)'
    BY <1>0, <1>10 DEF Created, Deleted, Copied, Editing
  <2>2. PICK p : p = args[c][1]
    OBVIOUS
  <2>3. \A k : Expected(c, k)' = {q \in RoutesTo(k) : ~Under(q, p)}
    BY <1>0, <1>5, <1>10, <2>1, <2>2 DEF Expected
  <2>4. Files' = {q \in Files : ~Under(q, p)}
    BY <1>6, <1>7, <2>3
  <2>5. D!Effect(Asked(c)) = {q \in Files : ~Under(q, p)}
    BY <2>1, <2>2, DirectoryPaths DEF D!Effect, Asked
  <2> QED BY <1>4, <1>10, <2>4, <2>5 DEF D!Perform, Pending
<1>11. CASE Copied(c)'
  <2>1. pc[c] \in Copying /\ ~Created(c)' /\ ~Deleted(c)'
    BY <1>0, <1>11 DEF Created, Deleted, Copied, Editing, Copying
  <2>2. verb[c] = "COPY" /\ target[c][2] + 1 \in Slots
    BY <2>1, LookedUp DEF Settled, CopyFacts
  <2>3. PICK p, v : p = Join(args[c][2], Basename(args[c][1])) /\ v = target[c][2] + 1
    OBVIOUS
  <2>4. \A k : Expected(c, k)' = RoutesTo(k) \cup (IF k = v THEN {p} ELSE {})
    BY <1>0, <1>5, <1>11, <2>1, <2>3 DEF Expected, Copy
  <2>5. Files' = Files \cup {p}
    BY <1>6, <1>7, <2>2, <2>3, <2>4
  <2>6. D!Effect(Asked(c)) = Files \cup {p}
    BY <2>2, <2>3, DirectoryPaths DEF D!Effect, Asked
  <2> QED BY <1>4, <1>11, <2>5, <2>6 DEF D!Perform, Pending
<1> QED BY <1>8, <1>9, <1>10, <1>11 DEF Pending

(* Every step of a server. *)
LEMMA ServerRefines ==
  ASSUME ConnInv, NEW c \in Client, Client = {c}, c = TheClient, Settled(c), Settled(c)',
         NEW s \in Server, SSListen(s) \/ SSAccept(s) \/ SSServe(s) \/ SSCrash(s)
  PROVE  D!Next \/ Unseen(c)
<1>1. CASE SSListen(s) \/ SSAccept(s) \/ SSCrash(s)
  BY <1>1, QuietSockets, QuietUnseen
<1>2. CASE SSServe(s)
  <2>1. PICK j \in {1, 2} : session[s] = <<c, j>>
    BY <1>2 DEF SSServe, SSCreate, SSDelete, SSSend, SSReceive, Serving
  <2>2. ServerStep
    BY <1>2, ServerFrame
  <2> QED BY <2>1, <2>2, ServePerforms DEF D!Next
<1> QED BY <1>1, <1>2

(* A server gets its slot; what it has on its disk is in the directory.    *)
LEMMA StoreInfoRegisters ==
  ASSUME ConnInv, ConnInv', NEW c \in Client, c = TheClient,
         pc[c] \in {"off", "connecting"}, MainStoreInfo
  PROVE  D!Register
<1> DEFINE new == SlotOf(peer)
<1>1. /\ StorageServersInfo' = Append(StorageServersInfo, new)
      /\ UNCHANGED <<pc, verb, args, reply, disk>>
  BY DEF MainStoreInfo, handlerVars, lineVars, serverVars
<1>2. /\ Slots \subseteq Slots'
      /\ \A k \in Slots : SlotServer(k)' = SlotServer(k)
  BY <1>1, SlotStored DEF SlotServer
<1>3. Files \subseteq Files'
  BY <1>1, <1>2 DEF Files
<1>4. Files' \in SUBSET Str
  <2>1. \A k \in Slots' : SlotServer(k)' \in Server
    BY DEF ConnInv, Owners, SlotServer
  <2>2. \A s \in Server : DOMAIN disk'[s] \subseteq Str
    BY <1>1, HandlerTypes
  <2> QED BY <2>1, <2>2 DEF Files
<1>5. Phase(c) = "idle" /\ Phase(c)' = "idle" /\ Asked(c)' = Asked(c) /\ reply' = reply
  BY <1>1 DEF Phase, Asked
<1> QED BY <1>3, <1>4, <1>5, DirectoryPaths DEF D!Register

(* Every step before the client has its handler. *)
LEMMA PublishedRefines ==
  ASSUME NEW x, Client = {x}, x = TheClient, ConnInv, ConnInv', ~Started(x), [Next]_vars
  PROVE  D!Next \/ Unseen(x)
<1>0. x \in Client /\ pc \in [Client -> HandlerState] /\ pc[x] \in {"off", "connecting"}
  BY HandlerTypes DEF Started
<1>1. ASSUME UNCHANGED <<disk, StorageServersInfo, verb, args, reply>>,
             pc'[x] \in {"off", "connecting", "recv"}
      PROVE  Unseen(x)
  <2>1. Phase(x)' = Phase(x)
    BY <1>0, <1>1 DEF Phase
  <2> QED BY <1>0, <1>1, <2>1, SameUnseen
<1>2. CASE MainStoreInfo
  BY <1>0, <1>2, StoreInfoRegisters DEF D!Next
<1>3. CASE Main /\ ~MainStoreInfo
  <2>1. /\ UNCHANGED <<disk, StorageServersInfo, verb, args, reply>>
        /\ pc' = pc \/ MainReject \/ MainStartHandler
    BY <1>3 DEF Main, MainAccept, MainRecvToken, MainStartHandler, MainAskInfo, MainReject,
       MainRefusePorts, MainPublish, MainRegister, tableVars, handlerVars, lineVars, serverVars
  <2>2. pc'[x] \in {"off", "connecting", "recv"}
    <3>1. CASE MainReject
      BY <1>0, <3>1 DEF MainReject
    <3>2. CASE MainStartHandler
      BY <1>0, <3>2 DEF MainStartHandler
    <3> QED BY <1>0, <2>1, <3>1, <3>2
  <2> QED BY <1>1, <2>1, <2>2
<1>4. ASSUME NEW c \in Client, ClientConnect(c) PROVE Unseen(x)
  <2>1. UNCHANGED <<disk, StorageServersInfo, verb, args, reply>>
    BY <1>4 DEF ClientConnect, tableVars, lineVars, serverVars
  <2>2. pc'[x] = "connecting" \/ pc'[x] = pc[x]
    BY <1>0, <1>4 DEF ClientConnect
  <2> QED BY <1>0, <1>1, <2>1, <2>2
<1>5. ASSUME NEW c \in Client, Handle(c) PROVE FALSE
  <2>1. Handling(pc[c])
    BY <1>5, HandleHandles
  <2> QED BY <1>0, <2>1 DEF Handling
<1>6. ASSUME NEW s \in Server, ServerStart(s) PROVE Unseen(x)
  <2>1. UNCHANGED <<disk, StorageServersInfo, verb, args, reply, pc>>
    BY <1>6 DEF ServerStart, tableVars, handlerVars, lineVars
  <2> QED BY <1>0, <1>1, <2>1
<1>7. ASSUME NEW s \in Server, SSListen(s) \/ SSAccept(s) \/ SSServe(s) \/ SSCrash(s)
      PROVE  Unseen(x)
  <2>1. ~SSServe(s)
    BY <1>0, NoneServed DEF Started
  <2>2. UNCHANGED <<disk, StorageServersInfo, verb, args, reply, pc>>
    BY <1>0, <1>7, <2>1, QuietSockets
  <2> QED BY <1>0, <1>1, <2>2
<1>8. CASE UNCHANGED vars
  BY <1>0, <1>1, <1>8 DEF vars, tableVars, handlerVars, lineVars, serverVars
<1> QED BY <1>2, <1>3, <1>4, <1>5, <1>6, <1>7, <1>8 DEF Next

(* Every step after that. *)
LEMMA SettledRefines ==
  ASSUME NEW x, Client = {x}, x = TheClient, SessionInv, Settled(x), Settled(x)', Started(x),
         [Next /\ ServersFirst]_vars
  PROVE  D!Next \/ Unseen(x)
<1>0. /\ x \in Client /\ ConnInv /\ OwnBuffer(x) /\ Handling(pc[x])
  BY DEF SessionInv, Started, Handling
<1>1. ASSUME UNCHANGED <<disk, StorageServersInfo, verb, args, reply, pc, sock>>
      PROVE  Unseen(x)
  BY <1>0, <1>1, QuietUnseen
<1>2. ASSUME Main, ServersFirst PROVE FALSE
  BY <1>0, <1>2, MainSilent
<1>3. ASSUME NEW c \in Client, ClientConnect(c) PROVE FALSE
  BY <1>0, <1>3 DEF ClientConnect, Handling
<1>4. ASSUME NEW c \in Client, Handle(c) PROVE D!Next \/ Unseen(x)
  BY <1>0, <1>4, HandleRefines
<1>5. ASSUME NEW s \in Server, ServerStart(s) PROVE Unseen(x)
  BY <1>1, <1>5 DEF ServerStart, tableVars, handlerVars, lineVars
<1>6. ASSUME NEW s \in Server, SSListen(s) \/ SSAccept(s) \/ SSServe(s) \/ SSCrash(s)
      PROVE  D!Next \/ Unseen(x)
  BY <1>0, <1>6, ServerRefines
<1>7. CASE UNCHANGED vars
  BY <1>1, <1>7 DEF vars, tableVars, handlerVars, lineVars, serverVars
<1> QED BY <1>2, <1>3, <1>4, <1>5, <1>6, <1>7 DEF Next

(* With one client, and every server registered before it comes, the       *)
(* handler, its table, main and the storage servers are one directory: a   *)
(* command changes the disk of its server once, as a whole, the client is  *)
(* told ACK exactly when that happened, FAIL when a server answered FAIL   *)
(* or was gone, and NOT FOUND only of a path that no server has.  It takes *)
(* the same conditions: servers apart and on the same ports at every       *)
(* start, and a recv that returns what one send sent.                      *)
THEOREM DirectoryImplemented ==
  ASSUME NEW x, Client = {x}, ServersApart, PlainCommands
  PROVE  SessionSpec => ImplementsDirectory
<1>0. x \in Client /\ x = TheClient
  BY DEF TheClient
<1>1. Init => D!Init
  <2> SUFFICES ASSUME Init PROVE D!Init
    OBVIOUS
  <2>1. Files = {}
    <3>1. StorageServersInfo = << >>
      BY DEF Init
    <3>2. Len(StorageServersInfo) = 0
      BY <3>1
    <3> QED BY <3>2 DEF Slots, Files
  <2>2. verb[x] = "OTHER" /\ args[x][1] = Empty /\ args[x][2] = Empty /\ pc[x] = "off"
    BY <1>0 DEF Init
  <2>3. reply[x].text = ""
    <3>1. NoReply.text = ""
      BY DEF NoReply, Reply
    <3> QED BY <1>0, <3>1 DEF Init
  <2>4. Asked(x) \in D!Request /\ Phase(x) = "idle"
    <3>1. Empty \in Str
      BY DEF Str, Empty
    <3> QED BY <2>2, <3>1, DirectoryPaths DEF Asked, Phase, D!Request, D!Changing, D!Locating
  <2> QED BY <1>0, <2>1, <2>3, <2>4 DEF D!Init
<1>2. MirrorInv /\ MirrorInv' /\ [Next /\ ServersFirst]_vars => [D!Next]_(D!directoryVars)
  <2> SUFFICES ASSUME MirrorInv, MirrorInv', [Next /\ ServersFirst]_vars
               PROVE  D!Next \/ UNCHANGED D!directoryVars
    OBVIOUS
  <2>1. SessionInv /\ SessionMirror /\ SessionInv'
    BY DEF MirrorInv
  <2>2. ConnInv /\ ConnInv' /\ [Next]_vars
    BY <2>1 DEF SessionInv
  <2>3. D!Next \/ Unseen(x)
    <3>1. CASE Started(x)
      <4>1. Settled(x)
        BY <1>0, <2>1, <3>1 DEF SessionMirror
      <4>2. Settled(x)'
        BY <1>0, <2>1, <3>1, <4>1, SettledNext
      <4> QED BY <1>0, <2>1, <3>1, <4>1, <4>2, SettledRefines
    <3>2. CASE ~Started(x)
      BY <1>0, <2>2, <3>2, PublishedRefines
    <3> QED BY <3>1, <3>2
  <2> QED BY <1>0, <2>3, UnseenIs
<1> QED BY <1>1, <1>2, MirrorInit, MirrorNext, PTL DEF SessionSpec, ImplementsDirectory, D!Spec

=============================================================================
