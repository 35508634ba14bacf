---------------------------- MODULE NamingServer ----------------------------
(***************************************************************************)
(* namingserver.c: the main thread that accepts connections and registers  *)
(* storage servers, and one client_handler thread per client connection.   *)
(* All threads share accessible_paths, StorageServersInfo, and the buffer  *)
(* naming_server_gets; nothing locks any of them.                          *)
(*                                                                         *)
(* A storage server appears here as its process state, its disk and the    *)
(* naming-server thread that executes CREATE, DELETE, SEND and RECEIVE one *)
(* connection at a time.  A handler's steps are cut at every blocking call *)
(* and at every access to shared memory; a call of the table functions is  *)
(* one step.                                                               *)
(***************************************************************************)
EXTENDS Paths, FiniteSets

CONSTANTS
    Client,             \* client processes
    Server,             \* storage server processes
    Command,            \* the command lines the clients may type
    Ports,              \* Ports[s]: the pairs of ports s may be started with
    Export,             \* Export[s]: the sequence of paths s makes accessible
    InitialDisk,        \* InitialDisk[s]: path -> "file" or "dir"
    Large,              \* paths with more content than the sockets buffer
    Coalesce,           \* may a recv return two sends run together?
    Glue,               \* the characters a file name is then run together with
    TarGz,              \* ".tar.gz"
    MAX_ACC_PATHS,
    NAMING_SERVER_PORT,
    MaxCommands,        \* bound: command lines per client
    MaxCrashes,         \* bound: storage server crashes
    Nobody              \* not a client, a server or a connection

(* BLANK is a line without a token, or the empty message of a client that  *)
(* is gone; EXIT is the line "exit"; OTHER is any other first token.       *)
Verb == {"CREATE", "DELETE", "READ", "WRITE", "DETAILS", "COPY",
         "EXIT", "OTHER", "BLANK"}

ASSUME ConfigAssumption ==
    /\ \A s \in Server : Ports[s] \subseteq Nat \X Nat
    /\ NAMING_SERVER_PORT \in Nat /\ MAX_ACC_PATHS \in Nat
    /\ MaxCommands \in Nat /\ MaxCrashes \in Nat
    /\ Coalesce \in BOOLEAN /\ Glue \in Letter /\ TarGz \in DottedLetter

ASSUME ProcessAssumption ==
    /\ Client \cap Server = {} /\ Nobody \notin Client \cup Server \cup (Client \X {1, 2})
    /\ \A cmd \in Command : cmd.verb \in Verb /\ cmd.args \in Seq(Str)
    /\ \A s \in Server : Export[s] \in Seq(Str) /\ Len(Export[s]) <= MAX_ACC_PATHS
    /\ DOMAIN InitialDisk = Server
    /\ \A s \in Server : DOMAIN InitialDisk[s] \subseteq Str

VARIABLES
    nm,                     \* the naming server process: "running" or "dead"
    \* the main thread
    incoming,               \* who waits to be accepted, in the order of arrival
    mpc,                    \* where it is
    peer,                   \* whose connection it is handling
    slot,                   \* i, the accessible path it publishes next
    storage_server_count,
    used_ports,             \* used_ports[i + 1] is the i-th element in C
    \* shared with the handlers
    StorageServersInfo,     \* the slots written so far
    accessible_paths,
    naming_server_gets,
    \* the handler of a client
    pc,
    verb, args, no_args,    \* ARGS[0], ARGS[1..2]; they outlive a command
    target,                 \* storage_server_num (1 and 2)
    sock,                   \* its two storage server sockets
    result,
    reply,                  \* the last thing sent to the client
    issued,                 \* commands the client has typed
    \* the storage servers
    ss,                     \* the process
    naming_port,            \* the ports it was last started with
    client_port,
    backlog,                \* connections waiting to be accepted
    session,                \* the connection being served
    disk,
    shipment,               \* what SEND has sent, then what RECEIVE took it for
    crashes

mainVars    == <<incoming, mpc, peer, slot, storage_server_count, used_ports>>
tableVars   == <<StorageServersInfo, accessible_paths>>
lineVars    == <<verb, args, no_args, issued>>
handlerVars == <<pc, lineVars, target, sock, result, reply>>
portVars    == <<naming_port, client_port>>
serverVars  == <<ss, portVars, backlog, session, disk, shipment, crashes>>
vars == <<nm, mainVars, tableVars, naming_server_gets, handlerVars, serverVars>>

Conn == Client \X {1, 2}

(* Replies: the command type, the text, and for FOUND the port sent along. *)
Reply(type, text, port) == [type |-> type, text |-> text, port |-> port]
NoReply == Reply(0, "", 0)

HandlerState ==
    {"off", "connecting", "recv",
     "connect", "clear", "result", "check", "commit",
     "copyFrom", "copyFromWait", "copyTo", "copyToWait", "copying",
     "relookup", "commitCopy"}
SocketState == {"closed", "queued", "open", "ACK", "FAIL", "refused", "dead"}
Shipment == {"none", "file", "dir"}
ServerState == {"down", "connecting", "acked", "listening"}

Init ==
    /\ nm = "running"
    /\ incoming = << >>
    /\ mpc = "accept" /\ peer = Nobody /\ slot = 0
    /\ storage_server_count = 0
    /\ used_ports = <<NAMING_SERVER_PORT>>
    /\ StorageServersInfo = << >>
    /\ accessible_paths = EmptyTable
    /\ naming_server_gets = ""
    /\ pc = [c \in Client |-> "off"]
    /\ verb = [c \in Client |-> "OTHER"]
    /\ args = [c \in Client |-> [i \in {1, 2} |-> Empty]]
    /\ no_args = [c \in Client |-> 0]
    /\ target = [c \in Client |-> [i \in {1, 2} |-> -1]]
    /\ sock = [c \in Client |-> [i \in {1, 2} |-> "closed"]]
    /\ result = [c \in Client |-> 0]
    /\ reply = [c \in Client |-> NoReply]
    /\ issued = [c \in Client |-> 0]
    /\ ss = [s \in Server |-> "down"]
    /\ naming_port = [s \in Server |-> 0] /\ client_port = [s \in Server |-> 0]
    /\ backlog = [s \in Server |-> << >>]
    /\ session = [s \in Server |-> Nobody]
    /\ disk = InitialDisk
    /\ shipment = [c \in Client |-> "none"]
    /\ crashes = 0

-----------------------------------------------------------------------------
(* The main thread: accept, tell clients from storage servers, register.   *)

ClientConnect(c) ==
    /\ nm = "running" /\ pc[c] = "off"
    /\ pc' = [pc EXCEPT ![c] = "connecting"]
    /\ incoming' = Append(incoming, c)
    /\ UNCHANGED <<nm, mpc, peer, slot, storage_server_count, used_ports, tableVars,
                   naming_server_gets, lineVars, target, sock, result, reply, serverVars>>

(* The user is asked for the ports at every start.  *)
ServerStart(s) ==
    /\ nm = "running" /\ ss[s] = "down"
    /\ ss' = [ss EXCEPT ![s] = "connecting"]
    /\ \E ports \in Ports[s] :
          /\ naming_port' = [naming_port EXCEPT ![s] = ports[1]]
          /\ client_port' = [client_port EXCEPT ![s] = ports[2]]
    /\ incoming' = Append(incoming, s)
    /\ UNCHANGED <<nm, mpc, peer, slot, storage_server_count, used_ports, tableVars,
                   naming_server_gets, handlerVars, backlog, session, disk, shipment,
                   crashes>>

(* accept, then bzero(naming_server_gets). *)
MainAccept ==
    /\ nm = "running" /\ mpc = "accept" /\ incoming # << >>
    /\ mpc' = "token" /\ peer' = Head(incoming)
    /\ incoming' = Tail(incoming)
    /\ naming_server_gets' = ""
    /\ UNCHANGED <<nm, slot, storage_server_count, used_ports, tableVars,
                   handlerVars, serverVars>>

MainRecvToken ==
    /\ nm = "running" /\ mpc = "token"
    /\ naming_server_gets' = IF peer \in Client THEN "c" ELSE "s"
    /\ mpc' = "dispatch"
    /\ UNCHANGED <<nm, incoming, peer, slot, storage_server_count, used_ports, tableVars,
                   handlerVars, serverVars>>

(* pthread_create of the client_handler. *)
MainStartHandler ==
    /\ nm = "running" /\ mpc = "dispatch" /\ naming_server_gets = "c"
    /\ pc' = [pc EXCEPT ![peer] = "recv"]
    /\ mpc' = "accept" /\ peer' = Nobody
    /\ UNCHANGED <<nm, incoming, slot, storage_server_count, used_ports, tableVars,
                   naming_server_gets, lineVars, target, sock, result, reply,
                   serverVars>>

MainAskInfo ==
    /\ nm = "running" /\ mpc = "dispatch" /\ naming_server_gets = "s"
    /\ mpc' = "info"
    /\ UNCHANGED <<nm, incoming, peer, slot, storage_server_count, used_ports, tableVars,
                   naming_server_gets, handlerVars, serverVars>>

(* "Invalid input": the buffer no longer holds the token of this peer. *)
MainReject ==
    /\ nm = "running" /\ mpc = "dispatch" /\ naming_server_gets \notin {"c", "s"}
    /\ pc' = [c \in Client |-> IF c = peer THEN "off" ELSE pc[c]]
    /\ ss' = [s \in Server |-> IF s = peer THEN "down" ELSE ss[s]]
    /\ mpc' = "accept" /\ peer' = Nobody
    /\ UNCHANGED <<nm, incoming, slot, storage_server_count, used_ports, tableVars,
                   naming_server_gets, lineVars, target, sock, result, reply,
                   portVars, backlog, session, disk, shipment, crashes>>

(* Mutant: the loop runs to storage_server_count. *)
port_availableShort(s) ==
    \A i \in 1..storage_server_count :
        used_ports[i] \notin {naming_port[s], client_port[s]}

(* The loop over used_ports[0 .. 2 * storage_server_count]. *)
port_available(s) ==
    \A i \in 1..(2 * storage_server_count + 1) :
        used_ports[i] \notin {naming_port[s], client_port[s]}

(* Mutant: the socket is left open and no FAIL is sent. *)
MainRefusePortsSilent ==
    /\ nm = "running" /\ mpc = "info" /\ ~port_available(peer)
    /\ mpc' = "accept" /\ peer' = Nobody
    /\ UNCHANGED <<nm, incoming, slot, storage_server_count, used_ports, tableVars,
                   naming_server_gets, handlerVars, serverVars>>

MainRefusePorts ==
    /\ nm = "running" /\ mpc = "info" /\ ~port_available(peer)
    /\ ss' = [ss EXCEPT ![peer] = "down"]
    /\ mpc' = "accept" /\ peer' = Nobody
    /\ UNCHANGED <<nm, incoming, slot, storage_server_count, used_ports, tableVars,
                   naming_server_gets, handlerVars, portVars, backlog, session, disk,
                   shipment, crashes>>

(* What s would be in the table: here under the ports it runs with. *)
SlotOf(s) == [server |-> s, naming_port |-> naming_port[s], client_port |-> client_port[s]]

(* Nothing compares storage_server_count with the length of the array. *)
MainStoreInfo ==
    /\ nm = "running" /\ mpc = "info" /\ port_available(peer)
    /\ StorageServersInfo' = Append(StorageServersInfo, SlotOf(peer))
    /\ mpc' = "publish" /\ slot' = 0
    /\ UNCHANGED <<nm, incoming, peer, storage_server_count, used_ports, accessible_paths,
                   naming_server_gets, handlerVars, serverVars>>

(* Mutants: one turn too many, and the index of the next server. *)
MainPublishAs(bound, value) ==
    LET path == IF slot < Len(Export[peer]) THEN Export[peer][slot + 1] ELSE Empty
    IN  /\ nm = "running" /\ mpc = "publish" /\ slot < bound
        /\ accessible_paths' = set_value(accessible_paths, path, value)
        /\ slot' = slot + 1
        /\ UNCHANGED <<nm, incoming, mpc, peer, storage_server_count, used_ports,
                       StorageServersInfo, naming_server_gets, handlerVars, serverVars>>
MainPublishPast == MainPublishAs(MAX_ACC_PATHS + 1, storage_server_count)
MainPublishNext == MainPublishAs(MAX_ACC_PATHS, storage_server_count + 1)

(* One turn of the loop that hashes the paths; an unused slot is Empty. *)
MainPublish ==
    LET path == IF slot < Len(Export[peer]) THEN Export[peer][slot + 1] ELSE Empty
    IN  /\ nm = "running" /\ mpc = "publish" /\ slot < MAX_ACC_PATHS
        /\ accessible_paths' = set_value(accessible_paths, path, storage_server_count)
        /\ slot' = slot + 1
        /\ UNCHANGED <<nm, incoming, mpc, peer, storage_server_count, used_ports,
                       StorageServersInfo, naming_server_gets, handlerVars,
                       serverVars>>

(* Mutant: the first port is recorded twice. *)
MainRegisterOnePort ==
    LET storageServer == StorageServersInfo[storage_server_count + 1]
    IN  /\ nm = "running" /\ mpc = "publish" /\ slot >= MAX_ACC_PATHS
        /\ storage_server_count' = storage_server_count + 1
        /\ used_ports' = used_ports \o <<storageServer.naming_port, storageServer.naming_port>>
        /\ ss' = [ss EXCEPT ![peer] = "acked"]
        /\ mpc' = "accept" /\ peer' = Nobody /\ slot' = 0
        /\ UNCHANGED <<nm, incoming, tableVars, naming_server_gets, handlerVars, portVars,
                       backlog, session, disk, shipment, crashes>>

(* Count the server, record its ports, send ACK.  The struct main received *)
(* is what it has just copied into the slot.                               *)
MainRegister ==
    LET storageServer == StorageServersInfo[storage_server_count + 1]
    IN  /\ nm = "running" /\ mpc = "publish" /\ slot >= MAX_ACC_PATHS
        /\ storage_server_count' = storage_server_count + 1
        /\ used_ports' = used_ports \o <<storageServer.naming_port, storageServer.client_port>>
        /\ ss' = [ss EXCEPT ![peer] = "acked"]
        /\ mpc' = "accept" /\ peer' = Nobody /\ slot' = 0
        /\ UNCHANGED <<nm, incoming, tableVars, naming_server_gets, handlerVars, portVars,
                       backlog, session, disk, shipment, crashes>>

Main == MainAccept \/ MainRecvToken \/ MainStartHandler \/ MainAskInfo \/ MainReject
        \/ MainRefusePorts \/ MainStoreInfo \/ MainPublish \/ MainRegister

-----------------------------------------------------------------------------
(* client_handler.  exit(EXIT_FAILURE), a fatal signal and a fault in any  *)
(* thread end the whole process.                                           *)

NamingServerDies ==
    /\ nm' = "dead"
    /\ UNCHANGED <<mainVars, tableVars, naming_server_gets, handlerVars, serverVars>>

(* recv and processCommand: the tokens present replace the first ARGS, the *)
(* others keep what an earlier command left there.                         *)
RecvCommand(c, cmd) ==
    /\ nm = "running" /\ pc[c] = "recv" /\ issued[c] < MaxCommands
    /\ issued' = [issued EXCEPT ![c] = @ + 1]
    /\ verb' = [verb EXCEPT ![c] = cmd.verb]
    /\ args' = [args EXCEPT ![c] =
                   [i \in {1, 2} |-> IF i <= Len(cmd.args) THEN cmd.args[i] ELSE @[i]]]
    /\ no_args' = [no_args EXCEPT ![c] = 1 + Len(cmd.args)]

(* strtok returns NULL and strcpy(ARGS[0], NULL) faults. *)
HandleBlank(c, cmd) ==
    /\ nm = "running" /\ pc[c] = "recv" /\ issued[c] < MaxCommands
    /\ cmd.verb = "BLANK"
    /\ NamingServerDies

HandleCreateDelete(c, cmd) ==
    LET storage_server_num == get_value(accessible_paths, args'[c][1])
        found == storage_server_num # -1
    IN  /\ RecvCommand(c, cmd)
        /\ cmd.verb \in {"CREATE", "DELETE"}
        /\ target' = [target EXCEPT ![c][1] = storage_server_num]
        /\ pc' = [pc EXCEPT ![c] = IF found THEN "connect" ELSE "recv"]
        /\ reply' = [reply EXCEPT ![c] = IF found THEN NoReply ELSE Reply(1, "NOT FOUND", 0)]
        /\ UNCHANGED <<nm, mainVars, tableVars, naming_server_gets, sock, result, serverVars>>

(* READ, WRITE and DETAILS end here with the address of the storage server. *)
CommandType(v) == CASE v = "READ" -> 2 [] v = "WRITE" -> 3 [] v = "DETAILS" -> 4

HandleLocate(c, cmd) ==
    LET storage_server_num == get_value(accessible_paths, args'[c][1])
    IN  /\ RecvCommand(c, cmd)
        /\ cmd.verb \in {"READ", "WRITE", "DETAILS"}
        /\ target' = [target EXCEPT ![c][1] = storage_server_num]
        /\ reply' = [reply EXCEPT ![c] =
               IF storage_server_num = -1
               THEN Reply(CommandType(cmd.verb), "NOT FOUND", 0)
               ELSE Reply(CommandType(cmd.verb), "FOUND",
                          StorageServersInfo[storage_server_num + 1].client_port)]
        /\ UNCHANGED <<nm, mainVars, tableVars, naming_server_gets, pc, sock,
                       result, serverVars>>

HandleCopy(c, cmd) ==
    LET num1 == get_value(accessible_paths, args'[c][1])
        num2 == get_value(accessible_paths, args'[c][2])
        found == num1 # -1 /\ num2 # -1
    IN  /\ RecvCommand(c, cmd)
        /\ cmd.verb = "COPY"
        /\ target' = [target EXCEPT ![c] = [i \in {1, 2} |-> IF i = 1 THEN num1 ELSE num2]]
        /\ pc' = [pc EXCEPT ![c] = IF found THEN "copyFrom" ELSE "recv"]
        /\ reply' = [reply EXCEPT ![c] = IF found THEN NoReply ELSE Reply(1, "NOT FOUND", 0)]
        /\ UNCHANGED <<nm, mainVars, tableVars, naming_server_gets, sock, result, serverVars>>

(* EXIT comes here too: the branch for it compares with "exit\n" white.    *)
HandleInvalid(c, cmd) ==
    /\ RecvCommand(c, cmd)
    /\ cmd.verb \in {"EXIT", "OTHER"}
    /\ reply' = [reply EXCEPT ![c] = Reply(6, "", 0)]
    /\ UNCHANGED <<nm, mainVars, tableVars, naming_server_gets, pc, target, sock,
                   result, serverVars>>

(* connectToStorageServer, up to the first acknowledgement it waits for. *)
ListeningOn(port) == {s \in Server : ss[s] = "listening" /\ naming_port[s] = port}

Connect(c, j, next) ==
    LET port == StorageServersInfo[target[c][j] + 1].naming_port
    IN  \/ /\ ListeningOn(port) = {} /\ NamingServerDies
        \/ \E s \in ListeningOn(port) :
              /\ sock' = [sock EXCEPT ![c][j] = "queued"]
              /\ backlog' = [backlog EXCEPT ![s] = Append(@, <<c, j>>)]
              /\ pc' = [pc EXCEPT ![c] = next]
              /\ shipment' = [shipment EXCEPT ![c] = IF j = 1 THEN "none" ELSE @]
              /\ UNCHANGED <<nm, mainVars, tableVars, naming_server_gets, lineVars,
                             target, result, reply, ss, portVars, session, disk, crashes>>

(* The rest of connectToStorageServer: a server that went away before it   *)
(* acknowledged every argument ends the naming server.                     *)
HandshakeFails(c, j) == sock[c][j] \in {"refused", "dead"} /\ NamingServerDies
HandshakeDone(c, j)  == sock[c][j] \in {"open", "ACK", "FAIL", "dead"}

OpenSocket(c) ==
    /\ nm = "running" /\ pc[c] = "connect"
    /\ Connect(c, 1, "clear")

(* getResultsFromSS: bzero, recv and strcasecmp on the global buffer. *)
ClearBuffer(c) ==
    /\ nm = "running" /\ pc[c] = "clear"
    /\ \/ HandshakeFails(c, 1)
       \/ /\ HandshakeDone(c, 1)
          /\ naming_server_gets' = ""
          /\ pc' = [pc EXCEPT ![c] = "result"]
          /\ UNCHANGED <<nm, mainVars, tableVars, lineVars, target, sock, result,
                         reply, serverVars>>

(* recv from a closed connection leaves the buffer alone or fails. *)
RecvResult(c) ==
    /\ nm = "running" /\ pc[c] = "result" /\ sock[c][1] \in {"ACK", "FAIL", "dead"}
    /\ \/ sock[c][1] = "dead" /\ NamingServerDies
       \/ /\ naming_server_gets' =
                 IF sock[c][1] = "dead" THEN naming_server_gets ELSE sock[c][1]
          /\ pc' = [pc EXCEPT ![c] = "check"]
          /\ UNCHANGED <<nm, mainVars, tableVars, lineVars, target, sock, result,
                         reply, serverVars>>

(* Mutant: strcasecmp used as if it returned true for a match. *)
CheckResultInverted(c) ==
    /\ nm = "running" /\ pc[c] = "check"
    /\ result' = [result EXCEPT ![c] = IF naming_server_gets # "ACK" THEN 1 ELSE 0]
    /\ pc' = [pc EXCEPT ![c] = "commit"]
    /\ UNCHANGED <<nm, mainVars, tableVars, naming_server_gets, lineVars, target,
                   sock, reply, serverVars>>

CheckResult(c) ==
    /\ nm = "running" /\ pc[c] = "check"
    /\ result' = [result EXCEPT ![c] = IF naming_server_gets = "ACK" THEN 1 ELSE 0]
    /\ pc' = [pc EXCEPT ![c] = "commit"]
    /\ UNCHANGED <<nm, mainVars, tableVars, naming_server_gets, lineVars, target,
                   sock, reply, serverVars>>

(* The end of every command sent to a storage server: answer the client    *)
(* and forget the sockets.                                                 *)
Answer(c, text) ==
    /\ reply' = [reply EXCEPT ![c] = Reply(1, text, 0)]
    /\ pc' = [pc EXCEPT ![c] = "recv"]
    /\ sock' = [sock EXCEPT ![c] = [j \in {1, 2} |-> "closed"]]
    /\ UNCHANGED <<nm, mainVars, StorageServersInfo, naming_server_gets, lineVars,
                   target, result, serverVars>>

(* Mutant: the name is entered without its directory. *)
CommitCreateBare(c) ==
    /\ nm = "running" /\ pc[c] = "commit" /\ result[c] = 1 /\ verb[c] = "CREATE"
    /\ accessible_paths' = set_value(accessible_paths, args[c][2], target[c][1])
    /\ Answer(c, "ACK")

CommitCreate(c) ==
    /\ nm = "running" /\ pc[c] = "commit" /\ result[c] = 1 /\ verb[c] = "CREATE"
    /\ accessible_paths' =
          set_value(accessible_paths, Join(args[c][1], args[c][2]), target[c][1])
    /\ Answer(c, "ACK")

CommitDelete(c) ==
    /\ nm = "running" /\ pc[c] = "commit" /\ result[c] = 1 /\ verb[c] = "DELETE"
    /\ \E stray \in BOOLEAN :
          accessible_paths' = remove_entry(accessible_paths, args[c][1], stray)
    /\ Answer(c, "ACK")

CommitFail(c) ==
    /\ nm = "running" /\ pc[c] = "commit" /\ result[c] # 1
    /\ Answer(c, "FAIL")
    /\ UNCHANGED accessible_paths

-----------------------------------------------------------------------------
(* COPY: SEND to the first server, RECEIVE to the second, both connections *)
(* open at once, then facilitateCopy between them.                         *)

OpenFrom(c) ==
    /\ nm = "running" /\ pc[c] = "copyFrom"
    /\ Connect(c, 1, "copyFromWait")

OpenTo(c) ==
    /\ nm = "running" /\ pc[c] = "copyTo"
    /\ Connect(c, 2, "copyToWait")

HandshakeOver(c) ==
    \E j \in {1, 2} :
        /\ nm = "running" /\ pc[c] = (IF j = 1 THEN "copyFromWait" ELSE "copyToWait")
        /\ \/ HandshakeFails(c, j)
           \/ /\ HandshakeDone(c, j)
              /\ pc' = [pc EXCEPT ![c] = IF j = 1 THEN "copyTo" ELSE "copying"]
              /\ UNCHANGED <<nm, mainVars, tableVars, naming_server_gets, lineVars,
                             target, sock, result, reply, serverVars>>

(* The end of facilitateCopy.  A connection that dies gives recv <= 0 or a *)
(* SIGPIPE: the copy fails or the naming server ends.                      *)
FacilitateCopy(c) ==
    LET ended(j) == sock[c][j] \in {"ACK", "FAIL", "dead"}
    IN  /\ nm = "running" /\ pc[c] = "copying" /\ ended(1) /\ ended(2)
        /\ \/ "dead" \in {sock[c][1], sock[c][2]} /\ NamingServerDies
           \/ /\ sock[c][1] = "ACK" /\ sock[c][2] = "ACK"
              /\ result' = [result EXCEPT ![c] = IF shipment[c] = "dir" THEN 2 ELSE 1]
              /\ pc' = [pc EXCEPT ![c] = "relookup"]
              /\ UNCHANGED <<nm, mainVars, tableVars, naming_server_gets, lineVars,
                             target, sock, reply, serverVars>>
           \/ /\ ~(sock[c][1] = "ACK" /\ sock[c][2] = "ACK")
              /\ Answer(c, "FAIL")
              /\ UNCHANGED accessible_paths

(* The destination is looked up again for the entry of the copy. *)
CopyRelookup(c) ==
    /\ nm = "running" /\ pc[c] = "relookup"
    /\ target' = [target EXCEPT ![c][2] = get_value(accessible_paths, args[c][2])]
    /\ pc' = [pc EXCEPT ![c] = "commitCopy"]
    /\ UNCHANGED <<nm, mainVars, tableVars, naming_server_gets, lineVars, sock,
                   result, reply, serverVars>>

CommitCopyFile(c) ==
    /\ nm = "running" /\ pc[c] = "commitCopy" /\ result[c] = 1
    /\ accessible_paths' =
          set_value(accessible_paths, Join(args[c][2], Basename(args[c][1])), target[c][2])
    /\ Answer(c, "ACK")

CommitCopyDir(c) ==
    LET found == get_paths(accessible_paths, args[c][1])
    IN  /\ nm = "running" /\ pc[c] = "commitCopy" /\ result[c] = 2
        /\ \E rank \in Rankings(found, Cardinality(found)) :
              accessible_paths' = add_paths_to_list(accessible_paths, args[c][2], found, rank)
        /\ Answer(c, "ACK")

Handle(c) ==
    \/ \E cmd \in Command :
          \/ HandleBlank(c, cmd) \/ HandleCreateDelete(c, cmd) \/ HandleLocate(c, cmd)
          \/ HandleCopy(c, cmd) \/ HandleInvalid(c, cmd)
    \/ OpenSocket(c) \/ ClearBuffer(c) \/ RecvResult(c) \/ CheckResult(c)
    \/ CommitCreate(c) \/ CommitDelete(c) \/ CommitFail(c)
    \/ OpenFrom(c) \/ OpenTo(c) \/ HandshakeOver(c) \/ FacilitateCopy(c)
    \/ CopyRelookup(c) \/ CommitCopyFile(c) \/ CommitCopyDir(c)

-----------------------------------------------------------------------------
(* The storage servers, as far as the naming server meets them: start-up,  *)
(* and the thread of the naming port, which serves one connection at a     *)
(* time.  What they do once the naming server is gone is left out.         *)

(* The thread of each port binds it; two equal ports end the process. *)
SSListen(s) ==
    /\ nm = "running" /\ ss[s] = "acked"
    /\ ss' = [ss EXCEPT ![s] = IF naming_port[s] = client_port[s] THEN "down" ELSE "listening"]
    /\ UNCHANGED <<nm, mainVars, tableVars, naming_server_gets, handlerVars, portVars,
                   backlog, session, disk, shipment, crashes>>

(* accept, and the exchange of the arguments, each acknowledged. *)
SSAccept(s) ==
    /\ nm = "running" /\ ss[s] = "listening"
    /\ session[s] = Nobody /\ backlog[s] # << >>
    /\ session' = [session EXCEPT ![s] = Head(backlog[s])]
    /\ backlog' = [backlog EXCEPT ![s] = Tail(@)]
    /\ sock' = [sock EXCEPT ![Head(backlog[s])[1]][Head(backlog[s])[2]] = "open"]
    /\ UNCHANGED <<nm, mainVars, tableVars, naming_server_gets, pc, lineVars, target,
                   result, reply, ss, portVars, disk, shipment, crashes>>

Serving(s, c, j) ==
    /\ nm = "running" /\ ss[s] = "listening" /\ session[s] = <<c, j>>

(* Mutant: the thread answers and does not go back to accept. *)
SSAnswerOnce(s, c, j, ok) ==
    /\ sock' = [sock EXCEPT ![c][j] = IF ok THEN "ACK" ELSE "FAIL"]
    /\ UNCHANGED <<nm, mainVars, tableVars, naming_server_gets, pc, lineVars, target,
                   result, reply, ss, portVars, backlog, session, crashes>>

(* ACK or FAIL, then close. *)
SSAnswer(s, c, j, ok) ==
    /\ session' = [session EXCEPT ![s] = Nobody]
    /\ sock' = [sock EXCEPT ![c][j] = IF ok THEN "ACK" ELSE "FAIL"]
    /\ UNCHANGED <<nm, mainVars, tableVars, naming_server_gets, pc, lineVars, target,
                   result, reply, ss, portVars, backlog, crashes>>

(* Mutant: those in its backlog never learn of it. *)
SSDiesUnnoticed(s) ==
    /\ ss' = [ss EXCEPT ![s] = "down"]
    /\ session' = [session EXCEPT ![s] = Nobody]
    /\ backlog' = [backlog EXCEPT ![s] = << >>]
    /\ sock' = [c \in Client |-> [j \in {1, 2} |->
           IF session[s] = <<c, j>> THEN "dead" ELSE sock[c][j]]]
    /\ UNCHANGED <<nm, mainVars, tableVars, naming_server_gets, pc, lineVars, target,
                   result, reply, portVars, disk, shipment>>

(* The process ends: its connection dies, those in its backlog are reset. *)
SSDies(s) ==
    /\ ss' = [ss EXCEPT ![s] = "down"]
    /\ session' = [session EXCEPT ![s] = Nobody]
    /\ backlog' = [backlog EXCEPT ![s] = << >>]
    /\ sock' = [c \in Client |-> [j \in {1, 2} |->
           CASE session[s] = <<c, j>> -> "dead"
             [] \E i \in 1..Len(backlog[s]) : backlog[s][i] = <<c, j>> -> "refused"
             [] OTHER -> sock[c][j]]]
    /\ UNCHANGED <<nm, mainVars, tableVars, naming_server_gets, pc, lineVars, target,
                   result, reply, portVars, disk, shipment>>

SSCrash(s) ==
    /\ nm = "running" /\ ss[s] = "listening" /\ crashes < MaxCrashes
    /\ crashes' = crashes + 1
    /\ SSDies(s)

Exists(s, p) == p = Empty \/ p \in DOMAIN disk[s]
IsDir(s, p)  == p = Empty \/ (p \in DOMAIN disk[s] /\ disk[s][p] = "dir")
IsFile(s, p) == p \in DOMAIN disk[s] /\ disk[s][p] = "file"
Stored(s, p, kind) == [disk EXCEPT ![s] = [q \in DOMAIN @ \cup {p} |-> IF q = p THEN kind ELSE @[q]]]
Removed(s, P)  == [disk EXCEPT ![s] = [q \in DOMAIN @ \ P |-> @[q]]]

(* runCreate: touch for a name with a period, mkdir for any other. *)
SSCreate(s, c) ==
    LET full_path == Join(args[c][1], args[c][2])
        touch == Dotted(args[c][2])
        ok == /\ no_args[c] = 3
              /\ IF touch THEN Exists(s, full_path) \/ IsDir(s, Parent(full_path))
                          ELSE ~Exists(s, full_path) /\ IsDir(s, Parent(full_path))
    IN  /\ Serving(s, c, 1) /\ verb[c] = "CREATE"
        /\ disk' = IF ok /\ ~Exists(s, full_path)
                   THEN Stored(s, full_path, IF touch THEN "file" ELSE "dir")
                   ELSE disk
        /\ SSAnswer(s, c, 1, ok)
        /\ UNCHANGED shipment

(* runDelete: rm for a path with a period, rm -rf for any other. *)
SSDelete(s, c) ==
    LET path == args[c][1]
        ok == /\ no_args[c] = 2
              /\ Dotted(path) => IsFile(s, path)
    IN  /\ Serving(s, c, 1) /\ verb[c] = "DELETE"
        /\ disk' = IF ok THEN Removed(s, {q \in DOMAIN disk[s] : Under(q, path)}) ELSE disk
        /\ SSAnswer(s, c, 1, ok)
        /\ UNCHANGED shipment

(* runSend: stat fails and the process exits; otherwise the content goes   *)
(* out, and what the sockets cannot hold waits for facilitateCopy.  The    *)
(* archive of a directory is made beside it but removed from the root.     *)
SSSend(s, c) ==
    LET path == args[c][1]
    IN  /\ Serving(s, c, 1) /\ verb[c] = "COPY"
        /\ \/ /\ ~Exists(s, path)
              /\ SSDies(s) /\ UNCHANGED crashes
           \/ /\ Exists(s, path)
              /\ path \in Large => pc[c] = "copying"
              /\ shipment' = [shipment EXCEPT ![c] = IF IsDir(s, path) THEN "dir" ELSE "file"]
              /\ disk' = IF IsDir(s, path) /\ Parent(path) # Empty
                         THEN Stored(s, path \o <<TarGz>>, "file") ELSE disk
              /\ SSAnswer(s, c, 1, TRUE)

(* runReceive creates <destination>/<name>, or exits when fopen fails.     *)
ReceiveInto(s, c, name, whole) ==
    LET file_path_name == Join(args[c][2], name)
        dir == name = Basename(args[c][1]) \o <<TarGz>>
        opens == IsDir(s, Parent(file_path_name)) /\ ~IsDir(s, file_path_name) /\ name # Empty
    IN  \/ /\ ~opens
           /\ SSDies(s) /\ UNCHANGED crashes
        \/ /\ opens
           /\ disk' = Stored(s, file_path_name, "file")
           /\ shipment' = [shipment EXCEPT ![c] = IF dir THEN "dir" ELSE "file"]
           /\ session' = [session EXCEPT ![s] = Nobody]
           /\ sock' = [sock EXCEPT ![c] =
                  [j \in {1, 2} |-> IF j = 2 THEN "ACK" ELSE IF whole THEN @[1] ELSE "FAIL"]]
           /\ UNCHANGED <<nm, mainVars, tableVars, naming_server_gets, pc, lineVars,
                          target, result, reply, ss, portVars, backlog, crashes>>

(* The name is what the first recv of facilitateCopy returned: nothing or  *)
(* a whole name from a source that died, else the base name, alone or run  *)
(* together with the content behind it.  When the STOP packet is run       *)
(* together with what comes before it, facilitateCopy reads to the end of  *)
(* the stream and finds no acknowledgement there: ~whole.  An archive is   *)
(* cut at every zero byte on its way, so tar extracts nothing from it.     *)
SSReceive(s, c) ==
    LET base == Basename(args[c][1]) \o (IF shipment[c] = "dir" THEN <<TarGz>> ELSE << >>)
    IN  /\ Serving(s, c, 2) /\ pc[c] = "copying"
        /\ \/ /\ sock[c][1] = "ACK"
              /\ \/ ReceiveInto(s, c, base, TRUE)
                 \/ Coalesce /\ \/ ReceiveInto(s, c, base, FALSE)
                                \/ \E whole \in BOOLEAN : ReceiveInto(s, c, base \o <<Glue>>, whole)
           \/ /\ sock[c][1] = "dead"
              /\ \E name \in {base, Empty} : ReceiveInto(s, c, name, TRUE)

SSServe(s) ==
    \E c \in Client : SSCreate(s, c) \/ SSDelete(s, c) \/ SSSend(s, c) \/ SSReceive(s, c)

Next ==
    \/ Main
    \/ \E c \in Client : ClientConnect(c) \/ Handle(c)
    \/ \E s \in Server : ServerStart(s) \/ SSListen(s) \/ SSAccept(s) \/ SSServe(s) \/ SSCrash(s)

(* The scheduler runs every thread that can run and TCP delivers: what is  *)
(* not a choice of a user or a crash is eventually done.                   *)
Work(c) ==
    \/ OpenSocket(c) \/ ClearBuffer(c) \/ RecvResult(c) \/ CheckResult(c)
    \/ CommitCreate(c) \/ CommitDelete(c) \/ CommitFail(c)
    \/ OpenFrom(c) \/ OpenTo(c) \/ HandshakeOver(c) \/ FacilitateCopy(c)
    \/ CopyRelookup(c) \/ CommitCopyFile(c) \/ CommitCopyDir(c)

Fairness ==
    /\ WF_vars(Main)
    /\ \A c \in Client : WF_vars(Work(c))
    /\ \A s \in Server : WF_vars(SSListen(s)) /\ WF_vars(SSAccept(s)) /\ WF_vars(SSServe(s))

Spec == Init /\ [][Next]_vars
FairSpec == Spec /\ Fairness

(* The users of a session start every server before the first client.  *)
ServersFirst ==
    (\E c \in Client : pc'[c] # "off") => \A s \in Server : ss[s] \in {"listening", "down"}
                                                        /\ StorageServersInfo # << >>
SessionSpec == Init /\ [][Next /\ ServersFirst]_vars /\ Fairness

-----------------------------------------------------------------------------
(* Properties.                                                             *)

MainTypeOK ==
    /\ nm \in {"running", "dead"}
    /\ incoming \in Seq(Client \cup Server)
    /\ mpc \in {"accept", "token", "dispatch", "info", "publish"}
    /\ peer \in Client \cup Server \cup {Nobody}
    /\ slot \in 0..MAX_ACC_PATHS
    /\ storage_server_count \in Nat
    /\ used_ports \in Seq(Nat)

SlotType == [server : Server, naming_port : Nat, client_port : Nat]

TableTypeOK ==
    /\ StorageServersInfo \in Seq(SlotType)
    /\ TableType(accessible_paths)
    /\ naming_server_gets \in {"", "c", "s", "ACK", "FAIL"}

ReplyType == [type : 0..6, text : {"", "ACK", "FAIL", "FOUND", "NOT FOUND"}, port : Nat]

HandlerTypeOK ==
    /\ pc \in [Client -> HandlerState]
    /\ verb \in [Client -> Verb]
    /\ args \in [Client -> [{1, 2} -> Str]]
    /\ no_args \in [Client -> Nat]
    /\ issued \in [Client -> 0..MaxCommands]
    /\ target \in [Client -> [{1, 2} -> Int]]
    /\ sock \in [Client -> [{1, 2} -> SocketState]]
    /\ result \in [Client -> 0..2]
    /\ reply \in [Client -> ReplyType]

ServerTypeOK ==
    /\ ss \in [Server -> ServerState]
    /\ naming_port \in [Server -> Nat] /\ client_port \in [Server -> Nat]
    /\ backlog \in [Server -> Seq(Conn)]
    /\ session \in [Server -> Conn \cup {Nobody}]
    /\ DOMAIN disk = Server
    /\ \A s \in Server : DOMAIN disk[s] \subseteq Str
    /\ shipment \in [Client -> Shipment]
    /\ crashes \in 0..MaxCrashes

TypeOK == MainTypeOK /\ TableTypeOK /\ HandlerTypeOK /\ ServerTypeOK

(* The main thread treats its peer as what it is, although the token it    *)
(* goes by passes through the buffer that the handlers write.              *)
PeerIsWhatItSaid ==
    /\ mpc \in {"token", "dispatch"} => peer \in Client \cup Server
    /\ mpc = "dispatch" /\ naming_server_gets = "c" => peer \in Client
    /\ mpc = "dispatch" /\ naming_server_gets = "s" => peer \in Server
    /\ mpc \in {"info", "publish"} => peer \in Server

Slots == 1..Len(StorageServersInfo)
PortsOf(k) == {StorageServersInfo[k].naming_port, StorageServersInfo[k].client_port}

(* No two slots share a port, and none has the naming server's own: what   *)
(* the loop over used_ports is for, at every step of a registration.       *)
PortsUnique ==
    \A k \in Slots :
        /\ NAMING_SERVER_PORT \notin PortsOf(k)
        /\ \A l \in Slots : k # l => PortsOf(k) \cap PortsOf(l) = {}

(* Every server that runs is in the table under the ports it listens on,   *)
(* and no other slot claims one of them: neither another server's nor one  *)
(* that is left from an earlier start of its own with other ports.         *)
ListedOnce ==
    \A s \in Server : ss[s] \in {"acked", "listening"} =>
        \E k \in Slots :
            /\ StorageServersInfo[k] = SlotOf(s)
            /\ \A l \in Slots \ {k} : PortsOf(l) \cap {naming_port[s], client_port[s]} = {}

(* A path never leads to a slot that is not filled yet, even while its     *)
(* server registers, and neither does the number a handler has looked up.  *)
RoutesResolve ==
    /\ \A p \in DOMAIN accessible_paths :
          accessible_paths[p] >= -1 /\ accessible_paths[p] < Len(StorageServersInfo)
    /\ \A c \in Client :
          /\ pc[c] \in {"connect", "copyFrom"} => target[c][1] + 1 \in Slots
          /\ pc[c] \in {"copyFrom", "copyFromWait", "copyTo"} => target[c][2] + 1 \in Slots

(* Only the server that registered the path a handler looked up ever gets  *)
(* its command, although handlers find servers by port and servers come,   *)
(* go and return with other ports or with each other's.                    *)
RightServer ==
    \A s \in Server : \A c \in Client : \A j \in {1, 2} :
        (session[s] = <<c, j>> \/ \E i \in 1..Len(backlog[s]) : backlog[s][i] = <<c, j>>)
            => /\ target[c][j] + 1 \in Slots
               /\ StorageServersInfo[target[c][j] + 1].server = s

(* A handler's socket and the servers agree on where its connection is:    *)
(* waiting in one place of one backlog, being served once, or over.        *)
ConnectionsAgree ==
    \A c \in Client : \A j \in {1, 2} :
        LET places == {p \in UNION {{s} \X (1..Len(backlog[s])) : s \in Server} :
                          backlog[p[1]][p[2]] = <<c, j>>}
            serving == {s \in Server : session[s] = <<c, j>>}
        IN  /\ Cardinality(places) = IF sock[c][j] = "queued" THEN 1 ELSE 0
            /\ Cardinality(serving) = IF sock[c][j] = "open" THEN 1 ELSE 0

(* The result a handler is about to act on is the answer its own storage   *)
(* server gave ("which is then directed to the Client", README).           *)
OwnResult ==
    \A c \in Client :
        pc[c] = "commit" => (result[c] = 1 <=> sock[c][1] = "ACK")

(* Between commands, the routes of each server are exactly what is on its  *)
(* disk (servers that export all they have).                               *)
Quiescent == mpc = "accept" /\ \A c \in Client : pc[c] \in {"off", "connecting", "recv"}
RoutesTo(k) == {p \in DOMAIN accessible_paths \ {Empty} : accessible_paths[p] = k - 1}

DirectoryMirrorsDisks ==
    Quiescent => \A k \in Slots : RoutesTo(k) = DOMAIN disk[StorageServersInfo[k].server]

(* Every command typed is answered, unless the naming server ends first.   *)
EveryCommandAnswered ==
    \A c \in Client :
        (pc[c] \notin {"off", "connecting", "recv"}) ~> (pc[c] = "recv" \/ nm = "dead")

(* Whoever connects is told a verdict: a client gets its thread, a server  *)
(* its registration or a refusal.                                          *)
EveryPeerHandled ==
    /\ \A c \in Client : pc[c] = "connecting" ~> (pc[c] # "connecting" \/ nm = "dead")
    /\ \A s \in Server : ss[s] = "connecting" ~> (ss[s] # "connecting" \/ nm = "dead")
=============================================================================
