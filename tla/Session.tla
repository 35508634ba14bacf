------------------------------ MODULE Session -------------------------------
(***************************************************************************)
(* One client and storage servers that keep apart: under which conditions  *)
(* the directory is exact, and what holds inside every command so that it  *)
(* is exact again when the command is over.                                *)
(***************************************************************************)
EXTENDS NamingServer

(* The paths a server makes accessible, its tree, and the paths where a    *)
(* COPY of a command line can leave a file outside of every tree: an empty *)
(* destination is the root.                                                *)
Exports(s) == {Export[s][i] : i \in 1..Len(Export[s])} \ {Empty}
InTree(s, p) == \E e \in Exports(s) : Under(p, e)
RootCopy(cmd) == Join(Empty, Basename(cmd.args[1]))
AtRoot(p) ==
    \E cmd \in Command : cmd.verb = "COPY" /\ Len(cmd.args) = 1 /\ Under(p, RootCopy(cmd))

(* Servers export all they have and no server exports a path in the tree   *)
(* of another; what they have that looks like a file is one.  A server is  *)
(* always started with the same ports: with others it takes a second slot, *)
(* and the paths made since its first start stay with the old one.         *)
ServersApart ==
    \A s \in Server :
        /\ \A p, q \in Ports[s] : p = q
        /\ DOMAIN InitialDisk[s] = Exports(s)
        /\ \A p \in Exports(s) : InitialDisk[s][p] = "dir" => ~Dotted(Basename(p))
        /\ \A t \in Server \ {s} : \A p \in Exports(s), q \in Exports(t) : ~Under(p, q)

(* Clients copy files only, and no server crashes if they do; a copy to    *)
(* the root is outside of every tree; and a recv returns what one send     *)
(* sent, which nothing in send_file and facilitateCopy sees to.            *)
(* Without the first a directory arrives as an archive that gets no route, *)
(* without the second a file arrives and its handler has already given up. *)
PlainCommands ==
    /\ ~Coalesce
    /\ \A cmd \in Command :
          /\ \A i \in 1..Len(cmd.args) : cmd.args[i] # Empty
          /\ cmd.verb = "COPY" =>
                /\ MaxCrashes = 0 /\ Len(cmd.args) > 0 /\ Dotted(Basename(cmd.args[1]))
    /\ \A cmd \in Command : cmd.verb = "COPY" /\ Len(cmd.args) = 1 =>
          \A s \in Server : \A p \in Exports(s) : ~Under(p, RootCopy(cmd)) /\ ~Under(RootCopy(cmd), p)

-----------------------------------------------------------------------------
SlotServer(k) == StorageServersInfo[k].server
Started(c) == pc[c] \notin {"off", "connecting"}

Editing == {"connect", "clear", "result", "check", "commit"}
Copying == {"copyFrom", "copyFromWait", "copyTo", "copyToWait", "copying", "relookup", "commitCopy"}

(* The tokens of the last command line are not empty. *)
GivenArgs(c) ==
    /\ no_args[c] >= 2 => args[c][1] # Empty
    /\ no_args[c] >= 3 => args[c][2] # Empty

(* Before the client has its handler: what main has published.             *)
Published(c) ==
    /\ GivenArgs(c)
    /\ disk = InitialDisk
    /\ mpc = "publish" => peer = SlotServer(Len(StorageServersInfo))
    /\ \A k \in Slots : RoutesTo(k) =
          IF mpc = "publish" /\ k = Len(StorageServersInfo)
          THEN {Export[peer][i] : i \in {i \in 1..Len(Export[peer]) : i <= slot}} \ {Empty}
          ELSE Exports(SlotServer(k))

(* The command has been carried out, and the table does not know it yet. *)
Created(c) == pc[c] \in Editing \ {"connect"} /\ verb[c] = "CREATE" /\ sock[c][1] = "ACK"
Deleted(c) == pc[c] \in Editing \ {"connect"} /\ verb[c] = "DELETE" /\ sock[c][1] = "ACK"
Copied(c)  == pc[c] \in {"copying", "relookup", "commitCopy"} /\ sock[c][2] = "ACK"

Pending(c) == Created(c) \/ Deleted(c) \/ Copied(c)

Copy(c) == Join(args[c][2], Basename(args[c][1]))

(* The routes of a server as they are to be when the command is over. *)
Expected(c, k) ==
    {p \in RoutesTo(k) : ~(Deleted(c) /\ Under(p, args[c][1]))}
    \cup (IF Created(c) /\ k = target[c][1] + 1 THEN {Join(args[c][1], args[c][2])} ELSE {})
    \cup (IF Copied(c) /\ k = target[c][2] + 1 THEN {Copy(c)} ELSE {})

(* Up to the command under way, the routes of a server are its disk. *)
Mirrored(c) == \A k \in Slots : DOMAIN disk[SlotServer(k)] = Expected(c, k)

(* Every path is in the tree of its server, or at the root of the only     *)
(* server that the empty path leads to.                                    *)
Belongs(s, p, r) == p # Empty /\ (InTree(s, p) \/ (AtRoot(p) /\ s = r))
PlacedAt(r) ==
    /\ Empty \in DOMAIN accessible_paths /\ accessible_paths[Empty] + 1 \in Slots =>
          r = SlotServer(accessible_paths[Empty] + 1)
    /\ \A s \in Server : \A p \in DOMAIN disk[s] : Belongs(s, p, r)
Placed == \E r \in Server \cup {Nobody} : PlacedAt(r)

(* Only files have a name that tells main they are one. *)
Kinds == \A s \in Server : \A p \in DOMAIN disk[s] : disk[s][p] = "dir" => ~Dotted(Basename(p))

(* What the handler of a CREATE or DELETE has looked up still holds. *)
EditFacts(c) == pc[c] \in Editing =>
    /\ verb[c] \in {"CREATE", "DELETE"}
    /\ target[c][1] = get_value(accessible_paths, args[c][1]) /\ target[c][1] # -1
    /\ Created(c) => no_args[c] = 3
    /\ Deleted(c) => no_args[c] = 2

(* The same of a COPY, and how far its two servers are at each step. *)
CopyFacts(c) == pc[c] \in Copying =>
    /\ verb[c] = "COPY" /\ MaxCrashes = 0
    /\ \A j \in {1, 2} : target[c][j] = get_value(accessible_paths, args[c][j]) /\ target[c][j] # -1
    /\ args[c][1] # Empty /\ Dotted(Basename(args[c][1]))
    /\ args[c][2] = Empty => AtRoot(Copy(c))
    /\ pc[c] # "copyFrom" => sock[c][1] \in {"queued", "open", "ACK"}
    /\ pc[c] # "copyFrom" /\ sock[c][1] = "ACK" => shipment[c] = "file"
    /\ pc[c] = "copyToWait" => sock[c][2] # "ACK"
    /\ Copied(c) => sock[c][1] = "ACK"
    /\ pc[c] \in {"relookup", "commitCopy"} => sock[c][2] = "ACK" /\ result[c] = 1

(* The handler runs, and all servers have registered. *)
Settled(c) ==
    /\ mpc = "accept"
    /\ Mirrored(c) /\ Placed /\ Kinds /\ GivenArgs(c) /\ EditFacts(c) /\ CopyFacts(c)

(* The inductive invariant: disks and routes are apart by the command      *)
(* under way, and by what main has still to publish before there is one.   *)
SessionMirror ==
    \A c \in Client : IF Started(c) THEN Settled(c) ELSE Published(c)

-----------------------------------------------------------------------------
(* The naming server as a directory: what the servers of its slots have on *)
(* their disks, and the command of its client.                             *)

TheClient == CHOOSE c \in Client : TRUE

Files == UNION {DOMAIN disk[SlotServer(k)] : k \in Slots}
Asked(c) == [verb |-> verb[c], from |-> args[c][1], to |-> args[c][2]]
Phase(c) == IF pc[c] \in {"off", "connecting", "recv"} THEN "idle"
            ELSE IF Pending(c) THEN "done" ELSE "asked"

D == INSTANCE Directory WITH files <- Files, asked <- Asked(TheClient),
                             phase <- Phase(TheClient), told <- reply[TheClient].text

(* The handler with its table, main and the storage servers are one        *)
(* directory: a command changes the disk of its server once, at the moment *)
(* the server carries it out, and what the client is told is true.         *)
ImplementsDirectory == D!Spec
=============================================================================
