--------------------------- MODULE StorageServer ----------------------------
(***************************************************************************)
(* storageserverinit.c and operations/: one storage server, with the       *)
(* portThread of the naming port, the portThread of the client port and    *)
(* the transfer threads these start and join, and the clients' end of      *)
(* READ, WRITE and DETAILS (clientinit.c).                                 *)
(*                                                                         *)
(* The two threads share path_to_sem, associated_files and the disk; only  *)
(* the client port uses the semaphores.  A file is an inode, which a       *)
(* thread that has it open keeps when the path is removed.  Its content is *)
(* a sequence of blocks, a block being what one message carries and what   *)
(* stdio moves at a time: fwrite passes one on when the next arrives, and  *)
(* fclose the last one.                                                    *)
(***************************************************************************)
EXTENDS Paths, FiniteSets

CONSTANTS
    Client,
    Request,                \* what clients may ask: [op, path, no_args]
    NamingCommand,          \* what the naming server may send: [op, path, name]
    Export,                 \* the paths made accessible at the start
    InitialDir,             \* the directories on the disk, a set,
    InitialFile,            \* and the files, in any order
    TarGz,                  \* ".tar.gz"
    LocalFile,              \* what clients have to send: sequences of Chunk
    Blocks,                 \* blocks in a file of the server, or a copy
    MAX_ASSOCIATED_FILES,
    MaxRequests,            \* bound: requests per client
    MaxNaming,              \* bound: commands from the naming server
    MaxQuits                \* bound: clients that end in the middle

NoCommand == [op |-> "none", path |-> Empty, name |-> Empty]
NoRequest == [op |-> "none", path |-> Empty, no_args |-> 0]

(* A command from the naming server with another number of arguments than  *)
(* its operation takes is answered FAIL and changes nothing here.          *)
(* What a client sends of a file at a time: text, bytes with a zero among  *)
(* them, or what reads "STOP" up to its end or its first zero byte.        *)
Chunk == {"text", "zero", "STOP"}

ASSUME CommandAssumption ==
    /\ LocalFile \subseteq Seq(Chunk)
    /\ Request \subseteq [op : {"READ", "WRITE", "DETAILS"}, path : Str, no_args : Nat]
    /\ NamingCommand \subseteq
           [op : {"CREATE", "DELETE", "SEND", "RECEIVE"}, path : Str, name : Str]

Members(seq) == {seq[i] : i \in 1..Len(seq)}
Distinct(seq) == \A i, j \in 1..Len(seq) : seq[i] = seq[j] => i = j
PlaceOf(seq, p) == CHOOSE i \in 1..Len(seq) : seq[i] = p

ASSUME DiskAssumption ==
    /\ InitialDir \subseteq Str /\ InitialFile \in Seq(Str \ InitialDir)
    /\ Distinct(InitialFile) /\ Empty \notin Members(InitialFile)
    /\ Export \in Seq(InitialDir \cup Members(InitialFile)) /\ Distinct(Export)
    /\ TarGz \in DottedLetter

(* The bound on CREATEs keeps every index inside the arrays. *)
ASSUME BoundAssumption ==
    /\ Blocks \in Nat \ {0} /\ MAX_ASSOCIATED_FILES \in Nat \ {0}
    /\ MaxRequests \in Nat /\ MaxNaming \in Nat /\ MaxQuits \in Nat
    /\ Len(Export) + MaxNaming <= MAX_ASSOCIATED_FILES

VARIABLES
    alive,                  \* the storage server process runs
    path_to_sem, associated_files,
    semaphores, semlocks, reader_count,
    disk,                   \* path -> inode, Dir for a directory
    data,                   \* inode -> its blocks
    \* the naming port
    npc, ncmd, nhandle, npos, commands,
    \* the client port: its backlog, and the session of each client
    queue, pc, request, index, handle, pos,
    \* the clients, and the file each of them sends
    client, upload, issued, quits

semVars     == <<semaphores, semlocks, reader_count>>
tableVars   == <<path_to_sem, associated_files>>
diskVars    == <<disk, data>>
namingVars  == <<npc, ncmd, nhandle, npos, commands>>
sessionVars == <<queue, pc, request, index, handle, pos>>
clientVars  == <<client, upload, issued, quits>>
vars == <<alive, tableVars, semVars, diskVars, namingVars, sessionVars, clientVars>>

Dir == 0
Index == 0..(MAX_ASSOCIATED_FILES - 1)

(* A block says whose content it is part of; a hole is what lies before    *)
(* the offset of a write into a file cut short meanwhile.                  *)
Mine(c) == <<"client", c>>
Cut(c)  == <<"cut", c>>
Source == {Mine(c) : c \in Client} \cup {Cut(c) : c \in Client}
          \cup {<<"original", 0>>, <<"copy", 0>>}
Hole == <<"hole", 0>>
Block == (Source \cup {Hole}) \X Nat
Content(v) == [k \in 1..Blocks |-> <<v, k>>]

(* main: the chosen files get the first indices and fresh semaphores; the  *)
(* rest of the static arrays is zero.                                      *)
Init ==
    /\ alive = TRUE
    /\ path_to_sem = [p \in Members(Export) |-> PlaceOf(Export, p) - 1]
    /\ associated_files = Len(Export)
    /\ semaphores = [i \in Index |-> IF i < Len(Export) THEN 1 ELSE 0]
    /\ semlocks = [i \in Index |-> IF i < Len(Export) THEN 1 ELSE 0]
    /\ reader_count = [i \in Index |-> 0]
    /\ disk = [p \in InitialDir \cup Members(InitialFile) |->
                  IF p \in InitialDir THEN Dir ELSE PlaceOf(InitialFile, p)]
    /\ data = [n \in 1..Len(InitialFile) |-> Content(<<"original", 0>>)]
    /\ npc = "accept" /\ ncmd = NoCommand
    /\ nhandle = Dir /\ npos = 0 /\ commands = 0
    /\ queue = << >>
    /\ pc = [c \in Client |-> "none"]
    /\ request = [c \in Client |-> NoRequest]
    /\ index = [c \in Client |-> 0]
    /\ handle = [c \in Client |-> Dir]
    /\ pos = [c \in Client |-> 0]
    /\ client = [c \in Client |-> "idle"]
    /\ upload = [c \in Client |-> << >>]
    /\ issued = [c \in Client |-> 0]
    /\ quits = 0

(* exit() in any thread, a fault, or SIGPIPE: the whole process ends. *)
Dies ==
    /\ alive' = FALSE
    /\ UNCHANGED <<tableVars, semVars, diskVars, namingVars, sessionVars, clientVars>>

-----------------------------------------------------------------------------
(* The disk.                                                               *)

Exists(p) == p = Empty \/ p \in DOMAIN disk
IsDir(p)  == p = Empty \/ (p \in DOMAIN disk /\ disk[p] = Dir)

With(p, inode) == [q \in DOMAIN disk \cup {p} |-> IF q = p THEN inode ELSE disk[q]]
NewInode == Len(data) + 1

(* fopen(p, "wb"): an existing file is cut to nothing, another one made.   *)
CanOpenForWriting(p) == p # Empty /\ ~IsDir(p) /\ (Exists(p) \/ IsDir(Parent(p)))
OpenedInode(p) == IF p \in DOMAIN disk THEN disk[p] ELSE NewInode
OpenedData(p) == IF p \in DOMAIN disk THEN [data EXCEPT ![disk[p]] = << >>]
                 ELSE Append(data, << >>)
OpenForWriting(p) == disk' = With(p, OpenedInode(p)) /\ data' = OpenedData(p)

(* A block, <<source, place>>, arrives at its place, whatever is there. *)
Put(inode, block) ==
    LET k == block[2]
    IN  [data EXCEPT ![inode] =
            [j \in 1..(IF Len(@) < k THEN k ELSE Len(@)) |->
                IF j = k THEN block ELSE IF j <= Len(@) THEN @[j] ELSE <<Hole, 0>>]]

Readable(inode) == IF inode = Dir THEN << >> ELSE data[inode]

-----------------------------------------------------------------------------
(* The clients: a user asks for one thing at a time; the program then      *)
(* follows the storage server, but for WRITE first has the user name the   *)
(* file to send, with the connection open.                                 *)

ClientRequest(c, r) ==
    /\ alive /\ client[c] = "idle" /\ pc[c] = "none" /\ issued[c] < MaxRequests
    /\ client' = [client EXCEPT ![c] = "queued"]
    /\ issued' = [issued EXCEPT ![c] = @ + 1]
    /\ request' = [request EXCEPT ![c] = r]
    /\ queue' = Append(queue, c)
    /\ UNCHANGED <<alive, tableVars, semVars, diskVars, namingVars, pc, index, handle, pos, upload, quits>>

(* The user names the file.  A connection closed meanwhile is noticed at   *)
(* the first block.                                                        *)
ClientChoose(c) ==
    /\ alive /\ client[c] = "typing"
    /\ \/ /\ pc[c] = "none"
          /\ client' = [client EXCEPT ![c] = "idle"]
          /\ upload' = upload
       \/ /\ pc[c] # "none"
          /\ client' = [client EXCEPT ![c] = "sending"]
          /\ \E file \in LocalFile : upload' = [upload EXCEPT ![c] = file]
    /\ UNCHANGED <<alive, tableVars, semVars, diskVars, namingVars, sessionVars, issued, quits>>

(* The file does not open, or the user interrupts the program. *)
ClientQuit(c) ==
    /\ alive /\ client[c] \in {"typing", "sending", "receiving"} /\ quits < MaxQuits
    /\ client' = [client EXCEPT ![c] = "gone"]
    /\ quits' = quits + 1
    /\ UNCHANGED <<alive, tableVars, semVars, diskVars, namingVars, sessionVars, upload, issued>>

-----------------------------------------------------------------------------
(* The client port.                                                        *)

InService(c) == pc[c] # "none"

Serve(c) ==
    /\ pc' = [pc EXCEPT ![c] = "start"]
    /\ queue' = Tail(queue)
    /\ client' = [client EXCEPT ![c] = IF request[c].op = "WRITE" THEN "typing" ELSE "receiving"]
    /\ UNCHANGED <<alive, tableVars, semVars, diskVars, namingVars, request, index, handle,
                   pos, upload, issued, quits>>

(* Mutant: the transfer thread is not joined. *)
AcceptDetached(c) == alive /\ queue # << >> /\ c = Head(queue) /\ Serve(c)

(* accept and the arguments.  portThread joins the transfer thread before  *)
(* it comes back here.                                                     *)
Accept(c) ==
    /\ alive /\ queue # << >> /\ c = Head(queue)
    /\ \A d \in Client : ~InService(d)
    /\ Serve(c)

(* A command that is refused is not answered: the connection just closes.  *)
(* A READ client goes on acknowledging until SIGPIPE ends it, the others   *)
(* get an error or nothing.                                                *)
Refuse(c) ==
    /\ pc' = [pc EXCEPT ![c] = "none"]
    /\ client' = [client EXCEPT ![c] =
           CASE @ = "receiving" -> IF request[c].op = "READ" THEN "gone" ELSE "idle"
             [] @ = "sending" -> "idle"
             [] OTHER -> @]
    /\ UNCHANGED <<alive, tableVars, semVars, diskVars, namingVars, queue, request, index,
                   handle, pos, upload, issued, quits>>

(* get_value while the other thread is inside set_value or remove_entry:   *)
(* an entry copied or entered without its value yet reads as 0, one being  *)
(* moved or cut off is not found, and a key or bucket gone is a fault.  A  *)
(* lookup that ended at the free bucket the new entry then takes is given  *)
(* the index of that, whatever it looked for.                              *)
TableInUse == npc \in {"map", "unmap"}
Found(p) ==
    {get_value(path_to_sem, p)}
    \cup (IF TableInUse THEN {-1, 0} ELSE {})
    \cup (IF npc = "map" THEN {associated_files} ELSE {})

(* Mutant: a path that is not found is not refused. *)
LookupUnchecked(c) ==
    /\ alive /\ pc[c] = "start" /\ request[c].op \in {"READ", "WRITE"}
    /\ \E i \in Found(request[c].path) :
          /\ index' = [index EXCEPT ![c] = i]
          /\ pc' = [pc EXCEPT ![c] = IF request[c].op = "READ" THEN "enter" ELSE "create"]
          /\ pos' = [pos EXCEPT ![c] = 0]
          /\ UNCHANGED <<alive, tableVars, semVars, diskVars, namingVars, queue, request,
                         handle, clientVars>>

Lookup(c) ==
    /\ alive /\ pc[c] = "start" /\ request[c].op \in {"READ", "WRITE"}
    /\ \/ request[c].no_args # 2 /\ Refuse(c)
       \/ /\ request[c].no_args = 2
          /\ \E i \in Found(request[c].path) :
                \/ i = -1 /\ Refuse(c)
                \/ /\ i # -1
                   /\ index' = [index EXCEPT ![c] = i]
                   /\ pc' = [pc EXCEPT ![c] = IF request[c].op = "READ" THEN "enter" ELSE "create"]
                   /\ pos' = [pos EXCEPT ![c] = 0]
                   /\ UNCHANGED <<alive, tableVars, semVars, diskVars, namingVars, queue,
                                  request, handle, clientVars>>
       \/ request[c].no_args = 2 /\ TableInUse /\ Dies

Goto(c, label) == pc' = [pc EXCEPT ![c] = label]

(* read_file.  semlock is held while the reader waits for the writers'     *)
(* semaphore.  Every reader takes that, the first or not: the test of      *)
(* reader_count comes after the increment and is always true.              *)
ReadEnter(c) ==
    /\ alive /\ pc[c] = "enter" /\ semlocks[index[c]] > 0
    /\ semlocks' = [semlocks EXCEPT ![index[c]] = @ - 1]
    /\ reader_count' = [reader_count EXCEPT ![index[c]] = @ + 1]
    /\ Goto(c, "take")
    /\ UNCHANGED <<alive, tableVars, semaphores, diskVars, namingVars, queue, request, index,
                   handle, pos, clientVars>>

ReadTake(c) ==
    /\ alive /\ pc[c] = "take"
    /\ semaphores[index[c]] > 0
    /\ semaphores' = [semaphores EXCEPT ![index[c]] = @ - 1]
    /\ semlocks' = [semlocks EXCEPT ![index[c]] = @ + 1]
    /\ Goto(c, "open")
    /\ UNCHANGED <<alive, tableVars, reader_count, diskVars, namingVars, queue, request, index,
                   handle, pos, clientVars>>

ReadOpen(c) ==
    /\ alive /\ pc[c] = "open"
    /\ \/ /\ Exists(request[c].path)
          /\ handle' = [handle EXCEPT ![c] =
                           IF IsDir(request[c].path) THEN Dir ELSE disk[request[c].path]]
          /\ Goto(c, "read")
          /\ UNCHANGED <<alive, tableVars, semVars, diskVars, namingVars, queue, request, index,
                         pos, clientVars>>
       \/ ~Exists(request[c].path) /\ Dies

ReadSend(c) ==
    /\ alive /\ pc[c] = "read" /\ pos[c] < Len(Readable(handle[c]))
    /\ pos' = [pos EXCEPT ![c] = @ + 1]
    /\ Goto(c, "ack")
    /\ UNCHANGED <<alive, tableVars, semVars, diskVars, namingVars, queue, request, index,
                   handle, clientVars>>

(* A client that is gone does not acknowledge, and the server exits. *)
ReadAck(c) ==
    /\ alive /\ pc[c] = "ack"
    /\ \/ /\ client[c] # "gone"
          /\ Goto(c, "read")
          /\ UNCHANGED <<alive, tableVars, semVars, diskVars, namingVars, queue, request, index,
                         handle, pos, clientVars>>
       \/ client[c] = "gone" /\ Dies

(* The end of the file: STOP, with which the client is done. *)
ReadStop(c) ==
    /\ alive /\ pc[c] = "read" /\ pos[c] >= Len(Readable(handle[c]))
    /\ Goto(c, "leave")
    /\ client' = [client EXCEPT ![c] = IF @ = "gone" THEN @ ELSE "idle"]
    /\ UNCHANGED <<alive, tableVars, semVars, diskVars, namingVars, queue, request, index,
                   handle, pos, upload, issued, quits>>

(* Mutant: the last reader keeps the file from the writers. *)
ReadLeaveKeeps(c) ==
    /\ alive /\ pc[c] = "leave" /\ semlocks[index[c]] > 0
    /\ reader_count' = [reader_count EXCEPT ![index[c]] = @ - 1]
    /\ Goto(c, "none")
    /\ UNCHANGED <<alive, tableVars, semlocks, semaphores, diskVars, namingVars, queue, request,
                   index, handle, pos, clientVars>>

ReadLeave(c) ==
    /\ alive /\ pc[c] = "leave" /\ semlocks[index[c]] > 0
    /\ reader_count' = [reader_count EXCEPT ![index[c]] = @ - 1]
    /\ semaphores' = IF reader_count[index[c]] = 1
                     THEN [semaphores EXCEPT ![index[c]] = @ + 1] ELSE semaphores
    /\ Goto(c, "none")
    /\ UNCHANGED <<alive, tableVars, semlocks, diskVars, namingVars, queue, request, index,
                   handle, pos, clientVars>>

(* write_to_file.  The file is cut before the semaphore is waited for. *)
WriteOpen(c) ==
    /\ alive /\ pc[c] = "create"
    /\ \/ /\ CanOpenForWriting(request[c].path)
          /\ OpenForWriting(request[c].path)
          /\ handle' = [handle EXCEPT ![c] = OpenedInode(request[c].path)]
          /\ Goto(c, "wait")
          /\ UNCHANGED <<alive, tableVars, semVars, namingVars, queue, request, index, pos,
                         clientVars>>
       \/ ~CanOpenForWriting(request[c].path) /\ Dies

WriteTake(c) ==
    /\ alive /\ pc[c] = "wait" /\ semaphores[index[c]] > 0
    /\ semaphores' = [semaphores EXCEPT ![index[c]] = @ - 1]
    /\ Goto(c, "write")
    /\ UNCHANGED <<alive, tableVars, semlocks, reader_count, diskVars, namingVars, queue, request,
                   index, handle, pos, clientVars>>

(* A chunk is acknowledged when it has arrived, and strlen of it written:  *)
(* no more than what comes before its first zero byte.  It reaches the     *)
(* file when the next one comes.                                           *)
Piece(c, k) == <<IF upload[c][k] = "zero" THEN Cut(c) ELSE Mine(c), k>>
More(c) == pos[c] < Len(upload[c]) /\ upload[c][pos[c] + 1] # "STOP"
Flushed(c) == IF pos[c] = 0 THEN data ELSE Put(handle[c], Piece(c, pos[c]))

WriteBlock(c) ==
    /\ alive /\ pc[c] = "write" /\ client[c] = "sending" /\ More(c)
    /\ data' = Flushed(c)
    /\ pos' = [pos EXCEPT ![c] = @ + 1]
    /\ UNCHANGED <<alive, tableVars, semVars, disk, namingVars, queue, pc, request, index, handle,
                   clientVars>>

(* Mutant: the writer leaves with the semaphore. *)
WriteStopKeeps(c) ==
    /\ alive /\ pc[c] = "write" /\ client[c] = "sending" /\ ~More(c)
    /\ Goto(c, "flush")
    /\ client' = [client EXCEPT ![c] = "idle"]
    /\ UNCHANGED <<alive, tableVars, semVars, diskVars, namingVars, queue, request, index,
                   handle, pos, upload, issued, quits>>

(* STOP, or a chunk that reads so: the semaphore is given back before      *)
(* fclose.  A client that has more to send finds the connection closed.    *)
WriteStop(c) ==
    /\ alive /\ pc[c] = "write" /\ client[c] = "sending" /\ ~More(c)
    /\ semaphores' = [semaphores EXCEPT ![index[c]] = @ + 1]
    /\ Goto(c, "flush")
    /\ client' = [client EXCEPT ![c] = "idle"]
    /\ UNCHANGED <<alive, tableVars, semlocks, reader_count, diskVars, namingVars, queue, request,
                   index, handle, pos, upload, issued, quits>>

WriteClose(c) ==
    /\ alive /\ pc[c] = "flush"
    /\ data' = Flushed(c)
    /\ Goto(c, "none")
    /\ UNCHANGED <<alive, tableVars, semVars, disk, namingVars, queue, request, index, handle, pos,
                   clientVars>>

(* recv returns nothing for ever; the second acknowledgement is SIGPIPE. *)
WriteCut(c) == alive /\ pc[c] = "write" /\ client[c] = "gone" /\ Dies

(* get_file_details: no lookup; stat, the answer, and whatever comes back. *)
DetailsSend(c) ==
    /\ alive /\ pc[c] = "start" /\ request[c].op = "DETAILS"
    /\ \/ request[c].no_args # 2 /\ Refuse(c)
       \/ /\ request[c].no_args = 2 /\ Exists(request[c].path)
          /\ Goto(c, "details")
          /\ UNCHANGED <<alive, tableVars, semVars, diskVars, namingVars, queue, request, index,
                         handle, pos, clientVars>>
       \/ request[c].no_args = 2 /\ ~Exists(request[c].path) /\ Dies

DetailsEnd(c) ==
    /\ alive /\ pc[c] = "details"
    /\ Goto(c, "none")
    /\ client' = [client EXCEPT ![c] = IF @ = "gone" THEN @ ELSE "idle"]
    /\ UNCHANGED <<alive, tableVars, semVars, diskVars, namingVars, queue, request, index,
                   handle, pos, upload, issued, quits>>

Transfer(c) ==
    \/ Lookup(c)
    \/ ReadEnter(c) \/ ReadTake(c) \/ ReadOpen(c) \/ ReadSend(c) \/ ReadAck(c)
    \/ ReadStop(c) \/ ReadLeave(c)
    \/ WriteOpen(c) \/ WriteTake(c) \/ WriteBlock(c) \/ WriteStop(c) \/ WriteClose(c)
    \/ WriteCut(c)
    \/ DetailsSend(c) \/ DetailsEnd(c)

-----------------------------------------------------------------------------
(* The naming port: one command at a time, whatever the naming server has  *)
(* sent; it takes no semaphore.                                            *)

NamingStep(label) == npc' = label /\ UNCHANGED <<alive, semVars, sessionVars, clientVars>>

NamingReceive(n) ==
    /\ alive /\ npc = "accept" /\ commands < MaxNaming
    /\ NamingStep("exec")
    /\ ncmd' = n /\ commands' = commands + 1
    /\ UNCHANGED <<tableVars, diskVars, nhandle, npos>>

CreatedPath == Join(ncmd.path, ncmd.name)

(* touch leaves an existing file as it is and succeeds. *)
ExecCreate ==
    LET touch == Dotted(ncmd.name)
        ok == IF touch THEN Exists(CreatedPath) \/ IsDir(Parent(CreatedPath))
                       ELSE ~Exists(CreatedPath) /\ IsDir(Parent(CreatedPath))
        new == ok /\ ~Exists(CreatedPath)
    IN  /\ alive /\ npc = "exec" /\ ncmd.op = "CREATE"
        /\ NamingStep(IF ok THEN "map" ELSE "accept")
        /\ disk' = IF new THEN With(CreatedPath, IF touch THEN NewInode ELSE Dir) ELSE disk
        /\ data' = IF new /\ touch THEN Append(data, << >>) ELSE data
        /\ UNCHANGED <<tableVars, ncmd, nhandle, npos, commands>>

(* Mutant: every created file gets the same index. *)
MapCreateSame ==
    /\ alive /\ npc = "map"
    /\ NamingStep("accept")
    /\ path_to_sem' = set_value(path_to_sem, CreatedPath, associated_files)
    /\ UNCHANGED <<associated_files, diskVars, ncmd, nhandle, npos, commands>>

(* A new index each time, whose semaphores nobody initialises. *)
MapCreate ==
    /\ alive /\ npc = "map"
    /\ NamingStep("accept")
    /\ path_to_sem' = set_value(path_to_sem, CreatedPath, associated_files)
    /\ associated_files' = associated_files + 1
    /\ UNCHANGED <<diskVars, ncmd, nhandle, npos, commands>>

ExecDelete ==
    LET ok == Dotted(ncmd.path) => (Exists(ncmd.path) /\ ~IsDir(ncmd.path))
    IN  /\ alive /\ npc = "exec" /\ ncmd.op = "DELETE"
        /\ NamingStep(IF ok THEN "unmap" ELSE "accept")
        /\ disk' = IF ok THEN [q \in {q \in DOMAIN disk : ~Under(q, ncmd.path)} |-> disk[q]] ELSE disk
        /\ UNCHANGED <<tableVars, data, ncmd, nhandle, npos, commands>>

(* Mutant: one character too many is skipped with the leading period. *)
MapDeletePast ==
    /\ alive /\ npc = "unmap"
    /\ NamingStep("accept")
    /\ path_to_sem' = remove_entry(path_to_sem, Chop(ncmd.path, 1), FALSE)
    /\ UNCHANGED <<associated_files, diskVars, ncmd, nhandle, npos, commands>>

MapDelete ==
    /\ alive /\ npc = "unmap"
    /\ NamingStep("accept")
    /\ path_to_sem' = remove_entry(path_to_sem, ncmd.path, FALSE)
    /\ UNCHANGED <<associated_files, diskVars, ncmd, nhandle, npos, commands>>

(* send_file; the archive of a directory is made beside it, and the file   *)
(* of the archive's name in the root removed.                              *)
SendArchive(archive) ==
    LET made == With(archive, OpenedInode(archive))
        stray == <<"/">> \o Basename(archive)
    IN  /\ disk' = [q \in {q \in DOMAIN made : q # stray \/ made[q] = Dir} |-> made[q]]
        /\ data' = OpenedData(archive)

ExecSend ==
    /\ alive /\ npc = "exec" /\ ncmd.op = "SEND"
    /\ \/ /\ Exists(ncmd.path)
          /\ NamingStep("accept")
          /\ LET archive == ncmd.path \o <<TarGz>>
             IN  IF IsDir(ncmd.path) /\ ncmd.path # Empty /\ CanOpenForWriting(archive)
                 THEN SendArchive(archive)
                 ELSE UNCHANGED diskVars
          /\ UNCHANGED <<tableVars, ncmd, nhandle, npos, commands>>
       \/ ~Exists(ncmd.path) /\ Dies

(* receive_file: <path>/<name> is opened and filled as the blocks come. *)
ExecReceive ==
    /\ alive /\ npc = "exec" /\ ncmd.op = "RECEIVE"
    /\ \/ /\ CanOpenForWriting(CreatedPath)
          /\ NamingStep("receive")
          /\ OpenForWriting(CreatedPath)
          /\ nhandle' = OpenedInode(CreatedPath) /\ npos' = 0
          /\ UNCHANGED <<tableVars, ncmd, commands>>
       \/ ~CanOpenForWriting(CreatedPath) /\ Dies

CopyFlushed == IF npos = 0 THEN data ELSE Put(nhandle, <<<<"copy", 0>>, npos>>)

ReceiveBlock ==
    /\ alive /\ npc = "receive" /\ npos < Blocks
    /\ npos' = npos + 1
    /\ data' = CopyFlushed
    /\ NamingStep("receive")
    /\ UNCHANGED <<tableVars, disk, ncmd, nhandle, commands>>

(* STOP, or a block that reads so, or nothing to copy. *)
ReceiveStop ==
    /\ alive /\ npc = "receive"
    /\ data' = CopyFlushed
    /\ NamingStep("accept")
    /\ UNCHANGED <<tableVars, disk, ncmd, nhandle, npos, commands>>

NamingPort ==
    \/ ExecCreate \/ MapCreate \/ ExecDelete \/ MapDelete \/ ExecSend
    \/ ExecReceive \/ ReceiveBlock \/ ReceiveStop

-----------------------------------------------------------------------------
Next ==
    \/ \E c \in Client :
          \/ \E r \in Request : ClientRequest(c, r)
          \/ ClientChoose(c) \/ ClientQuit(c) \/ Accept(c) \/ Transfer(c)
    \/ \E n \in NamingCommand : NamingReceive(n)
    \/ NamingPort

(* Both threads run when they can, the peers' programs answer, and a user  *)
(* asked for a file name names one sooner or later.                        *)
Fairness ==
    /\ WF_vars(NamingPort)
    /\ \A c \in Client : WF_vars(Accept(c)) /\ WF_vars(Transfer(c)) /\ WF_vars(ClientChoose(c))

Spec == Init /\ [][Next]_vars
FairSpec == Spec /\ Fairness

-----------------------------------------------------------------------------
(* Properties.                                                             *)

Inode == 1..Len(data)
Holding(c) == pc[c] \in {"open", "read", "ack", "leave", "write"}
Inside(c)  == pc[c] \in {"take", "open", "read", "ack", "leave"}
Session == {"none", "start", "enter", "take", "open", "read", "ack", "leave",
            "create", "wait", "write", "flush", "details"}

TableTypeOK == TableType(path_to_sem) /\ associated_files \in Nat

SemTypeOK ==
    /\ semaphores \in [Index -> Nat] /\ semlocks \in [Index -> Nat]
    /\ reader_count \in [Index -> Int]

DiskTypeOK ==
    /\ data \in Seq(Seq(Block))
    /\ DOMAIN disk \subseteq Str
    /\ \A p \in DOMAIN disk : disk[p] \in Inode \cup {Dir}

NamingTypeOK ==
    /\ npc \in {"accept", "exec", "map", "unmap", "receive"}
    /\ ncmd \in NamingCommand \cup {NoCommand}
    /\ nhandle \in Inode \cup {Dir} /\ npos \in 0..Blocks /\ commands \in 0..MaxNaming

SessionTypeOK ==
    /\ queue \in Seq(Client)
    /\ pc \in [Client -> Session]
    /\ request \in [Client -> Request \cup {NoRequest}]
    /\ index \in [Client -> Nat]
    /\ handle \in [Client -> Inode \cup {Dir}]
    /\ pos \in [Client -> Nat]

ClientTypeOK ==
    /\ client \in [Client -> {"idle", "queued", "typing", "sending", "receiving", "gone"}]
    /\ upload \in [Client -> Seq(Chunk)]
    /\ issued \in [Client -> 0..MaxRequests] /\ quits \in 0..MaxQuits

TypeOK ==
    /\ alive \in BOOLEAN
    /\ TableTypeOK /\ SemTypeOK /\ DiskTypeOK /\ NamingTypeOK /\ SessionTypeOK /\ ClientTypeOK

(* Two files never have semaphores in common, and none has one outside     *)
(* the indices given out, whatever was created, deleted and created again. *)
IndicesDistinct ==
    \A p, q \in DOMAIN path_to_sem :
        /\ path_to_sem[p] \in 0..(associated_files - 1)
        /\ p # q => path_to_sem[p] # path_to_sem[q]

(* The semaphores of main's files are exactly accounted for by the         *)
(* transfers under way: none is lost or given back twice on any way out.   *)
SemaphoresAccounted ==
    \A i \in 0..(Len(Export) - 1) :
        /\ semaphores[i] + Cardinality({c \in Client : Holding(c) /\ index[c] = i}) = 1
        /\ semlocks[i] + Cardinality({c \in Client : pc[c] = "take" /\ index[c] = i}) = 1
        /\ reader_count[i] = Cardinality({c \in Client : Inside(c) /\ index[c] = i})

(* A path with a semaphore is on the disk, except while it is deleted. *)
IndexedFilesExist == npc # "unmap" => DOMAIN path_to_sem \subseteq DOMAIN disk

(* "so that no file can write to it when someone is reading from it"       *)
(* (read_file): what a client reads does not change under its reader.      *)
Reading(c) == pc[c] \in {"read", "ack"}
ReadersUndisturbed ==
    [][\A c \in Client : Reading(c) => Readable(handle[c])' = Readable(handle[c])]_vars

(* When a WRITE is over, the file it opened has the chunks its client sent *)
(* before the first that reads STOP, each up to its first zero byte, all   *)
(* of them in their order and nothing of anybody else: what was sent, if   *)
(* that is text, and less of anything else.                                *)
BeforeStop(file) ==
    CHOOSE n \in 0..Len(file) :
        /\ \A k \in 1..n : file[k] # "STOP"
        /\ n < Len(file) => file[n + 1] = "STOP"
Delivered(c) ==
    [k \in 1..BeforeStop(upload[c]) |->
        <<IF upload[c][k] = "zero" THEN Cut(c) ELSE Mine(c), k>>]
WritesArrive ==
    [][\A c \in Client : WriteClose(c) => data'[handle[c]] = Delivered(c)]_vars

(* "The SS allows the read functionality.  Returns positive                *)
(* acknowledgments if success, else, fail" (README): every client that     *)
(* asks is served, unless the server ends.                                 *)
ClientsServed ==
    \A c \in Client : client[c] = "queued" ~> (client[c] \in {"idle", "gone"} \/ ~alive)

(* The same unless a transfer waits for a semaphore that main did not make.*)
OnFreshSemaphore(c) == pc[c] \in {"enter", "wait"} /\ index[c] >= Len(Export)
ServedUnlessFresh ==
    \A c \in Client :
        client[c] = "queued" ~>
            \/ client[c] \in {"idle", "gone"} \/ ~alive
            \/ \E d \in Client : OnFreshSemaphore(d)

=============================================================================
