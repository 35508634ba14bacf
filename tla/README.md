# The network file system in TLA+

A verification development for the naming server / storage server / client
system in this repository (`namingserver.c`, `storageserverinit.c`,
`clientinit.c`, `hashmap/`, `LRU/`, `operations/`).

## 1. Inventory

### Components, their state and their operations

| Component | State | Operations |
|---|---|---|
| **Naming server, main thread** (`namingserver.c` main, 713-919) | `storage_server_count`, `StorageServersInfo[]`, `used_ports[]`; writes `accessible_paths` and the LRU | accept a connection, read its token, start a handler, register a storage server (scan of `used_ports`, slot, paths, count, ports, ACK) or refuse it |
| **Naming server, client handlers** (`client_handler`, 270-711) | per thread: `ARGS`, `no_args`, looked-up server numbers, sockets; shared and unlocked: `accessible_paths`, `StorageServersInfo`, the buffer `naming_server_gets` | CREATE and DELETE through `getResultsFromSS`, READ, WRITE and DETAILS by telling the client a port, COPY through `facilitateCopy` |
| **Path table** (`hashmap/map_operations.c`) | a hash map from formatted paths to numbers | `set_value`, `get_value`, `get_paths`, `remove_entry`, `add_paths_to_list` |
| **Hash map** (`hashmap/map.c`) | buckets, capacity, count, tombstones, list of entries | set, get, remove, resize, iterate |
| **LRU cache** (`LRU/lru.c`) | doubly linked list with sentinels, a hash map to the nodes | `get_LRU`, `put_LRU` with eviction |
| **Storage server, naming port** (`storageserverinit.c` portThread and 352-644, `operations/`) | the disk, `path_to_sem`, `associated_files` | CREATE, DELETE, SEND, RECEIVE, one connection at a time |
| **Storage server, client port** (29-350) | `semaphores[]`, `semlocks[]`, `reader_count[]` | READ, WRITE, DETAILS, one connection at a time |
| **Client** (`clientinit.c`) | its two sockets | type a command, follow the answer, transfer with a storage server |

### How they interact

Everything is TCP on one host. A client and a storage server both connect to
port 8989 and say what they are ("c" or "s"). A client's handler thread then
reads command lines from it for ever. For CREATE, DELETE and COPY the handler
connects to the naming port of the server that its lookup of the path gave,
sends the arguments one by one with an acknowledgement each, and waits for the
result; for COPY it holds two such connections and carries the content from one
to the other. For READ, WRITE and DETAILS it only tells the client the client
port. The handlers and the main thread share all the naming server's memory and
take no lock. A storage server has two threads, one per port; they share
`path_to_sem`, the semaphores and the disk.

### What is hard about it

- **Unlocked sharing.** All handlers and main receive into and compare the one
  `naming_server_gets`; lookups and updates of the table interleave with waits.
- **Looking up, then waiting.** A handler keeps a slot number over one or two
  exchanges with storage servers and then uses it or writes it back.
- **Registration in steps.** Paths are visible before the server is counted,
  counted before it is told, told before it listens; servers crash and return
  with ports that are recorded for ever.
- **Whole-process exits.** Failures of one connection call `exit` in a thread.
- **Framing.** Names, content, STOP and acknowledgements are told apart only by
  how `recv` cuts the stream.
- **Waits in a circle.** One connection at a time per server port, two held at
  once by a copy.

What would make each component correct, and where the code is exposed, is the
list of hazards in `PROJECT.json`; the properties below are aimed at it.

## 2. Modules

| Module | Models |
|---|---|
| `Paths` | path strings and the table operations of `map_operations.c`; no state |
| `NamingServer` | the naming server with all its threads, and the storage servers as it meets them |
| `MCNamingServer` | the small systems TLC runs: servers, exports, disks, command sets |
| `Directory` | what the naming server is to be for a client: one directory, commands done at most once and as a whole, and true answers |
| `Session` | one client and servers that keep apart: when the directory is exact, what holds inside each command, and how the whole implements `Directory` |
| `MCSession` | that the small system of `nm_session` is one |
| `StorageServer` | one storage server inside: its two ports, semaphores, tables and files, and the clients that transfer |
| `MCStorageServer` | the small storage server TLC runs: files, requests, commands |
| `Dictionary` | what `map.h` promises: a function from keys to values that knows the order of its keys |
| `HashMap` | `hashmap/map.c`, which implements it |
| `SharedMap` | the table under a writer and a reader at once, as the naming server uses it |
| `MCSharedMap` | three colliding keys for TLC |
| `Cache` | what the LRU cache is to be: a bounded list of the paths used last |
| `LRU` | `LRU/lru.c` over `HashMap`, with the calls of main and the handlers |
| `MCLRU` | registrations for TLC |
| `Paths_proofs` | what the operators of `Paths` return, for all strings and tables |
| `NamingServer_proofs` | the inductive invariant of `NamingServer` and the theorems |
| `Connections_proofs` | that handlers and storage servers agree on their connections, on top of that invariant |
| `Session_proofs` | that one client's handler acts on its own answer and leaves the directory exact, on top of both, and that `Directory` is implemented |
| `StorageServer_proofs` | the same for `StorageServer` |
| `HashMap_proofs` | the same for `HashMap`, and that it implements `Dictionary` |
| `SharedMap_proofs` | that a reader disturbs nothing, and what its lookups and walks find |
| `LRU_proofs` | that the pointers of the cache stay good, whatever registers, that list and map agree, and that `LRU` implements `Cache` |

### Paths

A path is a sequence of characters, because the code compares, cuts and joins
paths by character; a letter stands for a run of characters of a name, and a
dotted letter for one with an inner period, which is how the code tells files
from directories. The table is a function from the keys it holds to numbers.
`get_paths` and `remove_entry` have the code's prefix rule; `add_paths_to_list`
keeps its two defects (the shadowed `i`, and the value `arr->ss_num`, which is
-1). The order in which the map iterates is any order (`Rankings`). The key of
an unused slot is the empty string, and the callback of `remove_entry` may or
may not take it along (`stray`: `sscanf` leaves the buffer unset).

### NamingServer

Variables carry the names of the C variables (`storage_server_count`,
`used_ports`, `StorageServersInfo`, `accessible_paths`, `naming_server_gets`,
`args`, `no_args`, `result`); `mpc` and `pc` say where main and each handler
are, `peer` whose connection main is handling, `slot` is the loop counter `i`
of a registration, `target` the looked-up numbers, `sock` the state of the two
connections of a handler, `reply` the last thing sent to the client, `issued`
counts the commands typed. A storage server is its process state `ss`, its
`backlog`, the connection it serves (`session`) and its `disk`; `shipment` is
what a SEND put on the wire and then what RECEIVE took it for. `naming_port` and
`client_port` are what the user typed when it was last started: any pair of
`Ports[s]`, so a server may come back with other ports than before
(`storageserverinit.c` 850-856). What it exports and its disk are its own and stay.

One action is what a thread does between two points where another thread can
matter: a blocking call, or an access to shared memory.

| Action | Code |
|---|---|
| `MainAccept`, `MainRecvToken` | accept, bzero and recv on the global buffer |
| `MainStartHandler`, `MainAskInfo`, `MainReject` | the comparisons with "c" and "s" |
| `MainRefusePorts`, `MainStoreInfo` | the scan of `used_ports`; FAIL, or the slot |
| `MainPublish`, `MainRegister` | one turn of the path loop; count, ports and ACK |
| `HandleCreateDelete`, `HandleLocate`, `HandleCopy`, `HandleInvalid`, `HandleBlank` | one received line: `processCommand`, the branch, the lookup, the reply |
| `OpenSocket`, `ClearBuffer`, `RecvResult`, `CheckResult` | `getResultsFromSS` |
| `CommitCreate`, `CommitDelete`, `CommitFail` | the table update and the answer |
| `OpenFrom`, `OpenTo`, `HandshakeOver`, `FacilitateCopy` | the two connections of COPY |
| `CopyRelookup`, `CommitCopyFile`, `CommitCopyDir` | the new entries and the answer |
| `SSListen`, `SSAccept`, `SSCreate`, `SSDelete`, `SSSend`, `SSReceive`, `SSCrash` | a storage server |
| `NamingServerDies` | `exit` or a fault in any thread |

Choices that need a word:

- `ARGS` outlives a command, and the tests for a missing argument compare an
  array with NULL and are never true: `RecvCommand` replaces only the arguments
  given, and every command runs.
- A line without a token (and the empty message of a client that is gone) makes
  `strcpy(ARGS[0], NULL)`: `HandleBlank` ends the process. "exit" is compared
  with a string that ends in a colour code, so it is one more invalid command.
- Connecting to a port nobody listens on, and a connection that ends before all
  arguments are acknowledged, end the naming server. The handshake itself is one
  step of `SSAccept`: its messages go back and forth between two threads that
  touch nothing else.
- The content of a file is one shipment. `Large` says which paths hold more than
  the sockets buffer: their SEND cannot end before somebody reads. With
  `Coalesce` a `recv` may return the name together with the content (another
  name, `Glue`), or content with the STOP packet, in which case the loop reads
  to the end of the stream and finds no acknowledgement.
- Unused slots of `accessible_paths` are empty strings. In the code they are
  what was on the stack of the storage server's main; so is the byte before an
  empty key. A path that `add_paths_to_list` cuts beyond its end is the empty
  string; in the code it is what `malloc` left in the buffer.
- The lines of COPY that a storage server sees (`SEND path`, `RECEIVE path`) are
  the two connections `<<c, 1>>` and `<<c, 2>>`.
- What storage servers do after the naming server is gone is left out.
- The calls of the LRU cache (`put_LRU` in the path loop, `get_LRU` for a fixed
  key when a handler starts) are left out: no lookup reads it. `LRU` has them.
- The table is a function and its calls are one step each; `SharedMap` says what
  is left of that when another thread is inside it.
- A registration arrives whole, although one `recv` of 61 KB may return less.
- Nothing in the code, and nothing in the model, bounds the slots: a slot beyond
  `MAX_SS` is undefined behaviour in C and here just one more slot.

### StorageServer

`NamingServer` shows a storage server as its peers see it; `StorageServer` is
one of them opened up. The naming server appears as the commands it may send
(`NamingCommand`), the clients as what they ask (`Request`).

`path_to_sem`, `associated_files`, `semaphores`, `semlocks` and `reader_count`
are the C variables. `disk` maps paths to inodes and `data` inodes to blocks, so
a file deleted while it is open is still there for who has it open. `npc`,
`ncmd`, `nhandle` and `npos` are the naming port's thread: where it is, its
command, the file it receives into and the blocks received. `queue` is the
backlog of the client port; `pc`, `request`, `index`, `handle` and `pos` belong
to the transfer of each client, `client` is what the client's program does, and
`upload` the local file it sends in a WRITE (one of `LocalFile`).

| Action | Code |
|---|---|
| `ClientRequest`, `ClientChoose`, `ClientQuit` | the client: connect and ask, name the file of a WRITE, end in the middle |
| `Accept`, `Lookup` | portThread, `readServerSide` and `writeServerSide` up to the thread |
| `ReadEnter`, `ReadTake`, `ReadOpen`, `ReadSend`, `ReadAck`, `ReadStop`, `ReadLeave` | `read_file`: semlock and count, the semaphore, fopen, a block, its acknowledgement, STOP, the way out |
| `WriteOpen`, `WriteTake`, `WriteBlock`, `WriteStop`, `WriteClose`, `WriteCut` | `write_to_file`: fopen, the semaphore, a block, the semaphore given back, fclose; a client that is gone |
| `DetailsSend`, `DetailsEnd` | `get_file_details` |
| `NamingReceive` | the naming port reads a command |
| `ExecCreate`, `MapCreate`, `ExecDelete`, `MapDelete` | `create`, `deleteItem`: the disk, and then the table |
| `ExecSend`, `ExecReceive`, `ReceiveBlock`, `ReceiveStop` | `send_file`, `receive_file` |
| `Dies` | `exit` in any thread, a fault, SIGPIPE |

Choices that need a word:

- A block is what one message carries and what stdio moves at once: `WriteBlock`
  passes on the block before (`Flushed`), `WriteClose` the last one. What a block
  holds is whose it is and its number; a `Hole` is what lies before an offset in a
  file cut meanwhile.
- A client's file is a sequence of chunks of three kinds (`Chunk`): text, bytes with
  a zero among them, and what reads "STOP". The server writes `strlen` of what it
  received, so of a chunk with a zero byte only what comes before it arrives
  (`Cut`), and a chunk that reads "STOP" ends the WRITE (`More`), whatever the
  client has still to send. The same comparison ends a RECEIVE, after any number
  of blocks (`ReceiveStop`).
- portThread joins the thread of each transfer, so there is one session at a
  time (`Accept`), whatever the comment says of a non-blocking call. The model
  does not build on it: every transfer has its own program counter and takes its
  semaphores, and the mutant `AcceptDetached` drops the join.
- `get_value` beside `set_value` or `remove_entry` of the other thread may find
  the entry, not find it, find it with the value zero, be given the index of the
  entry just added whatever it looked for, or fault (`Found`).
- A refused command is answered with nothing but the end of the connection.
- A client asks for one thing at a time, and not again before its transfer has
  ended on both sides.
- The archive of a directory is made beside the directory, while `rm` gets the
  base name and removes a file of that name in the root (`SendArchive`). An
  archive that is received is a file like any other.
- Commands from the naming server with a wrong number of arguments only fail and
  are left out; so is a file chosen twice at start-up (`Distinct(Export)`), and
  more CREATEs than the arrays have room for (`BoundAssumption`), which is
  undefined behaviour in C.

### HashMap and SharedMap

`capacity`, `buckets`, `count` and `tombstone_count` are the fields of `struct
hashmap`; `list` is the linked list from `first` to `last`. A call of
`hashmap_set`, `hashmap_get_set` or `hashmap_remove` is cut at every store
another thread can meet: `pc`, `call` and `entry` say where it is, `old_buckets`,
`old_list` and `cursor` how far a resize has come.

| Action | Code |
|---|---|
| `hashmap_set`, `hashmap_get_set` | the load test at the head of the call |
| `hashmap_resize`, `RehashEntry`, `ResizeDone` | the new array, a turn of the do-while with `resize_entry`, the `free` |
| `LinkEntry`, `FoundEntry`, `StoreValue` | `find_entry`; a new key linked and counted; the value |
| `hashmap_remove`, `BuryEntry` | the key erased; the tombstone |
| `hashmap_get` | the lookup, in one step when nobody else is about |
| `StartGet`, `LoadKey`, `LoadValue`, `Tell` | `hashmap_get` of the reader: a load of a key, the load that decides, the answer |
| `StartIterate`, `CheckEntry`, `Visit`, `VisitedAll` | `hashmap_iterate` of the reader: the load that tells whether there is a key, the load the callback is given, which may be NULL by then, the end |

`dict` and `before` read the dictionary off the list (and, in a resize, off what
still waits in the old array). Choices that need a word:

- The hash is any function (`hash`): nothing depends on which.
- `hashmap_set_free` and `hashmap_remove_free` differ in what the caller's
  callback frees, which is not in the table.
- A resize frees the array a reader is in. What it reads then is undefined, so
  `SharedMap` gives the read up (`ReadOver`) and says nothing about its answer.
  A read that has just begun or ended is not disturbed.
- Two writers at once are left out: the table would only get worse, and one
  writer beside one reader is what shows which answers survive.
- A capacity beyond 2^31, which needs more keys than memory has room for, and
  `hashmap_free`, which the naming server never calls, are left out.

### LRU

`node` holds the nodes ever allocated (`Node`: slot, value, `prev`, `next`), the
first two being `lru->head` and `lru->tail`; `map_size` is `map_size`, and the map
is `HashMap` itself. `text` is the place in main's frame that the keys of the
nodes point to. `PutLookup`, `PutDrop`, `PutAbsent`, `PutEvict`, `PutInsert` are
`put_LRU` cut at its calls of the map, `GetLookup`, `GetMiss`, `GetHit`,
`GetAgain` `get_LRU`; `Register` and `Refuse` are main receiving a server.

- `put_LRU` and `get_LRU` run one at a time. Nothing in the code sees to that;
  with both at once even `map_size` is a race, and no property would be left.
- main's struct has one place on the stack for every registration, so a node's
  text changes with the next one. The passing run has one registration; with
  two, `bad_lru` shows what becomes of an eviction.
- The key of a blank slot and the byte before it are one key, `Blank`.

## 3. Runs

The runs `nm_*`, `bad_own_result` and `bad_copy_opposite` use `MCNamingServer`
(`nm_session` through `MCSession`, which adds an assumption on its constants);
`ss_transfers`, `bad_created` and `bad_receive` use `MCStorageServer`; `map` and
`bad_lookup` use `MCSharedMap`; `lru` and `bad_lru` use `MCLRU`. "Passing" runs
explore every reachable state of their system.

| Run | System | Properties |
|---|---|---|
| `nm_session` | 2 servers, started first, no crash; 1 client, up to 4 lines out of 12, good ones, ones without arguments, blank and exit | `TypeOK`; `OwnResult`: the result acted on is the server's answer; `DirectoryMirrorsDisks`: between commands the routes of a server are its disk; `ImplementsDirectory` (refinement): the files of the registered servers change by one command at a time, and the answers are true |
| `nm_registration` | 3 servers whose ports clash in every way (two want one port for different uses, two the same naming port), one of which may also be started with other ports, 1 crash, 1 client that creates, deletes and locates | `PortsUnique`; `ListedOnce`: a server that runs is in the table under the ports it listens on, and no other slot, also none left from an earlier start, claims one of them; `RightServer`: a server is only ever sent commands for paths it registered; `EveryPeerHandled` (liveness) |
| `nm_crowd` | 2 clients, 2 servers that register while the clients type, 1 crash, coalescing; delete a directory, copy files in both directions | `RoutesResolve`, `ConnectionsAgree`, `EveryCommandAnswered` (liveness) |
| `bad_own_result` | 2 clients, 1 server | `OwnResult` is violated |
| `bad_copy_opposite` | 2 clients copy large files in opposite directions | `EveryCommandAnswered` is violated |
| `ss_transfers` | 2 clients that read, write and ask details of an exported file, which may be deleted and created again, and write to a directory, one interrupted; 2 commands out of 6: create over a file, delete, send and receive, on the same paths; the file a WRITE sends has text, zero bytes or a chunk that reads "STOP" | `TypeOK`; `IndicesDistinct`: no two files share a semaphore; `SemaphoresAccounted`: none is lost or given back twice; `IndexedFilesExist`; `ReadersUndisturbed`: what is read does not change; `WritesArrive`: the file holds what was sent before a chunk that reads "STOP", each chunk up to its first zero byte, in order and nothing of anybody else; `ServedUnlessFresh` (liveness): everybody is served unless a transfer waits for a semaphore that main did not make |
| `bad_created` | a READ or WRITE of a file CREATE has made | `ClientsServed` is violated |
| `bad_receive` | a file is copied onto one that is read | `ReadersUndisturbed` is violated |
| `map` | 3 keys that collide and go around the end of the array, 2 values, every call, a resize; one reader, get or iterate | `TypeOK`; `LoopsEnd`: every loop over the buckets meets a free one; `SizeIsEntries`; `ImplementsDictionary` (refinement); `LookupRight`: a lookup beside the writer finds a key that stays, with a value it had; `IterationRight`: a walk beside the writer meets every key that stays, once and in order, whatever NULLs it hands on |
| `bad_lookup` | the same table, lookups beside `hashmap_set` | `FoundIsAssociated` is violated |
| `lru` | a registration with up to 3 paths and blank slots, 4 lookups, a cache of 3, a map that is resized | `LRUTypeOK`; `MapMatchesList`: map, list and `map_size` agree between calls; `ImplementsCache` (refinement) |
| `bad_lru` | two registrations, a cache of 2 | `EvictedFromBoth` is violated |

**Bounds.** `MaxCommands` lines per client, `MaxCrashes` crashes, 2 or 3 servers,
1 or 2 clients, `MAX_ACC_PATHS` 1 to 3 with at least one slot unused where that
matters. Two handlers and main are enough for every pairwise interleaving on the
shared data, and no action involves more than one handler and one server; three
servers are what a clash of ports with two different ones takes. One crash is
enough for a registration that comes back. Four commands are enough for a file
to be created, used under a stale argument, deleted and created again.
`nm_session` starts the servers before the client (`ServersFirst`), because its
properties are about a running system; the two other runs do not. One other pair
of ports, for one server, is enough for a slot that is left behind and for a server
that was refused and comes back with ports that are free.

For the storage server, two clients are one in a session and one behind it, and
all that two transfers can do to each other; two naming commands are a CREATE
and DELETE, or a RECEIVE and SEND, of one path during a transfer; two blocks are
the least for which a file can be read half way and a block stays in stdio. The
two files a client may send have one chunk of each kind: all of one arrives but
what a zero byte cuts off, and nothing of the other.
`MaxRequests` is 1 and `MaxQuits` 1 in the passing run. The commands of
`ss_transfers` copy onto no path that is read: with those that do,
`bad_receive` shows what happens.

For the table, a first capacity of 3 is the least that is resized with a key in
it; `MaxCount` 3 stops the calls that set once 3 buckets are taken, which comes
after the resize to 6 and leaves room for tombstones there. The hashes put two
keys into the last bucket and one into the first. The values are 0, which makes
an erased key look like a free bucket, and another. For the cache, 5 slots with
at most 3 paths give every order of hits, evictions and blank slots with
`capacity_lr` 3, and enough of both for tombstones and a resize below it.

**Deadlock** is not checked: the system stops when the naming server is dead, or all
lines are typed, or all servers registered; that nobody is left waiting is what the
liveness properties say.

**Fairness.** Weak fairness of main, of every handler between a command and its
answer, and of the storage servers' threads: the kernel runs every thread that
can run, and TCP delivers. No fairness for typing a command, connecting,
starting or crashing. In `StorageServer`, weak fairness of the naming port's
steps after it has a command, of `Accept` and every transfer, and of
`ClientChoose`: the user asked for a file name gives one. None for requests,
commands or interruptions.

## 4. Where the code and its documentation part

The six violation runs are in `PROJECT.json` with the lines they contradict.
Met while modelling, visible in the actions, and not given a run:

- DELETE of a directory drops the routes that other servers export below it
  (`map_operations.c` 84), where README.md 129 deletes on one server;
- COPY of a directory adds no route for the copied folder (`map_operations.c`
  119), where `namingserver.c` 557 means to;
- a CREATE that finds the server registered but not listening ends the naming
  server (`namingserver.c` 72), where README.md 106 promises FAIL;
- nothing compares `storage_server_count` with `MAX_SS` (864), and a server that
  returns with other ports takes another slot each time;
- a WRITE, and a copy, arrive only up to the first zero byte of each chunk, and end
  at a chunk that reads "STOP" (`storageserverinit.c` 199 and 205), where README.md
  83 speaks of data correctly stored;
- COPY with one path uses the second path of an earlier command (493);
- exit is answered with type 6 (667, and `clientinit.c` 342);
- a storage server that went down is refused its own ports (833);
- name and content in one `recv` give the copy another name (171);
- a copied file never gets an entry in `path_to_sem`, so its READ and WRITE are
  refused by the server that holds it (`storageserverinit.c` 130);
- WRITE to a directory, and READ, WRITE or DETAILS of a path that is gone, end
  the storage server, where README.md 166 promises a negative acknowledgement;
- a block is acknowledged before `fwrite`, and the semaphore of a writer given
  back before `fclose`, which writes the last block (211-213); only the join
  keeps the next reader out meanwhile;
- the test for the first reader comes after the increment (41), so every reader
  takes the writers' semaphore; only the join keeps a second one from waiting.

## 5. Proofs

`NamingServer_proofs` proves, for every set of clients, servers, ports, exports,
disks and commands that satisfies `ConfigAssumption`, `ProcessAssumption` and
`LetterAssumption`:

- `TypeCorrect`: `Spec => []TypeOK`;
- `PortsAreUnique`: `Spec => []PortsUnique`;
- `RoutesAlwaysResolve`: `Spec => []RoutesResolve`.

None is inductive alone. The invariant `Inv` joins them with

- `PeerIsWhatItSaid`: main's peer is a client where main treats it as one and a
  storage server where it treats it as one, because handlers only ever write
  "", ACK and FAIL into the buffer the token passes through;
- `Registration`: `used_ports` is the naming server's port followed by the two
  ports of each slot in order, and the slot being filled is one ahead of the
  count. With it the scan of `used_ports` is a scan of the slots;
- `Routes`: the numbers handlers keep are in range at all times, not only when
  they are used, because they are written back into the table later.

The parts lean on each other: the port a client is told has its type because its
route resolves, a published route resolves because the slot was stored first.
The proof has a lemma per group of actions (main, a received line, connecting,
answering, the rest of a handler, a storage server) and, for what most actions
leave alone, frame lemmas (`StutterType`, `HandleFrame`, `ServerFrame`).

`Connections_proofs` adds to `Inv`

- `Owners`: a server that was sent ACK has a slot with the ports it runs with. A
  slot of an earlier start has other ports, because used ports are refused, so with
  unique ports whoever listens on the port of a slot is the server of the slot
  (`ListenerOwns`), which is all `connectToStorageServer` goes by;
- `Arrivals`: a client is in main's queue once and its handler not yet running,
  so main never sets back a handler at work;
- `Sockets`: which socket may be under way at which step of a handler; the
  number a connection was opened with is not looked up again before it is over;
- `Agree` and `Once`: a socket is "queued" or "open" exactly if the connection is
  in a backlog or a session, and it is in one place

and proves

- `CommandsReachTheirServer`: `Spec => []RightServer`;
- `ConnectionsAlwaysAgree`: `Spec => []ConnectionsAgree`;
- `RunningServersListedOnce`: `Spec => []ListedOnce`, for any ports at any start.

Each action is first brought down to what it does to connections (`HandlerStep`:
go on, open, forget; `PortStep`: accept, end, go down), and each of these has a
lemma.

`Session_proofs` proves, for a system with one client whose servers register before
it comes (any servers, ports, exports and commands, and any number of crashes),

- `ResultIsOwn`: `SessionSpec => []OwnResult`.

`bad_own_result` is two clients; one client and a server that registers beside it
would do too, for main clears the same buffer, hence `ServersFirst`. The invariant
`SessionInv` adds to `ConnInv` what makes main fall silent: `Queued`, that a server
is among those who wait for main once, and as "connecting", so that a client whose
handler runs beside no such server leaves main nobody to talk to (`MainIdle`). Then
`OwnBuffer` says what the buffer holds at each step of `getResultsFromSS`, and
`PortOwn` that no server touches a socket whose handler already acts on its answer.

If moreover the servers keep apart and the commands are plain, it proves

- `DirectoryMirrored`: `SessionSpec => []DirectoryMirrorsDisks`.

`ServersApart` asks that a server exports all it has, that it is always started with
the same ports, that no export of one lies in the tree of another, and that no
directory has a name with a period. `PlainCommands` asks that a token is not empty,
that a `recv` returns what one `send` sent (`~Coalesce`; nothing in the code keeps the
name, the content and STOP of a copy apart), that only files are copied, to a root
where no server exports anything, and that no server crashes if there is a COPY at
all. Each is a case where the code leaves table and disk apart: a path that two
servers export has one route; so has one whose server comes back with other ports, and
the slot it had keeps the routes of paths since deleted; an archive stays on the disk
without one; and when the source of a COPY crashes after it sent, the file arrives at
the destination, but the handler has seen a dead connection and writes no route.
DELETE and CREATE need no such condition, because the one server that changes its disk
is the one that answers: either both happen, or the handler learns that it did not.
`nm_session` satisfies both hypotheses: `MCSession` has them as an assumption, which
TLC evaluates.

Between commands table and disks are equal, but inside a command they are not, so
the invariant, `SessionMirror`, says by how much. Before the handler runs
(`Published`) the disks are as they were, and main has published the paths of all
slots but the rest of the last one. From then on (`Settled`) the disks are what the
routes will be when the command is over (`Expected`): without what is below a path
deleted, with a path created or copied, if the server has done it (`Created`,
`Deleted`, `Copied`) and the handler has not yet. That this is one path, at one
server, rests on

- `Placed`: what a server has lies in its tree, or at the root if it is the server
  of the empty path. `remove_entry` drops by prefix over all servers; with `Placed`
  it meets only those of the server that answered (`BelongsOnce`);
- `EditFacts` and `CopyFacts`: the number looked up before the wait is still that
  of the path (nobody else writes the table), and where the two servers of a COPY
  are at each step of the handler;
- `Kinds`: the code tells files from directories by the period in the name, so
  what a COPY of these commands sends is a file;
- `GivenArgs`: `args` outlives a command, so a short one may run with the path of
  an earlier one; it is not empty all the same.

`SetRoutes` and `RemoveRoutes` say what `set_value` and `remove_entry` do to the
routes of every slot; `UnderTrans`, `UnderBoth`, `UnderJoin` and `LongerName` of
`Paths_proofs` what prefixes and joins of paths are, for strings of any length.
There is a lemma per step of the handler and of a server (`CommitCreateSettled`,
`CreateSettled`, `SendSettled`, `ReceiveSettled`, ...), and `SettledStutter` and
`PublishedFrame` for the others.

On the same invariant and under the same hypotheses rests

- `DirectoryImplemented`: `SessionSpec => ImplementsDirectory`.

`Directory` knows neither servers nor routes: it has the files, the last command,
how far that is, and what the client was told. The refinement mapping takes for
the files what the servers that have a slot hold on their disks; the command is
the line in `ARGS`, with what an earlier line left there; it is under way while the
handler runs and does not wait for a line, and done from the step of the server
that carries it out (`Pending`) on. So a CREATE, DELETE or COPY takes effect
at the step of one server, between `Ask`, the lookup, and `Tell`, the answer of the
handler, which has changed the table by then. What has to be shown is

- `KnownFiles`: a lookup finds a path exactly if some server has the file, but for
  the empty path, which leads to the server that was registered last with a blank
  slot; this is `Mirrored` with no command under way. From it follow `Ask`,
  `Locate` and `NotFound` (`CreateDeleteAsks`, `CopyAsks`, `LocateAnswers`);
- `ServePerforms`: a server that serves a connection either performs the command
  as a whole, or changes nothing that counts (a SEND, a failure);
- `AnswerTells` and `CommitTells`: the handler says ACK if the server did it and
  FAIL if it did not, whatever was lost or crashed between them;
- `StoreInfoRegisters`: until the client comes, the directory only grows.

`HandleRefines`, `ServerRefines`, `SettledRefines` and `PublishedRefines` join them
for the steps of the handler, of a server, and for all steps after and before the
handler runs.

`StorageServer_proofs` proves, for every set of clients, requests, commands,
directories, files and exports that satisfies `CommandAssumption`,
`DiskAssumption`, `BoundAssumption` and `LetterAssumption`:

- `TypeCorrect`: `Spec => []TypeOK`;
- `IndicesAlwaysDistinct`: `Spec => []IndicesDistinct`;
- `ReadersNeverDisturbed`: `Spec => ReadersUndisturbed`, if the naming server
  copies onto no path that clients read (`CopiesApart`; `bad_receive` is the
  case without it).

The first two are inductive together: an index looked up is a number because
every entry of `path_to_sem` is one given out. The third rests on `Apart`:

- `OneSession`: the join leaves at most one transfer, so no writer is about
  while a client reads. The semaphores are not needed for it;
- `OwnInode` and `AtPath`: no file has two names, and the file a client reads is
  at the path it asked for or nowhere, so a thread that opens another path opens
  another file, whatever was deleted and created again meanwhile;
- `Receiving`: the file being received is at the path of its command;
- `ReadersRead`: only a READ reads.

`SemaphoresBalance`: `Spec => []SemaphoresAccounted` rests on `OneSession` too.
Its invariant `Account` says of every semaphore that main made that its value,
`reader_count` and the transfers past their `sem_wait` add up. `SameAccount` is
the frame lemma for the actions that touch none of them, and `AloneAccount` is
where the join matters: the account of a semaphore is that of the one transfer
in a session, so the readers counted and the readers waiting are the same one.

`WritesAlwaysArrive`: `Spec => WritesArrive`, for files of any chunks, if the naming
server copies onto no path that clients write (`WritesApart`), rests on `Apart` and on
`Whole`: the file a client writes has the pieces of all chunks it sent but the one
stdio still holds (`Sent`), and is at the path asked for or nowhere. `PutNext` is why
a block put behind the others leaves no hole and cuts nothing; `OthersWhole` and
`NamingElsewhere` say that neither another transfer nor the naming port touches that
file, which they could only reach by its path.

`IndexedFilesAlwaysExist`: `Spec => []IndexedFilesExist`, if no archive that a SEND
leaves and removes in the root has the name of a file with a semaphore
(`ArchivesApart`). Its invariant `Indexed` says where CREATE and DELETE stand
between disk and table: a path to be added is on the disk already, and while one
is deleted only what is below it is gone. The commands of `ss_transfers`
satisfy all three hypotheses.

`DiskStep` says once what any action may do to the directory entries, and
`DiskStepApart` that this keeps files apart; `OpenForWritingType` says which
file `fopen(p, "wb")` changes.

`HashMap_proofs` proves, for every set of keys and values, every hash function
and every first capacity of at least 2 (`HashAssumption`, `ValueAssumption`,
`CapacityAssumption`):

- `TypeCorrect`: `Spec => []TypeOK`;
- `LoopsAlwaysEnd`: `Spec => []LoopsEnd`;
- `SizeIsRight`: `Spec => []SizeIsEntries`;
- `DictionaryImplemented`: `Spec => ImplementsDictionary`, which is that every
  step of the table is a step of `Dictionary` on `dict`, `before` and `out`, or
  changes none of them.

The invariant `Inv` is `TypeOK` with

- `BucketsOK`: a bucket is in the list once, and free if it is not in it;
- `NoDup(Entries)`: no key is there twice, counting what a resize has still to
  move;
- `ProbeOK`: no free bucket lies between the home of a key and the key. This is
  why tombstones exist, and it is what makes `find_entry` right (`FindEntry`);
- `PhaseOK`: what the steps of a call know of those before;
- `LoadOK`: three quarters of the buckets are taken at most, during a resize
  three eighths of the new ones, so there is always a free one (`FreeIndex`);
- `CountOK`: `count` is the length of the list, with the live entries a resize
  has still to move, and `tombstone_count` the number of buckets without key.

For the dictionary, `Appended`, `Removed`, `Dropped` and `SameKeys` say what
adding, erasing and leaving out an entry does to the keys, values and order that
a sequence of entries stands for, and there is a lemma for each action
(`LinkStep`, `RemoveStep`, `MoveEntry`, ...) that shows `Inv'` and its step of
`Dictionary`; `NextInv` joins them.

`SharedMap_proofs` builds on it. A step of the reader leaves the table alone and
a step of the writer is one of `HashMap`, so `SharedInv` keeps `Inv`, and it adds

- `ReaderOK`: no resize is under way while a read is (it would have ended the
  read), the keys that stay are in the table, and what the wanted key has now is
  among the values it had;
- `ProbeRight`: unless a removal made a bucket look free meanwhile (`hidden`: the
  key erased, the tombstone not yet stored, the value 0), a key that stays has
  its bucket at the probe or ahead of it, and a bucket whose key was loaded as
  NULL is a tombstone, so the probe goes on where it has to;
- `WalkRight`: what the walk has met is in order, lies behind its place in the
  list, and has every key that stayed and lies there.

The theorems are

- `SharedInvariance`: `SharedSpec => []SharedInv`;
- `SharedImplemented`: `SharedSpec => ImplementsDictionary`;
- `LookupsRight`: `SharedSpec => []LookupRight`;
- `IterationsRight`: `SharedSpec => []IterationRight`.

`WriterKeeps` has the steps of the writer, one lemma per step of the reader
(`LoadKeyKeeps`, `LoadValueKeeps`, `CheckEntryKeeps`, `VisitKeeps`) the others;
`OrderStays` and `BeforeStrict` say that an append or a removal leaves the order of
the other keys, which is what a walk that goes on later needs.

`LRU_proofs` uses of the map only what `HashMap_proofs` says of its calls
(`AfterSet`, `AfterGet`, `AfterRemove`, `AfterProgress`): what the callers see of
the table is one function, `content`, to which a call of `hashmap_set` has been
added from its beginning. It proves, for every set of registrations, also with
other texts each time,

- `LRUTypeCorrect`: `LRUSpec => []LRUTypeOK`, that `map_size` counts at most
  `capacity_lr` and every pointer is one to a node.

`bad_lru` shows that map and list can disagree in such a history, so the
invariant `LRUInv` must not say that they agree. It says what survives that:
`WellLinked` (a node's neighbours are nodes, and a list that ends where it begins
is empty both ways), `ListOK` (there is a node to take out whenever the code takes
one out: the `- 1` of `map_size`, and the eviction of `tail->prev`, rest on it),
`LeadsToData` (what the map leads to is a node, evicted or not: nodes are never
freed) and `RoomOK` (how many nodes there can be).

It also proves, if the texts a struct is filled with again are the same
(`Repeated`: one registration, or all with the same paths; without it both are
false, see `bad_lru`),

- `ListAndMapAgree`: `LRUSpec => []MapMatchesList`;
- `CacheImplemented`: `LRUSpec => ImplementsCache`.

Its invariant `AgreeInv` adds to `LRUInv`

- `InOrder(w, n)` for some `w`: the nodes from head to tail are a chain of `n`
  different ones, linked both ways, `map_size` is `n`, and the map leads to
  exactly these, each under its text (`Leads`). While `get_LRU` has removed
  "/operations" and not yet set it again, the map is seen as if it had (`Led`);
- `Told`: the answer of the last `hashmap_get` is still true when the code acts on
  it, some steps of a resize later;
- `TextsKnown`: the texts are those of a registration.

`ChainDeleted`, `ChainAdded` and `ChainGrown` say what `deleteNode` and `addNode`
do to a chain; there is a lemma per action for the invariant (`DropOrder`,
`EvictOrder`, `InsertOrder`, `HitOrder`, ...) and one for the refinement
(`DropRefines`, ...), which has its step of `Cache` at the lookup a call begins
with and nothing after it. `NthNode` connects the chain with the recursive
function `nth` that the properties follow the list by. It is an induction over
numbers, which needs no operator as a parameter: `Least` gets a least element of
a set of numbers from the well-foundedness of `<`, and `Induction` is about a
set.

So every invariant and action property of the passing runs, and every refinement,
is stated by a theorem: for all constants, except where a condition is named above
(one client, servers that keep apart and keep their ports, a `recv` that returns one
`send`, copies that keep apart, texts that repeat,
readers that no resize interrupts). Only model-checked is liveness (fairness and
`ENABLED` are beyond the proof system): `EveryPeerHandled`, `EveryCommandAnswered` and
`ServedUnlessFresh`. What a recursive function computes for all inputs is proved
only where numbers suffice for the induction (`NthNode`). TLC has checked that
`SessionMirror` is an invariant of `nm_session`, and of larger systems: with files
copied from and to the root, with a third server, and with two crashes and no copy.

## 6. Plan

1. *(done)* `Paths`, `NamingServer`: the shared state of all components, where
   most hazards are; its type, ports and routes proved.
2. *(done)* `StorageServer`: both port threads, the transfer threads, the
   semaphores and tables, with READ and WRITE against CREATE, DELETE, SEND and
   RECEIVE; all its safety properties proved.
3. *(done)* `Dictionary`, `HashMap`, `SharedMap`: the table with tombstones and
   resize implements the map of `map.h` (proved), and what is left of it under a
   reader without a lock (proved too).
4. *(done)* `Cache` and `LRU`: list and map against a bounded recency list.
5. *(done)* `Directory`: what the naming server promises its clients, implemented
   by `NamingServer` with one client (proved).
6. Proofs: *(done)* `RightServer`, `ConnectionsAgree`, `ListedOnce`,
   `SemaphoresAccounted`, `WritesArrive`, `IndexedFilesExist`, `OwnResult`,
   `LookupRight`, `IterationRight`, `MapMatchesList`, `ImplementsCache`,
   `DirectoryMirrorsDisks` and `ImplementsDirectory`: no invariant is left.

## 7. Not modelled

The files that tar unpacks from an archive a storage server receives; the menu of
files at its start (its outcome is a constant); the client's screens; printing; the
Makefile and images. Byte contents are not modelled beyond the three kinds of chunk.

Left out, though the code has them:

- **Where a stream is cut.** A `recv` returns one `send`, or two (`Coalesce`). A
  `recv` that returns part of one is left out, at every port. So a RECEIVE that gets
  the 5 bytes of STOP joined with, or as the rest of, a chunk, compares them with
  "STOP" in vain and waits for ever (`storageserverinit.c` 523-530), and
  `facilitateCopy` may miss STOP in the same way when only the name came alone
  (`namingserver.c` 188-204). `nm_crowd` therefore says that every command is
  answered for streams that are joined at the naming server, not for these.
- **A second `close`.** A transfer closes its socket (`storageserverinit.c` 108 and
  216) and portThread closes the same number again after the join (835). In
  between, the other port's `accept` or `fopen` may have been given that number, and
  its connection or file is closed instead.
- **A READ of a chunk that reads "STOP".** The client takes it for the end and goes;
  the server's next `send` or `recv` fails, or it waits for an acknowledgement.
- **A slot too many.** How many servers register, and how often one returns with
  other ports, is not bounded by anything in the code (`namingserver.c` 864), and the
  arrays of `MAX_SS` slots are overrun when it is too often. What happens then is
  undefined.
- **Exports that change.** The user may choose other paths when a server is started
  again; `Export[s]` is one choice for all starts.
