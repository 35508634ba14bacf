-------------------------------- MODULE LRU ---------------------------------
(***************************************************************************)
(* LRU/lru.c over hashmap/map.c, as namingserver.c uses it: main puts the  *)
(* accessible paths of every storage server it registers, and each new     *)
(* client_handler looks "/operations" up.                                  *)
(*                                                                         *)
(* A node keeps the pointer that put_LRU was called with: a slot of the    *)
(* struct StorageServer of main, which has its place on the stack, the     *)
(* same one for every registration.  The text a slot holds changes with    *)
(* the next one; the map has its own copy of the text (set_value_lr).      *)
(* put_LRU and get_LRU are cut at their calls of the map, and run one at a *)
(* time: nothing in the code sees to that, main and the handlers share the *)
(* cache without a lock.                                                   *)
(***************************************************************************)
EXTENDS HashMap

CONSTANTS
    Export,                 \* the sequences of paths a server may register
    Blank,                  \* the text of an unused slot, ""
    Operations,             \* "/operations"
    capacity_lr,
    MAX_ACC_PATHS,
    MaxRegistrations,       \* bound: servers that register
    MaxLookups              \* bound: clients that connect

(* A server exports a path, so the key of a blank slot, with the byte in   *)
(* front of it, is the same for all of them.                               *)
ASSUME ExportAssumption ==
    /\ Blank \in Key /\ Operations \in Key
    /\ \A x \in Export : x \in Seq(Key \ {Blank}) /\ Len(x) \in 1..MAX_ACC_PATHS

(* Enough addresses for every node that is ever allocated. *)
ASSUME SizeAssumption ==
    /\ capacity_lr \in Nat \ {0} /\ MAX_ACC_PATHS \in Nat
    /\ MaxRegistrations \in Nat /\ MaxLookups \in Nat
    /\ 1..(2 + MaxRegistrations * MAX_ACC_PATHS) \subseteq Value

VARIABLES
    text,                   \* what the slots of main's struct hold
    node,                   \* the nodes allocated so far; they are never freed
    map_size,
    lpc,                    \* where put_LRU or get_LRU is
    slot,                   \* i, the path main puts next, or none when it waits
    storage_server_count,
    received, lookups,      \* registrations received, clients connected
    got                     \* what the last get_LRU returned

lruVars == <<text, node, map_size, lpc, slot, storage_server_count, received, lookups, got>>

Slot == 0..(MAX_ACC_PATHS - 1)
Head_ == 1                  \* lru->head and lru->tail
Tail_ == 2
Nowhere == 0                \* a pointer nobody set
Waiting == MAX_ACC_PATHS

Node(s, val, prev, next) == [slot |-> s, val |-> val, prev |-> prev, next |-> next]

(* createLRU: head->prev and tail->next stay as malloc left them. *)
LRUInit ==
    /\ Init
    /\ text = [s \in Slot |-> Blank]
    /\ node = <<Node(Waiting, -1, Nowhere, Tail_), Node(Waiting, -1, Head_, Nowhere)>>
    /\ map_size = 0
    /\ lpc = "idle"
    /\ slot = Waiting /\ storage_server_count = 0
    /\ received = 0 /\ lookups = 0
    /\ got = -1

-----------------------------------------------------------------------------
(* The list. *)

addNode(nodes, new) ==
    LET headnext == nodes[Head_].next
    IN  [nodes EXCEPT ![Head_].next = new, ![new].prev = Head_, ![new].next = headnext,
                      ![headnext].prev = new]

(* Mutant: the list is mended forwards only. *)
deleteNodeForward(nodes, delnode) ==
    [nodes EXCEPT ![nodes[delnode].prev].next = nodes[delnode].next]

(* delnode keeps its own pointers. *)
deleteNode(nodes, delnode) ==
    LET prevv == nodes[delnode].prev
        nextt == nodes[delnode].next
    IN  [nodes EXCEPT ![prevv].next = nextt, ![nextt].prev = prevv]

-----------------------------------------------------------------------------
(* main: recv fills the struct; a server whose ports are taken is refused  *)
(* after that.                                                             *)
Received(x) ==
    /\ slot = Waiting /\ received < MaxRegistrations
    /\ received' = received + 1
    /\ text' = [s \in Slot |-> IF s < Len(x) THEN x[s + 1] ELSE Blank]
    /\ UNCHANGED <<mapVars, node, map_size, lpc, storage_server_count, lookups, got>>

Register(x) == Received(x) /\ slot' = 0
Refuse(x) == Received(x) /\ UNCHANGED slot

(* put_LRU: is the path there?                                             *)
PutLookup ==
    /\ lpc = "idle" /\ slot # Waiting
    /\ hashmap_get(text[slot])
    /\ lpc' = "put"
    /\ UNCHANGED <<text, node, map_size, slot, storage_server_count, received, lookups, got>>

PutDrop ==
    /\ lpc = "put" /\ out.found
    /\ hashmap_remove(text[slot])
    /\ map_size' = map_size - 1
    /\ node' = deleteNode(node, out.value)
    /\ lpc' = "evict"
    /\ UNCHANGED <<text, slot, storage_server_count, received, lookups, got>>

PutAbsent ==
    /\ lpc = "put" /\ ~out.found
    /\ lpc' = "evict"
    /\ UNCHANGED <<mapVars, text, node, map_size, slot, storage_server_count, received,
                   lookups, got>>

(* Mutant: an eviction is not counted. *)
PutEvictUncounted ==
    LET last == node[Tail_].prev
    IN  /\ lpc = "evict" /\ map_size = capacity_lr
        /\ hashmap_remove(text[node[last].slot])
        /\ node' = deleteNode(node, last)
        /\ lpc' = "insert"
        /\ UNCHANGED <<text, map_size, slot, storage_server_count, received, lookups, got>>

(* The cache is full: the last node goes, and from the map what is under   *)
(* the text its key points at now.                                         *)
PutEvict ==
    LET last == node[Tail_].prev
        path == text[node[last].slot]
    IN  /\ lpc = "evict" /\ map_size = capacity_lr
        /\ hashmap_remove(path)
        /\ node' = deleteNode(node, last)
        /\ map_size' = map_size - 1
        /\ lpc' = "insert"
        /\ UNCHANGED <<text, slot, storage_server_count, received, lookups, got>>

PutInsert ==
    LET new == Len(node) + 1
    IN  /\ lpc = "insert" \/ (lpc = "evict" /\ map_size # capacity_lr)
        /\ hashmap_set(text[slot], new)
        /\ node' = addNode(Append(node, Node(slot, storage_server_count, Nowhere, Nowhere)), new)
        /\ map_size' = map_size + 1
        /\ lpc' = "idle"
        /\ slot' = slot + 1
        /\ storage_server_count' = IF slot' = Waiting THEN storage_server_count + 1
                                   ELSE storage_server_count
        /\ UNCHANGED <<text, received, lookups, got>>

(* client_handler: get_LRU(lru, "/operations"). *)
GetLookup ==
    /\ lpc = "idle" /\ lookups < MaxLookups
    /\ hashmap_get(Operations)
    /\ lookups' = lookups + 1
    /\ lpc' = "get"
    /\ UNCHANGED <<text, node, map_size, slot, storage_server_count, received, got>>

GetMiss ==
    /\ lpc = "get" /\ ~out.found
    /\ got' = -1
    /\ lpc' = "idle"
    /\ UNCHANGED <<mapVars, text, node, map_size, slot, storage_server_count, received, lookups>>

(* Mutant: a hit leaves the order as it is. *)
GetHitStays ==
    /\ lpc = "get" /\ out.found
    /\ got' = node[out.value].val
    /\ lpc' = "idle"
    /\ UNCHANGED <<mapVars, text, node, map_size, slot, storage_server_count, received, lookups>>

(* The node moves to the front, and its entry is removed and set again.    *)
GetHit ==
    /\ lpc = "get" /\ out.found
    /\ got' = node[out.value].val
    /\ hashmap_remove(Operations)
    /\ node' = addNode(deleteNode(node, out.value), out.value)
    /\ lpc' = "again"
    /\ UNCHANGED <<text, map_size, slot, storage_server_count, received, lookups>>

GetAgain ==
    /\ lpc = "again"
    /\ hashmap_set(Operations, node[Head_].next)
    /\ lpc' = "idle"
    /\ UNCHANGED <<text, node, map_size, slot, storage_server_count, received, lookups, got>>

MapProgress == Progress /\ UNCHANGED lruVars

LRUNext ==
    \/ \E x \in Export : Register(x) \/ Refuse(x)
    \/ PutLookup \/ PutDrop \/ PutAbsent \/ PutEvict \/ PutInsert
    \/ GetLookup \/ GetMiss \/ GetHit \/ GetAgain
    \/ MapProgress

LRUSpec == LRUInit /\ [][LRUNext]_<<mapVars, lruVars>>

-----------------------------------------------------------------------------
(* What the list stands for: its nodes from the head on, as many as can be *)
(* reached before the tail.                                                *)
nth[n \in 0..Len(node)] ==
    IF n = 0 THEN node[Head_].next
    ELSE IF nth[n - 1] \in {Tail_, Nowhere} THEN nth[n - 1] ELSE node[nth[n - 1]].next

Length == CHOOSE n \in 0..Len(node) :
    /\ nth[n] = Tail_ \/ n = Len(node)
    /\ \A m \in 0..(n - 1) : nth[m] # Tail_
InList == {nth[n] : n \in 0..(Length - 1)}

Items == [n \in 1..Length |->
             [path |-> text[node[nth[n - 1]].slot], number |-> node[nth[n - 1]].val]]

(* put_LRU and get_LRU count from their first step on: an operation that   *)
(* is under way has had its effect already.                                *)
C0 == INSTANCE Cache WITH Path <- Key, Number <- 0..MaxRegistrations,
                          recency <- Items, got <- got

recency == CASE lpc \in {"put", "evict", "insert"} ->
                    C0!Pushed(Items, text[slot], storage_server_count)
             [] lpc = "get" -> C0!Touched(Items, Operations)
             [] OTHER -> Items
answer == IF lpc = "get" THEN C0!Answer(Items, Operations) ELSE got

C == INSTANCE Cache WITH Path <- Key, Number <- 0..MaxRegistrations, got <- answer

-----------------------------------------------------------------------------
(* Properties.                                                             *)

LRUTypeOK ==
    /\ TypeOK
    /\ text \in [Slot -> Key]
    /\ node \in Seq([slot : 0..MAX_ACC_PATHS, val : -1..MaxRegistrations,
                     prev : 0..Len(node), next : 0..Len(node)])
    /\ map_size \in 0..capacity_lr
    /\ lpc \in {"idle", "put", "evict", "insert", "get", "again"}
    /\ slot \in 0..MAX_ACC_PATHS
    /\ storage_server_count \in 0..received /\ received \in 0..MaxRegistrations
    /\ lookups \in 0..MaxLookups
    /\ got \in -1..MaxRegistrations

Quiet == lpc = "idle" /\ pc \in {"idle", "bury"}

(* Between calls the map leads exactly to the nodes of the list, each under*)
(* its path, the list is the same backwards, and map_size counts both: what*)
(* put_LRU and get_LRU must keep while they change one after the other.    *)
MapMatchesList ==
    Quiet =>
        /\ {dict[p] : p \in LiveKeys} = InList
        /\ \A p \in LiveKeys : text[node[dict[p]].slot] = p
        /\ map_size = Length /\ map_size = Cardinality(LiveKeys)
        /\ node[Tail_].prev = IF Length = 0 THEN Head_ ELSE nth[Length - 1]
        /\ \A n \in InList : node[node[n].prev].next = n

(* put_LRU and get_LRU, with their nodes and their map with its tombstones *)
(* and resizes, are the bounded list of the paths used last.               *)
ImplementsCache == C!Spec

(* "removes the least recently used item by evicting it from both the      *)
(* linked list and the hashmap" (README.md): the map leads to no node that *)
(* left the list.                                                          *)
EvictedFromBoth == Quiet => \A p \in LiveKeys : dict[p] \in InList
=============================================================================
