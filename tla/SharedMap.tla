----------------------------- MODULE SharedMap ------------------------------
(***************************************************************************)
(* The table accessible_paths as the naming server uses it: one thread     *)
(* calls hashmap_set and hashmap_remove (main registers a storage server,  *)
(* a handler commits a command) while another one is in hashmap_get        *)
(* (get_value) or hashmap_iterate (get_paths, print_map).  Nothing locks   *)
(* the table, so the reader's loads fall between the stores of HashMap.    *)
(*                                                                         *)
(* The reader is a hashmap_get cut at every load of a bucket, or a         *)
(* hashmap_iterate cut at every load of an entry's key.  A resize frees the     *)
(* array under it: what it reads from then on can be anything, so the      *)
(* model gives it up there and claims nothing of what it is told.          *)
(***************************************************************************)
EXTENDS HashMap

CONSTANTS
    ReadOp,                 \* what the reader may do: "get", "iterate"
    WriteOp                 \* what the other may do: "set", "get_set", "get", "remove"

VARIABLES
    rpc,                    \* where the reader is
    wanted,                 \* the key it looks for
    at,                     \* the bucket it is at, or the number of entries passed
    loaded,                 \* the key it has loaded from that bucket
    visited,                \* the keys the callback was called with
    \* history: what the reader could have known
    stable,                 \* the keys that were in the table since it began
    had,                    \* the values that the wanted key had since then
    hidden                  \* a bucket looked free meanwhile that was not

readVars == <<rpc, wanted, at, loaded, visited>>
historyVars == <<stable, had, hidden>>
sharedVars == <<mapVars, readVars, historyVars>>

SharedInit ==
    /\ Init
    /\ rpc = "idle" /\ wanted = NULL /\ at = 0 /\ loaded = NULL /\ visited = << >>
    /\ stable = {} /\ had = {} /\ hidden = FALSE

ReadOver ==
    /\ rpc' = "idle" /\ wanted' = NULL /\ at' = 0 /\ loaded' = NULL /\ visited' = << >>
    /\ stable' = {} /\ had' = {} /\ hidden' = FALSE

(* Between its two stores hashmap_remove leaves a bucket without key that  *)
(* looks free if its value was 0, the number of the first storage server.  *)
LooksFree == pc = "bury" /\ buckets[entry].value = 0

ValuesOf(k) == IF k \in LiveKeys THEN {dict[k]} ELSE {}

(* A step of the thread that sets and removes. *)
Writes ==
    /\ \/ Progress
       \/ \E k \in Key :
             \/ "get" \in WriteOp /\ hashmap_get(k)
             \/ "remove" \in WriteOp /\ hashmap_remove(k)
             \/ \E v \in Value :
                   \/ "set" \in WriteOp /\ hashmap_set(k, v)
                   \/ "get_set" \in WriteOp /\ hashmap_get_set(k, v)
    /\ \/ rpc = "idle" /\ UNCHANGED <<readVars, historyVars>>
       \/ /\ rpc # "idle" /\ pc' # "rehash"
          /\ UNCHANGED readVars
          /\ stable' = stable \cap LiveKeys'
          /\ had' = had \cup ValuesOf(wanted)'
          /\ hidden' = (hidden \/ LooksFree')
       \/ rpc # "idle" /\ pc' = "rehash" /\ ReadOver

(* A key that is being set is there once its call is over. *)
StartRead(k) ==
    /\ rpc = "idle" /\ pc # "rehash"
    /\ wanted' = k
    /\ stable' = LiveKeys \ (IF pc = "store" THEN {call.key} ELSE {})
    /\ had' = ValuesOf(k)
    /\ hidden' = LooksFree
    /\ UNCHANGED <<mapVars, loaded, visited>>

(* hashmap_get: the hash of the key. *)
StartGet(k) == "get" \in ReadOp /\ StartRead(k) /\ rpc' = "key" /\ at' = Home(k)

(* find_entry: is entry->key NULL? *)
LoadKey ==
    /\ rpc = "key"
    /\ loaded' = buckets[at].key /\ rpc' = "value"
    /\ UNCHANGED <<mapVars, wanted, at, visited, historyVars>>

(* Mutant: the probe stops at a tombstone. *)
LoadValueKeyOnly ==
    LET stops == loaded = NULL \/ buckets[at].key = wanted
    IN  /\ rpc = "value"
        /\ rpc' = IF stops THEN "tell" ELSE "key"
        /\ at' = IF stops THEN at ELSE (at + 1) % capacity
        /\ loaded' = NULL
        /\ UNCHANGED <<mapVars, wanted, visited, historyVars>>

(* Is entry->value 0, or the key the one that is wanted? *)
LoadValue ==
    LET stops == IF loaded = NULL THEN buckets[at].value = 0 ELSE buckets[at].key = wanted
    IN  /\ rpc = "value"
        /\ rpc' = IF stops THEN "tell" ELSE "key"
        /\ at' = IF stops THEN at ELSE (at + 1) % capacity
        /\ loaded' = NULL
        /\ UNCHANGED <<mapVars, wanted, visited, historyVars>>

(* hashmap_get returns the value, and whether there is a key, of the       *)
(* bucket it stopped at, as they are now.                                  *)
Told == [found |-> buckets[at].key # NULL, value |-> buckets[at].value]
Tell == rpc = "tell" /\ ReadOver /\ UNCHANGED mapVars

StartIterate == "iterate" \in ReadOp /\ StartRead(NULL) /\ rpc' = "walk" /\ at' = 0

(* Mutant: the walk ends at a tombstone. *)
CheckEntryUntilTombstone ==
    LET empty == buckets[list[at + 1]].key = NULL
    IN  /\ rpc = "walk" /\ at < Len(list)
        /\ rpc' = IF empty THEN "walk" ELSE "call"
        /\ at' = IF empty THEN Len(list) ELSE at
        /\ UNCHANGED <<mapVars, wanted, loaded, visited, historyVars>>

(* hashmap_iterate: an entry without key is passed over. *)
CheckEntry ==
    LET empty == buckets[list[at + 1]].key = NULL
    IN  /\ rpc = "walk" /\ at < Len(list)
        /\ rpc' = IF empty THEN "walk" ELSE "call"
        /\ at' = IF empty THEN at + 1 ELSE at
        /\ UNCHANGED <<mapVars, wanted, loaded, visited, historyVars>>

(* The callback is given the key as it is now: NULL, if a removal came     *)
(* between.  Then on to the next entry.                                    *)
Visit ==
    /\ rpc = "call"
    /\ visited' = Append(visited, buckets[list[at + 1]].key)
    /\ at' = at + 1 /\ rpc' = "walk"
    /\ UNCHANGED <<mapVars, wanted, loaded, historyVars>>

VisitedAll == rpc = "walk" /\ at = Len(list) /\ ReadOver /\ UNCHANGED mapVars

Reads ==
    \/ \E k \in Key : StartGet(k)
    \/ LoadKey \/ LoadValue \/ Tell
    \/ StartIterate \/ CheckEntry \/ Visit \/ VisitedAll

SharedNext == Writes \/ Reads
SharedSpec == SharedInit /\ [][SharedNext]_sharedVars

-----------------------------------------------------------------------------
(* Properties.                                                             *)

(* A lookup beside calls that set and remove other keys, or set the same   *)
(* one, finds a key that is there all the time, with a value it had: the   *)
(* probe passes the buckets that fill up or become tombstones before it.   *)
(* Not so beside a hashmap_remove of a path of the first server, which     *)
(* makes a bucket look free and cuts the probe short (find_entry).         *)
LookupRight ==
    (rpc = "tell" /\ wanted \in stable /\ ~hidden) => (Told.found /\ Told.value \in had)

(* hashmap_iterate calls back for every key that is there all the time,    *)
(* once, and in the order the keys were added, whatever is set and removed *)
(* meanwhile, which may also make it call back with no key at all.         *)
IterationRight ==
    (rpc = "walk" /\ at = Len(list)) =>
        \A k \in stable :
            \E a \in DOMAIN visited :
                /\ visited[a] = k
                /\ \A b \in DOMAIN visited \ {a} :
                      /\ visited[b] # k
                      /\ <<visited[b], k>> \in before /\ visited[b] \in stable => b < a

(* "Returns the value associated with a key if found, else -1"             *)
(* (map_operations.c, get_value): a lookup that finds something tells a    *)
(* value that its key had.                                                 *)
FoundIsAssociated == (rpc = "tell" /\ Told.found) => Told.value \in had
=============================================================================
