------------------------------ MODULE HashMap -------------------------------
(***************************************************************************)
(* hashmap/map.c: open addressing with linear probing, tombstones for what *)
(* was removed, and a linked list through the buckets in the order they    *)
(* were taken.  One call at a time; a call is cut into a step for every    *)
(* turn of the resize loop and for every bucket it stores to, so that a    *)
(* module that extends this one can look at the table in between.          *)
(*                                                                         *)
(* A bucket is its key and its value.  The list is the sequence of the     *)
(* buckets from first to last.  hash is hash_data: any function.           *)
(***************************************************************************)
EXTENDS Integers, Sequences, FiniteSets

CONSTANTS
    Key, Value,
    NULL,                   \* not a key
    hash,                   \* the hash of a key
    HASHMAP_DEFAULT_CAPACITY,
    MaxCount                \* bound: no call that sets once as many buckets are taken

DEAD == 57005               \* 0xDEAD
Free == [key |-> NULL, value |-> 0]

ASSUME HashAssumption == hash \in [Key -> Nat] /\ NULL \notin Key
ASSUME ValueAssumption == Value \subseteq Int

(* A table of one bucket would be resized while it is empty. *)
ASSUME CapacityAssumption ==
    HASHMAP_DEFAULT_CAPACITY \in Nat \ {0, 1} /\ MaxCount \in Nat

VARIABLES
    capacity, buckets, count, tombstone_count,
    list,                   \* the buckets from first to last
    pc,                     \* where the call in progress is
    call,                   \* its arguments
    entry,                  \* the bucket it works on
    old_buckets, old_list,  \* a resize: the array and the list before it,
    cursor,                 \* and how much of the list is done
    out                     \* what the last call told its caller

tableVars == <<capacity, buckets, count, tombstone_count, list>>
resizeVars == <<old_buckets, old_list, cursor>>
mapVars == <<tableVars, pc, call, entry, resizeVars, out>>

NoCall == [op |-> "none", key |-> NULL, value |-> 0]
Nothing == [found |-> FALSE, value |-> 0]
Return == pc' = "idle" /\ call' = NoCall /\ entry' = 0

(* hashmap_create *)
Init ==
    /\ capacity = HASHMAP_DEFAULT_CAPACITY
    /\ buckets = [i \in 0..(HASHMAP_DEFAULT_CAPACITY - 1) |-> Free]
    /\ count = 0 /\ tombstone_count = 0
    /\ list = << >>
    /\ pc = "idle" /\ call = NoCall /\ entry = 0
    /\ old_buckets = << >> /\ old_list = << >> /\ cursor = 0
    /\ out = Nothing

-----------------------------------------------------------------------------
Index == 0..(capacity - 1)
Home(k) == hash[k] % capacity

(* The steps from bucket h to bucket i, around the end of the array. *)
Steps(h, i) == IF i >= h THEN i - h ELSE i - h + capacity

(* The first bucket from the home of k on that is one of S. *)
FirstFrom(k, S) ==
    CHOOSE i \in S : \A j \in S : Steps(Home(k), i) <= Steps(Home(k), j)

(* find_entry: a free bucket or the key; tombstones are passed. *)
Stops(k) == {i \in Index : buckets[i] = Free \/ buckets[i].key = k}
find_entry(k) == FirstFrom(k, Stops(k))

hashmap_size == count - tombstone_count

(* Mutant: the entry about to be added is not counted. *)
CrowdedLate == 4 * count > 3 * capacity

(* count + 1 > 0.75 * capacity *)
Crowded == 4 * (count + 1) > 3 * capacity

(* hashmap_set, hashmap_set_free, whose callback frees what the caller     *)
(* owns, and hashmap_get_set.                                              *)
Call(op, k, v) ==
    /\ pc = "idle" /\ count < MaxCount
    /\ call' = [op |-> op, key |-> k, value |-> v]
    /\ pc' = IF Crowded THEN "resize" ELSE "find"
    /\ UNCHANGED <<tableVars, entry, resizeVars, out>>

hashmap_set(k, v) == Call("set", k, v)
hashmap_get_set(k, v) == Call("get_set", k, v)

(* Mutant: the new array has the old size. *)
hashmap_resizeShort ==
    /\ pc = "resize"
    /\ old_buckets' = buckets /\ old_list' = list /\ cursor' = 0
    /\ capacity' = 2 * capacity
    /\ buckets' = [i \in Index |-> Free]
    /\ list' = << >>
    /\ count' = count - tombstone_count /\ tombstone_count' = 0
    /\ pc' = "rehash"
    /\ UNCHANGED <<call, entry, out>>

(* Mutant: the tombstones left behind are still counted. *)
hashmap_resizeCounting ==
    /\ pc = "resize"
    /\ old_buckets' = buckets /\ old_list' = list /\ cursor' = 0
    /\ capacity' = 2 * capacity
    /\ buckets' = [i \in 0..(2 * capacity - 1) |-> Free]
    /\ list' = << >>
    /\ count' = count - tombstone_count /\ UNCHANGED tombstone_count
    /\ pc' = "rehash"
    /\ UNCHANGED <<call, entry, out>>

hashmap_resize ==
    /\ pc = "resize"
    /\ old_buckets' = buckets /\ old_list' = list /\ cursor' = 0
    /\ capacity' = 2 * capacity
    /\ buckets' = [i \in 0..(2 * capacity - 1) |-> Free]
    /\ list' = << >>
    /\ count' = count - tombstone_count /\ tombstone_count' = 0
    /\ pc' = "rehash"
    /\ UNCHANGED <<call, entry, out>>

(* One turn of the do-while: tombstones are left behind, and resize_entry  *)
(* puts any other bucket into the first one that has no key.               *)
RehashEntry ==
    LET current == old_buckets[old_list[cursor + 1]]
        i == FirstFrom(current.key, {j \in Index : buckets[j].key = NULL})
    IN  /\ pc = "rehash" /\ cursor < Len(old_list)
        /\ \/ current.key = NULL /\ UNCHANGED <<buckets, list>>
           \/ /\ current.key # NULL
              /\ buckets' = [buckets EXCEPT ![i] = current]
              /\ list' = Append(list, i)
        /\ cursor' = cursor + 1
        /\ UNCHANGED <<capacity, count, tombstone_count, pc, call, entry, old_buckets,
                       old_list, out>>

(* free(old_buckets) *)
ResizeDone ==
    /\ pc = "rehash" /\ cursor = Len(old_list)
    /\ old_buckets' = << >> /\ old_list' = << >> /\ cursor' = 0
    /\ pc' = "find"
    /\ UNCHANGED <<tableVars, call, entry, out>>

(* hashmap_set links and counts a new key before it stores the value,      *)
(* hashmap_get_set stores the value first.                                 *)
LinkEntry ==
    LET i == find_entry(call.key)
    IN  /\ pc = "find" /\ buckets[i].key = NULL
        /\ list' = Append(list, i)
        /\ count' = count + 1
        /\ \/ /\ call.op = "set"
              /\ buckets' = [buckets EXCEPT ![i].key = call.key]
              /\ pc' = "store" /\ entry' = i /\ out' = Nothing
              /\ UNCHANGED call
           \/ /\ call.op = "get_set"
              /\ buckets' = [buckets EXCEPT ![i] = [key |-> call.key, value |-> call.value]]
              /\ out' = [found |-> FALSE, value |-> call.value]
              /\ Return
        /\ UNCHANGED <<capacity, tombstone_count, resizeVars>>

(* A key that is there: its value is replaced, or told. *)
FoundEntry ==
    LET i == find_entry(call.key)
    IN  /\ pc = "find" /\ buckets[i].key # NULL
        /\ \/ /\ call.op = "set"
              /\ pc' = "store" /\ entry' = i /\ out' = Nothing
              /\ UNCHANGED call
           \/ /\ call.op = "get_set"
              /\ out' = [found |-> TRUE, value |-> buckets[i].value]
              /\ Return
        /\ UNCHANGED <<tableVars, resizeVars>>

StoreValue ==
    /\ pc = "store"
    /\ buckets' = [buckets EXCEPT ![entry].value = call.value]
    /\ Return
    /\ UNCHANGED <<capacity, count, tombstone_count, list, resizeVars, out>>

hashmap_get(k) ==
    LET i == find_entry(k)
    IN  /\ pc = "idle"
        /\ out' = [found |-> buckets[i].key # NULL, value |-> buckets[i].value]
        /\ UNCHANGED <<tableVars, pc, call, entry, resizeVars>>

(* hashmap_remove and hashmap_remove_free: the key goes first, ...         *)
hashmap_remove(k) ==
    LET i == find_entry(k)
    IN  /\ pc = "idle" /\ out' = Nothing
        /\ \/ /\ buckets[i].key # NULL
              /\ buckets' = [buckets EXCEPT ![i].key = NULL]
              /\ pc' = "bury" /\ entry' = i
           \/ buckets[i].key = NULL /\ UNCHANGED <<buckets, pc, entry>>
        /\ UNCHANGED <<capacity, count, tombstone_count, list, call, resizeVars>>

(* Mutant: a removed entry looks like a free bucket. *)
BuryEntryFree ==
    /\ pc = "bury"
    /\ buckets' = [buckets EXCEPT ![entry].value = 0]
    /\ tombstone_count' = tombstone_count + 1
    /\ Return
    /\ UNCHANGED <<capacity, count, list, resizeVars, out>>

(* ... then the value that makes the bucket a tombstone is stored. *)
BuryEntry ==
    /\ pc = "bury"
    /\ buckets' = [buckets EXCEPT ![entry].value = DEAD]
    /\ tombstone_count' = tombstone_count + 1
    /\ Return
    /\ UNCHANGED <<capacity, count, list, resizeVars, out>>

Progress ==
    \/ hashmap_resize \/ RehashEntry \/ ResizeDone \/ LinkEntry \/ FoundEntry \/ StoreValue \/ BuryEntry

Next ==
    \/ Progress
    \/ \E k \in Key :
          \/ hashmap_get(k) \/ hashmap_remove(k)
          \/ \E v \in Value : hashmap_set(k, v) \/ hashmap_get_set(k, v)

Spec == Init /\ [][Next]_mapVars

-----------------------------------------------------------------------------
(* What the table stands for.  The entries in the order of the list: those *)
(* in place, then, during a resize, those that still wait in the old array.*)
Entries ==
    [a \in 1..(Len(list) + Len(old_list) - cursor) |->
        IF a <= Len(list) THEN buckets[list[a]]
        ELSE old_buckets[old_list[a - Len(list) + cursor]]]

LiveKeys == {Entries[a].key : a \in DOMAIN Entries} \ {NULL}
EntryOf(k) == Entries[CHOOSE a \in DOMAIN Entries : Entries[a].key = k]

(* A call of hashmap_set counts from the moment its bucket is chosen. *)
dict == [k \in LiveKeys |-> IF pc = "store" /\ k = call.key THEN call.value
                            ELSE EntryOf(k).value]

before == {pair \in LiveKeys \X LiveKeys :
              \E a, b \in DOMAIN Entries :
                  a < b /\ Entries[a].key = pair[1] /\ Entries[b].key = pair[2]}

D == INSTANCE Dictionary

-----------------------------------------------------------------------------
(* Properties.                                                             *)

BucketType == [key : Key \cup {NULL}, value : Value \cup {0, DEAD}]

TypeOK ==
    /\ capacity \in Nat \ {0}
    /\ buckets \in [Index -> BucketType]
    /\ count \in Nat /\ tombstone_count \in Nat
    /\ list \in Seq(Index)
    /\ pc \in {"idle", "resize", "rehash", "find", "store", "bury"}
    /\ call \in [op : {"set", "get_set"}, key : Key, value : Value] \cup {NoCall}
    /\ entry \in Index
    /\ cursor \in 0..Len(old_list)
    /\ out \in [found : BOOLEAN, value : Value \cup {0}]

(* Between calls the map is the dictionary its callers think it is, with   *)
(* the keys in the order they were added, whatever collides, is removed,   *)
(* comes back or moves to a larger array: every call has the effect and    *)
(* the answer of one step of Dictionary (map.h).                           *)
ImplementsDictionary == D!Spec

(* Every loop over the buckets comes to an end: some bucket is free for    *)
(* find_entry and resize_entry, although tombstones are never taken again, *)
(* and hashmap_resize, which "assumes that an empty map won't be resized", *)
(* finds an entry to begin with.                                           *)
LoopsEnd ==
    /\ \E i \in Index : buckets[i] = Free
    /\ pc = "rehash" => Len(old_list) > 0

(* hashmap_size counts the keys, also after tombstones were dropped.       *)
SizeIsEntries == pc = "idle" => hashmap_size = Cardinality(LiveKeys)
=============================================================================
