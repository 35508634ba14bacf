-------------------------- MODULE SharedMap_proofs --------------------------
(***************************************************************************)
(* What a lookup or a walk of the table may rely on while another thread   *)
(* sets and removes, for all keys, values, hash functions and capacities.  *)
(***************************************************************************)
EXTENDS SharedMap, HashMap_proofs

(* A reader has seen the table since it began. *)
ReaderOK ==
    rpc # "idle" =>
        /\ pc # "rehash" /\ stable \subseteq LiveKeys /\ ValuesOf(wanted) \subseteq had
        /\ ~hidden => ~LooksFree

(* The bucket i of the wanted key is still ahead of the probe. *)
Reaches(i) ==
    /\ buckets[i].key = wanted /\ buckets[i].value \in had
    /\ rpc \in {"key", "value"} => Steps(Home(wanted), at) <= Steps(Home(wanted), i)
    /\ rpc = "value" /\ loaded = NULL => buckets[at].key = NULL /\ buckets[at].value # 0
    /\ rpc = "tell" => at = i

ProbeRight ==
    rpc \in {"key", "value", "tell"} =>
        /\ wanted \in Key /\ at \in Index
        /\ wanted \in stable /\ ~hidden => \E i \in Held : Reaches(i)

(* The keys that stay and lie behind a walk were visited, in their order. *)
Visited(k) == \E a \in DOMAIN visited : visited[a] = k
Behind(k) == \E x \in 1..at : buckets[list[x]].key = k

WalkRight ==
    /\ rpc \notin {"walk", "call"} => visited = << >>
    /\ rpc = "call" => at < Len(list)
    /\ rpc \in {"walk", "call"} =>
          /\ at \in 0..Len(list) /\ visited \in Seq(Key \cup {NULL})
          /\ \A k \in stable : Visited(k) <=> Behind(k)
          /\ \A a, b \in DOMAIN visited :
                a < b /\ visited[a] \in stable /\ visited[b] \in stable
                   => <<visited[a], visited[b]>> \in before

SharedInv == Inv /\ ReaderOK /\ ProbeRight /\ WalkRight

-----------------------------------------------------------------------------
(* The steps of the writer are steps of the table, the reader's are none.  *)

LEMMA WriterIsNext == Writes => Next
  BY DEF Writes, Next

LEMMA ReaderIsStutter == Reads => UNCHANGED mapVars
  BY DEF Reads, StartGet, StartIterate, StartRead, LoadKey, LoadValue, Tell, CheckEntry, Visit, VisitedAll

LEMMA MapStep == [SharedNext]_sharedVars => [Next]_mapVars
  BY WriterIsNext, ReaderIsStutter DEF SharedNext, sharedVars

(* The live keys are those of the buckets in the list. *)
LEMMA LiveAre ==
  /\ list \in Seq(Index) /\ old_list = << >> /\ cursor = 0
        => LiveKeys = {buckets[i].key : i \in Held} \ {NULL}
  /\ list' \in Seq(Index') /\ old_list' = << >> /\ cursor' = 0
        => LiveKeys' = {buckets'[i].key : i \in Held'} \ {NULL}
<1>1. ASSUME list \in Seq(Index), old_list = << >>, cursor = 0
      PROVE  LiveKeys = {buckets[i].key : i \in Held} \ {NULL}
  <2>1. Entries = [a \in 1..Len(list) |-> buckets[list[a]]] /\ DOMAIN list = 1..Len(list)
    BY <1>1, PlainEntries
  <2> QED BY <2>1 DEF LiveKeys, Held
<1>2. ASSUME list' \in Seq(Index'), old_list' = << >>, cursor' = 0
      PROVE  LiveKeys' = {buckets'[i].key : i \in Held'} \ {NULL}
  <2>1. Entries' = [a \in 1..Len(list') |-> buckets'[list'[a]]] /\ DOMAIN list' = 1..Len(list')
    BY <1>2, PlainEntries
  <2> QED BY <2>1 DEF LiveKeys, Held
<1> QED BY <1>1, <1>2

LEMMA Live ==
  ASSUME Inv, pc # "rehash"
  PROVE  LiveKeys = {buckets[i].key : i \in Held} \ {NULL}
  BY Facts, LiveAre DEF Inv, PhaseOK

LEMMA LiveNext ==
  ASSUME Inv', pc' # "rehash"
  PROVE  LiveKeys' = {buckets'[i].key : i \in Held'} \ {NULL}
  BY LiveAre DEF Inv, PhaseOK, TypeOK

(* A key is in one bucket. *)
LEMMA OneBucket ==
  ASSUME Inv, pc # "rehash", NEW i \in Held, NEW j \in Held,
         buckets[i].key = buckets[j].key, buckets[i].key # NULL
  PROVE  i = j
<1>1. PICK a \in 1..Len(list) : list[a] = i
  BY Facts
<1>2. PICK b \in 1..Len(list) : list[b] = j
  BY Facts
<1>3. /\ a \in DOMAIN Entries /\ b \in DOMAIN Entries
      /\ Entries[a] = buckets[i] /\ Entries[b] = buckets[j]
  BY <1>1, <1>2, Facts
<1>4. a = b
  BY <1>3 DEF Inv, NoDup
<1> QED BY <1>1, <1>2, <1>4

(* The bucket after one that lies before i on the way from h is one step   *)
(* further, around the end of the array too.                               *)
LEMMA NextBucket ==
  ASSUME capacity \in Nat \ {0}, NEW h \in Index, NEW a \in Index
  PROVE  /\ (a + 1) % capacity \in Index
         /\ \A i \in Index : Steps(h, a) < Steps(h, i) => Steps(h, (a + 1) % capacity) = Steps(h, a) + 1
<1>1. \A n \in Nat \ {0}, m \in Nat : m < n => (m + 1) % n = IF m + 1 = n THEN 0 ELSE m + 1
  BY Z3
<1>2. (a + 1) % capacity = IF a + 1 = capacity THEN 0 ELSE a + 1
  BY <1>1 DEF Index
<1> QED BY <1>2 DEF Index, Steps

-----------------------------------------------------------------------------
(* What a step of the writer that starts no resize does to the buckets of  *)
(* the list: it leaves them, makes a tombstone, erases one key, or stores  *)
(* the value of the call.                                                  *)
Kept(i) == buckets'[i] = buckets[i]
Buried(i) == buckets[i].key = NULL /\ buckets'[i].key = NULL /\ buckets'[i].value # 0
Erased(i) ==
    /\ buckets[i].key # NULL /\ buckets'[i].key = NULL
    /\ Held' = Held /\ \A j \in Held \ {i} : Kept(j)
Stored(i) ==
    /\ pc = "store" /\ buckets[i].key = call.key
    /\ buckets'[i].key = call.key /\ buckets'[i].value = call.value

LEMMA WriterStep ==
  ASSUME Inv, [Next]_mapVars, pc # "rehash", pc' # "rehash"
  PROVE  /\ capacity' = capacity /\ Index' = Index /\ Held \subseteq Held'
         /\ Len(list') \in Nat /\ Len(list') >= Len(list)
         /\ \A x \in 1..Len(list) : list'[x] = list[x]
         /\ \A i \in Held : Kept(i) \/ Buried(i) \/ Erased(i) \/ Stored(i)
<1>0. /\ list \in Seq(Index) /\ Len(list) \in Nat /\ capacity \in Nat \ {0}
      /\ buckets \in [Index -> BucketType] /\ Held \subseteq Index
  BY Facts
<1>1. CASE LinkEntry
  <2> DEFINE i == find_entry(call.key)
  <2>1. /\ pc = "find" /\ buckets[i].key = NULL /\ list' = Append(list, i)
        /\ capacity' = capacity
        /\ \A j \in Index \ {i} : buckets'[j] = buckets[j]
    BY <1>0, <1>1 DEF LinkEntry
  <2>2. call.key \in Key
    BY <2>1 DEF Inv, PhaseOK, CallType
  <2>3. i \in Index /\ i \notin Held
    BY <2>1, <2>2, FindEntry, HashAssumption
  <2> HIDE DEF i
  <2>4. /\ Index' = Index /\ Len(list') = Len(list) + 1
        /\ \A a \in 1..Len(list) : list'[a] = list[a]
        /\ Held' = Held \cup {i}
    BY <2>1, <2>3, Linked
  <2>5. \A j \in Held : Kept(j)
    BY <1>0, <2>1, <2>3 DEF Kept
  <2> QED BY <1>0, <2>1, <2>4, <2>5
<1>2. ASSUME capacity' = capacity, list' = list, \A i \in Held : Kept(i) \/ Buried(i) \/ Erased(i) \/ Stored(i)
      PROVE  /\ capacity' = capacity /\ Index' = Index /\ Held \subseteq Held'
             /\ Len(list') \in Nat /\ Len(list') >= Len(list)
             /\ \A x \in 1..Len(list) : list'[x] = list[x]
             /\ \A i \in Held : Kept(i) \/ Buried(i) \/ Erased(i) \/ Stored(i)
  <2>1. Index' = Index /\ Held' = Held
    BY <1>2 DEF Index, Held
  <2> QED BY <1>0, <1>2, <2>1
<1>3. CASE StoreValue
  <2>1. /\ capacity' = capacity /\ list' = list /\ pc = "store"
        /\ buckets' = [buckets EXCEPT ![entry].value = call.value]
    BY <1>3 DEF StoreValue
  <2>2. entry \in Index /\ buckets[entry].key = call.key
    BY <1>0, <2>1 DEF Inv, PhaseOK
  <2>3. buckets'[entry] = [buckets[entry] EXCEPT !.value = call.value]
    BY <1>0, <2>1, <2>2
  <2>4. buckets[entry] \in BucketType
    BY <1>0, <2>2
  <2>5. buckets'[entry].key = call.key /\ buckets'[entry].value = call.value
    BY <2>2, <2>3, <2>4 DEF BucketType
  <2>6. Stored(entry)
    BY <2>1, <2>2, <2>5 DEF Stored
  <2>7. \A j \in Held \ {entry} : Kept(j)
    BY <1>0, <2>1 DEF Kept
  <2> QED BY <1>2, <2>1, <2>6, <2>7
<1>4. CASE BuryEntry
  <2>1. /\ capacity' = capacity /\ list' = list /\ pc = "bury"
        /\ buckets' = [buckets EXCEPT ![entry].value = DEAD]
    BY <1>4 DEF BuryEntry
  <2>2. entry \in Index /\ buckets[entry].key = NULL
    BY <1>0, <2>1 DEF Inv, PhaseOK
  <2>3. buckets'[entry] = [buckets[entry] EXCEPT !.value = DEAD]
    BY <1>0, <2>1, <2>2
  <2>4. buckets[entry] \in BucketType
    BY <1>0, <2>2
  <2>5. buckets'[entry].key = NULL /\ buckets'[entry].value = DEAD
    BY <2>2, <2>3, <2>4 DEF BucketType
  <2>6. Buried(entry)
    BY <2>2, <2>5 DEF Buried, DEAD
  <2>7. \A j \in Held \ {entry} : Kept(j)
    BY <1>0, <2>1 DEF Kept
  <2> QED BY <1>2, <2>1, <2>6, <2>7
<1>5. ASSUME NEW k \in Key, hashmap_remove(k)
      PROVE  /\ capacity' = capacity /\ list' = list
             /\ \A i \in Held : Kept(i) \/ Buried(i) \/ Erased(i) \/ Stored(i)
  <2> DEFINE i == find_entry(k)
  <2>1. /\ pc = "idle" /\ capacity' = capacity /\ list' = list
        /\ \/ buckets[i].key # NULL /\ buckets' = [buckets EXCEPT ![i].key = NULL]
           \/ buckets' = buckets
    BY <1>5 DEF hashmap_remove
  <2>2. i \in Index
    BY <2>1, FindEntry
  <2> HIDE DEF i
  <2>3. CASE buckets' = buckets
    BY <2>1, <2>3 DEF Kept
  <2>4. CASE buckets[i].key # NULL /\ buckets' = [buckets EXCEPT ![i].key = NULL]
    <3>1. \A j \in Held \ {i} : Kept(j)
      BY <1>0, <2>4 DEF Kept
    <3>2. Held' = Held
      BY <2>1 DEF Held
    <3>3. buckets'[i] = [buckets[i] EXCEPT !.key = NULL] /\ buckets[i] \in BucketType
      BY <1>0, <2>2, <2>4
    <3>4. buckets'[i].key = NULL
      BY <3>3 DEF BucketType
    <3>5. Erased(i)
      BY <2>4, <3>1, <3>2, <3>4 DEF Erased
    <3> QED BY <2>1, <3>1, <3>5
  <2> QED BY <2>1, <2>3, <2>4
<1>6. ASSUME capacity' = capacity, list' = list, buckets' = buckets
      PROVE  \A i \in Held : Kept(i) \/ Buried(i) \/ Erased(i) \/ Stored(i)
  BY <1>6 DEF Kept
<1>7. CASE \E op \in {"set", "get_set"}, k \in Key, v \in Value : Call(op, k, v)
  BY <1>2, <1>6, <1>7 DEF Call, tableVars
<1>8. CASE FoundEntry \/ \E k \in Key : hashmap_get(k)
  BY <1>2, <1>6, <1>8 DEF FoundEntry, hashmap_get, tableVars
<1>9. CASE UNCHANGED mapVars
  BY <1>2, <1>6, <1>9 DEF mapVars, tableVars
<1>10. CASE \E k \in Key : hashmap_remove(k)
  BY <1>2, <1>5, <1>10
<1>11. ~hashmap_resize /\ ~RehashEntry /\ ~ResizeDone
  BY DEF hashmap_resize, RehashEntry, ResizeDone
<1> QED
  BY <1>1, <1>3, <1>4, <1>7, <1>8, <1>9, <1>10, <1>11
  DEF Next, Progress, hashmap_set, hashmap_get_set

-----------------------------------------------------------------------------
(* A step of the writer under a reader.                                    *)

LEMMA StillFree ==
  ASSUME Inv, Inv', [Next]_mapVars, pc # "rehash", pc' # "rehash",
         NEW i \in Held, buckets[i].key \in LiveKeys'
  PROVE  buckets'[i].key = buckets[i].key
<1>1. Kept(i) \/ Buried(i) \/ Erased(i) \/ Stored(i)
  BY WriterStep
<1>2. buckets[i].key # NULL
  BY LiveNext
<1>3. CASE Erased(i)
  <2>1. PICK j \in Held : buckets'[j].key = buckets[i].key
    BY <1>3, LiveNext DEF Erased
  <2>2. j # i /\ buckets[j].key = buckets[i].key
    BY <1>3, <2>1 DEF Erased, Kept
  <2> QED BY <1>2, <2>2, OneBucket
<1> QED BY <1>1, <1>2, <1>3 DEF Kept, Buried, Stored

(* The order of keys that stay is not changed. *)
LEMMA OrderStays ==
  ASSUME [D!Next]_<<dict, before, out>>, NEW k \in LiveKeys', NEW l \in LiveKeys',
         <<k, l>> \in before
  PROVE  <<k, l>> \in before'
<1>1. DOMAIN dict' = LiveKeys'
  BY DEF dict
<1>2. ASSUME NEW x, D!Remove(x) PROVE <<k, l>> \in before'
  <2>1. k # x /\ l # x
    BY <1>1, <1>2 DEF D!Remove
  <2> QED BY <1>2, <2>1 DEF D!Remove
<1>3. ASSUME NEW x, NEW v, D!Added(x, v) PROVE <<k, l>> \in before'
  BY <1>3 DEF D!Added
<1>4. ASSUME before' = before PROVE <<k, l>> \in before'
  BY <1>4
<1> QED BY <1>2, <1>3, <1>4 DEF D!Next, D!Get, D!GetSet, D!Set

(* The value in the bucket of a key was the key's. *)
LEMMA StoredIsKnown ==
  ASSUME Inv, NEW i \in Held, Stored(i), buckets[i].key # NULL
  PROVE  call.value \in ValuesOf(buckets[i].key)
<1>1. pc = "store" /\ call.key = buckets[i].key
  BY DEF Stored
<1>2. call.key \in LiveKeys
  BY <1>1, Live
<1> QED BY <1>1, <1>2 DEF ValuesOf, dict

LEMMA WriterKeeps ==
  ASSUME SharedInv, Inv', Writes, [D!Next]_<<dict, before, out>>
  PROVE  ReaderOK' /\ ProbeRight' /\ WalkRight'
<1>1. CASE rpc = "idle"
  <2>1. rpc' = "idle" /\ visited' = << >>
    BY <1>1 DEF Writes, readVars, SharedInv, WalkRight
  <2> QED BY <2>1 DEF ReaderOK, ProbeRight, WalkRight
<1>2. CASE rpc # "idle" /\ pc' = "rehash"
  <2>1. rpc' = "idle" /\ visited' = << >>
    BY <1>2 DEF Writes, ReadOver
  <2> QED BY <2>1 DEF ReaderOK, ProbeRight, WalkRight
<1>3. CASE rpc # "idle" /\ pc' # "rehash"
  <2>0. /\ Inv /\ pc # "rehash" /\ stable \subseteq LiveKeys
        /\ ValuesOf(wanted) \subseteq had /\ (~hidden => ~LooksFree)
    BY <1>3 DEF SharedInv, ReaderOK
  <2>1. /\ rpc' = rpc /\ wanted' = wanted /\ at' = at /\ loaded' = loaded /\ visited' = visited
        /\ stable' = stable \cap LiveKeys'
        /\ had' = had \cup ValuesOf(wanted)'
        /\ hidden' = (hidden \/ LooksFree')
    BY <1>3 DEF Writes, readVars
  <2>2. [Next]_mapVars
    BY WriterIsNext
  <2>3. /\ capacity' = capacity /\ Index' = Index /\ Held \subseteq Held'
        /\ Len(list') \in Nat /\ Len(list') >= Len(list)
        /\ \A x \in 1..Len(list) : list'[x] = list[x]
        /\ \A i \in Held : Kept(i) \/ Buried(i) \/ Erased(i) \/ Stored(i)
    BY <1>3, <2>0, <2>2, WriterStep
  <2>4. /\ Len(list) \in Nat /\ capacity \in Nat \ {0} /\ Held \subseteq Index
        /\ \A a \in 1..Len(list) : list[a] \in Held
    BY <2>0, Facts
  <2>5. \A k \in stable' : k \in stable /\ k \in LiveKeys' /\ k # NULL
    BY <2>1 DEF LiveKeys
  <2>6. ReaderOK'
    <3>1. ValuesOf(wanted)' \subseteq had'
      BY <2>1
    <3>2. ~hidden' => ~LooksFree'
      BY <2>1
    <3> QED BY <1>3, <2>1, <3>1, <3>2 DEF ReaderOK
  <2>7. \A i \in Held : buckets[i].key \in LiveKeys' => buckets'[i].key = buckets[i].key
    BY <1>3, <2>0, <2>2, StillFree
  <2>8. ProbeRight'
    <3> SUFFICES ASSUME rpc \in {"key", "value", "tell"}
                 PROVE  /\ wanted \in Key /\ at \in Index
                        /\ wanted \in stable' /\ ~hidden' => \E i \in Held' : Reaches(i)'
      BY <2>1, <2>3 DEF ProbeRight
    <3>1. wanted \in Key /\ at \in Index
      BY DEF SharedInv, ProbeRight
    <3>2. ASSUME wanted \in stable', ~hidden' PROVE \E i \in Held' : Reaches(i)'
      <4>1. wanted \in stable /\ wanted \in LiveKeys' /\ ~hidden /\ wanted # NULL
        BY <2>1, <2>5, <3>2
      <4>2. PICK i \in Held : Reaches(i)
        BY <4>1 DEF SharedInv, ProbeRight
      <4>3. buckets'[i].key = wanted
        BY <2>7, <4>1, <4>2 DEF Reaches
      <4>4. buckets'[i].value \in had'
        <5>1. CASE Stored(i)
          <6>1. call.value \in ValuesOf(wanted)
            BY <2>0, <4>1, <4>2, <5>1, StoredIsKnown DEF Reaches
          <6> QED BY <2>0, <2>1, <5>1, <6>1 DEF Stored
        <5>2. CASE Kept(i)
          BY <2>1, <4>2, <5>2 DEF Reaches, Kept
        <5> QED BY <2>3, <4>1, <4>3, <5>1, <5>2 DEF Buried, Erased
      <4>5. rpc \in {"key", "value"} => (Steps(Home(wanted), at) <= Steps(Home(wanted), i))'
        BY <2>1, <2>3, <4>2 DEF Reaches, Steps, Home
      <4>6. ASSUME rpc = "value", loaded = NULL
            PROVE  buckets'[at].key = NULL /\ buckets'[at].value # 0
        <5>1. /\ buckets[at].key = NULL /\ buckets[at].value # 0 /\ at \in Held
          <6>1. buckets[at].key = NULL /\ buckets[at].value # 0
            BY <4>2, <4>6 DEF Reaches
          <6>2. buckets[at] # Free
            BY <6>1 DEF Free
          <6> QED BY <2>0, <3>1, <6>1, <6>2 DEF Inv, BucketsOK
        <5>2. Kept(at) \/ Buried(at)
          <6>1. ~Erased(at)
            BY <5>1 DEF Erased
          <6>2. ~Stored(at)
            <7> SUFFICES ASSUME Stored(at) PROVE FALSE
              OBVIOUS
            <7>1. pc = "store" /\ call.key = NULL
              BY <5>1 DEF Stored
            <7>2. call.key \in Key
              BY <2>0, <7>1 DEF Inv, PhaseOK, CallType
            <7> QED BY <7>1, <7>2, HashAssumption
          <6> QED BY <2>3, <5>1, <6>1, <6>2
        <5> QED BY <5>1, <5>2 DEF Kept, Buried
      <4>7. Reaches(i)'
        BY <2>1, <4>2, <4>3, <4>4, <4>5, <4>6 DEF Reaches
      <4> QED BY <2>3, <4>7
    <3> QED BY <3>1, <3>2
  <2>9. WalkRight'
    <3> SUFFICES ASSUME rpc \in {"walk", "call"} PROVE WalkRight'
      BY <2>1 DEF WalkRight, SharedInv
    <3>1. /\ at \in 0..Len(list) /\ visited \in Seq(Key \cup {NULL})
          /\ rpc = "call" => at < Len(list)
          /\ \A k \in stable : Visited(k) <=> Behind(k)
          /\ \A a, b \in DOMAIN visited :
                a < b /\ visited[a] \in stable /\ visited[b] \in stable
                   => <<visited[a], visited[b]>> \in before
      BY DEF SharedInv, WalkRight
    <3>2. at' \in 0..Len(list') /\ (rpc' = "call" => at' < Len(list'))
      BY <2>1, <2>3, <2>4, <3>1
    <3>3. ASSUME NEW k \in stable' PROVE Visited(k)' <=> Behind(k)'
      <4>1. k \in stable /\ k \in LiveKeys' /\ k # NULL
        BY <2>5
      <4>2. Visited(k)' <=> Visited(k)
        BY <2>1 DEF Visited
      <4>3. ASSUME NEW x \in 1..at PROVE (buckets[list[x]].key = k) <=> (buckets'[list'[x]].key = k)
        <5>1. list'[x] = list[x] /\ list[x] \in Held
          BY <2>3, <2>4, <3>1
        <5>2. ASSUME buckets[list[x]].key = k PROVE buckets'[list[x]].key = k
          BY <2>7, <4>1, <5>1, <5>2
        <5>3. ASSUME buckets'[list[x]].key = k PROVE buckets[list[x]].key = k
          BY <2>3, <4>1, <5>1, <5>3 DEF Kept, Buried, Erased, Stored
        <5> QED BY <5>1, <5>2, <5>3
      <4>4. Behind(k)' <=> Behind(k)
        BY <2>1, <4>3 DEF Behind
      <4> QED BY <3>1, <4>1, <4>2, <4>4
    <3>4. ASSUME NEW a \in DOMAIN visited, NEW b \in DOMAIN visited, a < b,
                 visited[a] \in stable', visited[b] \in stable'
          PROVE  <<visited[a], visited[b]>> \in before'
      <4>1. /\ visited[a] \in stable /\ visited[b] \in stable
            /\ visited[a] \in LiveKeys' /\ visited[b] \in LiveKeys'
        BY <2>5, <3>4
      <4>2. <<visited[a], visited[b]>> \in before
        BY <3>1, <3>4, <4>1
      <4> QED BY <4>1, <4>2, OrderStays
    <3> QED BY <2>1, <3>1, <3>2, <3>3, <3>4 DEF WalkRight
  <2> QED BY <2>6, <2>8, <2>9
<1> QED BY <1>1, <1>2, <1>3

-----------------------------------------------------------------------------
(* A step of the reader.                                                   *)

LEMMA Unchanged ==
  ASSUME UNCHANGED mapVars
  PROVE  /\ capacity' = capacity /\ buckets' = buckets /\ list' = list /\ pc' = pc
         /\ call' = call /\ entry' = entry
         /\ Index' = Index /\ Held' = Held /\ LiveKeys' = LiveKeys /\ before' = before
         /\ dict' = dict /\ LooksFree' = LooksFree
         /\ \A h, i : Steps(h, i)' = Steps(h, i)
         /\ \A k : Home(k)' = Home(k)
<1>1. /\ capacity' = capacity /\ buckets' = buckets /\ list' = list /\ pc' = pc
      /\ call' = call /\ entry' = entry /\ old_list' = old_list /\ cursor' = cursor
      /\ old_buckets' = old_buckets
  BY DEF mapVars, tableVars, resizeVars
<1>2. Entries' = Entries
  BY <1>1 DEF Entries
<1>3. LiveKeys' = LiveKeys /\ before' = before
  BY <1>2 DEF LiveKeys, before
<1>4. dict' = dict
  BY <1>1, <1>2, <1>3 DEF dict, EntryOf
<1> QED BY <1>1, <1>3, <1>4 DEF Index, Held, LooksFree, Steps, Home

(* A read that goes on and learns nothing new of the table. *)
LEMMA ReaderGoesOn ==
  ASSUME SharedInv, UNCHANGED mapVars, UNCHANGED <<wanted, historyVars>>, rpc # "idle"
  PROVE  ReaderOK'
<1>1. /\ wanted' = wanted /\ stable' = stable /\ had' = had /\ hidden' = hidden
  BY DEF historyVars
<1>2. ValuesOf(wanted)' = ValuesOf(wanted)
  BY <1>1, Unchanged DEF ValuesOf
<1> QED BY <1>1, <1>2, Unchanged DEF SharedInv, ReaderOK

LEMMA ReadStarts ==
  ASSUME SharedInv, NEW k, StartRead(k)
  PROVE  ReaderOK'
<1>0. /\ UNCHANGED mapVars /\ pc # "rehash" /\ wanted' = k
      /\ stable' = LiveKeys \ (IF pc = "store" THEN {call.key} ELSE {})
      /\ had' = ValuesOf(k) /\ hidden' = LooksFree
  BY DEF StartRead
<1>1. ValuesOf(wanted)' = ValuesOf(k)
  BY <1>0, Unchanged DEF ValuesOf
<1> QED BY <1>0, <1>1, Unchanged DEF ReaderOK

LEMMA GetStarts ==
  ASSUME SharedInv, NEW k \in Key, StartGet(k)
  PROVE  ReaderOK' /\ ProbeRight' /\ WalkRight'
<1>0. /\ rpc = "idle" /\ visited' = visited /\ StartRead(k) /\ rpc' = "key" /\ at' = Home(k) /\ wanted' = k
      /\ UNCHANGED mapVars /\ pc # "rehash" /\ Inv
      /\ stable' = LiveKeys \ (IF pc = "store" THEN {call.key} ELSE {})
      /\ had' = ValuesOf(k)
  BY DEF StartGet, StartRead, SharedInv
<1>1. capacity \in Nat \ {0} /\ Held \subseteq Index /\ Home(k) \in Index
  BY <1>0, Facts, HomeType
<1>2. ASSUME k \in stable' PROVE \E i \in Held : Reaches(i)'
  <2>1. k \in LiveKeys /\ ~(pc = "store" /\ k = call.key)
    BY <1>0, <1>2
  <2>2. PICK i \in Held : buckets[i].key = k /\ k # NULL
    BY <1>0, <2>1, Live
  <2>3. At(Entries, k) = buckets[i]
    BY <1>0, <2>2, EntryAt
  <2>4. dict[k] = buckets[i].value
    BY <2>1, <2>3 DEF dict, EntryOf, At
  <2>5. buckets[i].value \in had'
    BY <1>0, <2>1, <2>4 DEF ValuesOf
  <2>6. Steps(Home(k), Home(k)) <= Steps(Home(k), i)
    <3>1. Steps(Home(k), i) \in Nat
      BY <1>1, StepsType
    <3> QED BY <1>1, <3>1 DEF Steps, Index
  <2> QED BY <1>0, <2>2, <2>5, <2>6, Unchanged DEF Reaches
<1>3. ProbeRight'
  BY <1>0, <1>1, <1>2, Unchanged DEF ProbeRight
<1> QED BY <1>0, <1>3, ReadStarts DEF WalkRight, SharedInv

(* Until it gets to its bucket a probe is over buckets of the list. *)
LEMMA ProbeOver ==
  ASSUME Inv, NEW i \in Held, NEW j \in Index, buckets[i].key \in Key,
         Steps(Home(buckets[i].key), j) <= Steps(Home(buckets[i].key), i)
  PROVE  /\ j \in Held
         /\ j # i => Steps(Home(buckets[i].key), j) < Steps(Home(buckets[i].key), i)
<1> DEFINE h == Home(buckets[i].key)
<1>1. capacity \in Nat \ {0} /\ i \in Index
  BY Facts
<1>2. h \in Index
  BY <1>1, HomeType
<1> HIDE DEF h
<1>3. /\ Steps(h, i) \in Nat /\ Steps(h, j) \in Nat
      /\ Steps(h, j) = Steps(h, i) => j = i
  BY <1>1, <1>2, StepsType
<1>4. j # i => Steps(h, j) < Steps(h, i)
  BY <1>3 DEF h
<1>5. j # i => j \in Held
  BY <1>1, <1>4, HashAssumption DEF h, Inv, ProbeOK
<1> QED BY <1>4, <1>5 DEF h

LEMMA LoadKeyKeeps ==
  ASSUME SharedInv, LoadKey
  PROVE  ReaderOK' /\ ProbeRight' /\ WalkRight'
<1>0. /\ rpc = "key" /\ loaded' = buckets[at].key /\ rpc' = "value" /\ at' = at
      /\ wanted' = wanted /\ stable' = stable /\ had' = had /\ hidden' = hidden
      /\ visited' = visited /\ UNCHANGED mapVars /\ UNCHANGED <<wanted, historyVars>>
  BY DEF LoadKey, historyVars
<1>1. /\ Inv /\ pc # "rehash" /\ (~hidden => ~LooksFree) /\ wanted \in Key /\ at \in Index
  BY <1>0 DEF SharedInv, ReaderOK, ProbeRight
<1>2. ASSUME wanted \in stable, ~hidden PROVE \E i \in Held : Reaches(i)'
  <2>1. PICK i \in Held : Reaches(i)
    BY <1>0, <1>2 DEF SharedInv, ProbeRight
  <2>2. ASSUME buckets[at].key = NULL PROVE buckets[at].value # 0
    <3>1. at \in Held
      BY <1>0, <1>1, <2>1, ProbeOver DEF Reaches
    <3>2. \/ buckets[at] = Tombstone
          \/ pc = "bury" /\ at = entry
      BY <1>1, <2>2, <3>1, HashAssumption DEF Inv, BucketsOK, LiveBucket
    <3> QED BY <1>1, <1>2, <3>2 DEF LooksFree, Tombstone, DEAD
  <2> QED BY <1>0, <2>1, <2>2, Unchanged DEF Reaches
<1>3. ProbeRight'
  BY <1>0, <1>1, <1>2, Unchanged DEF ProbeRight
<1> QED BY <1>0, <1>3, ReaderGoesOn DEF WalkRight, SharedInv

LEMMA LoadValueKeeps ==
  ASSUME SharedInv, LoadValue
  PROVE  ReaderOK' /\ ProbeRight' /\ WalkRight'
<1> DEFINE stops == IF loaded = NULL THEN buckets[at].value = 0 ELSE buckets[at].key = wanted
<1>0. /\ rpc = "value" /\ loaded' = NULL
      /\ rpc' = (IF stops THEN "tell" ELSE "key")
      /\ at' = (IF stops THEN at ELSE (at + 1) % capacity)
      /\ wanted' = wanted /\ stable' = stable /\ had' = had /\ hidden' = hidden
      /\ visited' = visited /\ UNCHANGED mapVars /\ UNCHANGED <<wanted, historyVars>>
  BY DEF LoadValue, historyVars
<1>1. /\ Inv /\ pc # "rehash" /\ wanted \in Key /\ at \in Index
  BY <1>0 DEF SharedInv, ReaderOK, ProbeRight
<1>2. capacity \in Nat \ {0} /\ Held \subseteq Index /\ Home(wanted) \in Index /\ wanted # NULL
  BY <1>1, Facts, HomeType, HashAssumption
<1>3. (at + 1) % capacity \in Index
  BY <1>1, <1>2, NextBucket
<1>4. ASSUME wanted \in stable, ~hidden PROVE \E i \in Held : Reaches(i)'
  <2>1. PICK i \in Held : Reaches(i)
    BY <1>0, <1>4 DEF SharedInv, ProbeRight
  <2>2. /\ buckets[i].key = wanted /\ buckets[i].value \in had
        /\ Steps(Home(wanted), at) <= Steps(Home(wanted), i)
        /\ loaded = NULL => buckets[at].key = NULL /\ buckets[at].value # 0
    BY <1>0, <2>1 DEF Reaches
  <2>3. at \in Held /\ (at # i => Steps(Home(wanted), at) < Steps(Home(wanted), i))
    BY <1>1, <2>2, ProbeOver
  <2>4. CASE stops
    <3>1. buckets[at].key = wanted
      BY <2>2, <2>4
    <3>2. at = i
      BY <1>1, <1>2, <2>2, <2>3, <3>1, OneBucket
    <3> QED BY <1>0, <2>2, <2>4, <3>2, Unchanged DEF Reaches
  <2>5. CASE ~stops
    <3>1. at # i
      BY <1>2, <2>2, <2>5
    <3>2. Steps(Home(wanted), (at + 1) % capacity) = Steps(Home(wanted), at) + 1
      BY <1>1, <1>2, <2>3, <3>1, NextBucket
    <3>3. Steps(Home(wanted), at) \in Nat /\ Steps(Home(wanted), i) \in Nat
      BY <1>1, <1>2, StepsType
    <3>4. Steps(Home(wanted), (at + 1) % capacity) <= Steps(Home(wanted), i)
      BY <2>3, <3>1, <3>2, <3>3
    <3>5. (Steps(Home(wanted), at) <= Steps(Home(wanted), i))'
      BY <1>0, <2>5, <3>4, Unchanged DEF Steps, Home
    <3>6. rpc' = "key"
      BY <1>0, <2>5
    <3> QED BY <1>0, <2>2, <3>5, <3>6, Unchanged DEF Reaches
  <2> QED BY <2>4, <2>5
<1>5. at' \in Index
  BY <1>0, <1>1, <1>3
<1> HIDE DEF stops
<1>6. ProbeRight'
  BY <1>0, <1>1, <1>4, <1>5, Unchanged DEF ProbeRight
<1>7. rpc' \in {"tell", "key"}
  BY <1>0
<1> QED BY <1>0, <1>6, <1>7, ReaderGoesOn DEF WalkRight, SharedInv

LEMMA IterateStarts ==
  ASSUME SharedInv, StartIterate
  PROVE  ReaderOK' /\ ProbeRight' /\ WalkRight'
<1>0. /\ rpc' = "walk" /\ at' = 0 /\ visited' = visited /\ StartRead(NULL)
      /\ rpc = "idle" /\ UNCHANGED mapVars
  BY DEF StartIterate, StartRead
<1>1. visited = << >>
  BY <1>0 DEF SharedInv, WalkRight
<1>2. \A k : ~Visited(k)' /\ ~Behind(k)'
  BY <1>0, <1>1 DEF Visited, Behind
<1>3. visited' \in Seq(Key \cup {NULL}) /\ DOMAIN visited' = {} /\ at' \in 0..Len(list')
  <2>1. Len(list') \in Nat
    BY <1>0, Unchanged, Facts DEF SharedInv
  <2> QED BY <1>0, <1>1, <2>1
<1> QED BY <1>0, <1>2, <1>3, ReadStarts DEF ProbeRight, WalkRight

LEMMA CheckEntryKeeps ==
  ASSUME SharedInv, CheckEntry
  PROVE  ReaderOK' /\ ProbeRight' /\ WalkRight'
<1> DEFINE key == buckets[list[at + 1]].key
<1>0. /\ rpc = "walk" /\ at < Len(list) /\ visited' = visited
      /\ rpc' = (IF key = NULL THEN "walk" ELSE "call")
      /\ at' = (IF key = NULL THEN at + 1 ELSE at)
      /\ stable' = stable /\ UNCHANGED mapVars /\ UNCHANGED <<wanted, historyVars>>
  BY DEF CheckEntry, historyVars
<1>1. /\ Inv /\ pc # "rehash" /\ stable \subseteq LiveKeys
      /\ at \in 0..Len(list) /\ visited \in Seq(Key \cup {NULL})
      /\ \A k \in stable : Visited(k) <=> Behind(k)
      /\ \A a, b \in DOMAIN visited :
            a < b /\ visited[a] \in stable /\ visited[b] \in stable
               => <<visited[a], visited[b]>> \in before
  BY <1>0 DEF SharedInv, ReaderOK, WalkRight
<1>2. Len(list) \in Nat
  BY <1>1, Facts
<1>3. at \in Nat /\ 1..(at + 1) = (1..at) \cup {at + 1}
  BY <1>1, <1>2
<1>4. \A k \in stable : k # NULL
  BY <1>1 DEF LiveKeys
<1>5. \A k \in stable : Behind(k)' <=> Behind(k)
  <2>1. CASE key = NULL
    BY <1>0, <1>3, <1>4, <2>1, Unchanged DEF Behind
  <2>2. CASE key # NULL
    BY <1>0, <2>2, Unchanged DEF Behind
  <2> QED BY <2>1, <2>2
<1>6. \A k \in stable : Visited(k)' <=> Visited(k)
  BY <1>0 DEF Visited
<1>7. at' \in 0..Len(list) /\ (rpc' = "call" => at' < Len(list)) /\ rpc' \in {"walk", "call"}
  BY <1>0, <1>1, <1>2
<1> HIDE DEF key
<1>8. WalkRight'
  BY <1>0, <1>1, <1>5, <1>6, <1>7, Unchanged DEF WalkRight
<1>9. rpc' \notin {"idle", "key", "value", "tell"}
  BY <1>7
<1> QED BY <1>0, <1>8, <1>9, ReaderGoesOn DEF ProbeRight

LEMMA VisitKeeps ==
  ASSUME SharedInv, Visit
  PROVE  ReaderOK' /\ ProbeRight' /\ WalkRight'
<1> DEFINE key == buckets[list[at + 1]].key
<1>0. /\ rpc = "call" /\ at' = at + 1 /\ rpc' = "walk" /\ visited' = Append(visited, key)
      /\ wanted' = wanted /\ stable' = stable /\ had' = had /\ hidden' = hidden
      /\ UNCHANGED mapVars /\ UNCHANGED <<wanted, historyVars>>
  BY DEF Visit, historyVars
<1>1. /\ Inv /\ pc # "rehash" /\ stable \subseteq LiveKeys
      /\ at \in 0..Len(list) /\ at < Len(list) /\ visited \in Seq(Key \cup {NULL})
      /\ \A k \in stable : Visited(k) <=> Behind(k)
      /\ \A a, b \in DOMAIN visited :
            a < b /\ visited[a] \in stable /\ visited[b] \in stable
               => <<visited[a], visited[b]>> \in before
  BY <1>0 DEF SharedInv, ReaderOK, WalkRight
<1>2. /\ Len(list) \in Nat /\ buckets \in [Index -> BucketType]
      /\ \A a \in 1..Len(list) : list[a] \in Index
      /\ Entries = [a \in 1..Len(list) |-> buckets[list[a]]]
  BY <1>1, Facts
<1>3. at \in Nat /\ at + 1 \in 1..Len(list) /\ 1..at' = (1..at) \cup {at + 1}
  BY <1>0, <1>1, <1>2
<1>4. key \in Key \cup {NULL}
  BY <1>2, <1>3 DEF BucketType
<1> HIDE DEF key
<1>5. \A k \in stable : k # NULL
  BY <1>1 DEF LiveKeys
<1>6. \A k \in stable : Behind(k)' <=> Behind(k) \/ k = key
  BY <1>0, <1>3, Unchanged DEF Behind, key
<1> DEFINE n == Len(visited)
<1>7. /\ visited' \in Seq(Key \cup {NULL})
      /\ n \in Nat /\ DOMAIN visited = 1..n /\ DOMAIN visited' = 1..(n + 1)
      /\ visited'[n + 1] = key /\ \A a \in 1..n : visited'[a] = visited[a]
  BY <1>0, <1>1, <1>4, AppendProperties
<1> HIDE DEF n
<1>8. 1..(n + 1) = (1..n) \cup {n + 1}
  BY <1>7
<1>9. \A k \in stable : Visited(k)' <=> Visited(k) \/ k = key
  BY <1>7, <1>8 DEF Visited
<1>10. ASSUME NEW a \in DOMAIN visited', NEW b \in DOMAIN visited', a < b,
             visited'[a] \in stable, visited'[b] \in stable
      PROVE  <<visited'[a], visited'[b]>> \in before
  <2>1. a \in 1..n /\ visited'[a] = visited[a]
    BY <1>7, <1>10
  <2>2. CASE b \in 1..n
    BY <1>1, <1>7, <1>10, <2>1, <2>2
  <2>3. CASE b = n + 1
    <3>1. visited'[b] = key
      BY <1>7, <2>3
    <3>2. Behind(visited[a])
      BY <1>1, <1>7, <1>10, <2>1 DEF Visited
    <3>3. PICK x \in 1..at : buckets[list[x]].key = visited[a]
      BY <3>2 DEF Behind
    <3>4. /\ x \in DOMAIN Entries /\ at + 1 \in DOMAIN Entries /\ x < at + 1
          /\ Entries[x].key = visited[a] /\ Entries[at + 1].key = key
      BY <1>0, <1>2, <1>3, <3>3 DEF key
    <3>5. visited[a] \in LiveKeys /\ key \in LiveKeys
      BY <1>1, <1>10, <2>1, <3>1
    <3> QED BY <2>1, <3>1, <3>4, <3>5 DEF before
  <2> QED BY <1>7, <1>8, <1>10, <2>2, <2>3
<1>11. \A k \in stable : Visited(k)' <=> Behind(k)'
  BY <1>1, <1>6, <1>9
<1>12. WalkRight'
  BY <1>0, <1>3, <1>7, <1>10, <1>11, Unchanged DEF WalkRight
<1> QED BY <1>0, <1>12, ReaderGoesOn DEF ProbeRight

LEMMA ReadEnds ==
  ASSUME ReadOver
  PROVE  ReaderOK' /\ ProbeRight' /\ WalkRight'
  BY DEF ReadOver, ReaderOK, ProbeRight, WalkRight

LEMMA SharedStutter ==
  ASSUME SharedInv, UNCHANGED sharedVars
  PROVE  ReaderOK' /\ ProbeRight' /\ WalkRight'
<1>0. /\ rpc' = rpc /\ wanted' = wanted /\ at' = at /\ loaded' = loaded /\ visited' = visited
      /\ stable' = stable /\ had' = had /\ hidden' = hidden /\ UNCHANGED mapVars
  BY DEF sharedVars, readVars, historyVars
<1>1. ValuesOf(wanted)' = ValuesOf(wanted)
  BY <1>0, Unchanged DEF ValuesOf
<1>2. ReaderOK'
  BY <1>0, <1>1, Unchanged DEF SharedInv, ReaderOK
<1>3. \A i : Reaches(i)' <=> Reaches(i)
  BY <1>0, Unchanged DEF Reaches
<1>4. ProbeRight'
  BY <1>0, <1>3, Unchanged DEF SharedInv, ProbeRight
<1>5. \A k : (Visited(k)' <=> Visited(k)) /\ (Behind(k)' <=> Behind(k))
  BY <1>0, Unchanged DEF Visited, Behind
<1>6. WalkRight'
  BY <1>0, <1>5, Unchanged DEF SharedInv, WalkRight
<1> QED BY <1>2, <1>4, <1>6

LEMMA SharedNextInv == SharedInv /\ [SharedNext]_sharedVars => SharedInv'
<1> SUFFICES ASSUME SharedInv, [SharedNext]_sharedVars PROVE SharedInv'
  OBVIOUS
<1>1. [Next]_mapVars
  BY MapStep
<1>2. Inv' /\ [D!Next]_<<dict, before, out>>
  BY <1>1, NextInv DEF SharedInv
<1>3. ReaderOK' /\ ProbeRight' /\ WalkRight'
  <2>1. CASE Writes
    BY <1>2, <2>1, WriterKeeps
  <2>2. CASE \E k \in Key : StartGet(k)
    BY <2>2, GetStarts
  <2>3. CASE LoadKey
    BY <2>3, LoadKeyKeeps
  <2>4. CASE LoadValue
    BY <2>4, LoadValueKeeps
  <2>5. CASE Tell \/ VisitedAll
    BY <2>5, ReadEnds DEF Tell, VisitedAll
  <2>6. CASE StartIterate
    BY <2>6, IterateStarts
  <2>7. CASE CheckEntry
    BY <2>7, CheckEntryKeeps
  <2>9. CASE Visit
    BY <2>9, VisitKeeps
  <2>8. CASE UNCHANGED sharedVars
    BY <2>8, SharedStutter
  <2> QED BY <2>1, <2>2, <2>3, <2>4, <2>5, <2>6, <2>7, <2>8, <2>9 DEF SharedNext, Reads
<1> QED BY <1>2, <1>3 DEF SharedInv

LEMMA SharedInitInv == SharedInit => SharedInv
  BY InitInv DEF SharedInit, SharedInv, ReaderOK, ProbeRight, WalkRight

(* No two keys are before each other, nor one before itself. *)
LEMMA BeforeStrict ==
  ASSUME Inv, pc # "rehash", NEW k, NEW l, <<k, l>> \in before, <<l, k>> \in before
  PROVE  FALSE
<1>1. PICK a, b \in DOMAIN Entries : a < b /\ Entries[a].key = k /\ Entries[b].key = l
  BY DEF before
<1>2. PICK c, d \in DOMAIN Entries : c < d /\ Entries[c].key = l /\ Entries[d].key = k
  BY DEF before
<1>3. k # NULL /\ l # NULL
  BY DEF before, LiveKeys
<1>4. a = d /\ b = c
  BY <1>1, <1>2, <1>3 DEF Inv, NoDup
<1>5. DOMAIN Entries = 1..Len(list) /\ Len(list) \in Nat
  BY Facts
<1> QED BY <1>1, <1>2, <1>4, <1>5

-----------------------------------------------------------------------------
(* The theorems.                                                           *)

THEOREM SharedInvariance == SharedSpec => []SharedInv
<1> QED BY SharedInitInv, SharedNextInv, PTL DEF SharedSpec

(* Whatever a reader does meanwhile, the table with its one writer is the  *)
(* dictionary of map.h.                                                    *)
THEOREM SharedImplemented == SharedSpec => ImplementsDictionary
<1>1. SharedInit => Init
  BY DEF SharedInit
<1>2. SharedSpec => Spec
  BY <1>1, MapStep, PTL DEF SharedSpec, Spec
<1> QED BY <1>2, DictionaryImplemented, PTL

(* hashmap_get beside the stores of hashmap_set and hashmap_remove finds   *)
(* every key that stays, with a value it had, unless a removal made a      *)
(* bucket look free meanwhile.                                             *)
THEOREM LookupsRight == SharedSpec => []LookupRight
<1>1. SharedInv => LookupRight
  <2> SUFFICES ASSUME SharedInv, rpc = "tell", wanted \in stable, ~hidden
               PROVE  Told.found /\ Told.value \in had
    BY DEF LookupRight
  <2>1. PICK i \in Held : Reaches(i)
    BY DEF SharedInv, ProbeRight
  <2>2. buckets[at].key = wanted /\ buckets[at].value \in had
    BY <2>1 DEF Reaches
  <2>3. wanted # NULL
    BY HashAssumption DEF SharedInv, ProbeRight
  <2>4. Told.value = buckets[at].value
    BY DEF Told
  <2>5. Told.found <=> buckets[at].key # NULL
    BY DEF Told
  <2> QED BY <2>2, <2>3, <2>4, <2>5
<1> QED BY <1>1, SharedInvariance, PTL

(* hashmap_iterate beside the same stores calls back for every key that    *)
(* stays, once and in order.                                               *)
THEOREM IterationsRight == SharedSpec => []IterationRight
<1>1. SharedInv => IterationRight
  <2> SUFFICES ASSUME SharedInv, rpc = "walk", at = Len(list), NEW k \in stable
               PROVE  \E a \in DOMAIN visited :
                         /\ visited[a] = k
                         /\ \A b \in DOMAIN visited \ {a} :
                               /\ visited[b] # k
                               /\ <<visited[b], k>> \in before /\ visited[b] \in stable => b < a
    BY DEF IterationRight
  <2>1. /\ Inv /\ pc # "rehash" /\ k \in LiveKeys /\ visited \in Seq(Key \cup {NULL})
        /\ Visited(k) <=> Behind(k)
        /\ \A a, b \in DOMAIN visited :
              a < b /\ visited[a] \in stable /\ visited[b] \in stable
                 => <<visited[a], visited[b]>> \in before
    BY DEF SharedInv, ReaderOK, WalkRight
  <2>2. PICK i \in Held : buckets[i].key = k
    BY <2>1, Live
  <2>3. PICK x \in 1..Len(list) : list[x] = i
    BY <2>1, Facts
  <2>4. Behind(k)
    BY <2>2, <2>3 DEF Behind
  <2>5. PICK a \in DOMAIN visited : visited[a] = k
    BY <2>1, <2>4 DEF Visited
  <2>6. DOMAIN visited \subseteq Nat
    BY <2>1
  <2>7. ASSUME NEW b \in DOMAIN visited \ {a}, visited[b] \in stable
        PROVE  (a < b /\ <<k, visited[b]>> \in before) \/ (b < a /\ <<visited[b], k>> \in before)
    <3>1. a < b \/ b < a
      BY <2>6
    <3> QED BY <2>1, <2>5, <2>7, <3>1
  <2>8. ASSUME NEW b \in DOMAIN visited \ {a}
        PROVE  /\ visited[b] # k
               /\ <<visited[b], k>> \in before /\ visited[b] \in stable => b < a
    <3>1. visited[b] # k
      BY <2>1, <2>7, BeforeStrict
    <3>2. <<visited[b], k>> \in before /\ visited[b] \in stable => b < a
      BY <2>1, <2>7, BeforeStrict
    <3> QED BY <3>1, <3>2
  <2> QED BY <2>5, <2>8
<1> QED BY <1>1, SharedInvariance, PTL

=============================================================================
