--------------------------- MODULE HashMap_proofs ---------------------------
(***************************************************************************)
(* The inductive invariant of HashMap, for all keys, values, hash          *)
(* functions and capacities, and the theorems that rest on it.             *)
(***************************************************************************)
EXTENDS HashMap, FiniteSetTheorems, SequenceTheorems, WellFoundedInduction, TLAPS

(* The parts of the inductive invariant.                                   *)

Held == {list[a] : a \in DOMAIN list}
LiveBucket == [key : Key, value : Value \cup {0}]
Tombstone == [key |-> NULL, value |-> DEAD]
Settled == LiveBucket \cup {Tombstone}
CallType == [op : {"set", "get_set"}, key : Key, value : Value]

(* A bucket is in the list once, and free if it is not; there is no        *)
(* tombstone in a new array.                                               *)
BucketsOK ==
    /\ \A a, b \in DOMAIN list : list[a] = list[b] => a = b
    /\ \A i \in Index \ Held : buckets[i] = Free
    /\ \A i \in Held :
          \/ buckets[i] \in LiveBucket
          \/ buckets[i] = Tombstone /\ pc # "rehash"
          \/ pc = "bury" /\ i = entry

(* No key is there twice. *)
NoDup(E) == \A a, b \in DOMAIN E : E[a].key = E[b].key /\ E[a].key # NULL => a = b

(* From the home of a key to the key there is no free bucket. *)
ProbeOK ==
    \A i, j \in Index :
        /\ buckets[i].key # NULL
        /\ Steps(Home(buckets[i].key), j) < Steps(Home(buckets[i].key), i)
        => j \in Held

PhaseOK ==
    /\ pc \in {"resize", "rehash", "find", "store"} => call \in CallType
    /\ pc \in {"idle", "bury"} => call = NoCall
    /\ pc = "store" => entry \in Held /\ buckets[entry].key = call.key
    /\ pc = "bury" => entry \in Held /\ buckets[entry].key = NULL
    /\ old_list \in Seq(Nat)
    /\ pc = "rehash" =>
          /\ old_list # << >>
          /\ \A x \in DOMAIN old_list : old_buckets[old_list[x]] \in Settled
    /\ pc # "rehash" => old_list = << >> /\ cursor = 0

(* Three quarters of the buckets at most are in the list. *)
LoadOK ==
    /\ capacity >= 2
    /\ 4 * Len(list) <= 3 * capacity
    /\ pc = "resize" => 4 * (Len(list) + 1) > 3 * capacity
    /\ pc = "find" => 4 * (Len(list) + 1) <= 3 * capacity
    /\ pc = "rehash" => Len(list) <= cursor /\ 8 * Len(old_list) <= 3 * capacity

Dead == {a \in DOMAIN list : buckets[list[a]].key = NULL}
Pending == {x \in (cursor + 1)..Len(old_list) : old_buckets[old_list[x]].key # NULL}

CountOK ==
    /\ pc # "rehash" =>
          /\ count = Len(list)
          /\ Cardinality(Dead) = tombstone_count + (IF pc = "bury" THEN 1 ELSE 0)
    /\ pc = "rehash" =>
          /\ count = Len(list) + Cardinality(Pending)
          /\ tombstone_count = 0

Inv ==
    /\ TypeOK /\ BucketsOK /\ NoDup(Entries) /\ ProbeOK /\ PhaseOK /\ LoadOK /\ CountOK

-----------------------------------------------------------------------------
(* Probing.                                                                *)

LEMMA HomeType == ASSUME capacity \in Nat \ {0}, NEW k \in Key PROVE Home(k) \in Index
<1>1. hash[k] \in Nat
  BY HashAssumption
<1>2. \A m \in Nat, n \in Nat \ {0} : m % n \in 0..(n - 1)
  BY Z3
<1> QED BY <1>1, <1>2 DEF Home, Index

LEMMA StepsType ==
  ASSUME capacity \in Nat \ {0}, NEW h \in Index, NEW i \in Index
  PROVE  /\ Steps(h, i) \in Nat
         /\ \A j \in Index : Steps(h, i) = Steps(h, j) => i = j
  BY DEF Steps, Index

LEMMA FirstFromIs ==
  ASSUME capacity \in Nat \ {0}, NEW k \in Key, NEW S, S \subseteq Index, S # {}
  PROVE  /\ FirstFrom(k, S) \in S
         /\ \A j \in S : Steps(Home(k), FirstFrom(k, S)) <= Steps(Home(k), j)
<1> DEFINE T == {Steps(Home(k), i) : i \in S}
<1>0. \A i \in S : Steps(Home(k), i) \in Nat
  BY HomeType, StepsType
<1>1. T \subseteq Nat /\ T # {}
  BY <1>0
<1>2. PICK x \in T : \A y \in T : ~(<<y, x>> \in OpToRel(<, Nat))
  <2> HIDE DEF T
  <2> QED BY <1>1, NatLessThanWellFounded, WFMin, Zenon
<1>3. \A y \in T : ~(y < x)
  BY <1>1, <1>2, Zenon DEF OpToRel
<1>4. PICK i \in S : x = Steps(Home(k), i)
  OBVIOUS
<1>5. \A j \in S : Steps(Home(k), i) <= Steps(Home(k), j)
  <2> TAKE j \in S
  <2>1. Steps(Home(k), j) \in T
    OBVIOUS
  <2>2. ~(Steps(Home(k), j) < Steps(Home(k), i))
    BY <1>3, <1>4, <2>1
  <2> QED BY <1>0, <2>2
<1> QED BY <1>5 DEF FirstFrom

LEMMA UpTo == \A n \in Nat : IsFiniteSet(1..n) /\ Cardinality(1..n) = n
<1> SUFFICES ASSUME NEW n \in Nat PROVE IsFiniteSet(1..n) /\ Cardinality(1..n) = n
  OBVIOUS
<1>1. 1 \in Int /\ n \in Int
  OBVIOUS
<1>2. IsFiniteSet(1..n) /\ Cardinality(1..n) = IF 1 > n THEN 0 ELSE n - 1 + 1
  BY <1>1, FS_Interval, Zenon
<1> QED BY <1>2

LEMMA ImageGrows ==
  ASSUME NEW f, NEW g, NEW d, DOMAIN g = DOMAIN f \cup {d}, \A a \in DOMAIN f : g[a] = f[a]
  PROVE  {g[a] : a \in DOMAIN g} = {f[a] : a \in DOMAIN f} \cup {g[d]}
  OBVIOUS

(* A list that is shorter than the array leaves a bucket out.              *)
LEMMA FreeIndex ==
  ASSUME capacity \in Nat \ {0}, list \in Seq(Index), Len(list) < capacity
  PROVE  \E i \in Index : i \notin Held
<1> SUFFICES ASSUME Index \subseteq Held PROVE FALSE
  OBVIOUS
<1>1. Len(list) \in Nat /\ DOMAIN list = 1..Len(list)
  OBVIOUS
<1>2. IsFiniteSet(1..Len(list)) /\ Cardinality(1..Len(list)) = Len(list)
  BY <1>1, UpTo
<1>3. list \in Surjection(1..Len(list), Held)
  BY <1>1 DEF Held, Surjection
<1>4. IsFiniteSet(Held) /\ Cardinality(Held) <= Len(list)
  BY <1>2, <1>3, FS_Surjection
<1>5. Cardinality(Index) = capacity
  BY FS_Interval DEF Index
<1>6. Cardinality(Index) <= Cardinality(Held)
  BY <1>4, FS_Subset
<1>7. Cardinality(Held) \in Nat
  BY <1>4, FS_CardinalityType
<1> QED BY <1>1, <1>4, <1>5, <1>6, <1>7

(* find_entry returns the bucket of the key, or the first free one from    *)
(* its home on if the key is not there.                                    *)
LEMMA FindEntry ==
  ASSUME Inv, pc \in {"idle", "find"}, NEW k \in Key
  PROVE  /\ find_entry(k) \in Index
         /\ find_entry(k) \in Held =>
               buckets[find_entry(k)].key = k /\ buckets[find_entry(k)] \in LiveBucket
         /\ find_entry(k) \notin Held =>
               /\ buckets[find_entry(k)] = Free
               /\ \A j \in Index : Steps(Home(k), j) < Steps(Home(k), find_entry(k)) => j \in Held
               /\ \A j \in Held : buckets[j].key # k
<1> DEFINE i == find_entry(k)
<1>0. /\ capacity \in Nat \ {0} /\ list \in Seq(Index) /\ Len(list) < capacity
      /\ Held \subseteq Index
  <2>1. capacity \in Nat \ {0} /\ list \in Seq(Index) /\ 4 * Len(list) <= 3 * capacity
    BY DEF Inv, TypeOK, LoadOK
  <2> QED BY <2>1 DEF Held
<1>1. Stops(k) \subseteq Index /\ Stops(k) # {}
  <2>1. PICK j \in Index : j \notin Held
    BY <1>0, FreeIndex
  <2>2. j \in Stops(k)
    BY <2>1 DEF Inv, BucketsOK, Stops
  <2> QED BY <2>2 DEF Stops
<1>2. i \in Stops(k) /\ \A j \in Stops(k) : Steps(Home(k), i) <= Steps(Home(k), j)
  BY <1>0, <1>1, FirstFromIs DEF find_entry
<1>3. i \in Index
  BY <1>1, <1>2
<1> HIDE DEF i
<1>4. \A j \in Held : buckets[j] \in LiveBucket \/ buckets[j] = Tombstone
  BY DEF Inv, BucketsOK
<1>5. ASSUME NEW j \in Held, j \in Stops(k)
      PROVE  buckets[j].key = k /\ buckets[j] \in LiveBucket
  <2>1. CASE buckets[j] = Tombstone
    BY <1>5, <2>1, HashAssumption DEF Stops, Tombstone, Free, DEAD
  <2>2. CASE buckets[j] \in LiveBucket
    BY <1>5, <2>2, HashAssumption DEF Stops, LiveBucket, Free
  <2> QED BY <1>4, <2>1, <2>2
<1>6. ASSUME i \notin Held
      PROVE  /\ buckets[i] = Free
             /\ \A j \in Index : Steps(Home(k), j) < Steps(Home(k), i) => j \in Held
             /\ \A j \in Held : buckets[j].key # k
  <2>0. \A j \in Index : Steps(Home(k), j) \in Nat
    BY <1>0, HomeType, StepsType
  <2>1. \A j \in Index : j \notin Held => buckets[j] = Free
    BY DEF Inv, BucketsOK
  <2>2. ASSUME NEW j \in Index, Steps(Home(k), j) < Steps(Home(k), i) PROVE j \in Held
    <3>1. j \notin Stops(k)
      BY <1>2, <1>3, <2>0, <2>2
    <3> QED BY <2>1, <3>1 DEF Stops
  <2>3. ASSUME NEW j \in Held, buckets[j].key = k PROVE FALSE
    <3>1. j \in Index /\ j \in Stops(k)
      BY <1>0, <2>3 DEF Stops
    <3>2. Steps(Home(k), i) # Steps(Home(k), j)
      BY <1>0, <1>3, <1>6, <2>3, <3>1, HomeType, StepsType
    <3>3. Steps(Home(k), i) < Steps(Home(k), j)
      BY <1>2, <1>3, <2>0, <3>1, <3>2
    <3> QED BY <1>3, <1>6, <2>3, <3>1, <3>3, HashAssumption DEF Inv, ProbeOK
  <2> QED BY <1>3, <1>6, <2>1, <2>2, <2>3
<1> QED BY <1>2, <1>3, <1>5, <1>6 DEF i

(* resize_entry: the first bucket of the new array that nothing is in.     *)
LEMMA ResizeEntry ==
  ASSUME Inv, pc = "rehash", cursor < Len(old_list), NEW k \in Key
  PROVE  LET i == FirstFrom(k, {j \in Index : buckets[j].key = NULL})
         IN  /\ i \in Index /\ i \notin Held
             /\ \A j \in Index : Steps(Home(k), j) < Steps(Home(k), i) => j \in Held
<1> DEFINE S == {j \in Index : buckets[j].key = NULL}
           i == FirstFrom(k, S)
<1>0. /\ capacity \in Nat \ {0} /\ list \in Seq(Index) /\ Len(list) < capacity
  <2>1. capacity \in Nat \ {0} /\ list \in Seq(Index) /\ 4 * Len(list) <= 3 * capacity
    BY DEF Inv, TypeOK, LoadOK
  <2> QED BY <2>1
<1>1. \A j \in Index : j \notin Held => j \in S
  BY DEF Inv, BucketsOK, Free
<1>2. \A j \in S : j \notin Held
  BY HashAssumption DEF Inv, BucketsOK, LiveBucket
<1>3. S \subseteq Index /\ S # {}
  BY <1>0, <1>1, FreeIndex
<1>4. i \in S /\ \A j \in S : Steps(Home(k), i) <= Steps(Home(k), j)
  BY <1>0, <1>3, FirstFromIs
<1>5. \A j \in Index : Steps(Home(k), j) \in Nat
  BY <1>0, HomeType, StepsType
<1> HIDE DEF i, S
<1>6. \A j \in Index : Steps(Home(k), j) < Steps(Home(k), i) => j \in Held
  BY <1>1, <1>3, <1>4, <1>5
<1>7. i \in Index /\ i \notin Held
  BY <1>2, <1>3, <1>4
<1> QED BY <1>6, <1>7 DEF i, S

-----------------------------------------------------------------------------
(* What sequences of entries stand for: their keys, the entry of a key and *)
(* the order of the keys.                                                  *)

KeysIn(E) == {E[a].key : a \in DOMAIN E} \ {NULL}
At(E, k) == E[CHOOSE a \in DOMAIN E : E[a].key = k]
Order(E) == {pair \in KeysIn(E) \X KeysIn(E) :
                \E a, b \in DOMAIN E : a < b /\ E[a].key = pair[1] /\ E[b].key = pair[2]}

LEMMA AtIs ==
  ASSUME NEW E, NoDup(E), NEW a \in DOMAIN E, E[a].key # NULL
  PROVE  At(E, E[a].key) = E[a] /\ E[a].key \in KeysIn(E)
<1> DEFINE c == CHOOSE b \in DOMAIN E : E[b].key = E[a].key
<1>1. c \in DOMAIN E /\ E[c].key = E[a].key
  OBVIOUS
<1>2. c = a
  BY <1>1 DEF NoDup
<1> QED BY <1>2 DEF At, KeysIn

LEMMA KeyAt ==
  ASSUME NEW E, NoDup(E), NEW k \in KeysIn(E)
  PROVE  \E a \in DOMAIN E : E[a].key = k /\ k # NULL /\ At(E, k) = E[a]
<1>1. PICK a \in DOMAIN E : E[a].key = k /\ k # NULL
  BY DEF KeysIn
<1> QED BY <1>1, AtIs

(* Other values under the same keys. *)
LEMMA SameKeys ==
  ASSUME NEW E, NEW F, NoDup(E), DOMAIN F = DOMAIN E,
         \A a \in DOMAIN E : F[a].key = E[a].key
  PROVE  /\ NoDup(F) /\ KeysIn(F) = KeysIn(E) /\ Order(F) = Order(E)
         /\ \A k \in KeysIn(E) : \E a \in DOMAIN E :
               E[a].key = k /\ At(E, k) = E[a] /\ At(F, k) = F[a]
<1>1. NoDup(F)
  BY DEF NoDup
<1>2. KeysIn(F) = KeysIn(E)
  BY DEF KeysIn
<1>3. Order(F) = Order(E)
  BY <1>2 DEF Order
<1>4. ASSUME NEW k \in KeysIn(E)
      PROVE  \E a \in DOMAIN E : E[a].key = k /\ At(E, k) = E[a] /\ At(F, k) = F[a]
  <2>1. PICK a \in DOMAIN E : E[a].key = k /\ k # NULL /\ At(E, k) = E[a]
    BY KeyAt
  <2>2. At(F, k) = F[a]
    BY <1>1, <2>1, AtIs
  <2> QED BY <2>1, <2>2
<1> QED BY <1>1, <1>2, <1>3, <1>4

(* One more key at the end. *)
LEMMA Appended ==
  ASSUME NEW E, NEW F, NEW n \in Nat, NoDup(E), DOMAIN E = 1..n, DOMAIN F = 1..(n + 1),
         \A a \in 1..n : F[a] = E[a],
         NEW k, F[n + 1].key = k, k # NULL, k \notin KeysIn(E)
  PROVE  /\ NoDup(F)
         /\ KeysIn(F) = KeysIn(E) \cup {k}
         /\ Order(F) = Order(E) \cup {<<x, k>> : x \in KeysIn(E)}
         /\ At(F, k) = F[n + 1]
         /\ \A x \in KeysIn(E) : At(F, x) = At(E, x)
<1>0. \A a \in DOMAIN E : E[a].key # k
  BY DEF KeysIn
<1>1. NoDup(F)
  <2> SUFFICES ASSUME NEW a \in DOMAIN F, NEW b \in DOMAIN F, F[a].key = F[b].key, F[a].key # NULL
               PROVE  a = b
    BY DEF NoDup
  <2>1. (a \in 1..n \/ a = n + 1) /\ (b \in 1..n \/ b = n + 1)
    OBVIOUS
  <2> QED BY <1>0, <2>1 DEF NoDup
<1>2. KeysIn(F) = KeysIn(E) \cup {k}
  <2>1. DOMAIN F = DOMAIN E \cup {n + 1}
    OBVIOUS
  <2> QED BY <2>1 DEF KeysIn
<1>3. At(F, k) = F[n + 1]
  <2>1. n + 1 \in DOMAIN F
    OBVIOUS
  <2> QED BY <1>1, <2>1, AtIs
<1>4. \A x \in KeysIn(E) : At(F, x) = At(E, x)
  <2> TAKE x \in KeysIn(E)
  <2>1. PICK a \in DOMAIN E : E[a].key = x /\ x # NULL /\ At(E, x) = E[a]
    BY KeyAt
  <2>2. a \in DOMAIN F /\ F[a] = E[a]
    BY <2>1
  <2> QED BY <1>1, <2>1, <2>2, AtIs
<1>5. ASSUME NEW x, NEW y
      PROVE  <<x, y>> \in Order(F) <=> <<x, y>> \in Order(E) \/ (y = k /\ x \in KeysIn(E))
  <2>1. ASSUME <<x, y>> \in Order(F)
        PROVE  <<x, y>> \in Order(E) \/ (y = k /\ x \in KeysIn(E))
    <3>1. PICK a, b \in DOMAIN F : a < b /\ F[a].key = x /\ F[b].key = y
      BY <2>1 DEF Order
    <3>2. x \in KeysIn(F) /\ y \in KeysIn(F)
      BY <2>1 DEF Order
    <3>3. a \in 1..n /\ (b \in 1..n \/ b = n + 1)
      BY <3>1
    <3>4. x \in KeysIn(E)
      BY <3>1, <3>2, <3>3 DEF KeysIn
    <3>5. CASE b = n + 1
      BY <3>1, <3>4, <3>5
    <3>6. CASE b \in 1..n
      BY <3>1, <3>2, <3>3, <3>4, <3>6 DEF Order, KeysIn
    <3> QED BY <3>3, <3>5, <3>6
  <2>2. ASSUME <<x, y>> \in Order(E) PROVE <<x, y>> \in Order(F)
    <3>1. PICK a, b \in DOMAIN E : a < b /\ E[a].key = x /\ E[b].key = y
      BY <2>2 DEF Order
    <3>2. x \in KeysIn(F) /\ y \in KeysIn(F)
      BY <1>2, <2>2 DEF Order
    <3>3. a \in DOMAIN F /\ b \in DOMAIN F /\ F[a].key = x /\ F[b].key = y
      BY <3>1
    <3> QED BY <3>1, <3>2, <3>3 DEF Order
  <2>3. ASSUME y = k, x \in KeysIn(E) PROVE <<x, y>> \in Order(F)
    <3>1. PICK a \in DOMAIN E : E[a].key = x
      BY <2>3 DEF KeysIn
    <3>2. x \in KeysIn(F) /\ y \in KeysIn(F)
      BY <1>2, <2>3
    <3>3. /\ a \in DOMAIN F /\ n + 1 \in DOMAIN F /\ a < n + 1
          /\ F[a].key = x /\ F[n + 1].key = y
      BY <2>3, <3>1
    <3> QED BY <3>2, <3>3 DEF Order
  <2> QED BY <2>1, <2>2, <2>3
<1>6. Order(F) = Order(E) \cup {<<x, k>> : x \in KeysIn(E)}
  <2>1. \A p \in Order(F) : p \in Order(E) \cup {<<x, k>> : x \in KeysIn(E)}
    <3> TAKE p \in Order(F)
    <3>1. PICK x, y : p = <<x, y>>
      BY DEF Order
    <3> QED BY <1>5, <3>1
  <2>2. \A p \in Order(E) : p \in Order(F)
    <3> TAKE p \in Order(E)
    <3>1. PICK x, y : p = <<x, y>>
      BY DEF Order
    <3> QED BY <1>5, <3>1
  <2>3. \A x \in KeysIn(E) : <<x, k>> \in Order(F)
    BY <1>5
  <2> QED BY <2>1, <2>2, <2>3
<1> QED BY <1>1, <1>2, <1>3, <1>4, <1>6

(* The key at one position goes. *)
LEMMA Removed ==
  ASSUME NEW E, NEW F, NoDup(E), DOMAIN F = DOMAIN E, NEW c \in DOMAIN E, E[c].key # NULL,
         F[c].key = NULL, \A a \in DOMAIN E \ {c} : F[a] = E[a]
  PROVE  /\ NoDup(F)
         /\ KeysIn(F) = KeysIn(E) \ {E[c].key}
         /\ Order(F) = {pair \in Order(E) : E[c].key \notin {pair[1], pair[2]}}
         /\ \A x \in KeysIn(F) : At(F, x) = At(E, x)
<1> DEFINE k == E[c].key
<1>1. NoDup(F)
  <2> SUFFICES ASSUME NEW a \in DOMAIN F, NEW b \in DOMAIN F, F[a].key = F[b].key, F[a].key # NULL
               PROVE  a = b
    BY DEF NoDup
  <2>1. a # c /\ b # c
    OBVIOUS
  <2>2. F[a] = E[a] /\ F[b] = E[b]
    BY <2>1
  <2> QED BY <2>2 DEF NoDup
<1>2. \A a \in DOMAIN E : E[a].key = k => a = c
  BY DEF NoDup
<1>3. \A a \in DOMAIN F : F[a].key # NULL => a # c /\ F[a] = E[a] /\ F[a].key # k
  BY <1>2
<1>4. \A a \in DOMAIN E : E[a].key # k => F[a] = E[a]
  OBVIOUS
<1> HIDE DEF k
<1>5. KeysIn(F) = KeysIn(E) \ {k}
  BY <1>3, <1>4 DEF KeysIn
<1>6. \A x \in KeysIn(F) : At(F, x) = At(E, x)
  <2> TAKE x \in KeysIn(F)
  <2>1. PICK a \in DOMAIN F : F[a].key = x /\ x # NULL /\ At(F, x) = F[a]
    BY <1>1, KeyAt
  <2>2. E[a].key = x /\ F[a] = E[a]
    BY <1>3, <2>1
  <2> QED BY <2>1, <2>2, AtIs
<1>7. ASSUME NEW x, NEW y
      PROVE  <<x, y>> \in Order(F) <=> <<x, y>> \in Order(E) /\ x # k /\ y # k
  <2>1. ASSUME <<x, y>> \in Order(F) PROVE <<x, y>> \in Order(E) /\ x # k /\ y # k
    <3>1. PICK a, b \in DOMAIN F : a < b /\ F[a].key = x /\ F[b].key = y
      BY <2>1 DEF Order
    <3>2. x \in KeysIn(F) /\ y \in KeysIn(F)
      BY <2>1 DEF Order
    <3>3. x # NULL /\ y # NULL /\ x \in KeysIn(E) /\ y \in KeysIn(E) /\ x # k /\ y # k
      BY <1>5, <3>2 DEF KeysIn
    <3>4. E[a].key = x /\ E[b].key = y
      BY <1>3, <3>1, <3>3
    <3> QED BY <3>1, <3>3, <3>4 DEF Order
  <2>2. ASSUME <<x, y>> \in Order(E), x # k, y # k PROVE <<x, y>> \in Order(F)
    <3>1. PICK a, b \in DOMAIN E : a < b /\ E[a].key = x /\ E[b].key = y
      BY <2>2 DEF Order
    <3>2. x \in KeysIn(F) /\ y \in KeysIn(F)
      BY <1>5, <2>2 DEF Order
    <3>3. F[a].key = x /\ F[b].key = y
      BY <1>4, <2>2, <3>1
    <3> QED BY <3>1, <3>2, <3>3 DEF Order
  <2> QED BY <2>1, <2>2
<1>8. Order(F) = {pair \in Order(E) : k \notin {pair[1], pair[2]}}
  <2>1. \A p \in Order(F) : p \in Order(E) /\ k \notin {p[1], p[2]}
    <3> TAKE p \in Order(F)
    <3>1. PICK x, y : p = <<x, y>>
      BY DEF Order
    <3> QED BY <1>7, <3>1
  <2>2. \A p \in Order(E) : k \notin {p[1], p[2]} => p \in Order(F)
    <3> TAKE p \in Order(E)
    <3>1. PICK x, y : p = <<x, y>>
      BY DEF Order
    <3> QED BY <1>7, <3>1
  <2> QED BY <2>1, <2>2
<1> QED BY <1>1, <1>5, <1>6, <1>8 DEF k

(* An entry without a key goes. *)
LEMMA Dropped ==
  ASSUME NEW E, NEW F, NEW n \in Nat, NoDup(E), DOMAIN E = 1..n, DOMAIN F = 1..(n - 1),
         NEW c \in 1..n, E[c].key = NULL,
         \A a \in 1..(n - 1) : F[a] = IF a < c THEN E[a] ELSE E[a + 1]
  PROVE  /\ NoDup(F) /\ KeysIn(F) = KeysIn(E) /\ Order(F) = Order(E)
         /\ \A x \in KeysIn(E) : At(F, x) = At(E, x)
<1> DEFINE up(a) == IF a < c THEN a ELSE a + 1
           down(a) == IF a < c THEN a ELSE a - 1
<1>1. /\ \A a \in DOMAIN F : up(a) \in DOMAIN E /\ F[a] = E[up(a)]
      /\ \A a, b \in DOMAIN F : (up(a) = up(b) => a = b) /\ (a < b => up(a) < up(b))
  OBVIOUS
<1>2. /\ \A a \in DOMAIN E \ {c} : down(a) \in DOMAIN F /\ F[down(a)] = E[a]
      /\ \A a, b \in DOMAIN E \ {c} : a < b => down(a) < down(b)
  OBVIOUS
<1> HIDE DEF up, down
<1>3. NoDup(F)
  BY <1>1 DEF NoDup
<1>4. KeysIn(F) = KeysIn(E)
  <2>1. \A x \in KeysIn(F) : x \in KeysIn(E)
    BY <1>1 DEF KeysIn
  <2>2. \A x \in KeysIn(E) : x \in KeysIn(F)
    BY <1>2 DEF KeysIn
  <2> QED BY <2>1, <2>2
<1>5. \A x \in KeysIn(E) : At(F, x) = At(E, x)
  <2> TAKE x \in KeysIn(E)
  <2>1. PICK a \in DOMAIN E : E[a].key = x /\ x # NULL /\ At(E, x) = E[a]
    BY KeyAt
  <2>2. down(a) \in DOMAIN F /\ F[down(a)] = E[a]
    BY <1>2, <2>1
  <2> QED BY <1>3, <2>1, <2>2, AtIs
<1>6. ASSUME NEW x, NEW y PROVE <<x, y>> \in Order(F) <=> <<x, y>> \in Order(E)
  <2>1. ASSUME <<x, y>> \in Order(F) PROVE <<x, y>> \in Order(E)
    <3>1. PICK a, b \in DOMAIN F : a < b /\ F[a].key = x /\ F[b].key = y
      BY <2>1 DEF Order
    <3>2. x \in KeysIn(E) /\ y \in KeysIn(E)
      BY <1>4, <2>1 DEF Order
    <3>3. /\ up(a) \in DOMAIN E /\ up(b) \in DOMAIN E /\ up(a) < up(b)
          /\ E[up(a)].key = x /\ E[up(b)].key = y
      BY <1>1, <3>1
    <3> QED BY <3>2, <3>3 DEF Order
  <2>2. ASSUME <<x, y>> \in Order(E) PROVE <<x, y>> \in Order(F)
    <3>1. PICK a, b \in DOMAIN E : a < b /\ E[a].key = x /\ E[b].key = y
      BY <2>2 DEF Order
    <3>2. x \in KeysIn(F) /\ y \in KeysIn(F) /\ x # NULL /\ y # NULL
      BY <1>4, <2>2 DEF Order, KeysIn
    <3>3. a # c /\ b # c
      BY <3>1, <3>2
    <3>4. /\ down(a) \in DOMAIN F /\ down(b) \in DOMAIN F /\ down(a) < down(b)
          /\ F[down(a)].key = x /\ F[down(b)].key = y
      BY <1>2, <3>1, <3>3
    <3> QED BY <3>2, <3>4 DEF Order
  <2> QED BY <2>1, <2>2
<1>7. Order(F) = Order(E)
  <2>1. \A p \in Order(F) : p \in Order(E)
    <3> TAKE p \in Order(F)
    <3>1. PICK x, y : p = <<x, y>>
      BY DEF Order
    <3> QED BY <1>6, <3>1
  <2>2. \A p \in Order(E) : p \in Order(F)
    <3> TAKE p \in Order(E)
    <3>1. PICK x, y : p = <<x, y>>
      BY DEF Order
    <3> QED BY <1>6, <3>1
  <2> QED BY <2>1, <2>2
<1> QED BY <1>3, <1>4, <1>5, <1>7

-----------------------------------------------------------------------------
(* The steps.                                                              *)

StoredValue(k, E) == IF pc = "store" /\ k = call.key THEN call.value ELSE At(E, k).value

LEMMA Maps ==
  /\ LiveKeys = KeysIn(Entries) /\ LiveKeys' = KeysIn(Entries')
  /\ before = Order(Entries) /\ before' = Order(Entries')
  /\ dict = [k \in KeysIn(Entries) |-> StoredValue(k, Entries)]
  /\ dict' = [k \in KeysIn(Entries') |-> StoredValue(k, Entries)']
<1>1. LiveKeys = KeysIn(Entries) /\ LiveKeys' = KeysIn(Entries')
  BY DEF LiveKeys, KeysIn
<1>2. before = Order(Entries) /\ before' = Order(Entries')
  BY <1>1 DEF before, Order
<1>3. /\ \A k : EntryOf(k) = At(Entries, k)
      /\ \A k : EntryOf(k)' = At(Entries', k)
  BY DEF EntryOf, At
<1>4. dict = [k \in KeysIn(Entries) |-> StoredValue(k, Entries)]
  BY <1>1, <1>3 DEF dict, StoredValue
<1>5. dict' = [k \in KeysIn(Entries') |-> StoredValue(k, Entries)']
  BY <1>1, <1>3 DEF dict, StoredValue
<1> QED BY <1>1, <1>2, <1>4, <1>5

(* Between resizes an entry is a bucket of the list. *)
LEMMA PlainEntries ==
  /\ list \in Seq(Index) /\ old_list = << >> /\ cursor = 0
        => Entries = [a \in 1..Len(list) |-> buckets[list[a]]]
  /\ list' \in Seq(Index') /\ old_list' = << >> /\ cursor' = 0
        => Entries' = [a \in 1..Len(list') |-> buckets'[list'[a]]]
  BY DEF Entries

LEMMA Facts ==
  ASSUME Inv
  PROVE  /\ capacity \in Nat \ {0} /\ Index = 0..(capacity - 1)
         /\ list \in Seq(Index) /\ Len(list) \in Nat /\ DOMAIN list = 1..Len(list)
         /\ \A a \in 1..Len(list) : list[a] \in Index /\ list[a] \in Held
         /\ Held \subseteq Index
         /\ \A i \in Held : \E a \in 1..Len(list) : list[a] = i
         /\ buckets \in [Index -> BucketType]
         /\ pc # "rehash" =>
               /\ Entries = [a \in 1..Len(list) |-> buckets[list[a]]]
               /\ count = Len(list)
<1>1. capacity \in Nat \ {0} /\ list \in Seq(Index) /\ buckets \in [Index -> BucketType]
  BY DEF Inv, TypeOK
<1>2. pc # "rehash" => Entries = [a \in 1..Len(list) |-> buckets[list[a]]]
  BY <1>1, PlainEntries DEF Inv, PhaseOK
<1>3. pc # "rehash" => count = Len(list)
  BY DEF Inv, CountOK
<1> QED BY <1>1, <1>2, <1>3 DEF Index, Held

LEMMA InitInv == Init => Inv /\ D!Init
<1> SUFFICES ASSUME Init PROVE Inv /\ D!Init
  OBVIOUS
<1>0. /\ capacity \in Nat \ {0} /\ capacity >= 2 /\ Index = 0..(capacity - 1)
      /\ buckets = [i \in Index |-> Free] /\ list = << >> /\ count = 0 /\ tombstone_count = 0
      /\ pc = "idle" /\ call = NoCall /\ entry = 0 /\ old_list = << >> /\ cursor = 0
      /\ out = Nothing
  BY CapacityAssumption DEF Init, Index
<1>1. Free \in BucketType
  BY DEF Free, BucketType
<1>2. TypeOK
  BY <1>0, <1>1 DEF TypeOK, Nothing
<1>3. Held = {}
  BY <1>0 DEF Held
<1>4. BucketsOK /\ ProbeOK
  <2>1. \A i \in Index : buckets[i] = Free
    BY <1>0
  <2>2. BucketsOK
    BY <1>0, <1>3, <2>1 DEF BucketsOK
  <2> QED BY <2>1, <2>2 DEF ProbeOK, Free
<1>5. DOMAIN Entries = {}
  BY <1>0 DEF Entries
<1>6. PhaseOK /\ LoadOK
  BY <1>0 DEF PhaseOK, LoadOK
<1>7. CountOK
  <2>1. Dead = {}
    BY <1>0 DEF Dead
  <2> QED BY <1>0, <2>1, FS_EmptySet DEF CountOK
<1>8. D!Init
  <2>1. KeysIn(Entries) = {}
    BY <1>5 DEF KeysIn
  <2>2. before = {}
    BY <2>1, Maps DEF Order
  <2>3. dict = << >>
    BY <2>1, Maps
  <2> QED BY <1>0, <2>2, <2>3 DEF D!Init, D!Nothing, Nothing
<1> QED BY <1>2, <1>4, <1>5, <1>6, <1>7, <1>8 DEF Inv, NoDup

(* What a step that leaves the table alone preserves. *)
LEMMA TableKept ==
  ASSUME Inv, UNCHANGED <<tableVars, resizeVars>>, pc \notin {"rehash", "bury"},
         pc' \notin {"rehash", "bury"}
  PROVE  /\ BucketsOK' /\ NoDup(Entries') /\ ProbeOK' /\ CountOK'
         /\ Held' = Held /\ Entries' = Entries
<1>0. /\ capacity' = capacity /\ buckets' = buckets /\ count' = count
      /\ tombstone_count' = tombstone_count /\ list' = list /\ old_list' = old_list
      /\ old_buckets' = old_buckets /\ cursor' = cursor
  BY DEF tableVars, resizeVars
<1>1. Held' = Held /\ Index' = Index
  BY <1>0 DEF Held, Index
<1>2. Entries' = Entries
  BY <1>0 DEF Entries
<1>3. BucketsOK'
  BY <1>0, <1>1 DEF Inv, BucketsOK
<1>4. ProbeOK'
  BY <1>0, <1>1 DEF Inv, ProbeOK, Steps, Home
<1>5. CountOK'
  BY <1>0 DEF Inv, CountOK, Dead, Pending
<1>6. NoDup(Entries')
  BY <1>2 DEF Inv
<1> QED BY <1>1, <1>2, <1>3, <1>4, <1>5, <1>6

(* Such a step changes nothing in the dictionary. *)
LEMMA SameMaps ==
  ASSUME Entries' = Entries, pc # "store", pc' # "store"
  PROVE  UNCHANGED <<dict, before>>
<1>1. \A k : StoredValue(k, Entries) = At(Entries, k).value
  BY DEF StoredValue
<1>2. \A k : StoredValue(k, Entries)' = At(Entries, k).value
  BY DEF StoredValue, At
<1> QED BY <1>1, <1>2, Maps

LEMMA CallStep ==
  ASSUME Inv, NEW op \in {"set", "get_set"}, NEW k \in Key, NEW v \in Value, Call(op, k, v)
  PROVE  Inv' /\ UNCHANGED <<dict, before, out>>
<1>0. /\ pc = "idle" /\ call' = [op |-> op, key |-> k, value |-> v]
      /\ pc' = (IF Crowded THEN "resize" ELSE "find")
      /\ UNCHANGED <<tableVars, resizeVars>> /\ entry' = entry /\ out' = out
  BY DEF Call
<1>1. pc' \in {"resize", "find"}
  BY <1>0
<1>2. /\ BucketsOK' /\ NoDup(Entries') /\ ProbeOK' /\ CountOK'
      /\ Held' = Held /\ Entries' = Entries
  BY <1>0, <1>1, TableKept
<1>3. call' \in CallType
  BY <1>0 DEF CallType
<1>4. TypeOK'
  BY <1>0, <1>1, <1>3 DEF Inv, TypeOK, tableVars, resizeVars, Index, CallType
<1>5. PhaseOK'
  BY <1>0, <1>1, <1>3 DEF Inv, PhaseOK, tableVars, resizeVars
<1>6. LoadOK'
  <2>1. count = Len(list)
    BY <1>0, Facts
  <2>2. Crowded => 4 * (Len(list) + 1) > 3 * capacity
    BY <2>1 DEF Crowded
  <2>3. ~Crowded => 4 * (Len(list) + 1) <= 3 * capacity
    BY <2>1, Facts DEF Crowded
  <2> QED BY <1>0, <1>1, <2>2, <2>3 DEF Inv, LoadOK, tableVars, resizeVars
<1>7. UNCHANGED <<dict, before>>
  BY <1>0, <1>1, <1>2, SameMaps
<1> QED BY <1>0, <1>2, <1>4, <1>5, <1>6, <1>7 DEF Inv

LEMMA StartResizeStep ==
  ASSUME Inv, hashmap_resize
  PROVE  Inv' /\ UNCHANGED <<dict, before, out>>
<1>0. /\ pc = "resize" /\ pc' = "rehash"
      /\ old_buckets' = buckets /\ old_list' = list /\ cursor' = 0
      /\ capacity' = 2 * capacity /\ list' = << >>
      /\ count' = count - tombstone_count /\ tombstone_count' = 0
      /\ call' = call /\ entry' = entry /\ out' = out
  BY DEF hashmap_resize
<1>1. Index' = 0..(2 * capacity - 1) /\ buckets' = [i \in Index' |-> Free]
  BY <1>0 DEF hashmap_resize, Index
<1>2. /\ capacity \in Nat \ {0} /\ capacity >= 2 /\ list \in Seq(Index) /\ Len(list) \in Nat
      /\ call \in CallType /\ DOMAIN list = 1..Len(list)
      /\ 4 * (Len(list) + 1) > 3 * capacity /\ 4 * Len(list) <= 3 * capacity
  BY <1>0, Facts DEF Inv, PhaseOK, LoadOK
<1>3. Held' = {}
  BY <1>0 DEF Held
<1>4. BucketsOK' /\ ProbeOK'
  <2>1. \A i \in Index' : buckets'[i] = Free
    BY <1>1
  <2>2. BucketsOK'
    BY <1>0, <1>3, <2>1 DEF BucketsOK
  <2> QED BY <2>1, <2>2 DEF ProbeOK, Free
<1>5. Entries' = Entries
  <2>1. Entries = [a \in 1..Len(list) |-> buckets[list[a]]]
    BY <1>0, Facts
  <2>2. Entries' = [a \in 1..Len(list) |-> buckets[list[a]]]
    BY <1>0, <1>2 DEF Entries
  <2> QED BY <2>1, <2>2
<1>6. CountOK'
  <2>1. IsFiniteSet(DOMAIN list) /\ Cardinality(DOMAIN list) = Len(list)
    BY <1>2, UpTo
  <2>2. /\ Cardinality(Dead) = tombstone_count /\ count = Len(list)
        /\ tombstone_count \in Nat
    BY <1>0 DEF Inv, CountOK, TypeOK
  <2>3. Pending' = DOMAIN list \ Dead
    BY <1>0, <1>2 DEF Pending, Dead
  <2>4. Dead \subseteq DOMAIN list
    BY DEF Dead
  <2>5. Cardinality(DOMAIN list \ Dead) = Len(list) - tombstone_count
    <3>1. IsFiniteSet(Dead)
      BY <2>1, <2>4, FS_Subset
    <3>2. Cardinality(DOMAIN list \ Dead) = Cardinality(DOMAIN list) - Cardinality(DOMAIN list \cap Dead)
      BY <2>1, <3>1, FS_Difference
    <3>3. DOMAIN list \cap Dead = Dead
      BY <2>4
    <3> QED BY <2>1, <2>2, <3>2, <3>3
  <2>6. Len(list') = 0
    BY <1>0
  <2> QED BY <1>0, <1>2, <2>2, <2>3, <2>5, <2>6 DEF CountOK
<1>7. TypeOK'
  <2>1. Free \in BucketType
    BY DEF Free, BucketType
  <2>2. buckets' \in [Index' -> BucketType]
    BY <1>1, <2>1
  <2>3. count' \in Nat
    <3>1. IsFiniteSet(DOMAIN list) /\ Cardinality(DOMAIN list) = Len(list)
      BY <1>2, UpTo
    <3>2. Dead \subseteq DOMAIN list
      BY DEF Dead
    <3>3. Cardinality(Dead) <= Len(list)
      BY <3>1, <3>2, FS_Subset
    <3> QED BY <1>0, <1>2, <3>3 DEF Inv, CountOK, TypeOK
  <2>4. list' \in Seq(Index') /\ 0 \in 0..Len(old_list') /\ entry' \in Index'
    BY <1>0, <1>1, <1>2 DEF Inv, TypeOK, Index
  <2> QED BY <1>0, <1>2, <2>2, <2>3, <2>4 DEF Inv, TypeOK
<1>8. PhaseOK'
  <2>1. list # << >>
    BY <1>2
  <2>2. old_list' \in Seq(Nat)
    BY <1>0, <1>2 DEF Index
  <2>3. \A x \in DOMAIN list : buckets[list[x]] \in Settled
    BY <1>0, Facts DEF Inv, BucketsOK, Settled
  <2> QED BY <1>0, <1>2, <2>1, <2>2, <2>3 DEF PhaseOK
<1>9. LoadOK'
  BY <1>0, <1>2 DEF LoadOK
<1>10. UNCHANGED <<dict, before>>
  BY <1>0, <1>5, SameMaps
<1>11. NoDup(Entries')
  BY <1>5 DEF Inv
<1> QED BY <1>0, <1>4, <1>6, <1>7, <1>8, <1>9, <1>10, <1>11 DEF Inv

LEMMA ResizeDoneStep ==
  ASSUME Inv, ResizeDone
  PROVE  Inv' /\ UNCHANGED <<dict, before, out>>
<1>0. /\ pc = "rehash" /\ cursor = Len(old_list) /\ pc' = "find"
      /\ old_buckets' = << >> /\ old_list' = << >> /\ cursor' = 0
      /\ capacity' = capacity /\ buckets' = buckets /\ count' = count
      /\ tombstone_count' = tombstone_count /\ list' = list
      /\ call' = call /\ entry' = entry /\ out' = out
  BY DEF ResizeDone, tableVars
<1>1. /\ capacity \in Nat \ {0} /\ capacity >= 2 /\ list \in Seq(Index) /\ Len(list) \in Nat
      /\ old_list \in Seq(Nat) /\ Len(old_list) \in Nat /\ old_list # << >>
      /\ Len(list) <= cursor /\ 8 * Len(old_list) <= 3 * capacity
      /\ call \in CallType
  BY <1>0, Facts DEF Inv, PhaseOK, LoadOK
<1>2. Held' = Held /\ Index' = Index
  BY <1>0 DEF Held, Index
<1>3. BucketsOK' /\ ProbeOK'
  BY <1>0, <1>2 DEF Inv, BucketsOK, ProbeOK, Steps, Home
<1>4. Entries' = Entries
  <2>1. Entries = [a \in 1..Len(list) |-> buckets[list[a]]]
    BY <1>0, <1>1 DEF Entries
  <2>2. Entries' = [a \in 1..Len(list) |-> buckets[list[a]]]
    BY <1>0, <1>1 DEF Entries
  <2> QED BY <2>1, <2>2
<1>5. CountOK'
  <2>1. Pending = {}
    BY <1>0, <1>1 DEF Pending
  <2>2. count = Len(list) /\ tombstone_count = 0
    BY <1>0, <1>1, <2>1, FS_EmptySet DEF Inv, CountOK
  <2>3. Dead' = {}
    BY <1>0, HashAssumption DEF Dead, Inv, BucketsOK, Held, LiveBucket
  <2> QED BY <1>0, <2>2, <2>3, FS_EmptySet DEF CountOK
<1>6. TypeOK'
  BY <1>0, <1>2 DEF Inv, TypeOK
<1>7. PhaseOK'
  BY <1>0, <1>1 DEF PhaseOK
<1>8. LoadOK'
  <2>1. 4 * (Len(list) + 1) <= 3 * capacity
    BY <1>0, <1>1
  <2> QED BY <1>0, <1>1, <2>1 DEF LoadOK
<1>9. UNCHANGED <<dict, before>>
  BY <1>0, <1>4, SameMaps
<1>10. NoDup(Entries')
  BY <1>4 DEF Inv
<1> QED BY <1>0, <1>3, <1>5, <1>6, <1>7, <1>8, <1>9, <1>10 DEF Inv

(* A bucket that was free goes to the end of the list. *)
LEMMA Linked ==
  ASSUME Inv, NEW i \in Index, i \notin Held, list' = Append(list, i), capacity' = capacity
  PROVE  /\ Index' = Index /\ Len(list') = Len(list) + 1 /\ list' \in Seq(Index)
         /\ DOMAIN list' = 1..(Len(list) + 1) /\ list'[Len(list) + 1] = i
         /\ \A a \in 1..Len(list) : list'[a] = list[a] /\ list[a] \in Index /\ list[a] # i
         /\ Held' = Held \cup {i}
         /\ \A a, b \in DOMAIN list' : list'[a] = list'[b] => a = b
<1>1. list \in Seq(Index) /\ Len(list) \in Nat
  BY Facts
<1>2. /\ Index' = Index /\ Len(list') = Len(list) + 1 /\ list' \in Seq(Index)
      /\ DOMAIN list' = 1..(Len(list) + 1) /\ list'[Len(list) + 1] = i
      /\ \A a \in 1..Len(list) : list'[a] = list[a]
  BY <1>1, AppendProperties DEF Index
<1>3. Held' = Held \cup {i}
  <2>1. DOMAIN list = 1..Len(list)
    BY Facts
  <2>2. DOMAIN list' = DOMAIN list \cup {Len(list) + 1}
    BY <1>1, <1>2, <2>1
  <2>3. \A a \in DOMAIN list : list'[a] = list[a]
    BY <1>2, <2>1
  <2>4. list'[Len(list) + 1] = i
    BY <1>2
  <2>5. {list'[a] : a \in DOMAIN list'} = {list[a] : a \in DOMAIN list} \cup {list'[Len(list) + 1]}
    BY <2>2, <2>3, ImageGrows
  <2> QED BY <2>4, <2>5 DEF Held
<1>4. \A a, b \in DOMAIN list' : list'[a] = list'[b] => a = b
  <2> SUFFICES ASSUME NEW a \in DOMAIN list', NEW b \in DOMAIN list', list'[a] = list'[b]
               PROVE  a = b
    OBVIOUS
  <2>1. /\ a \in 1..Len(list) \/ a = Len(list) + 1
        /\ b \in 1..Len(list) \/ b = Len(list) + 1
    BY <1>1, <1>2
  <2>2. \A x \in 1..Len(list) : list[x] # i
    BY Facts
  <2>3. \A x, y \in 1..Len(list) : list[x] = list[y] => x = y
    BY <1>1 DEF Inv, BucketsOK
  <2> QED BY <1>2, <2>1, <2>2, <2>3
<1>5. \A a \in 1..Len(list) : list[a] \in Index /\ list[a] # i
  BY Facts
<1> QED BY <1>2, <1>3, <1>4, <1>5

(* Its key is where a probe from its home gets to. *)
LEMMA ProbeGrows ==
  ASSUME Inv, NEW i \in Index, NEW k \in Key, capacity' = capacity, Held' = Held \cup {i},
         buckets'[i].key = k, \A j \in Index \ {i} : buckets'[j] = buckets[j],
         \A j \in Index : Steps(Home(k), j) < Steps(Home(k), i) => j \in Held
  PROVE  ProbeOK'
<1>1. Index' = Index
  BY DEF Index
<1> SUFFICES ASSUME NEW x \in Index, NEW j \in Index, buckets'[x].key # NULL,
                    (Steps(Home(buckets[x].key), j) < Steps(Home(buckets[x].key), x))'
             PROVE  j \in Held'
  BY <1>1 DEF ProbeOK
<1>2. CASE x = i
  <2>1. Steps(Home(k), j) < Steps(Home(k), i)
    BY <1>2 DEF Steps, Home
  <2> QED BY <2>1
<1>3. CASE x # i
  <2>1. buckets'[x] = buckets[x]
    BY <1>3
  <2>2. Steps(Home(buckets[x].key), j) < Steps(Home(buckets[x].key), x)
    BY <2>1 DEF Steps, Home
  <2> QED BY <2>1, <2>2 DEF Inv, ProbeOK
<1> QED BY <1>2, <1>3

(* A turn that leaves a tombstone behind. *)
LEMMA SkipTombstone ==
  ASSUME Inv, RehashEntry, old_buckets[old_list[cursor + 1]].key = NULL
  PROVE  Inv' /\ UNCHANGED <<dict, before, out>>
<1>0. /\ pc = "rehash" /\ cursor < Len(old_list) /\ cursor' = cursor + 1
      /\ buckets' = buckets /\ list' = list /\ capacity' = capacity /\ count' = count
      /\ tombstone_count' = tombstone_count /\ pc' = pc /\ call' = call /\ entry' = entry
      /\ old_buckets' = old_buckets /\ old_list' = old_list /\ out' = out
  BY DEF RehashEntry
<1>1. /\ list \in Seq(Index) /\ Len(list) \in Nat
      /\ old_list \in Seq(Nat) /\ Len(old_list) \in Nat /\ cursor \in Nat
  BY <1>0, Facts DEF Inv, PhaseOK, TypeOK
<1>2. Held' = Held /\ Index' = Index
  BY <1>0 DEF Held, Index
<1>3. BucketsOK' /\ ProbeOK'
  BY <1>0, <1>2 DEF Inv, BucketsOK, ProbeOK, Steps, Home
<1>4. /\ NoDup(Entries') /\ KeysIn(Entries') = KeysIn(Entries) /\ Order(Entries') = Order(Entries)
      /\ \A x \in KeysIn(Entries) : At(Entries', x) = At(Entries, x)
  <2> DEFINE n == Len(list) + Len(old_list) - cursor
             c == Len(list) + 1
             E == Entries
             F == Entries'
  <2>1. /\ n \in Nat /\ c \in 1..n /\ NoDup(E) /\ DOMAIN E = 1..n /\ DOMAIN F = 1..(n - 1)
        /\ E[c].key = NULL
    BY <1>0, <1>1 DEF Entries, Inv
  <2>2. \A a \in 1..(n - 1) : F[a] = IF a < c THEN E[a] ELSE E[a + 1]
    <3> TAKE a \in 1..(n - 1)
    <3>1. CASE a < c
      BY <1>0, <1>1, <3>1 DEF Entries
    <3>2. CASE ~(a < c)
      <4>1. /\ F[a] = old_buckets[old_list[a - Len(list) + (cursor + 1)]]
            /\ E[a + 1] = old_buckets[old_list[(a + 1) - Len(list) + cursor]]
        BY <1>0, <1>1, <3>2 DEF Entries
      <4>2. a - Len(list) + (cursor + 1) = (a + 1) - Len(list) + cursor
        BY <1>1
      <4> QED BY <3>2, <4>1, <4>2
    <3> QED BY <3>1, <3>2
  <2> HIDE DEF n, c, E, F
  <2>3. /\ NoDup(F) /\ KeysIn(F) = KeysIn(E) /\ Order(F) = Order(E)
        /\ \A x \in KeysIn(E) : At(F, x) = At(E, x)
    BY <2>1, <2>2, Dropped
  <2> QED BY <2>3 DEF E, F
<1>5. CountOK'
  <2>1. Pending' = Pending
    <3>1. \A x \in (cursor + 1)..Len(old_list) :
             x = cursor + 1 \/ x \in (cursor + 1 + 1)..Len(old_list)
      BY <1>1
    <3>2. \A x \in (cursor + 1 + 1)..Len(old_list) : x \in (cursor + 1)..Len(old_list)
      BY <1>1
    <3> QED BY <1>0, <3>1, <3>2 DEF Pending
  <2> QED BY <1>0, <2>1 DEF Inv, CountOK
<1>6. TypeOK'
  BY <1>0, <1>1, <1>2 DEF Inv, TypeOK
<1>7. PhaseOK'
  BY <1>0 DEF Inv, PhaseOK
<1>8. LoadOK'
  BY <1>0, <1>1 DEF Inv, LoadOK
<1>9. UNCHANGED <<dict, before>>
  <2>1. \A k : StoredValue(k, Entries) = At(Entries, k).value
    BY <1>0 DEF StoredValue
  <2>2. \A k : StoredValue(k, Entries)' = At(Entries', k).value
    BY <1>0 DEF StoredValue, At
  <2> QED BY <1>4, <2>1, <2>2, Maps
<1> QED BY <1>0, <1>3, <1>4, <1>5, <1>6, <1>7, <1>8, <1>9 DEF Inv

(* A turn that moves an entry into the new array. *)
LEMMA MoveEntry ==
  ASSUME Inv, RehashEntry, old_buckets[old_list[cursor + 1]].key # NULL
  PROVE  Inv' /\ UNCHANGED <<dict, before, out>>
<1> DEFINE current == old_buckets[old_list[cursor + 1]]
           i == FirstFrom(current.key, {j \in Index : buckets[j].key = NULL})
<1>0. /\ pc = "rehash" /\ cursor < Len(old_list) /\ cursor' = cursor + 1
      /\ buckets' = [buckets EXCEPT ![i] = current] /\ list' = Append(list, i)
      /\ capacity' = capacity /\ count' = count
      /\ tombstone_count' = tombstone_count /\ pc' = pc /\ call' = call /\ entry' = entry
      /\ old_buckets' = old_buckets /\ old_list' = old_list /\ out' = out
  BY DEF RehashEntry
<1>1. /\ list \in Seq(Index) /\ Len(list) \in Nat /\ capacity \in Nat \ {0}
      /\ old_list \in Seq(Nat) /\ Len(old_list) \in Nat /\ cursor \in Nat
      /\ buckets \in [Index -> BucketType] /\ Index = 0..(capacity - 1)
      /\ cursor + 1 \in DOMAIN old_list
  BY <1>0, Facts DEF Inv, PhaseOK, TypeOK
<1>2. current \in LiveBucket
  <2>1. current \in Settled
    BY <1>0, <1>1 DEF Inv, PhaseOK
  <2> QED BY <2>1 DEF Settled, Tombstone
<1>3. current.key \in Key /\ current \in BucketType
  BY <1>2 DEF LiveBucket, BucketType
<1>4. /\ i \in Index /\ i \notin Held
      /\ \A j \in Index : Steps(Home(current.key), j) < Steps(Home(current.key), i) => j \in Held
  BY <1>0, <1>3, ResizeEntry
<1> HIDE DEF i, current
<1>5. /\ Index' = Index /\ Len(list') = Len(list) + 1 /\ list' \in Seq(Index)
      /\ DOMAIN list' = 1..(Len(list) + 1) /\ list'[Len(list) + 1] = i
      /\ \A a \in 1..Len(list) : list'[a] = list[a] /\ list[a] \in Index /\ list[a] # i
      /\ Held' = Held \cup {i}
      /\ \A a, b \in DOMAIN list' : list'[a] = list'[b] => a = b
  BY <1>0, <1>4, Linked
<1>7. /\ buckets'[i] = current
      /\ \A j \in Index \ {i} : buckets'[j] = buckets[j]
  BY <1>0, <1>1, <1>4
<1>8. BucketsOK'
  <2>1. \A j \in Index' \ Held' : buckets'[j] = Free
    BY <1>5, <1>7 DEF Inv, BucketsOK
  <2>2. \A j \in Held' : buckets'[j] \in LiveBucket
    BY <1>0, <1>2, <1>5, <1>7, Facts DEF Inv, BucketsOK
  <2> QED BY <1>5, <2>1, <2>2 DEF BucketsOK
<1>9. ProbeOK'
  <2>1. buckets'[i].key = current.key
    BY <1>7
  <2> QED BY <1>0, <1>3, <1>4, <1>5, <1>7, <2>1, ProbeGrows
<1>10. Entries' = Entries
  <2> DEFINE n == Len(list) + Len(old_list) - cursor
  <2>1. DOMAIN Entries = 1..n /\ DOMAIN Entries' = 1..n
    BY <1>0, <1>1, <1>5 DEF Entries
  <2>2. ASSUME NEW a \in 1..n PROVE Entries'[a] = Entries[a]
    <3>1. CASE a <= Len(list)
      <4>1. Entries[a] = buckets[list[a]]
        BY <1>1, <3>1 DEF Entries
      <4>2. Entries'[a] = buckets'[list'[a]]
        BY <1>0, <1>1, <1>5, <3>1 DEF Entries
      <4>3. list'[a] = list[a] /\ list[a] \in Index /\ list[a] # i
        BY <1>1, <1>5, <3>1
      <4> QED BY <1>7, <4>1, <4>2, <4>3
    <3>2. CASE a = Len(list) + 1
      <4>1. Entries[a] = current
        BY <1>1, <3>2 DEF Entries, current
      <4>2. Entries'[a] = buckets'[list'[a]]
        BY <1>0, <1>1, <1>5, <3>2 DEF Entries
      <4> QED BY <1>5, <1>7, <3>2, <4>1, <4>2
    <3>3. CASE a > Len(list) + 1
      <4>1. Entries[a] = old_buckets[old_list[a - Len(list) + cursor]]
        BY <1>1, <3>3 DEF Entries
      <4>2. Entries'[a] = old_buckets[old_list[a - (Len(list) + 1) + (cursor + 1)]]
        BY <1>0, <1>1, <1>5, <3>3 DEF Entries
      <4>3. a - (Len(list) + 1) + (cursor + 1) = a - Len(list) + cursor
        BY <1>1
      <4> QED BY <4>1, <4>2, <4>3
    <3> QED BY <1>1, <3>1, <3>2, <3>3
  <2>3. Entries = [a \in DOMAIN Entries |-> Entries[a]]
    BY DEF Entries
  <2>4. Entries' = [a \in DOMAIN Entries' |-> Entries'[a]]
    BY DEF Entries
  <2> HIDE DEF n
  <2> QED BY <2>1, <2>2, <2>3, <2>4
<1>11. CountOK'
  <2>1. Pending' = Pending \ {cursor + 1}
    <3>1. \A x \in (cursor + 1)..Len(old_list) :
             x = cursor + 1 \/ x \in (cursor + 1 + 1)..Len(old_list)
      BY <1>1
    <3>2. \A x \in (cursor + 1 + 1)..Len(old_list) : x \in (cursor + 1)..Len(old_list) /\ x # cursor + 1
      BY <1>1
    <3> QED BY <1>0, <3>1, <3>2 DEF Pending
  <2>2. cursor + 1 \in Pending
    BY <1>0, <1>1 DEF Pending
  <2>3. IsFiniteSet(Pending)
    <3>1. IsFiniteSet(1..Len(old_list))
      BY <1>1, UpTo
    <3>2. Pending \subseteq 1..Len(old_list)
      BY <1>1 DEF Pending
    <3> QED BY <3>1, <3>2, FS_Subset
  <2>4. Cardinality(Pending') = Cardinality(Pending) - 1 /\ Cardinality(Pending) \in Nat
    BY <2>1, <2>2, <2>3, FS_RemoveElement, FS_CardinalityType
  <2> QED BY <1>0, <1>1, <1>5, <2>4 DEF Inv, CountOK
<1>12. TypeOK'
  <2>1. buckets' \in [Index' -> BucketType]
    BY <1>0, <1>1, <1>3, <1>5
  <2> QED BY <1>0, <1>1, <1>5, <2>1 DEF Inv, TypeOK
<1>13. PhaseOK'
  BY <1>0 DEF Inv, PhaseOK
<1>14. LoadOK'
  BY <1>0, <1>1, <1>5 DEF Inv, LoadOK
<1>15. UNCHANGED <<dict, before>>
  BY <1>0, <1>10, SameMaps
<1>16. NoDup(Entries')
  BY <1>10 DEF Inv
<1> QED BY <1>0, <1>8, <1>9, <1>11, <1>12, <1>13, <1>14, <1>15, <1>16 DEF Inv

(* The entry of a key that is there. *)
LEMMA EntryAt ==
  ASSUME Inv, pc # "rehash", NEW i \in Held, buckets[i].key # NULL
  PROVE  /\ buckets[i].key \in KeysIn(Entries)
         /\ At(Entries, buckets[i].key) = buckets[i]
<1>1. PICK a \in 1..Len(list) : list[a] = i
  BY Facts
<1>2. a \in DOMAIN Entries /\ Entries[a] = buckets[i]
  BY <1>1, Facts
<1>3. NoDup(Entries)
  BY DEF Inv
<1> QED BY <1>2, <1>3, AtIs

(* A key that no bucket of the list has is not there. *)
LEMMA NotThere ==
  ASSUME Inv, pc # "rehash", NEW k, \A j \in Held : buckets[j].key # k
  PROVE  k \notin KeysIn(Entries)
<1> SUFFICES ASSUME k \in KeysIn(Entries) PROVE FALSE
  OBVIOUS
<1>1. PICK a \in DOMAIN Entries : Entries[a].key = k
  BY DEF KeysIn
<1>2. a \in 1..Len(list) /\ Entries[a] = buckets[list[a]] /\ list[a] \in Held
  BY <1>1, Facts
<1> QED BY <1>1, <1>2

LEMMA OutType ==
  \A b \in BOOLEAN, v \in Value \cup {0} :
      [found |-> b, value |-> v] \in [found : BOOLEAN, value : Value \cup {0}]
  BY Zenon

(* The call in progress has its effect on the dictionary. *)
Effect ==
    /\ call \in CallType
    /\ \/ call.op = "set" /\ D!Set(call.key, call.value)
       \/ call.op = "get_set" /\ D!GetSet(call.key, call.value)

LEMMA LinkStep ==
  ASSUME Inv, LinkEntry
  PROVE  Inv' /\ Effect
<1> DEFINE i == find_entry(call.key)
           k == call.key
           w == IF call.op = "set" THEN 0 ELSE call.value
           E == Entries
           F == Entries'
<1>0. /\ pc = "find" /\ buckets[i].key = NULL /\ list' = Append(list, i) /\ count' = count + 1
      /\ capacity' = capacity /\ tombstone_count' = tombstone_count
      /\ old_buckets' = old_buckets /\ old_list' = old_list /\ cursor' = cursor
  BY DEF LinkEntry, resizeVars
<1>1. call \in CallType /\ k \in Key /\ call.value \in Value /\ old_list = << >> /\ cursor = 0
  BY <1>0 DEF Inv, PhaseOK, CallType
<1>2. /\ i \in Index /\ i \notin Held /\ buckets[i] = Free
      /\ \A j \in Index : Steps(Home(k), j) < Steps(Home(k), i) => j \in Held
      /\ \A j \in Held : buckets[j].key # k
  <2>1. i \notin Held
    BY <1>0, <1>1, FindEntry, HashAssumption
  <2> QED BY <1>0, <1>1, <2>1, FindEntry
<1>3. /\ call.op = "set" /\ pc' = "store" /\ entry' = i /\ out' = Nothing /\ call' = call
         /\ buckets' = [buckets EXCEPT ![i].key = k]
      \/ /\ call.op = "get_set" /\ pc' = "idle" /\ entry' = 0 /\ call' = NoCall
         /\ out' = [found |-> FALSE, value |-> call.value]
         /\ buckets' = [buckets EXCEPT ![i] = [key |-> k, value |-> call.value]]
  BY DEF LinkEntry, Return
<1> HIDE DEF i, k
<1>4. /\ list \in Seq(Index) /\ Len(list) \in Nat /\ capacity \in Nat \ {0}
      /\ buckets \in [Index -> BucketType] /\ Index = 0..(capacity - 1) /\ k # NULL
      /\ DOMAIN list = 1..Len(list)
  BY <1>1, Facts, HashAssumption
<1>5. /\ Index' = Index /\ Len(list') = Len(list) + 1 /\ list' \in Seq(Index)
      /\ DOMAIN list' = 1..(Len(list) + 1) /\ list'[Len(list) + 1] = i
      /\ \A a \in 1..Len(list) : list'[a] = list[a] /\ list[a] \in Index /\ list[a] # i
      /\ Held' = Held \cup {i}
      /\ \A a, b \in DOMAIN list' : list'[a] = list'[b] => a = b
  BY <1>0, <1>2, Linked
<1>6. /\ buckets'[i] = [key |-> k, value |-> w]
      /\ \A j \in Index \ {i} : buckets'[j] = buckets[j]
      /\ buckets' \in [Index -> BucketType]
  <2>1. CASE call.op = "set"
    BY <1>1, <1>2, <1>3, <1>4, <2>1 DEF Free, BucketType
  <2>2. CASE call.op = "get_set"
    BY <1>1, <1>2, <1>3, <1>4, <2>2 DEF BucketType
  <2> QED BY <1>3, <2>1, <2>2
<1>7. BucketsOK'
  <2>1. \A j \in Index' \ Held' : buckets'[j] = Free
    BY <1>5, <1>6 DEF Inv, BucketsOK
  <2>2. buckets'[i] \in LiveBucket
    BY <1>1, <1>6 DEF LiveBucket
  <2>3. \A j \in Held : buckets'[j] \in LiveBucket \/ buckets'[j] = Tombstone
    BY <1>0, <1>2, <1>6, Facts DEF Inv, BucketsOK
  <2> QED BY <1>3, <1>5, <2>1, <2>2, <2>3 DEF BucketsOK
<1>8. ProbeOK'
  <2>1. buckets'[i].key = k
    BY <1>6
  <2> QED BY <1>0, <1>1, <1>2, <1>5, <1>6, <2>1, ProbeGrows
<1>9. /\ NoDup(F) /\ KeysIn(F) = KeysIn(E) \cup {k}
      /\ Order(F) = Order(E) \cup {<<x, k>> : x \in KeysIn(E)}
      /\ At(F, k) = [key |-> k, value |-> w]
      /\ \A x \in KeysIn(E) : At(F, x) = At(E, x)
      /\ k \notin KeysIn(E)
  <2> DEFINE n == Len(list)
  <2>1. E = [a \in 1..n |-> buckets[list[a]]]
    BY <1>0, Facts
  <2>2. F = [a \in 1..(n + 1) |-> buckets'[list'[a]]]
    BY <1>0, <1>1, <1>5, PlainEntries
  <2>3. k \notin KeysIn(E)
    BY <1>0, <1>2, NotThere
  <2>4. NoDup(E) /\ n \in Nat
    BY <1>4 DEF Inv
  <2> HIDE DEF E, F
  <2>5. DOMAIN E = 1..n /\ DOMAIN F = 1..(n + 1) /\ F[n + 1] = [key |-> k, value |-> w]
    BY <1>4, <1>5, <1>6, <2>1, <2>2
  <2>6. \A a \in 1..n : F[a] = E[a]
    BY <1>5, <1>6, <2>1, <2>2
  <2>7. F[n + 1].key = k
    BY <2>5
  <2> HIDE DEF n, w
  <2>8. k # NULL /\ DOMAIN E = 1..n /\ DOMAIN F = 1..(n + 1)
    BY <1>4, <2>5
  <2>9. /\ NoDup(F) /\ KeysIn(F) = KeysIn(E) \cup {k}
        /\ Order(F) = Order(E) \cup {<<x, k>> : x \in KeysIn(E)}
        /\ At(F, k) = F[n + 1]
        /\ \A x \in KeysIn(E) : At(F, x) = At(E, x)
    BY <2>3, <2>4, <2>6, <2>7, <2>8, Appended
  <2> QED BY <2>3, <2>5, <2>9
<1>10. CountOK'
  <2>1. Dead' = Dead
    <3>1. \A a \in 1..Len(list) : buckets'[list'[a]] = buckets[list[a]]
      BY <1>5, <1>6
    <3>2. buckets'[list'[Len(list) + 1]].key # NULL
      BY <1>4, <1>5, <1>6
    <3>3. DOMAIN list' = DOMAIN list \cup {Len(list) + 1}
      BY <1>4, <1>5
    <3> QED BY <1>4, <3>1, <3>2, <3>3 DEF Dead
  <2> QED BY <1>0, <1>3, <1>5, <2>1 DEF Inv, CountOK
<1>11. TypeOK'
  <2>1. pc' \in {"idle", "store"} /\ call' \in CallType \cup {NoCall} /\ entry' \in Index
    BY <1>1, <1>2, <1>3, <1>4
  <2>2. out' \in [found : BOOLEAN, value : Value \cup {0}]
    <3>1. out' = [found |-> FALSE, value |-> 0] \/ out' = [found |-> FALSE, value |-> call.value]
      BY <1>3 DEF Nothing
    <3>2. FALSE \in BOOLEAN /\ 0 \in Value \cup {0} /\ call.value \in Value \cup {0}
      BY <1>1
    <3> QED BY <3>1, <3>2, OutType, Zenon
  <2> QED BY <1>0, <1>5, <1>6, <2>1, <2>2 DEF Inv, TypeOK, CallType
<1>12. PhaseOK'
  <2>1. old_list' = << >> /\ cursor' = 0 /\ old_list' \in Seq(Nat)
    BY <1>0, <1>1
  <2>2. CASE pc' = "store"
    <3>1. entry' = i /\ call' = call
      BY <1>3, <2>2
    <3>2. entry' \in Held' /\ buckets'[entry'].key = call'.key
      BY <1>5, <1>6, <3>1 DEF k
    <3> QED BY <1>1, <2>1, <2>2, <3>1, <3>2 DEF PhaseOK
  <2>3. CASE pc' = "idle"
    BY <1>3, <2>1, <2>3 DEF PhaseOK
  <2> QED BY <1>3, <2>2, <2>3
<1>13. LoadOK'
  BY <1>0, <1>3, <1>4, <1>5 DEF Inv, LoadOK
<1>14. Effect
  <2>1. DOMAIN dict = KeysIn(E) /\ before = Order(E) /\ before' = Order(F)
    BY Maps
  <2>2. \A x \in KeysIn(E) : dict[x] = At(E, x).value
    BY <1>0, Maps DEF StoredValue
  <2>3. dict' = [x \in KeysIn(F) |-> IF x = k THEN call.value ELSE dict[x]]
    <3>1. dict' = [x \in KeysIn(F) |-> StoredValue(x, E)']
      BY Maps
    <3>2. ASSUME NEW x \in KeysIn(F)
          PROVE  StoredValue(x, E)' = IF x = k THEN call.value ELSE dict[x]
      <4>1. StoredValue(x, E)' =
               IF pc' = "store" /\ x = call'.key THEN call'.value ELSE At(F, x).value
        BY DEF StoredValue, At
      <4>2. CASE x = k
        BY <1>3, <1>9, <4>1, <4>2 DEF k
      <4>3. CASE x # k
        <5>1. x \in KeysIn(E) /\ At(F, x) = At(E, x)
          BY <1>9, <3>2, <4>3
        <5> QED BY <1>3, <2>2, <4>1, <4>3, <5>1 DEF k
      <4> QED BY <4>2, <4>3
    <3> HIDE DEF E, F
    <3> QED BY <3>1, <3>2
  <2>4. D!Added(k, call.value)
    BY <1>9, <2>1, <2>3 DEF D!Added
  <2>5. CASE call.op = "set"
    <3>1. D!Set(k, call.value)
      BY <1>3, <2>4, <2>5 DEF D!Set, D!Nothing, Nothing
    <3> QED BY <1>1, <2>5, <3>1 DEF Effect, k
  <2>6. CASE call.op = "get_set"
    <3>1. D!GetSet(k, call.value)
      BY <1>3, <1>9, <2>1, <2>4, <2>6 DEF D!GetSet
    <3> QED BY <1>1, <2>6, <3>1 DEF Effect, k
  <2> QED BY <1>3, <2>5, <2>6
<1> QED BY <1>7, <1>8, <1>9, <1>10, <1>11, <1>12, <1>13, <1>14 DEF Inv

LEMMA FoundStep ==
  ASSUME Inv, FoundEntry
  PROVE  Inv' /\ Effect
<1> DEFINE i == find_entry(call.key)
           k == call.key
           E == Entries
<1>0. /\ pc = "find" /\ buckets[i].key # NULL
      /\ capacity' = capacity /\ buckets' = buckets /\ count' = count /\ list' = list
      /\ tombstone_count' = tombstone_count
      /\ old_buckets' = old_buckets /\ old_list' = old_list /\ cursor' = cursor
      /\ UNCHANGED <<tableVars, resizeVars>>
  BY DEF FoundEntry, tableVars, resizeVars
<1>1. call \in CallType /\ k \in Key /\ call.value \in Value /\ old_list = << >> /\ cursor = 0
  BY <1>0 DEF Inv, PhaseOK, CallType
<1>2. i \in Index /\ i \in Held /\ buckets[i].key = k /\ buckets[i] \in LiveBucket
  <2>1. i \in Held
    BY <1>0, <1>1, FindEntry DEF Free
  <2> QED BY <1>0, <1>1, <2>1, FindEntry
<1>3. /\ call.op = "set" /\ pc' = "store" /\ entry' = i /\ out' = Nothing /\ call' = call
      \/ /\ call.op = "get_set" /\ pc' = "idle" /\ entry' = 0 /\ call' = NoCall
         /\ out' = [found |-> TRUE, value |-> buckets[i].value]
  BY DEF FoundEntry, Return
<1> HIDE DEF i, k
<1>4. pc' \in {"store", "idle"}
  BY <1>3
<1>5. /\ BucketsOK' /\ NoDup(Entries') /\ ProbeOK' /\ CountOK'
      /\ Held' = Held /\ Entries' = Entries
  BY <1>0, <1>4, TableKept
<1>6. TypeOK'
  <2>1. call' \in CallType \cup {NoCall} /\ entry' \in Index /\ Index' = Index
    BY <1>0, <1>1, <1>2, <1>3, Facts DEF Index
  <2>2. out' \in [found : BOOLEAN, value : Value \cup {0}]
    <3>1. buckets[i].value \in Value \cup {0}
      BY <1>2 DEF LiveBucket
    <3>2. \/ out' = [found |-> FALSE, value |-> 0]
          \/ out' = [found |-> TRUE, value |-> buckets[i].value]
      BY <1>3 DEF Nothing
    <3>3. FALSE \in BOOLEAN /\ TRUE \in BOOLEAN /\ 0 \in Value \cup {0}
      OBVIOUS
    <3> QED BY <3>1, <3>2, <3>3, OutType, Zenon
  <2> QED BY <1>0, <1>4, <2>1, <2>2 DEF Inv, TypeOK, CallType
<1>7. PhaseOK'
  <2>1. old_list' = << >> /\ cursor' = 0 /\ old_list' \in Seq(Nat)
    BY <1>0, <1>1
  <2>2. CASE pc' = "store"
    <3>1. entry' = i /\ call' = call
      BY <1>3, <2>2
    <3>2. entry' \in Held' /\ buckets'[entry'].key = call'.key
      BY <1>0, <1>2, <1>5, <3>1 DEF k
    <3> QED BY <1>1, <2>1, <2>2, <3>1, <3>2 DEF PhaseOK
  <2>3. CASE pc' = "idle"
    BY <1>3, <2>1, <2>3 DEF PhaseOK
  <2> QED BY <1>3, <2>2, <2>3
<1>8. LoadOK'
  BY <1>0, <1>4 DEF Inv, LoadOK
<1>9. Effect
  <2>1. DOMAIN dict = KeysIn(E) /\ before' = before
    BY <1>5, Maps
  <2>2. \A x \in KeysIn(E) : dict[x] = At(E, x).value
    BY <1>0, Maps DEF StoredValue
  <2>3. k \in KeysIn(E) /\ At(E, k) = buckets[i]
    BY <1>0, <1>2, EntryAt
  <2>4. dict = [x \in KeysIn(E) |-> dict[x]]
    BY Maps
  <2>5. dict' = [x \in KeysIn(E) |-> StoredValue(x, E)']
    BY <1>5, Maps
  <2>6. \A x : StoredValue(x, E)' =
                 IF pc' = "store" /\ x = call'.key THEN call'.value ELSE At(E, x).value
    BY <1>5 DEF StoredValue, At
  <2> HIDE DEF E
  <2>7. CASE call.op = "set"
    <3>1. \A x \in KeysIn(E) : StoredValue(x, E)' = IF x = k THEN call.value ELSE dict[x]
      BY <1>3, <2>2, <2>6, <2>7 DEF k
    <3>2. dict' = [x \in DOMAIN dict \cup {k} |-> IF x = k THEN call.value ELSE dict[x]]
      BY <2>1, <2>3, <2>5, <3>1
    <3>3. D!Set(k, call.value)
      BY <1>3, <2>1, <2>3, <2>7, <3>2 DEF D!Set, D!Added, D!Nothing, Nothing
    <3> QED BY <1>1, <2>7, <3>3 DEF Effect, k
  <2>8. CASE call.op = "get_set"
    <3>1. \A x \in KeysIn(E) : StoredValue(x, E)' = dict[x]
      BY <1>3, <2>2, <2>6, <2>8
    <3>2. dict' = dict
      BY <2>4, <2>5, <3>1
    <3>3. out' = [found |-> TRUE, value |-> dict[k]]
      BY <1>3, <2>2, <2>3, <2>8
    <3>4. D!GetSet(k, call.value)
      BY <2>1, <2>3, <3>2, <3>3 DEF D!GetSet, D!Get
    <3> QED BY <1>1, <2>8, <3>4 DEF Effect, k
  <2> QED BY <1>3, <2>7, <2>8
<1> QED BY <1>5, <1>6, <1>7, <1>8, <1>9 DEF Inv

LEMMA GetStep ==
  ASSUME Inv, NEW k \in Key, hashmap_get(k)
  PROVE  Inv' /\ D!Get(k)
<1> DEFINE i == find_entry(k)
           E == Entries
<1>0. /\ pc = "idle" /\ out' = [found |-> buckets[i].key # NULL, value |-> buckets[i].value]
      /\ UNCHANGED <<tableVars, resizeVars>> /\ pc' = pc /\ call' = call /\ entry' = entry
  BY DEF hashmap_get
<1>1. /\ i \in Held => buckets[i].key = k /\ buckets[i] \in LiveBucket
      /\ i \notin Held => buckets[i] = Free /\ \A j \in Held : buckets[j].key # k
  BY <1>0, FindEntry
<1>2. k # NULL
  BY HashAssumption
<1> HIDE DEF i
<1>3. /\ BucketsOK' /\ NoDup(Entries') /\ ProbeOK' /\ CountOK'
      /\ Held' = Held /\ Entries' = Entries
  BY <1>0, TableKept
<1>4. TypeOK'
  <2>1. out' \in [found : BOOLEAN, value : Value \cup {0}]
    <3>1. buckets[i].value \in Value \cup {0}
      BY <1>1 DEF LiveBucket, Free
    <3> QED BY <1>0, <3>1
  <2> QED BY <1>0, <2>1 DEF Inv, TypeOK, tableVars, resizeVars, Index
<1>5. PhaseOK' /\ LoadOK'
  BY <1>0, <1>3 DEF Inv, PhaseOK, LoadOK, tableVars, resizeVars
<1>6. D!Get(k)
  <2>1. DOMAIN dict = KeysIn(E) /\ UNCHANGED <<dict, before>>
    BY <1>0, <1>3, Maps, SameMaps
  <2>2. \A x \in KeysIn(E) : dict[x] = At(E, x).value
    BY <1>0, Maps DEF StoredValue
  <2>3. CASE i \in Held
    <3>1. k \in KeysIn(E) /\ At(E, k) = buckets[i]
      BY <1>0, <1>1, <1>2, <2>3, EntryAt
    <3>2. out' = [found |-> TRUE, value |-> dict[k]]
      BY <1>0, <1>1, <1>2, <2>2, <2>3, <3>1
    <3> QED BY <2>1, <3>1, <3>2 DEF D!Get
  <2>4. CASE i \notin Held
    <3>1. k \notin KeysIn(E)
      BY <1>0, <1>1, <2>4, NotThere
    <3>2. (buckets[i].key # NULL) = FALSE /\ buckets[i].value = 0
      BY <1>1, <2>4 DEF Free
    <3>3. out' = [found |-> FALSE, value |-> 0]
      BY <1>0, <3>2, Zenon
    <3> QED BY <2>1, <3>1, <3>3 DEF D!Get, D!Nothing
  <2> QED BY <2>3, <2>4
<1> QED BY <1>3, <1>4, <1>5, <1>6 DEF Inv

LEMMA StoreStep ==
  ASSUME Inv, StoreValue
  PROVE  Inv' /\ UNCHANGED <<dict, before, out>>
<1> DEFINE E == Entries
           F == Entries'
<1>0. /\ pc = "store" /\ buckets' = [buckets EXCEPT ![entry].value = call.value]
      /\ pc' = "idle" /\ call' = NoCall /\ entry' = 0
      /\ capacity' = capacity /\ count' = count /\ tombstone_count' = tombstone_count
      /\ list' = list /\ old_list' = old_list /\ cursor' = cursor /\ out' = out
  BY DEF StoreValue, Return, resizeVars
<1>1. /\ call \in CallType /\ call.key \in Key /\ call.value \in Value
      /\ entry \in Held /\ entry \in Index /\ buckets[entry].key = call.key
      /\ old_list = << >> /\ cursor = 0 /\ call.key # NULL
  BY <1>0, Facts, HashAssumption DEF Inv, PhaseOK, CallType
<1>2. /\ Held' = Held /\ Index' = Index /\ capacity \in Nat \ {0}
      /\ Index = 0..(capacity - 1) /\ list \in Seq(Index) /\ buckets \in [Index -> BucketType]
  BY <1>0, Facts DEF Held, Index
<1>3. /\ buckets'[entry] = [key |-> call.key, value |-> call.value]
      /\ \A j \in Index \ {entry} : buckets'[j] = buckets[j]
      /\ \A j \in Index : buckets'[j].key = buckets[j].key
      /\ buckets' \in [Index -> BucketType]
  <2>1. buckets[entry] \in BucketType /\ buckets[entry].key = call.key
    BY <1>1, <1>2
  <2>2. [buckets[entry] EXCEPT !.value = call.value] = [key |-> call.key, value |-> call.value]
    BY <2>1 DEF BucketType
  <2>3. [key |-> call.key, value |-> call.value] \in BucketType
    BY <1>1 DEF BucketType
  <2>4. buckets' = [buckets EXCEPT ![entry] = [key |-> call.key, value |-> call.value]]
    BY <1>0, <1>1, <1>2, <2>2
  <2> QED BY <1>1, <1>2, <2>3, <2>4
<1>4. BucketsOK'
  <2>1. buckets'[entry] \in LiveBucket
    BY <1>1, <1>3 DEF LiveBucket
  <2>2. \A j \in Held : buckets'[j] \in LiveBucket \/ buckets'[j] = Tombstone
    BY <1>0, <1>2, <1>3, <2>1, Facts DEF Inv, BucketsOK
  <2>3. \A j \in Index \ Held : buckets'[j] = Free
    BY <1>1, <1>3 DEF Inv, BucketsOK
  <2>4. \A a, b \in DOMAIN list : list[a] = list[b] => a = b
    BY DEF Inv, BucketsOK
  <2> QED BY <1>0, <1>2, <2>2, <2>3, <2>4 DEF BucketsOK
<1>5. ProbeOK'
  BY <1>0, <1>2, <1>3 DEF Inv, ProbeOK, Steps, Home
<1>6. /\ E = [a \in 1..Len(list) |-> buckets[list[a]]]
      /\ F = [a \in 1..Len(list) |-> buckets'[list[a]]]
      /\ \A a \in 1..Len(list) : list[a] \in Index
  BY <1>0, <1>1, <1>2, Facts, PlainEntries
<1>7. NoDup(E)
  BY DEF Inv
<1> HIDE DEF E, F
<1>8. /\ NoDup(F) /\ KeysIn(F) = KeysIn(E) /\ Order(F) = Order(E)
      /\ \A x \in KeysIn(E) : \E a \in DOMAIN E :
            E[a].key = x /\ At(E, x) = E[a] /\ At(F, x) = F[a]
  <2>1. DOMAIN F = DOMAIN E /\ \A a \in DOMAIN E : F[a].key = E[a].key
    BY <1>3, <1>6
  <2> QED BY <1>7, <2>1, SameKeys
<1>9. CountOK'
  <2>1. Dead' = Dead
    BY <1>0, <1>3, Facts DEF Dead
  <2> QED BY <1>0, <2>1 DEF Inv, CountOK
<1>10. TypeOK'
  BY <1>0, <1>2, <1>3 DEF Inv, TypeOK
<1>11. PhaseOK' /\ LoadOK'
  BY <1>0, <1>1 DEF Inv, PhaseOK, LoadOK
<1>12. UNCHANGED <<dict, before>>
  <2>1. before' = before
    BY <1>8, Maps DEF E, F
  <2>2. dict = [x \in KeysIn(E) |-> StoredValue(x, E)] /\ dict' = [x \in KeysIn(E) |-> StoredValue(x, E)']
    BY <1>8, Maps DEF E, F
  <2>3. \A x : StoredValue(x, E) = IF x = call.key THEN call.value ELSE At(E, x).value
    BY <1>0 DEF StoredValue
  <2>4. \A x : StoredValue(x, E)' = At(F, x).value
    BY <1>0 DEF StoredValue, At, E, F
  <2>5. ASSUME NEW x \in KeysIn(E) PROVE StoredValue(x, E)' = StoredValue(x, E)
    <3>1. PICK a \in DOMAIN E : E[a].key = x /\ At(E, x) = E[a] /\ At(F, x) = F[a]
      BY <1>8
    <3>2. /\ list[a] \in Index /\ E[a] = buckets[list[a]] /\ F[a] = buckets'[list[a]]
          /\ list[a] \in Held
      BY <1>6, Facts
    <3>3. CASE list[a] = entry
      <4>1. x = call.key /\ F[a].value = call.value
        BY <1>1, <1>3, <3>1, <3>2, <3>3
      <4> QED BY <2>3, <2>4, <3>1, <4>1
    <3>4. CASE list[a] # entry
      <4>1. F[a] = E[a]
        BY <1>3, <3>2, <3>4
      <4>2. PICK c \in 1..Len(list) : list[c] = entry
        BY <1>1, Facts
      <4>3. E[c].key = call.key /\ c # a /\ c \in DOMAIN E
        BY <1>1, <1>6, <3>4, <4>2
      <4>4. x # call.key
        BY <1>1, <1>7, <3>1, <4>3 DEF NoDup
      <4> QED BY <2>3, <2>4, <3>1, <4>1, <4>4
    <3> QED BY <3>3, <3>4
  <2> HIDE DEF StoredValue
  <2> QED BY <2>1, <2>2, <2>5
<1> QED BY <1>0, <1>4, <1>5, <1>8, <1>9, <1>10, <1>11, <1>12 DEF Inv, F

LEMMA RemoveStep ==
  ASSUME Inv, NEW k \in Key, hashmap_remove(k)
  PROVE  Inv' /\ D!Remove(k)
<1> DEFINE i == find_entry(k)
           E == Entries
           F == Entries'
<1>0. /\ pc = "idle" /\ out' = Nothing
      /\ capacity' = capacity /\ count' = count /\ tombstone_count' = tombstone_count
      /\ list' = list /\ old_list' = old_list /\ old_buckets' = old_buckets /\ cursor' = cursor
      /\ call' = call
  BY DEF hashmap_remove, resizeVars
<1>1. \/ /\ buckets[i].key # NULL /\ buckets' = [buckets EXCEPT ![i].key = NULL]
         /\ pc' = "bury" /\ entry' = i
      \/ buckets[i].key = NULL /\ buckets' = buckets /\ pc' = pc /\ entry' = entry
  BY DEF hashmap_remove
<1>2. /\ i \in Index
      /\ i \in Held => buckets[i].key = k /\ buckets[i] \in LiveBucket
      /\ i \notin Held => buckets[i] = Free /\ \A j \in Held : buckets[j].key # k
  BY <1>0, FindEntry
<1>3. /\ Held' = Held /\ Index' = Index /\ capacity \in Nat \ {0} /\ k # NULL
      /\ Index = 0..(capacity - 1) /\ list \in Seq(Index) /\ buckets \in [Index -> BucketType]
      /\ Len(list) \in Nat /\ DOMAIN list = 1..Len(list)
      /\ old_list = << >> /\ cursor = 0 /\ call = NoCall
  BY <1>0, Facts, HashAssumption DEF Held, Index, Inv, PhaseOK
<1>4. out' \in [found : BOOLEAN, value : Value \cup {0}]
  BY <1>0, OutType DEF Nothing
<1>5. DOMAIN dict = KeysIn(E) /\ before = Order(E) /\ before' = Order(F)
  BY Maps
<1>6. \A x \in KeysIn(E) : dict[x] = At(E, x).value
  BY <1>0, Maps DEF StoredValue
<1> HIDE DEF i
<1>7. CASE buckets[i].key = NULL
  <2>1. /\ buckets' = buckets /\ pc' = pc /\ entry' = entry /\ i \notin Held
        /\ UNCHANGED <<tableVars, resizeVars>>
    BY <1>0, <1>1, <1>2, <1>3, <1>7 DEF tableVars, resizeVars
  <2>2. /\ BucketsOK' /\ NoDup(Entries') /\ ProbeOK' /\ CountOK'
        /\ Held' = Held /\ Entries' = Entries
    BY <1>0, <2>1, TableKept
  <2>3. TypeOK'
    BY <1>0, <1>3, <1>4, <2>1 DEF Inv, TypeOK
  <2>4. PhaseOK' /\ LoadOK'
    BY <1>0, <2>1, <2>2 DEF Inv, PhaseOK, LoadOK
  <2>5. UNCHANGED <<dict, before>>
    BY <1>0, <2>1, <2>2, SameMaps
  <2>6. k \notin KeysIn(E)
    BY <1>0, <1>2, <2>1, NotThere
  <2>7. before = {pair \in before : k \notin {pair[1], pair[2]}}
    BY <1>5, <2>6 DEF Order
  <2>8. dict = [x \in KeysIn(E) |-> dict[x]] /\ KeysIn(E) \ {k} = KeysIn(E)
    BY <2>6, Maps
  <2> HIDE DEF E
  <2>9. D!Remove(k)
    BY <1>0, <1>5, <2>5, <2>7, <2>8 DEF D!Remove, D!Nothing, Nothing
  <2> QED BY <2>2, <2>3, <2>4, <2>9 DEF Inv
<1>8. CASE buckets[i].key # NULL
  <2>1. /\ buckets' = [buckets EXCEPT ![i].key = NULL] /\ pc' = "bury" /\ entry' = i
        /\ i \in Held /\ buckets[i].key = k
    BY <1>1, <1>2, <1>8 DEF Free
  <2>2. /\ buckets'[i].key = NULL
        /\ \A j \in Index \ {i} : buckets'[j] = buckets[j]
        /\ buckets' \in [Index -> BucketType]
    <3>1. buckets[i] \in BucketType
      BY <1>2, <1>3
    <3>2. [buckets[i] EXCEPT !.key = NULL] \in BucketType /\ [buckets[i] EXCEPT !.key = NULL].key = NULL
      BY <3>1 DEF BucketType
    <3>3. buckets' = [buckets EXCEPT ![i] = [buckets[i] EXCEPT !.key = NULL]]
      BY <1>2, <1>3, <2>1
    <3> QED BY <1>2, <1>3, <3>2, <3>3
  <2>3. BucketsOK'
    <3>1. \A j \in Held : j = i \/ buckets'[j] \in LiveBucket \/ buckets'[j] = Tombstone
      BY <1>0, <2>2, Facts DEF Inv, BucketsOK
    <3>2. \A j \in Index \ Held : buckets'[j] = Free
      BY <2>1, <2>2 DEF Inv, BucketsOK
    <3>3. \A a, b \in DOMAIN list : list[a] = list[b] => a = b
      BY DEF Inv, BucketsOK
    <3> QED BY <1>0, <1>3, <2>1, <3>1, <3>2, <3>3 DEF BucketsOK
  <2>4. ProbeOK'
    BY <1>0, <1>2, <1>3, <2>2 DEF Inv, ProbeOK, Steps, Home
  <2>5. /\ E = [a \in 1..Len(list) |-> buckets[list[a]]]
        /\ F = [a \in 1..Len(list) |-> buckets'[list[a]]]
        /\ \A a \in 1..Len(list) : list[a] \in Index
    BY <1>0, <1>3, Facts, PlainEntries
  <2>6. NoDup(E)
    BY DEF Inv
  <2>7. PICK c \in 1..Len(list) : list[c] = i
    BY <2>1, Facts
  <2>8. \A a \in 1..Len(list) : a # c => list[a] # i
    BY <1>3, <2>7 DEF Inv, BucketsOK
  <2> HIDE DEF E, F
  <2>9. /\ NoDup(F) /\ KeysIn(F) = KeysIn(E) \ {k}
        /\ Order(F) = {pair \in Order(E) : k \notin {pair[1], pair[2]}}
        /\ \A x \in KeysIn(F) : At(F, x) = At(E, x)
    <3>1. DOMAIN F = DOMAIN E /\ c \in DOMAIN E /\ E[c].key = k /\ F[c].key = NULL
      BY <2>1, <2>2, <2>5, <2>7
    <3>2. \A a \in DOMAIN E \ {c} : F[a] = E[a]
      BY <2>2, <2>5, <2>8
    <3> QED BY <1>3, <2>6, <3>1, <3>2, Removed
  <2>10. CountOK'
    <3>1. Dead' = Dead \cup {c}
      <4>1. \A a \in 1..Len(list) : a # c => buckets'[list[a]] = buckets[list[a]]
        BY <2>2, <2>5, <2>8
      <4> QED BY <1>0, <1>3, <2>2, <2>7, <4>1 DEF Dead
    <3>2. c \notin Dead
      BY <1>8, <2>7 DEF Dead
    <3>3. IsFiniteSet(Dead)
      <4>1. Dead \subseteq 1..Len(list)
        BY <1>3 DEF Dead
      <4> QED BY <1>3, <4>1, UpTo, FS_Subset
    <3>4. Cardinality(Dead') = Cardinality(Dead) + 1
      BY <3>1, <3>2, <3>3, FS_AddElement
    <3>5. Cardinality(Dead) = tombstone_count /\ tombstone_count \in Nat
      BY <1>0 DEF Inv, CountOK, TypeOK
    <3> QED BY <1>0, <2>1, <3>4, <3>5 DEF Inv, CountOK
  <2>11. TypeOK'
    BY <1>0, <1>2, <1>3, <1>4, <2>1, <2>2 DEF Inv, TypeOK
  <2>12. PhaseOK' /\ LoadOK'
    BY <1>0, <1>3, <2>1, <2>2 DEF Inv, PhaseOK, LoadOK
  <2>13. dict' = [x \in KeysIn(E) \ {k} |-> dict[x]]
    <3>1. dict' = [x \in KeysIn(F) |-> StoredValue(x, E)']
      BY Maps DEF E, F
    <3>2. \A x : StoredValue(x, E)' = At(F, x).value
      BY <2>1 DEF StoredValue, At, E, F
    <3>3. \A x \in KeysIn(F) : StoredValue(x, E)' = dict[x]
      BY <1>6, <2>9, <3>2
    <3> HIDE DEF StoredValue
    <3> QED BY <2>9, <3>1, <3>3
  <2>14. D!Remove(k)
    BY <1>0, <1>5, <2>9, <2>13 DEF D!Remove, D!Nothing, Nothing
  <2> QED BY <2>3, <2>4, <2>9, <2>10, <2>11, <2>12, <2>14 DEF Inv, F
<1> QED BY <1>7, <1>8

LEMMA BuryStep ==
  ASSUME Inv, BuryEntry
  PROVE  Inv' /\ UNCHANGED <<dict, before, out>>
<1> DEFINE E == Entries
           F == Entries'
<1>0. /\ pc = "bury" /\ buckets' = [buckets EXCEPT ![entry].value = DEAD]
      /\ pc' = "idle" /\ call' = NoCall /\ entry' = 0
      /\ capacity' = capacity /\ count' = count /\ tombstone_count' = tombstone_count + 1
      /\ list' = list /\ old_list' = old_list /\ cursor' = cursor /\ out' = out
  BY DEF BuryEntry, Return, resizeVars
<1>1. /\ entry \in Held /\ entry \in Index /\ buckets[entry].key = NULL
      /\ old_list = << >> /\ cursor = 0
  BY <1>0, Facts DEF Inv, PhaseOK
<1>2. /\ Held' = Held /\ Index' = Index /\ capacity \in Nat \ {0}
      /\ Index = 0..(capacity - 1) /\ list \in Seq(Index) /\ buckets \in [Index -> BucketType]
  BY <1>0, Facts DEF Held, Index
<1>3. /\ buckets'[entry] = Tombstone
      /\ \A j \in Index \ {entry} : buckets'[j] = buckets[j]
      /\ \A j \in Index : buckets'[j].key = buckets[j].key
      /\ buckets' \in [Index -> BucketType]
  <2>1. buckets[entry] \in BucketType /\ buckets[entry].key = NULL
    BY <1>1, <1>2
  <2>2. [buckets[entry] EXCEPT !.value = DEAD] = Tombstone
    BY <2>1 DEF BucketType, Tombstone
  <2>3. Tombstone \in BucketType /\ Tombstone.key = NULL
    BY DEF BucketType, Tombstone
  <2>4. buckets' = [buckets EXCEPT ![entry] = Tombstone]
    BY <1>0, <1>1, <1>2, <2>2
  <2> QED BY <1>1, <1>2, <2>1, <2>3, <2>4
<1>4. BucketsOK'
  <2>1. \A j \in Held : buckets'[j] \in LiveBucket \/ buckets'[j] = Tombstone
    BY <1>0, <1>2, <1>3, Facts DEF Inv, BucketsOK
  <2>2. \A j \in Index \ Held : buckets'[j] = Free
    BY <1>1, <1>3 DEF Inv, BucketsOK
  <2>3. \A a, b \in DOMAIN list : list[a] = list[b] => a = b
    BY DEF Inv, BucketsOK
  <2> QED BY <1>0, <1>2, <2>1, <2>2, <2>3 DEF BucketsOK
<1>5. ProbeOK'
  BY <1>0, <1>2, <1>3 DEF Inv, ProbeOK, Steps, Home
<1>6. /\ E = [a \in 1..Len(list) |-> buckets[list[a]]]
      /\ F = [a \in 1..Len(list) |-> buckets'[list[a]]]
      /\ \A a \in 1..Len(list) : list[a] \in Index
  BY <1>0, <1>1, <1>2, Facts, PlainEntries
<1>7. NoDup(E)
  BY DEF Inv
<1> HIDE DEF E, F
<1>8. /\ NoDup(F) /\ KeysIn(F) = KeysIn(E) /\ Order(F) = Order(E)
      /\ \A x \in KeysIn(E) : \E a \in DOMAIN E :
            E[a].key = x /\ At(E, x) = E[a] /\ At(F, x) = F[a]
  <2>1. DOMAIN F = DOMAIN E /\ \A a \in DOMAIN E : F[a].key = E[a].key
    BY <1>3, <1>6
  <2> QED BY <1>7, <2>1, SameKeys
<1>9. CountOK'
  <2>1. Dead' = Dead
    BY <1>0, <1>3, Facts DEF Dead
  <2> QED BY <1>0, <2>1 DEF Inv, CountOK, TypeOK
<1>10. TypeOK'
  BY <1>0, <1>2, <1>3 DEF Inv, TypeOK
<1>11. PhaseOK' /\ LoadOK'
  BY <1>0, <1>1 DEF Inv, PhaseOK, LoadOK
<1>12. UNCHANGED <<dict, before>>
  <2>1. before' = before
    BY <1>8, Maps DEF E, F
  <2>2. dict = [x \in KeysIn(E) |-> StoredValue(x, E)] /\ dict' = [x \in KeysIn(E) |-> StoredValue(x, E)']
    BY <1>8, Maps DEF E, F
  <2>3. \A x : StoredValue(x, E) = At(E, x).value
    BY <1>0 DEF StoredValue
  <2>4. \A x : StoredValue(x, E)' = At(F, x).value
    BY <1>0 DEF StoredValue, At, E, F
  <2>5. ASSUME NEW x \in KeysIn(E) PROVE StoredValue(x, E)' = StoredValue(x, E)
    <3>1. PICK a \in DOMAIN E : E[a].key = x /\ At(E, x) = E[a] /\ At(F, x) = F[a]
      BY <1>8
    <3>2. list[a] \in Index /\ E[a] = buckets[list[a]] /\ F[a] = buckets'[list[a]]
      BY <1>6
    <3>3. list[a] # entry
      BY <1>1, <3>1, <3>2 DEF KeysIn
    <3> QED BY <1>3, <2>3, <2>4, <3>1, <3>2, <3>3
  <2> HIDE DEF StoredValue
  <2> QED BY <2>1, <2>2, <2>5
<1> QED BY <1>0, <1>4, <1>5, <1>8, <1>9, <1>10, <1>11, <1>12 DEF Inv, F

LEMMA NextInv ==
  ASSUME Inv, [Next]_mapVars
  PROVE  Inv' /\ [D!Next]_<<dict, before, out>>
<1>1. CASE \E op \in {"set", "get_set"}, k \in Key, v \in Value : Call(op, k, v)
  BY <1>1, CallStep
<1>2. CASE hashmap_resize
  BY <1>2, StartResizeStep
<1>3. CASE RehashEntry
  BY <1>3, SkipTombstone, MoveEntry
<1>4. CASE ResizeDone
  BY <1>4, ResizeDoneStep
<1>5. CASE LinkEntry
  BY <1>5, LinkStep DEF Effect, CallType, D!Next
<1>6. CASE FoundEntry
  BY <1>6, FoundStep DEF Effect, CallType, D!Next
<1>7. CASE StoreValue
  BY <1>7, StoreStep
<1>8. CASE \E k \in Key : hashmap_get(k)
  BY <1>8, GetStep DEF D!Next
<1>9. CASE \E k \in Key : hashmap_remove(k)
  BY <1>9, RemoveStep DEF D!Next
<1>10. CASE BuryEntry
  BY <1>10, BuryStep
<1>11. CASE UNCHANGED mapVars
  <2>1. /\ capacity' = capacity /\ buckets' = buckets /\ count' = count /\ list' = list
        /\ tombstone_count' = tombstone_count /\ pc' = pc /\ call' = call /\ entry' = entry
        /\ old_buckets' = old_buckets /\ old_list' = old_list /\ cursor' = cursor /\ out' = out
    BY <1>11 DEF mapVars, tableVars, resizeVars
  <2>2. Held' = Held /\ Index' = Index /\ Entries' = Entries
    BY <2>1 DEF Held, Index, Entries
  <2>3. TypeOK' /\ BucketsOK'
    BY <2>1, <2>2 DEF Inv, TypeOK, BucketsOK
  <2>4. ProbeOK' /\ PhaseOK'
    BY <2>1, <2>2 DEF Inv, ProbeOK, PhaseOK, Steps, Home
  <2>5. LoadOK' /\ CountOK'
    BY <2>1 DEF Inv, LoadOK, CountOK, Dead, Pending
  <2>6. NoDup(Entries')
    BY <2>2 DEF Inv
  <2>7. UNCHANGED <<dict, before>>
    <3>1. \A k : StoredValue(k, Entries)' = StoredValue(k, Entries)
      BY <2>1, <2>2 DEF StoredValue, At
    <3> QED BY <2>2, <3>1, Maps
  <2> QED BY <2>1, <2>3, <2>4, <2>5, <2>6, <2>7 DEF Inv
<1> QED
  BY <1>1, <1>2, <1>3, <1>4, <1>5, <1>6, <1>7, <1>8, <1>9, <1>10, <1>11
  DEF Next, Progress, hashmap_set, hashmap_get_set

-----------------------------------------------------------------------------
(* The theorems.                                                           *)

THEOREM Invariance == Spec => []Inv
<1>1. Init => Inv
  BY InitInv
<1>2. Inv /\ [Next]_mapVars => Inv'
  BY NextInv
<1> QED BY <1>1, <1>2, PTL DEF Spec

(* Every variable of the table keeps its type: in particular the bucket a  *)
(* call works on is one of the array, through every resize.                *)
THEOREM TypeCorrect == Spec => []TypeOK
<1>1. Inv => TypeOK
  BY DEF Inv
<1> QED BY <1>1, Invariance, PTL

(* find_entry, resize_entry and hashmap_resize come to an end, for any hash *)
(* function and any capacity to begin with, although tombstones stay.      *)
THEOREM LoopsAlwaysEnd == Spec => []LoopsEnd
<1>1. Inv => LoopsEnd
  <2> SUFFICES ASSUME Inv PROVE LoopsEnd
    OBVIOUS
  <2>1. \E i \in Index : buckets[i] = Free
    <3>1. capacity \in Nat \ {0} /\ list \in Seq(Index) /\ Len(list) \in Nat
      BY Facts
    <3>2. Len(list) < capacity
      BY <3>1 DEF Inv, LoadOK
    <3>3. PICK i \in Index : i \notin Held
      BY <3>1, <3>2, FreeIndex
    <3> QED BY <3>3 DEF Inv, BucketsOK
  <2>2. pc = "rehash" => Len(old_list) > 0
    BY DEF Inv, PhaseOK
  <2> QED BY <2>1, <2>2 DEF LoopsEnd
<1> QED BY <1>1, Invariance, PTL

(* hashmap_size is the number of keys between calls. *)
THEOREM SizeIsRight == Spec => []SizeIsEntries
<1>1. Inv => SizeIsEntries
  <2> SUFFICES ASSUME Inv, pc = "idle" PROVE hashmap_size = Cardinality(LiveKeys)
    BY DEF SizeIsEntries
  <2> DEFINE Alive == DOMAIN list \ Dead
             f == [a \in Alive |-> buckets[list[a]].key]
  <2>1. /\ DOMAIN list = 1..Len(list) /\ Len(list) \in Nat
        /\ Entries = [a \in 1..Len(list) |-> buckets[list[a]]]
        /\ count = Len(list)
    BY Facts
  <2>2. IsFiniteSet(DOMAIN list) /\ Cardinality(DOMAIN list) = Len(list)
    BY <2>1, UpTo
  <2>3. Dead \subseteq DOMAIN list
    BY DEF Dead
  <2>4. Cardinality(Dead) = tombstone_count /\ tombstone_count \in Nat
    BY DEF Inv, CountOK, TypeOK
  <2>5. IsFiniteSet(Alive) /\ Cardinality(Alive) = count - tombstone_count
    <3>1. IsFiniteSet(Dead)
      BY <2>2, <2>3, FS_Subset
    <3>2. /\ IsFiniteSet(Alive)
          /\ Cardinality(Alive) = Cardinality(DOMAIN list) - Cardinality(DOMAIN list \cap Dead)
      BY <2>2, <3>1, FS_Difference
    <3>3. DOMAIN list \cap Dead = Dead
      BY <2>3
    <3> QED BY <2>1, <2>2, <2>4, <3>2, <3>3
  <2>6. f \in Bijection(Alive, LiveKeys)
    <3>1. \A a \in Alive : Entries[a].key = f[a] /\ f[a] # NULL /\ a \in DOMAIN Entries
      BY <2>1 DEF Dead
    <3>2. \A x \in LiveKeys : \E a \in Alive : f[a] = x
      <4> TAKE x \in LiveKeys
      <4>1. PICK a \in DOMAIN Entries : Entries[a].key = x /\ x # NULL
        BY DEF LiveKeys
      <4>2. a \in Alive
        BY <2>1, <4>1 DEF Dead
      <4> QED BY <3>1, <4>1, <4>2
    <3>3. \A a \in Alive : f[a] \in LiveKeys
      BY <3>1 DEF LiveKeys
    <3>4. \A a, b \in Alive : f[a] = f[b] => a = b
      BY <3>1 DEF Inv, NoDup
    <3>5. f \in [Alive -> LiveKeys]
      BY <3>3
    <3> HIDE DEF f, Alive
    <3>6. IsInjective(f)
      BY <3>4, <3>5 DEF IsInjective
    <3>7. f \in Injection(Alive, LiveKeys)
      BY <3>5, <3>6 DEF Injection
    <3>8. f \in Surjection(Alive, LiveKeys)
      BY <3>2, <3>5 DEF Surjection
    <3> QED BY <3>7, <3>8 DEF Bijection
  <2>7. Cardinality(LiveKeys) = Cardinality(Alive)
    <3>1. ExistsBijection(Alive, LiveKeys)
      BY <2>6 DEF ExistsBijection
    <3> QED BY <2>5, <3>1, FS_Bijection
  <2> QED BY <2>5, <2>7 DEF hashmap_size
<1> QED BY <1>1, Invariance, PTL

(* The table of map.c implements the dictionary of map.h: every step of it *)
(* is a step of Dictionary or changes nothing its callers can see.         *)
THEOREM DictionaryImplemented == Spec => ImplementsDictionary
<1>1. Init => D!Init
  BY InitInv
<1>2. Inv /\ [Next]_mapVars => [D!Next]_<<dict, before, out>>
  BY NextInv
<1> QED BY <1>1, <1>2, Invariance, PTL DEF Spec, ImplementsDictionary, D!Spec

=============================================================================
