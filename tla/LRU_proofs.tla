----------------------------- MODULE LRU_proofs -----------------------------
(***************************************************************************)
(* The inductive invariants of LRU and the theorems that rest on them, for *)
(* every capacity, every set of keys, every hash function and every table  *)
(* to begin with; and that LRU implements Cache.  What the map does is     *)
(* taken from HashMap_proofs.                                              *)
(***************************************************************************)
EXTENDS LRU, HashMap_proofs, NaturalsInduction

-----------------------------------------------------------------------------
(* The map as put_LRU and get_LRU see it: a call of hashmap_set counts     *)
(* from its beginning.                                                     *)

Called == pc \in {"resize", "rehash", "find"}
With(f, k, v) == [x \in DOMAIN f \cup {k} |-> IF x = k THEN v ELSE f[x]]
Less(f, k) == [x \in DOMAIN f \ {k} |-> f[x]]
content == IF Called THEN With(dict, call.key, call.value) ELSE dict

(* set_value_lr calls hashmap_set and nothing else that sets. *)
OnlySets == pc \in {"resize", "rehash", "find", "store"} => call.op = "set"

LEMMA AfterSet ==
  ASSUME Inv, NEW k \in Key, NEW v \in Value, hashmap_set(k, v)
  PROVE  /\ Inv' /\ OnlySets' /\ pc = "idle" /\ pc' \in {"resize", "find"}
         /\ content' = With(content, k, v)
<1>1. Inv' /\ dict' = dict
  BY CallStep DEF hashmap_set
<1>2. /\ pc = "idle" /\ pc' \in {"resize", "find"}
      /\ call' = [op |-> "set", key |-> k, value |-> v]
  BY DEF hashmap_set, Call
<1>3. content = dict /\ content' = With(dict, k, v)
  BY <1>1, <1>2 DEF content, Called, With
<1> QED BY <1>1, <1>2, <1>3 DEF OnlySets

LEMMA AfterGet ==
  ASSUME Inv, NEW k \in Key, hashmap_get(k)
  PROVE  /\ Inv' /\ OnlySets' /\ pc = "idle" /\ pc' = "idle" /\ content' = content
         /\ out' = IF k \in DOMAIN content THEN [found |-> TRUE, value |-> content[k]]
                   ELSE Nothing
<1>1. Inv' /\ D!Get(k)
  BY GetStep
<1>2. pc = "idle" /\ pc' = "idle"
  BY DEF hashmap_get
<1>3. content = dict /\ content' = dict'
  BY <1>2 DEF content, Called
<1> QED BY <1>1, <1>2, <1>3 DEF D!Get, D!Nothing, Nothing, OnlySets

LEMMA AfterRemove ==
  ASSUME Inv, NEW k \in Key, hashmap_remove(k)
  PROVE  /\ Inv' /\ OnlySets' /\ pc = "idle" /\ pc' \in {"idle", "bury"}
         /\ content' = Less(content, k)
<1>1. Inv' /\ D!Remove(k)
  BY RemoveStep
<1>2. pc = "idle" /\ pc' \in {"idle", "bury"}
  BY DEF hashmap_remove
<1>3. content = dict /\ content' = dict'
  BY <1>2 DEF content, Called
<1> QED BY <1>1, <1>2, <1>3 DEF D!Remove, Less, OnlySets

(* A call under way keeps the map as its caller sees it, through a resize, *)
(* the choice of the bucket and the store of the value.                    *)
LEMMA AfterProgress ==
  ASSUME Inv, OnlySets, Progress
  PROVE  Inv' /\ OnlySets' /\ pc # "idle" /\ content' = content
<1>1. ASSUME LinkEntry \/ FoundEntry
      PROVE  Inv' /\ OnlySets' /\ pc # "idle" /\ content' = content
  <2>1. Inv' /\ Effect /\ pc = "find" /\ call.op = "set"
    BY <1>1, LinkStep, FoundStep DEF LinkEntry, FoundEntry, OnlySets
  <2>2. pc' = "store" /\ call' = call
    BY <1>1, <2>1 DEF LinkEntry, FoundEntry
  <2>3. dict' = With(dict, call.key, call.value)
    BY <2>1 DEF Effect, D!Set, D!Added, D!GetSet, With
  <2> QED BY <2>1, <2>2, <2>3 DEF content, Called, OnlySets
<1>2. ASSUME hashmap_resize \/ RehashEntry \/ ResizeDone
      PROVE  Inv' /\ OnlySets' /\ pc # "idle" /\ content' = content
  <2>1. Inv' /\ dict' = dict
    BY <1>2, StartResizeStep, SkipTombstone, MoveEntry, ResizeDoneStep
  <2>2. Called /\ Called' /\ call' = call
    BY <1>2 DEF hashmap_resize, RehashEntry, ResizeDone, Called
  <2>3. content = With(dict, call.key, call.value) /\ content' = With(dict', call'.key, call'.value)
    BY <2>2 DEF content, With
  <2> QED BY <2>1, <2>2, <2>3 DEF Called, OnlySets
<1>3. ASSUME StoreValue \/ BuryEntry
      PROVE  Inv' /\ OnlySets' /\ pc # "idle" /\ content' = content
  <2>1. Inv' /\ dict' = dict
    BY <1>3, StoreStep, BuryStep
  <2>2. pc \in {"store", "bury"} /\ pc' = "idle"
    BY <1>3 DEF StoreValue, BuryEntry, Return
  <2> QED BY <2>1, <2>2 DEF content, Called, OnlySets
<1> QED BY <1>1, <1>2, <1>3 DEF Progress

-----------------------------------------------------------------------------
(* The list, node by node. *)

AnyNode == [slot : Nat, val : Int, prev : Nat, next : Nat]

(* A store to one pointer of one node. *)
NextSet(f, a, v) == [f EXCEPT ![a].next = v]
PrevSet(f, a, v) == [f EXCEPT ![a].prev = v]

LEMMA SetNext ==
  ASSUME NEW N \in Nat, NEW f \in [1..N -> AnyNode], NEW a \in 1..N, NEW v \in Nat
  PROVE  LET g == NextSet(f, a, v)
         IN  /\ g \in [1..N -> AnyNode]
             /\ \A i \in 1..N : /\ g[i].slot = f[i].slot /\ g[i].val = f[i].val
                                /\ g[i].next = IF i = a THEN v ELSE f[i].next
                                /\ g[i].prev = f[i].prev
<1> DEFINE r == [f[a] EXCEPT !.next = v]
           g == [f EXCEPT ![a] = r]
<1>1. f[a] \in AnyNode
  OBVIOUS
<1>2. /\ r \in AnyNode /\ r.slot = f[a].slot /\ r.val = f[a].val
      /\ r.next = v /\ r.prev = f[a].prev
  BY <1>1 DEF AnyNode
<1> HIDE DEF r
<1>3. g \in [1..N -> AnyNode] /\ \A i \in 1..N : g[i] = IF i = a THEN r ELSE f[i]
  BY <1>2
<1> HIDE DEF g
<1>4. \A i \in 1..N : /\ g[i].slot = f[i].slot /\ g[i].val = f[i].val
                      /\ g[i].next = IF i = a THEN v ELSE f[i].next
                      /\ g[i].prev = f[i].prev
  BY <1>2, <1>3
<1> QED BY <1>3, <1>4 DEF g, r, NextSet

LEMMA SetPrev ==
  ASSUME NEW N \in Nat, NEW f \in [1..N -> AnyNode], NEW a \in 1..N, NEW v \in Nat
  PROVE  LET g == PrevSet(f, a, v)
         IN  /\ g \in [1..N -> AnyNode]
             /\ \A i \in 1..N : /\ g[i].slot = f[i].slot /\ g[i].val = f[i].val
                                /\ g[i].prev = IF i = a THEN v ELSE f[i].prev
                                /\ g[i].next = f[i].next
<1> DEFINE r == [f[a] EXCEPT !.prev = v]
           g == [f EXCEPT ![a] = r]
<1>1. f[a] \in AnyNode
  OBVIOUS
<1>2. /\ r \in AnyNode /\ r.slot = f[a].slot /\ r.val = f[a].val
      /\ r.prev = v /\ r.next = f[a].next
  BY <1>1 DEF AnyNode
<1> HIDE DEF r
<1>3. g \in [1..N -> AnyNode] /\ \A i \in 1..N : g[i] = IF i = a THEN r ELSE f[i]
  BY <1>2
<1> HIDE DEF g
<1>4. \A i \in 1..N : /\ g[i].slot = f[i].slot /\ g[i].val = f[i].val
                      /\ g[i].prev = IF i = a THEN v ELSE f[i].prev
                      /\ g[i].next = f[i].next
  BY <1>2, <1>3
<1> QED BY <1>3, <1>4 DEF g, r, PrevSet

LEMMA AddedNode ==
  ASSUME NEW N \in Nat \ {0}, NEW nodes \in [1..N -> AnyNode], NEW new \in 2..N,
         nodes[Head_].next \in 1..N
  PROVE  LET added == addNode(nodes, new)
             first == nodes[Head_].next
         IN  /\ added \in [1..N -> AnyNode]
             /\ \A i \in 1..N :
                   /\ added[i].slot = nodes[i].slot /\ added[i].val = nodes[i].val
                   /\ added[i].next = IF i = Head_ THEN new
                                      ELSE IF i = new THEN first ELSE nodes[i].next
                   /\ added[i].prev = IF i = first THEN new
                                      ELSE IF i = new THEN Head_ ELSE nodes[i].prev
<1>1. PICK first : first = nodes[Head_].next
  OBVIOUS
<1>2. /\ Head_ = 1 /\ Head_ \in 1..N /\ Head_ \in Nat /\ Head_ # new
      /\ new \in 1..N /\ new \in Nat /\ first \in 1..N /\ first \in Nat
  BY <1>1 DEF Head_
<1>3. PICK one : one = NextSet(nodes, Head_, new)
  OBVIOUS
<1>4. /\ one \in [1..N -> AnyNode]
      /\ \A i \in 1..N : /\ one[i].slot = nodes[i].slot /\ one[i].val = nodes[i].val
                         /\ one[i].next = IF i = Head_ THEN new ELSE nodes[i].next
                         /\ one[i].prev = nodes[i].prev
  BY <1>2, <1>3, SetNext
<1>5. PICK two : two = PrevSet(one, new, Head_)
  OBVIOUS
<1>6. /\ two \in [1..N -> AnyNode]
      /\ \A i \in 1..N : /\ two[i].slot = one[i].slot /\ two[i].val = one[i].val
                         /\ two[i].next = one[i].next
                         /\ two[i].prev = IF i = new THEN Head_ ELSE one[i].prev
  <2>1. one \in [1..N -> AnyNode] /\ new \in 1..N /\ Head_ \in Nat
    BY <1>2, <1>4
  <2> QED BY <2>1, <1>5, SetPrev
<1>7. PICK three : three = NextSet(two, new, first)
  OBVIOUS
<1>8. /\ three \in [1..N -> AnyNode]
      /\ \A i \in 1..N : /\ three[i].slot = two[i].slot /\ three[i].val = two[i].val
                         /\ three[i].next = IF i = new THEN first ELSE two[i].next
                         /\ three[i].prev = two[i].prev
  <2>1. two \in [1..N -> AnyNode] /\ new \in 1..N /\ first \in Nat
    BY <1>2, <1>6
  <2> QED BY <2>1, <1>7, SetNext
<1>9. PICK four : four = PrevSet(three, first, new)
  OBVIOUS
<1>10. /\ four \in [1..N -> AnyNode]
       /\ \A i \in 1..N : /\ four[i].slot = three[i].slot /\ four[i].val = three[i].val
                          /\ four[i].next = three[i].next
                          /\ four[i].prev = IF i = first THEN new ELSE three[i].prev
  <2>1. three \in [1..N -> AnyNode] /\ first \in 1..N /\ new \in Nat
    BY <1>2, <1>8
  <2> QED BY <2>1, <1>9, SetPrev
<1>11. addNode(nodes, new) = four
  BY <1>1, <1>3, <1>5, <1>7, <1>9 DEF addNode, NextSet, PrevSet
<1>12. \A i \in 1..N :
          /\ four[i].slot = nodes[i].slot /\ four[i].val = nodes[i].val
          /\ four[i].next = IF i = Head_ THEN new
                            ELSE IF i = new THEN first ELSE nodes[i].next
          /\ four[i].prev = IF i = first THEN new
                            ELSE IF i = new THEN Head_ ELSE nodes[i].prev
  BY <1>2, <1>4, <1>6, <1>8, <1>10
<1> QED BY <1>1, <1>10, <1>11, <1>12

LEMMA DeletedNode ==
  ASSUME NEW N \in Nat, NEW nodes \in [1..N -> AnyNode], NEW delnode \in 1..N,
         nodes[delnode].prev \in 1..N, nodes[delnode].next \in 1..N
  PROVE  LET deleted == deleteNode(nodes, delnode)
             prevv == nodes[delnode].prev
             nextt == nodes[delnode].next
         IN  /\ deleted \in [1..N -> AnyNode]
             /\ \A i \in 1..N :
                   /\ deleted[i].slot = nodes[i].slot /\ deleted[i].val = nodes[i].val
                   /\ deleted[i].next = IF i = prevv THEN nextt ELSE nodes[i].next
                   /\ deleted[i].prev = IF i = nextt THEN prevv ELSE nodes[i].prev
<1>1. PICK prevv : prevv = nodes[delnode].prev
  OBVIOUS
<1>2. PICK nextt : nextt = nodes[delnode].next
  OBVIOUS
<1>3. prevv \in 1..N /\ prevv \in Nat /\ nextt \in 1..N /\ nextt \in Nat
  BY <1>1, <1>2
<1>4. PICK one : one = NextSet(nodes, prevv, nextt)
  OBVIOUS
<1>5. /\ one \in [1..N -> AnyNode]
      /\ \A i \in 1..N : /\ one[i].slot = nodes[i].slot /\ one[i].val = nodes[i].val
                         /\ one[i].next = IF i = prevv THEN nextt ELSE nodes[i].next
                         /\ one[i].prev = nodes[i].prev
  BY <1>3, <1>4, SetNext
<1>6. PICK two : two = PrevSet(one, nextt, prevv)
  OBVIOUS
<1>7. /\ two \in [1..N -> AnyNode]
      /\ \A i \in 1..N : /\ two[i].slot = one[i].slot /\ two[i].val = one[i].val
                         /\ two[i].next = one[i].next
                         /\ two[i].prev = IF i = nextt THEN prevv ELSE one[i].prev
  <2>1. one \in [1..N -> AnyNode] /\ nextt \in 1..N /\ prevv \in Nat
    BY <1>3, <1>5
  <2> QED BY <2>1, <1>6, SetPrev
<1>8. deleteNode(nodes, delnode) = two
  BY <1>1, <1>2, <1>4, <1>6 DEF deleteNode, NextSet, PrevSet
<1>9. \A i \in 1..N :
         /\ two[i].slot = nodes[i].slot /\ two[i].val = nodes[i].val
         /\ two[i].next = IF i = prevv THEN nextt ELSE nodes[i].next
         /\ two[i].prev = IF i = nextt THEN prevv ELSE nodes[i].prev
  BY <1>5, <1>7
<1> QED BY <1>1, <1>2, <1>7, <1>8, <1>9

(* A node more at the end of memory, in no list yet. *)
LEMMA NewNode ==
  ASSUME NEW N \in Nat, NEW nodes \in Seq(AnyNode), Len(nodes) = N,
         NEW s \in Nat, NEW v \in Int
  PROVE  LET grown == Append(nodes, Node(s, v, Nowhere, Nowhere))
         IN  /\ grown \in [1..(N + 1) -> AnyNode]
             /\ \A i \in 1..N : grown[i] = nodes[i]
             /\ grown[N + 1] = Node(s, v, Nowhere, Nowhere)
<1> DEFINE fresh == Node(s, v, Nowhere, Nowhere)
<1>1. fresh \in AnyNode
  BY DEF Node, Nowhere, AnyNode
<1> HIDE DEF fresh
<1>2. Append(nodes, fresh) \in Seq(AnyNode) /\ Len(Append(nodes, fresh)) = N + 1
  BY <1>1, AppendProperties
<1>3. /\ \A i \in 1..N : Append(nodes, fresh)[i] = nodes[i]
      /\ Append(nodes, fresh)[N + 1] = fresh
  BY <1>1, AppendProperties
<1>4. Append(nodes, fresh) \in [1..(N + 1) -> AnyNode]
  BY <1>2, LenProperties
<1> QED BY <1>3, <1>4 DEF fresh

NodeSet(N) == [slot : 0..MAX_ACC_PATHS, val : -1..MaxRegistrations, prev : 0..N, next : 0..N]
DataOf(nodes) == 3..Len(nodes)

(* What holds of the pointers however often a struct was filled again: no  *)
(* pointer of a node that is not an end leads nowhere, and an end that     *)
(* leads to the other end is not alone in that.                            *)
WellLinked(nodes) ==
    /\ nodes \in Seq(NodeSet(Len(nodes))) /\ Len(nodes) >= 2
    /\ \A d \in DataOf(nodes) :
          /\ nodes[d].slot \in Slot
          /\ nodes[d].prev \in DataOf(nodes) \cup {Head_}
          /\ nodes[d].next \in DataOf(nodes) \cup {Tail_}
    /\ nodes[Head_].next \in DataOf(nodes) \cup {Tail_}
    /\ nodes[Tail_].prev \in DataOf(nodes) \cup {Head_}
    /\ nodes[Tail_].prev = Head_ => nodes[Head_].next = Tail_

LEMMA LinkedTypes ==
  ASSUME NEW nodes, WellLinked(nodes)
  PROVE  /\ Len(nodes) \in Nat \ {0, 1} /\ DOMAIN nodes = 1..Len(nodes)
         /\ nodes \in [1..Len(nodes) -> AnyNode] /\ nodes \in Seq(AnyNode)
         /\ \A i \in 1..Len(nodes) : nodes[i] \in NodeSet(Len(nodes))
         /\ Head_ \in 1..Len(nodes) /\ Tail_ \in 1..Len(nodes)
         /\ DataOf(nodes) \subseteq 1..Len(nodes)
<1>1. /\ nodes \in Seq(NodeSet(Len(nodes))) /\ Len(nodes) >= 2
  BY DEF WellLinked
<1>2. PICK N \in Nat : N = Len(nodes)
  BY <1>1, LenProperties
<1>3. NodeSet(N) \subseteq AnyNode
  BY <1>2, SizeAssumption DEF NodeSet, AnyNode
<1>4. nodes \in [1..N -> NodeSet(N)] /\ DOMAIN nodes = 1..N
  BY <1>1, <1>2, LenProperties
<1>5. nodes \in [1..N -> AnyNode]
  BY <1>3, <1>4
<1>6. nodes \in Seq(AnyNode)
  BY <1>5, IsASeq
<1> QED BY <1>1, <1>2, <1>4, <1>5, <1>6 DEF Head_, Tail_, DataOf

(* Types that are known field by field. *)
LEMMA TypedNodes ==
  ASSUME NEW N \in Nat, NEW nodes \in [1..N -> AnyNode],
         \A i \in 1..N : /\ nodes[i].slot \in 0..MAX_ACC_PATHS
                         /\ nodes[i].val \in -1..MaxRegistrations
                         /\ nodes[i].prev \in 0..N /\ nodes[i].next \in 0..N
  PROVE  nodes \in Seq(NodeSet(Len(nodes))) /\ Len(nodes) = N
<1>1. ASSUME NEW r \in AnyNode, r.slot \in 0..MAX_ACC_PATHS,
             r.val \in -1..MaxRegistrations, r.prev \in 0..N, r.next \in 0..N
      PROVE  r \in NodeSet(N)
  <2>1. r = [slot |-> r.slot, val |-> r.val, prev |-> r.prev, next |-> r.next]
    BY DEF AnyNode
  <2> QED BY <1>1, <2>1 DEF NodeSet
<1>2. nodes \in [1..N -> NodeSet(N)]
  BY <1>1
<1>3. nodes \in Seq(NodeSet(N))
  BY <1>2, IsASeq
<1>4. Len(nodes) = N
  BY <1>2, <1>3, LenProperties
<1> QED BY <1>3, <1>4

LEMMA FieldTypes ==
  ASSUME NEW N \in Nat, NEW r \in NodeSet(N)
  PROVE  /\ r.slot \in 0..MAX_ACC_PATHS /\ r.val \in -1..MaxRegistrations
         /\ r.prev \in 0..N /\ r.next \in 0..N
  BY DEF NodeSet

(* deleteNode on a list that is not empty. *)
LEMMA DeleteKeeps ==
  ASSUME NEW nodes, WellLinked(nodes), NEW d \in DataOf(nodes), nodes[Tail_].prev # Head_
  PROVE  LET after == deleteNode(nodes, d)
         IN  WellLinked(after) /\ Len(after) = Len(nodes)
<1>1. PICK N : N = Len(nodes)
  OBVIOUS
<1>2. /\ N \in Nat \ {0, 1} /\ nodes \in [1..N -> AnyNode] /\ DataOf(nodes) = 3..N
      /\ Head_ = 1 /\ Tail_ = 2 /\ d \in 3..N
      /\ \A i \in 1..N : nodes[i] \in NodeSet(N)
  BY <1>1, LinkedTypes DEF DataOf, Head_, Tail_
<1>3. /\ \A i \in 3..N : /\ nodes[i].slot \in Slot /\ nodes[i].prev \in (3..N) \cup {Head_}
                         /\ nodes[i].next \in (3..N) \cup {Tail_}
      /\ nodes[Head_].next \in (3..N) \cup {Tail_}
      /\ nodes[Tail_].prev \in 3..N
  BY <1>2 DEF WellLinked
<1>4. PICK after : after = deleteNode(nodes, d)
  OBVIOUS
<1>5. PICK prevv, nextt : prevv = nodes[d].prev /\ nextt = nodes[d].next
  OBVIOUS
<1>6. prevv \in (3..N) \cup {Head_} /\ nextt \in (3..N) \cup {Tail_}
  BY <1>2, <1>3, <1>5
<1>7. /\ after \in [1..N -> AnyNode]
      /\ \A i \in 1..N :
            /\ after[i].slot = nodes[i].slot /\ after[i].val = nodes[i].val
            /\ after[i].next = IF i = prevv THEN nextt ELSE nodes[i].next
            /\ after[i].prev = IF i = nextt THEN prevv ELSE nodes[i].prev
  <2>1. d \in 1..N /\ nodes[d].prev \in 1..N /\ nodes[d].next \in 1..N
    BY <1>2, <1>5, <1>6
  <2> QED BY <1>2, <1>4, <1>5, <2>1, DeletedNode
<1>8. \A i \in 1..N : /\ after[i].slot \in 0..MAX_ACC_PATHS
                      /\ after[i].val \in -1..MaxRegistrations
                      /\ after[i].prev \in 0..N /\ after[i].next \in 0..N
  <2> TAKE i \in 1..N
  <2>1. /\ nodes[i].slot \in 0..MAX_ACC_PATHS /\ nodes[i].val \in -1..MaxRegistrations
        /\ nodes[i].prev \in 0..N /\ nodes[i].next \in 0..N
    BY <1>2, FieldTypes
  <2>2. prevv \in 0..N /\ nextt \in 0..N
    BY <1>2, <1>6
  <2> QED BY <1>7, <2>1, <2>2
<1>9. after \in Seq(NodeSet(Len(after))) /\ Len(after) = N
  BY <1>2, <1>7, <1>8, TypedNodes
<1>10. \A i \in 3..N : /\ after[i].slot \in Slot /\ after[i].prev \in (3..N) \cup {Head_}
                       /\ after[i].next \in (3..N) \cup {Tail_}
  <2> TAKE i \in 3..N
  <2>1. i \in 1..N
    BY <1>2
  <2>2. /\ nodes[i].slot \in Slot /\ nodes[i].prev \in (3..N) \cup {Head_}
        /\ nodes[i].next \in (3..N) \cup {Tail_}
    BY <1>3
  <2>3. after[i].slot \in Slot
    BY <1>7, <2>1, <2>2
  <2>4. ASSUME NEW f, f = IF i = prevv THEN nextt ELSE nodes[i].next
        PROVE  f \in (3..N) \cup {Tail_}
    BY <1>6, <2>2, <2>4
  <2>5. ASSUME NEW f, f = IF i = nextt THEN prevv ELSE nodes[i].prev
        PROVE  f \in (3..N) \cup {Head_}
    BY <1>6, <2>2, <2>5
  <2> QED BY <1>7, <2>1, <2>3, <2>4, <2>5
<1>11. /\ after[Head_].next \in (3..N) \cup {Tail_}
       /\ after[Tail_].prev \in (3..N) \cup {Head_}
       /\ after[Tail_].prev = Head_ => after[Head_].next = Tail_
  BY <1>2, <1>3, <1>6, <1>7
<1> QED BY <1>1, <1>2, <1>4, <1>9, <1>10, <1>11 DEF WellLinked, DataOf

(* addNode puts its node in front; the list is not empty then.  Its node   *)
(* may be new or one that was in the list.                                 *)
LEMMA AddKeeps ==
  ASSUME NEW N \in Nat \ {0, 1}, NEW nodes \in [1..N -> AnyNode], NEW d \in 3..N,
         \A i \in 1..N : nodes[i] \in NodeSet(N),
         \A i \in (3..N) \ {d} : /\ nodes[i].prev \in (3..N) \cup {Head_}
                                 /\ nodes[i].next \in (3..N) \cup {Tail_},
         \A i \in 3..N : nodes[i].slot \in Slot,
         nodes[Head_].next \in (3..N) \cup {Tail_},
         nodes[Tail_].prev \in (3..N) \cup {Head_},
         nodes[Tail_].prev = Head_ => nodes[Head_].next = Tail_
  PROVE  LET after == addNode(nodes, d)
         IN  /\ WellLinked(after) /\ Len(after) = N
             /\ after[Tail_].prev # Head_ /\ after[Head_].next = d
<1>1. PICK after : after = addNode(nodes, d)
  OBVIOUS
<1>2. PICK first : first = nodes[Head_].next
  OBVIOUS
<1>3. Head_ = 1 /\ Tail_ = 2 /\ first \in (3..N) \cup {Tail_} /\ N \in Nat \ {0}
  BY <1>2 DEF Head_, Tail_
<1>4. /\ after \in [1..N -> AnyNode]
      /\ \A i \in 1..N :
            /\ after[i].slot = nodes[i].slot /\ after[i].val = nodes[i].val
            /\ after[i].next = IF i = Head_ THEN d ELSE IF i = d THEN first ELSE nodes[i].next
            /\ after[i].prev = IF i = first THEN d ELSE IF i = d THEN Head_ ELSE nodes[i].prev
  <2>1. d \in 2..N /\ nodes[Head_].next \in 1..N
    BY <1>2, <1>3
  <2> QED BY <1>1, <1>2, <1>3, <2>1, AddedNode
<1>5. \A i \in 1..N : /\ after[i].slot \in 0..MAX_ACC_PATHS
                      /\ after[i].val \in -1..MaxRegistrations
                      /\ after[i].prev \in 0..N /\ after[i].next \in 0..N
  <2> TAKE i \in 1..N
  <2>1. /\ nodes[i].slot \in 0..MAX_ACC_PATHS /\ nodes[i].val \in -1..MaxRegistrations
        /\ nodes[i].prev \in 0..N /\ nodes[i].next \in 0..N
    BY FieldTypes
  <2>2. first \in 0..N /\ d \in 0..N /\ Head_ \in 0..N
    BY <1>3
  <2> QED BY <1>4, <2>1, <2>2
<1>6. after \in Seq(NodeSet(Len(after))) /\ Len(after) = N
  BY <1>4, <1>5, TypedNodes
<1>7. \A i \in 3..N : /\ after[i].slot \in Slot /\ after[i].prev \in (3..N) \cup {Head_}
                      /\ after[i].next \in (3..N) \cup {Tail_}
  BY <1>3, <1>4
<1>8. after[Head_].next = d /\ after[Tail_].prev \in 3..N
  BY <1>2, <1>3, <1>4
<1> QED BY <1>1, <1>3, <1>6, <1>7, <1>8 DEF WellLinked, DataOf

(* The node of put_LRU, and the node get_LRU moves. *)
LEMMA InsertKeeps ==
  ASSUME NEW nodes, WellLinked(nodes), NEW s \in Slot, NEW v \in -1..MaxRegistrations
  PROVE  LET new == Len(nodes) + 1
             after == addNode(Append(nodes, Node(s, v, Nowhere, Nowhere)), new)
         IN  /\ WellLinked(after) /\ Len(after) = new
             /\ after[Tail_].prev # Head_ /\ after[Head_].next = new
<1>1. PICK N : N = Len(nodes)
  OBVIOUS
<1>2. PICK grown : grown = Append(nodes, Node(s, v, Nowhere, Nowhere))
  OBVIOUS
<1>3. /\ N \in Nat \ {0, 1} /\ nodes \in Seq(AnyNode) /\ DataOf(nodes) = 3..N
      /\ Head_ = 1 /\ Tail_ = 2 /\ s \in Nat /\ v \in Int /\ N + 1 \in 3..(N + 1)
      /\ \A i \in 1..N : nodes[i] \in NodeSet(N)
  BY <1>1, LinkedTypes, SizeAssumption DEF DataOf, Head_, Tail_, Slot
<1>4. /\ grown \in [1..(N + 1) -> AnyNode] /\ \A i \in 1..N : grown[i] = nodes[i]
      /\ grown[N + 1] = Node(s, v, Nowhere, Nowhere)
  BY <1>1, <1>2, <1>3, NewNode
<1>5. \A i \in 1..(N + 1) : grown[i] \in NodeSet(N + 1)
  <2>1. NodeSet(N) \subseteq NodeSet(N + 1)
    BY <1>3 DEF NodeSet
  <2>2. Node(s, v, Nowhere, Nowhere) \in NodeSet(N + 1)
    BY <1>3, SizeAssumption DEF NodeSet, Node, Nowhere, Slot
  <2> QED BY <1>3, <1>4, <2>1, <2>2
<1>6. /\ \A i \in (3..(N + 1)) \ {N + 1} :
            /\ grown[i].prev \in (3..(N + 1)) \cup {Head_}
            /\ grown[i].next \in (3..(N + 1)) \cup {Tail_}
            /\ grown[i].slot \in Slot
      /\ grown[N + 1].slot \in Slot
      /\ grown[Head_].next \in (3..(N + 1)) \cup {Tail_}
      /\ grown[Tail_].prev \in (3..(N + 1)) \cup {Head_}
      /\ grown[Tail_].prev = Head_ => grown[Head_].next = Tail_
  <2>1. /\ \A i \in 3..N : /\ nodes[i].slot \in Slot /\ nodes[i].prev \in (3..N) \cup {Head_}
                           /\ nodes[i].next \in (3..N) \cup {Tail_}
        /\ nodes[Head_].next \in (3..N) \cup {Tail_}
        /\ nodes[Tail_].prev \in (3..N) \cup {Head_}
        /\ nodes[Tail_].prev = Head_ => nodes[Head_].next = Tail_
    BY <1>3 DEF WellLinked
  <2>2. /\ \A i \in 3..N : grown[i] = nodes[i]
        /\ grown[Head_] = nodes[Head_] /\ grown[Tail_] = nodes[Tail_]
    BY <1>3, <1>4
  <2>3. grown[N + 1].slot = s
    BY <1>4 DEF Node
  <2>4. \A i \in (3..(N + 1)) \ {N + 1} : i \in 3..N
    BY <1>3
  <2>5. (3..N) \subseteq 3..(N + 1)
    BY <1>3
  <2> QED BY <2>1, <2>2, <2>3, <2>4, <2>5
<1>7. /\ N + 1 \in Nat \ {0, 1} /\ N + 1 \in 3..(N + 1)
      /\ \A i \in 3..(N + 1) : grown[i].slot \in Slot
  BY <1>3, <1>6
<1> DEFINE after == addNode(grown, N + 1)
<1>8. /\ WellLinked(after) /\ Len(after) = N + 1
      /\ after[Tail_].prev # Head_ /\ after[Head_].next = N + 1
  BY <1>4, <1>5, <1>6, <1>7, AddKeeps
<1> QED BY <1>1, <1>2, <1>8

LEMMA MoveKeeps ==
  ASSUME NEW nodes, WellLinked(nodes), NEW d \in DataOf(nodes), nodes[Tail_].prev # Head_
  PROVE  LET after == addNode(deleteNode(nodes, d), d)
         IN  /\ WellLinked(after) /\ Len(after) = Len(nodes)
             /\ after[Tail_].prev # Head_ /\ after[Head_].next = d
<1>1. PICK cut : cut = deleteNode(nodes, d)
  OBVIOUS
<1>2. WellLinked(cut) /\ Len(cut) = Len(nodes)
  BY <1>1, DeleteKeeps
<1>3. PICK N : N = Len(cut)
  OBVIOUS
<1>4. /\ N \in Nat \ {0, 1} /\ cut \in [1..N -> AnyNode] /\ DataOf(cut) = 3..N /\ d \in 3..N
      /\ \A i \in 1..N : cut[i] \in NodeSet(N)
  BY <1>2, <1>3, LinkedTypes DEF DataOf
<1>5. /\ \A i \in (3..N) \ {d} : /\ cut[i].prev \in (3..N) \cup {Head_}
                                   /\ cut[i].next \in (3..N) \cup {Tail_}
      /\ \A i \in 3..N : cut[i].slot \in Slot
      /\ cut[Head_].next \in (3..N) \cup {Tail_}
      /\ cut[Tail_].prev \in (3..N) \cup {Head_}
      /\ cut[Tail_].prev = Head_ => cut[Head_].next = Tail_
  BY <1>2, <1>4 DEF WellLinked
<1> DEFINE after == addNode(cut, d)
<1>6. /\ WellLinked(after) /\ Len(after) = N
      /\ after[Tail_].prev # Head_ /\ after[Head_].next = d
  BY <1>4, <1>5, AddKeeps
<1> QED BY <1>1, <1>2, <1>3, <1>6

-----------------------------------------------------------------------------
(* The inductive invariant for any number of registrations: the texts      *)
(* behind the keys may have changed, the list and the map may disagree.    *)

Data == DataOf(node)

(* The list has a node whenever one may be taken out of it. *)
ListOK ==
    /\ WellLinked(node)
    /\ lpc \in {"idle", "put", "get", "again"} /\ Data # {}
          => node[Tail_].prev # Head_ /\ map_size >= 1
    /\ lpc = "evict" /\ map_size = capacity_lr => node[Tail_].prev # Head_
    /\ lpc = "insert" => map_size < capacity_lr
    /\ map_size > 0 => Data # {}
    /\ lpc = "again" => node[Head_].next \in Data

(* The map leads to nodes. *)
LeadsToData ==
    /\ OnlySets
    /\ \A k \in DOMAIN content : content[k] \in Data
    /\ lpc \in {"put", "get"} => pc = "idle" /\ (out.found => out.value \in Data)

(* A node for every path put so far, and memory for those to come. *)
Puts == IF slot = Waiting THEN received * MAX_ACC_PATHS
        ELSE (received - 1) * MAX_ACC_PATHS + slot
RoomOK ==
    /\ lpc \in {"put", "evict", "insert"} => slot # Waiting
    /\ slot # Waiting => received >= 1
    /\ Len(node) <= 2 + Puts
    /\ storage_server_count <= IF slot = Waiting THEN received ELSE received - 1

LRUInv == Inv /\ LRUTypeOK /\ ListOK /\ LeadsToData /\ RoomOK

LEMMA Sizes ==
  /\ capacity_lr \in Nat \ {0} /\ MAX_ACC_PATHS \in Nat /\ MaxRegistrations \in Nat
  /\ MaxLookups \in Nat /\ Slot = 0..(MAX_ACC_PATHS - 1) /\ Waiting = MAX_ACC_PATHS
  /\ \A a \in Nat : /\ a * MAX_ACC_PATHS \in Nat
                    /\ (a + 1) * MAX_ACC_PATHS = a * MAX_ACC_PATHS + MAX_ACC_PATHS
                    /\ a <= MaxRegistrations =>
                          a * MAX_ACC_PATHS <= MaxRegistrations * MAX_ACC_PATHS
<1>1. /\ capacity_lr \in Nat \ {0} /\ MAX_ACC_PATHS \in Nat /\ MaxRegistrations \in Nat
      /\ MaxLookups \in Nat
  BY SizeAssumption
<1>2. ASSUME NEW a \in Nat, NEW m \in Nat, NEW b \in Nat
      PROVE  a * m \in Nat /\ (a + 1) * m = a * m + m /\ (a <= b => a * m <= b * m)
  OBVIOUS
<1> QED BY <1>1, <1>2 DEF Slot, Waiting

LEMMA StateTypes ==
  ASSUME LRUTypeOK
  PROVE  /\ map_size \in 0..capacity_lr /\ map_size \in Nat /\ slot \in 0..MAX_ACC_PATHS
         /\ slot \in Nat /\ storage_server_count \in Nat /\ received \in Nat /\ lookups \in Nat
         /\ storage_server_count <= received /\ received <= MaxRegistrations
         /\ lookups <= MaxLookups /\ text \in [Slot -> Key]
         /\ slot # Waiting => slot \in Slot /\ text[slot] \in Key /\ slot < MAX_ACC_PATHS
         /\ got \in -1..MaxRegistrations
         /\ lpc \in {"idle", "put", "evict", "insert", "get", "again"}
  BY Sizes DEF LRUTypeOK

LEMMA NewAddress ==
  ASSUME LRUInv, slot # Waiting
  PROVE  Len(node) + 1 \in Value
<1>1. /\ Len(node) \in Nat \ {0, 1} /\ Len(node) <= 2 + Puts /\ received >= 1
      /\ received \in Nat /\ slot \in Nat /\ slot < MAX_ACC_PATHS /\ received <= MaxRegistrations
  BY LinkedTypes, StateTypes DEF LRUInv, RoomOK, ListOK
<1>2. Puts = (received - 1) * MAX_ACC_PATHS + slot
  BY DEF Puts
<1>3. PICK r \in Nat : r = received - 1
  BY <1>1
<1>4. /\ received * MAX_ACC_PATHS = r * MAX_ACC_PATHS + MAX_ACC_PATHS
      /\ received * MAX_ACC_PATHS <= MaxRegistrations * MAX_ACC_PATHS
      /\ r * MAX_ACC_PATHS \in Nat /\ MaxRegistrations * MAX_ACC_PATHS \in Nat
      /\ MAX_ACC_PATHS \in Nat
  <2>1. received = r + 1
    BY <1>1, <1>3
  <2> QED BY <1>1, <2>1, Sizes
<1>5. Puts = r * MAX_ACC_PATHS + slot
  BY <1>2, <1>3
<1>6. Puts < MaxRegistrations * MAX_ACC_PATHS
  BY <1>1, <1>4, <1>5
<1>7. Len(node) + 1 \in 1..(2 + MaxRegistrations * MAX_ACC_PATHS)
  BY <1>1, <1>4, <1>5, <1>6
<1> QED BY <1>7, SizeAssumption

LEMMA LRUInitInv == LRUInit => LRUInv
<1> SUFFICES ASSUME LRUInit PROVE LRUInv
  OBVIOUS
<1>1. /\ Inv /\ pc = "idle" /\ D!Init
      /\ text = [s \in Slot |-> Blank] /\ map_size = 0 /\ lpc = "idle" /\ slot = Waiting
      /\ storage_server_count = 0 /\ received = 0 /\ lookups = 0 /\ got = -1
  BY InitInv DEF LRUInit, Init
<1> DEFINE h == Node(Waiting, -1, Nowhere, Tail_)
           t == Node(Waiting, -1, Head_, Nowhere)
<1>2. node = <<h, t>>
  BY DEF LRUInit
<1>3. /\ h.slot = Waiting /\ h.val = -1 /\ h.prev = 0 /\ h.next = 2
      /\ t.slot = Waiting /\ t.val = -1 /\ t.prev = 1 /\ t.next = 0
      /\ h \in NodeSet(2) /\ t \in NodeSet(2)
  BY Sizes DEF Node, NodeSet, Nowhere, Head_, Tail_
<1> HIDE DEF h, t
<1>4. node \in Seq(NodeSet(2)) /\ Len(node) = 2 /\ node[1] = h /\ node[2] = t
  BY <1>2, <1>3
<1>5. WellLinked(node) /\ Data = {}
  BY <1>3, <1>4 DEF WellLinked, Data, DataOf, Head_, Tail_
<1>6. DOMAIN content = {} /\ OnlySets
  BY <1>1 DEF content, Called, D!Init, OnlySets
<1>7. 0 * MAX_ACC_PATHS \in Nat
  BY Sizes
<1>8. LRUTypeOK
  <2>1. TypeOK
    BY <1>1 DEF Inv
  <2>2. node \in Seq([slot : 0..MAX_ACC_PATHS, val : -1..MaxRegistrations,
                      prev : 0..Len(node), next : 0..Len(node)])
    BY <1>4 DEF NodeSet
  <2>3. text \in [Slot -> Key]
    BY <1>1, ExportAssumption
  <2> QED BY <1>1, <2>1, <2>2, <2>3, Sizes DEF LRUTypeOK
<1>9. ListOK
  BY <1>1, <1>5, Sizes DEF ListOK
<1>10. LeadsToData /\ RoomOK
  BY <1>1, <1>4, <1>6, <1>7, Sizes DEF LeadsToData, RoomOK, Puts
<1> QED BY <1>1, <1>8, <1>9, <1>10 DEF LRUInv

LEMMA TypesAgain ==
  ASSUME Inv', WellLinked(node'), text' \in [Slot -> Key], map_size' \in 0..capacity_lr,
         lpc' \in {"idle", "put", "evict", "insert", "get", "again"},
         slot' \in 0..MAX_ACC_PATHS, storage_server_count' \in 0..received',
         received' \in 0..MaxRegistrations, lookups' \in 0..MaxLookups,
         got' \in -1..MaxRegistrations
  PROVE  LRUTypeOK'
<1>1. TypeOK'
  BY DEF Inv
<1>2. node' \in Seq([slot : 0..MAX_ACC_PATHS, val : -1..MaxRegistrations,
                     prev : 0..Len(node'), next : 0..Len(node')])
  BY DEF WellLinked, NodeSet
<1> QED BY <1>1, <1>2 DEF LRUTypeOK

LEMMA MapKept ==
  ASSUME Inv, OnlySets, UNCHANGED mapVars
  PROVE  /\ Inv' /\ OnlySets' /\ content' = content /\ out' = out /\ pc' = pc
<1>1. Inv' /\ dict' = dict
  <2>1. Inv' /\ [D!Next]_<<dict, before, out>>
    BY NextInv
  <2>2. Entries' = Entries /\ pc' = pc /\ call' = call
    BY DEF mapVars, tableVars, resizeVars, Entries
  <2>3. \A k : StoredValue(k, Entries)' = StoredValue(k, Entries)
    BY <2>2 DEF StoredValue, At
  <2> QED BY <2>1, <2>2, <2>3, Maps
<1>2. out' = out /\ pc' = pc /\ call' = call
  BY DEF mapVars
<1>3. content' = content
  BY <1>1, <1>2 DEF content, Called, With
<1> QED BY <1>1, <1>2, <1>3 DEF OnlySets

LEMMA ReceivedStep ==
  ASSUME LRUInv, NEW x \in Export, Register(x) \/ Refuse(x)
  PROVE  LRUInv'
<1>0. /\ LRUTypeOK /\ Inv /\ ListOK /\ RoomOK /\ OnlySets /\ LeadsToData
  BY DEF LRUInv, LeadsToData
<1>1. /\ slot = Waiting /\ received < MaxRegistrations /\ received' = received + 1
      /\ text' = [s \in Slot |-> IF s < Len(x) THEN x[s + 1] ELSE Blank]
      /\ UNCHANGED mapVars /\ node' = node /\ map_size' = map_size /\ lpc' = lpc
      /\ storage_server_count' = storage_server_count /\ lookups' = lookups /\ got' = got
      /\ slot' \in {0, slot}
  BY DEF Register, Refuse, Received
<1>2. /\ Inv' /\ OnlySets' /\ content' = content /\ out' = out /\ pc' = pc
  BY <1>0, <1>1, MapKept
<1>3. x \in Seq(Key \ {Blank}) /\ Len(x) \in 1..MAX_ACC_PATHS /\ Blank \in Key
  BY ExportAssumption
<1>4. text' \in [Slot -> Key]
  <2>1. \A s \in Slot : s < Len(x) => x[s + 1] \in Key
    BY <1>3, ElementOfSeq, Sizes
  <2> QED BY <1>1, <1>3, <2>1
<1>5. /\ map_size \in 0..capacity_lr /\ slot \in 0..MAX_ACC_PATHS /\ received \in Nat
      /\ storage_server_count \in Nat /\ storage_server_count <= received
      /\ lookups \in 0..MaxLookups /\ got \in -1..MaxRegistrations
      /\ lpc \in {"idle", "put", "evict", "insert", "get", "again"}
  BY <1>0, StateTypes
<1>6. slot' \in 0..MAX_ACC_PATHS /\ 0 # Waiting /\ Waiting = MAX_ACC_PATHS
  BY <1>1, <1>3, <1>5, Sizes
<1>7. LRUTypeOK'
  <2>1. WellLinked(node')
    BY <1>0, <1>1 DEF ListOK
  <2>2. /\ received' \in 0..MaxRegistrations /\ storage_server_count' \in 0..received'
        /\ map_size' \in 0..capacity_lr /\ lookups' \in 0..MaxLookups
        /\ got' \in -1..MaxRegistrations
        /\ lpc' \in {"idle", "put", "evict", "insert", "get", "again"}
    BY <1>1, <1>5, Sizes
  <2> QED BY <1>2, <1>4, <1>6, <2>1, <2>2, TypesAgain
<1>8. ListOK'
  BY <1>0, <1>1 DEF ListOK, Data
<1>9. LeadsToData'
  BY <1>0, <1>1, <1>2 DEF LeadsToData, Data
<1>10. RoomOK'
  <2>1. /\ Puts = received * MAX_ACC_PATHS
        /\ received' * MAX_ACC_PATHS = received * MAX_ACC_PATHS + MAX_ACC_PATHS
        /\ received' - 1 = received /\ received * MAX_ACC_PATHS \in Nat
    BY <1>1, <1>5, Sizes DEF Puts
  <2>2. Len(node') = Len(node) /\ Len(node) \in Nat
    BY <1>0, <1>1, LinkedTypes DEF ListOK
  <2>3. slot' = 0 => Puts' = received * MAX_ACC_PATHS + 0
    BY <1>6, <2>1 DEF Puts
  <2>4. slot' = Waiting => Puts' = received * MAX_ACC_PATHS + MAX_ACC_PATHS
    BY <2>1 DEF Puts
  <2>5. Puts <= Puts'
    BY <1>1, <2>1, <2>3, <2>4, Sizes
  <2>6. lpc' \notin {"put", "evict", "insert"}
    BY <1>0, <1>1 DEF RoomOK
  <2>7. /\ slot' # Waiting => received' >= 1
        /\ storage_server_count' <= IF slot' = Waiting THEN received' ELSE received' - 1
    BY <1>1, <1>5
  <2>8. Len(node') <= 2 + Puts'
    <3>1. Len(node) <= 2 + Puts /\ Puts \in Nat /\ Puts' \in Nat
      BY <1>0, <1>1, <2>1, <2>3, <2>4, Sizes DEF RoomOK
    <3> QED BY <2>2, <2>5, <3>1
  <2> QED BY <2>6, <2>7, <2>8 DEF RoomOK
<1> QED BY <1>2, <1>7, <1>8, <1>9, <1>10 DEF LRUInv

(* What the steps of put_LRU and get_LRU that add no node leave alone. *)
LEMMA RestKept ==
  ASSUME LRUInv, Inv', WellLinked(node'), Len(node') = Len(node), text' = text, slot' = slot,
         storage_server_count' = storage_server_count, received' = received,
         map_size' \in 0..capacity_lr, lookups' \in 0..MaxLookups, got' \in -1..MaxRegistrations,
         lpc' \in {"idle", "put", "evict", "insert", "get", "again"},
         lpc' \in {"put", "evict", "insert"} => slot # Waiting
  PROVE  LRUTypeOK' /\ RoomOK' /\ Data' = Data
<1>1. LRUTypeOK /\ RoomOK
  BY DEF LRUInv
<1>2. LRUTypeOK'
  <2>1. /\ text' \in [Slot -> Key] /\ slot' \in 0..MAX_ACC_PATHS
        /\ storage_server_count' \in 0..received' /\ received' \in 0..MaxRegistrations
    BY <1>1, StateTypes, Sizes
  <2> QED BY <2>1, TypesAgain
<1>3. Puts' = Puts
  BY DEF Puts
<1> QED BY <1>1, <1>2, <1>3 DEF RoomOK, Data, DataOf

LEMMA InvParts ==
  ASSUME LRUInv
  PROVE  /\ Inv /\ LRUTypeOK /\ WellLinked(node) /\ OnlySets /\ ListOK /\ LeadsToData /\ RoomOK
         /\ map_size \in 0..capacity_lr /\ map_size \in Nat /\ lookups \in 0..MaxLookups
         /\ got \in -1..MaxRegistrations /\ Data \subseteq 1..Len(node)
         /\ Len(node) \in Nat \ {0, 1}
<1>1. LRUTypeOK /\ WellLinked(node)
  BY DEF LRUInv, ListOK
<1> QED BY <1>1, StateTypes, LinkedTypes, Sizes DEF LRUInv, LeadsToData, Data

LEMMA LookupStep ==
  ASSUME LRUInv, PutLookup \/ GetLookup
  PROVE  LRUInv'
<1>0. /\ Inv /\ WellLinked(node) /\ ListOK /\ LeadsToData
      /\ map_size \in 0..capacity_lr /\ lookups \in 0..MaxLookups /\ got \in -1..MaxRegistrations
  BY InvParts
<1>1. /\ lpc = "idle" /\ lpc' \in {"put", "get"} /\ (lpc' = "put" => slot # Waiting)
      /\ text' = text /\ node' = node /\ map_size' = map_size /\ slot' = slot
      /\ storage_server_count' = storage_server_count /\ received' = received /\ got' = got
      /\ lookups' \in 0..MaxLookups
  <2>1. CASE PutLookup
    BY <1>0, <2>1 DEF PutLookup
  <2>2. CASE GetLookup
    BY <1>0, <2>2, Sizes DEF GetLookup
  <2> QED BY <2>1, <2>2
<1>2. PICK k \in Key : hashmap_get(k)
  <2>1. CASE PutLookup
    BY <2>1, StateTypes DEF PutLookup, LRUInv
  <2>2. CASE GetLookup
    BY <2>2, ExportAssumption DEF GetLookup
  <2> QED BY <2>1, <2>2
<1>3. /\ Inv' /\ OnlySets' /\ pc' = "idle" /\ content' = content
      /\ out' = IF k \in DOMAIN content THEN [found |-> TRUE, value |-> content[k]] ELSE Nothing
  BY <1>0, <1>2, AfterGet
<1>4. LRUTypeOK' /\ RoomOK' /\ Data' = Data
  BY <1>0, <1>1, <1>3, RestKept
<1>5. ListOK'
  BY <1>0, <1>1, <1>4 DEF ListOK
<1>6. LeadsToData'
  BY <1>0, <1>3, <1>4 DEF LeadsToData, Nothing
<1> QED BY <1>3, <1>4, <1>5, <1>6 DEF LRUInv

LEMMA DropStep ==
  ASSUME LRUInv, PutDrop
  PROVE  LRUInv'
<1>0. /\ Inv /\ WellLinked(node) /\ ListOK /\ LeadsToData
      /\ map_size \in 0..capacity_lr /\ lookups \in 0..MaxLookups /\ got \in -1..MaxRegistrations
      /\ map_size \in Nat /\ slot # Waiting
  BY InvParts DEF RoomOK, PutDrop
<1>1. /\ lpc = "put" /\ lpc' = "evict" /\ map_size' = map_size - 1 /\ out.found
      /\ node' = deleteNode(node, out.value) /\ hashmap_remove(text[slot])
      /\ text' = text /\ slot' = slot /\ storage_server_count' = storage_server_count
      /\ received' = received /\ lookups' = lookups /\ got' = got
  BY DEF PutDrop
<1>2. /\ out.value \in Data /\ node[Tail_].prev # Head_ /\ map_size >= 1
  BY <1>0, <1>1 DEF LeadsToData, ListOK
<1>3. WellLinked(node') /\ Len(node') = Len(node)
  BY <1>0, <1>1, <1>2, DeleteKeeps DEF Data
<1>4. text[slot] \in Key
  BY <1>0, StateTypes DEF LRUInv
<1>5. /\ Inv' /\ OnlySets' /\ content' = Less(content, text[slot])
  BY <1>0, <1>1, <1>4, AfterRemove
<1>6. map_size' \in 0..capacity_lr /\ map_size' # capacity_lr
  BY <1>0, <1>1, <1>2, Sizes
<1>7. LRUTypeOK' /\ RoomOK' /\ Data' = Data
  BY <1>0, <1>1, <1>3, <1>5, <1>6, RestKept
<1>8. ListOK'
  BY <1>1, <1>2, <1>3, <1>6, <1>7 DEF ListOK
<1>9. LeadsToData'
  BY <1>0, <1>1, <1>5, <1>7 DEF LeadsToData, Less
<1> QED BY <1>5, <1>7, <1>8, <1>9 DEF LRUInv

LEMMA AbsentStep ==
  ASSUME LRUInv, PutAbsent
  PROVE  LRUInv'
<1>0. /\ Inv /\ WellLinked(node) /\ ListOK /\ LeadsToData /\ OnlySets
      /\ map_size \in 0..capacity_lr /\ lookups \in 0..MaxLookups /\ got \in -1..MaxRegistrations
      /\ slot # Waiting
  BY InvParts DEF RoomOK, PutAbsent
<1>1. /\ lpc = "put" /\ lpc' = "evict" /\ map_size' = map_size /\ UNCHANGED mapVars
      /\ node' = node /\ text' = text /\ slot' = slot
      /\ storage_server_count' = storage_server_count
      /\ received' = received /\ lookups' = lookups /\ got' = got
  BY DEF PutAbsent
<1>2. /\ Inv' /\ OnlySets' /\ content' = content
  BY <1>0, <1>1, MapKept
<1>3. LRUTypeOK' /\ RoomOK' /\ Data' = Data
  BY <1>0, <1>1, <1>2, RestKept
<1>4. ListOK'
  BY <1>0, <1>1, <1>3, Sizes DEF ListOK
<1>5. LeadsToData'
  BY <1>0, <1>1, <1>2, <1>3 DEF LeadsToData
<1> QED BY <1>2, <1>3, <1>4, <1>5 DEF LRUInv

LEMMA EvictStep ==
  ASSUME LRUInv, PutEvict
  PROVE  LRUInv'
<1> DEFINE last == node[Tail_].prev
<1>0. /\ Inv /\ WellLinked(node) /\ ListOK /\ LeadsToData
      /\ lookups \in 0..MaxLookups /\ got \in -1..MaxRegistrations /\ slot # Waiting
  BY InvParts DEF RoomOK, PutEvict
<1>1. /\ lpc = "evict" /\ lpc' = "insert" /\ map_size = capacity_lr /\ map_size' = map_size - 1
      /\ node' = deleteNode(node, last) /\ hashmap_remove(text[node[last].slot])
      /\ text' = text /\ slot' = slot /\ storage_server_count' = storage_server_count
      /\ received' = received /\ lookups' = lookups /\ got' = got
  BY DEF PutEvict
<1>2. last # Head_ /\ last \in Data /\ node[last].slot \in Slot
  BY <1>0, <1>1 DEF ListOK, WellLinked, Data
<1>3. WellLinked(node') /\ Len(node') = Len(node)
  BY <1>0, <1>1, <1>2, DeleteKeeps DEF Data
<1>4. text[node[last].slot] \in Key
  BY <1>2, StateTypes DEF LRUInv
<1>5. /\ Inv' /\ OnlySets' /\ content' = Less(content, text[node[last].slot])
  BY <1>0, <1>1, <1>4, AfterRemove
<1>6. map_size' \in 0..capacity_lr /\ map_size' < capacity_lr
  BY <1>1, Sizes
<1>7. LRUTypeOK' /\ RoomOK' /\ Data' = Data
  BY <1>0, <1>1, <1>3, <1>5, <1>6, RestKept
<1>8. ListOK'
  BY <1>1, <1>2, <1>3, <1>6, <1>7 DEF ListOK
<1>9. LeadsToData'
  BY <1>0, <1>1, <1>5, <1>7 DEF LeadsToData, Less
<1> QED BY <1>5, <1>7, <1>8, <1>9 DEF LRUInv

LEMMA InsertStep ==
  ASSUME LRUInv, PutInsert
  PROVE  LRUInv'
<1> DEFINE new == Len(node) + 1
<1>0. /\ Inv /\ WellLinked(node) /\ ListOK /\ LeadsToData /\ LRUTypeOK /\ RoomOK
      /\ map_size \in 0..capacity_lr /\ lookups \in 0..MaxLookups /\ got \in -1..MaxRegistrations
      /\ Len(node) \in Nat \ {0, 1}
  BY InvParts
<1>1. /\ lpc = "insert" \/ (lpc = "evict" /\ map_size # capacity_lr)
      /\ lpc' = "idle" /\ map_size' = map_size + 1 /\ hashmap_set(text[slot], new)
      /\ node' = addNode(Append(node, Node(slot, storage_server_count, Nowhere, Nowhere)), new)
      /\ slot' = slot + 1 /\ text' = text /\ received' = received /\ lookups' = lookups
      /\ got' = got
      /\ storage_server_count' = IF slot' = Waiting THEN storage_server_count + 1
                                 ELSE storage_server_count
  BY DEF PutInsert
<1>2. /\ slot # Waiting /\ slot \in Slot /\ slot \in Nat /\ text[slot] \in Key
      /\ slot < MAX_ACC_PATHS /\ received >= 1 /\ received \in Nat
      /\ received <= MaxRegistrations /\ storage_server_count \in Nat
      /\ storage_server_count <= received - 1
  BY <1>0, <1>1, StateTypes DEF RoomOK
<1>3. storage_server_count \in -1..MaxRegistrations
  BY <1>2, Sizes
<1>4. /\ WellLinked(node') /\ Len(node') = new
      /\ node'[Tail_].prev # Head_ /\ node'[Head_].next = new
  BY <1>0, <1>1, <1>2, <1>3, InsertKeeps
<1>5. new \in Value
  BY <1>2, NewAddress
<1>6. /\ Inv' /\ OnlySets' /\ pc' \in {"resize", "find"}
      /\ content' = With(content, text[slot], new)
  BY <1>0, <1>1, <1>2, <1>5, AfterSet
<1>7. map_size' \in 0..capacity_lr /\ map_size' >= 1
  BY <1>0, <1>1, Sizes DEF ListOK
<1>8. Data' = 3..new /\ Data = 3..Len(node)
  BY <1>4 DEF Data, DataOf
<1>9. LRUTypeOK'
  <2>1. text \in [Slot -> Key]
    BY <1>0, StateTypes
  <2>2. slot' \in 0..MAX_ACC_PATHS
    BY <1>1, <1>2, Sizes
  <2>3. storage_server_count' \in 0..received' /\ received' \in 0..MaxRegistrations
    BY <1>1, <1>2
  <2> QED BY <1>0, <1>1, <1>4, <1>6, <1>7, <2>1, <2>2, <2>3, TypesAgain
<1>10. ListOK'
  <2>1. Data' # {}
    BY <1>0, <1>8
  <2> QED BY <1>1, <1>4, <1>7, <2>1 DEF ListOK
<1>11. LeadsToData'
  <2>1. \A k \in DOMAIN content' : content'[k] \in Data'
    <3>1. ASSUME NEW n \in Nat \ {0, 1} PROVE n + 1 \in 3..(n + 1) /\ 3..n \subseteq 3..(n + 1)
      OBVIOUS
    <3>2. Len(node) \in Nat \ {0, 1}
      BY InvParts
    <3>3. new \in Data' /\ Data \subseteq Data'
      BY <1>8, <3>1, <3>2
    <3> QED BY <1>0, <1>6, <3>3 DEF With, LeadsToData
  <2> QED BY <1>1, <1>6, <2>1 DEF LeadsToData
<1>12. RoomOK'
  <2>1. Puts = (received - 1) * MAX_ACC_PATHS + slot
    BY <1>2 DEF Puts
  <2>2. PICK r \in Nat : r = received - 1
    BY <1>2
  <2>3. /\ received * MAX_ACC_PATHS = r * MAX_ACC_PATHS + MAX_ACC_PATHS
        /\ r * MAX_ACC_PATHS \in Nat /\ MAX_ACC_PATHS \in Nat /\ Waiting = MAX_ACC_PATHS
    <3>1. received = r + 1
      BY <1>2, <2>2
    <3> QED BY <3>1, Sizes
  <2>4. Puts = r * MAX_ACC_PATHS + slot
    BY <2>1, <2>2
  <2>5. Puts' = r * MAX_ACC_PATHS + slot'
    <3>1. CASE slot' = Waiting
      BY <1>1, <2>3, <3>1 DEF Puts
    <3>2. CASE slot' # Waiting
      <4>1. Puts' = (received - 1) * MAX_ACC_PATHS + slot'
        BY <1>1, <3>2 DEF Puts
      <4> QED BY <2>2, <4>1
    <3> QED BY <3>1, <3>2
  <2>6. Len(node') <= 2 + Puts'
    <3>1. Len(node) <= 2 + Puts
      BY <1>0 DEF RoomOK
    <3> QED BY <1>0, <1>1, <1>2, <1>4, <2>3, <2>4, <2>5, <3>1
  <2>7. storage_server_count' <= IF slot' = Waiting THEN received' ELSE received' - 1
    BY <1>1, <1>2
  <2> QED BY <1>1, <1>2, <2>6, <2>7 DEF RoomOK
<1> QED BY <1>6, <1>9, <1>10, <1>11, <1>12 DEF LRUInv

LEMMA MissStep ==
  ASSUME LRUInv, GetMiss
  PROVE  LRUInv'
<1>0. /\ Inv /\ WellLinked(node) /\ ListOK /\ LeadsToData /\ OnlySets
      /\ map_size \in 0..capacity_lr /\ lookups \in 0..MaxLookups
  BY InvParts
<1>1. /\ lpc = "get" /\ lpc' = "idle" /\ map_size' = map_size /\ UNCHANGED mapVars
      /\ node' = node /\ text' = text /\ slot' = slot
      /\ storage_server_count' = storage_server_count
      /\ received' = received /\ lookups' = lookups /\ got' = -1
  BY DEF GetMiss
<1>2. /\ Inv' /\ OnlySets' /\ content' = content
  BY <1>0, <1>1, MapKept
<1>3. LRUTypeOK' /\ RoomOK' /\ Data' = Data
  <2>1. got' \in -1..MaxRegistrations
    BY <1>1, Sizes
  <2> QED BY <1>0, <1>1, <1>2, <2>1, RestKept
<1>4. ListOK'
  BY <1>0, <1>1, <1>3 DEF ListOK
<1>5. LeadsToData'
  BY <1>0, <1>1, <1>2, <1>3 DEF LeadsToData
<1> QED BY <1>2, <1>3, <1>4, <1>5 DEF LRUInv

LEMMA HitStep ==
  ASSUME LRUInv, GetHit
  PROVE  LRUInv'
<1>0. /\ Inv /\ WellLinked(node) /\ ListOK /\ LeadsToData
      /\ map_size \in 0..capacity_lr /\ lookups \in 0..MaxLookups
  BY InvParts
<1>1. /\ lpc = "get" /\ lpc' = "again" /\ map_size' = map_size /\ out.found
      /\ node' = addNode(deleteNode(node, out.value), out.value)
      /\ hashmap_remove(Operations) /\ text' = text /\ slot' = slot
      /\ storage_server_count' = storage_server_count
      /\ received' = received /\ lookups' = lookups /\ got' = node[out.value].val
  BY DEF GetHit
<1>2. /\ out.value \in Data /\ node[Tail_].prev # Head_ /\ map_size >= 1
  BY <1>0, <1>1 DEF LeadsToData, ListOK
<1>3. /\ WellLinked(node') /\ Len(node') = Len(node)
      /\ node'[Tail_].prev # Head_ /\ node'[Head_].next = out.value
  BY <1>0, <1>1, <1>2, MoveKeeps DEF Data
<1>4. got' \in -1..MaxRegistrations
  <2>1. out.value \in 1..Len(node)
    BY <1>2, InvParts
  <2>2. node[out.value] \in NodeSet(Len(node)) /\ Len(node) \in Nat
    BY <1>0, <2>1, LinkedTypes
  <2> QED BY <1>1, <2>2, FieldTypes
<1>5. Operations \in Key
  BY ExportAssumption
<1>6. /\ Inv' /\ OnlySets' /\ content' = Less(content, Operations)
  BY <1>0, <1>1, <1>5, AfterRemove
<1>7. LRUTypeOK' /\ RoomOK' /\ Data' = Data
  BY <1>0, <1>1, <1>3, <1>4, <1>6, RestKept
<1>8. ListOK'
  BY <1>1, <1>2, <1>3, <1>7 DEF ListOK
<1>9. LeadsToData'
  BY <1>0, <1>1, <1>6, <1>7 DEF LeadsToData, Less
<1> QED BY <1>6, <1>7, <1>8, <1>9 DEF LRUInv

(* The node that get_LRU enters again. *)
LEMMA AgainAddress ==
  ASSUME LRUInv, lpc = "again"
  PROVE  node[Head_].next \in Data /\ node[Head_].next \in Value
<1>1. ListOK /\ LRUTypeOK /\ RoomOK /\ Len(node) \in Nat \ {0, 1} /\ lpc = "again"
  BY InvParts
<1>2. node[Head_].next \in Data
  BY <1>1 DEF ListOK
<1>3. Len(node) <= 2 + MaxRegistrations * MAX_ACC_PATHS
  <2>1. Len(node) <= 2 + Puts /\ slot \in Nat /\ slot <= MAX_ACC_PATHS /\ received \in Nat
           /\ received <= MaxRegistrations /\ (slot # Waiting => received >= 1)
    BY <1>1, StateTypes DEF RoomOK
  <2>2. CASE slot = Waiting
    BY <1>1, <2>1, <2>2, Sizes DEF Puts
  <2>3. CASE slot # Waiting
    <3>1. PICK r \in Nat : r = received - 1 /\ received = r + 1
      BY <2>1, <2>3
    <3>2. /\ received * MAX_ACC_PATHS = r * MAX_ACC_PATHS + MAX_ACC_PATHS
          /\ received * MAX_ACC_PATHS <= MaxRegistrations * MAX_ACC_PATHS
          /\ r * MAX_ACC_PATHS \in Nat /\ MAX_ACC_PATHS \in Nat
          /\ MaxRegistrations * MAX_ACC_PATHS \in Nat
      BY <2>1, <3>1, Sizes
    <3>3. Puts = r * MAX_ACC_PATHS + slot
      BY <2>3, <3>1 DEF Puts
    <3> QED BY <1>1, <2>1, <3>2, <3>3
  <2> QED BY <2>2, <2>3
<1>4. MaxRegistrations * MAX_ACC_PATHS \in Nat
  BY Sizes
<1>5. node[Head_].next \in 1..(2 + MaxRegistrations * MAX_ACC_PATHS)
  BY <1>1, <1>2, <1>3, <1>4 DEF Data, DataOf
<1> QED BY <1>2, <1>5, SizeAssumption

LEMMA AgainStep ==
  ASSUME LRUInv, GetAgain
  PROVE  LRUInv'
<1>0. /\ Inv /\ WellLinked(node) /\ ListOK /\ LeadsToData /\ LRUTypeOK
      /\ map_size \in 0..capacity_lr /\ lookups \in 0..MaxLookups /\ got \in -1..MaxRegistrations
      /\ Len(node) \in Nat \ {0, 1} /\ RoomOK
  BY InvParts
<1>1. /\ lpc = "again" /\ lpc' = "idle" /\ map_size' = map_size
      /\ node' = node /\ hashmap_set(Operations, node[Head_].next) /\ text' = text /\ slot' = slot
      /\ storage_server_count' = storage_server_count
      /\ received' = received /\ lookups' = lookups /\ got' = got
  BY DEF GetAgain
<1>2. node[Head_].next \in Data /\ node[Head_].next \in Value
  BY <1>1, AgainAddress
<1>3. Operations \in Key
  BY ExportAssumption
<1>4. Inv' /\ OnlySets' /\ content' = With(content, Operations, node[Head_].next)
  BY <1>0, <1>1, <1>2, <1>3, AfterSet
<1>5. LRUTypeOK' /\ RoomOK' /\ Data' = Data
  BY <1>0, <1>1, <1>4, RestKept
<1>6. ListOK'
  BY <1>0, <1>1, <1>5 DEF ListOK
<1>7. LeadsToData'
  BY <1>0, <1>1, <1>2, <1>4, <1>5 DEF LeadsToData, With
<1> QED BY <1>4, <1>5, <1>6, <1>7 DEF LRUInv

LEMMA MapStep ==
  ASSUME LRUInv, MapProgress
  PROVE  LRUInv'
<1>0. /\ Inv /\ WellLinked(node) /\ ListOK /\ LeadsToData /\ OnlySets /\ RoomOK
      /\ map_size \in 0..capacity_lr /\ lookups \in 0..MaxLookups /\ got \in -1..MaxRegistrations
      /\ lpc \in {"idle", "put", "evict", "insert", "get", "again"}
  BY InvParts, StateTypes
<1>1. /\ Progress /\ lpc' = lpc /\ map_size' = map_size /\ node' = node /\ text' = text
      /\ slot' = slot /\ storage_server_count' = storage_server_count
      /\ received' = received /\ lookups' = lookups /\ got' = got
  BY DEF MapProgress, lruVars
<1>2. /\ Inv' /\ OnlySets' /\ pc # "idle" /\ content' = content
  BY <1>0, <1>1, AfterProgress
<1>3. LRUTypeOK' /\ RoomOK' /\ Data' = Data
  <2>1. lpc' \in {"put", "evict", "insert"} => slot # Waiting
    BY <1>0, <1>1 DEF RoomOK
  <2> QED BY <1>0, <1>1, <1>2, <2>1, RestKept
<1>4. ListOK'
  BY <1>0, <1>1, <1>3 DEF ListOK
<1>5. LeadsToData'
  BY <1>0, <1>1, <1>2, <1>3 DEF LeadsToData
<1> QED BY <1>2, <1>3, <1>4, <1>5 DEF LRUInv

LEMMA LRUNextInv == LRUInv /\ [LRUNext]_<<mapVars, lruVars>> => LRUInv'
<1> SUFFICES ASSUME LRUInv, [LRUNext]_<<mapVars, lruVars>> PROVE LRUInv'
  OBVIOUS
<1>1. CASE UNCHANGED <<mapVars, lruVars>>
  <2>0. /\ Inv /\ WellLinked(node) /\ ListOK /\ LeadsToData /\ OnlySets /\ RoomOK
        /\ map_size \in 0..capacity_lr /\ lookups \in 0..MaxLookups /\ got \in -1..MaxRegistrations
        /\ lpc \in {"idle", "put", "evict", "insert", "get", "again"}
    BY InvParts, StateTypes
  <2>1. /\ UNCHANGED mapVars /\ lpc' = lpc /\ map_size' = map_size /\ node' = node /\ text' = text
        /\ slot' = slot /\ storage_server_count' = storage_server_count
        /\ received' = received /\ lookups' = lookups /\ got' = got
    BY <1>1 DEF lruVars
  <2>2. /\ Inv' /\ OnlySets' /\ content' = content /\ out' = out /\ pc' = pc
    BY <2>0, <2>1, MapKept
  <2>3. LRUTypeOK' /\ RoomOK' /\ Data' = Data
    <3>1. lpc' \in {"put", "evict", "insert"} => slot # Waiting
      BY <2>0, <2>1 DEF RoomOK
    <3> QED BY <2>0, <2>1, <2>2, <3>1, RestKept
  <2> QED BY <2>0, <2>1, <2>2, <2>3 DEF LRUInv, ListOK, LeadsToData
<1>2. CASE \E x \in Export : Register(x) \/ Refuse(x)
  BY <1>2, ReceivedStep
<1>3. CASE PutLookup \/ GetLookup
  BY <1>3, LookupStep
<1>4. CASE PutDrop
  BY <1>4, DropStep
<1>5. CASE PutAbsent
  BY <1>5, AbsentStep
<1>6. CASE PutEvict
  BY <1>6, EvictStep
<1>7. CASE PutInsert
  BY <1>7, InsertStep
<1>8. CASE GetMiss
  BY <1>8, MissStep
<1>9. CASE GetHit
  BY <1>9, HitStep
<1>10. CASE GetAgain
  BY <1>10, AgainStep
<1>11. CASE MapProgress
  BY <1>11, MapStep
<1> QED BY <1>1, <1>2, <1>3, <1>4, <1>5, <1>6, <1>7, <1>8, <1>9, <1>10, <1>11 DEF LRUNext

(* Whatever servers register, one after the other: map_size is the count   *)
(* of nothing more than capacity_lr nodes, and no pointer put_LRU and      *)
(* get_LRU follow leads anywhere but to a node, also when an evicted path  *)
(* stays behind in the map.                                                *)
THEOREM LRUTypeCorrect == LRUSpec => []LRUTypeOK
<1>1. LRUInv => LRUTypeOK
  BY DEF LRUInv
<1> QED BY <1>1, LRUInitInv, LRUNextInv, PTL DEF LRUSpec

-----------------------------------------------------------------------------
(***************************************************************************)
(* That put_LRU and get_LRU keep the list and the map together, and so are *)
(* the bounded list of Cache, for every capacity, every set of paths and   *)
(* every number of registrations.                                          *)
(*                                                                         *)
(* The list is followed as a chain w of nodes, from the head to the tail.  *)
(* The inductive invariant AgreeInv adds to LRUInv that there is one, that *)
(* the map as its callers see it leads to exactly its nodes, and that what *)
(* the last lookup told still holds.  It is an invariant as long as the    *)
(* texts under the keys of the list stay what they were (Repeated): LRU    *)
(* keeps pointers to them, and a registration fills the struct again.      *)
(***************************************************************************)

-----------------------------------------------------------------------------
(* The list as a chain: w[0] is the head, w[n + 1] the tail, and the nodes *)
(* in between are w[1] to w[n], each once, linked both ways.               *)

Chain(nodes, w, n) ==
    /\ n \in Nat /\ w \in [0..(n + 1) -> Nat]
    /\ w[0] = Head_ /\ w[n + 1] = Tail_
    /\ \A i \in 1..n : w[i] \in DataOf(nodes)
    /\ \A i, j \in 0..(n + 1) : w[i] = w[j] => i = j
    /\ \A i \in 0..n : nodes[w[i]].next = w[i + 1] /\ nodes[w[i + 1]].prev = w[i]

(* What an operation on the pointers leaves alone. *)
SameData(nodes, after) ==
    \A x \in 1..Len(nodes) : after[x].slot = nodes[x].slot /\ after[x].val = nodes[x].val

ChainLess(w, n, i) == [j \in 0..n |-> IF j < i THEN w[j] ELSE w[j + 1]]
ChainWith(w, n, d) ==
    [j \in 0..(n + 2) |-> IF j = 0 THEN Head_ ELSE IF j = 1 THEN d ELSE w[j - 1]]

LEMMA ChainEnds ==
  ASSUME NEW nodes, NEW w, NEW n, Chain(nodes, w, n), Len(nodes) \in Nat \ {0, 1}
  PROVE  /\ n \in Nat /\ \A i \in 0..(n + 1) : w[i] \in 1..Len(nodes)
         /\ \A i \in 1..n : w[i] \in 3..Len(nodes) /\ w[i] # Head_ /\ w[i] # Tail_
         /\ Head_ = 1 /\ Tail_ = 2
<1>1. /\ n \in Nat /\ w[0] = 1 /\ w[n + 1] = 2 /\ Head_ = 1 /\ Tail_ = 2
      /\ \A i \in 1..n : w[i] \in 3..Len(nodes)
  BY DEF Chain, Head_, Tail_, DataOf
<1>2. ASSUME NEW i \in 0..(n + 1) PROVE w[i] \in 1..Len(nodes)
  <2>1. i = 0 \/ i = n + 1 \/ i \in 1..n
    BY <1>1
  <2>2. ASSUME i \in 1..n PROVE w[i] \in 1..Len(nodes)
    BY <1>1, <2>2
  <2>3. 1 \in 1..Len(nodes) /\ 2 \in 1..Len(nodes)
    <3>1. PICK N : N = Len(nodes)
      OBVIOUS
    <3>2. N \in Nat \ {0, 1}
      BY <3>1
    <3>3. 1 \in 1..N /\ 2 \in 1..N
      BY <3>2
    <3> QED BY <3>1, <3>3
  <2> QED BY <1>1, <2>1, <2>2, <2>3
<1>3. ASSUME NEW i \in 1..n PROVE w[i] \in 3..Len(nodes) /\ w[i] # Head_ /\ w[i] # Tail_
  BY <1>1
<1> QED BY <1>1, <1>2, <1>3

LEMMA ChainDeleted ==
  ASSUME NEW nodes, NEW w, NEW n, Chain(nodes, w, n), NEW i \in 1..n,
         Len(nodes) \in Nat \ {0, 1}, nodes \in [1..Len(nodes) -> AnyNode],
         NEW after, after = deleteNode(nodes, w[i]), Len(after) = Len(nodes)
  PROVE  Chain(after, ChainLess(w, n, i), n - 1) /\ SameData(nodes, after)
<1>1. PICK N : N = Len(nodes)
  OBVIOUS
<1>2. /\ n \in Nat /\ w \in [0..(n + 1) -> Nat] /\ w[0] = Head_ /\ w[n + 1] = Tail_
      /\ \A j \in 1..n : w[j] \in 3..N
      /\ \A j, k \in 0..(n + 1) : w[j] = w[k] => j = k
      /\ \A j \in 0..n : nodes[w[j]].next = w[j + 1] /\ nodes[w[j + 1]].prev = w[j]
      /\ \A j \in 0..(n + 1) : w[j] \in 1..N
  BY <1>1, ChainEnds DEF Chain, DataOf
<1>3. /\ nodes[w[i]].prev = w[i - 1] /\ nodes[w[i]].next = w[i + 1]
      /\ w[i] \in 1..N /\ w[i - 1] \in 1..N /\ w[i + 1] \in 1..N
      /\ i - 1 \in 0..n /\ i + 1 \in 1..(n + 1) /\ i \in 0..n
  <2>1. i - 1 \in 0..n /\ (i - 1) + 1 = i /\ i \in 0..n /\ i + 1 \in 0..(n + 1)
        /\ i \in 0..(n + 1) /\ i - 1 \in 0..(n + 1)
    BY <1>2
  <2>2. nodes[w[i]].prev = w[i - 1]
    BY <1>2, <2>1
  <2> QED BY <1>2, <2>1, <2>2
<1>4. \A x \in 1..N :
         /\ after[x].slot = nodes[x].slot /\ after[x].val = nodes[x].val
         /\ after[x].next = IF x = w[i - 1] THEN w[i + 1] ELSE nodes[x].next
         /\ after[x].prev = IF x = w[i + 1] THEN w[i - 1] ELSE nodes[x].prev
  <2>1. /\ N \in Nat /\ nodes \in [1..N -> AnyNode] /\ w[i] \in 1..N
        /\ nodes[w[i]].prev \in 1..N /\ nodes[w[i]].next \in 1..N
    BY <1>1, <1>3
  <2>2. PICK d : d = w[i]
    OBVIOUS
  <2>3. /\ d \in 1..N /\ nodes[d].prev \in 1..N /\ nodes[d].next \in 1..N
        /\ nodes[d].prev = w[i - 1] /\ nodes[d].next = w[i + 1] /\ after = deleteNode(nodes, d)
    BY <1>3, <2>1, <2>2
  <2>4. \A x \in 1..N :
           /\ after[x].slot = nodes[x].slot /\ after[x].val = nodes[x].val
           /\ after[x].next = IF x = nodes[d].prev THEN nodes[d].next ELSE nodes[x].next
           /\ after[x].prev = IF x = nodes[d].next THEN nodes[d].prev ELSE nodes[x].prev
    <3>1. /\ N \in Nat /\ nodes \in [1..N -> AnyNode] /\ d \in 1..N
          /\ nodes[d].prev \in 1..N /\ nodes[d].next \in 1..N
      BY <2>1, <2>3
    <3>2. \A x \in 1..N :
             /\ deleteNode(nodes, d)[x].slot = nodes[x].slot
             /\ deleteNode(nodes, d)[x].val = nodes[x].val
             /\ deleteNode(nodes, d)[x].next = IF x = nodes[d].prev THEN nodes[d].next
                                              ELSE nodes[x].next
             /\ deleteNode(nodes, d)[x].prev = IF x = nodes[d].next THEN nodes[d].prev
                                              ELSE nodes[x].prev
      BY <3>1, DeletedNode
    <3> QED BY <2>3, <3>2
  <2> QED BY <2>3, <2>4
<1>5. PICK v : v = ChainLess(w, n, i)
  OBVIOUS
<1>6. /\ n - 1 \in Nat /\ (n - 1) + 1 = n
      /\ \A j \in 0..n : v[j] = IF j < i THEN w[j] ELSE w[j + 1]
      /\ \A j \in 0..n : j \in 0..(n + 1) /\ j + 1 \in 0..(n + 1)
  BY <1>2, <1>5 DEF ChainLess
<1>7. v \in [0..n -> Nat]
  <2>1. \A j \in 0..n : (IF j < i THEN w[j] ELSE w[j + 1]) \in Nat
    BY <1>2, <1>6
  <2> QED BY <1>5, <2>1 DEF ChainLess
<1>8. v[0] = Head_ /\ v[n] = Tail_
  BY <1>2, <1>6
<1>9. ASSUME NEW j \in 1..(n - 1) PROVE v[j] \in 3..N
  <2>1. j \in 0..n /\ j \in 1..n /\ j + 1 \in 1..n
    BY <1>2
  <2> QED BY <1>2, <1>6, <2>1
<1>10. ASSUME NEW j \in 0..n, NEW k \in 0..n, v[j] = v[k] PROVE j = k
  <2>1. /\ j \in 0..(n + 1) /\ j + 1 \in 0..(n + 1) /\ k \in 0..(n + 1) /\ k + 1 \in 0..(n + 1)
        /\ j \in Nat /\ k \in Nat /\ i \in Nat
    BY <1>2
  <2>2. PICK jj \in 0..(n + 1) : v[j] = w[jj] /\ jj = IF j < i THEN j ELSE j + 1
    BY <1>6, <2>1
  <2>3. PICK kk \in 0..(n + 1) : v[k] = w[kk] /\ kk = IF k < i THEN k ELSE k + 1
    BY <1>6, <2>1
  <2>4. jj = kk
    BY <1>2, <1>10, <2>2, <2>3
  <2> QED BY <2>1, <2>2, <2>3, <2>4
<1>11. ASSUME NEW j \in 0..(n - 1)
       PROVE  after[v[j]].next = v[j + 1] /\ after[v[j + 1]].prev = v[j]
  <2>0. j \in 0..n /\ j + 1 \in 0..n /\ j + 1 \in 0..(n + 1) /\ j + 2 \in 0..(n + 1)
        /\ j \in 0..(n + 1) /\ j \in Nat /\ i \in Nat /\ i + 1 \in 0..(n + 1) /\ i - 1 \in 0..(n + 1)
    BY <1>2, <1>3
  <2>1. CASE j + 1 < i
    <3>1. v[j] = w[j] /\ v[j + 1] = w[j + 1]
      BY <1>6, <2>0, <2>1
    <3>2. w[j] # w[i - 1] /\ w[j + 1] # w[i + 1]
      <4>1. j # i - 1 /\ j + 1 # i + 1
        BY <2>0, <2>1
      <4> QED BY <1>2, <2>0, <4>1
    <3>3. /\ nodes[w[j]].next = w[j + 1] /\ nodes[w[j + 1]].prev = w[j]
          /\ w[j] \in 1..N /\ w[j + 1] \in 1..N
      BY <1>2, <2>0
    <3> QED BY <1>4, <3>1, <3>2, <3>3
  <2>2. CASE j + 1 = i
    <3>1. v[j] = w[i - 1] /\ v[j + 1] = w[i + 1]
      BY <1>6, <2>0, <2>2
    <3> QED BY <1>3, <1>4, <1>2, <2>0, <3>1
  <2>3. CASE j + 1 > i
    <3>1. v[j] = w[j + 1] /\ v[j + 1] = w[j + 2]
      <4>1. ~(j < i) /\ ~(j + 1 < i) /\ (j + 1) + 1 = j + 2
        BY <2>0, <2>3
      <4> QED BY <1>6, <2>0, <4>1
    <3>2. w[j + 1] # w[i - 1] /\ w[j + 2] # w[i + 1]
      <4>1. j + 1 # i - 1 /\ j + 2 # i + 1
        BY <2>0, <2>3
      <4> QED BY <1>2, <2>0, <4>1
    <3>3. nodes[w[j + 1]].next = w[j + 2] /\ nodes[w[j + 2]].prev = w[j + 1]
      <4>1. (j + 1) + 1 = j + 2
        BY <2>0
      <4> QED BY <1>2, <2>0, <4>1
    <3>4. w[j + 1] \in 1..N /\ w[j + 2] \in 1..N
      BY <1>2, <2>0
    <3> QED BY <1>4, <3>1, <3>2, <3>3, <3>4
  <2> QED BY <2>0, <2>1, <2>2, <2>3
<1>12. DataOf(after) = 3..N
  BY <1>1 DEF DataOf
<1>13. SameData(nodes, after)
  BY <1>1, <1>4 DEF SameData
<1> QED BY <1>5, <1>6, <1>7, <1>8, <1>9, <1>10, <1>11, <1>12, <1>13 DEF Chain

LEMMA ChainAdded ==
  ASSUME NEW nodes, NEW w, NEW n, Chain(nodes, w, n), NEW d \in DataOf(nodes),
         \A i \in 1..n : w[i] # d,
         Len(nodes) \in Nat \ {0, 1}, nodes \in [1..Len(nodes) -> AnyNode],
         NEW after, after = addNode(nodes, d), Len(after) = Len(nodes)
  PROVE  Chain(after, ChainWith(w, n, d), n + 1) /\ SameData(nodes, after)
<1>1. PICK N : N = Len(nodes)
  OBVIOUS
<1>2. /\ n \in Nat /\ w \in [0..(n + 1) -> Nat] /\ w[0] = Head_ /\ w[n + 1] = Tail_
      /\ \A j \in 1..n : w[j] \in 3..N
      /\ \A j, k \in 0..(n + 1) : w[j] = w[k] => j = k
      /\ \A j \in 0..n : nodes[w[j]].next = w[j + 1] /\ nodes[w[j + 1]].prev = w[j]
      /\ \A j \in 0..(n + 1) : w[j] \in 1..N
      /\ Head_ = 1 /\ Tail_ = 2 /\ d \in 3..N /\ N \in Nat
  <2>1. /\ \A j \in 0..(n + 1) : w[j] \in 1..N
        /\ Head_ = 1 /\ Tail_ = 2 /\ d \in 3..N /\ N \in Nat
    BY <1>1, ChainEnds DEF DataOf
  <2> QED BY <1>1, <2>1 DEF Chain, DataOf
<1>3. nodes[Head_].next = w[1] /\ w[1] \in 1..N /\ 1 \in 0..(n + 1) /\ 0 \in 0..(n + 1)
  <2>1. 0 \in 0..n /\ 0 + 1 = 1 /\ 1 \in 0..(n + 1) /\ 0 \in 0..(n + 1)
    BY <1>2
  <2> QED BY <1>2, <2>1
<1>4. \A x \in 1..N :
         /\ after[x].slot = nodes[x].slot /\ after[x].val = nodes[x].val
         /\ after[x].next = IF x = Head_ THEN d ELSE IF x = d THEN w[1] ELSE nodes[x].next
         /\ after[x].prev = IF x = w[1] THEN d ELSE IF x = d THEN Head_ ELSE nodes[x].prev
  <2>1. N \in Nat \ {0} /\ nodes \in [1..N -> AnyNode] /\ d \in 2..N
    BY <1>1, <1>2
  <2> QED BY <1>3, <2>1, AddedNode
<1>5. PICK v : v = ChainWith(w, n, d)
  OBVIOUS
<1>6. /\ n + 1 \in Nat /\ (n + 1) + 1 = n + 2
      /\ v[0] = Head_ /\ v[1] = d
      /\ \A j \in 2..(n + 2) : v[j] = w[j - 1] /\ j - 1 \in 1..(n + 1)
  BY <1>2, <1>5 DEF ChainWith
<1>7. v \in [0..(n + 2) -> Nat]
  <2>1. \A j \in 0..(n + 2) : (IF j = 0 THEN Head_ ELSE IF j = 1 THEN d ELSE w[j - 1]) \in Nat
    BY <1>2
  <2> QED BY <1>5, <2>1 DEF ChainWith
<1>8. v[n + 2] = Tail_
  <2>1. n + 2 \in 2..(n + 2) /\ (n + 2) - 1 = n + 1
    BY <1>2
  <2> QED BY <1>2, <1>6, <2>1
<1>9. \A j \in 1..(n + 1) : v[j] \in 3..N
  <2> TAKE j \in 1..(n + 1)
  <2>1. CASE j = 1
    BY <1>2, <1>6, <2>1
  <2>2. CASE j # 1
    <3>1. j \in 2..(n + 2) /\ j - 1 \in 1..n
      BY <1>2, <2>2
    <3> QED BY <1>2, <1>6, <3>1
  <2> QED BY <2>1, <2>2
<1>10. \A j \in 2..(n + 2) : v[j] # Head_ /\ v[j] # d
  <2> TAKE j \in 2..(n + 2)
  <2>1. v[j] = w[j - 1] /\ j - 1 \in 1..(n + 1) /\ j - 1 \in 0..(n + 1) /\ j - 1 # 0
    BY <1>2, <1>6
  <2>2. v[j] # Head_
    BY <1>2, <1>3, <2>1
  <2>3. CASE j - 1 = n + 1
    BY <1>2, <2>1, <2>2, <2>3
  <2>4. CASE j - 1 # n + 1
    <3>1. j - 1 \in 1..n
      BY <1>2, <2>1, <2>4
    <3> QED BY <2>1, <2>2, <3>1
  <2> QED BY <2>3, <2>4
<1>11. \A j, k \in 0..(n + 2) : v[j] = v[k] => j = k
  <2> SUFFICES ASSUME NEW j \in 0..(n + 2), NEW k \in 0..(n + 2), v[j] = v[k] PROVE j = k
    OBVIOUS
  <2>1. d # Head_
    BY <1>2
  <2>2. CASE j \in 2..(n + 2) /\ k \in 2..(n + 2)
    <3>1. w[j - 1] = w[k - 1] /\ j - 1 \in 0..(n + 1) /\ k - 1 \in 0..(n + 1)
      BY <1>2, <1>6, <2>2
    <3>2. j - 1 = k - 1
      BY <1>2, <3>1
    <3> QED BY <1>2, <3>2
  <2>6. \A l \in 0..(n + 2) : l \notin 2..(n + 2) => v[l] \in {Head_, d}
    <3>1. \A l \in 0..(n + 2) : l \notin 2..(n + 2) => l = 0 \/ l = 1
      BY <1>2
    <3> QED BY <1>6, <3>1
  <2>3. CASE j \notin 2..(n + 2) /\ k \in 2..(n + 2)
    BY <1>10, <2>3, <2>6
  <2>4. CASE j \in 2..(n + 2) /\ k \notin 2..(n + 2)
    BY <1>10, <2>4, <2>6
  <2>5. CASE j \notin 2..(n + 2) /\ k \notin 2..(n + 2)
    <3>1. (j = 0 \/ j = 1) /\ (k = 0 \/ k = 1)
      BY <1>2, <2>5
    <3> QED BY <1>6, <2>1, <3>1
  <2> QED BY <2>2, <2>3, <2>4, <2>5
<1>12. ASSUME NEW j \in 0..(n + 1)
       PROVE  after[v[j]].next = v[j + 1] /\ after[v[j + 1]].prev = v[j]
  <2>0. Head_ \in 1..N /\ d \in 1..N /\ d # Head_ /\ w[1] # d /\ w[1] # Head_
    <3>1. w[1] # Head_
      BY <1>2, <1>3
    <3>2. v[2] = w[1] /\ v[2] # d
      <4>1. 2 \in 2..(n + 2) /\ 2 - 1 = 1
        BY <1>2
      <4> QED BY <1>6, <1>10, <4>1
    <3> QED BY <1>2, <3>1, <3>2
  <2>1. CASE j = 0
    <3>1. v[j] = Head_ /\ v[j + 1] = d
      BY <1>6, <2>1
    <3> QED BY <1>4, <2>0, <3>1
  <2>2. CASE j = 1
    <3>1. v[j] = d /\ v[j + 1] = w[1]
      <4>1. j + 1 \in 2..(n + 2) /\ (j + 1) - 1 = 1
        BY <1>2, <2>2
      <4> QED BY <1>6, <2>2, <4>1
    <3> QED BY <1>3, <1>4, <2>0, <3>1
  <2>3. CASE j # 0 /\ j # 1
    <3>1. /\ j \in 2..(n + 2) /\ j + 1 \in 2..(n + 2) /\ (j + 1) - 1 = j /\ j - 1 \in 0..n
          /\ (j - 1) + 1 = j /\ j \in 0..(n + 1) /\ j - 1 \in 0..(n + 1) /\ j # 1
      BY <1>2, <2>3
    <3>2. /\ v[j] = w[j - 1] /\ v[j + 1] = w[j]
          /\ v[j] # Head_ /\ v[j] # d /\ v[j + 1] # Head_ /\ v[j + 1] # d
      BY <1>6, <1>10, <3>1
    <3>3. w[j] # w[1]
      BY <1>2, <1>3, <3>1
    <3>4. nodes[w[j - 1]].next = w[j] /\ nodes[w[j]].prev = w[j - 1]
      BY <1>2, <3>1
    <3>5. w[j] \in 1..N /\ w[j - 1] \in 1..N
      BY <1>2, <3>1
    <3>6. after[w[j - 1]].next = nodes[w[j - 1]].next /\ after[w[j]].prev = nodes[w[j]].prev
      BY <1>4, <3>2, <3>3, <3>5
    <3> QED BY <3>2, <3>4, <3>6
  <2> QED BY <2>1, <2>2, <2>3
<1>13. DataOf(after) = 3..N
  BY <1>1 DEF DataOf
<1>14. SameData(nodes, after)
  BY <1>1, <1>4 DEF SameData
<1> QED BY <1>5, <1>6, <1>7, <1>8, <1>9, <1>11, <1>12, <1>13, <1>14 DEF Chain

LEMMA ChainGrown ==
  ASSUME NEW nodes, NEW w, NEW n, Chain(nodes, w, n), Len(nodes) \in Nat \ {0, 1},
         NEW grown, Len(grown) \in Nat, Len(grown) >= Len(nodes),
         \A x \in 1..Len(nodes) : grown[x] = nodes[x]
  PROVE  Chain(grown, w, n)
<1>1. PICK N : N = Len(nodes)
  OBVIOUS
<1>2. PICK M : M = Len(grown)
  OBVIOUS
<1>3. /\ N \in Nat /\ M \in Nat /\ M >= N /\ n \in Nat
      /\ \A x \in 1..N : grown[x] = nodes[x]
      /\ \A j \in 0..(n + 1) : w[j] \in 1..N
  BY <1>1, <1>2, ChainEnds
<1>4. /\ w \in [0..(n + 1) -> Nat] /\ w[0] = Head_ /\ w[n + 1] = Tail_
      /\ \A i \in 1..n : w[i] \in 3..N
      /\ \A i, j \in 0..(n + 1) : w[i] = w[j] => i = j
      /\ \A i \in 0..n : nodes[w[i]].next = w[i + 1] /\ nodes[w[i + 1]].prev = w[i]
  BY <1>1 DEF Chain, DataOf
<1>5. \A i \in 1..n : w[i] \in 3..M
  BY <1>3, <1>4
<1>6. ASSUME NEW i \in 0..n
      PROVE  grown[w[i]].next = w[i + 1] /\ grown[w[i + 1]].prev = w[i]
  <2>1. i \in 0..(n + 1) /\ i + 1 \in 0..(n + 1)
    BY <1>3
  <2> QED BY <1>3, <1>4, <2>1
<1>7. DataOf(grown) = 3..M
  BY <1>2 DEF DataOf
<1> QED BY <1>3, <1>4, <1>5, <1>6, <1>7 DEF Chain

(* The nodes of a chain. *)
Listed(w, n) == {w[i] : i \in 1..n}

LEMMA ListedLess ==
  ASSUME NEW nodes, NEW w, NEW n, Chain(nodes, w, n), NEW i \in 1..n
  PROVE  Listed(ChainLess(w, n, i), n - 1) = Listed(w, n) \ {w[i]}
<1>1. PICK v : v = ChainLess(w, n, i)
  OBVIOUS
<1>2. /\ n \in Nat /\ \A j, k \in 0..(n + 1) : w[j] = w[k] => j = k
      /\ \A j \in 0..n : v[j] = IF j < i THEN w[j] ELSE w[j + 1]
  BY <1>1 DEF Chain, ChainLess
<1>3. ASSUME NEW j \in 1..(n - 1) PROVE v[j] \in Listed(w, n) \ {w[i]}
  <2>1. j \in 0..n /\ j \in 1..n /\ j + 1 \in 1..n /\ j + 1 \in 0..(n + 1) /\ j \in 0..(n + 1)
        /\ i \in 0..(n + 1)
    BY <1>2
  <2>2. CASE j < i
    BY <1>2, <2>1, <2>2 DEF Listed
  <2>3. CASE ~(j < i)
    <3>1. v[j] = w[j + 1] /\ j + 1 # i
      BY <1>2, <2>1, <2>3
    <3> QED BY <1>2, <2>1, <3>1 DEF Listed
  <2> QED BY <2>2, <2>3
<1>4. ASSUME NEW j \in 1..n, w[j] # w[i] PROVE \E k \in 1..(n - 1) : v[k] = w[j]
  <2>1. j # i
    BY <1>4
  <2>2. CASE j < i
    <3>1. j \in 1..(n - 1) /\ j \in 0..n
      BY <1>2, <2>2
    <3> QED BY <1>2, <2>2, <3>1
  <2>3. CASE j > i
    <3>1. j - 1 \in 1..(n - 1) /\ j - 1 \in 0..n /\ ~(j - 1 < i) /\ (j - 1) + 1 = j
      BY <1>2, <2>3
    <3> QED BY <1>2, <3>1
  <2> QED BY <1>2, <2>1, <2>2, <2>3
<1>5. Listed(v, n - 1) \subseteq Listed(w, n) \ {w[i]}
  BY <1>3 DEF Listed
<1>6. Listed(w, n) \ {w[i]} \subseteq Listed(v, n - 1)
  BY <1>4 DEF Listed
<1> QED BY <1>1, <1>5, <1>6

LEMMA ListedWith ==
  ASSUME NEW w, NEW n \in Nat, NEW d
  PROVE  Listed(ChainWith(w, n, d), n + 1) = Listed(w, n) \cup {d}
<1>1. PICK v : v = ChainWith(w, n, d)
  OBVIOUS
<1>2. v[1] = d /\ \A j \in 2..(n + 1) : v[j] = w[j - 1]
  BY <1>1 DEF ChainWith
<1>3. ASSUME NEW j \in 1..(n + 1) PROVE v[j] \in Listed(w, n) \cup {d}
  <2>1. j = 1 \/ (j \in 2..(n + 1) /\ j - 1 \in 1..n)
    OBVIOUS
  <2> QED BY <1>2, <2>1 DEF Listed
<1>4. ASSUME NEW j \in 1..n PROVE w[j] \in Listed(v, n + 1)
  <2>1. j + 1 \in 2..(n + 1) /\ j + 1 \in 1..(n + 1) /\ (j + 1) - 1 = j
    OBVIOUS
  <2> QED BY <1>2, <2>1 DEF Listed
<1>5. d \in Listed(v, n + 1)
  <2>1. 1 \in 1..(n + 1)
    OBVIOUS
  <2> QED BY <1>2, <2>1 DEF Listed
<1>6. Listed(v, n + 1) \subseteq Listed(w, n) \cup {d}
  BY <1>3 DEF Listed
<1>7. Listed(w, n) \cup {d} \subseteq Listed(v, n + 1)
  BY <1>4, <1>5 DEF Listed
<1> QED BY <1>1, <1>6, <1>7

-----------------------------------------------------------------------------
(* The map leads to the nodes of the list. *)

Keys(nodes, texts) == [d \in DataOf(nodes) |-> texts[nodes[d].slot]]

(* To exactly the nodes of S, to each under its key. *)
Leads(key, S, m) ==
    /\ \A d \in S : key[d] \in DOMAIN m /\ m[key[d]] = d
    /\ \A k \in DOMAIN m : m[k] \in S /\ key[m[k]] = k

LEMMA LeadsLess ==
  ASSUME NEW key, NEW S, NEW m, Leads(key, S, m), NEW k \in DOMAIN m
  PROVE  Leads(key, S \ {m[k]}, Less(m, k))
<1>1. \A x \in DOMAIN m \ {k} : x \in DOMAIN Less(m, k) /\ Less(m, k)[x] = m[x]
  BY DEF Less
<1>2. DOMAIN Less(m, k) = DOMAIN m \ {k}
  BY DEF Less
<1> QED BY <1>1, <1>2 DEF Leads

LEMMA LeadsWith ==
  ASSUME NEW key, NEW S, NEW m, Leads(key, S, m), NEW k, k \notin DOMAIN m, NEW d,
         NEW after, after[d] = k, \A x \in S : after[x] = key[x]
  PROVE  Leads(after, S \cup {d}, With(m, k, d))
<1>1. /\ DOMAIN With(m, k, d) = DOMAIN m \cup {k} /\ With(m, k, d)[k] = d
      /\ \A x \in DOMAIN m : With(m, k, d)[x] = m[x]
  BY DEF With
<1> QED BY <1>1 DEF Leads

LEMMA KeysKept ==
  ASSUME NEW nodes, NEW after, NEW texts, Len(after) = Len(nodes), SameData(nodes, after)
  PROVE  Keys(after, texts) = Keys(nodes, texts)
<1>1. DataOf(after) = DataOf(nodes)
  BY DEF DataOf
<1>2. \A d \in DataOf(nodes) : after[d].slot = nodes[d].slot
  <2>1. PICK N : N = Len(nodes)
    OBVIOUS
  <2>2. \A d \in 3..N : d \in 1..N
    OBVIOUS
  <2> QED BY <2>1, <2>2 DEF SameData, DataOf
<1>3. PICK all : all = DataOf(nodes)
  OBVIOUS
<1>4. \A d \in all : texts[after[d].slot] = texts[nodes[d].slot]
  BY <1>2, <1>3
<1>5. [d \in all |-> texts[after[d].slot]] = [d \in all |-> texts[nodes[d].slot]]
  BY <1>4
<1> QED BY <1>1, <1>3, <1>5 DEF Keys

(* The map as it is once the call has ended: get_LRU takes its entry out   *)
(* and puts it back.                                                       *)
Led == IF lpc = "again" THEN With(content, Operations, node[Head_].next) ELSE content

InOrder(w, n) ==
    /\ Chain(node, w, n) /\ map_size = n /\ n + 2 <= Len(node)
    /\ Leads(Keys(node, text), Listed(w, n), Led)

(* What the last lookup said still holds when put_LRU and get_LRU use it.  *)
Looked(k) == out = IF k \in DOMAIN content THEN [found |-> TRUE, value |-> content[k]]
                   ELSE Nothing
Told ==
    /\ lpc = "put" => Looked(text[slot])
    /\ lpc = "get" => Looked(Operations)
    /\ lpc \in {"evict", "insert"} => text[slot] \notin DOMAIN content

LEMMA OrderParts ==
  ASSUME LRUInv, NEW w, NEW n, InOrder(w, n)
  PROVE  /\ n \in Nat /\ map_size = n /\ Chain(node, w, n) /\ n + 2 <= Len(node)
         /\ Leads(Keys(node, text), Listed(w, n), Led)
         /\ WellLinked(node) /\ Len(node) \in Nat \ {0, 1}
         /\ node \in [1..Len(node) -> AnyNode] /\ node \in Seq(AnyNode)
         /\ \A i \in 1..n : w[i] \in Data
         /\ Listed(w, n) \subseteq Data /\ DOMAIN Keys(node, text) = Data
         /\ \A d \in Data : Keys(node, text)[d] = text[node[d].slot]
<1>1. WellLinked(node)
  BY InvParts
<1>2. n \in Nat /\ \A i \in 1..n : w[i] \in Data
  BY DEF InOrder, Chain, Data
<1>3. Listed(w, n) \subseteq Data
  BY <1>2 DEF Listed
<1> QED BY <1>1, <1>2, <1>3, LinkedTypes DEF InOrder, Keys, Data

(* An operation that takes a node out of the list, and its key out of the  *)
(* map.                                                                    *)
LEMMA OrderLess ==
  ASSUME LRUInv, NEW w, NEW n, InOrder(w, n), NEW i \in 1..n, lpc # "again", lpc' # "again",
         node' = deleteNode(node, w[i]), Len(node') = Len(node), text' = text,
         map_size' = map_size - 1,
         content' = Less(content, text[node[w[i]].slot])
  PROVE  /\ InOrder(ChainLess(w, n, i), n - 1)'
         /\ text[node[w[i]].slot] \in DOMAIN content /\ content[text[node[w[i]].slot]] = w[i]
<1>1. PICK v, k : v = ChainLess(w, n, i) /\ k = text[node[w[i]].slot]
  OBVIOUS
<1>2. Chain(node', v, n - 1) /\ SameData(node, node')
  <2>1. /\ Chain(node, w, n) /\ Len(node) \in Nat \ {0, 1}
        /\ node \in [1..Len(node) -> AnyNode]
    BY OrderParts
  <2> QED BY <1>1, <2>1, ChainDeleted
<1>3. Keys(node', text') = Keys(node, text)
  <2>1. PICK after : after = node'
    OBVIOUS
  <2>2. Len(after) = Len(node) /\ SameData(node, after)
    BY <1>2, <2>1
  <2>3. Keys(after, text) = Keys(node, text)
    BY <2>2, KeysKept
  <2> QED BY <2>1, <2>3
<1>4. Led = content /\ Led' = content'
  BY DEF Led
<1>5. k \in DOMAIN content /\ content[k] = w[i]
  <2>1. w[i] \in Listed(w, n) /\ Keys(node, text)[w[i]] = k
    BY <1>1, OrderParts DEF Listed
  <2> QED BY <1>4, <2>1, OrderParts DEF Leads
<1>6. Listed(v, n - 1) = Listed(w, n) \ {w[i]}
  BY <1>1, ListedLess, OrderParts
<1>7. Leads(Keys(node', text'), Listed(v, n - 1), Led')
  <2>1. Leads(Keys(node, text), Listed(w, n), content)
    BY <1>4, OrderParts
  <2>2. Leads(Keys(node, text), Listed(w, n) \ {content[k]}, Less(content, k))
    BY <1>5, <2>1, LeadsLess
  <2> QED BY <1>1, <1>3, <1>4, <1>5, <1>6, <2>2
<1>8. map_size' = n - 1 /\ (n - 1) + 2 <= Len(node')
  BY OrderParts
<1> QED BY <1>1, <1>2, <1>5, <1>7, <1>8 DEF InOrder

(* A step that leaves the list alone. *)
LEMMA OrderKept ==
  ASSUME NEW w, NEW n, InOrder(w, n), node' = node, map_size' = map_size, Led' = Led,
         Keys(node, text') = Keys(node, text)
  PROVE  InOrder(w, n)'
  BY DEF InOrder

(* The map is a function. *)
LEMMA Functional == content = [k \in DOMAIN content |-> content[k]]
<1>1. dict = [k \in DOMAIN dict |-> dict[k]]
  BY DEF dict
<1>2. With(dict, call.key, call.value) = [k \in DOMAIN With(dict, call.key, call.value) |->
                                             With(dict, call.key, call.value)[k]]
  BY DEF With
<1> QED BY <1>1, <1>2 DEF content

LEMMA EntryListed ==
  ASSUME LRUInv, NEW w, NEW n, InOrder(w, n), lpc # "again", NEW k \in DOMAIN content
  PROVE  \E i \in 1..n : w[i] = content[k] /\ text[node[w[i]].slot] = k
<1>1. Leads(Keys(node, text), Listed(w, n), content)
  BY OrderParts DEF Led
<1>2. content[k] \in Listed(w, n) /\ Keys(node, text)[content[k]] = k
  BY <1>1 DEF Leads
<1>3. content[k] \in Data
  BY <1>2, OrderParts
<1>4. text[node[content[k]].slot] = k
  BY <1>2, <1>3, OrderParts
<1> QED BY <1>2, <1>4 DEF Listed

LEMMA DropOrder ==
  ASSUME LRUInv, Told, NEW w, NEW n, InOrder(w, n), PutDrop
  PROVE  /\ Told' /\ SameData(node, node')
         /\ \E i \in 1..n : /\ text[node[w[i]].slot] = text[slot]
                            /\ InOrder(ChainLess(w, n, i), n - 1)'
<1>0. /\ Inv /\ WellLinked(node) /\ ListOK /\ LeadsToData /\ slot # Waiting
      /\ Len(node) \in Nat \ {0, 1} /\ node \in [1..Len(node) -> AnyNode] /\ Chain(node, w, n)
  BY InvParts, OrderParts DEF RoomOK, PutDrop
<1>1. /\ lpc = "put" /\ lpc' = "evict" /\ map_size' = map_size - 1 /\ out.found
      /\ node' = deleteNode(node, out.value) /\ hashmap_remove(text[slot])
      /\ text' = text /\ slot' = slot
  BY DEF PutDrop
<1>2. /\ out.value \in Data /\ node[Tail_].prev # Head_
  BY <1>0, <1>1 DEF LeadsToData, ListOK
<1>3. Len(node') = Len(node)
  BY <1>0, <1>1, <1>2, DeleteKeeps DEF Data
<1>4. text[slot] \in Key
  BY <1>0, StateTypes DEF LRUInv
<1>5. content' = Less(content, text[slot])
  BY <1>0, <1>1, <1>4, AfterRemove
<1>6. text[slot] \in DOMAIN content /\ out.value = content[text[slot]]
  BY <1>1 DEF Told, Looked, Nothing
<1>7. PICK i \in 1..n : w[i] = out.value /\ text[node[w[i]].slot] = text[slot]
  BY <1>1, <1>6, EntryListed
<1>8. InOrder(ChainLess(w, n, i), n - 1)'
  BY <1>1, <1>3, <1>5, <1>7, OrderLess
<1>9. Told'
  BY <1>1, <1>5 DEF Told, Less
<1>10. SameData(node, node')
  BY <1>0, <1>1, <1>3, <1>7, ChainDeleted
<1> QED BY <1>7, <1>8, <1>9, <1>10

LEMMA EvictOrder ==
  ASSUME LRUInv, Told, NEW w, NEW n, InOrder(w, n), PutEvict
  PROVE  /\ Told' /\ SameData(node, node') /\ n \in 1..n
         /\ InOrder(ChainLess(w, n, n), n - 1)'
<1>0. /\ Inv /\ WellLinked(node) /\ ListOK /\ slot # Waiting
      /\ Len(node) \in Nat \ {0, 1} /\ node \in [1..Len(node) -> AnyNode]
      /\ Chain(node, w, n) /\ n \in Nat /\ map_size = n
  BY InvParts, OrderParts DEF RoomOK, PutEvict
<1>1. PICK last : last = node[Tail_].prev
  OBVIOUS
<1>2. /\ lpc = "evict" /\ lpc' = "insert" /\ map_size = capacity_lr /\ map_size' = map_size - 1
      /\ node' = deleteNode(node, last) /\ hashmap_remove(text[node[last].slot])
      /\ text' = text /\ slot' = slot
  BY <1>1 DEF PutEvict
<1>3. last # Head_ /\ last \in Data /\ node[last].slot \in Slot
  BY <1>0, <1>1, <1>2 DEF ListOK, WellLinked, Data
<1>4. n \in 1..n /\ w[n] = last
  <2>1. n \in 1..n /\ n \in 0..n
    BY <1>0, <1>2, Sizes
  <2>2. w[n + 1] = Tail_ /\ node[w[n + 1]].prev = w[n]
    BY <1>0, <2>1 DEF Chain
  <2> QED BY <1>1, <2>1, <2>2
<1>5. Len(node') = Len(node)
  BY <1>0, <1>1, <1>2, <1>3, DeleteKeeps DEF Data
<1>6. text[node[last].slot] \in Key
  BY <1>3, StateTypes DEF LRUInv
<1>7. content' = Less(content, text[node[w[n]].slot])
  BY <1>0, <1>2, <1>4, <1>6, AfterRemove
<1>8. InOrder(ChainLess(w, n, n), n - 1)'
  <2>1. node' = deleteNode(node, w[n]) /\ lpc # "again" /\ lpc' # "again"
    BY <1>2, <1>4
  <2> QED BY <1>2, <1>4, <1>5, <1>7, <2>1, OrderLess
<1>9. Told'
  BY <1>2, <1>7 DEF Told, Less
<1>10. SameData(node, node')
  BY <1>0, <1>2, <1>4, <1>5, ChainDeleted
<1> QED BY <1>4, <1>8, <1>9, <1>10

LEMMA LookupOrder ==
  ASSUME LRUInv, NEW w, NEW n, InOrder(w, n), PutLookup \/ GetLookup
  PROVE  InOrder(w, n)' /\ Told'
<1>1. /\ lpc = "idle" /\ lpc' \in {"put", "get"} /\ text' = text /\ slot' = slot /\ node' = node
      /\ map_size' = map_size
  BY DEF PutLookup, GetLookup
<1>2. PICK k \in Key : hashmap_get(k) /\ k = IF lpc' = "put" THEN text[slot] ELSE Operations
  <2>1. CASE PutLookup
    BY <2>1, StateTypes DEF PutLookup, LRUInv
  <2>2. CASE GetLookup
    BY <2>2, ExportAssumption DEF GetLookup
  <2> QED BY <2>1, <2>2
<1>3. /\ content' = content
      /\ out' = IF k \in DOMAIN content THEN [found |-> TRUE, value |-> content[k]] ELSE Nothing
  BY <1>2, AfterGet, InvParts
<1>4. Led' = Led
  BY <1>1, <1>3 DEF Led
<1>5. Told'
  BY <1>1, <1>2, <1>3 DEF Told, Looked
<1> QED BY <1>1, <1>4, <1>5, OrderKept

LEMMA AbsentOrder ==
  ASSUME LRUInv, Told, NEW w, NEW n, InOrder(w, n), PutAbsent \/ GetMiss
  PROVE  /\ InOrder(w, n)' /\ Told'
         /\ (IF lpc = "put" THEN text[slot] ELSE Operations) \notin DOMAIN content
<1>1. /\ lpc \in {"put", "get"} /\ lpc' = (IF lpc = "put" THEN "evict" ELSE "idle")
      /\ ~out.found /\ UNCHANGED mapVars /\ text' = text /\ slot' = slot /\ node' = node
      /\ map_size' = map_size
  BY DEF PutAbsent, GetMiss
<1>2. content' = content
  BY <1>1, MapKept, InvParts
<1>3. (IF lpc = "put" THEN text[slot] ELSE Operations) \notin DOMAIN content
  BY <1>1 DEF Told, Looked
<1>4. Led' = Led
  BY <1>1, <1>2 DEF Led
<1>5. Told'
  BY <1>1, <1>2, <1>3 DEF Told
<1> QED BY <1>1, <1>3, <1>4, <1>5, OrderKept

LEMMA InsertOrder ==
  ASSUME LRUInv, Told, NEW w, NEW n, InOrder(w, n), PutInsert
  PROVE  /\ Told' /\ n < capacity_lr /\ SameData(node, node')
         /\ \E new \in Nat :
               /\ new = Len(node) + 1
               /\ node'[new].slot = slot /\ node'[new].val = storage_server_count
               /\ InOrder(ChainWith(w, n, new), n + 1)'
<1>1. PICK N : N = Len(node)
  OBVIOUS
<1>2. /\ Inv /\ WellLinked(node) /\ ListOK /\ Chain(node, w, n) /\ n \in Nat /\ map_size = n
      /\ N \in Nat \ {0, 1} /\ node \in Seq(AnyNode) /\ n + 2 <= N
      /\ Data = 3..N /\ map_size \in 0..capacity_lr /\ LRUTypeOK /\ RoomOK
  BY <1>1, InvParts, OrderParts DEF Data, DataOf
<1>3. PICK grown : grown = Append(node, Node(slot, storage_server_count, Nowhere, Nowhere))
  OBVIOUS
<1>4. /\ lpc \in {"evict", "insert"} /\ lpc' = "idle" /\ map_size' = map_size + 1
      /\ hashmap_set(text[slot], N + 1) /\ node' = addNode(grown, N + 1)
      /\ text' = text
      /\ lpc = "insert" \/ map_size # capacity_lr
  BY <1>1, <1>3 DEF PutInsert
<1>5. /\ slot \in Slot /\ slot \in Nat /\ text[slot] \in Key /\ slot # Waiting
      /\ storage_server_count \in Int /\ storage_server_count \in -1..MaxRegistrations
  <2>1. slot # Waiting /\ storage_server_count \in Nat /\ storage_server_count <= MaxRegistrations
    <3>1. slot # Waiting
      BY <1>2, <1>4 DEF RoomOK
    <3>2. /\ storage_server_count \in Nat /\ storage_server_count <= received
          /\ received \in Nat /\ received <= MaxRegistrations
      BY <1>2, StateTypes
    <3> QED BY <3>1, <3>2, Sizes
  <2> QED BY <1>2, <2>1, StateTypes, Sizes
<1>6. n < capacity_lr
  BY <1>2, <1>4, Sizes DEF ListOK
<1>7. /\ grown \in [1..(N + 1) -> AnyNode] /\ \A i \in 1..N : grown[i] = node[i]
      /\ grown[N + 1] = Node(slot, storage_server_count, Nowhere, Nowhere)
  BY <1>1, <1>2, <1>3, <1>5, NewNode
<1>8. Len(grown) = N + 1
  <2>1. grown \in Seq(AnyNode) /\ N + 1 \in Nat
    BY <1>2, <1>7, IsASeq
  <2> QED BY <1>7, <2>1, LenProperties
<1>9. Len(node') = N + 1
  BY <1>1, <1>2, <1>3, <1>4, <1>5, InsertKeeps
<1>10. Chain(grown, w, n)
  <2>1. \A x \in 1..Len(node) : grown[x] = node[x]
    BY <1>1, <1>7
  <2>2. Len(node) \in Nat \ {0, 1} /\ Len(grown) \in Nat /\ Len(grown) >= Len(node)
    BY <1>1, <1>2, <1>8
  <2> QED BY <1>2, <2>1, <2>2, ChainGrown
<1>11. Chain(node', ChainWith(w, n, N + 1), n + 1) /\ SameData(grown, node')
  <2>1. N + 1 \in DataOf(grown) /\ Len(grown) \in Nat \ {0, 1}
    BY <1>2, <1>8 DEF DataOf
  <2>2. \A i \in 1..n : w[i] # N + 1
    BY <1>2, OrderParts
  <2>3. grown \in [1..Len(grown) -> AnyNode] /\ Len(node') = Len(grown)
    BY <1>7, <1>8, <1>9
  <2> QED BY <1>4, <1>10, <2>1, <2>2, <2>3, ChainAdded
<1>12. SameData(node, node') /\ node'[N + 1].slot = slot /\ node'[N + 1].val = storage_server_count
  <2>1. \A x \in 1..(N + 1) : node'[x].slot = grown[x].slot /\ node'[x].val = grown[x].val
    BY <1>8, <1>11 DEF SameData
  <2>2. \A x \in 1..N : x \in 1..(N + 1)
    BY <1>2
  <2>3. N + 1 \in 1..(N + 1)
    BY <1>2
  <2>4. SameData(node, node')
    BY <1>1, <1>7, <2>1, <2>2 DEF SameData
  <2> QED BY <1>7, <2>1, <2>3, <2>4 DEF Node
<1>13. content' = With(content, text[slot], N + 1)
  <2>1. N + 1 \in Value
    BY <1>1, <1>5, NewAddress
  <2> QED BY <1>2, <1>4, <1>5, <2>1, AfterSet
<1>14. Leads(Keys(node', text'), Listed(ChainWith(w, n, N + 1), n + 1), Led')
  <2>1. PICK key, after : key = Keys(node, text) /\ after = Keys(node', text')
    OBVIOUS
  <2>2. PICK S : S = Listed(w, n)
    OBVIOUS
  <2>3. Leads(key, S, content) /\ S \subseteq 3..N
    BY <1>2, <1>4, <2>1, <2>2, OrderParts DEF Led
  <2>4. /\ \A d \in 3..(N + 1) : after[d] = text[node'[d].slot]
        /\ \A d \in 3..N : key[d] = text[node[d].slot]
    BY <1>1, <1>4, <1>9, <2>1 DEF Keys, DataOf
  <2>5. after[N + 1] = text[slot]
    <3>1. N + 1 \in 3..(N + 1)
      BY <1>2
    <3> QED BY <1>12, <2>4, <3>1
  <2>6. \A d \in S : after[d] = key[d]
    <3>1. \A d \in 3..N : d \in 3..(N + 1) /\ d \in 1..N
      BY <1>2
    <3>2. \A d \in 3..N : node'[d].slot = node[d].slot
      BY <1>1, <1>12, <3>1 DEF SameData
    <3> QED BY <2>3, <2>4, <3>1, <3>2
  <2>7. text[slot] \notin DOMAIN content
    BY <1>4 DEF Told
  <2>8. Leads(after, S \cup {N + 1}, With(content, text[slot], N + 1))
    BY <2>3, <2>5, <2>6, <2>7, LeadsWith
  <2>9. Led' = With(content, text[slot], N + 1)
    BY <1>4, <1>13 DEF Led
  <2>10. Listed(ChainWith(w, n, N + 1), n + 1) = S \cup {N + 1}
    BY <1>2, <2>2, ListedWith
  <2> QED BY <2>1, <2>8, <2>9, <2>10
<1>15. Told'
  BY <1>4 DEF Told
<1>16. InOrder(ChainWith(w, n, N + 1), n + 1)'
  <2>1. map_size' = n + 1 /\ (n + 1) + 2 <= Len(node')
    BY <1>2, <1>4, <1>9
  <2> QED BY <1>11, <1>14, <2>1 DEF InOrder
<1>17. N + 1 \in Nat
  BY <1>2
<1> QED BY <1>1, <1>6, <1>12, <1>15, <1>16, <1>17

LEMMA HitOrder ==
  ASSUME LRUInv, Told, NEW w, NEW n, InOrder(w, n), GetHit
  PROVE  /\ Told' /\ SameData(node, node')
         /\ \E i \in 1..n :
               /\ text[node[w[i]].slot] = Operations /\ got' = node[w[i]].val
               /\ InOrder(ChainWith(ChainLess(w, n, i), n - 1, w[i]), n)'
<1>1. PICK N : N = Len(node)
  OBVIOUS
<1>2. /\ Inv /\ WellLinked(node) /\ ListOK /\ LeadsToData /\ Chain(node, w, n) /\ n \in Nat
      /\ N \in Nat \ {0, 1} /\ node \in [1..N -> AnyNode] /\ n + 2 <= N /\ map_size = n
      /\ Data = 3..N
  BY <1>1, InvParts, OrderParts DEF Data, DataOf
<1>3. PICK cut : cut = deleteNode(node, out.value)
  OBVIOUS
<1>4. /\ lpc = "get" /\ lpc' = "again" /\ out.found /\ text' = text /\ map_size' = map_size
      /\ node' = addNode(cut, out.value) /\ hashmap_remove(Operations)
      /\ got' = node[out.value].val
  BY <1>3 DEF GetHit
<1>5. Operations \in DOMAIN content /\ out.value = content[Operations]
  BY <1>4 DEF Told, Looked, Nothing
<1>6. PICK i \in 1..n : w[i] = out.value /\ text[node[w[i]].slot] = Operations
  BY <1>4, <1>5, EntryListed
<1>7. PICK v : v = ChainLess(w, n, i)
  OBVIOUS
<1>8. /\ out.value \in DataOf(node) /\ node[Tail_].prev # Head_
  BY <1>2, <1>4 DEF LeadsToData, ListOK, Data
<1>9. WellLinked(cut) /\ Len(cut) = N
  BY <1>1, <1>2, <1>3, <1>8, DeleteKeeps
<1>10. Chain(cut, v, n - 1) /\ SameData(node, cut)
  BY <1>1, <1>2, <1>3, <1>6, <1>7, <1>9, ChainDeleted
<1>11. /\ Len(node') = N /\ node'[Head_].next = w[i]
  BY <1>1, <1>2, <1>3, <1>4, <1>6, <1>8, MoveKeeps
<1>12. Listed(v, n - 1) = Listed(w, n) \ {w[i]}
  BY <1>2, <1>7, ListedLess
<1>13. Chain(node', ChainWith(v, n - 1, w[i]), n) /\ SameData(cut, node')
  <2>1. w[i] \in DataOf(cut) /\ Len(cut) \in Nat \ {0, 1} /\ cut \in [1..Len(cut) -> AnyNode]
    <3>1. w[i] \in DataOf(cut)
      BY <1>1, <1>6, <1>8, <1>9 DEF DataOf
    <3> QED BY <1>9, <3>1, LinkedTypes
  <2>2. \A j \in 1..(n - 1) : v[j] # w[i]
    BY <1>12 DEF Listed
  <2>3. Len(node') = Len(cut) /\ node' = addNode(cut, w[i])
    BY <1>4, <1>6, <1>9, <1>11
  <2>4. Chain(node', ChainWith(v, n - 1, w[i]), (n - 1) + 1) /\ SameData(cut, node')
    BY <1>10, <2>1, <2>2, <2>3, ChainAdded
  <2> QED BY <1>2, <2>4
<1>14. SameData(node, node')
  BY <1>1, <1>9, <1>10, <1>13 DEF SameData
<1>15. Keys(node', text') = Keys(node, text)
  <2>1. PICK after : after = node'
    OBVIOUS
  <2>2. Len(after) = Len(node) /\ SameData(node, after)
    BY <1>1, <1>11, <1>14, <2>1
  <2>3. Keys(after, text) = Keys(node, text)
    BY <2>2, KeysKept
  <2> QED BY <1>4, <2>1, <2>3
<1>16. Led = content /\ Led' = content
  <2>1. content' = Less(content, Operations)
    BY <1>2, <1>4, AfterRemove, ExportAssumption
  <2>2. Led' = With(Less(content, Operations), Operations, content[Operations])
    BY <1>4, <1>5, <1>6, <1>11, <2>1 DEF Led
  <2>3. content = [k \in DOMAIN content |-> content[k]]
    BY <1>2, Functional
  <2>4. With(Less(content, Operations), Operations, content[Operations]) = content
    BY <1>5, <2>3 DEF With, Less
  <2> QED BY <1>4, <2>2, <2>4 DEF Led
<1>17. Listed(ChainWith(v, n - 1, w[i]), n) = Listed(w, n)
  <2>1. n - 1 \in Nat /\ (n - 1) + 1 = n
    BY <1>2
  <2>2. Listed(ChainWith(v, n - 1, w[i]), (n - 1) + 1) = Listed(v, n - 1) \cup {w[i]}
    BY <2>1, ListedWith
  <2>3. w[i] \in Listed(w, n)
    BY DEF Listed
  <2> QED BY <1>12, <2>1, <2>2, <2>3
<1>18. InOrder(ChainWith(v, n - 1, w[i]), n)'
  <2>1. Leads(Keys(node, text), Listed(w, n), content)
    BY <1>16, OrderParts
  <2>2. Leads(Keys(node', text'), Listed(ChainWith(v, n - 1, w[i]), n), Led')
    BY <1>15, <1>16, <1>17, <2>1
  <2> QED BY <1>2, <1>4, <1>11, <1>13, <2>2 DEF InOrder
<1>19. Told'
  BY <1>4 DEF Told
<1> QED BY <1>4, <1>6, <1>7, <1>14, <1>18, <1>19

LEMMA AgainOrder ==
  ASSUME LRUInv, NEW w, NEW n, InOrder(w, n), GetAgain
  PROVE  InOrder(w, n)' /\ Told'
<1>1. /\ lpc = "again" /\ lpc' = "idle" /\ map_size' = map_size /\ node' = node /\ text' = text
      /\ hashmap_set(Operations, node[Head_].next)
  BY DEF GetAgain
<1>2. node[Head_].next \in Value /\ Operations \in Key
  BY <1>1, AgainAddress, ExportAssumption
<1>3. content' = With(content, Operations, node[Head_].next)
  BY <1>1, <1>2, AfterSet, InvParts
<1>4. Led' = Led
  BY <1>1, <1>3 DEF Led
<1>5. Told'
  BY <1>1 DEF Told
<1> QED BY <1>1, <1>4, <1>5, OrderKept

LEMMA ProgressOrder ==
  ASSUME LRUInv, Told, NEW w, NEW n, InOrder(w, n), MapProgress \/ UNCHANGED <<mapVars, lruVars>>
  PROVE  InOrder(w, n)' /\ Told'
<1>0. Inv /\ OnlySets /\ LeadsToData
  BY InvParts
<1>1. UNCHANGED lruVars
  BY DEF MapProgress
<1>2. /\ lpc' = lpc /\ map_size' = map_size /\ node' = node /\ text' = text /\ slot' = slot
  BY <1>1 DEF lruVars
<1>3. content' = content /\ (lpc \in {"put", "get"} => out' = out)
  <2>1. CASE MapProgress
    BY <1>0, <2>1, AfterProgress DEF MapProgress, LeadsToData
  <2>2. CASE UNCHANGED <<mapVars, lruVars>>
    BY <1>0, <2>2, MapKept
  <2> QED BY <2>1, <2>2
<1>4. Led' = Led
  BY <1>2, <1>3 DEF Led
<1>5. Told'
  BY <1>2, <1>3 DEF Told, Looked
<1> QED BY <1>2, <1>4, <1>5, OrderKept

(* A struct filled with the same texts again, or filled once: the keys of  *)
(* the nodes stay what they were.                                          *)
Repeated == MaxRegistrations <= 1 \/ \A x, y \in Export : x = y

Filled(x) == [s \in Slot |-> IF s < Len(x) THEN x[s + 1] ELSE Blank]
TextsKnown == received = 0 \/ \E x \in Export : text = Filled(x)

LEMMA NoneYet ==
  ASSUME LRUInv, received = 0
  PROVE  Data = {}
<1>1. Len(node) <= 2 + Puts /\ slot = Waiting
  BY InvParts DEF RoomOK
<1>2. Puts = 0
  <2>1. Puts = 0 * MAX_ACC_PATHS
    BY <1>1 DEF Puts
  <2>2. MAX_ACC_PATHS \in Nat
    BY Sizes
  <2> QED BY <2>1, <2>2
<1>3. PICK N \in Nat : N = Len(node) /\ N >= 2
  <2>1. Len(node) \in Nat \ {0, 1}
    BY InvParts
  <2>2. ASSUME NEW N \in Nat \ {0, 1} PROVE N \in Nat /\ N >= 2
    OBVIOUS
  <2> QED BY <2>1, <2>2
<1>4. Len(node) = 2
  <2>1. N <= 2
    BY <1>1, <1>2, <1>3
  <2> QED BY <1>3, <2>1
<1> QED BY <1>4 DEF Data, DataOf

LEMMA ReceivedOrder ==
  ASSUME Repeated, LRUInv, Told, TextsKnown, NEW w, NEW n, InOrder(w, n), NEW x \in Export,
         Register(x) \/ Refuse(x)
  PROVE  InOrder(w, n)' /\ Told' /\ TextsKnown' /\ (received = 0 \/ text' = text)
<1>1. /\ slot = Waiting /\ received < MaxRegistrations /\ received' = received + 1
      /\ text' = Filled(x) /\ UNCHANGED mapVars /\ node' = node /\ map_size' = map_size
      /\ lpc' = lpc
  BY DEF Register, Refuse, Received, Filled
<1>2. content' = content /\ out' = out
  BY <1>1, MapKept, InvParts
<1>3. lpc \notin {"put", "evict", "insert"}
  BY <1>1, InvParts DEF RoomOK
<1>4. received = 0 \/ text' = text
  <2>1. SUFFICES ASSUME received # 0 PROVE text' = text
    OBVIOUS
  <2>2. MaxRegistrations \in Nat /\ received \in Nat
    BY Sizes, StateTypes, InvParts
  <2>3. ~(MaxRegistrations <= 1)
    BY <1>1, <2>1, <2>2
  <2>4. PICK y \in Export : text = Filled(y)
    BY <2>1 DEF TextsKnown
  <2>5. x = y
    BY <2>3 DEF Repeated
  <2> QED BY <1>1, <2>4, <2>5
<1>5. Keys(node, text') = Keys(node, text)
  <2>1. CASE received = 0
    BY <2>1, NoneYet DEF Keys, Data
  <2>2. CASE text' = text
    BY <2>2
  <2> QED BY <1>4, <2>1, <2>2
<1>6. Led' = Led
  BY <1>1, <1>2 DEF Led
<1>7. InOrder(w, n)'
  BY <1>1, <1>5, <1>6, OrderKept
<1>8. Told'
  BY <1>1, <1>2, <1>3 DEF Told, Looked
<1>9. TextsKnown'
  BY <1>1 DEF TextsKnown
<1> QED BY <1>4, <1>7, <1>8, <1>9

(* The inductive invariant. *)
AgreeInv == LRUInv /\ Told /\ TextsKnown /\ \E n, w : InOrder(w, n)

LEMMA AgreeInit == LRUInit => AgreeInv
<1> SUFFICES ASSUME LRUInit PROVE AgreeInv
  OBVIOUS
<1>1. LRUInv
  BY LRUInitInv
<1>2. /\ pc = "idle" /\ D!Init /\ map_size = 0 /\ lpc = "idle" /\ received = 0
      /\ node = <<Node(Waiting, -1, Nowhere, Tail_), Node(Waiting, -1, Head_, Nowhere)>>
  BY InitInv DEF LRUInit, Init
<1>3. Told /\ TextsKnown
  BY <1>2 DEF Told, TextsKnown
<1>4. Led = content /\ DOMAIN content = {}
  BY <1>2 DEF Led, content, Called, D!Init
<1>5. PICK w : w = [i \in 0..1 |-> IF i = 0 THEN Head_ ELSE Tail_]
  OBVIOUS
<1>6. w[0] = Head_ /\ w[1] = Tail_ /\ Head_ = 1 /\ Tail_ = 2
  BY <1>5 DEF Head_, Tail_
<1>7. Len(node) = 2 /\ node[Head_].next = Tail_ /\ node[Tail_].prev = Head_
  <2>1. /\ Node(Waiting, -1, Nowhere, Tail_).next = Tail_
        /\ Node(Waiting, -1, Head_, Nowhere).prev = Head_
    BY DEF Node
  <2> DEFINE h == Node(Waiting, -1, Nowhere, Tail_)
             t == Node(Waiting, -1, Head_, Nowhere)
  <2>2. h.next = Tail_ /\ t.prev = Head_ /\ node = <<h, t>>
    BY <1>2, <2>1
  <2> HIDE DEF h, t
  <2>3. Len(node) = 2 /\ node[1] = h /\ node[2] = t
    BY <2>2
  <2> QED BY <1>6, <2>2, <2>3
<1>8. Chain(node, w, 0)
  <2>1. w \in [0..(0 + 1) -> Nat]
    <3>1. 0..(0 + 1) = 0..1
      OBVIOUS
    <3>2. \A i \in 0..1 : (IF i = 0 THEN Head_ ELSE Tail_) \in Nat
      BY <1>6
    <3> QED BY <1>5, <3>1, <3>2
  <2>2. \A i, j \in 0..(0 + 1) : w[i] = w[j] => i = j
    <3>1. \A i \in 0..(0 + 1) : i = 0 \/ i = 1
      OBVIOUS
    <3> QED BY <1>6, <3>1
  <2>3. \A i \in 0..0 : node[w[i]].next = w[i + 1] /\ node[w[i + 1]].prev = w[i]
    <3>1. \A i \in 0..0 : i = 0 /\ i + 1 = 1
      OBVIOUS
    <3> QED BY <1>6, <1>7, <3>1
  <2>4. \A i \in 1..0 : w[i] \in DataOf(node)
    OBVIOUS
  <2>5. w[0 + 1] = Tail_ /\ w[0] = Head_
    BY <1>6
  <2> QED BY <2>1, <2>2, <2>3, <2>4, <2>5 DEF Chain
<1>9. Listed(w, 0) = {}
  <2>1. 1..0 = {}
    OBVIOUS
  <2> QED BY <2>1 DEF Listed
<1>10. Leads(Keys(node, text), Listed(w, 0), Led)
  BY <1>4, <1>9 DEF Leads
<1>11. InOrder(w, 0)
  BY <1>2, <1>7, <1>8, <1>10 DEF InOrder
<1> QED BY <1>1, <1>3, <1>11 DEF AgreeInv

LEMMA AgreeNext ==
  ASSUME Repeated, AgreeInv, [LRUNext]_<<mapVars, lruVars>>
  PROVE  AgreeInv'
<1>1. PICK n, w : InOrder(w, n)
  BY DEF AgreeInv
<1>2. LRUInv /\ Told /\ TextsKnown
  BY DEF AgreeInv
<1>3. LRUInv'
  BY <1>2, LRUNextInv
<1>4. SUFFICES Told' /\ TextsKnown' /\ \E l, v : InOrder(v, l)'
  BY <1>3 DEF AgreeInv
<1>5. CASE \E x \in Export : Register(x) \/ Refuse(x)
  BY <1>1, <1>2, <1>5, ReceivedOrder
<1>6. ASSUME received' = received, text' = text PROVE TextsKnown'
  BY <1>2, <1>6 DEF TextsKnown, Filled
<1>7. CASE MapProgress \/ UNCHANGED <<mapVars, lruVars>>
  <2>1. received' = received /\ text' = text
    BY <1>7 DEF MapProgress, lruVars
  <2> QED BY <1>1, <1>2, <1>6, <1>7, <2>1, ProgressOrder
<1>8. CASE PutLookup \/ GetLookup
  <2>1. received' = received /\ text' = text
    BY <1>8 DEF PutLookup, GetLookup
  <2> QED BY <1>1, <1>2, <1>6, <1>8, <2>1, LookupOrder
<1>9. CASE PutAbsent \/ GetMiss
  <2>1. received' = received /\ text' = text
    BY <1>9 DEF PutAbsent, GetMiss
  <2> QED BY <1>1, <1>2, <1>6, <1>9, <2>1, AbsentOrder
<1>10. CASE PutDrop
  <2>1. received' = received /\ text' = text
    BY <1>10 DEF PutDrop
  <2> QED BY <1>1, <1>2, <1>6, <1>10, <2>1, DropOrder
<1>11. CASE PutEvict
  <2>1. received' = received /\ text' = text
    BY <1>11 DEF PutEvict
  <2> QED BY <1>1, <1>2, <1>6, <1>11, <2>1, EvictOrder
<1>12. CASE PutInsert
  <2>1. received' = received /\ text' = text
    BY <1>12 DEF PutInsert
  <2> QED BY <1>1, <1>2, <1>6, <1>12, <2>1, InsertOrder
<1>13. CASE GetHit
  <2>1. received' = received /\ text' = text
    BY <1>13 DEF GetHit
  <2> QED BY <1>1, <1>2, <1>6, <1>13, <2>1, HitOrder
<1>14. CASE GetAgain
  <2>1. received' = received /\ text' = text
    BY <1>14 DEF GetAgain
  <2> QED BY <1>1, <1>2, <1>6, <1>14, <2>1, AgainOrder
<1> QED BY <1>5, <1>7, <1>8, <1>9, <1>10, <1>11, <1>12, <1>13, <1>14 DEF LRUNext

-----------------------------------------------------------------------------
(* What the recursive definition of nth finds. *)

LEMMA Least ==
  ASSUME NEW T \in SUBSET Nat, T # {}
  PROVE  \E x \in T : \A y \in T : x <= y
<1> DEFINE R == {p \in Nat \X Nat : p[1] < p[2]}
<1>1. IsWellFoundedOn(R, Nat)
  BY NatLessThanWellFounded DEF OpToRel
<1>2. \A x, y \in Nat : <<y, x>> \in R <=> y < x
  OBVIOUS
<1> HIDE DEF R
<1>3. PICK x \in T : \A y \in T : ~(<<y, x>> \in R)
  BY <1>1, WFMin
<1>4. x \in Nat /\ \A y \in T : y \in Nat /\ ~(y < x)
  BY <1>2, <1>3
<1>5. \A y \in T : x <= y
  BY <1>4
<1> QED BY <1>5

LEMMA Induction ==
  ASSUME NEW T, 0 \in T, \A n \in Nat : n \in T => n + 1 \in T
  PROVE  Nat \subseteq T
<1> SUFFICES ASSUME Nat \ T # {} PROVE FALSE
  OBVIOUS
<1>1. PICK x \in Nat \ T : \A y \in Nat \ T : x <= y
  BY Least
<1>2. x # 0 /\ x - 1 \in Nat /\ x - 1 \in T
  BY <1>1
<1> QED BY <1>1, <1>2

LEMMA NthNode ==
  ASSUME NEW w, NEW n, Chain(node, w, n), Len(node) \in Nat \ {0, 1}, n + 2 <= Len(node)
  PROVE  \A m \in 0..Len(node) : nth[m] = IF m <= n THEN w[m + 1] ELSE Tail_
<1>1. PICK L : L = Len(node)
  OBVIOUS
<1>2. /\ n \in Nat /\ L \in Nat /\ n + 2 <= L /\ Tail_ # Nowhere
      /\ w[0] = Head_ /\ w[n + 1] = Tail_
      /\ \A i \in 1..n : w[i] # Tail_ /\ w[i] # Nowhere
      /\ \A i \in 0..n : node[w[i]].next = w[i + 1]
  <2>1. n \in Nat /\ \A i \in 1..n : w[i] \in 3..L
    BY <1>1 DEF Chain, DataOf
  <2>2. \A i \in 1..n : w[i] # Tail_ /\ w[i] # Nowhere
    <3>1. 1 \notin 3..L /\ 2 \notin 3..L /\ 0 \notin 3..L
      BY <1>1
    <3> QED BY <2>1, <3>1 DEF Tail_, Nowhere
  <2> QED BY <1>1, <2>1, <2>2 DEF Chain, Tail_, Nowhere
<1> DEFINE NextOf(a) == IF a \in {Tail_, Nowhere} THEN a ELSE node[a].next
<1>3. PICK g : g = [m \in 0..L |-> IF m <= n THEN w[m + 1] ELSE Tail_]
  OBVIOUS
<1>4. \A m \in 0..L : g[m] = IF m <= n THEN w[m + 1] ELSE Tail_
  BY <1>3
<1>5. \A m \in 0..L : g[m] = IF m = 0 THEN node[Head_].next ELSE NextOf(g[m - 1])
  <2> TAKE m \in 0..L
  <2>1. CASE m = 0
    <3>1. 0 \in 0..n /\ 0 + 1 = 1 /\ 0 <= n
      BY <1>2
    <3>2. node[Head_].next = w[1]
      BY <1>2, <3>1
    <3> QED BY <1>4, <2>1, <3>1, <3>2
  <2>2. CASE m # 0 /\ m <= n
    <3>1. /\ m - 1 \in 0..L /\ m - 1 <= n /\ (m - 1) + 1 = m /\ m \in 1..n /\ m \in 0..n
      BY <1>2, <2>2
    <3>2. g[m - 1] = w[m] /\ g[m] = w[m + 1]
      BY <1>4, <2>2, <3>1
    <3>3. NextOf(w[m]) = node[w[m]].next
      BY <1>2, <3>1
    <3> QED BY <1>2, <2>2, <3>1, <3>2, <3>3
  <2>3. CASE m # 0 /\ ~(m <= n)
    <3>1. /\ m - 1 \in 0..L /\ (m - 1 <= n => m - 1 = n)
      BY <1>2, <2>3
    <3>2. g[m] = Tail_ /\ g[m - 1] = Tail_
      BY <1>2, <1>4, <2>3, <3>1
    <3> QED BY <2>3, <3>2
  <2> QED BY <2>1, <2>2, <2>3
<1>6. g = [m \in 0..L |-> IF m = 0 THEN node[Head_].next
                         ELSE IF g[m - 1] \in {Tail_, Nowhere} THEN g[m - 1]
                         ELSE node[g[m - 1]].next]
  BY <1>3, <1>5
<1>7. nth = [m \in 0..L |-> IF m = 0 THEN node[Head_].next
                           ELSE IF nth[m - 1] \in {Tail_, Nowhere} THEN nth[m - 1]
                           ELSE node[nth[m - 1]].next]
  <2>1. nth = CHOOSE f : f = [m \in 0..L |-> IF m = 0 THEN node[Head_].next
                           ELSE IF f[m - 1] \in {Tail_, Nowhere} THEN f[m - 1]
                           ELSE node[f[m - 1]].next]
    BY <1>1 DEF nth
  <2> QED BY <1>6, <2>1
<1> HIDE DEF NextOf
<1> DEFINE T == {m \in Nat : m <= L => nth[m] = g[m]}
<1>8. \A m \in 0..L : nth[m] = IF m = 0 THEN node[Head_].next ELSE NextOf(nth[m - 1])
  BY <1>7 DEF NextOf
<1>9. 0 \in T
  <2>1. 0 \in 0..L
    BY <1>2
  <2> QED BY <1>5, <1>8, <2>1
<1>10. ASSUME NEW m \in Nat, m \in T PROVE m + 1 \in T
  <2>1. SUFFICES ASSUME m + 1 <= L PROVE nth[m + 1] = g[m + 1]
    OBVIOUS
  <2>2. m <= L /\ m + 1 \in 0..L /\ (m + 1) - 1 = m /\ m + 1 # 0
    BY <1>2, <2>1
  <2>3. nth[m] = g[m]
    BY <1>10, <2>2
  <2> QED BY <1>5, <1>8, <2>2, <2>3
<1> HIDE DEF T
<1>11. Nat \subseteq T
  BY <1>9, <1>10, Induction
<1>12. \A m \in 0..L : nth[m] = g[m]
  <2>1. \A m \in 0..L : m \in Nat /\ m <= L
    BY <1>2
  <2> QED BY <1>11, <2>1 DEF T
<1> QED BY <1>1, <1>4, <1>12

LEMMA ListLength ==
  ASSUME NEW w, NEW n, Chain(node, w, n), Len(node) \in Nat \ {0, 1}, n + 2 <= Len(node)
  PROVE  /\ Length = n /\ InList = Listed(w, n)
         /\ \A i \in 1..n : nth[i - 1] = w[i]
<1>1. PICK L : L = Len(node)
  OBVIOUS
<1>2. /\ n \in Nat /\ L \in Nat /\ n + 2 <= L /\ w[n + 1] = Tail_
      /\ \A i \in 1..n : w[i] # Tail_
  <2>1. n \in Nat /\ w[n + 1] = Tail_ /\ \A i \in 1..n : w[i] \in 3..L
    BY <1>1 DEF Chain, DataOf
  <2>2. 2 \notin 3..L
    BY <1>1
  <2> QED BY <1>1, <2>1, <2>2 DEF Tail_
<1>3. \A m \in 0..L : nth[m] = IF m <= n THEN w[m + 1] ELSE Tail_
  BY <1>1, NthNode
<1>4. \A i \in 1..n : nth[i - 1] = w[i]
  <2> TAKE i \in 1..n
  <2>1. i - 1 \in 0..L /\ i - 1 <= n /\ (i - 1) + 1 = i
    BY <1>2
  <2> QED BY <1>3, <2>1
<1>5. nth[n] = Tail_ /\ n \in 0..L
  <2>1. n \in 0..L /\ n <= n
    BY <1>2
  <2> QED BY <1>2, <1>3, <2>1
<1>6. \A m \in 0..(n - 1) : nth[m] # Tail_
  <2> TAKE m \in 0..(n - 1)
  <2>1. m + 1 \in 1..n /\ (m + 1) - 1 = m
    BY <1>2
  <2> QED BY <1>2, <1>4, <2>1
<1> DEFINE P(l) == (nth[l] = Tail_ \/ l = L) /\ \A m \in 0..(l - 1) : nth[m] # Tail_
<1>7. P(n)
  BY <1>5, <1>6
<1>8. ASSUME NEW l \in 0..L, P(l) PROVE l = n
  <2>1. CASE l < n
    <3>1. l \in 0..(n - 1) /\ l # L
      BY <1>2, <2>1
    <3> QED BY <1>6, <1>8, <3>1
  <2>2. CASE n < l
    <3>1. n \in 0..(l - 1)
      BY <1>2, <2>2
    <3> QED BY <1>5, <1>8, <3>1
  <2> QED BY <1>2, <2>1, <2>2
<1>9. Length = CHOOSE l \in 0..L : P(l)
  BY <1>1 DEF Length
<1> HIDE DEF P
<1>10. Length = n
  BY <1>5, <1>7, <1>8, <1>9
<1>11. InList = Listed(w, n)
  <2>1. InList = {nth[m] : m \in 0..(n - 1)}
    BY <1>10 DEF InList
  <2>2. ASSUME NEW m \in 0..(n - 1) PROVE nth[m] \in Listed(w, n)
    <3>1. m + 1 \in 1..n /\ (m + 1) - 1 = m
      BY <1>2
    <3> QED BY <1>4, <3>1 DEF Listed
  <2>3. ASSUME NEW i \in 1..n PROVE w[i] \in InList
    <3>1. i - 1 \in 0..(n - 1)
      BY <1>2
    <3> QED BY <1>4, <2>1, <3>1
  <2> QED BY <2>1, <2>2, <2>3 DEF Listed
<1> QED BY <1>4, <1>10, <1>11

(* The list has as many nodes as the map has keys. *)
LEMMA LeadsCount ==
  ASSUME NEW nodes, NEW w, NEW n, Chain(nodes, w, n), NEW key, NEW m, Leads(key, Listed(w, n), m)
  PROVE  Cardinality(DOMAIN m) = n
<1>1. n \in Nat /\ \A i, j \in 1..n : w[i] = w[j] => i = j
  <2>1. n \in Nat /\ \A i, j \in 0..(n + 1) : w[i] = w[j] => i = j
    BY DEF Chain
  <2>2. \A i \in 1..n : i \in 0..(n + 1)
    BY <2>1
  <2> QED BY <2>1, <2>2
<1>2. PICK f : f = [i \in 1..n |-> key[w[i]]]
  OBVIOUS
<1>3. \A i \in 1..n : f[i] \in DOMAIN m /\ m[f[i]] = w[i]
  BY <1>2 DEF Leads, Listed
<1>4. \A k \in DOMAIN m : \E i \in 1..n : f[i] = k
  BY <1>2 DEF Leads, Listed
<1>5. f \in [1..n -> DOMAIN m]
  BY <1>2, <1>3
<1>6. \A i, j \in 1..n : f[i] = f[j] => i = j
  BY <1>1, <1>3
<1>7. f \in Bijection(1..n, DOMAIN m)
  <2>1. f \in Injection(1..n, DOMAIN m)
    BY <1>5, <1>6 DEF Injection, IsInjective
  <2>2. f \in Surjection(1..n, DOMAIN m)
    BY <1>4, <1>5 DEF Surjection
  <2> QED BY <2>1, <2>2 DEF Bijection
<1>8. IsFiniteSet(1..n) /\ Cardinality(1..n) = n
  BY <1>1, FS_Interval
<1> QED BY <1>7, <1>8, FS_Bijection DEF ExistsBijection

LEMMA AgreeMatches == AgreeInv => MapMatchesList
<1> SUFFICES ASSUME AgreeInv, Quiet PROVE MapMatchesList
  BY DEF MapMatchesList
<1>1. LRUInv
  BY DEF AgreeInv
<1>2. PICK n, w : InOrder(w, n)
  BY DEF AgreeInv
<1>3. /\ n \in Nat /\ map_size = n /\ Chain(node, w, n) /\ n + 2 <= Len(node)
      /\ Len(node) \in Nat \ {0, 1} /\ Leads(Keys(node, text), Listed(w, n), Led)
      /\ Listed(w, n) \subseteq Data
      /\ \A d \in Data : Keys(node, text)[d] = text[node[d].slot]
  BY <1>1, <1>2, OrderParts
<1>4. Led = dict /\ DOMAIN dict = LiveKeys
  BY DEF Led, Quiet, content, Called, dict
<1>5. Length = n /\ InList = Listed(w, n) /\ \A i \in 1..n : nth[i - 1] = w[i]
  BY <1>3, ListLength
<1>6. {dict[p] : p \in LiveKeys} = InList
  BY <1>3, <1>4, <1>5 DEF Leads
<1>7. \A p \in LiveKeys : text[node[dict[p]].slot] = p
  BY <1>3, <1>4 DEF Leads
<1>8. Cardinality(LiveKeys) = n
  BY <1>3, <1>4, LeadsCount
<1>9. /\ w[0] = Head_ /\ w[n + 1] = Tail_
      /\ \A i \in 0..n : node[w[i]].next = w[i + 1] /\ node[w[i + 1]].prev = w[i]
  BY <1>3 DEF Chain
<1>10. node[Tail_].prev = IF Length = 0 THEN Head_ ELSE nth[Length - 1]
  <2>1. n \in 0..n /\ (n # 0 => n \in 1..n)
    BY <1>3
  <2> QED BY <1>5, <1>9, <2>1
<1>11. ASSUME NEW x \in InList PROVE node[node[x].prev].next = x
  <2>1. PICK i \in 1..n : x = w[i]
    BY <1>5 DEF Listed
  <2>2. i - 1 \in 0..n /\ (i - 1) + 1 = i
    BY <1>3
  <2> QED BY <1>9, <2>1, <2>2
<1> QED BY <1>3, <1>5, <1>6, <1>7, <1>8, <1>10, <1>11 DEF MapMatchesList

(* Between calls the map leads exactly to the nodes of the list, for every *)
(* capacity, every set of paths and any number of registrations, as long   *)
(* as a struct that is filled again gets the texts it had: put_LRU and     *)
(* get_LRU keep list, map and map_size together.                           *)
THEOREM ListAndMapAgree ==
  ASSUME Repeated
  PROVE  LRUSpec => []MapMatchesList
<1>1. AgreeInv /\ [LRUNext]_<<mapVars, lruVars>> => AgreeInv'
  BY AgreeNext
<1> QED BY <1>1, AgreeInit, AgreeMatches, PTL DEF LRUSpec

-----------------------------------------------------------------------------
(* The list as the items of Cache. *)

ItemSet == [path : Key, number : Int]
Distinct(s) == \A i, j \in 1..Len(s) : s[i].path = s[j].path => i = j

LEMMA WithoutItem ==
  ASSUME NEW s \in Seq(ItemSet), Distinct(s), NEW i \in 1..Len(s), NEW p, s[i].path = p
  PROVE  /\ C0!Without(s, p) = [j \in 1..(Len(s) - 1) |-> IF j < i THEN s[j] ELSE s[j + 1]]
         /\ C0!NumberOf(s, p) = s[i].number /\ p \in C0!PathsOf(s)
<1>1. DOMAIN s = 1..Len(s) /\ Len(s) \in Nat
  BY LenProperties
<1>2. C0!PositionOf(s, p) = i
  <2>1. \A j \in DOMAIN s : s[j].path = p => j = i
    BY <1>1 DEF Distinct
  <2> QED BY <1>1, <2>1 DEF C0!PositionOf
<1>3. p \in C0!PathsOf(s)
  BY <1>1 DEF C0!PathsOf
<1> QED BY <1>2, <1>3 DEF C0!Without, C0!NumberOf

LEMMA CutWhole ==
  ASSUME NEW s \in Seq(ItemSet), NEW l \in Nat, Len(s) <= l
  PROVE  C0!Cut(s, l) = s
<1>1. Len(s) \in Nat
  BY LenProperties
<1>2. (IF Len(s) < l THEN Len(s) ELSE l) = Len(s)
  BY <1>1
<1> QED BY <1>2, SubSeqFull DEF C0!Cut

(* An item in front of others. *)
LEMMA InFront ==
  ASSUME NEW s \in Seq(ItemSet), NEW e \in ItemSet
  PROVE  /\ <<e>> \o s \in Seq(ItemSet) /\ Len(<<e>> \o s) = Len(s) + 1
         /\ \A j \in 1..(Len(s) + 1) : (<<e>> \o s)[j] = IF j = 1 THEN e ELSE s[j - 1]
<1>1. <<e>> \in Seq(ItemSet) /\ Len(<<e>>) = 1 /\ <<e>>[1] = e
  OBVIOUS
<1>2. Len(s) \in Nat
  BY LenProperties
<1>3. PICK one : one = <<e>>
  OBVIOUS
<1>4. /\ one \o s \in Seq(ItemSet) /\ Len(one \o s) = Len(one) + Len(s)
      /\ \A j \in 1..(Len(one) + Len(s)) :
            (one \o s)[j] = IF j <= Len(one) THEN one[j] ELSE s[j - Len(one)]
  BY <1>1, <1>3, ConcatProperties
<1>5. ASSUME NEW j \in 1..(Len(s) + 1) PROVE (one \o s)[j] = IF j = 1 THEN e ELSE s[j - 1]
  <2>1. j \in 1..(Len(one) + Len(s)) /\ (j <= Len(one) <=> j = 1)
    BY <1>1, <1>2, <1>3
  <2> QED BY <1>1, <1>3, <1>4, <2>1
<1>6. Len(one) + Len(s) = Len(s) + 1
  BY <1>1, <1>2, <1>3
<1> QED BY <1>3, <1>4, <1>5, <1>6

(* What the two instances of Cache share. *)
LEMMA SameCache ==
  \A s, p, v : /\ C!Pushed(s, p, v) = C0!Pushed(s, p, v)
               /\ C!Touched(s, p) = C0!Touched(s, p) /\ C!Answer(s, p) = C0!Answer(s, p)
  BY DEF C!Pushed, C!Touched, C!Answer, C!Cut, C!Without, C!PathsOf, C!PositionOf, C!NumberOf,
         C0!Pushed, C0!Touched, C0!Answer, C0!Cut, C0!Without, C0!PathsOf, C0!PositionOf,
         C0!NumberOf

ItemAt(d) == [path |-> text[node[d].slot], number |-> node[d].val]

LEMMA ItemsAre ==
  \A w, n : LRUInv /\ InOrder(w, n) =>
      /\ Items = [i \in 1..n |-> ItemAt(w[i])]
      /\ Items \in Seq(ItemSet) /\ Len(Items) = n /\ Distinct(Items)
<1> SUFFICES ASSUME NEW w, NEW n, LRUInv, InOrder(w, n)
             PROVE  /\ Items = [i \in 1..n |-> ItemAt(w[i])]
                    /\ Items \in Seq(ItemSet) /\ Len(Items) = n /\ Distinct(Items)
  OBVIOUS
<1>1. /\ n \in Nat /\ Chain(node, w, n) /\ n + 2 <= Len(node) /\ WellLinked(node)
      /\ Len(node) \in Nat \ {0, 1} /\ Leads(Keys(node, text), Listed(w, n), Led)
      /\ \A i \in 1..n : w[i] \in Data
      /\ \A d \in Data : Keys(node, text)[d] = text[node[d].slot]
      /\ node \in [1..Len(node) -> AnyNode] /\ Data \subseteq 1..Len(node)
  BY OrderParts, InvParts
<1>2. Length = n /\ \A i \in 1..n : nth[i - 1] = w[i]
  BY <1>1, ListLength
<1>3. Items = [i \in 1..n |-> ItemAt(w[i])]
  BY <1>2 DEF Items, ItemAt
<1>4. \A i \in 1..n : ItemAt(w[i]) \in ItemSet
  <2> TAKE i \in 1..n
  <2>1. w[i] \in Data /\ node[w[i]].slot \in Slot
    BY <1>1 DEF WellLinked, Data
  <2>2. text[node[w[i]].slot] \in Key
    BY <2>1, InvParts, StateTypes
  <2>3. node[w[i]] \in AnyNode
    BY <1>1, <2>1
  <2> QED BY <2>2, <2>3 DEF ItemAt, ItemSet, AnyNode
<1>5. Items \in Seq(ItemSet)
  <2>1. Items \in [1..n -> ItemSet]
    BY <1>3, <1>4
  <2> QED BY <1>1, <2>1, IsASeq
<1>6. Len(Items) = n
  BY <1>1, <1>3, <1>5, LenProperties
<1>7. Distinct(Items)
  <2>1. \A i \in 1..n : Items[i].path = Keys(node, text)[w[i]]
    BY <1>1, <1>3 DEF ItemAt
  <2>2. \A i \in 1..n : Led[Keys(node, text)[w[i]]] = w[i]
    BY <1>1 DEF Leads, Listed
  <2>3. \A i, j \in 1..n : w[i] = w[j] => i = j
    <3>1. \A i, j \in 0..(n + 1) : w[i] = w[j] => i = j
      BY <1>1 DEF Chain
    <3>2. \A i \in 1..n : i \in 0..(n + 1)
      BY <1>1
    <3> QED BY <3>1, <3>2
  <2>4. \A i, j \in 1..n : Items[i].path = Items[j].path => i = j
    BY <2>1, <2>2, <2>3
  <2> QED BY <1>6, <2>4 DEF Distinct
<1> QED BY <1>3, <1>5, <1>6, <1>7

LEMMA ItemsNext ==
  (\A w, n : LRUInv /\ InOrder(w, n) =>
      /\ Items = [i \in 1..n |-> ItemAt(w[i])]
      /\ Items \in Seq(ItemSet) /\ Len(Items) = n /\ Distinct(Items))'
  BY ItemsAre, PTL

LEMMA ItemsSame ==
  ASSUME LRUInv, LRUInv', NEW w, NEW n, InOrder(w, n), InOrder(w, n)', node' = node,
         Keys(node, text') = Keys(node, text)
  PROVE  Items' = Items
<1>1. Items = [i \in 1..n |-> ItemAt(w[i])] /\ Items' = [i \in 1..n |-> ItemAt(w[i])']
  BY ItemsAre, ItemsNext
<1>2. \A i \in 1..n : w[i] \in Data
  BY OrderParts
<1>3. ASSUME NEW d \in Data PROVE ItemAt(d)' = ItemAt(d)
  <2>1. text'[node[d].slot] = text[node[d].slot]
    BY <1>3 DEF Keys, Data
  <2> QED BY <2>1 DEF ItemAt
<1> QED BY <1>1, <1>2, <1>3

LEMMA SameItem ==
  ASSUME LRUInv, SameData(node, node'), text' = text, NEW d \in Data
  PROVE  ItemAt(d)' = ItemAt(d)
<1>1. node'[d].slot = node[d].slot /\ node'[d].val = node[d].val
  BY InvParts DEF SameData
<1> QED BY <1>1 DEF ItemAt

(* The items when a node leaves the list. *)
LEMMA ItemsLess ==
  ASSUME LRUInv, LRUInv', NEW w, NEW n, InOrder(w, n), NEW i \in 1..n,
         InOrder(ChainLess(w, n, i), n - 1)', SameData(node, node'), text' = text,
         NEW p, text[node[w[i]].slot] = p
  PROVE  /\ Items' = C0!Without(Items, p) /\ C0!Without(Items', p) = Items'
         /\ Items' = [j \in 1..(n - 1) |-> IF j < i THEN Items[j] ELSE Items[j + 1]]
         /\ Items' \in Seq(ItemSet) /\ Len(Items') = n - 1 /\ Len(Items) = n
         /\ Items \in Seq(ItemSet) /\ n \in Nat
<1>1. /\ Items = [j \in 1..n |-> ItemAt(w[j])] /\ Items \in Seq(ItemSet) /\ Len(Items) = n
      /\ Distinct(Items)
  BY ItemsAre
<1>2. PICK v : v = ChainLess(w, n, i)
  OBVIOUS
<1>3. /\ Items' = [j \in 1..(n - 1) |-> ItemAt(v[j])'] /\ Items' \in Seq(ItemSet)
      /\ Len(Items') = n - 1
  BY <1>2, ItemsNext
<1>4. n \in Nat /\ \A j \in 1..n : w[j] \in Data
  BY OrderParts
<1>5. ASSUME NEW j \in 1..(n - 1)
      PROVE  ItemAt(v[j])' = IF j < i THEN Items[j] ELSE Items[j + 1]
  <2>1. j \in 0..n /\ j \in 1..n /\ j + 1 \in 1..n
    BY <1>4
  <2>2. v[j] = IF j < i THEN w[j] ELSE w[j + 1]
    BY <1>2, <2>1 DEF ChainLess
  <2>3. /\ Items[j] = ItemAt(w[j]) /\ Items[j + 1] = ItemAt(w[j + 1])
        /\ w[j] \in Data /\ w[j + 1] \in Data
    BY <1>1, <1>4, <2>1
  <2>4. ItemAt(w[j])' = ItemAt(w[j]) /\ ItemAt(w[j + 1])' = ItemAt(w[j + 1])
    BY <2>3, SameItem
  <2>5. CASE j < i
    <3>1. v[j] = w[j]
      BY <2>2, <2>5
    <3>2. ItemAt(v[j])' = ItemAt(w[j])'
      BY <3>1 DEF ItemAt
    <3> QED BY <2>3, <2>4, <2>5, <3>2
  <2>6. CASE ~(j < i)
    <3>1. v[j] = w[j + 1]
      BY <2>2, <2>6
    <3>2. ItemAt(v[j])' = ItemAt(w[j + 1])'
      BY <3>1 DEF ItemAt
    <3> QED BY <2>3, <2>4, <2>6, <3>2
  <2> QED BY <2>5, <2>6
<1>6. Items' = [j \in 1..(n - 1) |-> IF j < i THEN Items[j] ELSE Items[j + 1]]
  BY <1>3, <1>5
<1>7. Items[i].path = p
  BY <1>1 DEF ItemAt
<1>8. Items' = C0!Without(Items, p)
  <2>1. PICK s : s = Items
    OBVIOUS
  <2>2. s \in Seq(ItemSet) /\ Distinct(s) /\ i \in 1..Len(s) /\ s[i].path = p
    BY <1>1, <1>7, <2>1
  <2>3. C0!Without(s, p) = [j \in 1..(Len(s) - 1) |-> IF j < i THEN s[j] ELSE s[j + 1]]
    BY <2>2, WithoutItem
  <2> QED BY <1>1, <1>6, <2>1, <2>3
<1>9. p \notin C0!PathsOf(Items')
  <2>1. SUFFICES ASSUME NEW j \in DOMAIN Items', Items'[j].path = p PROVE FALSE
    BY DEF C0!PathsOf
  <2>2. j \in 1..(n - 1)
    BY <1>3
  <2>3. PICK k \in 1..n : k # i /\ Items'[j] = Items[k]
    <3>1. j \in 1..n /\ j + 1 \in 1..n /\ (j < i => j # i) /\ (~(j < i) => j + 1 # i)
      BY <1>4, <2>2
    <3>2. Items'[j] = IF j < i THEN Items[j] ELSE Items[j + 1]
      BY <1>6, <2>2
    <3> QED BY <3>1, <3>2
  <2> QED BY <1>1, <1>7, <2>1, <2>3 DEF Distinct
<1>10. C0!Without(Items', p) = Items'
  BY <1>9 DEF C0!Without
<1> QED BY <1>1, <1>3, <1>4, <1>6, <1>8, <1>10

(* What the map says of a path, the items say too. *)
LEMMA KnownPaths ==
  ASSUME LRUInv, NEW w, NEW n, InOrder(w, n), lpc # "again", NEW k
  PROVE  k \in C0!PathsOf(Items) <=> k \in DOMAIN content
<1>1. Items = [j \in 1..n |-> ItemAt(w[j])]
  BY ItemsAre
<1>2. ASSUME k \in DOMAIN content PROVE k \in C0!PathsOf(Items)
  <2>1. PICK i \in 1..n : text[node[w[i]].slot] = k
    BY <1>2, EntryListed
  <2>2. i \in DOMAIN Items /\ Items[i].path = k
    BY <1>1, <2>1 DEF ItemAt
  <2> QED BY <2>2 DEF C0!PathsOf
<1>3. ASSUME k \in C0!PathsOf(Items) PROVE k \in DOMAIN content
  <2>1. PICK i \in 1..n : text[node[w[i]].slot] = k
    BY <1>1, <1>3 DEF C0!PathsOf, ItemAt
  <2>2. w[i] \in Listed(w, n) /\ Keys(node, text)[w[i]] = k
    BY <2>1, OrderParts DEF Listed
  <2> QED BY <2>2, OrderParts DEF Leads, Led
<1> QED BY <1>2, <1>3

-----------------------------------------------------------------------------
(* Every step of put_LRU and get_LRU is one of Cache, or none. *)

Stutters == recency' = recency /\ answer' = answer

LEMMA LookupRefines ==
  ASSUME LRUInv, LRUInv', NEW w, NEW n, InOrder(w, n), PutLookup \/ GetLookup
  PROVE  C!Next
<1>1. InOrder(w, n)' /\ node' = node /\ text' = text
  BY LookupOrder DEF PutLookup, GetLookup
<1>2. Items' = Items
  BY <1>1, ItemsSame
<1>3. lpc = "idle" /\ recency = Items /\ answer = got
  BY DEF PutLookup, GetLookup, recency, answer
<1>4. CASE PutLookup
  <2>1. /\ lpc' = "put" /\ slot' = slot /\ storage_server_count' = storage_server_count
        /\ got' = got /\ slot # Waiting
    BY <1>4 DEF PutLookup
  <2>2. /\ recency' = C0!Pushed(Items, text[slot], storage_server_count) /\ answer' = got
    BY <1>1, <1>2, <2>1 DEF recency, answer
  <2>3. text[slot] \in Key /\ storage_server_count \in 0..MaxRegistrations
    <3>1. LRUTypeOK
      BY InvParts
    <3>2. /\ storage_server_count \in Nat /\ storage_server_count <= received
          /\ received \in Nat /\ received <= MaxRegistrations /\ text[slot] \in Key
      BY <2>1, <3>1, StateTypes
    <3> QED BY <3>2, Sizes
  <2>4. C!Put(text[slot], storage_server_count)
    BY <1>3, <2>2, SameCache DEF C!Put
  <2> QED BY <2>3, <2>4 DEF C!Next
<1>5. CASE GetLookup
  <2>1. lpc' = "get"
    BY <1>5 DEF GetLookup
  <2>2. recency' = C0!Touched(Items, Operations) /\ answer' = C0!Answer(Items, Operations)
    BY <1>2, <2>1 DEF recency, answer
  <2>3. C!Get(Operations)
    BY <1>3, <2>2, SameCache DEF C!Get
  <2> QED BY <2>3, ExportAssumption DEF C!Next
<1> QED BY <1>4, <1>5

LEMMA AbsentRefines ==
  ASSUME LRUInv, LRUInv', Told, NEW w, NEW n, InOrder(w, n), PutAbsent \/ GetMiss
  PROVE  Stutters
<1>1. InOrder(w, n)' /\ node' = node /\ text' = text /\ slot' = slot
      /\ storage_server_count' = storage_server_count
  BY AbsentOrder DEF PutAbsent, GetMiss
<1>2. Items' = Items
  BY <1>1, ItemsSame
<1>3. CASE PutAbsent
  <2>1. lpc = "put" /\ lpc' = "evict" /\ got' = got
    BY <1>3 DEF PutAbsent
  <2> QED BY <1>1, <1>2, <2>1 DEF Stutters, recency, answer
<1>4. CASE GetMiss
  <2>1. lpc = "get" /\ lpc' = "idle" /\ got' = -1
    BY <1>4 DEF GetMiss
  <2>2. Operations \notin C0!PathsOf(Items)
    BY <2>1, AbsentOrder, KnownPaths
  <2>3. C0!Touched(Items, Operations) = Items /\ C0!Answer(Items, Operations) = -1
    BY <2>2 DEF C0!Touched, C0!Answer
  <2> QED BY <1>2, <2>1, <2>3 DEF Stutters, recency, answer
<1> QED BY <1>3, <1>4

LEMMA DropRefines ==
  ASSUME LRUInv, LRUInv', Told, NEW w, NEW n, InOrder(w, n), PutDrop
  PROVE  Stutters
<1>1. /\ lpc = "put" /\ lpc' = "evict" /\ text' = text /\ slot' = slot /\ got' = got
      /\ storage_server_count' = storage_server_count
  BY DEF PutDrop
<1>2. PICK p : p = text[slot]
  OBVIOUS
<1>3. PICK i \in 1..n : /\ text[node[w[i]].slot] = p
                        /\ InOrder(ChainLess(w, n, i), n - 1)' /\ SameData(node, node')
  BY <1>2, DropOrder
<1>4. Items' = C0!Without(Items, p) /\ C0!Without(Items', p) = Items'
  BY <1>1, <1>3, ItemsLess
<1>5. C0!Pushed(Items', p, storage_server_count) = C0!Pushed(Items, p, storage_server_count)
  BY <1>4 DEF C0!Pushed
<1> QED BY <1>1, <1>2, <1>5 DEF Stutters, recency, answer

LEMMA EvictRefines ==
  ASSUME LRUInv, LRUInv', Told, NEW w, NEW n, InOrder(w, n), PutEvict
  PROVE  Stutters
<1>1. /\ lpc = "evict" /\ lpc' = "insert" /\ text' = text /\ slot' = slot /\ got' = got
      /\ storage_server_count' = storage_server_count /\ map_size = capacity_lr
  BY DEF PutEvict
<1>2. PICK p : p = text[slot]
  OBVIOUS
<1>3. /\ n \in 1..n /\ InOrder(ChainLess(w, n, n), n - 1)' /\ SameData(node, node')
      /\ n = capacity_lr /\ n \in Nat
  BY <1>1, EvictOrder, OrderParts
<1>4. PICK gone : gone = text[node[w[n]].slot]
  OBVIOUS
<1>5. /\ Items' = [j \in 1..(n - 1) |-> IF j < n THEN Items[j] ELSE Items[j + 1]]
      /\ Items' \in Seq(ItemSet) /\ Len(Items') = n - 1 /\ Len(Items) = n
      /\ Items \in Seq(ItemSet)
  BY <1>1, <1>3, <1>4, ItemsLess
<1>6. \A j \in 1..(n - 1) : Items'[j] = Items[j]
  BY <1>3, <1>5
<1>7. p \notin C0!PathsOf(Items)
  BY <1>1, <1>2, KnownPaths DEF Told
<1>8. p \notin C0!PathsOf(Items')
  <2>1. DOMAIN Items' = 1..(n - 1) /\ DOMAIN Items = 1..n
    BY <1>5, LenProperties
  <2>2. \A j \in 1..(n - 1) : j \in 1..n
    BY <1>3
  <2> QED BY <1>6, <1>7, <2>1, <2>2 DEF C0!PathsOf
<1>9. C0!Without(Items, p) = Items /\ C0!Without(Items', p) = Items'
  BY <1>7, <1>8 DEF C0!Without
<1>10. n - 1 \in Nat
  BY <1>3
<1>11. C0!Cut(Items', n - 1) = Items'
  BY <1>5, <1>10, CutWhole
<1>12. C0!Cut(Items, n - 1) = Items'
  <2>1. PICK a, b : a = Items /\ b = Items'
    OBVIOUS
  <2>2. C0!Cut(a, n - 1) = SubSeq(a, 1, n - 1)
    BY <1>3, <1>5, <2>1 DEF C0!Cut
  <2>3. /\ SubSeq(a, 1, n - 1) \in Seq(ItemSet) /\ Len(SubSeq(a, 1, n - 1)) = n - 1
        /\ \A j \in 1..(n - 1) : SubSeq(a, 1, n - 1)[j] = a[j]
    <3>1. \A j \in 1..(n - 1) : a[j] \in ItemSet
      <4>1. a \in Seq(ItemSet) /\ Len(a) = n /\ \A j \in 1..(n - 1) : j \in 1..n
        BY <1>3, <1>5, <2>1
      <4> QED BY <4>1, ElementOfSeq
    <3>2. 1 \in Int /\ n - 1 \in Int
      BY <1>3
    <3>3. /\ SubSeq(a, 1, n - 1) \in Seq(ItemSet)
          /\ Len(SubSeq(a, 1, n - 1)) = IF 1 <= n - 1 THEN (n - 1) - 1 + 1 ELSE 0
          /\ \A j \in 1..((n - 1) - 1 + 1) : SubSeq(a, 1, n - 1)[j] = a[1 + j - 1]
      BY <3>1, <3>2, SubSeqProperties
    <3>4. /\ (n - 1) - 1 + 1 = n - 1 /\ \A j \in 1..(n - 1) : 1 + j - 1 = j
          /\ (IF 1 <= n - 1 THEN (n - 1) - 1 + 1 ELSE 0) = n - 1
      BY <1>10
    <3> QED BY <3>3, <3>4
  <2>4. SubSeq(a, 1, n - 1) = b
    BY <1>5, <1>6, <2>1, <2>3, SeqEqual
  <2> QED BY <2>1, <2>2, <2>4
<1>13. C0!Pushed(Items', p, storage_server_count) = C0!Pushed(Items, p, storage_server_count)
  BY <1>3, <1>9, <1>11, <1>12 DEF C0!Pushed
<1> QED BY <1>1, <1>2, <1>13 DEF Stutters, recency, answer

LEMMA ItemsFront ==
  ASSUME NEW s \in Seq(ItemSet), NEW m \in Nat, Len(s) = m, NEW t \in Seq(ItemSet),
         Len(t) = m + 1, NEW e \in ItemSet, t[1] = e, \A j \in 1..m : t[j + 1] = s[j]
  PROVE  t = <<e>> \o s
<1>1. PICK r : r = <<e>> \o s
  OBVIOUS
<1>2. /\ r \in Seq(ItemSet) /\ Len(r) = m + 1
      /\ \A j \in 1..(m + 1) : r[j] = IF j = 1 THEN e ELSE s[j - 1]
  BY <1>1, InFront
<1>3. ASSUME NEW j \in 1..(m + 1) PROVE t[j] = r[j]
  <2>1. CASE j = 1
    BY <1>2, <2>1
  <2>2. CASE j # 1
    <3>1. j - 1 \in 1..m /\ (j - 1) + 1 = j
      BY <2>2
    <3> QED BY <1>2, <2>2, <3>1
  <2> QED BY <2>1, <2>2
<1> QED BY <1>1, <1>2, <1>3, SeqEqual

LEMMA InsertRefines ==
  ASSUME LRUInv, LRUInv', Told, NEW w, NEW n, InOrder(w, n), PutInsert
  PROVE  Stutters
<1>1. /\ lpc \in {"evict", "insert"} /\ lpc' = "idle" /\ text' = text /\ got' = got
  BY DEF PutInsert
<1>2. SameData(node, node') /\ n < capacity_lr
  BY InsertOrder
<1>3. PICK new \in Nat : /\ new = Len(node) + 1
                         /\ node'[new].slot = slot /\ node'[new].val = storage_server_count
                         /\ InOrder(ChainWith(w, n, new), n + 1)'
  BY InsertOrder
<1>4. PICK v : v = ChainWith(w, n, new)
  OBVIOUS
<1>5. /\ Items = [j \in 1..n |-> ItemAt(w[j])] /\ Items \in Seq(ItemSet) /\ Len(Items) = n
  BY ItemsAre
<1>6. /\ Items' = [j \in 1..(n + 1) |-> ItemAt(v[j])'] /\ Items' \in Seq(ItemSet)
      /\ Len(Items') = n + 1
  BY <1>3, <1>4, ItemsNext
<1>7. n \in Nat /\ \A j \in 1..n : w[j] \in Data
  BY OrderParts
<1>8. PICK e : e = [path |-> text[slot], number |-> storage_server_count]
  OBVIOUS
<1>9. e \in ItemSet
  <2>1. slot # Waiting
    BY <1>1, InvParts DEF RoomOK
  <2>2. text[slot] \in Key /\ storage_server_count \in Nat
    BY <2>1, StateTypes, InvParts
  <2> QED BY <1>8, <2>2 DEF ItemSet
<1>10. recency = <<e>> \o Items
  <2>1. PICK p : p = text[slot]
    OBVIOUS
  <2>2. p \notin C0!PathsOf(Items)
    BY <1>1, <2>1, KnownPaths DEF Told
  <2>3. C0!Without(Items, p) = Items
    BY <2>2 DEF C0!Without
  <2>4. capacity_lr - 1 \in Nat /\ n <= capacity_lr - 1
    BY <1>2, <1>7, Sizes
  <2>5. C0!Cut(Items, capacity_lr - 1) = Items
    BY <1>5, <2>4, CutWhole
  <2>6. recency = C0!Pushed(Items, p, storage_server_count)
    BY <1>1, <2>1 DEF recency
  <2> QED BY <1>8, <2>1, <2>3, <2>5, <2>6 DEF C0!Pushed
<1>11. Items'[1] = e
  <2>1. v[1] = new
    BY <1>4, <1>7 DEF ChainWith
  <2>2. Items'[1] = ItemAt(v[1])'
    BY <1>6, <1>7
  <2>3. ItemAt(v[1])' = [path |-> text'[node'[new].slot], number |-> node'[new].val]
    BY <2>1 DEF ItemAt
  <2> QED BY <1>1, <1>3, <1>8, <2>2, <2>3
<1>12. ASSUME NEW j \in 1..n PROVE Items'[j + 1] = Items[j]
  <2>1. j + 1 \in 1..(n + 1) /\ j + 1 \in 0..(n + 2) /\ j + 1 # 0 /\ j + 1 # 1 /\ (j + 1) - 1 = j
    BY <1>7
  <2>2. v[j + 1] = w[j]
    BY <1>4, <2>1 DEF ChainWith
  <2>3. Items'[j + 1] = ItemAt(v[j + 1])'
    BY <1>6, <2>1
  <2>4. ItemAt(v[j + 1])' = ItemAt(w[j])'
    BY <2>2 DEF ItemAt
  <2>5. ItemAt(w[j])' = ItemAt(w[j])
    BY <1>1, <1>2, <1>7, SameItem
  <2> QED BY <1>5, <2>3, <2>4, <2>5
<1>13. Items' = <<e>> \o Items
  <2>1. PICK a, b : a = Items /\ b = Items'
    OBVIOUS
  <2>2. b = <<e>> \o a
    BY <1>5, <1>6, <1>7, <1>9, <1>11, <1>12, <2>1, ItemsFront
  <2> QED BY <2>1, <2>2
<1> QED BY <1>1, <1>10, <1>13 DEF Stutters, recency, answer

LEMMA HitRefines ==
  ASSUME LRUInv, LRUInv', Told, NEW w, NEW n, InOrder(w, n), GetHit
  PROVE  Stutters
<1>1. lpc = "get" /\ lpc' = "again" /\ text' = text
  BY DEF GetHit
<1>2. SameData(node, node')
  BY HitOrder
<1>3. PICK i \in 1..n : /\ text[node[w[i]].slot] = Operations /\ got' = node[w[i]].val
                        /\ InOrder(ChainWith(ChainLess(w, n, i), n - 1, w[i]), n)'
  BY HitOrder
<1>4. PICK u, v : u = ChainLess(w, n, i) /\ v = ChainWith(u, n - 1, w[i])
  OBVIOUS
<1>5. /\ Items = [j \in 1..n |-> ItemAt(w[j])] /\ Items \in Seq(ItemSet) /\ Len(Items) = n
      /\ Distinct(Items)
  BY ItemsAre
<1>6. /\ Items' = [j \in 1..n |-> ItemAt(v[j])'] /\ Items' \in Seq(ItemSet) /\ Len(Items') = n
  BY <1>3, <1>4, ItemsNext
<1>7. /\ n \in Nat /\ n - 1 \in Nat /\ (n - 1) + 1 = n /\ 1 \in 1..n /\ n <= capacity_lr
      /\ capacity_lr - 1 \in Nat /\ n - 1 <= capacity_lr - 1
      /\ \A j \in 1..n : w[j] \in Data
  <2>1. /\ n \in Nat /\ map_size = n /\ map_size \in 0..capacity_lr
        /\ \A j \in 1..n : w[j] \in Data
    BY OrderParts, InvParts
  <2>2. capacity_lr \in Nat \ {0}
    BY Sizes
  <2> QED BY <2>1, <2>2
<1>8. ASSUME NEW j \in 1..n PROVE Items[j] = ItemAt(w[j]) /\ ItemAt(w[j])' = Items[j]
  BY <1>1, <1>2, <1>5, <1>7, SameItem
<1>9. PICK a, b : a = Items /\ b = Items'
  OBVIOUS
<1>10. PICK s : s = [j \in 1..(n - 1) |-> IF j < i THEN a[j] ELSE a[j + 1]]
  OBVIOUS
<1>11. /\ a[i].path = Operations /\ a[i].number = node[w[i]].val /\ a[i] \in ItemSet
       /\ a[i] = [path |-> Operations, number |-> node[w[i]].val]
  <2>1. a[i] = [path |-> Operations, number |-> node[w[i]].val]
    BY <1>3, <1>8, <1>9 DEF ItemAt
  <2>2. a[i] \in ItemSet
    BY <1>5, <1>9, ElementOfSeq
  <2> QED BY <2>1, <2>2
<1>12. /\ C0!Without(a, Operations) = s /\ C0!NumberOf(a, Operations) = a[i].number
       /\ Operations \in C0!PathsOf(a)
  <2>1. i \in 1..Len(a) /\ Len(a) = n /\ a \in Seq(ItemSet) /\ Distinct(a)
    BY <1>5, <1>9
  <2>2. /\ C0!Without(a, Operations)
              = [j \in 1..(Len(a) - 1) |-> IF j < i THEN a[j] ELSE a[j + 1]]
        /\ C0!NumberOf(a, Operations) = a[i].number /\ Operations \in C0!PathsOf(a)
    BY <1>11, <2>1, WithoutItem
  <2> QED BY <1>10, <2>1, <2>2
<1>13. s \in Seq(ItemSet) /\ Len(s) = n - 1
  <2>1. \A j \in 1..(n - 1) : j \in 1..n /\ j + 1 \in 1..n
    BY <1>7
  <2>2. \A j \in 1..n : a[j] \in ItemSet
    BY <1>5, <1>9, ElementOfSeq
  <2>3. s \in [1..(n - 1) -> ItemSet]
    BY <1>10, <2>1, <2>2
  <2>4. s \in Seq(ItemSet)
    BY <1>7, <2>3, IsASeq
  <2> QED BY <1>7, <1>10, <2>4, LenProperties
<1>14. C0!Cut(s, capacity_lr - 1) = s
  BY <1>7, <1>13, CutWhole
<1>15. C0!Pushed(a, Operations, a[i].number) = <<a[i]>> \o s
  BY <1>11, <1>12, <1>14 DEF C0!Pushed
<1>16. recency = <<a[i]>> \o s /\ answer = a[i].number
  <2>1. recency = C0!Touched(a, Operations) /\ answer = C0!Answer(a, Operations)
    BY <1>1, <1>9 DEF recency, answer
  <2> QED BY <1>12, <1>15, <2>1 DEF C0!Touched, C0!Answer
<1>17. b[1] = a[i]
  <2>1. v[1] = w[i]
    BY <1>4, <1>7 DEF ChainWith
  <2>2. b[1] = ItemAt(v[1])'
    BY <1>6, <1>7, <1>9
  <2>3. ItemAt(v[1])' = ItemAt(w[i])'
    BY <2>1 DEF ItemAt
  <2> QED BY <1>8, <1>9, <2>2, <2>3
<1>18. ASSUME NEW j \in 1..(n - 1) PROVE b[j + 1] = s[j]
  <2>1. /\ j + 1 \in 1..n /\ j + 1 \in 0..((n - 1) + 2) /\ j + 1 # 0 /\ j + 1 # 1
        /\ (j + 1) - 1 = j /\ j \in 1..n /\ j \in 0..n
    BY <1>7
  <2>2. v[j + 1] = u[j]
    BY <1>4, <2>1 DEF ChainWith
  <2>3. u[j] = IF j < i THEN w[j] ELSE w[j + 1]
    BY <1>4, <2>1 DEF ChainLess
  <2>4. b[j + 1] = ItemAt(v[j + 1])'
    BY <1>6, <1>9, <2>1
  <2>5. s[j] = IF j < i THEN a[j] ELSE a[j + 1]
    BY <1>10
  <2>6. CASE j < i
    <3>1. v[j + 1] = w[j]
      BY <2>2, <2>3, <2>6
    <3>2. ItemAt(v[j + 1])' = ItemAt(w[j])'
      BY <3>1 DEF ItemAt
    <3> QED BY <1>8, <1>9, <2>1, <2>4, <2>5, <2>6, <3>2
  <2>7. CASE ~(j < i)
    <3>1. v[j + 1] = w[j + 1]
      BY <2>2, <2>3, <2>7
    <3>2. ItemAt(v[j + 1])' = ItemAt(w[j + 1])'
      BY <3>1 DEF ItemAt
    <3> QED BY <1>8, <1>9, <2>1, <2>4, <2>5, <2>7, <3>2
  <2> QED BY <2>6, <2>7
<1>19. b = <<a[i]>> \o s
  <2>1. b \in Seq(ItemSet) /\ Len(b) = (n - 1) + 1
    BY <1>6, <1>7, <1>9
  <2> QED BY <1>7, <1>11, <1>13, <1>17, <1>18, <2>1, ItemsFront
<1>20. got' = a[i].number
  BY <1>3, <1>11
<1> QED BY <1>1, <1>9, <1>16, <1>19, <1>20 DEF Stutters, recency, answer

LEMMA AgainRefines ==
  ASSUME LRUInv, LRUInv', NEW w, NEW n, InOrder(w, n), GetAgain
  PROVE  Stutters
<1>1. lpc = "again" /\ lpc' = "idle" /\ got' = got /\ node' = node /\ text' = text
  BY DEF GetAgain
<1>2. InOrder(w, n)'
  BY AgainOrder
<1>3. Items' = Items
  BY <1>1, <1>2, ItemsSame
<1> QED BY <1>1, <1>3 DEF Stutters, recency, answer

LEMMA ProgressRefines ==
  ASSUME LRUInv, LRUInv', Told, NEW w, NEW n, InOrder(w, n),
         MapProgress \/ UNCHANGED <<mapVars, lruVars>>
  PROVE  Stutters
<1>1. UNCHANGED lruVars
  BY DEF MapProgress
<1>2. /\ lpc' = lpc /\ got' = got /\ node' = node /\ text' = text /\ slot' = slot
      /\ storage_server_count' = storage_server_count
  BY <1>1 DEF lruVars
<1>3. InOrder(w, n)'
  BY ProgressOrder
<1>4. Items' = Items
  BY <1>2, <1>3, ItemsSame
<1> QED BY <1>2, <1>4 DEF Stutters, recency, answer

LEMMA ReceivedRefines ==
  ASSUME Repeated, LRUInv, LRUInv', Told, TextsKnown, NEW w, NEW n, InOrder(w, n),
         NEW x \in Export, Register(x) \/ Refuse(x)
  PROVE  Stutters
<1>1. slot = Waiting /\ lpc' = lpc /\ got' = got /\ node' = node
  BY DEF Register, Refuse, Received
<1>2. lpc \notin {"put", "evict", "insert"}
  BY <1>1, InvParts DEF RoomOK
<1>3. InOrder(w, n)' /\ (received = 0 \/ text' = text)
  BY ReceivedOrder
<1>4. Keys(node, text') = Keys(node, text)
  <2>1. CASE received = 0
    BY <2>1, NoneYet DEF Keys, Data
  <2>2. CASE text' = text
    BY <2>2
  <2> QED BY <1>3, <2>1, <2>2
<1>5. Items' = Items
  BY <1>1, <1>3, <1>4, ItemsSame
<1> QED BY <1>1, <1>2, <1>5 DEF Stutters, recency, answer

LEMMA StepRefines ==
  ASSUME Repeated, AgreeInv, AgreeInv', [LRUNext]_<<mapVars, lruVars>>
  PROVE  [C!Next]_<<recency, answer>>
<1>1. PICK n, w : InOrder(w, n)
  BY DEF AgreeInv
<1>2. LRUInv /\ LRUInv' /\ Told /\ TextsKnown
  BY DEF AgreeInv
<1>3. CASE PutLookup \/ GetLookup
  BY <1>1, <1>2, <1>3, LookupRefines
<1>4. SUFFICES ASSUME ~(PutLookup \/ GetLookup) PROVE Stutters
  BY <1>3 DEF Stutters
<1>5. CASE \E x \in Export : Register(x) \/ Refuse(x)
  BY <1>1, <1>2, <1>5, ReceivedRefines
<1>6. CASE MapProgress \/ UNCHANGED <<mapVars, lruVars>>
  BY <1>1, <1>2, <1>6, ProgressRefines
<1>7. CASE PutAbsent \/ GetMiss
  BY <1>1, <1>2, <1>7, AbsentRefines
<1>8. CASE PutDrop
  BY <1>1, <1>2, <1>8, DropRefines
<1>9. CASE PutEvict
  BY <1>1, <1>2, <1>9, EvictRefines
<1>10. CASE PutInsert
  BY <1>1, <1>2, <1>10, InsertRefines
<1>11. CASE GetHit
  BY <1>1, <1>2, <1>11, HitRefines
<1>12. CASE GetAgain
  BY <1>1, <1>2, <1>12, AgainRefines
<1> QED BY <1>4, <1>5, <1>6, <1>7, <1>8, <1>9, <1>10, <1>11, <1>12 DEF LRUNext

LEMMA FirstRefines == LRUInit => C!Init
<1> SUFFICES ASSUME LRUInit PROVE C!Init
  OBVIOUS
<1>1. LRUInv /\ AgreeInv /\ lpc = "idle" /\ got = -1 /\ map_size = 0
  BY AgreeInit DEF AgreeInv, LRUInit
<1>2. PICK n, w : InOrder(w, n)
  BY <1>1 DEF AgreeInv
<1>3. n = 0
  BY <1>1, <1>2, OrderParts
<1>4. Items \in Seq(ItemSet) /\ Len(Items) = 0
  BY <1>1, <1>2, <1>3, ItemsAre
<1>5. Items = << >>
  BY <1>4, EmptySeq
<1> QED BY <1>1, <1>5 DEF C!Init, recency, answer

(* put_LRU and get_LRU implement the bounded list of the paths used last:  *)
(* seen from their callers, every step of them is a step of Cache, or      *)
(* changes nothing.                                                        *)
THEOREM CacheImplemented ==
  ASSUME Repeated
  PROVE  LRUSpec => ImplementsCache
<1>1. AgreeInv /\ [LRUNext]_<<mapVars, lruVars>> => AgreeInv'
  BY AgreeNext
<1>2. AgreeInv /\ AgreeInv' /\ [LRUNext]_<<mapVars, lruVars>> => [C!Next]_<<recency, answer>>
  BY StepRefines
<1> QED BY <1>1, <1>2, AgreeInit, FirstRefines, PTL DEF LRUSpec, ImplementsCache, C!Spec

=============================================================================
