---------------------------- MODULE Paths_proofs ----------------------------
(***************************************************************************)
(* What the operators of Paths return, for every string and every table.   *)
(***************************************************************************)
EXTENDS Paths, SequenceTheorems, WellFoundedInduction, TLAPS

(* A non-empty set of positions has a last one. *)
LEMMA LastExists ==
  ASSUME NEW n \in Nat, NEW S, S \subseteq 1..n, S # {}
  PROVE  \E i \in S : \A j \in S : j <= i
<1> DEFINE T == {n - i : i \in S}
<1>1. T \subseteq Nat /\ T # {}
  <2>1. \A i \in S : i \in 1..n /\ n - i \in Nat
    OBVIOUS
  <2>2. PICK i \in S : TRUE
    OBVIOUS
  <2>3. n - i \in T
    OBVIOUS
  <2> QED BY <2>1, <2>3
<1>2. PICK x \in T : \A y \in T : ~(<<y, x>> \in OpToRel(<, Nat))
  <2> HIDE DEF T
  <2> QED BY <1>1, NatLessThanWellFounded, WFMin
<1>3. \A y \in T : ~(y < x)
  BY <1>1, <1>2 DEF OpToRel
<1>4. PICK i \in S : x = n - i
  OBVIOUS
<1>5. \A j \in S : n - j \in T
  OBVIOUS
<1>6. \A j \in S : ~(n - j < n - i)
  BY <1>3, <1>4, <1>5
<1> QED BY <1>6

LEMMA BasenameType == \A p \in Str : Basename(p) \in Str /\ Len(Basename(p)) <= Len(p)
<1> SUFFICES ASSUME NEW p \in Str
             PROVE  Basename(p) \in Str /\ Len(Basename(p)) <= Len(p)
  OBVIOUS
<1>0. p \in Seq(Char) /\ Len(p) \in Nat /\ \A i \in 1..Len(p) : p[i] \in Char
  BY DEF Str
<1> DEFINE cut == {i \in 1..Len(p) : p[i] = "/"}
           last == CHOOSE i \in cut : \A j \in cut : j <= i
<1>1. CASE cut = {}
  BY <1>0, <1>1 DEF Basename
<1>2. CASE cut # {}
  <2>1. \E i \in cut : \A j \in cut : j <= i
    BY <1>0, <1>2, LastExists
  <2>2. last \in 1..Len(p)
    BY <2>1
  <2>3. Basename(p) = SubSeq(p, last + 1, Len(p))
    BY <1>2 DEF Basename
  <2> HIDE DEF last
  <2>4. SubSeq(p, last + 1, Len(p)) \in Seq(Char) /\ Len(SubSeq(p, last + 1, Len(p))) <= Len(p)
    BY <1>0, <2>2, SubSeqProperties
  <2> QED BY <2>3, <2>4 DEF Str
<1> QED BY <1>1, <1>2

LEMMA JoinType == \A a, b \in Str : Join(a, b) \in Str
<1> SUFFICES ASSUME NEW a \in Str, NEW b \in Str PROVE Join(a, b) \in Str
  OBVIOUS
<1>1. <<"/">> \in Seq(Char)
  BY DEF Char
<1>2. a \o <<"/">> \in Seq(Char)
  BY <1>1, ConcatProperties DEF Str
<1> QED BY <1>2, ConcatProperties DEF Join, Str

LEMMA ConcatType == \A a, b \in Str : a \o b \in Str
  BY ConcatProperties DEF Str

LEMMA ChopType == \A p \in Str : \A n \in Nat : Chop(p, n) \in Str
<1> SUFFICES ASSUME NEW p \in Str, NEW n \in Nat PROVE Chop(p, n) \in Str
  OBVIOUS
<1>1. Len(p) \in Nat /\ \A i \in (n + 1)..Len(p) : p[i] \in Char
  BY DEF Str
<1> QED BY <1>1, SubSeqProperties DEF Chop, Str

LEMMA LetterType == \A x \in Letter : <<x>> \in Str
  BY DEF Str, Char

(* The table functions keep the keys strings and the values numbers. *)
LEMMA SetValueType ==
  ASSUME NEW m, TableType(m), NEW p \in Str, NEW v \in Int
  PROVE  TableType(set_value(m, p, v))
  BY DEF TableType, set_value

LEMMA GetValueType ==
  ASSUME NEW m, TableType(m), NEW p
  PROVE  get_value(m, p) \in Int
  BY DEF TableType, get_value

LEMMA RemoveEntryType ==
  ASSUME NEW m, TableType(m), NEW dir, NEW stray
  PROVE  TableType(remove_entry(m, dir, stray))
  BY DEF TableType, remove_entry

LEMMA AddPathsType ==
  ASSUME NEW m, TableType(m), NEW dir \in Str, NEW found \in SUBSET DOMAIN m,
         NEW n, NEW rank \in Rankings(found, n)
  PROVE  TableType(add_paths_to_list(m, dir, found, rank))
<1> DEFINE new == {ListedName(dir, q, rank[q]) : q \in found}
<1>1. \A q \in found : q \in Str /\ rank[q] + 1 \in Nat
  BY DEF TableType, Rankings
<1>2. \A q \in found : ListedName(dir, q, rank[q]) \in Str
  BY <1>1, ChopType, JoinType DEF ListedName
<1> QED BY <1>2 DEF TableType, add_paths_to_list

-----------------------------------------------------------------------------
(* Joined paths, and the trees of paths. *)

(* Concatenation, character by character. *)
LEMMA ConcatIs ==
  ASSUME NEW a \in Str, NEW b \in Str
  PROVE  /\ a \o b \in Str /\ Len(a \o b) = Len(a) + Len(b)
         /\ \A i \in 1..Len(a) : (a \o b)[i] = a[i]
         /\ \A i \in 1..Len(b) : (a \o b)[Len(a) + i] = b[i]
<1>1. a \in Seq(Char) /\ b \in Seq(Char)
  BY DEF Str
<1>2. Len(a) \in Nat /\ Len(b) \in Nat
  BY <1>1
<1>3. a \o b \in Seq(Char) /\ Len(a \o b) = Len(a) + Len(b)
  BY <1>1
<1>4. \A i \in 1..(Len(a) + Len(b)) : (a \o b)[i] = IF i <= Len(a) THEN a[i] ELSE b[i - Len(a)]
  BY <1>1
<1>5. \A i \in 1..Len(b) : (a \o b)[Len(a) + i] = b[i]
  <2> SUFFICES ASSUME NEW i \in 1..Len(b) PROVE (a \o b)[Len(a) + i] = b[i]
    OBVIOUS
  <2>1. /\ Len(a) + i \in 1..(Len(a) + Len(b)) /\ ~(Len(a) + i <= Len(a))
        /\ Len(a) + i - Len(a) = i
    BY <1>2
  <2> QED BY <1>4, <2>1
<1> QED BY <1>2, <1>3, <1>4, <1>5 DEF Str

(* A joined path: its directory, the '/', its name. *)
LEMMA JoinIs ==
  ASSUME NEW a \in Str, NEW b \in Str
  PROVE  /\ Join(a, b) \in Str /\ Len(Join(a, b)) = Len(a) + 1 + Len(b)
         /\ \A i \in 1..Len(a) : Join(a, b)[i] = a[i]
         /\ Join(a, b)[Len(a) + 1] = "/"
         /\ \A i \in 1..Len(b) : Join(a, b)[Len(a) + 1 + i] = b[i]
<1>1. PICK m \in Nat, n \in Nat : m = Len(a) /\ n = Len(b)
  BY DEF Str
<1>2. PICK slash \in Str : slash = <<"/">> /\ Len(slash) = 1 /\ slash[1] = "/"
  <2>1. <<"/">> \in Seq(Char) /\ Len(<<"/">>) = 1 /\ <<"/">>[1] = "/"
    BY DEF Char
  <2> QED BY <2>1 DEF Str
<1>3. PICK d \in Str : d = a \o slash
  <2>1. a \o slash \in Str
    BY ConcatType
  <2> QED BY <2>1
<1>4. /\ Len(d) = Len(a) + Len(slash)
      /\ \A i \in 1..Len(a) : d[i] = a[i]
      /\ \A i \in 1..Len(slash) : d[Len(a) + i] = slash[i]
  <2>1. /\ Len(a \o slash) = Len(a) + Len(slash)
        /\ \A i \in 1..Len(a) : (a \o slash)[i] = a[i]
        /\ \A i \in 1..Len(slash) : (a \o slash)[Len(a) + i] = slash[i]
    BY ConcatIs, Zenon
  <2> QED BY <1>3, <2>1, Zenon
<1>5. Len(d) = m + 1 /\ d[m + 1] = "/" /\ \A i \in 1..m : d[i] = a[i]
  <2>1. 1 \in 1..1
    OBVIOUS
  <2> QED BY <1>1, <1>2, <1>4, <2>1
<1>6. Join(a, b) = d \o b
  BY <1>2, <1>3 DEF Join
<1>7. /\ Join(a, b) \in Str /\ Len(Join(a, b)) = Len(d) + Len(b)
      /\ \A i \in 1..Len(d) : Join(a, b)[i] = d[i]
      /\ \A i \in 1..Len(b) : Join(a, b)[Len(d) + i] = b[i]
  <2>1. /\ d \o b \in Str /\ Len(d \o b) = Len(d) + Len(b)
        /\ \A i \in 1..Len(d) : (d \o b)[i] = d[i]
        /\ \A i \in 1..Len(b) : (d \o b)[Len(d) + i] = b[i]
    BY ConcatIs, Zenon
  <2> QED BY <1>6, <2>1, Zenon
<1>8. \A i \in 1..m : i \in 1..(m + 1)
  BY <1>1
<1>9. m + 1 \in 1..(m + 1)
  BY <1>1
<1>10. \A i \in 1..m : Join(a, b)[i] = a[i]
  BY <1>5, <1>7, <1>8
<1>11. Join(a, b)[m + 1] = "/"
  BY <1>5, <1>7, <1>9
<1>12. \A i \in 1..n : Join(a, b)[m + 1 + i] = b[i]
  BY <1>1, <1>5, <1>7
<1> QED BY <1>1, <1>5, <1>7, <1>10, <1>11, <1>12

LEMMA JoinNotEmpty == \A a, b \in Str : Join(a, b) # Empty
<1> SUFFICES ASSUME NEW a \in Str, NEW b \in Str PROVE Join(a, b) # Empty
  OBVIOUS
<1>1. Len(Join(a, b)) = Len(a) + 1 + Len(b)
  BY JoinIs
<1>2. Len(a) \in Nat /\ Len(b) \in Nat
  BY DEF Str
<1>3. Len(Join(a, b)) # 0 /\ Len(Empty) = 0
  BY <1>1, <1>2 DEF Empty
<1> QED BY <1>3

(* The tree of a path: the path itself and what lies below. *)
LEMMA UnderSelf == \A p \in Str : Under(p, p)
  BY DEF Under, Str

LEMMA UnderTrans ==
  ASSUME NEW p \in Str, NEW q \in Str, NEW r \in Str, Under(p, q), Under(q, r)
  PROVE  Under(p, r)
<1>1. PICK l \in Nat, m \in Nat, n \in Nat : l = Len(p) /\ m = Len(q) /\ n = Len(r)
  BY DEF Str
<1>2. /\ m <= l /\ \A i \in 1..m : p[i] = q[i]
      /\ l = m \/ p[m + 1] = "/"
  BY <1>1 DEF Under
<1>3. /\ n <= m /\ \A i \in 1..n : q[i] = r[i]
      /\ m = n \/ q[n + 1] = "/"
  BY <1>1 DEF Under
<1>4. \A i \in 1..n : p[i] = r[i]
  <2>1. \A i \in 1..n : i \in 1..m
    BY <1>1, <1>3
  <2> QED BY <1>2, <1>3, <2>1
<1>5. l = n \/ p[n + 1] = "/"
  <2>1. CASE m = n
    BY <1>2, <2>1
  <2>2. CASE m # n
    <3>1. n + 1 \in 1..m
      BY <1>1, <1>3, <2>2
    <3> QED BY <1>2, <1>3, <2>2, <3>1
  <2> QED BY <2>1, <2>2
<1>6. n <= l
  BY <1>1, <1>2, <1>3
<1> QED BY <1>1, <1>4, <1>5, <1>6 DEF Under

LEMMA UnderJoin == \A a, b \in Str : Under(Join(a, b), a)
<1> SUFFICES ASSUME NEW a \in Str, NEW b \in Str PROVE Under(Join(a, b), a)
  OBVIOUS
<1>1. Len(a) \in Nat /\ Len(b) \in Nat
  BY DEF Str
<1>2. /\ Len(Join(a, b)) = Len(a) + 1 + Len(b)
      /\ \A i \in 1..Len(a) : Join(a, b)[i] = a[i]
      /\ Join(a, b)[Len(a) + 1] = "/"
  BY JoinIs
<1>3. Len(a) <= Len(Join(a, b))
  BY <1>1, <1>2
<1> QED BY <1>2, <1>3 DEF Under

(* Two trees with a path in common: one is inside the other. *)
LEMMA UnderBoth ==
  ASSUME NEW p \in Str, NEW q \in Str, NEW r \in Str, Under(p, q), Under(p, r)
  PROVE  Under(q, r) \/ Under(r, q)
<1>1. ASSUME NEW u \in Str, NEW v \in Str, Under(p, u), Under(p, v), Len(v) <= Len(u)
      PROVE  Under(u, v)
  <2>1. PICK m \in Nat, n \in Nat : m = Len(u) /\ n = Len(v)
    BY DEF Str
  <2>2. /\ \A i \in 1..m : p[i] = u[i]
    BY <1>1, <2>1 DEF Under
  <2>3. /\ \A i \in 1..n : p[i] = v[i]
        /\ Len(p) = n \/ p[n + 1] = "/"
    BY <1>1, <2>1 DEF Under
  <2>4. n <= m /\ m <= Len(p) /\ Len(p) \in Nat
    BY <1>1, <2>1 DEF Under, Str
  <2>5. \A i \in 1..n : u[i] = v[i]
    <3>1. \A i \in 1..n : i \in 1..m
      BY <2>4
    <3> QED BY <2>2, <2>3, <3>1
  <2>6. m = n \/ u[n + 1] = "/"
    <3> SUFFICES ASSUME m # n PROVE u[n + 1] = "/"
      OBVIOUS
    <3>1. n + 1 \in 1..m /\ Len(p) # n
      BY <2>4
    <3> QED BY <2>2, <2>3, <3>1
  <2> QED BY <2>1, <2>4, <2>5, <2>6 DEF Under
<1>2. Len(r) <= Len(q) \/ Len(q) <= Len(r)
  BY DEF Str
<1> QED BY <1>1, <1>2

(* basename of a joined path is at the end of the name joined. *)
LEMMA PlainBasename ==
  ASSUME NEW a \in Str, NEW b \in Str, ~Dotted(b)
  PROVE  ~Dotted(Basename(Join(a, b)))
<1>1. PICK m \in Nat, n \in Nat : m = Len(a) /\ n = Len(b)
  BY DEF Str
<1>2. PICK p \in Str : p = Join(a, b)
  BY JoinType
<1>3. /\ Len(p) = m + 1 + n /\ p[m + 1] = "/"
      /\ \A i \in 1..n : p[m + 1 + i] = b[i]
  <2>1. /\ Len(p) = Len(a) + 1 + Len(b) /\ p[Len(a) + 1] = "/"
        /\ \A i \in 1..Len(b) : p[Len(a) + 1 + i] = b[i]
    <3>1. /\ Len(Join(a, b)) = Len(a) + 1 + Len(b) /\ Join(a, b)[Len(a) + 1] = "/"
          /\ \A i \in 1..Len(b) : Join(a, b)[Len(a) + 1 + i] = b[i]
      BY JoinIs
    <3> QED BY <1>2, <3>1
  <2> QED BY <1>1, <2>1
<1> DEFINE cut == {i \in 1..Len(p) : p[i] = "/"}
           last == CHOOSE i \in cut : \A j \in cut : j <= i
<1>4. m + 1 \in cut
  BY <1>1, <1>3
<1>5. \E i \in cut : \A j \in cut : j <= i
  <2>1. Len(p) \in Nat /\ cut \subseteq 1..Len(p) /\ cut # {}
    BY <1>1, <1>3, <1>4
  <2> QED BY <2>1, LastExists
<1>6. last \in cut /\ m + 1 <= last
  BY <1>4, <1>5
<1>7. Basename(p) = SubSeq(p, last + 1, Len(p))
  BY <1>4 DEF Basename
<1>8. PICK k \in 1..(m + 1 + n) : k = last /\ m + 1 <= k
  BY <1>3, <1>6
<1> HIDE DEF last, cut
<1>9. Basename(p) = SubSeq(p, k + 1, m + 1 + n)
  BY <1>3, <1>7, <1>8
<1>10. /\ Len(Basename(p)) = m + 1 + n - k
       /\ \A i \in 1..(m + 1 + n - k) : Basename(p)[i] = p[k + i]
  <2>1. \A i \in (k + 1)..(m + 1 + n) : p[i] \in Char
    <3>1. Len(p) = m + 1 + n /\ p \in Seq(Char)
      BY <1>3 DEF Str
    <3>2. \A i \in (k + 1)..(m + 1 + n) : i \in 1..Len(p)
      BY <1>8, <3>1
    <3> QED BY <3>1, <3>2
  <2>2. /\ k + 1 \in Int /\ m + 1 + n \in Int
        /\ (m + 1 + n) - (k + 1) + 1 = m + 1 + n - k
        /\ \A i \in 1..(m + 1 + n - k) : (k + 1) + i - 1 = k + i
    BY <1>8
  <2> QED BY <1>8, <1>9
<1>11. ASSUME NEW i \in 1..(m + 1 + n - k), Basename(p)[i] \in DottedLetter PROVE FALSE
  <2>1. k + i - (m + 1) \in 1..n /\ m + 1 + (k + i - (m + 1)) = k + i
    BY <1>8
  <2>2. b[k + i - (m + 1)] = p[k + i]
    BY <1>3, <2>1
  <2> QED BY <1>1, <1>10, <1>11, <2>1, <2>2 DEF Dotted
<1> QED BY <1>2, <1>10, <1>11 DEF Dotted

(* An archive has a name of its own. *)
LEMMA LongerName == \A p \in Str : \A e : p \o <<e>> # p
<1> SUFFICES ASSUME NEW p \in Str, NEW e PROVE p \o <<e>> # p
  OBVIOUS
<1>1. Len(p \o <<e>>) = Len(p) + 1 /\ Len(p) \in Nat
  <2>1. p \in Seq(Char \cup {e}) /\ <<e>> \in Seq(Char \cup {e})
    BY DEF Str
  <2> QED BY <2>1
<1> QED BY <1>1

=============================================================================
