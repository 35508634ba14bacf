------------------------------- MODULE Cache --------------------------------
(***************************************************************************)
(* What the LRU cache is to do (README.md, "LRU Caching"): hold the paths  *)
(* used last, at most capacity_lr of them, the most recent one first.      *)
(***************************************************************************)
EXTENDS Integers, Sequences

CONSTANTS Path, Number, capacity_lr

VARIABLES
    recency,    \* the items, [path, number], the most recent one first
    got         \* what the last lookup told

PathsOf(items) == {items[i].path : i \in DOMAIN items}
PositionOf(items, p) == CHOOSE i \in DOMAIN items : items[i].path = p

(* The other items; no two are of one path. *)
Without(items, p) ==
    IF p \in PathsOf(items)
    THEN LET i == PositionOf(items, p)
         IN  [j \in 1..(Len(items) - 1) |-> IF j < i THEN items[j] ELSE items[j + 1]]
    ELSE items
Cut(items, n) == SubSeq(items, 1, IF Len(items) < n THEN Len(items) ELSE n)

(* The item in front of what is left of the others. *)
Pushed(items, p, n) ==
    <<[path |-> p, number |-> n]>> \o Cut(Without(items, p), capacity_lr - 1)

NumberOf(items, p) == items[PositionOf(items, p)].number

Answer(items, p) == IF p \in PathsOf(items) THEN NumberOf(items, p) ELSE -1
Touched(items, p) ==
    IF p \in PathsOf(items) THEN Pushed(items, p, NumberOf(items, p)) ELSE items

Init == recency = << >> /\ got = -1

Put(p, n) == recency' = Pushed(recency, p, n) /\ UNCHANGED got
Get(p) == got' = Answer(recency, p) /\ recency' = Touched(recency, p)

Next == \E p \in Path : Get(p) \/ \E n \in Number : Put(p, n)
Spec == Init /\ [][Next]_<<recency, got>>
=============================================================================
