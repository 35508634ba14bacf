----------------------------- MODULE Dictionary -----------------------------
(***************************************************************************)
(* What map.h promises its callers: a function from keys to values that    *)
(* remembers in which order its keys were added.                           *)
(***************************************************************************)
CONSTANTS Key, Value

VARIABLES
    dict,       \* the value of each key that is there
    before,     \* the pairs of such keys of which the first was added earlier
    out         \* what the last call told its caller

Nothing == [found |-> FALSE, value |-> 0]

Init == dict = << >> /\ before = {} /\ out = Nothing

Added(k, v) ==
    /\ dict' = [x \in DOMAIN dict \cup {k} |-> IF x = k THEN v ELSE dict[x]]
    /\ before' = IF k \in DOMAIN dict THEN before ELSE before \cup {<<x, k>> : x \in DOMAIN dict}

Set(k, v) == Added(k, v) /\ out' = Nothing

(* "if there is no match, output val will just be NULL" *)
Get(k) ==
    /\ out' = IF k \in DOMAIN dict THEN [found |-> TRUE, value |-> dict[k]] ELSE Nothing
    /\ UNCHANGED <<dict, before>>

(* "adds an entry if it doesn't exist", and tells the value it then has. *)
GetSet(k, v) ==
    \/ k \in DOMAIN dict /\ Get(k)
    \/ k \notin DOMAIN dict /\ Added(k, v) /\ out' = [found |-> FALSE, value |-> v]

Remove(k) ==
    /\ dict' = [x \in DOMAIN dict \ {k} |-> dict[x]]
    /\ before' = {pair \in before : k \notin {pair[1], pair[2]}}
    /\ out' = Nothing

Next ==
    \E k \in Key :
        \/ Get(k) \/ Remove(k)
        \/ \E v \in Value : Set(k, v) \/ GetSet(k, v)

Spec == Init /\ [][Next]_<<dict, before, out>>
=============================================================================
