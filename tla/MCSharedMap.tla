---------------------------- MODULE MCSharedMap -----------------------------
(***************************************************************************)
(* Three paths and the numbers of two storage servers, 0 among them.       *)
(***************************************************************************)
EXTENDS SharedMap

CONSTANTS k1, k2, k3

(* k1 and k2 share the last bucket of a table of three and of one of six, *)
(* the first bucket is the home of k3: probes go around the end.           *)
MChash == [k \in Key |-> CASE k = k1 -> 5 [] k = k2 -> 11 [] OTHER -> 6]
=============================================================================
