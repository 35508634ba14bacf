------------------------------- MODULE MCLRU --------------------------------
(***************************************************************************)
(* A cache of two paths, or three, and registrations with one to three     *)
(* paths, "/operations" among them or not.                                 *)
(***************************************************************************)
EXTENDS LRU

CONSTANTS blank, operations, p, q

(* operations and p collide, and so do blank and q in a table of three. *)
MChash == [k \in Key |-> CASE k = operations -> 2 [] k = p -> 8 [] k = blank -> 1 [] OTHER -> 4]

MCExport == {<<operations>>, <<operations, p>>, <<p, operations>>, <<p, q>>, <<p, q, operations>>}
MCValue == 1..12
=============================================================================
