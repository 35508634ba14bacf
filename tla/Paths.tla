------------------------------- MODULE Paths --------------------------------
(***************************************************************************)
(* Path strings and the path-keyed table of hashmap/map_operations.c, as   *)
(* the naming server (accessible_paths) and the storage servers            *)
(* (path_to_sem) both use them.                                            *)
(*                                                                         *)
(* A path is a sequence of characters, because the code compares and cuts  *)
(* paths by character.  A Letter may stand for a run of characters of a    *)
(* name; a DottedLetter is one whose run has a period that is neither the  *)
(* first nor the last character, which is how the code tells a file from a *)
(* directory ("a.txt" against "docs").  Empty is the string of an unused   *)
(* accessible_paths slot.                                                  *)
(***************************************************************************)
EXTENDS Integers, Sequences

CONSTANTS Letter, DottedLetter

ASSUME LetterAssumption == "/" \notin Letter /\ DottedLetter \subseteq Letter

Char == Letter \cup {"/"}
Str  == Seq(Char)

Empty == << >>

(* snprintf("%s/%s", dir, name) *)
Join(dir, name) == dir \o <<"/">> \o name

(* basename(3): what follows the last '/'. *)
Basename(p) ==
    LET cut == {i \in 1..Len(p) : p[i] = "/"}
    IN  IF cut = {} THEN p
        ELSE SubSeq(p, (CHOOSE i \in cut : \A j \in cut : j <= i) + 1, Len(p))

(* What precedes the last '/': the directory of a file, Empty for "/a". *)
Parent(p) == SubSeq(p, 1, Len(p) - Len(Basename(p)) - 1)

(* p + n in C: the string without its first n characters. *)
Chop(p, n) == SubSeq(p, n + 1, Len(p))

(* The test of get_paths_ and remove_entry_: strncmp over the whole of     *)
(* "dir", then the next character is the terminator or a '/'.              *)
Under(p, dir) ==
    /\ Len(dir) <= Len(p)
    /\ \A i \in 1..Len(dir) : p[i] = dir[i]
    /\ Len(p) = Len(dir) \/ p[Len(dir) + 1] = "/"

(* The period test of create() and deleteItem(). *)
Dotted(p) == \E i \in 1..Len(p) : p[i] \in DottedLetter

-----------------------------------------------------------------------------
(* The table: a function from the keys present to their values.  The       *)
(* formatted key "<length> <last char> <key>" hashed without its last      *)
(* character is injective in the key, so the key stands for itself.        *)

TableType(m) == DOMAIN m \subseteq Str /\ \A p \in DOMAIN m : m[p] \in Int

EmptyTable == [p \in {} |-> 0]

set_value(m, p, v) ==
    [q \in DOMAIN m \cup {p} |-> IF q = p THEN v ELSE m[q]]

get_value(m, p) == IF p \in DOMAIN m THEN m[p] ELSE -1

(* Mutant: only the entry itself. *)
remove_entryOnly(m, dir, stray) ==
    [q \in {q \in DOMAIN m : q # dir /\ ~(stray /\ q = Empty)} |-> m[q]]

(* remove_entry(m, dir) drops dir and all below it.  For the key of Empty  *)
(* sscanf stores nothing and the callback tests whatever the fresh buffer  *)
(* holds (often the previous key), so that entry may go too: "stray".      *)
remove_entry(m, dir, stray) ==
    [q \in {q \in DOMAIN m : ~Under(q, dir) /\ ~(stray /\ q = Empty)} |-> m[q]]

get_paths(m, dir) == {q \in DOMAIN m : Under(q, dir)}

(* add_paths_to_list(m, ss_num, current_dir, folder_name).  The loop's own *)
(* counter i shadows the offset of the last '/', so the i-th path loses    *)
(* its first i+1 characters, and the value stored is arr->ss_num, which    *)
(* get_paths left at -1, not the parameter ss_num.  "rank" numbers the     *)
(* paths found in the order of the map's list of entries.                  *)
ListedName(current_dir, q, i) == Join(current_dir, Chop(q, i + 1))

add_paths_to_list(m, current_dir, found, rank) ==
    LET new == {ListedName(current_dir, q, rank[q]) : q \in found}
    IN  [p \in DOMAIN m \cup new |-> IF p \in new THEN -1 ELSE m[p]]

(* The numberings 0 .. n-1 of the paths found; a table keeps no order, so  *)
(* the caller takes any of them.                                           *)
Rankings(found, n) ==
    {r \in [found -> 0..(n - 1)] : \A p, q \in found : p # q => r[p] # r[q]}

=============================================================================
