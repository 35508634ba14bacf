--------------------------- MODULE MCNamingServer ---------------------------
(***************************************************************************)
(* Small systems for TLC.  A letter stands for a run of characters: "d" is *)
(* a directory name, ".t" a name with a period, "~" whatever content a     *)
(* name was run together with.                                             *)
(***************************************************************************)
EXTENDS NamingServer

CONSTANTS s1, s2, s3

MCLetter == {"a", "b", "d", ".t", ".tgz", "~"}
MCDottedLetter == {".t", ".tgz"}

(* Each server exports one directory: /a on s1, /b on s2 and /a/d, inside  *)
(* the tree of s1, on s3.                                                  *)
A  == <<"/", "a">>       B  == <<"/", "b">>
AT == Join(A, <<".t">>)  AD == Join(A, <<"d">>)  BT == Join(B, <<"b", ".t">>)

Home == [s \in {s1, s2, s3} |-> CASE s = s1 -> A [] s = s2 -> B [] s = s3 -> AD]
MCExport == [s \in Server |-> <<Home[s]>>]
MCDisk == [s \in Server |-> [p \in {Home[s], Parent(Home[s])} \ {Empty} |-> "dir"]]

(* A file on s1 and a directory below the export, for the copies. *)
CopyExport == [s \in Server |-> IF s = s1 THEN <<A, AT, AD>> ELSE <<B, BT>>]
CopyDisk == [s \in Server |->
    IF s = s1 THEN [p \in {A, AT, AD} |-> IF p = AT THEN "file" ELSE "dir"]
    ELSE [p \in {B, BT} |-> IF p = BT THEN "file" ELSE "dir"]]

(* Every server is always started with the same ports. *)
DistinctPorts == [s \in Server |->
    CASE s = s1 -> {<<1, 2>>} [] s = s2 -> {<<3, 4>>} [] OTHER -> {<<5, 6>>}]

(* s1 and s2 both want port 2, and s1 and s3 the same port for the naming  *)
(* server; s1 may also be started with two ports that nobody else wants.   *)
ClashPorts == [s \in Server |->
    CASE s = s1 -> {<<1, 2>>, <<5, 6>>} [] s = s2 -> {<<2, 3>>} [] OTHER -> {<<1, 4>>}]

Line(v, given) == [verb |-> v, args |-> given]

SessionCommand ==
    {Line("CREATE", <<A, <<".t">>>>), Line("CREATE", <<A, <<"d">>>>),
     Line("CREATE", <<AD, <<".t">>>>), Line("CREATE", <<A>>),
     Line("DELETE", <<AT>>), Line("DELETE", <<AD>>), Line("DELETE", <<>>),
     Line("COPY", <<AT, B>>), Line("COPY", <<BT>>),
     Line("READ", <<AT>>), Line("EXIT", <<>>), Line("BLANK", <<>>)}

CrowdCommand ==
    {Line("DELETE", <<AD>>), Line("COPY", <<BT, A>>),
     Line("COPY", <<AD, B>>)}

RegistrationCommand ==
    {Line("CREATE", <<A, <<".t">>>>), Line("DELETE", <<A>>),
     Line("DETAILS", <<B>>), Line("WRITE", <<AD>>),
     Line("EXIT", <<>>), Line("BLANK", <<>>)}
RaceCommand     == {Line("CREATE", <<A, <<".t">>>>), Line("CREATE", <<A, <<"d">>>>)}
OppositeCommand == {Line("COPY", <<AT, B>>), Line("COPY", <<BT, A>>)}

BothFiles == {AT, BT}
=============================================================================
