-------------------------- MODULE MCStorageServer ---------------------------
(***************************************************************************)
(* One storage server with a directory /a and a file in it, both           *)
(* accessible, and a directory in it that is not; ".u" is a name that is   *)
(* created, ".v" one that is copied.                                       *)
(***************************************************************************)
EXTENDS StorageServer

MCLetter == {"a", "d", ".t", ".u", ".v", ".tgz"}
MCDottedLetter == {".t", ".u", ".v", ".tgz"}

A  == <<"/", "a">>
AT == Join(A, <<".t">>)
AU == Join(A, <<".u">>)
AD == Join(A, <<"d">>)

MCExport == <<A, AT>>
MCDir == {A, AD}
MCFile == <<AT>>

Ask(op, path, n) == [op |-> op, path |-> path, no_args |-> n]
Order(op, path, name) == [op |-> op, path |-> path, name |-> name]

TransferRequest ==
    {Ask("READ", AT, 2), Ask("WRITE", AT, 2), Ask("DETAILS", AT, 2),
     Ask("WRITE", A, 2), Ask("READ", AT, 1)}
TransferNaming ==
    {Order("CREATE", A, <<".t">>), Order("DELETE", AT, Empty),
     Order("SEND", AD, Empty), Order("SEND", AT, Empty),
     Order("RECEIVE", A, <<".v">>), Order("RECEIVE", AT, <<".v">>)}

(* Chunks of each kind, and a file of which nothing arrives. *)
MCLocalFile == {<<"text", "zero">>, <<"STOP", "text">>}
TextFile == {<<"text", "text">>}

CreatedRequest == {Ask("READ", AT, 2), Ask("WRITE", AU, 2)}
CreatedNaming == {Order("CREATE", A, <<".u">>)}

CopyRequest == {Ask("READ", AT, 2), Ask("WRITE", AT, 2)}
CopyNaming == {Order("RECEIVE", A, <<".t">>), Order("RECEIVE", A, <<".u">>)}
=============================================================================
