----------------------------- MODULE Directory ------------------------------
(***************************************************************************)
(* What the naming server is to be for a client (README.md, "CREATE" to    *)
(* "READ"): one directory, of the paths that the registered servers hold.  *)
(* A command is carried out at most once and as a whole, the client is     *)
(* told ACK exactly if it was, and NOT FOUND only if a path is missing.    *)
(***************************************************************************)
EXTENDS Paths

VARIABLES
    files,      \* the paths of the directory
    asked,      \* the last command: its verb and its two paths
    phase,      \* "idle", or the command is "asked" or "done"
    told        \* the last thing the client was told

directoryVars == <<files, asked, phase, told>>

(* Commands for the storage servers, and those that only ask where one is. *)
Changing == {"CREATE", "DELETE", "COPY"}
Locating == {"READ", "WRITE", "DETAILS"}
Request == [verb : Changing \cup Locating \cup {"EXIT", "OTHER"}, from : Str, to : Str]

Named(r) == IF r.verb = "COPY" THEN {r.from, r.to} ELSE {r.from}

(* An argument that is missing may count as a path: the root of a server.  *)
Missing(p) == p \notin files
Known(p) == p \in files \cup {Empty}

Init == files = {} /\ asked \in Request /\ phase = "idle" /\ told = ""

(* A server registers what it has. *)
Register ==
    /\ phase = "idle"
    /\ files \subseteq files' /\ files' \in SUBSET Str
    /\ UNCHANGED <<asked, phase, told>>

Ask ==
    /\ phase = "idle" /\ phase' = "asked"
    /\ asked' \in Request /\ asked'.verb \in Changing
    /\ \A p \in Named(asked') : Known(p)
    /\ told' = ""
    /\ UNCHANGED files

Answer(text) ==
    /\ phase = "idle" /\ asked' \in Request
    /\ told' = text
    /\ UNCHANGED <<files, phase>>

Locate   == Answer("FOUND") /\ asked'.verb \in Locating /\ Known(asked'.from)
NotFound == Answer("NOT FOUND") /\ asked'.verb \in Changing \cup Locating
            /\ \E p \in Named(asked') : Missing(p)
Invalid  == Answer("") /\ asked'.verb \notin Changing \cup Locating

Effect(r) ==
    CASE r.verb = "CREATE" -> files \cup {Join(r.from, r.to)}
      [] r.verb = "DELETE" -> {p \in files : ~Under(p, r.from)}
      [] r.verb = "COPY"   -> files \cup {Join(r.to, Basename(r.from))}

Perform ==
    /\ phase = "asked" /\ phase' = "done"
    /\ files' = Effect(asked)
    /\ UNCHANGED <<asked, told>>

Tell ==
    /\ phase # "idle" /\ phase' = "idle"
    /\ told' = IF phase = "done" THEN "ACK" ELSE "FAIL"
    /\ UNCHANGED <<files, asked>>

Next == Register \/ Ask \/ Locate \/ NotFound \/ Invalid \/ Perform \/ Tell
Spec == Init /\ [][Next]_directoryVars
=============================================================================
