----------------------------- MODULE MCSession ------------------------------
(***************************************************************************)
(* The small system of one session.  It satisfies what Session_proofs asks *)
(* of servers and commands to show that the directory is exact.            *)
(***************************************************************************)
EXTENDS MCNamingServer, Session

ASSUME SessionAssumption == ServersApart /\ PlainCommands
=============================================================================
