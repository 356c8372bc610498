-------------------------- MODULE MCExecSessions ----------------------------
(* Instances of ExecSessions for TLC. *)
EXTENDS ExecSessions
CONSTANTS s1, s2, c1
=============================================================================
