--------------------------- MODULE SupervisorLock ---------------------------
(***************************************************************************)
(* What the lease of a mission promises to the processes that supervise    *)
(* it, without rows, owners, times and renewals: a lock.  One process has  *)
(* it at most, and nobody takes it from one that has it: between two       *)
(* holders there is a moment at which it is free.  A holder may lose it at *)
(* any time.  The lock may break, for good, and promises nothing then.     *)
(***************************************************************************)
CONSTANT Processes

VARIABLES holders, broken

vars == <<holders, broken>>

TypeOK == holders \in {{}} \cup {{p} : p \in Processes} /\ broken \in BOOLEAN

Init == holders = {} /\ broken = FALSE

Acquire(p) == ~broken /\ holders = {} /\ holders' = {p} /\ UNCHANGED broken

Lose == ~broken /\ holders # {} /\ holders' = {} /\ UNCHANGED broken

Break == ~broken /\ broken' = TRUE /\ holders' = {}

Next == (\E p \in Processes : Acquire(p)) \/ Lose \/ Break

Spec == Init /\ [][Next]_vars
=============================================================================
