----------------------------- MODULE MCNodeJobs -----------------------------
(* Instances of NodeJobs for TLC: one node served by two agent processes.   *)
EXTENDS NodeJobs, TLC
CONSTANTS n1, a1, a2, k1

MCNodeOf == [a \in Agents |-> n1]
AgentSymmetry == Permutations({a1, a2})
MCOperations ==
  {[capability |-> "git", operation |-> "status", verification |-> FALSE],
   [capability |-> "filesystem", operation |-> "write", verification |-> FALSE]}
=============================================================================
