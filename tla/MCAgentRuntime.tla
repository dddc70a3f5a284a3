--------------------------- MODULE MCAgentRuntime ---------------------------
(***************************************************************************)
(* An instance of AgentRuntime for TLC: three agents, one of them created  *)
(* by the server; a pool that lies idle at a low base rate, and one that is*)
(* lent out.  The ceiling of the rate is lowered to keep the rates few.    *)
(***************************************************************************)
EXTENDS AgentRuntime, TLC

CONSTANTS a1, a2, a3, s1, s2, s3, s4, none, r1, r2, arbitrum, e1, e2

Alike ==
    Permutations(AgentIds \ Defaults) \cup Permutations(Seeds)
       \cup Permutations(Requests) \cup Permutations(Evaluations)

MCPoolStates ==
    {[deposited |-> 20000, borrowed |-> 0, baseRate |-> 200],
     [deposited |-> 20000, borrowed |-> 14000, baseRate |-> 650]}

MCTargetYields == [chain \in Chains |-> 600]

=============================================================================
