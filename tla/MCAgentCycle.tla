----------------------------- MODULE MCAgentCycle -----------------------------
(***************************************************************************)
(* Two cycles of one agent with a daily cap that leaves room for one swap  *)
(* only, one retry each, one restart and one midnight.  The limiter's      *)
(* window outlasts the run; MCPolicyEngine checks it with time passing.    *)
(***************************************************************************)
EXTENDS AgentCycle

MCProfile ==
  [a \in Agents |->
     [minConfidence |-> 45, maxTx |-> 2000, dailyCap |-> 2500,
      spreadThreshold |-> 15, stopLossPct |-> -20]]

MCOwner == [c \in Cycles |-> CHOOSE a \in Agents : TRUE]

Swap == [decision |-> "SWAP", from |-> "SOL", to |-> "USDC", confidence |-> 90,
         amount |-> 1, change |-> 3, sol |-> 5000, usd |-> 100,
         quoted |-> TRUE, net |-> 40, gross |-> 80, volume |-> 0]

MCRequests == {Swap, [Swap EXCEPT !.decision = "HOLD", !.amount = 0]}
=============================================================================
