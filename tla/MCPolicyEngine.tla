---------------------------- MODULE MCPolicyEngine ----------------------------
(***************************************************************************)
(* A small instance of PolicyEngine: Rex's real limits, a window of two    *)
(* ticks with room for two swaps, and one request for every way a check    *)
(* can go.                                                                 *)
(***************************************************************************)
EXTENDS PolicyEngine

MCProfile ==
  [a \in Agents |->
     [minConfidence |-> 45, maxTx |-> 2000, dailyCap |-> 10000,
      spreadThreshold |-> 15, stopLossPct |-> -20]]

Base == [decision |-> "SWAP", from |-> "SOL", to |-> "USDC", confidence |-> 90,
         amount |-> 1000, change |-> 3, sol |-> 5000, usd |-> 100,
         quoted |-> TRUE, net |-> 40, gross |-> 80, volume |-> 0]

MCRequests ==
  {[Base EXCEPT !.usd = u] : u \in {80, 96, 100, 120}}
  \cup {[Base EXCEPT !.decision = "HOLD", !.amount = 0, !.usd = u] : u \in {96, 120}}
  \cup {[Base EXCEPT !.confidence = 44],
        [Base EXCEPT !.change = 120, !.quoted = FALSE],
        [Base EXCEPT !.decision = "OTHER"],
        [Base EXCEPT !.to = "DOGE"],
        [Base EXCEPT !.volume = 8200],
        [Base EXCEPT !.volume = 8201],
        [Base EXCEPT !.sol = 1899],
        [Base EXCEPT !.net = 14]}
=============================================================================
