------------------------------ MODULE UsageGate ------------------------------
(***************************************************************************)
(* What a usage limit promises: a wallet is granted a use only while it    *)
(* has fewer than cap of them, a grant is one atomic step, and none is     *)
(* ever given back.  UsageLimit implements this one with a higher cap.     *)
(***************************************************************************)
EXTENDS Naturals

CONSTANT Wallets

VARIABLES
  cap,      \* uses a wallet may have
  used      \* uses granted to each wallet

Init == cap \in Nat /\ used = [w \in Wallets |-> 0]

Grant(w) ==
  /\ used[w] < cap
  /\ used' = [used EXCEPT ![w] = @ + 1]
  /\ UNCHANGED cap

GateSpec == Init /\ [][\E w \in Wallets : Grant(w)]_<<cap, used>>
=============================================================================
