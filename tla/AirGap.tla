------------------------------- MODULE AirGap --------------------------------
(***************************************************************************)
(* What the seven-layer pipeline promises, without saying how              *)
(* (backend/README.md, "7-Layer Air-Gap"): a cycle passes its layers one   *)
(* by one, a swap leaves for the chain only when the proposal, the audit,  *)
(* the policy, the proof, the vault's signature and the paymaster's        *)
(* signature are all behind it, and it carries the amount the policy       *)
(* permitted.  A failed attempt falls back to before the signatures, never *)
(* further; a cycle may be closed at any point and is never reopened.      *)
(***************************************************************************)
EXTENDS Integers

CONSTANTS Cycles, Attempts

VARIABLES
  gate,     (* layers each cycle has passed, or Closed                      *)
  permit,   (* amount the policy permitted                                  *)
  sent,     (* swaps given to the network: [cycle, attempt, amount]         *)
  landed    (* swaps the chain has executed                                 *)

airGapVars == <<gate, permit, sent, landed>>

Closed    == 7
Proposed  == 1
Audited   == 2
Permitted == 3
Anchored  == 4
Signed    == 5
Cosigned  == 6

AirGapInit ==
  /\ gate = [c \in Cycles |-> 0]
  /\ permit = [c \in Cycles |-> 0]
  /\ sent = {}
  /\ landed = {}

PassTo(c, layer) ==
  /\ gate[c] = layer - 1
  /\ gate' = [gate EXCEPT ![c] = layer]

Propose(c) == PassTo(c, Proposed) /\ UNCHANGED <<permit, sent, landed>>
Audit(c)   == PassTo(c, Audited) /\ UNCHANGED <<permit, sent, landed>>
Permit(c)  == /\ PassTo(c, Permitted)
              /\ permit'[c] \in Nat
              /\ permit' = [permit EXCEPT ![c] = permit'[c]]
              /\ UNCHANGED <<sent, landed>>
Anchor(c)  == PassTo(c, Anchored) /\ UNCHANGED <<permit, sent, landed>>
Sign(c)    == PassTo(c, Signed) /\ UNCHANGED <<permit, sent, landed>>
Cosign(c)  == PassTo(c, Cosigned) /\ UNCHANGED <<permit, sent, landed>>

(* The only way to the network, whatever the sender learns of it. *)
Send(c, n) ==
  /\ gate[c] = Cosigned
  /\ \A s \in sent : <<s.cycle, s.attempt>> # <<c, n>>
  /\ sent' = sent \cup {[cycle |-> c, attempt |-> n, amount |-> permit[c]]}
  /\ \E g \in {Anchored, Cosigned, Closed} : gate' = [gate EXCEPT ![c] = g]
  /\ UNCHANGED <<permit, landed>>

Retry(c) ==
  /\ gate[c] \in {Anchored, Signed, Cosigned}
  /\ gate' = [gate EXCEPT ![c] = Anchored]
  /\ UNCHANGED <<permit, sent, landed>>

Close(c) ==
  /\ gate' = [gate EXCEPT ![c] = Closed]
  /\ UNCHANGED <<permit, sent, landed>>

(* The chain executes each transaction at most once. *)
Execute(s) ==
  /\ s \in sent \ landed
  /\ landed' = landed \cup {s}
  /\ UNCHANGED <<gate, permit, sent>>

(* The process dies: no cycle goes on, what was sent may still land. *)
Crash ==
  /\ \E running \in SUBSET Cycles :
       gate' = [c \in Cycles |-> IF c \in running THEN Closed ELSE gate[c]]
  /\ UNCHANGED <<permit, sent, landed>>

AirGapNext ==
  \/ \E c \in Cycles :
       \/ Propose(c) \/ Audit(c) \/ Permit(c) \/ Anchor(c)
       \/ Sign(c) \/ Cosign(c) \/ Retry(c) \/ Close(c)
       \/ \E n \in Attempts : Send(c, n)
  \/ \E s \in sent : Execute(s)
  \/ Crash

AirGapSpec == AirGapInit /\ [][AirGapNext]_airGapVars
=============================================================================
