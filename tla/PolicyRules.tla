----------------------------- MODULE PolicyRules -----------------------------
(***************************************************************************)
(* The nine deterministic checks of Layer 4                                *)
(* (backend/src/security/policy-engine.ts), as operators without state.    *)
(*                                                                         *)
(* Units.  SOL amounts are integers in 1/10000 SOL, the precision that     *)
(* toFixed(4) leaves (the test and sizing constants are multiples of it);  *)
(* a tie in toFixed is rounded up.  Confidence and the 24h change are      *)
(* whole percentages, spreads are in 1/100 of a percent, portfolio values  *)
(* are in USD.                                                             *)
(***************************************************************************)
EXTENDS Integers, FiniteSets

CONSTANTS
  ALLOWED_ACTIONS,   (* the action whitelist of check 1                     *)
  ALLOWED_TOKENS,    (* the token whitelist of check 2                      *)
  FEE_RESERVE,       (* SOL that check 7 keeps for fees                     *)
  RATE_LIMIT_MAX     (* approved swaps per window, check 6                  *)

ASSUME ReserveAssumption == FEE_RESERVE \in Nat
ASSUME RateMaxAssumption == RATE_LIMIT_MAX \in Nat

(* What the engine reads of a personality profile. *)
ProfileType ==
  [minConfidence: 0..100, maxTx: Nat, dailyCap: Nat,
   spreadThreshold: Nat, stopLossPct: Int]

(* "OTHER" is any decision outside the type: the engine does not trust it. *)
Decisions == {"SWAP", "HOLD", "SKIP", "OTHER"}

(* What one call of check() is given: the decision, the balance snapshot,  *)
(* the prices and quote, and the volume the caller read from the audit log.*)
RequestType ==
  [decision: Decisions, from: STRING, to: STRING, confidence: 0..100, amount: Nat,
   change: Nat,               (* |change24h| of the token that is sold      *)
   sol: Nat, usd: Nat,        (* SOL balance; whole portfolio in USD        *)
   quoted: BOOLEAN,           (* a Jupiter quote is attached, without error *)
   net: Int, gross: Int,      (* its net spread; best CoinGecko spread      *)
   volume: Nat]               (* dailyVolumeUsedSol                         *)

(***************************************************************************)
(* Check 4: position sizing.                                               *)
(***************************************************************************)
Smaller(x, y) == IF x <= y THEN x ELSE y
Larger(x, y)  == IF x >= y THEN x ELSE y

(* Bug: the penalty has no ceiling.                                        *)
UncappedPenalty(change) == IF change > 5 THEN change - 5 ELSE 0

VolatilityPenalty(change) == IF change > 5 THEN Smaller(change - 5, 50) ELSE 0

SafeAmount(maxTx, confidence, change) ==
  (maxTx * (confidence * (100 - VolatilityPenalty(change))) + 5000) \div 10000

(* d.amount after check 4: a SWAP's amount is replaced, whatever it was. *)
SizedAmount(req, p) ==
  IF req.decision = "SWAP"
  THEN SafeAmount(p.maxTx, req.confidence, req.change)
  ELSE req.amount

(***************************************************************************)
(* Check 9: drawdown from the session high, in percent, against the        *)
(* (negative) trigger; no drawdown is computed while the high is 0.        *)
(***************************************************************************)
Breached(usd, high, triggerPct) ==
  IF high > 0 THEN (usd - high) * 100 <= triggerPct * high
              ELSE 0 <= triggerPct

HardChecks == {"ACTION_WHITELIST", "TOKEN_WHITELIST", "DAILY_VOLUME_CAP", "BALANCE_CHECK"}
HoldChecks == {"MIN_CONFIDENCE", "RATE_LIMIT", "SPREAD_THRESHOLD", "STOP_LOSS_CIRCUIT"}

(***************************************************************************)
(* The names of the checks that fail.  Check 4 never fails.  `used' is the *)
(* number of approvals in the rate window, `high' the session high updated *)
(* with this portfolio, `restricted' the latch before this call.           *)
(***************************************************************************)
FailedChecks(req, p, used, high, restricted) ==
  LET swap   == req.decision = "SWAP"
      amount == IF swap THEN SizedAmount(req, p) ELSE 0
      spread == IF req.quoted THEN req.net ELSE req.gross
      fails  == [ACTION_WHITELIST  |-> req.decision \notin ALLOWED_ACTIONS,
                 TOKEN_WHITELIST   |-> ~({req.from, req.to} \subseteq ALLOWED_TOKENS),
                 MIN_CONFIDENCE    |-> swap /\ req.confidence < p.minConfidence,
                 DAILY_VOLUME_CAP  |-> req.volume + amount > p.dailyCap,
                 RATE_LIMIT        |-> used >= RATE_LIMIT_MAX,
                 BALANCE_CHECK     |-> req.sol < amount + FEE_RESERVE,
                 SPREAD_THRESHOLD  |-> swap /\ spread < p.spreadThreshold,
                 STOP_LOSS_CIRCUIT |-> restricted \/ Breached(req.usd, high, p.stopLossPct)]
  IN {c \in HardChecks \cup HoldChecks : fails[c]}

(* A hard rejection wins; otherwise the stop-loss wins over the rate limit,*)
(* and the rate limit over the other forced holds.                         *)
Outcome(failed) ==
  IF failed \cap HardChecks # {}        THEN "REJECTED"
  ELSE IF "STOP_LOSS_CIRCUIT" \in failed THEN "RESTRICTED"
  ELSE IF "RATE_LIMIT" \in failed        THEN "QUEUED"
  ELSE IF failed # {}                    THEN "FORCE_HOLD"
  ELSE "APPROVED"

(* The PolicyResult: a forced hold turns the decision into HOLD of 0, a    *)
(* hard rejection leaves the sized decision as it is.                      *)
PolicyResult(req, p, failed) ==
  LET outcome == Outcome(failed)
      held    == outcome \in {"RESTRICTED", "QUEUED", "FORCE_HOLD"}
  IN [outcome  |-> outcome,
      decision |-> IF held THEN "HOLD" ELSE req.decision,
      amount   |-> IF held THEN 0 ELSE SizedAmount(req, p)]
=============================================================================
