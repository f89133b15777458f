----------------------------- MODULE PolicyEngine -----------------------------
(***************************************************************************)
(* The state of Layer 4: one sliding-window rate limiter and one stop-loss *)
(* circuit per agent, both kept in the process's memory                    *)
(* (backend/src/security/policy-engine.ts).  check() is synchronous, so    *)
(* one call is one action.                                                 *)
(***************************************************************************)
EXTENDS PolicyRules

CONSTANTS
  Agents,
  Profile,             (* the profile of each agent                         *)
  Requests,            (* the inputs check() may be called with             *)
  RATE_LIMIT_WINDOW,   (* length of the sliding window, in clock ticks      *)
  MaxTime              (* bound: the clock stops here                       *)

ASSUME ProfileAssumption  == Profile \in [Agents -> ProfileType]
ASSUME RequestsAssumption == Requests \subseteq RequestType
ASSUME WindowAssumption   == RATE_LIMIT_WINDOW \in Nat \ {0}
ASSUME MaxTimeAssumption  == MaxTime \in Nat

VARIABLES
  now,         (* Date.now()                                                *)
  limiter,     (* timestamps of the limiter; id tells apart two pushes of   *)
               (* the same millisecond                                      *)
  stopLoss,    (* [high, restricted] of each agent                          *)
  result,      (* what the last check() of each agent returned              *)
  issued,      (* history: pushes so far                                    *)
  approvals,   (* history: every approved swap of this process, never purged*)
  peak         (* history: largest portfolio seen since start or reset      *)

policyVars == <<now, limiter, stopLoss, result, issued, approvals, peak>>

NoResult == [outcome |-> "NONE", decision |-> "NONE", amount |-> 0, usd |-> 0]

Stamp == [id: Nat, at: Nat]

(* getStopLossState creates the state on first use with the current value  *)
(* as its high; a high of 0 that the first call raises is the same state.  *)
FreshStopLoss == [high |-> 0, restricted |-> FALSE]

PolicyInit ==
  /\ now = 0
  /\ limiter = [a \in Agents |-> {}]
  /\ stopLoss = [a \in Agents |-> FreshStopLoss]
  /\ result = [a \in Agents |-> NoResult]
  /\ issued = [a \in Agents |-> 0]
  /\ approvals = [a \in Agents |-> {}]
  /\ peak = [a \in Agents |-> 0]

(* Bug: a timestamp leaves the list one tick early.                        *)
RecentTooShort(a) == {s \in limiter[a] : s.at > now - RATE_LIMIT_WINDOW + 1}

(* Timestamps that are still inside the window. *)
Recent(a) == {s \in limiter[a] : s.at > now - RATE_LIMIT_WINDOW}

FailedFor(a, req) ==
  FailedChecks(req, Profile[a], Cardinality(Recent(a)),
               Larger(stopLoss[a].high, req.usd), stopLoss[a].restricted)

(* recordTransaction, called only for an approved SWAP, on the purged list. *)
RecordIn(a, approvedSwap) ==
  LET stamp == [id |-> issued[a] + 1, at |-> now]
  IN IF approvedSwap
     THEN /\ limiter' = [limiter EXCEPT ![a] = Recent(a) \cup {stamp}]
          /\ issued' = [issued EXCEPT ![a] = @ + 1]
          /\ approvals' = [approvals EXCEPT ![a] = @ \cup {stamp}]
     ELSE /\ limiter' = [limiter EXCEPT ![a] = Recent(a)]
          /\ UNCHANGED <<issued, approvals>>

(* Bug: the drawdown is measured from the last value, not the highest.     *)
DrawdownFromLastValue(a, req) ==
  stopLoss' = [stopLoss EXCEPT ![a] =
    [high |-> req.usd,
     restricted |-> @.restricted
       \/ Breached(req.usd, Larger(@.high, req.usd), Profile[a].stopLossPct)]]

(* Bug: the circuit closes again when the portfolio recovers.              *)
RecoveringStopLoss(a, req) ==
  LET high == Larger(stopLoss[a].high, req.usd)
  IN stopLoss' = [stopLoss EXCEPT ![a] =
       [high |-> high, restricted |-> Breached(req.usd, high, Profile[a].stopLossPct)]]

(* getStopLossState raises the high; check 9 latches a breach for good. *)
UpdateStopLoss(a, req) ==
  LET high == Larger(stopLoss[a].high, req.usd)
  IN stopLoss' = [stopLoss EXCEPT ![a] =
       [high |-> high,
        restricted |-> @.restricted \/ Breached(req.usd, high, Profile[a].stopLossPct)]]

Check(a, req) ==
  LET r == PolicyResult(req, Profile[a], FailedFor(a, req))
  IN /\ RecordIn(a, r.outcome = "APPROVED" /\ r.decision = "SWAP")
     /\ UpdateStopLoss(a, req)
     /\ result' = [result EXCEPT ![a] =
          [outcome |-> r.outcome, decision |-> r.decision, amount |-> r.amount,
           usd |-> req.usd]]
     /\ peak' = [peak EXCEPT ![a] = Larger(@, req.usd)]
     /\ UNCHANGED now

(* The operator's override; no caller in the backend uses it yet. *)
ResetStopLoss(a) ==
  /\ stopLoss' = [stopLoss EXCEPT ![a] = FreshStopLoss]
  /\ peak' = [peak EXCEPT ![a] = 0]
  /\ UNCHANGED <<now, limiter, result, issued, approvals>>

(* The maps live in memory: a new process starts with empty ones. *)
Restart ==
  /\ limiter' = [a \in Agents |-> {}]
  /\ stopLoss' = [a \in Agents |-> FreshStopLoss]
  /\ result' = [a \in Agents |-> NoResult]
  /\ issued' = [a \in Agents |-> 0]
  /\ approvals' = [a \in Agents |-> {}]
  /\ peak' = [a \in Agents |-> 0]
  /\ UNCHANGED now

Tick ==
  /\ now < MaxTime
  /\ now' = now + 1
  /\ UNCHANGED <<limiter, stopLoss, result, issued, approvals, peak>>

PolicyNext ==
  \/ \E a \in Agents, req \in Requests : Check(a, req)
  \/ \E a \in Agents : ResetStopLoss(a)
  \/ Restart
  \/ Tick

PolicySpec == PolicyInit /\ [][PolicyNext]_policyVars

-----------------------------------------------------------------------------
Outcomes == {"NONE", "APPROVED", "REJECTED", "FORCE_HOLD", "QUEUED", "RESTRICTED"}

ResultType ==
  [outcome: Outcomes, decision: Decisions \cup {"NONE"}, amount: Nat, usd: Nat]

(* The state has the shape the code gives it: stamps are past instants with *)
(* ids the limiter has issued, and a session high is a portfolio value.     *)
PolicyTypeOK ==
  /\ now \in Nat
  /\ limiter \in [Agents -> SUBSET Stamp]
  /\ stopLoss \in [Agents -> [high: Nat, restricted: BOOLEAN]]
  /\ result \in [Agents -> ResultType]
  /\ issued \in [Agents -> Nat]
  /\ approvals \in [Agents -> SUBSET Stamp]
  /\ peak \in [Agents -> Nat]

(* Approved swaps of agent a in the window that ends at instant t. *)
InWindow(a, t) ==
  {s \in approvals[a] : s.at <= t /\ s.at > t - RATE_LIMIT_WINDOW}

(* The sliding window holds: no window of RATE_LIMIT_WINDOW ticks that ends *)
(* at an approval contains more than RATE_LIMIT_MAX approvals, although     *)
(* check() only looks at the list it has purged itself.                     *)
RateLimitWindow ==
  \A a \in Agents : \A s \in approvals[a] :
    Cardinality(InWindow(a, s.at)) <= RATE_LIMIT_MAX

(* A swap is never approved for a portfolio that has fallen through the     *)
(* stop-loss measured from the highest value any check of the session saw,  *)
(* whether or not those checks approved anything.                           *)
NoSwapBelowStopLoss ==
  \A a \in Agents :
    result[a].outcome = "APPROVED" /\ result[a].decision = "SWAP" =>
      \/ ~Breached(result[a].usd, peak[a], Profile[a].stopLossPct)
      \/ peak[a] = 0

(* The circuit latches: a restricted agent stays restricted, and gets no    *)
(* approval, until the operator's reset or a new process.                   *)
StopLossLatches ==
  [][\A a \in Agents :
       stopLoss[a].restricted =>
         \/ stopLoss'[a].restricted /\ approvals'[a] = approvals[a]
         \/ ResetStopLoss(a)
         \/ Restart]_policyVars
=============================================================================
