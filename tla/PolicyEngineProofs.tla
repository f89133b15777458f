-------------------------- MODULE PolicyEngineProofs --------------------------
(***************************************************************************)
(* Proofs about PolicyEngine, for every set of agents, every profile,      *)
(* every request and every size of the rate window.                        *)
(***************************************************************************)
EXTENDS PolicyEngine, FiniteSetTheorems, TLAPS

-----------------------------------------------------------------------------
(* Facts about the checks of Layer 4.                                      *)

(* A product of natural numbers grows with its factors.                    *)
LEMMA ProductBounded ==
  ASSUME NEW i \in Nat, NEW j \in Nat, NEW m \in Nat, i <= m
  PROVE  /\ i * j \in Nat
         /\ i * j <= m * j
<1>1. PICK d \in Nat : m = i + d
  <2>1. m - i \in Nat
    OBVIOUS
  <2> QED
    BY <2>1
<1>2. i * j \in Nat /\ d * j \in Nat
  OBVIOUS
<1>3. m * j = i * j + d * j
  BY <1>1
<1> QED
  BY <1>2, <1>3

(* Check 4 never sizes a swap above the profile's maximum, nor below zero, *)
(* whatever the model's confidence and the market's volatility             *)
(* (policy-engine.ts:164-196).                                             *)
THEOREM SafeAmountBounded ==
  ASSUME NEW maxTx \in Nat, NEW confidence \in 0..100, NEW change \in Nat
  PROVE  SafeAmount(maxTx, confidence, change) \in 0..maxTx
<1> DEFINE kept == 100 - VolatilityPenalty(change)
<1>1. kept \in Nat /\ kept <= 100
  BY DEF VolatilityPenalty, Smaller
<1> DEFINE k == confidence * kept
<1> HIDE DEF kept
<1>2. k \in Nat /\ k <= 10000
  <2>1. k \in Nat /\ k <= 100 * kept
    BY <1>1, ProductBounded
  <2> QED
    BY <1>1, <2>1
<1> HIDE DEF k
<1>3. k * maxTx \in Nat /\ k * maxTx <= 10000 * maxTx
  BY <1>2, ProductBounded
<1> DEFINE product == k * maxTx
<1>4. product \in Nat /\ product <= 10000 * maxTx
  BY <1>3
<1> HIDE DEF product
<1>5. (product + 5000) \div 10000 \in 0..maxTx
  BY <1>4
<1>6. product = maxTx * k
  BY <1>2 DEF product
<1> QED
  BY <1>5, <1>6 DEF k, kept, SafeAmount

(* The sized amount is an amount, for decisions of every kind.             *)
LEMMA SizedAmountIsNat ==
  ASSUME NEW req \in RequestType, NEW p \in ProfileType
  PROVE  SizedAmount(req, p) \in Nat
<1>1. /\ p.maxTx \in Nat
      /\ req.confidence \in 0..100
      /\ req.change \in Nat
      /\ req.amount \in Nat
  BY DEF RequestType, ProfileType
<1>2. SafeAmount(p.maxTx, req.confidence, req.change) \in 0..p.maxTx
  BY <1>1, SafeAmountBounded
<1> QED
  BY <1>1, <1>2 DEF SizedAmount

(* An approval means that no check failed (policy-engine.ts:328-335).      *)
LEMMA ApprovedMeansNoneFailed ==
  ASSUME NEW failed, Outcome(failed) = "APPROVED"
  PROVE  failed = {}
BY DEF Outcome

(* What an approval says of the two checks that keep state.                *)
LEMMA ApprovedPassesStatefulChecks ==
  ASSUME NEW req, NEW p, NEW used \in Nat, NEW high, NEW restricted \in BOOLEAN,
         Outcome(FailedChecks(req, p, used, high, restricted)) = "APPROVED"
  PROVE  /\ used < RATE_LIMIT_MAX
         /\ ~restricted
         /\ ~Breached(req.usd, high, p.stopLossPct)
<1>1. FailedChecks(req, p, used, high, restricted) = {}
  BY ApprovedMeansNoneFailed
<1>2. /\ "RATE_LIMIT" \notin FailedChecks(req, p, used, high, restricted)
      /\ "STOP_LOSS_CIRCUIT" \notin FailedChecks(req, p, used, high, restricted)
  BY <1>1
<1>3. ~(used >= RATE_LIMIT_MAX)
  BY <1>2 DEF FailedChecks, HoldChecks
<1>4. ~restricted /\ ~Breached(req.usd, high, p.stopLossPct)
  BY <1>2 DEF FailedChecks, HoldChecks
<1> QED
  BY <1>3, <1>4, RateMaxAssumption

-----------------------------------------------------------------------------
(* Type correctness.                                                       *)

(* The session high is the larger of two portfolio values.                 *)
LEMMA LargerIsNat ==
  ASSUME NEW x \in Nat, NEW y \in Nat
  PROVE  Larger(x, y) \in Nat
BY DEF Larger

(* Every combination of failed checks has one of the outcomes.             *)
LEMMA OutcomeTyped ==
  ASSUME NEW failed
  PROVE  Outcome(failed) \in Outcomes
BY DEF Outcome, Outcomes

(* What check() returns is well-formed, also when it forces a HOLD or      *)
(* rejects.                                                                *)
LEMMA PolicyResultTyped ==
  ASSUME NEW req \in RequestType, NEW p \in ProfileType, NEW failed
  PROVE  /\ PolicyResult(req, p, failed).outcome \in Outcomes
         /\ PolicyResult(req, p, failed).decision \in Decisions
         /\ PolicyResult(req, p, failed).amount \in Nat
<1>1. SizedAmount(req, p) \in Nat
  BY SizedAmountIsNat
<1>2. req.decision \in Decisions
  BY DEF RequestType
<1>3. Outcome(failed) \in Outcomes
  BY OutcomeTyped
<1> QED
  BY <1>1, <1>2, <1>3 DEF PolicyResult, Decisions

(* The state before the first call of a process is well-formed.            *)
LEMMA FreshStateTyped ==
  /\ FreshStopLoss \in [high: Nat, restricted: BOOLEAN]
  /\ NoResult \in ResultType
BY DEF FreshStopLoss, NoResult, ResultType, Outcomes

(* Recording an approval, or not, keeps the limiter typed.                 *)
LEMMA RecordInTyped ==
  ASSUME PolicyTypeOK, NEW a \in Agents, NEW approvedSwap \in BOOLEAN,
         RecordIn(a, approvedSwap)
  PROVE  /\ limiter' \in [Agents -> SUBSET Stamp]
         /\ issued' \in [Agents -> Nat]
         /\ approvals' \in [Agents -> SUBSET Stamp]
<1> DEFINE stamp == [id |-> issued[a] + 1, at |-> now]
<1>1. stamp \in Stamp /\ issued[a] + 1 \in Nat
  BY DEF PolicyTypeOK, Stamp
<1>2. Recent(a) \subseteq Stamp
  BY DEF PolicyTypeOK, Recent
<1>3. CASE approvedSwap
  <2>1. /\ limiter' = [limiter EXCEPT ![a] = Recent(a) \cup {stamp}]
        /\ issued' = [issued EXCEPT ![a] = issued[a] + 1]
        /\ approvals' = [approvals EXCEPT ![a] = approvals[a] \cup {stamp}]
    BY <1>3 DEF RecordIn
  <2> HIDE DEF stamp
  <2>2. approvals[a] \cup {stamp} \in SUBSET Stamp /\ Recent(a) \cup {stamp} \in SUBSET Stamp
    BY <1>1, <1>2 DEF PolicyTypeOK
  <2> QED
    BY <1>1, <2>1, <2>2 DEF PolicyTypeOK
<1>4. CASE ~approvedSwap
  BY <1>2, <1>4 DEF RecordIn, PolicyTypeOK
<1> QED
  BY <1>3, <1>4

(* Check 9 keeps the circuit typed: a high is a portfolio value.           *)
LEMMA UpdateStopLossTyped ==
  ASSUME PolicyTypeOK, NEW a \in Agents, NEW req \in RequestType,
         UpdateStopLoss(a, req)
  PROVE  stopLoss' \in [Agents -> [high: Nat, restricted: BOOLEAN]]
<1>1. Larger(stopLoss[a].high, req.usd) \in Nat
  BY LargerIsNat DEF PolicyTypeOK, RequestType
<1> QED
  BY <1>1 DEF PolicyTypeOK, UpdateStopLoss

(* A new process starts in a typed state.                                  *)
LEMMA PolicyInitTyped == PolicyInit => PolicyTypeOK
BY FreshStateTyped DEF PolicyInit, PolicyTypeOK

(* A call of check() keeps the state typed, whatever it is asked.           *)
LEMMA CheckTyped ==
  ASSUME PolicyTypeOK, NEW a \in Agents, NEW req \in RequestType, Check(a, req)
  PROVE  PolicyTypeOK'
<1>1. Profile[a] \in ProfileType
  BY ProfileAssumption
<1> DEFINE r == PolicyResult(req, Profile[a], FailedFor(a, req))
<1>2. r.outcome \in Outcomes /\ r.decision \in Decisions /\ r.amount \in Nat
  BY <1>1, PolicyResultTyped
<1> DEFINE go == r.outcome = "APPROVED" /\ r.decision = "SWAP"
<1>3. /\ RecordIn(a, go)
      /\ UpdateStopLoss(a, req)
      /\ result' = [result EXCEPT ![a] =
           [outcome |-> r.outcome, decision |-> r.decision, amount |-> r.amount,
            usd |-> req.usd]]
      /\ peak' = [peak EXCEPT ![a] = Larger(@, req.usd)]
      /\ UNCHANGED now
  BY DEF Check
<1>4. go \in BOOLEAN
  OBVIOUS
<1> HIDE DEF r, go
<1>5. /\ limiter' \in [Agents -> SUBSET Stamp]
      /\ issued' \in [Agents -> Nat]
      /\ approvals' \in [Agents -> SUBSET Stamp]
  BY <1>3, <1>4, RecordInTyped
<1>6. stopLoss' \in [Agents -> [high: Nat, restricted: BOOLEAN]]
  BY <1>3, UpdateStopLossTyped
<1>7. result' \in [Agents -> ResultType]
  BY <1>2, <1>3 DEF PolicyTypeOK, ResultType, RequestType
<1>8. Larger(peak[a], req.usd) \in Nat
  BY LargerIsNat DEF PolicyTypeOK, RequestType
<1>9. peak' \in [Agents -> Nat]
  BY <1>3, <1>8 DEF PolicyTypeOK
<1> QED
  BY <1>3, <1>5, <1>6, <1>7, <1>9 DEF PolicyTypeOK

(* Every call, reset, restart and tick keeps the state typed.              *)
LEMMA PolicyStepTyped ==
  ASSUME PolicyTypeOK, [PolicyNext]_policyVars
  PROVE  PolicyTypeOK'
<1>1. ASSUME NEW a \in Agents, NEW req \in Requests, Check(a, req)
      PROVE  PolicyTypeOK'
  BY <1>1, CheckTyped, RequestsAssumption
<1>2. ASSUME NEW a \in Agents, ResetStopLoss(a)
      PROVE  PolicyTypeOK'
  BY <1>2, FreshStateTyped DEF ResetStopLoss, PolicyTypeOK
<1>3. CASE Restart
  BY <1>3, FreshStateTyped DEF Restart, PolicyTypeOK
<1>4. CASE Tick
  BY <1>4 DEF Tick, PolicyTypeOK
<1>5. CASE UNCHANGED policyVars
  BY <1>5 DEF policyVars, PolicyTypeOK
<1> QED
  BY <1>1, <1>2, <1>3, <1>4, <1>5 DEF PolicyNext

(* The type invariant holds whatever the models, the market and the clock  *)
(* hand to check().                                                        *)
THEOREM PolicyTypeCorrect == PolicySpec => []PolicyTypeOK
<1>1. PolicyTypeOK /\ [PolicyNext]_policyVars => PolicyTypeOK'
  BY PolicyStepTyped
<1> QED
  BY <1>1, PolicyInitTyped, PTL DEF PolicySpec

-----------------------------------------------------------------------------
(* The sliding window.  RateLimitWindow speaks of all approvals, check()   *)
(* only of the list it has purged itself: the invariant that links them is *)
(* that whatever was purged has left the window for good.                  *)

LimiterInv(a) ==
  /\ IsFiniteSet(approvals[a])
  /\ limiter[a] \subseteq approvals[a]
  /\ \A s \in approvals[a] : s.at <= now
  /\ \A s \in approvals[a] \ limiter[a] : s.at <= now - RATE_LIMIT_WINDOW

WindowInv(a) ==
  \A s \in approvals[a] : Cardinality(InWindow(a, s.at)) <= RATE_LIMIT_MAX

RateInv ==
  /\ PolicyTypeOK
  /\ \A a \in Agents : LimiterInv(a) /\ WindowInv(a)

(* What is inside the window now is on the purged list, and conversely.    *)
LEMMA RecentIsTheWindow ==
  ASSUME PolicyTypeOK, NEW a \in Agents, LimiterInv(a)
  PROVE  /\ Recent(a) = InWindow(a, now)
         /\ IsFiniteSet(Recent(a))
<1>1. /\ now \in Int
      /\ RATE_LIMIT_WINDOW \in Int
      /\ \A s \in approvals[a] : s.at \in Int
  BY WindowAssumption DEF PolicyTypeOK, Stamp
<1>2. Recent(a) = InWindow(a, now)
  BY <1>1 DEF LimiterInv, Recent, InWindow
<1>3. Recent(a) \subseteq approvals[a]
  BY DEF Recent, LimiterInv
<1>4. IsFiniteSet(Recent(a))
  BY <1>3, FS_Subset DEF LimiterInv
<1> QED
  BY <1>2, <1>4

(* One call of check() for the agent it is about.                          *)
LEMMA RecordInKeepsLimiterInv ==
  ASSUME PolicyTypeOK, NEW a \in Agents, LimiterInv(a), now' = now,
         NEW approvedSwap \in BOOLEAN, RecordIn(a, approvedSwap)
  PROVE  LimiterInv(a)'
<1> DEFINE stamp == [id |-> issued[a] + 1, at |-> now]
<1>1. /\ now \in Int
      /\ RATE_LIMIT_WINDOW \in Int
      /\ \A s \in approvals[a] : s.at \in Int
      /\ stamp.at = now
  BY WindowAssumption DEF PolicyTypeOK, Stamp
<1>2. CASE approvedSwap
  <2>1. /\ limiter'[a] = Recent(a) \cup {stamp}
        /\ approvals'[a] = approvals[a] \cup {stamp}
    BY <1>2 DEF RecordIn, PolicyTypeOK
  <2> HIDE DEF stamp
  <2>2. IsFiniteSet(approvals'[a])
    BY <2>1, FS_AddElement DEF LimiterInv
  <2>3. limiter'[a] \subseteq approvals'[a]
    BY <2>1 DEF LimiterInv, Recent
  <2>4. \A s \in approvals'[a] : s.at <= now
    BY <1>1, <2>1 DEF LimiterInv
  <2>5. \A s \in approvals'[a] \ limiter'[a] : s.at <= now - RATE_LIMIT_WINDOW
    BY <1>1, <2>1 DEF LimiterInv, Recent
  <2> QED
    BY <2>2, <2>3, <2>4, <2>5 DEF LimiterInv
<1>3. CASE ~approvedSwap
  <2>1. /\ limiter'[a] = Recent(a)
        /\ approvals'[a] = approvals[a]
    BY <1>3 DEF RecordIn, PolicyTypeOK
  <2>2. \A s \in approvals'[a] \ limiter'[a] : s.at <= now - RATE_LIMIT_WINDOW
    BY <1>1, <2>1 DEF LimiterInv, Recent
  <2> QED
    BY <2>1, <2>2 DEF LimiterInv, Recent
<1> QED
  BY <1>2, <1>3

(* An approval finds fewer than RATE_LIMIT_MAX others in its window.       *)
LEMMA RecordInKeepsWindowInv ==
  ASSUME PolicyTypeOK, NEW a \in Agents, LimiterInv(a), WindowInv(a), now' = now,
         NEW approvedSwap \in BOOLEAN, RecordIn(a, approvedSwap),
         approvedSwap => Cardinality(Recent(a)) < RATE_LIMIT_MAX
  PROVE  WindowInv(a)'
<1> DEFINE stamp == [id |-> issued[a] + 1, at |-> now]
<1>1. /\ now \in Int
      /\ RATE_LIMIT_WINDOW \in Nat \ {0}
      /\ \A s \in approvals[a] : s.at \in Int
      /\ stamp.at = now
  BY WindowAssumption DEF PolicyTypeOK, Stamp
<1>2. CASE approvedSwap
  <2>1. approvals'[a] = approvals[a] \cup {stamp}
    BY <1>2 DEF RecordIn, PolicyTypeOK
  <2> HIDE DEF stamp
  <2> SUFFICES ASSUME NEW s \in approvals'[a]
               PROVE  Cardinality(InWindow(a, s.at)') <= RATE_LIMIT_MAX
    BY DEF WindowInv, InWindow
  <2>2. s.at \in Int /\ s.at <= now
    BY <1>1, <2>1 DEF LimiterInv
  <2>3. CASE s.at = now
    <3>1. InWindow(a, s.at)' = Recent(a) \cup {stamp}
      <4>1. InWindow(a, s.at)' = InWindow(a, now) \cup {stamp}
        BY <1>1, <2>1, <2>3 DEF InWindow
      <4> QED
        BY <4>1, RecentIsTheWindow
    <3>2. IsFiniteSet(Recent(a))
      BY RecentIsTheWindow
    <3>3. Cardinality(Recent(a)) \in Nat
      BY <3>2, FS_CardinalityType
    <3>4. \/ Cardinality(Recent(a) \cup {stamp}) = Cardinality(Recent(a))
          \/ Cardinality(Recent(a) \cup {stamp}) = Cardinality(Recent(a)) + 1
      BY <3>2, FS_AddElement
    <3>5. Cardinality(Recent(a)) < RATE_LIMIT_MAX
      BY <1>2
    <3> QED
      BY <3>1, <3>3, <3>4, <3>5, RateMaxAssumption
  <2>4. CASE s.at < now
    <3>1. InWindow(a, s.at)' = InWindow(a, s.at)
      BY <1>1, <2>1, <2>2, <2>4 DEF InWindow
    <3>2. s \in approvals[a]
      BY <1>1, <2>1, <2>4
    <3> QED
      BY <3>1, <3>2 DEF WindowInv
  <2> QED
    BY <1>1, <2>2, <2>3, <2>4
<1>3. CASE ~approvedSwap
  <2>1. approvals'[a] = approvals[a]
    BY <1>3 DEF RecordIn, PolicyTypeOK
  <2> QED
    BY <2>1 DEF WindowInv, InWindow
<1> QED
  BY <1>2, <1>3

(* Both are about one agent: what leaves its variables alone keeps them.   *)
LEMMA UntouchedAgentKeepsInv ==
  ASSUME NEW a \in Agents, LimiterInv(a), WindowInv(a), now' = now,
         limiter'[a] = limiter[a], approvals'[a] = approvals[a]
  PROVE  LimiterInv(a)' /\ WindowInv(a)'
<1>1. LimiterInv(a)'
  BY DEF LimiterInv
<1>2. WindowInv(a)'
  BY DEF WindowInv, InWindow
<1> QED
  BY <1>1, <1>2

(* A call of check() passes RecordIn what it needs.                        *)
LEMMA CheckKeepsRateInv ==
  ASSUME RateInv, NEW a \in Agents, NEW req \in Requests, Check(a, req),
         NEW b \in Agents
  PROVE  LimiterInv(b)' /\ WindowInv(b)'
<1>1. req \in RequestType /\ Profile[a] \in ProfileType
  BY RequestsAssumption, ProfileAssumption
<1> DEFINE r == PolicyResult(req, Profile[a], FailedFor(a, req))
<1> DEFINE go == r.outcome = "APPROVED" /\ r.decision = "SWAP"
<1>2. RecordIn(a, go) /\ now' = now
  BY DEF Check
<1>3. go => Outcome(FailedFor(a, req)) = "APPROVED"
  BY DEF PolicyResult
<1>4. PolicyTypeOK /\ LimiterInv(a) /\ WindowInv(a) /\ LimiterInv(b) /\ WindowInv(b)
  BY DEF RateInv
<1>5. IsFiniteSet(Recent(a))
  BY <1>4, RecentIsTheWindow
<1>6. Cardinality(Recent(a)) \in Nat /\ stopLoss[a].restricted \in BOOLEAN
  BY <1>4, <1>5, FS_CardinalityType DEF PolicyTypeOK
<1>7. go => Cardinality(Recent(a)) < RATE_LIMIT_MAX
  BY <1>3, <1>6, ApprovedPassesStatefulChecks DEF FailedFor
<1>8. go \in BOOLEAN
  OBVIOUS
<1> HIDE DEF r, go
<1>9. CASE b = a
  BY <1>2, <1>4, <1>7, <1>8, <1>9, RecordInKeepsLimiterInv, RecordInKeepsWindowInv
<1>10. CASE b # a
  <2>1. limiter'[b] = limiter[b] /\ approvals'[b] = approvals[b]
    BY <1>2, <1>4, <1>8, <1>10 DEF RecordIn, PolicyTypeOK
  <2> QED
    BY <1>2, <1>4, <2>1, UntouchedAgentKeepsInv
<1> QED
  BY <1>9, <1>10

(* The invariant of the window holds in a new process.                     *)
LEMMA RateInvInit == PolicyInit => RateInv
<1> SUFFICES ASSUME PolicyInit PROVE RateInv
  OBVIOUS
<1>1. PolicyTypeOK
  BY PolicyInitTyped
<1>2. ASSUME NEW a \in Agents PROVE LimiterInv(a) /\ WindowInv(a)
  BY FS_EmptySet DEF PolicyInit, LimiterInv, WindowInv
<1> QED
  BY <1>1, <1>2 DEF RateInv

(* Every step keeps the invariant of the window. Only check() and the      *)
(* clock can disturb it.                                                   *)
LEMMA RateInvStep ==
  ASSUME RateInv, [PolicyNext]_policyVars
  PROVE  RateInv'
<1>1. PolicyTypeOK'
  BY PolicyStepTyped DEF RateInv
<1>2. ASSUME NEW b \in Agents
      PROVE  LimiterInv(b)' /\ WindowInv(b)'
  <2>1. /\ PolicyTypeOK
        /\ LimiterInv(b)
        /\ WindowInv(b)
    BY DEF RateInv
  <2>2. ASSUME NEW a \in Agents, NEW req \in Requests, Check(a, req)
        PROVE  LimiterInv(b)' /\ WindowInv(b)'
    BY <2>2, CheckKeepsRateInv
  <2>3. ASSUME NEW a \in Agents, ResetStopLoss(a)
        PROVE  LimiterInv(b)' /\ WindowInv(b)'
    BY <2>1, <2>3, UntouchedAgentKeepsInv DEF ResetStopLoss
  <2>4. CASE Restart
    BY <2>4, FS_EmptySet DEF Restart, LimiterInv, WindowInv
  <2>5. CASE Tick
    <3>1. /\ now \in Int
          /\ RATE_LIMIT_WINDOW \in Int
          /\ \A s \in approvals[b] : s.at \in Int
      BY <2>1, WindowAssumption DEF PolicyTypeOK, Stamp
    <3>2. now' = now + 1 /\ limiter' = limiter /\ approvals' = approvals
      BY <2>5 DEF Tick
    <3>3. LimiterInv(b)'
      BY <2>1, <3>1, <3>2 DEF LimiterInv
    <3>4. WindowInv(b)'
      BY <2>1, <3>2 DEF WindowInv, InWindow
    <3> QED
      BY <3>3, <3>4
  <2>6. CASE UNCHANGED policyVars
    BY <2>1, <2>6, UntouchedAgentKeepsInv DEF policyVars
  <2> QED
    BY <2>2, <2>3, <2>4, <2>5, <2>6 DEF PolicyNext
<1> QED
  BY <1>1, <1>2 DEF RateInv

(* The invariant of the window holds in every behaviour.                   *)
LEMMA RateInvariant == PolicySpec => []RateInv
<1>1. RateInv /\ [PolicyNext]_policyVars => RateInv'
  BY RateInvStep
<1> QED
  BY <1>1, RateInvInit, PTL DEF PolicySpec

(* The sliding window holds in every behaviour, for every number of agents *)
(* and every length and size of the window (policy-engine.ts:42-58,        *)
(* 215-237, 340-342).                                                      *)
THEOREM RateLimitWindowHolds == PolicySpec => []RateLimitWindow
<1>1. RateInv => RateLimitWindow
  BY DEF RateInv, WindowInv, RateLimitWindow
<1> QED
  BY <1>1, RateInvariant, PTL

-----------------------------------------------------------------------------
(* The stop-loss circuit.                                                  *)

StopLossInv ==
  /\ PolicyTypeOK
  /\ \A a \in Agents : stopLoss[a].high = peak[a]
  /\ NoSwapBelowStopLoss

(* What an approval of check() says of the circuit it found and left.      *)
LEMMA ApprovalFindsCircuitOpen ==
  ASSUME PolicyTypeOK, NEW a \in Agents, NEW req \in Requests,
         IsFiniteSet(Recent(a)),
         Outcome(FailedFor(a, req)) = "APPROVED"
  PROVE  /\ ~stopLoss[a].restricted
         /\ ~Breached(req.usd, Larger(stopLoss[a].high, req.usd), Profile[a].stopLossPct)
<1>1. Cardinality(Recent(a)) \in Nat /\ stopLoss[a].restricted \in BOOLEAN
  BY FS_CardinalityType DEF PolicyTypeOK
<1> QED
  BY <1>1, ApprovedPassesStatefulChecks DEF FailedFor

(* The limiter's part of the invariant gives what the lemma asks for.      *)
LEMMA RecentIsFinite ==
  ASSUME RateInv, NEW a \in Agents
  PROVE  IsFiniteSet(Recent(a))
BY RecentIsTheWindow DEF RateInv

(* Every step keeps the circuit in line with the highest value seen, and   *)
(* keeps approved swaps above the stop-loss.                               *)
LEMMA StopLossInvStep ==
  ASSUME RateInv, StopLossInv, [PolicyNext]_policyVars
  PROVE  StopLossInv'
<1>1. PolicyTypeOK'
  BY PolicyStepTyped DEF StopLossInv
<1>2. PolicyTypeOK /\ \A a \in Agents : stopLoss[a].high = peak[a]
  BY DEF StopLossInv
<1> DEFINE Safe(a) ==
      result[a].outcome = "APPROVED" /\ result[a].decision = "SWAP" =>
        \/ ~Breached(result[a].usd, peak[a], Profile[a].stopLossPct)
        \/ peak[a] = 0
<1>3. \A a \in Agents : Safe(a)
  BY DEF StopLossInv, NoSwapBelowStopLoss
<1>4. ASSUME NEW b \in Agents
      PROVE  stopLoss'[b].high = peak'[b] /\ Safe(b)'
  <2>1. ASSUME NEW a \in Agents, NEW req \in Requests, Check(a, req)
        PROVE  stopLoss'[b].high = peak'[b] /\ Safe(b)'
    <3> DEFINE r == PolicyResult(req, Profile[a], FailedFor(a, req))
    <3>1. /\ UpdateStopLoss(a, req)
          /\ result' = [result EXCEPT ![a] =
               [outcome |-> r.outcome, decision |-> r.decision, amount |-> r.amount,
                usd |-> req.usd]]
          /\ peak' = [peak EXCEPT ![a] = Larger(peak[a], req.usd)]
      BY <2>1 DEF Check
    <3>2. r.outcome = Outcome(FailedFor(a, req))
      BY DEF PolicyResult
    <3> HIDE DEF r
    <3>3. CASE b = a
      <4>1. peak'[a] = Larger(peak[a], req.usd)
        BY <1>2, <3>1 DEF PolicyTypeOK
      <4>2. stopLoss'[a].high = Larger(stopLoss[a].high, req.usd)
        BY <1>2, <3>1 DEF PolicyTypeOK, UpdateStopLoss
      <4>3. result'[a].outcome = r.outcome /\ result'[a].usd = req.usd
        BY <1>2, <3>1 DEF PolicyTypeOK
      <4>4. ASSUME result'[a].outcome = "APPROVED"
            PROVE  ~Breached(req.usd, peak'[a], Profile[a].stopLossPct)
        <5>1. Outcome(FailedFor(a, req)) = "APPROVED"
          BY <3>2, <4>3, <4>4
        <5>2. IsFiniteSet(Recent(a))
          BY RecentIsFinite
        <5> QED
          BY <1>2, <4>1, <5>1, <5>2, ApprovalFindsCircuitOpen
      <4> QED
        BY <1>2, <3>3, <4>1, <4>2, <4>3, <4>4
    <3>4. CASE b # a
      <4>1. /\ peak'[b] = peak[b]
            /\ stopLoss'[b] = stopLoss[b]
            /\ result'[b] = result[b]
        BY <1>2, <3>1, <3>4 DEF PolicyTypeOK, UpdateStopLoss
      <4> QED
        BY <1>2, <1>3, <4>1
    <3> QED
      BY <3>3, <3>4
  <2>2. ASSUME NEW a \in Agents, ResetStopLoss(a)
        PROVE  stopLoss'[b].high = peak'[b] /\ Safe(b)'
    <3>1. CASE b = a
      BY <1>2, <2>2, <3>1 DEF ResetStopLoss, PolicyTypeOK, FreshStopLoss
    <3>2. CASE b # a
      <4>1. /\ peak'[b] = peak[b]
            /\ stopLoss'[b] = stopLoss[b]
            /\ result'[b] = result[b]
        BY <1>2, <2>2, <3>2 DEF ResetStopLoss, PolicyTypeOK
      <4> QED
        BY <1>2, <1>3, <4>1
    <3> QED
      BY <3>1, <3>2
  <2>3. CASE Restart
    BY <2>3 DEF Restart, FreshStopLoss, NoResult
  <2>4. CASE Tick
    BY <1>2, <1>3, <2>4 DEF Tick
  <2>5. CASE UNCHANGED policyVars
    BY <1>2, <1>3, <2>5 DEF policyVars
  <2> QED
    BY <2>1, <2>2, <2>3, <2>4, <2>5 DEF PolicyNext
<1> QED
  BY <1>1, <1>4 DEF StopLossInv, NoSwapBelowStopLoss

(* No swap is approved below the stop-loss, for every history of portfolio *)
(* values (policy-engine.ts:64-81, 285-325).                               *)
THEOREM NoSwapBelowStopLossHolds == PolicySpec => []NoSwapBelowStopLoss
<1>1. PolicyInit => StopLossInv
  <2> SUFFICES ASSUME PolicyInit PROVE StopLossInv
    OBVIOUS
  <2>1. PolicyTypeOK
    BY PolicyInitTyped
  <2>2. \A a \in Agents : stopLoss[a].high = peak[a]
    BY DEF PolicyInit, FreshStopLoss
  <2>3. NoSwapBelowStopLoss
    BY DEF PolicyInit, NoSwapBelowStopLoss, NoResult
  <2> QED
    BY <2>1, <2>2, <2>3 DEF StopLossInv
<1>2. RateInv /\ StopLossInv /\ [PolicyNext]_policyVars => StopLossInv'
  BY StopLossInvStep
<1>3. StopLossInv => NoSwapBelowStopLoss
  BY DEF StopLossInv
<1> QED
  BY <1>1, <1>2, <1>3, RateInvariant, PTL DEF PolicySpec

(* A restricted agent stays restricted and gets no approval, until it is   *)
(* reset or the process restarts (policy-engine.ts:312-323, 359-365).      *)
THEOREM StopLossLatchesHolds == PolicySpec => StopLossLatches
<1> DEFINE Latched(a) ==
      stopLoss[a].restricted =>
        \/ stopLoss'[a].restricted /\ approvals'[a] = approvals[a]
        \/ ResetStopLoss(a)
        \/ Restart
<1>1. RateInv /\ [PolicyNext]_policyVars => [\A a \in Agents : Latched(a)]_policyVars
  <2> SUFFICES ASSUME RateInv, PolicyNext, NEW b \in Agents, stopLoss[b].restricted,
                      ~ResetStopLoss(b), ~Restart
               PROVE  stopLoss'[b].restricted /\ approvals'[b] = approvals[b]
    OBVIOUS
  <2>1. PolicyTypeOK
    BY DEF RateInv
  <2>2. ASSUME NEW a \in Agents, NEW req \in Requests, Check(a, req)
        PROVE  stopLoss'[b].restricted /\ approvals'[b] = approvals[b]
    <3> DEFINE r == PolicyResult(req, Profile[a], FailedFor(a, req))
    <3> DEFINE go == r.outcome = "APPROVED" /\ r.decision = "SWAP"
    <3>1. RecordIn(a, go) /\ UpdateStopLoss(a, req)
      BY <2>2 DEF Check
    <3>2. go => Outcome(FailedFor(a, req)) = "APPROVED"
      BY DEF PolicyResult
    <3>3. go \in BOOLEAN
      OBVIOUS
    <3> HIDE DEF r, go
    <3>4. CASE b = a
      <4>1. ~go
        BY <2>1, <3>2, <3>4, RecentIsFinite, ApprovalFindsCircuitOpen
      <4> QED
        BY <2>1, <3>1, <3>4, <4>1 DEF RecordIn, UpdateStopLoss, PolicyTypeOK
    <3>5. CASE b # a
      BY <2>1, <3>1, <3>3, <3>5 DEF RecordIn, UpdateStopLoss, PolicyTypeOK
    <3> QED
      BY <3>4, <3>5
  <2>3. ASSUME NEW a \in Agents, ResetStopLoss(a)
        PROVE  stopLoss'[b].restricted /\ approvals'[b] = approvals[b]
    BY <2>1, <2>3 DEF ResetStopLoss, PolicyTypeOK
  <2>4. CASE Tick
    BY <2>4 DEF Tick
  <2> QED
    BY <2>2, <2>3, <2>4 DEF PolicyNext
<1>2. StopLossLatches <=> [][\A a \in Agents : Latched(a)]_policyVars
  BY DEF StopLossLatches
<1> QED
  BY <1>1, <1>2, RateInvariant, PTL DEF PolicySpec
=============================================================================
