--------------------------- MODULE AgentCycleProofs ---------------------------
(***************************************************************************)
(* Proofs about the seven-layer cycle, for any number of cycles, agents    *)
(* and retries: it implements the air gap, every cycle ends, and however   *)
(* cycles overlap, each takes the recorded volume past the daily cap by at *)
(* most one maximal swap.                                                  *)
(*                                                                         *)
(* The invariant says where a cycle can be that has given a transaction to *)
(* the network, and what the swaps that passed check 5 may still add to    *)
(* the recorded volume.  The last two parts set the audit log against the  *)
(* chain: the log never counts a swap that was not executed, and while     *)
(* every executed swap is counted once and cycles follow one another, the  *)
(* daily cap bounds what the chain executes.                               *)
(***************************************************************************)
EXTENDS AgentCycle, PolicyEngineProofs

-----------------------------------------------------------------------------
(* The steps of a cycle, as its record before and after.                   *)

\* The awaits that follow one another, the decision of the policy aside.
Ways ==
  {<<"sense", "think">>, <<"think", "requote">>, <<"think", "audit">>,
   <<"requote", "audit">>, <<"audit", "police">>, <<"anchor", "build">>,
   <<"build", "sign">>, <<"sign", "cosign">>, <<"cosign", "submit">>,
   <<"submit", "confirm">>, <<"confirm", "settle">>}

Attempting == {"build", "sign", "cosign", "submit", "confirm"}
Sending    == Attempting \cup {"settle"}
Permitted  == Sending \cup {"anchor"}

Becomes(c, n) == cyc' = [cyc EXCEPT ![c] = n]

Keeps(c, n) == n.amount = cyc[c].amount /\ n.attempt = cyc[c].attempt

GoesOn(c, n) == <<cyc[c].stage, n.stage>> \in Ways /\ Keeps(c, n)

GivesUp(c, n) ==
  Running(c) /\ n.stage = "done" /\ n.entry # "TX_CONFIRMED" /\ Keeps(c, n)

Retries(c, n) ==
  /\ cyc[c].stage \in Attempting /\ cyc[c].attempt < MAX_RETRY
  /\ n.stage = "build" /\ n.attempt = cyc[c].attempt + 1
  /\ n.amount = cyc[c].amount

Permits(c, n) ==
  /\ cyc[c].stage = "police" /\ n.stage = "anchor"
  /\ n.attempt = cyc[c].attempt
  /\ n.amount <= Profile[Owner[c]].maxTx
  /\ volume[Owner[c]] + n.amount <= Profile[Owner[c]].dailyCap

Succeeds(c, n) ==
  /\ cyc[c].stage = "settle" /\ n.stage = "done" /\ n.entry = "TX_CONFIRMED"
  /\ Keeps(c, n)

Sends(c) ==
  cyc[c].stage = "submit" /\ tx' = [tx EXCEPT ![<<c, cyc[c].attempt>>] = "pending"]

Shape(c, n) ==
  \/ /\ GoesOn(c, n) \/ Permits(c, n) \/ GivesUp(c, n) \/ Retries(c, n)
     /\ UNCHANGED volume
     /\ UNCHANGED tx \/ Sends(c)
  \/ /\ Succeeds(c, n)
     /\ volume' = [volume EXCEPT ![Owner[c]] = volume[Owner[c]] + cyc[c].amount]
     /\ UNCHANGED tx

-----------------------------------------------------------------------------
(* An approved swap has the amount check 4 gives it and fits into what is  *)
(* left of the daily cap (policy-engine.ts:199-206).                       *)
LEMMA ApprovedSwapFits ==
  ASSUME NEW req \in RequestType, NEW p \in ProfileType, NEW used, NEW high,
         NEW restricted \in BOOLEAN,
         LET r == PolicyResult(req, p, FailedChecks(req, p, used, high, restricted))
         IN  r.outcome = "APPROVED" /\ r.decision = "SWAP"
  PROVE  LET r == PolicyResult(req, p, FailedChecks(req, p, used, high, restricted))
         IN  /\ r.amount \in 0..p.maxTx
             /\ req.volume + r.amount <= p.dailyCap
<1> DEFINE failed == FailedChecks(req, p, used, high, restricted)
<1>1. Outcome(failed) = "APPROVED" /\ req.decision = "SWAP"
  BY DEF PolicyResult
<1>2. failed = {}
  BY <1>1, ApprovedMeansNoneFailed
<1>3. "DAILY_VOLUME_CAP" \notin failed
  BY <1>2
<1>4. ~(req.volume + SizedAmount(req, p) > p.dailyCap)
  BY <1>1, <1>3 DEF FailedChecks, HardChecks
<1>5. /\ p.maxTx \in Nat /\ p.dailyCap \in Nat /\ req.volume \in Nat
      /\ req.confidence \in 0..100 /\ req.change \in Nat
  BY DEF ProfileType, RequestType
<1>6. SizedAmount(req, p) \in 0..p.maxTx
  BY <1>1, <1>5, SafeAmountBounded DEF SizedAmount
<1>7. PolicyResult(req, p, failed).amount = SizedAmount(req, p)
  BY <1>1 DEF PolicyResult
<1> HIDE DEF failed
<1> QED
  BY <1>4, <1>5, <1>6, <1>7 DEF failed

(* A jump to another await keeps what the policy permitted.                *)
LEMMA GoToBecomes ==
  ASSUME TypeOK, NEW c \in Cycles, NEW s \in Stages, GoTo(c, s)
  PROVE  \E n \in CycleType : /\ Becomes(c, n) /\ Keeps(c, n)
                              /\ n.stage = s /\ n.entry = cyc[c].entry
<1> DEFINE n == [cyc[c] EXCEPT !.stage = s]
<1>1. cyc[c] \in CycleType
  BY DEF TypeOK
<1>2. n \in CycleType
  BY <1>1 DEF CycleType
<1>3. Becomes(c, n)
  BY DEF GoTo, Becomes, TypeOK
<1>4. Keeps(c, n) /\ n.stage = s /\ n.entry = cyc[c].entry
  BY <1>1 DEF Keeps, CycleType
<1> QED
  BY <1>2, <1>3, <1>4

(* So does the end, with whatever entry.                                   *)
LEMMA EndBecomes ==
  ASSUME TypeOK, NEW c \in Cycles, NEW e \in Entries, EndWith(c, e)
  PROVE  \E n \in CycleType : /\ Becomes(c, n) /\ Keeps(c, n)
                              /\ n.stage = "done" /\ n.entry = e
<1> DEFINE n == [cyc[c] EXCEPT !.stage = "done", !.entry = e]
<1>1. cyc[c] \in CycleType
  BY DEF TypeOK
<1>2. n \in CycleType
  BY <1>1 DEF CycleType, Stages
<1>3. Becomes(c, n)
  BY DEF EndWith, Becomes, TypeOK
<1>4. Keeps(c, n) /\ n.stage = "done" /\ n.entry = e
  BY <1>1 DEF Keeps, CycleType
<1> QED
  BY <1>2, <1>3, <1>4

(* A failed attempt of executeSwap starts the next one or gives up.        *)
LEMMA FailureBecomes ==
  ASSUME TypeOK, NEW c \in Cycles, NEW alt, AttemptFails(c, alt),
         cyc[c].stage \in Attempting
  PROVE  \E n \in CycleType : Becomes(c, n) /\ (GivesUp(c, n) \/ Retries(c, n))
<1>1. cyc[c] \in CycleType
  BY DEF TypeOK
<1>2. CASE cyc[c].attempt < MAX_RETRY
  <2> DEFINE n == [cyc[c] EXCEPT !.attempt = cyc[c].attempt + 1, !.stage = "build"]
  <2>1. cyc[c].attempt + 1 \in Nat /\ "build" \in Stages
    BY <1>1 DEF CycleType, Stages
  <2>4. n \in CycleType
    BY <1>1, <2>1 DEF CycleType
  <2>2. Becomes(c, n)
    BY <1>2 DEF AttemptFails, Becomes, TypeOK
  <2>3. Retries(c, n)
    BY <1>1, <1>2 DEF Retries, CycleType
  <2> QED
    BY <2>2, <2>3, <2>4
<1>3. CASE ~(cyc[c].attempt < MAX_RETRY)
  <2>1. \E e \in Entries : e # "TX_CONFIRMED" /\ EndWith(c, e)
    BY <1>3 DEF AttemptFails, Entries
  <2> QED
    BY <2>1, EndBecomes DEF GivesUp, Running, Attempting, Ended
<1> QED
  BY <1>2, <1>3

(* Layer 4: the policy is asked about the volume of this very moment.      *)
LEMMA PoliceShape ==
  ASSUME TypeOK, NEW c \in Cycles, Police(c)
  PROVE  /\ \E n \in CycleType : Becomes(c, n) /\ (Permits(c, n) \/ GivesUp(c, n))
         /\ PolicyTypeOK'
<1> DEFINE a == Owner[c]
           req == [cyc[c].req EXCEPT !.volume = volume[a]]
           r == PolicyResult(req, Profile[a], FailedFor(a, req))
<1>1. cyc[c] \in CycleType /\ a \in Agents /\ volume[a] \in Nat
  BY OwnerAssumption DEF TypeOK
<1>2. req \in RequestType /\ req.volume = volume[a]
  BY <1>1 DEF CycleType, RequestType
<1>3. Profile[a] \in ProfileType
  BY <1>1, ProfileAssumption
<1>4. Check(a, req) /\ cyc[c].stage = "police"
  BY DEF Police, At
<1> HIDE DEF req
<1>5. PolicyTypeOK'
  BY <1>1, <1>2, <1>4, CheckTyped DEF TypeOK
<1>6. result'[a] = [outcome |-> r.outcome, decision |-> r.decision,
                    amount |-> r.amount, usd |-> req.usd]
  BY <1>1, <1>4 DEF Check, TypeOK, PolicyTypeOK
<1>7. /\ result'[a].outcome = r.outcome /\ result'[a].decision = r.decision
      /\ result'[a].amount = r.amount
  BY <1>6
<1> HIDE DEF r
<1>8. CASE r.outcome = "APPROVED" /\ r.decision = "SWAP"
  <2> DEFINE n == [cyc[c] EXCEPT !.amount = r.amount, !.stage = "anchor"]
  <2>1. cyc' = [cyc EXCEPT ![c].amount = r.amount, ![c].stage = "anchor"]
    BY <1>7, <1>8 DEF Police
  <2>2. Becomes(c, n)
    BY <2>1 DEF Becomes, TypeOK
  <2> DEFINE high == Larger(stopLoss[a].high, req.usd)
             restricted == stopLoss[a].restricted
             used == Cardinality(Recent(a))
  <2>3. restricted \in BOOLEAN
    BY <1>1 DEF TypeOK, PolicyTypeOK
  <2>4. r = PolicyResult(req, Profile[a],
                         FailedChecks(req, Profile[a], used, high, restricted))
    BY DEF r, FailedFor
  <2> HIDE DEF high, restricted, used
  <2>5. r.amount \in 0..Profile[a].maxTx /\ req.volume + r.amount <= Profile[a].dailyCap
    BY <1>2, <1>3, <1>8, <2>3, <2>4, ApprovedSwapFits
  <2>6. Profile[a].maxTx \in Nat
    BY <1>3 DEF ProfileType
  <2>7. r.amount \in Nat /\ "anchor" \in Stages
    BY <2>5, <2>6 DEF Stages
  <2> HIDE DEF a
  <2>8. n \in CycleType
    BY <1>1, <2>7 DEF CycleType
  <2>9. n.stage = "anchor" /\ n.amount = r.amount /\ n.attempt = cyc[c].attempt
    BY <1>1 DEF CycleType
  <2>10. Permits(c, n)
    BY <1>2, <1>4, <2>5, <2>6, <2>9 DEF Permits, a
  <2> QED
    BY <1>5, <2>2, <2>8, <2>10
<1>9. CASE ~(r.outcome = "APPROVED" /\ r.decision = "SWAP")
  <2>1. \E e \in {"POLICY_PASS", "POLICY_FAIL"} : EndWith(c, e)
    BY <1>7, <1>9 DEF Police
  <2>2. \E e \in Entries : e # "TX_CONFIRMED" /\ EndWith(c, e)
    BY <2>1 DEF Entries
  <2> QED
    BY <1>4, <1>5, <2>2, EndBecomes DEF GivesUp, Running, Ended
<1> QED
  BY <1>8, <1>9

(* Layers 1 to 5 without the policy.                                       *)
LEMMA ThoughtShape ==
  ASSUME TypeOK, NEW c \in Cycles,
         Sense(c) \/ Think(c) \/ Requote(c) \/ GuardianAudit(c) \/ AnchorProof(c)
  PROVE  \E n \in CycleType : Becomes(c, n) /\ (GoesOn(c, n) \/ GivesUp(c, n))
<1>1. cyc[c] \in CycleType
  BY DEF TypeOK
<1>2. ASSUME NEW s \in Stages, GoTo(c, s), <<cyc[c].stage, s>> \in Ways
      PROVE  \E n \in CycleType : Becomes(c, n) /\ GoesOn(c, n)
  BY <1>2, GoToBecomes DEF GoesOn
<1>3. ASSUME NEW e \in Entries, EndWith(c, e), e # "TX_CONFIRMED", Running(c)
      PROVE  \E n \in CycleType : Becomes(c, n) /\ GivesUp(c, n)
  BY <1>3, EndBecomes DEF GivesUp
<1>4. ASSUME NEW q, NEW m \in Int, NEW s \in Stages,
             cyc' = [cyc EXCEPT ![c] = [cyc[c] EXCEPT !.req = q, !.modified = m,
                                                      !.stage = s]],
             q \in RequestType, <<cyc[c].stage, s>> \in Ways
      PROVE  \E n \in CycleType : Becomes(c, n) /\ GoesOn(c, n)
  <2> DEFINE n == [cyc[c] EXCEPT !.req = q, !.modified = m, !.stage = s]
  <2>1. n \in CycleType
    BY <1>1, <1>4 DEF CycleType
  <2>2. GoesOn(c, n)
    BY <1>1, <1>4 DEF GoesOn, Keeps, CycleType
  <2> QED
    BY <1>4, <2>1, <2>2 DEF Becomes
<1>5. CASE Sense(c)
  BY <1>2, <1>3, <1>5 DEF Sense, At, Ways, Stages, Entries, Running, Ended
<1>6. CASE AnchorProof(c)
  BY <1>2, <1>3, <1>6 DEF AnchorProof, At, Ways, Stages, Entries, Running, Ended
<1>7. CASE Think(c)
  <2>1. CASE EndWith(c, "LLM_PARSE_ERROR") \/ EndWith(c, "CYCLE_ERROR")
    BY <1>3, <1>7, <2>1 DEF Think, At, Entries, Running, Ended
  <2>2. ASSUME NEW q \in Requests, NEW s \in {"requote", "audit"},
               cyc' = [cyc EXCEPT ![c].req = q, ![c].stage = s]
        PROVE  \E n \in CycleType : Becomes(c, n) /\ GoesOn(c, n)
    <3>1. q \in RequestType
      BY RequestsAssumption
    <3>2. [cyc[c] EXCEPT !.req = q, !.modified = cyc[c].modified, !.stage = s]
            = [cyc[c] EXCEPT !.req = q, !.stage = s]
      BY <1>1 DEF CycleType
    <3>3. cyc' = [cyc EXCEPT ![c] = [cyc[c] EXCEPT !.req = q, !.stage = s]]
      BY <2>2 DEF TypeOK
    <3>4. cyc[c].modified \in Int /\ s \in Stages /\ <<cyc[c].stage, s>> \in Ways
      BY <1>1, <1>7 DEF CycleType, Stages, Think, At, Ways
    <3> QED
      BY <1>4, <3>1, <3>2, <3>3, <3>4
  <2> QED
    BY <1>7, <2>1, <2>2 DEF Think
<1>8. CASE Requote(c)
  <2>1. PICK quoted \in BOOLEAN :
          cyc' = [cyc EXCEPT ![c].req.quoted = quoted, ![c].stage = "audit"]
    BY <1>8 DEF Requote
  <2> DEFINE q == [cyc[c].req EXCEPT !.quoted = quoted]
  <2>2. q \in RequestType
    BY <1>1 DEF CycleType, RequestType
  <2>3. cyc' = [cyc EXCEPT ![c] = [cyc[c] EXCEPT !.req = q, !.modified = cyc[c].modified,
                                                 !.stage = "audit"]]
    BY <1>1, <2>1 DEF TypeOK, CycleType
  <2>4. cyc[c].modified \in Int /\ "audit" \in Stages /\ <<cyc[c].stage, "audit">> \in Ways
    BY <1>1, <1>8 DEF CycleType, Stages, Requote, At, Ways
  <2> QED
    BY <1>4, <2>2, <2>3, <2>4
<1>9. CASE GuardianAudit(c)
  <2>1. CASE GoTo(c, "police")
    BY <1>2, <1>9, <2>1 DEF GuardianAudit, At, Ways, Stages
  <2>2. CASE \E e \in {"GUARDIAN_AUDIT", "GUARDIAN_SAFETY_VETO", "CYCLE_ERROR"} :
               EndWith(c, e)
    BY <1>3, <1>9, <2>2 DEF GuardianAudit, At, Entries, Running, Ended
  <2>3. ASSUME NEW lower \in {0, cyc[c].req.amount \div 2},
               cyc' = [cyc EXCEPT ![c].req.amount = lower, ![c].modified = lower,
                                  ![c].stage = "police"]
        PROVE  \E n \in CycleType : Becomes(c, n) /\ GoesOn(c, n)
    <3> DEFINE q == [cyc[c].req EXCEPT !.amount = lower]
    <3>1. lower \in Nat /\ lower \in Int
      BY <1>1 DEF CycleType, RequestType
    <3>2. q \in RequestType
      BY <1>1, <3>1 DEF CycleType, RequestType
    <3>3. cyc' = [cyc EXCEPT ![c] = [cyc[c] EXCEPT !.req = q, !.modified = lower,
                                                   !.stage = "police"]]
      BY <1>1, <2>3 DEF TypeOK, CycleType
    <3>4. "police" \in Stages /\ <<cyc[c].stage, "police">> \in Ways
      BY <1>9 DEF Stages, GuardianAudit, At, Ways
    <3> QED
      BY <1>4, <3>1, <3>2, <3>3, <3>4
  <2> QED
    BY <1>9, <2>1, <2>2, <2>3 DEF GuardianAudit
<1> QED
  BY <1>5, <1>6, <1>7, <1>8, <1>9

(* Layers 6 and 7 up to the confirmation: only Submit touches the network. *)
LEMMA AttemptShape ==
  ASSUME TypeOK, NEW c \in Cycles,
         Build(c) \/ SignInVault(c) \/ KoraCosign(c) \/ Submit(c) \/ Confirm(c)
  PROVE  /\ \E n \in CycleType :
               Becomes(c, n) /\ (GoesOn(c, n) \/ GivesUp(c, n) \/ Retries(c, n))
         /\ UNCHANGED tx \/ Sends(c)
         /\ UNCHANGED volume
<1>1. ASSUME NEW s \in Stages, GoTo(c, s), <<cyc[c].stage, s>> \in Ways
      PROVE  \E n \in CycleType : Becomes(c, n) /\ GoesOn(c, n)
  BY <1>1, GoToBecomes DEF GoesOn
<1>2. ASSUME NEW alt, AttemptFails(c, alt), cyc[c].stage \in Attempting
      PROVE  \E n \in CycleType : Becomes(c, n) /\ (GivesUp(c, n) \/ Retries(c, n))
  BY <1>2, FailureBecomes
<1>3. CASE Build(c)
  BY <1>1, <1>2, <1>3 DEF Build, At, Private, Ways, Stages, Attempting
<1>4. CASE SignInVault(c)
  BY <1>1, <1>2, <1>4 DEF SignInVault, At, Private, Ways, Stages, Attempting
<1>5. CASE KoraCosign(c)
  BY <1>1, <1>2, <1>5 DEF KoraCosign, At, Private, Ways, Stages, Attempting
<1>6. CASE Submit(c)
  BY <1>1, <1>2, <1>6 DEF Submit, At, Sends, Ways, Stages, Attempting
<1>7. CASE Confirm(c)
  BY <1>1, <1>2, <1>7 DEF Confirm, At, Private, Ways, Stages, Attempting
<1> QED
  BY <1>3, <1>4, <1>5, <1>6, <1>7

(* The record of a confirmed swap.                                         *)
LEMMA SettleShape ==
  ASSUME TypeOK, NEW c \in Cycles, Settle(c)
  PROVE  \E n \in CycleType : Becomes(c, n) /\ Shape(c, n)
<1>1. cyc[c].stage = "settle" /\ UNCHANGED tx
  BY DEF Settle, At
<1>2. CASE EndWith(c, "TX_FAILED") /\ UNCHANGED volume
  <2>1. "TX_FAILED" \in Entries /\ EndWith(c, "TX_FAILED")
    BY <1>2 DEF Entries
  <2>2. PICK n \in CycleType : Becomes(c, n) /\ Keeps(c, n)
                               /\ n.stage = "done" /\ n.entry = "TX_FAILED"
    BY <2>1, EndBecomes
  <2> QED
    BY <1>1, <1>2, <2>2 DEF Shape, GivesUp, Running, Ended
<1>3. CASE /\ EndWith(c, "TX_CONFIRMED")
           /\ volume' = [volume EXCEPT ![Owner[c]] = @ + cyc[c].amount]
  <2>1. "TX_CONFIRMED" \in Entries /\ EndWith(c, "TX_CONFIRMED")
    BY <1>3 DEF Entries
  <2>2. PICK n \in CycleType : Becomes(c, n) /\ Keeps(c, n)
                               /\ n.stage = "done" /\ n.entry = "TX_CONFIRMED"
    BY <2>1, EndBecomes
  <2> QED
    BY <1>1, <1>3, <2>2 DEF Shape, Succeeds
<1> QED
  BY <1>2, <1>3 DEF Settle

(* Every step of a cycle has one of the shapes.                            *)
LEMMA StepShape ==
  ASSUME TypeOK, NEW c \in Cycles, CycleStep(c)
  PROVE  /\ \E n \in CycleType : Becomes(c, n) /\ Shape(c, n)
         /\ PolicyTypeOK'
         /\ UNCHANGED <<executed, overlapped, restarts, midnights>>
<1>1. CASE Sense(c) \/ Think(c) \/ Requote(c) \/ GuardianAudit(c) \/ AnchorProof(c)
  <2>1. Private
    BY <1>1 DEF Sense, Think, Requote, GuardianAudit, AnchorProof
  <2>2. PolicyTypeOK'
    BY <2>1 DEF Private, policyVars, TypeOK, PolicyTypeOK
  <2> QED
    BY <1>1, <2>1, <2>2, ThoughtShape DEF Private, Shape
<1>2. CASE Police(c)
  BY <1>2, PoliceShape DEF Police, Shape
<1>3. CASE Build(c) \/ SignInVault(c) \/ KoraCosign(c) \/ Submit(c) \/ Confirm(c)
  <2>1. UNCHANGED <<policyVars, executed, overlapped, restarts, midnights>>
    BY <1>3 DEF Build, SignInVault, KoraCosign, Submit, Confirm, Private
  <2>2. PolicyTypeOK'
    BY <2>1 DEF policyVars, TypeOK, PolicyTypeOK
  <2> QED
    BY <1>3, <2>1, <2>2, AttemptShape DEF Shape
<1>4. CASE Settle(c)
  <2>1. UNCHANGED <<policyVars, executed, overlapped, restarts, midnights>>
    BY <1>4 DEF Settle
  <2>2. PolicyTypeOK'
    BY <2>1 DEF policyVars, TypeOK, PolicyTypeOK
  <2> QED
    BY <1>4, <2>1, <2>2, SettleShape
<1> QED
  BY <1>1, <1>2, <1>3, <1>4 DEF CycleStep

-----------------------------------------------------------------------------
(* The invariant.                                                          *)

\* A transaction of an attempt is on its way only once that attempt was sent.
SentInOrder(c) ==
  \A n \in Attempts : tx[<<c, n>>] # "none" =>
    /\ cyc[c].stage \in Sending \cup {"done"}
    /\ n <= cyc[c].attempt
    /\ cyc[c].stage \in {"build", "sign", "cosign", "submit"} => n # cyc[c].attempt

Confirmed(a) ==
  {c \in Cycles : /\ Owner[c] = a
                  /\ cyc[c].stage = "done" /\ cyc[c].entry = "TX_CONFIRMED"}

\* How far above the cap the cycles recorded so far may have taken an agent.
Room(a) == Cardinality(Confirmed(a)) * Profile[a].maxTx

\* What a permitted swap may still add to the volume...
Fits(c) ==
  cyc[c].stage \in Permitted =>
    /\ cyc[c].amount <= Profile[Owner[c]].maxTx
    /\ cyc[c].amount <= Profile[Owner[c]].dailyCap
    /\ volume[Owner[c]] + cyc[c].amount <= Profile[Owner[c]].dailyCap + Room(Owner[c])

\* ...and what the recorded ones have: the last of them at most what is left.
Counted(a) ==
  volume[a] = 0 \/ volume[a] + Profile[a].maxTx <= Profile[a].dailyCap + Room(a)

CycleInv ==
  /\ TypeOK
  /\ \A c \in Cycles : cyc[c].attempt \in Attempts /\ SentInOrder(c) /\ Fits(c)
  /\ \A a \in Agents : Counted(a)

(* Numbers of the profiles and of the cycles that are counted.             *)
LEMMA Numbers ==
  ASSUME NEW a \in Agents
  PROVE  /\ Profile[a].maxTx \in Nat /\ Profile[a].dailyCap \in Nat
         /\ IsFiniteSet(Confirmed(a)) /\ Cardinality(Confirmed(a)) \in Nat
         /\ Room(a) \in Nat
<1>1. Profile[a].maxTx \in Nat /\ Profile[a].dailyCap \in Nat
  BY ProfileAssumption DEF ProfileType
<1>2. IsFiniteSet(Confirmed(a))
  BY CyclesAssumption, FS_Subset DEF Confirmed
<1>3. Cardinality(Confirmed(a)) \in Nat
  BY <1>2, FS_CardinalityType
<1> HIDE DEF Confirmed
<1> DEFINE k == Cardinality(Confirmed(a))
           m == Profile[a].maxTx
<1>4. k * m \in Nat
  <2>1. k \in Nat /\ m \in Nat
    BY <1>1, <1>3
  <2> HIDE DEF k, m
  <2> QED
    BY <2>1
<1> QED
  BY <1>1, <1>2, <1>3, <1>4 DEF Room

(* Whatever leaves the confirmed cycles alone leaves the room alone.       *)
LEMMA RoomUnchanged ==
  ASSUME NEW a \in Agents, Confirmed(a)' = Confirmed(a)
  PROVE  Room(a)' = Room(a)
BY DEF Room

(* One more confirmed cycle makes room for one more maximal swap.          *)
LEMMA RoomGrows ==
  ASSUME NEW a \in Agents, NEW c \in Cycles, c \notin Confirmed(a),
         Confirmed(a)' = Confirmed(a) \cup {c}
  PROVE  Room(a)' = Room(a) + Profile[a].maxTx
<1>1. Profile[a].maxTx \in Nat /\ Cardinality(Confirmed(a)) \in Nat
      /\ IsFiniteSet(Confirmed(a))
  BY Numbers
<1>2. Cardinality(Confirmed(a) \cup {c}) = Cardinality(Confirmed(a)) + 1
  BY <1>1, FS_AddElement
<1> DEFINE k == Cardinality(Confirmed(a))
           m == Profile[a].maxTx
<1>3. (k + 1) * m = k * m + m
  <2>1. k \in Nat /\ m \in Nat
    BY <1>1
  <2> HIDE DEF k, m
  <2> QED
    BY <2>1
<1> QED
  BY <1>2, <1>3 DEF Room

(* At the start nothing was sent, permitted or recorded.                   *)
LEMMA CycleInvInit == Init => CycleInv
<1> SUFFICES ASSUME Init PROVE CycleInv
  OBVIOUS
<1>1. NewCycle \in CycleType /\ NewCycle.stage = "idle" /\ NewCycle.attempt = 0
  <2>1. (CHOOSE r \in Requests : TRUE) \in RequestType
    BY DecisionAssumption, RequestsAssumption
  <2> QED
    BY <2>1 DEF NewCycle, CycleType, Stages, Entries
<1>2. PolicyTypeOK
  BY PolicyInitTyped DEF Init
<1>3. TypeOK
  BY <1>1, <1>2 DEF Init, TypeOK
<1>4. ASSUME NEW c \in Cycles
      PROVE  cyc[c].attempt \in Attempts /\ SentInOrder(c) /\ Fits(c)
  <2>1. cyc[c] = NewCycle /\ \A n \in Attempts : tx[<<c, n>>] = "none"
    BY DEF Init
  <2> QED
    BY <1>1, <2>1, RetryAssumption DEF Attempts, SentInOrder, Fits, Permitted, Sending,
                                       Attempting
<1>5. ASSUME NEW a \in Agents PROVE Counted(a)
  BY DEF Init, Counted
<1> QED
  BY <1>3, <1>4, <1>5 DEF CycleInv

-----------------------------------------------------------------------------
(* Steps of a cycle keep the invariant.                                    *)

(* The types, and the number of the attempt.                               *)
LEMMA StepTyped ==
  ASSUME CycleInv, NEW c \in Cycles, CycleStep(c)
  PROVE  TypeOK' /\ \A d \in Cycles : cyc'[d].attempt \in Attempts
<1>1. PICK n \in CycleType : Becomes(c, n) /\ Shape(c, n)
  BY StepShape DEF CycleInv
<1>2. PolicyTypeOK' /\ UNCHANGED <<executed, overlapped, restarts, midnights>>
  BY StepShape DEF CycleInv
<1>3. cyc' \in [Cycles -> CycleType]
  BY <1>1 DEF CycleInv, TypeOK, Becomes
<1>4. Owner[c] \in Agents /\ volume[Owner[c]] + cyc[c].amount \in Nat
  BY OwnerAssumption DEF CycleInv, TypeOK, CycleType
<1>5. volume' \in [Agents -> Nat]
  BY <1>1, <1>4 DEF CycleInv, TypeOK, Shape
<1>6. tx' \in [Cycles \X Attempts -> {"none", "pending", "landed", "dropped"}]
  BY <1>1 DEF CycleInv, TypeOK, Shape, Sends
<1>7. n.attempt \in Attempts
  BY <1>1, RetryAssumption
     DEF CycleInv, Shape, Attempts, GoesOn, GivesUp, Permits, Retries, Succeeds, Keeps
<1>8. \A d \in Cycles : cyc'[d].attempt \in Attempts
  BY <1>1, <1>7 DEF CycleInv, TypeOK, Becomes
<1> QED
  BY <1>2, <1>3, <1>5, <1>6, <1>8 DEF CycleInv, TypeOK

(* What a cycle sends, it sends once per attempt, and only when submitting.*)
LEMMA StepSendsInOrder ==
  ASSUME CycleInv, NEW c \in Cycles, CycleStep(c), NEW d \in Cycles
  PROVE  SentInOrder(d)'
<1>1. PICK n \in CycleType : Becomes(c, n) /\ Shape(c, n)
  BY StepShape DEF CycleInv
<1>2. cyc' = [cyc EXCEPT ![c] = n] /\ cyc \in [Cycles -> CycleType]
  BY <1>1 DEF Becomes, CycleInv, TypeOK
<1>3. cyc[c].attempt \in Attempts /\ SentInOrder(c) /\ SentInOrder(d)
  BY DEF CycleInv
<1>4. tx \in [Cycles \X Attempts -> {"none", "pending", "landed", "dropped"}]
  BY DEF CycleInv, TypeOK
<1>5. UNCHANGED tx \/ Sends(c)
  BY <1>1 DEF Shape
<1>6. CASE d # c
  <2>1. \A i \in Attempts : tx'[<<d, i>>] = tx[<<d, i>>]
    BY <1>3, <1>4, <1>5, <1>6 DEF Sends
  <2>2. cyc'[d] = cyc[d]
    BY <1>2, <1>6
  <2> QED
    BY <1>3, <2>1, <2>2 DEF SentInOrder
<1>7. CASE d = c
  <2>1. cyc'[c] = n
    BY <1>2
  <2>2. \A i \in Attempts : tx'[<<c, i>>] # "none" =>
          tx[<<c, i>>] # "none" \/ (cyc[c].stage = "submit" /\ i = cyc[c].attempt)
    BY <1>3, <1>4, <1>5 DEF Sends
  <2>3. ASSUME NEW i \in Attempts, tx'[<<c, i>>] # "none"
        PROVE  /\ n.stage \in Sending \cup {"done"}
               /\ i <= n.attempt
               /\ n.stage \in {"build", "sign", "cosign", "submit"} => i # n.attempt
    <3>1. /\ cyc[c].stage \in Sending \cup {"done"}
          /\ i <= cyc[c].attempt
          /\ cyc[c].stage \in {"build", "sign", "cosign"} => i # cyc[c].attempt
      BY <1>3, <2>2, <2>3 DEF SentInOrder, Sending, Attempting, Attempts
    <3>2. i \in Nat /\ cyc[c].attempt \in Nat
      BY <1>3, RetryAssumption DEF Attempts
    <3>3. CASE GoesOn(c, n)
      BY <3>1, <3>2, <3>3 DEF GoesOn, Keeps, Ways, Sending, Attempting
    <3>4. CASE GivesUp(c, n) \/ Succeeds(c, n)
      BY <3>1, <3>4 DEF GivesUp, Succeeds, Keeps
    <3>5. CASE Retries(c, n)
      BY <3>1, <3>2, <3>5 DEF Retries, Sending, Attempting
    <3>6. CASE Permits(c, n)
      BY <3>1, <3>6 DEF Permits, Sending, Attempting
    <3> QED
      BY <1>1, <3>3, <3>4, <3>5, <3>6 DEF Shape
  <2> QED
    BY <1>7, <2>1, <2>3 DEF SentInOrder
<1> QED
  BY <1>6, <1>7

(* Recording a swap uses up its own share, and makes room for another.     *)
LEMMA RecordKeepsVolume ==
  ASSUME CycleInv, NEW c \in Cycles, NEW n \in CycleType, Becomes(c, n), Succeeds(c, n),
         volume' = [volume EXCEPT ![Owner[c]] = volume[Owner[c]] + cyc[c].amount]
  PROVE  /\ \A d \in Cycles : Fits(d)'
         /\ \A a \in Agents : Counted(a)'
<1>1. /\ cyc' = [cyc EXCEPT ![c] = n] /\ cyc \in [Cycles -> CycleType]
      /\ volume \in [Agents -> Nat] /\ Owner \in [Cycles -> Agents]
  BY OwnerAssumption DEF Becomes, CycleInv, TypeOK
<1>2. cyc[c].stage = "settle" /\ n.stage = "done" /\ n.entry = "TX_CONFIRMED"
  BY DEF Succeeds
<1>3. cyc[c].amount \in Nat /\ volume[Owner[c]] \in Nat
  BY <1>1 DEF CycleType
<1>4. Fits(c)
  BY DEF CycleInv
<1>5. c \notin Confirmed(Owner[c]) /\ Confirmed(Owner[c])' = Confirmed(Owner[c]) \cup {c}
  BY <1>1, <1>2 DEF Confirmed
<1>6. Room(Owner[c])' = Room(Owner[c]) + Profile[Owner[c]].maxTx
  BY <1>1, <1>5, RoomGrows
<1>7. \A a \in Agents : a # Owner[c] => Confirmed(a)' = Confirmed(a)
  BY <1>1 DEF Confirmed
<1>8. \A a \in Agents : a # Owner[c] => Room(a)' = Room(a) /\ volume'[a] = volume[a]
  BY <1>1, <1>7, RoomUnchanged
<1> DEFINE o == Owner[c]
<1>9. /\ volume'[o] = volume[o] + cyc[c].amount
      /\ volume'[o] <= Profile[o].dailyCap + Room(o)
      /\ cyc[c].amount <= Profile[o].maxTx
  BY <1>1, <1>2, <1>4 DEF Fits, Permitted, Sending
<1>10. /\ Profile[o].maxTx \in Nat /\ Profile[o].dailyCap \in Nat /\ Room(o) \in Nat
  BY <1>1, Numbers
<1>11. \A a \in Agents : Counted(a)'
  <2>1. Counted(o)'
    BY <1>3, <1>6, <1>9, <1>10 DEF Counted
  <2>2. ASSUME NEW a \in Agents, a # o PROVE Counted(a)'
    BY <1>8, <2>2 DEF Counted, CycleInv
  <2> QED
    BY <2>1, <2>2
<1>12. ASSUME NEW d \in Cycles PROVE Fits(d)'
  <2>1. CASE d = c
    BY <1>1, <1>2, <2>1 DEF Fits, Permitted, Sending, Attempting
  <2>2. CASE d # c
    <3>1. cyc'[d] = cyc[d] /\ cyc[d].amount \in Nat /\ Fits(d)
      BY <1>1, <2>2 DEF CycleInv, CycleType
    <3>2. CASE Owner[d] = o
      BY <1>3, <1>6, <1>9, <1>10, <3>1, <3>2 DEF Fits
    <3>3. CASE Owner[d] # o
      BY <1>1, <1>8, <3>1, <3>3 DEF Fits
    <3> QED
      BY <3>2, <3>3
  <2> QED
    BY <2>1, <2>2
<1> QED
  BY <1>11, <1>12

(* No other step of a cycle touches the volume or who is counted.          *)
LEMMA StepKeepsVolume ==
  ASSUME CycleInv, NEW c \in Cycles, CycleStep(c)
  PROVE  /\ \A d \in Cycles : Fits(d)'
         /\ \A a \in Agents : Counted(a)'
<1>1. PICK n \in CycleType : Becomes(c, n) /\ Shape(c, n)
  BY StepShape DEF CycleInv
<1>2. CASE /\ Succeeds(c, n)
           /\ volume' = [volume EXCEPT ![Owner[c]] = volume[Owner[c]] + cyc[c].amount]
  BY <1>1, <1>2, RecordKeepsVolume
<1>3. CASE /\ GoesOn(c, n) \/ Permits(c, n) \/ GivesUp(c, n) \/ Retries(c, n)
           /\ UNCHANGED volume
  <2>1. /\ cyc' = [cyc EXCEPT ![c] = n] /\ cyc \in [Cycles -> CycleType]
        /\ volume \in [Agents -> Nat] /\ Owner \in [Cycles -> Agents]
    BY <1>1, OwnerAssumption DEF Becomes, CycleInv, TypeOK
  <2>2. cyc[c].stage # "done" /\ (n.stage = "done" => n.entry # "TX_CONFIRMED")
    BY <1>3 DEF GoesOn, Permits, GivesUp, Retries, Ways, Attempting, Running, Ended
  <2>3. \A a \in Agents : Confirmed(a)' = Confirmed(a)
    BY <2>1, <2>2 DEF Confirmed
  <2>4. \A a \in Agents : Room(a)' = Room(a)
    BY <2>3, RoomUnchanged
  <2>5. ASSUME NEW a \in Agents PROVE Counted(a)'
    BY <1>3, <2>4 DEF Counted, CycleInv
  <2>6. ASSUME NEW d \in Cycles PROVE Fits(d)'
    <3>1. Fits(d) /\ Owner[d] \in Agents /\ Room(Owner[d])' = Room(Owner[d])
      BY <2>1, <2>4 DEF CycleInv
    <3>2. CASE d # c
      BY <1>3, <2>1, <3>1, <3>2 DEF Fits
    <3>3. CASE d = c
      <4>1. cyc'[c] = n
        BY <2>1
      <4>2. CASE Permits(c, n)
        <5>1. n.amount \in Nat /\ volume[Owner[c]] \in Nat
          BY <2>1 DEF CycleType
        <5>2. /\ Profile[Owner[c]].dailyCap \in Nat /\ Room(Owner[c]) \in Nat
          BY <2>1, Numbers
        <5> QED
          BY <1>3, <3>1, <3>3, <4>1, <4>2, <5>1, <5>2 DEF Fits, Permits
      <4>3. CASE GoesOn(c, n) \/ Retries(c, n) \/ GivesUp(c, n)
        <5>1. n.stage \in Permitted => cyc[c].stage \in Permitted /\ n.amount = cyc[c].amount
          BY <4>3 DEF GoesOn, Retries, GivesUp, Keeps, Ways, Permitted, Sending, Attempting
        <5> QED
          BY <1>3, <3>1, <3>3, <4>1, <5>1 DEF Fits
      <4> QED
        BY <1>3, <4>2, <4>3
    <3> QED
      BY <3>2, <3>3
  <2> QED
    BY <2>5, <2>6
<1> QED
  BY <1>1, <1>2, <1>3 DEF Shape

(* Of an agent without a recorded volume anything permitted still fits.    *)
LEMMA EmptyVolumeFits ==
  ASSUME CycleInv, volume' = [a \in Agents |-> 0],
         \A a \in Agents : Confirmed(a)' = Confirmed(a),
         \A d \in Cycles : cyc'[d].stage \in Permitted => cyc'[d] = cyc[d]
  PROVE  /\ \A d \in Cycles : Fits(d)'
         /\ \A a \in Agents : Counted(a)'
<1>1. ASSUME NEW a \in Agents PROVE volume'[a] = 0 /\ Counted(a)'
  BY DEF Counted
<1>2. ASSUME NEW d \in Cycles PROVE Fits(d)'
  <2>1. /\ Owner[d] \in Agents /\ Fits(d) /\ cyc[d].amount \in Nat
    BY OwnerAssumption DEF CycleInv, TypeOK, CycleType
  <2>2. Room(Owner[d])' = Room(Owner[d])
    BY <2>1, RoomUnchanged
  <2>3. Profile[Owner[d]].dailyCap \in Nat /\ Room(Owner[d]) \in Nat
    BY <2>1, Numbers
  <2> QED
    BY <1>1, <2>1, <2>2, <2>3 DEF Fits
<1> QED
  BY <1>1, <1>2

(* Steps that leave the cycles and the volume alone.                       *)
LEMMA OutsideStep ==
  ASSUME CycleInv, UNCHANGED <<cyc, volume>>, TypeOK',
         \A t \in Cycles \X Attempts : tx'[t] # "none" => tx[t] # "none"
  PROVE  CycleInv'
<1>1. ASSUME NEW d \in Cycles
      PROVE  cyc'[d].attempt \in Attempts /\ SentInOrder(d)' /\ Fits(d)'
  <2>1. cyc[d].attempt \in Attempts /\ SentInOrder(d) /\ Fits(d)
    BY DEF CycleInv
  <2>2. SentInOrder(d)'
    BY <2>1 DEF SentInOrder
  <2>3. Fits(d)'
    BY <2>1 DEF Fits, Room, Confirmed
  <2> QED
    BY <2>1, <2>2, <2>3
<1>2. ASSUME NEW a \in Agents PROVE Counted(a)'
  BY DEF CycleInv, Counted, Room, Confirmed
<1> QED
  BY <1>1, <1>2 DEF CycleInv

(* Every step of the system keeps the invariant.                           *)
LEMMA CycleInvStep ==
  ASSUME CycleInv, [Next]_vars
  PROVE  CycleInv'
<1>1. TypeOK
  BY DEF CycleInv
<1>2. ASSUME NEW c \in Cycles, CycleStep(c) PROVE CycleInv'
  BY <1>2, StepTyped, StepSendsInOrder, StepKeepsVolume DEF CycleInv
<1>3. ASSUME NEW c \in Cycles, Start(c) PROVE CycleInv'
  <2>1. /\ UNCHANGED <<volume, tx>> /\ cyc[c].stage = "idle"
        /\ UNCHANGED <<policyVars, executed, restarts, midnights>> /\ overlapped' \in BOOLEAN
    BY <1>1, <1>3 DEF Start, At, TypeOK
  <2>2. PICK n \in CycleType : Becomes(c, n) /\ Keeps(c, n) /\ n.stage = "sense"
    <3>1. "sense" \in Stages /\ GoTo(c, "sense")
      BY <1>3 DEF Start, Stages
    <3> QED
      BY <1>1, <3>1, GoToBecomes
  <2>3. /\ cyc' = [cyc EXCEPT ![c] = n] /\ cyc \in [Cycles -> CycleType]
    BY <1>1, <2>2 DEF Becomes, TypeOK
  <2>4. TypeOK'
    BY <1>1, <2>1, <2>3 DEF TypeOK, PolicyTypeOK, policyVars
  <2>5. \A a \in Agents : Confirmed(a)' = Confirmed(a)
    BY <2>1, <2>2, <2>3 DEF Confirmed
  <2>6. \A a \in Agents : Room(a)' = Room(a)
    BY <2>5, RoomUnchanged
  <2>7. ASSUME NEW d \in Cycles
        PROVE  cyc'[d].attempt \in Attempts /\ SentInOrder(d)' /\ Fits(d)'
    <3>1. /\ cyc[d].attempt \in Attempts /\ SentInOrder(d) /\ Fits(d)
          /\ Owner[d] \in Agents
      BY OwnerAssumption DEF CycleInv
    <3>2. CASE d = c
      BY <2>1, <2>2, <2>3, <3>1, <3>2
         DEF SentInOrder, Fits, Keeps, Permitted, Sending, Attempting
    <3>3. CASE d # c
      BY <2>1, <2>3, <2>6, <3>1, <3>3 DEF SentInOrder, Fits
    <3> QED
      BY <3>2, <3>3
  <2>8. ASSUME NEW a \in Agents PROVE Counted(a)'
    BY <2>1, <2>6 DEF CycleInv, Counted
  <2> QED
    BY <2>4, <2>7, <2>8 DEF CycleInv
<1>4. ASSUME NEW t \in Cycles \X Attempts, Land(t) PROVE CycleInv'
  <2>1. t[1] \in Cycles /\ Owner[t[1]] \in Agents
    BY OwnerAssumption
  <2>2. executed[Owner[t[1]]] + cyc[t[1]].amount \in Nat
    BY <1>1, <2>1 DEF TypeOK, CycleType
  <2>3. TypeOK'
    BY <1>1, <1>4, <2>2 DEF Land, TypeOK, PolicyTypeOK, policyVars
  <2> QED
    BY <1>1, <1>4, <2>3, OutsideStep DEF Land, TypeOK
<1>5. ASSUME NEW t \in Cycles \X Attempts, Drop(t) PROVE CycleInv'
  <2>1. TypeOK'
    BY <1>1, <1>5 DEF Drop, TypeOK, PolicyTypeOK, policyVars
  <2> QED
    BY <1>1, <1>5, <2>1, OutsideStep DEF Drop, TypeOK
<1>6. CASE Midnight
  <2>1. TypeOK'
    BY <1>1, <1>6 DEF Midnight, TypeOK, PolicyTypeOK, policyVars
  <2>2. \A a \in Agents : Confirmed(a)' = Confirmed(a)
    BY <1>6 DEF Midnight, Confirmed
  <2>3. (\A d \in Cycles : Fits(d)') /\ \A a \in Agents : Counted(a)'
    BY <1>6, <2>2, EmptyVolumeFits DEF Midnight
  <2>4. \A d \in Cycles : cyc'[d].attempt \in Attempts /\ SentInOrder(d)'
    BY <1>6 DEF Midnight, CycleInv, SentInOrder
  <2> QED
    BY <2>1, <2>3, <2>4 DEF CycleInv
<1>7. CASE ProcessRestart
  <2>1. /\ cyc' = [c \in Cycles |-> IF Running(c)
                     THEN [cyc[c] EXCEPT !.stage = "done", !.entry = "LOST"] ELSE cyc[c]]
        /\ volume' = [a \in Agents |-> 0]
        /\ UNCHANGED <<tx, executed, overlapped, midnights>>
    BY <1>7 DEF ProcessRestart
  <2>2. PolicyTypeOK'
    BY <1>1, <1>7, FreshStateTyped DEF ProcessRestart, Restart, TypeOK, PolicyTypeOK
  <2>3. cyc' \in [Cycles -> CycleType]
    BY <1>1, <2>1 DEF TypeOK, CycleType, Stages, Entries
  <2>4. restarts' \in Nat
    <3>1. restarts' = restarts + 1
      BY <1>7 DEF ProcessRestart
    <3> QED
      BY <1>1, <3>1 DEF TypeOK
  <2>5. TypeOK'
    BY <1>1, <2>1, <2>2, <2>3, <2>4 DEF TypeOK
  <2>6. ASSUME NEW d \in Cycles
        PROVE  /\ cyc'[d].attempt = cyc[d].attempt
               /\ cyc'[d].stage \in {cyc[d].stage, "done"}
               /\ cyc'[d].stage \in Permitted => cyc'[d] = cyc[d]
               /\ ~Running(d) => cyc'[d] = cyc[d]
               /\ Running(d) => cyc'[d].stage = "done" /\ cyc'[d].entry = "LOST"
    <3>1. cyc[d] \in CycleType
      BY <1>1 DEF TypeOK
    <3> QED
      BY <2>1, <3>1 DEF CycleType, Running, Permitted, Sending, Attempting
  <2>7. \A a \in Agents : Confirmed(a)' = Confirmed(a)
    BY <2>6 DEF Confirmed, Running, Ended
  <2>8. (\A d \in Cycles : Fits(d)') /\ \A a \in Agents : Counted(a)'
    BY <2>1, <2>6, <2>7, EmptyVolumeFits
  <2>9. ASSUME NEW d \in Cycles PROVE cyc'[d].attempt \in Attempts /\ SentInOrder(d)'
    <3>1. cyc[d].attempt \in Attempts /\ SentInOrder(d)
      BY DEF CycleInv
    <3> QED
      BY <2>1, <2>6, <3>1 DEF SentInOrder
  <2> QED
    BY <2>5, <2>8, <2>9 DEF CycleInv
<1>8. CASE PassTime
  <2>1. TypeOK'
    BY <1>1, <1>8 DEF PassTime, Tick, cycleVars, TypeOK, PolicyTypeOK
  <2> QED
    BY <1>8, <2>1, OutsideStep DEF PassTime, cycleVars
<1>9. CASE UNCHANGED vars
  <2>1. TypeOK'
    BY <1>1, <1>9 DEF vars, policyVars, cycleVars, TypeOK, PolicyTypeOK
  <2> QED
    BY <1>9, <2>1, OutsideStep DEF vars, cycleVars
<1> QED
  BY <1>2, <1>3, <1>4, <1>5, <1>6, <1>7, <1>8, <1>9 DEF Next

(* The invariant holds throughout.                                         *)
THEOREM CycleInvariant == Spec => []CycleInv
<1>1. CycleInv /\ [Next]_vars => CycleInv'
  BY CycleInvStep
<1> QED
  BY <1>1, CycleInvInit, PTL DEF Spec

(* The variables of the cycle keep their types.                            *)
THEOREM CycleTypeCorrect == Spec => []TypeOK
<1>1. CycleInv => TypeOK
  BY DEF CycleInv
<1> QED
  BY <1>1, CycleInvariant, PTL

(* However many cycles of an agent overlap, and whatever they lose in      *)
(* restarts, each takes the recorded volume past the daily cap by at most  *)
(* one maximal swap, the first by none (agent.ts:296, policy-engine.ts:199)*)
THEOREM RecordedOvershootHolds == Spec => []RecordedOvershootBounded
<1>1. CycleInv => RecordedOvershootBounded
  <2> DEFINE mine(a) == {c \in Cycles : Owner[c] = a}
  <2> SUFFICES ASSUME CycleInv, NEW a \in Agents, mine(a) # {}
               PROVE  volume[a] <= Profile[a].dailyCap
                                     + (Cardinality(mine(a)) - 1) * Profile[a].maxTx
    BY DEF RecordedOvershootBounded
  <2> DEFINE k == Cardinality(Confirmed(a))
             j == Cardinality(mine(a))
             m == Profile[a].maxTx
             cap == Profile[a].dailyCap
  <2>1. Confirmed(a) \subseteq mine(a) /\ IsFiniteSet(mine(a))
    BY CyclesAssumption, FS_Subset DEF Confirmed
  <2>2. k <= j /\ k \in Nat /\ j \in Nat /\ j # 0
    BY <2>1, FS_Subset, FS_CardinalityType, FS_EmptySet
  <2>3. m \in Nat /\ cap \in Nat /\ volume[a] \in Nat /\ Counted(a)
    BY Numbers DEF CycleInv, TypeOK
  <2>4. volume[a] = 0 \/ volume[a] + m <= cap + k * m
    BY <2>3 DEF Counted, Room
  <2> DEFINE v == volume[a]
  <2> HIDE DEF k, j, m, cap, mine, v
  <2>5. k * m <= j * m
    BY <2>2, <2>3
  <2>6. (j - 1) * m = j * m - m /\ (j - 1) * m \in Nat /\ k * m \in Nat /\ j * m \in Nat
    BY <2>2, <2>3
  <2>7. v <= cap + (j - 1) * m
    BY <2>3, <2>4, <2>5, <2>6 DEF v
  <2> QED
    BY <2>7 DEF v, k, j, m, cap, mine
<1> QED
  BY <1>1, CycleInvariant, PTL

-----------------------------------------------------------------------------
(* Every cycle ends.                                                       *)

Place(stage) == CHOOSE i \in DOMAIN Course : Course[i] = stage

(* Each await has one place in the course of a cycle.                      *)
LEMMA Places ==
  /\ Place("sense") = 1 /\ Place("think") = 2 /\ Place("requote") = 3
  /\ Place("audit") = 4 /\ Place("police") = 5 /\ Place("anchor") = 6
  /\ Place("build") = 7 /\ Place("sign") = 8 /\ Place("cosign") = 9
  /\ Place("submit") = 10 /\ Place("confirm") = 11 /\ Place("settle") = 12
<1>1. DOMAIN Course = 1..12
  BY DEF Course
<1>2. ASSUME NEW i \in 1..12, NEW j \in 1..12, Course[i] = Course[j]
      PROVE  i = j
  BY <1>2 DEF Course
<1>3. ASSUME NEW j \in 1..12 PROVE Place(Course[j]) = j
  BY <1>1, <1>2 DEF Place
<1>4. /\ Course[1] = "sense" /\ Course[2] = "think" /\ Course[3] = "requote"
      /\ Course[4] = "audit" /\ Course[5] = "police" /\ Course[6] = "anchor"
      /\ Course[7] = "build" /\ Course[8] = "sign" /\ Course[9] = "cosign"
      /\ Course[10] = "submit" /\ Course[11] = "confirm" /\ Course[12] = "settle"
  BY DEF Course
<1> QED
  BY <1>3, <1>4

(* A step of a cycle ends it or brings it nearer to its end.               *)
LEMMA StepShortens ==
  ASSUME CycleInv, NEW c \in Cycles, CycleStep(c)
  PROVE  /\ Running(c)
         /\ Running(c)' => AwaitsLeft(c)' < AwaitsLeft(c)
         /\ \A d \in Cycles \ {c} : cyc'[d] = cyc[d]
<1>1. PICK n \in CycleType : Becomes(c, n) /\ Shape(c, n)
  BY StepShape DEF CycleInv
<1>2. cyc'[c] = n /\ \A d \in Cycles \ {c} : cyc'[d] = cyc[d]
  BY <1>1 DEF Becomes, CycleInv, TypeOK
<1>3. cyc[c].attempt \in Nat /\ MAX_RETRY \in Nat
  BY RetryAssumption DEF CycleInv, Attempts
<1>4. Len(Course) = 12
  BY DEF Course
<1>5. /\ AwaitsLeft(c) = 12 - Place(cyc[c].stage) + 6 * (MAX_RETRY - cyc[c].attempt)
      /\ AwaitsLeft(c)' = 12 - Place(n.stage) + 6 * (MAX_RETRY - n.attempt)
  BY <1>2, <1>4 DEF AwaitsLeft, Place
<1>6. CASE GoesOn(c, n)
  <2>1. Running(c)
    BY <1>6 DEF GoesOn, Ways, Running, Ended
  <2>2. /\ Place(cyc[c].stage) \in 1..12 /\ Place(n.stage) \in 1..12
        /\ Place(cyc[c].stage) < Place(n.stage)
    BY <1>6, Places DEF GoesOn, Ways
  <2> QED
    BY <1>2, <1>3, <1>5, <1>6, <2>1, <2>2 DEF GoesOn, Keeps
<1>7. CASE Permits(c, n)
  BY <1>2, <1>3, <1>5, <1>7, Places DEF Permits, Running, Ended
<1>8. CASE Retries(c, n)
  <2>1. Running(c)
    BY <1>8 DEF Retries, Attempting, Running, Ended
  <2>2. Place(cyc[c].stage) \in 7..11 /\ Place(n.stage) = 7
    BY <1>8, Places DEF Retries, Attempting
  <2> QED
    BY <1>2, <1>3, <1>5, <1>8, <2>1, <2>2 DEF Retries
<1>9. CASE GivesUp(c, n) \/ Succeeds(c, n)
  BY <1>2, <1>9 DEF GivesUp, Succeeds, Running, Ended
<1> QED
  BY <1>1, <1>6, <1>7, <1>8, <1>9 DEF Shape

(* Whatever a running cycle does brings it nearer to its end, and a cycle  *)
(* that ended stays ended, for any number of retries (agent.ts:454).       *)
THEOREM CycleEndsHolds == Spec => CycleEnds
<1> DEFINE Nearer(c) ==
      /\ Running(c) /\ Running(c)' => cyc'[c] = cyc[c] \/ AwaitsLeft(c)' < AwaitsLeft(c)
      /\ cyc[c].stage = "done" => cyc'[c] = cyc[c]
<1>1. ASSUME CycleInv, [Next]_vars PROVE \A c \in Cycles : Nearer(c)
  <2> SUFFICES ASSUME NEW c \in Cycles PROVE Nearer(c)
    OBVIOUS
  <2>1. cyc \in [Cycles -> CycleType]
    BY <1>1 DEF CycleInv, TypeOK
  <2>2. ASSUME NEW d \in Cycles, CycleStep(d) PROVE Nearer(c)
    BY <1>1, <2>2, StepShortens DEF Running, Ended
  <2>3. ASSUME NEW d \in Cycles, Start(d) PROVE Nearer(c)
    BY <2>1, <2>3 DEF Start, At, GoTo, Running, Ended
  <2>4. CASE ProcessRestart
    BY <2>1, <2>4 DEF ProcessRestart, Running, Ended, CycleType
  <2>5. CASE UNCHANGED cyc
    BY <2>5
  <2> QED
    BY <1>1, <2>2, <2>3, <2>4, <2>5
       DEF Next, Land, Drop, Midnight, PassTime, vars, cycleVars
<1>2. CycleInv /\ [Next]_vars => [\A c \in Cycles : Nearer(c)]_vars
  BY <1>1
<1> QED
  BY <1>2, CycleInvariant, PTL DEF Spec, CycleEnds

-----------------------------------------------------------------------------
(* The pipeline implements the air gap.                                    *)

InFlight == {"pending", "landed", "dropped"}
Gates    == [c \in Cycles |-> GateOf(cyc[c].stage)]
Amounts  == [c \in Cycles |-> cyc[c].amount]
Swap(c, n) == [cycle |-> c, attempt |-> n, amount |-> cyc[c].amount]

(* The layers a cycle has behind it at each of its stages.                 *)
LEMMA GateValues ==
  /\ GateOf("idle") = 0 /\ GateOf("sense") = 0 /\ GateOf("think") = 0
  /\ GateOf("requote") = 1 /\ GateOf("audit") = 1
  /\ GateOf("police") = 2 /\ GateOf("anchor") = 3
  /\ GateOf("build") = 4 /\ GateOf("sign") = 4 /\ GateOf("cosign") = 5
  /\ GateOf("submit") = 6 /\ GateOf("confirm") = 6 /\ GateOf("settle") = 6
  /\ GateOf("done") = 7
BY DEF GateOf

(* The set of swaps depends on what was sent and on the amounts sent.      *)
LEMMA SameSwaps ==
  ASSUME NEW S,
         \A u \in Cycles \X Attempts :
           /\ tx'[u] \in S <=> tx[u] \in S
           /\ tx[u] \in S => cyc'[u[1]].amount = cyc[u[1]].amount
  PROVE  SwapsIn(S)' = SwapsIn(S)
BY DEF SwapsIn

(* One transaction that enters a state adds one swap.                      *)
LEMMA OneMoreSwap ==
  ASSUME NEW S, NEW c \in Cycles, NEW i \in Attempts,
         \A u \in Cycles \X Attempts :
           /\ tx'[u] \in S <=> tx[u] \in S \/ u = <<c, i>>
           /\ cyc'[u[1]].amount = cyc[u[1]].amount
  PROVE  SwapsIn(S)' = SwapsIn(S) \cup {Swap(c, i)}
<1>1. /\ <<c, i>> \in Cycles \X Attempts
      /\ <<c, i>>[1] = c /\ <<c, i>>[2] = i
  OBVIOUS
<1>2. ASSUME NEW s \in SwapsIn(S)' PROVE s \in SwapsIn(S) \cup {Swap(c, i)}
  <2>1. PICK u \in Cycles \X Attempts :
          tx'[u] \in S /\ s = [cycle |-> u[1], attempt |-> u[2],
                                amount |-> cyc'[u[1]].amount]
    BY <1>2 DEF SwapsIn
  <2>2. cyc'[u[1]].amount = cyc[u[1]].amount
    OBVIOUS
  <2>3. CASE u = <<c, i>>
    BY <1>1, <2>1, <2>2, <2>3 DEF Swap
  <2>4. CASE u # <<c, i>>
    BY <2>1, <2>2, <2>4 DEF SwapsIn
  <2> QED
    BY <2>3, <2>4
<1>3. ASSUME NEW s \in SwapsIn(S) \cup {Swap(c, i)} PROVE s \in SwapsIn(S)'
  <2>1. CASE s \in SwapsIn(S)
    BY <2>1 DEF SwapsIn
  <2>2. CASE s = Swap(c, i)
    BY <1>1, <2>2 DEF SwapsIn, Swap
  <2> QED
    BY <1>3, <2>1, <2>2
<1> QED
  BY <1>2, <1>3

(* A swap in a set is a transaction in one of its states.                  *)
LEMMA SwapIsSent ==
  ASSUME NEW S, NEW c \in Cycles, NEW i \in Attempts, NEW s \in SwapsIn(S),
         s.cycle = c, s.attempt = i
  PROVE  tx[<<c, i>>] \in S
<1>1. PICK u \in Cycles \X Attempts :
        tx[u] \in S /\ s = [cycle |-> u[1], attempt |-> u[2], amount |-> cyc[u[1]].amount]
  BY DEF SwapsIn
<1>2. u = <<c, i>>
  BY <1>1
<1> QED
  BY <1>1, <1>2

(* A step of one cycle moves its gate alone.                               *)
LEMMA GateMoves ==
  ASSUME TypeOK, NEW c \in Cycles, NEW n \in CycleType, Becomes(c, n)
  PROVE  /\ Gates' = [Gates EXCEPT ![c] = GateOf(n.stage)]
         /\ Amounts' = [Amounts EXCEPT ![c] = n.amount]
         /\ Gates[c] = GateOf(cyc[c].stage)
         /\ n.amount = cyc[c].amount => /\ UNCHANGED Amounts
                                        /\ \A d \in Cycles : cyc'[d].amount = cyc[d].amount
BY DEF TypeOK, Becomes, Gates, Amounts

(* A step of a cycle passes one layer, falls back to the signatures, sends *)
(* what was permitted, closes the cycle, or does nothing the air gap sees. *)
LEMMA StepRespectsAirGap ==
  ASSUME CycleInv, NEW c \in Cycles, CycleStep(c)
  PROVE  Abstract!AirGapNext \/ UNCHANGED Abstract!airGapVars
<1>1. PICK n \in CycleType : Becomes(c, n) /\ Shape(c, n)
  BY StepShape DEF CycleInv
<1>2. TypeOK /\ cyc[c].attempt \in Attempts /\ SentInOrder(c)
  BY DEF CycleInv
<1>3. /\ Gates' = [Gates EXCEPT ![c] = GateOf(n.stage)]
      /\ Amounts' = [Amounts EXCEPT ![c] = n.amount]
      /\ Gates[c] = GateOf(cyc[c].stage)
      /\ n.amount = cyc[c].amount => /\ UNCHANGED Amounts
                                     /\ \A d \in Cycles : cyc'[d].amount = cyc[d].amount
  BY <1>1, <1>2, GateMoves
<1>4. Gates \in [Cycles -> Int] /\ Amounts \in [Cycles -> Nat] /\ Amounts[c] = cyc[c].amount
  BY <1>2, GateValues DEF Gates, Amounts, TypeOK, CycleType, Stages
<1>5. CASE Permits(c, n)
  <2>1. tx' = tx
    BY <1>1, <1>5 DEF Shape, Permits, Sends, Succeeds
  <2>2. \A i \in Attempts : tx[<<c, i>>] = "none"
    BY <1>2, <1>5 DEF SentInOrder, Permits, Sending, Attempting
  <2>3. \A u \in Cycles \X Attempts :
          tx[u] # "none" => cyc'[u[1]].amount = cyc[u[1]].amount
    BY <1>1, <1>2, <2>2 DEF Becomes, TypeOK
  <2>4. SwapsIn(InFlight)' = SwapsIn(InFlight)
    BY <2>1, <2>3, SameSwaps DEF InFlight
  <2>5. SwapsIn({"landed"})' = SwapsIn({"landed"})
    BY <2>1, <2>3, SameSwaps
  <2>6. Gates[c] = 2 /\ Gates' = [Gates EXCEPT ![c] = 3]
    BY <1>3, <1>5, GateValues DEF Permits
  <2>7. Amounts'[c] = n.amount /\ n.amount \in Nat
    BY <1>3, <1>4 DEF CycleType
  <2>8. Amounts'[c] \in Nat /\ Amounts' = [Amounts EXCEPT ![c] = Amounts'[c]]
    BY <1>3, <2>7
  <2>9. Abstract!PassTo(c, Abstract!Permitted)
    BY <2>6 DEF Abstract!PassTo, Abstract!Permitted, Gates
  <2>10. Abstract!Permit(c)
    BY <2>4, <2>5, <2>8, <2>9 DEF Abstract!Permit, Amounts, InFlight
  <2> QED
    BY <2>10 DEF Abstract!AirGapNext
<1>6. CASE n.amount = cyc[c].amount /\ UNCHANGED tx /\ ~Permits(c, n)
  <2>1. UNCHANGED Amounts /\ \A d \in Cycles : cyc'[d].amount = cyc[d].amount
    BY <1>3, <1>6
  <2>2. SwapsIn(InFlight)' = SwapsIn(InFlight) /\ SwapsIn({"landed"})' = SwapsIn({"landed"})
    BY <1>6, <2>1, SameSwaps
  <2>3. CASE GoesOn(c, n)
    <3>1. \/ Gates[c] = GateOf(n.stage)
          \/ Gates[c] \in {0, 1, 3, 4, 5} /\ GateOf(n.stage) = Gates[c] + 1
      BY <1>3, <2>3, GateValues DEF GoesOn, Ways
    <3>2. CASE Gates[c] = GateOf(n.stage)
      <4>1. UNCHANGED Gates
        BY <1>3, <1>4, <3>2
      <4> QED
        BY <2>1, <2>2, <4>1 DEF Abstract!airGapVars, Gates, Amounts, InFlight
    <3>3. CASE Gates[c] \in {0, 1, 3, 4, 5} /\ GateOf(n.stage) = Gates[c] + 1
      <4> DEFINE layer == Gates[c] + 1
      <4>1. /\ layer \in {1, 2, 4, 5, 6} /\ Gates[c] = layer - 1
            /\ Gates' = [Gates EXCEPT ![c] = layer]
        BY <1>3, <3>3
      <4> HIDE DEF layer
      <4>2. Abstract!PassTo(c, layer)
        BY <4>1 DEF Abstract!PassTo, Gates
      <4>3. \/ Abstract!Propose(c) \/ Abstract!Audit(c) \/ Abstract!Anchor(c)
            \/ Abstract!Sign(c) \/ Abstract!Cosign(c)
        BY <2>1, <2>2, <4>1, <4>2
           DEF Abstract!Propose, Abstract!Audit, Abstract!Anchor, Abstract!Sign,
               Abstract!Cosign, Abstract!Proposed, Abstract!Audited, Abstract!Anchored,
               Abstract!Signed, Abstract!Cosigned, Amounts, InFlight
      <4> QED
        BY <4>3 DEF Abstract!AirGapNext
    <3> QED
      BY <3>1, <3>2, <3>3
  <2>4. CASE GivesUp(c, n) \/ Succeeds(c, n)
    <3>1. Gates' = [Gates EXCEPT ![c] = 7]
      BY <1>3, <2>4, GateValues DEF GivesUp, Succeeds
    <3>2. Abstract!Close(c)
      BY <2>1, <2>2, <3>1 DEF Abstract!Close, Abstract!Closed, Gates, Amounts, InFlight
    <3> QED
      BY <3>2 DEF Abstract!AirGapNext
  <2>5. CASE Retries(c, n)
    <3>1. Gates[c] \in {4, 5, 6} /\ Gates' = [Gates EXCEPT ![c] = 4]
      BY <1>3, <2>5, GateValues DEF Retries, Attempting
    <3>2. Abstract!Retry(c)
      BY <2>1, <2>2, <3>1 DEF Abstract!Retry, Abstract!Anchored, Abstract!Signed,
                              Abstract!Cosigned, Gates, Amounts, InFlight
    <3> QED
      BY <3>2 DEF Abstract!AirGapNext
  <2> QED
    BY <1>1, <1>6, <2>3, <2>4, <2>5 DEF Shape
<1>7. CASE Sends(c) /\ (GoesOn(c, n) \/ GivesUp(c, n) \/ Retries(c, n))
  <2> DEFINE i == cyc[c].attempt
  <2>1. n.amount = cyc[c].amount
    BY <1>7 DEF GoesOn, GivesUp, Retries, Keeps
  <2>2. UNCHANGED Amounts /\ \A d \in Cycles : cyc'[d].amount = cyc[d].amount
    BY <1>3, <2>1
  <2>3. tx[<<c, i>>] = "none" /\ cyc[c].stage = "submit"
    BY <1>2, <1>7 DEF SentInOrder, Sends
  <2>4. /\ tx' = [tx EXCEPT ![<<c, i>>] = "pending"]
        /\ tx \in [Cycles \X Attempts -> {"none", "pending", "landed", "dropped"}]
    BY <1>2, <1>7 DEF Sends, TypeOK
  <2>5. \A u \in Cycles \X Attempts :
          /\ tx'[u] \in InFlight <=> tx[u] \in InFlight \/ u = <<c, i>>
          /\ tx'[u] \in {"landed"} <=> tx[u] \in {"landed"}
    BY <2>3, <2>4 DEF InFlight
  <2>6. SwapsIn(InFlight)' = SwapsIn(InFlight) \cup {Swap(c, i)}
    BY <1>2, <2>2, <2>5, OneMoreSwap
  <2>7. SwapsIn({"landed"})' = SwapsIn({"landed"})
    BY <2>2, <2>5, SameSwaps
  <2>8. \A s \in SwapsIn(InFlight) : <<s.cycle, s.attempt>> # <<c, i>>
    BY <1>2, <2>3, SwapIsSent DEF InFlight
  <2>9. Gates[c] = 6 /\ GateOf(n.stage) \in {4, 6, 7}
    BY <1>3, <1>7, <2>3, GateValues DEF GoesOn, GivesUp, Retries, Ways
  <2>10. Swap(c, i) = [cycle |-> c, attempt |-> i, amount |-> Amounts[c]]
    BY <1>4 DEF Swap
  <2>11. Abstract!Send(c, i)
    BY <1>3, <2>2, <2>6, <2>7, <2>8, <2>9, <2>10
       DEF Abstract!Send, Abstract!Anchored, Abstract!Cosigned, Abstract!Closed,
           Gates, Amounts, InFlight
  <2> QED
    BY <1>2, <2>11 DEF Abstract!AirGapNext
<1>8. n.amount = cyc[c].amount \/ Permits(c, n)
  BY <1>1 DEF Shape, GoesOn, GivesUp, Retries, Succeeds, Keeps
<1> QED
  BY <1>1, <1>5, <1>6, <1>7, <1>8 DEF Shape

(* No swap reaches the network before every layer has passed it, in order, *)
(* nor with another amount than the policy's; a failed attempt signs again *)
(* and a cycle that ended never sends, for any number of cycles, overlaps, *)
(* retries and restarts (backend/README.md, the seven layers).             *)
THEOREM ImplementsAirGapHolds == Spec => ImplementsAirGap
<1>1. Init => Abstract!AirGapInit
  <2> SUFFICES ASSUME Init PROVE Abstract!AirGapInit
    OBVIOUS
  <2>1. \A c \in Cycles : cyc[c].stage = "idle" /\ cyc[c].amount = 0
    BY DEF Init, NewCycle
  <2>2. [c \in Cycles |-> GateOf(cyc[c].stage)] = [c \in Cycles |-> 0]
    BY <2>1, GateValues
  <2>3. [c \in Cycles |-> cyc[c].amount] = [c \in Cycles |-> 0]
    BY <2>1
  <2>4. SwapsIn(InFlight) = {} /\ SwapsIn({"landed"}) = {}
    BY DEF Init, SwapsIn, InFlight
  <2> QED
    BY <2>2, <2>3, <2>4 DEF Abstract!AirGapInit, InFlight
<1>2. ASSUME CycleInv, [Next]_vars
      PROVE  Abstract!AirGapNext \/ UNCHANGED Abstract!airGapVars
  <2>1. TypeOK
    BY <1>2 DEF CycleInv
  <2>2. ASSUME NEW c \in Cycles, CycleStep(c)
        PROVE  Abstract!AirGapNext \/ UNCHANGED Abstract!airGapVars
    BY <1>2, <2>2, StepRespectsAirGap
  <2>3. ASSUME UNCHANGED <<cyc, tx>> PROVE UNCHANGED Abstract!airGapVars
    BY <2>3 DEF Abstract!airGapVars, SwapsIn
  <2>4. ASSUME NEW c \in Cycles, Start(c) PROVE UNCHANGED Abstract!airGapVars
    <3>1. "sense" \in Stages /\ GoTo(c, "sense") /\ UNCHANGED tx /\ cyc[c].stage = "idle"
      BY <2>4 DEF Start, At, Stages
    <3>2. PICK n \in CycleType : Becomes(c, n) /\ Keeps(c, n) /\ n.stage = "sense"
      BY <2>1, <3>1, GoToBecomes
    <3>3. /\ Gates' = [Gates EXCEPT ![c] = Gates[c]]
          /\ UNCHANGED Amounts /\ \A d \in Cycles : cyc'[d].amount = cyc[d].amount
      BY <2>1, <3>1, <3>2, GateMoves, GateValues DEF Keeps
    <3>4. UNCHANGED Gates
      BY <3>3 DEF Gates
    <3>5. SwapsIn(InFlight)' = SwapsIn(InFlight) /\ SwapsIn({"landed"})' = SwapsIn({"landed"})
      BY <3>1, <3>3, SameSwaps
    <3> QED
      BY <3>3, <3>4, <3>5 DEF Abstract!airGapVars, Gates, Amounts, InFlight
  <2>5. ASSUME NEW t \in Cycles \X Attempts, Land(t) PROVE Abstract!AirGapNext
    <3> DEFINE c == t[1]
               i == t[2]
    <3>1. c \in Cycles /\ i \in Attempts /\ t = <<c, i>> /\ tx[<<c, i>>] = "pending"
      BY <2>5 DEF Land
    <3> HIDE DEF c, i
    <3>2. UNCHANGED cyc /\ tx' = [tx EXCEPT ![<<c, i>>] = "landed"]
      BY <2>5, <3>1 DEF Land
    <3>3. \A u \in Cycles \X Attempts :
            /\ tx'[u] \in InFlight <=> tx[u] \in InFlight
            /\ tx'[u] \in {"landed"} <=> tx[u] \in {"landed"} \/ u = <<c, i>>
      BY <2>1, <3>1, <3>2 DEF InFlight, TypeOK
    <3>4. SwapsIn(InFlight)' = SwapsIn(InFlight)
      BY <3>2, <3>3, SameSwaps
    <3>5. SwapsIn({"landed"})' = SwapsIn({"landed"}) \cup {Swap(c, i)}
      BY <3>1, <3>2, <3>3, OneMoreSwap
    <3>6. Swap(c, i) \in SwapsIn(InFlight)
      BY <3>1 DEF SwapsIn, Swap, InFlight
    <3>7. Swap(c, i) \notin SwapsIn({"landed"})
      <4>1. Swap(c, i).cycle = c /\ Swap(c, i).attempt = i
        BY DEF Swap
      <4> QED
        BY <3>1, <4>1, SwapIsSent
    <3>8. Abstract!Execute(Swap(c, i))
      BY <3>2, <3>4, <3>5, <3>6, <3>7 DEF Abstract!Execute, InFlight
    <3> QED
      BY <3>6, <3>8 DEF Abstract!AirGapNext, InFlight
  <2>6. ASSUME NEW t \in Cycles \X Attempts, Drop(t)
        PROVE  UNCHANGED Abstract!airGapVars
    <3>1. UNCHANGED cyc /\ tx[t] = "pending" /\ tx' = [tx EXCEPT ![t] = "dropped"]
      BY <2>6 DEF Drop
    <3>2. \A u \in Cycles \X Attempts :
            /\ tx'[u] \in InFlight <=> tx[u] \in InFlight
            /\ tx'[u] \in {"landed"} <=> tx[u] \in {"landed"}
      BY <2>1, <3>1 DEF InFlight, TypeOK
    <3>3. SwapsIn(InFlight)' = SwapsIn(InFlight) /\ SwapsIn({"landed"})' = SwapsIn({"landed"})
      BY <3>1, <3>2, SameSwaps
    <3> QED
      BY <3>1, <3>3 DEF Abstract!airGapVars, InFlight
  <2>7. CASE ProcessRestart
    <3> DEFINE running == {c \in Cycles : Running(c)}
    <3>1. /\ UNCHANGED tx
          /\ cyc' = [c \in Cycles |-> IF Running(c)
                       THEN [cyc[c] EXCEPT !.stage = "done", !.entry = "LOST"] ELSE cyc[c]]
      BY <2>7 DEF ProcessRestart
    <3>2. ASSUME NEW c \in Cycles
          PROVE  /\ cyc'[c].amount = cyc[c].amount
                 /\ GateOf(cyc'[c].stage) = IF c \in running THEN 7 ELSE GateOf(cyc[c].stage)
      <4>1. cyc[c] \in CycleType
        BY <2>1 DEF TypeOK
      <4> QED
        BY <3>1, <4>1, GateValues DEF CycleType
    <3>3. Gates' = [c \in Cycles |-> IF c \in running THEN 7 ELSE Gates[c]]
      BY <3>2 DEF Gates
    <3>4. UNCHANGED Amounts
      BY <3>2 DEF Amounts
    <3>5. SwapsIn(InFlight)' = SwapsIn(InFlight) /\ SwapsIn({"landed"})' = SwapsIn({"landed"})
      BY <3>1, <3>2, SameSwaps
    <3>6. running \in SUBSET Cycles
      OBVIOUS
    <3> HIDE DEF running
    <3>7. Abstract!Crash
      BY <3>3, <3>4, <3>5, <3>6 DEF Abstract!Crash, Abstract!Closed, Gates, Amounts, InFlight
    <3> QED
      BY <3>7 DEF Abstract!AirGapNext
  <2> QED
    BY <1>2, <2>2, <2>3, <2>4, <2>5, <2>6, <2>7
       DEF Next, Midnight, PassTime, vars, cycleVars
<1>3. CycleInv /\ [Next]_vars => [Abstract!AirGapNext]_(Abstract!airGapVars)
  BY <1>2
<1> QED
  BY <1>1, <1>3, CycleInvariant, PTL DEF Spec, ImplementsAirGap, Abstract!AirGapSpec


-----------------------------------------------------------------------------
(***************************************************************************)
(* The audit log against the chain: what it counts has been executed, and  *)
(* as long as every executed swap is counted once, the daily cap bounds    *)
(* what is executed.  The swaps that were executed and are not counted are *)
(* owed: the recorded volume and what is owed never exceed what is         *)
(* executed.  A sum is the number of pairs of a cycle and one of its       *)
(* units.                                                                  *)
(***************************************************************************)
Uncounted(a) ==
  {c \in Cycles : Owner[c] = a /\ LandedOf(c) # {} /\ cyc[c].entry # "TX_CONFIRMED"}

Units(c) == {c} \X (1..cyc[c].amount)

Owed(a) == {u \in Cycles \X Nat : u[1] \in Uncounted(a) /\ u[2] \in 1..cyc[u[1]].amount}

Settled(c) ==
  /\ cyc[c].stage = "settle" => tx[<<c, cyc[c].attempt>>] = "landed"
  /\ cyc[c].entry = "TX_CONFIRMED" => cyc[c].stage = "done" /\ LandedOf(c) # {}

BookInv ==
  /\ \A c \in Cycles : Settled(c)
  /\ midnights = 0 =>
       \A a \in Agents : IsFiniteSet(Owed(a)) /\ volume[a] + Cardinality(Owed(a)) <= executed[a]

(* A cycle has a new entry only when it ends, and settles only what has    *)
(* landed.                                                                 *)
LEMMA StepEntry ==
  ASSUME TypeOK, NEW c \in Cycles, CycleStep(c)
  PROVE  /\ cyc'[c].stage = "done" \/ cyc'[c].entry = cyc[c].entry
         /\ cyc'[c].stage = "settle" =>
              /\ tx[<<c, cyc[c].attempt>>] = "landed" /\ UNCHANGED tx
              /\ cyc'[c].attempt = cyc[c].attempt
<1>1. cyc \in [Cycles -> CycleType] /\ cyc[c] \in CycleType
  BY DEF TypeOK
<1>2. ASSUME NEW s \in Stages, GoTo(c, s)
      PROVE  cyc'[c].stage = s /\ cyc'[c].entry = cyc[c].entry /\ cyc'[c].attempt = cyc[c].attempt
  BY <1>1, <1>2 DEF GoTo, CycleType
<1>3. ASSUME NEW e, EndWith(c, e) PROVE cyc'[c].stage = "done"
  BY <1>1, <1>3 DEF EndWith, CycleType
<1>4. ASSUME NEW alt, AttemptFails(c, alt)
      PROVE  /\ cyc'[c].stage = "done" \/ cyc'[c].entry = cyc[c].entry
             /\ cyc'[c].stage # "settle"
  <2>1. CASE cyc[c].attempt < MAX_RETRY
    <3>1. cyc' = [cyc EXCEPT ![c].attempt = @ + 1, ![c].stage = "build"]
      BY <1>4, <2>1 DEF AttemptFails
    <3> QED
      BY <1>1, <3>1 DEF CycleType
  <2>2. CASE ~(cyc[c].attempt < MAX_RETRY)
    <3>1. EndWith(c, IF alt THEN "DEVNET_ALT_SKIP" ELSE "TX_FAILED")
      BY <1>4, <2>2 DEF AttemptFails
    <3> QED
      BY <1>3, <3>1
  <2> QED
    BY <2>1, <2>2
<1>5. {"think", "police", "build", "sign", "cosign", "submit", "confirm", "settle"} \subseteq Stages
  BY DEF Stages
<1>6. CASE Sense(c) \/ AnchorProof(c)
  BY <1>2, <1>3, <1>5, <1>6 DEF Sense, AnchorProof
<1>7. CASE Think(c)
  <2>1. CASE \E r \in Requests :
          cyc' = [cyc EXCEPT ![c].req = r,
                             ![c].stage = IF r.decision = "SWAP" THEN "requote" ELSE "audit"]
    BY <1>1, <2>1 DEF CycleType
  <2> QED
    BY <1>3, <1>7, <2>1 DEF Think
<1>8. CASE Requote(c)
  BY <1>1, <1>8 DEF Requote, CycleType
<1>9. CASE GuardianAudit(c)
  <2>1. CASE \E lower \in {0, cyc[c].req.amount \div 2} :
          cyc' = [cyc EXCEPT ![c].req.amount = lower, ![c].modified = lower,
                             ![c].stage = "police"]
    BY <1>1, <2>1 DEF CycleType
  <2> QED
    BY <1>2, <1>3, <1>5, <1>9, <2>1 DEF GuardianAudit
<1>10. CASE Police(c)
  <2>1. CASE cyc' = [cyc EXCEPT ![c].amount = result'[Owner[c]].amount, ![c].stage = "anchor"]
    BY <1>1, <2>1 DEF CycleType
  <2> QED
    BY <1>3, <1>10, <2>1 DEF Police
<1>11. CASE Build(c) \/ SignInVault(c) \/ KoraCosign(c) \/ Submit(c)
  BY <1>2, <1>4, <1>5, <1>11 DEF Build, SignInVault, KoraCosign, Submit
<1>12. CASE Confirm(c)
  BY <1>2, <1>4, <1>5, <1>12 DEF Confirm, Private
<1>13. CASE Settle(c)
  BY <1>3, <1>13 DEF Settle
<1> QED
  BY <1>6, <1>7, <1>8, <1>9, <1>10, <1>11, <1>12, <1>13 DEF CycleStep

(* No step of a cycle lands or takes back a swap, or changes the amount of *)
(* one that has landed.                                                    *)
LEMMA StepKeepsLanded ==
  ASSUME CycleInv, NEW c \in Cycles, CycleStep(c)
  PROVE  \A d \in Cycles : /\ LandedOf(d)' = LandedOf(d)
                           /\ LandedOf(d) # {} => cyc'[d].amount = cyc[d].amount
<1>1. PICK n \in CycleType : Becomes(c, n) /\ Shape(c, n)
  BY StepShape DEF CycleInv
<1>2. /\ cyc' = [cyc EXCEPT ![c] = n] /\ cyc \in [Cycles -> CycleType]
      /\ tx \in [Cycles \X Attempts -> {"none", "pending", "landed", "dropped"}]
      /\ cyc[c].attempt \in Attempts /\ SentInOrder(c)
  BY <1>1 DEF Becomes, CycleInv, TypeOK
<1>3. UNCHANGED tx \/ Sends(c)
  BY <1>1 DEF Shape
<1>4. cyc[c].stage = "submit" => tx[<<c, cyc[c].attempt>>] = "none"
  BY <1>2 DEF SentInOrder
<1>5. \A d \in Cycles, i \in Attempts : tx'[<<d, i>>] = "landed" <=> tx[<<d, i>>] = "landed"
  BY <1>2, <1>3, <1>4 DEF Sends
<1>6. ASSUME NEW d \in Cycles PROVE LandedOf(d)' = LandedOf(d)
  BY <1>5 DEF LandedOf
<1>7. ASSUME NEW d \in Cycles, LandedOf(d) # {} PROVE cyc'[d].amount = cyc[d].amount
  <2>1. CASE d # c
    BY <1>2, <2>1
  <2>2. CASE d = c
    <3>1. PICK i \in Attempts : tx[<<c, i>>] = "landed"
      BY <1>7, <2>2 DEF LandedOf
    <3>2. cyc[c].stage # "police"
      BY <1>2, <3>1 DEF SentInOrder, Sending, Attempting
    <3>3. n.amount = cyc[c].amount
      BY <1>1, <3>2 DEF Shape, GoesOn, Permits, GivesUp, Retries, Succeeds, Keeps
    <3> QED
      BY <1>2, <2>2, <3>3
  <2> QED
    BY <2>1, <2>2
<1> QED
  BY <1>6, <1>7

(* A landed swap has been sent, so its cycle has passed the policy.        *)
LEMMA LandedRan ==
  ASSUME CycleInv, NEW c \in Cycles, NEW i \in Attempts, tx[<<c, i>>] # "none"
  PROVE  cyc[c].stage \in Sending \cup {"done"}
BY DEF CycleInv, SentInOrder

(* How a cycle that takes a step ends.                                     *)
LEMMA StepEnds ==
  ASSUME CycleInv, NEW c \in Cycles, CycleStep(c), cyc'[c].entry = "TX_CONFIRMED",
         cyc[c].entry # "TX_CONFIRMED"
  PROVE  /\ cyc[c].stage = "settle" /\ cyc'[c].stage = "done"
         /\ volume' = [volume EXCEPT ![Owner[c]] = volume[Owner[c]] + cyc[c].amount]
<1>1. PICK n \in CycleType : Becomes(c, n) /\ Shape(c, n)
  BY StepShape DEF CycleInv
<1>2. cyc'[c] = n
  BY <1>1 DEF Becomes, CycleInv, TypeOK
<1>3. n.stage = "done"
  BY <1>2, StepEntry DEF CycleInv
<1>4. ~GoesOn(c, n) /\ ~Permits(c, n) /\ ~Retries(c, n)
  BY <1>3 DEF GoesOn, Permits, Retries, Ways
<1>5. ~GivesUp(c, n)
  BY <1>2 DEF GivesUp
<1> QED
  BY <1>1, <1>2, <1>4, <1>5 DEF Shape, Succeeds

(* What is recorded settled.                                               *)
LEMMA StepSettled ==
  ASSUME CycleInv, BookInv, NEW c \in Cycles, CycleStep(c), NEW d \in Cycles
  PROVE  Settled(d)'
<1>1. Settled(c) /\ Settled(d)
  BY DEF BookInv
<1>2. PICK n \in CycleType : Becomes(c, n) /\ Shape(c, n)
  BY StepShape DEF CycleInv
<1>3. /\ cyc' = [cyc EXCEPT ![c] = n] /\ cyc \in [Cycles -> CycleType]
      /\ tx \in [Cycles \X Attempts -> {"none", "pending", "landed", "dropped"}]
      /\ \A e \in Cycles : cyc[e].attempt \in Attempts
  BY <1>2 DEF Becomes, CycleInv, TypeOK
<1>4. LandedOf(d)' = LandedOf(d) /\ LandedOf(c)' = LandedOf(c)
  BY StepKeepsLanded
<1>5. CASE d # c
  <2>1. cyc'[d] = cyc[d] /\ tx'[<<d, cyc[d].attempt>>] = tx[<<d, cyc[d].attempt>>]
    BY <1>2, <1>3, <1>5 DEF Shape, Sends
  <2> QED
    BY <1>1, <1>4, <2>1 DEF Settled
<1>6. CASE d = c
  <2>1. cyc'[c].stage = "settle" => tx'[<<c, cyc'[c].attempt>>] = "landed"
    BY StepEntry DEF CycleInv
  <2>2. cyc'[c].entry = "TX_CONFIRMED" => cyc'[c].stage = "done" /\ LandedOf(c)' # {}
    <3>1. CASE cyc[c].entry = "TX_CONFIRMED"
      <4>1. cyc[c].stage = "done"
        BY <1>1, <1>6, <3>1 DEF Settled
      <4>2. FALSE
        BY <1>2, <4>1 DEF Shape, GoesOn, Permits, GivesUp, Retries, Succeeds, Ways, Attempting,
                          Running, Ended
      <4> QED
        BY <4>2
    <3>2. CASE cyc[c].entry # "TX_CONFIRMED" /\ cyc'[c].entry = "TX_CONFIRMED"
      <4>1. cyc[c].stage = "settle" /\ cyc'[c].stage = "done"
        BY <3>2, StepEnds
      <4>2. cyc[c].attempt \in LandedOf(c)
        BY <1>1, <1>3, <4>1 DEF Settled, LandedOf
      <4> QED
        BY <1>4, <4>1, <4>2
    <3> QED
      BY <3>1, <3>2
  <2> QED
    BY <1>6, <2>1, <2>2 DEF Settled
<1> QED
  BY <1>5, <1>6

-----------------------------------------------------------------------------
(* A sum of units grows with a cycle that is not among them.               *)
LEMMA UnitsAdded ==
  ASSUME NEW S, IsFiniteSet(S), NEW c, NEW m \in Nat, S \cap ({c} \X (1..m)) = {}
  PROVE  /\ IsFiniteSet(S \cup ({c} \X (1..m)))
         /\ Cardinality(S \cup ({c} \X (1..m))) = Cardinality(S) + m
<1> DEFINE T == {c} \X (1..m)
<1>1. IsFiniteSet({c}) /\ Cardinality({c}) = 1
  BY FS_Singleton
<1>2. IsFiniteSet(1..m) /\ Cardinality(1..m) = m
  BY FS_Interval
<1>3. IsFiniteSet(T) /\ Cardinality(T) = 1 * m
  <2>1. IsFiniteSet(T) /\ Cardinality(T) = Cardinality({c}) * Cardinality(1..m)
    <3> DEFINE one == {c}
               many == 1..m
    <3>1. IsFiniteSet(one) /\ IsFiniteSet(many)
      BY <1>1, <1>2
    <3> HIDE DEF one, many
    <3>2. IsFiniteSet(one \X many)
          /\ Cardinality(one \X many) = Cardinality(one) * Cardinality(many)
      BY <3>1, FS_Product
    <3> QED
      BY <3>2 DEF one, many
  <2> QED
    BY <1>1, <1>2, <2>1
<1>4. Cardinality(S) \in Nat
  BY FS_CardinalityType
<1>5. S \cap T = {} /\ Cardinality({}) = 0
  BY FS_EmptySet
<1> HIDE DEF T
<1>6. IsFiniteSet(S \cup T) /\ Cardinality(S \cup T) = Cardinality(S) + m - 0
  BY <1>3, <1>4, <1>5, FS_Union
<1> QED
  BY <1>4, <1>6 DEF T

(* What is owed is known by the cycles that owe and their amounts.         *)
LEMMA OwedUnchanged ==
  ASSUME NEW a \in Agents, Uncounted(a)' = Uncounted(a),
         \A c \in Uncounted(a) : cyc'[c].amount = cyc[c].amount
  PROVE  Owed(a)' = Owed(a)
<1>1. ASSUME NEW u \in Cycles \X Nat
      PROVE  (u[1] \in Uncounted(a)' /\ u[2] \in 1..cyc'[u[1]].amount)
               <=> (u[1] \in Uncounted(a) /\ u[2] \in 1..cyc[u[1]].amount)
  OBVIOUS
<1> QED
  BY <1>1 DEF Owed

\* The books of one agent balance.
Balanced(a) == IsFiniteSet(Owed(a)) /\ volume[a] + Cardinality(Owed(a)) <= executed[a]

(* Whatever leaves the volume, the chain and what is owed alone keeps the  *)
(* balance.                                                                *)
LEMMA BalanceUnchanged ==
  ASSUME NEW a \in Agents, Balanced(a), Owed(a)' = Owed(a),
         volume[a]' = volume[a], executed[a]' = executed[a]
  PROVE  Balanced(a)'
BY DEF Balanced

(* The swap of a cycle that is recorded is no longer owed.                 *)
LEMMA RecordBalances ==
  ASSUME CycleInv, BookInv, NEW c \in Cycles, CycleStep(c),
         cyc'[c].entry = "TX_CONFIRMED", cyc[c].entry # "TX_CONFIRMED",
         Balanced(Owner[c])
  PROVE  Balanced(Owner[c])'
<1> DEFINE a == Owner[c]
           m == cyc[c].amount
<1>1. /\ cyc[c].stage = "settle"
      /\ volume' = [volume EXCEPT ![a] = volume[a] + m]
  BY StepEnds
<1>2. /\ a \in Agents /\ volume \in [Agents -> Nat] /\ executed \in [Agents -> Nat]
      /\ cyc \in [Cycles -> CycleType] /\ m \in Nat /\ cyc[c].attempt \in Attempts
  BY OwnerAssumption DEF CycleInv, TypeOK, CycleType
<1>3. cyc[c].attempt \in LandedOf(c)
  BY <1>1, <1>2 DEF BookInv, Settled, LandedOf
<1>4. /\ \A d \in Cycles : /\ LandedOf(d)' = LandedOf(d)
                           /\ LandedOf(d) # {} => cyc'[d].amount = cyc[d].amount
  BY StepKeepsLanded
<1>5. \A d \in Cycles : d # c => cyc'[d] = cyc[d]
  BY <1>2, StepShape DEF CycleInv, Becomes
<1>6. c \in Uncounted(a) /\ Uncounted(a)' = Uncounted(a) \ {c}
  BY <1>3, <1>4, <1>5 DEF Uncounted
<1>7. \A d \in Uncounted(a) : d \in Cycles /\ cyc'[d].amount = cyc[d].amount
  BY <1>4 DEF Uncounted
<1> DEFINE old == Owed(a)
           units == {c} \X (1..m)
<1>8. PICK new : new = Owed(a)'
  OBVIOUS
<1>9. new = {u \in Cycles \X Nat : u[1] \in Uncounted(a) \ {c} /\ u[2] \in 1..cyc[u[1]].amount}
  <2>1. ASSUME NEW u \in Cycles \X Nat
        PROVE  (u[1] \in Uncounted(a)' /\ u[2] \in 1..cyc'[u[1]].amount)
                 <=> (u[1] \in Uncounted(a) \ {c} /\ u[2] \in 1..cyc[u[1]].amount)
    BY <1>6, <1>7
  <2>2. new = {u \in Cycles \X Nat : u[1] \in Uncounted(a)' /\ u[2] \in 1..cyc'[u[1]].amount}
    BY <1>8 DEF Owed
  <2> HIDE DEF a
  <2> QED
    BY <2>1, <2>2
<1>10. old = new \cup units /\ new \cap units = {}
  <2>1. old = {u \in Cycles \X Nat : u[1] \in Uncounted(a) /\ u[2] \in 1..cyc[u[1]].amount}
    BY DEF Owed
  <2> HIDE DEF old, a
  <2>2. \A u \in units : u \in Cycles \X Nat /\ u[1] = c /\ u[2] \in 1..cyc[c].amount
    BY <1>2
  <2>3. \A u \in Cycles \X Nat : u[1] = c /\ u[2] \in 1..cyc[c].amount => u \in units
    OBVIOUS
  <2> HIDE DEF units
  <2> QED
    BY <1>6, <1>9, <2>1, <2>2, <2>3
<1>11. IsFiniteSet(old) /\ volume[a] + Cardinality(old) <= executed[a]
  BY DEF Balanced
<1>12. IsFiniteSet(new)
  BY <1>10, <1>11, FS_Subset
<1>13. Cardinality(old) = Cardinality(new) + m /\ Cardinality(new) \in Nat
  <2>1. Cardinality(new) \in Nat
    BY <1>12, FS_CardinalityType
  <2>2. m \in Nat
    BY <1>2
  <2> HIDE DEF m, old
  <2>3. Cardinality(new \cup units) = Cardinality(new) + m
    BY <1>10, <1>12, <2>2, UnitsAdded
  <2> QED
    BY <1>10, <2>1, <2>3
<1>14. volume'[a] = volume[a] + m /\ executed'[a] = executed[a]
  <2>1. UNCHANGED executed
    BY StepShape DEF CycleInv
  <2> QED
    BY <1>1, <1>2, <2>1
<1>15. volume'[a] + Cardinality(new) <= executed'[a]
  <2>1. volume[a] \in Nat /\ executed[a] \in Nat
    BY <1>2
  <2> HIDE DEF old, m, a
  <2> QED
    BY <1>2, <1>11, <1>13, <1>14, <2>1
<1> QED
  BY <1>8, <1>12, <1>15 DEF Balanced

(* No other step of a cycle touches the books.                             *)
LEMMA StepBalances ==
  ASSUME CycleInv, BookInv, NEW c \in Cycles, CycleStep(c), NEW a \in Agents, Balanced(a)
  PROVE  Balanced(a)'
<1>1. CASE cyc'[c].entry = "TX_CONFIRMED" /\ cyc[c].entry # "TX_CONFIRMED" /\ a = Owner[c]
  BY <1>1, RecordBalances
<1>2. CASE ~(cyc'[c].entry = "TX_CONFIRMED" /\ cyc[c].entry # "TX_CONFIRMED" /\ a = Owner[c])
  <2>1. PICK n \in CycleType : Becomes(c, n) /\ Shape(c, n)
    BY StepShape DEF CycleInv
  <2>2. /\ cyc' = [cyc EXCEPT ![c] = n] /\ cyc \in [Cycles -> CycleType]
        /\ volume \in [Agents -> Nat]
    BY <2>1 DEF Becomes, CycleInv, TypeOK
  <2>3. \A d \in Cycles : /\ LandedOf(d)' = LandedOf(d)
                          /\ LandedOf(d) # {} => cyc'[d].amount = cyc[d].amount
    BY StepKeepsLanded
  <2>4. cyc[c].stage # "done"
    BY <2>1 DEF Shape, GoesOn, Permits, GivesUp, Retries, Succeeds, Ways, Attempting,
                Running, Ended
  <2>5. cyc[c].entry # "TX_CONFIRMED"
    BY <2>4 DEF BookInv, Settled
  <2>6. \A d \in Cycles : Owner[d] = a =>
          (cyc'[d].entry = "TX_CONFIRMED" <=> cyc[d].entry = "TX_CONFIRMED")
    BY <1>2, <2>2, <2>5
  <2>7. Uncounted(a)' = Uncounted(a)
    BY <2>3, <2>6 DEF Uncounted
  <2>8. Owed(a)' = Owed(a)
    BY <2>3, <2>7, OwedUnchanged DEF Uncounted
  <2>9. UNCHANGED executed
    BY StepShape DEF CycleInv
  <2>10. volume'[a] = volume[a]
    <3>1. CASE UNCHANGED volume
      BY <3>1
    <3>2. CASE Succeeds(c, n)
               /\ volume' = [volume EXCEPT ![Owner[c]] = volume[Owner[c]] + cyc[c].amount]
      <4>1. n.entry = "TX_CONFIRMED" /\ cyc'[c] = n
        BY <2>2, <3>2 DEF Succeeds
      <4>2. a # Owner[c]
        BY <1>2, <2>5, <4>1
      <4> QED
        BY <2>2, <3>2, <4>2
    <3> QED
      BY <2>1, <3>1, <3>2 DEF Shape
  <2> QED
    BY <2>8, <2>9, <2>10, BalanceUnchanged
<1> QED
  BY <1>1, <1>2

(* A transaction that lands adds to the chain at least what it then owes.  *)
LEMMA LandBalances ==
  ASSUME CycleInv, NEW c \in Cycles, NEW n \in Attempts, Land(<<c, n>>),
         NEW a \in Agents, Balanced(a)
  PROVE  Balanced(a)'
<1> DEFINE m == cyc[c].amount
<1>1. /\ Owner[c] \in Agents /\ volume \in [Agents -> Nat] /\ executed \in [Agents -> Nat]
      /\ cyc \in [Cycles -> CycleType] /\ m \in Nat
      /\ tx \in [Cycles \X Attempts -> {"none", "pending", "landed", "dropped"}]
  BY OwnerAssumption DEF CycleInv, TypeOK, CycleType
<1>2. /\ tx' = [tx EXCEPT ![<<c, n>>] = "landed"]
      /\ executed' = [executed EXCEPT ![Owner[c]] = executed[Owner[c]] + m]
      /\ UNCHANGED <<cyc, volume>>
  BY DEF Land
<1>3. /\ LandedOf(c)' = LandedOf(c) \cup {n}
      /\ \A d \in Cycles : d # c => LandedOf(d)' = LandedOf(d)
  BY <1>1, <1>2 DEF LandedOf
<1>4. /\ Owed(a) = {u \in Cycles \X Nat : u[1] \in Uncounted(a) /\ u[2] \in 1..cyc[u[1]].amount}
      /\ Owed(a)' = {u \in Cycles \X Nat : u[1] \in Uncounted(a)' /\ u[2] \in 1..cyc[u[1]].amount}
  BY <1>2 DEF Owed
<1>5. /\ IsFiniteSet(Owed(a)) /\ volume[a] + Cardinality(Owed(a)) <= executed[a]
      /\ Cardinality(Owed(a)) \in Nat
  BY FS_CardinalityType DEF Balanced
<1>6. executed'[a] = executed[a] + (IF a = Owner[c] THEN m ELSE 0)
  BY <1>1, <1>2
<1>7. CASE a = Owner[c] /\ LandedOf(c) = {} /\ cyc[c].entry # "TX_CONFIRMED"
  <2>1. c \notin Uncounted(a) /\ Uncounted(a)' = Uncounted(a) \cup {c}
    BY <1>2, <1>3, <1>7 DEF Uncounted
  <2> DEFINE units == {c} \X (1..m)
  <2>2. PICK new : new = Owed(a)'
    OBVIOUS
  <2>3. PICK old : old = Owed(a)
    OBVIOUS
  <2>4. new = old \cup units /\ old \cap units = {}
    <3>1. \A u \in units : u \in Cycles \X Nat /\ u[1] = c /\ u[2] \in 1..cyc[c].amount
      BY <1>1
    <3>2. \A u \in Cycles \X Nat : u[1] = c /\ u[2] \in 1..cyc[c].amount => u \in units
      OBVIOUS
    <3> HIDE DEF units
    <3> QED
      BY <1>4, <2>1, <2>2, <2>3, <3>1, <3>2
  <2>5. IsFiniteSet(new) /\ Cardinality(new) = Cardinality(old) + m
    BY <1>1, <1>5, <2>3, <2>4, UnitsAdded
  <2>6. volume[a] + Cardinality(new) <= executed'[a]
    <3>1. volume[a] \in Nat /\ executed[a] \in Nat /\ executed'[a] = executed[a] + m
      BY <1>1, <1>6, <1>7
    <3> HIDE DEF m
    <3> QED
      BY <1>1, <1>5, <2>3, <2>5, <3>1
  <2> QED
    BY <1>2, <2>2, <2>5, <2>6 DEF Balanced
<1>8. CASE ~(a = Owner[c] /\ LandedOf(c) = {} /\ cyc[c].entry # "TX_CONFIRMED")
  <2>1. Uncounted(a)' = Uncounted(a)
    BY <1>2, <1>3, <1>8 DEF Uncounted
  <2>2. Owed(a)' = Owed(a)
    BY <1>4, <2>1
  <2>3. volume[a] + Cardinality(Owed(a)) <= executed'[a]
    <3>1. executed[a] \in Nat /\ volume[a] \in Nat
      BY <1>1
    <3> HIDE DEF m
    <3> QED
      BY <1>1, <1>5, <1>6, <3>1
  <2> QED
    BY <1>2, <1>5, <2>2, <2>3 DEF Balanced
<1> QED
  BY <1>7, <1>8

(* At the start nothing is owed.                                           *)
LEMMA BookInvInit == Init => BookInv
<1> SUFFICES ASSUME Init PROVE BookInv
  OBVIOUS
<1>1. ASSUME NEW c \in Cycles PROVE Settled(c) /\ LandedOf(c) = {}
  <2>1. cyc[c].stage = "idle" /\ cyc[c].entry = "" /\ \A n \in Attempts : tx[<<c, n>>] = "none"
    BY DEF Init, NewCycle
  <2> QED
    BY <2>1 DEF Settled, LandedOf
<1>2. ASSUME NEW a \in Agents PROVE Balanced(a)
  <2>1. Owed(a) = {}
    BY <1>1 DEF Owed, Uncounted
  <2>2. volume[a] = 0 /\ executed[a] = 0
    BY DEF Init
  <2> QED
    BY <2>1, <2>2, FS_EmptySet DEF Balanced
<1> QED
  BY <1>1, <1>2 DEF BookInv, Balanced

(* Every step of the system keeps the books.                               *)
LEMMA BookInvStep ==
  ASSUME CycleInv, BookInv, [Next]_vars
  PROVE  BookInv'
<1>1. /\ cyc \in [Cycles -> CycleType] /\ volume \in [Agents -> Nat]
      /\ executed \in [Agents -> Nat] /\ midnights \in Nat
      /\ tx \in [Cycles \X Attempts -> {"none", "pending", "landed", "dropped"}]
  BY DEF CycleInv, TypeOK
<1>2. /\ \A c \in Cycles : Settled(c) /\ cyc[c].attempt \in Attempts
      /\ midnights = 0 => \A a \in Agents : Balanced(a)
  BY DEF BookInv, Balanced, CycleInv
<1>3. SUFFICES /\ \A c \in Cycles : Settled(c)'
               /\ midnights' = 0 => \A a \in Agents : Balanced(a)'
  BY DEF BookInv, Balanced
<1>4. ASSUME NEW c \in Cycles, CycleStep(c)
      PROVE  /\ \A d \in Cycles : Settled(d)'
             /\ midnights' = 0 => \A a \in Agents : Balanced(a)'
  <2>1. UNCHANGED midnights
    BY <1>4, StepShape DEF CycleInv
  <2> QED
    BY <1>2, <1>4, <2>1, StepSettled, StepBalances
<1>5. ASSUME NEW c \in Cycles, Start(c)
      PROVE  /\ \A d \in Cycles : Settled(d)'
             /\ midnights' = 0 => \A a \in Agents : Balanced(a)'
  <2>1. UNCHANGED <<volume, tx, executed, midnights>> /\ cyc[c].stage = "idle"
    BY <1>5 DEF Start, At
  <2>2. PICK n \in CycleType : /\ Becomes(c, n) /\ Keeps(c, n)
                               /\ n.stage = "sense" /\ n.entry = cyc[c].entry
    <3>1. "sense" \in Stages /\ GoTo(c, "sense")
      BY <1>5 DEF Start, Stages
    <3> QED
      BY <3>1, GoToBecomes DEF CycleInv
  <2>3. cyc' = [cyc EXCEPT ![c] = n]
    BY <2>2 DEF Becomes
  <2>4. \A d \in Cycles : cyc'[d].entry = cyc[d].entry /\ cyc'[d].amount = cyc[d].amount
    BY <1>1, <2>2, <2>3 DEF Keeps
  <2>5. \A d \in Cycles : LandedOf(d)' = LandedOf(d)
    BY <2>1 DEF LandedOf
  <2>6. ASSUME NEW d \in Cycles PROVE Settled(d)'
    BY <1>1, <1>2, <2>1, <2>2, <2>3, <2>5 DEF Settled
  <2>7. ASSUME NEW a \in Agents, Balanced(a) PROVE Balanced(a)'
    <3>1. Uncounted(a)' = Uncounted(a)
      BY <2>4, <2>5 DEF Uncounted
    <3>2. Owed(a)' = Owed(a)
      BY <2>4, <3>1, OwedUnchanged DEF Uncounted
    <3> QED
      BY <2>1, <2>7, <3>2, BalanceUnchanged
  <2> QED
    BY <1>2, <2>1, <2>6, <2>7
<1>6. ASSUME NEW t \in Cycles \X Attempts, Land(t)
      PROVE  /\ \A d \in Cycles : Settled(d)'
             /\ midnights' = 0 => \A a \in Agents : Balanced(a)'
  <2>1. PICK c \in Cycles, n \in Attempts : t = <<c, n>>
    OBVIOUS
  <2>2. tx' = [tx EXCEPT ![<<c, n>>] = "landed"] /\ UNCHANGED <<cyc, midnights>>
    BY <1>6, <2>1 DEF Land
  <2>3. \A d \in Cycles, i \in Attempts : tx[<<d, i>>] = "landed" => tx'[<<d, i>>] = "landed"
    BY <1>1, <2>2
  <2>4. ASSUME NEW d \in Cycles PROVE Settled(d)'
    <3>1. LandedOf(d) \subseteq LandedOf(d)'
      BY <2>3 DEF LandedOf
    <3> QED
      BY <1>2, <2>2, <2>3, <3>1 DEF Settled
  <2> QED
    BY <1>2, <1>6, <2>1, <2>2, <2>4, LandBalances
<1>7. ASSUME NEW t \in Cycles \X Attempts, Drop(t)
      PROVE  /\ \A d \in Cycles : Settled(d)'
             /\ midnights' = 0 => \A a \in Agents : Balanced(a)'
  <2>1. /\ tx[t] = "pending" /\ tx' = [tx EXCEPT ![t] = "dropped"]
        /\ UNCHANGED <<cyc, volume, executed, midnights>>
    BY <1>7 DEF Drop
  <2>2. \A u \in Cycles \X Attempts : tx'[u] = "landed" <=> tx[u] = "landed"
    BY <1>1, <2>1
  <2>3. \A d \in Cycles : LandedOf(d)' = LandedOf(d)
    BY <2>2 DEF LandedOf
  <2>4. ASSUME NEW d \in Cycles PROVE Settled(d)'
    BY <1>2, <2>1, <2>2, <2>3 DEF Settled
  <2>5. ASSUME NEW a \in Agents, Balanced(a) PROVE Balanced(a)'
    BY <2>1, <2>3, <2>5 DEF Balanced, Owed, Uncounted
  <2> QED
    BY <1>2, <2>1, <2>4, <2>5
<1>8. CASE Midnight
  <2>1. midnights' # 0 /\ UNCHANGED <<cyc, tx>>
    BY <1>1, <1>8 DEF Midnight
  <2> QED
    BY <1>2, <2>1 DEF Settled, LandedOf
<1>9. CASE ProcessRestart
  <2>1. /\ cyc' = [c \in Cycles |-> IF Running(c)
                     THEN [cyc[c] EXCEPT !.stage = "done", !.entry = "LOST"] ELSE cyc[c]]
        /\ volume' = [a \in Agents |-> 0]
        /\ UNCHANGED <<tx, executed, midnights>>
    BY <1>9 DEF ProcessRestart
  <2>2. ASSUME NEW d \in Cycles
        PROVE  /\ cyc'[d].amount = cyc[d].amount /\ cyc'[d].attempt = cyc[d].attempt
               /\ ~Running(d) => cyc'[d] = cyc[d]
               /\ Running(d) => cyc'[d].stage = "done" /\ cyc'[d].entry = "LOST"
    <3>1. cyc[d] \in CycleType
      BY <1>1
    <3> QED
      BY <2>1, <3>1 DEF CycleType
  <2>3. ASSUME NEW d \in Cycles
        PROVE  /\ Settled(d)' /\ LandedOf(d)' = LandedOf(d)
               /\ cyc'[d].entry = "TX_CONFIRMED" <=> cyc[d].entry = "TX_CONFIRMED"
    <3>1. LandedOf(d)' = LandedOf(d)
      BY <2>1 DEF LandedOf
    <3>2. Settled(d)
      BY <1>2
    <3> QED
      BY <2>1, <2>2, <3>1, <3>2 DEF Settled, Running, Ended
  <2>4. ASSUME NEW a \in Agents, Balanced(a) PROVE Balanced(a)'
    <3>1. Uncounted(a)' = Uncounted(a)
      BY <2>3 DEF Uncounted
    <3>2. Owed(a)' = Owed(a)
      BY <2>2, <3>1, OwedUnchanged DEF Uncounted
    <3>3. volume'[a] = 0 /\ executed'[a] = executed[a] /\ volume[a] \in Nat /\ executed[a] \in Nat
      BY <1>1, <2>1
    <3>4. IsFiniteSet(Owed(a)) /\ volume[a] + Cardinality(Owed(a)) <= executed[a]
          /\ Cardinality(Owed(a)) \in Nat
      BY <2>4, FS_CardinalityType DEF Balanced
    <3>5. 0 + Cardinality(Owed(a)) <= executed[a]
      BY <3>3, <3>4
    <3> QED
      BY <3>2, <3>3, <3>4, <3>5 DEF Balanced
  <2> QED
    BY <1>2, <2>1, <2>3, <2>4
<1>10. CASE PassTime \/ UNCHANGED vars
  <2>1. UNCHANGED <<cyc, volume, tx, executed, midnights>>
    BY <1>10 DEF PassTime, vars, cycleVars
  <2>2. \A d \in Cycles : LandedOf(d)' = LandedOf(d)
    BY <2>1 DEF LandedOf
  <2> QED
    BY <1>2, <2>1, <2>2 DEF Settled, Balanced, Owed, Uncounted
<1> QED
  BY <1>4, <1>5, <1>6, <1>7, <1>8, <1>9, <1>10 DEF Next

(* The books balance throughout.                                           *)
THEOREM BookInvariant == Spec => [](CycleInv /\ BookInv)
<1>1. Init => CycleInv /\ BookInv
  BY CycleInvInit, BookInvInit
<1>2. (CycleInv /\ BookInv) /\ [Next]_vars => (CycleInv /\ BookInv)'
  BY CycleInvStep, BookInvStep
<1> QED
  BY <1>1, <1>2, PTL DEF Spec

(* The log never claims a swap that did not happen: every confirmed entry  *)
(* is of a landed transaction, and what check 5 counts has been executed   *)
(* on the chain that day, whatever overlaps, lands late or is lost in a    *)
(* restart (agent.ts:296, 421-447).                                        *)
THEOREM VolumeIsExecutedHolds == Spec => []VolumeIsExecuted
<1>1. CycleInv /\ BookInv => VolumeIsExecuted
  <2> SUFFICES ASSUME CycleInv, BookInv PROVE VolumeIsExecuted
    OBVIOUS
  <2>1. \A c \in Cycles : cyc[c].entry = "TX_CONFIRMED" => LandedOf(c) # {}
    BY DEF BookInv, Settled
  <2>2. ASSUME midnights = 0, NEW a \in Agents PROVE volume[a] <= executed[a]
    <3>1. volume[a] \in Nat /\ executed[a] \in Nat
      BY DEF CycleInv, TypeOK
    <3>2. IsFiniteSet(Owed(a)) /\ volume[a] + Cardinality(Owed(a)) <= executed[a]
      BY <2>2 DEF BookInv
    <3>3. Cardinality(Owed(a)) \in Nat
      BY <3>2, FS_CardinalityType
    <3> QED
      BY <3>1, <3>2, <3>3
  <2> QED
    BY <2>1, <2>2 DEF VolumeIsExecuted
<1> QED
  BY <1>1, BookInvariant, PTL

-----------------------------------------------------------------------------
(* The daily cap.                                                          *)


(* As long as cycles of an agent do not overlap, the process does not      *)
(* restart and every executed swap is in the log, an agent has at most one *)
(* swap in hand, and what the chain has executed beyond the log is that    *)
(* one.                                                                    *)
Undisturbed == ~overlapped /\ restarts = 0 /\ \A c \in Cycles : ~Unrecorded(c)

OneAtATime ==
  \A c, d \in Cycles : Running(c) /\ Running(d) /\ Owner[c] = Owner[d] => c = d

InHand(c) ==
  /\ LandedOf(c) = {} => executed[Owner[c]] <= volume[Owner[c]]
  /\ executed[Owner[c]] <= volume[Owner[c]] + cyc[c].amount
  /\ cyc[c].stage \in Permitted =>
       volume[Owner[c]] + cyc[c].amount <= Profile[Owner[c]].dailyCap

Level(a) ==
  /\ volume[a] <= Profile[a].dailyCap
  /\ (\A c \in Cycles : Owner[c] = a => ~Running(c)) => executed[a] <= volume[a]

CapInv ==
  Undisturbed =>
    /\ OneAtATime
    /\ \A c \in Cycles : Running(c) => InHand(c)
    /\ \A a \in Agents : Level(a)

(* Two landed attempts of one cycle are counted as such.                   *)
LEMMA TwoLanded ==
  ASSUME NEW S, NEW T, IsFiniteSet(T), NEW x, NEW y, x # y, x \in T, y \in T
  PROVE  Cardinality(T) > 1
<1>1. IsFiniteSet({x}) /\ Cardinality({x}) = 1
  BY FS_Singleton
<1>2. Cardinality({x} \cup {y}) = 2 /\ IsFiniteSet({x} \cup {y})
  BY <1>1, FS_AddElement
<1>3. Cardinality({x} \cup {y}) <= Cardinality(T) /\ Cardinality(T) \in Nat
  <2>1. {x} \cup {y} \in SUBSET T
    OBVIOUS
  <2> QED
    BY <2>1, FS_Subset, FS_CardinalityType
<1> QED
  BY <1>2, <1>3

(* Attempts are finite in number.                                          *)
LEMMA LandedFinite ==
  ASSUME NEW c \in Cycles
  PROVE  IsFiniteSet(LandedOf(c)) /\ IsFiniteSet(LandedOf(c)')
<1>1. IsFiniteSet(Attempts)
  BY RetryAssumption, FS_Interval DEF Attempts
<1>2. LandedOf(c) \in SUBSET Attempts /\ LandedOf(c)' \in SUBSET Attempts
  BY DEF LandedOf
<1> QED
  BY <1>1, <1>2, FS_Subset

(* At the start no agent has a swap in hand.                               *)
LEMMA CapInvInit == Init => CapInv
<1> SUFFICES ASSUME Init PROVE CapInv
  OBVIOUS
<1>1. \A c \in Cycles : ~Running(c)
  BY DEF Init, NewCycle, Running, Ended
<1>2. ASSUME NEW a \in Agents PROVE Level(a)
  <2>1. volume[a] = 0 /\ executed[a] = 0 /\ Profile[a].dailyCap \in Nat
    BY Numbers DEF Init
  <2> QED
    BY <2>1 DEF Level
<1> QED
  BY <1>1, <1>2 DEF CapInv, OneAtATime

(* An agent between two cycles, or one that is undisturbed, stays within   *)
(* its cap: what a cycle does with its swap.                               *)
LEMMA StepWithinCap ==
  ASSUME CycleInv, BookInv, CapInv, NEW c \in Cycles, CycleStep(c)
  PROVE  CapInv'
<1> SUFFICES ASSUME Undisturbed'
             PROVE  /\ OneAtATime'
                    /\ \A d \in Cycles : Running(d)' => InHand(d)'
                    /\ \A a \in Agents : Level(a)'
  BY DEF CapInv
<1>1. PICK n \in CycleType : Becomes(c, n) /\ Shape(c, n)
  BY StepShape DEF CycleInv
<1>2. /\ cyc' = [cyc EXCEPT ![c] = n] /\ cyc \in [Cycles -> CycleType]
      /\ volume \in [Agents -> Nat] /\ executed \in [Agents -> Nat]
      /\ UNCHANGED <<executed, overlapped, restarts>>
  BY <1>1, StepShape DEF Becomes, CycleInv, TypeOK
<1>3. \A d \in Cycles : LandedOf(d)' = LandedOf(d)
  BY StepKeepsLanded
<1>4. Running(c) /\ cyc[c].stage # "done"
  BY <1>1 DEF Shape, GoesOn, Permits, GivesUp, Retries, Succeeds, Ways, Attempting,
              Running, Ended
<1>5. \A d \in Cycles : d # c => cyc'[d] = cyc[d]
  BY <1>2
<1>6. Undisturbed
  <2>1. ASSUME NEW d \in Cycles, Unrecorded(d) PROVE Unrecorded(d)'
    BY <1>3, <1>4, <1>5, <2>1 DEF Unrecorded
  <2> QED
    BY <1>2, <2>1 DEF Undisturbed
<1>7. /\ OneAtATime /\ InHand(c) /\ \A d \in Cycles : Running(d) => InHand(d)
      /\ \A a \in Agents : Level(a)
  BY <1>4, <1>6 DEF CapInv
<1>8. \A d \in Cycles : Running(d)' => Running(d)
  BY <1>4, <1>5 DEF Running
<1>9. OneAtATime'
  BY <1>7, <1>8 DEF OneAtATime
<1> DEFINE o == Owner[c]
<1>10. /\ \A d \in Cycles : Running(d) /\ Owner[d] = o => d = c
       /\ o \in Agents /\ volume[o] \in Nat /\ executed[o] \in Nat
       /\ Profile[o].dailyCap \in Nat /\ cyc[c].amount \in Nat
  BY <1>2, <1>4, <1>7, OwnerAssumption, Numbers DEF OneAtATime, CycleType
<1>11. \A a \in Agents : a # o => volume'[a] = volume[a]
  BY <1>1, <1>2 DEF Shape
<1>12. ASSUME NEW a \in Agents, a # o PROVE Level(a)'
  <2>1. \A d \in Cycles : Owner[d] = a => (Running(d)' <=> Running(d))
    BY <1>5, <1>12 DEF Running
  <2> QED
    BY <1>2, <1>7, <1>11, <1>12, <2>1 DEF Level
<1>13. ASSUME NEW d \in Cycles, d # c, Running(d)' PROVE InHand(d)'
  <2>1. Running(d) /\ Owner[d] # o /\ Owner[d] \in Agents
    BY <1>8, <1>10, <1>13, OwnerAssumption
  <2> QED
    BY <1>2, <1>3, <1>5, <1>7, <1>11, <1>13, <2>1 DEF InHand
<1>14. CASE Succeeds(c, n)
            /\ volume' = [volume EXCEPT ![Owner[c]] = volume[Owner[c]] + cyc[c].amount]
  <2>1. volume'[o] = volume[o] + cyc[c].amount /\ executed'[o] = executed[o]
    BY <1>2, <1>10, <1>14
  <2>2. cyc[c].stage \in Permitted /\ ~Running(c)'
    BY <1>2, <1>14 DEF Succeeds, Permitted, Sending, Running, Ended
  <2>3. Level(o)'
    BY <1>7, <1>10, <2>1, <2>2 DEF Level, InHand
  <2> QED
    BY <1>9, <1>12, <1>13, <2>2, <2>3
<1>15. CASE /\ GoesOn(c, n) \/ Permits(c, n) \/ GivesUp(c, n) \/ Retries(c, n)
            /\ UNCHANGED volume
  <2>1. cyc'[c] = n /\ n.amount \in Nat
    BY <1>2 DEF CycleType
  <2>2. volume[o] <= Profile[o].dailyCap
    BY <1>7, <1>10 DEF Level
  <2>3. CASE GivesUp(c, n)
    <3>1. LandedOf(c) = {}
      <4>1. ~Unrecorded(c)'
        BY DEF Undisturbed
      <4> QED
        BY <1>3, <2>1, <2>3, <4>1 DEF Unrecorded, GivesUp
    <3>2. executed[o] <= volume[o]
      BY <1>7, <3>1 DEF InHand
    <3>3. Level(o)'
      BY <1>2, <1>15, <2>2, <3>2 DEF Level
    <3>4. ~Running(c)'
      BY <2>1, <2>3 DEF GivesUp, Running, Ended
    <3> QED
      BY <1>9, <1>12, <1>13, <3>3, <3>4
  <2>4. CASE GoesOn(c, n) \/ Permits(c, n) \/ Retries(c, n)
    <3>1. Running(c)'
      BY <2>1, <2>4 DEF GoesOn, Permits, Retries, Ways, Running, Ended
    <3>2. Level(o)'
      BY <1>2, <1>15, <2>2, <3>1 DEF Level
    <3>3. CASE GoesOn(c, n) \/ Retries(c, n)
      <4>1. n.amount = cyc[c].amount /\ (n.stage \in Permitted => cyc[c].stage \in Permitted)
        BY <3>3 DEF GoesOn, Retries, Keeps, Ways, Permitted, Sending, Attempting
      <4>2. InHand(c)'
        BY <1>2, <1>3, <1>7, <1>15, <2>1, <4>1 DEF InHand
      <4> QED
        BY <1>9, <1>12, <1>13, <3>2, <4>2
    <3>4. CASE Permits(c, n)
      <4>1. LandedOf(c) = {}
        <5>1. cyc[c].stage = "police" /\ SentInOrder(c)
          BY <3>4 DEF Permits, CycleInv
        <5> QED
          BY <5>1 DEF LandedOf, SentInOrder, Sending, Attempting
      <4>2. executed[o] <= volume[o] /\ volume[o] + n.amount <= Profile[o].dailyCap
        BY <1>7, <3>4, <4>1 DEF InHand, Permits
      <4>3. executed[o] <= volume[o] + n.amount
        BY <1>10, <2>1, <4>2
      <4>4. InHand(c)'
        BY <1>2, <1>3, <1>15, <2>1, <4>2, <4>3 DEF InHand
      <4> QED
        BY <1>9, <1>12, <1>13, <3>2, <4>4
    <3> QED
      BY <2>4, <3>3, <3>4
  <2> QED
    BY <1>15, <2>3, <2>4
<1> QED
  BY <1>1, <1>14, <1>15 DEF Shape

(* A cycle that starts finds nothing in hand.                              *)
LEMMA StartWithinCap ==
  ASSUME CycleInv, CapInv, NEW c \in Cycles, Start(c)
  PROVE  CapInv'
<1> SUFFICES ASSUME Undisturbed'
             PROVE  /\ OneAtATime'
                    /\ \A d \in Cycles : Running(d)' => InHand(d)'
                    /\ \A a \in Agents : Level(a)'
  BY DEF CapInv
<1>1. /\ UNCHANGED <<volume, tx, executed, restarts>> /\ cyc[c].stage = "idle"
      /\ overlapped' = (overlapped \/ \E d \in Cycles : Owner[d] = Owner[c] /\ Running(d))
  BY DEF Start, At
<1>2. PICK n \in CycleType : Becomes(c, n) /\ Keeps(c, n) /\ n.stage = "sense"
  <2>1. "sense" \in Stages /\ GoTo(c, "sense")
    BY DEF Start, Stages
  <2> QED
    BY <2>1, GoToBecomes DEF CycleInv
<1>3. /\ cyc' = [cyc EXCEPT ![c] = n] /\ cyc \in [Cycles -> CycleType]
      /\ volume \in [Agents -> Nat] /\ executed \in [Agents -> Nat]
  BY <1>2 DEF Becomes, CycleInv, TypeOK
<1>4. \A d \in Cycles : d # c => cyc'[d] = cyc[d]
  BY <1>3
<1>5. \A d \in Cycles : LandedOf(d)' = LandedOf(d)
  BY <1>1 DEF LandedOf
<1>6. /\ ~overlapped /\ \A d \in Cycles : Owner[d] = Owner[c] => ~Running(d)
  BY <1>1 DEF Undisturbed
<1>7. Undisturbed
  <2>1. ASSUME NEW d \in Cycles, Unrecorded(d) PROVE Unrecorded(d)'
    BY <1>1, <1>4, <1>5, <2>1 DEF Unrecorded
  <2> QED
    BY <1>1, <1>6, <2>1 DEF Undisturbed
<1>8. /\ OneAtATime /\ \A d \in Cycles : Running(d) => InHand(d)
      /\ \A a \in Agents : Level(a)
  BY <1>7 DEF CapInv
<1>9. OneAtATime'
  BY <1>4, <1>6, <1>8 DEF OneAtATime, Running
<1>10. \A a \in Agents : Level(a)'
  <2>1. \A d \in Cycles : ~Running(d)' => ~Running(d)
    BY <1>1, <1>4 DEF Running, Ended
  <2> QED
    BY <1>1, <1>8, <2>1 DEF Level
<1>11. ASSUME NEW d \in Cycles, Running(d)' PROVE InHand(d)'
  <2>1. CASE d # c
    BY <1>1, <1>4, <1>5, <1>8, <1>11, <2>1 DEF InHand, Running
  <2>2. CASE d = c
    <3>1. cyc'[c] = n /\ n.amount \in Nat /\ n.stage \notin Permitted
      BY <1>2, <1>3 DEF CycleType, Permitted, Sending, Attempting
    <3>2. Owner[c] \in Agents /\ volume[Owner[c]] \in Nat /\ executed[Owner[c]] \in Nat
      BY <1>3, OwnerAssumption
    <3>3. executed[Owner[c]] <= volume[Owner[c]]
      BY <1>6, <1>8, <3>2 DEF Level
    <3>4. executed[Owner[c]] <= volume[Owner[c]] + n.amount
      BY <3>1, <3>2, <3>3
    <3> QED
      BY <1>1, <2>2, <3>1, <3>3, <3>4 DEF InHand
  <2> QED
    BY <2>1, <2>2
<1> QED
  BY <1>9, <1>10, <1>11

(* A transaction that lands is the first one of a cycle that still runs.   *)
LEMMA LandWithinCap ==
  ASSUME CycleInv, BookInv, CapInv, NEW c \in Cycles, NEW n \in Attempts, Land(<<c, n>>)
  PROVE  CapInv'
<1> SUFFICES ASSUME Undisturbed'
             PROVE  /\ OneAtATime'
                    /\ \A d \in Cycles : Running(d)' => InHand(d)'
                    /\ \A a \in Agents : Level(a)'
  BY DEF CapInv
<1> DEFINE o == Owner[c]
<1>1. /\ tx[<<c, n>>] = "pending" /\ tx' = [tx EXCEPT ![<<c, n>>] = "landed"]
      /\ executed' = [executed EXCEPT ![o] = executed[o] + cyc[c].amount]
      /\ UNCHANGED <<cyc, volume, overlapped, restarts>>
  BY DEF Land
<1>2. /\ o \in Agents /\ volume[o] \in Nat /\ executed[o] \in Nat /\ cyc[c].amount \in Nat
      /\ executed \in [Agents -> Nat]
      /\ tx \in [Cycles \X Attempts -> {"none", "pending", "landed", "dropped"}]
  BY OwnerAssumption DEF CycleInv, TypeOK, CycleType
<1>3. /\ LandedOf(c)' = LandedOf(c) \cup {n} /\ n \notin LandedOf(c)
      /\ \A d \in Cycles : d # c => LandedOf(d)' = LandedOf(d)
  BY <1>1, <1>2 DEF LandedOf
<1>4. \A d \in Cycles : ~Unrecorded(d)'
  BY DEF Undisturbed
<1>5. LandedOf(c) = {}
  <2>1. ASSUME NEW m \in LandedOf(c) PROVE FALSE
    <3>1. Cardinality(LandedOf(c)') > 1
      BY <1>3, LandedFinite, TwoLanded
    <3> QED
      BY <1>4, <3>1 DEF Unrecorded
  <2> QED
    BY <2>1
<1>6. cyc[c].stage \in Sending
  <2>1. cyc[c].stage \in Sending \cup {"done"}
    BY <1>1, LandedRan
  <2>2. CASE cyc[c].stage = "done"
    <3>1. cyc[c].entry # "TX_CONFIRMED"
      BY <1>5 DEF BookInv, Settled
    <3> QED
      BY <1>1, <1>3, <1>4, <2>2, <3>1 DEF Unrecorded
  <2> QED
    BY <2>1, <2>2
<1>7. Running(c) /\ cyc[c].stage \in Permitted
  BY <1>6 DEF Running, Ended, Permitted, Sending, Attempting
<1>8. Undisturbed
  <2>1. ASSUME NEW d \in Cycles PROVE ~Unrecorded(d)
    <3>1. CASE d = c
      BY <1>5, <3>1, FS_EmptySet DEF Unrecorded
    <3>2. CASE d # c
      BY <1>1, <1>3, <1>4, <3>2 DEF Unrecorded
    <3> QED
      BY <3>1, <3>2
  <2> QED
    BY <1>1, <2>1 DEF Undisturbed
<1>9. /\ OneAtATime /\ \A d \in Cycles : Running(d) => InHand(d)
      /\ \A a \in Agents : Level(a)
  BY <1>8 DEF CapInv
<1>10. \A d \in Cycles : Running(d)' <=> Running(d)
  BY <1>1 DEF Running
<1>11. OneAtATime'
  BY <1>9, <1>10 DEF OneAtATime
<1>12. /\ executed'[o] = executed[o] + cyc[c].amount
       /\ \A a \in Agents : a # o => executed'[a] = executed[a]
  BY <1>1, <1>2
<1>13. ASSUME NEW d \in Cycles, Running(d)' PROVE InHand(d)'
  <2>1. InHand(d)
    BY <1>9, <1>10, <1>13
  <2>2. CASE d = c
    <3>1. LandedOf(c)' # {}
      BY <1>3
    <3>2. executed[o] <= volume[o]
      BY <1>5, <2>1, <2>2 DEF InHand
    <3>3. executed'[o] <= volume[o] + cyc[c].amount
      BY <1>2, <1>12, <3>2
    <3> QED
      BY <1>1, <2>1, <2>2, <3>1, <3>3 DEF InHand
  <2>3. CASE d # c
    <3>1. Owner[d] # o /\ Owner[d] \in Agents
      BY <1>7, <1>9, <1>10, <1>13, <2>3, OwnerAssumption DEF OneAtATime
    <3> QED
      BY <1>1, <1>3, <1>12, <2>1, <2>3, <3>1 DEF InHand
  <2> QED
    BY <2>2, <2>3
<1>14. ASSUME NEW a \in Agents PROVE Level(a)'
  <2>1. CASE a = o
    BY <1>1, <1>7, <1>9, <1>10, <2>1 DEF Level
  <2>2. CASE a # o
    BY <1>1, <1>9, <1>10, <1>12, <2>2 DEF Level
  <2> QED
    BY <2>1, <2>2
<1> QED
  BY <1>11, <1>13, <1>14

(* At midnight the books of the day are closed.                            *)
LEMMA MidnightWithinCap ==
  ASSUME CycleInv, CapInv, Midnight
  PROVE  CapInv'
<1>1. /\ UNCHANGED <<cyc, tx, overlapped, restarts>>
      /\ \A a \in Agents : volume'[a] = 0 /\ executed'[a] = 0
  BY DEF Midnight
<1>2. Undisturbed' = Undisturbed
  BY <1>1 DEF Undisturbed, Unrecorded, LandedOf
<1>3. \A d \in Cycles : Running(d)' <=> Running(d)
  BY <1>1 DEF Running
<1>4. OneAtATime' <=> OneAtATime
  BY <1>3 DEF OneAtATime
<1>5. ASSUME NEW d \in Cycles PROVE InHand(d)'
  <2>1. Owner[d] \in Agents /\ cyc[d].amount \in Nat /\ Fits(d)
    BY OwnerAssumption DEF CycleInv, TypeOK, CycleType
  <2>2. Profile[Owner[d]].dailyCap \in Nat
    BY <2>1, Numbers
  <2> QED
    BY <1>1, <2>1, <2>2 DEF InHand, Fits
<1>6. ASSUME NEW a \in Agents PROVE Level(a)'
  BY <1>1, Numbers DEF Level
<1> QED
  BY <1>2, <1>4, <1>5, <1>6 DEF CapInv

(* Every step of the system.                                               *)
LEMMA CapInvStep ==
  ASSUME CycleInv, BookInv, CapInv, [Next]_vars
  PROVE  CapInv'
<1>1. ASSUME NEW t \in Cycles \X Attempts, Land(t) PROVE CapInv'
  <2>1. PICK c \in Cycles, n \in Attempts : t = <<c, n>>
    OBVIOUS
  <2> QED
    BY <1>1, <2>1, LandWithinCap
<1>2. CASE \/ \E t \in Cycles \X Attempts : Drop(t)
           \/ PassTime
           \/ UNCHANGED vars
  <2>1. /\ UNCHANGED <<cyc, volume, executed, overlapped, restarts>>
    BY <1>2 DEF Drop, PassTime, vars, cycleVars
  <2>2. \A t \in Cycles \X Attempts : tx'[t] = "landed" <=> tx[t] = "landed"
    <3>1. tx \in [Cycles \X Attempts -> {"none", "pending", "landed", "dropped"}]
      BY DEF CycleInv, TypeOK
    <3> QED
      BY <1>2, <3>1 DEF Drop, PassTime, vars, cycleVars
  <2>3. \A d \in Cycles : LandedOf(d)' = LandedOf(d)
    BY <2>2 DEF LandedOf
  <2>4. Undisturbed' <=> Undisturbed
    BY <2>1, <2>3 DEF Undisturbed, Unrecorded
  <2>5. \A d \in Cycles : (Running(d)' <=> Running(d)) /\ (InHand(d)' <=> InHand(d))
    BY <2>1, <2>3 DEF Running, InHand
  <2>6. \A a \in Agents : Level(a)' <=> Level(a)
    BY <2>1, <2>5 DEF Level
  <2>7. OneAtATime' <=> OneAtATime
    BY <2>5 DEF OneAtATime
  <2> QED
    BY <2>4, <2>5, <2>6, <2>7 DEF CapInv
<1>3. CASE ProcessRestart
  <2>1. restarts' # 0
    <3>1. restarts \in Nat
      BY DEF CycleInv, TypeOK
    <3>2. restarts' = restarts + 1
      BY <1>3 DEF ProcessRestart
    <3> QED
      BY <3>1, <3>2
  <2> QED
    BY <2>1 DEF CapInv, Undisturbed
<1> QED
  BY <1>1, <1>2, <1>3, StepWithinCap, StartWithinCap, MidnightWithinCap DEF Next

(* The daily cap bounds what the chain really swapped, unless cycles of an *)
(* agent overlapped, the process restarted, or a landed swap is missing    *)
(* from the audit log (policy-engine.ts:199, agent.ts:296): these three    *)
(* are the only ways past check 5.                                         *)
THEOREM DailyCapHolds == Spec => []DailyCapUnlessUnrecorded
<1> DEFINE I == CycleInv /\ BookInv /\ CapInv
<1>1. Init => I
  BY CycleInvInit, BookInvInit, CapInvInit
<1>2. I /\ [Next]_vars => I'
  BY CycleInvStep, BookInvStep, CapInvStep
<1>3. I => DailyCapUnlessUnrecorded
  <2> SUFFICES ASSUME CycleInv, BookInv, CapInv, Undisturbed, NEW a \in Agents
               PROVE  executed[a] <= Profile[a].dailyCap
    BY DEF DailyCapUnlessUnrecorded, Undisturbed
  <2>1. /\ volume[a] \in Nat /\ executed[a] \in Nat /\ Profile[a].dailyCap \in Nat
        /\ Level(a) /\ \A c \in Cycles : Running(c) => InHand(c)
    BY Numbers DEF CycleInv, TypeOK, CapInv
  <2>2. CASE \A c \in Cycles : Owner[c] = a => ~Running(c)
    BY <2>1, <2>2 DEF Level
  <2>3. CASE \E c \in Cycles : Owner[c] = a /\ Running(c)
    <3>1. PICK c \in Cycles : Owner[c] = a /\ Running(c)
      BY <2>3
    <3>2. InHand(c) /\ cyc[c].amount \in Nat
      BY <2>1, <3>1 DEF CycleInv, TypeOK, CycleType
    <3>3. CASE LandedOf(c) = {}
      BY <2>1, <3>1, <3>2, <3>3 DEF InHand, Level
    <3>4. CASE LandedOf(c) # {}
      <4>1. PICK n \in Attempts : tx[<<c, n>>] = "landed"
        BY <3>4 DEF LandedOf
      <4>2. cyc[c].stage \in Permitted
        BY <3>1, <4>1, LandedRan DEF Permitted, Running, Ended
      <4> QED
        BY <2>1, <3>1, <3>2, <4>2 DEF InHand
    <3> QED
      BY <3>3, <3>4
  <2> QED
    BY <2>2, <2>3
<1> HIDE DEF I
<1> QED
  BY <1>1, <1>2, <1>3, PTL DEF Spec
=============================================================================
