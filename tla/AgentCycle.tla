------------------------------ MODULE AgentCycle ------------------------------
(***************************************************************************)
(* Agent.runCycle() (backend/src/agent/agent.ts) with the services it      *)
(* calls: the Policy Engine, the proof anchor and                          *)
(* BroadcastService.executeSwap() (backend/src/protocol).                  *)
(*                                                                         *)
(* A cycle is one execution of runCycle.  The orchestrator starts cycles   *)
(* from a timer and on demand and waits for none of them, so cycles of one *)
(* agent may overlap; they share the agent's limiter and stop-loss circuit *)
(* and its volume in the audit log.  Every await is a step boundary.  What *)
(* is between two awaits is one action: in particular the volume is read   *)
(* and the policy checked in one action, but the volume grows only after   *)
(* the swap has been confirmed and the balance fetched.                    *)
(***************************************************************************)
EXTENDS PolicyEngine, Sequences

CONSTANTS
  Cycles,         (* cycle numbers 1..n, bound of a behaviour                *)
  Owner,          (* the agent of each cycle                                 *)
  MAX_RETRY,      (* retries of executeSwap after the first attempt          *)
  MaxRestarts,    (* bound: process restarts                                 *)
  MaxMidnights    (* bound: day changes                                      *)

ASSUME CyclesAssumption == Cycles \subseteq Nat /\ IsFiniteSet(Cycles)
ASSUME OwnerAssumption  == Owner \in [Cycles -> Agents]
ASSUME RetryAssumption  == MAX_RETRY \in Nat
ASSUME DecisionAssumption == Requests # {}

VARIABLES
  cyc,          (* locals of each cycle, see CycleType                      *)
  volume,       (* getDailyVolumeSOL: TX_CONFIRMED amounts of today in the  *)
                (* audit log's buffer                                       *)
  tx,           (* transactions on their way: state of [cycle, attempt]     *)
  executed,     (* history: SOL the chain swapped for each agent today      *)
  overlapped,   (* history: a cycle started while another one was running   *)
  restarts, midnights

cycleVars == <<cyc, volume, tx, executed, overlapped, restarts, midnights>>
vars == <<policyVars, cycleVars>>

Attempts == 0..MAX_RETRY

(***************************************************************************)
(* Stages are named for what the cycle awaits next.                        *)
(***************************************************************************)
Stages == {"idle", "sense", "think", "requote", "audit", "police", "anchor",
           "build", "sign", "cosign", "submit", "confirm", "settle", "done"}
Ended   == {"idle", "done"}
Running(c) == cyc[c].stage \notin Ended

(* The last audit-log entry of a cycle, or "" while it runs. *)
Entries == {"", "LLM_PARSE_ERROR", "GUARDIAN_SAFETY_VETO", "GUARDIAN_AUDIT",
            "POLICY_FAIL", "POLICY_PASS", "CYCLE_ERROR", "TX_CONFIRMED",
            "TX_FAILED", "DEVNET_ALT_SKIP", "LOST"}

CycleType ==
  [stage: Stages,
   req: RequestType,       (* the decision with the prices and the balance  *)
   modified: Int,          (* modifiedAmount of a MODIFY verdict, or -1     *)
   amount: Nat,            (* finalDecision.amount of an approved swap      *)
   attempt: Nat,           (* attempts of executeSwap that have failed      *)
   entry: Entries]

NewCycle ==
  [stage |-> "idle", req |-> CHOOSE r \in Requests : TRUE, modified |-> -1,
   amount |-> 0, attempt |-> 0, entry |-> ""]

Init ==
  /\ PolicyInit
  /\ cyc = [c \in Cycles |-> NewCycle]
  /\ volume = [a \in Agents |-> 0]
  /\ tx = [t \in Cycles \X Attempts |-> "none"]
  /\ executed = [a \in Agents |-> 0]
  /\ overlapped = FALSE
  /\ restarts = 0 /\ midnights = 0

-----------------------------------------------------------------------------
(* Steps of a cycle that leave everything outside it alone. *)
Private == UNCHANGED <<policyVars, volume, tx, executed, overlapped, restarts, midnights>>

At(c, stage) == cyc[c].stage = stage
GoTo(c, stage) == cyc' = [cyc EXCEPT ![c].stage = stage]
EndWith(c, entry) == cyc' = [cyc EXCEPT ![c].stage = "done", ![c].entry = entry]

(* cycleCount++ numbers the cycles of an agent in the order they start. *)
Start(c) ==
  /\ At(c, "idle")
  /\ \A d \in Cycles : d < c /\ Owner[d] = Owner[c] => ~At(d, "idle")
  /\ GoTo(c, "sense")
  /\ overlapped' = (overlapped \/ \E d \in Cycles : Owner[d] = Owner[c] /\ Running(d))
  /\ UNCHANGED <<policyVars, volume, tx, executed, restarts, midnights>>

(* Layer 1 and the balance: prices, pre-scan quote (which never throws),   *)
(* getBalance.  A throw ends the cycle in the outer catch.                 *)
Sense(c) ==
  /\ At(c, "sense")
  /\ GoTo(c, "think") \/ EndWith(c, "CYCLE_ERROR")
  /\ Private

(* Layer 2: the Strategist's decision on those prices and that balance.    *)
(* The prompt is built outside its try block: a missing SKILLS.md throws.  *)
Think(c) ==
  /\ At(c, "think")
  /\ \/ \E r \in Requests :
          cyc' = [cyc EXCEPT ![c].req = r,
                             ![c].stage = IF r.decision = "SWAP" THEN "requote" ELSE "audit"]
     \/ EndWith(c, "LLM_PARSE_ERROR")
     \/ EndWith(c, "CYCLE_ERROR")
  /\ Private

(* Layer 1c: the pre-scan quote is kept when it is for the decided pair    *)
(* and without error, and replaced otherwise; an error only marks it.      *)
Requote(c) ==
  /\ At(c, "requote")
  /\ \E quoted \in BOOLEAN :
       /\ cyc[c].req.quoted => quoted
       /\ cyc' = [cyc EXCEPT ![c].req.quoted = quoted, ![c].stage = "audit"]
  /\ Private

(* Layer 3: errors, half verdicts and increases are safety vetoes; MODIFY  *)
(* lowers the amount of the decision that goes on.  The prompt may throw   *)
(* as in Layer 2.                                                          *)
GuardianAudit(c) ==
  /\ At(c, "audit")
  /\ \/ GoTo(c, "police")
     \/ EndWith(c, "GUARDIAN_AUDIT")
     \/ EndWith(c, "GUARDIAN_SAFETY_VETO")
     \/ EndWith(c, "CYCLE_ERROR")
     \/ \E lower \in {0, cyc[c].req.amount \div 2} :
          /\ lower < cyc[c].req.amount
          /\ cyc' = [cyc EXCEPT ![c].req.amount = lower, ![c].modified = lower,
                                ![c].stage = "police"]
  /\ Private

(* Layer 4: read today's volume and check, without an await in between.   *)
(* Only an approved SWAP goes on.                                          *)
Police(c) ==
  LET a == Owner[c]
      approved == result'[a].outcome = "APPROVED"
  IN /\ At(c, "police")
     /\ Check(a, [cyc[c].req EXCEPT !.volume = volume[a]])
     /\ IF approved /\ result'[a].decision = "SWAP"
        THEN cyc' = [cyc EXCEPT ![c].amount = result'[a].amount, ![c].stage = "anchor"]
        ELSE EndWith(c, IF approved THEN "POLICY_PASS" ELSE "POLICY_FAIL")
     /\ UNCHANGED <<volume, tx, executed, overlapped, restarts, midnights>>

(* Layer 5: the memo transaction; a throw ends the cycle in the outer catch.*)
AnchorProof(c) ==
  /\ At(c, "anchor")
  /\ GoTo(c, "build") \/ EndWith(c, "CYCLE_ERROR")
  /\ Private

-----------------------------------------------------------------------------
(* Bug: the retry sends the old transaction to the paymaster again.        *)
RetryFromCosign(c, altError) ==
  IF cyc[c].attempt < MAX_RETRY
  THEN cyc' = [cyc EXCEPT ![c].attempt = @ + 1, ![c].stage = "cosign"]
  ELSE EndWith(c, IF altError THEN "DEVNET_ALT_SKIP" ELSE "TX_FAILED")

(* Bug: failed attempts are not counted.                                   *)
RetryForever(c, altError) ==
  IF cyc[c].attempt < MAX_RETRY
  THEN cyc' = [cyc EXCEPT ![c].stage = "build"]
  ELSE EndWith(c, IF altError THEN "DEVNET_ALT_SKIP" ELSE "TX_FAILED")

(***************************************************************************)
(* Layers 6 and 7, executeSwap: any throw of an attempt leads to a second, *)
(* entirely new transaction after two seconds, and after the last attempt  *)
(* to the caller's catch, which tells a missing lookup table from the rest.*)
(***************************************************************************)
AttemptFails(c, altError) ==
  IF cyc[c].attempt < MAX_RETRY
  THEN cyc' = [cyc EXCEPT ![c].attempt = @ + 1, ![c].stage = "build"]
  ELSE EndWith(c, IF altError THEN "DEVNET_ALT_SKIP" ELSE "TX_FAILED")

Build(c) ==
  /\ At(c, "build")
  /\ GoTo(c, "sign") \/ AttemptFails(c, FALSE)
  /\ Private

SignInVault(c) ==
  /\ At(c, "sign")
  /\ GoTo(c, "cosign") \/ AttemptFails(c, FALSE)
  /\ Private

KoraCosign(c) ==
  /\ At(c, "cosign")
  /\ \/ GoTo(c, "submit")
     \/ \E alt \in BOOLEAN : AttemptFails(c, alt)
  /\ Private

(* The RPC node may take the transaction and the answer may be lost. *)
Submit(c) ==
  LET t == <<c, cyc[c].attempt>>
  IN /\ At(c, "submit")
     /\ \/ tx' = [tx EXCEPT ![t] = "pending"] /\ (GoTo(c, "confirm") \/ AttemptFails(c, FALSE))
        \/ \E alt \in BOOLEAN : AttemptFails(c, alt) /\ UNCHANGED tx
     /\ UNCHANGED <<policyVars, volume, executed, overlapped, restarts, midnights>>

(* Bug: a transaction that is still pending counts as confirmed.           *)
ConfirmPending(c) ==
  /\ At(c, "confirm")
  /\ \/ tx[<<c, cyc[c].attempt>>] # "dropped" /\ GoTo(c, "settle")
     \/ AttemptFails(c, FALSE)
  /\ Private

(* confirmTransaction returns for a landed transaction; it throws when the *)
(* transaction failed or expired, and when the RPC node does not answer.   *)
Confirm(c) ==
  /\ At(c, "confirm")
  /\ \/ tx[<<c, cyc[c].attempt>>] = "landed" /\ GoTo(c, "settle")
     \/ AttemptFails(c, FALSE)
  /\ Private

(* Bug: a failed record takes back a volume that was never added.          *)
SettleRollsBack(c) ==
  /\ At(c, "settle")
  /\ \/ /\ EndWith(c, "TX_CONFIRMED")
        /\ volume' = [volume EXCEPT ![Owner[c]] = @ + cyc[c].amount]
     \/ /\ EndWith(c, "TX_FAILED")
        /\ volume' = [volume EXCEPT ![Owner[c]] = @ - cyc[c].amount]
  /\ UNCHANGED <<policyVars, tx, executed, overlapped, restarts, midnights>>

(* Bug: the confirmed entry carries no amount.                             *)
SettleWithoutAmount(c) ==
  /\ At(c, "settle")
  /\ EndWith(c, "TX_CONFIRMED") \/ EndWith(c, "TX_FAILED")
  /\ UNCHANGED <<policyVars, volume, tx, executed, overlapped, restarts, midnights>>

(* Bug: the confirmed entry is written twice.                              *)
SettleTwice(c) ==
  /\ At(c, "settle")
  /\ \/ /\ EndWith(c, "TX_CONFIRMED")
        /\ volume' = [volume EXCEPT ![Owner[c]] = @ + 2 * cyc[c].amount]
     \/ EndWith(c, "TX_FAILED") /\ UNCHANGED volume
  /\ UNCHANGED <<policyVars, tx, executed, overlapped, restarts, midnights>>

(* TX_CONFIRMED has been emitted; the balance is fetched before the record *)
(* is written, and its failure is caught as if the swap had failed.        *)
Settle(c) ==
  /\ At(c, "settle")
  /\ \/ /\ EndWith(c, "TX_CONFIRMED")
        /\ volume' = [volume EXCEPT ![Owner[c]] = @ + cyc[c].amount]
     \/ EndWith(c, "TX_FAILED") /\ UNCHANGED volume
  /\ UNCHANGED <<policyVars, tx, executed, overlapped, restarts, midnights>>

-----------------------------------------------------------------------------
(* The chain: a pending transaction lands once, or fails or expires. *)
Land(t) ==
  /\ tx[t] = "pending"
  /\ tx' = [tx EXCEPT ![t] = "landed"]
  /\ executed' = [executed EXCEPT ![Owner[t[1]]] = @ + cyc[t[1]].amount]
  /\ UNCHANGED <<policyVars, cyc, volume, overlapped, restarts, midnights>>

Drop(t) ==
  /\ tx[t] = "pending"
  /\ tx' = [tx EXCEPT ![t] = "dropped"]
  /\ UNCHANGED <<policyVars, cyc, volume, executed, overlapped, restarts, midnights>>

(* Local midnight: entries of yesterday no longer count. *)
Midnight ==
  /\ midnights < MaxMidnights
  /\ midnights' = midnights + 1
  /\ volume' = [a \in Agents |-> 0]
  /\ executed' = [a \in Agents |-> 0]
  /\ UNCHANGED <<policyVars, cyc, tx, overlapped, restarts>>

(* process.exit, a crash or a deployment: running cycles stop where they   *)
(* are, and limiter, circuit and buffer start empty in the new process.    *)
ProcessRestart ==
  /\ restarts < MaxRestarts
  /\ restarts' = restarts + 1
  /\ Restart
  /\ cyc' = [c \in Cycles |-> IF Running(c)
               THEN [cyc[c] EXCEPT !.stage = "done", !.entry = "LOST"] ELSE cyc[c]]
  /\ volume' = [a \in Agents |-> 0]
  /\ UNCHANGED <<tx, executed, overlapped, midnights>>

PassTime == Tick /\ UNCHANGED cycleVars

CycleStep(c) ==
  \/ Sense(c) \/ Think(c) \/ Requote(c) \/ GuardianAudit(c) \/ Police(c)
  \/ AnchorProof(c) \/ Build(c) \/ SignInVault(c) \/ KoraCosign(c)
  \/ Submit(c) \/ Confirm(c) \/ Settle(c)

Next ==
  \/ \E c \in Cycles : Start(c) \/ CycleStep(c)
  \/ \E t \in Cycles \X Attempts : Land(t) \/ Drop(t)
  \/ Midnight
  \/ ProcessRestart
  \/ PassTime

(* Every awaited call is answered or fails by a timeout of its client, so  *)
(* a running cycle keeps taking steps; nothing else is promised.           *)
Fairness == \A c \in Cycles : WF_vars(CycleStep(c))

Spec == Init /\ [][Next]_vars /\ Fairness

-----------------------------------------------------------------------------
TypeOK ==
  /\ PolicyTypeOK
  /\ cyc \in [Cycles -> CycleType]
  /\ volume \in [Agents -> Nat]
  /\ tx \in [Cycles \X Attempts -> {"none", "pending", "landed", "dropped"}]
  /\ executed \in [Agents -> Nat]
  /\ overlapped \in BOOLEAN
  /\ restarts \in Nat /\ midnights \in Nat

(***************************************************************************)
(* The pipeline implements the air gap.                                    *)
(***************************************************************************)
GateOf(stage) ==
  CASE stage \in {"idle", "sense", "think"}         -> 0
    [] stage \in {"requote", "audit"}               -> 1
    [] stage = "police"                             -> 2
    [] stage = "anchor"                             -> 3
    [] stage \in {"build", "sign"}                  -> 4
    [] stage = "cosign"                             -> 5
    [] stage \in {"submit", "confirm", "settle"}    -> 6
    [] stage = "done"                               -> 7

SwapsIn(states) ==
  {[cycle |-> t[1], attempt |-> t[2], amount |-> cyc[t[1]].amount] :
     t \in {u \in Cycles \X Attempts : tx[u] \in states}}

Abstract ==
  INSTANCE AirGap WITH
    gate   <- [c \in Cycles |-> GateOf(cyc[c].stage)],
    permit <- [c \in Cycles |-> cyc[c].amount],
    sent   <- SwapsIn({"pending", "landed", "dropped"}),
    landed <- SwapsIn({"landed"})

(* No swap reaches the network before every layer has passed it, in order, *)
(* nor with another amount than the policy's; a retry signs again; a cycle *)
(* that ended never sends (backend/README.md, the seven layers).           *)
ImplementsAirGap == Abstract!AirGapSpec

LandedOf(c) == {n \in Attempts : tx[<<c, n>>] = "landed"}

(* A swap that moved funds and that the audit log does not know, or twice. *)
Unrecorded(c) ==
  \/ Cardinality(LandedOf(c)) > 1
  \/ /\ cyc[c].stage = "done"
     /\ LandedOf(c) # {}
     /\ cyc[c].entry # "TX_CONFIRMED"

(* The daily cap bounds what the chain really swapped, unless cycles of an *)
(* agent overlapped, the process restarted, or a landed swap was left out  *)
(* of the audit log: these are the only ways past check 5.                 *)
DailyCapUnlessUnrecorded ==
  ~overlapped /\ restarts = 0 /\ (\A c \in Cycles : ~Unrecorded(c)) =>
    \A a \in Agents : executed[a] <= Profile[a].dailyCap

(* However many cycles overlap, each can take the recorded volume past the *)
(* cap by at most one maximal swap, the first by none.                     *)
RecordedOvershootBounded ==
  \A a \in Agents :
    LET mine == {c \in Cycles : Owner[c] = a}
    IN mine # {} =>
         volume[a] <= Profile[a].dailyCap + (Cardinality(mine) - 1) * Profile[a].maxTx

(* The log never claims a swap that did not happen: what check 5 counts    *)
(* has been executed on the chain that day (an entry written just after    *)
(* midnight belongs to a swap of the day before).                          *)
VolumeIsExecuted ==
  /\ \A c \in Cycles : cyc[c].entry = "TX_CONFIRMED" => LandedOf(c) # {}
  /\ midnights = 0 => \A a \in Agents : volume[a] <= executed[a]

(* The awaits a cycle has ahead of it at most: each attempt of executeSwap *)
(* has six.                                                                *)
Course == <<"sense", "think", "requote", "audit", "police", "anchor",
            "build", "sign", "cosign", "submit", "confirm", "settle">>

AwaitsLeft(c) ==
  LET at == CHOOSE i \in DOMAIN Course : Course[i] = cyc[c].stage
  IN  Len(Course) - at + 6 * (MAX_RETRY - cyc[c].attempt)

(* Every cycle that starts ends, on whatever path, so the agent is ready   *)
(* for the next one (doc/agent.md, "Fault Tolerance"): whatever a running  *)
(* cycle does brings it nearer to its end, and one that ended stays so.    *)
(* With Fairness, Running(c) ~> ~Running(c) follows.                       *)
CycleEnds ==
  [][\A c \in Cycles :
       /\ Running(c) /\ Running(c)' => cyc'[c] = cyc[c] \/ AwaitsLeft(c)' < AwaitsLeft(c)
       /\ cyc[c].stage = "done" => cyc'[c] = cyc[c]]_vars

(***************************************************************************)
(* Statements of the repository that the code does not keep.               *)
(***************************************************************************)
(* "Cycle overlap is safe by design" (agent-orchestrator.ts:15), "it       *)
(* cannot exceed the maximum transaction amount, daily volume cap"         *)
(* (DEEP_DIVE.md:731): overlap alone does not take the executed volume     *)
(* past the daily cap.                                                     *)
OverlapKeepsDailyCap ==
  restarts = 0 /\ midnights = 0 /\ (\A c \in Cycles : ~Unrecorded(c)) =>
    \A a \in Agents : executed[a] <= Profile[a].dailyCap

(* "No funds were lost" (telegram-bot.ts:293): the chain has executed no   *)
(* swap of a cycle that is reported as TX_FAILED.                          *)
FailedSwapMovedNothing ==
  \A c \in Cycles : cyc[c].entry = "TX_FAILED" => LandedOf(c) = {}

(* "modifiedAmount is returned and applied" (DEEP_DIVE.md:275): a swap the *)
(* Guardian has lowered is sent with at most the lowered amount.           *)
ModifiedAmountApplied ==
  \A t \in Cycles \X Attempts :
    tx[t] # "none" /\ cyc[t[1]].modified >= 0 => cyc[t[1]].amount <= cyc[t[1]].modified
=============================================================================
