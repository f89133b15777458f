------------------------------- MODULE ProofTrail -------------------------------
(***************************************************************************)
(* Layer 5, the proof of reasoning (backend/src/proof/proof-service.ts),   *)
(* with the part of runCycle around it and the look-up of                  *)
(* GET /api/proofs/:hash.                                                  *)
(*                                                                         *)
(* The hash of a cycle's reasoning goes to the chain in a memo before the  *)
(* swap.  The record that explains it is written afterwards: to the audit  *)
(* log, whose table is AuditLog's matter, and in production to the table   *)
(* ProofRecord, with a write nobody awaits.  SHA-256 is taken to be        *)
(* injective, so a hash is the very text it is computed from.              *)
(***************************************************************************)
EXTENDS Integers, SequencesExt

CONSTANTS
  Agents,
  Amounts,                 (* strategistDecision.amount                     *)
  MaxRuns, MaxNow          (* bounds of a behaviour                         *)

ASSUME BoundsAssumption == MaxRuns \in Nat /\ MaxNow \in Nat

VARIABLES
  production,     (* NODE_ENV                                               *)
  now,            (* Date.now()                                             *)
  cycleCount,     (* of each Agent object, so of the present process        *)
  runs,           (* the cycles that reached Layer 5, in that order         *)
  buffer,         (* PROOF_ANCHORED entries in memory                       *)
  inFlight,       (* ProofRecord rows on their way                          *)
  rows            (* ProofRecord rows                                       *)

vars == <<production, now, cycleCount, runs, buffer, inFlight, rows>>

Runs == 1..Len(runs)

(***************************************************************************)
(* A JSON object: its fields, and the order it lists their names in.  The  *)
(* program's objects keep the order they were written in; JSONB lists      *)
(* short names first.  Nested objects carry what the properties need.      *)
(***************************************************************************)
WrittenOrder == <<"agentId", "cycle", "timestamp", "strategistDecision",
                  "guardianVerdict", "policyChecks", "priceSnapshot">>
JsonbOrder   == <<"cycle", "agentId", "timestamp", "policyChecks", "priceSnapshot",
                  "guardianVerdict", "strategistDecision">>
SortedKeys   == <<"agentId", "cycle", "guardianVerdict", "policyChecks",
                  "priceSnapshot", "strategistDecision", "timestamp">>

Fields(a, cycle, timestamp, amount, sensed) ==
  [agentId |-> a, cycle |-> cycle, timestamp |-> timestamp,
   strategistDecision |-> [decision |-> "SWAP", amount |-> amount],
   guardianVerdict    |-> [verdict |-> "APPROVE"],
   policyChecks       |-> [passed |-> TRUE],
   priceSnapshot      |-> [timestamp |-> sensed, prices |-> sensed]]

Payload(fields) == [order |-> WrittenOrder, fields |-> fields]

Payloads ==
  {Payload(Fields(a, c, t, x, s)) :
     a \in Agents, c \in 1..MaxRuns, t \in 0..MaxNow, x \in Amounts, s \in 0..MaxNow}

(* An array as second argument of JSON.stringify lists the names that are  *)
(* written, in its own order, and does so for nested objects as well.      *)
Stringify(fields, keys) ==
  LET Kept(object) == [k \in DOMAIN object \cap ToSet(keys) |-> object[k]]
  IN <<keys, [fields EXCEPT !.strategistDecision = Kept(@), !.guardianVerdict = Kept(@),
                            !.policyChecks = Kept(@), !.priceSnapshot = Kept(@)]>>

(* Bug: the names are not sorted.                                          *)
SerializeAsStored(p) == Stringify(p.fields, p.order)

(* Bug: the prices are stripped of their time, too.                        *)
SerializeUntimed(p) ==
  Stringify([p.fields EXCEPT !.priceSnapshot = [stale |-> FALSE]], SortedKeys)

(* serializePayload: Object.keys(payload).sort().                          *)
Serialize(p) == Stringify(p.fields, SortedKeys)

Hash(p) == Serialize(p)

Init ==
  /\ production \in BOOLEAN
  /\ now = 0
  /\ cycleCount = [a \in Agents |-> 0]
  /\ runs = <<>>
  /\ buffer = {} /\ inFlight = {} /\ rows = {}

-----------------------------------------------------------------------------
(* Bug: the payload carries no time of its own.                            *)
AnchorUntimed(a) ==
  /\ Len(runs) < MaxRuns
  /\ cycleCount' = [cycleCount EXCEPT ![a] = @ + 1]
  /\ \E x \in Amounts, sensed \in 0..now :
       LET p == Payload(Fields(a, cycleCount'[a], 0, x, sensed))
       IN runs' = Append(runs, [payload |-> p, hash |-> Hash(p), memo |-> "sent",
                                stage |-> "anchor"])
  /\ UNCHANGED <<production, now, buffer, inFlight, rows>>

(* Bug: the cycle is counted at its start and again for the proof.         *)
AnchorCountsTwice(a) ==
  /\ Len(runs) < MaxRuns
  /\ cycleCount' = [cycleCount EXCEPT ![a] = @ + 2]
  /\ \E x \in Amounts, sensed \in 0..now :
       LET p == Payload(Fields(a, cycleCount'[a], now, x, sensed))
       IN runs' = Append(runs, [payload |-> p, hash |-> Hash(p), memo |-> "sent",
                                stage |-> "anchor"])
  /\ UNCHANGED <<production, now, buffer, inFlight, rows>>

(* anchor, up to the await: the payload of prices sensed before, its hash, *)
(* and the memo transaction.                                               *)
Anchor(a) ==
  /\ Len(runs) < MaxRuns
  /\ cycleCount' = [cycleCount EXCEPT ![a] = @ + 1]
  /\ \E x \in Amounts, sensed \in 0..now :
       LET p == Payload(Fields(a, cycleCount'[a], now, x, sensed))
       IN runs' = Append(runs, [payload |-> p, hash |-> Hash(p), memo |-> "sent",
                                stage |-> "anchor"])
  /\ UNCHANGED <<production, now, buffer, inFlight, rows>>

(* The chain takes the memo, or it expires; perhaps nobody waits any more. *)
MemoLands(r) ==
  /\ runs[r].memo = "sent"
  /\ \E fate \in {"landed", "dropped"} : runs' = [runs EXCEPT ![r].memo = fate]
  /\ UNCHANGED <<production, now, cycleCount, buffer, inFlight, rows>>

(* anchor, after the await, and runCycle's log entry.                      *)
Record(r) ==
  LET record == [hash |-> runs[r].hash, payload |-> runs[r].payload]
  IN /\ runs[r].stage = "anchor"
     /\ runs[r].memo = "landed"
     /\ runs' = [runs EXCEPT ![r].stage = "swap"]
     /\ buffer' = buffer \cup {record}
     /\ inFlight' = IF production THEN inFlight \cup {record} ELSE inFlight
     /\ UNCHANGED <<production, now, cycleCount, rows>>

(* signAndSendMemo throws, which says nothing of the memo's fate.          *)
AnchorFails(r) ==
  /\ runs[r].stage = "anchor"
  /\ runs' = [runs EXCEPT ![r].stage = "failed"]
  /\ UNCHANGED <<production, now, cycleCount, buffer, inFlight, rows>>

(* Layers 6 and 7 follow; the confirmed swap names the proof's hash.       *)
Swap(r) ==
  /\ runs[r].stage = "swap"
  /\ \E outcome \in {"swapped", "failed"} : runs' = [runs EXCEPT ![r].stage = outcome]
  /\ UNCHANGED <<production, now, cycleCount, buffer, inFlight, rows>>

-----------------------------------------------------------------------------
(* The database stores the payload as JSONB. *)
RowLands(record) ==
  /\ inFlight' = inFlight \ {record}
  /\ rows' = rows \cup {[record EXCEPT !.payload.order = JsonbOrder]}
  /\ UNCHANGED <<production, now, cycleCount, runs, buffer>>

RowFails(record) ==
  /\ inFlight' = inFlight \ {record}
  /\ UNCHANGED <<production, now, cycleCount, runs, buffer, rows>>

(* Later entries push a proof out of the audit log's buffer. *)
Evict(record) ==
  /\ buffer' = buffer \ {record}
  /\ UNCHANGED <<production, now, cycleCount, runs, inFlight, rows>>

Tick ==
  /\ now < MaxNow
  /\ now' = now + 1
  /\ UNCHANGED <<production, cycleCount, runs, buffer, inFlight, rows>>

(* A new process numbers its cycles from 1 again.  It takes longer than a  *)
(* millisecond to come up; rows that were sent may still arrive.  The      *)
(* clock may stand still once no run is left to be stamped.                *)
Restart ==
  /\ now < MaxNow \/ Len(runs) = MaxRuns
  /\ now' = IF now < MaxNow THEN now + 1 ELSE now
  /\ cycleCount' = [a \in Agents |-> 0]
  /\ runs' = [r \in Runs |-> IF runs[r].stage \in {"anchor", "swap"}
                             THEN [runs[r] EXCEPT !.stage = "failed"] ELSE runs[r]]
  /\ buffer' = {}
  /\ UNCHANGED <<production, inFlight, rows>>

Next ==
  \/ \E a \in Agents : Anchor(a)
  \/ \E r \in Runs : MemoLands(r) \/ Record(r) \/ AnchorFails(r) \/ Swap(r)
  \/ \E record \in inFlight : RowLands(record) \/ RowFails(record)
  \/ \E record \in buffer : Evict(record)
  \/ Tick
  \/ Restart

Spec == Init /\ [][Next]_vars

-----------------------------------------------------------------------------
(* GET /api/proofs/:hash *)
Lookup(hash) == {record \in (IF production THEN rows ELSE buffer) : record.hash = hash}

Verify(payload, expectedHash) == Hash(payload) = expectedHash

RunType ==
  [payload: Payloads, hash: {Hash(p) : p \in Payloads},
   memo: {"sent", "landed", "dropped"}, stage: {"anchor", "swap", "swapped", "failed"}]

TypeOK ==
  /\ production \in BOOLEAN
  /\ now \in 0..MaxNow
  /\ cycleCount \in [Agents -> 0..MaxRuns]
  /\ \A r \in Runs : runs[r] \in RunType
  /\ \A record \in buffer \cup inFlight \cup rows :
       \E r \in Runs : record.hash = runs[r].hash

(* Whatever GET /api/proofs/:hash finds verifies, its hash is on the       *)
(* chain, and it tells the reasoning of the very cycle that hash stands    *)
(* for: across the database's reordering of names, across restarts that    *)
(* number cycles anew, and whichever write was lost.                       *)
FoundProofsVerify ==
  \A r \in Runs : \A record \in Lookup(runs[r].hash) :
    /\ Verify(record.payload, record.hash)
    /\ runs[r].memo = "landed"
    /\ record.payload.fields = runs[r].payload.fields

(* A cycle swaps only after a memo of its own is on the chain; no other    *)
(* cycle's memo has the same hash (proof-service.ts:5-11).                 *)
SwapsAreProven ==
  \A r \in Runs : runs[r].stage \in {"swap", "swapped"} =>
    /\ runs[r].memo = "landed"
    /\ \A q \in Runs \ {r} : runs[q].hash # runs[r].hash

(* The hash binds whose cycle it was and when it reasoned on which prices: *)
(* no payload with another of these verifies.                              *)
HashBindsCycle ==
  \A r \in Runs : \A p \in Payloads : Verify(p, runs[r].hash) =>
    LET told == p.fields  real == runs[r].payload.fields
    IN /\ told.agentId = real.agentId
       /\ told.cycle = real.cycle
       /\ told.timestamp = real.timestamp
       /\ told.priceSnapshot.timestamp = real.priceSnapshot.timestamp

(* "confirming the record has not been tampered with since it was created" *)
(* (proof-service.ts:172-173): what verifies is what was anchored.         *)
TamperEvident ==
  \A r \in Runs : \A p \in Payloads : Verify(p, runs[r].hash) => p = runs[r].payload
=============================================================================
