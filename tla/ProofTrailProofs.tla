--------------------------- MODULE ProofTrailProofs ---------------------------
(***************************************************************************)
(* Proofs about the proof of reasoning: whatever GET /api/proofs/:hash     *)
(* finds is the reasoning of the cycle that the hash stands for, for any   *)
(* number of agents, cycles and restarts.                                  *)
(*                                                                         *)
(* A process numbers its cycles from 1, so a number says nothing across    *)
(* restarts; together with the time it does, since a restart takes time.   *)
(* The invariant says just that: every earlier cycle of an agent has a     *)
(* number the process has passed, or was stamped before now.               *)
(***************************************************************************)
EXTENDS ProofTrail, TLAPS

\* What every run carries through its stages.
Told(r) == runs[r].payload.fields

RunsTyped ==
  /\ runs \in Seq(RunType) /\ Len(runs) <= MaxRuns
  /\ \A r \in Runs : runs[r].hash = Hash(runs[r].payload)

CountersTyped ==
  /\ production \in BOOLEAN /\ now \in 0..MaxNow
  /\ cycleCount \in [Agents -> 0..MaxRuns]
  /\ \A a \in Agents : cycleCount[a] <= Len(runs)

\* No run to come gets the number and the time of run r.
Passed(r) ==
  /\ Told(r).timestamp <= now
  /\ \/ Told(r).cycle <= cycleCount[Told(r).agentId]
     \/ Told(r).timestamp < now
     \/ Len(runs) = MaxRuns

SameCycle(r, q) ==
  /\ Told(r).agentId = Told(q).agentId
  /\ Told(r).cycle = Told(q).cycle
  /\ Told(r).timestamp = Told(q).timestamp

CyclesDiffer == \A r, q \in Runs : SameCycle(r, q) => r = q

MemoFirst == \A r \in Runs : runs[r].stage \in {"swap", "swapped"} => runs[r].memo = "landed"

\* A record, stored or on its way, tells a run whose memo is on the chain.
Tells(record, r) ==
  /\ runs[r].memo = "landed"
  /\ \E order \in {WrittenOrder, JsonbOrder} :
       record = [hash |-> runs[r].hash, payload |-> [order |-> order, fields |-> Told(r)]]

RecordsTell == \A record \in buffer \cup inFlight \cup rows : \E r \in Runs : Tells(record, r)

TrailInv ==
  /\ RunsTyped
  /\ CountersTyped
  /\ \A r \in Runs : Passed(r)
  /\ CyclesDiffer
  /\ MemoFirst
  /\ RecordsTell

-----------------------------------------------------------------------------
(* A payload has the fields of some cycle and the order they were written. *)
LEMMA PayloadShape ==
  ASSUME NEW p \in Payloads
  PROVE  \E a \in Agents, c \in 1..MaxRuns, t \in 0..MaxNow, x \in Amounts, s \in 0..MaxNow :
           p = Payload(Fields(a, c, t, x, s))
BY DEF Payloads

(* What Fields writes can be read back.                                    *)
LEMMA FieldsOf ==
  ASSUME NEW a, NEW c, NEW t, NEW x, NEW s
  PROVE  /\ Payload(Fields(a, c, t, x, s)).order = WrittenOrder
         /\ Payload(Fields(a, c, t, x, s)).fields.agentId = a
         /\ Payload(Fields(a, c, t, x, s)).fields.cycle = c
         /\ Payload(Fields(a, c, t, x, s)).fields.timestamp = t
         /\ Payload(Fields(a, c, t, x, s)).fields.priceSnapshot.timestamp = s
BY DEF Fields, Payload

(* The names of a payload, one by one.                                     *)
LEMMA KeysListed == ToSet(SortedKeys) = {"agentId", "cycle", "guardianVerdict", "policyChecks",
                                         "priceSnapshot", "strategistDecision", "timestamp"}
<1>1. DOMAIN SortedKeys = 1..7
  BY DEF SortedKeys
<1>2. /\ SortedKeys[1] = "agentId" /\ SortedKeys[2] = "cycle"
      /\ SortedKeys[3] = "guardianVerdict" /\ SortedKeys[4] = "policyChecks"
      /\ SortedKeys[5] = "priceSnapshot" /\ SortedKeys[6] = "strategistDecision"
      /\ SortedKeys[7] = "timestamp"
  BY DEF SortedKeys
<1> QED
  BY <1>1, <1>2 DEF ToSet

(* Equal hashes have the same agent, number, time and time of the prices,  *)
(* although the list of names filters nested objects.                      *)
LEMMA HashTells ==
  ASSUME NEW a, NEW c, NEW t, NEW x, NEW s, NEW a2, NEW c2, NEW t2, NEW x2, NEW s2,
         Hash(Payload(Fields(a, c, t, x, s))) = Hash(Payload(Fields(a2, c2, t2, x2, s2)))
  PROVE  a = a2 /\ c = c2 /\ t = t2 /\ s = s2
<1> DEFINE Kept(object) == [k \in DOMAIN object \cap ToSet(SortedKeys) |-> object[k]]
           Out(f) == [f EXCEPT !.strategistDecision = Kept(@), !.guardianVerdict = Kept(@),
                               !.policyChecks = Kept(@), !.priceSnapshot = Kept(@)]
           f == Fields(a, c, t, x, s)
           f2 == Fields(a2, c2, t2, x2, s2)
<1>1. Out(f) = Out(f2)
  BY DEF Hash, Serialize, Stringify, Payload
<1>2. /\ Out(f).agentId = a /\ Out(f).cycle = c /\ Out(f).timestamp = t
      /\ Out(f).priceSnapshot = Kept([timestamp |-> s, prices |-> s])
  BY DEF Fields
<1>3. /\ Out(f2).agentId = a2 /\ Out(f2).cycle = c2 /\ Out(f2).timestamp = t2
      /\ Out(f2).priceSnapshot = Kept([timestamp |-> s2, prices |-> s2])
  BY DEF Fields
<1>4. \A z : Kept([timestamp |-> z, prices |-> z]).timestamp = z
  BY KeysListed
<1> HIDE DEF Out, Kept
<1> QED
  BY <1>1, <1>2, <1>3, <1>4

(* The same of two runs: a hash stands for one cycle.                      *)
LEMMA HashOfCycle ==
  ASSUME NEW p \in Payloads, NEW q \in Payloads, Hash(p) = Hash(q)
  PROVE  /\ p.fields.agentId = q.fields.agentId
         /\ p.fields.cycle = q.fields.cycle
         /\ p.fields.timestamp = q.fields.timestamp
         /\ p.fields.priceSnapshot.timestamp = q.fields.priceSnapshot.timestamp
<1>1. PICK a, c, t, x, s : p = Payload(Fields(a, c, t, x, s))
  BY PayloadShape
<1>2. PICK a2, c2, t2, x2, s2 : q = Payload(Fields(a2, c2, t2, x2, s2))
  BY PayloadShape
<1>3. a = a2 /\ c = c2 /\ t = t2 /\ s = s2
  BY <1>1, <1>2, HashTells
<1> QED
  BY <1>1, <1>2, <1>3, FieldsOf

-----------------------------------------------------------------------------
(* No cycle has run yet.                                                   *)
LEMMA TrailInit == Init => TrailInv
BY BoundsAssumption
   DEF Init, TrailInv, RunsTyped, CountersTyped, CyclesDiffer, MemoFirst, RecordsTell, Runs

(* Where no run's payload, number or time is at stake, what identifies the *)
(* cycles stays.                                                           *)
LEMMA SameRuns ==
  ASSUME TrailInv, runs' \in Seq(RunType), Len(runs') = Len(runs),
         \A r \in Runs : /\ runs'[r].payload = runs[r].payload
                        /\ runs'[r].hash = runs[r].hash
         
  PROVE  RunsTyped' /\ CyclesDiffer' /\ Runs' = Runs /\ \A r \in Runs : Told(r)' = Told(r)
<1>1. Runs' = Runs
  BY DEF Runs
<1>2. \A r \in Runs : Told(r)' = Told(r)
  BY DEF Told
<1>3. RunsTyped'
  <2>1. \A r \in Runs : runs'[r].hash = Hash(runs'[r].payload)
    BY DEF TrailInv, RunsTyped
  <2> QED
    BY <1>1, <2>1 DEF TrailInv, RunsTyped, CountersTyped
<1>4. CyclesDiffer'
  BY <1>1, <1>2 DEF TrailInv, CyclesDiffer, SameCycle
<1> QED
  BY <1>1, <1>2, <1>3, <1>4

(* A run is a cycle of some agent, at some time.                           *)
LEMMA RunTyped ==
  ASSUME RunsTyped, NEW r \in Runs
  PROVE  /\ runs[r] \in RunType /\ runs[r].payload \in Payloads
         /\ Told(r).agentId \in Agents /\ Told(r).cycle \in 1..MaxRuns
         /\ Told(r).timestamp \in 0..MaxNow
<1>1. runs[r] \in RunType
  BY DEF RunsTyped, Runs
<1>2. runs[r].payload \in Payloads
  BY <1>1 DEF RunType
<1>3. PICK a \in Agents, c \in 1..MaxRuns, t \in 0..MaxNow, x \in Amounts, s \in 0..MaxNow :
        runs[r].payload = Payload(Fields(a, c, t, x, s))
  BY <1>2, PayloadShape
<1> QED
  BY <1>1, <1>2, <1>3, FieldsOf DEF Told

(* Its payload has just those fields, in the order they were written.      *)
LEMMA RunWritten ==
  ASSUME RunsTyped, NEW r \in Runs
  PROVE  runs[r].payload = [order |-> WrittenOrder, fields |-> Told(r)]
<1>1. PICK a \in Agents, c \in 1..MaxRuns, t \in 0..MaxNow, x \in Amounts, s \in 0..MaxNow :
        runs[r].payload = Payload(Fields(a, c, t, x, s))
  BY RunTyped, PayloadShape
<1> QED
  BY <1>1 DEF Told, Payload

(* A new cycle: its number is new in this process, and earlier processes   *)
(* ended before now.                                                       *)
LEMMA AnchorInv ==
  ASSUME TrailInv, NEW a \in Agents, Anchor(a) PROVE TrailInv'
<1>1. PICK x \in Amounts, sensed \in 0..now :
        runs' = Append(runs, [payload |-> Payload(Fields(a, cycleCount'[a], now, x, sensed)),
                              hash |-> Hash(Payload(Fields(a, cycleCount'[a], now, x, sensed))),
                              memo |-> "sent", stage |-> "anchor"])
  BY DEF Anchor
<1> DEFINE p == Payload(Fields(a, cycleCount'[a], now, x, sensed))
           new == [payload |-> p, hash |-> Hash(p), memo |-> "sent", stage |-> "anchor"]
<1>2. /\ runs \in Seq(RunType) /\ Len(runs) \in Nat /\ Len(runs) < MaxRuns
      /\ cycleCount \in [Agents -> 0..MaxRuns] /\ now \in 0..MaxNow
      /\ cycleCount' = [cycleCount EXCEPT ![a] = @ + 1]
      /\ cycleCount[a] <= Len(runs)
      /\ UNCHANGED <<production, now, buffer, inFlight, rows>>
  BY DEF Anchor, TrailInv, RunsTyped, CountersTyped
<1>21. PICK n : n = Len(runs) + 1
  OBVIOUS
<1>3. cycleCount'[a] = cycleCount[a] + 1 /\ cycleCount'[a] \in 1..MaxRuns
  BY <1>2, BoundsAssumption
<1>4. p \in Payloads
  BY <1>2, <1>3, BoundsAssumption DEF Payloads
<1>5. /\ p.fields.agentId = a /\ p.fields.cycle = cycleCount[a] + 1 /\ p.fields.timestamp = now
  BY <1>3, FieldsOf
<1>51. runs' = Append(runs, new)
  BY <1>1
<1> HIDE DEF p
<1>6. new \in RunType
  BY <1>4 DEF RunType
<1>7. /\ runs' \in Seq(RunType) /\ Len(runs') = n /\ runs'[n] = new
      /\ \A r \in Runs : runs'[r] = runs[r]
  <2> HIDE DEF new
  <2> QED
    BY <1>2, <1>21, <1>51, <1>6 DEF Runs
<1>71. Runs' = Runs \cup {n} /\ n \notin Runs
  BY <1>2, <1>21, <1>7 DEF Runs
<1>8. /\ \A r \in Runs : Told(r)' = Told(r)
      /\ Told(n)' = p.fields
  BY <1>21, <1>7, <1>71 DEF Told
<1>9. RunsTyped'
  <2>1. \A r \in Runs' : runs'[r].hash = Hash(runs'[r].payload)
    BY <1>7, <1>71 DEF RunsTyped, TrailInv
  <2> QED
    BY <2>1, <1>2, <1>21, <1>7, BoundsAssumption DEF RunsTyped
<1>10. CountersTyped'
  BY <1>2, <1>3, <1>21, <1>7, <1>71, BoundsAssumption DEF CountersTyped, TrailInv
<1>11. \A r \in Runs : /\ Told(r).agentId \in Agents /\ Told(r).cycle \in Nat
                       /\ Told(r).timestamp \in Nat /\ Passed(r)
  BY RunTyped DEF TrailInv
<1>12. ASSUME NEW r \in Runs' PROVE Passed(r)'
  <2>1. CASE r \in Runs
    BY <2>1, <1>2, <1>3, <1>21, <1>7, <1>71, <1>8, <1>11, BoundsAssumption DEF Passed
  <2>2. CASE r = n
    BY <2>2, <1>2, <1>3, <1>5, <1>8 DEF Passed
  <2> QED
    BY <2>1, <2>2, <1>21, <1>7, <1>71
<1>13. \A r \in Runs : ~SameCycle(r, n)' /\ ~SameCycle(n, r)'
  BY <1>2, <1>3, <1>5, <1>8, <1>11 DEF Passed, SameCycle
<1>14. CyclesDiffer'
  BY <1>21, <1>7, <1>71, <1>8, <1>13 DEF CyclesDiffer, SameCycle, TrailInv
<1>15. MemoFirst'
  BY <1>21, <1>7, <1>71 DEF MemoFirst, TrailInv
<1>16. ASSUME NEW record \in buffer \cup inFlight \cup rows
       PROVE  \E r \in Runs' : Tells(record, r)'
  <2>1. PICK r \in Runs : Tells(record, r)
    BY DEF TrailInv, RecordsTell
  <2>2. Tells(record, r)'
    BY <2>1, <1>7, <1>8 DEF Tells
  <2> QED
    BY <2>2, <1>71
<1>17. RecordsTell'
  BY <1>2, <1>16 DEF RecordsTell
<1> QED
  BY <1>9, <1>10, <1>12, <1>14, <1>15, <1>17 DEF TrailInv

(* A run goes on, without the time or any number changing: what was told   *)
(* stays told, and a memo that is on the chain stays there.                *)
LEMMA RunGoesOn ==
  ASSUME TrailInv, NEW r \in Runs, NEW x \in RunType,
         runs' = [runs EXCEPT ![r] = x],
         x.payload = runs[r].payload, x.hash = runs[r].hash,
         runs[r].memo = "landed" => x.memo = "landed",
         x.stage \in {"swap", "swapped"} => x.memo = "landed",
         UNCHANGED <<production, now, cycleCount>>,
         \A record \in (buffer \cup inFlight \cup rows)' :
           \/ record \in buffer \cup inFlight \cup rows
           \/ Tells(record, r)'
  PROVE  TrailInv'
<1>1. /\ runs' \in Seq(RunType) /\ Len(runs') = Len(runs)
      /\ runs'[r] = x /\ \A q \in Runs \ {r} : runs'[q] = runs[q]
  BY DEF TrailInv, RunsTyped, Runs
<1>2. RunsTyped' /\ CyclesDiffer' /\ Runs' = Runs /\ \A q \in Runs : Told(q)' = Told(q)
  BY <1>1, SameRuns
<1>3. CountersTyped'
  BY <1>1 DEF TrailInv, CountersTyped
<1>4. \A q \in Runs' : Passed(q)'
  BY <1>1, <1>2 DEF TrailInv, Passed
<1>5. MemoFirst'
  BY <1>1, <1>2 DEF TrailInv, MemoFirst
<1>6. ASSUME NEW record \in buffer \cup inFlight \cup rows
      PROVE  \E q \in Runs : Tells(record, q)'
  <2>1. PICK q \in Runs : Tells(record, q)
    BY DEF TrailInv, RecordsTell
  <2>2. runs'[q].hash = runs[q].hash /\ runs'[q].memo = "landed" /\ Told(q)' = Told(q)
    BY <2>1, <1>1, <1>2 DEF Tells
  <2>3. Tells(record, q)'
    BY <2>1, <2>2 DEF Tells
  <2> QED
    BY <2>3
<1>7. RecordsTell'
  BY <1>2, <1>6 DEF RecordsTell
<1> QED
  BY <1>2, <1>3, <1>4, <1>5, <1>7 DEF TrailInv

(* Memos and stages.                                                       *)
LEMMA RunStepInv ==
  ASSUME TrailInv, NEW r \in Runs, MemoLands(r) \/ Record(r) \/ AnchorFails(r) \/ Swap(r)
  PROVE  TrailInv'
<1>1. /\ runs[r] \in RunType /\ runs \in Seq(RunType)
      /\ runs[r].payload = [order |-> WrittenOrder, fields |-> Told(r)]
      /\ runs[r].stage \in {"swap", "swapped"} => runs[r].memo = "landed"
  BY RunTyped, RunWritten DEF TrailInv, RunsTyped, MemoFirst
<1>2. CASE MemoLands(r)
  <2>1. PICK fate \in {"landed", "dropped"} : runs' = [runs EXCEPT ![r].memo = fate]
    BY <1>2 DEF MemoLands
  <2> DEFINE x == [runs[r] EXCEPT !.memo = fate]
  <2>2. /\ x \in RunType /\ x.payload = runs[r].payload /\ x.hash = runs[r].hash
        /\ x.stage = runs[r].stage /\ x.memo = fate
    BY <1>1 DEF RunType
  <2>3. runs' = [runs EXCEPT ![r] = x]
    BY <2>1
  <2>4. runs[r].memo = "sent" /\ UNCHANGED <<production, now, cycleCount, buffer, inFlight, rows>>
    BY <1>2 DEF MemoLands
  <2> HIDE DEF x
  <2> QED
    BY <1>1, <2>2, <2>3, <2>4, RunGoesOn
<1>3. CASE Record(r)
  <2> DEFINE x == [runs[r] EXCEPT !.stage = "swap"]
             record == [hash |-> runs[r].hash, payload |-> runs[r].payload]
  <2>1. /\ x \in RunType /\ x.payload = runs[r].payload /\ x.hash = runs[r].hash
        /\ x.stage = "swap" /\ x.memo = runs[r].memo
    BY <1>1 DEF RunType
  <2>2. /\ runs' = [runs EXCEPT ![r] = x] /\ runs[r].memo = "landed"
        /\ UNCHANGED <<production, now, cycleCount, rows>>
        /\ (buffer \cup inFlight)' \subseteq buffer \cup inFlight \cup {record}
    BY <1>3 DEF Record
  <2>3. runs'[r] = x /\ Told(r)' = Told(r)
    BY <1>1, <2>1, <2>2 DEF Told, RunsTyped, Runs
  <2>4. Tells(record, r)'
    BY <1>1, <2>1, <2>2, <2>3 DEF Tells
  <2>5. \A kept \in (buffer \cup inFlight \cup rows)' :
          kept \in buffer \cup inFlight \cup rows \/ Tells(kept, r)'
    BY <2>2, <2>4
  <2> HIDE DEF x, record
  <2> QED
    BY <2>1, <2>2, <2>5, RunGoesOn
<1>4. CASE AnchorFails(r)
  <2> DEFINE x == [runs[r] EXCEPT !.stage = "failed"]
  <2>1. /\ x \in RunType /\ x.payload = runs[r].payload /\ x.hash = runs[r].hash
        /\ x.stage = "failed" /\ x.memo = runs[r].memo
    BY <1>1 DEF RunType
  <2>2. /\ runs' = [runs EXCEPT ![r] = x]
        /\ UNCHANGED <<production, now, cycleCount, buffer, inFlight, rows>>
    BY <1>4 DEF AnchorFails
  <2> HIDE DEF x
  <2> QED
    BY <2>1, <2>2, RunGoesOn
<1>5. CASE Swap(r)
  <2>1. PICK outcome \in {"swapped", "failed"} : runs' = [runs EXCEPT ![r].stage = outcome]
    BY <1>5 DEF Swap
  <2> DEFINE x == [runs[r] EXCEPT !.stage = outcome]
  <2>2. /\ x \in RunType /\ x.payload = runs[r].payload /\ x.hash = runs[r].hash
        /\ x.stage = outcome /\ x.memo = runs[r].memo
    BY <1>1 DEF RunType
  <2>3. /\ runs' = [runs EXCEPT ![r] = x] /\ runs[r].stage = "swap"
        /\ UNCHANGED <<production, now, cycleCount, buffer, inFlight, rows>>
    BY <1>5, <2>1 DEF Swap
  <2> HIDE DEF x
  <2> QED
    BY <1>1, <2>2, <2>3, RunGoesOn
<1> QED
  BY <1>2, <1>3, <1>4, <1>5

-----------------------------------------------------------------------------
(* Records land, are lost or are pushed out; the runs stay.                *)
LEMMA RecordStepInv ==
  ASSUME TrailInv,
         \/ \E record \in inFlight : RowLands(record) \/ RowFails(record)
         \/ \E record \in buffer : Evict(record)
  PROVE  TrailInv'
<1>1. UNCHANGED <<production, now, cycleCount, runs>>
  BY DEF RowLands, RowFails, Evict
<1>2. ASSUME NEW record \in (buffer \cup inFlight \cup rows)'
      PROVE  \E old \in buffer \cup inFlight \cup rows :
               record = old \/ record = [old EXCEPT !.payload.order = JsonbOrder]
  BY DEF RowLands, RowFails, Evict
<1>3. ASSUME NEW record \in (buffer \cup inFlight \cup rows)'
      PROVE  \E r \in Runs : Tells(record, r)
  <2>1. PICK old \in buffer \cup inFlight \cup rows :
          record = old \/ record = [old EXCEPT !.payload.order = JsonbOrder]
    BY <1>2
  <2>2. PICK r \in Runs : Tells(old, r)
    BY DEF TrailInv, RecordsTell
  <2>3. PICK order \in {WrittenOrder, JsonbOrder} :
          old = [hash |-> runs[r].hash, payload |-> [order |-> order, fields |-> Told(r)]]
    BY <2>2 DEF Tells
  <2>4. [old EXCEPT !.payload.order = JsonbOrder] =
          [hash |-> runs[r].hash, payload |-> [order |-> JsonbOrder, fields |-> Told(r)]]
    BY <2>3
  <2>5. Tells(record, r)
    BY <2>1, <2>2, <2>3, <2>4 DEF Tells
  <2> QED
    BY <2>5
<1>4. RecordsTell'
  BY <1>1, <1>3 DEF RecordsTell, Tells, Told, Runs
<1> QED
  BY <1>1, <1>4
     DEF TrailInv, RunsTyped, CountersTyped, Passed, CyclesDiffer, SameCycle, MemoFirst, Told, Runs

(* Time passes.                                                            *)
LEMMA TickInv == ASSUME TrailInv, Tick PROVE TrailInv'
<1>1. /\ UNCHANGED <<production, cycleCount, runs, buffer, inFlight, rows>>
      /\ now' = now + 1 /\ now' \in 0..MaxNow /\ now \in Nat
  BY BoundsAssumption DEF Tick, TrailInv, CountersTyped
<1>2. \A r \in Runs : Told(r).timestamp \in Nat
  BY RunTyped, BoundsAssumption DEF TrailInv
<1>3. \A r \in Runs' : Passed(r)'
  BY <1>1, <1>2 DEF TrailInv, Passed, Told, Runs
<1> QED
  BY <1>1, <1>3
     DEF TrailInv, RunsTyped, CountersTyped, CyclesDiffer, SameCycle, MemoFirst,
         RecordsTell, Tells, Told, Runs

(* A new process: the runs of the old one end, and are of the past unless  *)
(* no run is left.                                                         *)
LEMMA RestartInv == ASSUME TrailInv, Restart PROVE TrailInv'
<1>0. /\ now < MaxNow \/ Len(runs) = MaxRuns
      /\ now' = IF now < MaxNow THEN now + 1 ELSE now
      /\ production' = production /\ cycleCount' = [a \in Agents |-> 0]
  BY DEF Restart
<1>1. /\ runs \in Seq(RunType) /\ Len(runs) \in Nat /\ Len(runs) <= MaxRuns
      /\ now \in 0..MaxNow /\ MaxNow \in Nat /\ MaxRuns \in Nat
  BY BoundsAssumption DEF TrailInv, RunsTyped, CountersTyped
<1>2. \A r \in Runs : /\ runs[r] \in RunType /\ Told(r).agentId \in Agents
                      /\ Told(r).cycle \in 1..MaxRuns /\ Told(r).timestamp \in Nat
                      /\ Passed(r)
  BY RunTyped, BoundsAssumption DEF TrailInv
<1>3. \A r \in Runs : /\ [runs[r] EXCEPT !.stage = "failed"] \in RunType
                      /\ [runs[r] EXCEPT !.stage = "failed"].payload = runs[r].payload
                      /\ [runs[r] EXCEPT !.stage = "failed"].hash = runs[r].hash
                      /\ [runs[r] EXCEPT !.stage = "failed"].memo = runs[r].memo
                      /\ [runs[r] EXCEPT !.stage = "failed"].stage = "failed"
  BY <1>2 DEF RunType
<1>4. \A r \in Runs : /\ runs'[r] \in RunType /\ runs'[r].payload = runs[r].payload
                      /\ runs'[r].hash = runs[r].hash /\ runs'[r].memo = runs[r].memo
                      /\ runs'[r].stage \in {runs[r].stage, "failed"}
  BY <1>2, <1>3 DEF Restart
<1>5. runs' \in Seq(RunType) /\ Len(runs') = Len(runs)
  BY <1>1, <1>4 DEF Restart, Runs
<1>6. RunsTyped' /\ CyclesDiffer' /\ Runs' = Runs /\ \A r \in Runs : Told(r)' = Told(r)
  BY <1>4, <1>5, SameRuns
<1>7. CountersTyped'
  BY <1>0, <1>1, <1>5 DEF TrailInv, CountersTyped
<1>8. now' = now + 1 \/ (Len(runs) = MaxRuns /\ now' = now)
  BY <1>0, <1>1
<1>9. \A r \in Runs' : Passed(r)'
  BY <1>1, <1>2, <1>5, <1>6, <1>8 DEF Passed
<1>10. MemoFirst'
  BY <1>4, <1>6 DEF TrailInv, MemoFirst
<1>11. RecordsTell'
  <2>1. \A record, r : Tells(record, r) /\ r \in Runs => Tells(record, r)'
    BY <1>4, <1>6 DEF Tells
  <2> QED
    BY <1>6, <2>1 DEF TrailInv, RecordsTell, Restart
<1> QED
  BY <1>6, <1>7, <1>9, <1>10, <1>11 DEF TrailInv

(* The invariant of the proof trail, in every reachable state.             *)
THEOREM TrailInvariant == Spec => []TrailInv
<1>1. TrailInv /\ UNCHANGED vars => TrailInv'
  BY DEF vars, TrailInv, RunsTyped, CountersTyped, Passed, CyclesDiffer, SameCycle, MemoFirst,
         RecordsTell, Tells, Told, Runs
<1>2. TrailInv /\ [Next]_vars => TrailInv'
  BY <1>1, AnchorInv, RunStepInv, RecordStepInv, TickInv, RestartInv DEF Next
<1> QED
  BY TrailInit, <1>2, PTL DEF Spec

(* The state has its types throughout.                                     *)
THEOREM TrailTypeCorrect == Spec => []TypeOK
<1>1. TrailInv => TypeOK
  BY RunTyped DEF TrailInv, TypeOK, RunsTyped, CountersTyped, RecordsTell, Tells
<1> QED
  BY TrailInvariant, <1>1, PTL

(* A record found under a hash tells the run that anchored that hash.      *)
LEMMA FoundIsTold == TrailInv => FoundProofsVerify
<1> SUFFICES ASSUME TrailInv, NEW r \in Runs, NEW record \in Lookup(runs[r].hash)
             PROVE  /\ Verify(record.payload, record.hash)
                    /\ runs[r].memo = "landed"
                    /\ record.payload.fields = Told(r)
  BY DEF FoundProofsVerify, Told
<1>1. record \in buffer \cup inFlight \cup rows /\ record.hash = runs[r].hash
  BY DEF Lookup
<1>2. PICK q \in Runs : Tells(record, q)
  BY <1>1 DEF TrailInv, RecordsTell
<1>3. /\ record.hash = runs[q].hash /\ record.payload.fields = Told(q)
      /\ runs[q].memo = "landed"
  BY <1>2 DEF Tells
<1>4. Hash(runs[q].payload) = Hash(runs[r].payload)
  BY <1>1, <1>3 DEF TrailInv, RunsTyped
<1>5. SameCycle(r, q)
  BY <1>4, RunTyped, HashOfCycle DEF TrailInv, SameCycle, Told
<1>6. r = q
  BY <1>5 DEF TrailInv, CyclesDiffer
<1>7. Hash(record.payload) = Hash(runs[q].payload)
  BY <1>3 DEF Hash, Serialize, Told
<1> QED
  BY <1>1, <1>3, <1>6, <1>7 DEF Verify, TrailInv, RunsTyped

(* GET /api/proofs/:hash tells the reasoning of the cycle the hash stands  *)
(* for, whatever was lost, reordered or restarted (proof-service.ts).      *)
THEOREM FoundProofsVerifyHolds == Spec => []FoundProofsVerify
BY TrailInvariant, FoundIsTold, PTL

(* A swap follows a memo of its own: no two cycles share a hash            *)
(* (runCycle's Layer 5).                                                   *)
THEOREM SwapsAreProvenHolds == Spec => []SwapsAreProven
<1>1. ASSUME TrailInv, NEW r \in Runs, NEW q \in Runs, runs[q].hash = runs[r].hash
      PROVE  q = r
  <2>1. Hash(runs[q].payload) = Hash(runs[r].payload)
    BY <1>1 DEF TrailInv, RunsTyped
  <2>2. SameCycle(q, r)
    BY <1>1, <2>1, RunTyped, HashOfCycle DEF TrailInv, SameCycle, Told
  <2> QED
    BY <1>1, <2>2 DEF TrailInv, CyclesDiffer
<1>2. TrailInv => SwapsAreProven
  BY <1>1 DEF TrailInv, MemoFirst, SwapsAreProven
<1> QED
  BY TrailInvariant, <1>2, PTL

(* A hash binds agent, number, time and the time of the prices, whatever   *)
(* else serializePayload leaves out (proof-service.ts:62-64).              *)
THEOREM HashBindsCycleHolds == Spec => []HashBindsCycle
<1>1. ASSUME TrailInv, NEW r \in Runs, NEW p \in Payloads, Verify(p, runs[r].hash)
      PROVE  /\ p.fields.agentId = Told(r).agentId
             /\ p.fields.cycle = Told(r).cycle
             /\ p.fields.timestamp = Told(r).timestamp
             /\ p.fields.priceSnapshot.timestamp = Told(r).priceSnapshot.timestamp
  <2>1. runs[r].payload \in Payloads /\ Hash(p) = Hash(runs[r].payload)
    BY <1>1, RunTyped DEF TrailInv, RunsTyped, Verify
  <2> QED
    BY <2>1, HashOfCycle DEF Told
<1>2. TrailInv => HashBindsCycle
  BY <1>1 DEF HashBindsCycle, Told
<1> QED
  BY TrailInvariant, <1>2, PTL
=============================================================================
