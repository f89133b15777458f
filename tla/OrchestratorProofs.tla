-------------------------- MODULE OrchestratorProofs --------------------------
(***************************************************************************)
(* Proofs about the orchestrator: one schedule for each agent, scheduled   *)
(* cycles an interval apart, forced ones a cooldown after any other, and   *)
(* so a bound on the cycles an agent can start, for any number of agents,  *)
(* any offsets and any interval and cooldown.                              *)
(*                                                                         *)
(* The invariant weighs a scheduled start against the interval that has    *)
(* begun with it: their ages add up to the interval, so that the interval  *)
(* fires when the start has left the history.  Starts that follow one      *)
(* another are a cooldown apart each, but for the scheduled one among      *)
(* them, which asks for no cooldown.                                       *)
(***************************************************************************)
EXTENDS Orchestrator, FiniteSetTheorems, TLAPS

StartType == [age: 0..(CYCLE_INTERVAL - 1), by: {"timer", "command"}]

ScheduleTyped ==
  /\ running \in BOOLEAN /\ stopping \in BOOLEAN
  /\ timers \in [Agents -> Seq(Int)]
  /\ intervals \in [Agents -> Seq(Int)]
  /\ \A a \in Agents :
       /\ \A i \in 1..Len(timers[a]) : timers[a][i] >= -MaxLate
       /\ \A i \in 1..Len(intervals[a]) : intervals[a][i] \in -MaxLate..CYCLE_INTERVAL

CyclesTyped ==
  /\ status \in [Agents -> {"ACTIVE", "PAUSED"}]
  /\ sinceStart \in [Agents -> 0..COOLDOWN]
  /\ inFlight \in [Agents -> Nat]
  /\ starts \in [Agents -> Seq(StartType)]

Scheduled(h) == {i \in 1..Len(h) : h[i].by = "timer"}

\* The agent waits for its first cycle, or has its interval.
OneOf(a) ==
  \/ Len(timers[a]) = 1 /\ Len(intervals[a]) = 0
  \/ Len(timers[a]) = 0 /\ Len(intervals[a]) = 1

\* A scheduled start and the schedule that made it.
OnSchedule(a) ==
  /\ running => OneOf(a)
  /\ ~running => Len(timers[a]) = 0 /\ Len(intervals[a]) = 0
  /\ \A i, j \in Scheduled(starts[a]) : i = j
  /\ Len(timers[a]) > 0 => Scheduled(starts[a]) = {}
  /\ ~running /\ ~stopping => Scheduled(starts[a]) = {}
  /\ \A i \in Scheduled(starts[a]), j \in 1..Len(intervals[a]) :
       starts[a][i].age + intervals[a][j] >= CYCLE_INTERVAL

\* The starts are ordered, and apart.
Apart(h) ==
  \A i, j \in 1..Len(h) : i < j =>
    /\ h[i].age >= h[j].age
    /\ h[i].age - h[j].age >= COOLDOWN * (j - i - 1)
    /\ \/ \E k \in (i + 1)..j : k \in Scheduled(h)
       \/ h[i].age - h[j].age >= COOLDOWN * (j - i)

\* What the cooldown and the bound of cycles in flight know of the starts.
Rested(a) ==
  /\ \A i \in 1..Len(starts[a]) : starts[a][i].age >= sinceStart[a]
  /\ sinceStart[a] > 0 => inFlight[a] < MaxInFlight
  /\ \/ inFlight[a] <= MaxInFlight
     \/ /\ inFlight[a] = MaxInFlight + 1
        /\ \E i \in Scheduled(starts[a]) : starts[a][i].age = 0

Fresh ==
  /\ running \in BOOLEAN /\ stopping \in BOOLEAN /\ ~running /\ ~stopping
  /\ timers = EachAgent(<<>>) /\ intervals = EachAgent(<<>>)
  /\ status = EachAgent("ACTIVE") /\ sinceStart = EachAgent(COOLDOWN)
  /\ inFlight = EachAgent(0) /\ starts = EachAgent(<<>>)

OrchInv ==
  /\ ScheduleTyped
  /\ CyclesTyped
  /\ \A a \in Agents : OnSchedule(a) /\ Apart(starts[a]) /\ Rested(a)

-----------------------------------------------------------------------------
(* The constants, together.                                                *)
LEMMA Constants ==
  /\ CYCLE_INTERVAL \in Nat /\ CYCLE_INTERVAL > 0
  /\ COOLDOWN \in Nat /\ COOLDOWN > 0
  /\ MaxLate \in Nat /\ MaxInFlight \in Nat /\ MaxInFlight > 0
  /\ AGENT_OFFSETS \in [Agents -> Nat]
BY OffsetAssumption, IntervalAssumption, CooldownAssumption, LateAssumption, InFlightAssumption

(* Ages and waits change by one.                                           *)
LEMMA OneTick ==
  ASSUME NEW x \in Nat, NEW y \in Nat, NEW v \in Int
  PROVE  /\ (x + 1) - (y + 1) = x - y
         /\ x >= y => x + 1 >= y + 1
         /\ x + v >= CYCLE_INTERVAL => (x + 1) + (v - 1) >= CYCLE_INTERVAL
BY Constants

(* One schedule, wherever it is.                                           *)
LEMMA OneAndNone == 1 + 0 = 1 /\ 0 + 1 = 1 /\ 0 + 0 = 0
OBVIOUS

(* A process that has not started anything.                                *)
LEMMA OrchFresh == Fresh => OrchInv
<1> SUFFICES ASSUME Fresh PROVE OrchInv
  OBVIOUS
<1>1. \A a \in Agents :
        /\ timers[a] = <<>> /\ intervals[a] = <<>> /\ starts[a] = <<>>
        /\ sinceStart[a] = COOLDOWN /\ inFlight[a] = 0
  BY DEF Fresh, EachAgent
<1>2. ScheduleTyped
  BY <1>1 DEF Fresh, ScheduleTyped, EachAgent
<1>3. CyclesTyped
  BY Constants DEF Fresh, CyclesTyped, EachAgent
<1>4. \A a \in Agents : Scheduled(starts[a]) = {}
  BY <1>1 DEF Scheduled
<1>5. ASSUME NEW a \in Agents PROVE OnSchedule(a)
  <2>1. Len(timers[a]) = 0 /\ Len(intervals[a]) = 0 /\ Scheduled(starts[a]) = {}
    BY <1>1, <1>4
  <2> QED
    BY <2>1 DEF Fresh, OnSchedule, OneOf
<1>6. \A a \in Agents : Apart(starts[a])
  BY <1>1 DEF Apart
<1>7. \A a \in Agents : Rested(a)
  BY <1>1, Constants DEF Rested
<1> QED
  BY <1>2, <1>3, <1>5, <1>6, <1>7 DEF OrchInv

(* The same after a step.                                                  *)
LEMMA OrchFreshNext == Fresh' => OrchInv'
BY OrchFresh, PTL

(* One sequence after another.                                             *)
LEMMA ConcatSeq ==
  ASSUME NEW u \in Seq(Int), NEW v \in Seq(Int)
  PROVE  /\ u \o v \in Seq(Int) /\ Len(u \o v) = Len(u) + Len(v)
         /\ \A j \in 1..Len(u) : (u \o v)[j] = u[j]
         /\ \A j \in 1..Len(v) : (u \o v)[Len(u) + j] = v[j]
OBVIOUS

(* Removing an element of a sequence leaves the others.                    *)
LEMMA RemoveAtSeq ==
  ASSUME NEW s \in Seq(Int), NEW i \in 1..Len(s)
  PROVE  /\ RemoveAt(s, i) \in Seq(Int) /\ Len(RemoveAt(s, i)) = Len(s) - 1
         /\ \A j \in 1..Len(RemoveAt(s, i)) : \E k \in 1..Len(s) : RemoveAt(s, i)[j] = s[k]
<1> DEFINE u == SubSeq(s, 1, i - 1)
           v == SubSeq(s, i + 1, Len(s))
<1>1. u \in Seq(Int) /\ Len(u) = i - 1 /\ \A j \in 1..(i - 1) : u[j] = s[j]
  OBVIOUS
<1>2. v \in Seq(Int) /\ Len(v) = Len(s) - i /\ \A j \in 1..(Len(s) - i) : v[j] = s[i + j]
  OBVIOUS
<1>3. RemoveAt(s, i) = u \o v
  BY DEF RemoveAt
<1> HIDE DEF u, v
<1>0. Len(s) \in Nat
  OBVIOUS
<1> DEFINE w == u \o v
<1>4. /\ w \in Seq(Int) /\ Len(w) = Len(s) - 1
      /\ \A j \in 1..Len(u) : w[j] = u[j]
      /\ \A j \in 1..Len(v) : w[Len(u) + j] = v[j]
  <2>1. Len(w) = Len(u) + Len(v)
    BY <1>1, <1>2, ConcatSeq
  <2>2. Len(w) = Len(s) - 1
    BY <2>1, <1>0, <1>1, <1>2
  <2> QED
    BY <2>2, <1>1, <1>2, ConcatSeq
<1> HIDE DEF w
<1>5. ASSUME NEW j \in 1..(Len(s) - 1) PROVE \E k \in 1..Len(s) : w[j] = s[k]
  <2>1. CASE j <= i - 1
    BY <2>1, <1>0, <1>1, <1>4
  <2>2. CASE j > i - 1
    <3>1. /\ j - (i - 1) \in 1..Len(v) /\ Len(u) + (j - (i - 1)) = j
          /\ i + (j - (i - 1)) = j + 1 /\ j + 1 \in 1..Len(s)
      BY <2>2, <1>0, <1>1, <1>2
    <3>2. w[j] = v[j - (i - 1)]
      BY <3>1, <1>4
    <3>3. v[j - (i - 1)] = s[j + 1]
      BY <3>1, <1>2
    <3> QED
      BY <3>1, <3>2, <3>3
  <2> QED
    BY <2>1, <2>2
<1> QED
  BY <1>3, <1>4, <1>5 DEF w

(* Starts that are apart stay so when another follows that is forced after *)
(* the cooldown, or is the only scheduled one.                             *)
LEMMA AppendApart ==
  ASSUME NEW h \in Seq(StartType), NEW by \in {"timer", "command"}, Apart(h),
         by = "command" => \A i \in 1..Len(h) : h[i].age >= COOLDOWN,
         by = "timer" => Scheduled(h) = {}
  PROVE  LET h2 == Append(h, [age |-> 0, by |-> by])
         IN /\ h2 \in Seq(StartType) /\ Len(h2) = Len(h) + 1
            /\ h2[Len(h) + 1] = [age |-> 0, by |-> by]
            /\ \A i \in 1..Len(h) : h2[i] = h[i]
            /\ Scheduled(h2) = Scheduled(h) \cup (IF by = "timer" THEN {Len(h) + 1} ELSE {})
            /\ Apart(h2)
<1> DEFINE new == [age |-> 0, by |-> by]
           h2 == Append(h, new)
           n == Len(h)
<1>1. new \in StartType /\ new.age = 0 /\ new.by = by
  BY Constants DEF StartType
<1>2. n \in Nat /\ \A i \in 1..n : h[i].age \in Nat /\ h[i] \in StartType
  <2>1. n \in Nat /\ \A i \in 1..n : h[i] \in StartType
    OBVIOUS
  <2> QED
    BY <2>1, Constants DEF StartType
<1> HIDE DEF new
<1>3. /\ h2 \in Seq(StartType) /\ Len(h2) = n + 1 /\ h2[n + 1] = new
      /\ \A i \in 1..n : h2[i] = h[i]
  BY <1>1
<1> HIDE DEF h2
<1>4. Scheduled(h2) = Scheduled(h) \cup (IF by = "timer" THEN {n + 1} ELSE {})
  BY <1>1, <1>2, <1>3 DEF Scheduled
<1>5. ASSUME NEW i \in 1..n
      PROVE  /\ h2[i].age >= h2[n + 1].age
             /\ h2[i].age - h2[n + 1].age >= COOLDOWN * (n + 1 - i - 1)
             /\ \/ \E k \in (i + 1)..(n + 1) : k \in Scheduled(h2)
                \/ h2[i].age - h2[n + 1].age >= COOLDOWN * (n + 1 - i)
  <2>1. h2[i].age = h[i].age /\ h2[n + 1].age = 0 /\ h[i].age \in Nat /\ h[n].age \in Nat
    BY <1>1, <1>2, <1>3
  <2>2. \/ \E k \in (i + 1)..n : k \in Scheduled(h)
        \/ h[i].age - h[n].age >= COOLDOWN * (n - i)
    <3>1. CASE i = n
      <4>1. h[i].age - h[n].age = 0 /\ COOLDOWN * (n - i) = 0
        BY <3>1, <2>1, Constants
      <4> QED
        BY <4>1
    <3>2. CASE i # n
      BY <3>2, <1>2 DEF Apart
    <3> QED
      BY <3>1, <3>2
  <2>3. i < n => h[i].age - h[n].age >= COOLDOWN * (n - i - 1)
    BY <1>2 DEF Apart
  <2>4. COOLDOWN * (n - i) \in Int /\ COOLDOWN * (n - i - 1) \in Int
    BY Constants, <1>2
  <2>5. /\ COOLDOWN * (n + 1 - i - 1) = COOLDOWN * (n - i)
        /\ COOLDOWN * (n + 1 - i) = COOLDOWN * (n - i) + COOLDOWN
        /\ COOLDOWN * (n - i) = COOLDOWN * (n - i - 1) + COOLDOWN
    BY Constants, <1>2
  <2>6. CASE by = "timer"
    <3>1. n + 1 \in Scheduled(h2) /\ n + 1 \in (i + 1)..(n + 1)
      BY <2>6, <1>2, <1>4
    <3>2. h[i].age >= COOLDOWN * (n - i)
      BY <2>6, <2>1, <2>2, <2>4, <1>2
    <3> QED
      BY <3>1, <3>2, <2>1, <2>5
  <2>7. CASE by = "command"
    <3>1. h[n].age >= COOLDOWN /\ h[i].age >= COOLDOWN
      BY <2>7, <1>2
    <3>2. h[i].age >= COOLDOWN * (n - i)
      <4>1. CASE i = n
        BY <4>1, <2>1, Constants
      <4>2. CASE i # n
        BY <4>2, <3>1, <2>1, <2>3, <2>4, <2>5, <1>2, Constants
      <4> QED
        BY <4>1, <4>2
    <3>3. ASSUME NEW k \in (i + 1)..n, k \in Scheduled(h)
          PROVE  k \in (i + 1)..(n + 1) /\ k \in Scheduled(h2)
      BY <3>3, <1>2, <1>4
    <3>4. h[i].age - h[n].age >= COOLDOWN * (n - i) => h[i].age >= COOLDOWN * (n - i) + COOLDOWN
      BY <3>1, <2>1, <2>4, Constants
    <3>5. \/ \E k \in (i + 1)..(n + 1) : k \in Scheduled(h2)
          \/ h[i].age >= COOLDOWN * (n - i) + COOLDOWN
      BY <2>2, <3>3, <3>4
    <3> QED
      BY <3>2, <3>5, <2>1, <2>5
  <2> QED
    BY <2>6, <2>7
<1>6. ASSUME NEW i \in 1..n, NEW j \in 1..n, i < j
      PROVE  /\ h2[i].age >= h2[j].age
             /\ h2[i].age - h2[j].age >= COOLDOWN * (j - i - 1)
             /\ \/ \E k \in (i + 1)..j : k \in Scheduled(h2)
                \/ h2[i].age - h2[j].age >= COOLDOWN * (j - i)
  BY <1>3, <1>4, <1>6 DEF Apart
<1>7. Apart(h2)
  <2> SUFFICES ASSUME NEW i \in 1..(n + 1), NEW j \in 1..(n + 1), i < j
               PROVE  /\ h2[i].age >= h2[j].age
                      /\ h2[i].age - h2[j].age >= COOLDOWN * (j - i - 1)
                      /\ \/ \E k \in (i + 1)..j : k \in Scheduled(h2)
                         \/ h2[i].age - h2[j].age >= COOLDOWN * (j - i)
    BY <1>3 DEF Apart
  <2>1. i \in 1..n /\ (j \in 1..n \/ j = n + 1)
    BY <1>2
  <2> QED
    BY <2>1, <1>5, <1>6
<1> QED
  BY <1>3, <1>4, <1>7 DEF new, h2

-----------------------------------------------------------------------------
(* What an agent that no step concerns keeps.                              *)
LEMMA AgentFrame ==
  ASSUME NEW a \in Agents, OnSchedule(a), Apart(starts[a]), Rested(a),
         timers'[a] = timers[a], intervals'[a] = intervals[a], sinceStart'[a] = sinceStart[a],
         inFlight'[a] = inFlight[a], starts'[a] = starts[a],
         UNCHANGED <<running, stopping>>
  PROVE  OnSchedule(a)' /\ Apart(starts'[a]) /\ Rested(a)'
<1>1. Scheduled(starts[a])' = Scheduled(starts[a])
  BY DEF Scheduled
<1> QED
  BY <1>1 DEF OnSchedule, OneOf, Rested

(* A cycle starts, or is skipped: the types, the spacing and the count of  *)
(* cycles in flight.                                                       *)
LEMMA CycleStarts ==
  ASSUME OrchInv, NEW a \in Agents, NEW by \in {"timer", "command"}, RunAgentCycle(a, by),
         UNCHANGED status,
         by = "timer" => Scheduled(starts[a]) = {},
         by = "command" => sinceStart[a] >= COOLDOWN
  PROVE  /\ CyclesTyped' /\ Apart(starts'[a]) /\ Rested(a)'
         /\ \A b \in Agents \ {a} : /\ starts'[b] = starts[b] /\ inFlight'[b] = inFlight[b]
                                    /\ sinceStart'[b] = sinceStart[b]
         /\ \/ starts'[a] = starts[a]
            \/ starts'[a] = Append(starts[a], [age |-> 0, by |-> by])
<1>1. CyclesTyped /\ Apart(starts[a]) /\ Rested(a)
  BY DEF OrchInv
<1>2. CASE UNCHANGED cycles
  <2>1. UNCHANGED <<sinceStart, inFlight, starts>>
    BY <1>2 DEF cycles
  <2>2. Scheduled(starts[a])' = Scheduled(starts[a])
    BY <2>1 DEF Scheduled
  <2> QED
    BY <1>1, <2>1, <2>2 DEF CyclesTyped, Rested
<1>3. CASE ~UNCHANGED cycles
  <2> DEFINE h == starts[a]
             h2 == Append(h, [age |-> 0, by |-> by])
  <2>1. /\ sinceStart' = [sinceStart EXCEPT ![a] = 0]
        /\ inFlight' = [inFlight EXCEPT ![a] = @ + 1]
        /\ starts' = [starts EXCEPT ![a] = h2]
    BY <1>3 DEF RunAgentCycle
  <2>2. h \in Seq(StartType) /\ inFlight[a] \in Nat /\ sinceStart[a] \in 0..COOLDOWN
    BY <1>1 DEF CyclesTyped
  <2>3. /\ h2 \in Seq(StartType) /\ Len(h2) = Len(h) + 1
        /\ h2[Len(h) + 1] = [age |-> 0, by |-> by]
        /\ \A i \in 1..Len(h) : h2[i] = h[i]
        /\ Scheduled(h2) = Scheduled(h) \cup (IF by = "timer" THEN {Len(h) + 1} ELSE {})
        /\ Apart(h2)
    <3>1. by = "command" => \A i \in 1..Len(h) : h[i].age >= COOLDOWN
      <4>1. \A i \in 1..Len(h) : h[i] \in StartType
        BY <2>2
      <4>2. \A i \in 1..Len(h) : h[i].age \in Nat
        BY <4>1, Constants DEF StartType
      <4> QED
        BY <4>2, <1>1, <2>2, Constants DEF Rested
    <3> HIDE DEF h
    <3> QED
      BY <1>1, <2>2, <3>1, AppendApart DEF h
  <2> HIDE DEF h2
  <2>4. starts'[a] = h2 /\ inFlight'[a] = inFlight[a] + 1 /\ sinceStart'[a] = 0
    BY <1>1, <2>1 DEF CyclesTyped
  <2>5. CyclesTyped'
    BY <1>1, <2>1, <2>2, <2>3, Constants DEF CyclesTyped
  <2>6. \A i \in 1..Len(h2) : h2[i].age >= 0
    <3>1. \A i \in 1..Len(h2) : h2[i] \in StartType
      BY <2>3
    <3> QED
      BY <3>1, Constants DEF StartType
  <2>7. inFlight[a] + 1 <= MaxInFlight \/ (/\ inFlight[a] + 1 = MaxInFlight + 1
                                           /\ \E i \in Scheduled(h2) : h2[i].age = 0)
    <3>1. CASE sinceStart[a] > 0
      BY <3>1, <1>1, <2>2, Constants DEF Rested
    <3>2. CASE sinceStart[a] = 0
      <4>1. by = "timer" /\ Scheduled(h) = {}
        BY <3>2, Constants
      <4>2. inFlight[a] <= MaxInFlight
        BY <1>1, <4>1 DEF Rested
      <4>3. Len(h) + 1 \in Scheduled(h2) /\ h2[Len(h) + 1].age = 0
        BY <2>3, <4>1
      <4> QED
        BY <2>2, <4>2, <4>3, Constants
    <3> QED
      BY <2>2, <3>1, <3>2, Constants
  <2>8. Rested(a)'
    BY <2>4, <2>6, <2>7 DEF Rested
  <2> QED
    BY <1>1, <2>1, <2>3, <2>4, <2>5, <2>8 DEF CyclesTyped, h2
<1> QED
  BY <1>2, <1>3

(* What a start adds to an agent's scheduled starts.                       *)
LEMMA ScheduledAppend ==
  ASSUME NEW h \in Seq(StartType), NEW by \in {"timer", "command"}, NEW h2,
         h2 = h \/ h2 = Append(h, [age |-> 0, by |-> by])
  PROVE  /\ by = "command" => Scheduled(h2) = Scheduled(h)
         /\ Scheduled(h2) \subseteq Scheduled(h) \cup {Len(h) + 1}
         /\ \A i \in Scheduled(h) : h2[i] = h[i]
<1>1. CASE h2 = h
  BY <1>1
<1>2. CASE h2 = Append(h, [age |-> 0, by |-> by])
  <2> DEFINE new == [age |-> 0, by |-> by]
  <2>1. new \in StartType /\ new.by = by
    BY Constants DEF StartType
  <2> HIDE DEF new
  <2>2. /\ Len(h2) = Len(h) + 1 /\ h2[Len(h) + 1] = new /\ Len(h) \in Nat
        /\ \A i \in 1..Len(h) : h2[i] = h[i]
    BY <1>2, <2>1 DEF new
  <2> QED
    BY <2>1, <2>2 DEF Scheduled
<1> QED
  BY <1>1, <1>2

(* A timer that fires hands the schedule over to the interval.             *)
LEMMA TimerFiresInv ==
  ASSUME OrchInv, NEW a \in Agents, TimerFires(a) PROVE OrchInv'
<1>1. PICK i \in Due(timers[a]) : timers' = [timers EXCEPT ![a] = RemoveAt(@, i)]
  BY DEF TimerFires
<1>2. /\ intervals' = [intervals EXCEPT ![a] = Append(@, CYCLE_INTERVAL)]
      /\ RunAgentCycle(a, "timer")
      /\ UNCHANGED <<running, stopping, status>>
  BY DEF TimerFires
<1>3. /\ ScheduleTyped /\ CyclesTyped /\ timers[a] \in Seq(Int) /\ intervals[a] \in Seq(Int)
      /\ starts[a] \in Seq(StartType)
      /\ \A b \in Agents : OnSchedule(b) /\ Apart(starts[b]) /\ Rested(b)
  BY DEF OrchInv, ScheduleTyped, CyclesTyped
<1>4. i \in 1..Len(timers[a]) /\ Len(timers[a]) \in Nat /\ Len(intervals[a]) \in Nat
  BY <1>3 DEF Due
<1>5. running /\ Len(timers[a]) = 1 /\ Len(intervals[a]) = 0 /\ Scheduled(starts[a]) = {}
  <2>1. /\ running => OneOf(a)
        /\ ~running => Len(timers[a]) = 0 /\ Len(intervals[a]) = 0
        /\ Len(timers[a]) > 0 => Scheduled(starts[a]) = {}
    BY <1>3 DEF OnSchedule, OneOf
  <2> QED
    BY <2>1, <1>4 DEF OneOf
<1>6. /\ timers'[a] \in Seq(Int) /\ Len(timers'[a]) = 0
      /\ intervals'[a] \in Seq(Int) /\ Len(intervals'[a]) = 1
      /\ intervals'[a][1] = CYCLE_INTERVAL
  <2>1. timers'[a] = RemoveAt(timers[a], i) /\ intervals'[a] = Append(intervals[a], CYCLE_INTERVAL)
    BY <1>1, <1>2, <1>3 DEF ScheduleTyped
  <2>2. timers'[a] \in Seq(Int) /\ Len(timers'[a]) = 0
    <3>1. /\ RemoveAt(timers[a], i) \in Seq(Int)
          /\ Len(RemoveAt(timers[a], i)) = Len(timers[a]) - 1
      BY <1>3, <1>4, RemoveAtSeq
    <3> QED
      BY <2>1, <3>1, <1>5
  <2>3. /\ intervals'[a] \in Seq(Int) /\ Len(intervals'[a]) = 1
        /\ intervals'[a][1] = CYCLE_INTERVAL
    BY <2>1, <1>3, <1>5, Constants
  <2> QED
    BY <2>2, <2>3
<1>7. \A b \in Agents \ {a} : timers'[b] = timers[b] /\ intervals'[b] = intervals[b]
  BY <1>1, <1>2, <1>3 DEF ScheduleTyped
<1>8. ScheduleTyped'
  <2>1. timers' \in [Agents -> Seq(Int)] /\ intervals' \in [Agents -> Seq(Int)]
    BY <1>1, <1>2, <1>3, <1>6 DEF ScheduleTyped
  <2>2. ASSUME NEW b \in Agents
        PROVE  /\ \A k \in 1..Len(timers'[b]) : timers'[b][k] >= -MaxLate
               /\ \A k \in 1..Len(intervals'[b]) : intervals'[b][k] \in -MaxLate..CYCLE_INTERVAL
    <3>1. CASE b = a
      BY <3>1, <1>6, Constants
    <3>2. CASE b # a
      BY <3>2, <1>3, <1>7 DEF ScheduleTyped
    <3> QED
      BY <3>1, <3>2
  <2> QED
    BY <1>2, <1>3, <2>1, <2>2 DEF ScheduleTyped
<1>9. /\ CyclesTyped' /\ Apart(starts'[a]) /\ Rested(a)'
      /\ \A b \in Agents \ {a} : /\ starts'[b] = starts[b] /\ inFlight'[b] = inFlight[b]
                                 /\ sinceStart'[b] = sinceStart[b]
      /\ \/ starts'[a] = starts[a]
         \/ starts'[a] = Append(starts[a], [age |-> 0, by |-> "timer"])
  BY <1>2, <1>5, CycleStarts
<1>10. Scheduled(starts'[a]) \subseteq {Len(starts[a]) + 1}
  BY <1>3, <1>5, <1>9, ScheduledAppend
<1>11. \A k \in Scheduled(starts'[a]) : starts'[a][k].age \in Nat
  <2>1. \A k \in Scheduled(starts'[a]) : starts'[a][k] \in StartType
    BY <1>9 DEF CyclesTyped, Scheduled
  <2> QED
    BY <2>1, Constants DEF StartType
<1>12. OnSchedule(a)'
  <2>1. \A k \in Scheduled(starts'[a]), j \in 1..Len(intervals'[a]) :
          starts'[a][k].age + intervals'[a][j] >= CYCLE_INTERVAL
    BY <1>6, <1>11, Constants
  <2> QED
    BY <1>2, <1>5, <1>6, <1>10, <2>1 DEF OnSchedule, OneOf
<1>13. ASSUME NEW b \in Agents PROVE OnSchedule(b)' /\ Apart(starts'[b]) /\ Rested(b)'
  BY <1>2, <1>3, <1>7, <1>9, <1>12, AgentFrame
<1> QED
  BY <1>8, <1>9, <1>13 DEF OrchInv

(* An interval fires when the start before has left the history.           *)
LEMMA IntervalFiresInv ==
  ASSUME OrchInv, NEW a \in Agents, IntervalFires(a) PROVE OrchInv'
<1>1. PICK i \in Due(intervals[a]) : intervals' = [intervals EXCEPT ![a][i] = CYCLE_INTERVAL]
  BY DEF IntervalFires
<1>2. RunAgentCycle(a, "timer") /\ UNCHANGED <<running, stopping, timers, status>>
  BY DEF IntervalFires
<1>3. /\ ScheduleTyped /\ CyclesTyped /\ timers[a] \in Seq(Int) /\ intervals[a] \in Seq(Int)
      /\ starts[a] \in Seq(StartType)
      /\ \A b \in Agents : OnSchedule(b) /\ Apart(starts[b]) /\ Rested(b)
  BY DEF OrchInv, ScheduleTyped, CyclesTyped
<1>4. /\ i \in 1..Len(intervals[a]) /\ intervals[a][i] <= 0 /\ intervals[a][i] \in Int
      /\ Len(timers[a]) \in Nat /\ Len(intervals[a]) \in Nat
  BY <1>3 DEF Due
<1>5. running /\ Len(timers[a]) = 0 /\ Len(intervals[a]) = 1 /\ i = 1
  <2>1. /\ running => OneOf(a)
        /\ ~running => Len(timers[a]) = 0 /\ Len(intervals[a]) = 0
    BY <1>3 DEF OnSchedule, OneOf
  <2> QED
    BY <2>1, <1>4 DEF OneOf
<1>6. Scheduled(starts[a]) = {}
  <2>1. ASSUME NEW k \in Scheduled(starts[a]) PROVE FALSE
    <3>1. starts[a][k] \in StartType
      BY <1>3 DEF Scheduled
    <3>2. starts[a][k].age \in 0..(CYCLE_INTERVAL - 1)
      BY <3>1 DEF StartType
    <3>3. starts[a][k].age + intervals[a][i] >= CYCLE_INTERVAL
      BY <1>3, <1>4 DEF OnSchedule, OneOf
    <3> QED
      BY <3>2, <3>3, <1>4, Constants
  <2> QED
    BY <2>1
<1>7. /\ intervals'[a] \in Seq(Int) /\ Len(intervals'[a]) = 1
      /\ intervals'[a][1] = CYCLE_INTERVAL
      /\ intervals' \in [Agents -> Seq(Int)]
      /\ \A b \in Agents \ {a} : intervals'[b] = intervals[b]
  <2>1. intervals' = [intervals EXCEPT ![a] = [intervals[a] EXCEPT ![i] = CYCLE_INTERVAL]]
    BY <1>1
  <2>2. /\ [intervals[a] EXCEPT ![i] = CYCLE_INTERVAL] \in Seq(Int)
        /\ Len([intervals[a] EXCEPT ![i] = CYCLE_INTERVAL]) = 1
        /\ [intervals[a] EXCEPT ![i] = CYCLE_INTERVAL][1] = CYCLE_INTERVAL
    BY <1>3, <1>4, <1>5, Constants
  <2> QED
    BY <2>1, <2>2, <1>3 DEF ScheduleTyped
<1>8. ScheduleTyped'
  <2>1. ASSUME NEW b \in Agents
        PROVE  \A k \in 1..Len(intervals'[b]) : intervals'[b][k] \in -MaxLate..CYCLE_INTERVAL
    <3>1. CASE b = a
      BY <3>1, <1>7, Constants
    <3>2. CASE b # a
      BY <3>2, <1>3, <1>7 DEF ScheduleTyped
    <3> QED
      BY <3>1, <3>2
  <2> QED
    BY <1>2, <1>3, <1>7, <2>1 DEF ScheduleTyped
<1>9. /\ CyclesTyped' /\ Apart(starts'[a]) /\ Rested(a)'
      /\ \A b \in Agents \ {a} : /\ starts'[b] = starts[b] /\ inFlight'[b] = inFlight[b]
                                 /\ sinceStart'[b] = sinceStart[b]
      /\ \/ starts'[a] = starts[a]
         \/ starts'[a] = Append(starts[a], [age |-> 0, by |-> "timer"])
  BY <1>2, <1>6, CycleStarts
<1>10. Scheduled(starts'[a]) \subseteq {Len(starts[a]) + 1}
  BY <1>3, <1>6, <1>9, ScheduledAppend
<1>11. \A k \in Scheduled(starts'[a]) : starts'[a][k].age \in Nat
  <2>1. \A k \in Scheduled(starts'[a]) : starts'[a][k] \in StartType
    BY <1>9 DEF CyclesTyped, Scheduled
  <2> QED
    BY <2>1, Constants DEF StartType
<1>12. OnSchedule(a)'
  <2>1. \A k \in Scheduled(starts'[a]), j \in 1..Len(intervals'[a]) :
          starts'[a][k].age + intervals'[a][j] >= CYCLE_INTERVAL
    BY <1>7, <1>11, Constants
  <2> QED
    BY <1>2, <1>5, <1>7, <1>10, <2>1 DEF OnSchedule, OneOf
<1>13. ASSUME NEW b \in Agents PROVE OnSchedule(b)' /\ Apart(starts'[b]) /\ Rested(b)'
  BY <1>2, <1>3, <1>7, <1>9, <1>12, AgentFrame
<1> QED
  BY <1>8, <1>9, <1>13 DEF OrchInv

(* A forced cycle: the agent's cooldown is over.                           *)
LEMMA TriggerCycleInv ==
  ASSUME OrchInv, NEW a \in Agents, TriggerCycle(a) PROVE OrchInv'
<1>1. /\ RunAgentCycle(a, "command") /\ sinceStart[a] >= COOLDOWN
      /\ UNCHANGED <<running, stopping, timers, intervals, status>>
  BY DEF TriggerCycle, schedule
<1>2. /\ ScheduleTyped /\ CyclesTyped /\ starts[a] \in Seq(StartType)
      /\ \A b \in Agents : OnSchedule(b) /\ Apart(starts[b]) /\ Rested(b)
  BY DEF OrchInv, CyclesTyped
<1>3. /\ CyclesTyped' /\ Apart(starts'[a]) /\ Rested(a)'
      /\ \A b \in Agents \ {a} : /\ starts'[b] = starts[b] /\ inFlight'[b] = inFlight[b]
                                 /\ sinceStart'[b] = sinceStart[b]
      /\ \/ starts'[a] = starts[a]
         \/ starts'[a] = Append(starts[a], [age |-> 0, by |-> "command"])
  BY <1>1, CycleStarts
<1>4. /\ Scheduled(starts'[a]) = Scheduled(starts[a])
      /\ \A i \in Scheduled(starts[a]) : starts'[a][i] = starts[a][i]
  BY <1>2, <1>3, ScheduledAppend
<1>5. OnSchedule(a)'
  BY <1>1, <1>2, <1>4 DEF OnSchedule, OneOf
<1>6. ASSUME NEW b \in Agents PROVE OnSchedule(b)' /\ Apart(starts'[b]) /\ Rested(b)'
  BY <1>1, <1>2, <1>3, <1>5, AgentFrame
<1>7. ScheduleTyped'
  BY <1>1, <1>2 DEF ScheduleTyped
<1> QED
  BY <1>3, <1>6, <1>7 DEF OrchInv

(* A kill switch, and the end of a cycle.                                  *)
LEMMA SwitchOrReturnInv ==
  ASSUME OrchInv, NEW a \in Agents,
         \/ \E s \in {"ACTIVE", "PAUSED"} : SetOperationalStatus(a, s)
         \/ CycleReturns(a)
  PROVE  OrchInv'
<1>1. /\ ScheduleTyped /\ CyclesTyped
      /\ \A b \in Agents : OnSchedule(b) /\ Apart(starts[b]) /\ Rested(b)
  BY DEF OrchInv
<1>2. UNCHANGED <<running, stopping, timers, intervals, sinceStart, starts>>
  BY DEF SetOperationalStatus, CycleReturns, schedule, cycles
<1>3. /\ status' \in [Agents -> {"ACTIVE", "PAUSED"}] /\ inFlight' \in [Agents -> Nat]
      /\ \A b \in Agents : inFlight'[b] <= inFlight[b]
  <2>1. CASE \E s \in {"ACTIVE", "PAUSED"} : SetOperationalStatus(a, s)
    BY <1>1, <2>1 DEF SetOperationalStatus, cycles, CyclesTyped
  <2>2. CASE CycleReturns(a)
    BY <1>1, <2>2 DEF CycleReturns, CyclesTyped
  <2> QED
    BY <2>1, <2>2
<1>4. ScheduleTyped' /\ CyclesTyped'
  BY <1>1, <1>2, <1>3 DEF ScheduleTyped, CyclesTyped
<1>5. ASSUME NEW b \in Agents PROVE OnSchedule(b)' /\ Apart(starts'[b]) /\ Rested(b)'
  <2>1. Scheduled(starts[b])' = Scheduled(starts[b])
    BY <1>2 DEF Scheduled
  <2>2. OnSchedule(b)' /\ Apart(starts'[b])
    BY <1>1, <1>2, <2>1 DEF OnSchedule, OneOf
  <2>3. Rested(b)'
    <3>1. /\ inFlight[b] \in Nat /\ inFlight'[b] \in Nat /\ inFlight'[b] <= inFlight[b]
          /\ starts'[b] = starts[b] /\ sinceStart'[b] = sinceStart[b] /\ Rested(b)
      BY <1>1, <1>2, <1>3 DEF CyclesTyped
    <3> QED
      BY <2>1, <3>1, Constants DEF Rested
  <2> QED
    BY <2>2, <2>3
<1> QED
  BY <1>4, <1>5 DEF OrchInv

(* start() schedules every agent once; nothing scheduled has run before.   *)
LEMMA StartInv == ASSUME OrchInv, Start PROVE OrchInv'
<1>1. /\ ScheduleTyped /\ CyclesTyped
      /\ \A b \in Agents : OnSchedule(b) /\ Apart(starts[b]) /\ Rested(b)
  BY DEF OrchInv
<1>2. /\ ~stopping /\ ~running /\ running' = TRUE
      /\ timers' = [a \in Agents |-> Append(timers[a], AGENT_OFFSETS[a])]
      /\ UNCHANGED <<stopping, intervals, sinceStart, inFlight, starts, status>>
  BY DEF Start, cycles
<1>3. ASSUME NEW a \in Agents
      PROVE  /\ timers'[a] \in Seq(Int) /\ Len(timers'[a]) = 1 /\ timers'[a][1] = AGENT_OFFSETS[a]
             /\ Len(intervals'[a]) = 0 /\ Scheduled(starts[a]) = {}
  <2>1. /\ timers[a] \in Seq(Int)
        /\ Len(timers[a]) = 0 /\ Len(intervals[a]) = 0 /\ Scheduled(starts[a]) = {}
    <3>1. timers[a] \in Seq(Int)
      BY <1>1 DEF ScheduleTyped
    <3> QED
      BY <1>1, <1>2, <3>1 DEF OnSchedule
  <2>2. timers'[a] = Append(timers[a], AGENT_OFFSETS[a]) /\ AGENT_OFFSETS[a] \in Int
    BY <1>2, Constants
  <2> QED
    BY <1>2, <2>1, <2>2
<1>4. ScheduleTyped'
  <2>1. timers' \in [Agents -> Seq(Int)]
    BY <1>2, <1>3
  <2>2. \A a \in Agents : \A i \in 1..Len(timers'[a]) : timers'[a][i] >= -MaxLate
    BY <1>3, Constants
  <2> QED
    BY <1>1, <1>2, <2>1, <2>2 DEF ScheduleTyped
<1>5. CyclesTyped'
  BY <1>1, <1>2 DEF CyclesTyped
<1>6. ASSUME NEW b \in Agents PROVE OnSchedule(b)' /\ Apart(starts'[b]) /\ Rested(b)'
  <2>1. Scheduled(starts[b])' = {}
    BY <1>2, <1>3 DEF Scheduled
  <2>2. OnSchedule(b)'
    BY <1>2, <1>3, <2>1 DEF OnSchedule, OneOf
  <2>3. Scheduled(starts[b])' = Scheduled(starts[b])
    BY <1>2 DEF Scheduled
  <2> QED
    BY <1>1, <1>2, <2>2, <2>3 DEF Rested
<1> QED
  BY <1>4, <1>5, <1>6 DEF OrchInv

(* stop() clears every schedule.                                           *)
LEMMA StopInv == ASSUME OrchInv, Stop PROVE OrchInv'
<1>1. /\ ScheduleTyped /\ CyclesTyped
      /\ \A b \in Agents : OnSchedule(b) /\ Apart(starts[b]) /\ Rested(b)
  BY DEF OrchInv
<1>2. /\ stopping' = TRUE /\ running' = FALSE
      /\ \A a \in Agents : timers'[a] = <<>> /\ intervals'[a] = <<>>
      /\ timers' \in [Agents -> Seq(Int)] /\ intervals' \in [Agents -> Seq(Int)]
      /\ UNCHANGED <<sinceStart, inFlight, starts, status>>
  BY DEF Stop, cycles, EachAgent
<1>3. ScheduleTyped' /\ CyclesTyped'
  <2>1. \A a \in Agents : 1..Len(timers'[a]) = {} /\ 1..Len(intervals'[a]) = {}
    BY <1>2
  <2>2. ScheduleTyped'
    BY <1>2, <2>1 DEF ScheduleTyped
  <2> QED
    BY <1>1, <1>2, <2>2 DEF CyclesTyped
<1>4. ASSUME NEW b \in Agents PROVE OnSchedule(b)' /\ Apart(starts'[b]) /\ Rested(b)'
  <2>1. Scheduled(starts[b])' = Scheduled(starts[b])
    BY <1>2 DEF Scheduled
  <2>2. /\ Len(timers'[b]) = 0 /\ Len(intervals'[b]) = 0
        /\ ~(Len(timers'[b]) > 0) /\ 1..Len(intervals'[b]) = {}
        /\ ~running' /\ stopping'
    BY <1>2
  <2>3. OnSchedule(b)'
    BY <1>1, <1>2, <2>1, <2>2 DEF OnSchedule
  <2> QED
    BY <1>1, <1>2, <2>1, <2>3 DEF Rested
<1> QED
  BY <1>3, <1>4 DEF OrchInv

(* A new process knows of nothing.                                         *)
LEMMA ProcessRestartInv == ASSUME ProcessRestart PROVE OrchInv'
<1>1. Fresh'
  BY DEF ProcessRestart, Fresh, EachAgent
<1> QED
  BY <1>1, OrchFreshNext

-----------------------------------------------------------------------------
(* Time takes the oldest starts, and only those, out of the history.       *)
LEMMA OlderDrops ==
  ASSUME NEW h \in Seq(StartType), Apart(h)
  PROVE  \E g \in 0..Len(h) :
           /\ Older(h) \in Seq(StartType) /\ Len(Older(h)) = Len(h) - g
           /\ \A i \in 1..(Len(h) - g) : /\ Older(h)[i].age = h[i + g].age + 1
                                         /\ Older(h)[i].by = h[i + g].by
<1> DEFINE n == Len(h)
           Aged(s) == [s EXCEPT !.age = @ + 1]
           AgedType == [age: 0..CYCLE_INTERVAL, by: {"timer", "command"}]
           aged == [i \in 1..n |-> Aged(h[i])]
           left == {i \in 1..n : aged[i].age >= CYCLE_INTERVAL}
           g == Cardinality(left)
<1>1. n \in Nat /\ DOMAIN h = 1..n /\ \A i \in 1..n : h[i] \in StartType
  OBVIOUS
<1>2. \A s \in StartType : /\ Aged(s) \in AgedType /\ Aged(s).age = s.age + 1 /\ Aged(s).by = s.by
                           /\ s.age \in Nat
  <2> TAKE s \in StartType
  <2>1. s.age \in 0..(CYCLE_INTERVAL - 1) /\ s.by \in {"timer", "command"}
    BY DEF StartType
  <2>2. s.age \in Nat /\ s.age + 1 \in 0..CYCLE_INTERVAL
    BY <2>1, Constants
  <2>3. s = [age |-> s.age, by |-> s.by]
    BY DEF StartType
  <2>4. Aged(s) = [age |-> s.age + 1, by |-> s.by]
    BY <2>3
  <2> HIDE DEF Aged
  <2> QED
    BY <2>1, <2>2, <2>4
<1>3. \A s \in AgedType : s.age < CYCLE_INTERVAL => s \in StartType
  BY Constants DEF StartType
<1> HIDE DEF Aged, AgedType
<1>4. aged \in Seq(AgedType) /\ Len(aged) = n /\ \A i \in 1..n : aged[i] = Aged(h[i])
  BY <1>1, <1>2
<1>5. \A i \in 1..n : /\ aged[i].age = h[i].age + 1 /\ aged[i].by = h[i].by
                      /\ h[i].age \in Nat /\ aged[i] \in AgedType
  BY <1>1, <1>2, <1>4
<1> HIDE DEF n
<1>6. Older(h) = SubSeq(aged, g + 1, n)
  <2>1. [i \in DOMAIN h |-> [h[i] EXCEPT !.age = @ + 1]] = aged
    BY <1>1 DEF Aged
  <2>2. DOMAIN aged = 1..n
    OBVIOUS
  <2> QED
    BY <2>1, <2>2, <1>4 DEF Older
<1> HIDE DEF aged
<1>7. IsFiniteSet(left) /\ g \in 0..n
  <2>1. IsFiniteSet(1..n) /\ Cardinality(1..n) = n
    BY <1>1, FS_Interval
  <2> QED
    BY <2>1, <1>1, FS_Subset, FS_CardinalityType
<1>8. ASSUME NEW i \in 1..n, i > g PROVE aged[i].age < CYCLE_INTERVAL
  <2> SUFFICES ASSUME aged[i].age >= CYCLE_INTERVAL PROVE FALSE
    BY <1>5, Constants
  <2>1. \A j \in 1..i : j \in left
    <3>1. ASSUME NEW j \in 1..i PROVE h[j].age >= h[i].age /\ j \in 1..n
      BY <1>1, <1>5 DEF Apart, n
    <3>2. \A j \in 1..i : j \in 1..n /\ aged[j].age >= aged[i].age /\ aged[j].age \in Nat
      BY <3>1, <1>5
    <3>3. \A j \in 1..i : aged[j].age >= CYCLE_INTERVAL
      BY <3>2, <1>5, Constants
    <3> QED
      BY <3>2, <3>3
  <2>2. IsFiniteSet(1..i) /\ Cardinality(1..i) = i
    BY <1>1, FS_Interval
  <2>3. i <= g
    BY <2>1, <2>2, <1>7, FS_Subset
  <2> QED
    BY <2>3, <1>7, <1>8, <1>1
<1> HIDE DEF g, left
<1> DEFINE h2 == SubSeq(aged, g + 1, n)
<1>9. Len(h2) = n - g /\ \A i \in 1..(n - g) : h2[i] = aged[i + g]
  BY <1>1, <1>4, <1>7
<1>10. h2 \in Seq(AgedType)
  BY <1>1, <1>4, <1>7
<1> HIDE DEF h2
<1>11. \A i \in 1..(n - g) : i + g \in 1..n /\ i + g > g
  BY <1>1, <1>7
<1>12. \A i \in 1..(n - g) : /\ h2[i].age = h[i + g].age + 1 /\ h2[i].by = h[i + g].by
                             /\ h2[i] \in StartType
  BY <1>3, <1>5, <1>8, <1>9, <1>11
<1>13. h2 \in Seq(StartType)
  BY <1>9, <1>10, <1>12, <1>1, <1>7
<1> QED
  BY <1>6, <1>7, <1>9, <1>12, <1>13 DEF n, h2

(* What is left stays apart: every start grows older by the same.          *)
LEMMA OlderApart ==
  ASSUME NEW h \in Seq(StartType), Apart(h)
  PROVE  /\ Older(h) \in Seq(StartType) /\ Apart(Older(h))
         /\ \E g \in 0..Len(h) :
              /\ Len(Older(h)) = Len(h) - g
              /\ \A i \in 1..(Len(h) - g) : /\ Older(h)[i].age = h[i + g].age + 1
                                            /\ Older(h)[i].by = h[i + g].by
                                            /\ i + g \in 1..Len(h) /\ h[i + g].age \in Nat
              /\ \A i \in 1..(Len(h) - g) : i \in Scheduled(Older(h)) <=> i + g \in Scheduled(h)
<1>1. PICK g \in 0..Len(h) :
        /\ Older(h) \in Seq(StartType) /\ Len(Older(h)) = Len(h) - g
        /\ \A i \in 1..(Len(h) - g) : /\ Older(h)[i].age = h[i + g].age + 1
                                      /\ Older(h)[i].by = h[i + g].by
  BY OlderDrops
<1> DEFINE n == Len(h)
           h2 == Older(h)
<1>2. n \in Nat /\ \A i \in 1..n : h[i].age \in Nat
  <2>1. n \in Nat /\ \A i \in 1..n : h[i] \in StartType
    OBVIOUS
  <2> QED
    BY <2>1, Constants DEF StartType
<1> HIDE DEF n, h2
<1>3. \A i \in 1..(n - g) : i + g \in 1..n /\ h[i + g].age \in Nat
  BY <1>1, <1>2 DEF n
<1>4. /\ Len(h2) = n - g /\ n - g \in Nat
      /\ \A i \in 1..(n - g) : h2[i].age = h[i + g].age + 1 /\ h2[i].by = h[i + g].by
  BY <1>1, <1>2 DEF n, h2
<1>5. \A i \in 1..(n - g) : i \in Scheduled(h2) <=> i + g \in Scheduled(h)
  BY <1>3, <1>4 DEF Scheduled, n
<1>6. ASSUME NEW i \in 1..(n - g), NEW j \in 1..(n - g), i < j
      PROVE  /\ h2[i].age >= h2[j].age
             /\ h2[i].age - h2[j].age >= COOLDOWN * (j - i - 1)
             /\ \/ \E k \in (i + 1)..j : k \in Scheduled(h2)
                \/ h2[i].age - h2[j].age >= COOLDOWN * (j - i)
  <2>1. /\ i + g \in 1..n /\ j + g \in 1..n /\ i + g < j + g
        /\ (j + g) - (i + g) = j - i /\ (j + g) - (i + g) - 1 = j - i - 1
    BY <1>2, <1>3, <1>6
  <2>2. /\ h[i + g].age >= h[j + g].age
        /\ h[i + g].age - h[j + g].age >= COOLDOWN * (j - i - 1)
        /\ \/ \E k \in (i + g + 1)..(j + g) : k \in Scheduled(h)
           \/ h[i + g].age - h[j + g].age >= COOLDOWN * (j - i)
    BY <2>1 DEF Apart, n
  <2>3. /\ h2[i].age = h[i + g].age + 1 /\ h2[j].age = h[j + g].age + 1
        /\ h[i + g].age \in Nat /\ h[j + g].age \in Nat
    BY <1>3, <1>4
  <2>4. h2[i].age - h2[j].age = h[i + g].age - h[j + g].age /\ h2[i].age >= h2[j].age
    <3> DEFINE x == h[i + g].age
               y == h[j + g].age
    <3>1. x \in Nat /\ y \in Nat /\ x >= y /\ h2[i].age = x + 1 /\ h2[j].age = y + 1
      BY <2>2, <2>3
    <3> HIDE DEF x, y
    <3>2. h2[i].age - h2[j].age = x - y /\ h2[i].age >= h2[j].age
      BY <3>1, OneTick
    <3> QED
      BY <3>2 DEF x, y
  <2>5. ASSUME NEW k \in (i + g + 1)..(j + g), k \in Scheduled(h)
        PROVE  k - g \in (i + 1)..j /\ k - g \in Scheduled(h2)
    <3>1. k - g \in (i + 1)..j /\ k - g \in 1..(n - g) /\ (k - g) + g = k
      BY <1>2, <1>6, <2>5
    <3> QED
      BY <3>1, <2>5, <1>5
  <2>6. \/ \E k \in (i + 1)..j : k \in Scheduled(h2)
        \/ h[i + g].age - h[j + g].age >= COOLDOWN * (j - i)
    BY <2>2, <2>5
  <2> QED
    BY <2>2, <2>4, <2>6
<1>7. Apart(h2)
  BY <1>4, <1>6 DEF Apart
<1> QED
  BY <1>1, <1>3, <1>4, <1>5, <1>7 DEF n, h2

(* A tick: every timer comes nearer, every start grows older.              *)
LEMMA TickInv == ASSUME OrchInv, Tick PROVE OrchInv'
<1>1. /\ ScheduleTyped /\ CyclesTyped
      /\ \A a \in Agents : OnSchedule(a) /\ Apart(starts[a]) /\ Rested(a)
  BY DEF OrchInv
<1>2. /\ \A a \in Agents : /\ inFlight[a] < MaxInFlight
                           /\ \A i \in DOMAIN timers[a] : timers[a][i] > -MaxLate
                           /\ \A i \in DOMAIN intervals[a] : intervals[a][i] > -MaxLate
      /\ timers' = [a \in Agents |-> Later(timers[a])]
      /\ intervals' = [a \in Agents |-> Later(intervals[a])]
      /\ sinceStart' = [a \in Agents |->
            IF sinceStart[a] < COOLDOWN THEN sinceStart[a] + 1 ELSE COOLDOWN]
      /\ starts' = [a \in Agents |-> Older(starts[a])]
      /\ UNCHANGED <<running, stopping, inFlight, status>>
  BY DEF Tick
<1>3. \A s \in Seq(Int) : /\ Later(s) \in Seq(Int) /\ Len(Later(s)) = Len(s)
                          /\ DOMAIN s = 1..Len(s)
                          /\ \A i \in 1..Len(s) : Later(s)[i] = s[i] - 1
  BY DEF Later
<1>4. ASSUME NEW a \in Agents
      PROVE  /\ timers[a] \in Seq(Int) /\ intervals[a] \in Seq(Int) /\ starts[a] \in Seq(StartType)
             /\ timers'[a] = Later(timers[a]) /\ intervals'[a] = Later(intervals[a])
             /\ starts'[a] = Older(starts[a])
             /\ sinceStart[a] \in 0..COOLDOWN /\ inFlight[a] \in Nat
             /\ sinceStart'[a] = IF sinceStart[a] < COOLDOWN THEN sinceStart[a] + 1 ELSE COOLDOWN
  BY <1>1, <1>2 DEF ScheduleTyped, CyclesTyped
<1>5. ASSUME NEW a \in Agents
      PROVE  /\ \A i \in 1..Len(timers'[a]) : timers'[a][i] >= -MaxLate
             /\ \A i \in 1..Len(intervals'[a]) : intervals'[a][i] \in -MaxLate..CYCLE_INTERVAL
  <2>1. /\ \A i \in 1..Len(timers[a]) : timers[a][i] \in Int /\ timers[a][i] > -MaxLate
        /\ \A i \in 1..Len(intervals[a]) : /\ intervals[a][i] \in -MaxLate..CYCLE_INTERVAL
                                           /\ intervals[a][i] > -MaxLate
    BY <1>1, <1>2, <1>3, <1>4 DEF ScheduleTyped
  <2>2. /\ Len(timers'[a]) = Len(timers[a]) /\ Len(intervals'[a]) = Len(intervals[a])
        /\ \A i \in 1..Len(timers[a]) : timers'[a][i] = timers[a][i] - 1
        /\ \A i \in 1..Len(intervals[a]) : intervals'[a][i] = intervals[a][i] - 1
    BY <1>3, <1>4
  <2> QED
    BY <2>1, <2>2, Constants
<1>6. ScheduleTyped'
  <2>1. timers' \in [Agents -> Seq(Int)] /\ intervals' \in [Agents -> Seq(Int)]
    BY <1>2, <1>3, <1>4
  <2> QED
    BY <2>1, <1>1, <1>2, <1>5 DEF ScheduleTyped
<1>7. CyclesTyped'
  <2>1. \A a \in Agents : Older(starts[a]) \in Seq(StartType)
    BY <1>1, <1>4, OlderApart
  <2>2. starts' \in [Agents -> Seq(StartType)]
    BY <2>1, <1>2
  <2>3. sinceStart' \in [Agents -> 0..COOLDOWN]
    BY <1>2, <1>4, Constants
  <2> QED
    BY <2>2, <2>3, <1>1, <1>2 DEF CyclesTyped
<1>8. ASSUME NEW a \in Agents PROVE OnSchedule(a)' /\ Apart(starts'[a]) /\ Rested(a)'
  <2> DEFINE h == starts[a]
             h2 == starts'[a]
  <2>1. h \in Seq(StartType) /\ Apart(h) /\ OnSchedule(a) /\ Rested(a)
    BY <1>1, <1>4
  <2>2. h2 = Older(h)
    BY <1>4
  <2> HIDE DEF h, h2
  <2>3. Apart(h2)
    BY <2>1, <2>2, OlderApart
  <2>4. PICK g \in 0..Len(h) :
          /\ Len(h2) = Len(h) - g
          /\ \A i \in 1..(Len(h) - g) : /\ h2[i].age = h[i + g].age + 1 /\ h2[i].by = h[i + g].by
                                        /\ i + g \in 1..Len(h) /\ h[i + g].age \in Nat
          /\ \A i \in 1..(Len(h) - g) : i \in Scheduled(h2) <=> i + g \in Scheduled(h)
    BY <2>1, <2>2, OlderApart
  <2>5. \A i \in Scheduled(h2) : /\ i \in 1..(Len(h) - g) /\ i + g \in Scheduled(h)
                                 /\ h2[i].age = h[i + g].age + 1 /\ h[i + g].age \in Nat
    BY <2>4 DEF Scheduled
  <2>6. /\ Len(timers'[a]) = Len(timers[a]) /\ Len(intervals'[a]) = Len(intervals[a])
        /\ \A i \in 1..Len(intervals[a]) : /\ intervals'[a][i] = intervals[a][i] - 1
                                           /\ intervals[a][i] \in Int
    BY <1>3, <1>4
  <2>7. OnSchedule(a)'
    <3>1. \A i, j \in Scheduled(h2) : i = j
      <4>1. ASSUME NEW i \in Scheduled(h2), NEW j \in Scheduled(h2) PROVE i = j
        <5>1. i + g = j + g
          BY <2>1, <2>5 DEF OnSchedule, h
        <5> QED
          BY <5>1, <2>5
      <4> QED
        BY <4>1
    <3>2. Scheduled(h) = {} => Scheduled(h2) = {}
      BY <2>5
    <3>3. ASSUME NEW i \in Scheduled(h2), NEW j \in 1..Len(intervals'[a])
          PROVE  h2[i].age + intervals'[a][j] >= CYCLE_INTERVAL
      <4>1. h[i + g].age + intervals[a][j] >= CYCLE_INTERVAL
        BY <2>1, <2>5, <2>6 DEF OnSchedule, h
      <4>2. /\ h2[i].age = h[i + g].age + 1 /\ intervals'[a][j] = intervals[a][j] - 1
            /\ h[i + g].age \in Nat /\ intervals[a][j] \in Int
        BY <2>5, <2>6
      <4> QED
        BY <4>1, <4>2, OneTick
    <3> QED
      BY <1>2, <2>1, <2>6, <3>1, <3>2, <3>3 DEF OnSchedule, OneOf, h, h2
  <2>8. Rested(a)'
    <3>1. \A i \in 1..Len(h2) : h2[i].age >= sinceStart'[a]
      <4>1. \A i \in 1..Len(h2) : /\ h2[i].age = h[i + g].age + 1 /\ h[i + g].age \in Nat
                                  /\ h[i + g].age >= sinceStart[a]
        BY <2>1, <2>4 DEF Rested, h
      <4>2. sinceStart[a] \in Nat /\ sinceStart'[a] \in Nat /\ sinceStart'[a] <= sinceStart[a] + 1
        BY <1>4, Constants
      <4>3. ASSUME NEW i \in 1..Len(h2) PROVE h2[i].age >= sinceStart'[a]
        <5> DEFINE x == h[i + g].age
        <5>1. x \in Nat /\ x >= sinceStart[a] /\ h2[i].age = x + 1
          BY <4>1
        <5> HIDE DEF x
        <5> QED
          BY <5>1, <4>2
      <4> QED
        BY <4>3
    <3>2. inFlight'[a] < MaxInFlight /\ inFlight[a] \in Nat
      BY <1>2, <1>4
    <3> QED
      BY <3>1, <3>2, <1>2, Constants DEF Rested, h2
  <2> QED
    BY <2>3, <2>7, <2>8 DEF h2
<1> QED
  BY <1>6, <1>7, <1>8 DEF OrchInv

-----------------------------------------------------------------------------
(* The invariant of the orchestrator, in every reachable state.            *)
THEOREM OrchInvariant == Spec => []OrchInv
<1>1. Init => OrchInv
  <2>1. Init => Fresh
    BY DEF Init, Fresh
  <2> QED
    BY <2>1, OrchFresh
<1>2. ASSUME OrchInv, [Next]_vars PROVE OrchInv'
  <2>1. CASE UNCHANGED vars
    BY <1>2, <2>1
       DEF vars, schedule, cycles, OrchInv, ScheduleTyped, CyclesTyped, OnSchedule, OneOf,
           Apart, Rested, Scheduled
  <2>2. CASE Next
    BY <1>2, <2>2, StartInv, StopInv, TimerFiresInv, IntervalFiresInv, SwitchOrReturnInv,
       TriggerCycleInv, ProcessRestartInv, TickInv DEF Next
  <2> QED
    BY <1>2, <2>1, <2>2
<1> QED
  BY <1>1, <1>2, PTL DEF Spec

(* The state has its types throughout, and between two ticks an agent      *)
(* starts no more than one scheduled and one forced cycle.                 *)
THEOREM OrchTypeCorrect == Spec => []TypeOK
<1>1. ASSUME OrchInv PROVE TypeOK
  <2> SUFFICES ASSUME NEW a \in Agents
               PROVE  /\ \A i \in DOMAIN timers[a] : timers[a][i] >= -MaxLate
                      /\ \A i \in DOMAIN intervals[a] : intervals[a][i] \in -MaxLate..CYCLE_INTERVAL
                      /\ status[a] \in {"ACTIVE", "PAUSED"}
                      /\ sinceStart[a] \in 0..COOLDOWN
                      /\ inFlight[a] \in 0..(MaxInFlight + 1)
                      /\ \A i \in DOMAIN starts[a] :
                           /\ starts[a][i].age \in 0..(CYCLE_INTERVAL - 1)
                           /\ starts[a][i].by \in {"timer", "command"}
    BY <1>1 DEF TypeOK, OrchInv, ScheduleTyped
  <2>1. /\ timers[a] \in Seq(Int) /\ intervals[a] \in Seq(Int) /\ starts[a] \in Seq(StartType)
        /\ status[a] \in {"ACTIVE", "PAUSED"} /\ sinceStart[a] \in 0..COOLDOWN
        /\ inFlight[a] \in Nat
    BY <1>1 DEF OrchInv, ScheduleTyped, CyclesTyped
  <2>2. /\ DOMAIN timers[a] = 1..Len(timers[a]) /\ DOMAIN intervals[a] = 1..Len(intervals[a])
        /\ \A i \in DOMAIN starts[a] : starts[a][i] \in StartType
    BY <2>1
  <2>3. inFlight[a] \in 0..(MaxInFlight + 1)
    BY <1>1, <2>1, Constants DEF OrchInv, Rested
  <2>4. \A i \in DOMAIN starts[a] : /\ starts[a][i].age \in 0..(CYCLE_INTERVAL - 1)
                                    /\ starts[a][i].by \in {"timer", "command"}
    BY <2>2 DEF StartType
  <2>5. /\ \A i \in 1..Len(timers[a]) : timers[a][i] >= -MaxLate
        /\ \A i \in 1..Len(intervals[a]) : intervals[a][i] \in -MaxLate..CYCLE_INTERVAL
    BY <1>1 DEF OrchInv, ScheduleTyped
  <2> QED
    BY <2>1, <2>2, <2>3, <2>4, <2>5
<1> QED
  BY OrchInvariant, <1>1, PTL

(* Each agent has one schedule while the orchestrator runs, and none after *)
(* stop() (agent-orchestrator.ts).                                         *)
THEOREM OneScheduleEachHolds == Spec => []OneScheduleEach
<1>1. ASSUME OrchInv, NEW a \in Agents
      PROVE  Len(timers[a]) + Len(intervals[a]) = IF running THEN 1 ELSE 0
  <2>1. CASE running
    <3>1. OneOf(a)
      BY <1>1, <2>1 DEF OrchInv, OnSchedule
    <3> QED
      BY <2>1, <3>1, OneAndNone, Zenon DEF OneOf
  <2>2. CASE ~running
    <3>1. Len(timers[a]) = 0 /\ Len(intervals[a]) = 0
      BY <1>1, <2>2 DEF OrchInv, OnSchedule
    <3> QED
      BY <2>2, <3>1, OneAndNone, Zenon
  <2> QED
    BY <2>1, <2>2
<1>2. OrchInv => OneScheduleEach
  BY <1>1 DEF OneScheduleEach
<1> QED
  BY OrchInvariant, <1>2, PTL

(* Scheduled cycles of an agent start an interval apart, however late its  *)
(* timers fire.                                                            *)
THEOREM ScheduledSpacingHolds == Spec => []ScheduledSpacing
<1>1. ASSUME OrchInv, NEW a \in Agents
      PROVE  Cardinality({i \in DOMAIN starts[a] : starts[a][i].by = "timer"}) <= 1
  <2>1. starts[a] \in Seq(StartType)
    BY <1>1 DEF OrchInv, CyclesTyped
  <2>2. {i \in DOMAIN starts[a] : starts[a][i].by = "timer"} = Scheduled(starts[a])
    BY <2>1 DEF Scheduled
  <2>3. \A i, j \in Scheduled(starts[a]) : i = j
    BY <1>1 DEF OrchInv, OnSchedule
  <2>4. Cardinality(Scheduled(starts[a])) <= 1
    <3>1. CASE Scheduled(starts[a]) = {}
      BY <3>1, FS_EmptySet
    <3>2. CASE Scheduled(starts[a]) # {}
      <4>1. PICK i : Scheduled(starts[a]) = {i}
        BY <3>2, <2>3
      <4> QED
        BY <4>1, FS_Singleton
    <3> QED
      BY <3>1, <3>2
  <2> QED
    BY <2>2, <2>4
<1>2. OrchInv => ScheduledSpacing
  BY <1>1 DEF ScheduledSpacing
<1> QED
  BY OrchInvariant, <1>2, PTL

(* A forced cycle keeps the cooldown from whatever started before it.      *)
THEOREM ForcedSpacingHolds == Spec => []ForcedSpacing
<1>1. ASSUME OrchInv, NEW a \in Agents, NEW i \in DOMAIN starts[a], NEW j \in DOMAIN starts[a],
             i < j, starts[a][j].by = "command"
      PROVE  starts[a][i].age - starts[a][j].age >= COOLDOWN
  <2> DEFINE h == starts[a]
  <2>1. h \in Seq(StartType) /\ Apart(h)
    BY <1>1 DEF OrchInv, CyclesTyped
  <2> HIDE DEF h
  <2>2. i \in 1..Len(h) /\ j \in 1..Len(h) /\ h[j].by = "command"
    BY <1>1, <2>1 DEF h
  <2>3. h[i] \in StartType /\ h[j] \in StartType
    BY <2>1, <2>2
  <2>4. h[i].age \in Nat /\ h[j].age \in Nat
    BY <2>3, Constants DEF StartType
  <2> DEFINE d == h[i].age - h[j].age
             m == j - i
  <2>5. /\ d >= COOLDOWN * (m - 1)
        /\ \/ \E k \in (i + 1)..j : k \in Scheduled(h)
           \/ d >= COOLDOWN * m
    BY <1>1, <2>1, <2>2 DEF Apart
  <2>6. m \in Nat /\ m >= 1 /\ d \in Int
    BY <1>1, <2>2, <2>4
  <2>7. ASSUME NEW k \in (i + 1)..j, k \in Scheduled(h) PROVE m >= 2
    <3>1. k # j
      BY <2>2, <2>7 DEF Scheduled
    <3> QED
      BY <2>2, <2>7, <3>1
  <2> HIDE DEF d, m
  <2>8. CASE m >= 2
    <3>1. COOLDOWN * (m - 1) >= COOLDOWN
      BY <2>6, <2>8, Constants
    <3> QED
      BY <2>5, <2>6, <3>1, Constants DEF d, h
  <2>9. CASE m < 2
    <3>1. m = 1 /\ COOLDOWN * m = COOLDOWN
      BY <2>6, <2>9, Constants
    <3>2. d >= COOLDOWN
      BY <2>5, <2>6, <2>7, <2>9, <3>1
    <3> QED
      BY <3>2 DEF d, h
  <2> QED
    BY <2>6, <2>8, <2>9
<1>2. OrchInv => ForcedSpacing
  BY <1>1 DEF ForcedSpacing
<1> QED
  BY OrchInvariant, <1>2, PTL

(* Starts a cooldown apart, but for one, fit into an interval this often.  *)
LEMMA StartsFit ==
  ASSUME NEW n \in Nat, n >= 2 => COOLDOWN * (n - 2) < CYCLE_INTERVAL
  PROVE  n <= (CYCLE_INTERVAL + COOLDOWN - 1) \div COOLDOWN + 1
<1> DEFINE q == (CYCLE_INTERVAL + COOLDOWN - 1) \div COOLDOWN
<1>1. /\ q \in Nat /\ CYCLE_INTERVAL + COOLDOWN - 1 < COOLDOWN * (q + 1)
  BY Constants
<1> HIDE DEF q
<1>2. COOLDOWN * (q + 1) = COOLDOWN * q + COOLDOWN
  BY <1>1, Constants
<1>3. COOLDOWN * q \in Int /\ CYCLE_INTERVAL <= COOLDOWN * q
  BY <1>1, <1>2, Constants
<1>4. CASE n >= 2
  <2>1. ~(n - 2 >= q)
    <3> SUFFICES ASSUME n - 2 >= q PROVE FALSE
      OBVIOUS
    <3>1. COOLDOWN * (n - 2) >= COOLDOWN * q
      BY <1>1, <1>4, Constants
    <3> QED
      BY <1>3, <1>4, <3>1, Constants
  <2> QED
    BY <1>1, <2>1 DEF q
<1>5. CASE n < 2
  BY <1>1, <1>5 DEF q
<1> QED
  BY <1>4, <1>5

(* However commands and timers mix, an agent starts no more cycles in an   *)
(* interval than cooldowns fit into it, and one.                           *)
THEOREM StartRateIsBounded == Spec => []StartRateBounded
<1>1. ASSUME OrchInv, NEW a \in Agents
      PROVE  Len(starts[a]) <= (CYCLE_INTERVAL + COOLDOWN - 1) \div COOLDOWN + 1
  <2> DEFINE h == starts[a]
             n == Len(h)
  <2>1. h \in Seq(StartType) /\ Apart(h)
    BY <1>1 DEF OrchInv, CyclesTyped
  <2> HIDE DEF h
  <2>2. n \in Nat /\ \A i \in 1..n : h[i] \in StartType
    BY <2>1
  <2>3. \A i \in 1..n : h[i].age \in Nat /\ h[i].age < CYCLE_INTERVAL
    <3>1. \A i \in 1..n : h[i].age \in 0..(CYCLE_INTERVAL - 1)
      BY <2>2 DEF StartType
    <3> QED
      BY <3>1, Constants
  <2>4. n >= 2 => h[1].age - h[n].age >= COOLDOWN * (n - 1 - 1)
    BY <2>1, <2>2 DEF Apart
  <2> HIDE DEF n
  <2>5. n >= 2 => COOLDOWN * (n - 2) < CYCLE_INTERVAL
    <3> SUFFICES ASSUME n >= 2 PROVE COOLDOWN * (n - 2) < CYCLE_INTERVAL
      OBVIOUS
    <3>1. /\ h[1].age \in Nat /\ h[n].age \in Nat /\ h[1].age < CYCLE_INTERVAL
          /\ n - 1 - 1 = n - 2 /\ COOLDOWN * (n - 2) \in Int
      BY <2>2, <2>3, Constants
    <3> QED
      BY <2>4, <3>1, Constants
  <2>6. n <= (CYCLE_INTERVAL + COOLDOWN - 1) \div COOLDOWN + 1
    BY <2>2, <2>5, StartsFit
  <2> QED
    BY <2>6 DEF n, h
<1>2. OrchInv => StartRateBounded
  BY <1>1 DEF StartRateBounded
<1> QED
  BY OrchInvariant, <1>2, PTL
=============================================================================
