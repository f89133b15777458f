----------------------------- MODULE Orchestrator -----------------------------
(***************************************************************************)
(* AgentOrchestrator (backend/src/agent/agent-orchestrator.ts): who starts *)
(* a cycle of which agent, and when.  Every method runs without an await,  *)
(* so a call is one action; the cycle it starts goes on by itself          *)
(* (AgentCycle) and here only starts and ends.                             *)
(*                                                                         *)
(* Time passes in ticks.  Instants are kept as distances from now, so the  *)
(* state stays finite however long the system runs: a timer is the ticks   *)
(* it still has to wait, and `sinceStart' is Date.now() minus the agent's  *)
(* lastCycleStartedAt, saturated at COOLDOWN because the code compares it  *)
(* with nothing larger.                                                    *)
(***************************************************************************)
EXTENDS Integers, FiniteSets, Sequences, SequencesExt

CONSTANTS
  Agents,
  AGENT_OFFSETS,     (* first cycle of each agent, ticks after start()      *)
  CYCLE_INTERVAL,    (* ticks between scheduled cycles                      *)
  COOLDOWN,          (* ticks a forced cycle keeps from the last start      *)
  MaxLate,           (* bound: ticks a busy event loop may fire a timer late*)
  MaxInFlight        (* bound: no time passes while an agent has that many  *)
                     (* unfinished cycles                                   *)

ASSUME OffsetAssumption   == AGENT_OFFSETS \in [Agents -> Nat]
ASSUME IntervalAssumption == CYCLE_INTERVAL \in Nat \ {0}
ASSUME CooldownAssumption == COOLDOWN \in Nat \ {0}
ASSUME LateAssumption     == MaxLate \in Nat
ASSUME InFlightAssumption == MaxInFlight \in Nat \ {0}

VARIABLES
  running,       (* the flag of start() and stop()                          *)
  stopping,      (* index.ts has called stop() and is about to exit         *)
  timers,        (* pending setTimeouts of each agent                       *)
  intervals,     (* pending setIntervals of each agent                      *)
  status,        (* operationalStatus                                       *)
  sinceStart,    (* age of lastCycleStartedAt                               *)
  inFlight,      (* unfinished runCycle promises of each agent              *)
  starts         (* history: cycles started in the last CYCLE_INTERVAL ticks*)

schedule == <<running, stopping, timers, intervals>>
cycles   == <<sinceStart, inFlight, starts>>
vars     == <<schedule, cycles, status>>

EachAgent(x) == [a \in Agents |-> x]

Init ==
  /\ running = FALSE
  /\ stopping = FALSE
  /\ timers = EachAgent(<<>>)
  /\ intervals = EachAgent(<<>>)
  /\ status = EachAgent("ACTIVE")
  /\ sinceStart = EachAgent(COOLDOWN)
  /\ inFlight = EachAgent(0)
  /\ starts = EachAgent(<<>>)

-----------------------------------------------------------------------------
(* Bug: only forced cycles start the cooldown.                             *)
CooldownOfCommandsOnly(a, by) ==
  IF status[a] = "PAUSED"
  THEN UNCHANGED cycles
  ELSE /\ sinceStart' = IF by = "command" THEN [sinceStart EXCEPT ![a] = 0] ELSE sinceStart
       /\ inFlight' = [inFlight EXCEPT ![a] = @ + 1]
       /\ starts' = [starts EXCEPT ![a] = Append(@, [age |-> 0, by |-> by])]

(* Bug: the timer's callback does not ask the kill switch.                 *)
RunPausedToo(a, by) ==
  /\ sinceStart' = [sinceStart EXCEPT ![a] = 0]
  /\ inFlight' = [inFlight EXCEPT ![a] = @ + 1]
  /\ starts' = [starts EXCEPT ![a] = Append(@, [age |-> 0, by |-> by])]

(* The kill switch is looked at when a cycle would start, at no other time.*)
RunAgentCycle(a, by) ==
  IF status[a] = "PAUSED"
  THEN UNCHANGED cycles
  ELSE /\ sinceStart' = [sinceStart EXCEPT ![a] = 0]
       /\ inFlight' = [inFlight EXCEPT ![a] = @ + 1]
       /\ starts' = [starts EXCEPT ![a] = Append(@, [age |-> 0, by |-> by])]

(* Bug: a second start() schedules every agent again.                      *)
StartAgain ==
  /\ ~stopping
  /\ running' = TRUE
  /\ timers' = [a \in Agents |-> Append(timers[a], AGENT_OFFSETS[a])]
  /\ UNCHANGED <<stopping, intervals, cycles, status>>

(* index.ts calls start() once; a second call would do nothing. *)
Start ==
  /\ ~stopping
  /\ ~running
  /\ running' = TRUE
  /\ timers' = [a \in Agents |-> Append(timers[a], AGENT_OFFSETS[a])]
  /\ UNCHANGED <<stopping, intervals, cycles, status>>

(* Bug: stop() clears the timeouts and forgets the intervals.              *)
StopKeepsIntervals ==
  /\ running
  /\ stopping' = TRUE
  /\ running' = FALSE
  /\ timers' = EachAgent(<<>>)
  /\ UNCHANGED <<intervals, cycles, status>>

(* SIGINT or SIGTERM, handled once start() has run; a second signal finds  *)
(* nothing to clear.  Unfinished cycles go on, and the HTTP server still   *)
(* takes commands until the process exits.                                 *)
Stop ==
  /\ running
  /\ stopping' = TRUE
  /\ running' = FALSE
  /\ timers' = EachAgent(<<>>)
  /\ intervals' = EachAgent(<<>>)
  /\ UNCHANGED <<cycles, status>>

Due(pending) == {i \in DOMAIN pending : pending[i] <= 0}

(* Bug: the callback returns before it sets the interval up when paused.   *)
PausedTimerGivesUp(a) ==
  /\ \E i \in Due(timers[a]) : timers' = [timers EXCEPT ![a] = RemoveAt(@, i)]
  /\ intervals' = IF status[a] = "PAUSED" THEN intervals
                  ELSE [intervals EXCEPT ![a] = Append(@, CYCLE_INTERVAL)]
  /\ RunAgentCycle(a, "timer")
  /\ UNCHANGED <<running, stopping, status>>

(* The setTimeout callback: the first cycle, then the interval, even when  *)
(* the first cycle was skipped.                                            *)
TimerFires(a) ==
  /\ \E i \in Due(timers[a]) : timers' = [timers EXCEPT ![a] = RemoveAt(@, i)]
  /\ intervals' = [intervals EXCEPT ![a] = Append(@, CYCLE_INTERVAL)]
  /\ RunAgentCycle(a, "timer")
  /\ UNCHANGED <<running, stopping, status>>

(* The runtime re-arms an interval from the moment its callback ran. *)
IntervalFires(a) ==
  /\ \E i \in Due(intervals[a]) :
       intervals' = [intervals EXCEPT ![a][i] = CYCLE_INTERVAL]
  /\ RunAgentCycle(a, "timer")
  /\ UNCHANGED <<running, stopping, timers, status>>

(* Kill switch, from the dashboard, the command line or Telegram. *)
SetOperationalStatus(a, s) ==
  /\ status' = [status EXCEPT ![a] = s]
  /\ UNCHANGED <<schedule, cycles>>

(* Bug: the cooldown is one tick short.                                    *)
TriggerEarly(a) ==
  /\ status[a] # "PAUSED"
  /\ sinceStart[a] >= COOLDOWN - 1
  /\ RunAgentCycle(a, "command")
  /\ UNCHANGED <<schedule, status>>

(* Force run; the calls that are refused change nothing. *)
TriggerCycle(a) ==
  /\ status[a] # "PAUSED"
  /\ sinceStart[a] >= COOLDOWN
  /\ RunAgentCycle(a, "command")
  /\ UNCHANGED <<schedule, status>>

(* Bug: an end is counted for a cycle that was never started.              *)
ReturnsTwice(a) ==
  /\ inFlight' = [inFlight EXCEPT ![a] = @ - 1]
  /\ UNCHANGED <<schedule, sinceStart, starts, status>>

CycleReturns(a) ==
  /\ inFlight[a] > 0
  /\ inFlight' = [inFlight EXCEPT ![a] = @ - 1]
  /\ UNCHANGED <<schedule, sinceStart, starts, status>>

(* process.exit or a crash: nothing survives, not even the kill switch. *)
ProcessRestart ==
  /\ running' = FALSE
  /\ stopping' = FALSE
  /\ timers' = EachAgent(<<>>)
  /\ intervals' = EachAgent(<<>>)
  /\ status' = EachAgent("ACTIVE")
  /\ sinceStart' = EachAgent(COOLDOWN)
  /\ inFlight' = EachAgent(0)
  /\ starts' = EachAgent(<<>>)

Later(pending) == [i \in DOMAIN pending |-> pending[i] - 1]

(* The oldest starts, which come first, leave the history. *)
Older(history) ==
  LET aged == [i \in DOMAIN history |-> [history[i] EXCEPT !.age = @ + 1]]
      left == {i \in DOMAIN aged : aged[i].age >= CYCLE_INTERVAL}
  IN SubSeq(aged, Cardinality(left) + 1, Len(aged))

Tick ==
  /\ \A a \in Agents :
       /\ inFlight[a] < MaxInFlight
       /\ \A i \in DOMAIN timers[a] : timers[a][i] > -MaxLate
       /\ \A i \in DOMAIN intervals[a] : intervals[a][i] > -MaxLate
  /\ timers' = [a \in Agents |-> Later(timers[a])]
  /\ intervals' = [a \in Agents |-> Later(intervals[a])]
  /\ sinceStart' = [a \in Agents |->
       IF sinceStart[a] < COOLDOWN THEN sinceStart[a] + 1 ELSE COOLDOWN]
  /\ starts' = [a \in Agents |-> Older(starts[a])]
  /\ UNCHANGED <<running, stopping, inFlight, status>>

Next ==
  \/ Start
  \/ Stop
  \/ \E a \in Agents :
       \/ TimerFires(a)
       \/ IntervalFires(a)
       \/ \E s \in {"ACTIVE", "PAUSED"} : SetOperationalStatus(a, s)
       \/ TriggerCycle(a)
       \/ CycleReturns(a)
  \/ ProcessRestart
  \/ Tick

(* Time passes, the event loop runs due timers, and cycles end (CycleEnds  *)
(* in AgentCycle).  Nobody has to press a button.                          *)
Fairness ==
  /\ WF_vars(Tick)
  /\ \A a \in Agents :
       WF_vars(TimerFires(a)) /\ WF_vars(IntervalFires(a)) /\ WF_vars(CycleReturns(a))

Spec == Init /\ [][Next]_vars /\ Fairness

-----------------------------------------------------------------------------
TypeOK ==
  /\ running \in BOOLEAN /\ stopping \in BOOLEAN
  /\ \A a \in Agents :
       /\ \A i \in DOMAIN timers[a] : timers[a][i] >= -MaxLate
       /\ \A i \in DOMAIN intervals[a] : intervals[a][i] \in -MaxLate..CYCLE_INTERVAL
       /\ status[a] \in {"ACTIVE", "PAUSED"}
       /\ sinceStart[a] \in 0..COOLDOWN
       /\ inFlight[a] \in 0..(MaxInFlight + 1)
       /\ \A i \in DOMAIN starts[a] :
            /\ starts[a][i].age \in 0..(CYCLE_INTERVAL - 1)
            /\ starts[a][i].by \in {"timer", "command"}

(* Each agent has exactly one schedule while the orchestrator runs, paused *)
(* or not, and no timer survives stop() ("no new cycles are scheduled",    *)
(* agent-orchestrator.ts:175).                                             *)
OneScheduleEach ==
  \A a \in Agents :
    Len(timers[a]) + Len(intervals[a]) = IF running THEN 1 ELSE 0

(* Scheduled cycles of an agent start at least CYCLE_INTERVAL apart,       *)
(* however late the event loop fires its timers.                           *)
ScheduledSpacing ==
  \A a \in Agents :
    Cardinality({i \in DOMAIN starts[a] : starts[a][i].by = "timer"}) <= 1

(* A forced cycle starts at least COOLDOWN after whatever cycle of that    *)
(* agent started before it, scheduled ones included ("15-second cooldown").*)
ForcedSpacing ==
  \A a \in Agents : \A i, j \in DOMAIN starts[a] :
    i < j /\ starts[a][j].by = "command" =>
      starts[a][i].age - starts[a][j].age >= COOLDOWN

(* The two together bound the load an agent puts on models, RPC and the    *)
(* paymaster: cycles started per interval, however commands and timers mix.*)
StartRateBounded ==
  \A a \in Agents :
    Len(starts[a]) <= (CYCLE_INTERVAL + COOLDOWN - 1) \div COOLDOWN + 1

StartedNow(a) == \E i \in DOMAIN starts[a] : starts[a][i].age = 0

(* An agent that is neither paused nor stopped keeps cycling, also when it *)
(* was paused at the moment its first cycle was due.                       *)
KeepsCycling ==
  \A a \in Agents :
    running /\ status[a] = "ACTIVE" ~>
      StartedNow(a) \/ status[a] = "PAUSED" \/ ~running

(* The kill switch works: an agent that is paused for good comes to rest,  *)
(* its cycles in flight end and no timer or command starts another one.    *)
PausedQuiesces ==
  \A a \in Agents : (<>[](status[a] = "PAUSED")) => <>[](inFlight[a] = 0)
=============================================================================
