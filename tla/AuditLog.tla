-------------------------------- MODULE AuditLog --------------------------------
(***************************************************************************)
(* The audit log all agents share (backend/src/security/audit-logger.ts):  *)
(* a file that only grows, a buffer of the newest entries in memory and,   *)
(* in production, a table in PostgreSQL.  Table writes are sent and never  *)
(* awaited, so rows arrive late, out of order or not at all, also after    *)
(* the process that sent them is gone.                                     *)
(*                                                                         *)
(* Two readers matter.  Check 5 of the Policy Engine sums today's volume   *)
(* over the buffer.  A client of GET /api/logs walks the pages, newest     *)
(* first, while entries keep being written; each request computes its page *)
(* anew.                                                                   *)
(***************************************************************************)
EXTENDS Integers, SequencesExt

CONSTANTS
  Agents,
  Amounts,          (* amountIn of confirmed swaps                          *)
  MAX_IN_MEMORY,
  Limit,            (* page size the client asks for                        *)
  MIDNIGHT,         (* the instant the second day begins                    *)
  MaxNow, MaxEntries   (* bounds of a behaviour                             *)

ASSUME BufferAssumption == MAX_IN_MEMORY \in Nat \ {0}
ASSUME LimitAssumption  == Limit \in Nat \ {0}
ASSUME AmountAssumption == Amounts \subseteq Nat \ {0}
ASSUME BoundsAssumption == MaxNow \in Nat /\ MaxEntries \in Nat

VARIABLES
  production,       (* NODE_ENV, fixed when the process is deployed         *)
  now,
  file,             (* audit.jsonl                                          *)
  buffer,
  inFlight, rows,   (* entries on their way to the table, and in it         *)
  boot,             (* history: length of the file when the process started *)
  reader            (* the client of /api/logs                              *)

logVars == <<file, buffer, inFlight, rows>>
vars == <<production, now, logVars, boot, reader>>

Events == {"TX_CONFIRMED", "CYCLE_ERROR"}

(* An entry; id is its place in the file.  Only a swap has an amountIn.    *)
EntryType == [id: Nat, ts: Nat, agentId: Agents, event: Events, amountIn: Nat]

NoReader == [page |-> 0, wanted |-> {}, seen |-> {}, done |-> FALSE]

Init ==
  /\ production \in BOOLEAN
  /\ now = 0
  /\ file = <<>> /\ buffer = <<>>
  /\ inFlight = {} /\ rows = {}
  /\ boot = 0
  /\ reader = NoReader

-----------------------------------------------------------------------------
(* Bug: the buffer is shifted one entry too late.                          *)
ShiftedLate(b) == IF Len(b) > MAX_IN_MEMORY + 1 THEN Tail(b) ELSE b

(* push and, when that made it too long, shift. *)
Shifted(b) == IF Len(b) > MAX_IN_MEMORY THEN Tail(b) ELSE b

(* log() never throws and waits for nothing. *)
Log(a, event, amount) ==
  LET full == [id |-> Len(file) + 1, ts |-> now, agentId |-> a, event |-> event,
               amountIn |-> amount]
  IN /\ Len(file) < MaxEntries
     /\ file' = Append(file, full)
     /\ buffer' = Shifted(Append(buffer, full))
     /\ inFlight' = IF production THEN inFlight \cup {full} ELSE inFlight
     /\ UNCHANGED <<production, now, rows, boot, reader>>

LogSwap(a)  == \E x \in Amounts : Log(a, "TX_CONFIRMED", x)
LogError(a) == Log(a, "CYCLE_ERROR", 0)

RowLands(e) ==
  /\ inFlight' = inFlight \ {e}
  /\ rows' = rows \cup {e}
  /\ UNCHANGED <<production, now, file, buffer, boot, reader>>

(* The insert fails, or its connection dies with the process.  What the    *)
(* catch writes to the file is no entry of the log.                        *)
RowFails(e) ==
  /\ inFlight' = inFlight \ {e}
  /\ UNCHANGED <<production, now, file, buffer, rows, boot, reader>>

(* Confirmed swaps of an agent among the entries of a log, and those of    *)
(* today.                                                                  *)
SwapsOf(a, log) == {e \in ToSet(log) : e.agentId = a /\ e.event = "TX_CONFIRMED"}

StartOfDay == IF now >= MIDNIGHT THEN MIDNIGHT ELSE 0

TodaysSwaps(a, log) == {e \in SwapsOf(a, log) : e.ts >= StartOfDay}

(* What the entries of a log that count add up to, one after the other.    *)
Total(log, counted) ==
  LET sum[n \in 0..Len(log)] ==
        IF n = 0 THEN 0
        ELSE sum[n - 1] + (IF log[n] \in counted THEN log[n].amountIn ELSE 0)
  IN sum[Len(log)]

(* Bug: swaps of every day count.                                          *)
VolumeOfAllDays(a) == Total(buffer, SwapsOf(a, buffer))

(* getDailyVolumeSOL: over the buffer, in production too.                  *)
DailyVolume(a) == Total(buffer, TodaysSwaps(a, buffer))

-----------------------------------------------------------------------------
Least(i, j) == IF i < j THEN i ELSE j

AtLeastAsNew(S, T) == \A e \in S, f \in T : e.ts >= f.ts

(* Bug: no ORDER BY: every query may list the rows in another order.       *)
UnorderedPages(page) ==
  LET skip == Least((page - 1) * Limit, Cardinality(rows))
  IN {P \in SUBSET rows : Cardinality(P) = Least(Limit, Cardinality(rows) - skip)}

(* In production: ORDER BY ts DESC, OFFSET and LIMIT.  Rows with the same  *)
(* ts come in any order, and in another one with every query.              *)
RowPages(page) ==
  LET skip == Least((page - 1) * Limit, Cardinality(rows))
      size == Least(Limit, Cardinality(rows) - skip)
  IN {P \in SUBSET rows :
        /\ Cardinality(P) = size
        /\ \E S \in SUBSET (rows \ P) :
             /\ Cardinality(S) = skip
             /\ AtLeastAsNew(S, P)
             /\ AtLeastAsNew(S \cup P, rows \ (S \cup P))}

(* In development: a slice of the buffer, counted from its end.            *)
BufferPage(page) ==
  LET start == Len(buffer) - Least(page * Limit, Len(buffer))
      end   == Len(buffer) - Least((page - 1) * Limit, Len(buffer))
  IN {buffer[i] : i \in (start + 1)..end}

Pages(page) == IF production THEN RowPages(page) ELSE {BufferPage(page)}

Stored == IF production THEN rows ELSE ToSet(buffer)

(* The client's next request.  A page that is not full is its last.        *)
GetLogs ==
  LET page == reader.page + 1
  IN /\ ~reader.done
     /\ \E P \in Pages(page) :
          reader' = [page   |-> page,
                     wanted |-> IF page = 1 THEN Stored ELSE reader.wanted,
                     seen   |-> reader.seen \cup P,
                     done   |-> Cardinality(P) < Limit]
     /\ UNCHANGED <<production, now, logVars, boot>>

-----------------------------------------------------------------------------
Tick ==
  /\ now < MaxNow
  /\ now' = now + 1
  /\ UNCHANGED <<production, logVars, boot, reader>>

(* The new process starts with an empty buffer and appends to the file.    *)
Restart ==
  /\ buffer' = <<>>
  /\ boot' = Len(file)
  /\ UNCHANGED <<production, now, file, inFlight, rows, reader>>

Next ==
  \/ \E a \in Agents : LogSwap(a) \/ LogError(a)
  \/ \E e \in inFlight : RowLands(e) \/ RowFails(e)
  \/ GetLogs
  \/ Tick
  \/ Restart

Spec == Init /\ [][Next]_vars

-----------------------------------------------------------------------------
TypeOK ==
  /\ production \in BOOLEAN
  /\ now \in 0..MaxNow
  /\ ToSet(file) \cup ToSet(buffer) \cup inFlight \cup rows \subseteq EntryType
  /\ Len(buffer) <= MAX_IN_MEMORY
  /\ {boot, Len(file)} \subseteq 0..MaxEntries
  /\ reader \in [page: Nat, wanted: SUBSET EntryType, seen: SUBSET EntryType, done: BOOLEAN]

SinceBoot == SubSeq(file, boot + 1, Len(file))

(* What check 5 reads is today's volume of this process: never too much,   *)
(* and too little only by the agent's own swaps of today that entries of   *)
(* any agent have pushed out of the buffer, the oldest first               *)
(* (getDailyVolumeSOL, lines 139-153).                                     *)
VolumeUpToEviction ==
  \A a \in Agents :
    LET swaps == TodaysSwaps(a, SinceBoot)
        lost  == swaps \ ToSet(buffer)
    IN /\ DailyVolume(a) = Total(SinceBoot, swaps) - Total(SinceBoot, lost)
       /\ \A e \in lost : Len(file) - e.id >= MAX_IN_MEMORY

(* Walking the pages misses no entry that was there at the first request   *)
(* and still is, however many entries and late rows arrive meanwhile; in   *)
(* production that takes a ts no other row has (getPaginated, 162-192).    *)
PagesMissNothing ==
  reader.done =>
    \A e \in reader.wanted \cap Stored :
      \/ e \in reader.seen
      \/ production /\ \E f \in rows \ {e} : f.ts = e.ts
=============================================================================
