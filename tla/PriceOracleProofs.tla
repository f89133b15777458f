--------------------------- MODULE PriceOracleProofs ---------------------------
(***************************************************************************)
(* Proofs about the price oracle, for any number of callers and polls, any *)
(* time to live, timeout and number of attempts: unmarked prices are       *)
(* recent, and an outage is survived.                                      *)
(*                                                                         *)
(* The cache's own timestamp says when the program stored a price.  The    *)
(* invariant bounds what the price may be older than that, on its way from *)
(* the market and in the cache, whichever fetch wrote it.                  *)
(***************************************************************************)
EXTENDS PriceOracle, TLAPS

\* While a body arrives, its prices are as old as the wait for it.
BodyAges == \A s \in Slots : fetch[s].stage = "body" => fetch[s].price = fetch[s].wait

\* A cached price is older than its timestamp by at most one body.
CacheAges == cache.data => cache.price <= cache.fetchedAt + MaxBody

\* A process that serves has something to fall back on, and failed no caller.
CanFallBack ==
  /\ phase = "serving" => cache.data
  /\ phase # "dead" => \A c \in Callers : answer[c].kind # "error"

OracleInv == TypeOK /\ BodyAges /\ CacheAges /\ CanFallBack /\ FreshIsRecent

FetchType ==
  [stage: {"idle", "request", "body"}, attempt: 0..maxAttempts,
   wait: 0..(FETCH_TIMEOUT_MS + MaxBody), price: 0..MaxBody]

AnswerType == [kind: {"none", "cached", "fetched", "stale", "error"}, price: 0..MaxAge]

-----------------------------------------------------------------------------
(* The constants are numbers.                                              *)
LEMMA Times ==
  /\ CACHE_TTL_MS \in Nat /\ MaxBody \in Nat /\ MaxAge \in Nat
  /\ POLL_INTERVAL_MS \in Nat \ {0} /\ FETCH_TIMEOUT_MS \in Nat \ {0}
  /\ maxAttempts \in Nat \ {0} /\ MaxAge > CACHE_TTL_MS + MaxBody
BY TimesAssumption

(* What every fetch begins and ends with.                                  *)
LEMMA FetchValues ==
  /\ Idle \in FetchType /\ Idle.stage = "idle"
  /\ Begin \in FetchType /\ Begin.stage = "request"
BY Times DEF Idle, Begin, FetchType

(* Ages keep their type, and one that is bounded by another stays so.      *)
LEMMA OlderAges ==
  ASSUME NEW x \in 0..MaxAge, NEW y \in 0..MaxAge
  PROVE  /\ Older(x) \in 0..MaxAge
         /\ x <= y + MaxBody => Older(x) <= Older(y) + MaxBody
BY Times DEF Older

(* At the start nothing is cached and nobody was answered.                 *)
LEMMA OracleInvInit == Init => OracleInv
<1> SUFFICES ASSUME Init PROVE OracleInv
  OBVIOUS
<1>1. \A s \in Slots : fetch[s] = Idle
  BY DEF Init
<1>2. fetch \in [Slots -> FetchType]
  BY FetchValues DEF Init
<1>3. answer \in [Callers -> AnswerType] /\ \A c \in Callers : answer[c].kind = "none"
  BY Times DEF Init, NoAnswer, AnswerType
<1>4. TypeOK
  BY <1>2, <1>3, Times DEF Init, TypeOK, FetchType, AnswerType
<1> QED
  BY <1>1, <1>3, <1>4, FetchValues
     DEF Init, OracleInv, BodyAges, CacheAges, CanFallBack, FreshIsRecent

(* However a fetch ends, the types hold, and who serves stays at it unless *)
(* the poll failed with an empty cache.                                    *)
LEMMA ReturnKeeps ==
  ASSUME OracleInv, NEW s \in Slots, NEW price \in 0..MaxAge,
         NEW kind \in {"fetched", "stale", "error"}, Return(s, kind, price)
  PROVE  /\ phase' \in {"cold", "serving", "dead"}
         /\ fetch' \in [Slots -> FetchType]
         /\ BodyAges'
         /\ pollIn' \in 0..POLL_INTERVAL_MS
         /\ answer' \in [Callers -> AnswerType]
         /\ \A c \in Callers : answer'[c] = answer[c]
                                 \/ answer'[c] = [kind |-> kind, price |-> price]
         /\ kind # "error" => phase' = IF phase = "cold" THEN "serving" ELSE phase
         /\ phase = "cold" /\ kind = "error" => phase' = "dead"
<1>1. TypeOK /\ BodyAges
  BY DEF OracleInv
<1>2. fetch \in [Slots -> FetchType] /\ answer \in [Callers -> AnswerType]
  BY <1>1 DEF TypeOK, FetchType, AnswerType
<1>3. /\ fetch' \in [Slots -> FetchType]
      /\ \A r \in Slots : fetch'[r] = fetch[r] \/ fetch'[r].stage # "body"
  <2>1. CASE phase = "cold" /\ kind # "error"
    <3>1. PICK p \in Polls : fetch' = [fetch EXCEPT ![s] = Idle, ![p] = Begin]
      BY <2>1 DEF Return
    <3>2. p \in Slots
      BY DEF Slots
    <3> QED
      BY <1>2, <3>1, <3>2, FetchValues
  <2>2. CASE ~(phase = "cold" /\ kind # "error")
    <3>1. fetch' = [fetch EXCEPT ![s] = Idle]
      BY <2>2 DEF Return
    <3> QED
      BY <1>2, <3>1, FetchValues
  <2> QED
    BY <2>1, <2>2
<1>4. BodyAges'
  BY <1>1, <1>3 DEF BodyAges
<1>5. phase' \in {"cold", "serving", "dead"} /\ pollIn' \in 0..POLL_INTERVAL_MS
  BY <1>1, Times DEF Return, TypeOK
<1>6. /\ answer' \in [Callers -> AnswerType]
      /\ \A c \in Callers : answer'[c] = answer[c]
                              \/ answer'[c] = [kind |-> kind, price |-> price]
  <2>1. [kind |-> kind, price |-> price] \in AnswerType
    BY DEF AnswerType
  <2> QED
    BY <1>2, <2>1 DEF Return
<1>7. /\ kind # "error" => phase' = IF phase = "cold" THEN "serving" ELSE phase
      /\ phase = "cold" /\ kind = "error" => phase' = "dead"
  BY DEF Return
<1> QED
  BY <1>3, <1>4, <1>5, <1>6, <1>7

(* The fallback gives no unmarked price, and an error only if nothing is   *)
(* cached, which cannot be while the process serves.                       *)
LEMMA FallBackKeeps ==
  ASSUME OracleInv, NEW s \in Slots, FallBack(s)
  PROVE  OracleInv'
<1> DEFINE kind == IF cache.data THEN "stale" ELSE "error"
<1>1. TypeOK /\ CanFallBack /\ CacheAges /\ FreshIsRecent
  BY DEF OracleInv
<1>2. /\ Return(s, kind, cache.price) /\ UNCHANGED cache /\ lastFetch' = "failed"
      /\ cache.price \in 0..MaxAge /\ cache.data \in BOOLEAN
  BY <1>1 DEF FallBack, TypeOK
<1>3. kind \in {"fetched", "stale", "error"} /\ kind # "fetched"
  BY <1>2
<1>4. kind = "error" <=> ~cache.data
  OBVIOUS
<1>5. [kind |-> kind, price |-> cache.price].kind = kind
  OBVIOUS
<1> HIDE DEF kind
<1>6. /\ phase' \in {"cold", "serving", "dead"}
      /\ fetch' \in [Slots -> FetchType]
      /\ BodyAges'
      /\ pollIn' \in 0..POLL_INTERVAL_MS
      /\ answer' \in [Callers -> AnswerType]
      /\ \A c \in Callers : answer'[c] = answer[c]
                              \/ answer'[c] = [kind |-> kind, price |-> cache.price]
      /\ kind # "error" => phase' = IF phase = "cold" THEN "serving" ELSE phase
      /\ phase = "cold" /\ kind = "error" => phase' = "dead"
  BY <1>2, <1>3, ReturnKeeps
<1>7. TypeOK'
  BY <1>1, <1>2, <1>6 DEF TypeOK, FetchType, AnswerType
<1>8. CacheAges'
  BY <1>1, <1>2 DEF CacheAges
<1>9. FreshIsRecent'
  BY <1>1, <1>3, <1>5, <1>6 DEF FreshIsRecent
<1>10. CanFallBack'
  <2>1. CASE cache.data
    BY <1>1, <1>2, <1>4, <1>5, <1>6, <2>1 DEF CanFallBack, TypeOK
  <2>2. CASE ~cache.data
    BY <1>1, <1>2, <1>4, <1>6, <2>2 DEF CanFallBack, Return, TypeOK
  <2> QED
    BY <2>1, <2>2
<1> QED
  BY <1>6, <1>7, <1>8, <1>9, <1>10 DEF OracleInv

(* A parsed body refreshes the cache with prices that are as old as it.    *)
LEMMA ParsedKeeps ==
  ASSUME OracleInv, NEW s \in Slots, Parsed(s)
  PROVE  OracleInv'
<1> DEFINE price == fetch[s].price
<1>1. TypeOK /\ CanFallBack /\ FreshIsRecent
  BY DEF OracleInv
<1>2. /\ Return(s, "fetched", price) /\ lastFetch' = "parsed"
      /\ cache' = [data |-> TRUE, fetchedAt |-> 0, price |-> price]
  BY DEF Parsed
<1>3. price \in 0..MaxBody /\ price \in 0..MaxAge
  <2>1. price \in 0..MaxBody
    BY <1>1 DEF TypeOK
  <2> HIDE DEF price
  <2> QED
    BY <2>1, Times
<1> HIDE DEF price
<1>4. /\ phase' \in {"cold", "serving", "dead"}
      /\ fetch' \in [Slots -> FetchType]
      /\ BodyAges'
      /\ pollIn' \in 0..POLL_INTERVAL_MS
      /\ answer' \in [Callers -> AnswerType]
      /\ \A c \in Callers : answer'[c] = answer[c]
                              \/ answer'[c] = [kind |-> "fetched", price |-> price]
      /\ phase' = IF phase = "cold" THEN "serving" ELSE phase
  BY <1>2, <1>3, ReturnKeeps
<1>5. TypeOK'
  BY <1>2, <1>3, <1>4, Times DEF TypeOK, FetchType, AnswerType
<1>6. CacheAges'
  BY <1>2, <1>3, Times DEF CacheAges
<1>7. FreshIsRecent'
  BY <1>1, <1>3, <1>4, Times DEF FreshIsRecent
<1>8. CanFallBack'
  BY <1>1, <1>2, <1>4 DEF CanFallBack, TypeOK
<1> QED
  BY <1>4, <1>5, <1>6, <1>7, <1>8 DEF OracleInv

(* Asking, polling and waiting for an answer only move fetches.            *)
LEMMA RequestKeeps ==
  ASSUME OracleInv,
         \/ \E c \in Callers : GetPrices(c)
         \/ \E p \in Polls : PollFires(p)
         \/ \E s \in Slots : Answered(s)
         \/ \E s \in Slots : AttemptFails(s) /\ fetch[s].attempt < maxAttempts
  PROVE  OracleInv'
<1>1. TypeOK /\ BodyAges /\ CacheAges /\ CanFallBack /\ FreshIsRecent
  BY DEF OracleInv
<1>2. fetch \in [Slots -> FetchType] /\ answer \in [Callers -> AnswerType]
  BY <1>1 DEF TypeOK, FetchType, AnswerType
<1>3. UNCHANGED <<phase, cache, lastFetch>>
  BY DEF GetPrices, PollFires, Answered, AttemptFails
<1>4. pollIn' \in 0..POLL_INTERVAL_MS
  <2>1. pollIn \in 0..POLL_INTERVAL_MS /\ POLL_INTERVAL_MS \in 0..POLL_INTERVAL_MS
    BY <1>1, Times DEF TypeOK
  <2>2. pollIn' = pollIn \/ pollIn' = POLL_INTERVAL_MS
    BY DEF GetPrices, PollFires, Answered, AttemptFails
  <2> QED
    BY <2>1, <2>2
<1>5. /\ fetch' \in [Slots -> FetchType]
      /\ \A s \in Slots : fetch'[s].stage = "body" => fetch'[s].price = fetch'[s].wait
  <2>1. ASSUME NEW c \in Callers, GetPrices(c)
        PROVE  fetch' = fetch \/ fetch' = [fetch EXCEPT ![c] = Begin]
    BY <2>1 DEF GetPrices
  <2>2. ASSUME NEW s \in Slots, NEW f \in FetchType, fetch' = [fetch EXCEPT ![s] = f],
               f.stage = "body" => f.price = f.wait
        PROVE  <1>5!1 /\ <1>5!2
    BY <1>1, <1>2, <2>2 DEF BodyAges
  <2>3. CASE \E c \in Callers : GetPrices(c)
    BY <1>1, <1>2, <2>1, <2>2, <2>3, FetchValues DEF BodyAges, Slots
  <2>4. CASE \E p \in Polls : PollFires(p)
    BY <2>2, <2>4, FetchValues DEF PollFires, Slots
  <2>5. CASE \E s \in Slots : Answered(s)
    <3>1. PICK s \in Slots : Answered(s)
      BY <2>5
    <3> DEFINE f == [fetch[s] EXCEPT !.stage = "body", !.wait = 0, !.price = 0]
    <3>2. f \in FetchType /\ f.price = f.wait
      <4>1. 0 \in 0..MaxBody /\ 0 \in 0..(FETCH_TIMEOUT_MS + MaxBody)
        BY Times
      <4>2. fetch[s] \in FetchType
        BY <1>2
      <4> QED
        BY <4>1, <4>2 DEF FetchType
    <3>3. fetch' = [fetch EXCEPT ![s] = f]
      BY <1>2, <3>1 DEF Answered
    <3> QED
      BY <2>2, <3>2, <3>3
  <2>6. CASE \E s \in Slots : AttemptFails(s) /\ fetch[s].attempt < maxAttempts
    <3>1. PICK s \in Slots : AttemptFails(s) /\ fetch[s].attempt < maxAttempts
      BY <2>6
    <3> DEFINE f == [fetch[s] EXCEPT !.attempt = fetch[s].attempt + 1, !.wait = 0]
    <3>2. f \in FetchType /\ f.stage = "request"
      <4>1. fetch[s] \in FetchType /\ fetch[s].stage = "request"
        BY <1>2, <3>1 DEF AttemptFails
      <4>2. fetch[s].attempt \in 0..maxAttempts
        BY <4>1 DEF FetchType
      <4>3. fetch[s].attempt + 1 \in 0..maxAttempts /\ 0 \in 0..(FETCH_TIMEOUT_MS + MaxBody)
        BY <3>1, <4>2, Times
      <4> QED
        BY <4>1, <4>3 DEF FetchType
    <3> HIDE DEF f
    <3>3. fetch' = [fetch EXCEPT ![s] = f]
      <4>1. /\ fetch[s].attempt < maxAttempts
            /\ fetch[s].attempt < maxAttempts =>
                 fetch' = [fetch EXCEPT ![s] = [fetch[s] EXCEPT
                             !.attempt = fetch[s].attempt + 1, !.wait = 0]]
        BY <1>2, <3>1 DEF AttemptFails
      <4> QED
        BY <4>1 DEF f
    <3> QED
      BY <2>2, <3>2, <3>3
  <2> QED
    BY <2>3, <2>4, <2>5, <2>6
<1>6. /\ answer' \in [Callers -> AnswerType]
      /\ \A c \in Callers : \/ answer'[c] = answer[c]
                            \/ answer'[c] = NoAnswer
                            \/ IsFresh /\ answer'[c] = [kind |-> "cached", price |-> cache.price]
  <2>1. NoAnswer \in AnswerType /\ [kind |-> "cached", price |-> cache.price] \in AnswerType
    BY <1>1, Times DEF NoAnswer, AnswerType, TypeOK
  <2>2. CASE \E c \in Callers : GetPrices(c)
    BY <1>2, <2>1, <2>2 DEF GetPrices
  <2>3. CASE UNCHANGED answer
    BY <1>2, <2>3
  <2> QED
    BY <2>2, <2>3 DEF PollFires, Answered, AttemptFails
<1>7. TypeOK'
  BY <1>1, <1>3, <1>4, <1>5, <1>6 DEF TypeOK, FetchType, AnswerType
<1>8. FreshIsRecent'
  <2>1. IsFresh => cache.price <= CACHE_TTL_MS + MaxBody
    BY <1>1, Times DEF IsFresh, CacheAges, TypeOK
  <2> QED
    BY <1>1, <1>6, <2>1 DEF FreshIsRecent, NoAnswer
<1>9. CanFallBack'
  BY <1>1, <1>3, <1>6 DEF CanFallBack, NoAnswer
<1> QED
  BY <1>1, <1>3, <1>5, <1>7, <1>8, <1>9 DEF OracleInv, BodyAges, CacheAges

(* Time makes all ages older alike.                                        *)
LEMMA TickKeeps ==
  ASSUME OracleInv, Tick
  PROVE  OracleInv'
<1>1. TypeOK /\ BodyAges /\ CacheAges /\ CanFallBack
  BY DEF OracleInv
<1>2. ASSUME NEW s \in Slots
      PROVE  /\ fetch'[s] \in FetchType
             /\ fetch'[s].stage = "body" => fetch'[s].price = fetch'[s].wait
  <2>1. fetch[s] \in FetchType /\ fetch[s].stage = "body" => fetch[s].price = fetch[s].wait
    BY <1>1 DEF TypeOK, BodyAges
  <2>2. fetch[s] \in FetchType
    BY <1>1 DEF TypeOK, FetchType
  <2>3. fetch'[s] =
          CASE fetch[s].stage = "idle"    -> fetch[s]
            [] fetch[s].stage = "request" -> [fetch[s] EXCEPT !.wait = fetch[s].wait + 1]
            [] fetch[s].stage = "body"    -> [fetch[s] EXCEPT !.wait = fetch[s].wait + 1,
                                                              !.price = fetch[s].price + 1]
    BY DEF Tick
  <2>4. CASE fetch[s].stage = "idle"
    BY <2>2, <2>3, <2>4
  <2>5. CASE fetch[s].stage = "request"
    <3>1. fetch[s].wait < FETCH_TIMEOUT_MS
      BY <2>5 DEF Tick
    <3>2. fetch'[s] = [fetch[s] EXCEPT !.wait = fetch[s].wait + 1]
      BY <2>3, <2>5
    <3> QED
      BY <2>2, <2>5, <3>1, <3>2, Times DEF FetchType
  <2>6. CASE fetch[s].stage = "body"
    <3>1. fetch[s].wait < MaxBody /\ fetch[s].price = fetch[s].wait
      BY <1>1, <2>6 DEF Tick, BodyAges
    <3>2. fetch'[s] = [fetch[s] EXCEPT !.wait = fetch[s].wait + 1,
                                       !.price = fetch[s].price + 1]
      BY <2>3, <2>6
    <3>3. fetch[s].wait \in Nat
      BY <2>2, Times DEF FetchType
    <3>4. /\ fetch[s].wait + 1 \in 0..(FETCH_TIMEOUT_MS + MaxBody)
          /\ fetch[s].price + 1 \in 0..MaxBody
      BY <3>1, <3>3, Times
    <3>5. fetch'[s] \in FetchType
      BY <2>2, <3>2, <3>4 DEF FetchType
    <3>6. fetch'[s].price = fetch'[s].wait
      BY <2>2, <3>1, <3>2 DEF FetchType
    <3> QED
      BY <3>5, <3>6
  <2> QED
    BY <2>2, <2>4, <2>5, <2>6 DEF FetchType
<1>3. fetch' \in [Slots -> FetchType]
  BY <1>2 DEF Tick
<1>4. /\ cache' \in [data: BOOLEAN, fetchedAt: 0..MaxAge, price: 0..MaxAge]
      /\ cache'.data = cache.data
      /\ CacheAges'
  <2>1. CASE cache.data
    <3>1. /\ Older(cache.price) \in 0..MaxAge /\ Older(cache.fetchedAt) \in 0..MaxAge
          /\ Older(cache.price) <= Older(cache.fetchedAt) + MaxBody
      BY <1>1, <2>1, OlderAges DEF TypeOK, CacheAges
    <3>2. cache' = [cache EXCEPT !.fetchedAt = Older(cache.fetchedAt),
                                 !.price = Older(cache.price)]
      BY <2>1 DEF Tick
    <3> QED
      BY <1>1, <3>1, <3>2 DEF TypeOK, CacheAges
  <2>2. CASE ~cache.data
    BY <1>1, <2>2 DEF Tick, TypeOK, CacheAges
  <2> QED
    BY <2>1, <2>2
<1>5. pollIn' \in 0..POLL_INTERVAL_MS
  <2>1. pollIn \in 0..POLL_INTERVAL_MS /\ POLL_INTERVAL_MS \in Nat
    BY <1>1, Times DEF TypeOK
  <2>2. /\ phase = "serving" => pollIn > 0
        /\ pollIn' = IF phase = "serving" THEN pollIn - 1 ELSE pollIn
    BY DEF Tick
  <2> QED
    BY <2>1, <2>2
<1>6. answer' \in [Callers -> AnswerType] /\ \A c \in Callers : answer'[c].kind = "none"
  <2>1. NoAnswer \in AnswerType /\ NoAnswer.kind = "none"
    BY Times DEF NoAnswer, AnswerType
  <2>2. answer' = [c \in Callers |-> NoAnswer]
    BY DEF Tick
  <2> QED
    BY <2>1, <2>2
<1>7. TypeOK'
  BY <1>1, <1>3, <1>4, <1>5, <1>6 DEF TypeOK, FetchType, AnswerType, Tick
<1> QED
  BY <1>1, <1>2, <1>4, <1>6, <1>7
     DEF OracleInv, BodyAges, CanFallBack, FreshIsRecent, Tick

(* Every step keeps the invariant.                                         *)
LEMMA OracleInvStep == OracleInv /\ [Next]_vars => OracleInv'
<1> SUFFICES ASSUME OracleInv, [Next]_vars PROVE OracleInv'
  OBVIOUS
<1>1. ASSUME NEW s \in Slots, AttemptFails(s) PROVE OracleInv'
  <2>1. fetch[s].attempt < maxAttempts \/ FallBack(s)
    BY <1>1 DEF AttemptFails
  <2> QED
    BY <1>1, <2>1, RequestKeeps, FallBackKeeps
<1>2. ASSUME NEW s \in Slots, BodyFails(s) PROVE OracleInv'
  BY <1>2, FallBackKeeps DEF BodyFails
<1>3. CASE UNCHANGED vars
  BY <1>3 DEF vars, OracleInv, TypeOK, BodyAges, CacheAges, CanFallBack, FreshIsRecent
<1> QED
  BY <1>1, <1>2, <1>3, RequestKeeps, ParsedKeeps, TickKeeps DEF Next

(* The invariant holds throughout.                                         *)
THEOREM OracleInvariant == Spec => []OracleInv
BY OracleInvInit, OracleInvStep, PTL DEF Spec

(* The variables of the oracle keep their types.                           *)
THEOREM OracleTypeCorrect == Spec => []TypeOK
<1>1. OracleInv => TypeOK
  BY DEF OracleInv
<1> QED
  BY <1>1, OracleInvariant, PTL

(* Prices that are not marked stale are never older than the time to live  *)
(* and one body, whichever of the overlapping fetches wrote the cache last *)
(* (price-cache.ts, price-oracle.ts).                                      *)
THEOREM FreshIsRecentHolds == Spec => []FreshIsRecent
<1>1. OracleInv => FreshIsRecent
  BY DEF OracleInv
<1> QED
  BY <1>1, OracleInvariant, PTL

(* Once it serves, no outage of any length makes the oracle fail a caller  *)
(* or kill the process (price-oracle.ts:9).                                *)
THEOREM OutageIsSurvivedHolds == Spec => OutageIsSurvived
<1>1. ASSUME OracleInv, OracleInv', [Next]_vars, phase = "serving"
      PROVE  phase' = "serving"
  <2>1. cache.data
    BY <1>1 DEF OracleInv, CanFallBack
  <2>2. ASSUME NEW s \in Slots, FallBack(s) PROVE phase' = "serving"
    BY <1>1, <2>1, <2>2 DEF FallBack, Return
  <2>3. ASSUME NEW s \in Slots, Parsed(s) PROVE phase' = "serving"
    BY <1>1, <2>3 DEF Parsed, Return
  <2> QED
    BY <1>1, <2>2, <2>3
       DEF Next, GetPrices, PollFires, Answered, AttemptFails, BodyFails, Tick, vars
<1>2. OracleInv /\ OracleInv' /\ [Next]_vars
        => [phase = "serving" => /\ phase' = "serving"
                                 /\ \A c \in Callers : answer'[c].kind # "error"]_vars
  BY <1>1 DEF OracleInv, CanFallBack
<1> QED
  BY <1>2, OracleInvariant, PTL DEF Spec, OutageIsSurvived
=============================================================================
