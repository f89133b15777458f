------------------------------ MODULE PriceOracle ------------------------------
(***************************************************************************)
(* Layer 1, the price oracle and the cache all agents share                *)
(* (backend/src/price/price-oracle.ts, price-cache.ts), with the way       *)
(* backend/src/index.ts brings it up.                                      *)
(*                                                                         *)
(* A fetch is a loop of attempts against CoinGecko; between its awaits the *)
(* agents, the poll timer and other fetches run.  Nothing keeps two        *)
(* fetches from being in flight together, and the one that is parsed last  *)
(* owns the cache, whatever it read.                                       *)
(*                                                                         *)
(* Instants are kept as ages in ticks.  The age of a price is counted from *)
(* the moment CoinGecko answered, so it tells what the market has done     *)
(* since, and not when the program looked at it; ages saturate at MaxAge.  *)
(***************************************************************************)
EXTENDS Integers

CONSTANTS
  Callers,          (* getPrices() calls of running cycles                  *)
  Polls,            (* bound: poll fetches that may overlap                 *)
  CACHE_TTL_MS, POLL_INTERVAL_MS, FETCH_TIMEOUT_MS,   (* in ticks           *)
  maxAttempts,
  MaxBody,          (* bound: ticks an answer's body may take to arrive     *)
  MaxAge            (* bound: ages beyond it are not told apart             *)

ASSUME SlotAssumption  == Callers \cap Polls = {}
ASSUME TimesAssumption ==
  /\ {CACHE_TTL_MS, MaxBody, MaxAge} \subseteq Nat
  /\ {POLL_INTERVAL_MS, FETCH_TIMEOUT_MS, maxAttempts} \subseteq Nat \ {0}
  /\ MaxAge > CACHE_TTL_MS + MaxBody

VARIABLES
  phase,       (* "cold" while the cache is warmed, "serving", "dead"       *)
  cache,       (* PriceCache: whether it holds data, and the ages           *)
  fetch,       (* fetchAndCache of each slot                                *)
  pollIn,      (* ticks until the poll timer fires                          *)
  answer,      (* what getPrices last gave to each caller                   *)
  lastFetch    (* how the last fetch to end did end                         *)

vars == <<phase, cache, fetch, pollIn, answer, lastFetch>>

Slots == Callers \cup Polls

Idle == [stage |-> "idle", attempt |-> 0, wait |-> 0, price |-> 0]
NoAnswer == [kind |-> "none", price |-> 0]

Init ==
  /\ phase = "cold"
  /\ cache = [data |-> FALSE, fetchedAt |-> 0, price |-> 0]
  /\ fetch = [s \in Slots |-> Idle]
  /\ pollIn = POLL_INTERVAL_MS
  /\ answer = [c \in Callers |-> NoAnswer]
  /\ lastFetch = "none"

(* Bug: the TTL is one tick too long.                                      *)
FreshTooLong == cache.data /\ cache.fetchedAt <= CACHE_TTL_MS + 1

IsFresh == cache.data /\ cache.fetchedAt <= CACHE_TTL_MS

Begin == [stage |-> "request", attempt |-> 1, wait |-> 0, price |-> 0]

-----------------------------------------------------------------------------
(* getPrices(): the cache while it is fresh, a fetch of one's own after. A *)
(* cold oracle has one caller, the startup.                                *)
GetPrices(c) ==
  /\ phase # "dead"
  /\ fetch[c].stage = "idle"
  /\ phase = "cold" => \A s \in Slots : fetch[s].stage = "idle"
  /\ IF IsFresh
     THEN /\ answer' = [answer EXCEPT ![c] = [kind |-> "cached", price |-> cache.price]]
          /\ UNCHANGED fetch
     ELSE /\ fetch' = [fetch EXCEPT ![c] = Begin]
          /\ answer' = [answer EXCEPT ![c] = NoAnswer]
  /\ UNCHANGED <<phase, cache, pollIn, lastFetch>>

(* Bug: the poll is content with whatever the cache holds.                 *)
PollIfEmpty(p) ==
  /\ phase = "serving"
  /\ pollIn = 0
  /\ fetch[p].stage = "idle"
  /\ fetch' = IF cache.data THEN fetch ELSE [fetch EXCEPT ![p] = Begin]
  /\ pollIn' = POLL_INTERVAL_MS
  /\ UNCHANGED <<phase, cache, answer, lastFetch>>

(* The poll timer does not look at the cache. *)
PollFires(p) ==
  /\ phase = "serving"
  /\ pollIn = 0
  /\ fetch[p].stage = "idle"
  /\ fetch' = [fetch EXCEPT ![p] = Begin]
  /\ pollIn' = POLL_INTERVAL_MS
  /\ UNCHANGED <<phase, cache, answer, lastFetch>>

(* CoinGecko answers 200: the prices are of this moment, the body follows. *)
Answered(s) ==
  /\ fetch[s].stage = "request"
  /\ fetch' = [fetch EXCEPT ![s] = [@ EXCEPT !.stage = "body", !.wait = 0, !.price = 0]]
  /\ UNCHANGED <<phase, cache, pollIn, answer, lastFetch>>

(* The fetch ends.  The startup's success starts the poll, with a fetch of *)
(* its own at once.                                                        *)
Return(s, kind, price) ==
  /\ answer' = IF s \in Callers
               THEN [answer EXCEPT ![s] = [kind |-> kind, price |-> price]] ELSE answer
  /\ IF phase = "cold" /\ kind # "error"
     THEN /\ phase' = "serving"
          /\ pollIn' = POLL_INTERVAL_MS
          /\ \E p \in Polls : fetch' = [fetch EXCEPT ![s] = Idle, ![p] = Begin]
     ELSE /\ phase' = IF kind = "error" /\ (phase = "cold" \/ s \in Polls)
                      THEN "dead" ELSE phase
          /\ fetch' = [fetch EXCEPT ![s] = Idle]
          /\ UNCHANGED pollIn

(* Bug: the fallback honours the TTL.                                      *)
FallBackIfFresh(s) ==
  /\ Return(s, IF IsFresh THEN "stale" ELSE "error", cache.price)
  /\ lastFetch' = "failed"
  /\ UNCHANGED cache

(* The catch of fetchAndCache: the old data, marked stale and stamped with *)
(* the present, or a throw.  A throw fails the cycle that asked, but out   *)
(* of the poll timer it is an unhandled rejection, and out of the startup  *)
(* a failed start: both exit the process.                                  *)
FallBack(s) ==
  /\ Return(s, IF cache.data THEN "stale" ELSE "error", cache.price)
  /\ lastFetch' = "failed"
  /\ UNCHANGED cache

(* Bug: one attempt too many.                                              *)
OneAttemptTooMany(s) ==
  /\ fetch[s].stage = "request"
  /\ IF fetch[s].attempt <= maxAttempts
     THEN /\ fetch' = [fetch EXCEPT ![s].attempt = @ + 1, ![s].wait = 0]
          /\ UNCHANGED <<phase, cache, pollIn, answer, lastFetch>>
     ELSE FallBack(s)

(* Bug: attempts are not counted.                                          *)
TryForever(s) ==
  /\ fetch[s].stage = "request"
  /\ fetch' = [fetch EXCEPT ![s] = [@ EXCEPT !.wait = 0]]
  /\ UNCHANGED <<phase, cache, pollIn, answer, lastFetch>>

(* An error answer, an abort after FETCH_TIMEOUT or no connection. *)
AttemptFails(s) ==
  /\ fetch[s].stage = "request"
  /\ IF fetch[s].attempt < maxAttempts
     THEN /\ fetch' = [fetch EXCEPT ![s].attempt = @ + 1, ![s].wait = 0]
          /\ UNCHANGED <<phase, cache, pollIn, answer, lastFetch>>
     ELSE FallBack(s)

(* The body is complete and has all four tokens: prices, spreads, cache.   *)
Parsed(s) ==
  /\ fetch[s].stage = "body"
  /\ cache' = [data |-> TRUE, fetchedAt |-> 0, price |-> fetch[s].price]
  /\ Return(s, "fetched", fetch[s].price)
  /\ lastFetch' = "parsed"

(* It breaks off, is no JSON or lacks a token.  There is no second attempt.*)
BodyFails(s) ==
  /\ fetch[s].stage = "body"
  /\ FallBack(s)

Older(age) == IF age < MaxAge THEN age + 1 ELSE age

(* An attempt is aborted after FETCH_TIMEOUT; the timer is cleared when    *)
(* the header arrives, so nothing in the program bounds the body.          *)
Tick ==
  /\ phase # "dead"
  /\ phase = "serving" => pollIn > 0
  /\ \A s \in Slots :
       /\ fetch[s].stage = "request" => fetch[s].wait < FETCH_TIMEOUT_MS
       /\ fetch[s].stage = "body" => fetch[s].wait < MaxBody
  /\ cache' = IF cache.data
              THEN [cache EXCEPT !.fetchedAt = Older(@), !.price = Older(@)] ELSE cache
  /\ fetch' = [s \in Slots |->
       CASE fetch[s].stage = "idle"    -> fetch[s]
         [] fetch[s].stage = "request" -> [fetch[s] EXCEPT !.wait = @ + 1]
         [] fetch[s].stage = "body"    -> [fetch[s] EXCEPT !.wait = @ + 1, !.price = @ + 1]]
  /\ pollIn' = IF phase = "serving" THEN pollIn - 1 ELSE pollIn
  /\ answer' = [c \in Callers |-> NoAnswer]
  /\ UNCHANGED <<phase, lastFetch>>

FetchEnds(s) == AttemptFails(s) \/ Parsed(s) \/ BodyFails(s)

Next ==
  \/ \E c \in Callers : GetPrices(c)
  \/ \E p \in Polls : PollFires(p)
  \/ \E s \in Slots : Answered(s) \/ AttemptFails(s) \/ Parsed(s) \/ BodyFails(s)
  \/ Tick

(* Time passes, due timers fire, and an attempt or a body ends one way or  *)
(* the other.  That CoinGecko answers is nowhere assumed.                  *)
Fairness ==
  /\ WF_vars(Tick)
  /\ \A p \in Polls : WF_vars(PollFires(p))
  /\ \A s \in Slots : WF_vars(FetchEnds(s))

Spec == Init /\ [][Next]_vars /\ Fairness

-----------------------------------------------------------------------------
TypeOK ==
  /\ phase \in {"cold", "serving", "dead"}
  /\ cache \in [data: BOOLEAN, fetchedAt: 0..MaxAge, price: 0..MaxAge]
  /\ fetch \in [Slots -> [stage: {"idle", "request", "body"}, attempt: 0..maxAttempts,
                          wait: 0..(FETCH_TIMEOUT_MS + MaxBody), price: 0..MaxBody]]
  /\ pollIn \in 0..POLL_INTERVAL_MS
  /\ answer \in [Callers ->
       [kind: {"none", "cached", "fetched", "stale", "error"}, price: 0..MaxAge]]
  /\ lastFetch \in {"none", "parsed", "failed"}

(* Once the process serves, an outage of CoinGecko of any length neither   *)
(* fails a cycle in Layer 1 nor kills the process out of the poll timer:   *)
(* there is always something stale to fall back on (price-oracle.ts:9).    *)
OutageIsSurvived ==
  [][phase = "serving" =>
       /\ phase' = "serving"
       /\ \A c \in Callers : answer'[c].kind # "error"]_vars

(* Prices that are not marked stale are recent market prices: at most the  *)
(* TTL plus the time their own body took, also when a late answer has      *)
(* overwritten a newer one.                                                *)
FreshIsRecent ==
  \A c \in Callers :
    answer[c].kind \in {"cached", "fetched"} => answer[c].price <= CACHE_TTL_MS + MaxBody

(* No fetch runs for longer than its attempts and one body allow, so a     *)
(* cycle is never held up in Layer 1 for good (fetchPrices, lines 119-149).*)
FetchEventuallyEnds ==
  \A s \in Slots : fetch[s].stage # "idle" ~> fetch[s].stage = "idle"

(* Unless fetches keep failing, the poll keeps renewing the cache, with    *)
(* nobody asking for prices.                                               *)
PollKeepsFresh ==
  phase = "serving" ~> (cache.fetchedAt = 0 \/ lastFetch = "failed")
=============================================================================
