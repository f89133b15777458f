----------------------------- MODULE UsageLimit ------------------------------
(***************************************************************************)
(* The paymaster's limit on the transactions of a wallet                   *)
(* (usage_limit/usage_tracker.rs, usage_store.rs).  The count is kept in   *)
(* Redis; a request reads it, compares, and only then increments it, in    *)
(* two calls.  Requests run concurrently, one per slot; either call may    *)
(* fail, and an increment may be applied though its answer is lost.        *)
(* Counts survive a restart of the server and never expire.                *)
(***************************************************************************)
EXTENDS Naturals, FiniteSets

CONSTANTS
  Slots,          \* requests in progress at the same time
  Wallets,        \* senders of transactions
  LimitConfigs    \* the settings of [kora.usage_limit] considered

NoSender == "no sender"     \* every signer of the transaction is Kora's

\* store: the limiter has a Redis store (cache_url is set).
LimitType == [enabled : BOOLEAN, store : BOOLEAN, max : Nat, fallback : BOOLEAN]

ASSUME LimitAssumption ==
  /\ LimitConfigs \subseteq LimitType
  /\ IsFiniteSet(Slots) /\ Slots # {}
  /\ NoSender \notin Wallets

VARIABLES
  limit,      \* the setting in force
  count,      \* the store: uses counted for each wallet
  seat,       \* where each request is with the limit
  signed      \* signatures given to each wallet

usageVars == <<limit, count, seat, signed>>

\* "asked": the sender is known; "room": a count below the maximum was read;
\* "in": admitted; "refused"; "out": no request.
SeatType == [stage : {"out", "asked", "room", "in", "refused"},
             wallet : Wallets \cup {NoSender}]

Out == [stage |-> "out", wallet |-> NoSender]

UsageInit ==
  /\ limit \in LimitConfigs
  /\ count = [w \in Wallets |-> 0]
  /\ seat = [s \in Slots |-> Out]
  /\ signed = [w \in Wallets |-> 0]

-----------------------------------------------------------------------------
Limited == limit.enabled /\ limit.store

Exempt(s) == seat[s].wallet = NoSender \/ limit.max = 0

MoveTo(s, stage) ==
  /\ seat' = [seat EXCEPT ![s].stage = stage]
  /\ UNCHANGED <<limit, signed>>

\* handle_store_error
Fallback(s) == MoveTo(s, IF limit.fallback THEN "in" ELSE "refused")

\* A method that checks no limit.
Admit(s) ==
  /\ seat[s] = Out
  /\ MoveTo(s, "in") /\ UNCHANGED count

Ask(s, w) ==
  /\ seat[s] = Out
  /\ seat' = [seat EXCEPT ![s] = [stage |-> "asked", wallet |-> w]]
  /\ UNCHANGED <<limit, count, signed>>

\* There is no limiter: nothing is limited, or it should have been.
NoLimiter(s) ==
  /\ seat[s].stage = "asked" /\ ~Limited
  /\ MoveTo(s, IF limit.enabled /\ ~limit.fallback THEN "refused" ELSE "in")
  /\ UNCHANGED count

PassExempt(s) ==
  /\ seat[s].stage = "asked" /\ Limited /\ Exempt(s)
  /\ MoveTo(s, "in") /\ UNCHANGED count

\* Bug: the maximum itself is still under the limit.
ReadCountInclusive(s) ==
  /\ seat[s].stage = "asked" /\ Limited /\ ~Exempt(s)
  /\ MoveTo(s, IF count[seat[s].wallet] > limit.max THEN "refused" ELSE "room")
  /\ UNCHANGED count

ReadCount(s) ==
  /\ seat[s].stage = "asked" /\ Limited /\ ~Exempt(s)
  /\ MoveTo(s, IF count[seat[s].wallet] >= limit.max THEN "refused" ELSE "room")
  /\ UNCHANGED count

ReadFails(s) ==
  /\ seat[s].stage = "asked" /\ Limited /\ ~Exempt(s)
  /\ Fallback(s) /\ UNCHANGED count

\* Bug: the use is checked but never counted.
AdmitUncounted(s) ==
  /\ seat[s].stage = "room"
  /\ MoveTo(s, "in") /\ UNCHANGED count

IncrementUse(s) ==
  /\ seat[s].stage = "room"
  /\ count' = [count EXCEPT ![seat[s].wallet] = @ + 1]
  /\ MoveTo(s, "in")

\* The store may have counted the use before its answer was lost.
IncrementFails(s) ==
  /\ seat[s].stage = "room"
  /\ \/ count' = [count EXCEPT ![seat[s].wallet] = @ + 1]
     \/ UNCHANGED count
  /\ Fallback(s)

CheckUsage(s) ==
  \/ NoLimiter(s) \/ PassExempt(s)
  \/ ReadCount(s) \/ ReadFails(s) \/ IncrementUse(s) \/ IncrementFails(s)

\* The request is answered: nothing is given back when it failed.
Leave(s, issued) ==
  /\ seat[s].stage \in {"in", "refused"}
  /\ issued => seat[s].stage = "in"
  /\ seat' = [seat EXCEPT ![s] = Out]
  /\ signed' = [w \in Wallets |->
                  IF issued /\ w = seat[s].wallet THEN signed[w] + 1 ELSE signed[w]]
  /\ UNCHANGED <<limit, count>>

\* Requests in progress are lost with the process.
UsageRestart ==
  /\ seat' = [s \in Slots |-> Out]
  /\ UNCHANGED <<limit, count, signed>>

UsageNext ==
  \/ \E s \in Slots :
       \/ Admit(s) \/ CheckUsage(s)
       \/ \E w \in Wallets \cup {NoSender} : Ask(s, w)
       \/ \E issued \in BOOLEAN : Leave(s, issued)
  \/ UsageRestart

UsageSpec == UsageInit /\ [][UsageNext]_usageVars

-----------------------------------------------------------------------------
UsageTypeOK ==
  /\ limit \in LimitConfigs
  /\ count \in [Wallets -> Nat]
  /\ seat \in [Slots -> SeatType]
  /\ signed \in [Wallets -> Nat]

Ceiling == limit.max + Cardinality(Slots) - 1

\* The limit is enforced: there is a store, and no way around it.
Strict == Limited /\ ~limit.fallback /\ limit.max > 0

(* Check-then-increment over-runs the maximum (usage_tracker.rs:78), but   *)
(* by no more than the requests that run beside one another: no wallet     *)
(* ever gets more signatures, whatever fails and however often the server  *)
(* restarts, provided fallback_if_unavailable is off.                      *)
SignaturesLimited == Strict => \A w \in Wallets : signed[w] <= Ceiling

(* Seen from the store, the two calls implement an atomic limit that is    *)
(* higher by the other requests in progress; uses are never given back.    *)
Gate == INSTANCE UsageGate WITH cap <- Ceiling, used <- count

ImplementsGate == Gate!GateSpec
=============================================================================
