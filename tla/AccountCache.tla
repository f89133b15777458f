----------------------------- MODULE AccountCache -----------------------------
(***************************************************************************)
(* The paymaster's cache of accounts (cache.rs): get_account, with and     *)
(* without force_refresh, by several callers at a time.  Reading the node, *)
(* stamping what it said, and writing it to Redis are separate steps, so a *)
(* slow caller may overwrite what a faster one read later.  Redis may fail *)
(* or evict at any time: no caller ever sees that.                         *)
(*                                                                         *)
(* All times are ages, in seconds before now, so there is no clock.        *)
(***************************************************************************)
EXTENDS Naturals

CONSTANTS
  Keys,         \* accounts
  Values,       \* what an account may hold
  Absent,       \* the account does not exist
  Readers,      \* callers of get_account
  TTL,          \* account_ttl
  MaxDelay      \* bound on the seconds a call to the node or to Redis takes

ASSUME CacheAssumption ==
  /\ TTL \in Nat \ {0} /\ MaxDelay \in Nat
  /\ Absent \in Values

VARIABLES
  caching,      \* CACHE_POOL holds a pool
  account,      \* what each account holds
  since,        \* for each account and value: how long ago it held it last
  entry,        \* the entry of each account in Redis
  reader        \* where each caller is

cacheVars == <<caching, account, since, entry, reader>>

LongAgo == TTL + 2 * MaxDelay + 1       \* ages are told apart up to this one

\* age: since cached_at; left: until Redis drops the entry.
NoEntry == [value |-> Absent, age |-> 0, left |-> 0]

NoKey == "no key"

\* lag: since the node read the account, then since the answer was stamped.
Resting == [stage |-> "rest", key |-> NoKey, value |-> Absent, lag |-> 0]

CacheInit(held) ==
  /\ caching = FALSE
  /\ account = held
  /\ since = [k \in Keys |-> [v \in Values |-> IF v = account[k] THEN 0 ELSE LongAgo]]
  /\ entry = [k \in Keys |-> NoEntry]
  /\ reader = [r \in Readers |-> Resting]

-----------------------------------------------------------------------------
(* get_account.                                                            *)

ReaderGoes(r, next) ==
  /\ reader' = [reader EXCEPT ![r] = next]
  /\ UNCHANGED <<caching, account, since, entry>>

Stage(r) == reader[r].stage

Asking(k, forced) ==
  [stage |-> IF caching /\ ~forced THEN "lookup" ELSE "fetch",
   key |-> k, value |-> Absent, lag |-> 0]

GetAccount(r, k, forced) ==
  Stage(r) = "rest" /\ ReaderGoes(r, Asking(k, forced))

\* The caller goes on with the same account.
Onward(r, stage, value, lag) ==
  [stage |-> stage, key |-> reader[r].key, value |-> value, lag |-> lag]

\* Bug: whatever Redis still holds is used.
ValidInRedis(e) == e # NoEntry

\* cache_age < account_ttl
Valid(e) == e # NoEntry /\ e.age < TTL

Lookup(r) ==
  /\ Stage(r) = "lookup"
  /\ LET e == entry[reader[r].key]
     IN  ReaderGoes(r, IF Valid(e) THEN Onward(r, "done", e.value, 0)
                                   ELSE Onward(r, "fetch", Absent, 0))

\* An error of Redis counts as a miss.
LookupFails(r) ==
  Stage(r) = "lookup" /\ ReaderGoes(r, Onward(r, "fetch", Absent, 0))

NodeReads(r) ==
  Stage(r) = "fetch" /\ ReaderGoes(r, Onward(r, "read", account[reader[r].key], 0))

\* A missing account is an error, and errors are not cached.
AfterAnswer(value) ==
  CASE value = Absent -> "failed"
    [] value # Absent /\ caching -> "store"
    [] OTHER -> "done"

NodeAnswers(r) ==
  /\ Stage(r) = "read"
  /\ ReaderGoes(r, Onward(r, AfterAnswer(reader[r].value), reader[r].value, 0))

NodeFails(r) ==
  /\ Stage(r) = "fetch" \/ Stage(r) = "read"
  /\ ReaderGoes(r, Onward(r, "failed", Absent, 0))

\* set_in_cache
Store(r) ==
  /\ Stage(r) = "store"
  /\ entry' = [entry EXCEPT ![reader[r].key] =
                 [value |-> reader[r].value, age |-> reader[r].lag, left |-> TTL]]
  /\ reader' = [reader EXCEPT ![r] = Onward(r, "done", reader[r].value, 0)]
  /\ UNCHANGED <<caching, account, since>>

\* "Don't fail the request if caching fails"
StoreFails(r) ==
  Stage(r) = "store" /\ ReaderGoes(r, Onward(r, "done", reader[r].value, 0))

CacheSteps(r) ==
  \/ Lookup(r) \/ LookupFails(r)
  \/ NodeReads(r) \/ NodeAnswers(r) \/ NodeFails(r)
  \/ Store(r) \/ StoreFails(r)

Answered(r) == reader[r].stage \in {"done", "failed"}

\* The caller has taken the answer.
Rests(r) == reader' = [reader EXCEPT ![r] = Resting]

-----------------------------------------------------------------------------
(* The world.                                                              *)

AccountBecomes(k, v) ==
  /\ account' = [account EXCEPT ![k] = v]
  /\ since' = [since EXCEPT ![k][v] = 0]

Evict(k) ==
  /\ entry[k] # NoEntry
  /\ entry' = [entry EXCEPT ![k] = NoEntry]
  /\ UNCHANGED <<caching, account, since, reader>>

Older(age) == IF age < LongAgo THEN age + 1 ELSE LongAgo

Hurries(r) == Stage(r) = "read" \/ Stage(r) = "store"

Second ==
  /\ \A r \in Readers : ~Answered(r) /\ (Hurries(r) => reader[r].lag < MaxDelay)
  /\ since' = [k \in Keys |-> [v \in Values |->
                 IF v = account[k] THEN 0 ELSE Older(since[k][v])]]
  /\ entry' = [k \in Keys |->
                 IF entry[k].left <= 1 THEN NoEntry
                 ELSE [value |-> entry[k].value,
                       age |-> entry[k].age + 1, left |-> entry[k].left - 1]]
  /\ reader' = [r \in Readers |->
                  [reader[r] EXCEPT !.lag = IF Hurries(r) THEN @ + 1 ELSE @]]
  /\ UNCHANGED <<caching, account>>

-----------------------------------------------------------------------------
EntryType == [value : Values, age : 0..(TTL + MaxDelay), left : 0..TTL]

ReaderType ==
  [stage : {"rest", "lookup", "fetch", "read", "store", "done", "failed"},
   key : Keys \cup {NoKey}, value : Values, lag : 0..MaxDelay]

CacheTypeOK ==
  /\ caching \in BOOLEAN
  /\ account \in [Keys -> Values]
  /\ since \in [Keys -> [Values -> 0..LongAgo]]
  /\ entry \in [Keys -> EntryType]
  /\ reader \in [Readers -> ReaderType]

\* How old an answer may be: cached or just read, plus one slow call.
Promised == (IF TTL - 1 > MaxDelay THEN TTL - 1 ELSE MaxDelay) + MaxDelay

(* An answer is a value the account had within its time to live, plus the  *)
(* time one call takes, whoever read, stamped and stored it in between     *)
(* (cache.rs:201).  This is all that Paymaster assumes of the cache.       *)
AnswersRecent ==
  \A r \in Readers : Stage(r) = "done" => since[reader[r].key][reader[r].value] <= Promised
=============================================================================
