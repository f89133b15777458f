---------------------------- MODULE KoraCliProofs -----------------------------
(***************************************************************************)
(* Proofs about the paymaster's process: whatever command it runs, and     *)
(* wherever it is killed, the cache answers recent values, round robin     *)
(* shares the draws, and what a command says of itself is true.            *)
(*                                                                         *)
(* The invariants of the cache and of the pool are those of their modules; *)
(* what is added says which accounts the tracker and the token accounts'   *)
(* job may ask for, what the job has found so far, and what the process    *)
(* must have passed to be where it is.                                     *)
(***************************************************************************)
EXTENDS KoraCli, TLAPS

-----------------------------------------------------------------------------
(***************************************************************************)
(* The cache of accounts (AccountCache): an answer is never older than its *)
(* time to live and one slow call, for any number of callers, whatever     *)
(* fails or is evicted, and though a slow caller may overwrite what a      *)
(* faster one read later.                                                  *)
(*                                                                         *)
(* The invariant follows a value on its way: just read, it is as old as    *)
(* the read; stamped, it is older by one call at most; so is an entry than *)
(* its own age.                                                            *)
(***************************************************************************)
\* What a caller is about to answer: never that there is nothing.
ReaderRecent(x) ==
  x.stage # "rest" =>
    /\ x.key \in Keys
    /\ x.stage \in {"store", "done"} => x.value # Absent
    /\ x.stage = "read"  => since[x.key][x.value] <= x.lag
    /\ x.stage = "store" => since[x.key][x.value] <= x.lag + MaxDelay
    /\ x.stage = "done"  => since[x.key][x.value] <= Promised

EntryRecent(k, e) ==
  e # NoEntry =>
    /\ e.value # Absent
    /\ e.left > 0 /\ e.age + e.left <= TTL + MaxDelay
    /\ since[k][e.value] <= e.age + MaxDelay

HeldNow == \A k \in Keys : since[k][account[k]] = 0

CacheInv ==
  /\ CacheTypeOK /\ HeldNow
  /\ \A k \in Keys : EntryRecent(k, entry[k])
  /\ \A r \in Readers : ReaderRecent(reader[r])

-----------------------------------------------------------------------------
(* The bounds are natural numbers.                                         *)
LEMMA BoundsTyped ==
  /\ TTL \in Nat /\ TTL > 0 /\ MaxDelay \in Nat /\ LongAgo \in Nat
  /\ Promised \in Nat /\ 2 * MaxDelay <= Promised /\ TTL - 1 + MaxDelay <= Promised
BY CacheAssumption DEF LongAgo, Promised

(* A caller at rest, or one that begins, has nothing to answer.            *)
LEMMA CallerTyped ==
  /\ Resting \in ReaderType /\ ReaderRecent(Resting)
  /\ \A k \in Keys, forced \in BOOLEAN :
       Asking(k, forced) \in ReaderType /\ ReaderRecent(Asking(k, forced))
<1>1. Absent \in Values /\ 0 \in 0..MaxDelay
  BY CacheAssumption
<1>2. Resting \in ReaderType /\ ReaderRecent(Resting)
  BY <1>1 DEF Resting, ReaderType, ReaderRecent
<1>3. ASSUME NEW k \in Keys, NEW forced \in BOOLEAN
      PROVE  /\ Asking(k, forced) \in ReaderType
             /\ ReaderRecent(Asking(k, forced))
  <2>1. PICK step \in {"lookup", "fetch"} :
          Asking(k, forced) = [stage |-> step, key |-> k, value |-> Absent, lag |-> 0]
    BY DEF Asking
  <2> QED
    BY <1>1, <2>1 DEF ReaderType, ReaderRecent
<1> QED
  BY <1>2, <1>3

(* Nothing is cached at the start.                                         *)
LEMMA CacheInitInv ==
  ASSUME NEW held \in [Keys -> Values], CacheInit(held) PROVE CacheInv
<1>1. CacheTypeOK
  <2>1. Resting \in ReaderType
    BY CallerTyped
  <2>2. NoEntry \in EntryType
    BY CacheAssumption DEF NoEntry, EntryType
  <2>3. LongAgo \in Nat
    BY BoundsTyped
  <2>4. since \in [Keys -> [Values -> 0..LongAgo]]
    BY <2>3 DEF CacheInit
  <2> QED
    BY <2>1, <2>2, <2>4 DEF CacheInit, CacheTypeOK
<1>2. HeldNow
  BY DEF CacheInit, HeldNow
<1>3. \A k \in Keys : EntryRecent(k, entry[k])
  BY DEF CacheInit, EntryRecent
<1>4. \A r \in Readers : ReaderRecent(reader[r])
  BY CallerTyped DEF CacheInit
<1> QED
  BY <1>1, <1>2, <1>3, <1>4 DEF CacheInv

(* A caller that goes on with a recent value.                              *)
LEMMA ReaderGoesInv ==
  ASSUME CacheInv, NEW r \in Readers, NEW next \in ReaderType, ReaderRecent(next),
         ReaderGoes(r, next)
  PROVE  CacheInv'
<1>1. /\ since' = since /\ account' = account /\ entry' = entry /\ caching' = caching
      /\ reader' = [reader EXCEPT ![r] = next]
  BY DEF ReaderGoes
<1>2. CacheTypeOK'
  BY <1>1 DEF CacheInv, CacheTypeOK
<1>3. HeldNow' /\ \A k \in Keys : EntryRecent(k, entry[k])'
  BY <1>1 DEF CacheInv, HeldNow, EntryRecent
<1>4. \A q \in Readers : reader'[q] = IF q = r THEN next ELSE reader[q]
  BY <1>1 DEF CacheInv, CacheTypeOK
<1>5. \A q \in Readers : ReaderRecent(reader[q])'
  BY <1>1, <1>4 DEF CacheInv, ReaderRecent
<1> QED
  BY <1>2, <1>3, <1>5 DEF CacheInv

(* Any caller that is asked for an account of the chain.                   *)
LEMMA AskingInv ==
  ASSUME CacheInv, NEW r \in Readers, NEW k \in Keys, NEW forced \in BOOLEAN,
         ReaderGoes(r, Asking(k, forced))
  PROVE  CacheInv'
BY CallerTyped, ReaderGoesInv

(* The steps of get_account.                                               *)
LEMMA CacheStepsInv ==
  ASSUME CacheInv, NEW r \in Readers, CacheSteps(r) PROVE CacheInv'
<1> DEFINE x == reader[r]
           Goes(step, value, lag) ==
             [stage |-> step, key |-> x.key, value |-> value, lag |-> lag]
<1>1. /\ x \in ReaderType /\ ReaderRecent(x)
      /\ since \in [Keys -> [Values -> 0..LongAgo]]
      /\ account \in [Keys -> Values] /\ entry \in [Keys -> EntryType]
      /\ \A k \in Keys : EntryRecent(k, entry[k]) /\ since[k][account[k]] = 0
  BY DEF CacheInv, CacheTypeOK, HeldNow
<1>2. x.stage # "rest" => x.key \in Keys
  BY <1>1 DEF ReaderRecent
<1>4. /\ x.value \in Values /\ x.lag \in 0..MaxDelay /\ Absent \in Values
      /\ TTL \in Nat /\ MaxDelay \in Nat /\ Promised \in Nat
      /\ 2 * MaxDelay <= Promised /\ TTL - 1 + MaxDelay <= Promised
  BY <1>1, BoundsTyped, CacheAssumption DEF ReaderType
<1>5. ASSUME NEW step \in {"lookup", "fetch", "read", "store", "done", "failed"},
             NEW value \in Values, NEW lag \in 0..MaxDelay, x.stage # "rest",
             ReaderGoes(r, Goes(step, value, lag)),
             step \in {"store", "done"} => value # Absent,
             step = "read" => since[x.key][value] <= lag,
             step = "store" => since[x.key][value] <= lag + MaxDelay,
             step = "done" => since[x.key][value] <= Promised
      PROVE  CacheInv'
  <2> DEFINE next == Goes(step, value, lag)
  <2>1. next \in ReaderType
    BY <1>2, <1>5 DEF ReaderType
  <2>2. ReaderRecent(next)
    BY <1>2, <1>5 DEF ReaderRecent
  <2> QED
    BY <1>5, <2>1, <2>2, ReaderGoesInv
<1>7. 0 \in 0..MaxDelay
  BY <1>4
<1> HIDE DEF x
<1>8. CASE Lookup(r)
  <2>1. x.stage = "lookup" /\ x.key \in Keys
    BY <1>2, <1>8 DEF Lookup, Stage, x
  <2> DEFINE e == entry[x.key]
  <2>2. CASE Valid(e)
    <3>1. ReaderGoes(r, Goes("done", e.value, 0))
      BY <1>8, <2>2 DEF Lookup, Onward, x
    <3>2. EntryRecent(x.key, e) /\ e \in EntryType
      BY <1>1, <2>1
    <3>3. /\ e.age < TTL /\ since[x.key][e.value] <= e.age + MaxDelay
          /\ e.value # Absent
      BY <2>2, <3>2 DEF Valid, EntryRecent
    <3>4. e.value \in Values /\ e.age \in Nat /\ since[x.key][e.value] \in Nat
      BY <1>1, <1>4, <2>1, <3>2 DEF EntryType
    <3>5. since[x.key][e.value] <= Promised
      BY <1>4, <3>3, <3>4
    <3> HIDE DEF e
    <3> QED
      BY <1>5, <1>7, <2>1, <3>1, <3>3, <3>4, <3>5
  <2>3. CASE ~Valid(e)
    <3>1. ReaderGoes(r, Goes("fetch", Absent, 0))
      BY <1>8, <2>3 DEF Lookup, Onward, x
    <3> QED
      BY <1>4, <1>5, <1>7, <2>1, <3>1
  <2> QED
    BY <2>2, <2>3
<1>9. CASE LookupFails(r)
  <2>1. x.stage = "lookup" /\ ReaderGoes(r, Goes("fetch", Absent, 0))
    BY <1>9 DEF LookupFails, Stage, Onward, x
  <2> QED
    BY <1>4, <1>5, <1>7, <2>1
<1>10. CASE NodeReads(r)
  <2> DEFINE v == account[x.key]
  <2>1. x.stage = "fetch" /\ ReaderGoes(r, Goes("read", v, 0))
    BY <1>10 DEF NodeReads, Stage, Onward, x
  <2>2. v \in Values /\ since[x.key][v] = 0
    BY <1>1, <1>2, <2>1
  <2>3. since[x.key][v] <= 0
    BY <2>2
  <2> HIDE DEF v
  <2> QED
    BY <1>5, <1>7, <2>1, <2>2, <2>3
<1>11. CASE NodeAnswers(r)
  <2>1. /\ AfterAnswer(x.value) \in {"failed", "store", "done"}
        /\ AfterAnswer(x.value) \in {"store", "done"} => x.value # Absent
    BY DEF AfterAnswer
  <2>2. x.stage = "read" /\ ReaderGoes(r, Goes(AfterAnswer(x.value), x.value, 0))
    BY <1>11 DEF NodeAnswers, Stage, Onward, x
  <2>3. since[x.key][x.value] <= x.lag /\ since[x.key][x.value] \in Nat
    BY <1>1, <1>2, <1>4, <2>2 DEF ReaderRecent
  <2>4. since[x.key][x.value] <= 0 + MaxDelay /\ since[x.key][x.value] <= Promised
    BY <1>4, <2>3
  <2> QED
    BY <1>4, <1>5, <1>7, <2>1, <2>2, <2>4
<1>12. CASE NodeFails(r)
  <2>1. x.stage \in {"fetch", "read"} /\ ReaderGoes(r, Goes("failed", Absent, 0))
    BY <1>12 DEF NodeFails, Stage, Onward, x
  <2> QED
    BY <1>4, <1>5, <1>7, <2>1
<1>13. ASSUME x.stage = "store"
       PROVE  /\ x.key \in Keys /\ x.value # Absent
              /\ since[x.key][x.value] <= x.lag + MaxDelay
              /\ since[x.key][x.value] <= Promised
  <2>1. /\ x.key \in Keys /\ x.value # Absent
        /\ since[x.key][x.value] <= x.lag + MaxDelay
    BY <1>1, <1>2, <1>13 DEF ReaderRecent
  <2>2. since[x.key][x.value] \in Nat
    BY <1>1, <1>4, <2>1
  <2> QED
    BY <1>4, <2>1, <2>2
<1>14. CASE StoreFails(r)
  <2>1. x.stage = "store" /\ ReaderGoes(r, Goes("done", x.value, 0))
    BY <1>14 DEF StoreFails, Stage, Onward, x
  <2> QED
    BY <1>4, <1>5, <1>7, <1>13, <2>1
<1>15. CASE Store(r)
  <2> DEFINE stored == [value |-> x.value, age |-> x.lag, left |-> TTL]
             next   == Goes("done", x.value, 0)
  <2>1. /\ x.stage = "store"
        /\ entry' = [entry EXCEPT ![x.key] = stored]
        /\ reader' = [reader EXCEPT ![r] = next]
        /\ caching' = caching /\ account' = account /\ since' = since
    BY <1>15 DEF Store, Stage, Onward, x
  <2>2. stored \in EntryType /\ EntryRecent(x.key, stored)
    BY <1>4, <1>13, <2>1, BoundsTyped DEF EntryType, EntryRecent
  <2>3. next \in ReaderType /\ ReaderRecent(next)
    BY <1>4, <1>7, <1>13, <2>1 DEF ReaderType, ReaderRecent
  <2> HIDE DEF stored, next
  <2>4. CacheTypeOK'
    BY <2>1, <2>2, <2>3 DEF CacheInv, CacheTypeOK
  <2>5. HeldNow'
    BY <2>1 DEF CacheInv, HeldNow
  <2>6. \A k \in Keys : EntryRecent(k, entry[k])'
    <3>1. \A k \in Keys : entry'[k] = IF k = x.key THEN stored ELSE entry[k]
      BY <1>1, <2>1
    <3> QED
      BY <1>1, <2>1, <2>2, <3>1 DEF EntryRecent
  <2>7. \A q \in Readers : ReaderRecent(reader[q])'
    <3>1. \A q \in Readers : reader'[q] = IF q = r THEN next ELSE reader[q]
      BY <2>1 DEF CacheInv, CacheTypeOK
    <3> QED
      BY <2>1, <2>3, <3>1 DEF CacheInv, ReaderRecent
  <2> QED
    BY <2>4, <2>5, <2>6, <2>7 DEF CacheInv
<1> QED
  BY <1>8, <1>9, <1>10, <1>11, <1>12, <1>14, <1>15 DEF CacheSteps

-----------------------------------------------------------------------------
(* Opening the cache changes nothing of what is known.                     *)
LEMMA CachingInv ==
  ASSUME CacheInv, caching' \in BOOLEAN, UNCHANGED <<account, since, entry, reader>>
  PROVE  CacheInv'
BY DEF CacheInv, CacheTypeOK, HeldNow, EntryRecent, ReaderRecent

(* The callers of a process that ends.                                     *)
LEMMA AllRestInv ==
  ASSUME CacheInv, caching' \in BOOLEAN, UNCHANGED <<account, since, entry>>,
         reader' = [r \in Readers |-> Resting]
  PROVE  CacheInv'
<1>1. Resting \in ReaderType /\ Resting.stage = "rest"
  BY CallerTyped DEF Resting
<1>2. CacheTypeOK' /\ HeldNow'
  BY <1>1 DEF CacheInv, CacheTypeOK, HeldNow
<1>3. \A k \in Keys : EntryRecent(k, entry[k])'
  BY DEF CacheInv, EntryRecent
<1>4. \A r \in Readers : ReaderRecent(reader[r])'
  BY <1>1 DEF ReaderRecent
<1> QED
  BY <1>2, <1>3, <1>4 DEF CacheInv

(* Accounts that change make no value older.                               *)
LEMMA AccountsChangeInv ==
  ASSUME CacheInv, account' \in [Keys -> Values],
         since' \in [Keys -> [Values -> 0..LongAgo]],
         \A k \in Keys : since'[k][account'[k]] = 0,
         \A k \in Keys, v \in Values : since'[k][v] <= since[k][v],
         UNCHANGED <<caching, entry, reader>>
  PROVE  CacheInv'
<1>1. since \in [Keys -> [Values -> 0..LongAgo]]
  BY DEF CacheInv, CacheTypeOK
<1>2. ASSUME NEW k \in Keys, NEW v \in Values
      PROVE  since[k][v] \in Int /\ since'[k][v] \in Int
  <2>1. since[k] \in [Values -> 0..LongAgo] /\ since'[k] \in [Values -> 0..LongAgo]
    BY <1>1
  <2>2. since[k][v] \in 0..LongAgo /\ since'[k][v] \in 0..LongAgo
    BY <2>1
  <2> QED
    BY <2>2, BoundsTyped
<1>3. CacheTypeOK' /\ HeldNow'
  BY DEF CacheInv, CacheTypeOK, HeldNow
<1>4. ASSUME NEW k \in Keys PROVE EntryRecent(k, entry[k])'
  <2>1. entry[k] \in EntryType /\ EntryRecent(k, entry[k])
    BY DEF CacheInv, CacheTypeOK
  <2>2. entry[k].value \in Values /\ entry[k].age \in Nat /\ MaxDelay \in Nat
    BY <2>1, BoundsTyped DEF EntryType
  <2> QED
    BY <1>2, <2>1, <2>2 DEF EntryRecent
<1>5. ASSUME NEW r \in Readers PROVE ReaderRecent(reader[r])'
  <2>1. reader[r] \in ReaderType /\ ReaderRecent(reader[r])
    BY DEF CacheInv, CacheTypeOK
  <2>2. /\ reader[r].value \in Values /\ reader[r].lag \in Nat
        /\ MaxDelay \in Nat /\ Promised \in Nat
    BY <2>1, BoundsTyped DEF ReaderType
  <2>3. CASE reader[r].stage = "rest"
    BY <2>3 DEF ReaderRecent
  <2>4. CASE reader[r].stage # "rest"
    <3> DEFINE k == reader[r].key
               v == reader[r].value
    <3>1. k \in Keys
      BY <2>1, <2>4 DEF ReaderRecent
    <3>2. since'[k][v] <= since[k][v] /\ since[k][v] \in Int /\ since'[k][v] \in Int
      BY <1>2, <2>2, <3>1
    <3> QED
      BY <2>1, <2>2, <2>4, <3>1, <3>2 DEF ReaderRecent
  <2> QED
    BY <2>3, <2>4
<1> QED
  BY <1>3, <1>4, <1>5 DEF CacheInv

(* One account that changes.                                               *)
LEMMA AccountBecomesInv ==
  ASSUME CacheInv, NEW k \in Keys, NEW v \in Values, AccountBecomes(k, v),
         UNCHANGED <<caching, entry, reader>>
  PROVE  CacheInv'
<1>1. /\ account \in [Keys -> Values] /\ since \in [Keys -> [Values -> 0..LongAgo]]
      /\ \A h \in Keys : since[h][account[h]] = 0
      /\ LongAgo \in Nat
  BY BoundsTyped DEF CacheInv, CacheTypeOK, HeldNow
<1>2. account' \in [Keys -> Values]
  BY <1>1 DEF AccountBecomes
<1>3. since' = [since EXCEPT ![k] = [since[k] EXCEPT ![v] = 0]]
  BY <1>1 DEF AccountBecomes
<1>4. since' \in [Keys -> [Values -> 0..LongAgo]]
  <2>1. [since[k] EXCEPT ![v] = 0] \in [Values -> 0..LongAgo]
    BY <1>1
  <2> QED
    BY <1>1, <1>3, <2>1
<1>5. \A h \in Keys, u \in Values :
        since'[h][u] = IF h = k /\ u = v THEN 0 ELSE since[h][u]
  BY <1>1, <1>3
<1>6. \A h \in Keys, u \in Values : since'[h][u] <= since[h][u]
  BY <1>1, <1>5
<1>7. \A h \in Keys : account'[h] = IF h = k THEN v ELSE account[h]
  BY <1>1 DEF AccountBecomes
<1>8. \A h \in Keys : since'[h][account'[h]] = 0
  BY <1>1, <1>5, <1>7
<1> QED
  BY <1>2, <1>4, <1>6, <1>8, AccountsChangeInv

(* Redis drops an entry.                                                   *)
LEMMA EvictInv ==
  ASSUME CacheInv, NEW k \in Keys, Evict(k) PROVE CacheInv'
<1>1. NoEntry \in EntryType
  BY CacheAssumption DEF NoEntry, EntryType
<1>2. CacheTypeOK' /\ HeldNow'
  BY <1>1 DEF CacheInv, CacheTypeOK, HeldNow, Evict
<1>3. \A h \in Keys : entry'[h] = IF h = k THEN NoEntry ELSE entry[h]
  BY DEF CacheInv, CacheTypeOK, Evict
<1>4. \A h \in Keys : EntryRecent(h, entry[h])'
  BY <1>3 DEF CacheInv, EntryRecent, Evict
<1>5. \A r \in Readers : ReaderRecent(reader[r])'
  BY DEF CacheInv, ReaderRecent, Evict
<1> QED
  BY <1>2, <1>4, <1>5 DEF CacheInv

(* A second passes: what is known grows older no faster than its clocks.   *)
LEMMA SecondInv ==
  ASSUME CacheInv, Second PROVE CacheInv'
<1>1. /\ account \in [Keys -> Values] /\ entry \in [Keys -> EntryType]
      /\ reader \in [Readers -> ReaderType] /\ caching \in BOOLEAN
      /\ \A k \in Keys : EntryRecent(k, entry[k]) /\ since[k][account[k]] = 0
      /\ \A r \in Readers : ReaderRecent(reader[r])
  BY DEF CacheInv, CacheTypeOK, HeldNow
<1>2. /\ TTL \in Nat /\ TTL > 0 /\ MaxDelay \in Nat /\ LongAgo \in Nat /\ Absent \in Values
  BY BoundsTyped, CacheAssumption
<1>3. ASSUME NEW k \in Keys, NEW v \in Values PROVE since[k][v] \in 0..LongAgo
  <2>1. since[k] \in [Values -> 0..LongAgo]
    BY DEF CacheInv, CacheTypeOK
  <2> QED
    BY <2>1
<1>4. account' = account /\ caching' = caching
  BY DEF Second
<1>5. ASSUME NEW k \in Keys, NEW v \in Values
      PROVE  /\ since'[k][v] \in 0..LongAgo /\ since'[k][v] <= since[k][v] + 1
             /\ v = account[k] => since'[k][v] = 0
  <2>1. since'[k][v] = IF v = account[k] THEN 0 ELSE Older(since[k][v])
    BY DEF Second
  <2>2. Older(since[k][v]) \in 0..LongAgo /\ Older(since[k][v]) <= since[k][v] + 1
    BY <1>2, <1>3 DEF Older
  <2> QED
    BY <1>2, <1>3, <2>1, <2>2
<1>6. since' \in [Keys -> [Values -> 0..LongAgo]]
  <2>1. since' = [k \in Keys |-> [v \in Values |-> since'[k][v]]]
    BY DEF Second
  <2> QED
    BY <1>5, <2>1
<1>7. ASSUME NEW k \in Keys
      PROVE  entry'[k] \in EntryType /\ EntryRecent(k, entry[k])'
  <2>1. entry[k] \in EntryType /\ EntryRecent(k, entry[k])
    BY <1>1
  <2>2. /\ entry[k].value \in Values /\ entry[k].age \in Nat /\ entry[k].left \in 0..TTL
    BY <1>2, <2>1 DEF EntryType
  <2>3. CASE entry[k].left <= 1
    <3>1. entry'[k] = NoEntry
      BY <2>3 DEF Second
    <3>2. NoEntry \in EntryType
      BY <1>2 DEF NoEntry, EntryType
    <3> QED
      BY <3>1, <3>2 DEF EntryRecent
  <2>4. CASE ~(entry[k].left <= 1)
    <3>1. entry'[k] = [value |-> entry[k].value, age |-> entry[k].age + 1,
                       left |-> entry[k].left - 1]
      BY <2>4 DEF Second
    <3>2. entry[k] # NoEntry
      BY <1>2, <2>2, <2>4 DEF NoEntry
    <3>3. /\ entry[k].age + entry[k].left <= TTL + MaxDelay /\ entry[k].value # Absent
          /\ since[k][entry[k].value] <= entry[k].age + MaxDelay
      BY <2>1, <3>2 DEF EntryRecent
    <3>4. entry'[k] \in EntryType
      <4>1. /\ entry[k].age + 1 \in 0..(TTL + MaxDelay)
            /\ entry[k].left - 1 \in 0..TTL
        BY <1>2, <2>2, <2>4, <3>3
      <4> QED
        BY <2>2, <3>1, <4>1 DEF EntryType
    <3>5. since'[k][entry[k].value] <= entry[k].age + 1 + MaxDelay
      BY <1>2, <1>3, <1>5, <2>2, <3>3
    <3>6. /\ entry[k].left - 1 > 0
          /\ entry[k].age + 1 + (entry[k].left - 1) <= TTL + MaxDelay
      BY <1>2, <2>2, <2>4, <3>3
    <3> QED
      BY <3>1, <3>3, <3>4, <3>5, <3>6 DEF EntryRecent
  <2> QED
    BY <2>3, <2>4
<1>8. ASSUME NEW r \in Readers
      PROVE  reader'[r] \in ReaderType /\ ReaderRecent(reader[r])'
  <2> DEFINE x == reader[r]
  <2>1. x \in ReaderType /\ ReaderRecent(x) /\ x.stage # "done"
    BY <1>1 DEF Second, Answered
  <2>2. x.value \in Values /\ x.lag \in 0..MaxDelay
    BY <2>1 DEF ReaderType
  <2>3. reader'[r] = [x EXCEPT !.lag = IF Hurries(r) THEN x.lag + 1 ELSE x.lag]
    BY DEF Second
  <2>4. /\ reader'[r].stage = x.stage /\ reader'[r].key = x.key
        /\ reader'[r].value = x.value
        /\ reader'[r].lag = IF Hurries(r) THEN x.lag + 1 ELSE x.lag
    BY <2>1, <2>3 DEF ReaderType
  <2>5. Hurries(r) => x.lag < MaxDelay
    BY DEF Second
  <2>6. reader'[r].lag \in 0..MaxDelay
    BY <1>2, <2>2, <2>4, <2>5
  <2>7. reader'[r] \in ReaderType
    BY <2>1, <2>3, <2>4, <2>6 DEF ReaderType
  <2>8. CASE Hurries(r)
    <3>1. x.stage \in {"read", "store"} /\ x.key \in Keys
      BY <2>1, <2>8 DEF Hurries, Stage, ReaderRecent
    <3>2. since'[x.key][x.value] <= since[x.key][x.value] + 1
      BY <1>5, <2>2, <3>1
    <3>3. /\ since'[x.key][x.value] \in Int /\ since[x.key][x.value] \in Int
          /\ x.lag \in Int /\ MaxDelay \in Int
      BY <1>2, <1>3, <1>5, <2>2, <3>1
    <3>4. /\ x.stage = "read" => since'[x.key][x.value] <= x.lag + 1
          /\ x.stage = "store" => since'[x.key][x.value] <= x.lag + 1 + MaxDelay
      BY <2>1, <3>1, <3>2, <3>3 DEF ReaderRecent
    <3> HIDE DEF x
    <3> QED
      BY <2>1, <2>4, <2>7, <2>8, <3>1, <3>4 DEF ReaderRecent
  <2>9. CASE ~Hurries(r)
    BY <2>1, <2>4, <2>7, <2>9 DEF Hurries, Stage, ReaderRecent
  <2> QED
    BY <2>8, <2>9
<1>9. CacheTypeOK'
  <2>1. entry' = [k \in Keys |-> entry'[k]] /\ reader' = [r \in Readers |-> reader'[r]]
    BY DEF Second
  <2>2. entry' \in [Keys -> EntryType] /\ reader' \in [Readers -> ReaderType]
    BY <1>7, <1>8, <2>1
  <2> QED
    BY <1>1, <1>4, <1>6, <2>2 DEF CacheTypeOK
<1>10. HeldNow'
  BY <1>1, <1>4, <1>5 DEF HeldNow
<1> QED
  BY <1>7, <1>8, <1>9, <1>10 DEF CacheInv

-----------------------------------------------------------------------------
(* The invariant is about all of the cache.                                *)
LEMMA CacheUnchangedInv ==
  ASSUME CacheInv, UNCHANGED cacheVars PROVE CacheInv'
BY DEF cacheVars, CacheInv, CacheTypeOK, HeldNow, EntryRecent, ReaderRecent

(* It says what get_account promises (cache.rs:201).                       *)
LEMMA CacheInvIsRecent == CacheInv => CacheTypeOK /\ AnswersRecent
BY DEF CacheInv, AnswersRecent, ReaderRecent, Stage

-----------------------------------------------------------------------------
(***************************************************************************)
(* The pool of signers (SignerPool): round robin is fair for every pool    *)
(* and every width of the counter, although the counter need not be a      *)
(* multiple of the pool and wraps around.                                  *)
(*                                                                         *)
(* The invariant counts, for two positions, which of them the present      *)
(* round has already reached, and one more for each time the counter       *)
(* wrapped, since a wrap cuts a round short.                               *)
(***************************************************************************)
Size == Len(pool)

\* Positions drawn in the present round.
Reached(i) == IF i <= counter % Size THEN 1 ELSE 0

Wraps == drawn \div CounterSize

PoolShape ==
  /\ Size \in Nat /\ DOMAIN pool = 1..Size
  /\ counter \in 0..(CounterSize - 1) /\ drawn \in Nat
  /\ uses \in [1..Size -> Nat]

FairSoFar ==
  strategy = "round_robin" =>
    /\ counter = drawn % CounterSize
    /\ \A i, j \in 1..Size : uses[i] - uses[j] <= Wraps + Reached(i) - Reached(j)

PoolInv == PoolShape /\ FairSoFar

FreshPool ==
  /\ Size \in Nat /\ DOMAIN pool = 1..Size
  /\ counter = 0 /\ drawn = 0 /\ uses = [i \in 1..Size |-> 0]

-----------------------------------------------------------------------------
(* Quotient and remainder of a natural number.                             *)
LEMMA Division ==
  ASSUME NEW a \in Nat, NEW n \in Nat \ {0}
  PROVE  /\ a \div n \in Nat /\ a % n \in 0..(n - 1)
         /\ a = n * (a \div n) + (a % n)
BY SMTT(60)

(* There is only one way to write a number as quotient and remainder.      *)
LEMMA DivisionUnique ==
  ASSUME NEW a \in Nat, NEW n \in Nat \ {0}, NEW q \in Nat, NEW r \in 0..(n - 1),
         a = n * q + r
  PROVE  q = a \div n /\ r = a % n
BY SMTT(60)

(* The next number is one further in the same round, or starts the next.   *)
LEMMA DivisionNext ==
  ASSUME NEW a \in Nat, NEW n \in Nat \ {0}
  PROVE  /\ (a % n) + 1 < n => /\ (a + 1) \div n = a \div n
                             /\ (a + 1) % n = (a % n) + 1
         /\ (a % n) + 1 = n => /\ (a + 1) \div n = a \div n + 1
                             /\ (a + 1) % n = 0
<1> DEFINE q == a \div n
           r == a % n
<1>1. q \in Nat /\ r \in 0..(n - 1) /\ a = n * q + r
  BY Division
<1> HIDE DEF q, r
<1>2. CASE r + 1 < n
  <2>1. a + 1 = n * q + (r + 1) /\ r + 1 \in 0..(n - 1)
    BY <1>1, <1>2
  <2>2. (a + 1) \div n = q /\ (a + 1) % n = r + 1
    BY <1>1, <2>1, DivisionUnique
  <2> QED
    BY <1>2, <2>2 DEF q, r
<1>3. CASE r + 1 = n
  <2>1. n * (q + 1) = n * q + n
    BY <1>1
  <2>2. a + 1 = n * (q + 1) + 0
    BY <1>1, <1>3, <2>1
  <2>3. q + 1 \in Nat /\ 0 \in 0..(n - 1)
    BY <1>1
  <2>4. (a + 1) \div n = q + 1 /\ (a + 1) % n = 0
    BY <1>1, <2>2, <2>3, DivisionUnique
  <2> QED
    BY <1>3, <2>4 DEF q, r
<1>4. CASE ~(r + 1 <= n)
  BY <1>1, <1>4
<1> QED
  BY <1>1, <1>2, <1>3, <1>4 DEF q, r

-----------------------------------------------------------------------------
(* A pool that has just been made, or is not there, is fair.               *)
LEMMA FreshPoolInv == FreshPool => PoolInv
<1> SUFFICES ASSUME FreshPool PROVE PoolInv
  OBVIOUS
<1> USE DEF FreshPool
<1>1. CounterSize \in Nat \ {0}
  BY PoolAssumption
<1>2. 0 \div CounterSize = 0 /\ 0 % CounterSize = 0
  BY <1>1, DivisionUnique
<1>3. PoolShape
  BY <1>1 DEF PoolShape
<1>4. ASSUME NEW i \in 1..Size, NEW j \in 1..Size
      PROVE  uses[i] - uses[j] <= Wraps + Reached(i) - Reached(j)
  <2>1. Size \in Nat \ {0}
    OBVIOUS
  <2>2. counter % Size = 0
    BY <2>1, DivisionUnique
  <2> QED
    BY <1>2, <2>2 DEF Wraps, Reached
<1> QED
  BY <1>2, <1>3, <1>4 DEF PoolInv, FairSoFar

(* The same after a step.                                                  *)
LEMMA FreshPoolInvNext == FreshPool' => PoolInv'
BY FreshPoolInv, PTL

(* A draw reaches the next position of the round.                          *)
LEMMA RoundGoesOn ==
  ASSUME PoolInv, Size > 0, strategy = "round_robin", counter + 1 < CounterSize,
         counter' = counter + 1, drawn' = drawn + 1, pool' = pool,
         strategy' = strategy, uses' = [uses EXCEPT ![Selected] = @ + 1]
  PROVE  PoolInv'
<1> DEFINE r == counter % Size
<1>1. /\ Size \in Nat \ {0} /\ CounterSize \in Nat \ {0}
      /\ counter \in Nat /\ drawn \in Nat /\ uses \in [1..Size -> Nat]
      /\ counter = drawn % CounterSize
  BY PoolAssumption DEF PoolInv, PoolShape, FairSoFar
<1>2. r \in 0..(Size - 1) /\ Selected = r + 1
  BY <1>1, Division DEF Selected, Size
<1>3. Size' = Size
  BY DEF Size
<1>4. counter' % Size = IF r + 1 = Size THEN 0 ELSE r + 1
  BY <1>1, <1>2, DivisionNext
<1>5. Wraps' = Wraps /\ Wraps \in Nat /\ counter' = drawn' % CounterSize
  BY <1>1, Division, DivisionNext DEF Wraps
<1>6. PoolShape'
  BY <1>1, <1>2, <1>3 DEF PoolInv, PoolShape
<1>7. ASSUME NEW i \in 1..Size, NEW j \in 1..Size
      PROVE  uses'[i] - uses'[j] <= Wraps + Reached(i)' - Reached(j)'
  <2>1. uses[i] - uses[j] <= Wraps + Reached(i) - Reached(j)
    BY DEF PoolInv, FairSoFar
  <2>2. /\ uses'[i] = IF i = r + 1 THEN uses[i] + 1 ELSE uses[i]
        /\ uses'[j] = IF j = r + 1 THEN uses[j] + 1 ELSE uses[j]
        /\ uses[i] \in Nat /\ uses[j] \in Nat
    BY <1>1, <1>2
  <2>3. /\ Reached(i) = IF i <= r THEN 1 ELSE 0
        /\ Reached(j) = IF j <= r THEN 1 ELSE 0
    BY DEF Reached
  <2>4. /\ Reached(i)' = IF r + 1 = Size THEN 0 ELSE IF i <= r + 1 THEN 1 ELSE 0
        /\ Reached(j)' = IF r + 1 = Size THEN 0 ELSE IF j <= r + 1 THEN 1 ELSE 0
    BY <1>1, <1>2, <1>3, <1>4 DEF Reached
  <2>5. i \in Nat /\ j \in Nat /\ r \in Nat /\ i <= Size /\ j <= Size
    BY <1>1, <1>2
  <2> HIDE DEF r
  <2>6. CASE r + 1 = Size
    BY <1>5, <2>1, <2>2, <2>3, <2>4, <2>5, <2>6
  <2>7. CASE r + 1 # Size
    BY <1>5, <2>1, <2>2, <2>3, <2>4, <2>5, <2>7
  <2> QED
    BY <2>6, <2>7
<1> QED
  BY <1>3, <1>5, <1>6, <1>7 DEF PoolInv, FairSoFar

(* A wrap of the counter begins a new round, wherever the old one was.     *)
LEMMA CounterWraps ==
  ASSUME PoolInv, Size > 0, strategy = "round_robin", counter + 1 = CounterSize,
         counter' = 0, drawn' = drawn + 1, pool' = pool,
         strategy' = strategy, uses' = [uses EXCEPT ![Selected] = @ + 1]
  PROVE  PoolInv'
<1> DEFINE r == counter % Size
<1>1. /\ Size \in Nat \ {0} /\ CounterSize \in Nat \ {0}
      /\ counter \in Nat /\ drawn \in Nat /\ uses \in [1..Size -> Nat]
      /\ counter = drawn % CounterSize
  BY PoolAssumption DEF PoolInv, PoolShape, FairSoFar
<1>2. r \in 0..(Size - 1) /\ Selected = r + 1
  BY <1>1, Division DEF Selected, Size
<1>3. Size' = Size
  BY DEF Size
<1>4. counter' % Size = 0
  BY <1>1, DivisionUnique
<1>5. Wraps' = Wraps + 1 /\ Wraps \in Nat /\ counter' = drawn' % CounterSize
  BY <1>1, Division, DivisionNext DEF Wraps
<1>6. PoolShape'
  BY <1>1, <1>2, <1>3 DEF PoolInv, PoolShape
<1>7. ASSUME NEW i \in 1..Size, NEW j \in 1..Size
      PROVE  uses'[i] - uses'[j] <= Wraps + 1 + Reached(i)' - Reached(j)'
  <2>1. uses[i] - uses[j] <= Wraps + Reached(i) - Reached(j)
    BY DEF PoolInv, FairSoFar
  <2>2. /\ uses'[i] = IF i = r + 1 THEN uses[i] + 1 ELSE uses[i]
        /\ uses'[j] = IF j = r + 1 THEN uses[j] + 1 ELSE uses[j]
        /\ uses[i] \in Nat /\ uses[j] \in Nat
    BY <1>1, <1>2
  <2>3. /\ Reached(i) = IF i <= r THEN 1 ELSE 0
        /\ Reached(j) = IF j <= r THEN 1 ELSE 0
    BY DEF Reached
  <2>4. Reached(i)' = 0 /\ Reached(j)' = 0
    BY <1>1, <1>3, <1>4 DEF Reached
  <2>5. r \in Nat /\ i \in Nat /\ j \in Nat
    BY <1>1, <1>2
  <2> HIDE DEF r
  <2>6. uses'[i] \in Nat /\ uses'[i] + Reached(i) <= uses[i] + 1
    BY <2>2, <2>3, <2>5
  <2>7. uses'[j] \in Nat /\ uses[j] <= uses'[j]
    BY <2>2
  <2>8. PICK a \in Nat, b \in Nat, aNext \in Nat, bNext \in Nat, x \in 0..1, y \in 0..1,
             w \in Nat :
          /\ a = uses[i] /\ b = uses[j] /\ aNext = uses'[i] /\ bNext = uses'[j]
          /\ x = Reached(i) /\ y = Reached(j) /\ w = Wraps
    BY <1>5, <2>2, <2>3, <2>6, <2>7
  <2>9. a - b <= w + x - y /\ aNext + x <= a + 1 /\ b <= bNext
    BY <2>1, <2>6, <2>7, <2>8
  <2>10. aNext - bNext <= w + 1
    BY <2>9
  <2> QED
    BY <2>4, <2>8, <2>10
<1> QED
  BY <1>3, <1>5, <1>6, <1>7 DEF PoolInv, FairSoFar

-----------------------------------------------------------------------------
(* The pool that the server makes of its configuration is fair.            *)
LEMMA FromConfigInv ==
  ASSUME NEW S, NEW signers \in Seq(S), NEW how, FromConfig(signers, how)
  PROVE  PoolInv'
<1>1. DOMAIN signers = 1..Len(signers) /\ Len(signers) \in Nat
  OBVIOUS
<1>2. /\ pool' = [i \in 1..Len(signers) |->
                    [name |-> signers[i].name, key |-> signers[i].key,
                     weight |-> WeightOf(signers[i])]]
      /\ counter' = 0 /\ drawn' = 0
      /\ uses' = [i \in 1..Len(signers) |-> 0]
  BY <1>1 DEF FromConfig
<1>3. Len(pool') = Len(signers)
  BY <1>1, <1>2
<1> QED
  BY <1>1, <1>2, <1>3, FreshPoolInvNext DEF Size, FreshPool

(* So is the one that is lost with the process.                            *)
LEMMA PoolLostInv ==
  ASSUME PoolLost PROVE PoolInv'
BY FreshPoolInvNext DEF PoolLost, Size, FreshPool

(* One draw, by any strategy.                                              *)
LEMMA DrawInv ==
  ASSUME PoolInv, NEW i \in DOMAIN pool, Draw(i) PROVE PoolInv'
<1>1. /\ Size \in Nat /\ DOMAIN pool = 1..Size /\ CounterSize \in Nat \ {0}
      /\ counter \in 0..(CounterSize - 1) /\ drawn \in Nat
      /\ uses \in [1..Size -> Nat]
  BY PoolAssumption DEF PoolInv, PoolShape
<1>2. Size > 0
  BY <1>1
<1>3. pool' = pool /\ strategy' = strategy /\ drawn' = drawn + 1
  BY DEF Draw
<1>4. CASE strategy = "round_robin"
  <2>1. uses' = [uses EXCEPT ![Selected] = @ + 1]
    BY <1>4 DEF Draw
  <2>2. CASE counter + 1 = CounterSize
    <3>1. (counter + 1) % CounterSize = 0
      BY <1>1, <2>2, DivisionUnique
    <3>2. counter' = 0
      BY <1>4, <3>1 DEF Draw
    <3> QED
      BY <1>2, <1>3, <1>4, <2>1, <2>2, <3>2, CounterWraps
  <2>3. CASE counter + 1 # CounterSize
    <3>1. /\ counter + 1 \in Nat /\ counter + 1 \in 0..(CounterSize - 1)
          /\ counter + 1 = CounterSize * 0 + (counter + 1)
      BY <1>1, <2>3
    <3>2. (counter + 1) % CounterSize = counter + 1
      BY <1>1, <3>1, DivisionUnique
    <3>3. counter' = counter + 1
      BY <1>4, <3>2 DEF Draw
    <3> QED
      BY <1>1, <1>2, <1>3, <1>4, <2>1, <3>1, <3>3, RoundGoesOn
  <2> QED
    BY <2>2, <2>3
<1>5. CASE strategy # "round_robin"
  <2>1. counter' = counter /\ uses' = [uses EXCEPT ![i] = @ + 1]
    BY <1>5 DEF Draw
  <2> QED
    BY <1>1, <1>3, <1>5, <2>1 DEF PoolInv, PoolShape, FairSoFar, Size
<1> QED
  BY <1>4, <1>5

(* The invariant is about all of the pool.                                 *)
LEMMA PoolUnchangedInv ==
  ASSUME PoolInv, UNCHANGED poolVars PROVE PoolInv'
BY DEF poolVars, PoolInv, PoolShape, FairSoFar, Size, Reached, Wraps

(* Counting the reached positions shows fairness (pool.rs:156-161).        *)
LEMMA PoolInvIsFair == PoolInv => RoundRobinFair
<1> SUFFICES ASSUME PoolInv, strategy = "round_robin",
                    NEW i \in DOMAIN pool, NEW j \in DOMAIN pool
             PROVE  uses[i] - uses[j] <= 1 + drawn \div CounterSize
  BY DEF RoundRobinFair
<1>1. i \in 1..Size /\ j \in 1..Size /\ uses[i] \in Nat /\ uses[j] \in Nat
  BY DEF PoolInv, PoolShape
<1>2. uses[i] - uses[j] <= Wraps + Reached(i) - Reached(j)
  BY <1>1 DEF PoolInv, FairSoFar
<1>3. Reached(i) \in 0..1 /\ Reached(j) \in 0..1
  BY DEF Reached
<1>4. Wraps \in Nat
  BY PoolAssumption, Division DEF PoolInv, PoolShape, Wraps
<1> QED
  BY <1>1, <1>2, <1>3, <1>4 DEF Wraps

-----------------------------------------------------------------------------
\* The configuration has been loaded, at these stages.
ConfigLoaded ==
  stage \notin {"off", "load", "failed", "exited"} => CanLoad(Case.file)

SignersKnown ==
  \A i \in DOMAIN pool : pool[i].key \in Keys /\ pool[i].key \in OwnersOf(Case)

\* The accounts it may plan to create.
Plannable == TokenAccounts(Case)

JobType ==
  [stage : {"none", "next", "look", "ata", "mint", "create", "done", "failed"},
   asked : Seq(OwnersOf(Case)), left : Seq(OwnersOf(Case)), creates : BOOLEAN, chunk : Nat,
   mints : SUBSET MintsOf(Conf), mint : MintsOf(Conf) \cup {NoKey}, plan : Seq(Plannable)]

JobKnown ==
  /\ job \in JobType
  /\ job.stage \in {"look", "ata", "mint", "create"} => job.left # <<>>
  /\ job.stage \in {"ata", "mint"} => job.mint \in MintsOf(Conf)

Known ==
  scen \in DOMAIN Scenarios /\ ConfigLoaded /\ SignersKnown /\ JobKnown

KoraInv == Known /\ CacheInv /\ PoolInv

-----------------------------------------------------------------------------
(* What a scenario is about, at the scenario of a behaviour.               *)
LEMMA ScenarioKnown ==
  ASSUME scen \in DOMAIN Scenarios
  PROVE  /\ Case.accounts \in [Keys -> Values] /\ Case.chunk \in Nat
         /\ Case.read \subseteq Keys /\ Case.moves \subseteq Keys \X Values
         /\ Case.signers.given =>
              /\ Case.signers.signers \in Seq(Range(Case.signers.signers))
              /\ Case.signers.strategy \in Strategies
              /\ \A s \in Range(Case.signers.signers) :
                   SignerAssumed(s) /\ s.key \in OwnersOf(Case)
         /\ CanLoad(Case.file) =>
              /\ MintsOf(Conf) \subseteq Keys /\ Plannable \subseteq Keys
              /\ \A k \in Plannable, v \in Values :
                   Case.accounts[k] = v \/ <<k, v>> \in Case.moves => v \in {Absent, "open"}
BY ScenariosAssumption DEF Case, Conf, OwnersOf, Plannable, AccountsAssumed

(* No job asks for nothing.                                                *)
LEMMA NoJobKnown == job = NoJob => JobKnown
BY DEF NoJob, JobKnown, JobType

(* The same after a step.                                                  *)
LEMMA NoJobKnownNext == job' = NoJob => JobKnown'
BY DEF NoJob, JobKnown, JobType

(* A process that has not begun knows nothing.                             *)
LEMMA KoraInitInv == Init => KoraInv
<1> SUFFICES ASSUME Init PROVE KoraInv
  OBVIOUS
<1>1. scen \in DOMAIN Scenarios /\ ConfigLoaded
  BY DEF Init, ConfigLoaded
<1>2. SignersKnown
  BY DEF Init, PoolInit, SignersKnown
<1>3. JobKnown
  BY NoJobKnown DEF Init
<1>4. CacheInv
  <2>1. [k \in Keys |-> Case.accounts[k]] \in [Keys -> Values]
    BY <1>1, ScenarioKnown
  <2> QED
    BY <2>1, CacheInitInv DEF Init
<1>5. PoolInv
  BY FreshPoolInv DEF Init, PoolInit, FreshPool, Size
<1> QED
  BY <1>1, <1>2, <1>3, <1>4, <1>5 DEF KoraInv, Known

-----------------------------------------------------------------------------
(* What a step does to the pool: it makes it, draws from it, loses it or   *)
(* leaves it alone.                                                        *)
LEMMA PoolFrame ==
  ASSUME [Next]_vars
  PROVE  \/ UNCHANGED poolVars
         \/ InitSigners
         \/ \E i \in DOMAIN pool : Draw(i)
         \/ PoolLost
<1> DEFINE Goal == \/ UNCHANGED poolVars
                   \/ InitSigners
                   \/ \E i \in DOMAIN pool : Draw(i)
                   \/ PoolLost
<1>1. ASSUME \/ \E c \in Case.commands : Launch(c)
             \/ Load \/ InitSignersFails \/ SkipSigners
             \/ \E redis \in BOOLEAN : Validate(redis) \/ InitUsage(redis)
             \/ \E bound \in BOOLEAN : StartMetrics(bound) \/ Bind(bound)
             \/ \E q \in Case.requests : TurnAway(q)
             \/ TrackerTicks \/ BeginAtasFails \/ EndAtas
      PROVE  UNCHANGED poolVars
  BY <1>1 DEF Launch, Load, InitSignersFails, SkipSigners, Validate, InitUsage,
              StartMetrics, Bind, TurnAway, TrackerTicks, BeginAtasFails, EndAtas, Alone
<1>2. ASSUME \/ \E redis \in BOOLEAN : InitCache(redis)
             \/ \E redis, down \in BOOLEAN : ValidateWithRpc(redis, down)
             \/ \E k \in Case.read, forced \in BOOLEAN : RequestReads(k, forced)
             \/ RequestTakes \/ TrackerReads \/ TrackerTakes
             \/ StepAtas \/ ReaderSteps \/ CtrlC
      PROVE  UNCHANGED poolVars
  BY <1>2 DEF InitCache, ValidateWithRpc, RequestReads, RequestTakes, TrackerReads,
              TrackerTakes, StepAtas, ReaderSteps, CtrlC
<1>3. CASE World
  BY <1>3 DEF World, Moves
<1>4. ASSUME NEW q \in Case.requests, Handle(q) \/ Refuse(q) PROVE Goal
  BY <1>4 DEF Handle, Refuse, DrawsFor
<1>5. CASE BeginAtas
  BY <1>5 DEF BeginAtas, PickPayer
<1>6. CASE Restart
  BY <1>6 DEF Restart
<1>7. CASE UNCHANGED vars
  BY <1>7 DEF vars
<1> QED
  BY <1>1, <1>2, <1>3, <1>4, <1>5, <1>6, <1>7 DEF Next

(* The scenario never changes, and a configuration that is used is loaded. *)
LEMMA ConfigStep ==
  ASSUME KoraInv, [Next]_vars PROVE scen' = scen /\ ConfigLoaded'
<1> USE DEF Case
<1>1. scen \in DOMAIN Scenarios /\ ConfigLoaded
  BY DEF KoraInv, Known
<1>2. CASE \E c \in Case.commands : Launch(c)
  BY <1>2 DEF Launch, ConfigLoaded
<1>3. CASE Load
  BY <1>3 DEF Load, GoTo, ConfigLoaded
<1>4. ASSUME NEW redis \in BOOLEAN,
             \/ Validate(redis) \/ InitCache(redis) \/ InitUsage(redis)
             \/ \E down \in BOOLEAN : ValidateWithRpc(redis, down)
      PROVE  scen' = scen /\ ConfigLoaded'
  BY <1>1, <1>4
     DEF Validate, InitCache, InitUsage, ValidateWithRpc, Report, AtStage, GoTo, ConfigLoaded
<1>5. CASE InitSigners \/ InitSignersFails \/ SkipSigners
  BY <1>1, <1>5 DEF InitSigners, InitSignersFails, SkipSigners, AtStage, GoTo, ConfigLoaded
<1>6. ASSUME NEW bound \in BOOLEAN, StartMetrics(bound) \/ Bind(bound)
      PROVE  scen' = scen /\ ConfigLoaded'
  BY <1>1, <1>6 DEF StartMetrics, Bind, AtStage, GoTo, ConfigLoaded
<1>7. ASSUME NEW q \in Case.requests, TurnAway(q) \/ Handle(q) \/ Refuse(q)
      PROVE  scen' = scen /\ stage' = stage
  BY <1>7 DEF TurnAway, Handle, Refuse, Responds
<1>8. ASSUME \/ \E k \in Case.read, forced \in BOOLEAN : RequestReads(k, forced)
             \/ RequestTakes \/ TrackerTicks \/ TrackerReads \/ TrackerTakes
             \/ StepAtas \/ ReaderSteps \/ World \/ UNCHANGED vars
      PROVE  scen' = scen /\ stage' = stage
  BY <1>8 DEF RequestReads, RequestTakes, TrackerTicks, TrackerReads, TrackerTakes, Counts,
              StepAtas, ReaderSteps, World, Moves, vars, cliVars
<1>9. CASE BeginAtas \/ BeginAtasFails \/ EndAtas
  BY <1>1, <1>9 DEF BeginAtas, BeginAtasFails, EndAtas, AtStage, GoTo, ConfigLoaded
<1>10. CASE CtrlC \/ Restart
  BY <1>1, <1>10 DEF CtrlC, Restart, AtStage, GoTo, ConfigLoaded
<1> QED
  BY <1>1, <1>2, <1>3, <1>4, <1>5, <1>6, <1>7, <1>8, <1>9, <1>10 DEF Next, ConfigLoaded

(* The pool stays fair, and holds the configuration's signers.             *)
LEMMA PoolStep ==
  ASSUME KoraInv, [Next]_vars PROVE PoolInv' /\ SignersKnown'
<1>1. scen \in DOMAIN Scenarios /\ SignersKnown /\ PoolInv /\ scen' = scen
  BY ConfigStep DEF KoraInv, Known
<1>2. Case' = Case /\ OwnersOf(Case)' = OwnersOf(Case)
  BY <1>1 DEF Case
<1>3. CASE UNCHANGED poolVars
  BY <1>1, <1>2, <1>3, PoolUnchangedInv DEF SignersKnown, poolVars
<1>4. CASE InitSigners
  <2> DEFINE signers == Case.signers.signers
  <2>1. /\ Case.signers.given /\ FromConfig(signers, Case.signers.strategy)
    BY <1>4 DEF InitSigners, CanInitSigners, SignersFile
  <2>2. /\ signers \in Seq(Range(signers))
        /\ \A s \in Range(signers) : s.key \in Keys /\ s.key \in OwnersOf(Case)
    BY <1>1, <2>1, ScenarioKnown DEF SignerAssumed
  <2>3. PoolInv'
    BY <2>1, <2>2, FromConfigInv
  <2>4. \A i \in DOMAIN signers : signers[i].key \in Keys /\ signers[i].key \in OwnersOf(Case)
    BY <2>2 DEF Range
  <2>5. \A i \in DOMAIN pool' : i \in DOMAIN signers /\ pool'[i].key = signers[i].key
    BY <2>1 DEF FromConfig
  <2> QED
    BY <1>2, <2>3, <2>4, <2>5 DEF SignersKnown
<1>5. ASSUME NEW i \in DOMAIN pool, Draw(i) PROVE PoolInv' /\ SignersKnown'
  BY <1>1, <1>2, <1>5, DrawInv DEF Draw, SignersKnown
<1>6. CASE PoolLost
  BY <1>6, PoolLostInv DEF PoolLost, SignersKnown
<1> QED
  BY <1>3, <1>4, <1>5, <1>6, PoolFrame

-----------------------------------------------------------------------------
(* Only these steps are the job's.                                         *)
LEMMA JobFrame ==
  ASSUME [Next]_vars
  PROVE  \/ job' = job
         \/ \E redis, down \in BOOLEAN : ValidateWithRpc(redis, down)
         \/ BeginAtas \/ StepAtas \/ Restart
<1>1. ASSUME \/ \E c \in Case.commands : Launch(c)
             \/ Load \/ InitSignersFails \/ SkipSigners
             \/ \E redis \in BOOLEAN : Validate(redis) \/ InitUsage(redis)
             \/ \E bound \in BOOLEAN : StartMetrics(bound) \/ Bind(bound)
             \/ \E q \in Case.requests : TurnAway(q)
             \/ TrackerTicks \/ BeginAtasFails \/ EndAtas
      PROVE  job' = job
  BY <1>1 DEF Launch, Load, InitSignersFails, SkipSigners, Validate, InitUsage,
              StartMetrics, Bind, TurnAway, TrackerTicks, BeginAtasFails, EndAtas, Alone,
              ataVars
<1>2. ASSUME \/ \E redis \in BOOLEAN : InitCache(redis)
             \/ \E k \in Case.read, forced \in BOOLEAN : RequestReads(k, forced)
             \/ \E q \in Case.requests : Handle(q) \/ Refuse(q)
             \/ InitSigners \/ RequestTakes \/ TrackerReads \/ TrackerTakes
             \/ ReaderSteps \/ CtrlC \/ World \/ UNCHANGED vars
      PROVE  job' = job
  BY <1>2 DEF InitCache, RequestReads, Handle, Refuse, InitSigners, RequestTakes,
              TrackerReads, TrackerTakes, ReaderSteps, CtrlC, World, Moves, vars, ataVars
<1> QED
  BY <1>1, <1>2 DEF Next

(* A step of the job: it takes the addresses one by one, and for each the  *)
(* mints.                                                                  *)
LEMMA JobStepKnown ==
  ASSUME JobKnown, JobStep(Conf)
  PROVE  /\ job' \in JobType
         /\ job'.stage \in {"look", "ata", "mint", "create"} => job'.left # <<>>
         /\ job'.stage \in {"ata", "mint"} => job'.mint \in MintsOf(Conf)
<1> DEFINE Goal == /\ job' \in JobType
                   /\ job'.stage \in {"look", "ata", "mint", "create"} => job'.left # <<>>
                   /\ job'.stage \in {"ata", "mint"} => job'.mint \in MintsOf(Conf)
<1>1. /\ job \in JobType
      /\ job.stage \in {"look", "ata", "mint", "create"} => job.left # <<>>
      /\ job.stage \in {"ata", "mint"} => job.mint \in MintsOf(Conf)
  BY DEF JobKnown
<1>ended. <<>> \in Seq(Plannable) /\ \A how \in {"done", "failed"} :
        [job EXCEPT !.stage = how, !.plan = <<>>] \in JobType
  <2>1. <<>> \in Seq(Plannable)
    OBVIOUS
  <2> QED
    BY <1>1, <2>1 DEF JobType
<1>owner. ASSUME job.left # <<>>
      PROVE  Tail(job.left) \in Seq(OwnersOf(Case)) /\ Owner \in OwnersOf(Case)
  <2>1. job.left \in Seq(OwnersOf(Case))
    BY <1>1 DEF JobType
  <2> QED
    BY <1>owner, <2>1 DEF Owner
<1>2. CASE NextAddress(Conf)
  BY <1>1, <1>2 DEF NextAddress, JobGoes, JobType, At
<1>3. CASE AllDone
  <2>1. job' = [job EXCEPT !.stage = "done", !.plan = <<>>]
    BY <1>3 DEF AllDone, JobEnds, JobGoes
  <2> QED
    BY <1>1, <1>ended, <2>1 DEF JobType
<1>4. ASSUME NEW m \in job.mints, Look(m) PROVE Goal
  BY <1>1, <1>4 DEF Look, JobGoes, JobType, At
<1>5. CASE Exists
  BY <1>1, <1>5 DEF Exists, JobGoes, JobType, At
<1>6. CASE Missing
  BY <1>1, <1>6 DEF Missing, JobGoes, JobType, At
<1>7. CASE Planned
  <2>1. Created(Owner, reader[Admin].value, job.mint) \in Plannable
    <3>1. Owner \in OwnersOf(Case) /\ job.mint \in MintsOf(Conf)
      BY <1>1, <1>7, <1>owner DEF Planned, At
    <3>2. \A o \in OwnersOf(Case), m \in MintsOf(Conf) :
            Ata(o, m) \in Plannable /\ Ata2022(o, m) \in Plannable
      BY DEF Plannable, TokenAccounts, Conf
    <3>3. \A o, m, held : Created(o, held, m) \in {Ata(o, m), Ata2022(o, m)}
      BY DEF Created
    <3> QED
      BY <3>1, <3>2, <3>3
  <2> DEFINE created == Created(Owner, reader[Admin].value, job.mint)
  <2>2. Append(job.plan, created) \in Seq(Plannable)
    BY <1>1, <2>1 DEF JobType
  <2>3. job' = [job EXCEPT !.stage = "look", !.mint = NoKey,
                           !.plan = Append(job.plan, created)]
    BY <1>7 DEF Planned, JobGoes
  <2>4. job.left # <<>>
    BY <1>1, <1>7 DEF Planned, At
  <2> HIDE DEF created
  <2> QED
    BY <1>1, <2>2, <2>3, <2>4 DEF JobType
<1>8. CASE NoProgram
  <2>1. job' = [job EXCEPT !.stage = "failed", !.plan = <<>>]
    BY <1>8 DEF NoProgram, JobEnds, JobGoes
  <2> QED
    BY <1>1, <1>ended, <2>1 DEF JobType
<1>9. CASE AllExist
  <2>1. job' = [job EXCEPT !.stage = "next", !.left = Tail(job.left)] /\ job.left # <<>>
    BY <1>1, <1>9 DEF AllExist, JobGoes, At
  <2> QED
    BY <1>1, <1>owner, <2>1 DEF JobType
<1>10. CASE SomeMissing
  <2>1. CASE job.creates /\ job.chunk > 0
    <3>1. job' = [job EXCEPT !.stage = "create"] /\ job.left # <<>>
      BY <1>1, <1>10, <2>1 DEF SomeMissing, JobGoes, At
    <3> QED
      BY <1>1, <3>1 DEF JobType
  <2>2. CASE ~(job.creates /\ job.chunk > 0)
    <3>1. job' = [job EXCEPT !.stage = "failed", !.plan = <<>>]
      BY <1>10, <2>2 DEF SomeMissing, JobEnds, JobGoes
    <3> QED
      BY <1>1, <1>ended, <3>1 DEF JobType
  <2> QED
    BY <2>1, <2>2
<1>11. CASE ChunkConfirmed
  <2>1. ChunkLength \in 0..Len(job.plan) /\ Len(job.plan) \in Nat
    BY <1>1 DEF ChunkLength, JobType
  <2>2. SubSeq(job.plan, ChunkLength + 1, Len(job.plan)) \in Seq(Plannable)
    BY <1>1, <2>1 DEF JobType
  <2>3. Tail(job.left) \in Seq(OwnersOf(Case)) /\ job.left # <<>>
    BY <1>1, <1>11, <1>owner DEF ChunkConfirmed, At
  <2> QED
    BY <1>1, <1>11, <1>ended, <2>2, <2>3 DEF ChunkConfirmed, AfterChunk, JobType, At
<1>12. CASE ChunkFails
  <2>1. job' = [job EXCEPT !.stage = "failed", !.plan = <<>>]
    BY <1>12 DEF ChunkFails
  <2> QED
    BY <1>1, <1>ended, <2>1 DEF JobType
<1> QED
  BY <1>2, <1>3, <1>4, <1>5, <1>6, <1>7, <1>8, <1>9, <1>10, <1>11, <1>12 DEF JobStep

(* The token accounts' job only knows the configuration's owners and mints.*)
LEMMA JobKnownStep ==
  ASSUME KoraInv, [Next]_vars PROVE JobKnown'
<1>1. /\ scen \in DOMAIN Scenarios /\ ConfigLoaded /\ SignersKnown /\ JobKnown
      /\ scen' = scen /\ PoolInv
  BY ConfigStep DEF KoraInv, Known
<1>2. Case' = Case /\ Conf' = Conf /\ OwnersOf(Case)' = OwnersOf(Case)
      /\ MintsOf(Conf)' = MintsOf(Conf)
  BY <1>1 DEF Case, Conf
<1> DEFINE Owners == OwnersOf(Case)
           TheMints == MintsOf(Conf)
<1>3. ASSUME NEW addresses \in Seq(Owners), NEW creates \in BOOLEAN, NEW chunk \in Nat,
             Begins(addresses, creates, chunk)
      PROVE  JobKnown'
  <2>1. NoJob \in JobType
    BY DEF NoJob, JobType
  <2>2. job' \in JobType
    BY <1>3, <2>1 DEF Begins, JobType
  <2>3. job'.stage = "next"
    BY <1>3, <2>1 DEF Begins, JobType
  <2> QED
    BY <1>2, <2>2, <2>3 DEF JobKnown, JobType, Plannable
<1>4. ASSUME NEW redis, NEW down, ValidateWithRpc(redis, down) PROVE JobKnown'
  <2>1. CASE Conf.paymentAddress \in PublicKeys
    <3>1. Conf.paymentAddress \in Owners
      BY <2>1 DEF OwnersOf, Conf
    <3>2. Begins(<<Conf.paymentAddress>>, FALSE, 0)
      BY <1>4, <2>1 DEF ValidateWithRpc
    <3>3. <<Conf.paymentAddress>> \in Seq(Owners)
      BY <3>1
    <3> QED
      BY <1>3, <3>2, <3>3
  <2>2. CASE Conf.paymentAddress \notin PublicKeys
    BY <1>1, <1>2, <1>4, <2>2 DEF ValidateWithRpc, ataVars, JobKnown, JobType, Plannable
  <2> QED
    BY <2>1, <2>2
<1>5. CASE BeginAtas
  <2>1. Targets \in Seq(Owners) /\ Case.chunk \in Nat
    <3>1. CASE Conf.paymentAddress # Nowhere
      <4>1. Conf.paymentAddress \in Owners
        BY <1>5, <3>1 DEF BeginAtas, OwnersOf, Conf
      <4> QED
        BY <1>1, <3>1, <4>1, ScenarioKnown DEF Targets
    <3>2. CASE Conf.paymentAddress = Nowhere
      <4>1. DOMAIN pool = 1..Len(pool) /\ Len(pool) \in Nat
        BY <1>1 DEF PoolInv, PoolShape, Size
      <4> QED
        BY <1>1, <3>2, <4>1, ScenarioKnown DEF Targets, SignersKnown
    <3> QED
      BY <3>1, <3>2
  <2> QED
    BY <1>3, <1>5, <2>1 DEF BeginAtas
<1>6. CASE StepAtas
  <2>1. JobStep(Conf)
    BY <1>6 DEF StepAtas
  <2> QED
    BY <1>1, <1>2, <2>1, JobStepKnown DEF JobKnown, JobType, Plannable
<1>7. CASE Restart
  BY <1>7, NoJobKnownNext DEF Restart, JobLost
<1>8. ASSUME job' = job PROVE JobKnown'
  BY <1>1, <1>2, <1>8 DEF JobKnown, JobType, Plannable
<1> QED
  BY <1>4, <1>5, <1>6, <1>7, <1>8, JobFrame

-----------------------------------------------------------------------------
(* A chunk that lands opens accounts, now.                                 *)
LEMMA LandInv ==
  ASSUME CacheInv, Land PROVE CacheInv'
<1>1. /\ account \in [Keys -> Values] /\ since \in [Keys -> [Values -> 0..LongAgo]]
      /\ \A k \in Keys : since[k][account[k]] = 0
      /\ LongAgo \in Nat /\ "open" \in Values
  BY BoundsTyped, ScenariosAssumption DEF CacheInv, CacheTypeOK, HeldNow
<1>2. account' \in [Keys -> Values]
  BY <1>1 DEF Land
<1>3. ASSUME NEW k \in Keys
      PROVE  /\ since'[k] \in [Values -> 0..LongAgo] /\ since'[k][account'[k]] = 0
             /\ \A v \in Values : since'[k][v] <= since[k][v]
  <2>1. since[k] \in [Values -> 0..LongAgo]
    BY <1>1
  <2>2. CASE k \in Chunk
    <3>1. since'[k] = [since[k] EXCEPT !["open"] = 0] /\ account'[k] = "open"
      BY <2>2 DEF Land
    <3> QED
      BY <1>1, <2>1, <3>1
  <2>3. CASE k \notin Chunk
    <3>1. since'[k] = since[k] /\ account'[k] = account[k]
      BY <2>3 DEF Land
    <3>2. \A v \in Values : since[k][v] \in 0..LongAgo
      BY <2>1
    <3> QED
      BY <1>1, <2>1, <3>1, <3>2
  <2> QED
    BY <2>2, <2>3
<1>4. since' \in [Keys -> [Values -> 0..LongAgo]]
  <2>1. since' = [k \in Keys |-> since'[k]]
    BY DEF Land
  <2> QED
    BY <1>3, <2>1
<1> QED
  BY <1>2, <1>3, <1>4, AccountsChangeInv DEF Land

(* A caller that has taken its answer.                                     *)
LEMMA RestsInv ==
  ASSUME CacheInv, NEW r \in Readers, Rests(r), UNCHANGED <<caching, account, since, entry>>
  PROVE  CacheInv'
BY CallerTyped, ReaderGoesInv DEF Rests, ReaderGoes

(* What the job does to the cache: it asks for the configuration's         *)
(* accounts and creates them.                                              *)
LEMMA JobStepCache ==
  ASSUME KoraInv, AtStage("atas"), JobStep(Conf) PROVE CacheInv'
<1>1. /\ scen \in DOMAIN Scenarios /\ ConfigLoaded /\ JobKnown /\ CacheInv
      /\ Admin \in Readers
  BY ScenariosAssumption DEF KoraInv, Known
<1>2. CanLoad(Case.file)
  BY <1>1 DEF ConfigLoaded, AtStage
<1>3. \A m \in MintsOf(Conf) : m \in Keys /\ \A o \in OwnersOf(Case) : Ata(o, m) \in Keys
  BY <1>1, <1>2, ScenarioKnown DEF Plannable, TokenAccounts, Conf
<1>4. CASE NextAddress(Conf) \/ AllDone \/ AllExist \/ SomeMissing
  BY <1>1, <1>4, CacheUnchangedInv DEF NextAddress, AllDone, AllExist, SomeMissing
<1>5. ASSUME NEW m \in job.mints, Look(m) PROVE CacheInv'
  <2>1. m \in MintsOf(Conf) /\ job.left \in Seq(OwnersOf(Case)) /\ job.left # <<>>
    BY <1>1, <1>5 DEF JobKnown, JobType, Look, At
  <2>2. Owner \in OwnersOf(Case)
    BY <2>1 DEF Owner
  <2>3. Ata(Owner, m) \in Keys
    BY <1>3, <2>1, <2>2
  <2> QED
    BY <1>1, <1>5, <2>3, AskingInv DEF Look, GetAccount
<1>6. CASE Missing
  <2>1. job.mint \in Keys
    BY <1>1, <1>3, <1>6 DEF JobKnown, Missing, At
  <2> QED
    BY <1>1, <1>6, <2>1, AskingInv DEF Missing
<1>7. CASE Exists \/ Planned \/ NoProgram
  BY <1>1, <1>7, RestsInv DEF Exists, Planned, NoProgram
<1>8. CASE ChunkConfirmed \/ ChunkFails
  BY <1>1, <1>8, LandInv, CacheUnchangedInv DEF ChunkConfirmed, ChunkFails
<1> QED
  BY <1>4, <1>5, <1>6, <1>7, <1>8 DEF JobStep

(* Every step of the process keeps the cache's invariant.                  *)
LEMMA CacheStep ==
  ASSUME KoraInv, [Next]_vars PROVE CacheInv'
<1>1. /\ scen \in DOMAIN Scenarios /\ SignersKnown /\ CacheInv
      /\ Tracker \in Readers /\ Request \in Readers
  BY ScenariosAssumption DEF KoraInv, Known
<1>2. Case.read \subseteq Keys /\ Case.moves \subseteq Keys \X Values
  BY <1>1, ScenarioKnown
<1>3. ASSUME \/ \E c \in Case.commands : Launch(c)
             \/ Load \/ InitSignersFails \/ SkipSigners
             \/ \E redis \in BOOLEAN : Validate(redis) \/ InitUsage(redis)
             \/ \E bound \in BOOLEAN : StartMetrics(bound) \/ Bind(bound)
             \/ \E q \in Case.requests : TurnAway(q)
             \/ TrackerTicks \/ BeginAtasFails \/ EndAtas
      PROVE  UNCHANGED cacheVars
  BY <1>3 DEF Launch, Load, InitSignersFails, SkipSigners, Validate, InitUsage,
              StartMetrics, Bind, TurnAway, TrackerTicks, BeginAtasFails, EndAtas, Alone
<1>4. ASSUME \/ \E redis, down \in BOOLEAN : ValidateWithRpc(redis, down)
             \/ \E q \in Case.requests : Handle(q) \/ Refuse(q)
             \/ InitSigners \/ BeginAtas \/ UNCHANGED vars
      PROVE  UNCHANGED cacheVars
  BY <1>4 DEF ValidateWithRpc, Handle, Refuse, InitSigners, BeginAtas, vars
<1>5. ASSUME NEW redis \in BOOLEAN, InitCache(redis) PROVE CacheInv'
  BY <1>1, <1>5, CachingInv DEF InitCache
<1>6. ASSUME NEW k \in Case.read, NEW forced \in BOOLEAN, RequestReads(k, forced)
      PROVE  CacheInv'
  BY <1>1, <1>2, <1>6, AskingInv DEF RequestReads, GetAccount
<1>7. CASE RequestTakes \/ TrackerTakes
  BY <1>1, <1>7, RestsInv DEF RequestTakes, TrackerTakes
<1>8. CASE TrackerReads
  BY <1>1, <1>8, AskingInv DEF TrackerReads, GetAccount, SignersKnown
<1>9. CASE StepAtas
  BY <1>9, JobStepCache DEF StepAtas
<1>10. CASE ReaderSteps
  BY <1>1, <1>10, CacheStepsInv DEF ReaderSteps
<1>11. CASE World
  <2>1. ASSUME NEW m \in Case.moves, Moves(m[1], m[2]) PROVE CacheInv'
    <3>1. m[1] \in Keys /\ m[2] \in Values
      BY <1>2
    <3> QED
      BY <1>1, <2>1, <3>1, AccountBecomesInv DEF Moves
  <2> QED
    BY <1>1, <1>11, <2>1, EvictInv, SecondInv DEF World
<1>12. CASE CtrlC \/ Restart
  <2>1. caching \in BOOLEAN
    BY <1>1 DEF CacheInv, CacheTypeOK
  <2> QED
    BY <1>1, <1>12, <2>1, AllRestInv DEF CtrlC, Restart
<1> QED
  BY <1>1, <1>3, <1>4, <1>5, <1>6, <1>7, <1>8, <1>9, <1>10, <1>11, <1>12,
     CacheUnchangedInv DEF Next

-----------------------------------------------------------------------------
(***************************************************************************)
(* What the process says of itself is true.  The job's part follows what   *)
(* an answer shows: at the address of a token account the cache only knows *)
(* that one, so an account that is answered was open within the promised   *)
(* time, and opened has it.                                                *)
(***************************************************************************)
\* As far as the cache remembers, a token account is all its address held.
OnlyTokenAccounts ==
  CanLoad(Case.file) =>
    \A k \in Plannable : \A v \in Values \ {Absent, "open"} : since[k][v] = LongAgo

\* Once a job has begun, opened has what the cache may say is open.
OpenedLately ==
  /\ opened \subseteq Keys
  /\ ~At("none") => \A k \in Keys : since[k]["open"] <= Promised => k \in opened

Found(o, m) == {Ata(o, m), Ata2022(o, m)} \cap opened # {}

AllFound(o) == \A m \in MintsOf(Conf) : Found(o, m)

InPlan(o, m) == \E i \in 1..Len(job.plan) : job.plan[i] \in {Ata(o, m), Ata2022(o, m)}

\* An address that is not left is done; of the first that is left, a mint is
\* still to be looked for, or found, or planned.
JobProgress ==
  /\ \A i \in DOMAIN job.asked :
       AllFound(job.asked[i]) \/ \E j \in DOMAIN job.left : job.left[j] = job.asked[i]
  /\ At("done") => job.left = <<>>
  /\ At("create") => job.mints = {}
  /\ job.stage \in {"look", "ata", "mint", "create"} =>
       \A m \in MintsOf(Conf) :
         \/ m \in job.mints \/ Found(Owner, m) \/ InPlan(Owner, m)
         \/ job.stage \in {"ata", "mint"} /\ m = job.mint

AdminAsks ==
  At("ata") => Stage(Admin) = "rest" \/ reader[Admin].key = Ata(Owner, job.mint)

\* How the process got to where it is.
Served == {"usage", "metrics", "bind", "serving"}

Course ==
  /\ stage \in Stages /\ command \in {"none"} \cup Case.commands
  /\ reported \in {"nothing", "valid", "errors"}
  /\ stage \in Served => command = "start"
  /\ stage = "validate" => command # "initialize-atas"
  /\ stage = "exited" /\ command = "initialize-atas" => At("done")
  /\ stage \in {"signers", "cache"} \cup Served /\ command = "start" =>
       \E redis \in BOOLEAN : Errors(Conf, SignersFile, Case.env, redis) = {}
  /\ stage \in {"cache"} \cup Served => Case.skipSigner \/ HasSigners(pool)

Responses ==
  {"none", "ok", "method not allowed", "unauthorized", "refused", "misconfigured"}

PoolTyped ==
  /\ \A i \in DOMAIN pool : pool[i].weight \in 0..(WeightSize - 1)
  /\ strategy \in Strategies /\ drawn \in 0..MaxDraws
  /\ \A i \in DOMAIN pool : uses[i] <= drawn
  /\ balances \subseteq DOMAIN pool
  /\ stage \in {"off", "load", "validate", "signers"} => balances = {}

ReportInv ==
  /\ OnlyTokenAccounts /\ OpenedLately /\ JobProgress /\ AdminAsks
  /\ Course /\ PoolTyped
  /\ response \in Responses /\ ServedIsUsable

-----------------------------------------------------------------------------
(* What a step does to the accounts, and to what is known to have been     *)
(* open.                                                                   *)
LEMMA AccountsFrame ==
  ASSUME [Next]_vars
  PROVE  \/ UNCHANGED <<since, opened, job>>
         \/ since' = since /\ \E a, creates, n : Begins(a, creates, n)
         \/ since' = since /\ JobLost
         \/ StepAtas
         \/ \E m \in Case.moves : Moves(m[1], m[2])
         \/ Second /\ UNCHANGED <<opened, job>>
<1> USE DEF ataVars, cacheVars
<1>1. ASSUME \/ \E c \in Case.commands : Launch(c)
             \/ Load \/ InitSignersFails \/ SkipSigners
             \/ \E redis \in BOOLEAN : Validate(redis) \/ InitUsage(redis)
             \/ \E bound \in BOOLEAN : StartMetrics(bound) \/ Bind(bound)
             \/ \E q \in Case.requests : TurnAway(q)
             \/ TrackerTicks \/ BeginAtasFails \/ EndAtas
      PROVE  UNCHANGED <<since, opened, job>>
  BY <1>1 DEF Launch, Load, InitSignersFails, SkipSigners, Validate, InitUsage,
              StartMetrics, Bind, TurnAway, TrackerTicks, BeginAtasFails, EndAtas, Alone
<1>2. ASSUME \/ \E redis \in BOOLEAN : InitCache(redis)
             \/ \E q \in Case.requests : Handle(q) \/ Refuse(q)
             \/ \E k \in Case.read, forced \in BOOLEAN : RequestReads(k, forced)
             \/ InitSigners \/ RequestTakes \/ TrackerReads \/ TrackerTakes
             \/ CtrlC \/ UNCHANGED vars
      PROVE  UNCHANGED <<since, opened, job>>
  BY <1>2 DEF InitCache, Handle, Refuse, RequestReads, GetAccount, ReaderGoes, InitSigners,
              RequestTakes, TrackerReads, TrackerTakes, CtrlC, vars
<1>3. ASSUME NEW redis, NEW down, ValidateWithRpc(redis, down)
      PROVE  \/ UNCHANGED <<since, opened, job>>
             \/ since' = since /\ \E a, creates, n : Begins(a, creates, n)
  BY <1>3 DEF ValidateWithRpc
<1>4. CASE BeginAtas
  BY <1>4 DEF BeginAtas
<1>5. CASE Restart
  BY <1>5 DEF Restart
<1>6. CASE ReaderSteps
  BY <1>6 DEF ReaderSteps, CacheSteps, Lookup, LookupFails, NodeReads, NodeAnswers,
              NodeFails, Store, StoreFails, ReaderGoes
<1>7. CASE World
  BY <1>7 DEF World, Evict
<1> QED
  BY <1>1, <1>2, <1>3, <1>4, <1>5, <1>6, <1>7 DEF Next

(* What is known to have been open stays known, as long as the job lasts.  *)
LEMMA JobLands ==
  ASSUME JobStep(Conf)
  PROVE  ~At("none") /\ (UNCHANGED <<since, opened>> \/ (At("create") /\ Land))
<1> DEFINE Goal == ~At("none") /\ (UNCHANGED <<since, opened>> \/ (At("create") /\ Land))
<1>1. CASE NextAddress(Conf) \/ AllDone \/ AllExist \/ SomeMissing
  BY <1>1 DEF NextAddress, AllDone, AllExist, SomeMissing, JobGoes, JobEnds, cacheVars, At
<1>2. CASE (\E m \in job.mints : Look(m)) \/ Missing
  BY <1>2 DEF Look, Missing, GetAccount, ReaderGoes, JobGoes, At
<1>3. CASE Exists \/ Planned \/ NoProgram
  BY <1>3 DEF Exists, Planned, NoProgram, JobGoes, JobEnds, At
<1>4. CASE ChunkConfirmed \/ ChunkFails
  BY <1>4 DEF ChunkConfirmed, ChunkFails, cacheVars, At
<1> QED
  BY <1>1, <1>2, <1>3, <1>4 DEF JobStep

(* A chunk is part of what the job may create.                             *)
LEMMA ChunkPlannable ==
  ASSUME JobKnown PROVE Chunk \subseteq Plannable
<1>1. job.plan \in Seq(Plannable) /\ ChunkLength <= Len(job.plan) /\ Len(job.plan) \in Nat
      /\ job.chunk \in Nat
  BY DEF JobKnown, JobType, ChunkLength
<1> QED
  BY <1>1 DEF Chunk, ChunkLength

(* The accounts of a scenario are what they are said to be.                *)
LEMMA AccountsStep ==
  ASSUME KoraInv, OnlyTokenAccounts, OpenedLately, [Next]_vars
  PROVE  OnlyTokenAccounts' /\ OpenedLately'
<1>1. /\ scen \in DOMAIN Scenarios /\ scen' = scen /\ ConfigLoaded /\ JobKnown
      /\ "open" \in Values
  BY ConfigStep, ScenariosAssumption DEF KoraInv, Known
<1>2. Case' = Case /\ Plannable' = Plannable
  BY <1>1 DEF Case, Plannable
<1>3. /\ TTL \in Nat /\ MaxDelay \in Nat /\ LongAgo \in Nat /\ LongAgo > 0
      /\ Promised \in Nat /\ Promised < LongAgo
  BY CacheAssumption DEF LongAgo, Promised
<1>4. /\ account \in [Keys -> Values] /\ since \in [Keys -> [Values -> 0..LongAgo]]
      /\ \A k \in Keys : since[k][account[k]] = 0
  BY DEF KoraInv, CacheInv, CacheTypeOK, HeldNow
<1>5. ASSUME NEW k \in Keys, NEW v \in Values PROVE since[k][v] \in 0..LongAgo
  <2>1. since[k] \in [Values -> 0..LongAgo]
    BY <1>4
  <2> QED
    BY <2>1
<1>6. CASE UNCHANGED <<since, opened, job>>
  BY <1>2, <1>6 DEF OnlyTokenAccounts, OpenedLately, At
<1>7. ASSUME since' = since, NEW a, NEW creates, NEW n, Begins(a, creates, n)
      PROVE  OnlyTokenAccounts' /\ OpenedLately'
  BY <1>2, <1>7 DEF Begins, OpenLately, OnlyTokenAccounts, OpenedLately
<1>8. CASE since' = since /\ JobLost
  BY <1>2, <1>8 DEF JobLost, NoJob, OnlyTokenAccounts, OpenedLately, At
<1>9. CASE StepAtas
  <2>1. JobStep(Conf) /\ CanLoad(Case.file)
    BY <1>1, <1>9 DEF StepAtas, ConfigLoaded, AtStage
  <2>2. Chunk \subseteq Plannable /\ Plannable \subseteq Keys /\ ~At("none")
    BY <1>1, <2>1, ChunkPlannable, ScenarioKnown, JobLands
  <2>3. CASE UNCHANGED <<since, opened>>
    BY <1>2, <2>2, <2>3 DEF OnlyTokenAccounts, OpenedLately
  <2>4. CASE Land
    <3>1. ASSUME NEW k \in Keys, NEW v \in Values
          PROVE  /\ v # "open" => since'[k][v] = since[k][v]
                 /\ k \notin Chunk => since'[k][v] = since[k][v]
      <4>1. since[k] \in [Values -> 0..LongAgo]
        BY <1>4
      <4>2. since'[k] = IF k \in Chunk THEN [since[k] EXCEPT !["open"] = 0] ELSE since[k]
        BY <2>4 DEF Land
      <4> QED
        BY <4>1, <4>2
    <3>2. OnlyTokenAccounts'
      BY <1>2, <2>2, <3>1 DEF OnlyTokenAccounts
    <3>3. opened' = opened \cup Chunk
      BY <2>4 DEF Land
    <3>4. OpenedLately'
      BY <1>1, <2>2, <3>1, <3>3 DEF OpenedLately
    <3> QED
      BY <3>2, <3>4
  <2> QED
    BY <2>1, <2>3, <2>4, JobLands
<1>10. ASSUME NEW m \in Case.moves, Moves(m[1], m[2])
       PROVE  OnlyTokenAccounts' /\ OpenedLately'
  <2> DEFINE k == m[1]
             v == m[2]
  <2>1. k \in Keys /\ v \in Values /\ <<k, v>> \in Case.moves
    BY <1>1, ScenarioKnown
  <2>2. since' = [since EXCEPT ![k] = [since[k] EXCEPT ![v] = 0]]
    BY <1>4, <1>10, <2>1 DEF Moves, AccountBecomes
  <2>3. job' = job /\ opened' = IF v = "open" /\ ~At("none") THEN opened \cup {k} ELSE opened
    BY <1>10 DEF Moves
  <2> HIDE DEF k, v
  <2>4. \A h \in Keys, u \in Values :
          since'[h][u] = IF h = k /\ u = v THEN 0 ELSE since[h][u]
    BY <1>4, <2>1, <2>2
  <2>5. OnlyTokenAccounts'
    <3>1. CanLoad(Case.file) => Plannable \subseteq Keys
      BY <1>1, ScenarioKnown
    <3>2. CanLoad(Case.file) /\ k \in Plannable => v \in {Absent, "open"}
      BY <1>1, <2>1, ScenarioKnown
    <3> QED
      BY <1>2, <2>4, <3>1, <3>2 DEF OnlyTokenAccounts
  <2>6. OpenedLately'
    BY <1>1, <2>1, <2>3, <2>4 DEF OpenedLately, At
  <2> QED
    BY <2>5, <2>6
<1>11. CASE Second /\ UNCHANGED <<opened, job>>
  <2>1. \A k \in Keys, v \in Values :
          since'[k][v] = IF v = account[k] THEN 0 ELSE Older(since[k][v])
    BY <1>11 DEF Second
  <2>2. OnlyTokenAccounts'
    <3> SUFFICES ASSUME CanLoad(Case.file), NEW k \in Plannable,
                        NEW v \in Values \ {Absent, "open"}
                 PROVE  since'[k][v] = LongAgo
      BY <1>2 DEF OnlyTokenAccounts
    <3>1. k \in Keys /\ since[k][v] = LongAgo
      BY <1>1, ScenarioKnown DEF OnlyTokenAccounts
    <3>2. v # account[k]
      BY <1>3, <1>4, <3>1
    <3>3. Older(LongAgo) = LongAgo
      BY <1>3 DEF Older
    <3> QED
      BY <2>1, <3>1, <3>2, <3>3
  <2>3. ASSUME NEW k \in Keys, ~At("none"), since'[k]["open"] <= Promised
        PROVE  k \in opened
    <3>1. since[k]["open"] <= Promised
      BY <1>1, <1>3, <1>4, <1>5, <2>1, <2>3 DEF Older
    <3> QED
      BY <2>3, <3>1 DEF OpenedLately
  <2>4. OpenedLately'
    BY <1>11, <2>3 DEF OpenedLately, At
  <2> QED
    BY <2>2, <2>4
<1> QED
  BY <1>6, <1>7, <1>8, <1>9, <1>10, <1>11, AccountsFrame

-----------------------------------------------------------------------------
(* What was found stays found, as long as the job lasts.                   *)
LEMMA OpenedGrows ==
  ASSUME [Next]_vars, scen' = scen
  PROVE  \/ job' = job /\ opened \subseteq opened'
         \/ \E a, creates, n : Begins(a, creates, n)
         \/ JobLost
         \/ StepAtas
BY AccountsFrame DEF Moves

(* What the job's caller does outside of the job: it goes on with the same *)
(* account, or rests.                                                      *)
LEMMA AdminFrame ==
  ASSUME KoraInv, [Next]_vars
  PROVE  \/ StepAtas
         \/ reader'[Admin].stage = "rest"
         \/ reader'[Admin].key = reader[Admin].key /\ Stage(Admin) # "rest"
<1> DEFINE Goal == \/ reader'[Admin].stage = "rest"
                   \/ reader'[Admin].key = reader[Admin].key /\ Stage(Admin) # "rest"
<1>1. /\ Admin \in Readers /\ Tracker \in Readers /\ Request \in Readers
      /\ Admin # Tracker /\ Admin # Request
      /\ reader \in [Readers -> ReaderType]
  BY ScenariosAssumption DEF KoraInv, CacheInv, CacheTypeOK
<1>2. ASSUME reader'[Admin] = reader[Admin] PROVE Goal
  BY <1>2 DEF Stage
<1>3. ASSUME \/ \E c \in Case.commands : Launch(c)
             \/ Load \/ InitSignersFails \/ SkipSigners
             \/ \E redis \in BOOLEAN : Validate(redis) \/ InitUsage(redis)
             \/ \E bound \in BOOLEAN : StartMetrics(bound) \/ Bind(bound)
             \/ \E q \in Case.requests : TurnAway(q)
             \/ TrackerTicks \/ BeginAtasFails \/ EndAtas
      PROVE  reader' = reader
  BY <1>3 DEF Launch, Load, InitSignersFails, SkipSigners, Validate, InitUsage, cacheVars,
              StartMetrics, Bind, TurnAway, TrackerTicks, BeginAtasFails, EndAtas, Alone
<1>4. ASSUME \/ \E redis \in BOOLEAN : InitCache(redis)
             \/ \E redis, down \in BOOLEAN : ValidateWithRpc(redis, down)
             \/ \E q \in Case.requests : Handle(q) \/ Refuse(q)
             \/ InitSigners \/ BeginAtas \/ (World /\ ~Second) \/ UNCHANGED vars
      PROVE  reader' = reader
  BY <1>4 DEF InitCache, ValidateWithRpc, Handle, Refuse, InitSigners, BeginAtas, World,
              Moves, Evict, cacheVars, vars
<1>5. ASSUME \/ \E k \in Case.read, forced \in BOOLEAN : RequestReads(k, forced)
             \/ RequestTakes \/ TrackerReads \/ TrackerTakes
      PROVE  reader'[Admin] = reader[Admin]
  BY <1>1, <1>5 DEF RequestReads, RequestTakes, TrackerReads, TrackerTakes, GetAccount,
                    ReaderGoes, Rests
<1>6. CASE CtrlC \/ Restart
  BY <1>1, <1>6 DEF CtrlC, Restart, Resting
<1>7. CASE Second
  <2>1. reader[Admin] \in ReaderType
    BY <1>1
  <2>2. reader'[Admin].key = reader[Admin].key /\ reader'[Admin].stage = reader[Admin].stage
    BY <1>1, <1>7, <2>1 DEF Second, ReaderType
  <2> QED
    BY <2>2 DEF Stage
<1>8. CASE ReaderSteps
  <2>1. PICK r \in Readers : CacheSteps(r)
    BY <1>8 DEF ReaderSteps
  <2>2. Stage(r) # "rest"
    BY <2>1 DEF CacheSteps, Lookup, LookupFails, NodeReads, NodeAnswers, NodeFails, Store,
                StoreFails
  <2>3. \E step, value, lag : reader' = [reader EXCEPT ![r] = Onward(r, step, value, lag)]
    BY <2>1 DEF CacheSteps, Lookup, LookupFails, NodeReads, NodeAnswers, NodeFails, Store,
                StoreFails, ReaderGoes
  <2> QED
    BY <1>1, <2>2, <2>3 DEF Onward, Stage
<1> QED
  BY <1>2, <1>3, <1>4, <1>5, <1>6, <1>7, <1>8 DEF Next

(* An account that is answered was open lately.                            *)
LEMMA AnswerFound ==
  ASSUME KoraInv, ReportInv, AtStage("atas"), At("ata"), Stage(Admin) = "done"
  PROVE  Ata(Owner, job.mint) \in opened
<1> DEFINE k == reader[Admin].key
           v == reader[Admin].value
<1>1. /\ scen \in DOMAIN Scenarios /\ CanLoad(Case.file) /\ JobKnown
      /\ Admin \in Readers /\ CacheInv
  BY ScenariosAssumption DEF KoraInv, Known, ConfigLoaded, AtStage
<1>2. k = Ata(Owner, job.mint)
  BY DEF ReportInv, AdminAsks
<1>3. k \in Plannable
  <2>1. job.left \in Seq(OwnersOf(Case)) /\ job.left # <<>> /\ job.mint \in MintsOf(Conf)
    BY <1>1 DEF JobKnown, JobType, At
  <2>2. Owner \in OwnersOf(Case)
    BY <2>1 DEF Owner
  <2> QED
    BY <1>2, <2>1, <2>2 DEF Plannable, TokenAccounts, Conf
<1>4. k \in Keys
  BY <1>1, <1>3, ScenarioKnown
<1>5. v \in Values /\ v # Absent /\ since[k][v] <= Promised
  BY <1>1 DEF CacheInv, CacheTypeOK, ReaderType, ReaderRecent, Stage
<1>6. Promised < LongAgo /\ Promised \in Nat /\ LongAgo \in Nat
  BY CacheAssumption DEF LongAgo, Promised
<1>7. v = "open"
  <2>1. v \notin {Absent, "open"} => since[k][v] = LongAgo
    BY <1>1, <1>3, <1>5 DEF ReportInv, OnlyTokenAccounts
  <2> QED
    BY <1>5, <1>6, <2>1
<1> QED
  BY <1>2, <1>4, <1>5, <1>7 DEF ReportInv, OpenedLately, At

(* The first address that is left is done.                                 *)
LEMMA OwnerDone ==
  ASSUME JobKnown, JobProgress, opened \subseteq opened', scen' = scen,
         job.left # <<>>, job'.left = Tail(job.left), job'.asked = job.asked,
         \A m \in MintsOf(Conf) : {Ata(Owner, m), Ata2022(Owner, m)} \cap opened' # {},
         job'.stage = "next"
  PROVE  JobProgress'
<1>1. job.left \in Seq(OwnersOf(Case)) /\ MintsOf(Conf)' = MintsOf(Conf)
  BY DEF JobKnown, JobType, Conf, Case
<1>2. /\ Len(job.left) \in Nat /\ DOMAIN job.left = 1..Len(job.left)
      /\ Len(job.left) > 0 /\ Owner = job.left[1]
      /\ DOMAIN job'.left = 1..(Len(job.left) - 1)
      /\ \A j \in 1..(Len(job.left) - 1) : job'.left[j] = job.left[j + 1]
  BY <1>1 DEF Owner
<1>3. ASSUME NEW i \in DOMAIN job.asked
      PROVE  \/ \A m \in MintsOf(Conf) : Found(job.asked[i], m)'
             \/ \E j \in DOMAIN job'.left : job'.left[j] = job.asked[i]
  <2>1. CASE AllFound(job.asked[i])
    BY <2>1 DEF AllFound, Found
  <2>2. ASSUME NEW j \in DOMAIN job.left, job.left[j] = job.asked[i]
        PROVE  \/ job.asked[i] = Owner
               \/ \E h \in DOMAIN job'.left : job'.left[h] = job.asked[i]
    <3>1. CASE j = 1
      BY <1>2, <2>2, <3>1
    <3>2. CASE j # 1
      <4>1. j - 1 \in 1..(Len(job.left) - 1) /\ (j - 1) + 1 = j
        BY <1>2, <3>2
      <4> QED
        BY <1>2, <2>2, <4>1
    <3> QED
      BY <3>1, <3>2
  <2> QED
    BY <2>1, <2>2 DEF JobProgress, Found
<1> QED
  BY <1>1, <1>3 DEF JobProgress, AllFound, At

(* The job is no further than what it has found.                           *)
LEMMA JobStepProgress ==
  ASSUME KoraInv, ReportInv, StepAtas PROVE JobProgress' /\ AdminAsks'
<1> DEFINE Mine(m) == {Ata(Owner, m), Ata2022(Owner, m)}
           Got(m)  == Mine(m) \cap opened' # {}
<1>1. /\ JobKnown /\ job \in JobType /\ JobProgress /\ AtStage("atas") /\ JobStep(Conf)
      /\ scen' = scen /\ Admin \in Readers /\ reader \in [Readers -> ReaderType]
  BY ScenariosAssumption DEF KoraInv, Known, JobKnown, ReportInv, StepAtas, cliVars,
                             CacheInv, CacheTypeOK
<1>2. Conf' = Conf /\ MintsOf(Conf)' = MintsOf(Conf)
  BY <1>1 DEF Conf, Case
<1>3. opened \subseteq opened'
  BY <1>1, JobLands DEF Land
<1>4. \A o, m : Found(o, m) => {Ata(o, m), Ata2022(o, m)} \cap opened' # {}
  BY <1>3 DEF Found
<1>5. ASSUME job'.asked = job.asked, job'.left = job.left,
             job'.stage # "done", job'.stage = "create" => job'.mints = {},
             job'.stage \in {"look", "ata", "mint", "create"} =>
               \A m \in MintsOf(Conf) :
                 \/ m \in job'.mints \/ Got(m)
                 \/ \E i \in 1..Len(job'.plan) : job'.plan[i] \in Mine(m)
                 \/ job'.stage \in {"ata", "mint"} /\ m = job'.mint
      PROVE  JobProgress'
  <2>1. Owner' = Owner
    BY <1>5 DEF Owner
  <2>2. \A i \in DOMAIN job.asked :
          \/ \A m \in MintsOf(Conf) :
               {Ata(job.asked[i], m), Ata2022(job.asked[i], m)} \cap opened' # {}
          \/ \E j \in DOMAIN job.left : job.left[j] = job.asked[i]
    BY <1>1, <1>4 DEF JobProgress, AllFound
  <2> QED
    BY <1>2, <1>5, <2>1, <2>2 DEF JobProgress, AllFound, InPlan, Found, At
<1>6. job.stage \in {"look", "ata", "mint", "create"} =>
        \A m \in MintsOf(Conf) :
          \/ m \in job.mints \/ Got(m)
          \/ \E i \in 1..Len(job.plan) : job.plan[i] \in Mine(m)
          \/ job.stage \in {"ata", "mint"} /\ m = job.mint
  BY <1>1, <1>4 DEF JobProgress, InPlan, Got, Mine
<1>7. job'.stage # "ata" => AdminAsks'
  BY DEF AdminAsks, At
<1> HIDE DEF Mine, Got
<1>8. ASSUME job'.stage = "failed", job'.asked = job.asked, job'.left = job.left
      PROVE  JobProgress' /\ AdminAsks'
  BY <1>5, <1>7, <1>8
<1>9. CASE NextAddress(Conf)
  <2>1. /\ job'.stage = "look" /\ job'.mints = MintsOf(Conf)
        /\ job'.asked = job.asked /\ job'.left = job.left
    BY <1>1, <1>9 DEF NextAddress, JobGoes, JobType
  <2> QED
    BY <1>5, <1>7, <2>1
<1>10. CASE AllDone
  <2>1. /\ job'.stage = "done" /\ job'.asked = job.asked /\ job'.left = <<>>
        /\ job.left = <<>> /\ opened' = opened
    BY <1>1, <1>10 DEF AllDone, JobEnds, JobGoes, JobType
  <2> QED
    BY <1>1, <1>2, <1>7, <2>1 DEF JobProgress, AllFound, Found, At
<1>11. ASSUME NEW m \in job.mints, Look(m) PROVE JobProgress' /\ AdminAsks'
  <2>1. /\ job.stage = "look" /\ job'.stage = "ata" /\ job'.mint = m
        /\ job'.mints = job.mints \ {m} /\ job'.plan = job.plan
        /\ job'.asked = job.asked /\ job'.left = job.left
    BY <1>1, <1>11 DEF Look, JobGoes, JobType, At
  <2>2. JobProgress'
    BY <1>5, <1>6, <2>1
  <2>3. Owner' = Owner
    BY <2>1 DEF Owner
  <2>4. reader'[Admin].key = Ata(Owner, m)
    BY <1>1, <1>11 DEF Look, GetAccount, ReaderGoes, Asking
  <2>5. AdminAsks'
    BY <2>1, <2>3, <2>4 DEF AdminAsks
  <2> QED
    BY <2>2, <2>5
<1>12. CASE Exists
  <2>1. /\ job.stage = "ata" /\ job'.stage = "look" /\ job'.mints = job.mints
        /\ job'.plan = job.plan /\ job'.asked = job.asked /\ job'.left = job.left
    BY <1>1, <1>12 DEF Exists, JobGoes, JobType, At
  <2>2. Got(job.mint)
    <3>1. Ata(Owner, job.mint) \in opened
      BY <1>1, <1>12, AnswerFound DEF Exists
    <3> QED
      BY <1>3, <3>1 DEF Mine, Got
  <2> QED
    BY <1>5, <1>6, <1>7, <2>1, <2>2
<1>13. CASE Missing
  <2>1. /\ job.stage = "ata" /\ job'.stage = "mint" /\ job'.mints = job.mints
        /\ job'.mint = job.mint
        /\ job'.plan = job.plan /\ job'.asked = job.asked /\ job'.left = job.left
    BY <1>1, <1>13 DEF Missing, JobGoes, JobType, At
  <2> QED
    BY <1>5, <1>6, <1>7, <2>1
<1>14. CASE Planned
  <2> DEFINE created == Created(Owner, reader[Admin].value, job.mint)
  <2>1. /\ job.stage = "mint" /\ job'.stage = "look" /\ job'.mints = job.mints
        /\ job'.plan = Append(job.plan, created)
        /\ job'.asked = job.asked /\ job'.left = job.left
    BY <1>1, <1>14 DEF Planned, JobGoes, JobType, At
  <2>2. created \in Mine(job.mint)
    BY DEF Created, Mine
  <2> HIDE DEF created
  <2>3. job.plan \in Seq(Plannable)
    BY <1>1 DEF JobType
  <2>4. /\ Len(job.plan) \in Nat /\ Len(job'.plan) = Len(job.plan) + 1
        /\ \A i \in 1..Len(job.plan) : job'.plan[i] = job.plan[i]
        /\ job'.plan[Len(job.plan) + 1] = created
    BY <2>1, <2>3
  <2>5. \A i \in 1..Len(job.plan) : i \in 1..Len(job'.plan)
    BY <2>4
  <2>6. Len(job.plan) + 1 \in 1..Len(job'.plan)
    BY <2>4
  <2> QED
    BY <1>5, <1>6, <1>7, <2>1, <2>2, <2>4, <2>5, <2>6
<1>15. CASE NoProgram
  <2>1. job'.stage = "failed" /\ job'.asked = job.asked /\ job'.left = job.left
    BY <1>1, <1>15 DEF NoProgram, JobEnds, JobGoes, JobType
  <2> QED
    BY <1>8, <2>1
<1>16. CASE AllExist
  <2>1. /\ job.stage = "look" /\ job.mints = {} /\ job.plan = <<>> /\ job.left # <<>>
        /\ job'.stage = "next" /\ job'.asked = job.asked /\ job'.left = Tail(job.left)
    BY <1>1, <1>16 DEF AllExist, JobGoes, JobType, At, JobKnown
  <2>2. \A m \in MintsOf(Conf) : Got(m)
    <3>1. \A m \in MintsOf(Conf) : Found(Owner, m)
      BY <1>1, <2>1 DEF JobProgress, InPlan
    <3> QED
      BY <1>3, <3>1 DEF Found, Mine, Got
  <2> QED
    BY <1>1, <1>3, <1>7, <2>1, <2>2, OwnerDone DEF Mine, Got
<1>17. CASE SomeMissing
  <2>1. /\ job.stage = "look" /\ job.mints = {} /\ job'.asked = job.asked
        /\ job'.left = job.left
        /\ \/ job'.stage = "failed"
           \/ job'.stage = "create" /\ job'.mints = job.mints /\ job'.plan = job.plan
    BY <1>1, <1>17 DEF SomeMissing, JobEnds, JobGoes, JobType, At
  <2> QED
    BY <1>5, <1>6, <1>7, <1>8, <2>1
<1>18. CASE ChunkConfirmed
  <2> DEFINE rest == SubSeq(job.plan, ChunkLength + 1, Len(job.plan))
  <2>1. job.plan \in Seq(Plannable) /\ job.chunk \in Nat
    BY <1>1 DEF JobType
  <2>2. PICK n \in Nat, c \in Nat : n = Len(job.plan) /\ c = ChunkLength /\ c <= n
    BY <2>1 DEF ChunkLength
  <2>3. /\ Len(rest) = n - c
        /\ \A i \in 1..(n - c) : rest[i] = job.plan[c + i]
    BY <2>1, <2>2
  <2>4. /\ job.stage = "create" /\ job' = AfterChunk /\ opened' = opened \cup Chunk
        /\ job.mints = {} /\ job.left # <<>>
    BY <1>1, <1>18 DEF ChunkConfirmed, Land, JobProgress, JobKnown, At
  <2>5. ASSUME NEW m \in MintsOf(Conf)
        PROVE  \/ Got(m)
               \/ \E i \in 1..(n - c) : rest[i] \in Mine(m)
    <3>1. CASE Found(Owner, m)
      BY <1>3, <3>1 DEF Found, Mine, Got
    <3>2. ASSUME NEW i \in 1..n, job.plan[i] \in Mine(m)
          PROVE  \/ Got(m)
                 \/ \E h \in 1..(n - c) : rest[h] \in Mine(m)
      <4>1. CASE i <= c
        <5>1. job.plan[i] \in Chunk
          BY <2>2, <4>1 DEF Chunk
        <5> QED
          BY <2>4, <3>2, <5>1 DEF Got
      <4>2. CASE ~(i <= c)
        <5>1. i - c \in 1..(n - c) /\ c + (i - c) = i
          BY <2>2, <4>2
        <5> QED
          BY <2>3, <3>2, <5>1
      <4> QED
        BY <4>1, <4>2
    <3>3. Found(Owner, m) \/ \E i \in 1..n : job.plan[i] \in Mine(m)
      BY <1>1, <2>2, <2>4 DEF JobProgress, InPlan, Mine
    <3> QED
      BY <3>1, <3>2, <3>3
  <2>6. CASE rest # <<>>
    <3>1. /\ job'.stage = "create" /\ job'.plan = rest /\ job'.mints = {}
          /\ job'.asked = job.asked /\ job'.left = job.left
      BY <1>1, <2>4, <2>6 DEF AfterChunk, JobType
    <3>2. \A m \in MintsOf(Conf) :
            Got(m) \/ \E i \in 1..Len(job'.plan) : job'.plan[i] \in Mine(m)
      BY <2>3, <2>5, <3>1
    <3> QED
      BY <1>5, <1>7, <3>1, <3>2
  <2>7. CASE rest = <<>>
    <3>1. /\ job'.stage = "next" /\ job'.asked = job.asked /\ job'.left = Tail(job.left)
      BY <1>1, <2>4, <2>7 DEF AfterChunk, JobType
    <3>2. 1..(n - c) = {}
      BY <2>2, <2>3, <2>7
    <3>3. \A m \in MintsOf(Conf) : Got(m)
      BY <2>5, <3>2
    <3> QED
      BY <1>1, <1>3, <1>7, <2>4, <3>1, <3>3, OwnerDone DEF Mine, Got
  <2> QED
    BY <2>6, <2>7
<1>19. CASE ChunkFails
  <2>1. job'.stage = "failed" /\ job'.asked = job.asked /\ job'.left = job.left
    BY <1>1, <1>19 DEF ChunkFails, JobType
  <2> QED
    BY <1>8, <2>1
<1> QED
  BY <1>1, <1>9, <1>10, <1>11, <1>12, <1>13, <1>14, <1>15, <1>16, <1>17, <1>18, <1>19
     DEF JobStep

(* Nothing else makes the job find more than there is.                     *)
LEMMA ProgressStep ==
  ASSUME KoraInv, ReportInv, [Next]_vars PROVE JobProgress' /\ AdminAsks'
<1>1. scen' = scen /\ JobProgress /\ AdminAsks
  BY ConfigStep DEF ReportInv
<1>2. Conf' = Conf
  BY <1>1 DEF Conf, Case
<1>3. CASE job' = job /\ opened \subseteq opened' /\ ~StepAtas
  <2>1. Owner' = Owner
    BY <1>3 DEF Owner
  <2>2. \A o, m : Found(o, m) => Found(o, m)'
    BY <1>3 DEF Found
  <2>3. JobProgress'
    BY <1>1, <1>2, <1>3, <2>1, <2>2 DEF JobProgress, AllFound, InPlan, At
  <2>4. AdminAsks'
    BY <1>1, <1>3, <2>1, AdminFrame DEF AdminAsks, At, Stage
  <2> QED
    BY <2>3, <2>4
<1>4. ASSUME NEW a, NEW creates, NEW n, Begins(a, creates, n)
      PROVE  JobProgress' /\ AdminAsks'
  <2>1. job'.stage = "next" /\ job'.asked = a /\ job'.left = a
    BY <1>4 DEF Begins, NoJob
  <2> QED
    BY <2>1 DEF JobProgress, AdminAsks, At
<1>5. CASE JobLost
  <2>1. job'.stage = "none" /\ DOMAIN job'.asked = {}
    BY <1>5 DEF JobLost, NoJob
  <2> QED
    BY <2>1 DEF JobProgress, AdminAsks, At
<1> QED
  BY <1>1, <1>3, <1>4, <1>5, JobStepProgress, OpenedGrows

-----------------------------------------------------------------------------
(* What the scenario gives does not change.                                *)
LEMMA ScenarioSame ==
  ASSUME scen' = scen
  PROVE  Case' = Case /\ Conf' = Conf /\ SignersFile' = SignersFile
BY DEF Case, Conf, SignersFile

(* Steps that leave the process where it is.                               *)
LEMMA StayingSteps ==
  ASSUME \/ \E q \in Case.requests : TurnAway(q) \/ Handle(q) \/ Refuse(q)
         \/ \E k \in Case.read, forced \in BOOLEAN : RequestReads(k, forced)
         \/ RequestTakes \/ TrackerTicks \/ TrackerReads \/ TrackerTakes
         \/ StepAtas \/ ReaderSteps \/ World \/ UNCHANGED vars
  PROVE  /\ UNCHANGED <<scen, command, stage, reported, pool>>
         /\ job' = job \/ AtStage("atas")
<1> USE DEF cliVars, ataVars, cacheVars, poolVars
<1>1. ASSUME NEW q, TurnAway(q) \/ Handle(q) \/ Refuse(q)
      PROVE  UNCHANGED <<scen, command, stage, reported, pool, job>>
  BY <1>1 DEF TurnAway, Handle, Refuse, DrawsFor, Draw, Responds, Alone
<1>2. ASSUME \/ \E k \in Case.read, forced \in BOOLEAN : RequestReads(k, forced)
             \/ RequestTakes \/ TrackerTicks \/ TrackerReads \/ TrackerTakes
             \/ ReaderSteps \/ World \/ UNCHANGED vars
      PROVE  UNCHANGED <<scen, command, stage, reported, pool, job>>
  BY <1>2 DEF RequestReads, RequestTakes, TrackerTicks, TrackerReads, TrackerTakes, Counts,
              Alone, ReaderSteps, World, Moves, vars
<1>3. CASE StepAtas
  BY <1>3 DEF StepAtas
<1> QED
  BY <1>1, <1>2, <1>3

(* How the process got to where it is.                                     *)
LEMMA CourseStep ==
  ASSUME KoraInv, ReportInv, [Next]_vars PROVE Course'
<1>1. /\ scen \in DOMAIN Scenarios /\ scen' = scen /\ Course
  BY ConfigStep DEF KoraInv, Known, ReportInv
<1>2. Case' = Case /\ Conf' = Conf /\ SignersFile' = SignersFile
  BY <1>1, ScenarioSame
<1> USE DEF Course, Stages, Served, AtStage, GoTo
<1>3. ASSUME UNCHANGED <<scen, command, stage, reported, pool>>, job' = job \/ AtStage("atas")
      PROVE  Course'
  BY <1>1, <1>2, <1>3 DEF At
<1>4. ASSUME NEW c \in Case.commands, Launch(c) PROVE Course'
  BY <1>1, <1>2, <1>4 DEF Launch
<1>5. CASE Load
  BY <1>1, <1>2, <1>5 DEF Load
<1>6. ASSUME NEW redis \in BOOLEAN, Validate(redis) PROVE Course'
  <2>1. /\ AtStage("validate") /\ command \in {"validate", "start"} /\ command' = command
        /\ reported' \in {"valid", "errors"}
        /\ \/ command = "validate" /\ stage' = "exited"
           \/ command = "start" /\ stage' = "failed"
           \/ /\ command = "start" /\ stage' = "signers"
              /\ Errors(Conf, SignersFile, Case.env, redis) = {}
    BY <1>6 DEF Validate, Report
  <2> QED
    BY <1>1, <1>2, <2>1
<1>7. ASSUME NEW redis \in BOOLEAN, InitCache(redis) PROVE Course'
  <2>1. /\ stage = "cache" /\ UNCHANGED <<command, reported, pool>>
        /\ \/ stage' = "failed" \/ stage' = "payer"
           \/ stage' = "usage" /\ command = "start"
    BY <1>7 DEF InitCache, poolVars
  <2> QED
    BY <1>1, <1>2, <2>1
<1>8. ASSUME NEW redis \in BOOLEAN, InitUsage(redis) PROVE Course'
  BY <1>1, <1>2, <1>8 DEF InitUsage, Alone, poolVars
<1>9. ASSUME NEW redis \in BOOLEAN, NEW down \in BOOLEAN, ValidateWithRpc(redis, down)
      PROVE  Course'
  BY <1>1, <1>2, <1>9 DEF ValidateWithRpc, Report
<1>10. CASE InitSigners
  <2>1. HasSigners(pool)'
    <3>1. Case.signers.given /\ FromConfig(Case.signers.signers, Case.signers.strategy)
      BY <1>10 DEF InitSigners, CanInitSigners, SignersFile
    <3>2. Case.signers.signers \in Seq(Range(Case.signers.signers))
      BY <1>1, <3>1, ScenarioKnown
    <3>3. 1 \in DOMAIN pool'
      BY <3>1, <3>2 DEF FromConfig, CanPool
    <3> QED
      BY <3>3 DEF HasSigners
  <2> QED
    BY <1>1, <1>2, <1>10, <2>1 DEF InitSigners
<1>11. CASE InitSignersFails \/ SkipSigners
  BY <1>1, <1>2, <1>11 DEF InitSignersFails, SkipSigners
<1>12. ASSUME NEW bound \in BOOLEAN, StartMetrics(bound) \/ Bind(bound) PROVE Course'
  BY <1>1, <1>2, <1>12 DEF StartMetrics, Bind, Alone, poolVars
<1>13. CASE BeginAtas \/ BeginAtasFails
  BY <1>1, <1>2, <1>13 DEF BeginAtas, BeginAtasFails
<1>14. CASE EndAtas
  BY <1>1, <1>2, <1>14 DEF EndAtas, Ended, At, Alone, ataVars
<1>15. CASE CtrlC \/ Restart
  BY <1>1, <1>2, <1>15 DEF CtrlC, Restart
<1> QED
  BY <1>3, <1>4, <1>5, <1>6, <1>7, <1>8, <1>9, <1>10, <1>11, <1>12, <1>13, <1>14, <1>15,
     StayingSteps DEF Next

(* Only the tracker counts signers, and only those there are.              *)
LEMMA BalancesStep ==
  ASSUME KoraInv, ReportInv, [Next]_vars
  PROVE  /\ balances' \subseteq DOMAIN pool'
         /\ stage' \in {"off", "load", "validate", "signers"} => balances' = {}
<1> DEFINE Early == {"off", "load", "validate", "signers"}
           Goal  == balances' \subseteq DOMAIN pool' /\ (stage' \in Early => balances' = {})
<1>1. balances \subseteq DOMAIN pool /\ (stage \in Early => balances = {})
  BY DEF ReportInv, PoolTyped
<1> USE DEF AtStage, GoTo, poolVars
<1>2. ASSUME balances' = balances, pool' = pool, stage' \in Early => stage \in Early
      PROVE  Goal
  BY <1>1, <1>2
<1>3. ASSUME \/ \E c \in Case.commands : Launch(c)
             \/ Load \/ InitSignersFails \/ SkipSigners
             \/ \E redis \in BOOLEAN : Validate(redis) \/ InitUsage(redis)
             \/ \E bound \in BOOLEAN : StartMetrics(bound) \/ Bind(bound)
             \/ \E q \in Case.requests : TurnAway(q)
             \/ BeginAtasFails \/ EndAtas
      PROVE  Goal
  BY <1>2, <1>3 DEF Launch, Load, InitSignersFails, SkipSigners, Validate, Report, InitUsage,
                    StartMetrics, Bind, TurnAway, Responds, BeginAtasFails, EndAtas, Alone
<1>4. ASSUME \/ \E redis \in BOOLEAN : InitCache(redis)
             \/ \E redis, down \in BOOLEAN : ValidateWithRpc(redis, down)
             \/ \E k \in Case.read, forced \in BOOLEAN : RequestReads(k, forced)
             \/ RequestTakes \/ TrackerReads \/ StepAtas \/ ReaderSteps \/ CtrlC
             \/ World \/ UNCHANGED vars
      PROVE  Goal
  BY <1>2, <1>4 DEF InitCache, ValidateWithRpc, Report, RequestReads, RequestTakes,
                    TrackerReads, StepAtas, ReaderSteps, CtrlC, World, Moves, cliVars, vars
<1>5. ASSUME NEW q, Handle(q) \/ Refuse(q) PROVE Goal
  BY <1>2, <1>5 DEF Handle, Refuse, DrawsFor, Draw, Responds
<1>6. CASE InitSigners
  BY <1>1, <1>6 DEF InitSigners
<1>7. CASE BeginAtas
  BY <1>2, <1>7 DEF BeginAtas, PickPayer, Draw
<1>8. CASE TrackerTicks \/ TrackerTakes
  <2>1. stage \in {"bind", "serving"} /\ stage' = stage /\ pool' = pool
        /\ balances' \subseteq DOMAIN pool
    BY <1>1, <1>8 DEF TrackerTicks, TrackerTakes, Tracks, Counts, Alone
  <2> QED
    BY <2>1
<1>9. CASE Restart
  BY <1>9 DEF Restart
<1> QED
  BY <1>3, <1>4, <1>5, <1>6, <1>7, <1>8, <1>9 DEF Next

(* The pool holds machine words, and counts its draws.                     *)
LEMMA PoolTypedStep ==
  ASSUME KoraInv, ReportInv, [Next]_vars PROVE PoolTyped'
<1>1. /\ scen \in DOMAIN Scenarios /\ PoolTyped
      /\ Size \in Nat /\ DOMAIN pool = 1..Size /\ uses \in [1..Size -> Nat]
  BY DEF KoraInv, Known, ReportInv, PoolInv, PoolShape
<1>2. MaxDraws \in Nat /\ WeightSize \in Nat /\ WeightSize > 1
  BY PoolAssumption
<1> DEFINE Goal == /\ \A i \in DOMAIN pool' : pool'[i].weight \in 0..(WeightSize - 1)
                   /\ strategy' \in Strategies /\ drawn' \in 0..MaxDraws
                   /\ \A i \in DOMAIN pool' : uses'[i] <= drawn'
<1>3. ASSUME UNCHANGED poolVars PROVE Goal
  BY <1>1, <1>3 DEF PoolTyped, poolVars
<1>4. ASSUME InitSigners PROVE Goal
  <2> DEFINE signers == Case.signers.signers
  <2>1. Case.signers.given /\ FromConfig(signers, Case.signers.strategy)
    BY <1>4 DEF InitSigners, CanInitSigners, SignersFile
  <2>2. /\ Case.signers.strategy \in Strategies
        /\ \A i \in DOMAIN signers : SignerAssumed(signers[i])
    BY <1>1, <2>1, ScenarioKnown DEF Range
  <2>3. \A i \in DOMAIN signers : WeightOf(signers[i]) \in 0..(WeightSize - 1)
    BY <1>2, <2>2 DEF SignerAssumed, WeightOf, DefaultWeight
  <2>4. /\ DOMAIN pool' = DOMAIN signers
        /\ \A i \in DOMAIN signers : /\ pool'[i].weight = WeightOf(signers[i])
                                     /\ uses'[i] = 0
        /\ strategy' = Case.signers.strategy /\ drawn' = 0
    BY <2>1 DEF FromConfig
  <2> HIDE DEF signers
  <2> QED
    BY <1>2, <2>2, <2>3, <2>4
<1>5. ASSUME NEW i \in DOMAIN pool, Draw(i) PROVE Goal
  <2>1. /\ pool' = pool /\ strategy' = strategy /\ drawn' = drawn + 1 /\ drawn < MaxDraws
        /\ uses' = [uses EXCEPT ![i] = uses[i] + 1]
    BY <1>5 DEF Draw
  <2>2. drawn \in Nat /\ \A j \in DOMAIN pool : uses[j] \in Nat /\ uses[j] <= drawn
    BY <1>1, <1>2 DEF PoolTyped
  <2>3. \A j \in DOMAIN pool : uses'[j] = IF j = i THEN uses[j] + 1 ELSE uses[j]
    BY <1>1, <2>1
  <2>4. \A j \in DOMAIN pool : uses'[j] <= drawn'
    BY <2>1, <2>2, <2>3
  <2>5. drawn' \in 0..MaxDraws
    BY <1>2, <2>1, <2>2
  <2> QED
    BY <1>1, <2>1, <2>4, <2>5 DEF PoolTyped
<1>6. ASSUME PoolLost PROVE Goal
  BY <1>2, <1>6 DEF PoolLost, Strategies
<1> QED
  BY <1>3, <1>4, <1>5, <1>6, PoolFrame, BalancesStep DEF PoolTyped

-----------------------------------------------------------------------------
(* A configuration without errors lets every handler do what it is asked,  *)
(* but for programs that are no addresses, which no validator parses.      *)
LEMMA ValidIsUsable ==
  ASSUME NEW c, NEW f, NEW env, NEW redis, Errors(c, f, env, redis) = {},
         c.programs \subseteq PublicKeys
  PROVE  /\ CanPayTo(c) /\ CanValidate(c) /\ CanAskPrices(c, env) /\ CanFixPrice(c)
         /\ CanLimit(c) /\ c.tokens # {}
<1>1. GeneralErrors(c, env) = {} /\ PriceErrors(c) = {} /\ UsageErrors(c, redis) = {}
  BY DEF Errors
<1>2. /\ c.paymentAddress \in PublicKeys \cup {Nowhere}
      /\ ~(c.priceSource = "jupiter" /\ "JUPITER_API_KEY" \notin env)
      /\ c.tokens # {} /\ c.tokens \subseteq PublicKeys /\ c.disallowed \subseteq PublicKeys
  BY <1>1 DEF GeneralErrors, Named
<1>3. ~(c.model = "fixed" /\ c.token \notin PublicKeys)
  BY <1>1 DEF PriceErrors, Named
<1>4. ~(c.usageEnabled /\ c.usageUrl = "none" /\ ~c.usageFallback)
  BY <1>1 DEF UsageErrors, Named
<1> QED
  BY <1>2, <1>3, <1>4 DEF CanPayTo, CanValidate, CanAskPrices, CanFixPrice, CanLimit

(* The answers of the server.                                              *)
LEMMA ResponsesStep ==
  ASSUME KoraInv, ReportInv, [Next]_vars
  PROVE  response' \in Responses /\ ServedIsUsable'
<1>1. scen' = scen /\ Course /\ response \in Responses /\ ServedIsUsable
  BY ConfigStep DEF ReportInv
<1>2. Case' = Case /\ Conf' = Conf
  BY <1>1, ScenarioSame
<1>3. ASSUME response' = response \/ response' \in Responses \ {"misconfigured"}
      PROVE  response' \in Responses /\ ServedIsUsable'
  BY <1>1, <1>2, <1>3 DEF ServedIsUsable
<1> USE DEF GoTo, Responses
<1>4. ASSUME \/ \E c \in Case.commands : Launch(c)
             \/ Load \/ InitSignersFails \/ SkipSigners
             \/ \E redis \in BOOLEAN : Validate(redis) \/ InitUsage(redis)
             \/ \E bound \in BOOLEAN : StartMetrics(bound) \/ Bind(bound)
             \/ TrackerTicks \/ BeginAtas \/ BeginAtasFails \/ EndAtas
             \/ InitSigners \/ CtrlC
      PROVE  response' = response
  BY <1>4 DEF Launch, Load, InitSignersFails, SkipSigners, Validate, Report, InitUsage,
              StartMetrics, Bind, TrackerTicks, Counts, BeginAtas, BeginAtasFails, EndAtas,
              InitSigners, CtrlC
<1>5. ASSUME \/ \E redis \in BOOLEAN : InitCache(redis)
             \/ \E redis, down \in BOOLEAN : ValidateWithRpc(redis, down)
             \/ \E k \in Case.read, forced \in BOOLEAN : RequestReads(k, forced)
             \/ RequestTakes \/ TrackerReads \/ TrackerTakes \/ StepAtas \/ ReaderSteps
             \/ World \/ UNCHANGED vars
      PROVE  response' = response
  BY <1>5 DEF InitCache, ValidateWithRpc, Report, RequestReads, RequestTakes, TrackerReads,
              TrackerTakes, Counts, StepAtas, ReaderSteps, World, Moves, cliVars, vars
<1>6. CASE Restart
  BY <1>3, <1>6 DEF Restart
<1>7. ASSUME NEW q, TurnAway(q) \/ Refuse(q) PROVE response' \in Responses \ {"misconfigured"}
  BY <1>7 DEF TurnAway, Refuse, Responds, Turned, Admission
<1>8. ASSUME NEW q, Handle(q) PROVE response' \in Responses /\ ServedIsUsable'
  <2>1. /\ AtStage("serving") /\ response' \in {"ok", "misconfigured", "refused"}
        /\ response' = "misconfigured" =>
             ~CanHandle(Proxied(q).method, Conf, Case.env, pool)
    BY <1>8 DEF Handle, Responds, Outcome, Received
  <2>2. ASSUME Conf.programs \subseteq PublicKeys, ~Case.skipSigner
        PROVE  CanHandle(Proxied(q).method, Conf, Case.env, pool)
    <3>1. HasSigners(pool) /\ \E redis \in BOOLEAN : Errors(Conf, SignersFile, Case.env, redis) = {}
      BY <1>1, <2>1, <2>2 DEF Course, AtStage, Served
    <3>2. /\ CanPayTo(Conf) /\ CanValidate(Conf) /\ CanAskPrices(Conf, Case.env)
          /\ CanFixPrice(Conf) /\ CanLimit(Conf) /\ Conf.tokens # {}
      BY <2>2, <3>1, ValidIsUsable
    <3> QED
      BY <3>1, <3>2 DEF CanHandle, CanSign, CanPrice
  <2> QED
    BY <1>2, <2>1, <2>2 DEF ServedIsUsable
<1> QED
  BY <1>3, <1>4, <1>5, <1>6, <1>7, <1>8 DEF Next

-----------------------------------------------------------------------------
(* The invariant holds throughout.                                         *)
THEOREM KoraInvariant == Spec => []KoraInv
<1>1. Init => KoraInv
  BY KoraInitInv
<1>2. KoraInv /\ [Next]_vars => KoraInv'
  <2> SUFFICES ASSUME KoraInv, [Next]_vars PROVE KoraInv'
    OBVIOUS
  <2>1. scen \in DOMAIN Scenarios /\ scen' = scen /\ ConfigLoaded'
    BY ConfigStep DEF KoraInv, Known
  <2>2. PoolInv' /\ SignersKnown' /\ JobKnown' /\ CacheInv'
    BY PoolStep, JobKnownStep, CacheStep
  <2> QED
    BY <2>1, <2>2 DEF KoraInv, Known
<1> QED
  BY <1>1, <1>2, PTL DEF Spec

(* So does what the process says of itself.                                *)
THEOREM ReportInvariant == Spec => []ReportInv
<1>1. Init => ReportInv
  <2> SUFFICES ASSUME Init PROVE ReportInv
    OBVIOUS
  <2>1. scen \in DOMAIN Scenarios /\ Promised \in Nat /\ TTL \in Nat /\ MaxDelay \in Nat
    BY BoundsTyped DEF Init
  <2>2. OnlyTokenAccounts
    BY <2>1, ScenarioKnown DEF OnlyTokenAccounts, Init, CacheInit
  <2>3. OpenedLately /\ JobProgress /\ AdminAsks
    BY DEF Init, NoJob, OpenedLately, JobProgress, AdminAsks, At
  <2>4. Course
    BY DEF Init, Course, Stages, Served
  <2>5. PoolTyped
    BY PoolAssumption DEF Init, PoolInit, PoolTyped, Strategies
  <2>6. response \in Responses /\ ServedIsUsable
    BY DEF Init, Responses, ServedIsUsable
  <2> QED
    BY <2>2, <2>3, <2>4, <2>5, <2>6 DEF ReportInv
<1>2. KoraInv /\ ReportInv /\ [Next]_vars => ReportInv'
  <2> SUFFICES ASSUME KoraInv, ReportInv, [Next]_vars PROVE ReportInv'
    OBVIOUS
  <2>1. OnlyTokenAccounts' /\ OpenedLately'
    BY AccountsStep DEF ReportInv
  <2> QED
    BY <2>1, ProgressStep, CourseStep, PoolTypedStep, ResponsesStep DEF ReportInv
<1> QED
  BY <1>1, <1>2, KoraInvariant, PTL DEF Spec

(* Every variable has its type: the pool's counters and weights stay in    *)
(* their words, and the tracker only counts signers that are there.        *)
THEOREM KoraTypeCorrect == Spec => []TypeOK
<1>1. KoraInv /\ ReportInv => TypeOK
  <2> SUFFICES ASSUME KoraInv, ReportInv PROVE TypeOK
    OBVIOUS
  <2>1. /\ scen \in DOMAIN Scenarios /\ stage \in Stages
        /\ command \in {"none"} \cup Case.commands
        /\ reported \in {"nothing", "valid", "errors"}
        /\ balances \subseteq DOMAIN pool /\ response \in Responses
    BY DEF KoraInv, Known, ReportInv, Course, PoolTyped
  <2>2. CacheTypeOK
    BY DEF KoraInv, CacheInv
  <2>3. PoolTypeOK
    <3>1. /\ DOMAIN pool = 1..Size /\ counter \in 0..(CounterSize - 1)
          /\ uses \in [1..Size -> Nat] /\ PoolTyped
      BY DEF KoraInv, PoolInv, PoolShape, ReportInv
    <3>2. \A i \in 1..Size : uses[i] \in 0..MaxDraws
      BY <3>1, PoolAssumption DEF PoolTyped
    <3>3. uses \in [DOMAIN pool -> 0..MaxDraws]
      BY <3>1, <3>2
    <3> QED
      BY <3>1, <3>3 DEF PoolTypeOK, PoolTyped
  <2>4. JobTypeOK
    BY DEF KoraInv, Known, JobKnown, JobType, ReportInv, OpenedLately, JobTypeOK, MintsOf
  <2> QED
    BY <2>1, <2>2, <2>3, <2>4 DEF TypeOK, Responses
<1> QED
  BY <1>1, KoraInvariant, ReportInvariant, PTL

(* What a command says of itself is true, for every configuration, number  *)
(* of signers, mints and chunks, and wherever the process is killed: a     *)
(* server started can do what its methods say, and accounts said to be     *)
(* there were found or made (config_validator.rs:576, main.rs:255).        *)
THEOREM ReportsHold == Spec => []ReportsAreTrue
<1>1. KoraInv /\ ReportInv => ReportsAreTrue
  <2> SUFFICES ASSUME KoraInv, ReportInv PROVE ReportsAreTrue
    OBVIOUS
  <2>1. AtasInitialised(Conf)
    <3> SUFFICES ASSUME At("done"), NEW i \in DOMAIN job.asked, NEW m \in MintsOf(Conf)
                 PROVE  {Ata(job.asked[i], m), Ata2022(job.asked[i], m)} \cap opened # {}
      BY DEF AtasInitialised
    <3>1. job.left = <<>> /\ ~\E j \in DOMAIN job.left : job.left[j] = job.asked[i]
      BY DEF ReportInv, JobProgress
    <3> QED
      BY <3>1 DEF ReportInv, JobProgress, AllFound, Found
  <2>2. ServedIsUsable
    BY DEF ReportInv
  <2>3. AtStage("exited") /\ command = "initialize-atas" => At("done")
    BY DEF ReportInv, Course, AtStage
  <2> QED
    BY <2>1, <2>2, <2>3 DEF ReportsAreTrue
<1> QED
  BY <1>1, KoraInvariant, ReportInvariant, PTL

(* A cached answer is as recent as the time to live and one slow call      *)
(* make it, for every number of accounts, callers and values, and every    *)
(* configuration (cache.rs:201).                                           *)
THEOREM AnswersAreRecent == Spec => []AnswersRecent
<1>1. KoraInv => AnswersRecent
  BY CacheInvIsRecent DEF KoraInv
<1> QED
  BY <1>1, KoraInvariant, PTL

(* Round robin is fair for every pool and every width of the counter, and  *)
(* whoever draws (pool.rs:158).                                            *)
THEOREM RoundRobinIsFair == Spec => []RoundRobinFair
<1>1. KoraInv => RoundRobinFair
  BY PoolInvIsFair DEF KoraInv
<1> QED
  BY <1>1, KoraInvariant, PTL
==============================================================================
