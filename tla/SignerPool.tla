------------------------------ MODULE SignerPool ------------------------------
(***************************************************************************)
(* The paymaster's signers (signer/pool.rs, state.rs).  Every request      *)
(* without a signer_key, and every call of getPayerSigner, draws the next  *)
(* one by the pool's strategy.  The round-robin counter is a machine word  *)
(* that all requests share and that wraps around.                          *)
(***************************************************************************)
EXTENDS Integers, FiniteSets, Sequences, SequencesExt

CONSTANTS
  CounterSize,    \* values of the round-robin counter (2^64)
  WeightSize,     \* values of the sum of the weights (2^32)
  MaxDraws        \* bound on the draws considered

ASSUME PoolAssumption ==
  CounterSize \in Nat \ {0} /\ WeightSize \in Nat \ {0, 1} /\ MaxDraws \in Nat

VARIABLES
  pool,         \* the signers: [name, key, weight]
  strategy,     \* one of Strategies
  counter,      \* current_index
  uses,         \* times each position of the pool was drawn
  drawn         \* their sum

poolVars == <<pool, strategy, counter, uses, drawn>>

Strategies == {"round_robin", "random", "weighted"}

DefaultWeight == 1
NoWeight == -1          \* the configuration gives none

PoolInit ==
  /\ pool = <<>> /\ strategy = "round_robin"
  /\ counter = 0 /\ uses = <<>> /\ drawn = 0

-----------------------------------------------------------------------------
WeightOf(s) == IF s.weight = NoWeight THEN DefaultWeight ELSE s.weight

AddWeight(n, s) == (n + WeightOf(s)) % WeightSize

TotalWeight(signers) == FoldLeft(AddWeight, 0, signers)

\* from_config
CanPool(signers, how) ==
  /\ signers # <<>>
  /\ how = "weighted" => TotalWeight(signers) > 0

FromConfig(signers, how) ==
  /\ CanPool(signers, how)
  /\ pool = <<>>            \* init_signer_pool: only once
  /\ pool' = [i \in DOMAIN signers |-> [name |-> signers[i].name, key |-> signers[i].key,
                                       weight |-> WeightOf(signers[i])]]
  /\ strategy' = how /\ counter' = 0 /\ drawn' = 0
  /\ uses' = [i \in DOMAIN signers |-> 0]

\* Bug: the index is taken modulo one signer less.
SelectedShort == (counter % (IF Len(pool) > 1 THEN Len(pool) - 1 ELSE 1)) + 1

\* round_robin_select: the value before fetch_add.
Selected == (counter % Len(pool)) + 1

\* weighted_select: the first signer whose share the target falls into.
PlusWeight(n, s) == n + s.weight
WeightBefore(i) == FoldLeft(PlusWeight, 0, SubSeq(pool, 1, i - 1))

Weighted(i) ==
  \E target \in 0..(TotalWeight(pool) - 1) :
    WeightBefore(i) <= target /\ target < WeightBefore(i) + pool[i].weight

Draw(i) ==
  /\ pool # <<>> /\ drawn < MaxDraws
  /\ CASE strategy = "round_robin" -> i = Selected
       [] strategy = "random" -> TRUE
       [] strategy = "weighted" -> Weighted(i)
  /\ counter' = IF strategy = "round_robin" THEN (counter + 1) % CounterSize ELSE counter
  /\ uses' = [uses EXCEPT ![i] = @ + 1]
  /\ drawn' = drawn + 1
  /\ UNCHANGED <<pool, strategy>>

\* get_signer_by_pubkey draws nothing.
InPool(key) == \E i \in DOMAIN pool : pool[i].key = key

PoolLost ==
  /\ pool' = <<>> /\ strategy' = "round_robin"
  /\ counter' = 0 /\ uses' = <<>> /\ drawn' = 0

-----------------------------------------------------------------------------
PoolTypeOK ==
  /\ \A i \in DOMAIN pool : pool[i].weight \in 0..(WeightSize - 1)
  /\ strategy \in Strategies
  /\ counter \in 0..(CounterSize - 1)
  /\ uses \in [DOMAIN pool -> 0..MaxDraws]
  /\ drawn \in 0..MaxDraws

(* Round robin shares the transactions evenly among the signers, whoever   *)
(* draws: one more or less, and one more for each time the counter wraps   *)
(* in the middle of the pool (pool.rs:158).                                *)
RoundRobinFair ==
  strategy = "round_robin" =>
    \A i, j \in DOMAIN pool : uses[i] - uses[j] <= 1 + drawn \div CounterSize
=============================================================================
