# Solus Protocol: specification and proofs

Solus Protocol runs three trading agents (Rex, Nova, Sage) in one Node.js
process. Each agent repeats a *cycle* that proposes a swap with one language
model, audits it with another, checks it against nine deterministic rules,
anchors a proof of the decision on the chain, signs it in an encrypted vault,
has a paymaster co-sign it and submits it. The paymaster is Kora, a server in
Rust that the repository carries. This directory holds TLA+ models of both, TLC
runs that check them, and TLAPS proofs. Source paths below are relative to
`src/backend/src/` unless they start with `src/`; files that end in `.rs` are
relative to `src/kora/crates/lib/src/`.

## Inventory

| Component | State | Operations | Talks to |
|---|---|---|---|
| Orchestrator (`agent/agent-orchestrator.ts`) | timers, intervals, running flag, kill switch and last start of each agent | `start`, `stop`, `setOperationalStatus`, `triggerCycle`, timer callbacks | starts cycles without waiting for them; called by `index.ts`, REST, CLI, Telegram |
| Agent cycle (`agent/agent.ts`) | cycle counter, rotation index, locals of each running cycle | `runCycle` | all layers below, in order |
| Price oracle and cache (`price/`) | cache with timestamp, poll timer, fetches in flight | `getPrices`, `start`, `fetchAndCache`, `getExecutionQuote` | CoinGecko, Jupiter; shared by all agents |
| Strategist, Guardian (`brain/`) | none | `reason`, `audit` | DeepSeek, Gemini |
| Policy Engine (`security/policy-engine.ts`) | rate limiter and stop-loss circuit of each agent, in memory | `check`, `resetStopLoss` | reads the volume from the audit log |
| Proof service (`proof/`) | none; writes the chain, the log and the database | `anchor`, `verify` | vault |
| Vault, wallet store (`wallet/`) | encrypted key, starting balance | `create`, `load`, `getBalance`, signing | RPC node, file system or database |
| Broadcast, RPC, Kora client (`protocol/`) | attempt counter of a swap | `executeSwap`, `cosign`, `confirmTransaction` | Jupiter, Kora, RPC node |
| Audit log (`security/audit-logger.ts`) | ring buffer of 1000 entries, file, database | `log`, `getDailyVolumeSOL`, queries | everybody |
| Event bus, REST, Telegram, dashboard, CLI | none that the core reads | commands to the orchestrator | operator |
| Kora: requests (`rpc_server/method/`, `transaction/`) | where each request is | `signTransaction`, `signAndSendTransaction`, `estimateTransactionFee`, `transferTransaction` | usage limit, pool, rules, node, price oracle |
| Kora: rules (`validator/transaction_validator.rs`, `fee/`, `token/`) | none | validate, price, find the payment | account cache, price oracle |
| Kora: usage limit (`usage_limit/`) | uses of each wallet, in Redis | `check_transaction_usage_limit` | Redis |
| Kora: signer pool (`signer/pool.rs`, `state.rs`) | the signers, a round-robin counter | make, draw, look up | every request, the CLI |
| Kora: account cache (`cache.rs`) | entries in Redis with their own time | `get_account` | node, Redis; shared by requests, tracker and CLI |
| Kora: configuration (`config.rs`, `validator/`) | the files, as loaded | load, validate, warn | all of Kora |
| Kora: server (`rpc_server/`) | none | layers for paths, methods and authentication; dispatch | clients |
| Kora: process (`src/kora/crates/cli`, `admin/`, `metrics/`) | how far a command has come, the tracker's turn | `rpc start`, `rpc initialize-atas`, `config validate`, `validate-with-rpc` | all of the above |

What is hard here. JavaScript interleaves at every `await`, and nobody waits
for a cycle: a forced cycle may start 15 seconds after a scheduled one and
overlap it, while both share limiter, circuit and volume. The volume is read
long before it grows. A retry follows an answer that may only have been lost.
Limiter, circuit, volume and kill switch live in memory and vanish at a
restart. Price fetches overlap and may answer out of order. In Kora requests run
on several threads. The usage limit is two calls to a store that may fail or
apply a call whose answer is lost. A transaction is resolved, validated, priced,
paid for and signed in stages, each of which sees accounts and prices of its own
moment, some through a cache that callers overwrite for each other; the
instructions another program makes are only known as the JSON of a simulation.
`PROJECT.json` lists each hazard at its line, with the properties that watch it.

What makes each component correct, in one line each. *Policy Engine*: at most
five approvals in any window; no approval below the stop-loss; a latch that
stays. *Cycle*: nothing reaches the network before all gates, in order, and
with the permitted amount; the log claims no swap that did not happen; every
cycle ends. *Orchestrator*: one schedule per agent; bounded start rate; a kill
switch that brings an agent to rest. *Oracle*: unmarked prices are recent; an
outage is survived. *Audit log*: the volume counts all of today. *Proof*: one
stored record per anchored hash, binding all of the payload. *Wallet*: one key
per agent for ever. *Usage limit*: no wallet gets more than its quota. *Rules*:
the fee payer consents to what its policy allows, loses no more than the limit,
and is paid what it spends. *Pool*: signers share the work. *Cache*: an answer is
as recent as it promises. *Process*: what a command reports is true.

## Modules

| Module | Models | Notes |
|---|---|---|
| `PolicyRules` | checks 1 to 9 and the outcome | operators without state |
| `PolicyEngine` | limiter, circuit, `check`, reset, restart, time | extends `PolicyRules` |
| `PolicyEngineProofs` | theorems about the two | TLAPS |
| `AirGap` | the abstract promise of the seven layers | no code, only the promise |
| `AgentCycle` | `runCycle`, `executeSwap`, the chain | extends `PolicyEngine`, implements `AirGap` |
| `AgentCycleProofs` | theorems about the cycle | TLAPS |
| `Orchestrator` | who starts which cycle when | stands alone; a cycle is a start and an end |
| `OrchestratorProofs` | theorems about the orchestrator | TLAPS |
| `PriceOracle` | fetches, cache, poll, start-up | stands alone |
| `PriceOracleProofs` | theorems about the oracle | TLAPS |
| `AuditLog` | `log`, the daily volume, `getPaginated`, the table's late rows | stands alone |
| `AuditLogProofs` | theorems about the audit log | TLAPS |
| `ProofTrail` | `anchor`, `getProofByHash`, `verify`, restarts | stands alone |
| `ProofTrailProofs` | theorems about the proof of reasoning | TLAPS |
| `KoraInstructions` | reading and rebuilding instructions | operators without state |
| `KoraRules` | resolving, validating, pricing, payments | operators without state, extends `KoraInstructions` |
| `UsageGate` | the abstract promise of a usage limit | no code, only the promise |
| `UsageLimit` | the limit, with its store and its faults | implements `UsageGate` |
| `Paymaster` | the four methods, side by side | composes `KoraRules` and `UsageLimit` |
| `KoraNode` | the node's JSON of an inner instruction, and when a report is true | external; used by `Paymaster` for what it assumes, by `MCPaymaster` for the reports |
| `PaymasterProofs` | theorems about the paymaster and its usage limit | TLAPS |
| `AccountCache` | `get_account` by several callers | |
| `SignerPool` | making the pool and drawing from it | |
| `KoraConfig` | loading, errors and warnings | operators without state |
| `KoraServer` | the layers, and what methods need | operators without state, extends `KoraConfig` |
| `KoraAtas` | looking for and creating token accounts | extends `AccountCache`, `KoraConfig` |
| `KoraCli` | the process and its commands | composes `KoraServer`, `KoraAtas`, `SignerPool` |
| `KoraCliProofs` | theorems about the cache, the pool and the process that uses them | TLAPS |
| `MC*` | small instances | with their `.cfg` files |

**Definitions whose comment begins with "Bug:"** are plausible mistakes in the
definition that follows them. They take part in no specification; each shows
that a property would notice that mistake.

### PolicyRules and PolicyEngine

One `check()` runs without an `await`, so it is one action, `Check(a, req)`. A
request is everything the call is given: decision, balance, prices, quote and
the volume its caller read. Amounts are integers in 1/10000 SOL, the precision
`toFixed(4)` leaves. The limiter is a set of stamps (an instant and a number
that tells pushes of the same millisecond apart). The stop-loss state of an
agent nobody has checked yet is a high of 0: the first call raises it to its
own value, which is what `getStopLossState` stores. Texts of the results are
left out. A process restart empties both maps.

### AgentCycle

A cycle's `stage` is the call it awaits next; each action is what the code does
from one `await` to the next, with every outcome of the call. `Police` reads
the volume and checks in one action, as the code does; `volume` grows in
`Settle` only. `AttemptFails` is the catch of `executeSwap`: a fresh
transaction, or, after the last attempt, `TX_FAILED` or `DEVNET_ALT_SKIP`.
Submission may succeed with the answer lost. The chain (`Land`, `Drop`) is not
part of the repository; it executes a pending transaction once or never. A
restart loses every running cycle but no transaction. `executed`, `overlapped`
and the counters `restarts` and `midnights` are history for the properties.
All amounts are taken as SOL, as check 4 computes them.

`ImplementsAirGap` maps the stages to the gates of `AirGap` (how many layers a
cycle has behind it) and the transactions to its set of sent swaps.

### Orchestrator

Every method is synchronous: one action each. Instants are distances from now,
so the state stays finite although time never ends: a timer is the ticks it
still waits, and `sinceStart` saturates at the cooldown because the code
compares it with nothing larger. A timer may fire late, by at most `MaxLate`.

### PriceOracle

A fetch is a loop of attempts followed by the body. Ages are counted from the
moment CoinGecko answered, so they say what the market did since, whereas the
cache's own timestamp only says when the program stored it. Start-up warms the
cache first; a throw there or out of the poll timer ends the process
(`index.ts:203`), which is the phase `dead`. The short pause between attempts
(0.5 s and 1 s) is below the model's tick.

### AuditLog

`log()` is synchronous: one action writes file and buffer and sends the row.
The file is the complete history, with an entry's place in it as its identity.
`getDailyVolumeSOL`'s filter is a set of entries, its `reduce` a recursive
function over the buffer (`Total`).
A row in flight lands or fails at any later time, also after a restart.
`production` is chosen once, as `NODE_ENV` is. A client of `GET /api/logs` asks
for page after page until one is not full; it is not part of the repository
(the dashboard only reads the first page). In development a page is a slice of
the buffer. In production it is any set the query may return: rows with equal
`ts` have no order. The `total` of the answer comes from a second query and is
left out.

### ProofTrail

A run is a cycle that reached Layer 5. `Anchor` is `anchor()` up to its await,
`Record` is what follows when the memo is confirmed, up to the log entry. The
memo's fate belongs to the chain: `AnchorFails` does not mean that it is not
there. A JSON object is its fields with the order of their names, because the
database changes that order and the serialization has to undo it. `Stringify`
does what `JSON.stringify` does with an array as its second argument: the names
in it are the only ones written, at every depth. SHA-256 is taken to be
injective. That a process takes longer than a millisecond to come up, and that
the clock is not set back, is what keeps the hashes of two processes apart.

### KoraInstructions and KoraRules

An instruction is a record: program, kind, accounts, amount, the authority its
data names, and whether its data is more than a tag. Tables say for each kind
which account the code takes for the authority, where the lamports go, and which
names of the node's JSON the rebuilt instruction gets its accounts from; the
code spells these tables out in some three thousand lines of match arms.
Instructions come in the three forms of a simulation's answer (compiled, parsed,
partially decoded). `KoraNode` says what the node makes of each kind, from the
names the code looks up, so that a table that takes the wrong name shows.

`Valid`, `KoraFee` and `PaymentSuffices` follow the order of the code's checks
and its early returns. u64 arithmetic is checked, with `MaxU64` scaled down and
`FAILED` for every error. A price is a fraction of integers: the code's
`Decimal` is exact in the range considered. Mints come out of a hash map, so in
any order.

### UsageLimit and Paymaster

A *seat* is a request's place in the limit, a *slot* its place in the server.
`ReadCount` and `IncrementUse` are the two calls to the store; each may fail,
and `IncrementFails` may have counted. Nothing is given back when a later stage
fails. Each action of `Paymaster` is one await to the next; its view is any
mixture of the accounts as they are and what the cache may still say. What the
cache may say is the promise of `AccountCache`, in place of its state: `oldest`
is the oldest value of each account that an answer may still be. A failing call
ends the request, wherever it is (`CallFails`).

`ImplementsGate` maps the counted uses to the uses of `UsageGate`, whose cap is
higher than the configured maximum by the other requests in progress
(`Ceiling`): that many may have read the same count.

### AccountCache, SignerPool, KoraAtas

Ages in seconds replace instants, so there is no clock: `since` says how long
ago an account last held a value, `entry.age` is the cached entry's age by its
own stamp and `entry.left` what Redis gives it. Reading the node, stamping and
writing are separate steps. The pool's counter is a word that wraps
(`CounterSize`), as is the sum of weights (`WeightSize`). The job of the token
accounts asks the cache for one account at a time and creates chunks; the
account it looks for is always the SPL program's, whatever program owns the mint.

### KoraConfig, KoraServer, KoraCli

A file is the settings it gives; what it leaves out gets the code's default. An
error or warning is a name. An address is any string, `PublicKeys` are those
that parse. `validate-with-rpc` reads the chain for all of the configuration in
one step (`ValidateWithRpc`), and then looks for the token accounts step by
step. The server's stages are those of `rpc start`; from `serving` on, requests
of the scenario arrive in any order. The files of a scenario do not change while
a process runs, and it is killed and run again as often as it likes.

## Runs

| Run | Instance | States | Checks |
|---|---|---|---|
| `policy` | Rex's limits, 2 approvals per 2 ticks, 5 ticks, 14 requests | 15 thousand | `PolicyTypeOK`, `RateLimitWindow`, `NoSwapBelowStopLoss`, `StopLossLatches` |
| `cycle` | 2 cycles of one agent, 1 retry, 1 restart, 1 midnight, 1 tick of time, cap for one swap | 980 thousand | `TypeOK`, `DailyCapUnlessUnrecorded`, `RecordedOvershootBounded`, `VolumeIsExecuted`, `ImplementsAirGap`, `CycleEnds` |
| `schedule` | 2 agents, interval 4, cooldown 2, timers up to 1 tick late, up to 2 cycles in flight | 180 thousand | `TypeOK`, `OneScheduleEach`, `ScheduledSpacing`, `ForcedSpacing`, `StartRateBounded`, `KeepsCycling`, `PausedQuiesces` |
| `prices` | 1 caller, 2 polls, 3 attempts, TTL and poll of 3 ticks | 68 thousand | `TypeOK`, `FreshIsRecent`, `OutageIsSurvived`, `FetchEventuallyEnds`, `PollKeepsFresh` |
| `audit` | 2 agents, buffer of 2, pages of 1, 3 entries, 3 instants on 2 days | 572 thousand | `TypeOK`, `VolumeUpToEviction`, `PagesMissNothing` |
| `proof` | 2 runs of 2 agents, 3 instants, any number of restarts | 216 thousand | `TypeOK`, `FoundProofsVerify`, `SwapsAreProven`, `HashBindsCycle` |
| `paymaster` | 2 slots, 12 scenarios: every instruction in every form, ten priced requests with 2 moves of the world, 3 requests side by side | 56 thousand | `TypeOK`, `SignaturesLimited`, `ImplementsGate`, `PolicyRespected`, `CostBounded`, `Solvent`, `QuoteSuffices` |
| `kora_cli` | 34 scenarios of files, secrets and accounts; up to 3 signers, 8 draws, counter of 4, TTL of 3 s, calls of up to 1 s | 61 thousand | `TypeOK`, `AnswersRecent`, `RoundRobinFair`, `ReportsAreTrue` |
| `tamper` | as `proof` | violated | `TamperEvident` |
| `overlap` | 2 cycles, no retry, no restart | violated | `OverlapKeepsDailyCap` |
| `failed_swap` | 1 cycle, 1 retry | violated | `FailedSwapMovedNothing` |
| `modified` | 1 cycle, 1 retry | violated | `ModifiedAmountApplied` |

Why these bounds are enough. *policy*: a violation of a sliding window needs
one approval more than fits and two instants; the run has room for windows that
begin, overlap and expire, and the proofs cover all sizes. Requests are chosen
at both sides of every check's boundary. *cycle*: a lost update takes two
cycles; the cap admits one swap of 1800 but not two; `MAX_RETRY` is 1 in the
code too. The rate window outlasts this run on purpose: `policy` checks it.
*schedule*: 60 s, 15 s and a late timer keep their order as 4, 2 and 1 ticks;
two agents show that schedules are independent. `MaxInFlight` stops the clock,
not the buttons, so bursts are still seen. *prices*: a fetch takes at most
3 x 1 + 2 ticks, less than two poll intervals, so two poll slots never run out.
A tick is ten seconds. *audit*: the third entry evicts the first, a page
boundary lies between any two entries, and a second day begins within the
three instants. *proof*: a collision takes two runs, of one agent, in two
processes. Agents are interchangeable in both, so they are declared symmetric.
*paymaster*: an instruction is judged by itself, so one at a time is enough, in
each form, with the payer's consent and with another's, under an open and a
closed policy. The priced requests differ in what the payer spends, in the token
paid, and in where its account comes from (a lookup table, an account being
created, a token that withholds a fee), with prices that make both roundings
bite. The race needs two requests in progress and a third to show the count
after them; the proofs cover any number. *kora_cli*: each bad file breaks what
one method, or one validator, depends on. Three signers and a counter of four
make a wrap cut a round short; the cache needs a second caller, one moving
balance and a read that outlasts the time to live.

Deadlock is checked in `policy`, `audit`, `proof`, `paymaster` and `kora_cli`
(where a restart is always possible) and `schedule`. It is off where the system really stops: when every cycle has
ended, and when the process has died.

### Fairness

`AgentCycle` assumes weak fairness of each cycle's steps: every awaited call
returns or is failed by its client (`fetchWithTimeout`, the Kora timeout, the
HTTP clients and the RPC library). `CycleEnds` is stated as a variant: each step
of a running cycle lowers the number of awaits it can still have ahead of it
(`AwaitsLeft`), so that with this fairness the cycle ends. `Orchestrator` assumes that time passes,
that the event loop runs due timers, and that cycles end, which is `CycleEnds`.
`PriceOracle` assumes that time passes, due timers fire and an attempt or body
ends one way or the other; that CoinGecko ever answers is not assumed. No
fairness is assumed for operators, the chain, restarts or midnight; `AuditLog`,
`ProofTrail`, `Paymaster` and `KoraCli` state no liveness and assume none.

## What the runs show

The passing properties say that the daily cap holds *unless* cycles overlap,
the process restarts, or a landed swap is missing from the log
(`DailyCapUnlessUnrecorded`), and that even then the recorded volume overshoots
by at most one maximal swap per further cycle (`RecordedOvershootBounded`). `VolumeUpToEviction` says what the volume read by check 5 can
miss: only the agent's own evicted swaps, and those of earlier processes.
`PagesMissNothing` holds although every request recomputes its page, because
new entries and late rows only move others to later pages; rows with equal
`ts` are the exception, for which `ORDER BY ts` needs a second column.
`FoundProofsVerify` and `SwapsAreProven` say that a proof that is found is
really on the chain and of its own cycle.

Of the paymaster: a signature lets the payer be used only as its policy allows
and within `max_allowed_lamports`, also through inner instructions, which are
judged as they are executed and not as they were rebuilt (`PolicyRespected`,
`CostBounded`); one exception is named in `Unjudged`, kinds that the code
rebuilds from their tag alone. Under margin and strict pricing what is paid
covers what is spent, although fee and payment are judged at different moments
(`Solvent`), and a wallet that adds a payment of the estimate has paid
enough while nothing moves (`QuoteSuffices`, with its conditions). The usage limit is exceeded by at most the
other requests in progress (`SignaturesLimited`, `ImplementsGate`); with
`fallback_if_unavailable` on it promises nothing. Answers of the cache are no
older than the time to live and one slow call (`AnswersRecent`), draws are even
up to one per wrap of the counter (`RoundRobinFair`), and what the commands
report is true (`ReportsAreTrue`) with the exceptions its definition names:
programs that are no addresses, which only the validation with RPC notices, and
`--no-load-signer`.

The four violated statements are disagreements between the code and what the
repository says of it:

* `OverlapKeepsDailyCap`. Both cycles read the same volume, both pass check 5,
  together they exceed the cap. `agent/agent-orchestrator.ts:15`: "Cycle overlap
  is safe by design"; `src/backend/DEEP_DIVE.md:731`: no output of the model
  "can exceed" the cap. A reservation made together with the check (as the rate
  limiter does) would close it.
* `FailedSwapMovedNothing`. A balance request that fails after a confirmed swap,
  or a lost confirmation, ends in `TX_FAILED`; `notifications/telegram-bot.ts:293`
  then says "No funds were lost".
* `ModifiedAmountApplied`. Check 4 overwrites the amount the Guardian has
  lowered; `src/backend/DEEP_DIVE.md:275` says it is "applied before proceeding".

* `TamperEvident`. The array given to `JSON.stringify` filters nested names too:
  decision, verdict, checks and prices are hashed as `{}`, so a record changed
  there still verifies. `proof/proof-service.ts:172-173` and
  `src/backend/DEEP_DIVE.md:550` say otherwise. `HashBindsCycle` says what is
  left: agent, cycle, time, and time of the prices. Sorting the keys
  recursively, with a replacer function, would close it.

Seen while reading, and not checked by a run:

* `security/audit-logger.ts:136` calls the volume the total traded today; it is
  the total of the last 1000 entries of all agents, within this process.
* `src/backend/DEEP_DIVE.md:623` says failed writes go to the winston file;
  `proof/proof-service.ts:158` writes them to stderr only.
* `README.md:30` of the repository promises that a tripped stop-loss pauses the
  agent and notifies; the code only forces HOLD.
* `price/price-cache.ts:3` says one live call per 30 s; start-up fetches twice
  and concurrent misses fetch concurrently.
* `protocol/solana-rpc.ts:107` says confirmation has a 30 s timeout; none is set.
* `brain/guardian-service.ts:105-108` says that any failure is a safety veto and
  that `audit` never throws; the prompt is built outside the try block, and a
  missing `SKILLS.md` makes the cycle end with `CYCLE_ERROR` instead.
* `wallet/vault.ts:259` swallows a failed token fetch: the portfolio seems to
  fall and the stop-loss may latch for good.
* `agent/agent.ts:36-37` says all pairs get evaluated over time; the index runs
  over a list that is re-sorted each cycle, so a pair may be skipped for ever.

And in Kora:

* `usage_limit/usage_tracker.rs`: the server refuses to start when Redis is away
  even with the fallback on, which `validator/cache_validator.rs` announces as a
  mere warning; counts never expire, although the setting speaks of a limit per
  wallet without a period.
* `validator/config_validator.rs` warns that a rate limit of 0 "will block all
  requests"; the layer panics, and the server does not start. Allowed programs
  are not parsed without RPC, and a wrong one fails every signing request.
* `config validate` and `validate-with-rpc` exit with 0 whatever they find
  (`src/kora/crates/cli/src/main.rs:128`, `:136`, `:144`). The flags `--api-key`
  and `--hmac-secret` are parsed and never used.
* `admin/token_util.rs:85` says the creation of token accounts "does not use
  cache"; line 276 reads through it. Accounts of Token-2022 mints are looked for
  at the SPL program's address and created at the other, so a second run fails
  and `validate-with-rpc` always reports them missing.
* `cache.rs`: a forced refresh may be overwritten by an older read of another
  caller; the promise that holds is the one of `AnswersRecent`.
* `fee/fee.rs`: the payment counts twice when the payment address is the fee
  payer itself; strict pricing judges nothing when its price is worth no
  lamport; rent of token accounts is not part of a `transferTransaction`'s limit.
* `transaction/instruction_util.rs`: inner instructions of some kinds are rebuilt
  with too few accounts and make the request fail, others from their tag alone.

## Proofs

`PolicyEngineProofs` proves, for every set of agents, every profile, limit,
window and set of requests:

| Theorem | Statement |
|---|---|
| `SafeAmountBounded` | check 4 returns an amount in `0..maxTx` |
| `PolicyTypeCorrect` | `PolicySpec => []PolicyTypeOK` |
| `RateLimitWindowHolds` | `PolicySpec => []RateLimitWindow` |
| `NoSwapBelowStopLossHolds` | `PolicySpec => []NoSwapBelowStopLoss` |
| `StopLossLatchesHolds` | `PolicySpec => StopLossLatches` |

The assumptions are those the modules declare: profiles and requests have their
types, limit and reserve are natural numbers, the window is positive.

*Rate window.* The property speaks of all approvals ever, the code looks only at
a list it purges. The inductive invariant adds `LimiterInv` (the limiter is a
finite set of approvals with distinct, issued numbers and past instants, and no
approval inside the window that ends now is missing from it) and `WindowInv`
(every window that ends at an approval is within the limit). A new approval
closes a window that is exactly `Recent` plus one, and check 6 has just found
`Recent` below the limit; windows that ended earlier do not change because no
approval is inserted in the past.

*Stop-loss.* `StopLossInv` says that the stored high is the peak of the session.
An approval then means that check 9 found no breach against that very high.
`StopLossLatches` needs only the types: an approval requires that no check
failed, and check 9 fails while the latch is set.

`AgentCycleProofs` proves, for every finite set of numbered cycles
(`CyclesAssumption`) of any agents (`OwnerAssumption`), any number of retries
(`RetryAssumption`), restarts and midnights, and every set of decisions that is
not empty (`DecisionAssumption`), with the assumptions of the policy:

| Theorem | Statement |
|---|---|
| `CycleTypeCorrect` | `Spec => []TypeOK` |
| `RecordedOvershootHolds` | `Spec => []RecordedOvershootBounded` |
| `CycleEndsHolds` | `Spec => CycleEnds` |
| `ImplementsAirGapHolds` | `Spec => ImplementsAirGap` |
| `VolumeIsExecutedHolds` | `Spec => []VolumeIsExecuted` |
| `DailyCapHolds` | `Spec => []DailyCapUnlessUnrecorded` |

*Cycle.* One lemma, `StepShape`, says of every step what it makes of its cycle:
it goes on, is permitted a swap, retries, gives up or succeeds, and only
`Submit` touches the network. All else is argued about these five shapes. The
invariant `CycleInv` adds to the types: a transaction of an attempt exists only
once its cycle has come to send that attempt (`SentInOrder`), so the amount is
never changed after it was sent; a permitted swap fits into the cap together
with what was recorded when it was permitted, and each cycle confirmed since
makes room for one maximal swap more (`Fits`, `Counted`, `Room`). Midnights and
restarts empty the volume and only make more room. The refinement is then one
case per shape (`StepRespectsAirGap`), and the end of a cycle one inequality
between places in its course (`StepShortens`); that the awaits are not endless
is proved, that each is taken is the fairness.

*Books.* That the recorded volume is at most what the chain executed is not
inductive: a swap lands long before its cycle records it. `BookInv` adds what is
*owed*, the swaps that landed and that no entry counts yet: until the first
midnight, volume and owed together are at most what was executed, and `Settle`
pays from what is owed, because what it settles has landed (`Settled`). A sum
over cycles is the size of a set of pairs, a cycle and one of its units, so no
sum has to be defined by recursion. For the daily cap `CapInv` argues within the
histories the property speaks of (no overlap, no restart, no landed swap left
out): one cycle of an agent at a time (`OneAtATime`); while it runs, what was executed
exceeds the volume by at most its amount, by nothing before it has landed, and a
permitted amount fits below the cap (`InHand`); while none runs, it does not
exceed the volume (`Level`).

`OrchestratorProofs` proves, for every number of agents, all offsets, intervals,
cooldowns and latenesses (`OffsetAssumption`, `IntervalAssumption`,
`CooldownAssumption`, `LateAssumption`, `InFlightAssumption`):

| Theorem | Statement |
|---|---|
| `OrchTypeCorrect` | `Spec => []TypeOK` |
| `OneScheduleEachHolds` | `Spec => []OneScheduleEach` |
| `ScheduledSpacingHolds` | `Spec => []ScheduledSpacing` |
| `ForcedSpacingHolds` | `Spec => []ForcedSpacing` |
| `StartRateIsBounded` | `Spec => []StartRateBounded` |

*Orchestrator.* `OnSchedule`: the age of a scheduled start and the time its
interval still waits add up to at least the interval, so the interval fires only
when that start has left the history; lateness can only widen the sum. `Apart`:
starts that follow one another are a cooldown apart each, except that a
scheduled start asks for no cooldown, and there is at most one of these in an
interval. `Rested` ties the cooldown the code reads to the youngest start. The
rate is then a division: `n` starts span at least `n - 2` cooldowns, and less
than the interval.

`AuditLogProofs` proves, for every number of agents, all amounts, and every size
of the buffer and of a page (`BufferAssumption`, `LimitAssumption`,
`AmountAssumption`; `BoundsAssumption` only says that the bounds of a behaviour
are numbers):

| Theorem | Statement |
|---|---|
| `LogTypeCorrect` | `Spec => []TypeOK` |
| `VolumeUpToEvictionHolds` | `Spec => []VolumeUpToEviction` |
| `PagesMissNothingHolds` | `Spec => []PagesMissNothing` |

*Audit log.* `Buffered`: the buffer is the file without its first *k* entries,
where *k* is where this process began, or the buffer is full. The volume follows
by induction over the length of the buffer (`Total` is a recursive function, and
the induction is by the least counterexample, see below). `BehindRows` and
`BehindBuffer` say of an entry the client still misses that there is a full page
of newer ones above it for each page the client has had: new entries only push
it further down, a page that is not full has reached it, and rows of one `ts`
are what the property excepts.

`ProofTrailProofs` proves, for every number of agents, cycles and restarts
(`BoundsAssumption`: the bounds are numbers):

| Theorem | Statement |
|---|---|
| `TrailTypeCorrect` | `Spec => []TypeOK` |
| `FoundProofsVerifyHolds` | `Spec => []FoundProofsVerify` |
| `SwapsAreProvenHolds` | `Spec => []SwapsAreProven` |
| `HashBindsCycleHolds` | `Spec => []HashBindsCycle` |

*Proof trail.* A process numbers its cycles from 1 again, so hashes could meet
across restarts. `Passed` says that every earlier cycle of an agent has a number
this process has passed or was stamped before now, and `CyclesDiffer`, that no
two cycles of an agent share number and time, follows; with it a hash stands for
one cycle. `RecordsTell` then says of every record, stored or on its way and in
either order of its names, that it tells a cycle whose memo has landed. What the
serialization writes is computed name by name (`KeysListed`), for objects of
any order.

`PriceOracleProofs` proves, for any callers, polls, time to live, timeouts and
number of attempts (`TimesAssumption`):

| Theorem | Statement |
|---|---|
| `OracleTypeCorrect` | `Spec => []TypeOK` |
| `FreshIsRecentHolds` | `Spec => []FreshIsRecent` |
| `OutageIsSurvivedHolds` | `Spec => OutageIsSurvived` |

*Oracle.* `OracleInv` follows a price on its way: while its body arrives it is
as old as the wait (`BodyAges`), in the cache it is older than the cache's
timestamp by at most one body (`CacheAges`), also when a late fetch overwrites a
newer one. A process that serves has data to fall back on (`CanFallBack`).

The proofs about Kora hold for every number of slots, wallets, signers, accounts
and callers, every configuration, and every width of the counter:

| Theorem | Statement |
|---|---|
| `PaymasterProofs!UsageTypeCorrect` | `UsageSpec => []UsageTypeOK` |
| `PaymasterProofs!SignaturesLimitedHolds` | `UsageSpec => []SignaturesLimited` |
| `PaymasterProofs!ImplementsGateHolds` | `UsageSpec => ImplementsGate` |
| `PaymasterProofs!ImplementsUsage` | `Spec => UsageSpec` |
| `PaymasterProofs!PaymasterLimitsSignatures` | `Spec => []SignaturesLimited` |
| `PaymasterProofs!PaymasterImplementsGate` | `Spec => ImplementsGate` |
| `PaymasterProofs!RequestInvariant` | `Spec => []RequestInv` |
| `PaymasterProofs!PaymasterTypeCorrect` | `Spec => []TypeOK` |
| `PaymasterProofs!PolicyRespectedHolds` | `Spec => []PolicyRespected` |
| `PaymasterProofs!CostBoundedHolds` | `Spec => []CostBounded` |
| `PaymasterProofs!SolventHolds` | `Spec => []Solvent` |
| `PaymasterProofs!TokensCover` | what `TokensFor` asks has a `TokenValue` of at least the lamports it stands for |
| `PaymasterProofs!QuoteSufficesHolds` | `Spec => []QuoteSuffices` |
| `KoraCliProofs!AnswersAreRecent` | `Spec => []AnswersRecent` |
| `KoraCliProofs!RoundRobinIsFair` | `Spec => []RoundRobinFair` |
| `KoraCliProofs!KoraTypeCorrect` | `Spec => []TypeOK` |
| `KoraCliProofs!ReportsHold` | `Spec => []ReportsAreTrue` |

*Usage limit.* A request that has read a count below the maximum will increment
whatever others do, so the count alone is not inductive. `UsageInv` weighs, for
each wallet, the uses counted together with the requests that have room
(`RoomBounded`: never above the ceiling), and the signatures together with the
requests admitted and not yet answered (`SignedIsCounted`: never above the
count). Each step moves one seat, and the lemmas say what that does to the two
sums. Slots must be finite.

*Paymaster.* Every step of a request is a step of its seat or leaves the limit
alone, so `Spec` implements `UsageSpec` without any invariant, from
`SenderAssumption` (whoever sends a request is one of `Wallets`) and
`PaymasterAssumption`; `PaymasterLimitsSignatures` and `PaymasterImplementsGate`
are corollaries.

*Policy.* A transaction is judged when it is validated and executed when it is
signed; in between prices move, accounts change, tables grow and the process may
ask the oracle three times. `PolicyRespected` says nothing of a request that is
not signed yet, so `RequestInv` carries the judgement along: a request beyond
resolution can be resolved with the tables of the chain as they are now, and one
beyond validation is permitted (`Permits`) as it would be resolved now. It holds
in every state of the run `paymaster`, where TLC checked it before the proof.
Three things make it inductive and give the theorem:

- A stage may see an older table than the chain's, but an index resolved in a
  table names the same account in every extension of it (`SameKeys`,
  `TablesGrow`, `StaysResolved`), so what was judged is what is executed.
- What the code rebuilds of a parsed inner instruction is of the same type and
  needs the consent of the same accounts as the instruction that ran, or it is
  malformed, which refuses the transaction (`InnerIsJudged`). That is proved
  over the tables of the match arms: for every kind but those in
  `TagOnly`, the names under which accounts are looked up lead each authority
  to the position at which the code will take it (`SystemMatches`,
  `TokenMatches`).
- An instruction that was permitted, in any of its forms, is among those judged,
  however many are dropped before it (`InnerKept`).

Assumed are: a lookup table is only ever extended, and what cannot be fetched
is not taken for one (`TablesAssumption`: the chain's rule; a table that is
closed and refilled takes longer than a request); reports of the node are true,
and the chain runs nothing on accounts the transaction does not list
(`NodeAssumption`, with `Truthful` of `KoraNode`). TLC evaluates both on the
instance. The proof also showed where the model was not well defined: arms of a
`CASE` that overlapped (`Reconstruct`, `KoraBuilt`, `PaidBy`), whose value was
TLC's choice of the first; they are conditionals now, in the order of the code.

*Cost of the paymaster.* `RequestInv` carries two more judgements to the
signature. A validated transaction has an outflow by the system program of at
most `max_allowed_lamports` (`Permits`); a priced one is owed at least the base
fee and that outflow, and past the payment no more than was paid (`Solid`). The
outflow is what the code computes: three passes over the transaction, one for
each type of instruction, with checked additions and subtractions that stop at
zero. The properties speak of the plain sum over what is executed, so two facts
about sums connect them, each by the least counterexample along a recursive
function:

- The passes together are never below the plain sum, in whatever order it is
  taken: a subtraction that stops at zero only makes the outflow larger
  (`OutflowOfIs`, `OutflowIsEnough`). What token transfers add is never
  negative, so the whole outflow is at least that of the system program
  (`SplOutflowIs`, `OutflowCovers`).
- Inner instructions are rebuilt with the payer on the same side and the same
  amount (`RebuiltMoves`), and those dropped move no lamports of the payer, so
  the sum over what was judged is the sum over what is executed (`NetOfAll`,
  `InnerMoves`).

`FeeCovers` adds that a margin and rounding up only raise the fee. Beyond the
assumptions above, amounts are u64 (`AmountsAssumption`), as their type in the
transaction says, the margin is not negative, which the configuration's validator
requires (`validator/config_validator.rs:468`), and the limit is a u64.

*Estimates.* `QuoteSuffices` compares two runs of the fee and one of the
payment: over a transaction, and over the same with one transfer behind it.
No inductive invariant beyond `RequestInv` is needed, which says that the
transaction of a request about to be priced is a list of instructions with u64
amounts; the rest is about the operators:

- A transfer appended to the instructions is appended to the token transfers
  (`FlattenMore`, `TransferAppended`), and changes neither the system program's
  outflow (`SystemUnmoved`) nor whom an earlier transfer pays (`PayeeStays`).
- What leaves by tokens is counted with subtractions that stop at zero, mint
  after mint. A refusal is taken to be above every number (`AtMost`); then each
  step keeps the order of two totals (`CountsMore`), the payment itself is
  nothing to the payer or comes in (`CountsLess`), and so the outflow with it is
  at most the outflow without (`LeftLess`, `OutflowLess`). This takes the same
  order of the mints in both. The code takes the order of a hash map; with
  another one a subtraction may stop at zero that did not before, and the fee
  may be larger.
- The payment is found, and nothing is withheld (`AnalysedAlike`), so the
  components are at most what they were (`PartsLess`), and so is the fee under
  every price model (`MarginLess`, `OwedLess`).
- What is paid is what was paid before and the payment's value (`PaidMore`,
  `PaymentCounts`), which is at least the fee it stands for (`TokensCover`).

The statement names its conditions: the token keeps no share of a transfer, what
is paid in all is a u64 (near 2^64 the sum of two payments is refused although
each is valid), none of the accounts has a blocked extension (a mint with one is
estimated and then not accepted), both token accounts exist, and any wallet but
the fee payer moves the tokens. Assumed are that a price is a natural number over
a positive one, and that payments go to some account, as `get_payment_address`
does (`PaymasterAssumption`).

*Types of the paymaster.* That a fee is a u64 is a fact about chains of checked
additions: what is not refused is in range and so is every part
(`CheckedSumIs`, `FeeTyped`), for each of the price models.

*Cache.* `CacheInv` follows a value on its way: just read it is as old as the
read, stamped it is older by at most one slow call, and so is an entry than its
own age. What changes an account or lets a second pass makes no value older
than that allows. `KoraInv` adds that the tracker and the job only ask for
accounts of the instance (`ScenariosAssumption`).

*Reports.* `ReportInv` has three parts. `JobProgress` says that an address is
left or done, and that a mint of the first one left is still to be looked for,
found, or planned; it moves along with every chunk, confirmed or not. That an
answer of the cache means an account was found needs the cache's own invariant:
an answer is a value held within the promised time, the address of a token
account never held anything else (`OnlyTokenAccounts`), and whatever was open in
that time is in `opened` (`OpenedLately`). `Course` says what a process has
passed to be where it is: one that serves was validated without errors and has
signers, and `ValidIsUsable` turns the absence of errors into what each handler
needs. `ScenariosAssumption` says what this takes from the files and the chain:
weights are machine words, strategies are the three of the code, and what is
found at the address of a token account is one. The last is the chain's rule for
accounts made by the program; it leaves out lamports sent to an address before
the account is made, which `find_missing_atas` cannot tell from it
(`admin/token_util.rs:276`).

*Round robin.* The invariant counts which of two positions the present round has
already reached, and one more for each wrap, which cuts a round short. It needs
uniqueness of quotient and remainder, proved first.

Only model-checked: `KeepsCycling`, `PausedQuiesces`, `FetchEventuallyEnds` and
`PollKeepsFresh`, which hold under fairness; fairness needs `ENABLED`, which is
out of the prover's reach. Induction is within it only as far as it needs no
operator for an argument: `AuditLogProofs` takes the least counterexample of a
set of numbers (`LeastNumber`, from the well-foundedness of `<`),
`PaymasterProofs` climbs from 0 to the length (`Climb`); that serves a recursive
function but not a library fold, so the sums the proofs speak of are
recursive functions in the model. No module declares a `RECURSIVE` operator.

## Not modelled

Event delivery, Telegram texts, the dashboard and the backend's CLI carry no
state the core reads back. Cryptography is a library call. `AgentCycle` sees the
paymaster as a call that co-signs or fails; `Paymaster` says when. Spread
arithmetic, quotes and prompts are inputs: any request in `Requests` may come
out of them. Creation of wallets, airdrops and the pre-scan rotation are left
out. Of Kora: key files (`signer/keypair_util.rs`, used by tests only), OpenAPI
documents, HTTP counters (`metrics/middleware.rs`), the services that hold keys,
the request to Jupiter, and the wording of errors.

## Plan

Done: all modules above. Left, in this order:

1. Compose `AuditLog` with check 5: the daily cap in terms of the buffer's
   length and the rate of entries.
2. Creation of wallets with crashes, and the balance with its swallowed failure
   composed with the stop-loss.
3. The pre-scan over a list that changes; liveness for a stable list, and the
   statement of `agent/agent.ts:36-37`.

