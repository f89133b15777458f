------------------------------- MODULE KoraCli --------------------------------
(***************************************************************************)
(* The paymaster's process, from its command line to its end               *)
(* (cli/src/main.rs): loading and validating the configuration, starting   *)
(* the server and what runs in it (server.rs, metrics/), and creating the  *)
(* token accounts.  It composes the configuration's rules, the signers,    *)
(* the cache of accounts and the accounts' job.  Redis may answer or not   *)
(* at every step, and the process may be killed at any time; what Redis    *)
(* and the chain hold stays.                                               *)
(***************************************************************************)
EXTENDS KoraServer, KoraAtas, SignerPool

CONSTANTS
  Scenarios,      \* situations: the files, the environment, the accounts
  Tracker,        \* the balance tracker's reader
  Request         \* the reader of a request being handled

VARIABLES
  scen,         \* the scenario, by name
  command,      \* the command of the process
  stage,        \* how far it has come
  reported,     \* what the validators said: "nothing", "valid", "errors"
  warned,       \* the warnings printed before the server started
  balances,     \* positions of the pool whose balance is still to be read
  response      \* the last answer of the server

cliVars == <<scen, command, stage, reported, warned, balances, response>>
vars == <<cliVars, ataVars, cacheVars, poolVars>>

Case == Scenarios[scen]
Conf == Loaded(Case.file)
SignersFile == Case.signers

\* Whose token accounts a command may look for.
OwnersOf(c) ==
  ({Loaded(c.file).paymentAddress} \cap PublicKeys)
  \cup IF c.signers.given THEN {s.key : s \in Range(c.signers.signers)} ELSE {}

\* The token accounts it may find or create.
TokenAccounts(c) ==
  {Ata(o, m) : o \in OwnersOf(c), m \in MintsOf(Loaded(c.file))}
  \cup {Ata2022(o, m) : o \in OwnersOf(c), m \in MintsOf(Loaded(c.file))}

\* A signer's weight is a machine word.
SignerAssumed(s) == s.key \in Keys /\ s.weight \in {NoWeight} \cup 0..(WeightSize - 1)

\* What is found at the address of a token account is one: nobody has sent
\* lamports to it before, which get_account could not tell from the account.
AccountsAssumed(c) ==
  /\ MintsOf(Loaded(c.file)) \cup TokenAccounts(c) \subseteq Keys
  /\ \A k \in TokenAccounts(c), v \in Values :
       c.accounts[k] = v \/ <<k, v>> \in c.moves => v \in {Absent, "open"}

\* A scenario is about the accounts of the instance.
ASSUME ScenariosAssumption ==
  /\ {Admin, Tracker, Request} \subseteq Readers /\ Admin \notin {Tracker, Request}
  /\ "open" \in Values
  /\ \A x \in DOMAIN Scenarios :
       LET c == Scenarios[x]
       IN  /\ c.accounts \in [Keys -> Values] /\ c.chunk \in Nat
           /\ c.read \subseteq Keys /\ c.moves \subseteq Keys \X Values
           /\ c.signers.given => /\ c.signers.signers \in Seq(Range(c.signers.signers))
                                 /\ c.signers.strategy \in Strategies
                                 /\ \A s \in Range(c.signers.signers) : SignerAssumed(s)
           /\ CanLoad(c.file) => AccountsAssumed(c)

Init ==
  /\ scen \in DOMAIN Scenarios
  /\ CacheInit([k \in Keys |-> Case.accounts[k]])
  /\ PoolInit
  /\ job = NoJob /\ opened = {}
  /\ command = "none" /\ stage = "off" /\ reported = "nothing" /\ warned = {}
  /\ balances = {} /\ response = "none"

-----------------------------------------------------------------------------
AtStage(s) == stage = s

GoTo(s) == stage' = s /\ UNCHANGED <<scen, command, reported, warned, balances, response>>

Launch(c) ==
  /\ AtStage("off") /\ c \in Case.commands
  /\ command' = c /\ stage' = "load"
  /\ UNCHANGED <<scen, reported, warned, balances, response>>
  /\ UNCHANGED <<ataVars, cacheVars, poolVars>>

\* The components are left alone.
Alone == UNCHANGED <<ataVars, cacheVars, poolVars>>

Load ==
  /\ AtStage("load") /\ Alone
  /\ GoTo(CASE ~CanLoad(Case.file) -> "failed"
            [] CanLoad(Case.file) /\ command = "initialize-atas" -> "signers"
            [] OTHER -> "validate")

Report(errors, warnings) ==
  /\ reported' = IF errors = {} THEN "valid" ELSE "errors"
  /\ warned' = warnings
  /\ UNCHANGED <<scen, command, balances, response>>

\* config validate ignores what it has said; rpc start stops at an error.
Validate(redis) ==
  /\ AtStage("validate") /\ command \in {"validate", "start"} /\ Alone
  /\ LET errors == Errors(Conf, SignersFile, Case.env, redis)
     IN  /\ Report(errors, Warnings(Conf, SignersFile, redis))
         /\ stage' = CASE command = "validate" -> "exited"
                       [] command = "start" /\ errors # {} -> "failed"
                       [] OTHER -> "signers"

\* With RPC calls; then the payment address's token accounts are looked for.
ValidateWithRpc(redis, down) ==
  /\ AtStage("validate") /\ command = "validate-with-rpc"
  /\ UNCHANGED <<cacheVars, poolVars>>
  /\ LET errors == Errors(Conf, SignersFile, Case.env, redis)
                   \cup ChainErrors(Conf, account) \cup Named("node", down)
     IN  /\ Report(errors, Warnings(Conf, SignersFile, redis) \cup ChainWarnings(Conf, account))
         /\ IF Conf.paymentAddress \in PublicKeys
            THEN Begins(<<Conf.paymentAddress>>, FALSE, 0) /\ stage' = "atas"
            ELSE UNCHANGED ataVars /\ stage' = "exited"

\* init_signers; a signer kept elsewhere may not answer.
CanInitSigners ==
  /\ SignersFile.given /\ CanLoadSigners(SignersFile)
  /\ \A i \in DOMAIN SignersFile.signers : CanBuildSigner(SignersFile.signers[i], Case.env)
  /\ CanPool(SignersFile.signers, SignersFile.strategy)

InitSigners ==
  /\ AtStage("signers") /\ ~Case.skipSigner /\ CanInitSigners
  /\ FromConfig(SignersFile.signers, SignersFile.strategy)
  /\ GoTo("cache") /\ UNCHANGED <<ataVars, cacheVars>>

InitSignersFails ==
  /\ AtStage("signers") /\ ~Case.skipSigner
  /\ CanInitSigners =>
       \E i \in DOMAIN SignersFile.signers : SignersFile.signers[i].kind # "memory"
  /\ GoTo("failed") /\ Alone

SkipSigners ==
  /\ AtStage("signers") /\ Case.skipSigner
  /\ GoTo(IF command = "start" THEN "cache" ELSE "failed") /\ Alone

\* CacheUtil::init
InitCache(redis) ==
  /\ AtStage("cache")
  /\ LET wanted == Conf.cacheEnabled /\ Conf.cacheUrl # "none"
         answers == redis /\ RedisUrl(Conf.cacheUrl)
     IN  /\ caching' = (wanted /\ answers)
         /\ GoTo(CASE wanted /\ ~answers -> "failed"
                   [] command = "start" /\ (wanted => answers) -> "usage"
                   [] OTHER -> "payer")
  /\ UNCHANGED <<account, since, entry, reader, ataVars, poolVars>>

\* init_usage_limiter: with a store, Redis must answer whatever the fallback
\* is, and there must be signers.
InitUsage(redis) ==
  /\ AtStage("usage") /\ Alone
  /\ LET stored == Conf.usageEnabled /\ Conf.usageUrl # "none"
     IN  GoTo(IF stored => redis /\ RedisUrl(Conf.usageUrl) /\ HasSigners(pool)
              THEN "metrics" ELSE "failed")

\* run_metrics_server_if_required; its own port may be taken.
StartMetrics(bound) ==
  /\ AtStage("metrics") /\ Alone
  /\ GoTo(IF Conf.metrics /\ Conf.ownMetricsPort /\ ~bound THEN "failed" ELSE "bind")

\* RateLimitLayer panics at 0; then the port may be taken.
Bind(bound) ==
  /\ AtStage("bind") /\ Alone
  /\ GoTo(IF Conf.rateLimit = 0 \/ ~bound THEN "failed" ELSE "serving")

-----------------------------------------------------------------------------
(* The server.                                                             *)

Responds(with) ==
  response' = with /\ UNCHANGED <<scen, command, stage, reported, warned, balances>>

Received(q) == AtStage("serving") /\ q \in Case.requests

Turned(q, how) == Admission(Proxied(q), Conf, Case.env) = how

TurnAway(q) ==
  /\ Received(q) /\ ~Turned(q, "dispatched") /\ Alone
  /\ Responds(Admission(Proxied(q), Conf, Case.env))

Outcome(q) ==
  IF CanHandle(Proxied(q).method, Conf, Case.env, pool) THEN "ok" ELSE "misconfigured"

\* The signer is drawn whatever the handler answers afterwards.
DrawsFor(q) ==
  IF Draws(Proxied(q), Conf, pool) THEN \E i \in DOMAIN pool : Draw(i) ELSE UNCHANGED poolVars

Handle(q) ==
  /\ Received(q) /\ Turned(q, "dispatched") /\ DrawsFor(q)
  /\ Responds(IF q.signer = AnySigner \/ InPool(q.signer) THEN Outcome(q) ELSE "refused")
  /\ UNCHANGED <<ataVars, cacheVars>>

\* A handler may also refuse its request, before or after drawing.
Refuse(q) ==
  /\ Received(q) /\ Turned(q, "dispatched")
  /\ Proxied(q).method \in DrawingMethods \cup {"getBlockhash"}
  /\ UNCHANGED poolVars \/ DrawsFor(q)
  /\ Responds("refused") /\ UNCHANGED <<ataVars, cacheVars>>

\* What a request reads of the chain, it reads through the cache.
RequestReads(k, forced) ==
  /\ AtStage("serving") /\ k \in Case.read
  /\ GetAccount(Request, k, forced)
  /\ UNCHANGED <<cliVars, ataVars, poolVars>>

RequestTakes ==
  /\ Answered(Request) /\ Rests(Request)
  /\ UNCHANGED <<caching, account, since, entry>>
  /\ UNCHANGED <<cliVars, ataVars, poolVars>>

\* The balance tracker, from the start of the metrics to the end.
Tracks == Conf.metrics /\ Conf.balances /\ stage \in {"bind", "serving"}

Counts(left) ==
  balances' = left /\ UNCHANGED <<scen, command, stage, reported, warned, response>>

\* Bug: the signers are counted from zero.
TicksFromZero ==
  /\ Tracks /\ balances = {} /\ HasSigners(pool)
  /\ Counts({i - 1 : i \in DOMAIN pool}) /\ Alone

TrackerTicks ==
  /\ Tracks /\ balances = {} /\ HasSigners(pool)
  /\ Counts(DOMAIN pool) /\ Alone

\* The signers are asked one after the other.
IsNext(i) == i \in balances /\ \A j \in balances : i <= j

TrackerReads ==
  /\ Tracks
  /\ \E i \in DOMAIN pool : IsNext(i) /\ GetAccount(Tracker, pool[i].key, FALSE)
  /\ UNCHANGED <<cliVars, ataVars, poolVars>>

\* An error is shown as a balance of 0, and stops nothing.
TrackerTakes ==
  /\ Tracks /\ Answered(Tracker)
  /\ Rests(Tracker) /\ UNCHANGED <<caching, account, since, entry>>
  /\ \E i \in DOMAIN pool : IsNext(i) /\ Counts(balances \ {i})
  /\ UNCHANGED <<ataVars, poolVars>>

-----------------------------------------------------------------------------
(* rpc initialize-atas.                                                    *)

Targets ==
  IF Conf.paymentAddress # Nowhere THEN <<Conf.paymentAddress>>
  ELSE [i \in DOMAIN pool |-> pool[i].key]

PickPayer ==
  IF Case.feePayer = AnySigner THEN \E i \in DOMAIN pool : Draw(i)
  ELSE InPool(Case.feePayer) /\ UNCHANGED poolVars

BeginAtas ==
  /\ AtStage("payer") /\ PickPayer
  /\ Conf.paymentAddress \in PublicKeys \cup {Nowhere}
  /\ Begins(Targets, TRUE, Case.chunk)
  /\ GoTo("atas") /\ UNCHANGED cacheVars

BeginAtasFails ==
  /\ AtStage("payer")
  /\ \/ Case.feePayer # AnySigner /\ ~InPool(Case.feePayer)
     \/ Conf.paymentAddress \notin PublicKeys \cup {Nowhere}
  /\ GoTo("failed") /\ Alone

StepAtas ==
  /\ AtStage("atas") /\ ~Ended /\ JobStep(Conf)
  /\ UNCHANGED <<cliVars, poolVars>>

\* The validator's last word on the accounts, and the exit code.
EndAtas ==
  /\ AtStage("atas") /\ Ended /\ Alone
  /\ stage' = IF At("failed") /\ command = "initialize-atas" THEN "failed" ELSE "exited"
  /\ reported' = IF At("failed") /\ command = "validate-with-rpc" THEN "errors" ELSE reported
  /\ UNCHANGED <<scen, command, warned, balances, response>>

-----------------------------------------------------------------------------
(* The end of the process, and the world.                                  *)

CtrlC ==
  /\ AtStage("serving") /\ GoTo("exited")
  /\ UNCHANGED <<caching, account, since, entry, ataVars, poolVars>>
  /\ reader' = [r \in Readers |-> Resting]

\* It has ended, or is killed; all that is in memory is lost.
Restart ==
  /\ ~AtStage("off")
  /\ stage' = "off" /\ command' = "none" /\ reported' = "nothing" /\ warned' = {}
  /\ balances' = {} /\ response' = "none"
  /\ caching' = FALSE /\ reader' = [r \in Readers |-> Resting]
  /\ PoolLost /\ JobLost
  /\ UNCHANGED <<scen, account, since, entry>>

\* Money moves; a token account is opened or closed by somebody else.
Moves(k, v) ==
  /\ <<k, v>> \in Case.moves /\ account[k] # v
  /\ AccountBecomes(k, v)
  /\ opened' = IF v = "open" /\ ~At("none") THEN opened \cup {k} ELSE opened
  /\ UNCHANGED <<caching, entry, reader, job, cliVars, poolVars>>

\* Seconds are counted only where the scenario has a cache.
World ==
  \/ \E m \in Case.moves : Moves(m[1], m[2])
  \/ (\E k \in Keys : Evict(k)) /\ UNCHANGED <<cliVars, ataVars, poolVars>>
  \/ Second /\ Conf.cacheEnabled /\ UNCHANGED <<cliVars, ataVars, poolVars>>

ReaderSteps ==
  /\ \E r \in Readers : CacheSteps(r)
  /\ UNCHANGED <<cliVars, ataVars, poolVars>>

Next ==
  \/ \E c \in Case.commands : Launch(c)
  \/ Load
  \/ \E redis \in BOOLEAN :
       \/ Validate(redis) \/ InitCache(redis) \/ InitUsage(redis)
       \/ \E down \in BOOLEAN : ValidateWithRpc(redis, down)
  \/ InitSigners \/ InitSignersFails \/ SkipSigners
  \/ \E bound \in BOOLEAN : StartMetrics(bound) \/ Bind(bound)
  \/ \E q \in Case.requests : TurnAway(q) \/ Handle(q) \/ Refuse(q)
  \/ \E k \in Case.read, forced \in BOOLEAN : RequestReads(k, forced)
  \/ RequestTakes
  \/ TrackerTicks \/ TrackerReads \/ TrackerTakes
  \/ BeginAtas \/ BeginAtasFails \/ StepAtas \/ EndAtas
  \/ ReaderSteps \/ World
  \/ CtrlC \/ Restart

Spec == Init /\ [][Next]_vars

-----------------------------------------------------------------------------
Stages ==
  {"off", "load", "validate", "signers", "cache", "usage", "metrics", "bind", "serving",
   "payer", "atas", "exited", "failed"}

TypeOK ==
  /\ scen \in DOMAIN Scenarios /\ stage \in Stages
  /\ command \in {"none"} \cup Case.commands
  /\ reported \in {"nothing", "valid", "errors"}
  /\ balances \subseteq DOMAIN pool
  /\ response \in {"none", "ok", "method not allowed", "unauthorized", "refused",
                   "misconfigured"}
  /\ CacheTypeOK /\ PoolTypeOK /\ JobTypeOK

(* A server that was validated and started can do what its methods say: no *)
(* request fails for a setting the validator has let pass, but for a       *)
(* program that is no address, which it does not look at without RPC, and  *)
(* for the signers that --no-load-signer leaves out.                       *)
ServedIsUsable ==
  response = "misconfigured" => ~(Conf.programs \subseteq PublicKeys) \/ Case.skipSigner

(* What a command says of itself is true, whatever the validator let pass, *)
(* whoever moves the accounts meanwhile and whichever call is lost: a      *)
(* server started, "Configuration validation successful", "Successfully    *)
(* initialized all payment ATAs" (config_validator.rs:576, main.rs:255).   *)
ReportsAreTrue ==
  /\ ServedIsUsable
  /\ AtStage("exited") /\ reported = "valid" /\ command = "validate-with-rpc" =>
       AtasInitialised(Conf)
  /\ AtStage("exited") /\ command = "initialize-atas" => At("done") /\ AtasInitialised(Conf)
=============================================================================
