------------------------------ MODULE KoraConfig ------------------------------
(***************************************************************************)
(* The paymaster's configuration: what load_config makes of kora.toml      *)
(* (config.rs) and of the signers' file (signer/config.rs), and what the   *)
(* validators find wrong in them (config_validator.rs, cache_validator.rs, *)
(* account_validator.rs, signer_validator.rs).                             *)
(*                                                                         *)
(* An address is any string: PublicKeys are those that parse.  A file is a *)
(* record of the settings it gives; a problem is named, not worded.  The   *)
(* fee payer's policy is the set of what it permits, by name.              *)
(***************************************************************************)
EXTENDS Integers, Sequences, TLC

CONSTANTS
  PublicKeys,     \* the addresses that parse
  Nowhere         \* no address given

Unreadable == [readable |-> FALSE]      \* no such file, or no TOML

-----------------------------------------------------------------------------
(* kora.toml.                                                              *)

MintExtensionNames ==
  {"confidential_transfer_mint", "confidential_mint_burn", "transfer_fee_config",
   "mint_close_authority", "interest_bearing_config", "non_transferable",
   "permanent_delegate", "transfer_hook", "pausable"}

AccountExtensionNames ==
  {"confidential_transfer_account", "non_transferable_account", "transfer_hook_account",
   "pausable_account", "memo_transfer", "cpi_guard", "immutable_owner",
   "default_account_state"}

AllMethods ==
  {"liveness", "estimateTransactionFee", "getSupportedTokens", "getPayerSigner",
   "signTransaction", "signAndSendTransaction", "transferTransaction", "getBlockhash",
   "getConfig"}

\* SplTokenConfig: every token, or a list of them.
AllTokens == [all |-> TRUE, list |-> {}]
Allowlist(tokens) == [all |-> FALSE, list |-> tokens]
HasToken(paid, token) == paid.all \/ token \in paid.list
HasTokens(paid) == paid.all \/ paid.list # {}

\* The settings a file may leave out (#[serde(default)], impl Default).
Defaults ==
  [methods |-> AllMethods, apiKey |-> FALSE, hmacSecret |-> FALSE,
   paymentAddress |-> Nowhere, policy |-> {},
   model |-> "margin", margin |-> 0, amount |-> 0, token |-> Nowhere, strict |-> FALSE,
   blockedMint |-> {}, blockedAccount |-> {}, durable |-> FALSE,
   cacheEnabled |-> FALSE, cacheUrl |-> "none",
   usageEnabled |-> FALSE, usageUrl |-> "none", usageMax |-> 0, usageFallback |-> FALSE,
   metrics |-> FALSE, ownMetricsPort |-> FALSE, balances |-> FALSE]

Required ==
  {"rateLimit", "maxLamports", "maxSignatures", "programs", "tokens", "paidTokens",
   "disallowed", "priceSource"}

\* Token2022Config::initialize: the first unknown name refuses the file.
CanInitialize(c) ==
  c.blockedMint \subseteq MintExtensionNames /\ c.blockedAccount \subseteq AccountExtensionNames

Loaded(file) == file @@ Defaults

CanLoad(file) ==
  /\ file.readable
  /\ Required \subseteq DOMAIN file
  /\ CanInitialize(Loaded(file))

IsPaymentRequired(c) == c.model # "free"

-----------------------------------------------------------------------------
(* The signers' file: [given, readable, strategy, signers], a signer being *)
(* [name, weight, kind, vars, key]; vars are the names of the environment  *)
(* variables its kind needs, "" where the file leaves one empty.           *)

VarsOf ==
  [memory  |-> {"private_key"},
   turnkey |-> {"api_public_key", "api_private_key", "organization_id", "private_key_id",
                "public_key"},
   privy   |-> {"app_id", "app_secret", "wallet_id"},
   vault   |-> {"vault_addr", "vault_token", "key_name", "pubkey"}]

NotEmpty(f) == f.signers # <<>>

ValidSigner(s) ==
  /\ s.name # ""
  /\ \A v \in VarsOf[s.kind] : s.vars[v] # ""

NamesDistinct(f) ==
  \A i, j \in DOMAIN f.signers : f.signers[i].name = f.signers[j].name => i = j

WeightsPositive(f) ==
  f.strategy = "weighted" => \A i \in DOMAIN f.signers : f.signers[i].weight # 0

\* validate_signer_config
CanLoadSigners(f) ==
  /\ f.readable
  /\ NotEmpty(f)
  /\ \A i \in DOMAIN f.signers : ValidSigner(f.signers[i])
  /\ NamesDistinct(f) /\ WeightsPositive(f)

\* build_signer_from_config reads the variables of its kind.
CanBuildSigner(s, env) == \A v \in VarsOf[s.kind] : s.vars[v] \in env

-----------------------------------------------------------------------------
(* What the validators say.  env is the set of environment variables,      *)
(* redis whether the usage limit's store answers.                          *)

Named(problem, holds) == IF holds THEN {problem} ELSE {}

TokenProgram(c) == {"spl", "spl2022"} \cap c.programs # {}

Authenticated(c) == c.apiKey \/ c.hmacSecret

RedisUrl(url) == url = "redis"      \* redis:// or rediss://

\* CacheValidator::validate
UsageErrors(c, redis) ==
  IF ~c.usageEnabled THEN {} ELSE
    Named("usage: no url", c.usageUrl = "none" /\ ~c.usageFallback)
    \cup Named("usage: bad url", c.usageUrl # "none" /\ ~RedisUrl(c.usageUrl))
    \cup Named("usage: no redis", RedisUrl(c.usageUrl) /\ ~redis /\ ~c.usageFallback)

UsageWarnings(c, redis) ==
  IF ~c.usageEnabled THEN {} ELSE
    Named("usage: no limit", c.usageUrl = "none" /\ c.usageFallback)
    \cup Named("usage: may refuse", ~c.usageFallback)
    \cup Named("usage: no redis", RedisUrl(c.usageUrl) /\ ~redis /\ c.usageFallback)

\* Bug: only the accounts and tokens are parsed, not where payments go.
ErrorsButPayTo(c, env) ==
  Named("api key", c.priceSource = "jupiter" /\ "JUPITER_API_KEY" \notin env)
  \cup Named("no tokens", c.tokens = {})
  \cup Named("tokens", ~ c.tokens \subseteq PublicKeys)
  \cup Named("paid tokens", ~ c.paidTokens.list \subseteq PublicKeys)
  \cup Named("disallowed", ~ c.disallowed \subseteq PublicKeys)

\* Settings that hold whatever the price model is.
GeneralErrors(c, env) ==
  Named("payment address", c.paymentAddress \notin PublicKeys \cup {Nowhere})
  \cup Named("api key", c.priceSource = "jupiter" /\ "JUPITER_API_KEY" \notin env)
  \cup Named("no tokens", c.tokens = {})
  \cup Named("tokens", ~ c.tokens \subseteq PublicKeys)
  \cup Named("paid tokens", ~ c.paidTokens.list \subseteq PublicKeys)
  \cup Named("disallowed", ~ c.disallowed \subseteq PublicKeys)
  \cup Named("extensions", ~CanInitialize(c))
  \cup Named("paid but not allowed", ~ c.paidTokens.list \subseteq c.tokens)

PriceErrors(c) ==
  Named("no token program", IsPaymentRequired(c) /\ ~TokenProgram(c))
  \cup Named("no paid tokens", IsPaymentRequired(c) /\ ~HasTokens(c.paidTokens))
  \cup Named("price token", c.model = "fixed" /\ c.token \notin PublicKeys)
  \cup Named("price token unpaid", c.model = "fixed" /\ ~HasToken(c.paidTokens, c.token))
  \cup Named("margin", c.model = "margin" /\ c.margin < 0)

\* Settings that leave the server with nothing to do.
BlockingWarnings(c) ==
  Named("rate limit", c.rateLimit = 0)
  \cup Named("no methods", c.methods = {})
  \cup Named("no lamports", c.maxLamports = 0)
  \cup Named("no signatures", c.maxSignatures = 0)
  \cup Named("no programs", c.programs = {})
  \cup Named("no system program", c.programs # {} /\ "system" \notin c.programs)
  \cup Named("no token program", c.programs # {} /\ ~TokenProgram(c))

\* Settings that may cost the operator; the margin is in tenths.
RiskWarnings(c) ==
  c.policy
  \cup Named("mock prices", c.priceSource = "mock")
  \cup Named("durable", c.durable)
  \cup Named("any paid token", c.paidTokens.all)
  \cup Named("permanent delegate", "permanent_delegate" \notin c.blockedMint)
  \cup Named("free", c.model = "free")
  \cup Named("fixed at 0", c.model = "fixed" /\ c.amount = 0)
  \cup Named("fixed without authentication", c.model = "fixed" /\ ~Authenticated(c))
  \cup Named("strict", c.model = "fixed" /\ c.strict)
  \cup Named("high margin", c.model = "margin" /\ c.margin > 10)
  \cup Named("no authentication", ~Authenticated(c))

\* SignerValidator, after load_config has accepted the file.
SignerErrors(f) == Named("signers", f.given /\ ~CanLoadSigners(f))

SignerWarnings(f) ==
  IF ~f.given \/ SignerErrors(f) # {} THEN {} ELSE
    Named("weights", \E i \in DOMAIN f.signers :
                       (f.strategy = "weighted") = (f.signers[i].weight = -1))

\* validate_account, of what each account holds: a program, or a mint of
\* one of the token programs, with or without extensions that are a risk.
Mints == {"spl mint", "2022 mint", "risky 2022 mint"}

ChainErrors(c, held) ==
  Named("program", \E k \in c.programs \cap PublicKeys : held[k] # "program")
  \cup Named("mint", \E k \in (c.tokens \cup c.paidTokens.list) \cap PublicKeys :
                        held[k] \notin Mints)

\* check_token_mint_extensions
ChainWarnings(c, held) ==
  Named("extensions", \E k \in c.tokens \cap PublicKeys : held[k] = "risky 2022 mint")

\* validate_with_result_and_signers, with skip_rpc_validation.
Errors(c, f, env, redis) ==
  GeneralErrors(c, env) \cup PriceErrors(c) \cup UsageErrors(c, redis) \cup SignerErrors(f)

Warnings(c, f, redis) ==
  BlockingWarnings(c) \cup RiskWarnings(c) \cup UsageWarnings(c, redis) \cup SignerWarnings(f)
=============================================================================
