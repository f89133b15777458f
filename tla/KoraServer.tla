------------------------------ MODULE KoraServer ------------------------------
(***************************************************************************)
(* What the paymaster's server makes of an HTTP request: the layers it     *)
(* passes on its way in (server.rs, middleware_utils.rs, auth.rs,          *)
(* metrics/handler.rs), and what the handlers of the methods need of the   *)
(* configuration (rpc.rs, method/, state.rs).                              *)
(*                                                                         *)
(* A request is [path, method, key, mac, fresh, signer]: a path other than *)
(* "/" is got, "/" is posted the call of a method; key and mac say         *)
(* by which secret it is authenticated, the configuration's, the           *)
(* environment's or none; fresh, that its timestamp is recent; signer, the *)
(* signer it asks for.                                                     *)
(***************************************************************************)
EXTENDS KoraConfig

NoMethod == "no method"         \* no JSON-RPC call, or a batch of them
AnySigner == "any signer"

\* ProxyGetRequestLayer: GET /liveness is the call of a method.
Proxied(q) ==
  IF q.path = "/liveness" THEN [q EXCEPT !.path = "/", !.method = "liveness"] ELSE q

-----------------------------------------------------------------------------
(* The layers, from the outside.                                           *)

\* get_value_by_priority: the environment's value wins.
Secret(name, env, configured) ==
  CASE name \in env -> "environment"
    [] name \notin env /\ configured -> "config"
    [] OTHER -> "none"

ApiKey(c, env) == Secret("KORA_API_KEY", env, c.apiKey)
HmacSecret(c, env) == Secret("KORA_HMAC_SECRET", env, c.hmacSecret)

\* The endpoint is served here unless it has a port of its own.
IsMetrics(q, c) == q.path = "/metrics" /\ c.metrics /\ ~c.ownMetricsPort

IsAllowed(q, c) == q.method \in c.methods

HasApiKey(q, c, env) == ApiKey(c, env) \in {"none", q.key}

HasSignature(q, c, env) ==
  HmacSecret(c, env) = "none" \/ (q.mac = HmacSecret(c, env) /\ q.fresh)

IsAuthorised(q, c, env) ==
  q.method = "liveness" \/ (HasApiKey(q, c, env) /\ HasSignature(q, c, env))

Admission(q, c, env) ==
  CASE IsMetrics(q, c) -> "ok"
    [] ~IsMetrics(q, c) /\ ~IsAllowed(q, c) -> "method not allowed"
    [] ~IsMetrics(q, c) /\ IsAllowed(q, c) /\ ~IsAuthorised(q, c, env) -> "unauthorized"
    [] OTHER -> "dispatched"

-----------------------------------------------------------------------------
(* What the handlers need.                                                 *)

SigningMethods == {"signTransaction", "signAndSendTransaction"}
DrawingMethods ==
  SigningMethods \cup {"estimateTransactionFee", "transferTransaction", "getPayerSigner"}

\* get_payment_address
CanPayTo(c) == c.paymentAddress \in PublicKeys \cup {Nowhere}

\* TransactionValidator::new
CanValidate(c) == (c.tokens \cup c.disallowed \cup c.programs) \subseteq PublicKeys

\* get_price_oracle
CanAskPrices(c, env) == c.priceSource = "jupiter" => "JUPITER_API_KEY" \in env

\* get_required_lamports_with_fixed
CanFixPrice(c) == c.model = "fixed" => c.token \in PublicKeys

\* check_transaction_usage_limit: without a limiter.
CanLimit(c) == c.usageEnabled /\ c.usageUrl = "none" => c.usageFallback

HasSigners(pool) == pool # <<>>

Draws(q, c, pool) ==
  /\ HasSigners(pool) /\ q.method \in DrawingMethods
  /\ q.method \in SigningMethods => CanLimit(c)
  /\ q.signer = AnySigner \/ q.method = "getPayerSigner"

CanPrice(c, env) == CanPayTo(c) /\ CanFixPrice(c) /\ CanAskPrices(c, env)

CanSign(c, env) ==
  CanLimit(c) /\ CanValidate(c) /\ (IsPaymentRequired(c) => CanPrice(c, env))

\* The configuration lets the handler do what it is asked, whatever the
\* transaction needs.
CanHandle(method, c, env, pool) ==
  CASE method \in SigningMethods -> HasSigners(pool) /\ CanSign(c, env)
    [] method = "transferTransaction" -> HasSigners(pool) /\ CanValidate(c)
    [] method = "estimateTransactionFee" -> HasSigners(pool) /\ CanPrice(c, env)
    [] method = "getPayerSigner" -> HasSigners(pool) /\ CanPayTo(c)
    [] method = "getConfig" -> HasSigners(pool)
    [] method = "getSupportedTokens" -> c.tokens # {}
    [] OTHER -> TRUE
=============================================================================
