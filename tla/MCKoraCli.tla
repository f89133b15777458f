------------------------------ MODULE MCKoraCli -------------------------------
(***************************************************************************)
(* Situations of the paymaster's process for TLC: commands run again and   *)
(* again on the same files, with two or three signers, up to two mints and *)
(* one moving balance.  The round-robin counter has four values and wraps, *)
(* the sum of the weights eight.                                           *)
(***************************************************************************)
EXTENDS KoraCli

MCPublicKeys ==
  {"system", "spl", "usdc", "bonk", "t22", "payer1", "payer2", "payer3", "treasury"}

Owners == {"payer1", "payer2", "payer3", "treasury"}

MCKeys ==
  {"system", "spl", "usdc", "bonk", "t22", "payer1", "payer2", "payer3"}
  \cup {Ata(o, m) : o \in Owners, m \in {"usdc", "bonk", "t22"}}
  \cup {Ata2022(o, m) : o \in Owners, m \in {"usdc", "bonk", "t22"}}

MCValues ==
  {"absent", "program", "spl mint", "2022 mint", "risky 2022 mint", "open", "low", "high"}

OnChain(changes) ==
  changes @@ [k \in MCKeys |->
    CASE k \in {"system", "spl"} -> "program"
      [] k \in {"usdc", "bonk"} -> "spl mint"
      [] k = "t22" -> "2022 mint"
      [] k \in {"payer1", "payer2", "payer3"} -> "high"
      [] OTHER -> "absent"]

-----------------------------------------------------------------------------
Signer(name, key, weight) ==
  [name |-> name, key |-> key, weight |-> weight, kind |-> "memory",
   vars |-> [private_key |-> "KEY"]]

File(how, signers) ==
  [given |-> TRUE, readable |-> TRUE, strategy |-> how, signers |-> signers]

NoFile == [given |-> FALSE]

One == File("round_robin", <<Signer("a", "payer1", NoWeight)>>)
Two == File("round_robin", <<Signer("a", "payer1", NoWeight), Signer("b", "payer2", NoWeight)>>)
Three == File("round_robin", Two.signers \o <<Signer("c", "payer3", 5)>>)
Remote == File("random", [Two.signers EXCEPT ![2].kind = "vault",
            ![2].vars = [vault_addr |-> "A", vault_token |-> "T", key_name |-> "K",
                         pubkey |-> "P"]])

Toml ==
  [readable |-> TRUE, rateLimit |-> 100, maxLamports |-> 10, maxSignatures |-> 10,
   programs |-> {"system", "spl"}, tokens |-> {"usdc", "bonk"},
   paidTokens |-> Allowlist({"usdc"}), disallowed |-> {}, priceSource |-> "mock"]

Call(method) ==
  [path |-> "/", method |-> method, key |-> "none", mac |-> "none", fresh |-> TRUE,
   signer |-> AnySigner]

Get(path) == [Call(NoMethod) EXCEPT !.path = path]
Calls(methods) == {Call(m) : m \in methods}

\* The usual server: what a scenario says otherwise comes first.
Plain ==
  [file |-> Toml, signers |-> Two, env |-> {"KEY", "A", "T", "K", "P"},
   commands |-> {"start"}, skipSigner |-> FALSE, accounts |-> OnChain([k \in {} |-> ""]),
   moves |-> {}, read |-> {}, requests |-> Calls({"signTransaction", "getPayerSigner"}),
   feePayer |-> AnySigner, chunk |-> 2]

With(settings, changes) == changes @@ [Plain EXCEPT !.file = settings @@ Toml]
Only(f, v) == [g \in {f} |-> v]

Atas == [commands |-> {"initialize-atas", "validate-with-rpc"}, requests |-> {}]

BadFiles ==
  [unreadable |-> [Plain EXCEPT !.file = Unreadable],
   incomplete |-> [Plain EXCEPT !.file = [readable |-> TRUE, rateLimit |-> 1]],
   extension |-> With(Only("blockedMint", {"permanent_delegate", "typo"}), Atas),
   payTo |-> With(Only("paymentAddress", "garbage"),
                  [commands |-> {"start", "validate", "initialize-atas", "validate-with-rpc"}]),
   jupiter |-> With(Only("priceSource", "jupiter"), [commands |-> {"start", "validate"}]),
   tokens |-> With([tokens |-> {"usdc", "garbage"}, disallowed |-> {"garbage"}],
                   [commands |-> {"start", "validate-with-rpc"}]),
   unpriced |-> With([model |-> "fixed", token |-> "bonk", amount |-> 0, strict |-> TRUE],
                     [commands |-> {"start", "validate"}]),
   negative |-> With([margin |-> -1, programs |-> {"system"}], Only("commands", {"start"})),
   signers |-> With(<<>>, [signers |-> File("weighted",
                 <<Signer("a", "payer1", 0), Signer("a", "payer2", 1)>>)]),
   noSigners |-> With(<<>>, [signers |-> NoFile]),
   variable |-> With(<<>>, [env |-> {}])]

Servers ==
  [three |-> With(Only("metrics", TRUE),
       [signers |-> Three, requests |-> Calls({"getPayerSigner", "transferTransaction"})]),
   weighted |-> With(<<>>, [signers |-> File("weighted",
       <<Signer("a", "payer1", 3), Signer("b", "payer2", NoWeight)>>)]),
   overflow |-> With(<<>>, [signers |-> File("weighted",
       <<Signer("a", "payer1", 7), Signer("b", "payer2", 1)>>)]),
   remote |-> With([ownMetricsPort |-> TRUE, metrics |-> TRUE], [signers |-> Remote]),
   named |-> With(Only("rateLimit", 1), [requests |->
       {[Call(m) EXCEPT !.signer = s] : m \in {"signTransaction"}, s \in {"payer2", "other"}}]),
   blocked |-> With([rateLimit |-> 0, methods |-> {}, maxSignatures |-> 0], <<>>),
   unsigned |-> With(<<>>, [skipSigner |-> TRUE, commands |-> {"start", "initialize-atas"},
       requests |-> Calls({"getConfig", "getBlockhash", "getSupportedTokens"})]),
   programs |-> With(Only("programs", {"system", "spl", "garbage"}), [requests |->
       Calls({"signAndSendTransaction", "estimateTransactionFee", "getPayerSigner"})]),
   fixed |-> With([model |-> "fixed", token |-> "usdc", priceSource |-> "jupiter",
                   paymentAddress |-> "treasury"],
       [env |-> {"KEY", "JUPITER_API_KEY"}, commands |-> {"start", "validate"}]),
   free |-> With([model |-> "free", paidTokens |-> AllTokens, programs |-> {"system"}], <<>>),
   auth |-> With([apiKey |-> TRUE, hmacSecret |-> TRUE, metrics |-> TRUE,
                  methods |-> AllMethods \ {"getConfig"}],
       [env |-> {"KEY", "KORA_API_KEY"},
        requests |->
          {[Call("getBlockhash") EXCEPT !.key = k, !.mac = h, !.fresh = f] :
             k \in {"none", "config", "environment"}, h \in {"none", "config"}, f \in BOOLEAN}
          \cup {Get("/liveness"), Get("/metrics")} \cup Calls({"getConfig", NoMethod})]),
   usage |-> With([usageEnabled |-> TRUE, usageUrl |-> "redis", usageFallback |-> TRUE,
                   usageMax |-> 1, cacheEnabled |-> TRUE, cacheUrl |-> "redis"],
       [commands |-> {"start", "validate"}]),
   unlimited |-> With([usageEnabled |-> TRUE, usageFallback |-> TRUE], <<>>),
   unusable |-> With([usageEnabled |-> TRUE], <<>>)]

\* One balance, read by the tracker and by a request, and three seconds to live.
Caches ==
  [cache |-> With([cacheEnabled |-> TRUE, cacheUrl |-> "redis", metrics |-> TRUE,
                   balances |-> TRUE],
       [signers |-> One, read |-> {"payer1"}, requests |-> {},
        moves |-> {<<"payer1", "low">>, <<"payer1", "high">>}])]

Accounts ==
  [two |-> With(<<>>, Only("chunk", 1) @@ Atas),
   both |-> With(Only("paidTokens", Allowlist({"usdc", "bonk"})),
       [signers |-> One, chunk |-> 1, feePayer |-> "payer1",
        moves |-> {<<Ata("payer1", "usdc"), "open">>, <<Ata("payer1", "bonk"), "absent">>},
        accounts |-> OnChain([k \in {Ata("payer1", "bonk")} |-> "open"])] @@ Atas),
   treasury |-> With([paymentAddress |-> "treasury", paidTokens |-> Allowlist({"usdc", "bonk"})],
       Only("moves", {<<Ata("treasury", "usdc"), "open">>, <<Ata("treasury", "usdc"), "absent">>})
       @@ Atas),
   stale |-> With([cacheEnabled |-> TRUE, cacheUrl |-> "redis", paymentAddress |-> "treasury"],
       Only("moves", {<<Ata("treasury", "usdc"), "absent">>}) @@ Atas),
   token2022 |-> With([tokens |-> {"t22"}, paidTokens |-> Allowlist({"t22"})],
       [accounts |-> OnChain(Only("t22", "risky 2022 mint")), feePayer |-> "other"] @@ Atas),
   again |-> With([tokens |-> {"t22"}, paidTokens |-> Allowlist({"t22"})],
       Only("signers", One) @@ Atas),
   noMint |-> With(<<>>, [accounts |-> OnChain(Only("usdc", "absent")), signers |-> One] @@ Atas),
   noChunk |-> With(<<>>, Only("chunk", 0) @@ Atas)]

MCScenarios == BadFiles @@ Servers @@ Caches @@ Accounts
=============================================================================
