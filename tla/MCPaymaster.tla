---------------------------- MODULE MCPaymaster -----------------------------
(***************************************************************************)
(* Instances of Paymaster: every instruction the paymaster knows, called   *)
(* by another program and reported by the node (KoraNode), for the rules;  *)
(* payments in tokens with and without a transfer fee, through lookup      *)
(* tables and into accounts being created, for the fees; and two requests  *)
(* side by side, for the usage limit.                                      *)
(***************************************************************************)
EXTENDS Paymaster

-----------------------------------------------------------------------------
(* Accounts.                                                               *)

Rate(epoch, tenths, maximum) == [epoch |-> epoch, tenths |-> tenths, maximum |-> maximum]
Missing == [status |-> "missing", program |-> Nobody, holds |-> FALSE, owner |-> Nobody,
            mint |-> Nobody, extensions |-> {}, charges |-> FALSE, entries |-> <<>>,
            newer |-> Rate(0, 0, 0), older |-> Rate(0, 0, 0)]
Found == [Missing EXCEPT !.status = "found"]
Tokens(program, mint, owner) ==
  [Found EXCEPT !.program = program, !.holds = TRUE, !.owner = owner, !.mint = mint]
Mint(program) == [Found EXCEPT !.program = program]
Table(entries) == [Found EXCEPT !.entries = entries]

Wallet == {"kora", "koraB", "treasury", "alice", "bob"}
Programs == {"system", "spl", "spl2022", "ata", "defi"}

MCBase ==
  [k \in Wallet \cup Programs \cup {Nobody, "koraUsdc", "bobUsdc", "bobFees"} |-> Missing]
  @@ [usdc |-> Mint("spl"),
      fees |-> [Mint("spl2022") EXCEPT !.charges = TRUE, !.extensions = {"transferFee"},
                                       !.newer = Rate(1, 5, 2), !.older = Rate(0, 2, 1)],
      aliceUsdc |-> Tokens("spl", "usdc", "alice"),
      koraOwn |-> Tokens("spl", "usdc", "kora"),
      aliceFees |-> Tokens("spl2022", "fees", "alice"),
      treasuryFees |-> Tokens("spl2022", "fees", "treasury"),
      odd |-> Mint("spl")]

\* The payment's account is sold; the lookup table grows.
MCHistory ==
  [treasuryUsdc |-> <<Tokens("spl", "usdc", "treasury"), Tokens("spl", "usdc", "bob")>>,
   table |-> <<Table(<<"alice">>), Table(<<"alice", "kora", "bob">>)>>]

MCAtaOf ==
  [x \in {<<"kora", "usdc", "spl">>} |-> "koraUsdc"]
  @@ [x \in {<<"alice", "usdc", "spl">>} |-> "aliceUsdc"]
  @@ [x \in {<<"bob", "usdc", "spl">>} |-> "bobUsdc"]
  @@ [x \in {<<"alice", "fees", "spl2022">>} |-> "aliceFees"]
  @@ [x \in {<<"bob", "fees", "spl2022">>} |-> "bobFees"]

MCPrices == {[usdc |-> [num |-> 5, den |-> 2], fees |-> [num |-> 3, den |-> 2]],
             [usdc |-> [num |-> 1, den |-> 3], fees |-> [num |-> 3, den |-> 2]]}

-----------------------------------------------------------------------------
(* Requests.                                                               *)

Static == <<"kora", "alice", "bob", "treasury", "system", "spl", "spl2022", "ata", "defi",
            "usdc", "fees", "aliceUsdc", "aliceFees", "treasuryUsdc", "treasuryFees",
            "koraUsdc", "bobUsdc", "odd">>

Compile(keys, ixs) ==
  LET Position(k) == (CHOOSE i \in DOMAIN keys : keys[i] = k) - 1
  IN  [i \in DOMAIN ixs |->
         [ixs[i] EXCEPT !.program = Position(@),
                        !.accounts = [j \in DOMAIN @ |-> Position(@[j])]]]

NoBuild == [source |-> Nobody, destination |-> Nobody, mint |-> Nobody, amount |-> 0]

Request(method, ixs, inner) ==
  [method |-> method, hint |-> "kora", inner |-> inner, build |-> NoBuild,
   tx |-> [static |-> Static, lookups |-> <<>>, outer |-> Compile(Static, ixs),
           signers |-> 2, signatures |-> 2]]

Call == [program |-> "defi", kind |-> "swap", accounts |-> <<"alice">>, amount |-> 0,
         named |-> Nobody, whole |-> TRUE]
Pays(from, to, n) == [Run("system", "transfer", from, to, n) EXCEPT !.named = Nobody]
Moves(mint, source, to, owner, n) ==
  [program |-> MCBase[mint].program, kind |-> "transferChecked", amount |-> n,
   accounts |-> <<source, mint, to, owner>>, named |-> Nobody, whole |-> TRUE]
MovesPlain(program, source, to, owner, n) ==
  [program |-> program, kind |-> "transfer", amount |-> n,
   accounts |-> <<source, to, owner>>, named |-> Nobody, whole |-> TRUE]
Creates(funder, address, owner, mint) ==
  [program |-> "ata", kind |-> "create", amount |-> 0, named |-> Nobody, whole |-> TRUE,
   accounts |-> <<funder, address, owner, mint, "system", MCBase[mint].program>>]

\* Every instruction, called by "defi", with the payer's consent or alice's.
Nested ==
  {<<program, kind, who, form>> :
     program \in {"system", "spl", "spl2022"},
     kind \in DOMAIN SystemAccounts \cup DOMAIN TokenAccounts,
     who \in {"kora", "alice"}, form \in {"parsed", "compiled"}}

Name(x) == x[1] \o " " \o x[2] \o " " \o x[3] \o " " \o x[4]

NestedCases ==
  LET exists == {x \in Nested : /\ x[2] \in DOMAIN AccountsOf(x[1])
                                /\ x[1] = "spl2022" => x[4] = "parsed"}
  IN  [n \in {Name(x) : x \in exists} |->
         LET x == CHOOSE y \in exists : Name(y) = n
         IN  Request("signTransaction", <<Call>>,
                     <<Report(x[4], Run(x[1], x[2], x[3], "bob", 1))>>)]

Priced ==
  [enough |-> Request("signTransaction",
     <<Pays("kora", "alice", 1), Moves("usdc", "aliceUsdc", "treasuryUsdc", "alice", 3)>>,
     <<>>),
   nested |-> Request("signAndSendTransaction",
     <<Call, MovesPlain("spl", "aliceUsdc", "treasuryUsdc", "alice", 4)>>,
     <<Report("parsed", Run("system", "transferWithSeed", "kora", "bob", 2)),
       Report("partial", [Call EXCEPT !.accounts = <<"kora">>])>>),
   withheld |-> Request("signTransaction",
     <<Moves("fees", "aliceFees", "treasuryFees", "alice", 5)>>, <<>>),
   cheap |-> Request("signTransaction",
     <<Pays("kora", "alice", 4), Moves("usdc", "aliceUsdc", "treasuryUsdc", "alice", 1)>>,
     <<>>),
   unpaid |-> Request("signTransaction", <<Pays("alice", "kora", 1)>>, <<>>),
   tabled |-> [Request("signTransaction", <<>>, <<>>) EXCEPT
     !.tx.lookups = <<[table |-> "table", writable |-> <<1>>, readonly |-> <<2>>]>>,
     !.tx.outer = <<[program |-> 4, kind |-> "transfer", accounts |-> <<18, 19>>,
                     amount |-> 1, named |-> Nobody, whole |-> TRUE]>>
                  \o Compile(Static, <<Moves("usdc", "aliceUsdc", "treasuryUsdc",
                                             "alice", 9)>>)],
   created |-> Request("signTransaction",
     <<Creates("alice", "koraUsdc", "kora", "usdc"),
       Moves("usdc", "aliceUsdc", "koraUsdc", "alice", 4), Pays("kora", "bob", 2)>>, <<>>),
   quote |-> [Request("estimateTransactionFee", <<Pays("kora", "alice", 1)>>, <<>>)
                EXCEPT !.hint = Nobody],
   short |-> [Request("signTransaction", <<Pays("kora", "alice", 3)>>, <<>>)
                EXCEPT !.hint = "koraB"],
   stranger |-> [Request("signTransaction", <<Pays("alice", "bob", 1)>>, <<>>)
                   EXCEPT !.hint = "bob"]]

Build1(source, destination, mint, amount) ==
  [Request("transferTransaction", <<>>, <<>>) EXCEPT
     !.build = [source |-> source, destination |-> destination, mint |-> mint,
                amount |-> amount]]

Transfers ==
  [account |-> Request("signTransaction", <<Call>>,
     <<Report("parsed", Run("system", "createAccount", "kora", "bob", 9))>>),
   sol |-> Build1("kora", "bob", "sol", 2), tooMuch |-> Build1("kora", "bob", "sol", 9),
   token |-> Build1("alice", "bob", "usdc", 2), notAllowed |-> Build1("alice", "bob", "fees", 2),
   ready |-> Build1("bob", "alice", "usdc", 1)]

\* The requests that run beside one another; the second has no user signer.
Raced ==
  [r1 |-> [Request("signTransaction", <<Call>>, <<>>) EXCEPT !.hint = Nobody],
   r2 |-> Request("signAndSendTransaction", <<Call>>, <<>>),
   r3 |-> [Request("signTransaction", <<Call>>, <<>>) EXCEPT !.tx.signers = 1]]

MCCases == Priced @@ Transfers @@ Raced @@ NestedCases

-----------------------------------------------------------------------------
(* Configurations.                                                         *)

AllTypes == UNION {{<<p, TypesOf(p)[k]>> : k \in DOMAIN TypesOf(p)} :
                   p \in {"system", "spl", "spl2022"}}

Open == [maxLamports |-> 4, maxSignatures |-> 2, programs |-> Programs,
         disallowed |-> {}, policy |-> AllTypes, durable |-> TRUE, model |-> "free",
         margin |-> 1, priceAmount |-> 3, priceToken |-> "usdc", payTo |-> "treasury",
         paidTokens |-> {"usdc", "fees"}, allowedTokens |-> {"usdc"},
         blockedMint |-> {}, blockedAccount |-> {"memo"}]
Closed == [Open EXCEPT !.policy = {<<"system", "Transfer">>}, !.durable = FALSE]

NoLimit == [enabled |-> FALSE, store |-> FALSE, max |-> 0, fallback |-> FALSE]
Once == [enabled |-> TRUE, store |-> TRUE, max |-> 1, fallback |-> FALSE]

Scenario(c, l, cases, n, m) ==
  [conf |-> c, limit |-> l, cases |-> cases, arrivals |-> n, moves |-> m]

Rules(c) == Scenario(c, NoLimit, DOMAIN NestedCases \cup DOMAIN Transfers, 1, 0)
Fees(c, m) == Scenario(c, NoLimit, DOMAIN Priced, 1, m)
Race(l) == Scenario(Open, l, DOMAIN Raced, 3, 0)

MCScenarios ==
  [open |-> Rules(Open), closed |-> Rules(Closed),
   fixed |-> Fees([Open EXCEPT !.model = "fixed"], 2),
   strict |-> Fees([Open EXCEPT !.model = "strict"], 2),
   margin |-> Fees([Open EXCEPT !.model = "margin"], 2),
   toItself |-> Fees([Open EXCEPT !.model = "margin", !.payTo = "kora",
                                  !.blockedMint = {"transferFee"}], 1),
   bobless |-> Scenario([Open EXCEPT !.disallowed = {"bob"}], NoLimit,
                        DOMAIN Priced \cup DOMAIN Transfers, 1, 0),
   once |-> Race(Once),
   lenient |-> Race([Once EXCEPT !.fallback = TRUE]),
   storeless |-> Race([Once EXCEPT !.store = FALSE]),
   unlimited |-> Race([Once EXCEPT !.max = 0]),
   neither |-> Race([Once EXCEPT !.store = FALSE, !.fallback = TRUE])]

MCLimitConfigs == {MCScenarios[x].limit : x \in DOMAIN MCScenarios}

Symmetry == Permutations(Slots)
=============================================================================
