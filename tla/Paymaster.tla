------------------------------ MODULE Paymaster ------------------------------
(***************************************************************************)
(* The paymaster's requests: signTransaction, signAndSendTransaction,      *)
(* estimateTransactionFee and transferTransaction (rpc_server/method,      *)
(* VersionedTransactionResolved::sign_transaction).  Each one passes the   *)
(* usage limit (UsageLimit), picks a signer of the pool, and decides by    *)
(* the rules of KoraRules; between two stages it waits for the node or for *)
(* the price oracle, so other requests run, accounts and prices change,    *)
(* and every stage sees the world of its own moment.                       *)
(*                                                                         *)
(* What the account cache may answer is what AccountCache promises: a      *)
(* value the account had within the time to live.  So an account that      *)
(* changes is a sequence of values, ledger is its place in it, and oldest  *)
(* is the oldest place a cached answer may still come from.                *)
(***************************************************************************)
EXTENDS KoraRules, KoraNode, UsageLimit

CONSTANTS
  Pool,           \* the public keys of the signer pool
  Base,           \* the accounts that do not change: key -> account
  History,        \* those that do: key -> the accounts it becomes, in order
  Prices,         \* the prices the oracle may give
  Mints,          \* the mints a transfer may name
  BaseFee,        \* what the node charges for a transaction
  Rent,           \* what creating a token account costs its funder
  Cases,          \* the requests considered
  Scenarios       \* configurations, the cases sent under each, the bounds

MaxRetries == 3         \* RetryingPriceOracle's max_retries

ASSUME PaymasterAssumption ==
  /\ Mints # {} /\ IsFiniteSet(Mints) /\ Prices # {} /\ Pool # {}
  /\ BaseFee \in 0..MaxU64
  /\ \A k \in DOMAIN History :
       History[k] # <<>> /\ History[k] \in Seq(ToSet(History[k]))
  /\ \A x \in DOMAIN Scenarios :
       /\ Scenarios[x].conf.model \in {"free", "fixed", "strict", "margin"}
       /\ Scenarios[x].conf.margin \in Nat /\ Scenarios[x].conf.maxLamports \in Nat
       /\ Scenarios[x].conf.payTo # Nobody
       /\ Scenarios[x].limit \in LimitConfigs
       /\ Scenarios[x].cases \subseteq DOMAIN Cases
       /\ Scenarios[x].arrivals \in Nat /\ Scenarios[x].moves \in Nat
  /\ \A p \in Prices : \A k \in DOMAIN p :
       p[k].num \in Nat /\ p[k].den \in Nat \ {0}

VARIABLES
  scenario,   \* the scenario: a configuration, with the bounds of the instance
  ledger,     \* the place each changing account has reached
  oldest,     \* the oldest place the account cache may still answer with
  price,      \* what the oracle answers
  req,        \* the request in each slot
  arrivals,   \* requests received
  moves       \* changes of the world

world == <<ledger, oldest, price, moves>>
vars == <<usageVars, scenario, ledger, oldest, price, req, arrivals, moves>>

Stages == {"idle", "pick", "resolve", "validate", "price", "pay", "sign", "signed"}

\* name: its case; ata: transferTransaction creates the destination's account.
Idle == [stage |-> "idle", name |-> Nobody, payer |-> Nobody, ata |-> FALSE,
         fee |-> [total |-> 0, parts |-> NoFee], paid |-> 0, attempt |-> 0]

bounds == Scenarios[scenario]
conf == bounds.conf
Case(s) == Cases[req[s].name]
Signs(case) == case.method \in {"signTransaction", "signAndSendTransaction"}

Init ==
  /\ scenario \in DOMAIN Scenarios
  /\ UsageInit /\ limit = bounds.limit
  /\ ledger = [k \in DOMAIN History |-> 1]
  /\ oldest = ledger
  /\ price \in Prices
  /\ req = [s \in Slots |-> Idle]
  /\ arrivals = 0 /\ moves = 0

-----------------------------------------------------------------------------
(* What a stage sees.  Any fetch may fail; only get_account(.., false) may *)
(* be answered from the cache.                                             *)

Unfetched == [Base[Nobody] EXCEPT !.status = "error"]

Actual == Over([k \in DOMAIN History |-> History[k][ledger[k]]], Base)

Cached(k) == {History[k][i] : i \in oldest[k]..ledger[k]} \cup {Unfetched}

Sights ==
  {f \in [DOMAIN History -> UNION {Cached(k) : k \in DOMAIN History}] :
     \A k \in DOMAIN History : f[k] \in Cached(k)}

\* A fresh fetch that fails ends the request: see CallFails.
Views ==
  {[seen |-> Over(f, Base), fresh |-> Actual, price |-> price,
    baseFee |-> BaseFee, epoch |-> moves] : f \in Sights}

\* The order in which a hash map yields the mints.
Orders == {q \in [1..Cardinality(Mints) -> Mints] : IsInjective(q)}

IsTable(account) == account.status = "found" /\ account.entries # <<>>

TablesIn(accounts) ==
  [k \in {k \in DOMAIN accounts : IsTable(accounts[k])} |-> accounts[k].entries]

\* The chain's lookup tables are only ever extended, and what cannot be
\* fetched is none.
ASSUME TablesAssumption ==
  /\ ~IsTable(Unfetched)
  /\ \A k \in DOMAIN Base : Base[k].entries \in Seq(ToSet(Base[k].entries))
  /\ \A k \in DOMAIN History : \A j \in DOMAIN History[k] :
       /\ History[k][j].entries \in Seq(ToSet(History[k][j].entries))
       /\ \A i \in 1..j : IsTable(History[k][i]) =>
            /\ IsTable(History[k][j])
            /\ IsPrefix(History[k][i].entries, History[k][j].entries)

-----------------------------------------------------------------------------
(* transferTransaction builds its transaction itself.                      *)

TransferAtas(b) ==
  LET program == Base[b.mint].program
  IN  [source |-> AtaOf[<<b.source, b.mint, program>>],
       target |-> AtaOf[<<b.destination, b.mint, program>>]]

SolTransfer(b) ==
  [program |-> "system", kind |-> "transfer", amount |-> b.amount, named |-> Nobody,
   accounts |-> <<b.source, b.destination>>, whole |-> TRUE]

TokenTransfer(b) ==
  [program |-> Base[b.mint].program, kind |-> "transferChecked", amount |-> b.amount,
   accounts |-> <<TransferAtas(b).source, b.mint, TransferAtas(b).target, b.source>>,
   named |-> Nobody, whole |-> TRUE]

CreateTarget(payer, b) ==
  [program |-> "ata", kind |-> "create", amount |-> 0, named |-> Nobody, whole |-> TRUE,
   accounts |-> <<payer, TransferAtas(b).target, b.destination, b.mint, "system",
                  Base[b.mint].program>>]

KoraBuilt(payer, b, ata) ==
  [keys |-> <<payer, b.source>>, signers |-> Cardinality({payer, b.source}),
   signatures |-> Cardinality({payer, b.source}),
   instructions |-> CASE b.mint = "sol" -> <<SolTransfer(b)>>
                      [] b.mint # "sol" /\ ata -> <<CreateTarget(payer, b), TokenTransfer(b)>>
                      [] OTHER -> <<TokenTransfer(b)>>]

\* The mint must be allowed, and the source's account must be there.
CanBuild(b, view) ==
  /\ {b.source, b.destination} \cap conf.disallowed = {}
  /\ b.mint = "sol" \/ /\ b.mint \in conf.allowedTokens
                       /\ view.seen[b.mint].status = "found"
                       /\ view.seen[TransferAtas(b).source].status = "found"

\* The transaction a request is about, as it was resolved.
Resolved(s) ==
  IF Case(s).method = "transferTransaction"
  THEN KoraBuilt(req[s].payer, Case(s).build, req[s].ata)
  ELSE FromTransaction(Case(s).tx, TablesIn(Actual), Case(s).inner)

-----------------------------------------------------------------------------
(* The stages of a request.                                                *)

\* extract_transaction_sender: the first signer that is not Kora's.
Sender(tx) ==
  LET Stranger(k) == k \notin Pool
      strangers == SelectSeq(SubSeq(tx.static, 1, tx.signers), Stranger)
  IN  IF strangers = <<>> THEN NoSender ELSE strangers[1]

\* A wallet is any key that may send one.
ASSUME SenderAssumption ==
  \A name \in DOMAIN Cases :
    Signs(Cases[name]) => Sender(Cases[name].tx) \in Wallets \cup {NoSender}

\* The changing accounts, each at one of its places.
Worlds ==
  {f \in [DOMAIN History -> UNION {ToSet(History[k]) : k \in DOMAIN History}] :
     \A k \in DOMAIN History : f[k] \in ToSet(History[k])}

\* The node reports what ran, and the chain runs nothing on accounts that
\* the transaction does not list.
ASSUME NodeAssumption ==
  \A name \in DOMAIN Cases : LET tx == Cases[name].tx
                               inner == Cases[name].inner
                           IN
    /\ tx.outer \in Seq(ToSet(tx.outer)) /\ inner \in Seq(ToSet(inner))
    /\ \A i \in DOMAIN tx.lookups :
         tx.lookups[i].writable \in Seq(Nat) /\ tx.lookups[i].readonly \in Seq(Nat)
    /\ \A i \in DOMAIN inner :
         /\ Truthful(inner[i])
         /\ \A f \in Worlds : CanResolve(tx, TablesIn(Over(f, Base))) =>
              {inner[i].program} \cup ToSet(inner[i].ix.accounts)
                \subseteq ToSet(AllAccountKeys(tx, TablesIn(Over(f, Base))))

\* Instructions have their fields, and their amounts are u64.
WellFormed(ix) ==
  /\ DOMAIN ix = {"program", "kind", "accounts", "amount", "named", "whole"}
  /\ ix.amount \in 0..MaxU64

ASSUME AmountsAssumption ==
  \A name \in DOMAIN Cases :
    /\ Cases[name].build.amount \in 0..MaxU64
    /\ \A i \in DOMAIN Cases[name].tx.outer : WellFormed(Cases[name].tx.outer[i])
    /\ \A i \in DOMAIN Cases[name].inner : WellFormed(Cases[name].inner[i].ix)

Arrive(s, name) ==
  /\ req[s] = Idle /\ arrivals < bounds.arrivals
  /\ req' = [req EXCEPT ![s].stage = "pick", ![s].name = name]
  /\ arrivals' = arrivals + 1
  /\ IF Signs(Cases[name]) THEN Ask(s, Sender(Cases[name].tx)) ELSE Admit(s)
  /\ UNCHANGED <<scenario, world>>

Checks(s) == CheckUsage(s) /\ UNCHANGED <<scenario, req, arrivals, world>>

Answer(s, issued) ==
  /\ Leave(s, issued)
  /\ req' = [req EXCEPT ![s] = Idle]
  /\ UNCHANGED <<scenario, arrivals, world>>

Advance(s, next) ==
  /\ req' = [req EXCEPT ![s] = next]
  /\ UNCHANGED <<usageVars, scenario, arrivals, world>>

To(s, stage) == [req[s] EXCEPT !.stage = stage, !.attempt = 0]

In(s, stage) == req[s].stage = stage /\ seat[s].stage = "in"

OverLimit(s) == seat[s].stage = "refused" /\ Answer(s, FALSE)

\* A hint must be in the pool; without one the pool's strategy decides.
Pick(s) ==
  /\ In(s, "pick")
  /\ \/ \E payer \in Pool :
          /\ Case(s).hint \in {Nobody, payer}
          /\ Advance(s, [To(s, "resolve") EXCEPT !.payer = payer])
     \/ Case(s).hint \notin Pool \cup {Nobody} /\ Answer(s, FALSE)

Resolve(s) ==
  /\ In(s, "resolve") /\ Case(s).method # "transferTransaction"
  /\ \E view \in Views :
       IF CanResolve(Case(s).tx, TablesIn(view.seen))
       THEN Advance(s, To(s, IF Signs(Case(s)) THEN "validate" ELSE "price"))
       ELSE Answer(s, FALSE)

\* An account that cannot be fetched is taken to be missing, and created.
Build(s) ==
  /\ In(s, "resolve") /\ Case(s).method = "transferTransaction"
  /\ \E view \in Views :
       LET b == Case(s).build
           lacks == b.mint # "sol"
                      /\ view.seen[TransferAtas(b).target].status # "found"
       IN  IF CanBuild(b, view)
           THEN Advance(s, [To(s, "validate") EXCEPT !.ata = lacks])
           ELSE Answer(s, FALSE)

Validate(s) ==
  /\ In(s, "validate")
  /\ \E view \in Views, order \in Orders :
       IF Valid(conf, req[s].payer, Resolved(s), view, order)
       THEN Advance(s, To(s, IF Signs(Case(s)) THEN "price" ELSE "sign"))
       ELSE Answer(s, FALSE)

\* estimateTransactionFee ends with the quote.
Price(s) ==
  /\ In(s, "price")
  /\ \E view \in Views, order \in Orders :
       LET fee == KoraFee(conf, req[s].payer, Resolved(s), view, order)
       IN  IF fee.total = FAILED \/ ~Signs(Case(s)) THEN Answer(s, FALSE)
           ELSE Advance(s, [To(s, IF fee.total > 0 THEN "pay" ELSE "sign")
                              EXCEPT !.fee = fee])

Pay(s) ==
  /\ In(s, "pay")
  /\ \E view \in Views :
       IF /\ PaymentSuffices(conf, req[s].fee.total, Resolved(s).instructions, view)
          /\ StrictHolds(conf, req[s].fee)
       THEN Advance(s, [To(s, "sign") EXCEPT
                          !.paid = PaidLamports(conf, Resolved(s).instructions, view)])
       ELSE Answer(s, FALSE)

\* The signature goes in at the payer's position among the static keys.
CanPlaceSignature(s) ==
  \/ Case(s).method = "transferTransaction"
  \/ \E i \in 1..Case(s).tx.signatures :
       At(Case(s).tx.static, i - 1) = req[s].payer

Sign(s) ==
  /\ In(s, "sign")
  /\ IF /\ Case(s).method = "transferTransaction" \/ BaseFee <= conf.maxLamports
        /\ CanPlaceSignature(s)
     THEN Advance(s, To(s, "signed"))
     ELSE Answer(s, FALSE)

\* The transaction is out, whether or not its confirmation arrives.
Send(s) ==
  /\ In(s, "signed") /\ Case(s).method = "signAndSendTransaction"
  /\ \E broadcast \in BOOLEAN : Answer(s, broadcast)

Return(s) ==
  /\ In(s, "signed") /\ Case(s).method # "signAndSendTransaction"
  /\ Answer(s, TRUE)

Waiting == {"resolve", "validate", "price", "pay", "sign"}

\* The node, the oracle's third attempt or the signer's service fails.
CallFails(s) ==
  /\ req[s].stage \in Waiting
  /\ Answer(s, FALSE)

\* Bug: one attempt too many.
OracleRetriesOnceMore(s) ==
  /\ req[s].stage \in {"validate", "price", "pay"}
  /\ req[s].attempt < MaxRetries
  /\ Advance(s, [req[s] EXCEPT !.attempt = @ + 1])

\* RetryingPriceOracle tries again.
OracleRetries(s) ==
  /\ req[s].stage \in {"validate", "price", "pay"}
  /\ req[s].attempt < MaxRetries - 1
  /\ Advance(s, [req[s] EXCEPT !.attempt = @ + 1])

Step(s) ==
  \/ Checks(s) \/ OverLimit(s) \/ Pick(s) \/ Resolve(s) \/ Build(s)
  \/ Validate(s) \/ Price(s) \/ Pay(s) \/ Sign(s) \/ Send(s) \/ Return(s)
  \/ CallFails(s) \/ OracleRetries(s)

-----------------------------------------------------------------------------
(* The world outside.                                                      *)

AccountChanges(k) ==
  /\ moves < bounds.moves
  /\ ledger[k] < Len(History[k])
  /\ ledger' = [ledger EXCEPT ![k] = @ + 1]
  /\ moves' = moves + 1
  /\ UNCHANGED <<usageVars, scenario, oldest, price, req, arrivals>>

TtlPasses(k) ==
  /\ oldest[k] < ledger[k]
  /\ oldest' = [oldest EXCEPT ![k] = @ + 1]
  /\ UNCHANGED <<usageVars, scenario, ledger, price, req, arrivals, moves>>

PriceMoves ==
  /\ moves < bounds.moves
  /\ price' \in Prices \ {price}
  /\ moves' = moves + 1
  /\ UNCHANGED <<usageVars, scenario, ledger, oldest, req, arrivals>>

\* Requests are lost; what Redis holds is not.
Restart ==
  /\ UsageRestart
  /\ req' = [s \in Slots |-> Idle]
  /\ UNCHANGED <<scenario, arrivals, world>>

Next ==
  \/ \E s \in Slots :
       \/ \E name \in bounds.cases : Arrive(s, name)
       \/ Step(s)
  \/ \E k \in DOMAIN History : AccountChanges(k) \/ TtlPasses(k)
  \/ PriceMoves
  \/ Restart

Spec == Init /\ [][Next]_vars

-----------------------------------------------------------------------------
RequestType ==
  [stage : Stages, name : DOMAIN Cases \cup {Nobody}, payer : Pool \cup {Nobody},
   ata : BOOLEAN, fee : [total : 0..MaxU64, parts : [DOMAIN NoFee -> 0..MaxU64]],
   paid : 0..MaxU64, attempt : 0..(MaxRetries - 1)]

TypeOK ==
  /\ UsageTypeOK
  /\ scenario \in DOMAIN Scenarios /\ limit = bounds.limit
  /\ \A k \in DOMAIN History : 1 <= oldest[k] /\ oldest[k] <= ledger[k]
                               /\ ledger[k] <= Len(History[k])
  /\ price \in Prices
  /\ req \in [Slots -> RequestType]
  /\ arrivals \in 0..bounds.arrivals /\ moves \in 0..bounds.moves

-----------------------------------------------------------------------------
(* What the chain runs when a signed transaction is executed: the outer    *)
(* instructions, and the inner ones as they are, not as they were rebuilt. *)

Inner(case) == [i \in DOMAIN case.inner |-> case.inner[i].ix]

Executed(s) ==
  IF Case(s).method = "transferTransaction" THEN Resolved(s).instructions
  ELSE Uncompile(Case(s).tx.outer, AllAccountKeys(Case(s).tx, TablesIn(Actual)))
         \o Inner(Case(s))

\* An inner instruction that is rebuilt from its tag alone is not judged.
Unjudged(s) == {ui.ix : ui \in {u \in ToSet(Case(s).inner) :
                                  u.form = "parsed" /\ u.kind \in TagOnly \ CompleteAsTag}}

Signed(s) == req[s].stage = "signed"

(* Whatever program an instruction is called from, however the node        *)
(* reports it and through whichever table its accounts were named, a       *)
(* signed transaction uses the fee payer's consent only as its policy      *)
(* allows (transaction_validator.rs:172, instruction_util.rs:382).         *)
PolicyRespected ==
  \A s \in Slots : Signed(s) =>
    \A ix \in ToSet(Executed(s)) \ Unjudged(s) :
      Recognised(ix) /\ req[s].payer \in Parsed(ix).who =>
        <<ix.program, Parsed(ix).type>> \in conf.policy

\* The lamports that leave the payer's account for those that come in, by one
\* instruction of the system program.
Net(payer, ix) ==
  IF \E type \in {"Transfer", "CreateAccount", "WithdrawNonce"} : ParsedAs(ix, "system", type)
  THEN (IF payer \in Parsed(ix).who THEN ix.amount ELSE 0)
         - (IF Parsed(ix).to = payer THEN ix.amount ELSE 0)
  ELSE 0

\* ...and by the first of a list of instructions, or all.
NetTotals(payer, instructions) ==
  LET total[i \in 0..Len(instructions)] ==
        IF i = 0 THEN 0 ELSE total[i - 1] + Net(payer, instructions[i])
  IN  total

NetLamports(payer, instructions) ==
  NetTotals(payer, instructions)[Len(instructions)]

(* A signature never costs the payer more lamports than the limit allows,  *)
(* however the instructions are nested (transaction_validator.rs:293).     *)
CostBounded ==
  \A s \in Slots : Signed(s) =>
    NetLamports(req[s].payer, Executed(s)) <= conf.maxLamports

(* Under margin and strict pricing, what is paid covers what the payer     *)
(* spends: the payment is judged at another moment than the fee, at other  *)
(* prices and on other accounts, and still no signature is given below     *)
(* cost (versioned_transaction.rs:257, fee.rs:278).  Strict pricing judges *)
(* nothing when its price is worth no lamport.                             *)
Solvent ==
  \A s \in Slots :
    /\ Signed(s) /\ Signs(Case(s))
    /\ conf.model \in {"margin", "strict"} /\ req[s].fee.total > 0
    => req[s].paid >= BaseFee + NetLamports(req[s].payer, Executed(s))

\* n tokens more, moved by a wallet.
Payment(program, mint, source, to, wallet, n) ==
  [program |-> program, kind |-> "transferChecked", amount |-> n,
   accounts |-> <<source, mint, to, wallet>>, named |-> Nobody, whole |-> TRUE]

Paying(rtx, payment) == [rtx EXCEPT !.instructions = Append(@, payment)]

Owed(payer, rtx, view, order) == KoraFee(conf, payer, rtx, view, order).total

Covers(payer, rtx, view, order) ==
  /\ Owed(payer, rtx, view, order) # FAILED
  /\ PaymentSuffices(conf, Owed(payer, rtx, view, order), rtx.instructions, view)

Holding(mint, view) ==
  {k \in DOMAIN view.seen : HoldsTokens(view.seen[k]) /\ view.seen[k].mint = mint}

\* An account the payment may go to; no extension of the three is blocked.
Payable(mint, source, to, view) ==
  /\ view.seen[to].owner = conf.payTo
  /\ view.seen[to].program = "spl2022" =>
       ExtensionsAllowed(conf, [source |-> source, to |-> to], mint, view.fresh)

QuoteCovers(payer, rtx, view, order, mint, n) ==
  \A source, to \in Holding(mint, view), wallet \in Wallets \ {payer} :
    Payable(mint, source, to, view) =>
      Covers(payer, Paying(rtx, Payment(view.seen[to].program, mint, source, to, wallet, n)),
             view, order)

\* The mint keeps no share, and what is paid altogether is a u64.
Quotable(rtx, view, mint, fee) ==
  /\ fee > 0 /\ ~view.fresh[mint].charges
  /\ FeeInToken(conf, fee, mint, view) # FAILED
  /\ CheckedAdd(PaidLamports(conf, rtx.instructions, view),
                TokenValue(FeeInToken(conf, fee, mint, view), view.price[mint])) # FAILED

(* A wallet that adds a payment of the estimate, in a token without a      *)
(* transfer fee, has paid enough if the world has not moved and the mints  *)
(* are visited in the same order: the division by the price rounds up      *)
(* where the multiplication rounds down, and the payment itself does not   *)
(* raise the fee (fee.rs:346, token.rs:192).                               *)
QuoteSuffices ==
  \A s \in Slots : req[s].stage = "price" =>
    \A view \in Views, order \in Orders :
      \E fee \in {Owed(req[s].payer, Resolved(s), view, order)} :
        \A mint \in conf.paidTokens :
          Quotable(Resolved(s), view, mint, fee) =>
            QuoteCovers(req[s].payer, Resolved(s), view, order, mint,
                        FeeInToken(conf, fee, mint, view))
=============================================================================
