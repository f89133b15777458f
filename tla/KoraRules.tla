------------------------------ MODULE KoraRules ------------------------------
(***************************************************************************)
(* What the paymaster decides about one transaction: which accounts and    *)
(* instructions it sees (versioned_transaction.rs), whether it is valid    *)
(* (transaction_validator.rs, macros.rs), what it costs the fee payer and  *)
(* what must be paid for it (fee.rs, price.rs), and whether that payment   *)
(* is in it (token.rs, spl_token_2022.rs).                                 *)
(*                                                                         *)
(* Sums are u64 with checked addition: FAILED stands for every refusal of  *)
(* a computation.  A price is a fraction, lamports per token unit.         *)
(*                                                                         *)
(* conf is the configuration, payer the fee payer.  A view is what the     *)
(* node and the account cache say:                                         *)
(*   seen     get_account(.., false), which the cache may answer           *)
(*   fresh    get_account(.., true), which always asks the node            *)
(*   price    the prices of the oracle, for the mints it knows             *)
(*   baseFee, epoch   getFeeForMessage, getEpochInfo                       *)
(***************************************************************************)
EXTENDS KoraInstructions, FiniteSets

CONSTANTS
  MaxU64,         \* the largest u64, scaled down
  AtaOf           \* the address of the tokens of <<wallet, mint, token program>>

ASSUME MaxU64Assumption == MaxU64 \in Nat \ {0, 1}

FAILED == -1

Checked(n) == IF n \in 0..MaxU64 THEN n ELSE FAILED
CheckedAdd(a, b) == IF FAILED \in {a, b} THEN FAILED ELSE Checked(a + b)
SaturatingSub(a, b) == IF a > b THEN a - b ELSE 0
CeilDiv(a, b) == (a + b - 1) \div b

\* A chain of checked additions.
SumTotals(numbers) ==
  LET total[i \in 0..Len(numbers)] ==
        IF i = 0 THEN 0 ELSE CheckedAdd(total[i - 1], numbers[i])
  IN  total

CheckedSum(numbers) == SumTotals(numbers)[Len(numbers)]

LamportsPerSignature == 2                   \* LAMPORTS_PER_SIGNATURE, scaled
PaymentInstructionLamports == 1             \* ESTIMATED_LAMPORTS_FOR_PAYMENT_INSTRUCTION

-----------------------------------------------------------------------------
(* The accounts and instructions of a transaction.                         *)

\* A lookup names entries of one table: the writable ones, then the others.
LookupInBounds(lookup, tables) ==
  /\ lookup.table \in DOMAIN tables
  /\ \A i \in DOMAIN lookup.writable : lookup.writable[i] < Len(tables[lookup.table])
  /\ \A i \in DOMAIN lookup.readonly : lookup.readonly[i] < Len(tables[lookup.table])

Entries(indexes, table) == [i \in DOMAIN indexes |-> At(table, indexes[i])]

\* Table after table, in the order of the message.
ResolveLookupTableAddresses(lookups, tables) ==
  FlattenSeq([i \in DOMAIN lookups |->
    Entries(lookups[i].writable, tables[lookups[i].table])
      \o Entries(lookups[i].readonly, tables[lookups[i].table])])

AllAccountKeys(tx, tables) ==
  tx.static \o ResolveLookupTableAddresses(tx.lookups, tables)

CanResolve(tx, tables) ==
  /\ \A i \in DOMAIN tx.lookups : LookupInBounds(tx.lookups[i], tables)
  /\ CanUncompile(tx.outer, AllAccountKeys(tx, tables))

\* from_transaction: the outer instructions, then the inner ones simulated.
FromTransaction(tx, tables, uis) ==
  LET keys == AllAccountKeys(tx, tables)
  IN  [keys |-> keys, signers |-> tx.signers, signatures |-> tx.signatures,
       instructions |-> Uncompile(tx.outer, keys)
                          \o InnerInstructions(uis, ToSet(keys))]

SignerKeys(rtx) == {rtx.keys[i] : i \in 1..(IF rtx.signers < Len(rtx.keys)
                                            THEN rtx.signers ELSE Len(rtx.keys))}

-----------------------------------------------------------------------------
(* Lamports the fee payer gives away.                                      *)

\* What the payer gives is added, what it gets is subtracted down to zero.
CountMove(payer, total, p) ==
  LET out == IF payer \in p.who THEN CheckedAdd(total, p.amount) ELSE total
  IN  IF p.to = payer /\ out # FAILED THEN SaturatingSub(out, p.amount) ELSE out

\* The totals as the instructions of one type are counted, one by one.
SystemTotals(payer, instructions, type, start) ==
  LET total[i \in 0..Len(instructions)] ==
        IF i = 0 THEN start
        ELSE IF ParsedAs(instructions[i], "system", type)
        THEN CountMove(payer, total[i - 1], Parsed(instructions[i]))
        ELSE total[i - 1]
  IN  total

\* ...the last of them.
OutflowOf(payer, instructions, type, start) ==
  SystemTotals(payer, instructions, type, start)[Len(instructions)]

\* Bug: accounts the payer funds are not counted.
OutflowOfTransfers(payer, instructions) ==
  OutflowOf(payer, instructions, "WithdrawNonce",
    OutflowOf(payer, instructions, "Transfer", 0))

\* Transfers, then account creations, then nonce withdrawals.
SystemOutflow(payer, instructions) ==
  OutflowOf(payer, instructions, "WithdrawNonce",
    OutflowOf(payer, instructions, "CreateAccount",
      OutflowOf(payer, instructions, "Transfer", 0)))

\* calculate_token_value_in_lamports: rounded down.
TokenValue(amount, price) == Checked((amount * price.num) \div price.den)

\* Bug: rounded down like the value of a payment.
TokensForFloor(lamports, price) ==
  IF price.num = 0 THEN FAILED ELSE Checked((lamports * price.den) \div price.num)

\* calculate_lamports_value_in_token: rounded up; no token is worth nothing.
TokensFor(lamports, price) ==
  IF price.num = 0 THEN FAILED ELSE Checked(CeilDiv(lamports * price.den, price.num))

IsTokenProgram(program) == program \in {"spl", "spl2022"}
HoldsTokens(account) == account.status = "found" /\ IsTokenProgram(account.program)
                          /\ account.holds

\* The two addresses a wallet's tokens of a mint go to by convention.
AtasOf(wallet, mint) ==
  {AtaOf[x] : x \in {y \in DOMAIN AtaOf : y[1] = wallet /\ y[2] = mint}}

\* A transfer out of the fee payer's account whose mint must be looked up.
UnreadableSource(payer, t, seen) ==
  payer \in t.who /\ t.mint = Nobody /\ ~HoldsTokens(seen[t.source])

\* A transfer whose destination is there but holds no tokens.
UnreadableTarget(payer, t, seen) ==
  /\ payer \notin t.who
  /\ t.mint # Nobody
  /\ seen[t.to].status = "found"
  /\ ~HoldsTokens(seen[t.to])

IsOutflow(payer, t) == payer \in t.who
IsInflow(payer, t, seen) ==
  /\ payer \notin t.who
  /\ t.mint # Nobody
  /\ \/ seen[t.to].status = "found" /\ seen[t.to].owner = payer
     \/ seen[t.to].status = "missing" /\ t.to \in AtasOf(payer, t.mint)

MintOf(t, seen) == IF t.mint = Nobody THEN seen[t.source].mint ELSE t.mint

MovesTokens(payer, t, seen) == IsOutflow(payer, t) \/ IsInflow(payer, t, seen)

\* A transfer at its value: out of the payer's accounts, or into them.
CountTokens(payer, total, t, view) ==
  LET value == TokenValue(t.amount, view.price[MintOf(t, view.seen)])
  IN  IF FAILED \in {total, value} THEN FAILED
      ELSE IF IsOutflow(payer, t) THEN CheckedAdd(total, value)
      ELSE SaturatingSub(total, value)

\* The totals as the transfers of one mint are counted, one by one.
MintTotals(payer, transfers, mint, view, start) ==
  LET total[i \in 0..Len(transfers)] ==
        IF i = 0 THEN start
        ELSE IF /\ MovesTokens(payer, transfers[i], view.seen)
                /\ MintOf(transfers[i], view.seen) = mint
        THEN CountTokens(payer, total[i - 1], transfers[i], view)
        ELSE total[i - 1]
  IN  total

\* The totals as the mints are visited, in the order of a hash map: any order.
TokenTotals(payer, transfers, view, order) ==
  LET total[j \in 0..Len(order)] ==
        IF j = 0 THEN 0
        ELSE MintTotals(payer, transfers, order[j], view, total[j - 1])[Len(transfers)]
  IN  total

\* An account cannot be read, or a mint has no price.
Uncountable(payer, transfers, view) ==
  \E i \in DOMAIN transfers :
    \/ UnreadableSource(payer, transfers[i], view.seen)
    \/ UnreadableTarget(payer, transfers[i], view.seen)
    \/ /\ MovesTokens(payer, transfers[i], view.seen)
       /\ MintOf(transfers[i], view.seen) \notin DOMAIN view.price

SplOutflow(payer, transfers, view, order) ==
  IF Uncountable(payer, transfers, view) THEN FAILED
  ELSE TokenTotals(payer, transfers, view, order)[Len(order)]

\* calculate_fee_payer_outflow
FeePayerOutflow(payer, instructions, view, order) ==
  IF ParseFails(instructions, {"system", "spl", "spl2022"}) THEN FAILED
  ELSE CheckedAdd(SystemOutflow(payer, instructions),
                  SplOutflow(payer, TokenTransfers(instructions), view, order))

-----------------------------------------------------------------------------
(* Validation.                                                             *)

ValidSignatures(conf, rtx) == rtx.signatures \in 1..conf.maxSignatures

ValidPrograms(conf, rtx) ==
  \A i \in DOMAIN rtx.instructions : rtx.instructions[i].program \in conf.programs

ValidTransferAmounts(conf, payer, rtx, view, order) ==
  FeePayerOutflow(payer, rtx.instructions, view, order) \in 0..conf.maxLamports

ValidAccounts(conf, rtx) ==
  \A i \in DOMAIN rtx.instructions :
    /\ rtx.instructions[i].program \notin conf.disallowed
    /\ ToSet(rtx.instructions[i].accounts) \cap conf.disallowed = {}

Recognises(rtx, program, type) ==
  \E i \in DOMAIN rtx.instructions : ParsedAs(rtx.instructions[i], program, type)

\* A durable transaction does not expire with its blockhash.
ValidDurability(conf, rtx) == conf.durable \/ ~Recognises(rtx, "system", "AdvanceNonce")

\* The policy lists the system instructions the fee payer may authorise...
ValidSystemUse(conf, payer, rtx) ==
  \A i \in DOMAIN rtx.instructions :
    LET ix == rtx.instructions[i]
    IN  ix.program = "system" /\ Recognised(ix) /\ payer \in Parsed(ix).who =>
          <<"system", Parsed(ix).type>> \in conf.policy

\* ...and, for each token program, its instructions.
ValidTokenUse(conf, payer, rtx) ==
  \A i \in DOMAIN rtx.instructions :
    LET ix == rtx.instructions[i]
    IN  IsTokenProgram(ix.program) /\ Recognised(ix) /\ payer \in Parsed(ix).who =>
          <<ix.program, Parsed(ix).type>> \in conf.policy

ValidFeePayerUse(conf, payer, rtx) ==
  /\ ValidDurability(conf, rtx)
  /\ ValidSystemUse(conf, payer, rtx)
  /\ ValidTokenUse(conf, payer, rtx)

\* validate_transaction
Valid(conf, payer, rtx, view, order) ==
  /\ Len(rtx.instructions) > 0
  /\ Len(rtx.keys) > 0
  /\ ValidSignatures(conf, rtx)
  /\ ValidPrograms(conf, rtx)
  /\ ValidTransferAmounts(conf, payer, rtx, view, order)
  /\ ValidAccounts(conf, rtx)
  /\ ValidFeePayerUse(conf, payer, rtx)

-----------------------------------------------------------------------------
(* The fee.                                                                *)

\* calculate_transfer_fee: a Token-2022 mint may keep a share of a transfer.
\* basis points are scaled to tenths.
TransferFee(mint, amount, epoch) ==
  LET rate == IF epoch >= mint.newer.epoch THEN mint.newer ELSE mint.older
      fee == (amount * rate.tenths) \div 10
  IN  IF fee < rate.maximum THEN fee ELSE rate.maximum

\* get_payment_instruction_info: an account that cannot be fetched is no payment.
IsPayment(t, payTo, seen) == HoldsTokens(seen[t.to]) /\ seen[t.to].owner = payTo

UnreadablePayment(t, seen) == seen[t.to].status = "found" /\ ~HoldsTokens(seen[t.to])

FeeWithheld(t, view) ==
  IF t.program = "spl2022" /\ t.mint # Nobody /\ view.fresh[t.mint].charges
  THEN TransferFee(view.fresh[t.mint], t.amount, view.epoch)
  ELSE 0

\* A payment whose mint cannot be fetched is not analysed.
Unanalysed(conf, t, view) ==
  \/ UnreadablePayment(t, view.seen)
  \/ /\ IsPayment(t, conf.payTo, view.seen)
     /\ t.program = "spl2022" /\ t.mint # Nobody
     /\ view.fresh[t.mint].status # "found"

\* analyze_payment_instructions
PaymentAnalysis(conf, transfers, view) ==
  LET Pays(t) == IsPayment(t, conf.payTo, view.seen)
  IN  IF \E i \in DOMAIN transfers : Unanalysed(conf, transfers[i], view)
      THEN [found |-> FALSE, withheld |-> FAILED]
      ELSE [found |-> \E i \in DOMAIN transfers : Pays(transfers[i]),
            withheld |-> CheckedSum([i \in DOMAIN transfers |->
              IF Pays(transfers[i]) THEN FeeWithheld(transfers[i], view) ELSE 0])]

NoFee == [base |-> 0, signature |-> 0, outflow |-> 0, payment |-> 0, withheld |-> 0]

Components(fee) ==
  IF FAILED \in {fee.base, fee.signature, fee.outflow, fee.payment, fee.withheld}
  THEN FAILED
  ELSE Checked(fee.base + fee.signature + fee.outflow + fee.payment + fee.withheld)

IsPaymentRequired(conf) == conf.model # "free"

\* Bug: what the payer gives away is left out of the fee.
FeeWithoutOutflow(conf, payer, rtx, view, outflow, analysis) ==
  [base |-> view.baseFee,
   signature |-> IF payer \in SignerKeys(rtx) THEN 0 ELSE LamportsPerSignature,
   outflow |-> 0,
   payment |-> IF IsPaymentRequired(conf) /\ ~analysis.found
               THEN PaymentInstructionLamports ELSE 0,
   withheld |-> analysis.withheld]

\* estimate_transaction_fee, of what the payer gives away and the payments found.
FeeOf(conf, payer, rtx, view, outflow, analysis) ==
  [base |-> view.baseFee,
   signature |-> IF payer \in SignerKeys(rtx) THEN 0 ELSE LamportsPerSignature,
   outflow |-> outflow,
   payment |-> IF IsPaymentRequired(conf) /\ ~analysis.found
               THEN PaymentInstructionLamports ELSE 0,
   withheld |-> analysis.withheld]

FeeComponents(conf, payer, rtx, view, order) ==
  FeeOf(conf, payer, rtx, view,
        FeePayerOutflow(payer, rtx.instructions, view, order),
        PaymentAnalysis(conf, TokenTransfers(rtx.instructions), view))

\* get_required_lamports_with_margin: rounded up; the margin is in tenths.
WithMargin(lamports, tenths) ==
  IF lamports = FAILED THEN FAILED ELSE Checked(CeilDiv(lamports * (10 + tenths), 10))

\* get_required_lamports_with_fixed
WithFixed(conf, view) ==
  IF conf.priceToken \in DOMAIN view.price
  THEN TokenValue(conf.priceAmount, view.price[conf.priceToken]) ELSE FAILED

\* What the price model makes of the components.
ByModel(conf, parts, view) ==
  CASE conf.model = "free"   -> [total |-> 0, parts |-> NoFee]
    [] conf.model = "fixed"  -> [total |-> WithFixed(conf, view), parts |-> NoFee]
    [] conf.model = "strict" ->
         [total |-> IF Components(parts) = FAILED THEN FAILED ELSE WithFixed(conf, view),
          parts |-> parts]
    [] conf.model = "margin" ->
         [total |-> WithMargin(Components(parts), conf.margin), parts |-> parts]

\* estimate_kora_fee
KoraFee(conf, payer, rtx, view, order) ==
  ByModel(conf, FeeComponents(conf, payer, rtx, view, order), view)

\* validate_strict_pricing_with_fee
StrictHolds(conf, fee) == conf.model = "strict" => Components(fee.parts) <= fee.total

\* calculate_fee_in_token: what estimateTransactionFee quotes.
FeeInToken(conf, lamports, token, view) ==
  IF token \in conf.paidTokens /\ token \in DOMAIN view.price
  THEN TokensFor(lamports, view.price[token]) ELSE FAILED

-----------------------------------------------------------------------------
(* The payment.                                                            *)

\* find_ata_creation_for_destination: the first creation of that account.
CreatesAta(ix, address) ==
  ix.program = "ata" /\ Len(ix.accounts) >= 6 /\ At(ix.accounts, 1) = address

AtaCreations(instructions, address) ==
  {i \in DOMAIN instructions : CreatesAta(instructions[i], address)}

\* validate_token2022_extensions_for_payment
ExtensionsAllowed(conf, t, mint, fresh) ==
  /\ {mint, t.source, t.to} \subseteq {k \in DOMAIN fresh : fresh[k].status = "found"}
  /\ fresh[mint].extensions \cap conf.blockedMint = {}
  /\ \A k \in {t.source, t.to} : fresh[k].extensions \cap conf.blockedAccount = {}

\* validate_token2022_partial_for_ata_creation
ExtensionsAllowedAtCreation(conf, t, mint, fresh) ==
  /\ {mint, t.source} \subseteq {k \in DOMAIN fresh : fresh[k].status = "found"}
  /\ fresh[mint].extensions \cap conf.blockedMint = {}
  /\ fresh[t.source].extensions \cap conf.blockedAccount = {}

\* Who a transfer pays, and in which mint; Nobody refuses the transaction.
Refused == [owner |-> Nobody, mint |-> Nobody]

Payee(conf, t, instructions, view) ==
  LET target == view.seen[t.to]
      creations == AtaCreations(instructions, t.to)
      accounts == instructions[Min(creations)].accounts
      created == [owner |-> At(accounts, 2), mint |-> At(accounts, 3)]
      named == IF t.mint = Nobody THEN target.mint ELSE t.mint
  IN  CASE target.status = "found" ->
             IF /\ target.holds
                /\ t.program = "spl2022" => ExtensionsAllowed(conf, t, named, view.fresh)
             THEN [owner |-> target.owner, mint |-> target.mint] ELSE Refused
        [] target.status = "missing" /\ creations # {} ->
             IF t.program = "spl2022"
                  => ExtensionsAllowedAtCreation(conf, t, created.mint, view.fresh)
             THEN created ELSE Refused
        [] OTHER -> Refused

\* verify_token_payment: what one transfer pays for the transaction, in lamports.
PaidBy(conf, t, payee, view) ==
  IF payee = Refused THEN FAILED
  ELSE IF payee.owner # conf.payTo \/ payee.mint \notin conf.paidTokens THEN 0
  ELSE IF payee.mint \in DOMAIN view.price
  THEN TokenValue(t.amount, view.price[payee.mint]) ELSE FAILED

PaidLamports(conf, instructions, view) ==
  LET transfers == TokenTransfers(instructions)
      Paid(t) == PaidBy(conf, t, Payee(conf, t, instructions, view), view)
  IN  CheckedSum([i \in DOMAIN transfers |-> Paid(transfers[i])])

\* The payment is judged against the fee that was computed before.
Reaches(paid, required) == paid # FAILED /\ paid >= required

PaymentSuffices(conf, required, instructions, view) ==
  Reaches(PaidLamports(conf, instructions, view), required)
=============================================================================
