-------------------------- MODULE KoraInstructions --------------------------
(***************************************************************************)
(* How the paymaster reads a transaction: which instructions it            *)
(* recognises, whose authority and which amounts it reads out of them, and *)
(* how it rebuilds the instructions another program makes (the inner       *)
(* instructions a simulation reports) so that it can read those too        *)
(* (kora/crates/lib/src/transaction/instruction_util.rs).                  *)
(*                                                                         *)
(* An instruction is a record                                              *)
(*   program   the program called ("system", "spl", "spl2022", "ata", ...) *)
(*   kind      the instruction of that program                             *)
(*   accounts  the sequence of accounts it is given                        *)
(*   amount    the lamports or tokens in its data                          *)
(*   named     the authority its data names, when the data names one       *)
(*   whole     whether the data is complete: the tag alone does not decode *)
(* Positions in tables are the zero-based indexes of the code.             *)
(***************************************************************************)
EXTENDS Naturals, Integers, Sequences, SequencesExt

Nobody == "nobody"
InData == -1             \* the authority is in the instruction's data
Absent == -2             \* the instruction has no such account

At(accounts, index) ==
  IF index \in 0..(Len(accounts) - 1) THEN accounts[index + 1] ELSE Nobody

Layout(needs, who, to) == [needs |-> needs, who |-> who, to |-> to]

-----------------------------------------------------------------------------
(* The account each instruction must have: how many, and at which index    *)
(* the key whose consent it uses and the one it pays.                      *)

SystemIndexes ==
  [transfer              |-> Layout(2, 0, 1),
   transferWithSeed      |-> Layout(3, 1, 2),
   createAccount         |-> Layout(1, 0, Absent),
   createAccountWithSeed |-> Layout(1, 0, Absent),
   withdrawFromNonce     |-> Layout(5, 4, 1),
   assign                |-> Layout(1, 0, Absent),
   assignWithSeed        |-> Layout(2, 1, Absent),
   allocate              |-> Layout(1, 0, Absent),
   allocateWithSeed      |-> Layout(2, 1, Absent),
   initializeNonce       |-> Layout(3, InData, Absent),
   advanceNonce          |-> Layout(3, 2, Absent),
   authorizeNonce        |-> Layout(2, 1, Absent)]

TokenIndexes ==
  [transfer           |-> Layout(3, 2, 1),
   transferChecked    |-> Layout(4, 3, 2),
   burn               |-> Layout(3, 2, Absent),
   burnChecked        |-> Layout(3, 2, Absent),
   closeAccount       |-> Layout(3, 2, Absent),
   approve            |-> Layout(3, 2, Absent),
   approveChecked     |-> Layout(4, 3, Absent),
   revoke             |-> Layout(2, 1, Absent),
   setAuthority       |-> Layout(2, 1, Absent),
   mintTo             |-> Layout(3, 2, Absent),
   mintToChecked      |-> Layout(3, 2, Absent),
   initializeMint     |-> Layout(2, InData, Absent),
   initializeMint2    |-> Layout(1, InData, Absent),
   initializeAccount  |-> Layout(4, 2, Absent),
   initializeAccount2 |-> Layout(3, InData, Absent),
   initializeAccount3 |-> Layout(2, InData, Absent),
   initializeMultisig  |-> Layout(2, Absent, Absent),
   initializeMultisig2 |-> Layout(1, Absent, Absent),
   freezeAccount      |-> Layout(3, 2, Absent),
   thawAccount        |-> Layout(3, 2, Absent)]

-----------------------------------------------------------------------------
(* What an instruction counts as when it is judged.  upgradeNonce is       *)
(* skipped on purpose, and so is every other instruction not listed.       *)

SystemTypes ==
  [transfer |-> "Transfer", transferWithSeed |-> "Transfer",
   createAccount |-> "CreateAccount", createAccountWithSeed |-> "CreateAccount",
   withdrawFromNonce |-> "WithdrawNonce",
   assign |-> "Assign", assignWithSeed |-> "Assign",
   allocate |-> "Allocate", allocateWithSeed |-> "Allocate",
   initializeNonce |-> "InitializeNonce", advanceNonce |-> "AdvanceNonce",
   authorizeNonce |-> "AuthorizeNonce"]

HolderTypes ==
  [transfer |-> "Transfer", transferChecked |-> "Transfer",
   burn |-> "Burn", burnChecked |-> "Burn", closeAccount |-> "CloseAccount",
   approve |-> "Approve", approveChecked |-> "Approve", revoke |-> "Revoke"]

AuthorityTypes ==
  [setAuthority |-> "SetAuthority", mintTo |-> "MintTo", mintToChecked |-> "MintTo",
   freezeAccount |-> "FreezeAccount", thawAccount |-> "ThawAccount"]

InitialiserTypes ==
  [initializeMint |-> "InitializeMint", initializeMint2 |-> "InitializeMint",
   initializeAccount |-> "InitializeAccount",
   initializeAccount2 |-> "InitializeAccount",
   initializeAccount3 |-> "InitializeAccount",
   initializeMultisig |-> "InitializeMultisig",
   initializeMultisig2 |-> "InitializeMultisig"]

\* f, and g where f says nothing.
Over(f, g) ==
  [x \in DOMAIN f \cup DOMAIN g |-> IF x \in DOMAIN f THEN f[x] ELSE g[x]]

SplTypes == Over(HolderTypes, Over(AuthorityTypes, InitialiserTypes))

\* The branch for the Token-2022 program reads the same instructions.
Token2022Types == SplTypes

TypesOf(program) ==
  CASE program = "system"  -> SystemTypes
    [] program = "spl"     -> SplTypes
    [] program = "spl2022" -> Token2022Types
    [] OTHER               -> <<>>

LayoutOf(ix) ==
  IF ix.program = "system" THEN SystemIndexes[ix.kind] ELSE TokenIndexes[ix.kind]

\* The data decodes to an instruction that is judged.
Recognised(ix) == ix.whole /\ ix.kind \in DOMAIN TypesOf(ix.program)

\* A recognised instruction without its accounts refuses the transaction.
Malformed(ix) == Recognised(ix) /\ Len(ix.accounts) < LayoutOf(ix).needs

\* The signers of a new multisig follow the account itself, and the rent sysvar.
MultisigSigners(ix) ==
  LET first == IF ix.kind = "initializeMultisig" THEN 3 ELSE 2
  IN  {ix.accounts[i] : i \in first..Len(ix.accounts)}

Consents(ix, who) ==
  IF who = InData THEN {ix.named} ELSE {At(ix.accounts, who)}

Authorities(ix) ==
  IF ix.kind \in {"initializeMultisig", "initializeMultisig2"} THEN MultisigSigners(ix)
  ELSE Consents(ix, TokenIndexes[ix.kind].who)

SystemParsed(ix) ==
  [program |-> ix.program, type |-> SystemTypes[ix.kind], amount |-> ix.amount,
   who |-> Consents(ix, SystemIndexes[ix.kind].who), source |-> Nobody,
   mint |-> Nobody, to |-> At(ix.accounts, SystemIndexes[ix.kind].to)]

\* Only a checked transfer names its mint.
TokenParsed(ix) ==
  [program |-> ix.program, type |-> SplTypes[ix.kind],
   amount |-> ix.amount, who |-> Authorities(ix), source |-> At(ix.accounts, 0),
   mint |-> IF ix.kind = "transferChecked" THEN At(ix.accounts, 1) ELSE Nobody,
   to |-> At(ix.accounts, TokenIndexes[ix.kind].to)]

Parsed(ix) == IF ix.program = "system" THEN SystemParsed(ix) ELSE TokenParsed(ix)

\* Whether an instruction is kept under a type when those of a program are parsed.
ParsedAs(ix, program, type) ==
  Recognised(ix) /\ ix.program = program /\ Parsed(ix).type = type

\* Both parsers give up on the first instruction that lacks an account.
ParseFails(instructions, programs) ==
  \E i \in DOMAIN instructions :
    instructions[i].program \in programs /\ Malformed(instructions[i])

IsTokenTransfer(ix) == ix.program # "system" /\ ParsedAs(ix, ix.program, "Transfer")

\* The token transfers, in the order of the transaction.
TokenTransfers(instructions) ==
  LET Kept(ix) == IF IsTokenTransfer(ix) THEN <<Parsed(ix)>> ELSE <<>>
  IN  FlattenSeq([i \in DOMAIN instructions |-> Kept(instructions[i])])

-----------------------------------------------------------------------------
(* Inner instructions.  The node reports those of the system and token     *)
(* programs in a parsed form: a type and named fields.  Each is rebuilt    *)
(* with the accounts in the fields below, in this order.                   *)

SystemMoneyFields ==
  [transfer |-> <<"source", "destination">>,
   createAccount |-> <<"source", "newAccount">>,
   transferWithSeed |-> <<"source", "sourceBase", "destination">>,
   createAccountWithSeed |-> <<"source", "newAccount", "base">>,
   withdrawFromNonce |-> <<"nonceAccount", "destination", "nonceAuthority">>]

SystemOwnerFields ==
  [assign |-> <<"account">>, assignWithSeed |-> <<"account", "base">>,
   allocate |-> <<"account">>, allocateWithSeed |-> <<"account", "base">>,
   initializeNonce |-> <<"nonceAccount">>,
   advanceNonce |-> <<"nonceAccount", "nonceAuthority">>,
   authorizeNonce |-> <<"nonceAccount", "nonceAuthority">>]

\* Bug: the owner of a closed account is rebuilt in its destination's place.
HolderFieldsSwapped ==
  [transfer |-> <<"source", "destination", "authority">>,
   transferChecked |-> <<"source", "mint", "destination", "authority">>,
   burn |-> <<"account", "authority">>,
   burnChecked |-> <<"account", "mint", "authority">>,
   closeAccount |-> <<"account", "owner", "destination">>]

HolderFields ==
  [transfer |-> <<"source", "destination", "authority">>,
   transferChecked |-> <<"source", "mint", "destination", "authority">>,
   burn |-> <<"account", "authority">>,
   burnChecked |-> <<"account", "mint", "authority">>,
   closeAccount |-> <<"account", "destination", "owner">>]

DelegateFields ==
  [approve |-> <<"source", "delegate", "owner">>,
   approveChecked |-> <<"source", "mint", "delegate", "owner">>,
   revoke |-> <<"source", "owner">>]

AuthorityFields ==
  [setAuthority |-> <<"account", "authority">>,
   mintTo |-> <<"mint", "account", "mintAuthority">>,
   mintToChecked |-> <<"mint", "account", "mintAuthority">>,
   freezeAccount |-> <<"account", "mint", "freezeAuthority">>,
   thawAccount |-> <<"account", "mint", "freezeAuthority">>]

InitialiserFields ==
  [initializeMint |-> <<"mint">>, initializeMint2 |-> <<"mint">>,
   initializeAccount |-> <<"account", "mint", "owner">>,
   initializeAccount2 |-> <<"account", "mint">>,
   initializeAccount3 |-> <<"account", "mint">>,
   initializeMultisig |-> <<"multisig">>, initializeMultisig2 |-> <<"multisig">>]

\* Rebuilt with nothing but the tag as data.
TagOnly == {"setAuthority", "initializeMint", "initializeMint2", "initializeAccount",
            "initializeAccount2", "initializeAccount3", "initializeMultisig",
            "initializeMultisig2"}

\* Of those, the one whose data is the tag and nothing more.
CompleteAsTag == {"initializeAccount"}

\* Fields that must be present though nothing is made of them.
LookedUp ==
  [initializeNonce |-> "nonceAuthority", authorizeNonce |-> "newAuthority",
   initializeMint |-> "mintAuthority", initializeMint2 |-> "mintAuthority",
   initializeAccount2 |-> "owner", initializeAccount3 |-> "owner",
   initializeMultisig |-> "signers", initializeMultisig2 |-> "signers"]

SystemFields == Over(SystemMoneyFields, SystemOwnerFields)
TokenFields ==
  Over(HolderFields, Over(DelegateFields, Over(AuthorityFields, InitialiserFields)))

Dropped == [program |-> Nobody]

Rebuilt(ui, fields, whole) ==
  [program |-> ui.program, kind |-> ui.kind, amount |-> ui.amount, whole |-> whole,
   named |-> ui.named, accounts |-> [i \in DOMAIN fields |-> ui.info[fields[i]]]]

\* An instruction that keeps only its program.
Stub(ui) == [program |-> ui.program, kind |-> "none", amount |-> 0, whole |-> FALSE,
             named |-> Nobody, accounts |-> <<>>]

\* A field that is missing, or an account the transaction does not list,
\* fails the rebuilding.
FieldsPresent(ui, fields, keys) ==
  /\ \A i \in DOMAIN fields :
       fields[i] \in DOMAIN ui.info /\ ui.info[fields[i]] \in keys
  /\ ui.kind \in DOMAIN LookedUp => LookedUp[ui.kind] \in DOMAIN ui.info

ReconstructSystem(ui, keys) ==
  IF ui.kind \notin DOMAIN SystemFields THEN Stub(ui)
  ELSE IF FieldsPresent(ui, SystemFields[ui.kind], keys)
       THEN Rebuilt(ui, SystemFields[ui.kind], TRUE) ELSE Dropped

ReconstructToken(ui, keys) ==
  IF ui.kind \notin DOMAIN TokenFields THEN Stub(ui)
  ELSE IF FieldsPresent(ui, TokenFields[ui.kind], keys)
       THEN Rebuilt(ui, TokenFields[ui.kind],
                    ui.kind \notin TagOnly \/ ui.kind \in CompleteAsTag)
       ELSE Dropped

\* ui.form: "compiled" and "partial" come with their accounts and data,
\* "parsed" with named fields.
Reconstruct(ui, keys) ==
  IF ui.form = "compiled" THEN ui.ix
  ELSE IF ui.program \notin keys THEN Dropped
  ELSE IF ui.form = "partial"
  THEN LET Known(k) == k \in keys IN [ui.ix EXCEPT !.accounts = SelectSeq(@, Known)]
  ELSE CASE ui.program = "system" -> ReconstructSystem(ui, keys)
         [] ui.program \in {"spl", "spl2022"} -> ReconstructToken(ui, keys)
         [] OTHER -> Stub(ui)

\* fetch_inner_instructions: what cannot be rebuilt is left out.
InnerInstructions(uis, keys) ==
  LET Kept(ix) == IF ix = Dropped THEN <<>> ELSE <<ix>>
  IN  FlattenSeq([i \in DOMAIN uis |-> Kept(Reconstruct(uis[i], keys))])

-----------------------------------------------------------------------------
(* Compiled instructions refer to accounts by their position.              *)

\* uncompile_instructions: one index out of range refuses the transaction.
CanUncompile(compiled, keys) ==
  \A i \in DOMAIN compiled :
    /\ compiled[i].program < Len(keys)
    /\ \A j \in DOMAIN compiled[i].accounts : compiled[i].accounts[j] < Len(keys)

Uncompile(compiled, keys) ==
  [i \in DOMAIN compiled |->
     [compiled[i] EXCEPT !.program = At(keys, @),
                         !.accounts = [j \in DOMAIN @ |-> At(keys, @[j])]]]
=============================================================================
