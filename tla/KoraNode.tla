------------------------------- MODULE KoraNode -------------------------------
(***************************************************************************)
(* The node the paymaster asks, outside this repository: the accounts the  *)
(* programs of the chain take, in their order, by the names the node gives *)
(* them when it reports an inner instruction in parsed form (the field     *)
(* names instruction_util.rs looks up; "sysvar" for one it does not).      *)
(* Names that are no account of the instruction come with its data.        *)
(***************************************************************************)
EXTENDS KoraInstructions

SystemAccounts ==
  [transfer |-> <<"source", "destination">>,
   transferWithSeed |-> <<"source", "sourceBase", "destination">>,
   createAccount |-> <<"source", "newAccount">>,
   createAccountWithSeed |-> <<"source", "newAccount", "base">>,
   withdrawFromNonce |->
     <<"nonceAccount", "destination", "sysvar", "sysvar", "nonceAuthority">>,
   assign |-> <<"account">>, assignWithSeed |-> <<"account", "base">>,
   allocate |-> <<"account">>, allocateWithSeed |-> <<"account", "base">>,
   initializeNonce |-> <<"nonceAccount", "sysvar", "sysvar">>,
   advanceNonce |-> <<"nonceAccount", "sysvar", "nonceAuthority">>,
   authorizeNonce |-> <<"nonceAccount", "nonceAuthority">>,
   upgradeNonce |-> <<"nonceAccount">>]

TokenAccounts ==
  [transfer |-> <<"source", "destination", "authority">>,
   transferChecked |-> <<"source", "mint", "destination", "authority">>,
   burn |-> <<"account", "mint", "authority">>,
   burnChecked |-> <<"account", "mint", "authority">>,
   closeAccount |-> <<"account", "destination", "owner">>,
   approve |-> <<"source", "delegate", "owner">>,
   approveChecked |-> <<"source", "mint", "delegate", "owner">>,
   revoke |-> <<"source", "owner">>,
   setAuthority |-> <<"account", "authority">>,
   mintTo |-> <<"mint", "account", "mintAuthority">>,
   mintToChecked |-> <<"mint", "account", "mintAuthority">>,
   freezeAccount |-> <<"account", "mint", "freezeAuthority">>,
   thawAccount |-> <<"account", "mint", "freezeAuthority">>,
   initializeMint |-> <<"mint", "sysvar">>, initializeMint2 |-> <<"mint">>,
   initializeAccount |-> <<"account", "mint", "owner", "sysvar">>,
   initializeAccount2 |-> <<"account", "mint", "sysvar">>,
   initializeAccount3 |-> <<"account", "mint">>,
   initializeMultisig |-> <<"multisig", "sysvar", "signer">>,
   initializeMultisig2 |-> <<"multisig", "signer">>]

AccountsOf(program) == IF program = "system" THEN SystemAccounts ELSE TokenAccounts

\* Whose consent the program asks for, by the name of the account.
Consenting == {"authority", "owner", "mintAuthority", "freezeAuthority",
               "nonceAuthority", "signer"}

ConsentOf(program, kind) ==
  CASE kind \in {"transfer", "createAccount", "createAccountWithSeed"}
         /\ program = "system" -> {"source"}
    [] kind = "transferWithSeed" -> {"sourceBase"}
    [] kind \in {"assign", "allocate"} -> {"account"}
    [] kind \in {"assignWithSeed", "allocateWithSeed"} -> {"base"}
    [] kind = "upgradeNonce" -> {}
    [] OTHER -> Consenting

\* One instruction: who consents, and who every other account is.
Run(program, kind, who, other, amount) ==
  [program |-> program, kind |-> kind, amount |-> amount, named |-> who, whole |-> TRUE,
   accounts |-> [i \in DOMAIN AccountsOf(program)[kind] |->
                   IF AccountsOf(program)[kind][i] \in ConsentOf(program, kind)
                   THEN who ELSE other]]

\* The fields reported: the accounts by name, and what the data names.
Info(ix) ==
  LET names == AccountsOf(ix.program)[ix.kind]
      first(f) == CHOOSE i \in DOMAIN names :
                    names[i] = f /\ \A j \in 1..(i - 1) : names[j] # f
      data == IF ix.kind \in DOMAIN LookedUp THEN {LookedUp[ix.kind]} ELSE {}
  IN  Over([f \in {names[i] : i \in DOMAIN names} \ {"sysvar"} |-> ix.accounts[first(f)]],
           [f \in data |-> ix.named])

\* form "parsed" for the programs the node knows, "partial" for the others,
\* "compiled" from a node that parses nothing.
Report(form, ix) ==
  [form |-> form, program |-> ix.program, kind |-> ix.kind, amount |-> ix.amount,
   named |-> ix.named, ix |-> ix,
   info |-> IF form = "parsed" THEN Info(ix) ELSE [f \in {} |-> Nobody]]

NativePrograms == {"system", "spl", "spl2022"}

\* A report of something that ran: it had the accounts of its kind.
Truthful(ui) ==
  /\ ui.form \in {"parsed", "partial", "compiled"}
  /\ ui = Report(ui.form, ui.ix)
  /\ ui.ix.accounts \in Seq(ToSet(ui.ix.accounts))
  /\ ui.form = "partial" => ui.program \notin NativePrograms
  /\ ui.form = "parsed" =>
       /\ ui.ix.whole /\ ui.program \in NativePrograms
       /\ ui.kind \in DOMAIN AccountsOf(ui.program)
       /\ Len(AccountsOf(ui.program)[ui.kind]) <= Len(ui.ix.accounts)
=============================================================================
