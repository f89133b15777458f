------------------------------- MODULE KoraAtas -------------------------------
(***************************************************************************)
(* The paymaster's associated token accounts (admin/token_util.rs):        *)
(* find_missing_atas, which the validator also asks, and the creation of   *)
(* what is missing, a chunk in one transaction.  For each address in turn, *)
(* the accounts are looked for through the cache, one await each; anybody  *)
(* may open or close one meanwhile, and a transaction may have landed      *)
(* though its confirmation is lost.                                        *)
(***************************************************************************)
EXTENDS AccountCache, KoraConfig, SequencesExt

CONSTANTS Admin         \* the reader that is this command

VARIABLES
  job,          \* where it is
  opened        \* token accounts that were open at some time since it began,
                \* or so shortly before that the cache may still say so

ataVars == <<job, opened>>

\* asked: the addresses; left: those still to do; mints: those still to look
\* for, mint the one it looks for; plan: what to create; creates: whether to.
NoJob ==
  [stage |-> "none", asked |-> <<>>, left |-> <<>>, creates |-> FALSE, chunk |-> 0,
   mints |-> {}, mint |-> NoKey, plan |-> <<>>]

MintsOf(c) == c.paidTokens.list \cap PublicKeys

\* The account looked for is always the SPL token program's.
Ata(owner, mint) == owner \o "/" \o mint
Ata2022(owner, mint) == owner \o "/" \o mint \o "/2022"

Created(owner, held, mint) ==
  IF held = "spl mint" THEN Ata(owner, mint) ELSE Ata2022(owner, mint)

OpenLately == {k \in Keys : since[k]["open"] <= Promised}

-----------------------------------------------------------------------------
JobGoes(next) == job' = next /\ UNCHANGED opened

JobEnds(how) == JobGoes([job EXCEPT !.stage = how, !.plan = <<>>])

At(stage) == job.stage = stage

Begins(addresses, creates, chunk) ==
  /\ job' = [NoJob EXCEPT !.stage = "next", !.asked = addresses, !.left = addresses,
                          !.creates = creates, !.chunk = chunk]
  /\ opened' = OpenLately

NextAddress(c) ==
  /\ At("next") /\ job.left # <<>>
  /\ JobGoes([job EXCEPT !.stage = "look", !.mints = MintsOf(c)])
  /\ UNCHANGED cacheVars

AllDone ==
  /\ At("next") /\ job.left = <<>>
  /\ JobEnds("done") /\ UNCHANGED cacheVars

Owner == Head(job.left)

\* The mints are taken in the order of the file; here, in any.
Look(m) ==
  /\ At("look") /\ m \in job.mints
  /\ GetAccount(Admin, Ata(Owner, m), FALSE)
  /\ JobGoes([job EXCEPT !.stage = "ata", !.mint = m, !.mints = @ \ {m}])

Exists ==
  /\ At("ata") /\ Stage(Admin) = "done"
  /\ Rests(Admin) /\ UNCHANGED <<caching, account, since, entry>>
  /\ JobGoes([job EXCEPT !.stage = "look", !.mint = NoKey])

\* Any error counts as missing; then the mint says which program it needs.
Missing ==
  /\ At("ata") /\ Stage(Admin) = "failed"
  /\ ReaderGoes(Admin, Asking(job.mint, FALSE))
  /\ JobGoes([job EXCEPT !.stage = "mint"])

Planned ==
  /\ At("mint") /\ Stage(Admin) = "done" /\ reader[Admin].value \in Mints
  /\ Rests(Admin) /\ UNCHANGED <<caching, account, since, entry>>
  /\ JobGoes([job EXCEPT !.stage = "look", !.mint = NoKey,
                !.plan = Append(@, Created(Owner, reader[Admin].value, job.mint))])

\* No mint account, or not a mint.
NoProgram ==
  /\ At("mint") /\ Answered(Admin)
  /\ Stage(Admin) = "done" => reader[Admin].value \notin Mints
  /\ Rests(Admin) /\ UNCHANGED <<caching, account, since, entry>>
  /\ JobEnds("failed")

AllExist ==
  /\ At("look") /\ job.mints = {} /\ job.plan = <<>>
  /\ JobGoes([job EXCEPT !.stage = "next", !.left = Tail(@)])
  /\ UNCHANGED cacheVars

\* find_missing_atas has found some.
SomeMissing ==
  /\ At("look") /\ job.mints = {} /\ job.plan # <<>>
  /\ IF job.creates /\ job.chunk > 0
     THEN JobGoes([job EXCEPT !.stage = "create"])
     ELSE JobEnds("failed")     \* the validator; or chunks(0), which panics
  /\ UNCHANGED cacheVars

-----------------------------------------------------------------------------
(* create_atas_for_signer.                                                 *)

ChunkLength == IF job.chunk < Len(job.plan) THEN job.chunk ELSE Len(job.plan)

Chunk == {job.plan[i] : i \in 1..ChunkLength}

\* The accounts are created all or none.
CanLand == \A k \in Chunk : account[k] = Absent

Land ==
  /\ CanLand
  /\ account' = [k \in Keys |-> IF k \in Chunk THEN "open" ELSE account[k]]
  /\ since' = [k \in Keys |-> IF k \in Chunk THEN [since[k] EXCEPT !["open"] = 0]
                              ELSE since[k]]
  /\ opened' = opened \cup Chunk
  /\ UNCHANGED <<caching, entry, reader>>

AfterChunk ==
  LET rest == SubSeq(job.plan, ChunkLength + 1, Len(job.plan))
  IN  IF rest # <<>> THEN [job EXCEPT !.plan = rest]
      ELSE [job EXCEPT !.stage = "next", !.plan = <<>>, !.left = Tail(@)]

ChunkConfirmed ==
  At("create") /\ Land /\ job' = AfterChunk

\* Bug: a chunk that failed is passed over.
ChunkSkipped ==
  /\ At("create")
  /\ job' = AfterChunk /\ UNCHANGED <<opened, cacheVars>>

\* Refused, never sent, or landed and not confirmed: what was created stays.
ChunkFails ==
  /\ At("create")
  /\ \/ Land
     \/ UNCHANGED <<opened, cacheVars>>
  /\ job' = [job EXCEPT !.stage = "failed", !.plan = <<>>]

JobStep(c) ==
  \/ NextAddress(c) \/ AllDone
  \/ \E m \in job.mints : Look(m)
  \/ Exists \/ Missing \/ Planned \/ NoProgram
  \/ AllExist \/ SomeMissing
  \/ ChunkConfirmed \/ ChunkFails

Ended == job.stage \in {"done", "failed"}

JobLost == job' = NoJob /\ opened' = {}

-----------------------------------------------------------------------------
JobTypeOK ==
  /\ job.stage \in {"none", "next", "look", "ata", "mint", "create", "done", "failed"}
  /\ job.mints \subseteq PublicKeys
  /\ opened \subseteq Keys

(* A command that ends well has found or made a token account of every     *)
(* address for every mint: open now, or closed by its owner meanwhile      *)
(* (token_util.rs:100, 200).                                               *)
AtasInitialised(c) ==
  At("done") =>
    \A i \in DOMAIN job.asked, m \in MintsOf(c) :
      {Ata(job.asked[i], m), Ata2022(job.asked[i], m)} \cap opened # {}
=============================================================================
