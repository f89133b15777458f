--------------------------- MODULE PaymasterProofs ----------------------------
(***************************************************************************)
(* Proofs about the paymaster as a whole.                                  *)
(*                                                                         *)
(* Its requests, whatever they wait for and however they end, take only    *)
(* the steps of the usage limit, so what is proved of the limit holds of   *)
(* the paymaster.                                                          *)
(*                                                                         *)
(* And its requests stay sound: the tables a transaction was resolved with *)
(* are only extended, and one that was validated is still permitted when   *)
(* it is signed.  What the node reports of an inner instruction is rebuilt *)
(* with the payer where it was and the same amount, so the policy allows   *)
(* what a signed transaction runs, its cost stays under the limit, and     *)
(* what was paid covers it.                                                *)
(***************************************************************************)
EXTENDS Paymaster, FiniteSetTheorems, WellFoundedInduction, TLAPS

-----------------------------------------------------------------------------
(***************************************************************************)
(* The limit on the transactions of a wallet (UsageLimit):                 *)
(* it implements an atomic limit that is higher by the other requests in   *)
(* progress, and no wallet gets more signatures than that.                 *)
(*                                                                         *)
(* The invariant weighs, for each wallet, the uses counted together with   *)
(* the requests that have read a count and not yet incremented it (they    *)
(* never exceed the ceiling), and the signatures given together with the   *)
(* requests admitted and not yet answered (they never exceed the count).   *)
(***************************************************************************)
\* The requests of a wallet that are at a stage.
SeatsAt(stage, w) == {s \in Slots : seat[s].stage = stage /\ seat[s].wallet = w}

RoomIsLimited ==
  \A s \in Slots : seat[s].stage = "room" => Limited /\ seat[s].wallet \in Wallets

RoomBounded ==
  \A w \in Wallets : count[w] + Cardinality(SeatsAt("room", w)) <= Ceiling

SignedIsCounted ==
  Strict => \A w \in Wallets : signed[w] + Cardinality(SeatsAt("in", w)) <= count[w]

UsageInv == UsageTypeOK /\ RoomIsLimited /\ RoomBounded /\ SignedIsCounted

-----------------------------------------------------------------------------
(* Any requests are finitely many, and at most all the slots.              *)
LEMMA SlotSets ==
  ASSUME NEW S, S \subseteq Slots
  PROVE  /\ IsFiniteSet(S) /\ Cardinality(S) \in Nat
         /\ Cardinality(S) <= Cardinality(Slots)
         /\ Cardinality(Slots) \in Nat /\ Cardinality(Slots) > 0
<1>1. IsFiniteSet(Slots) /\ Slots # {}
  BY LimitAssumption
<1>2. IsFiniteSet(S) /\ Cardinality(S) <= Cardinality(Slots)
  BY <1>1, FS_Subset
<1>3. Cardinality(S) \in Nat /\ Cardinality(Slots) \in Nat
  BY <1>1, <1>2, FS_CardinalityType
<1>4. Cardinality(Slots) # 0
  BY <1>1, FS_EmptySet
<1> QED
  BY <1>1, <1>2, <1>3, <1>4

(* Fewer requests count for less.                                          *)
LEMMA FewerSlots ==
  ASSUME NEW S, NEW T, T \subseteq S, S \subseteq Slots
  PROVE  Cardinality(T) <= Cardinality(S)
BY SlotSets, FS_Subset

(* One request less counts for one less.                                   *)
LEMMA SlotRemoved ==
  ASSUME NEW S, S \subseteq Slots, NEW s \in S
  PROVE  Cardinality(S \ {s}) = Cardinality(S) - 1
BY SlotSets, FS_RemoveElement

(* One request more counts for one more.                                   *)
LEMMA SlotAdded ==
  ASSUME NEW S, S \subseteq Slots, NEW s \in Slots, s \notin S
  PROVE  Cardinality(S \cup {s}) = Cardinality(S) + 1
BY SlotSets, FS_AddElement

(* The ceiling is a natural number, and at least the maximum.              *)
LEMMA CeilingTyped ==
  ASSUME limit \in LimitConfigs
  PROVE  limit.max \in Nat /\ Ceiling \in Nat /\ limit.max <= Ceiling
<1>1. limit.max \in Nat
  BY LimitAssumption DEF LimitType
<1>2. Cardinality(Slots) \in Nat /\ Cardinality(Slots) > 0
  BY SlotSets
<1> QED
  BY <1>1, <1>2 DEF Ceiling

-----------------------------------------------------------------------------
(* The initial states satisfy the invariant.                               *)
LEMMA UsageInitInv == UsageInit => UsageInv
<1> SUFFICES ASSUME UsageInit PROVE UsageInv
  OBVIOUS
<1>1. UsageTypeOK
  BY DEF UsageInit, UsageTypeOK, Out, SeatType
<1>2. ASSUME NEW stage \in {"room", "in"}, NEW w
      PROVE  Cardinality(SeatsAt(stage, w)) = 0
  <2>1. SeatsAt(stage, w) = {}
    BY DEF UsageInit, SeatsAt, Out
  <2> QED
    BY <2>1, FS_EmptySet
<1>3. limit.max \in Nat /\ Ceiling \in Nat
  BY CeilingTyped DEF UsageInit
<1>4. RoomIsLimited
  BY DEF UsageInit, RoomIsLimited, Out
<1>5. RoomBounded
  BY <1>2, <1>3 DEF UsageInit, RoomBounded
<1>6. SignedIsCounted
  BY <1>2 DEF UsageInit, SignedIsCounted
<1> QED
  BY <1>1, <1>4, <1>5, <1>6 DEF UsageInv

(* Every step keeps the types.                                             *)
LEMMA UsageTyped ==
  ASSUME UsageTypeOK, [UsageNext]_usageVars PROVE UsageTypeOK'
<1> USE DEF UsageTypeOK
<1>1. ASSUME NEW s \in Slots, Admit(s) PROVE UsageTypeOK'
  BY <1>1 DEF Admit, MoveTo, Out, SeatType
<1>2. ASSUME NEW s \in Slots, CheckUsage(s) PROVE UsageTypeOK'
  <2>1. CASE NoLimiter(s) \/ PassExempt(s) \/ ReadCount(s)
    BY <2>1 DEF NoLimiter, PassExempt, ReadCount, MoveTo, SeatType
  <2>2. CASE ReadFails(s)
    BY <2>2 DEF ReadFails, Fallback, MoveTo, SeatType
  <2>3. CASE IncrementUse(s) \/ IncrementFails(s)
    <3>1. count' \in [Wallets -> Nat]
      BY <2>3 DEF IncrementUse, IncrementFails
    <3> QED
      BY <2>3, <3>1 DEF IncrementUse, IncrementFails, Fallback, MoveTo, SeatType
  <2> QED
    BY <1>2, <2>1, <2>2, <2>3 DEF CheckUsage
<1>3. ASSUME NEW s \in Slots, NEW w \in Wallets \cup {NoSender}, Ask(s, w)
      PROVE  UsageTypeOK'
  BY <1>3 DEF Ask, SeatType
<1>4. ASSUME NEW s \in Slots, NEW issued \in BOOLEAN, Leave(s, issued)
      PROVE  UsageTypeOK'
  BY <1>4 DEF Leave, Out, SeatType
<1>5. CASE UsageRestart
  BY <1>5 DEF UsageRestart, Out, SeatType
<1>6. CASE UNCHANGED usageVars
  BY <1>6 DEF usageVars
<1> QED
  BY <1>1, <1>2, <1>3, <1>4, <1>5, <1>6 DEF UsageNext

-----------------------------------------------------------------------------
(* When one request moves, only the sets it leaves and enters change.      *)
LEMMA SeatMoved ==
  ASSUME NEW s \in Slots, \A t \in Slots \ {s} : seat'[t] = seat[t],
         NEW stage, NEW w
  PROVE  LET here  == seat[s].stage = stage /\ seat[s].wallet = w
             there == seat'[s].stage = stage /\ seat'[s].wallet = w
             n     == Cardinality(SeatsAt(stage, w))
         IN  /\ here <=> there => Cardinality(SeatsAt(stage, w)') = n
             /\ here /\ ~there => n > 0 /\ Cardinality(SeatsAt(stage, w)') = n - 1
             /\ ~here /\ there => Cardinality(SeatsAt(stage, w)') = n + 1
             /\ n \in Nat /\ Cardinality(SeatsAt(stage, w)') \in Nat
<1> DEFINE here  == seat[s].stage = stage /\ seat[s].wallet = w
           there == seat'[s].stage = stage /\ seat'[s].wallet = w
           S     == SeatsAt(stage, w)
           T     == SeatsAt(stage, w)'
<1>1. S \subseteq Slots /\ T \subseteq Slots
  BY DEF SeatsAt
<1>2. Cardinality(S) \in Nat /\ Cardinality(T) \in Nat
  BY <1>1, SlotSets
<1>3. (s \in S <=> here) /\ (s \in T <=> there)
  BY DEF SeatsAt
<1>4. S \ {s} = T \ {s}
  BY DEF SeatsAt
<1>5. ASSUME here <=> there PROVE S = T
  BY <1>3, <1>4, <1>5
<1>6. ASSUME here, ~there
      PROVE  Cardinality(S) > 0 /\ Cardinality(T) = Cardinality(S) - 1
  <2>1. s \in S /\ T = S \ {s}
    BY <1>3, <1>4, <1>6
  <2>2. Cardinality(T) = Cardinality(S) - 1
    BY <1>1, <2>1, SlotRemoved
  <2> QED
    BY <1>2, <2>2
<1>7. ASSUME ~here, there PROVE Cardinality(T) = Cardinality(S) + 1
  <2>1. s \notin S /\ T = S \cup {s}
    BY <1>3, <1>4, <1>7
  <2> QED
    BY <1>1, <2>1, SlotAdded
<1> QED
  BY <1>2, <1>5, <1>6, <1>7

(* How a request moves without changing its sender.                        *)
LEMMA MovedTo ==
  ASSUME UsageTypeOK, NEW s \in Slots, NEW stage, MoveTo(s, stage)
  PROVE  /\ \A t \in Slots \ {s} : seat'[t] = seat[t]
         /\ seat'[s].stage = stage /\ seat'[s].wallet = seat[s].wallet
         /\ limit' = limit /\ signed' = signed
<1>1. seat \in [Slots -> SeatType]
  BY DEF UsageTypeOK
<1>2. seat[s] \in SeatType
  BY <1>1
<1>3. seat'[s] = [seat[s] EXCEPT !.stage = stage]
  BY <1>1 DEF MoveTo
<1>4. seat'[s].stage = stage /\ seat'[s].wallet = seat[s].wallet
  BY <1>2, <1>3 DEF SeatType
<1> QED
  BY <1>1, <1>4 DEF MoveTo

-----------------------------------------------------------------------------
(* A step of one request that neither counts nor signs: it may enter       *)
(* "room" under the maximum, and be admitted only where the limit does not *)
(* bind its sender.                                                        *)
LEMMA UncountedStep ==
  ASSUME UsageInv, UsageTypeOK', NEW s \in Slots,
         \A t \in Slots \ {s} : seat'[t] = seat[t],
         limit' = limit, count' = count, signed' = signed,
         seat'[s].stage = "room" =>
           /\ Limited /\ seat'[s].wallet \in Wallets
           /\ count[seat'[s].wallet] < limit.max,
         Strict /\ seat'[s].stage = "in" => seat'[s].wallet = NoSender
  PROVE  UsageInv'
<1>1. /\ limit \in LimitConfigs /\ Ceiling' = Ceiling
      /\ Limited' = Limited /\ Strict' = Strict
  BY DEF UsageInv, UsageTypeOK, Ceiling, Limited, Strict
<1>2. limit.max \in Nat /\ Ceiling \in Nat /\ Ceiling = limit.max + Cardinality(Slots) - 1
  BY <1>1, CeilingTyped DEF Ceiling
<1>3. \A w \in Wallets : count[w] \in Nat /\ signed[w] \in Nat
  BY DEF UsageInv, UsageTypeOK
<1>4. RoomIsLimited'
  BY <1>1 DEF UsageInv, RoomIsLimited
<1>5. RoomBounded'
  <2> SUFFICES ASSUME NEW w \in Wallets
               PROVE  count[w] + Cardinality(SeatsAt("room", w)') <= Ceiling
    BY <1>1 DEF RoomBounded
  <2>1. Cardinality(SeatsAt("room", w)') \in Nat /\ Cardinality(SeatsAt("room", w)) \in Nat
    BY SeatMoved
  <2>2. CASE seat'[s].stage = "room" /\ seat'[s].wallet = w
    <3>1. SeatsAt("room", w)' \subseteq Slots
      BY DEF SeatsAt
    <3>2. /\ Cardinality(SeatsAt("room", w)') <= Cardinality(Slots)
          /\ Cardinality(Slots) \in Nat
      BY <3>1, SlotSets
    <3>3. count[w] < limit.max
      BY <2>2
    <3> QED
      BY <1>2, <1>3, <2>1, <3>2, <3>3
  <2>3. CASE ~(seat'[s].stage = "room" /\ seat'[s].wallet = w)
    <3>1. Cardinality(SeatsAt("room", w)') <= Cardinality(SeatsAt("room", w))
      BY <2>1, <2>3, SeatMoved
    <3>2. count[w] + Cardinality(SeatsAt("room", w)) <= Ceiling
      BY DEF UsageInv, RoomBounded
    <3> QED
      BY <1>2, <1>3, <2>1, <3>1, <3>2
  <2> QED
    BY <2>2, <2>3
<1>6. SignedIsCounted'
  <2> SUFFICES ASSUME Strict, NEW w \in Wallets
               PROVE  signed[w] + Cardinality(SeatsAt("in", w)') <= count[w]
    BY <1>1 DEF SignedIsCounted
  <2>1. ~(seat'[s].stage = "in" /\ seat'[s].wallet = w)
    BY LimitAssumption
  <2>2. /\ Cardinality(SeatsAt("in", w)') <= Cardinality(SeatsAt("in", w))
        /\ Cardinality(SeatsAt("in", w)') \in Nat /\ Cardinality(SeatsAt("in", w)) \in Nat
    BY <2>1, SeatMoved
  <2>3. signed[w] + Cardinality(SeatsAt("in", w)) <= count[w]
    BY DEF UsageInv, SignedIsCounted
  <2> QED
    BY <1>3, <2>2, <2>3
<1> QED
  BY <1>4, <1>5, <1>6 DEF UsageInv

(* A request whose use is counted leaves "room": what it was allowed there *)
(* is what the count gains, and it is admitted at most once for it.        *)
LEMMA CountedStep ==
  ASSUME UsageInv, UsageTypeOK', NEW s \in Slots,
         \A t \in Slots \ {s} : seat'[t] = seat[t],
         seat[s].stage = "room", seat'[s].stage \in {"in", "refused"},
         seat'[s].wallet = seat[s].wallet,
         limit' = limit, signed' = signed,
         count' = [count EXCEPT ![seat[s].wallet] = @ + 1]
  PROVE  UsageInv' /\ count[seat[s].wallet] < Ceiling /\ seat[s].wallet \in Wallets
<1> DEFINE v == seat[s].wallet
<1>1. /\ limit \in LimitConfigs /\ Ceiling' = Ceiling
      /\ Limited' = Limited /\ Strict' = Strict
  BY DEF UsageInv, UsageTypeOK, Ceiling, Limited, Strict
<1>2. Ceiling \in Nat
  BY <1>1, CeilingTyped
<1>3. \A w \in Wallets : count[w] \in Nat /\ signed[w] \in Nat
  BY DEF UsageInv, UsageTypeOK
<1>4. v \in Wallets
  BY DEF UsageInv, RoomIsLimited
<1>5. /\ count'[v] = count[v] + 1
      /\ \A w \in Wallets \ {v} : count'[w] = count[w]
  BY <1>4 DEF UsageInv, UsageTypeOK
<1>6. RoomIsLimited'
  BY <1>1 DEF UsageInv, RoomIsLimited
<1>7. /\ Cardinality(SeatsAt("room", v)') = Cardinality(SeatsAt("room", v)) - 1
      /\ Cardinality(SeatsAt("room", v)) > 0
      /\ Cardinality(SeatsAt("room", v)) \in Nat
  BY SeatMoved
<1>8. count[v] + Cardinality(SeatsAt("room", v)) <= Ceiling
  BY <1>4 DEF UsageInv, RoomBounded
<1>9. RoomBounded'
  <2> SUFFICES ASSUME NEW w \in Wallets
               PROVE  count'[w] + Cardinality(SeatsAt("room", w)') <= Ceiling
    BY <1>1 DEF RoomBounded
  <2>1. CASE w = v
    BY <1>2, <1>3, <1>4, <1>5, <1>7, <1>8, <2>1
  <2>2. CASE w # v
    <3>1. Cardinality(SeatsAt("room", w)') = Cardinality(SeatsAt("room", w))
      BY <2>2, SeatMoved
    <3> QED
      BY <1>5, <2>2, <3>1 DEF UsageInv, RoomBounded
  <2> QED
    BY <2>1, <2>2
<1>10. SignedIsCounted'
  <2> SUFFICES ASSUME Strict, NEW w \in Wallets
               PROVE  signed[w] + Cardinality(SeatsAt("in", w)') <= count'[w]
    BY <1>1 DEF SignedIsCounted
  <2>1. signed[w] + Cardinality(SeatsAt("in", w)) <= count[w]
    BY DEF UsageInv, SignedIsCounted
  <2>2. Cardinality(SeatsAt("in", w)') \in Nat /\ Cardinality(SeatsAt("in", w)) \in Nat
    BY SeatMoved
  <2>3. CASE w = v
    <3>1. Cardinality(SeatsAt("in", w)') <= Cardinality(SeatsAt("in", w)) + 1
      BY <2>2, SeatMoved
    <3> QED
      BY <1>3, <1>5, <2>1, <2>2, <2>3, <3>1
  <2>4. CASE w # v
    <3>1. Cardinality(SeatsAt("in", w)') = Cardinality(SeatsAt("in", w))
      BY <2>4, SeatMoved
    <3> QED
      BY <1>5, <2>1, <2>4, <3>1
  <2> QED
    BY <2>3, <2>4
<1>11. count[v] < Ceiling
  BY <1>2, <1>3, <1>4, <1>7, <1>8
<1> QED
  BY <1>4, <1>6, <1>9, <1>10, <1>11 DEF UsageInv

(* A request that is answered is signed at most once, and only if it was   *)
(* admitted.                                                               *)
LEMMA LeavingStep ==
  ASSUME UsageInv, UsageTypeOK', NEW s \in Slots, NEW issued \in BOOLEAN,
         Leave(s, issued)
  PROVE  UsageInv'
<1>1. /\ limit \in LimitConfigs /\ Ceiling' = Ceiling
      /\ Limited' = Limited /\ Strict' = Strict
  BY DEF UsageInv, UsageTypeOK, Ceiling, Limited, Strict, Leave
<1>2. Ceiling \in Nat
  BY <1>1, CeilingTyped
<1>3. \A w \in Wallets : count[w] \in Nat /\ signed[w] \in Nat
  BY DEF UsageInv, UsageTypeOK
<1>4. /\ \A t \in Slots \ {s} : seat'[t] = seat[t]
      /\ seat'[s] = Out /\ count' = count
  BY DEF Leave, UsageInv, UsageTypeOK
<1>5. seat'[s].stage = "out"
  BY <1>4 DEF Out
<1>6. RoomIsLimited'
  BY <1>1, <1>4, <1>5 DEF UsageInv, RoomIsLimited
<1>7. RoomBounded'
  <2> SUFFICES ASSUME NEW w \in Wallets
               PROVE  count[w] + Cardinality(SeatsAt("room", w)') <= Ceiling
    BY <1>1, <1>4 DEF RoomBounded
  <2>1. /\ Cardinality(SeatsAt("room", w)') <= Cardinality(SeatsAt("room", w))
        /\ Cardinality(SeatsAt("room", w)') \in Nat /\ Cardinality(SeatsAt("room", w)) \in Nat
    BY <1>4, <1>5, SeatMoved
  <2>2. count[w] + Cardinality(SeatsAt("room", w)) <= Ceiling
    BY DEF UsageInv, RoomBounded
  <2> QED
    BY <1>2, <1>3, <2>1, <2>2
<1>8. SignedIsCounted'
  <2> SUFFICES ASSUME Strict, NEW w \in Wallets
               PROVE  signed'[w] + Cardinality(SeatsAt("in", w)') <= count[w]
    BY <1>1, <1>4 DEF SignedIsCounted
  <2>1. signed[w] + Cardinality(SeatsAt("in", w)) <= count[w]
    BY DEF UsageInv, SignedIsCounted
  <2>2. /\ Cardinality(SeatsAt("in", w)') <= Cardinality(SeatsAt("in", w))
        /\ Cardinality(SeatsAt("in", w)') \in Nat /\ Cardinality(SeatsAt("in", w)) \in Nat
    BY <1>4, <1>5, SeatMoved
  <2>3. CASE issued /\ w = seat[s].wallet
    <3>1. signed'[w] = signed[w] + 1 /\ seat[s].stage = "in"
      BY <2>3 DEF Leave
    <3>2. /\ Cardinality(SeatsAt("in", w)') = Cardinality(SeatsAt("in", w)) - 1
          /\ Cardinality(SeatsAt("in", w)) > 0
      BY <1>4, <1>5, <2>3, <3>1, SeatMoved
    <3> QED
      BY <1>3, <2>1, <2>2, <3>1, <3>2
  <2>4. CASE ~(issued /\ w = seat[s].wallet)
    <3>1. signed'[w] = signed[w]
      BY <2>4 DEF Leave
    <3> QED
      BY <1>3, <2>1, <2>2, <3>1
  <2> QED
    BY <2>3, <2>4
<1> QED
  BY <1>6, <1>7, <1>8 DEF UsageInv

-----------------------------------------------------------------------------
(* Each step of the two calls keeps the invariant, and grants at most one  *)
(* use, below the ceiling.                                                 *)
LEMMA CheckStep ==
  ASSUME UsageInv, UsageTypeOK', NEW s \in Slots, CheckUsage(s)
  PROVE  /\ UsageInv' /\ limit' = limit
         /\ count' = count \/ \E w \in Wallets : Gate!Grant(w)
<1>1. UsageTypeOK /\ limit \in LimitConfigs
  BY DEF UsageInv, UsageTypeOK
<1>2. CASE NoLimiter(s)
  <2>1. PICK stage \in {"in", "refused"} : MoveTo(s, stage)
    BY <1>2 DEF NoLimiter
  <2> QED
    BY <1>1, <1>2, <2>1, MovedTo, UncountedStep DEF NoLimiter, Strict
<1>3. CASE PassExempt(s)
  <2>1. MoveTo(s, "in") /\ count' = count /\ Exempt(s)
    BY <1>3 DEF PassExempt
  <2>2. Strict => seat[s].wallet = NoSender
    BY <1>1, <2>1, CeilingTyped DEF Exempt, Strict
  <2> QED
    BY <1>1, <2>1, <2>2, MovedTo, UncountedStep
<1>4. CASE ReadCount(s)
  <2>1. PICK stage \in {"refused", "room"} :
          /\ MoveTo(s, stage)
          /\ stage = "room" => ~(count[seat[s].wallet] >= limit.max)
    BY <1>4 DEF ReadCount
  <2>2. seat[s].wallet \in Wallets /\ Limited /\ count' = count
    BY <1>1, <1>4 DEF ReadCount, Exempt, UsageTypeOK, SeatType
  <2>3. count[seat[s].wallet] \in Nat /\ limit.max \in Nat
    BY <1>1, <2>2, CeilingTyped DEF UsageTypeOK
  <2>4. stage = "room" => count[seat[s].wallet] < limit.max
    BY <2>1, <2>3
  <2> QED
    BY <1>1, <2>1, <2>2, <2>4, MovedTo, UncountedStep
<1>5. CASE ReadFails(s)
  <2>1. PICK stage \in {"in", "refused"} :
          MoveTo(s, stage) /\ (stage = "in" => limit.fallback)
    BY <1>5 DEF ReadFails, Fallback
  <2> QED
    BY <1>1, <1>5, <2>1, MovedTo, UncountedStep DEF ReadFails, Strict
<1>6. ASSUME NEW stage \in {"in", "refused"}, seat[s].stage = "room", MoveTo(s, stage),
             count' = [count EXCEPT ![seat[s].wallet] = @ + 1]
      PROVE  /\ UsageInv' /\ limit' = limit
             /\ \E w \in Wallets : Gate!Grant(w)
  <2>1. UsageInv' /\ count[seat[s].wallet] < Ceiling /\ seat[s].wallet \in Wallets
    BY <1>1, <1>6, MovedTo, CountedStep
  <2>2. limit' = limit /\ Ceiling' = Ceiling
    BY <1>1, <1>6, MovedTo DEF Ceiling
  <2> QED
    BY <1>6, <2>1, <2>2 DEF Gate!Grant
<1>7. CASE IncrementUse(s)
  BY <1>6, <1>7 DEF IncrementUse
<1>8. CASE IncrementFails(s)
  <2>1. PICK stage \in {"in", "refused"} :
          MoveTo(s, stage) /\ (stage = "in" => limit.fallback)
    BY <1>8 DEF IncrementFails, Fallback
  <2>2. CASE count' = count
    BY <1>1, <2>1, <2>2, MovedTo, UncountedStep DEF Strict
  <2>3. CASE count' = [count EXCEPT ![seat[s].wallet] = @ + 1]
    BY <1>6, <1>8, <2>1, <2>3 DEF IncrementFails
  <2> QED
    BY <1>8, <2>2, <2>3 DEF IncrementFails
<1> QED
  BY <1>2, <1>3, <1>4, <1>5, <1>7, <1>8 DEF CheckUsage

(* Every step keeps the invariant, and is a step of the gate or a stutter. *)
LEMMA UsageStep ==
  ASSUME UsageInv, [UsageNext]_usageVars
  PROVE  /\ UsageInv'
         /\ [\E w \in Wallets : Gate!Grant(w)]_<<Ceiling, count>>
<1>1. UsageTypeOK /\ UsageTypeOK'
  BY UsageTyped DEF UsageInv
<1>2. limit' = limit => Ceiling' = Ceiling
  BY DEF Ceiling
<1>3. ASSUME NEW s \in Slots, Admit(s) PROVE UsageInv' /\ count' = count /\ limit' = limit
  <2>1. MoveTo(s, "in") /\ count' = count /\ seat[s].wallet = NoSender
    BY <1>3 DEF Admit, Out
  <2> QED
    BY <1>1, <2>1, MovedTo, UncountedStep
<1>4. ASSUME NEW s \in Slots, CheckUsage(s)
      PROVE  /\ UsageInv' /\ limit' = limit
             /\ count' = count \/ \E w \in Wallets : Gate!Grant(w)
  BY <1>1, <1>4, CheckStep
<1>5. ASSUME NEW s \in Slots, NEW w \in Wallets \cup {NoSender}, Ask(s, w)
      PROVE  UsageInv' /\ count' = count /\ limit' = limit
  <2>1. /\ \A t \in Slots \ {s} : seat'[t] = seat[t]
        /\ seat'[s].stage = "asked"
        /\ limit' = limit /\ count' = count /\ signed' = signed
    BY <1>1, <1>5 DEF Ask, UsageTypeOK
  <2> QED
    BY <1>1, <2>1, UncountedStep
<1>6. ASSUME NEW s \in Slots, NEW issued \in BOOLEAN, Leave(s, issued)
      PROVE  UsageInv' /\ count' = count /\ limit' = limit
  BY <1>1, <1>6, LeavingStep DEF Leave
<1>7. ASSUME UsageRestart PROVE UsageInv' /\ count' = count /\ limit' = limit
  <2>1. limit' = limit /\ count' = count /\ signed' = signed
    BY <1>7 DEF UsageRestart
  <2>2. ASSUME NEW stage \in {"room", "in"}, NEW w
        PROVE  /\ Cardinality(SeatsAt(stage, w)') = 0
               /\ Cardinality(SeatsAt(stage, w)) \in Nat
    <3>1. SeatsAt(stage, w)' = {} /\ SeatsAt(stage, w) \subseteq Slots
      BY <1>7 DEF UsageRestart, SeatsAt, Out
    <3> QED
      BY <3>1, FS_EmptySet, SlotSets
  <2>3. RoomIsLimited'
    BY <1>7 DEF UsageRestart, RoomIsLimited, Out
  <2>4. Ceiling \in Nat /\ Ceiling' = Ceiling /\ Strict' = Strict
    BY <1>1, <1>2, <2>1, CeilingTyped DEF Strict, Limited, UsageTypeOK
  <2>5. \A w \in Wallets : count[w] \in Nat /\ signed[w] \in Nat
    BY <1>1 DEF UsageTypeOK
  <2>6. ASSUME NEW w \in Wallets
        PROVE  count[w] + Cardinality(SeatsAt("room", w)') <= Ceiling
    BY <2>2, <2>4, <2>5 DEF UsageInv, RoomBounded
  <2>7. ASSUME Strict, NEW w \in Wallets
        PROVE  signed[w] + Cardinality(SeatsAt("in", w)') <= count[w]
    BY <2>2, <2>5, <2>7 DEF UsageInv, SignedIsCounted
  <2>8. RoomBounded' /\ SignedIsCounted'
    BY <2>1, <2>4, <2>6, <2>7 DEF RoomBounded, SignedIsCounted
  <2> QED
    BY <1>1, <2>1, <2>3, <2>8 DEF UsageInv
<1>8. CASE UNCHANGED usageVars
  BY <1>1, <1>2, <1>8
     DEF usageVars, UsageInv, RoomIsLimited, RoomBounded, SignedIsCounted, SeatsAt,
         Limited, Strict
<1> QED
  BY <1>2, <1>3, <1>4, <1>5, <1>6, <1>7, <1>8 DEF UsageNext

-----------------------------------------------------------------------------
(* The invariant holds throughout.                                         *)
THEOREM UsageInvariant == UsageSpec => []UsageInv
<1>1. UsageInit => UsageInv
  BY UsageInitInv
<1>2. UsageInv /\ [UsageNext]_usageVars => UsageInv'
  BY UsageStep
<1> QED
  BY <1>1, <1>2, PTL DEF UsageSpec

(* The variables of the limit keep their types.                            *)
THEOREM UsageTypeCorrect == UsageSpec => []UsageTypeOK
<1>1. UsageInv => UsageTypeOK
  BY DEF UsageInv
<1> QED
  BY <1>1, UsageInvariant, PTL

(* Where the limit is enforced, no wallet gets more signatures than the    *)
(* maximum and the other requests in progress, for any number of requests  *)
(* and wallets, failures and restarts (usage_tracker.rs:61-113).           *)
THEOREM SignaturesLimitedHolds == UsageSpec => []SignaturesLimited
<1>1. UsageInv => SignaturesLimited
  <2> SUFFICES ASSUME UsageInv, Strict, NEW w \in Wallets PROVE signed[w] <= Ceiling
    BY DEF SignaturesLimited
  <2>1. /\ SeatsAt("room", w) \subseteq Slots /\ SeatsAt("in", w) \subseteq Slots
    BY DEF SeatsAt
  <2>2. /\ Cardinality(SeatsAt("room", w)) \in Nat
        /\ Cardinality(SeatsAt("in", w)) \in Nat
    BY <2>1, SlotSets
  <2>3. count[w] \in Nat /\ signed[w] \in Nat /\ Ceiling \in Nat
    BY CeilingTyped DEF UsageInv, UsageTypeOK
  <2>4. count[w] + Cardinality(SeatsAt("room", w)) <= Ceiling
    BY DEF UsageInv, RoomBounded
  <2>5. signed[w] + Cardinality(SeatsAt("in", w)) <= count[w]
    BY DEF UsageInv, SignedIsCounted
  <2> QED
    BY <2>2, <2>3, <2>4, <2>5
<1> QED
  BY <1>1, UsageInvariant, PTL

(* The two calls to the store, which may fail, be applied unanswered and   *)
(* interleave, implement one atomic grant per use (usage_tracker.rs:78).   *)
THEOREM ImplementsGateHolds == UsageSpec => ImplementsGate
<1>1. UsageInit => Gate!Init
  BY CeilingTyped DEF UsageInit, Gate!Init
<1>2. UsageInv /\ [UsageNext]_usageVars =>
        [\E w \in Wallets : Gate!Grant(w)]_<<Ceiling, count>>
  BY UsageStep
<1> QED
  BY <1>1, <1>2, UsageInvariant, PTL DEF UsageSpec, ImplementsGate, Gate!GateSpec

-----------------------------------------------------------------------------
(* What a request does beside the limit leaves the limit alone.            *)
LEMMA AdvanceKeepsUsage ==
  ASSUME NEW s, NEW next, Advance(s, next) PROVE UNCHANGED usageVars
BY DEF Advance

(* A stage of an admitted request either leaves the limit alone or ends    *)
(* the request, signed or not.                                             *)
LEMMA StageIsUsage ==
  ASSUME NEW s \in Slots, Step(s)
  PROVE  \/ UNCHANGED usageVars
         \/ CheckUsage(s)
         \/ \E issued \in BOOLEAN : Leave(s, issued)
<1> DEFINE Ends == \E issued \in BOOLEAN : Leave(s, issued)
<1>1. \A issued \in BOOLEAN : Answer(s, issued) => Ends
  BY DEF Answer
<1>2. CASE Checks(s)
  BY <1>2 DEF Checks
<1>3. CASE OverLimit(s) \/ Send(s) \/ Return(s) \/ CallFails(s)
  BY <1>1, <1>3 DEF OverLimit, Send, Return, CallFails
<1>4. CASE Pick(s)
  BY <1>1, <1>4, AdvanceKeepsUsage DEF Pick
<1>5. CASE Resolve(s)
  BY <1>1, <1>5, AdvanceKeepsUsage DEF Resolve
<1>6. CASE Build(s)
  BY <1>1, <1>6, AdvanceKeepsUsage DEF Build
<1>7. CASE Validate(s)
  BY <1>1, <1>7, AdvanceKeepsUsage DEF Validate
<1>8. CASE Price(s)
  BY <1>1, <1>8, AdvanceKeepsUsage DEF Price
<1>9. CASE Pay(s)
  BY <1>1, <1>9, AdvanceKeepsUsage DEF Pay
<1>10. CASE Sign(s)
  BY <1>1, <1>10, AdvanceKeepsUsage DEF Sign
<1>11. CASE OracleRetries(s)
  BY <1>11, AdvanceKeepsUsage DEF OracleRetries
<1> QED
  BY <1>2, <1>3, <1>4, <1>5, <1>6, <1>7, <1>8, <1>9, <1>10, <1>11 DEF Step

(* Every step of the paymaster is a step of the limit, or leaves it alone. *)
LEMMA StepIsUsage ==
  ASSUME scenario \in DOMAIN Scenarios, [Next]_vars
  PROVE  [UsageNext]_usageVars /\ (scenario \in DOMAIN Scenarios)'
<1>1. ASSUME NEW s \in Slots, NEW name \in bounds.cases, Arrive(s, name)
      PROVE  UsageNext
  <2>1. name \in DOMAIN Cases
    BY PaymasterAssumption DEF bounds
  <2>2. CASE Signs(Cases[name])
    BY <1>1, <2>1, <2>2, SenderAssumption DEF Arrive, UsageNext
  <2>3. CASE ~Signs(Cases[name])
    BY <1>1, <2>3 DEF Arrive, UsageNext
  <2> QED
    BY <2>2, <2>3
<1>2. ASSUME NEW s \in Slots, Step(s) PROVE UsageNext \/ UNCHANGED usageVars
  BY <1>2, StageIsUsage DEF UsageNext
<1>3. ASSUME NEW k \in DOMAIN History, AccountChanges(k) \/ TtlPasses(k)
      PROVE  UNCHANGED usageVars
  BY <1>3 DEF AccountChanges, TtlPasses
<1>4. CASE PriceMoves
  BY <1>4 DEF PriceMoves
<1>5. CASE Restart
  BY <1>5 DEF Restart, UsageNext
<1>6. CASE UNCHANGED vars
  BY <1>6 DEF vars
<1>7. scenario' = scenario
  <2>1. ASSUME NEW s \in Slots, Step(s) PROVE scenario' = scenario
    <3>1. \A issued : Answer(s, issued) => scenario' = scenario
      BY DEF Answer
    <3>2. \A next : Advance(s, next) => scenario' = scenario
      BY DEF Advance
    <3> QED
      BY <2>1, <3>1, <3>2
         DEF Step, Checks, OverLimit, Pick, Resolve, Build, Validate, Price, Pay, Sign,
             Send, Return, CallFails, OracleRetries
  <2> QED
    BY <2>1 DEF Next, Arrive, AccountChanges, TtlPasses, PriceMoves, Restart, vars
<1> QED
  BY <1>1, <1>2, <1>3, <1>4, <1>5, <1>6, <1>7 DEF Next

(* The paymaster implements its usage limit, request by request.           *)
THEOREM ImplementsUsage == Spec => UsageSpec
<1>1. Init => UsageInit /\ scenario \in DOMAIN Scenarios
  BY DEF Init
<1>2. scenario \in DOMAIN Scenarios /\ [Next]_vars =>
        [UsageNext]_usageVars /\ (scenario \in DOMAIN Scenarios)'
  BY StepIsUsage
<1> QED
  BY <1>1, <1>2, PTL DEF Spec, UsageSpec

(* No wallet gets more signatures of the paymaster than its limit and the  *)
(* other requests in progress, whatever the requests are, the node, the    *)
(* oracle and the store answer, and wherever the process is restarted      *)
(* (sign_transaction.rs:39, usage_tracker.rs:78).                          *)
THEOREM PaymasterLimitsSignatures == Spec => []SignaturesLimited
BY ImplementsUsage, SignaturesLimitedHolds

(* The paymaster grants the uses of a wallet one by one, below a cap, and  *)
(* gives none back (usage_tracker.rs:78).                                  *)
THEOREM PaymasterImplementsGate == Spec => ImplementsGate
BY ImplementsUsage, ImplementsGateHolds

-----------------------------------------------------------------------------
(***************************************************************************)
(* What a flattened sequence holds (SequencesExt).                         *)
(***************************************************************************)

(* Every nonempty set of natural numbers has a least one.                  *)
LEMMA LeastOf ==
  ASSUME NEW T, T \subseteq Nat, T # {}
  PROVE  \E x \in T : \A y \in T : x <= y
<1> DEFINE R == {ss \in Nat \X Nat : ss[1] < ss[2]}
<1>1. IsWellFoundedOn(R, Nat)
  BY NatLessThanWellFounded, Zenon DEF OpToRel
<1>2. \A x, y \in Nat : <<y, x>> \in R <=> y < x
  OBVIOUS
<1> HIDE DEF R
<1>3. PICK x \in T : \A y \in T : ~(<<y, x>> \in R)
  BY <1>1, WFMin
<1>4. \A y \in T : ~(y < x) /\ y \in Nat
  BY <1>2, <1>3
<1>5. x \in Nat
  OBVIOUS
<1> QED
  BY <1>4, <1>5

\* f[n] is the first n of the sequences, one after the other.
Chains(N, seqs, f) ==
  f = [i \in 1..N |-> IF i = 1 THEN seqs[i] ELSE f[i - 1] \o seqs[i]]

(* Sequences can be chained.                                               *)
LEMMA ChainExists ==
  ASSUME NEW N \in Nat, NEW seqs
  PROVE  \E f : Chains(N, seqs, f)
<1> DEFINE Bad == {m \in 0..N : ~\E f : Chains(m, seqs, f)}
<1>1. SUFFICES ASSUME Bad # {} PROVE FALSE
  BY DEF Bad
<1>2. Bad \subseteq Nat
  OBVIOUS
<1> HIDE DEF Bad
<1>3. PICK m \in Bad : \A y \in Bad : m <= y
  BY <1>1, <1>2, LeastOf
<1>4. m \in 0..N /\ ~\E f : Chains(m, seqs, f)
  BY DEF Bad
<1>5. m # 0
  <2> DEFINE f == [i \in 1..0 |-> seqs[i]]
  <2>1. f = [i \in 1..0 |-> IF i = 1 THEN seqs[i] ELSE f[i - 1] \o seqs[i]]
    OBVIOUS
  <2>2. Chains(0, seqs, f)
    BY <2>1 DEF Chains
  <2> QED
    BY <1>4, <2>2
<1>6. m - 1 \in 0..N /\ m \in Nat /\ ~(m <= m - 1)
  BY <1>4, <1>5
<1>7. PICK g : Chains(m - 1, seqs, g)
  BY <1>3, <1>6 DEF Bad
<1> DEFINE f == [i \in 1..m |-> IF i # m THEN g[i]
                                 ELSE IF i = 1 THEN seqs[i] ELSE g[i - 1] \o seqs[i]]
<1>8. ASSUME NEW i \in 1..m
      PROVE  f[i] = IF i = 1 THEN seqs[i] ELSE f[i - 1] \o seqs[i]
  <2>1. CASE i = m
    <3>1. CASE i = 1
      BY <2>1, <3>1
    <3>2. CASE i # 1
      <4>1. i - 1 \in 1..m /\ i - 1 # m
        BY <1>6, <3>2
      <4>2. f[i - 1] = g[i - 1]
        BY <4>1
      <4> QED
        BY <2>1, <3>2, <4>2
    <3> QED
      BY <3>1, <3>2
  <2>2. CASE i # m
    <3>1. i \in 1..(m - 1)
      BY <1>6, <2>2
    <3>2. g[i] = IF i = 1 THEN seqs[i] ELSE g[i - 1] \o seqs[i]
      BY <1>7, <3>1, Zenon DEF Chains
    <3>3. i # 1 => i - 1 \in 1..m /\ i - 1 # m
      BY <1>6, <2>2
    <3>4. i # 1 => f[i - 1] = g[i - 1]
      BY <3>3
    <3> QED
      BY <2>2, <3>2, <3>4
  <2> QED
    BY <2>1, <2>2
<1>9. f = [i \in 1..m |-> f[i]]
  OBVIOUS
<1> HIDE DEF f
<1>10. f = [i \in 1..m |-> IF i = 1 THEN seqs[i] ELSE f[i - 1] \o seqs[i]]
  BY <1>8, <1>9, Zenon
<1>11. Chains(m, seqs, f)
  BY <1>10 DEF Chains
<1> QED
  BY <1>4, <1>11

(* Flattening loses nothing.                                               *)
LEMMA FlattenKeeps ==
  ASSUME NEW T, NEW seqs \in Seq(Seq(T))
  PROVE  /\ FlattenSeq(seqs) \in Seq(T)
         /\ \A h \in DOMAIN seqs : \A j \in DOMAIN seqs[h] :
              \E k \in DOMAIN FlattenSeq(seqs) : FlattenSeq(seqs)[k] = seqs[h][j]
<1> DEFINE N == Len(seqs)
           f == CHOOSE g : Chains(N, seqs, g)
<1>1. N \in Nat /\ DOMAIN seqs = 1..N
  OBVIOUS
<1>2. CASE N = 0
  <2>1. seqs = <<>>
    BY <1>2
  <2>2. FlattenSeq(seqs) = <<>>
    BY <1>2, <2>1 DEF FlattenSeq
  <2> QED
    BY <1>1, <1>2, <2>2
<1>3. ASSUME N # 0 PROVE FlattenSeq(seqs) = f[N]
  BY <1>3 DEF FlattenSeq, Chains
<1>4. \A i \in 1..N : f[i] = IF i = 1 THEN seqs[i] ELSE f[i - 1] \o seqs[i]
  <2>1. Chains(N, seqs, f)
    BY <1>1, ChainExists
  <2> QED
    BY <2>1, Zenon DEF Chains
<1>5. \A i \in 1..N : seqs[i] \in Seq(T)
  BY <1>1
<1> HIDE DEF N, f
<1> DEFINE Whole(i) == /\ f[i] \in Seq(T)
                       /\ \A h \in 1..i : \A j \in DOMAIN seqs[h] :
                            \E k \in DOMAIN f[i] : f[i][k] = seqs[h][j]
           Bad == {i \in 1..N : ~Whole(i)}
<1>6. Bad = {}
  <2> SUFFICES ASSUME Bad # {} PROVE FALSE
    OBVIOUS
  <2>1. Bad \subseteq Nat
    BY <1>1
  <2> HIDE DEF Bad
  <2>2. PICK i \in Bad : \A y \in Bad : i <= y
    BY <2>1, LeastOf
  <2>3. i \in 1..N /\ ~Whole(i)
    BY DEF Bad
  <2>4. CASE i = 1
    <3>1. f[i] = seqs[i] /\ f[i] \in Seq(T)
      BY <1>4, <1>5, <2>3, <2>4
    <3>2. \A h \in 1..i : h = i
      BY <2>4
    <3> QED
      BY <2>3, <3>1, <3>2
  <2>5. CASE i # 1
    <3>1. i - 1 \in 1..N /\ ~(i <= i - 1)
      BY <1>1, <2>3, <2>5
    <3>2. Whole(i - 1)
      BY <2>2, <3>1 DEF Bad
    <3> DEFINE a == f[i - 1]
               b == seqs[i]
    <3>3. f[i] = a \o b /\ a \in Seq(T) /\ b \in Seq(T)
      BY <1>4, <1>5, <2>3, <2>5, <3>2
    <3> HIDE DEF a, b
    <3>4. /\ a \o b \in Seq(T)
          /\ \A k \in DOMAIN a : k \in DOMAIN (a \o b) /\ (a \o b)[k] = a[k]
          /\ \A k \in DOMAIN b : Len(a) + k \in DOMAIN (a \o b) /\ (a \o b)[Len(a) + k] = b[k]
      BY <3>3
    <3>5. ASSUME NEW h \in 1..i, NEW j \in DOMAIN seqs[h]
          PROVE  \E k \in DOMAIN f[i] : f[i][k] = seqs[h][j]
      <4>1. CASE h = i
        BY <3>3, <3>4, <4>1 DEF b
      <4>2. CASE h # i
        <5>1. h \in 1..(i - 1)
          BY <2>3, <4>2
        <5>2. PICK k \in DOMAIN a : a[k] = seqs[h][j]
          BY <3>2, <5>1 DEF a
        <5> QED
          BY <3>3, <3>4, <5>2
      <4> QED
        BY <4>1, <4>2
    <3> QED
      BY <2>3, <3>3, <3>4, <3>5
  <2> QED
    BY <2>4, <2>5
<1>7. ASSUME N # 0 PROVE Whole(N)
  <2>1. N \in 1..N
    BY <1>1, <1>7
  <2> QED
    BY <1>6, <2>1
<1>8. CASE N # 0
  BY <1>1, <1>3, <1>7, <1>8
<1> QED
  BY <1>2, <1>8

-----------------------------------------------------------------------------
(***************************************************************************)
(* Counting: what a recursive function adds up, step by step.              *)
(***************************************************************************)

(* What holds at 0, and one further wherever it holds, holds up to N.      *)
LEMMA Climb ==
  ASSUME NEW N \in Nat, NEW S, 0 \in S, \A i \in 1..N : i - 1 \in S => i \in S
  PROVE  \A i \in 0..N : i \in S
<1> DEFINE Bad == {i \in 0..N : i \notin S}
<1>1. SUFFICES ASSUME Bad # {} PROVE FALSE
  OBVIOUS
<1>2. Bad \subseteq Nat
  OBVIOUS
<1> HIDE DEF Bad
<1>3. PICK m \in Bad : \A y \in Bad : m <= y
  BY <1>1, <1>2, LeastOf
<1>4. m \in 0..N /\ m \notin S
  BY DEF Bad
<1>5. m - 1 \in 0..N /\ m \in 1..N /\ ~(m <= m - 1)
  BY <1>4
<1>6. m - 1 \in S
  BY <1>3, <1>5 DEF Bad
<1> QED
  BY <1>4, <1>5, <1>6

\* A function of each number and what comes before, that stays in a set.
Stays(N, D, F) == \A i \in 1..N : \A x \in D : F[i][x] \in D

\* What one makes of it, step by step.
Counted(N, D, F, start, g) ==
  g \in [0..N -> D] /\ g = [i \in 0..N |-> IF i = 0 THEN start ELSE F[i][g[i - 1]]]

(* A count that starts in a set and never leaves it can be made.           *)
LEMMA CountExists ==
  ASSUME NEW N \in Nat, NEW D, NEW start \in D, NEW F, Stays(N, D, F)
  PROVE  \E g : Counted(N, D, F, start, g)
<1> DEFINE S == {m \in 0..N : \E g \in [0..m -> D] :
                   g = [i \in 0..m |-> IF i = 0 THEN start ELSE F[i][g[i - 1]]]}
<1>1. \A i \in 1..N : \A x \in D : F[i][x] \in D
  BY DEF Stays
<1>2. 0 \in S
  <2> DEFINE g == [i \in 0..0 |-> start]
  <2>1. g \in [0..0 -> D]
    OBVIOUS
  <2>2. g = [i \in 0..0 |-> IF i = 0 THEN start ELSE F[i][g[i - 1]]]
    OBVIOUS
  <2> HIDE DEF g
  <2> QED
    BY <2>1, <2>2
<1>3. ASSUME NEW m \in 1..N, m - 1 \in S PROVE m \in S
  <2>1. PICK g \in [0..(m - 1) -> D] :
          g = [i \in 0..(m - 1) |-> IF i = 0 THEN start ELSE F[i][g[i - 1]]]
    BY <1>3
  <2> DEFINE h == [i \in 0..m |-> IF i = m THEN F[m][g[m - 1]] ELSE g[i]]
  <2>2. g[m - 1] \in D
    OBVIOUS
  <2>3. h \in [0..m -> D]
    BY <1>1, <2>2
  <2>4. ASSUME NEW i \in 0..m
        PROVE  h[i] = IF i = 0 THEN start ELSE F[i][h[i - 1]]
    <3>1. CASE i = m
      <4>1. i # 0 /\ i - 1 \in 0..m /\ i - 1 # m
        BY <3>1
      <4>2. h[i - 1] = g[i - 1] /\ h[i] = F[m][g[m - 1]]
        BY <3>1, <4>1
      <4> HIDE DEF h
      <4> QED
        BY <3>1, <4>1, <4>2
    <3>2. CASE i # m
      <4>1. i \in 0..(m - 1) /\ h[i] = g[i]
        BY <3>2
      <4>2. g[i] = IF i = 0 THEN start ELSE F[i][g[i - 1]]
        BY <2>1, <4>1, Zenon
      <4>3. i # 0 => i - 1 \in 0..m /\ i - 1 # m
        BY <3>2
      <4>4. i # 0 => h[i - 1] = g[i - 1]
        BY <4>3
      <4> HIDE DEF h
      <4> QED
        BY <4>1, <4>2, <4>4
    <3> QED
      BY <3>1, <3>2
  <2>5. h = [i \in 0..m |-> h[i]]
    OBVIOUS
  <2> HIDE DEF h
  <2>6. h = [i \in 0..m |-> IF i = 0 THEN start ELSE F[i][h[i - 1]]]
    BY <2>4, <2>5, Zenon
  <2> QED
    BY <2>3, <2>6
<1> HIDE DEF S
<1>4. N \in S
  BY <1>2, <1>3, Climb
<1> QED
  BY <1>4 DEF S, Counted

-----------------------------------------------------------------------------
(***************************************************************************)
(* What leaves the payer's account by the system program, counted as the   *)
(* code counts it: one type of instruction after the other, with checked   *)
(* additions and saturating subtractions (fee.rs:381).                     *)
(***************************************************************************)

\* A u64, or the error that it is none.
Totals == (0..MaxU64) \cup {FAILED}

AmountsIn(instructions) ==
  \A i \in DOMAIN instructions : instructions[i].amount \in 0..MaxU64

\* t counts, one by one, what the payer moves by the instructions of a type.
Tallies(payer, instructions, type, start, t) ==
  /\ t \in [0..Len(instructions) -> Totals] /\ t[0] = start
  /\ \A i \in 1..Len(instructions) :
       t[i] = IF ParsedAs(instructions[i], "system", type)
              THEN CountMove(payer, t[i - 1], Parsed(instructions[i])) ELSE t[i - 1]

(* What is counted stays a u64, and never falls by more than comes in.     *)
LEMMA CountMoveIs ==
  ASSUME NEW payer, NEW total \in Totals, NEW p, p.amount \in 0..MaxU64
  PROVE  /\ CountMove(payer, total, p) \in Totals
         /\ CountMove(payer, total, p) # FAILED =>
              /\ total # FAILED
              /\ CountMove(payer, total, p) >=
                   total + ((IF payer \in p.who THEN p.amount ELSE 0)
                              - (IF p.to = payer THEN p.amount ELSE 0))
<1>1. MaxU64 \in Nat
  BY MaxU64Assumption
<1> DEFINE out == IF payer \in p.who THEN CheckedAdd(total, p.amount) ELSE total
<1>2. out \in Totals
  BY <1>1 DEF CheckedAdd, Checked, Totals, FAILED
<1>3. out # FAILED => total # FAILED /\ out = total + (IF payer \in p.who THEN p.amount ELSE 0)
  BY <1>1 DEF CheckedAdd, Checked, Totals, FAILED
<1>4. CountMove(payer, total, p) =
        IF p.to = payer /\ out # FAILED THEN SaturatingSub(out, p.amount) ELSE out
  BY Zenon DEF CountMove
<1> HIDE DEF out
<1>5. CASE out = FAILED
  BY <1>2, <1>4, <1>5
<1>6. CASE out # FAILED /\ p.to # payer
  BY <1>1, <1>2, <1>3, <1>4, <1>6 DEF Totals, FAILED
<1>7. CASE out # FAILED /\ p.to = payer
  <2>1. out \in 0..MaxU64 /\ CountMove(payer, total, p) = SaturatingSub(out, p.amount)
    BY <1>2, <1>4, <1>7 DEF Totals
  <2>2. SaturatingSub(out, p.amount) \in 0..MaxU64 /\ SaturatingSub(out, p.amount) >= out - p.amount
    BY <1>1, <2>1 DEF SaturatingSub
  <2>3. total \in 0..MaxU64
    BY <1>3, <1>7 DEF Totals
  <2> QED
    BY <1>1, <1>3, <1>7, <2>1, <2>2, <2>3 DEF Totals
<1> QED
  BY <1>5, <1>6, <1>7

(* The totals of one type are u64 as they are counted.                     *)
LEMMA TotalsAre ==
  ASSUME NEW payer, NEW T, NEW instructions \in Seq(T), AmountsIn(instructions),
         NEW type, NEW start \in Totals
  PROVE  Tallies(payer, instructions, type, start,
                 SystemTotals(payer, instructions, type, start))
<1> DEFINE N == Len(instructions)
           t == SystemTotals(payer, instructions, type, start)
           Go(i, x) == IF ParsedAs(instructions[i], "system", type)
                       THEN CountMove(payer, x, Parsed(instructions[i])) ELSE x
           F == [i \in 1..N |-> [x \in Totals |-> Go(i, x)]]
           Counts(g) == g = [i \in 0..N |-> IF i = 0 THEN start ELSE Go(i, g[i - 1])]
<1>1. N \in Nat /\ DOMAIN instructions = 1..N
  OBVIOUS
<1>2. \A i \in 1..N : Parsed(instructions[i]).amount \in 0..MaxU64
  BY <1>1 DEF AmountsIn, Parsed, SystemParsed, TokenParsed
<1>3. \A i \in 1..N : \A x \in Totals : Go(i, x) \in Totals
  BY <1>2, CountMoveIs
<1>4. t = CHOOSE g : Counts(g)
  BY DEF SystemTotals
<1> HIDE DEF N, Go, t
<1>5. \A i \in 1..N : \A x \in Totals : F[i][x] = Go(i, x)
  OBVIOUS
<1> HIDE DEF F
<1>6. Stays(N, Totals, F)
  BY <1>3, <1>5 DEF Stays
<1>7. PICK g : Counted(N, Totals, F, start, g)
  BY <1>1, <1>6, CountExists
<1>8. \A i \in 1..N : i - 1 \in 0..N
  BY <1>1
<1>9. \A i \in 0..N : g[i] = IF i = 0 THEN start ELSE Go(i, g[i - 1])
  <2> SUFFICES ASSUME NEW i \in 0..N PROVE g[i] = IF i = 0 THEN start ELSE Go(i, g[i - 1])
    OBVIOUS
  <2>1. g[i] = IF i = 0 THEN start ELSE F[i][g[i - 1]]
    BY <1>7, Zenon DEF Counted
  <2>2. i # 0 => i \in 1..N /\ g[i - 1] \in Totals
    BY <1>1, <1>7, <1>8 DEF Counted
  <2> QED
    BY <1>5, <2>1, <2>2, Zenon
<1>10. Counts(g)
  <2>1. g = [i \in 0..N |-> g[i]]
    BY <1>7 DEF Counted
  <2> QED
    BY <1>9, <2>1, Zenon
<1>11. t = [i \in 0..N |-> IF i = 0 THEN start ELSE Go(i, t[i - 1])]
  BY <1>4, <1>10, Zenon
<1>12. t[0] = start
  BY <1>1, <1>11
<1>13. \A i \in 1..N : t[i] = Go(i, t[i - 1])
  <2> SUFFICES ASSUME NEW i \in 1..N PROVE t[i] = Go(i, t[i - 1])
    OBVIOUS
  <2>1. i \in 0..N /\ i # 0
    BY <1>1
  <2>2. t[i] = IF i = 0 THEN start ELSE Go(i, t[i - 1])
    BY <1>11, <2>1, Zenon
  <2> QED
    BY <2>1, <2>2
<1>14. t \in [0..N -> Totals]
  <2> DEFINE S == {i \in 0..N : t[i] \in Totals}
  <2>1. 0 \in S
    BY <1>1, <1>12
  <2>2. \A i \in 1..N : i - 1 \in S => i \in S
    BY <1>1, <1>3, <1>13
  <2> HIDE DEF S
  <2>3. \A i \in 0..N : i \in S
    BY <1>1, <2>1, <2>2, Climb
  <2>4. DOMAIN t = 0..N /\ t = [i \in 0..N |-> t[i]]
    BY <1>11
  <2> QED
    BY <2>3, <2>4 DEF S
<1> QED
  BY <1>12, <1>13, <1>14 DEF N, Go, t, Tallies

-----------------------------------------------------------------------------
(***************************************************************************)
(* ...and compared with what really leaves it.                             *)
(***************************************************************************)

\* What one instruction of a type moves out of the payer's account.
NetOf(payer, ix, type) ==
  IF ParsedAs(ix, "system", type)
  THEN (IF payer \in Parsed(ix).who THEN Parsed(ix).amount ELSE 0)
         - (IF Parsed(ix).to = payer THEN Parsed(ix).amount ELSE 0)
  ELSE 0

\* g adds up f.
Sums(N, f, g) ==
  g \in [0..N -> Int] /\ g[0] = 0 /\ \A i \in 1..N : g[i] = g[i - 1] + f[i]

(* Integers can be added up.                                               *)
LEMMA SumsExist ==
  ASSUME NEW N \in Nat, NEW f, \A i \in 1..N : f[i] \in Int
  PROVE  \E g : Sums(N, f, g)
<1> DEFINE F == [i \in 1..N |-> [x \in Int |-> x + f[i]]]
<1>1. \A i \in 1..N : \A x \in Int : F[i][x] = x + f[i] /\ F[i][x] \in Int
  OBVIOUS
<1> HIDE DEF F
<1>2. Stays(N, Int, F)
  BY <1>1 DEF Stays
<1>3. 0 \in Int
  OBVIOUS
<1>4. PICK g : Counted(N, Int, F, 0, g)
  BY <1>2, <1>3, CountExists
<1>5. g \in [0..N -> Int] /\ g = [i \in 0..N |-> IF i = 0 THEN 0 ELSE F[i][g[i - 1]]]
  BY <1>4 DEF Counted
<1>6. g[0] = 0
  BY <1>5
<1>7. ASSUME NEW i \in 1..N PROVE g[i] = g[i - 1] + f[i]
  <2>1. i \in 0..N /\ i # 0 /\ i - 1 \in 0..N
    OBVIOUS
  <2>2. g[i] = IF i = 0 THEN 0 ELSE F[i][g[i - 1]]
    BY <1>5, <2>1, Zenon
  <2>3. g[i - 1] \in Int
    BY <1>5, <2>1
  <2> QED
    BY <1>1, <2>1, <2>2, <2>3
<1> QED
  BY <1>5, <1>6, <1>7 DEF Sums

(* What an instruction moves is an integer, that of its one type.          *)
LEMMA NetIs ==
  ASSUME NEW payer, NEW ix, ix.amount \in 0..MaxU64
  PROVE  /\ \A type : NetOf(payer, ix, type) \in Int
         /\ Net(payer, ix) = NetOf(payer, ix, "Transfer") + NetOf(payer, ix, "CreateAccount")
                               + NetOf(payer, ix, "WithdrawNonce")
         /\ Net(payer, ix) \in Int
<1>1. ix.amount \in Int /\ Parsed(ix).amount = ix.amount
  BY MaxU64Assumption DEF Parsed, SystemParsed, TokenParsed
<1> DEFINE moved == (IF payer \in Parsed(ix).who THEN ix.amount ELSE 0)
                      - (IF Parsed(ix).to = payer THEN ix.amount ELSE 0)
<1>2. moved \in Int
  BY <1>1
<1>3. \A type : NetOf(payer, ix, type) = IF ParsedAs(ix, "system", type) THEN moved ELSE 0
  BY <1>1 DEF NetOf
<1>4. Net(payer, ix) =
        IF \E type \in {"Transfer", "CreateAccount", "WithdrawNonce"} :
             ParsedAs(ix, "system", type) THEN moved ELSE 0
  BY DEF Net
<1>5. \A type : ParsedAs(ix, "system", type) => Parsed(ix).type = type
  BY DEF ParsedAs
<1> HIDE DEF moved
<1> QED
  BY <1>2, <1>3, <1>4, <1>5

(* The lamports that leave, added up.                                      *)
LEMMA NetTotalsAre ==
  ASSUME NEW payer, NEW T, NEW instructions \in Seq(T), AmountsIn(instructions)
  PROVE  Sums(Len(instructions),
              [i \in 1..Len(instructions) |-> Net(payer, instructions[i])],
              NetTotals(payer, instructions))
<1> DEFINE N == Len(instructions)
           f == [i \in 1..N |-> Net(payer, instructions[i])]
           t == NetTotals(payer, instructions)
           Adds(g) == g = [i \in 0..N |-> IF i = 0 THEN 0
                                         ELSE g[i - 1] + Net(payer, instructions[i])]
<1>1. N \in Nat /\ DOMAIN instructions = 1..N
  OBVIOUS
<1>2. \A i \in 1..N : f[i] = Net(payer, instructions[i]) /\ f[i] \in Int
  BY <1>1, NetIs DEF AmountsIn
<1>3. t = CHOOSE g : Adds(g)
  BY DEF NetTotals
<1> HIDE DEF N, f, t
<1>4. PICK g : Sums(N, f, g)
  BY <1>1, <1>2, SumsExist
<1>5. \A i \in 0..N : g[i] = IF i = 0 THEN 0 ELSE g[i - 1] + Net(payer, instructions[i])
  <2>1. g[0] = 0 /\ \A i \in 1..N : g[i] = g[i - 1] + f[i]
    BY <1>4 DEF Sums
  <2>2. \A i \in 1..N : g[i] = g[i - 1] + Net(payer, instructions[i])
    BY <1>2, <2>1
  <2>3. \A i \in 0..N : i # 0 => i \in 1..N
    BY <1>1
  <2> QED
    BY <2>1, <2>2, <2>3, Zenon
<1>6. Adds(g)
  <2>1. g = [i \in 0..N |-> g[i]]
    BY <1>4 DEF Sums
  <2> QED
    BY <1>5, <2>1, Zenon
<1>7. t = [i \in 0..N |-> IF i = 0 THEN 0 ELSE t[i - 1] + Net(payer, instructions[i])]
  BY <1>3, <1>6, Zenon
<1>8. t[0] = 0
  BY <1>1, <1>7
<1>9. \A i \in 1..N : t[i] = t[i - 1] + f[i]
  <2> SUFFICES ASSUME NEW i \in 1..N PROVE t[i] = t[i - 1] + f[i]
    OBVIOUS
  <2>1. i \in 0..N /\ i # 0
    BY <1>1
  <2>2. t[i] = IF i = 0 THEN 0 ELSE t[i - 1] + Net(payer, instructions[i])
    BY <1>7, <2>1, Zenon
  <2> QED
    BY <1>2, <2>1, <2>2
<1>10. t \in [0..N -> Int]
  <2> DEFINE S == {i \in 0..N : t[i] \in Int}
  <2>1. 0 \in S
    BY <1>1, <1>8
  <2>2. \A i \in 1..N : i - 1 \in S => i \in S
    BY <1>1, <1>2, <1>9
  <2> HIDE DEF S
  <2>3. \A i \in 0..N : i \in S
    BY <1>1, <2>1, <2>2, Climb
  <2>4. DOMAIN t = 0..N /\ t = [i \in 0..N |-> t[i]]
    BY <1>7
  <2> QED
    BY <2>3, <2>4 DEF S
<1> QED
  BY <1>8, <1>9, <1>10 DEF Sums, N, f, t

(* Counting the instructions of a type loses none of what leaves by them.  *)
LEMMA OutflowOfIs ==
  ASSUME NEW payer, NEW T, NEW instructions \in Seq(T), AmountsIn(instructions),
         NEW type, NEW start \in Totals, NEW g,
         Sums(Len(instructions),
              [i \in 1..Len(instructions) |-> NetOf(payer, instructions[i], type)], g)
  PROVE  /\ OutflowOf(payer, instructions, type, start) \in Totals
         /\ OutflowOf(payer, instructions, type, start) # FAILED =>
              /\ start # FAILED
              /\ OutflowOf(payer, instructions, type, start) >= start + g[Len(instructions)]
<1> DEFINE N == Len(instructions)
           f == [i \in 1..N |-> NetOf(payer, instructions[i], type)]
           t == SystemTotals(payer, instructions, type, start)
<1>1. N \in Nat /\ DOMAIN instructions = 1..N
  OBVIOUS
<1>2. /\ t \in [0..N -> Totals] /\ t[0] = start
      /\ \A i \in 1..N :
           t[i] = IF ParsedAs(instructions[i], "system", type)
                  THEN CountMove(payer, t[i - 1], Parsed(instructions[i])) ELSE t[i - 1]
  <2>1. Tallies(payer, instructions, type, start, t)
    BY TotalsAre
  <2> HIDE DEF t
  <2> QED
    BY <2>1 DEF Tallies
<1>3. \A i \in 1..N : /\ Parsed(instructions[i]).amount \in 0..MaxU64
                      /\ f[i] = NetOf(payer, instructions[i], type) /\ f[i] \in Int
  <2>1. \A i \in 1..N : instructions[i].amount \in 0..MaxU64
    BY <1>1 DEF AmountsIn
  <2>2. \A i \in 1..N : Parsed(instructions[i]).amount = instructions[i].amount
    BY DEF Parsed, SystemParsed, TokenParsed
  <2> QED
    BY <2>1, <2>2, NetIs
<1>4. /\ g \in [0..N -> Int] /\ g[0] = 0
      /\ \A i \in 1..N : g[i] = g[i - 1] + f[i]
  BY DEF Sums
<1>5. Totals \subseteq Int
  BY MaxU64Assumption DEF Totals, FAILED
<1>6. OutflowOf(payer, instructions, type, start) = t[N]
  BY DEF OutflowOf
<1> HIDE DEF N, f, t
<1> DEFINE Kept(i) == t[i] # FAILED => start # FAILED /\ t[i] >= start + g[i]
           S == {i \in 0..N : Kept(i)}
<1>7. 0 \in S
  BY <1>1, <1>2, <1>4, <1>5
<1>8. ASSUME NEW i \in 1..N, i - 1 \in S PROVE i \in S
  <2>1. /\ i \in 0..N /\ i - 1 \in 0..N /\ t[i] \in Totals /\ t[i - 1] \in Totals
        /\ g[i - 1] \in Int /\ g[i] = g[i - 1] + f[i] /\ f[i] \in Int /\ start \in Int
    BY <1>1, <1>2, <1>3, <1>4, <1>5
  <2>2. Kept(i - 1)
    BY <1>8
  <2>3. CASE ParsedAs(instructions[i], "system", type)
    <3> DEFINE p == Parsed(instructions[i])
               moved == (IF payer \in p.who THEN p.amount ELSE 0)
                          - (IF p.to = payer THEN p.amount ELSE 0)
    <3>1. t[i] = CountMove(payer, t[i - 1], p)
      BY <1>2, <2>3
    <3>2. f[i] = moved
      BY <1>3, <2>3 DEF NetOf
    <3>3. p.amount \in 0..MaxU64 /\ p.amount \in Int
      BY <1>3, MaxU64Assumption
    <3>4. moved \in Int
      BY <3>3
    <3> HIDE DEF p
    <3>5. CountMove(payer, t[i - 1], p) # FAILED =>
            t[i - 1] # FAILED /\ CountMove(payer, t[i - 1], p) >= t[i - 1] + moved
      BY <2>1, <3>3, CountMoveIs, Zenon
    <3> HIDE DEF moved
    <3>6. t[i - 1] \in Int /\ t[i] \in Int
      BY <1>5, <2>1
    <3> QED
      BY <2>1, <2>2, <3>1, <3>2, <3>4, <3>5, <3>6
  <2>4. CASE ~ParsedAs(instructions[i], "system", type)
    <3>1. t[i] = t[i - 1] /\ f[i] = 0
      BY <1>2, <1>3, <2>4 DEF NetOf
    <3> QED
      BY <1>5, <2>1, <2>2, <3>1
  <2> QED
    BY <2>3, <2>4
<1> HIDE DEF S
<1>9. N \in S
  <2>1. \A i \in 1..N : i - 1 \in S => i \in S
    BY <1>8
  <2>2. \A i \in 0..N : i \in S
    BY <1>1, <1>7, <2>1, Climb, Zenon
  <2> QED
    BY <1>1, <2>2
<1>10. N \in 0..N /\ t[N] \in Totals
  BY <1>1, <1>2
<1> QED
  BY <1>6, <1>9, <1>10 DEF S, N

(* The outflow of the system program, unless it is refused, is at least    *)
(* what ends up outside, in whatever order it is counted (fee.rs:381).     *)
LEMMA OutflowIsEnough ==
  ASSUME NEW payer, NEW T, NEW instructions \in Seq(T), AmountsIn(instructions)
  PROVE  /\ SystemOutflow(payer, instructions) \in Totals
         /\ NetLamports(payer, instructions) \in Int
         /\ SystemOutflow(payer, instructions) # FAILED =>
              SystemOutflow(payer, instructions) >= NetLamports(payer, instructions)
<1> DEFINE N == Len(instructions)
           f(type) == [i \in 1..N |-> NetOf(payer, instructions[i], type)]
           h == [i \in 1..N |-> Net(payer, instructions[i])]
           n == NetTotals(payer, instructions)
<1>1. N \in Nat /\ DOMAIN instructions = 1..N
  OBVIOUS
<1>2. \A i \in 1..N : instructions[i].amount \in 0..MaxU64
  BY <1>1 DEF AmountsIn
<1>3. \A type : \A i \in 1..N : f(type)[i] \in Int
  BY <1>2, NetIs
<1>4. \A i \in 1..N : h[i] = f("Transfer")[i] + f("CreateAccount")[i] + f("WithdrawNonce")[i]
  BY <1>2, NetIs
<1>5. Sums(N, h, n)
  BY NetTotalsAre
<1>6. PICK a : Sums(N, f("Transfer"), a)
  BY <1>1, <1>3, SumsExist
<1>7. PICK b : Sums(N, f("CreateAccount"), b)
  BY <1>1, <1>3, SumsExist
<1>8. PICK c : Sums(N, f("WithdrawNonce"), c)
  BY <1>1, <1>3, SumsExist
<1> DEFINE x == OutflowOf(payer, instructions, "Transfer", 0)
           y == OutflowOf(payer, instructions, "CreateAccount", x)
           z == OutflowOf(payer, instructions, "WithdrawNonce", y)
<1>9. 0 \in Totals /\ 0 # FAILED /\ Totals \subseteq Int
  BY MaxU64Assumption DEF Totals, FAILED
<1>10. x \in Totals /\ (x # FAILED => x >= 0 + a[N])
  BY <1>6, <1>9, OutflowOfIs
<1> HIDE DEF x
<1>11. y \in Totals /\ (y # FAILED => x # FAILED /\ y >= x + b[N])
  BY <1>7, <1>10, OutflowOfIs
<1> HIDE DEF y
<1>12. z \in Totals /\ (z # FAILED => y # FAILED /\ z >= y + c[N])
  BY <1>8, <1>11, OutflowOfIs
<1>13. SystemOutflow(payer, instructions) = z /\ NetLamports(payer, instructions) = n[N]
  BY DEF SystemOutflow, NetLamports, x, y
<1> HIDE DEF z, f, h, n, N
<1>14. n[N] = a[N] + b[N] + c[N]
  <2> DEFINE S == {i \in 0..N : n[i] = a[i] + b[i] + c[i]}
  <2>1. 0 \in S
    BY <1>1, <1>5, <1>6, <1>7, <1>8 DEF Sums
  <2>2. ASSUME NEW i \in 1..N, i - 1 \in S PROVE i \in S
    <3>1. i \in 0..N /\ i - 1 \in 0..N
      BY <1>1
    <3>2. n[i - 1] = a[i - 1] + b[i - 1] + c[i - 1]
      BY <2>2
    <3>3. /\ n[i] = n[i - 1] + h[i] /\ a[i] = a[i - 1] + f("Transfer")[i]
          /\ b[i] = b[i - 1] + f("CreateAccount")[i]
          /\ c[i] = c[i - 1] + f("WithdrawNonce")[i]
      BY <1>5, <1>6, <1>7, <1>8 DEF Sums
    <3>4. /\ a[i - 1] \in Int /\ b[i - 1] \in Int /\ c[i - 1] \in Int
          /\ h[i] = f("Transfer")[i] + f("CreateAccount")[i] + f("WithdrawNonce")[i]
      BY <1>4, <1>6, <1>7, <1>8, <3>1 DEF Sums
    <3>5. /\ f("Transfer")[i] \in Int /\ f("CreateAccount")[i] \in Int
          /\ f("WithdrawNonce")[i] \in Int
      BY <1>3
    <3> DEFINE p == a[i - 1]
               q == b[i - 1]
               r == c[i - 1]
               s == f("Transfer")[i]
               t == f("CreateAccount")[i]
               u == f("WithdrawNonce")[i]
    <3>6. p \in Int /\ q \in Int /\ r \in Int /\ s \in Int /\ t \in Int /\ u \in Int
      BY <3>4, <3>5
    <3>7. n[i] = (p + q + r) + (s + t + u)
      BY <3>2, <3>3, <3>4, Zenon
    <3>8. (p + s) + (q + t) + (r + u) = a[i] + b[i] + c[i]
      BY <3>3, Zenon
    <3> HIDE DEF p, q, r, s, t, u
    <3>9. (p + q + r) + (s + t + u) = (p + s) + (q + t) + (r + u)
      BY <3>6
    <3>10. n[i] = a[i] + b[i] + c[i]
      BY <3>7, <3>8, <3>9, Zenon
    <3> QED
      BY <3>1, <3>10
  <2> HIDE DEF S
  <2>3. N \in S
    BY <1>1, <2>1, <2>2, Climb
  <2> QED
    BY <2>3 DEF S
<1>15. a[N] \in Int /\ b[N] \in Int /\ c[N] \in Int /\ n[N] \in Int
  BY <1>1, <1>5, <1>6, <1>7, <1>8 DEF Sums
<1> QED
  BY <1>9, <1>10, <1>11, <1>12, <1>13, <1>14, <1>15

-----------------------------------------------------------------------------
(***************************************************************************)
(* What leaves by token transfers is a u64 as well, and only adds to it.   *)
(***************************************************************************)

(* A u64, or a refusal, as numbers.                                        *)
LEMMA TotalsIs ==
  /\ 0 \in Totals /\ FAILED \in Totals /\ Totals \subseteq Int
  /\ \A n : Checked(n) \in Totals
  /\ \A x \in Totals : x # FAILED <=> x >= 0
BY MaxU64Assumption DEF Totals, FAILED, Checked

(* A transfer of tokens, counted at its value, leaves a u64.               *)
LEMMA CountTokensIs ==
  ASSUME NEW payer, NEW total \in Totals, NEW t, NEW view
  PROVE  CountTokens(payer, total, t, view) \in Totals
<1> DEFINE value == TokenValue(t.amount, view.price[MintOf(t, view.seen)])
<1>1. value \in Totals
  BY TotalsIs, Zenon DEF TokenValue
<1>2. CountTokens(payer, total, t, view) =
        IF FAILED \in {total, value} THEN FAILED
        ELSE IF IsOutflow(payer, t) THEN CheckedAdd(total, value)
        ELSE SaturatingSub(total, value)
  BY Zenon DEF CountTokens
<1> HIDE DEF value
<1>3. CheckedAdd(total, value) \in Totals
  BY TotalsIs, Zenon DEF CheckedAdd
<1>4. total # FAILED /\ value # FAILED => SaturatingSub(total, value) \in Totals
  BY <1>1, MaxU64Assumption DEF SaturatingSub, Totals
<1> QED
  BY <1>2, <1>3, <1>4, TotalsIs, Zenon

\* t counts, one by one, what the payer moves by the transfers of a mint.
MintTallies(payer, transfers, mint, view, start, t) ==
  /\ t \in [0..Len(transfers) -> Totals] /\ t[0] = start
  /\ \A i \in 1..Len(transfers) :
       t[i] = IF /\ MovesTokens(payer, transfers[i], view.seen)
                 /\ MintOf(transfers[i], view.seen) = mint
              THEN CountTokens(payer, t[i - 1], transfers[i], view) ELSE t[i - 1]

(* The totals of one mint are u64 as they are counted.                     *)
LEMMA MintTotalsAre ==
  ASSUME NEW payer, NEW transfers, Len(transfers) \in Nat, NEW mint, NEW view,
         NEW start \in Totals
  PROVE  MintTallies(payer, transfers, mint, view, start,
                     MintTotals(payer, transfers, mint, view, start))
<1> DEFINE N == Len(transfers)
           t == MintTotals(payer, transfers, mint, view, start)
           Go(i, x) == IF /\ MovesTokens(payer, transfers[i], view.seen)
                          /\ MintOf(transfers[i], view.seen) = mint
                       THEN CountTokens(payer, x, transfers[i], view) ELSE x
           F == [i \in 1..N |-> [x \in Totals |-> Go(i, x)]]
           Counts(g) == g = [i \in 0..N |-> IF i = 0 THEN start ELSE Go(i, g[i - 1])]
<1>1. N \in Nat
  OBVIOUS
<1>2. \A i \in 1..N : \A x \in Totals : Go(i, x) \in Totals
  BY CountTokensIs
<1>3. t = CHOOSE g : Counts(g)
  BY DEF MintTotals
<1> HIDE DEF N, Go, t
<1>4. \A i \in 1..N : \A x \in Totals : F[i][x] = Go(i, x)
  OBVIOUS
<1> HIDE DEF F
<1>5. Stays(N, Totals, F)
  BY <1>2, <1>4 DEF Stays
<1>6. PICK g : Counted(N, Totals, F, start, g)
  BY <1>1, <1>5, CountExists
<1>7. Counts(g)
  <2>1. ASSUME NEW i \in 0..N PROVE g[i] = IF i = 0 THEN start ELSE Go(i, g[i - 1])
    <3>1. g[i] = IF i = 0 THEN start ELSE F[i][g[i - 1]]
      BY <1>6, Zenon DEF Counted
    <3>2. i # 0 => i \in 1..N /\ i - 1 \in 0..N
      BY <1>1
    <3>3. i # 0 => g[i - 1] \in Totals
      BY <1>6, <3>2 DEF Counted
    <3> QED
      BY <1>4, <3>1, <3>2, <3>3, Zenon
  <2>2. g = [i \in 0..N |-> g[i]]
    BY <1>6 DEF Counted
  <2> QED
    BY <2>1, <2>2, Zenon
<1>8. t = [i \in 0..N |-> IF i = 0 THEN start ELSE Go(i, t[i - 1])]
  BY <1>3, <1>7, Zenon
<1>9. t[0] = start
  BY <1>1, <1>8
<1>10. ASSUME NEW i \in 1..N PROVE t[i] = Go(i, t[i - 1])
  <2>1. i \in 0..N /\ i # 0
    BY <1>1
  <2>2. t[i] = IF i = 0 THEN start ELSE Go(i, t[i - 1])
    BY <1>8, <2>1, Zenon
  <2> QED
    BY <2>1, <2>2
<1>11. t \in [0..N -> Totals]
  <2> DEFINE S == {i \in 0..N : t[i] \in Totals}
  <2>1. 0 \in S
    BY <1>1, <1>9
  <2>2. \A i \in 1..N : i - 1 \in S => i \in S
    BY <1>1, <1>2, <1>10
  <2> HIDE DEF S
  <2>3. \A i \in 0..N : i \in S
    BY <1>1, <2>1, <2>2, Climb
  <2>4. DOMAIN t = 0..N /\ t = [i \in 0..N |-> t[i]]
    BY <1>8
  <2> QED
    BY <2>3, <2>4 DEF S
<1> QED
  BY <1>9, <1>10, <1>11 DEF N, Go, t, MintTallies

\* What the transfers of a mint leave of a total.
Left(payer, transfers, mint, view, start) ==
  MintTotals(payer, transfers, mint, view, start)[Len(transfers)]

(* ...is a total.                                                          *)
LEMMA LeftIs ==
  ASSUME NEW payer, NEW transfers, Len(transfers) \in Nat, NEW mint, NEW view,
         NEW start \in Totals
  PROVE  Left(payer, transfers, mint, view, start) \in Totals
<1> DEFINE t == MintTotals(payer, transfers, mint, view, start)
<1>1. MintTallies(payer, transfers, mint, view, start, t)
  BY MintTotalsAre
<1>2. Left(payer, transfers, mint, view, start) = t[Len(transfers)]
  BY DEF Left
<1> HIDE DEF t
<1>3. t[Len(transfers)] \in Totals
  BY <1>1 DEF MintTallies
<1> QED
  BY <1>2, <1>3

\* t counts them mint by mint.
TokenTallies(payer, transfers, view, order, t) ==
  /\ t \in [0..Len(order) -> Totals] /\ t[0] = 0
  /\ \A j \in 1..Len(order) : t[j] = Left(payer, transfers, order[j], view, t[j - 1])

(* The totals are u64 as the mints are visited.                            *)
LEMMA TokenTotalsAre ==
  ASSUME NEW payer, NEW transfers, Len(transfers) \in Nat, NEW view,
         NEW order, Len(order) \in Nat
  PROVE  TokenTallies(payer, transfers, view, order,
                      TokenTotals(payer, transfers, view, order))
<1> DEFINE N == Len(order)
           t == TokenTotals(payer, transfers, view, order)
           Go(j, x) == Left(payer, transfers, order[j], view, x)
           F == [j \in 1..N |-> [x \in Totals |-> Go(j, x)]]
           Counts(g) == g = [j \in 0..N |-> IF j = 0 THEN 0 ELSE Go(j, g[j - 1])]
<1>1. N \in Nat
  OBVIOUS
<1>2. \A j \in 1..N : \A x \in Totals : Go(j, x) \in Totals
  BY LeftIs
<1>3. t = CHOOSE g : Counts(g)
  BY DEF TokenTotals, Left
<1> HIDE DEF N, Go, t
<1>4. \A j \in 1..N : \A x \in Totals : F[j][x] = Go(j, x)
  OBVIOUS
<1> HIDE DEF F
<1>5. Stays(N, Totals, F)
  BY <1>2, <1>4 DEF Stays
<1>6. PICK g : Counted(N, Totals, F, 0, g)
  BY <1>1, <1>5, CountExists, TotalsIs
<1>7. Counts(g)
  <2>1. ASSUME NEW j \in 0..N PROVE g[j] = IF j = 0 THEN 0 ELSE Go(j, g[j - 1])
    <3>1. g[j] = IF j = 0 THEN 0 ELSE F[j][g[j - 1]]
      BY <1>6, Zenon DEF Counted
    <3>2. j # 0 => j \in 1..N /\ j - 1 \in 0..N
      BY <1>1
    <3>3. j # 0 => g[j - 1] \in Totals
      BY <1>6, <3>2 DEF Counted
    <3> QED
      BY <1>4, <3>1, <3>2, <3>3, Zenon
  <2>2. g = [j \in 0..N |-> g[j]]
    BY <1>6 DEF Counted
  <2> QED
    BY <2>1, <2>2, Zenon
<1>8. t = [j \in 0..N |-> IF j = 0 THEN 0 ELSE Go(j, t[j - 1])]
  BY <1>3, <1>7, Zenon
<1>9. t[0] = 0
  BY <1>1, <1>8
<1>10. ASSUME NEW j \in 1..N PROVE t[j] = Go(j, t[j - 1])
  <2>1. j \in 0..N /\ j # 0
    BY <1>1
  <2>2. t[j] = IF j = 0 THEN 0 ELSE Go(j, t[j - 1])
    BY <1>8, <2>1, Zenon
  <2> QED
    BY <2>1, <2>2
<1>11. t \in [0..N -> Totals]
  <2> DEFINE S == {j \in 0..N : t[j] \in Totals}
  <2>1. 0 \in S
    BY <1>1, <1>9, TotalsIs
  <2>2. \A j \in 1..N : j - 1 \in S => j \in S
    BY <1>1, <1>2, <1>10
  <2> HIDE DEF S
  <2>3. \A j \in 0..N : j \in S
    BY <1>1, <2>1, <2>2, Climb
  <2>4. DOMAIN t = 0..N /\ t = [j \in 0..N |-> t[j]]
    BY <1>8
  <2> QED
    BY <2>3, <2>4 DEF S
<1> QED
  BY <1>9, <1>10, <1>11 DEF N, Go, t, TokenTallies

(* An order of the mints is a list.                                        *)
LEMMA OrderIs ==
  ASSUME NEW order \in Orders PROVE Len(order) \in Nat
<1>1. Cardinality(Mints) \in Nat
  BY FS_CardinalityType, PaymasterAssumption
<1> QED
  BY <1>1 DEF Orders

(* What token transfers move out, in whatever order of the mints, is a u64 *)
(* or refused (token.rs:223).                                              *)
LEMMA SplOutflowIs ==
  ASSUME NEW payer, NEW transfers, Len(transfers) \in Nat, NEW view, NEW order \in Orders
  PROVE  SplOutflow(payer, transfers, view, order) \in Totals
<1>1. Len(order) \in Nat /\ Len(order) \in 0..Len(order)
  BY OrderIs
<1>2. TokenTotals(payer, transfers, view, order)[Len(order)] \in Totals
  <2> DEFINE t == TokenTotals(payer, transfers, view, order)
  <2>1. TokenTallies(payer, transfers, view, order, t)
    BY <1>1, TokenTotalsAre
  <2> HIDE DEF t
  <2>2. t[Len(order)] \in Totals
    BY <1>1, <2>1 DEF TokenTallies
  <2> QED
    BY <2>2 DEF t
<1> QED
  BY <1>2, TotalsIs, Zenon DEF SplOutflow

\* t adds up numbers, each addition checked.
SumTallies(numbers, t) ==
  /\ t \in [0..Len(numbers) -> Totals] /\ t[0] = 0
  /\ \A i \in 1..Len(numbers) : t[i] = CheckedAdd(t[i - 1], numbers[i])

(* The totals of a sum are u64, or refused.                                *)
LEMMA SumTotalsAre ==
  ASSUME NEW numbers, Len(numbers) \in Nat
  PROVE  SumTallies(numbers, SumTotals(numbers))
<1> DEFINE N == Len(numbers)
           t == SumTotals(numbers)
           Go(i, x) == CheckedAdd(x, numbers[i])
           F == [i \in 1..N |-> [x \in Totals |-> Go(i, x)]]
           Counts(g) == g = [i \in 0..N |-> IF i = 0 THEN 0 ELSE Go(i, g[i - 1])]
<1>1. N \in Nat
  OBVIOUS
<1>2. \A i : \A x : Go(i, x) \in Totals
  BY TotalsIs, Zenon DEF CheckedAdd
<1>3. t = CHOOSE g : Counts(g)
  BY DEF SumTotals
<1> HIDE DEF N, Go, t
<1>4. \A i \in 1..N : \A x \in Totals : F[i][x] = Go(i, x)
  OBVIOUS
<1> HIDE DEF F
<1>5. Stays(N, Totals, F)
  BY <1>2, <1>4 DEF Stays
<1>6. PICK g : Counted(N, Totals, F, 0, g)
  BY <1>1, <1>5, CountExists, TotalsIs
<1>7. Counts(g)
  <2>1. ASSUME NEW i \in 0..N PROVE g[i] = IF i = 0 THEN 0 ELSE Go(i, g[i - 1])
    <3>1. g[i] = IF i = 0 THEN 0 ELSE F[i][g[i - 1]]
      BY <1>6, Zenon DEF Counted
    <3>2. i # 0 => i \in 1..N /\ i - 1 \in 0..N
      BY <1>1
    <3>3. i # 0 => g[i - 1] \in Totals
      BY <1>6, <3>2 DEF Counted
    <3> QED
      BY <1>4, <3>1, <3>2, <3>3, Zenon
  <2>2. g = [i \in 0..N |-> g[i]]
    BY <1>6 DEF Counted
  <2> QED
    BY <2>1, <2>2, Zenon
<1>8. t = [i \in 0..N |-> IF i = 0 THEN 0 ELSE Go(i, t[i - 1])]
  BY <1>3, <1>7, Zenon
<1>9. t[0] = 0
  BY <1>1, <1>8
<1>10. ASSUME NEW i \in 1..N PROVE t[i] = Go(i, t[i - 1])
  <2>1. i \in 0..N /\ i # 0
    BY <1>1
  <2>2. t[i] = IF i = 0 THEN 0 ELSE Go(i, t[i - 1])
    BY <1>8, <2>1, Zenon
  <2> QED
    BY <2>1, <2>2
<1>11. t \in [0..N -> Totals]
  <2>1. \A i \in 0..N : t[i] \in Totals
    <3> SUFFICES ASSUME NEW i \in 0..N PROVE t[i] \in Totals
      OBVIOUS
    <3>1. i = 0 \/ i \in 1..N
      BY <1>1
    <3> QED
      BY <1>2, <1>9, <1>10, <3>1, TotalsIs
  <2>2. DOMAIN t = 0..N /\ t = [i \in 0..N |-> t[i]]
    BY <1>8
  <2> QED
    BY <2>1, <2>2
<1> QED
  BY <1>9, <1>10, <1>11 DEF N, Go, t, SumTallies

(* A sum is a u64, or refused.                                             *)
LEMMA CheckedSumIs ==
  ASSUME NEW numbers, Len(numbers) \in Nat
  PROVE  CheckedSum(numbers) \in Totals
<1>1. Len(numbers) \in 0..Len(numbers)
  OBVIOUS
<1> DEFINE t == SumTotals(numbers)
<1>2. SumTallies(numbers, t) /\ CheckedSum(numbers) = t[Len(numbers)]
  BY SumTotalsAre DEF CheckedSum
<1> HIDE DEF t
<1>3. t[Len(numbers)] \in Totals
  BY <1>1, <1>2 DEF SumTallies
<1> QED
  BY <1>2, <1>3

(* What is kept of each, at most one, makes a sequence.                    *)
LEMMA TransfersCounted ==
  ASSUME NEW T, NEW instructions \in Seq(T)
  PROVE  /\ Len(TokenTransfers(instructions)) \in Nat
         /\ DOMAIN TokenTransfers(instructions) = 1..Len(TokenTransfers(instructions))
<1> DEFINE Kept(ix) == IF IsTokenTransfer(ix) THEN <<Parsed(ix)>> ELSE <<>>
           kept == [i \in DOMAIN instructions |-> Kept(instructions[i])]
           P == {Parsed(instructions[i]) : i \in DOMAIN instructions}
<1>1. TokenTransfers(instructions) = FlattenSeq(kept)
  BY Zenon DEF TokenTransfers
<1>2. DOMAIN instructions = 1..Len(instructions) /\ Len(instructions) \in Nat
  OBVIOUS
<1>3. \A i \in DOMAIN instructions : Kept(instructions[i]) \in Seq(P)
  <2> SUFFICES ASSUME NEW i \in DOMAIN instructions PROVE Kept(instructions[i]) \in Seq(P)
    OBVIOUS
  <2> DEFINE p == Parsed(instructions[i])
  <2>1. p \in P
    OBVIOUS
  <2>2. Kept(instructions[i]) \in {<<>>, <<p>>}
    OBVIOUS
  <2> HIDE DEF p, P, Kept
  <2>3. <<>> \in Seq(P) /\ <<p>> \in Seq(P)
    BY <2>1
  <2> QED
    BY <2>2, <2>3
<1> HIDE DEF Kept, P
<1>4. kept \in Seq(Seq(P))
  BY <1>2, <1>3
<1> HIDE DEF kept
<1>5. FlattenSeq(kept) \in Seq(P)
  BY <1>4, FlattenKeeps
<1> QED
  BY <1>1, <1>5

(* ...and so is a sum over what it yields.                                 *)
LEMMA TransfersAdded ==
  ASSUME NEW T, NEW instructions \in Seq(T), NEW numbers,
         DOMAIN numbers = DOMAIN TokenTransfers(instructions)
  PROVE  CheckedSum(numbers) \in Totals
<1> DEFINE n == Len(TokenTransfers(instructions))
<1>1. n \in Nat /\ DOMAIN numbers = 1..n
  BY TransfersCounted
<1> HIDE DEF n
<1>2. Len(numbers) = n
  BY <1>1
<1> QED
  BY <1>1, <1>2, CheckedSumIs

(* What the payer gives away is what leaves by the system program, and     *)
(* never less: what tokens bring in is not set against it (fee.rs:447).    *)
LEMMA OutflowCovers ==
  ASSUME NEW payer, NEW T, NEW instructions \in Seq(T), AmountsIn(instructions),
         NEW view, NEW order \in Orders,
         FeePayerOutflow(payer, instructions, view, order) # FAILED
  PROVE  /\ FeePayerOutflow(payer, instructions, view, order) \in Nat
         /\ SystemOutflow(payer, instructions) \in
              0..FeePayerOutflow(payer, instructions, view, order)
<1> DEFINE a == SystemOutflow(payer, instructions)
           b == SplOutflow(payer, TokenTransfers(instructions), view, order)
<1>1. a \in Totals
  BY OutflowIsEnough
<1>2. b \in Totals
  BY SplOutflowIs, TransfersCounted
<1>3. FeePayerOutflow(payer, instructions, view, order) = CheckedAdd(a, b)
  BY Zenon DEF FeePayerOutflow
<1> HIDE DEF a, b
<1>4. CheckedAdd(a, b) # FAILED
  BY <1>3
<1>5. a # FAILED /\ b # FAILED /\ CheckedAdd(a, b) = a + b
  BY <1>4, Zenon DEF CheckedAdd, Checked
<1>6. a >= 0 /\ b >= 0 /\ a \in Int /\ b \in Int
  BY <1>1, <1>2, <1>5, TotalsIs
<1>7. a + b \in Nat /\ a \in 0..(a + b)
  BY <1>6
<1> QED
  BY <1>3, <1>5, <1>7 DEF a

-----------------------------------------------------------------------------
(***************************************************************************)
(* What a list of instructions moves, part by part.                        *)
(***************************************************************************)

\* The instructions of a set whose amounts are u64.
Amounts(T) == \A ix \in T : ix.amount \in 0..MaxU64

(* A list of such instructions.                                            *)
LEMMA AmountsOf ==
  ASSUME NEW T, Amounts(T), NEW a \in Seq(T)
  PROVE  AmountsIn(a)
BY DEF AmountsIn, Amounts

\* t adds up what the instructions of a list move.
NetSums(payer, a, t) ==
  /\ t \in [0..Len(a) -> Int] /\ t[0] = 0
  /\ \A i \in 1..Len(a) : t[i] = t[i - 1] + Net(payer, a[i])

(* What they move can be added up.                                         *)
LEMMA NetSumsAre ==
  ASSUME NEW payer, NEW T, Amounts(T), NEW a \in Seq(T)
  PROVE  NetSums(payer, a, NetTotals(payer, a))
<1> DEFINE f == [i \in 1..Len(a) |-> Net(payer, a[i])]
           t == NetTotals(payer, a)
<1>1. Sums(Len(a), f, t)
  BY AmountsOf, NetTotalsAre
<1>2. \A i \in 1..Len(a) : f[i] = Net(payer, a[i])
  OBVIOUS
<1> HIDE DEF f, t
<1>3. NetSums(payer, a, t)
  BY <1>1, <1>2 DEF Sums, NetSums
<1> QED
  BY <1>3 DEF t

(* What a list moves is what its first part moves and what the rest does.  *)
LEMMA NetOfBoth ==
  ASSUME NEW payer, NEW T, Amounts(T), NEW a \in Seq(T), NEW b \in Seq(T)
  PROVE  /\ NetLamports(payer, a \o b) = NetLamports(payer, a) + NetLamports(payer, b)
         /\ NetLamports(payer, a) \in Int /\ NetLamports(payer, b) \in Int
         /\ a \o b \in Seq(T)
<1> DEFINE c == a \o b
           n == Len(a)
           m == Len(b)
           s == NetTotals(payer, a)
           t == NetTotals(payer, b)
           u == NetTotals(payer, c)
<1>1. /\ n \in Nat /\ m \in Nat /\ c \in Seq(T) /\ Len(c) = n + m
      /\ \A i \in 1..n : c[i] = a[i]
      /\ \A j \in 1..m : c[n + j] = b[j]
  OBVIOUS
<1> HIDE DEF c
<1>2. NetSums(payer, a, s) /\ NetSums(payer, b, t) /\ NetSums(payer, c, u)
  BY <1>1, NetSumsAre
<1> HIDE DEF s, t, u
<1>3. /\ s \in [0..n -> Int] /\ t \in [0..m -> Int] /\ u \in [0..(n + m) -> Int]
      /\ s[0] = 0 /\ t[0] = 0 /\ u[0] = 0
      /\ \A i \in 1..n : s[i] = s[i - 1] + Net(payer, a[i])
      /\ \A i \in 1..m : t[i] = t[i - 1] + Net(payer, b[i])
      /\ \A i \in 1..(n + m) : u[i] = u[i - 1] + Net(payer, c[i])
  BY <1>1, <1>2 DEF NetSums
<1> HIDE DEF n, m
<1>4. u[n] = s[n]
  <2> DEFINE S == {i \in 0..n : u[i] = s[i]}
  <2>1. 0 \in S
    BY <1>1, <1>3
  <2>2. \A i \in 1..n : i - 1 \in S => i \in S
    <3> SUFFICES ASSUME NEW i \in 1..n, i - 1 \in S PROVE i \in S
      OBVIOUS
    <3>1. i \in 0..n /\ i \in 1..(n + m) /\ u[i - 1] = s[i - 1]
      BY <1>1
    <3>2. /\ u[i] = u[i - 1] + Net(payer, c[i]) /\ s[i] = s[i - 1] + Net(payer, a[i])
          /\ c[i] = a[i]
      BY <1>1, <1>3, <3>1
    <3>3. u[i] = s[i]
      BY <3>1, <3>2, Zenon
    <3> QED
      BY <3>1, <3>3
  <2> HIDE DEF S
  <2>3. \A i \in 0..n : i \in S
    BY <1>1, <2>1, <2>2, Climb
  <2>4. n \in S
    BY <1>1, <2>3
  <2> QED
    BY <2>4 DEF S
<1>5. u[n + m] = s[n] + t[m]
  <2> DEFINE S == {i \in 0..m : u[n + i] = s[n] + t[i]}
  <2>1. s[n] \in Int
    BY <1>1, <1>3
  <2>2. 0 \in S
    BY <1>1, <1>3, <1>4, <2>1
  <2>3. \A i \in 1..m : i - 1 \in S => i \in S
    <3> SUFFICES ASSUME NEW i \in 1..m, i - 1 \in S PROVE i \in S
      OBVIOUS
    <3>1. /\ i \in 0..m /\ i - 1 \in 0..m /\ n + i \in 1..(n + m) /\ (n + i) - 1 = n + (i - 1)
          /\ u[n + (i - 1)] = s[n] + t[i - 1]
      BY <1>1
    <3>2. u[n + i] = u[(n + i) - 1] + Net(payer, c[n + i])
      BY <1>3, <3>1, Zenon
    <3>3. t[i] = t[i - 1] + Net(payer, b[i]) /\ c[n + i] = b[i]
      BY <1>1, <1>3
    <3>4. u[n + i] = (s[n] + t[i - 1]) + Net(payer, b[i])
      BY <3>1, <3>2, <3>3, Zenon
    <3>5. b[i] \in T /\ Net(payer, b[i]) \in Int
      <4>1. b[i] \in T
        BY DEF m
      <4>2. b[i].amount \in 0..MaxU64
        BY <4>1 DEF Amounts
      <4> QED
        BY <4>1, <4>2, NetIs
    <3>6. t[i - 1] \in Int
      BY <1>3, <3>1
    <3> DEFINE x == t[i - 1]
               y == Net(payer, b[i])
               z == s[n]
    <3>7. x \in Int /\ y \in Int /\ z \in Int /\ t[i] = x + y /\ u[n + i] = (z + x) + y
      BY <2>1, <3>3, <3>4, <3>5, <3>6
    <3> HIDE DEF x, y, z
    <3>8. u[n + i] = z + t[i]
      BY <3>7
    <3> QED
      BY <3>1, <3>8 DEF z
  <2> HIDE DEF S
  <2>4. \A i \in 0..m : i \in S
    BY <1>1, <2>2, <2>3, Climb
  <2>5. m \in S
    BY <1>1, <2>4
  <2> QED
    BY <2>5 DEF S
<1>6. s[n] \in Int /\ t[m] \in Int
  BY <1>1, <1>3
<1>7. /\ NetLamports(payer, a) = s[n] /\ NetLamports(payer, b) = t[m]
      /\ NetLamports(payer, c) = u[n + m]
  BY <1>1 DEF NetLamports, s, t, u, n, m
<1> QED
  BY <1>1, <1>5, <1>6, <1>7 DEF c

(* One instruction moves what it moves, none nothing.                      *)
LEMMA NetOfOne ==
  ASSUME NEW payer, NEW T, Amounts(T)
  PROVE  /\ <<>> \in Seq(T) /\ NetLamports(payer, <<>>) = 0
         /\ \A ix \in T : <<ix>> \in Seq(T) /\ NetLamports(payer, <<ix>>) = Net(payer, ix)
<1>1. <<>> \in Seq(T) /\ Len(<<>>) = 0
  OBVIOUS
<1>2. NetLamports(payer, <<>>) = 0
  <2>1. NetSums(payer, <<>>, NetTotals(payer, <<>>))
    BY <1>1, NetSumsAre
  <2> QED
    BY <1>1, <2>1 DEF NetSums, NetLamports
<1>3. ASSUME NEW ix \in T
      PROVE  <<ix>> \in Seq(T) /\ NetLamports(payer, <<ix>>) = Net(payer, ix)
  <2> DEFINE a == <<ix>>
  <2>1. a \in Seq(T) /\ Len(a) = 1 /\ a[1] = ix
    OBVIOUS
  <2> HIDE DEF a
  <2>2. NetSums(payer, a, NetTotals(payer, a))
    BY <2>1, NetSumsAre
  <2>3. NetTotals(payer, a)[0] = 0
        /\ NetTotals(payer, a)[1] = NetTotals(payer, a)[1 - 1] + Net(payer, a[1])
    BY <2>1, <2>2 DEF NetSums
  <2>4. Net(payer, ix) \in Int
    BY NetIs DEF Amounts
  <2>5. NetTotals(payer, a)[1] = Net(payer, ix)
    BY <2>1, <2>3, <2>4
  <2>6. NetLamports(payer, a) = Net(payer, ix)
    BY <2>1, <2>5 DEF NetLamports
  <2> QED
    BY <2>1, <2>6 DEF a
<1> QED
  BY <1>1, <1>2, <1>3

(* Lists, each of which moves what one instruction does, move together     *)
(* what those instructions do.                                             *)
LEMMA NetOfAll ==
  ASSUME NEW payer, NEW T, Amounts(T), NEW lists \in Seq(Seq(T)),
         NEW R, Amounts(R), NEW ran \in Seq(R), Len(ran) = Len(lists),
         \A i \in 1..Len(ran) : NetLamports(payer, lists[i]) = Net(payer, ran[i])
  PROVE  NetLamports(payer, FlattenSeq(lists)) = NetLamports(payer, ran)
<1> DEFINE N == Len(lists)
           f == CHOOSE g : Chains(N, lists, g)
           t == NetTotals(payer, ran)
<1>1. N \in Nat /\ DOMAIN lists = 1..N
  OBVIOUS
<1>2. NetSums(payer, ran, t)
  BY NetSumsAre
<1>3. NetLamports(payer, ran) = t[N]
  BY DEF NetLamports
<1> HIDE DEF t
<1>4. t[0] = 0 /\ \A i \in 1..N : t[i] = t[i - 1] + NetLamports(payer, lists[i])
  BY <1>2 DEF NetSums
<1>5. CASE N = 0
  <2>1. lists = <<>> /\ FlattenSeq(lists) = <<>>
    BY <1>5 DEF FlattenSeq
  <2> QED
    BY <1>3, <1>4, <1>5, <2>1, NetOfOne
<1>6. ASSUME N # 0 PROVE NetLamports(payer, FlattenSeq(lists)) = t[N]
  <2>1. FlattenSeq(lists) = f[N]
    BY <1>6 DEF FlattenSeq, Chains
  <2>2. \A i \in 1..N : f[i] = IF i = 1 THEN lists[i] ELSE f[i - 1] \o lists[i]
    <3>1. Chains(N, lists, f)
      BY <1>1, ChainExists
    <3> QED
      BY <3>1, Zenon DEF Chains
  <2>3. \A i \in 1..N : lists[i] \in Seq(T)
    BY <1>1
  <2> HIDE DEF N, f
  <2> DEFINE S == {0} \cup {i \in 1..N : f[i] \in Seq(T) /\ NetLamports(payer, f[i]) = t[i]}
  <2>4. \A i \in 1..N : i - 1 \in S => i \in S
    <3> SUFFICES ASSUME NEW i \in 1..N, i - 1 \in S PROVE i \in S
      OBVIOUS
    <3>1. CASE i = 1
      <4>1. f[1] = lists[1] /\ lists[1] \in Seq(T) /\ 1 \in 1..N
        BY <2>2, <2>3, <3>1
      <4>2. t[1] = t[1 - 1] + NetLamports(payer, lists[1])
        BY <1>4, <4>1
      <4>3. NetLamports(payer, lists[1]) \in Int
        BY <2>3, <4>1, NetOfBoth
      <4>4. t[1] = NetLamports(payer, lists[1])
        BY <1>4, <4>2, <4>3
      <4> QED
        BY <3>1, <4>1, <4>4
    <3>2. CASE i # 1
      <4>1. i - 1 \in 1..N /\ i - 1 # 0
        BY <1>1, <3>2
      <4>2. f[i - 1] \in Seq(T) /\ NetLamports(payer, f[i - 1]) = t[i - 1]
        BY <4>1
      <4>3. f[i] = f[i - 1] \o lists[i] /\ lists[i] \in Seq(T)
        BY <2>2, <2>3, <3>2
      <4>4. /\ NetLamports(payer, f[i - 1] \o lists[i]) =
                 NetLamports(payer, f[i - 1]) + NetLamports(payer, lists[i])
            /\ f[i - 1] \o lists[i] \in Seq(T)
        BY <4>2, <4>3, NetOfBoth
      <4>5. t[i] = t[i - 1] + NetLamports(payer, lists[i])
        BY <1>4
      <4>6. f[i] \in Seq(T) /\ NetLamports(payer, f[i]) = t[i]
        BY <4>2, <4>3, <4>4, <4>5, Zenon
      <4> QED
        BY <4>6
    <3> QED
      BY <3>1, <3>2
  <2>5. 0 \in S
    OBVIOUS
  <2> HIDE DEF S
  <2>6. \A i \in 0..N : i \in S
    BY <1>1, <2>4, <2>5, Climb
  <2>7. N \in 1..N /\ N \in S /\ N # 0
    BY <1>1, <1>6, <2>6
  <2> QED
    BY <2>1, <2>7 DEF S
<1> QED
  BY <1>3, <1>5, <1>6

-----------------------------------------------------------------------------
(***************************************************************************)
(* The keys of a transaction: a lookup table is only extended, so a place  *)
(* in it, once resolved, names the same account from then on.              *)
(***************************************************************************)

\* The lookup tables of two moments, the later with the same entries and more.
Extended(old, new) ==
  \A k \in DOMAIN old : k \in DOMAIN new /\ IsPrefix(old[k], new[k])

Sequenced(tables) == \A k \in DOMAIN tables : tables[k] \in Seq(ToSet(tables[k]))

Covered(tx, tables) ==
  \A i \in DOMAIN tx.lookups : LookupInBounds(tx.lookups[i], tables)

Indexed(tx) ==
  \A i \in DOMAIN tx.lookups :
    tx.lookups[i].writable \in Seq(Nat) /\ tx.lookups[i].readonly \in Seq(Nat)

(* A place in a sequence is the same place in an extension of it.          *)
LEMMA SamePlace ==
  ASSUME NEW S, NEW a \in Seq(S), NEW T, NEW b \in Seq(T), IsPrefix(a, b),
         NEW index \in Int, index < Len(a)
  PROVE  index < Len(b) /\ At(a, index) = At(b, index)
<1>1. Len(a) \in Nat /\ Len(b) \in Nat /\ Len(a) <= Len(b)
  BY DEF IsPrefix
<1>2. \A i \in 1..Len(a) : a[i] = b[i]
  <2>1. SubSeq(a, 1, Len(a)) = SubSeq(b, 1, Len(a))
    BY DEF IsPrefix
  <2>2. \A i \in 1..Len(a) : SubSeq(a, 1, Len(a))[i] = a[i]
    BY <1>1
  <2>3. \A i \in 1..Len(a) : SubSeq(b, 1, Len(a))[i] = b[i]
    BY <1>1
  <2> QED
    BY <2>1, <2>2, <2>3
<1>3. index < Len(b)
  BY <1>1
<1>4. index \in 0..(Len(a) - 1) <=> index \in 0..(Len(b) - 1)
  BY <1>1
<1>5. index \in 0..(Len(a) - 1) => index + 1 \in 1..Len(a)
  BY <1>1
<1> QED
  BY <1>2, <1>3, <1>4, <1>5 DEF At

(* An address found in lookup tables stays what it is: transactions name   *)
(* the same accounts in the extended tables.                               *)
LEMMA SameKeys ==
  ASSUME NEW tx, NEW old, NEW new, Extended(old, new), Sequenced(old), Sequenced(new),
         Indexed(tx), Covered(tx, old)
  PROVE  Covered(tx, new) /\ AllAccountKeys(tx, old) = AllAccountKeys(tx, new)
<1>1. ASSUME NEW i \in DOMAIN tx.lookups
      PROVE  /\ LookupInBounds(tx.lookups[i], new)
             /\ Entries(tx.lookups[i].writable, old[tx.lookups[i].table])
                  = Entries(tx.lookups[i].writable, new[tx.lookups[i].table])
             /\ Entries(tx.lookups[i].readonly, old[tx.lookups[i].table])
                  = Entries(tx.lookups[i].readonly, new[tx.lookups[i].table])
  <2> DEFINE lookup == tx.lookups[i]
             k == lookup.table
  <2>1. /\ k \in DOMAIN old
        /\ \A j \in DOMAIN lookup.writable : lookup.writable[j] < Len(old[k])
        /\ \A j \in DOMAIN lookup.readonly : lookup.readonly[j] < Len(old[k])
    BY DEF Covered, LookupInBounds
  <2>2. /\ k \in DOMAIN new /\ IsPrefix(old[k], new[k])
        /\ old[k] \in Seq(ToSet(old[k])) /\ new[k] \in Seq(ToSet(new[k]))
    BY <2>1 DEF Extended, Sequenced
  <2> HIDE DEF k
  <2>3. \A index \in Int : index < Len(old[k]) =>
          index < Len(new[k]) /\ At(old[k], index) = At(new[k], index)
    BY <2>2, SamePlace
  <2>4. /\ \A j \in DOMAIN lookup.writable : lookup.writable[j] \in Int
        /\ \A j \in DOMAIN lookup.readonly : lookup.readonly[j] \in Int
    <3>1. lookup.writable \in Seq(Nat) /\ lookup.readonly \in Seq(Nat)
      BY DEF Indexed
    <3> QED
      BY <3>1
  <2>5. Entries(lookup.writable, old[k]) = Entries(lookup.writable, new[k])
    BY <2>1, <2>3, <2>4 DEF Entries
  <2>6. Entries(lookup.readonly, old[k]) = Entries(lookup.readonly, new[k])
    BY <2>1, <2>3, <2>4 DEF Entries
  <2>7. LookupInBounds(lookup, new)
    BY <2>1, <2>2, <2>3, <2>4 DEF LookupInBounds, k
  <2> QED
    BY <2>5, <2>6, <2>7 DEF k
<1>2. [i \in DOMAIN tx.lookups |-> Entries(tx.lookups[i].writable, old[tx.lookups[i].table])
                                     \o Entries(tx.lookups[i].readonly, old[tx.lookups[i].table])]
    = [i \in DOMAIN tx.lookups |-> Entries(tx.lookups[i].writable, new[tx.lookups[i].table])
                                     \o Entries(tx.lookups[i].readonly, new[tx.lookups[i].table])]
  BY <1>1
<1>3. ResolveLookupTableAddresses(tx.lookups, old) = ResolveLookupTableAddresses(tx.lookups, new)
  BY <1>2, Zenon DEF ResolveLookupTableAddresses
<1> QED
  BY <1>1, <1>3 DEF Covered, AllAccountKeys

\* The tables the chain had when the changing accounts were at some places.
TablesAt(places) == TablesIn(Over([k \in DOMAIN History |-> History[k][places[k]]], Base))

InHistory(places) == \A k \in DOMAIN History : places[k] \in 1..Len(History[k])

(* As the accounts change, tables are extended.                            *)
LEMMA TablesGrow ==
  ASSUME NEW f, NEW places, DOMAIN f = DOMAIN History, InHistory(places),
         \A k \in DOMAIN History :
           \/ f[k] = Unfetched
           \/ \E i \in 1..places[k] : f[k] = History[k][i]
  PROVE  /\ Sequenced(TablesIn(Over(f, Base)))
         /\ Extended(TablesIn(Over(f, Base)), TablesAt(places))
<1> DEFINE g == [k \in DOMAIN History |-> History[k][places[k]]]
           old == Over(f, Base)
           new == Over(g, Base)
<1>1. /\ DOMAIN old = DOMAIN History \cup DOMAIN Base
      /\ DOMAIN new = DOMAIN History \cup DOMAIN Base
      /\ \A k \in DOMAIN History : old[k] = f[k] /\ new[k] = History[k][places[k]]
      /\ \A k \in DOMAIN Base \ DOMAIN History : old[k] = Base[k] /\ new[k] = Base[k]
  BY DEF Over
<1> HIDE DEF old, new, g
<1>2. ASSUME NEW k \in DOMAIN History
      PROVE  /\ IsTable(old[k]) => old[k].entries \in Seq(ToSet(old[k].entries))
             /\ IsTable(old[k]) =>
                  IsTable(new[k]) /\ IsPrefix(old[k].entries, new[k].entries)
  <2>1. /\ DOMAIN History[k] = 1..Len(History[k]) /\ Len(History[k]) \in Nat
        /\ places[k] \in DOMAIN History[k]
    BY PaymasterAssumption DEF InHistory
  <2>2. CASE f[k] = Unfetched
    BY <1>1, <2>2, TablesAssumption
  <2>3. ASSUME NEW i \in 1..places[k], f[k] = History[k][i]
        PROVE  /\ IsTable(old[k]) => old[k].entries \in Seq(ToSet(old[k].entries))
               /\ IsTable(old[k]) =>
                    IsTable(new[k]) /\ IsPrefix(old[k].entries, new[k].entries)
    <3>1. i \in DOMAIN History[k]
      BY <2>1
    <3> QED
      BY <1>1, <2>1, <2>3, <3>1, TablesAssumption
  <2> QED
    BY <2>2, <2>3
<1>3. ASSUME NEW k \in DOMAIN Base \ DOMAIN History
      PROVE  /\ old[k].entries \in Seq(ToSet(old[k].entries)) /\ new[k] = old[k]
             /\ IsPrefix(old[k].entries, new[k].entries)
  <2>1. Base[k].entries \in Seq(ToSet(Base[k].entries)) /\ old[k] = Base[k] /\ new[k] = Base[k]
    BY <1>1, TablesAssumption
  <2> QED
    BY <2>1 DEF IsPrefix
<1>4. Sequenced(TablesIn(old))
  BY <1>1, <1>2, <1>3 DEF Sequenced, TablesIn
<1>5. Extended(TablesIn(old), TablesIn(new))
  BY <1>1, <1>2, <1>3 DEF Extended, TablesIn
<1> QED
  BY <1>4, <1>5 DEF old, new, g, TablesAt

-----------------------------------------------------------------------------
(***************************************************************************)
(* The layouts of the instructions: where a report names an account and    *)
(* where the instruction has it (instruction_util.rs).                     *)
(***************************************************************************)

Distinct(names) ==
  \A i, j \in DOMAIN names : names[i] = names[j] /\ names[i] # "sysvar" => i = j

Tuple(names) == Len(names) \in Nat /\ DOMAIN names = 1..Len(names)

\* An account that is not there, or has the same place in both.
PlacesAgree(fields, names, place) ==
  \/ place \in {InData, Absent}
  \/ /\ place \in 0..(Len(fields) - 1) /\ place + 1 \in DOMAIN names
     /\ fields[place + 1] = names[place + 1]

\* The fields an instruction is rebuilt with, the accounts it had, and where
\* its consent and its payee are read.
Matches(fields, names, layout) ==
  /\ Tuple(fields) /\ Tuple(names)
  /\ \A i \in DOMAIN fields :
       fields[i] # "sysvar" /\ \E j \in DOMAIN names : names[j] = fields[i]
  /\ Distinct(names)
  /\ layout.needs \in Nat
  /\ layout.needs <= Len(fields) =>
       PlacesAgree(fields, names, layout.who) /\ PlacesAgree(fields, names, layout.to)

(* Of two tables, one over the other.                                      *)
LEMMA OverIs ==
  ASSUME NEW f, NEW g
  PROVE  /\ DOMAIN Over(f, g) = DOMAIN f \cup DOMAIN g
         /\ \A x \in DOMAIN f : Over(f, g)[x] = f[x]
         /\ \A x \in DOMAIN g : x \notin DOMAIN f => Over(f, g)[x] = g[x]
BY DEF Over

(* The system instructions that pay are rebuilt as they were...            *)
LEMMA MoneyMatches ==
  ASSUME NEW kind \in DOMAIN SystemMoneyFields
  PROVE  /\ kind \in DOMAIN SystemTypes
         /\ Matches(SystemMoneyFields[kind], SystemAccounts[kind], SystemIndexes[kind])
<1>1. CASE kind = "transfer"
  BY <1>1 DEF SystemMoneyFields, SystemAccounts, SystemIndexes,
           SystemTypes, Layout, Matches, Distinct, Tuple,
           PlacesAgree, InData, Absent
<1>2. CASE kind = "createAccount"
  BY <1>2 DEF SystemMoneyFields, SystemAccounts, SystemIndexes,
           SystemTypes, Layout, Matches, Distinct, Tuple,
           PlacesAgree, InData, Absent
<1>3. CASE kind = "transferWithSeed"
  BY <1>3 DEF SystemMoneyFields, SystemAccounts, SystemIndexes,
           SystemTypes, Layout, Matches, Distinct, Tuple,
           PlacesAgree, InData, Absent
<1>4. CASE kind = "createAccountWithSeed"
  BY <1>4 DEF SystemMoneyFields, SystemAccounts, SystemIndexes,
           SystemTypes, Layout, Matches, Distinct, Tuple,
           PlacesAgree, InData, Absent
<1>5. CASE kind = "withdrawFromNonce"
  BY <1>5 DEF SystemMoneyFields, SystemAccounts, SystemIndexes,
           SystemTypes, Layout, Matches, Distinct, Tuple,
           PlacesAgree, InData, Absent
<1> QED
  BY <1>1, <1>2, <1>3, <1>4, <1>5 DEF SystemMoneyFields

(* ...and so are the others.                                               *)
LEMMA OwnerMatches ==
  ASSUME NEW kind \in DOMAIN SystemOwnerFields
  PROVE  /\ kind \in DOMAIN SystemTypes /\ kind \notin DOMAIN SystemMoneyFields
         /\ Matches(SystemOwnerFields[kind], SystemAccounts[kind], SystemIndexes[kind])
<1>1. CASE kind = "assign"
  BY <1>1 DEF SystemOwnerFields, SystemMoneyFields, SystemAccounts,
           SystemIndexes, SystemTypes, Layout, Matches, Distinct, Tuple,
           PlacesAgree, InData, Absent
<1>2. CASE kind = "assignWithSeed"
  BY <1>2 DEF SystemOwnerFields, SystemMoneyFields, SystemAccounts,
           SystemIndexes, SystemTypes, Layout, Matches, Distinct, Tuple,
           PlacesAgree, InData, Absent
<1>3. CASE kind = "allocate"
  BY <1>3 DEF SystemOwnerFields, SystemMoneyFields, SystemAccounts,
           SystemIndexes, SystemTypes, Layout, Matches, Distinct, Tuple,
           PlacesAgree, InData, Absent
<1>4. CASE kind = "allocateWithSeed"
  BY <1>4 DEF SystemOwnerFields, SystemMoneyFields, SystemAccounts,
           SystemIndexes, SystemTypes, Layout, Matches, Distinct, Tuple,
           PlacesAgree, InData, Absent
<1>5. CASE kind = "initializeNonce"
  BY <1>5 DEF SystemOwnerFields, SystemMoneyFields, SystemAccounts,
           SystemIndexes, SystemTypes, Layout, Matches, Distinct, Tuple,
           PlacesAgree, InData, Absent
<1>6. CASE kind = "advanceNonce"
  BY <1>6 DEF SystemOwnerFields, SystemMoneyFields, SystemAccounts,
           SystemIndexes, SystemTypes, Layout, Matches, Distinct, Tuple,
           PlacesAgree, InData, Absent
<1>7. CASE kind = "authorizeNonce"
  BY <1>7 DEF SystemOwnerFields, SystemMoneyFields, SystemAccounts,
           SystemIndexes, SystemTypes, Layout, Matches, Distinct, Tuple,
           PlacesAgree, InData, Absent
<1> QED
  BY <1>1, <1>2, <1>3, <1>4, <1>5, <1>6, <1>7 DEF SystemOwnerFields

(* The token instructions of a holder...                                   *)
LEMMA HolderMatches ==
  ASSUME NEW kind \in DOMAIN HolderFields
  PROVE  Matches(HolderFields[kind], TokenAccounts[kind], TokenIndexes[kind])
<1>1. CASE kind = "transfer"
  BY <1>1 DEF HolderFields, TokenAccounts, TokenIndexes,
           Layout, Matches, Distinct, Tuple,
           PlacesAgree, InData, Absent
<1>2. CASE kind = "transferChecked"
  BY <1>2 DEF HolderFields, TokenAccounts, TokenIndexes,
           Layout, Matches, Distinct, Tuple,
           PlacesAgree, InData, Absent
<1>3. CASE kind = "burn"
  BY <1>3 DEF HolderFields, TokenAccounts, TokenIndexes,
           Layout, Matches, Distinct, Tuple,
           PlacesAgree, InData, Absent
<1>4. CASE kind = "burnChecked"
  BY <1>4 DEF HolderFields, TokenAccounts, TokenIndexes,
           Layout, Matches, Distinct, Tuple,
           PlacesAgree, InData, Absent
<1>5. CASE kind = "closeAccount"
  BY <1>5 DEF HolderFields, TokenAccounts, TokenIndexes,
           Layout, Matches, Distinct, Tuple,
           PlacesAgree, InData, Absent
<1> QED
  BY <1>1, <1>2, <1>3, <1>4, <1>5 DEF HolderFields

(* ...of its delegate...                                                   *)
LEMMA DelegateMatches ==
  ASSUME NEW kind \in DOMAIN DelegateFields
  PROVE  Matches(DelegateFields[kind], TokenAccounts[kind], TokenIndexes[kind])
<1>1. CASE kind = "approve"
  BY <1>1 DEF DelegateFields, TokenAccounts, TokenIndexes,
           Layout, Matches, Distinct, Tuple,
           PlacesAgree, InData, Absent
<1>2. CASE kind = "approveChecked"
  BY <1>2 DEF DelegateFields, TokenAccounts, TokenIndexes,
           Layout, Matches, Distinct, Tuple,
           PlacesAgree, InData, Absent
<1>3. CASE kind = "revoke"
  BY <1>3 DEF DelegateFields, TokenAccounts, TokenIndexes,
           Layout, Matches, Distinct, Tuple,
           PlacesAgree, InData, Absent
<1> QED
  BY <1>1, <1>2, <1>3 DEF DelegateFields

(* ...and of an authority.                                                 *)
LEMMA AuthorityMatches ==
  ASSUME NEW kind \in DOMAIN AuthorityFields
  PROVE  Matches(AuthorityFields[kind], TokenAccounts[kind], TokenIndexes[kind])
<1>1. CASE kind = "setAuthority"
  BY <1>1 DEF AuthorityFields, TokenAccounts, TokenIndexes,
           Layout, Matches, Distinct, Tuple,
           PlacesAgree, InData, Absent
<1>2. CASE kind = "mintTo"
  BY <1>2 DEF AuthorityFields, TokenAccounts, TokenIndexes,
           Layout, Matches, Distinct, Tuple,
           PlacesAgree, InData, Absent
<1>3. CASE kind = "mintToChecked"
  BY <1>3 DEF AuthorityFields, TokenAccounts, TokenIndexes,
           Layout, Matches, Distinct, Tuple,
           PlacesAgree, InData, Absent
<1>4. CASE kind = "freezeAccount"
  BY <1>4 DEF AuthorityFields, TokenAccounts, TokenIndexes,
           Layout, Matches, Distinct, Tuple,
           PlacesAgree, InData, Absent
<1>5. CASE kind = "thawAccount"
  BY <1>5 DEF AuthorityFields, TokenAccounts, TokenIndexes,
           Layout, Matches, Distinct, Tuple,
           PlacesAgree, InData, Absent
<1> QED
  BY <1>1, <1>2, <1>3, <1>4, <1>5 DEF AuthorityFields

(* Of the initialisers, the one that is complete.                          *)
LEMMA InitialiserMatches ==
  Matches(InitialiserFields["initializeAccount"], TokenAccounts["initializeAccount"],
          TokenIndexes["initializeAccount"])
BY DEF InitialiserFields, TokenAccounts, TokenIndexes, Layout, Matches, Distinct, Tuple,
           PlacesAgree, InData, Absent

(* Every system instruction that is judged.                                *)
LEMMA SystemMatches ==
  ASSUME NEW kind \in DOMAIN SystemTypes
  PROVE  /\ kind \in DOMAIN SystemFields
         /\ Matches(SystemFields[kind], SystemAccounts[kind], SystemIndexes[kind])
<1>1. kind \in DOMAIN SystemMoneyFields \/ kind \in DOMAIN SystemOwnerFields
  BY DEF SystemTypes, SystemMoneyFields, SystemOwnerFields
<1>2. /\ DOMAIN SystemFields = DOMAIN SystemMoneyFields \cup DOMAIN SystemOwnerFields
      /\ \A x \in DOMAIN SystemMoneyFields : SystemFields[x] = SystemMoneyFields[x]
      /\ \A x \in DOMAIN SystemOwnerFields :
           x \notin DOMAIN SystemMoneyFields => SystemFields[x] = SystemOwnerFields[x]
  BY OverIs, Zenon DEF SystemFields
<1>3. CASE kind \in DOMAIN SystemMoneyFields
  BY <1>2, <1>3, MoneyMatches
<1>4. CASE kind \in DOMAIN SystemOwnerFields
  BY <1>2, <1>4, OwnerMatches
<1> QED
  BY <1>1, <1>3, <1>4

(* Every token instruction that is judged, as far as it is rebuilt.        *)
LEMMA TokenMatches ==
  ASSUME NEW kind \in DOMAIN SplTypes, kind \notin TagOnly \ CompleteAsTag
  PROVE  /\ kind \in DOMAIN TokenFields
         /\ Matches(TokenFields[kind], TokenAccounts[kind], TokenIndexes[kind])
<1>1. \/ kind \in DOMAIN HolderFields
      \/ kind \in DOMAIN DelegateFields \ DOMAIN HolderFields
      \/ kind \in DOMAIN AuthorityFields \ (DOMAIN HolderFields \cup DOMAIN DelegateFields)
      \/ /\ kind = "initializeAccount" /\ kind \in DOMAIN InitialiserFields
         /\ kind \notin DOMAIN HolderFields \cup DOMAIN DelegateFields
                           \cup DOMAIN AuthorityFields
  <2>1. DOMAIN SplTypes = DOMAIN HolderTypes \cup DOMAIN AuthorityTypes
                            \cup DOMAIN InitialiserTypes
    <3> DEFINE rest == Over(AuthorityTypes, InitialiserTypes)
    <3>1. DOMAIN rest = DOMAIN AuthorityTypes \cup DOMAIN InitialiserTypes
      BY OverIs, Zenon
    <3>2. DOMAIN SplTypes = DOMAIN HolderTypes \cup DOMAIN rest
      BY OverIs, Zenon DEF SplTypes
    <3> QED
      BY <3>1, <3>2, Zenon
  <2> QED
    BY <2>1 DEF HolderTypes, AuthorityTypes, InitialiserTypes, HolderFields, DelegateFields,
                AuthorityFields, InitialiserFields, TagOnly, CompleteAsTag
<1> DEFINE late == Over(AuthorityFields, InitialiserFields)
           rest == Over(DelegateFields, late)
<1>2. /\ DOMAIN late = DOMAIN AuthorityFields \cup DOMAIN InitialiserFields
      /\ \A x \in DOMAIN AuthorityFields : late[x] = AuthorityFields[x]
      /\ \A x \in DOMAIN InitialiserFields :
           x \notin DOMAIN AuthorityFields => late[x] = InitialiserFields[x]
  BY OverIs, Zenon
<1>3. /\ DOMAIN rest = DOMAIN DelegateFields \cup DOMAIN late
      /\ \A x \in DOMAIN DelegateFields : rest[x] = DelegateFields[x]
      /\ \A x \in DOMAIN late : x \notin DOMAIN DelegateFields => rest[x] = late[x]
  BY OverIs, Zenon
<1>4. /\ DOMAIN TokenFields = DOMAIN HolderFields \cup DOMAIN rest
      /\ \A x \in DOMAIN HolderFields : TokenFields[x] = HolderFields[x]
      /\ \A x \in DOMAIN rest : x \notin DOMAIN HolderFields => TokenFields[x] = rest[x]
  BY OverIs, Zenon DEF TokenFields
<1> HIDE DEF late, rest
<1>5. CASE kind \in DOMAIN HolderFields
  BY <1>5, <1>4, HolderMatches
<1>6. CASE kind \in DOMAIN DelegateFields \ DOMAIN HolderFields
  BY <1>6, <1>3, <1>4, DelegateMatches
<1>7. CASE kind \in DOMAIN AuthorityFields \ (DOMAIN HolderFields \cup DOMAIN DelegateFields)
  BY <1>7, <1>2, <1>3, <1>4, AuthorityMatches
<1>8. CASE /\ kind = "initializeAccount" /\ kind \in DOMAIN InitialiserFields
           /\ kind \notin DOMAIN HolderFields \cup DOMAIN DelegateFields
                             \cup DOMAIN AuthorityFields
  BY <1>8, <1>2, <1>3, <1>4, InitialiserMatches
<1> QED
  BY <1>1, <1>5, <1>6, <1>7, <1>8

-----------------------------------------------------------------------------
(***************************************************************************)
(* What is rebuilt from a report of the node has the consent of the same   *)
(* accounts as the instruction that ran.                                   *)
(***************************************************************************)

(* The node reports every account of an instruction under its name.        *)
LEMMA InfoIs ==
  ASSUME NEW ix, Tuple(AccountsOf(ix.program)[ix.kind]),
         Distinct(AccountsOf(ix.program)[ix.kind])
  PROVE  /\ \A i \in DOMAIN AccountsOf(ix.program)[ix.kind] :
              AccountsOf(ix.program)[ix.kind][i] # "sysvar" =>
                /\ AccountsOf(ix.program)[ix.kind][i] \in DOMAIN Info(ix)
                /\ Info(ix)[AccountsOf(ix.program)[ix.kind][i]] = ix.accounts[i]
         /\ ix.kind \in DOMAIN LookedUp => LookedUp[ix.kind] \in DOMAIN Info(ix)
<1> DEFINE names == AccountsOf(ix.program)[ix.kind]
           first(f) == CHOOSE i \in DOMAIN names :
                         names[i] = f /\ \A j \in 1..(i - 1) : names[j] # f
           named == {names[i] : i \in DOMAIN names} \ {"sysvar"}
           data == IF ix.kind \in DOMAIN LookedUp THEN {LookedUp[ix.kind]} ELSE {}
           fromNames == [f \in named |-> ix.accounts[first(f)]]
           fromData == [f \in data |-> ix.named]
<1>1. Tuple(names) /\ Distinct(names)
  OBVIOUS
<1>2. Info(ix) = Over(fromNames, fromData)
  BY DEF Info
<1>3. /\ DOMAIN Over(fromNames, fromData) = named \cup data
      /\ \A f \in named : Over(fromNames, fromData)[f] = ix.accounts[first(f)]
  <2>1. /\ DOMAIN fromNames = named /\ DOMAIN fromData = data
        /\ \A f \in named : fromNames[f] = ix.accounts[first(f)]
    OBVIOUS
  <2> HIDE DEF fromNames, fromData, named, data, first
  <2> QED
    BY <2>1, OverIs, Zenon
<1>4. ASSUME NEW i \in DOMAIN names, names[i] # "sysvar" PROVE first(names[i]) = i
  <2>1. \A j \in 1..(i - 1) : j \in DOMAIN names /\ j # i
    BY DEF Tuple
  <2>2. names[i] = names[i] /\ \A j \in 1..(i - 1) : names[j] # names[i]
    BY <1>4, <2>1 DEF Distinct
  <2>3. names[first(names[i])] = names[i] /\ first(names[i]) \in DOMAIN names
    BY <2>2, Zenon
  <2> HIDE DEF names, first
  <2> QED
    BY <1>1, <1>4, <2>3 DEF Distinct
<1>5. ASSUME NEW i \in DOMAIN names, names[i] # "sysvar"
      PROVE  names[i] \in DOMAIN Info(ix) /\ Info(ix)[names[i]] = ix.accounts[i]
  <2>1. names[i] \in named
    BY <1>5
  <2> HIDE DEF named, data, fromNames, fromData, first
  <2> QED
    BY <1>2, <1>3, <1>4, <1>5, <2>1
<1>6. ix.kind \in DOMAIN LookedUp => LookedUp[ix.kind] \in DOMAIN Info(ix)
  BY <1>2, <1>3
<1> QED
  BY <1>5, <1>6

(* What is rebuilt from a true report has the consent and the payee where  *)
(* they were.                                                              *)
LEMMA RebuiltIs ==
  ASSUME NEW ui, Truthful(ui), ui.form = "parsed", NEW keys, NEW fields, NEW layout,
         ToSet(ui.ix.accounts) \subseteq keys,
         Matches(fields, AccountsOf(ui.program)[ui.kind], layout)
  PROVE  /\ FieldsPresent(ui, fields, keys)
         /\ \A whole : layout.needs <= Len(Rebuilt(ui, fields, whole).accounts) =>
              /\ Consents(Rebuilt(ui, fields, whole), layout.who) = Consents(ui.ix, layout.who)
              /\ At(Rebuilt(ui, fields, whole).accounts, layout.to) =
                   At(ui.ix.accounts, layout.to)
<1> DEFINE names == AccountsOf(ui.program)[ui.kind]
<1>1. /\ ui.program = ui.ix.program /\ ui.kind = ui.ix.kind /\ ui.named = ui.ix.named
      /\ ui.info = Info(ui.ix)
  <2>1. ui = Report("parsed", ui.ix)
    BY DEF Truthful
  <2> HIDE DEF names
  <2> QED
    BY <2>1 DEF Report
<1>2. /\ Len(ui.ix.accounts) \in Nat /\ DOMAIN ui.ix.accounts = 1..Len(ui.ix.accounts)
      /\ Len(names) <= Len(ui.ix.accounts)
  BY DEF Truthful
<1>3. /\ Len(names) \in Nat /\ DOMAIN names = 1..Len(names)
      /\ Len(fields) \in Nat /\ DOMAIN fields = 1..Len(fields)
  BY DEF Matches, Tuple
<1>4. /\ \A i \in DOMAIN names : names[i] # "sysvar" =>
           names[i] \in DOMAIN ui.info /\ ui.info[names[i]] = ui.ix.accounts[i]
      /\ ui.kind \in DOMAIN LookedUp => LookedUp[ui.kind] \in DOMAIN ui.info
  <2>1. names = AccountsOf(ui.ix.program)[ui.ix.kind]
    BY <1>1
  <2>2. /\ Tuple(names)
        /\ Distinct(names)
    BY DEF Matches
  <2> HIDE DEF names
  <2> QED
    BY <1>1, <2>1, <2>2, InfoIs
<1>5. \A i \in DOMAIN names : ui.ix.accounts[i] \in keys
  BY <1>2, <1>3 DEF ToSet
<1>6. FieldsPresent(ui, fields, keys)
  BY <1>4, <1>5 DEF FieldsPresent, Matches
<1>7. ASSUME NEW whole, layout.needs <= Len(Rebuilt(ui, fields, whole).accounts)
      PROVE  /\ Consents(Rebuilt(ui, fields, whole), layout.who) = Consents(ui.ix, layout.who)
             /\ At(Rebuilt(ui, fields, whole).accounts, layout.to) =
                  At(ui.ix.accounts, layout.to)
  <2> DEFINE ix == Rebuilt(ui, fields, whole)
  <2>1. /\ ix.named = ui.named /\ DOMAIN ix.accounts = 1..Len(fields)
        /\ Len(ix.accounts) = Len(fields)
        /\ \A i \in 1..Len(fields) : ix.accounts[i] = ui.info[fields[i]]
    BY <1>3 DEF Rebuilt
  <2>2. PlacesAgree(fields, names, layout.who) /\ PlacesAgree(fields, names, layout.to)
    BY <1>7, <2>1 DEF Matches
  <2>3. \A i \in DOMAIN fields : fields[i] # "sysvar"
    BY DEF Matches
  <2> HIDE DEF ix, names
  <2>4. ASSUME NEW w, w # InData, PlacesAgree(fields, names, w)
        PROVE  At(ix.accounts, w) = At(ui.ix.accounts, w)
    <3>1. CASE w = Absent
      BY <1>2, <1>3, <2>1, <3>1 DEF At, Absent
    <3>2. CASE w # Absent
      <4>1. /\ w \in 0..(Len(fields) - 1) /\ w + 1 \in DOMAIN names
            /\ fields[w + 1] = names[w + 1]
        BY <2>4, <3>2 DEF PlacesAgree
      <4>2. w \in 0..(Len(ui.ix.accounts) - 1) /\ w + 1 \in 1..Len(fields)
        BY <1>2, <1>3, <4>1 DEF names
      <4>3. ix.accounts[w + 1] = ui.ix.accounts[w + 1]
        BY <1>3, <1>4, <2>1, <2>3, <4>1, <4>2
      <4> QED
        BY <2>1, <4>1, <4>2, <4>3 DEF At
    <3> QED
      BY <3>1, <3>2
  <2>5. Consents(ix, layout.who) = Consents(ui.ix, layout.who)
    <3>1. CASE layout.who = InData
      BY <1>1, <2>1, <3>1 DEF Consents
    <3>2. CASE layout.who # InData
      BY <2>2, <2>4, <3>2 DEF Consents
    <3> QED
      BY <3>1, <3>2
  <2>6. At(ix.accounts, layout.to) = At(ui.ix.accounts, layout.to)
    <3>1. CASE layout.to = InData
      BY <1>2, <1>3, <2>1, <3>1 DEF At, InData
    <3>2. CASE layout.to # InData
      BY <2>2, <2>4, <3>2
    <3> QED
      BY <3>1, <3>2
  <2> QED
    BY <2>5, <2>6 DEF ix
<1> QED
  BY <1>6, <1>7

\* An inner instruction is judged as what it is.
JudgedAs(ix, ran) ==
  /\ ix # Dropped /\ Recognised(ix)
  /\ ix.program = ran.program /\ Parsed(ix).type = Parsed(ran).type
  /\ ix.amount = ran.amount
  /\ ~Malformed(ix) => Parsed(ix).who = Parsed(ran).who /\ Parsed(ix).to = Parsed(ran).to

(* Only the system program and the token programs are read.                *)
LEMMA RecognisedNative ==
  ASSUME NEW ix, Recognised(ix)
  PROVE  /\ ix.whole
         /\ \/ ix.program = "system" /\ ix.kind \in DOMAIN SystemTypes
            \/ ix.program \in {"spl", "spl2022"} /\ ix.kind \in DOMAIN SplTypes
BY DEF Recognised, TypesOf, Token2022Types

(* Whatever its form, the report of an inner instruction is read as what   *)
(* ran, or the transaction is refused.                                     *)
LEMMA InnerIsJudged ==
  ASSUME NEW ui, Truthful(ui), Recognised(ui.ix),
         ui.form = "parsed" => ui.kind \notin TagOnly \ CompleteAsTag,
         NEW keys, {ui.program} \cup ToSet(ui.ix.accounts) \subseteq keys
  PROVE  JudgedAs(Reconstruct(ui, keys), ui.ix)
<1>1. ui.program = ui.ix.program /\ ui.kind = ui.ix.kind /\ ui.amount = ui.ix.amount
  BY DEF Truthful, Report
<1>2. \/ ui.program = "system" /\ ui.kind \in DOMAIN SystemTypes
      \/ ui.program \in {"spl", "spl2022"} /\ ui.kind \in DOMAIN SplTypes
  BY <1>1, RecognisedNative
<1>3. CASE ui.form = "compiled"
  <2>1. Reconstruct(ui, keys) = ui.ix
    BY <1>3, Zenon DEF Reconstruct
  <2>2. ui.ix # Dropped
    BY <1>1, <1>2 DEF Dropped, Nobody
  <2> QED
    BY <2>1, <2>2, Zenon DEF JudgedAs
<1>4. ui.form # "partial"
  BY <1>2 DEF Truthful, NativePrograms
<1>5. CASE ui.form = "parsed" /\ ui.program = "system"
  <2> DEFINE fields == SystemFields[ui.kind]
             ix == Rebuilt(ui, fields, TRUE)
  <2>1. /\ ui.kind \in DOMAIN SystemFields
        /\ Matches(fields, AccountsOf(ui.program)[ui.kind], SystemIndexes[ui.kind])
    BY <1>2, <1>5, SystemMatches DEF AccountsOf
  <2> HIDE DEF fields
  <2>2. FieldsPresent(ui, fields, keys)
    BY <1>5, <2>1, RebuiltIs
  <2>3. Reconstruct(ui, keys) = ix
    BY <1>5, <2>1, <2>2 DEF Reconstruct, ReconstructSystem, fields
  <2>4. ix.program = "system" /\ ix.kind = ui.kind /\ ix.whole
        /\ ix.amount = ui.amount
    BY <1>5 DEF Rebuilt
  <2>5. SystemIndexes[ui.kind].needs <= Len(ix.accounts) =>
          /\ Consents(ix, SystemIndexes[ui.kind].who) = Consents(ui.ix, SystemIndexes[ui.kind].who)
          /\ At(ix.accounts, SystemIndexes[ui.kind].to) =
               At(ui.ix.accounts, SystemIndexes[ui.kind].to)
    <3> DEFINE layout == SystemIndexes[ui.kind]
    <3> HIDE DEF layout
    <3>1. \A w : layout.needs <= Len(Rebuilt(ui, fields, w).accounts) =>
            /\ Consents(Rebuilt(ui, fields, w), layout.who) = Consents(ui.ix, layout.who)
            /\ At(Rebuilt(ui, fields, w).accounts, layout.to) = At(ui.ix.accounts, layout.to)
      <4>1. Matches(fields, AccountsOf(ui.program)[ui.kind], layout)
        BY <2>1, Zenon DEF layout
      <4>2. ToSet(ui.ix.accounts) \subseteq keys
        OBVIOUS
      <4> QED
        BY <1>5, <4>1, <4>2, RebuiltIs
    <3> QED
      BY <3>1, Zenon DEF layout
  <2>6. Len(ix.accounts) \in Nat /\ SystemIndexes[ui.kind].needs \in Nat
    BY <2>1 DEF Rebuilt, Matches, Tuple
  <2> HIDE DEF ix
  <2>7. Recognised(ix) /\ ix # Dropped
    BY <1>2, <1>5, <2>4 DEF Recognised, TypesOf, Dropped, Nobody
  <2>8. /\ Parsed(ix).type = SystemTypes[ui.kind]
        /\ Parsed(ui.ix).type = SystemTypes[ui.kind]
        /\ Parsed(ix).who = Consents(ix, SystemIndexes[ui.kind].who)
        /\ Parsed(ui.ix).who = Consents(ui.ix, SystemIndexes[ui.kind].who)
        /\ Parsed(ix).to = At(ix.accounts, SystemIndexes[ui.kind].to)
        /\ Parsed(ui.ix).to = At(ui.ix.accounts, SystemIndexes[ui.kind].to)
    BY <1>1, <1>5, <2>4 DEF Parsed, SystemParsed
  <2>9. ~Malformed(ix) => SystemIndexes[ui.kind].needs <= Len(ix.accounts)
    BY <2>4, <2>6, <2>7 DEF Malformed, LayoutOf
  <2> QED
    BY <1>1, <1>5, <2>3, <2>4, <2>5, <2>7, <2>8, <2>9 DEF JudgedAs
<1>6. CASE ui.form = "parsed" /\ ui.program \in {"spl", "spl2022"}
  <2> DEFINE fields == TokenFields[ui.kind]
             whole == ui.kind \notin TagOnly \/ ui.kind \in CompleteAsTag
             ix == Rebuilt(ui, fields, whole)
  <2>1. ui.kind \in DOMAIN SplTypes /\ ui.kind \notin TagOnly \ CompleteAsTag
    BY <1>2, <1>6
  <2>2. /\ ui.kind \in DOMAIN TokenFields
        /\ Matches(fields, AccountsOf(ui.program)[ui.kind], TokenIndexes[ui.kind])
    BY <1>6, <2>1, TokenMatches DEF AccountsOf
  <2> HIDE DEF fields
  <2>3. FieldsPresent(ui, fields, keys)
    BY <1>6, <2>2, RebuiltIs
  <2>4. Reconstruct(ui, keys) = ix
    BY <1>6, <2>2, <2>3 DEF Reconstruct, ReconstructToken, fields
  <2>5. ix.program = ui.program /\ ix.kind = ui.kind /\ ix.whole
        /\ ix.amount = ui.amount
    BY <2>1 DEF Rebuilt
  <2>6. TokenIndexes[ui.kind].needs <= Len(ix.accounts) =>
          /\ Consents(ix, TokenIndexes[ui.kind].who) = Consents(ui.ix, TokenIndexes[ui.kind].who)
          /\ At(ix.accounts, TokenIndexes[ui.kind].to) =
               At(ui.ix.accounts, TokenIndexes[ui.kind].to)
    <3> DEFINE layout == TokenIndexes[ui.kind]
    <3> HIDE DEF layout
    <3>1. \A w : layout.needs <= Len(Rebuilt(ui, fields, w).accounts) =>
            /\ Consents(Rebuilt(ui, fields, w), layout.who) = Consents(ui.ix, layout.who)
            /\ At(Rebuilt(ui, fields, w).accounts, layout.to) = At(ui.ix.accounts, layout.to)
      <4>1. Matches(fields, AccountsOf(ui.program)[ui.kind], layout)
        BY <2>2, Zenon DEF layout
      <4>2. ToSet(ui.ix.accounts) \subseteq keys
        OBVIOUS
      <4> QED
        BY <1>6, <4>1, <4>2, RebuiltIs
    <3> QED
      BY <3>1, Zenon DEF layout
  <2>7. Len(ix.accounts) \in Nat /\ TokenIndexes[ui.kind].needs \in Nat
    BY <2>2 DEF Rebuilt, Matches, Tuple
  <2> HIDE DEF ix
  <2>8. Recognised(ix) /\ ix # Dropped
    BY <1>6, <2>1, <2>5 DEF Recognised, TypesOf, Token2022Types, Dropped, Nobody
  <2>9. /\ Parsed(ix).type = SplTypes[ui.kind]
        /\ Parsed(ui.ix).type = SplTypes[ui.kind]
        /\ Parsed(ix).who = Consents(ix, TokenIndexes[ui.kind].who)
        /\ Parsed(ui.ix).who = Consents(ui.ix, TokenIndexes[ui.kind].who)
        /\ Parsed(ix).to = At(ix.accounts, TokenIndexes[ui.kind].to)
        /\ Parsed(ui.ix).to = At(ui.ix.accounts, TokenIndexes[ui.kind].to)
    BY <1>1, <1>6, <2>1, <2>5
       DEF Parsed, TokenParsed, Authorities, TagOnly, CompleteAsTag
  <2>10. ~Malformed(ix) => TokenIndexes[ui.kind].needs <= Len(ix.accounts)
    BY <1>6, <2>5, <2>7, <2>8 DEF Malformed, LayoutOf
  <2> QED
    BY <1>1, <2>4, <2>5, <2>6, <2>8, <2>9, <2>10 DEF JudgedAs
<1> QED
  BY <1>2, <1>3, <1>4, <1>5, <1>6 DEF Truthful

-----------------------------------------------------------------------------
(***************************************************************************)
(* The inner instructions together: what was rebuilt of them moves as much *)
(* as they do.                                                             *)
(***************************************************************************)

(* A list of at most one member is a sequence of what it may hold.         *)
LEMMA AtMostOne ==
  ASSUME NEW T, NEW x \in T, NEW s, s = <<>> \/ s = <<x>>
  PROVE  s \in Seq(T)
<1>1. CASE s = <<>>
  BY <1>1
<1>2. CASE s = <<x>>
  BY <1>2
<1> QED
  BY <1>1, <1>2

\* What is rebuilt of each report: one instruction, or none.
Rebuildings(uis, keys) ==
  [i \in DOMAIN uis |-> IF Reconstruct(uis[i], keys) = Dropped THEN <<>>
                        ELSE <<Reconstruct(uis[i], keys)>>]

\* The instructions rebuilt.
RebuiltOf(uis, keys) == {Reconstruct(uis[i], keys) : i \in DOMAIN uis} \ {Dropped}

(* What is rebuilt of the reports makes the inner instructions.            *)
LEMMA RebuildingsAre ==
  ASSUME NEW S, NEW uis \in Seq(S), NEW keys
  PROVE  /\ InnerInstructions(uis, keys) = FlattenSeq(Rebuildings(uis, keys))
         /\ Rebuildings(uis, keys) \in Seq(Seq(RebuiltOf(uis, keys)))
         /\ Len(Rebuildings(uis, keys)) = Len(uis)
<1> DEFINE Kept(ix) == IF ix = Dropped THEN <<>> ELSE <<ix>>
           kept == [j \in DOMAIN uis |-> Kept(Reconstruct(uis[j], keys))]
           T == RebuiltOf(uis, keys)
<1>1. InnerInstructions(uis, keys) = FlattenSeq(kept)
  BY Zenon DEF InnerInstructions
<1>2. kept = Rebuildings(uis, keys)
  BY Zenon DEF Rebuildings
<1>3. DOMAIN kept = 1..Len(uis) /\ DOMAIN uis = 1..Len(uis) /\ Len(uis) \in Nat
  OBVIOUS
<1>4. ASSUME NEW i \in DOMAIN uis PROVE kept[i] \in Seq(T)
  <2> DEFINE ix == Reconstruct(uis[i], keys)
  <2>1. kept[i] = IF ix = Dropped THEN <<>> ELSE <<ix>>
    OBVIOUS
  <2>2. ix # Dropped => ix \in T
    BY DEF RebuiltOf
  <2> HIDE DEF kept, T, ix
  <2>3. <<>> \in Seq(T)
    OBVIOUS
  <2> QED
    BY <2>1, <2>2, <2>3, AtMostOne
<1>5. kept = [i \in 1..Len(uis) |-> kept[i]]
  BY <1>3
<1> HIDE DEF kept, T
<1>6. kept \in Seq(Seq(T))
  BY <1>3, <1>4, <1>5
<1>7. Len(kept) = Len(uis)
  BY <1>3, <1>6
<1> QED
  BY <1>1, <1>2, <1>6, <1>7 DEF T

(* Every inner instruction that could be rebuilt is among those judged.    *)
LEMMA InnerKept ==
  ASSUME NEW S, NEW uis \in Seq(S), NEW keys
  PROVE  /\ InnerInstructions(uis, keys) \in Seq(RebuiltOf(uis, keys))
         /\ \A i \in DOMAIN uis : Reconstruct(uis[i], keys) # Dropped =>
              \E k \in DOMAIN InnerInstructions(uis, keys) :
                InnerInstructions(uis, keys)[k] = Reconstruct(uis[i], keys)
<1> DEFINE kept == Rebuildings(uis, keys)
<1>1. InnerInstructions(uis, keys) = FlattenSeq(kept) /\ kept \in Seq(Seq(RebuiltOf(uis, keys)))
  BY RebuildingsAre
<1>2. \A i \in DOMAIN uis : i \in DOMAIN kept /\
        (Reconstruct(uis[i], keys) # Dropped => kept[i] = <<Reconstruct(uis[i], keys)>>)
  BY DEF Rebuildings
<1> HIDE DEF kept
<1>3. ASSUME NEW i \in DOMAIN uis, Reconstruct(uis[i], keys) # Dropped
      PROVE  \E k \in DOMAIN FlattenSeq(kept) : FlattenSeq(kept)[k] = Reconstruct(uis[i], keys)
  <2>1. i \in DOMAIN kept /\ 1 \in DOMAIN kept[i] /\ kept[i][1] = Reconstruct(uis[i], keys)
    BY <1>2, <1>3
  <2>2. PICK k \in DOMAIN FlattenSeq(kept) : FlattenSeq(kept)[k] = kept[i][1]
    BY <1>1, <2>1, FlattenKeeps
  <2> QED
    BY <2>1, <2>2
<1>4. FlattenSeq(kept) \in Seq(RebuiltOf(uis, keys))
  BY <1>1, FlattenKeeps
<1> QED
  BY <1>1, <1>3, <1>4

(* What is rebuilt has the amount of what ran.                             *)
LEMMA RebuiltAmounts ==
  ASSUME NEW uis, NEW keys,
         \A i \in DOMAIN uis : Truthful(uis[i]) /\ WellFormed(uis[i].ix)
  PROVE  Amounts(RebuiltOf(uis, keys))
<1> SUFFICES ASSUME NEW i \in DOMAIN uis, Reconstruct(uis[i], keys) # Dropped
             PROVE  Reconstruct(uis[i], keys).amount \in 0..MaxU64
  BY DEF Amounts, RebuiltOf
<1> DEFINE ui == uis[i]
           ix == Reconstruct(ui, keys)
<1>1. /\ ui.amount = ui.ix.amount /\ ui.ix.amount \in 0..MaxU64 /\ 0 \in 0..MaxU64
      /\ "amount" \in DOMAIN ui.ix
  BY MaxU64Assumption DEF Truthful, Report, WellFormed
<1> HIDE DEF ui
<1>2. ix # Dropped
  BY DEF ui
<1> DEFINE Known(k) == k \in keys
           part == [ui.ix EXCEPT !.accounts = SelectSeq(@, Known)]
<1>3. part.amount = ui.ix.amount
  BY <1>1
<1>4. Stub(ui).amount = 0 /\ \A fields, whole : Rebuilt(ui, fields, whole).amount = ui.amount
  BY DEF Stub, Rebuilt
<1> HIDE DEF part
<1>5. ix = ui.ix \/ ix = part \/ ix = Stub(ui) \/ \E fields, whole : ix = Rebuilt(ui, fields, whole)
  <2>1. \/ ix = ui.ix \/ ix = Dropped \/ ix = part \/ ix = Stub(ui)
        \/ ix = ReconstructSystem(ui, keys) \/ ix = ReconstructToken(ui, keys)
    BY DEF Reconstruct, part
  <2> HIDE DEF ix
  <2>2. ix = ReconstructSystem(ui, keys) =>
          ix = Dropped \/ ix = Stub(ui) \/ \E fields, whole : ix = Rebuilt(ui, fields, whole)
    BY Zenon DEF ReconstructSystem
  <2>3. ix = ReconstructToken(ui, keys) =>
          ix = Dropped \/ ix = Stub(ui) \/ \E fields, whole : ix = Rebuilt(ui, fields, whole)
    BY Zenon DEF ReconstructToken
  <2> QED
    BY <1>2, <2>1, <2>2, <2>3
<1> HIDE DEF ix
<1>6. ix.amount \in 0..MaxU64
  BY <1>1, <1>3, <1>4, <1>5
<1> QED
  BY <1>6 DEF ix, ui

(* Only the system program moves lamports.                                 *)
LEMMA NetIsSystem ==
  ASSUME NEW payer, NEW ix, ix.program # "system" \/ ~Recognised(ix)
  PROVE  Net(payer, ix) = 0
BY DEF Net, ParsedAs

(* A report is rebuilt, unless the transaction is refused, into an         *)
(* instruction that moves as much.                                         *)
LEMMA RebuiltMoves ==
  ASSUME NEW payer, NEW ui, Truthful(ui), WellFormed(ui.ix),
         NEW keys, {ui.program} \cup ToSet(ui.ix.accounts) \subseteq keys
  PROVE  LET ix == Reconstruct(ui, keys)
         IN  IF ix = Dropped THEN Net(payer, ui.ix) = 0
             ELSE ~Malformed(ix) => Net(payer, ix) = Net(payer, ui.ix)
<1> DEFINE ix == Reconstruct(ui, keys)
<1>1. /\ ui.program = ui.ix.program /\ ui.kind = ui.ix.kind
      /\ ui.form \in {"parsed", "partial", "compiled"}
      /\ ui.form = "partial" => ui.program # "system"
      /\ "program" \in DOMAIN ui.ix
  BY DEF Truthful, Report, WellFormed, NativePrograms
<1>2. CASE ui.program # "system"
  <2>1. ix.program # "system"
    <3> DEFINE Known(k) == k \in keys
               part == [ui.ix EXCEPT !.accounts = SelectSeq(@, Known)]
    <3>1. part.program = ui.ix.program
      BY <1>1
    <3> HIDE DEF part
    <3>2. Dropped.program # "system" /\ Stub(ui).program # "system"
      BY <1>2 DEF Dropped, Stub, Nobody
    <3>3. \A fields, whole : Rebuilt(ui, fields, whole).program # "system"
      BY <1>2 DEF Rebuilt
    <3>4. ReconstructToken(ui, keys).program # "system"
      BY <3>2, <3>3, Zenon DEF ReconstructToken
    <3> QED
      BY <1>1, <1>2, <3>1, <3>2, <3>4 DEF Reconstruct, part
  <2> HIDE DEF ix
  <2>2. Net(payer, ui.ix) = 0 /\ Net(payer, ix) = 0
    BY <1>1, <1>2, <2>1, NetIsSystem
  <2> QED
    BY <2>2 DEF ix
<1>3. CASE ui.form = "compiled"
  <2>1. ix = ui.ix
    BY <1>3, Zenon DEF Reconstruct
  <2>2. ui.ix # Dropped
    BY DEF WellFormed, Dropped
  <2> QED
    BY <2>1, <2>2
<1>4. ASSUME ui.program = "system", ui.form = "parsed", ui.kind \in DOMAIN SystemTypes
      PROVE  IF ix = Dropped THEN Net(payer, ui.ix) = 0
             ELSE ~Malformed(ix) => Net(payer, ix) = Net(payer, ui.ix)
  <2>1. Recognised(ui.ix)
    BY <1>1, <1>4 DEF Truthful, Recognised, TypesOf
  <2>2. ui.kind \notin TagOnly
    BY <1>4 DEF SystemTypes, TagOnly
  <2>3. JudgedAs(ix, ui.ix)
    BY <2>1, <2>2, InnerIsJudged
  <2> HIDE DEF ix
  <2> SUFFICES ASSUME ~Malformed(ix) PROVE Net(payer, ix) = Net(payer, ui.ix)
    BY <2>3 DEF JudgedAs
  <2>4. /\ ix.program = ui.ix.program /\ ix.amount = ui.ix.amount /\ Recognised(ix)
        /\ Parsed(ix).type = Parsed(ui.ix).type /\ Parsed(ix).who = Parsed(ui.ix).who
        /\ Parsed(ix).to = Parsed(ui.ix).to
    BY <2>3 DEF JudgedAs
  <2>5. \A type : ParsedAs(ix, "system", type) <=> ParsedAs(ui.ix, "system", type)
    BY <2>1, <2>4 DEF ParsedAs
  <2> QED
    BY <2>4, <2>5, Zenon DEF Net
<1>5. ASSUME ui.program = "system", ui.form = "parsed", ui.kind \notin DOMAIN SystemTypes
      PROVE  IF ix = Dropped THEN Net(payer, ui.ix) = 0
             ELSE ~Malformed(ix) => Net(payer, ix) = Net(payer, ui.ix)
  <2>1. ui.kind \notin DOMAIN SystemFields
    <3>1. DOMAIN SystemFields = DOMAIN SystemMoneyFields \cup DOMAIN SystemOwnerFields
      BY OverIs, Zenon DEF SystemFields
    <3> QED
      BY <1>5, <3>1 DEF SystemMoneyFields, SystemOwnerFields, SystemTypes
  <2>2. ix = Stub(ui)
    BY <1>5, <2>1 DEF Reconstruct, ReconstructSystem
  <2>3. ~Recognised(Stub(ui)) /\ ~Recognised(ui.ix)
    BY <1>1, <1>5 DEF Recognised, Stub, TypesOf
  <2> QED
    BY <2>2, <2>3, NetIsSystem
<1> QED
  BY <1>1, <1>2, <1>3, <1>4, <1>5

(* What the reports of inner instructions were rebuilt into moves what     *)
(* those instructions do.                                                  *)
LEMMA InnerMoves ==
  ASSUME NEW payer, NEW S, NEW uis \in Seq(S), NEW keys,
         \A i \in DOMAIN uis :
           /\ Truthful(uis[i]) /\ WellFormed(uis[i].ix)
           /\ {uis[i].program} \cup ToSet(uis[i].ix.accounts) \subseteq keys,
         \A k \in DOMAIN InnerInstructions(uis, keys) :
           ~Malformed(InnerInstructions(uis, keys)[k])
  PROVE  NetLamports(payer, InnerInstructions(uis, keys)) =
           NetLamports(payer, [i \in DOMAIN uis |-> uis[i].ix])
<1> DEFINE lists == Rebuildings(uis, keys)
           T == RebuiltOf(uis, keys)
           ran == [i \in DOMAIN uis |-> uis[i].ix]
           R == {uis[i].ix : i \in DOMAIN uis}
<1>1. /\ InnerInstructions(uis, keys) = FlattenSeq(lists)
      /\ lists \in Seq(Seq(T)) /\ Len(lists) = Len(uis)
  BY RebuildingsAre
<1>2. Amounts(T)
  BY RebuiltAmounts
<1>3. Amounts(R)
  BY DEF Amounts, WellFormed
<1>4. DOMAIN uis = 1..Len(uis) /\ Len(uis) \in Nat
  OBVIOUS
<1>5. ran \in Seq(R) /\ Len(ran) = Len(uis)
  BY <1>4
<1>6. ASSUME NEW i \in DOMAIN uis PROVE NetLamports(payer, lists[i]) = Net(payer, uis[i].ix)
  <2> DEFINE ix == Reconstruct(uis[i], keys)
  <2>1. lists[i] = IF ix = Dropped THEN <<>> ELSE <<ix>>
    BY DEF Rebuildings
  <2>2. IF ix = Dropped THEN Net(payer, uis[i].ix) = 0
        ELSE ~Malformed(ix) => Net(payer, ix) = Net(payer, uis[i].ix)
    BY RebuiltMoves
  <2>3. ASSUME ix # Dropped PROVE ~Malformed(ix)
    <3>1. PICK k \in DOMAIN InnerInstructions(uis, keys) : InnerInstructions(uis, keys)[k] = ix
      BY <2>3, InnerKept
    <3> QED
      BY <3>1
  <2>4. ix # Dropped => ix \in T
    BY DEF RebuiltOf
  <2> HIDE DEF ix, T, lists
  <2>5. NetLamports(payer, <<>>) = 0 /\ \A x \in T : NetLamports(payer, <<x>>) = Net(payer, x)
    BY <1>2, NetOfOne
  <2> QED
    BY <2>1, <2>2, <2>3, <2>4, <2>5
<1>7. \A i \in 1..Len(ran) : NetLamports(payer, lists[i]) = Net(payer, ran[i])
  BY <1>4, <1>5, <1>6
<1> HIDE DEF lists, T, ran, R
<1>8. NetLamports(payer, FlattenSeq(lists)) = NetLamports(payer, ran)
  BY <1>1, <1>2, <1>3, <1>5, <1>7, NetOfAll
<1> QED
  BY <1>1, <1>8 DEF ran

-----------------------------------------------------------------------------
(***************************************************************************)
(* The invariant: requests have their types, and a request beyond a stage  *)
(* is what the stage has let through.  What was permitted when it was      *)
(* validated must still be permitted when it is signed, though tables were *)
(* extended, prices moved and accounts changed in between.                 *)
(***************************************************************************)

\* A request's transaction, with the lookup tables of the moment.
TxOf(r, tables) ==
  IF Cases[r.name].method = "transferTransaction"
  THEN KoraBuilt(r.payer, Cases[r.name].build, r.ata)
  ELSE FromTransaction(Cases[r.name].tx, tables, Cases[r.name].inner)

Permits(c, payer, rtx) ==
  /\ ValidFeePayerUse(c, payer, rtx) /\ ~ParseFails(rtx.instructions, NativePrograms)
  /\ SystemOutflow(payer, rtx.instructions) \in 0..c.maxLamports

\* Beyond resolution, and beyond validation where there is one.
ResolvedStages == {"validate", "price", "pay", "sign", "signed"}
IsJudged(r) == \/ r.stage \in {"pay", "sign", "signed"}
               \/ r.stage = "price" /\ Signs(Cases[r.name])

\* What must be covered: the cost, under strict pricing, or the fee above it.
Due(c, fee) == IF c.model = "strict" THEN Components(fee.parts) ELSE fee.total

\* The fee of a transaction covers what the payer spends, and once a payment is
\* verified it covers the fee.
Solid(r, c, tables) ==
  /\ Due(c, r.fee) \in Nat
  /\ BaseFee + SystemOutflow(r.payer, TxOf(r, tables).instructions) <= Due(c, r.fee)
  /\ r.stage # "pay" /\ r.fee.total > 0 =>
       Due(c, r.fee) <= r.fee.total /\ r.fee.total <= r.paid

\* From when a fee was computed for it.
IsPriced(r, c) ==
  /\ r.stage \in {"pay", "sign", "signed"} /\ Signs(Cases[r.name])
  /\ c.model \in {"margin", "strict"}

Sound(r, c, tables) ==
  /\ r.stage # "idle" => r.name \in DOMAIN Cases
  /\ r.stage \in ResolvedStages /\ Cases[r.name].method # "transferTransaction" =>
       CanResolve(Cases[r.name].tx, tables)
  /\ IsJudged(r) => Permits(c, r.payer, TxOf(r, tables))
  /\ IsPriced(r, c) => Solid(r, c, tables)

WorldTyped ==
  /\ scenario \in DOMAIN Scenarios
  /\ ledger \in [DOMAIN History -> Nat] /\ oldest \in [DOMAIN History -> Nat]
  /\ \A k \in DOMAIN History : 1 <= oldest[k] /\ oldest[k] <= ledger[k]
                               /\ ledger[k] <= Len(History[k])
  /\ price \in Prices
  /\ arrivals \in 0..bounds.arrivals /\ moves \in 0..bounds.moves

RequestsSound ==
  /\ req \in [Slots -> RequestType]
  /\ \A s \in Slots : Sound(req[s], conf, TablesIn(Actual))

RequestInv == WorldTyped /\ RequestsSound

-----------------------------------------------------------------------------
(* Sums are u64, or refused.                                               *)
LEMMA CheckedIs ==
  ASSUME NEW n PROVE Checked(n) = FAILED \/ Checked(n) \in 0..MaxU64
BY DEF Checked

FeeType == [total : 0..MaxU64, parts : [DOMAIN NoFee -> 0..MaxU64]]

\* Some list, of whatever it holds.
Listed(a) == \E T : a \in Seq(T)

(* What is asked for a transaction is a number of lamports, and so are its *)
(* parts: none of them was refused.                                        *)
LEMMA FeeTyped ==
  ASSUME NEW c, c.model \in {"free", "fixed", "strict", "margin"}, NEW payer, NEW rtx,
         Listed(rtx.instructions), NEW view, view.baseFee \in 0..MaxU64, NEW order,
         KoraFee(c, payer, rtx, view, order).total # FAILED
  PROVE  KoraFee(c, payer, rtx, view, order) \in FeeType
<1> DEFINE outflow == FeePayerOutflow(payer, rtx.instructions, view, order)
           analysis == PaymentAnalysis(c, TokenTransfers(rtx.instructions), view)
           parts == FeeComponents(c, payer, rtx, view, order)
           fee == KoraFee(c, payer, rtx, view, order)
<1>1. fee = ByModel(c, parts, view)
  BY Zenon DEF KoraFee
<1>2. parts = FeeOf(c, payer, rtx, view, outflow, analysis)
  BY Zenon DEF FeeComponents
<1>3. outflow = FAILED \/ outflow \in 0..MaxU64
  BY CheckedIs, Zenon DEF FeePayerOutflow, CheckedAdd
<1>4. analysis.withheld = FAILED \/ analysis.withheld \in 0..MaxU64
  <2> DEFINE transfers == TokenTransfers(rtx.instructions)
             withheld == [i \in DOMAIN transfers |->
                            IF IsPayment(transfers[i], c.payTo, view.seen)
                            THEN FeeWithheld(transfers[i], view) ELSE 0]
  <2>1. analysis.withheld = FAILED \/ analysis.withheld = CheckedSum(withheld)
    BY DEF PaymentAnalysis
  <2>2. DOMAIN withheld = DOMAIN transfers
    OBVIOUS
  <2> HIDE DEF analysis, withheld
  <2>3. CheckedSum(withheld) \in Totals
    BY <2>2, TransfersAdded DEF Listed
  <2> QED
    BY <2>1, <2>3 DEF Totals
<1> HIDE DEF outflow, analysis, parts, fee
<1>5. ASSUME Components(parts) # FAILED PROVE parts \in [DOMAIN NoFee -> 0..MaxU64]
  <2>1. parts.outflow # FAILED /\ parts.withheld # FAILED
    BY <1>5 DEF Components
  <2>2. {0, 1, 2} \subseteq 0..MaxU64
    BY MaxU64Assumption
  <2> QED
    BY <1>2, <1>3, <1>4, <2>1, <2>2
       DEF FeeOf, NoFee, LamportsPerSignature, PaymentInstructionLamports
<1>6. NoFee \in [DOMAIN NoFee -> 0..MaxU64] /\ 0 \in 0..MaxU64
  BY MaxU64Assumption DEF NoFee
<1>7. WithFixed(c, view) = FAILED \/ WithFixed(c, view) \in 0..MaxU64
  BY CheckedIs, Zenon DEF WithFixed, TokenValue
<1>8. \A n : WithMargin(n, c.margin) = FAILED
               \/ (WithMargin(n, c.margin) \in 0..MaxU64 /\ n # FAILED)
  BY CheckedIs, Zenon DEF WithMargin
<1>9. fee.total # FAILED
  BY DEF fee
<1>10. fee \in FeeType
  <2>1. CASE c.model = "free"
    BY <1>1, <1>6, <2>1 DEF ByModel, FeeType
  <2>2. CASE c.model = "fixed"
    BY <1>1, <1>6, <1>7, <1>9, <2>2 DEF ByModel, FeeType
  <2>3. CASE c.model = "strict"
    BY <1>1, <1>5, <1>7, <1>9, <2>3 DEF ByModel, FeeType
  <2>4. CASE c.model = "margin"
    BY <1>1, <1>5, <1>8, <1>9, <2>4 DEF ByModel, FeeType
  <2> QED
    BY <2>1, <2>2, <2>3, <2>4
<1> QED
  BY <1>10 DEF fee

(* Whatever a request is about, its instructions have u64 amounts.         *)
LEMMA InstructionsTyped ==
  ASSUME NEW r, r.name \in DOMAIN Cases, NEW tables
  PROVE  \E T : Amounts(T) /\ TxOf(r, tables).instructions \in Seq(T)
<1> DEFINE case == Cases[r.name]
           rtx == TxOf(r, tables)
<1>1. 0 \in 0..MaxU64
  BY MaxU64Assumption
<1>2. CASE case.method = "transferTransaction"
  <2> DEFINE b == case.build
             T == {SolTransfer(b), TokenTransfer(b), CreateTarget(r.payer, b)}
  <2>1. b.amount \in 0..MaxU64
    BY AmountsAssumption
  <2> HIDE DEF b
  <2>2. Amounts(T)
    BY <1>1, <2>1 DEF Amounts, SolTransfer, TokenTransfer, CreateTarget
  <2>3. /\ <<SolTransfer(b)>> \in Seq(T) /\ <<TokenTransfer(b)>> \in Seq(T)
        /\ <<CreateTarget(r.payer, b), TokenTransfer(b)>> \in Seq(T)
    <3>1. {SolTransfer(b), TokenTransfer(b), CreateTarget(r.payer, b)} \subseteq T
      OBVIOUS
    <3> HIDE DEF T
    <3>2. \A x, y \in T : <<x>> \in Seq(T) /\ <<x, y>> \in Seq(T)
      OBVIOUS
    <3> QED
      BY <3>1, <3>2, Zenon
  <2>4. rtx = KoraBuilt(r.payer, b, r.ata)
    BY <1>2, Zenon DEF TxOf, b
  <2> HIDE DEF T
  <2>5. rtx.instructions \in Seq(T)
    BY <2>3, <2>4 DEF KoraBuilt
  <2> QED
    BY <2>2, <2>5
<1>3. CASE case.method # "transferTransaction"
  <2> DEFINE keys == AllAccountKeys(case.tx, tables)
             outer == Uncompile(case.tx.outer, keys)
             T == {outer[i] : i \in DOMAIN case.tx.outer}
             R == RebuiltOf(case.inner, ToSet(keys))
  <2>1. rtx.instructions = outer \o InnerInstructions(case.inner, ToSet(keys))
    BY <1>3, Zenon DEF TxOf, FromTransaction
  <2>2. /\ case.tx.outer \in Seq(ToSet(case.tx.outer))
        /\ case.inner \in Seq(ToSet(case.inner))
        /\ \A i \in DOMAIN case.inner : Truthful(case.inner[i])
    BY NodeAssumption
  <2>3. /\ \A i \in DOMAIN case.tx.outer : WellFormed(case.tx.outer[i])
        /\ \A i \in DOMAIN case.inner : WellFormed(case.inner[i].ix)
    BY AmountsAssumption
  <2>4. Amounts(R)
    BY <2>2, <2>3, RebuiltAmounts
  <2>5. Amounts(T)
    BY <2>3 DEF Amounts, Uncompile, WellFormed
  <2>6. outer \in Seq(T)
    <3>1. DOMAIN outer = DOMAIN case.tx.outer /\ outer = [i \in DOMAIN case.tx.outer |-> outer[i]]
      BY DEF Uncompile
    <3>2. DOMAIN case.tx.outer = 1..Len(case.tx.outer) /\ Len(case.tx.outer) \in Nat
      BY <2>2
    <3> HIDE DEF outer
    <3> QED
      BY <3>1, <3>2
  <2>7. InnerInstructions(case.inner, ToSet(keys)) \in Seq(R)
    BY <2>2, InnerKept
  <2> HIDE DEF outer, T, R
  <2>8. outer \o InnerInstructions(case.inner, ToSet(keys)) \in Seq(T \cup R)
    BY <2>6, <2>7
  <2>9. Amounts(T \cup R)
    BY <2>4, <2>5 DEF Amounts
  <2> QED
    BY <2>1, <2>8, <2>9
<1> QED
  BY <1>2, <1>3

(* A margin is never less than what it is put on.                          *)
LEMMA MarginCovers ==
  ASSUME NEW lamports \in Nat, NEW tenths \in Nat, WithMargin(lamports, tenths) # FAILED
  PROVE  WithMargin(lamports, tenths) \in Nat /\ lamports <= WithMargin(lamports, tenths)
<1> DEFINE more == lamports * tenths
           asked == CeilDiv(lamports * (10 + tenths), 10)
<1>1. more \in Nat
  OBVIOUS
<1>2. lamports * (10 + tenths) = 10 * lamports + more
  OBVIOUS
<1> HIDE DEF more
<1>3. asked \in Nat /\ lamports <= asked
  BY <1>1, <1>2 DEF CeilDiv
<1>4. lamports # FAILED
  BY DEF FAILED
<1>5. WithMargin(lamports, tenths) = Checked(asked)
  BY <1>4, Zenon DEF WithMargin
<1> HIDE DEF asked
<1>6. Checked(asked) = asked
  BY <1>5, Zenon DEF Checked
<1> QED
  BY <1>3, <1>5, <1>6

(* Under margin and strict pricing the fee covers the base fee and what    *)
(* the payer gives away (fee.rs:278, price.rs:55).                         *)
LEMMA FeeCovers ==
  ASSUME NEW c, c.model \in {"strict", "margin"}, c.margin \in Nat, NEW payer,
         NEW rtx, NEW T, Amounts(T), rtx.instructions \in Seq(T),
         NEW view, view.baseFee = BaseFee, NEW order \in Orders,
         KoraFee(c, payer, rtx, view, order).total # FAILED
  PROVE  LET fee == KoraFee(c, payer, rtx, view, order)
         IN  /\ Due(c, fee) \in Nat
             /\ BaseFee + SystemOutflow(payer, rtx.instructions) <= Due(c, fee)
<1> DEFINE outflow == FeePayerOutflow(payer, rtx.instructions, view, order)
           analysis == PaymentAnalysis(c, TokenTransfers(rtx.instructions), view)
           parts == FeeComponents(c, payer, rtx, view, order)
           fee == KoraFee(c, payer, rtx, view, order)
           moved == SystemOutflow(payer, rtx.instructions)
<1>1. fee = ByModel(c, parts, view)
  BY Zenon DEF KoraFee
<1>2. parts = FeeOf(c, payer, rtx, view, outflow, analysis)
  BY Zenon DEF FeeComponents
<1>3. view.baseFee \in 0..MaxU64 /\ fee \in FeeType
  <2>1. view.baseFee \in 0..MaxU64
    BY PaymasterAssumption
  <2>2. fee \in FeeType
    <3>1. Listed(rtx.instructions)
      BY DEF Listed
    <3> QED
      BY <2>1, <3>1, FeeTyped
  <2> QED
    BY <2>1, <2>2
<1>4. outflow # FAILED => outflow \in Nat /\ moved \in 0..outflow
  BY AmountsOf, OutflowCovers
<1>5. fee.total # FAILED
  OBVIOUS
<1> HIDE DEF outflow, analysis, parts, fee, moved
<1>6. /\ fee.parts = parts /\ Components(parts) # FAILED
      /\ c.model = "margin" => fee.total = WithMargin(Components(parts), c.margin)
  <2>1. CASE c.model = "strict"
    BY <1>1, <1>5, <2>1 DEF ByModel
  <2>2. CASE c.model = "margin"
    BY <1>1, <1>5, <2>2 DEF ByModel, WithMargin
  <2> QED
    BY <2>1, <2>2
<1>7. /\ parts.base = BaseFee /\ parts.outflow = outflow
      /\ \A x \in DOMAIN NoFee : parts[x] \in Nat
  <2>1. fee.parts \in [DOMAIN NoFee -> 0..MaxU64]
    BY <1>3 DEF FeeType
  <2> QED
    BY <1>2, <1>6, <2>1, MaxU64Assumption DEF FeeOf
<1>8. Components(parts) \in Nat /\ BaseFee + moved <= Components(parts)
  <2> DEFINE sum == parts.base + parts.signature + parts.outflow + parts.payment
                      + parts.withheld
  <2>1. /\ parts.base \in Nat /\ parts.signature \in Nat /\ parts.outflow \in Nat
        /\ parts.payment \in Nat /\ parts.withheld \in Nat
    BY <1>7 DEF NoFee
  <2>2. sum \in Nat /\ parts.base + parts.outflow <= sum
    <3>1. \A a, b, d, e, f \in Nat : a + b + d + e + f \in Nat /\ a + d <= a + b + d + e + f
      OBVIOUS
    <3> QED
      BY <2>1, <3>1, Zenon
  <2>3. Components(parts) = sum
    <3>1. Components(parts) = Checked(sum)
      BY <1>6, Zenon DEF Components
    <3> HIDE DEF sum
    <3> QED
      BY <1>6, <3>1, Zenon DEF Checked
  <2>4. outflow # FAILED
    BY <1>7, <2>1 DEF FAILED
  <2> HIDE DEF sum
  <2> QED
    BY <1>4, <1>7, <2>1, <2>2, <2>3, <2>4
<1>9. Due(c, fee) \in Nat /\ Components(parts) <= Due(c, fee)
  <2>1. CASE c.model = "strict"
    BY <1>6, <1>8, <2>1 DEF Due
  <2>2. CASE c.model = "margin"
    <3>1. fee.total = WithMargin(Components(parts), c.margin)
      BY <1>6, <2>2
    <3>2. WithMargin(Components(parts), c.margin) # FAILED
      BY <1>5, <3>1
    <3>3. Due(c, fee) = fee.total
      BY <2>2 DEF Due
    <3> QED
      BY <1>8, <3>1, <3>2, <3>3, MarginCovers
  <2> QED
    BY <2>1, <2>2
<1>10. BaseFee + moved \in Int
  <2>1. outflow \in Nat
    BY <1>7 DEF NoFee
  <2> QED
    BY <1>3, <1>4, <2>1, MaxU64Assumption DEF FAILED
<1>11. BaseFee + moved <= Due(c, fee)
  BY <1>8, <1>9, <1>10
<1> QED
  BY <1>9, <1>11 DEF fee, moved

-----------------------------------------------------------------------------
(***************************************************************************)
(* What a step of a request keeps.                                         *)
(***************************************************************************)

(* A request moves on while the world stays as it is.                      *)
LEMMA RequestMoves ==
  ASSUME RequestInv, UNCHANGED <<scenario, world>>,
         arrivals' \in 0..bounds.arrivals,
         NEW s \in Slots, NEW next \in RequestType, req' = [req EXCEPT ![s] = next],
         Sound(next, conf, TablesIn(Actual))
  PROVE  RequestInv'
<1>1. /\ bounds' = bounds /\ conf' = conf /\ TablesIn(Actual)' = TablesIn(Actual)
      /\ ledger' = ledger
  BY DEF world, bounds, conf, Actual
<1>2. WorldTyped'
  BY <1>1 DEF RequestInv, WorldTyped, world
<1>3. req' \in [Slots -> RequestType]
  BY DEF RequestInv, RequestsSound
<1>4. ASSUME NEW t \in Slots PROVE Sound(req'[t], conf, TablesIn(Actual))
  <2>1. t # s => req'[t] = req[t]
    BY DEF RequestInv, RequestsSound
  <2>2. t = s => req'[t] = next
    BY DEF RequestInv, RequestsSound
  <2> QED
    BY <2>1, <2>2 DEF RequestInv, RequestsSound
<1> QED
  BY <1>1, <1>2, <1>3, <1>4, Zenon DEF RequestInv, RequestsSound

(* An empty slot.                                                          *)
LEMMA IdleSound ==
  ASSUME NEW c, NEW tables
  PROVE  Idle \in RequestType /\ Sound(Idle, c, tables)
<1>1. NoFee \in [DOMAIN NoFee -> 0..MaxU64] /\ 0 \in 0..MaxU64
  BY MaxU64Assumption DEF NoFee
<1>2. Idle \in RequestType
  BY <1>1 DEF Idle, RequestType, Stages, MaxRetries
<1> QED
  BY <1>2 DEF Idle, Sound, IsJudged, IsPriced, ResolvedStages

(* A request is answered.                                                  *)
LEMMA AnswerSound ==
  ASSUME RequestInv, NEW s \in Slots, NEW issued, Answer(s, issued)
  PROVE  RequestInv'
<1>1. Idle \in RequestType /\ Sound(Idle, conf, TablesIn(Actual))
  BY IdleSound
<1>2. arrivals' \in 0..bounds.arrivals
  BY DEF Answer, RequestInv, WorldTyped
<1>3. UNCHANGED <<scenario, world>> /\ req' = [req EXCEPT ![s] = Idle]
  BY DEF Answer
<1> QED
  BY <1>1, <1>2, <1>3, RequestMoves

(* A request advances to its next stage.                                   *)
LEMMA AdvanceSound ==
  ASSUME RequestInv, NEW s \in Slots, NEW next \in RequestType, Advance(s, next),
         Sound(next, conf, TablesIn(Actual))
  PROVE  RequestInv'
<1>1. arrivals' \in 0..bounds.arrivals
  BY DEF Advance, RequestInv, WorldTyped
<1>2. UNCHANGED <<scenario, world>> /\ req' = [req EXCEPT ![s] = next]
  BY DEF Advance
<1> QED
  BY <1>1, <1>2, RequestMoves

(* What a request is, a stage later.                                       *)
LEMMA ToIs ==
  ASSUME RequestInv, NEW s \in Slots, NEW stage \in Stages
  PROVE  /\ To(s, stage) \in RequestType /\ To(s, stage).stage = stage
         /\ To(s, stage).name = req[s].name /\ To(s, stage).payer = req[s].payer
         /\ To(s, stage).ata = req[s].ata
         /\ To(s, stage).fee = req[s].fee /\ To(s, stage).paid = req[s].paid
         /\ \A tables : TxOf(To(s, stage), tables) = TxOf(req[s], tables)
<1>1. req[s] \in RequestType /\ 0 \in 0..(MaxRetries - 1)
  BY DEF RequestInv, RequestsSound, MaxRetries
<1>2. /\ To(s, stage) \in RequestType /\ To(s, stage).stage = stage
      /\ To(s, stage).name = req[s].name /\ To(s, stage).payer = req[s].payer
      /\ To(s, stage).ata = req[s].ata
      /\ To(s, stage).fee = req[s].fee /\ To(s, stage).paid = req[s].paid
  BY <1>1 DEF To, RequestType
<1> QED
  BY <1>2 DEF TxOf

(* The tables of the moment, as those of the places of the accounts.       *)
LEMMA TablesNow ==
  ASSUME WorldTyped
  PROVE  InHistory(ledger) /\ TablesIn(Actual) = TablesAt(ledger)
<1>1. \A k \in DOMAIN History : ledger[k] \in Nat /\ oldest[k] \in Nat
  BY DEF WorldTyped
<1>2. \A k \in DOMAIN History : Len(History[k]) \in Nat
  BY PaymasterAssumption
<1>3. InHistory(ledger)
  BY <1>1, <1>2 DEF WorldTyped, InHistory
<1> QED
  BY <1>3 DEF Actual, TablesAt

(* A transaction that resolves in earlier tables resolves, to the same, in *)
(* those that extend them.                                                 *)
LEMMA StaysResolved ==
  ASSUME NEW name \in DOMAIN Cases, NEW old, NEW new, Extended(old, new),
         Sequenced(old), Sequenced(new), CanResolve(Cases[name].tx, old)
  PROVE  /\ CanResolve(Cases[name].tx, new)
         /\ AllAccountKeys(Cases[name].tx, old) = AllAccountKeys(Cases[name].tx, new)
<1>1. Indexed(Cases[name].tx)
  BY NodeAssumption DEF Indexed
<1>2. Covered(Cases[name].tx, old)
  BY DEF CanResolve, Covered
<1>3. /\ Covered(Cases[name].tx, new)
      /\ AllAccountKeys(Cases[name].tx, old) = AllAccountKeys(Cases[name].tx, new)
  BY <1>1, <1>2, SameKeys
<1> QED
  BY <1>3 DEF CanResolve, Covered

(* A request that was sound stays sound when tables are extended.          *)
LEMMA StaysSound ==
  ASSUME NEW r, NEW c, NEW old, NEW new, Extended(old, new), Sequenced(old),
         Sequenced(new), Sound(r, c, old)
  PROVE  Sound(r, c, new)
<1>1. r.stage \in ResolvedStages => r.name \in DOMAIN Cases
  BY DEF Sound, ResolvedStages
<1>2. ASSUME r.stage \in ResolvedStages, Cases[r.name].method # "transferTransaction"
      PROVE  /\ CanResolve(Cases[r.name].tx, new)
             /\ AllAccountKeys(Cases[r.name].tx, old) = AllAccountKeys(Cases[r.name].tx, new)
  <2>1. CanResolve(Cases[r.name].tx, old)
    BY <1>2 DEF Sound
  <2> QED
    BY <1>1, <1>2, <2>1, StaysResolved
<1>3. ASSUME IsJudged(r) PROVE TxOf(r, new) = TxOf(r, old)
  <2>1. r.stage \in ResolvedStages
    BY <1>3 DEF IsJudged, ResolvedStages
  <2>2. CASE Cases[r.name].method = "transferTransaction"
    BY <2>2 DEF TxOf
  <2>3. CASE Cases[r.name].method # "transferTransaction"
    <3>1. AllAccountKeys(Cases[r.name].tx, old) = AllAccountKeys(Cases[r.name].tx, new)
      BY <1>2, <2>1, <2>3
    <3> QED
      BY <2>3, <3>1, Zenon DEF TxOf, FromTransaction
  <2> QED
    BY <2>2, <2>3
<1>4. IsJudged(r) => Permits(c, r.payer, TxOf(r, new))
  BY <1>3 DEF Sound
<1>5. IsPriced(r, c) => Solid(r, c, new)
  <2>1. IsPriced(r, c) => IsJudged(r)
    BY DEF IsPriced, IsJudged
  <2> QED
    BY <1>3, <2>1 DEF Sound, Solid
<1> QED
  BY <1>2, <1>4, <1>5 DEF Sound

(* A stage's view of the tables is older than the chain's.                 *)
LEMMA ViewsAreEarlier ==
  ASSUME WorldTyped, NEW view \in Views
  PROVE  /\ Extended(TablesIn(view.seen), TablesIn(Actual))
         /\ Sequenced(TablesIn(view.seen)) /\ Sequenced(TablesIn(Actual))
         /\ view.baseFee = BaseFee
<1>1. PICK f \in Sights :
        view = [seen |-> Over(f, Base), fresh |-> Actual, price |-> price,
                baseFee |-> BaseFee, epoch |-> moves]
  BY DEF Views
<1>2. InHistory(ledger) /\ TablesIn(Actual) = TablesAt(ledger)
  BY TablesNow
<1>3. DOMAIN f = DOMAIN History
  BY DEF Sights
<1>4. ASSUME NEW k \in DOMAIN History
      PROVE  f[k] = Unfetched \/ \E i \in 1..ledger[k] : f[k] = History[k][i]
  <2>1. f[k] \in Cached(k)
    BY DEF Sights
  <2>2. oldest[k] \in Nat /\ ledger[k] \in Nat /\ 1 <= oldest[k]
    BY DEF WorldTyped
  <2> QED
    BY <2>1, <2>2 DEF Cached
<1>5. /\ Sequenced(TablesIn(Over(f, Base)))
      /\ Extended(TablesIn(Over(f, Base)), TablesAt(ledger))
  BY <1>2, <1>3, <1>4, TablesGrow
<1>6. Sequenced(TablesAt(ledger))
  <2> DEFINE g == [k \in DOMAIN History |-> History[k][ledger[k]]]
  <2>1. \A k \in DOMAIN History : \E i \in 1..ledger[k] : g[k] = History[k][i]
    BY <1>2 DEF InHistory
  <2>2. DOMAIN g = DOMAIN History
    OBVIOUS
  <2>3. TablesAt(ledger) = TablesIn(Over(g, Base))
    BY DEF TablesAt
  <2> HIDE DEF g
  <2> QED
    BY <1>2, <2>1, <2>2, <2>3, TablesGrow
<1> QED
  BY <1>1, <1>2, <1>5, <1>6

-----------------------------------------------------------------------------
(***************************************************************************)
(* Each stage of a request.                                                *)
(***************************************************************************)

(* A signer is picked.                                                     *)
LEMMA PickSound ==
  ASSUME RequestInv, NEW s \in Slots, Pick(s) PROVE RequestInv'
<1>1. ASSUME NEW payer \in Pool, Advance(s, [To(s, "resolve") EXCEPT !.payer = payer])
      PROVE  RequestInv'
  <2> DEFINE next == [To(s, "resolve") EXCEPT !.payer = payer]
  <2>1. next \in RequestType /\ next.stage = "resolve" /\ next.name = req[s].name
    <3>1. To(s, "resolve") \in RequestType /\ To(s, "resolve").stage = "resolve"
          /\ To(s, "resolve").name = req[s].name
      BY ToIs DEF Stages
    <3> QED
      BY <3>1 DEF RequestType
  <2>2. req[s].stage # "idle" /\ Sound(req[s], conf, TablesIn(Actual))
    BY DEF Pick, In, RequestInv, RequestsSound
  <2> HIDE DEF next
  <2>3. Sound(next, conf, TablesIn(Actual))
    BY <2>1, <2>2 DEF Sound, IsJudged, IsPriced, ResolvedStages
  <2> QED
    BY <1>1, <2>1, <2>3, AdvanceSound DEF next
<1>2. ASSUME Answer(s, FALSE) PROVE RequestInv'
  BY <1>2, AnswerSound
<1> QED
  BY <1>1, <1>2 DEF Pick

(* A stage that keeps what the request is.                                 *)
LEMMA StageSound ==
  ASSUME RequestInv, NEW s \in Slots, NEW stage \in Stages, NEW next \in RequestType,
         req[s].stage # "idle", next.stage = stage, next.name = req[s].name,
         next.payer = req[s].payer, next.ata = req[s].ata, Advance(s, next),
         stage \in ResolvedStages /\ Case(s).method # "transferTransaction" =>
           CanResolve(Case(s).tx, TablesIn(Actual)),
         \/ stage \in {"idle", "pick", "resolve", "validate"}
         \/ stage = "price" /\ ~Signs(Case(s))
         \/ Permits(conf, req[s].payer, Resolved(s)),
         IsPriced(next, conf) => Solid(next, conf, TablesIn(Actual))
  PROVE  RequestInv'
<1>1. Sound(req[s], conf, TablesIn(Actual))
  BY DEF RequestInv, RequestsSound
<1>2. TxOf(next, TablesIn(Actual)) = Resolved(s)
  BY DEF TxOf, Resolved, Case
<1>3. Sound(next, conf, TablesIn(Actual))
  <2>1. IsJudged(next) => Permits(conf, req[s].payer, Resolved(s))
    BY DEF IsJudged, Case
  <2> QED
    BY <1>1, <1>2, <2>1 DEF Sound, Case
<1> QED
  BY <1>3, AdvanceSound

(* The lookup tables a request's transaction names are resolved.           *)
LEMMA ResolveSound ==
  ASSUME RequestInv, NEW s \in Slots, Resolve(s) PROVE RequestInv'
<1>1. PICK view \in Views :
        IF CanResolve(Case(s).tx, TablesIn(view.seen))
        THEN Advance(s, To(s, IF Signs(Case(s)) THEN "validate" ELSE "price"))
        ELSE Answer(s, FALSE)
  BY Zenon DEF Resolve
<1>2. req[s].stage = "resolve" /\ req[s].name \in DOMAIN Cases
  BY DEF Resolve, In, RequestInv, RequestsSound, Sound
<1>3. CASE ~CanResolve(Case(s).tx, TablesIn(view.seen))
  BY <1>1, <1>3, AnswerSound
<1>4. ASSUME CanResolve(Case(s).tx, TablesIn(view.seen)) PROVE RequestInv'
  <2> DEFINE stage == IF Signs(Case(s)) THEN "validate" ELSE "price"
  <2>1. CanResolve(Case(s).tx, TablesIn(Actual))
    BY <1>2, <1>4, StaysResolved, ViewsAreEarlier DEF RequestInv, Case
  <2>2. Advance(s, To(s, stage)) /\ stage \in Stages
    BY <1>1, <1>4 DEF Stages
  <2>3. stage = "validate" \/ (stage = "price" /\ ~Signs(Case(s)))
    OBVIOUS
  <2> HIDE DEF stage
  <2>4. /\ To(s, stage) \in RequestType /\ To(s, stage).stage = stage
        /\ To(s, stage).name = req[s].name /\ To(s, stage).payer = req[s].payer
        /\ To(s, stage).ata = req[s].ata
    BY <2>2, ToIs
  <2>5. ~IsPriced(To(s, stage), conf)
    BY <2>3, <2>4 DEF IsPriced, Case
  <2> QED
    BY <1>2, <2>1, <2>2, <2>3, <2>4, <2>5, StageSound
<1> QED
  BY <1>3, <1>4

(* transferTransaction builds its transaction.                             *)
LEMMA BuildSound ==
  ASSUME RequestInv, NEW s \in Slots, Build(s) PROVE RequestInv'
<1>1. ASSUME Answer(s, FALSE) PROVE RequestInv'
  BY <1>1, AnswerSound
<1>2. ASSUME NEW lacks \in BOOLEAN, Advance(s, [To(s, "validate") EXCEPT !.ata = lacks])
      PROVE  RequestInv'
  <2> DEFINE next == [To(s, "validate") EXCEPT !.ata = lacks]
  <2>1. next \in RequestType /\ next.stage = "validate" /\ next.name = req[s].name
    <3>1. To(s, "validate") \in RequestType /\ To(s, "validate").stage = "validate"
          /\ To(s, "validate").name = req[s].name
      BY ToIs DEF Stages
    <3> QED
      BY <3>1 DEF RequestType
  <2>2. req[s].stage # "idle" /\ Sound(req[s], conf, TablesIn(Actual))
        /\ Cases[req[s].name].method = "transferTransaction"
    BY DEF Build, In, RequestInv, RequestsSound, Case
  <2> HIDE DEF next
  <2>3. Sound(next, conf, TablesIn(Actual))
    BY <2>1, <2>2 DEF Sound, IsJudged, IsPriced
  <2> QED
    BY <1>2, <2>1, <2>3, AdvanceSound DEF next
<1>3. PICK view \in Views :
        IF CanBuild(Case(s).build, view)
        THEN Advance(s, [To(s, "validate") EXCEPT !.ata =
               Case(s).build.mint # "sol"
                 /\ view.seen[TransferAtas(Case(s).build).target].status # "found"])
        ELSE Answer(s, FALSE)
  BY Zenon DEF Build
<1> QED
  BY <1>1, <1>2, <1>3

(* A transaction is validated: the policy permits it.                      *)
LEMMA ValidateSound ==
  ASSUME RequestInv, NEW s \in Slots, Validate(s) PROVE RequestInv'
<1>1. PICK view \in Views, order \in Orders :
        IF Valid(conf, req[s].payer, Resolved(s), view, order)
        THEN Advance(s, To(s, IF Signs(Case(s)) THEN "price" ELSE "sign"))
        ELSE Answer(s, FALSE)
  BY Zenon DEF Validate
<1>2. req[s].stage = "validate" /\ Sound(req[s], conf, TablesIn(Actual))
  BY DEF Validate, In, RequestInv, RequestsSound
<1>3. CASE ~Valid(conf, req[s].payer, Resolved(s), view, order)
  BY <1>1, <1>3, AnswerSound
<1>4. ASSUME Valid(conf, req[s].payer, Resolved(s), view, order) PROVE RequestInv'
  <2> DEFINE stage == IF Signs(Case(s)) THEN "price" ELSE "sign"
  <2>1. Permits(conf, req[s].payer, Resolved(s))
    <3>1. FeePayerOutflow(req[s].payer, Resolved(s).instructions, view, order)
            \in 0..conf.maxLamports
      BY <1>4 DEF Valid, ValidTransferAmounts
    <3>2. FeePayerOutflow(req[s].payer, Resolved(s).instructions, view, order) # FAILED
      BY <3>1 DEF FAILED
    <3>3. ~ParseFails(Resolved(s).instructions, NativePrograms)
      BY <3>2, Zenon DEF FeePayerOutflow, NativePrograms
    <3>4. \E T : Amounts(T) /\ Resolved(s).instructions \in Seq(T)
      <4>1. req[s].name \in DOMAIN Cases /\ Resolved(s) = TxOf(req[s], TablesIn(Actual))
        BY <1>2 DEF Sound, Resolved, TxOf, Case
      <4> QED
        BY <4>1, InstructionsTyped
    <3>5. /\ SystemOutflow(req[s].payer, Resolved(s).instructions) \in
               0..FeePayerOutflow(req[s].payer, Resolved(s).instructions, view, order)
          /\ FeePayerOutflow(req[s].payer, Resolved(s).instructions, view, order) \in Nat
      BY <3>2, <3>4, AmountsOf, OutflowCovers
    <3>6. SystemOutflow(req[s].payer, Resolved(s).instructions) \in 0..conf.maxLamports
      <4>1. conf.maxLamports \in Nat
        BY PaymasterAssumption DEF RequestInv, WorldTyped, conf, bounds
      <4> QED
        BY <3>1, <3>5, <4>1
    <3> QED
      BY <1>4, <3>3, <3>6 DEF Permits, Valid
  <2>2. Advance(s, To(s, stage)) /\ stage \in Stages
    BY <1>1, <1>4 DEF Stages
  <2>3. Case(s).method # "transferTransaction" => CanResolve(Case(s).tx, TablesIn(Actual))
    BY <1>2 DEF Sound, ResolvedStages, Case
  <2>4. stage = "price" \/ ~Signs(Case(s))
    OBVIOUS
  <2> HIDE DEF stage
  <2>5. /\ To(s, stage) \in RequestType /\ To(s, stage).stage = stage
        /\ To(s, stage).name = req[s].name /\ To(s, stage).payer = req[s].payer
        /\ To(s, stage).ata = req[s].ata
    BY <2>2, ToIs
  <2>6. ~IsPriced(To(s, stage), conf)
    BY <2>4, <2>5 DEF IsPriced, Case
  <2> QED
    BY <1>2, <2>1, <2>2, <2>3, <2>5, <2>6, StageSound
<1> QED
  BY <1>3, <1>4

\* A request that has been judged, and may be signed.
Judged(s) ==
  /\ req[s].stage # "idle"
  /\ Case(s).method # "transferTransaction" => CanResolve(Case(s).tx, TablesIn(Actual))
  /\ Permits(conf, req[s].payer, Resolved(s))

(* A request at a stage after validation was judged.                       *)
LEMMA IsJudgedSo ==
  ASSUME RequestInv, NEW s \in Slots, IsJudged(req[s]) PROVE Judged(s)
<1>1. Sound(req[s], conf, TablesIn(Actual)) /\ req[s].stage \in ResolvedStages
  BY DEF RequestInv, RequestsSound, IsJudged, ResolvedStages
<1>2. TxOf(req[s], TablesIn(Actual)) = Resolved(s)
  BY DEF TxOf, Resolved, Case
<1> QED
  BY <1>1, <1>2 DEF Judged, Sound, Case, ResolvedStages

(* Once judged, whatever the request learns does not change what it is.    *)
LEMMA JudgedSound ==
  ASSUME RequestInv, NEW s \in Slots, Judged(s), NEW next \in RequestType,
         next.name = req[s].name, next.payer = req[s].payer, next.ata = req[s].ata,
         IsPriced(next, conf) => Solid(next, conf, TablesIn(Actual)), Advance(s, next)
  PROVE  RequestInv'
<1>1. next.stage \in Stages
  BY DEF RequestType
<1> QED
  BY <1>1, StageSound DEF Judged

(* A transaction is priced (fee.rs:278): what is owed is a number, or the  *)
(* request is refused.                                                     *)
LEMMA PriceSound ==
  ASSUME RequestInv, NEW s \in Slots, Price(s) PROVE RequestInv'
<1>1. PICK view \in Views, order \in Orders :
        IF KoraFee(conf, req[s].payer, Resolved(s), view, order).total = FAILED
             \/ ~Signs(Case(s))
        THEN Answer(s, FALSE)
        ELSE Advance(s, [To(s, IF KoraFee(conf, req[s].payer, Resolved(s), view, order).total > 0
                               THEN "pay" ELSE "sign")
                           EXCEPT !.fee = KoraFee(conf, req[s].payer, Resolved(s), view, order)])
  BY Zenon DEF Price
<1> DEFINE fee == KoraFee(conf, req[s].payer, Resolved(s), view, order)
           stage == IF fee.total > 0 THEN "pay" ELSE "sign"
<1>2. ASSUME fee.total # FAILED, Signs(Case(s)) PROVE RequestInv'
  <2>1. Judged(s)
    BY <1>2, IsJudgedSo DEF Price, In, IsJudged, Case
  <2>2. /\ conf.model \in {"free", "fixed", "strict", "margin"} /\ conf.margin \in Nat
        /\ view.baseFee = BaseFee /\ BaseFee \in 0..MaxU64
    BY ViewsAreEarlier, PaymasterAssumption DEF RequestInv, WorldTyped, conf, bounds
  <2>3. fee \in FeeType
    <3>1. req[s].name \in DOMAIN Cases /\ Resolved(s) = TxOf(req[s], TablesIn(Actual))
      BY <2>1 DEF Judged, RequestInv, RequestsSound, Sound, Resolved, TxOf, Case
    <3>2. PICK T : Amounts(T) /\ Resolved(s).instructions \in Seq(T)
      BY <3>1, InstructionsTyped
    <3>3. Listed(Resolved(s).instructions)
      BY <3>2 DEF Listed
    <3> QED
      BY <1>2, <2>2, <3>3, FeeTyped
  <2>4. conf.model \in {"strict", "margin"} =>
          /\ Due(conf, fee) \in Nat
          /\ BaseFee + SystemOutflow(req[s].payer, Resolved(s).instructions) <= Due(conf, fee)
    <3>1. req[s].name \in DOMAIN Cases /\ Resolved(s) = TxOf(req[s], TablesIn(Actual))
      BY <2>1 DEF Judged, RequestInv, RequestsSound, Sound, Resolved, TxOf, Case
    <3>2. PICK T : Amounts(T) /\ Resolved(s).instructions \in Seq(T)
      BY <3>1, InstructionsTyped
    <3> QED
      BY <1>2, <2>2, <3>2, FeeCovers
  <2>5. Advance(s, [To(s, stage) EXCEPT !.fee = fee]) /\ stage \in Stages
    BY <1>1, <1>2 DEF Stages
  <2>6. stage \in {"pay", "sign"} /\ (stage # "pay" => ~(fee.total > 0))
    OBVIOUS
  <2> HIDE DEF fee, stage
  <2>7. /\ To(s, stage) \in RequestType /\ To(s, stage).stage = stage
        /\ To(s, stage).name = req[s].name /\ To(s, stage).payer = req[s].payer
        /\ To(s, stage).ata = req[s].ata
    BY <2>5, ToIs
  <2> DEFINE next == [To(s, stage) EXCEPT !.fee = fee]
  <2>8. /\ next \in RequestType /\ next.stage = stage /\ next.fee = fee
        /\ next.name = req[s].name /\ next.payer = req[s].payer /\ next.ata = req[s].ata
    BY <2>3, <2>7 DEF RequestType, FeeType
  <2> HIDE DEF next
  <2>9. IsPriced(next, conf) => Solid(next, conf, TablesIn(Actual))
    <3>1. TxOf(next, TablesIn(Actual)) = Resolved(s)
      BY <2>8 DEF TxOf, Resolved, Case
    <3> QED
      BY <2>4, <2>6, <2>8, <3>1 DEF IsPriced, Solid
  <2> QED
    BY <2>1, <2>5, <2>8, <2>9, JudgedSound DEF next
<1> QED
  BY <1>1, <1>2, AnswerSound

(* The payment is verified (versioned_transaction.rs:257) at another moment *)
(* than the fee was.                                                       *)
LEMMA PaySound ==
  ASSUME RequestInv, NEW s \in Slots, Pay(s) PROVE RequestInv'
<1>1. PICK view \in Views :
        IF /\ PaymentSuffices(conf, req[s].fee.total, Resolved(s).instructions, view)
           /\ StrictHolds(conf, req[s].fee)
        THEN Advance(s, [To(s, "sign") EXCEPT
                           !.paid = PaidLamports(conf, Resolved(s).instructions, view)])
        ELSE Answer(s, FALSE)
  BY Zenon DEF Pay
<1> DEFINE paid == PaidLamports(conf, Resolved(s).instructions, view)
           next == [To(s, "sign") EXCEPT !.paid = paid]
<1>2. ASSUME PaymentSuffices(conf, req[s].fee.total, Resolved(s).instructions, view),
             StrictHolds(conf, req[s].fee), Advance(s, next)
      PROVE  RequestInv'
  <2>1. Judged(s) /\ req[s].stage = "pay"
    BY IsJudgedSo DEF Pay, In, IsJudged
  <2>2. paid # FAILED /\ req[s].fee.total <= paid
    <3>1. paid # FAILED /\ paid >= req[s].fee.total
      BY <1>2, Zenon DEF PaymentSuffices, Reaches
    <3> QED
      BY <3>1
  <2>3. paid \in 0..MaxU64
    <3> DEFINE instructions == Resolved(s).instructions
               transfers == TokenTransfers(instructions)
               Paid(t) == PaidBy(conf, t, Payee(conf, t, instructions, view), view)
               numbers == [i \in DOMAIN transfers |-> Paid(transfers[i])]
    <3>1. paid = CheckedSum(numbers)
      BY Zenon DEF PaidLamports
    <3>2. DOMAIN numbers = DOMAIN transfers
      OBVIOUS
    <3> HIDE DEF numbers
    <3>3. req[s].name \in DOMAIN Cases /\ Resolved(s) = TxOf(req[s], TablesIn(Actual))
      BY <2>1 DEF Judged, RequestInv, RequestsSound, Sound, Resolved, TxOf, Case
    <3>4. PICK T : Amounts(T) /\ instructions \in Seq(T)
      BY <3>3, InstructionsTyped
    <3>5. CheckedSum(numbers) \in Totals
      BY <3>2, <3>4, TransfersAdded
    <3> QED
      BY <2>2, <3>1, <3>5 DEF Totals
  <2>4. /\ To(s, "sign") \in RequestType /\ To(s, "sign").stage = "sign"
        /\ To(s, "sign").name = req[s].name /\ To(s, "sign").payer = req[s].payer
        /\ To(s, "sign").ata = req[s].ata /\ To(s, "sign").fee = req[s].fee
    BY ToIs DEF Stages
  <2> HIDE DEF paid
  <2>5. /\ next \in RequestType /\ next.paid = paid /\ next.fee = req[s].fee
        /\ next.stage = "sign"
        /\ next.name = req[s].name /\ next.payer = req[s].payer /\ next.ata = req[s].ata
    BY <2>3, <2>4 DEF RequestType
  <2> HIDE DEF next
  <2>6. IsPriced(next, conf) => Solid(next, conf, TablesIn(Actual))
    <3> SUFFICES ASSUME IsPriced(next, conf) PROVE Solid(next, conf, TablesIn(Actual))
      OBVIOUS
    <3>1. TxOf(next, TablesIn(Actual)) = TxOf(req[s], TablesIn(Actual))
      BY <2>5 DEF TxOf
    <3>2. IsPriced(req[s], conf)
      BY <2>1, <2>5 DEF IsPriced
    <3>3. Solid(req[s], conf, TablesIn(Actual)) /\ req[s].fee.total \in Nat
      BY <3>2, MaxU64Assumption DEF RequestInv, RequestsSound, Sound, RequestType
    <3>4. Due(conf, req[s].fee) <= req[s].fee.total
      <4>1. CASE conf.model = "strict"
        BY <1>2, <4>1 DEF StrictHolds, Due
      <4>2. CASE conf.model # "strict"
        BY <3>3, <4>2 DEF Due
      <4> QED
        BY <4>1, <4>2
    <3> QED
      BY <2>2, <2>5, <3>1, <3>3, <3>4 DEF Solid
  <2> QED
    BY <1>2, <2>1, <2>5, <2>6, JudgedSound
<1> QED
  BY <1>1, <1>2, AnswerSound

(* What is kept of the fee keeps a request sound.                          *)
LEMMA SolidStays ==
  ASSUME RequestInv, NEW s \in Slots, IsPriced(req[s], conf), NEW next,
         next.name = req[s].name, next.payer = req[s].payer, next.ata = req[s].ata,
         next.fee = req[s].fee, next.paid = req[s].paid,
         next.stage = "pay" <=> req[s].stage = "pay"
  PROVE  Solid(next, conf, TablesIn(Actual))
<1>1. Solid(req[s], conf, TablesIn(Actual))
  BY DEF RequestInv, RequestsSound, Sound
<1>2. TxOf(next, TablesIn(Actual)) = TxOf(req[s], TablesIn(Actual))
  BY DEF TxOf
<1> QED
  BY <1>1, <1>2 DEF Solid

(* A transaction is signed.                                                *)
LEMMA SignSound ==
  ASSUME RequestInv, NEW s \in Slots, Sign(s) PROVE RequestInv'
<1>1. Advance(s, To(s, "signed")) \/ Answer(s, FALSE)
  BY DEF Sign
<1>2. Judged(s) /\ req[s].stage = "sign"
  BY IsJudgedSo DEF Sign, In, IsJudged
<1> DEFINE next == To(s, "signed")
<1>3. /\ next \in RequestType /\ next.stage = "signed"
      /\ next.name = req[s].name /\ next.payer = req[s].payer
      /\ next.ata = req[s].ata /\ next.fee = req[s].fee /\ next.paid = req[s].paid
  BY ToIs DEF Stages
<1> HIDE DEF next
<1>4. IsPriced(next, conf) => Solid(next, conf, TablesIn(Actual))
  <2>1. IsPriced(next, conf) => IsPriced(req[s], conf)
    BY <1>2, <1>3 DEF IsPriced
  <2> QED
    BY <1>2, <1>3, <2>1, SolidStays
<1> QED
  BY <1>1, <1>2, <1>3, <1>4, AnswerSound, JudgedSound DEF next

(* The oracle is asked again.                                              *)
LEMMA OracleSound ==
  ASSUME RequestInv, NEW s \in Slots, OracleRetries(s) PROVE RequestInv'
<1> DEFINE next == [req[s] EXCEPT !.attempt = @ + 1]
<1>1. /\ Advance(s, next) /\ req[s] \in RequestType /\ req[s].attempt \in 0..(MaxRetries - 1)
      /\ req[s].attempt < MaxRetries - 1
      /\ Sound(req[s], conf, TablesIn(Actual))
  BY DEF OracleRetries, RequestInv, RequestsSound, RequestType
<1>2. req[s].attempt + 1 \in 0..(MaxRetries - 1)
  BY <1>1 DEF MaxRetries
<1>3. /\ next \in RequestType /\ next.stage = req[s].stage /\ next.name = req[s].name
      /\ next.payer = req[s].payer /\ next.ata = req[s].ata
      /\ next.fee = req[s].fee /\ next.paid = req[s].paid
  BY <1>1, <1>2 DEF RequestType
<1> HIDE DEF next
<1>4. TxOf(next, TablesIn(Actual)) = TxOf(req[s], TablesIn(Actual))
  BY <1>3 DEF TxOf
<1>5. Sound(next, conf, TablesIn(Actual))
  <2>1. IsPriced(next, conf) => Solid(next, conf, TablesIn(Actual))
    <3>1. IsPriced(next, conf) => IsPriced(req[s], conf)
      BY <1>3 DEF IsPriced
    <3> QED
      BY <1>3, <3>1, SolidStays
  <2> QED
    BY <1>1, <1>3, <1>4, <2>1 DEF Sound, IsJudged
<1> QED
  BY <1>1, <1>3, <1>5, AdvanceSound

(* Whatever stage a request takes.                                         *)
LEMMA StepSound ==
  ASSUME RequestInv, NEW s \in Slots, Step(s) PROVE RequestInv'
<1>1. CASE Checks(s)
  <2>1. UNCHANGED <<scenario, req, arrivals, world>>
    BY <1>1 DEF Checks
  <2> QED
    BY <2>1 DEF RequestInv, WorldTyped, RequestsSound, world, bounds, conf, Actual
<1>2. CASE OverLimit(s) \/ Send(s) \/ Return(s) \/ CallFails(s)
  BY <1>2, AnswerSound DEF OverLimit, Send, Return, CallFails
<1> QED
  BY <1>1, <1>2, PickSound, ResolveSound, BuildSound, ValidateSound, PriceSound, PaySound,
     SignSound, OracleSound
     DEF Step

-----------------------------------------------------------------------------
(***************************************************************************)
(* What happens around the requests.                                       *)
(***************************************************************************)

(* A request arrives: nothing is known of its transaction.                 *)
LEMMA ArriveSound ==
  ASSUME RequestInv, NEW s \in Slots, NEW name \in bounds.cases, Arrive(s, name)
  PROVE  RequestInv'
<1> DEFINE next == [Idle EXCEPT !.stage = "pick", !.name = name]
<1>1. name \in DOMAIN Cases /\ bounds.arrivals \in Nat
  BY PaymasterAssumption DEF RequestInv, WorldTyped, bounds
<1>2. next \in RequestType /\ next.stage = "pick" /\ next.name = name
  <2>1. Idle \in RequestType
    BY IdleSound
  <2> QED
    BY <1>1, <2>1 DEF RequestType, Stages
<1>3. arrivals' \in 0..bounds.arrivals
  <2>1. arrivals \in 0..bounds.arrivals /\ arrivals < bounds.arrivals /\ arrivals' = arrivals + 1
    BY DEF Arrive, RequestInv, WorldTyped
  <2> QED
    BY <1>1, <2>1
<1>4. req' = [req EXCEPT ![s] = next]
  <2>1. req[s] = Idle /\ req' = [req EXCEPT ![s] = [@ EXCEPT !.stage = "pick", !.name = name]]
    BY DEF Arrive, Idle, RequestInv, RequestsSound
  <2> QED
    BY <2>1
<1> HIDE DEF next
<1>5. Sound(next, conf, TablesIn(Actual))
  BY <1>1, <1>2 DEF Sound, IsJudged, IsPriced, ResolvedStages
<1>6. UNCHANGED <<scenario, world>>
  BY DEF Arrive
<1> QED
  BY <1>2, <1>3, <1>4, <1>5, <1>6, RequestMoves

(* An account takes its next place: lookup tables are extended.            *)
LEMMA AccountSound ==
  ASSUME RequestInv, NEW k \in DOMAIN History, AccountChanges(k) PROVE RequestInv'
<1>1. /\ moves < bounds.moves /\ moves' = moves + 1 /\ ledger[k] < Len(History[k])
      /\ ledger' = [ledger EXCEPT ![k] = ledger[k] + 1]
      /\ UNCHANGED <<scenario, oldest, price, req, arrivals>>
  BY DEF AccountChanges
<1>2. bounds' = bounds /\ conf' = conf
  BY <1>1 DEF bounds, conf
<1>3. /\ WorldTyped /\ bounds.moves \in Nat
      /\ \A j \in DOMAIN History : /\ Len(History[j]) \in Nat /\ ledger[j] \in Nat
                                  /\ oldest[j] \in Nat
  BY PaymasterAssumption DEF RequestInv, WorldTyped, bounds
<1>4. \A j \in DOMAIN History :
        /\ ledger'[j] \in Nat /\ ledger[j] <= ledger'[j] /\ ledger'[j] <= Len(History[j])
        /\ 1 <= ledger[j] /\ oldest[j] <= ledger[j] /\ 1 <= oldest[j]
  <2> SUFFICES ASSUME NEW j \in DOMAIN History
               PROVE  /\ ledger'[j] \in Nat /\ ledger[j] <= ledger'[j]
                      /\ ledger'[j] <= Len(History[j])
                      /\ 1 <= ledger[j] /\ oldest[j] <= ledger[j] /\ 1 <= oldest[j]
    OBVIOUS
  <2>1. /\ 1 <= oldest[j] /\ oldest[j] <= ledger[j] /\ ledger[j] <= Len(History[j])
        /\ ledger \in [DOMAIN History -> Nat]
    BY <1>3 DEF WorldTyped
  <2>2. CASE j = k
    <3>1. ledger'[j] = ledger[j] + 1 /\ ledger[j] < Len(History[j])
      BY <1>1, <2>1, <2>2
    <3> QED
      BY <1>3, <2>1, <3>1
  <2>3. CASE j # k
    <3>1. ledger'[j] = ledger[j]
      BY <1>1, <2>1, <2>3
    <3> QED
      BY <1>3, <2>1, <3>1
  <2> QED
    BY <2>2, <2>3
<1>5. DOMAIN ledger' = DOMAIN History /\ ledger' \in [DOMAIN History -> Nat]
  BY <1>1, <1>3, <1>4 DEF WorldTyped
<1>6. WorldTyped'
  <2>1. moves' \in 0..bounds.moves
    BY <1>1, <1>3 DEF WorldTyped
  <2>2. \A j \in DOMAIN History : 1 <= oldest'[j] /\ oldest'[j] <= ledger'[j]
                                  /\ ledger'[j] <= Len(History[j])
    <3> SUFFICES ASSUME NEW j \in DOMAIN History
                 PROVE  /\ 1 <= oldest'[j] /\ oldest'[j] <= ledger'[j]
                        /\ ledger'[j] <= Len(History[j])
      OBVIOUS
    <3>1. oldest'[j] = oldest[j]
      BY <1>1
    <3>2. oldest[j] <= ledger[j] /\ ledger[j] <= ledger'[j] /\ ledger'[j] \in Nat
      BY <1>4
    <3>3. oldest[j] \in Nat /\ ledger[j] \in Nat
      BY <1>3
    <3>4. oldest[j] <= ledger'[j]
      BY <3>2, <3>3
    <3> QED
      BY <1>4, <3>1, <3>4
  <2> QED
    BY <1>1, <1>2, <1>3, <1>5, <2>1, <2>2 DEF WorldTyped
<1>7. /\ Extended(TablesIn(Actual), TablesIn(Actual)')
      /\ Sequenced(TablesIn(Actual)) /\ Sequenced(TablesIn(Actual)')
  <2> DEFINE f == [j \in DOMAIN History |-> History[j][ledger[j]]]
             g == [j \in DOMAIN History |-> History[j][ledger'[j]]]
  <2>1. InHistory(ledger')
    BY <1>3, <1>4 DEF InHistory
  <2>2. /\ \A j \in DOMAIN History : \E i \in 1..ledger'[j] : f[j] = History[j][i]
        /\ \A j \in DOMAIN History : \E i \in 1..ledger'[j] : g[j] = History[j][i]
    <3>1. \A j \in DOMAIN History : ledger[j] \in 1..ledger'[j] /\ ledger'[j] \in 1..ledger'[j]
      BY <1>3, <1>4
    <3> QED
      BY <3>1
  <2>3. /\ TablesIn(Actual) = TablesIn(Over(f, Base))
        /\ TablesIn(Actual)' = TablesIn(Over(g, Base))
        /\ TablesAt(ledger') = TablesIn(Over(g, Base))
    BY DEF Actual, TablesAt
  <2>4. DOMAIN f = DOMAIN History /\ DOMAIN g = DOMAIN History
    OBVIOUS
  <2> HIDE DEF f, g
  <2>5. Sequenced(TablesIn(Over(f, Base))) /\ Extended(TablesIn(Over(f, Base)), TablesAt(ledger'))
    BY <2>1, <2>2, <2>4, TablesGrow
  <2>6. Sequenced(TablesIn(Over(g, Base)))
    BY <2>1, <2>2, <2>4, TablesGrow
  <2> QED
    BY <2>3, <2>5, <2>6
<1>8. RequestsSound'
  <2>1. ASSUME NEW s \in Slots PROVE Sound(req[s], conf, TablesIn(Actual)')
    <3>1. Sound(req[s], conf, TablesIn(Actual))
      BY DEF RequestInv, RequestsSound
    <3> QED
      BY <1>7, <3>1, StaysSound
  <2> QED
    BY <1>1, <1>2, <2>1 DEF RequestInv, RequestsSound
<1> QED
  BY <1>6, <1>8 DEF RequestInv

(* The memory of an account grows older.                                   *)
LEMMA TtlSound ==
  ASSUME RequestInv, NEW k \in DOMAIN History, TtlPasses(k) PROVE RequestInv'
<1>1. /\ oldest[k] < ledger[k] /\ oldest' = [oldest EXCEPT ![k] = oldest[k] + 1]
      /\ UNCHANGED <<scenario, ledger, price, req, arrivals, moves>>
  BY DEF TtlPasses
<1>2. bounds' = bounds /\ conf' = conf /\ TablesIn(Actual)' = TablesIn(Actual)
  BY <1>1 DEF bounds, conf, Actual
<1>3. ASSUME NEW j \in DOMAIN History
      PROVE  1 <= oldest'[j] /\ oldest'[j] <= ledger[j] /\ oldest'[j] \in Nat
  <2>1. /\ 1 <= oldest[j] /\ oldest[j] <= ledger[j] /\ oldest[j] \in Nat /\ ledger[j] \in Nat
        /\ oldest \in [DOMAIN History -> Nat]
    BY DEF RequestInv, WorldTyped
  <2>2. oldest'[j] = IF j = k THEN oldest[j] + 1 ELSE oldest[j]
    BY <1>1, <2>1
  <2> QED
    BY <1>1, <2>1, <2>2
<1>4. oldest' \in [DOMAIN History -> Nat]
  BY <1>1, <1>3 DEF RequestInv, WorldTyped
<1> QED
  BY <1>1, <1>2, <1>3, <1>4 DEF RequestInv, WorldTyped, RequestsSound

(* A price moves.                                                          *)
LEMMA PriceMovesSound ==
  ASSUME RequestInv, PriceMoves PROVE RequestInv'
<1>1. /\ moves < bounds.moves /\ moves' = moves + 1 /\ price' \in Prices
      /\ UNCHANGED <<scenario, ledger, oldest, req, arrivals>>
  BY DEF PriceMoves
<1>2. bounds' = bounds /\ conf' = conf /\ TablesIn(Actual)' = TablesIn(Actual)
  BY <1>1 DEF bounds, conf, Actual
<1>3. moves' \in 0..bounds.moves
  <2>1. bounds.moves \in Nat /\ moves \in 0..bounds.moves
    BY PaymasterAssumption DEF RequestInv, WorldTyped, bounds
  <2> QED
    BY <1>1, <2>1
<1> QED
  BY <1>1, <1>2, <1>3 DEF RequestInv, WorldTyped, RequestsSound

(* The process is restarted: every request is gone.                        *)
LEMMA RestartSound ==
  ASSUME RequestInv, Restart PROVE RequestInv'
<1>1. UNCHANGED <<scenario, arrivals, world>> /\ req' = [s \in Slots |-> Idle]
  BY DEF Restart
<1>2. bounds' = bounds /\ conf' = conf /\ TablesIn(Actual)' = TablesIn(Actual)
  BY <1>1 DEF world, bounds, conf, Actual
<1>3. Idle \in RequestType /\ Sound(Idle, conf, TablesIn(Actual))
  BY IdleSound
<1> QED
  BY <1>1, <1>2, <1>3 DEF RequestInv, WorldTyped, RequestsSound, world

(* At the start.                                                           *)
LEMMA RequestInit == Init => RequestInv
<1> SUFFICES ASSUME Init PROVE RequestInv
  OBVIOUS
<1>1. \A k \in DOMAIN History : Len(History[k]) \in Nat /\ 1 <= Len(History[k])
  <2> SUFFICES ASSUME NEW k \in DOMAIN History
               PROVE  Len(History[k]) \in Nat /\ 1 <= Len(History[k])
    OBVIOUS
  <2>1. History[k] # <<>> /\ History[k] \in Seq(ToSet(History[k]))
    BY PaymasterAssumption
  <2> QED
    BY <2>1
<1>2. bounds.arrivals \in Nat /\ bounds.moves \in Nat
  BY PaymasterAssumption DEF Init, bounds
<1>3. Idle \in RequestType /\ Sound(Idle, conf, TablesIn(Actual))
  BY IdleSound
<1> QED
  BY <1>1, <1>2, <1>3 DEF Init, RequestInv, WorldTyped, RequestsSound

(* Whatever the paymaster, its clients and the chain do, requests stay     *)
(* sound.                                                                  *)
LEMMA RequestStep == RequestInv /\ [Next]_vars => RequestInv'
<1> SUFFICES ASSUME RequestInv, [Next]_vars PROVE RequestInv'
  OBVIOUS
<1>1. CASE UNCHANGED vars
  BY <1>1 DEF vars, world, RequestInv, WorldTyped, RequestsSound, bounds, conf, Actual
<1> QED
  BY <1>1, ArriveSound, StepSound, AccountSound, TtlSound, PriceMovesSound, RestartSound
     DEF Next

(* Every request in progress is one a client sent, its transaction can be  *)
(* resolved with the tables of the moment once it was, and once validated  *)
(* is permitted by the policy and the limit from then on, and the fee that *)
(* was computed for it covers its cost (transaction_validator.rs:97).      *)
THEOREM RequestInvariant == Spec => []RequestInv
  BY RequestInit, RequestStep, PTL DEF Spec

(* Nothing changes the setting of the limit.                               *)
LEMMA SettingStep == limit = bounds.limit /\ [Next]_vars => (limit = bounds.limit)'
<1> SUFFICES ASSUME [Next]_vars PROVE limit' = limit /\ bounds' = bounds
  OBVIOUS
<1>1. \A s : CheckUsage(s) => limit' = limit
  BY DEF CheckUsage, NoLimiter, PassExempt, ReadCount, ReadFails, IncrementUse,
         IncrementFails, Fallback, MoveTo
<1>2. \A s, issued : Answer(s, issued) => limit' = limit /\ bounds' = bounds
  BY DEF Answer, Leave, bounds
<1>3. \A s, next : Advance(s, next) => limit' = limit /\ bounds' = bounds
  BY DEF Advance, usageVars, bounds
<1>4. \A s, name : Arrive(s, name) => limit' = limit /\ bounds' = bounds
  BY DEF Arrive, Ask, Admit, MoveTo, bounds
<1>5. ASSUME NEW s \in Slots, Step(s) PROVE limit' = limit /\ bounds' = bounds
  BY <1>1, <1>2, <1>3, <1>5
     DEF Step, Checks, OverLimit, Pick, Resolve, Build, Validate, Price, Pay, Sign, Send,
         Return, CallFails, OracleRetries, bounds
<1> QED
  BY <1>4, <1>5 DEF Next, AccountChanges, TtlPasses, PriceMoves, Restart, UsageRestart,
                    usageVars, vars, bounds

-----------------------------------------------------------------------------
(***************************************************************************)
(* The types, the policy and the cost.                                     *)
(***************************************************************************)

(* Requests, prices and accounts keep their types.                         *)
THEOREM PaymasterTypeCorrect == Spec => []TypeOK
<1>1. Init => limit = bounds.limit
  BY DEF Init
<1>2. RequestInv /\ UsageTypeOK /\ limit = bounds.limit => TypeOK
  BY DEF RequestInv, WorldTyped, RequestsSound, TypeOK
<1> QED
  BY <1>1, <1>2, SettingStep, RequestInvariant, ImplementsUsage, UsageTypeCorrect, PTL DEF Spec

-----------------------------------------------------------------------------
\* What the policy says of one instruction.
PolicyAllows(c, payer, ix) ==
  Recognised(ix) /\ payer \in Parsed(ix).who => <<ix.program, Parsed(ix).type>> \in c.policy

(* A transaction that was permitted uses the payer as the policy allows.   *)
LEMMA PermittedAllowed ==
  ASSUME NEW c, NEW payer, NEW rtx, Permits(c, payer, rtx), NEW i \in DOMAIN rtx.instructions
  PROVE  \/ ~Recognised(rtx.instructions[i])
         \/ /\ PolicyAllows(c, payer, rtx.instructions[i])
            /\ ~Malformed(rtx.instructions[i])
<1> DEFINE ix == rtx.instructions[i]
<1> SUFFICES ASSUME Recognised(ix)
             PROVE  PolicyAllows(c, payer, ix) /\ ~Malformed(ix)
  OBVIOUS
<1>1. ix.program \in NativePrograms
  BY RecognisedNative DEF NativePrograms
<1>2. ~Malformed(ix)
  BY <1>1 DEF Permits, ParseFails
<1>3. CASE ix.program = "system"
  BY <1>2, <1>3 DEF Permits, ValidFeePayerUse, ValidSystemUse, PolicyAllows
<1>4. CASE ix.program # "system"
  BY <1>1, <1>2, <1>4
     DEF Permits, ValidFeePayerUse, ValidTokenUse, PolicyAllows, IsTokenProgram,
         NativePrograms
<1> QED
  BY <1>3, <1>4

(* What ran is listed among the transaction's accounts.                    *)
LEMMA ListedAccounts ==
  ASSUME RequestInv, NEW s \in Slots, Judged(s), req[s].name \in DOMAIN Cases,
         Case(s).method # "transferTransaction", NEW i \in DOMAIN Case(s).inner
  PROVE  {Case(s).inner[i].program} \cup ToSet(Case(s).inner[i].ix.accounts)
           \subseteq ToSet(AllAccountKeys(Case(s).tx, TablesIn(Actual)))
<1> DEFINE f == [k \in DOMAIN History |-> History[k][ledger[k]]]
<1>1. f \in Worlds
  <2>1. \A k \in DOMAIN History : ledger[k] \in 1..Len(History[k])
    BY TablesNow DEF RequestInv, InHistory
  <2>2. \A k \in DOMAIN History : DOMAIN History[k] = 1..Len(History[k])
    BY PaymasterAssumption
  <2>3. \A k \in DOMAIN History : f[k] \in ToSet(History[k])
    BY <2>1, <2>2 DEF ToSet
  <2> QED
    BY <2>3 DEF Worlds
<1>2. TablesIn(Actual) = TablesIn(Over(f, Base))
  BY DEF Actual
<1>3. CanResolve(Case(s).tx, TablesIn(Actual))
  BY DEF Judged
<1> HIDE DEF f
<1> QED
  BY <1>1, <1>2, <1>3, NodeAssumption DEF Case

(* The policy allows what a signed transaction runs.                       *)
LEMMA SignedAllowed ==
  ASSUME RequestInv, NEW s \in Slots, Signed(s), NEW ix \in ToSet(Executed(s)) \ Unjudged(s)
  PROVE  PolicyAllows(conf, req[s].payer, ix)
<1> DEFINE payer == req[s].payer
           tables == TablesIn(Actual)
           keys == AllAccountKeys(Case(s).tx, tables)
           outer == Uncompile(Case(s).tx.outer, keys)
           inner == Case(s).inner
           rebuilt == InnerInstructions(inner, ToSet(keys))
<1>1. Judged(s)
  BY IsJudgedSo DEF Signed, IsJudged
<1>2. Permits(conf, payer, Resolved(s))
  BY <1>1 DEF Judged
<1>3. \A i \in DOMAIN Resolved(s).instructions :
        \/ ~Recognised(Resolved(s).instructions[i])
        \/ /\ PolicyAllows(conf, payer, Resolved(s).instructions[i])
           /\ ~Malformed(Resolved(s).instructions[i])
  BY <1>2, PermittedAllowed
<1>4. req[s].name \in DOMAIN Cases
  BY <1>1 DEF Judged, RequestInv, RequestsSound, Sound
<1>5. CASE Case(s).method = "transferTransaction"
  <2>1. PICK i \in DOMAIN Resolved(s).instructions : ix = Resolved(s).instructions[i]
    BY <1>5 DEF Executed, ToSet
  <2> QED
    BY <1>3, <2>1 DEF PolicyAllows
<1>6. ASSUME Case(s).method # "transferTransaction" PROVE PolicyAllows(conf, payer, ix)
  <2>1. Resolved(s).instructions = outer \o rebuilt
    BY <1>6 DEF Resolved, FromTransaction
  <2>2. Executed(s) = outer \o Inner(Case(s))
    BY <1>6, Zenon DEF Executed
  <2>3. /\ Case(s).tx.outer \in Seq(ToSet(Case(s).tx.outer)) /\ inner \in Seq(ToSet(inner))
        /\ \A i \in DOMAIN inner : Truthful(inner[i])
    BY <1>4, NodeAssumption DEF Case
  <2>4. outer \in Seq(ToSet(outer)) /\ Inner(Case(s)) \in Seq(ToSet(Inner(Case(s))))
    <3>1. DOMAIN outer = 1..Len(Case(s).tx.outer) /\ Len(Case(s).tx.outer) \in Nat
      BY <2>3 DEF Uncompile
    <3>2. DOMAIN Inner(Case(s)) = 1..Len(inner) /\ Len(inner) \in Nat
      BY <2>3 DEF Inner
    <3>3. /\ outer = [i \in 1..Len(Case(s).tx.outer) |-> outer[i]]
          /\ Inner(Case(s)) = [i \in 1..Len(inner) |-> Inner(Case(s))[i]]
      BY <3>1, <3>2 DEF Uncompile, Inner
    <3> HIDE DEF outer, inner
    <3> QED
      BY <3>1, <3>2, <3>3 DEF ToSet
  <2> HIDE DEF outer, inner, rebuilt, keys, tables, payer
  <2>5. PICK m \in DOMAIN Executed(s) : ix = Executed(s)[m]
    BY DEF ToSet
  <2>6. \/ \E i \in DOMAIN outer : ix = outer[i]
        \/ \E i \in DOMAIN Inner(Case(s)) : ix = Inner(Case(s))[i]
    BY <2>2, <2>4, <2>5
  <2> DEFINE T == RebuiltOf(inner, ToSet(keys))
  <2>7. /\ rebuilt \in Seq(T)
        /\ \A i \in DOMAIN inner : Reconstruct(inner[i], ToSet(keys)) # Dropped =>
             \E k \in DOMAIN rebuilt : rebuilt[k] = Reconstruct(inner[i], ToSet(keys))
    BY <2>3, InnerKept DEF rebuilt
  <2> HIDE DEF T
  <2>8. ASSUME NEW i \in DOMAIN outer, ix = outer[i] PROVE PolicyAllows(conf, payer, ix)
    <3>1. i \in DOMAIN (outer \o rebuilt) /\ (outer \o rebuilt)[i] = outer[i]
      BY <2>4, <2>7
    <3> QED
      BY <1>3, <2>1, <2>8, <3>1 DEF PolicyAllows
  <2>9. ASSUME NEW i \in DOMAIN Inner(Case(s)), ix = Inner(Case(s))[i]
        PROVE  PolicyAllows(conf, payer, ix)
    <3> DEFINE ui == inner[i]
    <3>1. i \in DOMAIN inner /\ ix = ui.ix
      BY <2>9 DEF Inner, inner
    <3> SUFFICES ASSUME Recognised(ix), payer \in Parsed(ix).who
                 PROVE  <<ix.program, Parsed(ix).type>> \in conf.policy
      BY DEF PolicyAllows
    <3>2. Truthful(ui)
      BY <2>3, <3>1
    <3>3. ui.form = "parsed" => ui.kind \notin TagOnly \ CompleteAsTag
      <4>1. ui \in ToSet(inner)
        BY <3>1 DEF ToSet
      <4> QED
        BY <3>1, <4>1 DEF Unjudged, inner
    <3>4. {ui.program} \cup ToSet(ui.ix.accounts) \subseteq ToSet(keys)
      BY <1>1, <1>4, <1>6, <3>1, ListedAccounts DEF keys, tables, inner
    <3> DEFINE judged == Reconstruct(ui, ToSet(keys))
    <3>5. JudgedAs(judged, ui.ix)
      BY <3>1, <3>2, <3>3, <3>4, InnerIsJudged
    <3>6. PICK k \in DOMAIN rebuilt : rebuilt[k] = judged
      BY <2>7, <3>1, <3>5 DEF JudgedAs
    <3> HIDE DEF ui, judged
    <3>7. /\ Len(outer) + k \in DOMAIN (outer \o rebuilt)
          /\ (outer \o rebuilt)[Len(outer) + k] = rebuilt[k]
      BY <2>4, <2>7
    <3>8. Len(outer) + k \in DOMAIN Resolved(s).instructions
            /\ Resolved(s).instructions[Len(outer) + k] = judged
      BY <2>1, <3>6, <3>7
    <3>9. Recognised(judged) /\ ~Malformed(judged) /\ PolicyAllows(conf, payer, judged)
      BY <1>3, <3>5, <3>8 DEF JudgedAs, payer
    <3> QED
      BY <3>1, <3>5, <3>9 DEF JudgedAs, PolicyAllows
  <2> QED
    BY <2>6, <2>8, <2>9
<1> QED
  BY <1>5, <1>6

(* What a signed transaction runs, inner instructions included, uses the   *)
(* fee payer's consent only as the policy allows, whenever its tables were *)
(* read (transaction_validator.rs:172, instruction_util.rs:382).           *)
THEOREM PolicyRespectedHolds == Spec => []PolicyRespected
<1>1. RequestInv => PolicyRespected
  BY SignedAllowed DEF PolicyRespected, PolicyAllows
<1> QED
  BY <1>1, RequestInvariant, PTL

-----------------------------------------------------------------------------
(* What a signed transaction runs, inner instructions included, moves      *)
(* what the instructions do that it was judged by.                         *)
LEMMA ExecutedMoves ==
  ASSUME RequestInv, NEW s \in Slots, Signed(s)
  PROVE  NetLamports(req[s].payer, Executed(s)) =
           NetLamports(req[s].payer, Resolved(s).instructions)
<1> DEFINE payer == req[s].payer
           tables == TablesIn(Actual)
           keys == AllAccountKeys(Case(s).tx, tables)
           outer == Uncompile(Case(s).tx.outer, keys)
           inner == Case(s).inner
           rebuilt == InnerInstructions(inner, ToSet(keys))
<1>1. Judged(s)
  BY IsJudgedSo DEF Signed, IsJudged
<1>2. req[s].name \in DOMAIN Cases
  BY <1>1 DEF Judged, RequestInv, RequestsSound, Sound
<1>3. CASE Case(s).method = "transferTransaction"
  BY <1>3 DEF Executed
<1>4. CASE Case(s).method # "transferTransaction"
  <2>1. Resolved(s).instructions = outer \o rebuilt
    BY <1>4 DEF Resolved, FromTransaction
  <2>2. Executed(s) = outer \o Inner(Case(s))
    BY <1>4, Zenon DEF Executed
  <2>3. /\ Case(s).tx.outer \in Seq(ToSet(Case(s).tx.outer)) /\ inner \in Seq(ToSet(inner))
        /\ \A i \in DOMAIN inner : Truthful(inner[i])
    BY <1>2, NodeAssumption DEF Case
  <2>4. /\ \A i \in DOMAIN Case(s).tx.outer : WellFormed(Case(s).tx.outer[i])
        /\ \A i \in DOMAIN inner : WellFormed(inner[i].ix)
    BY <1>2, AmountsAssumption DEF Case
  <2>5. \A i \in DOMAIN inner :
          {inner[i].program} \cup ToSet(inner[i].ix.accounts) \subseteq ToSet(keys)
    BY <1>1, <1>2, <1>4, ListedAccounts
  <2> DEFINE T == {outer[i] : i \in DOMAIN Case(s).tx.outer}
             R == RebuiltOf(inner, ToSet(keys))
             Q == {inner[i].ix : i \in DOMAIN inner}
  <2>6. Amounts(T) /\ Amounts(R) /\ Amounts(Q)
    <3>1. Amounts(R)
      BY <2>3, <2>4, RebuiltAmounts
    <3>2. Amounts(T) /\ Amounts(Q)
      BY <2>4 DEF Amounts, Uncompile, WellFormed
    <3> QED
      BY <3>1, <3>2
  <2>7. outer \in Seq(T) /\ rebuilt \in Seq(R) /\ Inner(Case(s)) \in Seq(Q)
    <3>1. rebuilt \in Seq(R)
      BY <2>3, InnerKept
    <3>2. /\ DOMAIN outer = DOMAIN Case(s).tx.outer
          /\ outer = [i \in DOMAIN Case(s).tx.outer |-> outer[i]]
      BY DEF Uncompile
    <3>3. /\ DOMAIN Case(s).tx.outer = 1..Len(Case(s).tx.outer) /\ Len(Case(s).tx.outer) \in Nat
          /\ DOMAIN inner = 1..Len(inner) /\ Len(inner) \in Nat
      BY <2>3
    <3>4. Inner(Case(s)) = [i \in DOMAIN inner |-> inner[i].ix]
      BY DEF Inner
    <3> HIDE DEF outer, inner, rebuilt
    <3>5. outer \in Seq(T)
      BY <3>2, <3>3
    <3>6. Inner(Case(s)) \in Seq(Q)
      BY <3>3, <3>4
    <3> QED
      BY <3>1, <3>5, <3>6
  <2>8. NetLamports(payer, rebuilt) = NetLamports(payer, Inner(Case(s)))
    <3>1. ~ParseFails(outer \o rebuilt, NativePrograms)
      BY <1>1, <2>1 DEF Judged, Permits
    <3>2. ASSUME NEW k \in DOMAIN rebuilt PROVE ~Malformed(rebuilt[k])
      <4> HIDE DEF outer, rebuilt, T, R
      <4>1. /\ Len(outer) + k \in DOMAIN (outer \o rebuilt)
            /\ (outer \o rebuilt)[Len(outer) + k] = rebuilt[k]
        BY <2>7
      <4>2. Malformed(rebuilt[k]) => rebuilt[k].program \in NativePrograms
        BY RecognisedNative DEF Malformed, NativePrograms
      <4> QED
        BY <3>1, <4>1, <4>2 DEF ParseFails
    <3>3. Inner(Case(s)) = [i \in DOMAIN inner |-> inner[i].ix]
      BY DEF Inner
    <3> HIDE DEF inner, keys, payer
    <3>4. NetLamports(payer, InnerInstructions(inner, ToSet(keys))) =
            NetLamports(payer, [i \in DOMAIN inner |-> inner[i].ix])
      BY <2>3, <2>4, <2>5, <3>2, InnerMoves
    <3> QED
      BY <3>3, <3>4
  <2> HIDE DEF outer, rebuilt, T, R, Q, payer
  <2>9. /\ outer \in Seq(T \cup R \cup Q) /\ rebuilt \in Seq(T \cup R \cup Q)
        /\ Inner(Case(s)) \in Seq(T \cup R \cup Q) /\ Amounts(T \cup R \cup Q)
    BY <2>6, <2>7 DEF Amounts
  <2>10. /\ NetLamports(payer, outer \o rebuilt) =
               NetLamports(payer, outer) + NetLamports(payer, rebuilt)
         /\ NetLamports(payer, outer \o Inner(Case(s))) =
               NetLamports(payer, outer) + NetLamports(payer, Inner(Case(s)))
    BY <2>9, NetOfBoth
  <2> QED
    BY <2>1, <2>2, <2>8, <2>10 DEF payer
<1> QED
  BY <1>3, <1>4

(* What a signed transaction takes from the payer is what was counted.     *)
LEMMA SignedCosts ==
  ASSUME RequestInv, NEW s \in Slots, Signed(s)
  PROVE  /\ NetLamports(req[s].payer, Executed(s)) \in Int
         /\ SystemOutflow(req[s].payer, Resolved(s).instructions) \in 0..conf.maxLamports
         /\ NetLamports(req[s].payer, Executed(s)) <=
               SystemOutflow(req[s].payer, Resolved(s).instructions)
         /\ conf.maxLamports \in Nat
<1>1. Judged(s)
  BY IsJudgedSo DEF Signed, IsJudged
<1>2. SystemOutflow(req[s].payer, Resolved(s).instructions) \in 0..conf.maxLamports
  BY <1>1 DEF Judged, Permits
<1>3. conf.maxLamports \in Nat
  BY PaymasterAssumption DEF RequestInv, WorldTyped, conf, bounds
<1>4. PICK T : Amounts(T) /\ Resolved(s).instructions \in Seq(T)
  <2>1. req[s].name \in DOMAIN Cases /\ Resolved(s) = TxOf(req[s], TablesIn(Actual))
    BY <1>1 DEF Judged, RequestInv, RequestsSound, Sound, Resolved, TxOf, Case
  <2> QED
    BY <2>1, InstructionsTyped
<1>5. SystemOutflow(req[s].payer, Resolved(s).instructions) # FAILED
  BY <1>2 DEF FAILED
<1>6. /\ NetLamports(req[s].payer, Resolved(s).instructions) \in Int
      /\ SystemOutflow(req[s].payer, Resolved(s).instructions) >=
            NetLamports(req[s].payer, Resolved(s).instructions)
  BY <1>4, <1>5, AmountsOf, OutflowIsEnough
<1> QED
  BY <1>2, <1>3, <1>6, ExecutedMoves

(* A signature never costs the payer more lamports than the limit allows,  *)
(* however the instructions are nested (transaction_validator.rs:293).     *)
THEOREM CostBoundedHolds == Spec => []CostBounded
<1>1. RequestInv => CostBounded
  <2> SUFFICES ASSUME RequestInv, NEW s \in Slots, Signed(s)
               PROVE  NetLamports(req[s].payer, Executed(s)) <= conf.maxLamports
    BY DEF CostBounded
  <2> DEFINE spent == NetLamports(req[s].payer, Executed(s))
             counted == SystemOutflow(req[s].payer, Resolved(s).instructions)
  <2>1. /\ spent \in Int /\ counted \in 0..conf.maxLamports /\ spent <= counted
        /\ conf.maxLamports \in Nat
    BY SignedCosts
  <2> HIDE DEF spent, counted
  <2>2. spent <= conf.maxLamports
    BY <2>1
  <2> QED
    BY <2>2 DEF spent
<1> QED
  BY <1>1, RequestInvariant, PTL

(* Under margin and strict pricing no signature is given below cost,       *)
(* whatever prices and accounts do between the fee and the payment         *)
(* (versioned_transaction.rs:257, fee.rs:278).                             *)
THEOREM SolventHolds == Spec => []Solvent
<1>1. RequestInv => Solvent
  <2> SUFFICES ASSUME RequestInv, NEW s \in Slots, Signed(s), Signs(Case(s)),
                      conf.model \in {"margin", "strict"}, req[s].fee.total > 0
               PROVE  req[s].paid >= BaseFee + NetLamports(req[s].payer, Executed(s))
    BY DEF Solvent
  <2> DEFINE spent == NetLamports(req[s].payer, Executed(s))
             counted == SystemOutflow(req[s].payer, Resolved(s).instructions)
             due == Due(conf, req[s].fee)
             total == req[s].fee.total
             paid == req[s].paid
  <2>1. spent \in Int /\ counted \in 0..conf.maxLamports /\ spent <= counted
    BY SignedCosts
  <2>2. BaseFee \in Nat /\ total \in Nat /\ paid \in Nat /\ conf.maxLamports \in Nat
    BY SignedCosts, PaymasterAssumption, MaxU64Assumption
       DEF RequestInv, RequestsSound, RequestType
  <2>3. due \in Nat /\ BaseFee + counted <= due /\ due <= total /\ total <= paid
    <3>1. IsPriced(req[s], conf) /\ req[s].stage # "pay"
      BY DEF IsPriced, Signed, Case
    <3>2. Solid(req[s], conf, TablesIn(Actual))
      BY <3>1 DEF RequestInv, RequestsSound, Sound
    <3>3. TxOf(req[s], TablesIn(Actual)) = Resolved(s)
      BY DEF TxOf, Resolved, Case
    <3> QED
      BY <3>1, <3>2, <3>3 DEF Solid
  <2> HIDE DEF spent, counted, due, total, paid
  <2>4. paid >= BaseFee + spent
    BY <2>1, <2>2, <2>3
  <2> QED
    BY <2>4 DEF paid, spent
<1> QED
  BY <1>1, RequestInvariant, PTL

-----------------------------------------------------------------------------
(***************************************************************************)
(* An estimate in tokens: a division by the price that rounds up, against  *)
(* a multiplication that rounds down.                                      *)
(***************************************************************************)

(* A quotient is rounded down by less than one.                            *)
LEMMA QuotientIs ==
  ASSUME NEW a \in Nat, NEW n \in Nat \ {0}
  PROVE  /\ a \div n \in Nat
         /\ n * (a \div n) \in Nat /\ n * (a \div n) <= a
         /\ a < n * (a \div n) + n
<1>1. a \div n \in Nat /\ a % n \in 0..(n - 1) /\ a = n * (a \div n) + (a % n)
  BY SMTT(60)
<1> DEFINE q == a \div n
           r == a % n
<1> HIDE DEF q, r
<1>2. q \in Nat /\ r \in 0..(n - 1) /\ a = n * q + r
  BY <1>1 DEF q, r
<1>3. n * q \in Nat
  BY <1>2
<1> DEFINE m == n * q
<1> HIDE DEF m
<1>4. m \in Nat /\ m <= a /\ a < m + n
  BY <1>2, <1>3 DEF m
<1> QED
  BY <1>2, <1>4 DEF m, q

(* What rounds up to cover a number of lamports is not worth less when it  *)
(* is rounded down: an estimate in tokens, paid, is worth the fee it       *)
(* stands for (token.rs:180, token.rs:142).                                *)
THEOREM TokensCover ==
  ASSUME NEW lamports \in Nat, NEW rate,
         rate.num \in Nat, rate.den \in Nat \ {0},
         TokensFor(lamports, rate) # FAILED,
         TokenValue(TokensFor(lamports, rate), rate) # FAILED
  PROVE  TokenValue(TokensFor(lamports, rate), rate) >= lamports
<1> DEFINE num == rate.num
           den == rate.den
           asked == lamports * den
           n == CeilDiv(asked, num)
           paid == n * num
           value == paid \div den
<1>1. num # 0 /\ TokensFor(lamports, rate) = Checked(n)
  BY Zenon DEF TokensFor
<1>2. asked \in Nat /\ num \in Nat \ {0} /\ den \in Nat \ {0}
  BY <1>1
<1>3. n \in Nat /\ paid \in Nat /\ asked <= paid
  <2> HIDE DEF asked, num
  <2> DEFINE up == asked + num - 1
  <2>1. up \in Nat
    BY <1>2
  <2>2. n = up \div num
    BY DEF CeilDiv
  <2> HIDE DEF up, n
  <2>3. n \in Nat /\ num * n \in Nat /\ up < num * n + num
    BY <1>2, <2>1, <2>2, QuotientIs
  <2>4. n * num = num * n
    BY <1>2, <2>3
  <2>5. asked < num * n + 1
    BY <1>2, <2>3 DEF up
  <2>6. asked <= num * n
    BY <1>2, <2>3, <2>5
  <2> QED
    BY <2>3, <2>4, <2>6
<1>4. TokensFor(lamports, rate) = n
  BY <1>1, Zenon DEF Checked
<1> HIDE DEF n
<1>5. TokenValue(n, rate) = Checked(value)
  BY Zenon DEF TokenValue
<1> HIDE DEF paid
<1>6. value \in Nat /\ den * value \in Nat /\ paid < den * value + den
  BY <1>2, <1>3, QuotientIs
<1> HIDE DEF value
<1>7. value >= lamports
  <2>1. SUFFICES ASSUME value + 1 <= lamports PROVE FALSE
    BY <1>6
  <2> HIDE DEF den
  <2>2. PICK more \in Nat : lamports = value + 1 + more
    <3>1. lamports - (value + 1) \in Nat /\ lamports = value + 1 + (lamports - (value + 1))
      BY <1>6, <2>1
    <3> QED
      BY <3>1
  <2>3. asked = den * value + den + more * den
    BY <1>2, <1>6, <2>2
  <2>4. more * den \in Nat
    BY <1>2, <2>2
  <2> DEFINE a == den * value
             b == more * den
  <2>5. a \in Nat /\ b \in Nat /\ asked = a + den + b /\ paid < a + den
    BY <1>6, <2>3, <2>4
  <2> HIDE DEF a, b, asked
  <2> QED
    BY <1>2, <1>3, <2>5
<1>8. Checked(value) = value
  BY <1>4, <1>5, Zenon DEF Checked
<1> QED
  BY <1>4, <1>5, <1>7, <1>8

-----------------------------------------------------------------------------
(***************************************************************************)
(* A list that gets one more.                                              *)
(***************************************************************************)

\* b is a, with x behind it.
Longer(a, b, x) ==
  /\ Len(a) \in Nat /\ DOMAIN a = 1..Len(a)
  /\ Len(b) = Len(a) + 1 /\ DOMAIN b = 1..(Len(a) + 1)
  /\ \A i \in 1..Len(a) : b[i] = a[i]
  /\ b[Len(a) + 1] = x

(* Appending makes it so.                                                  *)
LEMMA AppendedIs ==
  ASSUME NEW T, NEW a \in Seq(T), NEW x
  PROVE  Longer(a, Append(a, x), x)
BY DEF Longer

(* One more sequence is flattened behind the others.                       *)
LEMMA FlattenMore ==
  ASSUME NEW T, NEW seqs \in Seq(Seq(T)), NEW x \in Seq(T)
  PROVE  FlattenSeq(Append(seqs, x)) = FlattenSeq(seqs) \o x
<1> DEFINE N == Len(seqs)
           more == Append(seqs, x)
           f == CHOOSE g : Chains(N, seqs, g)
           h == CHOOSE g : Chains(N + 1, more, g)
<1>1. /\ N \in Nat /\ Len(more) = N + 1 /\ more[N + 1] = x
      /\ \A i \in 1..N : more[i] = seqs[i]
  OBVIOUS
<1>2. N # 0 => FlattenSeq(seqs) = f[N]
  BY DEF FlattenSeq, Chains
<1>3. FlattenSeq(more) = h[N + 1]
  <2>1. Len(more) # 0
    BY <1>1
  <2> HIDE DEF more
  <2>2. FlattenSeq(more) = (CHOOSE g : Chains(Len(more), more, g))[Len(more)]
    BY <2>1 DEF FlattenSeq, Chains
  <2> QED
    BY <1>1, <2>2, Zenon
<1>4. \A i \in 1..N : f[i] = IF i = 1 THEN seqs[i] ELSE f[i - 1] \o seqs[i]
  <2>1. Chains(N, seqs, f)
    BY <1>1, ChainExists
  <2> QED
    BY <2>1, Zenon DEF Chains
<1>5. \A i \in 1..(N + 1) : h[i] = IF i = 1 THEN more[i] ELSE h[i - 1] \o more[i]
  <2>1. N + 1 \in Nat
    BY <1>1
  <2>2. Chains(N + 1, more, h)
    BY <2>1, ChainExists
  <2> QED
    BY <2>2, Zenon DEF Chains
<1>6. N = 0 => FlattenSeq(seqs) = <<>>
  BY DEF FlattenSeq
<1> HIDE DEF N, more, f, h
<1>7. \A i \in 1..N : h[i] = f[i]
  <2> DEFINE S == {i \in 0..N : i = 0 \/ h[i] = f[i]}
  <2>1. 0 \in S
    BY <1>1
  <2>2. ASSUME NEW i \in 1..N, i - 1 \in S PROVE i \in S
    <3>1. i \in 1..(N + 1) /\ i \in 0..N
      BY <1>1
    <3>2. i # 1 => h[i - 1] = f[i - 1]
      BY <2>2
    <3>3. h[i] = f[i]
      BY <1>1, <1>4, <1>5, <3>1, <3>2
    <3> QED
      BY <3>1, <3>3
  <2> HIDE DEF S
  <2>3. \A i \in 0..N : i \in S
    BY <1>1, <2>1, <2>2, Climb
  <2> QED
    BY <1>1, <2>3 DEF S
<1>8. CASE N = 0
  <2>1. h[N + 1] = x
    BY <1>1, <1>5, <1>8
  <2> QED
    BY <1>3, <1>6, <1>8, <2>1 DEF more
<1>9. CASE N # 0
  <2>1. N + 1 \in 1..(N + 1) /\ N + 1 # 1 /\ N \in 1..N /\ (N + 1) - 1 = N
    BY <1>1, <1>9
  <2>2. h[N + 1] = h[(N + 1) - 1] \o more[N + 1]
    BY <1>5, <2>1
  <2>3. h[N + 1] = f[N] \o x
    BY <1>1, <1>7, <2>1, <2>2
  <2> QED
    BY <1>2, <1>3, <1>9, <2>3 DEF more
<1> QED
  BY <1>8, <1>9

(* An instruction that is a token transfer is one transfer more.           *)
LEMMA TransferAppended ==
  ASSUME NEW T, NEW a \in Seq(T), NEW ix, IsTokenTransfer(ix)
  PROVE  Longer(TokenTransfers(a), TokenTransfers(Append(a, ix)), Parsed(ix))
<1> DEFINE b == Append(a, ix)
           Kept(x) == IF IsTokenTransfer(x) THEN <<Parsed(x)>> ELSE <<>>
           keptA == [i \in DOMAIN a |-> Kept(a[i])]
           keptB == [i \in DOMAIN b |-> Kept(b[i])]
           P == {Parsed(b[i]) : i \in DOMAIN b}
           n == Len(a)
<1>1. TokenTransfers(a) = FlattenSeq(keptA) /\ TokenTransfers(b) = FlattenSeq(keptB)
  BY Zenon DEF TokenTransfers
<1>2. /\ n \in Nat /\ DOMAIN a = 1..n /\ DOMAIN b = 1..(n + 1) /\ b[n + 1] = ix
      /\ \A i \in 1..n : b[i] = a[i]
  OBVIOUS
<1>3. Kept(ix) = <<Parsed(ix)>>
  OBVIOUS
<1> HIDE DEF b, n
<1>4. ASSUME NEW i \in 1..(n + 1) PROVE Kept(b[i]) \in Seq(P)
  <2>1. Parsed(b[i]) \in P
    BY <1>2
  <2> HIDE DEF P
  <2> DEFINE p == Parsed(b[i])
  <2>2. Kept(b[i]) \in {<<>>, <<p>>}
    OBVIOUS
  <2>3. p \in P
    BY <2>1
  <2> HIDE DEF p, Kept
  <2>4. <<>> \in Seq(P) /\ <<p>> \in Seq(P)
    BY <2>3
  <2> QED
    BY <2>2, <2>4
<1> DEFINE p == Parsed(ix)
<1>5. p \in P
  BY <1>2
<1>6. Kept(ix) = <<p>>
  BY <1>3
<1> HIDE DEF Kept, P, p
<1>7. keptA \in Seq(Seq(P)) /\ <<p>> \in Seq(P)
  BY <1>2, <1>4, <1>5
<1>8. keptB = Append(keptA, <<p>>)
  <2>1. DOMAIN keptB = 1..(n + 1) /\ keptB = [i \in 1..(n + 1) |-> Kept(b[i])]
    BY <1>2
  <2>2. Len(keptA) = n /\ \A i \in 1..n : keptA[i] = Kept(a[i])
    BY <1>2
  <2> DEFINE c == Append(keptA, <<p>>)
  <2>3. c = [i \in 1..(n + 1) |-> c[i]] /\ c[n + 1] = <<p>> /\ \A i \in 1..n : c[i] = keptA[i]
    BY <1>2, <1>7, <2>2
  <2> HIDE DEF c, keptA, keptB
  <2>4. ASSUME NEW i \in 1..(n + 1) PROVE c[i] = Kept(b[i])
    <3>1. i = n + 1 \/ i \in 1..n
      BY <1>2
    <3> QED
      BY <1>2, <1>6, <2>2, <2>3, <3>1
  <2>5. c = keptB
    BY <2>1, <2>3, <2>4, Zenon
  <2> QED
    BY <2>5 DEF c
<1> HIDE DEF keptA, keptB
<1>9. FlattenSeq(keptB) = FlattenSeq(keptA) \o <<p>> /\ FlattenSeq(keptA) \in Seq(P)
  BY <1>7, <1>8, FlattenMore, FlattenKeeps
<1> DEFINE s == FlattenSeq(keptA)
<1>10. s \in Seq(P) /\ FlattenSeq(keptB) = s \o <<p>>
  BY <1>9
<1> HIDE DEF s
<1>11. s \o <<p>> = Append(s, p)
  BY <1>5, <1>10
<1>12. Longer(s, Append(s, p), p)
  BY <1>10, AppendedIs
<1> QED
  BY <1>1, <1>10, <1>11, <1>12 DEF s, p, b

(* An instruction of another program moves no lamports by the system       *)
(* program: one type of instruction counts as before...                    *)
LEMMA TypeUnmoved ==
  ASSUME NEW payer, NEW T, NEW a \in Seq(T), NEW b \in Seq(T), AmountsIn(a), AmountsIn(b),
         NEW ix, ix.program # "system", Longer(a, b, ix), NEW type, NEW start \in Totals
  PROVE  /\ OutflowOf(payer, b, type, start) = OutflowOf(payer, a, type, start)
         /\ OutflowOf(payer, a, type, start) \in Totals
<1> DEFINE n == Len(a)
           t == SystemTotals(payer, a, type, start)
           u == SystemTotals(payer, b, type, start)
<1>1. Tallies(payer, a, type, start, t) /\ Tallies(payer, b, type, start, u)
  BY TotalsAre
<1>2. /\ n \in Nat /\ Len(b) = n + 1 /\ b[n + 1] = ix
      /\ \A i \in 1..n : b[i] = a[i]
  BY DEF Longer
<1>3. /\ OutflowOf(payer, a, type, start) = t[n]
      /\ OutflowOf(payer, b, type, start) = u[n + 1]
  BY <1>2 DEF OutflowOf
<1> HIDE DEF n, t, u
<1> DEFINE Go(e, x) == IF ParsedAs(e, "system", type)
                         THEN CountMove(payer, x, Parsed(e)) ELSE x
<1>4. /\ t[0] = start /\ u[0] = start /\ t \in [0..n -> Totals]
      /\ \A i \in 1..n : t[i] = Go(a[i], t[i - 1])
      /\ \A i \in 1..(n + 1) : u[i] = Go(b[i], u[i - 1])
  BY <1>1, <1>2 DEF Tallies, n
<1>5. Go(ix, u[n]) = u[n]
  BY DEF ParsedAs
<1> HIDE DEF Go
<1> DEFINE S == {i \in 0..n : u[i] = t[i]}
<1>6. 0 \in S
  BY <1>2, <1>4
<1>7. \A i \in 1..n : i - 1 \in S => i \in S
  <2> SUFFICES ASSUME NEW i \in 1..n, i - 1 \in S PROVE i \in S
    OBVIOUS
  <2>1. i \in 1..(n + 1) /\ i \in 0..n
    BY <1>2
  <2>2. u[i] = Go(a[i], t[i - 1])
    BY <1>2, <1>4, <2>1
  <2> QED
    BY <1>4, <2>1, <2>2
<1> HIDE DEF S
<1>8. \A i \in 0..n : i \in S
  BY <1>2, <1>6, <1>7, Climb
<1>9. n \in 0..n /\ n + 1 \in 1..(n + 1) /\ (n + 1) - 1 = n
  BY <1>2
<1>10. u[n] = t[n] /\ t[n] \in Totals
  BY <1>4, <1>8, <1>9 DEF S
<1>11. u[n + 1] = Go(b[n + 1], u[(n + 1) - 1])
  BY <1>4, <1>9
<1>12. u[n + 1] = u[n]
  BY <1>2, <1>5, <1>9, <1>11
<1> QED
  BY <1>3, <1>10, <1>12

(* ...and so do all three.                                                 *)
LEMMA SystemUnmoved ==
  ASSUME NEW payer, NEW T, NEW a \in Seq(T), NEW b \in Seq(T), AmountsIn(a), AmountsIn(b),
         NEW ix, ix.program # "system", Longer(a, b, ix)
  PROVE  SystemOutflow(payer, b) = SystemOutflow(payer, a)
<1> DEFINE x == OutflowOf(payer, a, "Transfer", 0)
           y == OutflowOf(payer, a, "CreateAccount", x)
<1>1. 0 \in Totals
  BY TotalsIs
<1>2. x \in Totals /\ OutflowOf(payer, b, "Transfer", 0) = x
  BY <1>1, TypeUnmoved
<1>3. SystemOutflow(payer, a) = OutflowOf(payer, a, "WithdrawNonce", y)
  BY Zenon DEF SystemOutflow
<1>4. SystemOutflow(payer, b) =
        OutflowOf(payer, b, "WithdrawNonce", OutflowOf(payer, b, "CreateAccount", x))
  BY <1>2, Zenon DEF SystemOutflow
<1> HIDE DEF x
<1>5. y \in Totals /\ OutflowOf(payer, b, "CreateAccount", x) = y
  BY <1>2, TypeUnmoved
<1> HIDE DEF y
<1>6. OutflowOf(payer, b, "WithdrawNonce", y) = OutflowOf(payer, a, "WithdrawNonce", y)
  BY <1>5, TypeUnmoved
<1> QED
  BY <1>3, <1>4, <1>5, <1>6, Zenon

-----------------------------------------------------------------------------
(***************************************************************************)
(* Less than another total: a refusal is above every number.               *)
(***************************************************************************)

AtMost(x, y) == y = FAILED \/ (x # FAILED /\ y # FAILED /\ x <= y)

(* What is moved does not get less by moving more.                         *)
LEMMA CountsMore ==
  ASSUME NEW payer, NEW x \in Totals, NEW y \in Totals, AtMost(x, y), NEW t, NEW view
  PROVE  AtMost(CountTokens(payer, x, t, view), CountTokens(payer, y, t, view))
<1> DEFINE value == TokenValue(t.amount, view.price[MintOf(t, view.seen)])
           Go(z) == IF FAILED \in {z, value} THEN FAILED
                    ELSE IF IsOutflow(payer, t) THEN CheckedAdd(z, value)
                    ELSE SaturatingSub(z, value)
<1>1. \A z : CountTokens(payer, z, t, view) = Go(z)
  BY Zenon DEF CountTokens
<1>2. value \in Totals /\ MaxU64 \in Nat
  BY TotalsIs, MaxU64Assumption, Zenon DEF TokenValue
<1> HIDE DEF value
<1>3. AtMost(Go(x), Go(y))
  BY <1>2 DEF AtMost, CheckedAdd, Checked, SaturatingSub, Totals, FAILED
<1> QED
  BY <1>1, <1>3

(* A transfer that is nothing to the payer, or comes in, leaves less.      *)
LEMMA CountsLess ==
  ASSUME NEW payer, NEW x \in Totals, NEW t, NEW view, payer \notin t.who,
         TokenValue(t.amount, view.price[MintOf(t, view.seen)]) # FAILED
  PROVE  AtMost(CountTokens(payer, x, t, view), x)
<1> DEFINE value == TokenValue(t.amount, view.price[MintOf(t, view.seen)])
<1>1. CountTokens(payer, x, t, view) =
        IF FAILED \in {x, value} THEN FAILED ELSE SaturatingSub(x, value)
  BY Zenon DEF CountTokens, IsOutflow
<1>2. value \in Totals /\ value # FAILED /\ MaxU64 \in Nat
  BY TotalsIs, MaxU64Assumption, Zenon DEF TokenValue
<1> HIDE DEF value
<1> QED
  BY <1>1, <1>2 DEF AtMost, SaturatingSub, Totals, FAILED

(* One of three is above the other two.                                    *)
LEMMA AtMostTwice ==
  ASSUME NEW x \in Totals, NEW y \in Totals, NEW z \in Totals, AtMost(x, y), AtMost(y, z)
  PROVE  AtMost(x, z)
BY TotalsIs DEF AtMost, FAILED

\* A transfer from a stranger, that can be read and counted.
Welcome(payer, t, view) ==
  /\ payer \notin t.who
  /\ HoldsTokens(view.seen[t.to])
  /\ MintOf(t, view.seen) \in DOMAIN view.price
  /\ TokenValue(t.amount, view.price[MintOf(t, view.seen)]) # FAILED

(* One more of those leaves no more of a mint's total.                     *)
LEMMA LeftLess ==
  ASSUME NEW payer, NEW a, NEW b, NEW t, Longer(a, b, t), NEW view,
         Welcome(payer, t, view), NEW mint,
         NEW x \in Totals, NEW y \in Totals, AtMost(x, y)
  PROVE  AtMost(Left(payer, b, mint, view, x), Left(payer, a, mint, view, y))
<1> DEFINE n == Len(a)
           f == MintTotals(payer, a, mint, view, y)
           g == MintTotals(payer, b, mint, view, x)
           Go(p, z) == IF /\ MovesTokens(payer, p, view.seen)
                          /\ MintOf(p, view.seen) = mint
                       THEN CountTokens(payer, z, p, view) ELSE z
<1>1. /\ n \in Nat /\ Len(b) = n + 1 /\ b[n + 1] = t
      /\ \A i \in 1..n : b[i] = a[i]
  BY DEF Longer
<1>2. Left(payer, a, mint, view, y) = f[n] /\ Left(payer, b, mint, view, x) = g[n + 1]
  BY <1>1 DEF Left
<1>3. /\ MintTallies(payer, a, mint, view, y, f)
      /\ MintTallies(payer, b, mint, view, x, g)
  <2>1. Len(a) \in Nat /\ Len(b) \in Nat
    BY <1>1
  <2> QED
    BY <2>1, MintTotalsAre
<1> HIDE DEF n, f, g
<1>4. /\ f \in [0..n -> Totals] /\ g \in [0..(n + 1) -> Totals] /\ f[0] = y /\ g[0] = x
      /\ \A i \in 1..n : f[i] = Go(a[i], f[i - 1])
      /\ \A i \in 1..(n + 1) : g[i] = Go(b[i], g[i - 1])
  BY <1>1, <1>3 DEF MintTallies, n
<1>5. ASSUME NEW p, NEW v \in Totals, NEW w \in Totals, AtMost(v, w)
      PROVE  AtMost(Go(p, v), Go(p, w))
  BY <1>5, CountsMore
<1>6. \A z \in Totals : AtMost(Go(t, z), z)
  <2> SUFFICES ASSUME NEW z \in Totals PROVE AtMost(Go(t, z), z)
    OBVIOUS
  <2>1. AtMost(z, z)
    BY TotalsIs DEF AtMost
  <2>2. AtMost(CountTokens(payer, z, t, view), z)
    BY CountsLess DEF Welcome
  <2> QED
    BY <2>1, <2>2
<1> HIDE DEF Go
<1> DEFINE S == {i \in 0..n : AtMost(g[i], f[i])}
<1>7. 0 \in S
  BY <1>1, <1>4
<1>8. ASSUME NEW i \in 1..n, i - 1 \in S PROVE i \in S
  <2>1. i \in 1..(n + 1) /\ i \in 0..n /\ i - 1 \in 0..n /\ i - 1 \in 0..(n + 1)
    BY <1>1
  <2>2. AtMost(Go(a[i], g[i - 1]), Go(a[i], f[i - 1]))
    <3>1. g[i - 1] \in Totals /\ f[i - 1] \in Totals
      BY <1>4, <2>1
    <3>2. AtMost(g[i - 1], f[i - 1])
      BY <1>8
    <3> QED
      BY <1>5, <3>1, <3>2
  <2>3. g[i] = Go(a[i], g[i - 1]) /\ f[i] = Go(a[i], f[i - 1])
    BY <1>1, <1>4, <2>1
  <2> QED
    BY <2>1, <2>2, <2>3
<1> HIDE DEF S
<1>9. \A i \in 0..n : i \in S
  BY <1>1, <1>7, <1>8, Climb
<1>10. /\ n \in 0..n /\ n \in 0..(n + 1)
       /\ n + 1 \in 1..(n + 1) /\ n + 1 \in 0..(n + 1) /\ (n + 1) - 1 = n
  BY <1>1
<1>11. AtMost(g[n], f[n]) /\ g[n] \in Totals /\ f[n] \in Totals /\ g[n + 1] \in Totals
  BY <1>4, <1>9, <1>10 DEF S
<1>12. g[n + 1] = Go(b[n + 1], g[(n + 1) - 1])
  BY <1>4, <1>10
<1>13. AtMost(g[n + 1], g[n])
  BY <1>1, <1>6, <1>10, <1>11, <1>12
<1>14. AtMost(g[n + 1], f[n])
  BY <1>11, <1>13, AtMostTwice
<1> QED
  BY <1>2, <1>14

(* ...nor of what token transfers move out altogether.                     *)
LEMMA OutflowLess ==
  ASSUME NEW payer, NEW a, NEW b, NEW t, Longer(a, b, t), NEW view,
         Welcome(payer, t, view), NEW order \in Orders
  PROVE  /\ AtMost(SplOutflow(payer, b, view, order), SplOutflow(payer, a, view, order))
         /\ SplOutflow(payer, a, view, order) \in Totals
         /\ SplOutflow(payer, b, view, order) \in Totals
<1> DEFINE n == Len(a)
           K == Len(order)
           f == TokenTotals(payer, a, view, order)
           g == TokenTotals(payer, b, view, order)
<1>1. /\ n \in Nat /\ Len(b) = n + 1 /\ b[n + 1] = t /\ DOMAIN a = 1..n /\ DOMAIN b = 1..(n + 1)
      /\ \A i \in 1..n : b[i] = a[i]
  BY DEF Longer
<1>2. Len(a) \in Nat /\ Len(b) \in Nat /\ K \in Nat
  BY <1>1, OrderIs
<1>3. /\ SplOutflow(payer, a, view, order) \in Totals
      /\ SplOutflow(payer, b, view, order) \in Totals
  BY <1>2, SplOutflowIs
<1>4. /\ TokenTallies(payer, a, view, order, f)
      /\ TokenTallies(payer, b, view, order, g)
  BY <1>2, TokenTotalsAre
<1>5. CASE Uncountable(payer, a, view)
  BY <1>3, <1>5 DEF SplOutflow, AtMost
<1>6. ASSUME ~Uncountable(payer, a, view) PROVE ~Uncountable(payer, b, view)
  <2> DEFINE Bad(p) == \/ UnreadableSource(payer, p, view.seen)
                       \/ UnreadableTarget(payer, p, view.seen)
                       \/ /\ MovesTokens(payer, p, view.seen)
                          /\ MintOf(p, view.seen) \notin DOMAIN view.price
  <2>1. \A i \in 1..n : ~Bad(a[i])
    BY <1>1, <1>6 DEF Uncountable
  <2>2. ~Bad(t)
    BY DEF Welcome, UnreadableSource, UnreadableTarget
  <2>3. Uncountable(payer, b, view) <=> \E i \in DOMAIN b : Bad(b[i])
    BY DEF Uncountable
  <2> HIDE DEF Bad, n
  <2>4. \A i \in 1..(n + 1) : i \in 1..n \/ i = n + 1
    BY <1>1
  <2> QED
    BY <1>1, <2>1, <2>2, <2>3, <2>4, Zenon
<1>7. ASSUME ~Uncountable(payer, a, view)
      PROVE  AtMost(SplOutflow(payer, b, view, order), SplOutflow(payer, a, view, order))
  <2> HIDE DEF f, g, n, K
  <2>1. /\ f \in [0..K -> Totals] /\ g \in [0..K -> Totals] /\ f[0] = 0 /\ g[0] = 0
        /\ \A j \in 1..K : f[j] = Left(payer, a, order[j], view, f[j - 1])
        /\ \A j \in 1..K : g[j] = Left(payer, b, order[j], view, g[j - 1])
    BY <1>4 DEF TokenTallies, K
  <2> DEFINE S == {j \in 0..K : AtMost(g[j], f[j])}
  <2>2. 0 \in S
    BY <1>2, <2>1 DEF AtMost, FAILED
  <2>3. ASSUME NEW j \in 1..K, j - 1 \in S PROVE j \in S
    <3>1. j \in 0..K /\ j - 1 \in 0..K
      BY <1>2
    <3>2. f[j - 1] \in Totals /\ g[j - 1] \in Totals /\ AtMost(g[j - 1], f[j - 1])
      BY <2>1, <2>3, <3>1
    <3>3. AtMost(Left(payer, b, order[j], view, g[j - 1]),
                 Left(payer, a, order[j], view, f[j - 1]))
      BY <3>2, LeftLess
    <3> QED
      BY <2>1, <3>1, <3>3
  <2> HIDE DEF S
  <2>4. \A j \in 0..K : j \in S
    BY <1>2, <2>2, <2>3, Climb
  <2>5. AtMost(g[K], f[K])
    <3>1. K \in 0..K
      BY <1>2
    <3> QED
      BY <2>4, <3>1 DEF S
  <2>6. /\ SplOutflow(payer, a, view, order) = f[K]
        /\ SplOutflow(payer, b, view, order) = g[K]
    BY <1>6, <1>7, Zenon DEF SplOutflow, f, g, K
  <2> QED
    BY <2>5, <2>6
<1> QED
  BY <1>3, <1>5, <1>7

\* A well-formed transfer of tokens that is read as what it says.
ReadAs(ix, program, mint, source, to, wallet, n) ==
  /\ IsTokenTransfer(ix) /\ ~Malformed(ix) /\ ix.amount = n
  /\ ix.program = program /\ ix.program # "system" /\ ix.program # "ata"
  /\ Parsed(ix) = [program |-> program, type |-> "Transfer", amount |-> n,
                   who |-> {wallet}, source |-> source, mint |-> mint, to |-> to]

(* A payment is one (instruction_util.rs:818).                             *)
LEMMA PaymentIs ==
  ASSUME NEW program, IsTokenProgram(program), NEW mint, NEW source, NEW to, NEW wallet, NEW n
  PROVE  ReadAs(Payment(program, mint, source, to, wallet, n),
                program, mint, source, to, wallet, n)
<1> DEFINE ix == Payment(program, mint, source, to, wallet, n)
<1>1. /\ DOMAIN ix = {"program", "kind", "amount", "accounts", "named", "whole"}
      /\ ix.program = program /\ ix.kind = "transferChecked" /\ ix.amount = n
      /\ ix.accounts = <<source, mint, to, wallet>> /\ ix.named = Nobody /\ ix.whole = TRUE
  BY DEF Payment
<1> HIDE DEF ix
<1>2. program \in {"spl", "spl2022"} /\ program # "system" /\ program # "ata"
  BY DEF IsTokenProgram
<1>3. /\ "transferChecked" \in DOMAIN HolderTypes
      /\ HolderTypes["transferChecked"] = "Transfer"
  BY DEF HolderTypes
<1>4. "transferChecked" \in DOMAIN SplTypes /\ SplTypes["transferChecked"] = "Transfer"
  BY <1>3 DEF SplTypes, Over
<1>5. TypesOf(program) = SplTypes
  BY <1>2 DEF TypesOf, Token2022Types
<1>6. Recognised(ix)
  BY <1>1, <1>4, <1>5 DEF Recognised
<1>7. TokenIndexes["transferChecked"] = Layout(4, 3, 2)
  BY DEF TokenIndexes
<1>8. /\ Layout(4, 3, 2).needs = 4 /\ Layout(4, 3, 2).who = 3 /\ Layout(4, 3, 2).to = 2
  BY DEF Layout
<1>9. /\ Len(ix.accounts) = 4 /\ At(ix.accounts, 0) = source /\ At(ix.accounts, 1) = mint
      /\ At(ix.accounts, 2) = to /\ At(ix.accounts, 3) = wallet
  BY <1>1 DEF At
<1>10. ~Malformed(ix)
  BY <1>1, <1>2, <1>7, <1>8, <1>9 DEF Malformed, LayoutOf
<1>11. Authorities(ix) = {wallet}
  BY <1>1, <1>7, <1>8, <1>9 DEF Authorities, Consents, InData
<1>12. Parsed(ix) = TokenParsed(ix)
  BY <1>1, <1>2 DEF Parsed
<1>13. TokenParsed(ix) = [program |-> program, type |-> "Transfer", amount |-> n,
                          who |-> {wallet}, source |-> source, mint |-> mint, to |-> to]
  BY <1>1, <1>4, <1>7, <1>8, <1>9, <1>11 DEF TokenParsed
<1>14. IsTokenTransfer(ix)
  BY <1>1, <1>2, <1>6, <1>12, <1>13 DEF IsTokenTransfer, ParsedAs
<1>15. ReadAs(ix, program, mint, source, to, wallet, n)
  BY <1>1, <1>2, <1>10, <1>12, <1>13, <1>14 DEF ReadAs
<1> QED
  BY <1>15 DEF ix

(* The parsers give up where they did.                                     *)
LEMMA ParsesAlike ==
  ASSUME NEW a, NEW b, NEW ix, Longer(a, b, ix), ~Malformed(ix), NEW programs
  PROVE  ParseFails(b, programs) <=> ParseFails(a, programs)
<1> DEFINE n == Len(a)
           Bad(x) == x.program \in programs /\ Malformed(x)
<1>1. /\ n \in Nat /\ b[n + 1] = ix /\ DOMAIN a = 1..n /\ DOMAIN b = 1..(n + 1)
      /\ \A i \in 1..n : b[i] = a[i]
  BY DEF Longer
<1>2. /\ ParseFails(a, programs) <=> \E i \in 1..n : Bad(a[i])
      /\ ParseFails(b, programs) <=> \E i \in 1..(n + 1) : Bad(b[i])
  BY <1>1 DEF ParseFails
<1>3. ~Bad(ix)
  OBVIOUS
<1> HIDE DEF n, Bad
<1>4. \A i \in 1..(n + 1) : i \in 1..n \/ i = n + 1
  BY <1>1
<1>5. \A i \in 1..n : i \in 1..(n + 1)
  BY <1>1
<1> QED
  BY <1>1, <1>2, <1>3, <1>4, <1>5, Zenon

(* Checked sums keep their order.                                          *)
LEMMA SumsLess ==
  ASSUME NEW m \in Totals, NEW x \in Totals, NEW y \in Totals, AtMost(x, y)
  PROVE  AtMost(CheckedAdd(m, x), CheckedAdd(m, y))
<1>1. MaxU64 \in Nat
  BY MaxU64Assumption
<1> QED
  BY <1>1 DEF AtMost, CheckedAdd, Checked, Totals, FAILED

(* A payment from another wallet does not raise what the payer gives away  *)
(* (fee.rs:346).                                                           *)
LEMMA PaymentCostsNothing ==
  ASSUME NEW payer, NEW T, NEW a \in Seq(T), Amounts(T), NEW ix \in T,
         IsTokenTransfer(ix), ~Malformed(ix), ix.program # "system",
         NEW view, Welcome(payer, Parsed(ix), view), NEW order \in Orders
  PROVE  AtMost(FeePayerOutflow(payer, Append(a, ix), view, order),
                FeePayerOutflow(payer, a, view, order))
<1> DEFINE b == Append(a, ix)
           p == TokenTransfers(a)
           q == TokenTransfers(b)
           m == SystemOutflow(payer, a)
           x == SplOutflow(payer, q, view, order)
           y == SplOutflow(payer, p, view, order)
<1>1. b \in Seq(T) /\ Longer(a, b, ix)
  BY AppendedIs
<1>2. Longer(p, q, Parsed(ix))
  BY TransferAppended
<1> HIDE DEF b, p, q
<1>3. AmountsIn(a) /\ AmountsIn(b)
  BY <1>1, AmountsOf
<1>4. SystemOutflow(payer, b) = m
  BY <1>1, <1>3, SystemUnmoved
<1>5. m \in Totals
  BY <1>3, OutflowIsEnough
<1>6. AtMost(x, y) /\ x \in Totals /\ y \in Totals
  BY <1>2, OutflowLess
<1>7. ParseFails(b, {"system", "spl", "spl2022"}) <=> ParseFails(a, {"system", "spl", "spl2022"})
  BY <1>1, ParsesAlike
<1> DEFINE fails == ParseFails(a, {"system", "spl", "spl2022"})
<1>8. /\ FeePayerOutflow(payer, a, view, order) = IF fails THEN FAILED ELSE CheckedAdd(m, y)
      /\ FeePayerOutflow(payer, b, view, order) = IF fails THEN FAILED ELSE CheckedAdd(m, x)
  BY <1>4, <1>7, Zenon DEF FeePayerOutflow, p, q
<1> HIDE DEF fails, m, x, y
<1>9. AtMost(CheckedAdd(m, x), CheckedAdd(m, y))
  BY <1>5, <1>6, SumsLess
<1>10. AtMost(FAILED, FAILED)
  BY DEF AtMost
<1> QED
  BY <1>8, <1>9, <1>10 DEF b

(* One more number is added at the end.                                    *)
LEMMA SumMore ==
  ASSUME NEW a, NEW b, NEW x, Longer(a, b, x)
  PROVE  CheckedSum(b) = CheckedAdd(CheckedSum(a), x) /\ CheckedSum(a) \in Totals
<1> DEFINE n == Len(a)
           f == SumTotals(a)
           g == SumTotals(b)
<1>1. /\ n \in Nat /\ Len(b) = n + 1 /\ b[n + 1] = x
      /\ \A i \in 1..n : b[i] = a[i]
  BY DEF Longer
<1>2. Len(a) \in Nat /\ Len(b) \in Nat
  BY <1>1
<1>3. SumTallies(a, f) /\ SumTallies(b, g)
  BY <1>2, SumTotalsAre
<1>4. CheckedSum(a) = f[n] /\ CheckedSum(b) = g[n + 1]
  BY <1>1 DEF CheckedSum
<1> HIDE DEF n, f, g
<1>5. /\ f \in [0..n -> Totals] /\ f[0] = 0 /\ g[0] = 0
      /\ \A i \in 1..n : f[i] = CheckedAdd(f[i - 1], a[i])
      /\ \A i \in 1..(n + 1) : g[i] = CheckedAdd(g[i - 1], b[i])
  BY <1>1, <1>3 DEF SumTallies, n
<1> DEFINE S == {i \in 0..n : g[i] = f[i]}
<1>6. 0 \in S
  BY <1>1, <1>5
<1>7. ASSUME NEW i \in 1..n, i - 1 \in S PROVE i \in S
  <2>1. i \in 1..(n + 1) /\ i \in 0..n
    BY <1>1
  <2>2. g[i] = CheckedAdd(g[i - 1], b[i]) /\ f[i] = CheckedAdd(f[i - 1], a[i]) /\ b[i] = a[i]
    BY <1>1, <1>5, <2>1
  <2>3. g[i - 1] = f[i - 1]
    BY <1>7
  <2> QED
    BY <2>1, <2>2, <2>3
<1> HIDE DEF S
<1>8. \A i \in 0..n : i \in S
  BY <1>1, <1>6, <1>7, Climb
<1>9. n \in 0..n /\ n + 1 \in 1..(n + 1) /\ (n + 1) - 1 = n
  BY <1>1
<1>10. g[n] = f[n] /\ f[n] \in Totals
  BY <1>5, <1>8, <1>9 DEF S
<1>11. g[n + 1] = CheckedAdd(g[(n + 1) - 1], b[n + 1])
  BY <1>5, <1>9
<1> QED
  BY <1>1, <1>4, <1>9, <1>10, <1>11

(* Nothing more changes no sum.                                            *)
LEMMA NothingMore ==
  ASSUME NEW x \in Totals PROVE CheckedAdd(x, 0) = x
<1>1. MaxU64 \in Nat
  BY MaxU64Assumption
<1> QED
  BY <1>1 DEF CheckedAdd, Checked, Totals, FAILED

\* A payment that is found, and of which nothing is withheld.
Found(c, t, view) ==
  /\ IsPayment(t, c.payTo, view.seen)
  /\ FeeWithheld(t, view) = 0
  /\ t.program = "spl2022" /\ t.mint # Nobody => view.fresh[t.mint].status = "found"

(* One more of those is found, and what is withheld stays (fee.rs:138).    *)
LEMMA AnalysedAlike ==
  ASSUME NEW c, NEW a, NEW b, NEW t, Longer(a, b, t), NEW view, Found(c, t, view),
         PaymentAnalysis(c, a, view).withheld # FAILED
  PROVE  /\ PaymentAnalysis(c, b, view).found
         /\ PaymentAnalysis(c, b, view).withheld = PaymentAnalysis(c, a, view).withheld
<1> DEFINE n == Len(a)
           Pays(p) == IsPayment(p, c.payTo, view.seen)
           Held(p) == IF Pays(p) THEN FeeWithheld(p, view) ELSE 0
           A == [i \in DOMAIN a |-> Held(a[i])]
           B == [i \in DOMAIN b |-> Held(b[i])]
           unanalysedA == \E i \in DOMAIN a : Unanalysed(c, a[i], view)
           unanalysedB == \E i \in DOMAIN b : Unanalysed(c, b[i], view)
<1>1. /\ n \in Nat /\ Len(b) = n + 1 /\ b[n + 1] = t /\ DOMAIN a = 1..n /\ DOMAIN b = 1..(n + 1)
      /\ \A i \in 1..n : b[i] = a[i]
  BY DEF Longer
<1>2. PaymentAnalysis(c, a, view) =
        IF unanalysedA THEN [found |-> FALSE, withheld |-> FAILED]
        ELSE [found |-> \E i \in DOMAIN a : Pays(a[i]), withheld |-> CheckedSum(A)]
  BY Zenon DEF PaymentAnalysis
<1>3. PaymentAnalysis(c, b, view) =
        IF unanalysedB THEN [found |-> FALSE, withheld |-> FAILED]
        ELSE [found |-> \E i \in DOMAIN b : Pays(b[i]), withheld |-> CheckedSum(B)]
  BY Zenon DEF PaymentAnalysis
<1>4. ~unanalysedA
  BY <1>2
<1>5. ~Unanalysed(c, t, view)
  BY DEF Found, IsPayment, Unanalysed, UnreadablePayment
<1>6. Pays(t) /\ Held(t) = 0
  BY DEF Found
<1> HIDE DEF n, Pays, Held
<1>7. \A i \in 1..(n + 1) : i \in 1..n \/ i = n + 1
  BY <1>1
<1>8. ~unanalysedB
  BY <1>1, <1>4, <1>5, <1>7, Zenon
<1> HIDE DEF unanalysedA, unanalysedB
<1>9. n + 1 \in 1..(n + 1) /\ \A i \in 1..n : i \in 1..(n + 1)
  BY <1>1
<1>10. \E i \in DOMAIN b : Pays(b[i])
  BY <1>1, <1>6, <1>9
<1>11. Longer(A, B, 0)
  <2>1. DOMAIN A = 1..n /\ DOMAIN B = 1..(n + 1) /\ n + 1 \in Nat
    BY <1>1
  <2>2. (\A i \in 1..n : B[i] = A[i]) /\ B[n + 1] = 0
    BY <1>1, <1>6, <1>9
  <2> HIDE DEF A, B
  <2>3. Len(A) = n /\ Len(B) = n + 1
    BY <1>1, <2>1
  <2> QED
    BY <1>1, <2>1, <2>2, <2>3 DEF Longer
<1> HIDE DEF A, B
<1>12. CheckedSum(B) = CheckedSum(A)
  BY <1>11, SumMore, NothingMore
<1> QED
  BY <1>2, <1>3, <1>4, <1>8, <1>10, <1>12

(* A fee whose parts are no more is no more.                               *)
LEMMA PartsLess ==
  ASSUME NEW f, NEW g, f.base \in Nat, f.signature \in Nat, f.payment \in Nat,
         f.outflow \in Totals, g.outflow \in Totals, f.withheld \in Totals,
         g.base = f.base, g.signature = f.signature, AtMost(g.outflow, f.outflow),
         f.withheld # FAILED => g.payment = 0 /\ g.withheld = f.withheld
  PROVE  /\ AtMost(Components(g), Components(f))
         /\ Components(f) \in Totals /\ Components(g) \in Totals
<1> DEFINE x == f.base + f.signature + f.outflow + f.payment + f.withheld
           y == g.base + g.signature + g.outflow + g.payment + g.withheld
<1>1. Components(f) \in Totals /\ Components(g) \in Totals
  BY TotalsIs, Zenon DEF Components
<1>2. ASSUME Components(f) # FAILED
      PROVE  Components(g) # FAILED /\ Components(g) <= Components(f)
  <2>1. Components(f) = Checked(x) /\ f.outflow # FAILED /\ f.withheld # FAILED
    BY <1>2, Zenon DEF Components
  <2>2. /\ f.outflow \in Nat /\ g.outflow \in Nat /\ f.withheld \in Nat
        /\ g.outflow <= f.outflow /\ g.payment = 0 /\ g.withheld = f.withheld
    BY <2>1, MaxU64Assumption DEF Totals, AtMost, FAILED
  <2>3. x \in Nat /\ y \in Nat /\ y <= x
    <3>1. \A p, q, r, s, u, v \in Nat : v <= r =>
            /\ p + q + r + s + u \in Nat /\ p + q + v + 0 + u \in Nat
            /\ p + q + v + 0 + u <= p + q + r + s + u
      OBVIOUS
    <3>2. y = f.base + f.signature + g.outflow + 0 + f.withheld
      BY <2>2
    <3> QED
      BY <2>2, <3>1, <3>2, Zenon
  <2>4. FAILED \notin {g.base, g.signature, g.outflow, g.payment, g.withheld}
    BY <2>2 DEF FAILED
  <2>5. Components(g) = Checked(y)
    BY <2>4, Zenon DEF Components
  <2> HIDE DEF x, y
  <2>6. x \in 0..MaxU64 /\ Checked(x) = x
    BY <1>2, <2>1, Zenon DEF Checked
  <2>7. y \in 0..MaxU64
    BY <2>3, <2>6, MaxU64Assumption
  <2>8. Checked(y) = y /\ y # FAILED
    BY <2>3, <2>7 DEF Checked, FAILED
  <2> QED
    BY <2>1, <2>3, <2>5, <2>6, <2>8
<1> QED
  BY <1>1, <1>2 DEF AtMost

(* A margin on less is less.                                               *)
LEMMA MarginLess ==
  ASSUME NEW x \in Totals, NEW y \in Totals, AtMost(x, y), NEW tenths \in Nat
  PROVE  AtMost(WithMargin(x, tenths), WithMargin(y, tenths))
<1> DEFINE Asked(z) == CeilDiv(z * (10 + tenths), 10)
<1>1. CASE y = FAILED
  BY <1>1 DEF WithMargin, AtMost
<1>2. CASE y # FAILED
  <2>1. x \in Nat /\ y \in Nat /\ x <= y /\ x # FAILED
    BY <1>2, MaxU64Assumption DEF Totals, AtMost, FAILED
  <2>2. WithMargin(x, tenths) = Checked(Asked(x)) /\ WithMargin(y, tenths) = Checked(Asked(y))
    BY <1>2, <2>1, Zenon DEF WithMargin
  <2>3. Asked(x) \in Nat /\ Asked(y) \in Nat /\ Asked(x) <= Asked(y)
    <3>1. x * tenths \in Nat /\ y * tenths \in Nat
      BY <2>1
    <3>2. x * tenths <= y * tenths
      <4>1. y - x \in Nat /\ (y - x) * tenths \in Nat
        BY <2>1
      <4>2. y * tenths = x * tenths + (y - x) * tenths
        BY <2>1
      <4> DEFINE p == x * tenths
                 q == y * tenths
                 r == (y - x) * tenths
      <4>3. p \in Nat /\ q \in Nat /\ r \in Nat /\ q = p + r
        BY <3>1, <4>1, <4>2
      <4> HIDE DEF p, q, r
      <4>4. p <= q
        BY <4>3
      <4> QED
        BY <4>4 DEF p, q
    <3>3. x * (10 + tenths) = 10 * x + x * tenths /\ y * (10 + tenths) = 10 * y + y * tenths
      BY <2>1
    <3> DEFINE p == x * tenths
               q == y * tenths
    <3>4. p \in Nat /\ q \in Nat /\ p <= q
      BY <3>1, <3>2
    <3>5. x * (10 + tenths) = 10 * x + p /\ y * (10 + tenths) = 10 * y + q
      BY <3>3
    <3> HIDE DEF p, q
    <3> DEFINE a == 10 * x + p + 10 - 1
               b == 10 * y + q + 10 - 1
    <3>6. a \in Nat /\ b \in Nat /\ a <= b
      BY <2>1, <3>4
    <3>7. Asked(x) = a \div 10 /\ Asked(y) = b \div 10
      BY <3>5, Zenon DEF CeilDiv
    <3> HIDE DEF a, b, Asked
    <3>8. a \div 10 \in Nat /\ b \div 10 \in Nat /\ a \div 10 <= b \div 10
      BY <3>6
    <3> QED
      BY <3>7, <3>8
  <2> HIDE DEF Asked
  <2>4. AtMost(Checked(Asked(x)), Checked(Asked(y)))
    BY <2>3, MaxU64Assumption DEF Checked, AtMost, FAILED
  <2> QED
    BY <2>2, <2>4
<1> QED
  BY <1>1, <1>2

\* A transaction with one instruction more.
Grows(rtx, more, ix) ==
  /\ more.keys = rtx.keys /\ more.signers = rtx.signers
  /\ more.instructions = Append(rtx.instructions, ix)

\* The instruction is a payment that can be read, counted and found.
Pays(c, payer, ix, view) ==
  /\ IsTokenTransfer(ix) /\ ~Malformed(ix) /\ ix.program \notin {"system", "ata"}
  /\ Welcome(payer, Parsed(ix), view) /\ Found(c, Parsed(ix), view)

(* A payment does not raise the fee (fee.rs:278).                          *)
LEMMA OwedLess ==
  ASSUME NEW c, c.model \in {"free", "fixed", "strict", "margin"}, c.margin \in Nat,
         NEW payer, NEW rtx, NEW more, NEW T, Amounts(T), rtx.instructions \in Seq(T),
         NEW ix \in T, Grows(rtx, more, ix), NEW view, view.baseFee \in 0..MaxU64,
         Pays(c, payer, ix, view), NEW order \in Orders
  PROVE  AtMost(KoraFee(c, payer, more, view, order).total,
                KoraFee(c, payer, rtx, view, order).total)
<1> DEFINE outflow == FeePayerOutflow(payer, rtx.instructions, view, order)
           outflowMore == FeePayerOutflow(payer, more.instructions, view, order)
           p == TokenTransfers(rtx.instructions)
           q == TokenTransfers(more.instructions)
           analysis == PaymentAnalysis(c, p, view)
           analysisMore == PaymentAnalysis(c, q, view)
           f == FeeComponents(c, payer, rtx, view, order)
           g == FeeComponents(c, payer, more, view, order)
<1>1. /\ KoraFee(c, payer, rtx, view, order) = ByModel(c, f, view)
      /\ KoraFee(c, payer, more, view, order) = ByModel(c, g, view)
  BY Zenon DEF KoraFee
<1>2. /\ f = FeeOf(c, payer, rtx, view, outflow, analysis)
      /\ g = FeeOf(c, payer, more, view, outflowMore, analysisMore)
  BY Zenon DEF FeeComponents
<1>3. AtMost(outflowMore, outflow)
  BY PaymentCostsNothing, Zenon DEF Grows, Pays
<1>4. outflow \in Totals /\ outflowMore \in Totals
  BY TotalsIs, Zenon DEF FeePayerOutflow, CheckedAdd
<1>5. analysis.withheld # FAILED =>
        analysisMore.found /\ analysisMore.withheld = analysis.withheld
  <2>1. Longer(p, q, Parsed(ix))
    <3>1. Longer(p, TokenTransfers(Append(rtx.instructions, ix)), Parsed(ix))
      BY TransferAppended DEF Pays
    <3> QED
      BY <3>1, Zenon DEF Grows
  <2> HIDE DEF p, q
  <2> QED
    BY <2>1, AnalysedAlike DEF Pays
<1>6. analysis.withheld \in Totals
  <2> DEFINE withheld == [i \in DOMAIN p |-> IF IsPayment(p[i], c.payTo, view.seen)
                                             THEN FeeWithheld(p[i], view) ELSE 0]
  <2>1. analysis.withheld = FAILED \/ analysis.withheld = CheckedSum(withheld)
    BY DEF PaymentAnalysis
  <2>2. DOMAIN withheld = DOMAIN p
    OBVIOUS
  <2> HIDE DEF analysis, withheld
  <2>3. CheckedSum(withheld) \in Totals
    BY <2>2, TransfersAdded
  <2> QED
    BY <2>1, <2>3, TotalsIs
<1> HIDE DEF outflow, outflowMore, analysis, analysisMore, p, q
<1>7. SignerKeys(more) = SignerKeys(rtx)
  BY DEF SignerKeys, Grows
<1>8. /\ f.base \in Nat /\ f.signature \in Nat /\ f.payment \in Nat
      /\ f.outflow = outflow /\ g.outflow = outflowMore /\ f.withheld = analysis.withheld
      /\ g.base = f.base /\ g.signature = f.signature
      /\ g.withheld = analysisMore.withheld /\ (analysisMore.found => g.payment = 0)
  BY <1>2, <1>7, MaxU64Assumption DEF FeeOf, LamportsPerSignature, PaymentInstructionLamports
<1> HIDE DEF f, g
<1>9. /\ AtMost(Components(g), Components(f))
      /\ Components(f) \in Totals /\ Components(g) \in Totals
  <2>1. f.withheld # FAILED => g.payment = 0 /\ g.withheld = f.withheld
    BY <1>5, <1>8
  <2> QED
    BY <1>3, <1>4, <1>6, <1>8, <2>1, PartsLess
<1>10. AtMost(WithMargin(Components(g), c.margin), WithMargin(Components(f), c.margin))
  BY <1>9, MarginLess
<1>11. WithFixed(c, view) \in Totals
  BY TotalsIs, Zenon DEF WithFixed, TokenValue
<1>12. AtMost(ByModel(c, g, view).total, ByModel(c, f, view).total)
  <2>1. CASE c.model = "free"
    BY <2>1 DEF ByModel, AtMost, FAILED
  <2>2. CASE c.model = "fixed"
    BY <1>11, <2>2, TotalsIs DEF ByModel, AtMost
  <2>3. CASE c.model = "strict"
    BY <1>9, <1>11, <2>3, TotalsIs DEF ByModel, AtMost
  <2>4. CASE c.model = "margin"
    BY <1>10, <2>4 DEF ByModel
  <2> QED
    BY <2>1, <2>2, <2>3, <2>4
<1> QED
  BY <1>1, <1>12

(* Who a transfer pays does not depend on a payment behind it              *)
(* (token.rs:441).                                                         *)
LEMMA PayeeStays ==
  ASSUME NEW c, NEW T, NEW a \in Seq(T), NEW b, NEW ix, Longer(a, b, ix),
         ix.program # "ata", NEW t, NEW view
  PROVE  Payee(c, t, b, view) = Payee(c, t, a, view)
<1> DEFINE n == Len(a)
           A == AtaCreations(a, t.to)
           B == AtaCreations(b, t.to)
<1>1. /\ n \in Nat /\ b[n + 1] = ix /\ DOMAIN a = 1..n /\ DOMAIN b = 1..(n + 1)
      /\ \A i \in 1..n : b[i] = a[i]
  BY DEF Longer
<1>2. B = A /\ A \subseteq 1..n
  <2>1. /\ A = {i \in 1..n : CreatesAta(a[i], t.to)}
        /\ B = {i \in 1..(n + 1) : CreatesAta(b[i], t.to)}
    BY <1>1 DEF AtaCreations
  <2>2. ~CreatesAta(ix, t.to)
    BY DEF CreatesAta
  <2> HIDE DEF n, A, B
  <2> QED
    BY <1>1, <2>1, <2>2
<1>3. A # {} => b[Min(A)] = a[Min(A)]
  <2> SUFFICES ASSUME A # {} PROVE b[Min(A)] = a[Min(A)]
    OBVIOUS
  <2> HIDE DEF A, B
  <2>1. A \subseteq Nat
    BY <1>1, <1>2
  <2>2. \E x \in A : \A y \in A : x <= y
    BY <2>1, LeastOf
  <2>3. Min(A) \in A
    BY <2>2 DEF Min
  <2> QED
    BY <1>1, <1>2, <2>3
<1>4. CASE view.seen[t.to].status = "found"
  BY <1>4 DEF Payee
<1>5. CASE view.seen[t.to].status = "missing" /\ A = {}
  <2> HIDE DEF A, B
  <2>1. Payee(c, t, a, view) = Refused
    BY <1>5 DEF Payee, A
  <2>2. Payee(c, t, b, view) = Refused
    BY <1>2, <1>5 DEF Payee, B
  <2> QED
    BY <2>1, <2>2
<1>6. CASE view.seen[t.to].status = "missing" /\ A # {}
  <2> DEFINE Created(accounts) == [owner |-> At(accounts, 2), mint |-> At(accounts, 3)]
             Made(accounts) ==
               IF t.program = "spl2022"
                    => ExtensionsAllowedAtCreation(c, t, Created(accounts).mint, view.fresh)
               THEN Created(accounts) ELSE Refused
  <2>1. Payee(c, t, a, view) = Made(a[Min(A)].accounts)
    BY <1>6, Zenon DEF Payee
  <2>2. Payee(c, t, b, view) = Made(b[Min(B)].accounts)
    BY <1>2, <1>6, Zenon DEF Payee
  <2> HIDE DEF A, B, Made
  <2> QED
    BY <1>2, <1>3, <1>6, <2>1, <2>2
<1>7. CASE view.seen[t.to].status \notin {"found", "missing"}
  BY <1>7 DEF Payee
<1> QED
  BY <1>4, <1>5, <1>6, <1>7

(* What is paid in all is what was paid before, and the payment            *)
(* (token.rs:582).                                                         *)
LEMMA PaidMore ==
  ASSUME NEW c, NEW T, NEW a \in Seq(T), NEW ix, IsTokenTransfer(ix), ix.program # "ata",
         NEW view
  PROVE  /\ PaidLamports(c, Append(a, ix), view) =
              CheckedAdd(PaidLamports(c, a, view),
                         PaidBy(c, Parsed(ix), Payee(c, Parsed(ix), Append(a, ix), view), view))
         /\ PaidLamports(c, a, view) \in Totals
<1> DEFINE b == Append(a, ix)
           p == TokenTransfers(a)
           q == TokenTransfers(b)
           n == Len(p)
           Paid(t, instructions) == PaidBy(c, t, Payee(c, t, instructions, view), view)
           A == [i \in DOMAIN p |-> Paid(p[i], a)]
           B == [i \in DOMAIN q |-> Paid(q[i], b)]
           last == Paid(Parsed(ix), b)
<1>1. Longer(p, q, Parsed(ix)) /\ Longer(a, b, ix)
  BY TransferAppended, AppendedIs
<1>2. PaidLamports(c, a, view) = CheckedSum(A) /\ PaidLamports(c, b, view) = CheckedSum(B)
  BY Zenon DEF PaidLamports
<1> HIDE DEF b
<1>3. \A t : Paid(t, b) = Paid(t, a)
  <2> SUFFICES ASSUME NEW t PROVE Paid(t, b) = Paid(t, a)
    OBVIOUS
  <2>1. Payee(c, t, b, view) = Payee(c, t, a, view)
    BY <1>1, PayeeStays
  <2> QED
    BY <2>1
<1>4. /\ n \in Nat /\ q[n + 1] = Parsed(ix) /\ DOMAIN p = 1..n /\ DOMAIN q = 1..(n + 1)
      /\ \A i \in 1..n : q[i] = p[i]
  BY <1>1 DEF Longer
<1> HIDE DEF Paid, p, q, n
<1>5. Longer(A, B, last)
  <2>1. DOMAIN A = 1..n /\ DOMAIN B = 1..(n + 1) /\ n + 1 \in Nat
    BY <1>4
  <2>2. n + 1 \in 1..(n + 1) /\ \A i \in 1..n : i \in 1..(n + 1)
    BY <1>4
  <2>3. (\A i \in 1..n : B[i] = A[i]) /\ B[n + 1] = last
    BY <1>3, <1>4, <2>2
  <2> HIDE DEF A, B, last
  <2>4. Len(A) = n /\ Len(B) = n + 1
    BY <1>4, <2>1
  <2> QED
    BY <1>4, <2>1, <2>3, <2>4 DEF Longer
<1> HIDE DEF A, B, last
<1>6. CheckedSum(B) = CheckedAdd(CheckedSum(A), last) /\ CheckedSum(A) \in Totals
  BY <1>5, SumMore
<1> QED
  BY <1>2, <1>6 DEF b, last, Paid

\* A payment that is found among the instructions, at its value.
WorthIt(payer, ix, instructions, view, value) ==
  /\ Pays(conf, payer, ix, view)
  /\ PaidBy(conf, Parsed(ix), Payee(conf, Parsed(ix), instructions, view), view) = value

(* A payment in a token that keeps no share can be read, counted and       *)
(* found, and counts at its value (token.rs:453).                          *)
LEMMA PaymentCounts ==
  ASSUME conf.payTo # Nobody, NEW payer, NEW view, NEW mint \in conf.paidTokens,
         mint \in DOMAIN view.price, ~view.fresh[mint].charges,
         NEW source \in Holding(mint, view), NEW to \in Holding(mint, view),
         Payable(mint, source, to, view), NEW wallet, wallet # payer, NEW n,
         TokenValue(n, view.price[mint]) # FAILED, NEW instructions
  PROVE  WorthIt(payer, Payment(view.seen[to].program, mint, source, to, wallet, n),
                 instructions, view, TokenValue(n, view.price[mint]))
<1> DEFINE program == view.seen[to].program
           ix == Payment(program, mint, source, to, wallet, n)
           t == [program |-> program, type |-> "Transfer", amount |-> n,
                 who |-> {wallet}, source |-> source, mint |-> mint, to |-> to]
<1>1. /\ HoldsTokens(view.seen[to]) /\ view.seen[to].mint = mint
      /\ HoldsTokens(view.seen[source]) /\ view.seen[source].mint = mint
  BY DEF Holding
<1>2. view.seen[to].status = "found" /\ view.seen[to].holds /\ IsTokenProgram(program)
  BY <1>1 DEF HoldsTokens
<1>3. view.seen[to].owner = conf.payTo
  BY DEF Payable
<1>4. program = "spl2022" =>
        /\ view.fresh[mint].status = "found"
        /\ ExtensionsAllowed(conf, [source |-> source, to |-> to], mint, view.fresh)
  BY DEF Payable, ExtensionsAllowed
<1>5. /\ IsTokenTransfer(ix) /\ ~Malformed(ix) /\ ix.program \notin {"system", "ata"}
      /\ Parsed(ix) = t
  <2> HIDE DEF program
  <2>1. ReadAs(ix, program, mint, source, to, wallet, n)
    BY <1>2, PaymentIs
  <2> HIDE DEF ix
  <2> QED
    BY <2>1 DEF ReadAs
<1> HIDE DEF program, ix, t
<1>6. /\ t.program = program /\ t.amount = n /\ t.who = {wallet} /\ t.source = source
      /\ t.mint = mint /\ t.to = to
  BY DEF t
<1>7. MintOf(t, view.seen) = mint
  BY <1>1, <1>6 DEF MintOf
<1>8. Welcome(payer, t, view)
  BY <1>1, <1>6, <1>7 DEF Welcome
<1>9. Found(conf, t, view)
  <2>1. IsPayment(t, conf.payTo, view.seen)
    BY <1>1, <1>3, <1>6 DEF IsPayment
  <2>2. FeeWithheld(t, view) = 0
    BY <1>6 DEF FeeWithheld
  <2> QED
    BY <1>4, <1>6, <2>1, <2>2 DEF Found
<1>10. Pays(conf, payer, ix, view)
  BY <1>5, <1>8, <1>9 DEF Pays
<1>11. Payee(conf, t, instructions, view) = [owner |-> conf.payTo, mint |-> mint]
  <2>1. t.program = "spl2022" => ExtensionsAllowed(conf, t, mint, view.fresh)
    BY <1>4, <1>6 DEF ExtensionsAllowed
  <2>2. (IF t.mint = Nobody THEN view.seen[t.to].mint ELSE t.mint) = mint
    BY <1>1, <1>6
  <2> QED
    BY <1>1, <1>2, <1>3, <1>6, <2>1, <2>2 DEF Payee
<1>12. Payee(conf, t, instructions, view) # Refused
  BY <1>11 DEF Refused
<1>13. PaidBy(conf, t, Payee(conf, t, instructions, view), view) =
         TokenValue(n, view.price[mint])
  BY <1>6, <1>11, <1>12 DEF PaidBy
<1> QED
  BY <1>5, <1>10, <1>13 DEF ix, program, WorthIt

(* What is owed with a payment of the estimate is covered by it.           *)
LEMMA QuoteIsEnough ==
  ASSUME conf.model \in {"free", "fixed", "strict", "margin"}, conf.margin \in Nat,
         conf.payTo # Nobody, NEW payer, NEW rtx, NEW T, Amounts(T),
         rtx.instructions \in Seq(T), NEW view, view.baseFee \in 0..MaxU64, NEW order \in Orders,
         \A k \in DOMAIN view.price :
           view.price[k].num \in Nat /\ view.price[k].den \in Nat \ {0},
         NEW fee \in Nat, fee = Owed(payer, rtx, view, order),
         NEW mint \in conf.paidTokens, Quotable(rtx, view, mint, fee),
         NEW n, n = FeeInToken(conf, fee, mint, view),
         NEW source \in Holding(mint, view), NEW to \in Holding(mint, view),
         Payable(mint, source, to, view), NEW wallet, wallet # payer,
         NEW more, Grows(rtx, more, Payment(view.seen[to].program, mint, source, to, wallet, n))
  PROVE  Covers(payer, more, view, order)
<1> DEFINE ix == Payment(view.seen[to].program, mint, source, to, wallet, n)
           rate == view.price[mint]
           value == TokenValue(n, rate)
           before == PaidLamports(conf, rtx.instructions, view)
           owed == Owed(payer, more, view, order)
           U == T \cup {ix}
<1>1. mint \in DOMAIN view.price /\ n = TokensFor(fee, rate) /\ n # FAILED
  BY DEF Quotable, FeeInToken
<1>2. CheckedAdd(before, value) # FAILED /\ ~view.fresh[mint].charges
  BY DEF Quotable
<1>3. rate.num \in Nat /\ rate.den \in Nat \ {0}
  BY <1>1
<1>4. before # FAILED /\ value # FAILED
  BY <1>2, Zenon DEF CheckedAdd
<1>5. CheckedAdd(before, value) = before + value
  BY <1>2, <1>4, Zenon DEF CheckedAdd, Checked
<1>6. value >= fee
  BY <1>1, <1>3, <1>4, TokensCover
<1>7. WorthIt(payer, ix, Append(rtx.instructions, ix), view, value)
  <2>1. mint \in DOMAIN view.price /\ TokenValue(n, view.price[mint]) # FAILED
    BY <1>1, <1>4
  <2> QED
    BY <1>2, <2>1, PaymentCounts
<1>8. n \in 0..MaxU64 /\ ix.amount = n
  <2>1. n = FAILED \/ n \in 0..MaxU64
    BY <1>1, CheckedIs, Zenon DEF TokensFor
  <2> QED
    BY <1>1, <2>1 DEF Payment
<1>9. value \in Totals
  BY TotalsIs, Zenon DEF TokenValue
<1> HIDE DEF ix, value, rate
<1>10. /\ Amounts(U) /\ rtx.instructions \in Seq(U) /\ ix \in U
  BY <1>8 DEF Amounts
<1> HIDE DEF U
<1>11. Grows(rtx, more, ix)
  BY DEF ix
<1>12. PaidLamports(conf, more.instructions, view) = CheckedAdd(before, value) /\ before \in Totals
  <2>1. IsTokenTransfer(ix) /\ ix.program # "ata"
    BY <1>7 DEF Pays, WorthIt
  <2>2. /\ PaidLamports(conf, Append(rtx.instructions, ix), view) = CheckedAdd(before, value)
        /\ before \in Totals
    BY <1>7, <1>10, <2>1, PaidMore DEF WorthIt
  <2> QED
    BY <1>11, <2>2, Zenon DEF Grows
<1>13. AtMost(owed, fee)
  BY <1>7, <1>10, <1>11, OwedLess DEF Owed, WorthIt
<1> HIDE DEF before, owed
<1>14. owed # FAILED /\ owed <= fee
  BY <1>13 DEF AtMost, FAILED
<1>15. owed \in Int
  <2>1. owed \in Totals \cup {0}
    <3>1. \A g : Components(g) \in Totals /\ WithMargin(g, conf.margin) \in Totals
      BY TotalsIs, Zenon DEF Components, WithMargin
    <3>2. WithFixed(conf, view) \in Totals
      BY TotalsIs, Zenon DEF WithFixed, TokenValue
    <3>3. \A g : ByModel(conf, g, view).total \in Totals \cup {0}
      <4> SUFFICES ASSUME NEW g PROVE ByModel(conf, g, view).total \in Totals \cup {0}
        OBVIOUS
      <4>1. CASE conf.model = "free"
        BY <4>1 DEF ByModel
      <4>2. CASE conf.model = "fixed"
        BY <3>2, <4>2 DEF ByModel
      <4>3. CASE conf.model = "strict"
        BY <3>2, <4>3, TotalsIs DEF ByModel
      <4>4. CASE conf.model = "margin"
        BY <3>1, <4>4 DEF ByModel
      <4> QED
        BY <4>1, <4>2, <4>3, <4>4
    <3> QED
      BY <3>3 DEF owed, Owed, KoraFee
  <2> QED
    BY <2>1, TotalsIs
<1>16. before + value >= owed
  <2>1. before \in Int /\ before >= 0 /\ value \in Int
    BY <1>4, <1>9, <1>12, TotalsIs
  <2> QED
    BY <1>6, <1>14, <1>15, <2>1
<1>17. PaymentSuffices(conf, owed, more.instructions, view)
  BY <1>2, <1>5, <1>12, <1>16 DEF PaymentSuffices, Reaches
<1> QED
  BY <1>14, <1>17 DEF Covers, owed

(* What a transaction is made of, and what it becomes with a payment.      *)
LEMMA GrownIs ==
  ASSUME NEW r, NEW tables, NEW ix
  PROVE  Grows(TxOf(r, tables), Paying(TxOf(r, tables), ix), ix)
<1> DEFINE rtx == TxOf(r, tables)
<1>1. rtx = [keys |-> rtx.keys, signers |-> rtx.signers, signatures |-> rtx.signatures,
             instructions |-> rtx.instructions]
  BY DEF TxOf, KoraBuilt, FromTransaction
<1> HIDE DEF rtx
<1>2. Grows(rtx, Paying(rtx, ix), ix)
  BY <1>1 DEF Grows, Paying
<1> QED
  BY <1>2 DEF rtx

(* A wallet that adds a payment of the estimate has paid enough, whatever  *)
(* its transaction moves and in whatever allowed token it pays, if the     *)
(* world has not moved (fee.rs:346, token.rs:192).                         *)
THEOREM QuoteSufficesHolds == Spec => []QuoteSuffices
<1>1. RequestInv => QuoteSuffices
  <2> SUFFICES ASSUME RequestInv, NEW s \in Slots, req[s].stage = "price",
                      NEW view \in Views, NEW order \in Orders,
                      NEW mint \in conf.paidTokens,
                      Quotable(Resolved(s), view, mint,
                               Owed(req[s].payer, Resolved(s), view, order)),
                      NEW source \in Holding(mint, view), NEW to \in Holding(mint, view),
                      NEW wallet \in Wallets \ {req[s].payer},
                      Payable(mint, source, to, view)
               PROVE  Covers(req[s].payer,
                             Paying(Resolved(s),
                                    Payment(view.seen[to].program, mint, source, to, wallet,
                                            FeeInToken(conf, Owed(req[s].payer, Resolved(s),
                                                                  view, order), mint, view))),
                             view, order)
    BY Zenon DEF QuoteSuffices, QuoteCovers
  <2> DEFINE payer == req[s].payer
             rtx == Resolved(s)
             fee == Owed(payer, rtx, view, order)
             n == FeeInToken(conf, fee, mint, view)
             ix == Payment(view.seen[to].program, mint, source, to, wallet, n)
             more == Paying(rtx, ix)
  <2>1. req[s].name \in DOMAIN Cases /\ rtx = TxOf(req[s], TablesIn(Actual))
    BY DEF RequestInv, RequestsSound, Sound, Resolved, TxOf, Case
  <2>2. PICK T : Amounts(T) /\ rtx.instructions \in Seq(T)
    BY <2>1, InstructionsTyped
  <2>3. /\ conf.model \in {"free", "fixed", "strict", "margin"} /\ conf.margin \in Nat
        /\ conf.payTo # Nobody
    BY PaymasterAssumption DEF RequestInv, WorldTyped, conf, bounds
  <2>4. view.baseFee \in 0..MaxU64 /\ view.price = price /\ price \in Prices
    BY PaymasterAssumption DEF Views, RequestInv, WorldTyped
  <2>5. \A k \in DOMAIN view.price :
          view.price[k].num \in Nat /\ view.price[k].den \in Nat \ {0}
    BY <2>4, PaymasterAssumption
  <2>6. Grows(rtx, more, ix)
    BY <2>1, GrownIs
  <2>7. Quotable(rtx, view, mint, fee) /\ wallet # payer
    OBVIOUS
  <2> HIDE DEF payer, rtx
  <2>8. fee \in Nat
    <3>1. fee > 0
      BY <2>7, Zenon DEF Quotable
    <3>2. KoraFee(conf, payer, rtx, view, order).total # FAILED
      BY <3>1 DEF Owed, FAILED
    <3>3. Listed(rtx.instructions)
      BY <2>2 DEF Listed
    <3>4. KoraFee(conf, payer, rtx, view, order) \in FeeType
      BY <2>3, <2>4, <3>2, <3>3, FeeTyped
    <3>5. KoraFee(conf, payer, rtx, view, order).total \in 0..MaxU64
      BY <3>4 DEF FeeType
    <3> QED
      BY <3>5, MaxU64Assumption DEF Owed
  <2> HIDE DEF fee, n, more
  <2>9. fee = Owed(payer, rtx, view, order) /\ n = FeeInToken(conf, fee, mint, view)
    BY DEF fee, n
  <2>10. Covers(payer, more, view, order)
    BY <2>2, <2>3, <2>4, <2>5, <2>6, <2>7, <2>8, <2>9, QuoteIsEnough
  <2> QED
    BY <2>10, Zenon DEF more, n, fee, rtx, payer
<1> QED
  BY <1>1, RequestInvariant, PTL
=============================================================================
