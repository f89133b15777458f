---------------------------- MODULE AuditLogProofs ----------------------------
(***************************************************************************)
(* Proofs about the audit log, for any number of agents, any buffer and    *)
(* page size and any amounts: the volume check 5 reads is too small only   *)
(* by what was pushed out of the buffer, and a walk through the pages      *)
(* misses nothing, however many entries arrive meanwhile.                  *)
(*                                                                         *)
(* The invariant says that the buffer is the end of the file as far as the *)
(* process wrote it, and that an entry the client still misses has a full  *)
(* page of newer entries above it for every page the client has had.       *)
(***************************************************************************)
EXTENDS AuditLog, FiniteSetTheorems, FunctionTheorems, SequenceTheorems,
        WellFoundedInduction, TLAPS

-----------------------------------------------------------------------------
(* The invariant.                                                          *)
Filed ==
  /\ file \in Seq(EntryType) /\ Len(file) <= MaxEntries
  /\ \A i \in 1..Len(file) : file[i].id = i

\* The buffer is the file without its first k entries.
Newest(k) ==
  /\ k \in boot..Len(file)
  /\ Len(buffer) = Len(file) - k /\ Len(buffer) <= MAX_IN_MEMORY
  /\ k > boot => Len(buffer) = MAX_IN_MEMORY
  /\ \A i \in 1..Len(buffer) : buffer[i] = file[k + i]

Buffered ==
  /\ buffer \in Seq(EntryType) /\ boot \in Nat
  /\ \E k \in Nat : Newest(k)

Tabled == inFlight \subseteq EntryType /\ rows \subseteq EntryType /\ IsFiniteSet(rows)

ReaderType == [page: Nat, wanted: SUBSET EntryType, seen: SUBSET EntryType, done: BOOLEAN]

Newer(e)  == {f \in rows : f.ts > e.ts}
Unique(e) == \A f \in rows \ {e} : f.ts # e.ts

\* Every page the client has had without finding e was full of newer rows...
BehindRows ==
  production =>
    /\ reader.wanted \subseteq rows
    /\ \A e \in reader.wanted : Unique(e) /\ e \notin reader.seen =>
         ~reader.done /\ Cardinality(Newer(e)) >= reader.page * Limit

\* ...or of newer entries of the buffer.
BehindBuffer ==
  ~production =>
    /\ \A e \in reader.wanted : e.id <= Len(file)
    /\ \A e \in reader.wanted \cap ToSet(buffer) : e \notin reader.seen =>
         ~reader.done /\ Len(file) - e.id >= reader.page * Limit

LogInv ==
  /\ production \in BOOLEAN /\ now \in 0..MaxNow
  /\ Filed /\ Buffered /\ Tabled
  /\ reader \in ReaderType /\ (reader.page = 0 => reader.wanted = {})
  /\ BehindRows /\ BehindBuffer

-----------------------------------------------------------------------------
(* The entries of a sequence.                                              *)
LEMMA Entries ==
  ASSUME NEW s \in Seq(EntryType)
  PROVE  /\ \A e : e \in ToSet(s) <=> \E i \in 1..Len(s) : s[i] = e
         /\ ToSet(s) \subseteq EntryType
         /\ Len(s) \in Nat /\ \A i \in 1..Len(s) : s[i] \in EntryType
BY DEF ToSet

(* The next entry takes the next place in the file.                        *)
LEMMA LogFiles ==
  ASSUME LogInv, NEW a \in Agents, NEW event \in Events, NEW x \in Nat, Log(a, event, x)
  PROVE  /\ Filed' /\ Tabled' /\ Len(file)' = Len(file) + 1
         /\ \A i \in 1..Len(file) : file'[i] = file[i]
<1> DEFINE full == [id |-> Len(file) + 1, ts |-> now, agentId |-> a, event |-> event,
                    amountIn |-> x]
<1>1. /\ Len(file) < MaxEntries /\ file' = Append(file, full)
      /\ inFlight' = IF production THEN inFlight \cup {full} ELSE inFlight
      /\ UNCHANGED rows
  BY DEF Log
<1>2. file \in Seq(EntryType) /\ Len(file) \in Nat /\ now \in Nat
  BY BoundsAssumption DEF LogInv, Filed
<1>3. full \in EntryType
  BY <1>2 DEF EntryType
<1>4. full.id = Len(file) + 1
  OBVIOUS
<1> HIDE DEF full
<1>5. /\ file' \in Seq(EntryType) /\ Len(file') = Len(file) + 1
      /\ \A i \in 1..Len(file) : file'[i] = file[i]
      /\ file'[Len(file) + 1] = full
  BY <1>1, <1>2, <1>3
<1>6. \A i \in 1..Len(file') : file'[i].id = i
  <2>1. ASSUME NEW i \in 1..Len(file') PROVE file'[i].id = i
    <3>1. CASE i = Len(file) + 1
      BY <1>4, <1>5, <3>1
    <3>2. CASE i # Len(file) + 1
      <4>1. i \in 1..Len(file)
        BY <1>2, <1>5, <3>2
      <4> QED
        BY <1>5, <4>1 DEF LogInv, Filed
    <3> QED
      BY <3>1, <3>2
  <2> QED
    BY <2>1
<1>7. Len(file') <= MaxEntries
  BY <1>1, <1>2, <1>5, BoundsAssumption
<1>8. Tabled'
  BY <1>1, <1>3 DEF LogInv, Tabled
<1> QED
  BY <1>5, <1>6, <1>7, <1>8 DEF Filed

(* The buffer follows, and drops its oldest entry when it is full.         *)
LEMMA LogBuffers ==
  ASSUME LogInv, NEW a \in Agents, NEW event \in Events, NEW x \in Nat, Log(a, event, x)
  PROVE  /\ Buffered'
         /\ ToSet(buffer)' \subseteq ToSet(buffer) \cup {file'[Len(file) + 1]}
<1> DEFINE full == [id |-> Len(file) + 1, ts |-> now, agentId |-> a, event |-> event,
                    amountIn |-> x]
<1>1. /\ buffer' = Shifted(Append(buffer, full)) /\ file' = Append(file, full)
      /\ UNCHANGED boot
  BY DEF Log
<1>2. /\ file \in Seq(EntryType) /\ buffer \in Seq(EntryType)
      /\ Len(file) \in Nat /\ Len(buffer) \in Nat /\ boot \in Nat /\ now \in Nat
      /\ MAX_IN_MEMORY \in Nat /\ MAX_IN_MEMORY > 0
  BY BoundsAssumption, BufferAssumption DEF LogInv, Filed, Buffered
<1>3. full \in EntryType
  BY <1>2 DEF EntryType
<1> HIDE DEF full
<1>4. PICK k \in Nat : Newest(k)
  BY DEF LogInv, Buffered
<1>5. PICK N \in Nat, L \in Nat, M \in Nat : N = Len(file) /\ L = Len(buffer) /\ M = MAX_IN_MEMORY
  BY <1>2
<1>6. /\ k \in boot..N /\ L = N - k /\ L <= M /\ (k > boot => L = M) /\ M > 0
      /\ \A i \in 1..L : buffer[i] = file[k + i]
  BY <1>2, <1>4, <1>5 DEF Newest
<1>7. /\ Len(file') = N + 1 /\ file'[N + 1] = full
      /\ \A i \in 1..N : file'[i] = file[i]
  BY <1>1, <1>2, <1>3, <1>5
<1> DEFINE longer == Append(buffer, full)
<1>8. /\ longer \in Seq(EntryType) /\ Len(longer) = L + 1 /\ longer[L + 1] = full
      /\ \A i \in 1..L : longer[i] = buffer[i]
  BY <1>2, <1>3, <1>5
<1>9. \A i \in 1..(L + 1) : longer[i] = file'[k + i]
  <2>1. ASSUME NEW i \in 1..L PROVE longer[i] = file'[k + i]
    <3>1. k + i \in 1..N
      BY <1>2, <1>6
    <3> QED
      BY <1>6, <1>7, <1>8, <3>1
  <2>2. k + (L + 1) = N + 1
    BY <1>6
  <2>3. longer[L + 1] = file'[k + (L + 1)]
    BY <1>7, <1>8, <2>2
  <2>4. \A i \in 1..(L + 1) : i \in 1..L \/ i = L + 1
    OBVIOUS
  <2> QED
    BY <2>1, <2>3, <2>4
<1>10. \A i \in 1..(L + 1) : longer[i] \in ToSet(buffer) \cup {full}
  <2>1. \A i \in 1..(L + 1) : i \in 1..L \/ i = L + 1
    OBVIOUS
  <2>2. \A i \in 1..L : buffer[i] \in ToSet(buffer)
    BY <1>2, <1>5, Entries
  <2> QED
    BY <1>8, <2>1, <2>2
<1> HIDE DEF longer
<1>11. CASE L + 1 > M
  <2>1. buffer' = Tail(longer)
    BY <1>1, <1>5, <1>8, <1>11 DEF Shifted, longer
  <2>2. /\ buffer' \in Seq(EntryType) /\ Len(buffer') = L
        /\ \A i \in 1..L : buffer'[i] = longer[i + 1]
    <3>1. longer # <<>>
      BY <1>8
    <3> QED
      BY <1>8, <2>1, <3>1
  <2>3. \A i \in 1..L : i + 1 \in 1..(L + 1) /\ k + (i + 1) = (k + 1) + i
    BY <1>6
  <2>4. \A i \in 1..L : buffer'[i] = file'[(k + 1) + i]
    BY <1>9, <2>2, <2>3
  <2>5. k + 1 \in boot..(N + 1) /\ L = (N + 1) - (k + 1) /\ L = M /\ k + 1 \in Nat
    BY <1>2, <1>6, <1>11
  <2>6. Newest(k + 1)'
    <3>1. /\ k + 1 \in boot'..Len(file') /\ Len(buffer') = Len(file') - (k + 1)
          /\ Len(buffer') <= MAX_IN_MEMORY /\ Len(buffer') = MAX_IN_MEMORY
      BY <1>1, <1>5, <1>6, <1>7, <2>2, <2>5
    <3>2. \A i \in 1..Len(buffer') : buffer'[i] = file'[(k + 1) + i]
      BY <2>2, <2>4
    <3> QED
      BY <3>1, <3>2 DEF Newest
  <2>7. ToSet(buffer') \subseteq ToSet(buffer) \cup {full}
    <3>1. \A i \in 1..L : buffer'[i] \in ToSet(buffer) \cup {full}
      BY <1>10, <2>2, <2>3
    <3>2. PICK b \in Seq(EntryType) : b = buffer'
      BY <2>2
    <3>3. \A e \in ToSet(b) : \E i \in 1..L : e = b[i]
      BY <2>2, <3>2, Entries
    <3>4. ToSet(b) \subseteq ToSet(buffer) \cup {full}
      BY <3>1, <3>2, <3>3, Zenon
    <3> QED
      BY <3>2, <3>4
  <2> QED
    BY <1>1, <1>2, <1>5, <1>7, <2>2, <2>5, <2>6, <2>7 DEF Buffered
<1>12. CASE ~(L + 1 > M)
  <2>1. buffer' = longer
    BY <1>1, <1>5, <1>8, <1>12 DEF Shifted, longer
  <2>2. k = boot /\ k \in boot..(N + 1) /\ L + 1 = (N + 1) - k /\ L + 1 <= M
    BY <1>2, <1>6, <1>12
  <2>3. Newest(k)'
    <3>1. /\ k \in boot'..Len(file') /\ Len(buffer') = Len(file') - k
          /\ Len(buffer') <= MAX_IN_MEMORY /\ ~(k > boot')
      BY <1>1, <1>2, <1>5, <1>6, <1>7, <1>8, <2>1, <2>2
    <3>2. \A i \in 1..Len(buffer') : buffer'[i] = file'[k + i]
      BY <1>8, <1>9, <2>1
    <3> QED
      BY <3>1, <3>2 DEF Newest
  <2>4. ToSet(buffer') \subseteq ToSet(buffer) \cup {full}
    BY <1>8, <1>10, <2>1, Entries
  <2> QED
    BY <1>1, <1>2, <1>5, <1>7, <1>8, <2>1, <2>3, <2>4 DEF Buffered
<1> QED
  BY <1>11, <1>12

(* What the client misses stays behind.                                    *)
LEMMA LogKeepsReader ==
  ASSUME LogInv, NEW a \in Agents, NEW event \in Events, NEW x \in Nat, Log(a, event, x)
  PROVE  LogInv'
<1>1. /\ Filed' /\ Tabled' /\ Len(file)' = Len(file) + 1 /\ Buffered'
      /\ ToSet(buffer)' \subseteq ToSet(buffer) \cup {file'[Len(file) + 1]}
  BY LogFiles, LogBuffers
<1>2. UNCHANGED <<production, now, rows, reader>>
  BY DEF Log
<1>3. reader \in ReaderType /\ Len(file) \in Nat /\ reader.page * Limit \in Nat
  <2>1. reader.page \in Nat /\ Limit \in Nat
    BY LimitAssumption DEF LogInv, ReaderType
  <2> QED
    BY <2>1 DEF LogInv, Filed
<1>4. file'[Len(file) + 1].id = Len(file) + 1
  <2>1. Len(file) + 1 \in 1..Len(file')
    BY <1>1, <1>3
  <2> QED
    BY <1>1, <2>1 DEF Filed
<1>5. BehindRows'
  BY <1>2 DEF LogInv, BehindRows, Unique, Newer
<1>6. BehindBuffer'
  <2> SUFFICES ASSUME ~production
               PROVE  /\ \A e \in reader.wanted : e.id <= Len(file)'
                      /\ \A e \in reader.wanted \cap ToSet(buffer)' : e \notin reader.seen =>
                           ~reader.done /\ Len(file)' - e.id >= reader.page * Limit
    BY <1>2 DEF BehindBuffer
  <2>1. ASSUME NEW e \in reader.wanted
        PROVE  /\ e.id \in Nat /\ e.id <= Len(file)
               /\ e \in ToSet(buffer) /\ e \notin reader.seen =>
                    ~reader.done /\ Len(file) - e.id >= reader.page * Limit
    <3>1. e \in EntryType
      BY <1>3 DEF ReaderType
    <3> QED
      BY <3>1 DEF LogInv, BehindBuffer, EntryType
  <2>2. ASSUME NEW e \in reader.wanted, e \in ToSet(buffer)' PROVE e \in ToSet(buffer)
    BY <1>1, <1>3, <1>4, <2>1, <2>2
  <2> QED
    BY <1>1, <1>3, <2>1, <2>2
<1> QED
  BY <1>1, <1>2, <1>5, <1>6 DEF LogInv

-----------------------------------------------------------------------------
(* The pages.                                                              *)

(* An entry that the page after `before' newer rows does not show has a    *)
(* whole page more of newer rows above it.                                 *)
LEMMA FullRowPage ==
  ASSUME NEW R \in SUBSET EntryType, IsFiniteSet(R), NEW before \in Nat,
         NEW P, NEW S, P \subseteq R, S \subseteq R \ P,
         Cardinality(S) = Least(before, Cardinality(R)),
         Cardinality(P) = Least(Limit, Cardinality(R) - Cardinality(S)),
         AtLeastAsNew(S, P), AtLeastAsNew(S \cup P, R \ (S \cup P)),
         NEW e \in R, e \notin P, \A f \in R \ {e} : f.ts # e.ts,
         Cardinality({f \in R : f.ts > e.ts}) >= before
  PROVE  /\ Cardinality(P) = Limit
         /\ Cardinality({f \in R : f.ts > e.ts}) >= before + Limit
<1> DEFINE N == {f \in R : f.ts > e.ts}
<1>1. /\ IsFiniteSet(S) /\ IsFiniteSet(P) /\ IsFiniteSet(N)
      /\ Cardinality(S) \in Nat /\ Cardinality(P) \in Nat /\ Cardinality(N) \in Nat
      /\ Cardinality(R) \in Nat
  <2>1. S \in SUBSET R /\ P \in SUBSET R /\ N \in SUBSET R
    OBVIOUS
  <2> QED
    BY <2>1, FS_Subset, FS_CardinalityType
<1>2. \A f \in R : f.ts \in Nat
  BY DEF EntryType
<1>3. e \notin S
  <2>1. SUFFICES ASSUME e \in S PROVE FALSE
    OBVIOUS
  <2>2. N \subseteq S \ {e}
    <3>1. ASSUME NEW f \in N PROVE f \in S \ {e}
      <4>1. f \in R /\ f.ts > e.ts /\ f.ts \in Nat /\ e.ts \in Nat
        BY <1>2
      <4>2. ~(e.ts >= f.ts)
        BY <4>1
      <4>3. f \notin P
        BY <2>1, <4>2 DEF AtLeastAsNew
      <4>4. f \in S
        BY <2>1, <4>1, <4>2, <4>3 DEF AtLeastAsNew
      <4>5. f # e
        BY <4>1
      <4> QED
        BY <4>4, <4>5
    <3> QED
      BY <3>1
  <2>3. IsFiniteSet(S \ {e}) /\ Cardinality(S \ {e}) = Cardinality(S) - 1
    BY <1>1, <2>1, FS_RemoveElement
  <2> HIDE DEF N
  <2>4. Cardinality(N) <= Cardinality(S) - 1
    BY <2>2, <2>3, FS_Subset
  <2>5. Cardinality(S) <= before
    BY <1>1 DEF Least
  <2>6. Cardinality(N) >= before
    BY DEF N
  <2> QED
    BY <1>1, <2>4, <2>5, <2>6
<1>4. S \cup P \subseteq N
  <2>1. ASSUME NEW f \in S \cup P PROVE f \in N
    <3>1. f \in R /\ f # e /\ e \in R \ (S \cup P)
      BY <1>3, <2>1
    <3>2. f.ts >= e.ts /\ f.ts # e.ts
      BY <2>1, <3>1 DEF AtLeastAsNew
    <3>3. f.ts \in Nat /\ e.ts \in Nat
      BY <1>2, <3>1
    <3> QED
      BY <3>1, <3>2, <3>3
  <2> QED
    BY <2>1
<1> HIDE DEF N
<1>5. /\ IsFiniteSet(S \cup P) /\ Cardinality(S \cup P) = Cardinality(S) + Cardinality(P)
  <2>1. S \cap P = {} /\ Cardinality({}) = 0
    BY FS_EmptySet
  <2>2. Cardinality(S \cup P) = Cardinality(S) + Cardinality(P) - Cardinality(S \cap P)
        /\ IsFiniteSet(S \cup P)
    BY <1>1, FS_Union
  <2>3. Cardinality(S \cap P) = 0
    BY <2>1, Zenon
  <2> QED
    BY <1>1, <2>2, <2>3
<1>6. Cardinality(S \cup P) <= Cardinality(N)
  BY <1>1, <1>4, FS_Subset
<1>7. Cardinality(S \cup P) + 1 <= Cardinality(R)
  <2>1. (S \cup P) \cup {e} \in SUBSET R /\ e \notin S \cup P
    BY <1>3
  <2>2. Cardinality((S \cup P) \cup {e}) = Cardinality(S \cup P) + 1
    BY <1>5, <2>1, FS_AddElement
  <2> QED
    BY <2>1, <2>2, FS_Subset
<1>8. Cardinality(P) = Limit /\ Cardinality(S) = before
  BY <1>1, <1>5, <1>7, LimitAssumption DEF Least
<1>9. Cardinality(N) >= before + Limit
  BY <1>1, <1>5, <1>6, <1>8, LimitAssumption
<1> QED
  BY <1>8, <1>9 DEF N

(* The same of the buffer: entries are numbered.                           *)
LEMMA FullBufferPage ==
  ASSUME LogInv, NEW p \in Nat, NEW e \in ToSet(buffer), e \notin BufferPage(p + 1),
         Len(file) - e.id >= p * Limit
  PROVE  /\ Cardinality(BufferPage(p + 1)) = Limit
         /\ Len(file) - e.id >= (p + 1) * Limit
<1>1. /\ file \in Seq(EntryType) /\ buffer \in Seq(EntryType)
      /\ Len(file) \in Nat /\ Len(buffer) \in Nat
  BY DEF LogInv, Filed, Buffered
<1>2. PICK k \in Nat : Newest(k)
  BY DEF LogInv, Buffered
<1>3. PICK N \in Nat, L \in Nat : N = Len(file) /\ L = Len(buffer)
  BY <1>1
<1>4. k <= N /\ L = N - k /\ \A i \in 1..L : buffer[i] = file[k + i]
  BY <1>1, <1>2, <1>3 DEF Newest, LogInv, Buffered
<1>5. \A i \in 1..L : buffer[i].id = k + i
  <2>1. ASSUME NEW i \in 1..L PROVE buffer[i].id = k + i
    <3>1. k + i \in 1..N
      BY <1>4
    <3> QED
      BY <1>3, <1>4, <3>1 DEF LogInv, Filed
  <2> QED
    BY <2>1
<1>6. PICK j \in 1..L : e = buffer[j]
  BY <1>1, <1>3, Entries
<1>7. PICK a \in Nat, b \in Nat, l \in Nat \ {0} :
        a = p * Limit /\ b = (p + 1) * Limit /\ l = Limit /\ b = a + l
  <2>1. \A x, y \in Nat : x * y \in Nat /\ (x + 1) * y = x * y + y /\ (x + 1) * y \in Nat
    OBVIOUS
  <2> QED
    BY <2>1, LimitAssumption
<1>8. N - (k + j) >= a
  BY <1>3, <1>5, <1>6, <1>7
<1>9. PICK start \in Int, end \in Int :
        start = L - Least(b, L) /\ end = L - Least(a, L)
  <2>1. Least(b, L) \in Nat /\ Least(a, L) \in Nat
    BY <1>7 DEF Least
  <2> QED
    BY <2>1
<1>10. BufferPage(p + 1) = {buffer[i] : i \in (start + 1)..end}
  <2>1. (p + 1) - 1 = p
    OBVIOUS
  <2> QED
    BY <1>3, <1>7, <1>9, <2>1 DEF BufferPage
<1>11. j <= L - a /\ a < L
  BY <1>4, <1>8
<1>12. end = L - a /\ start >= 0 /\ end <= L
  BY <1>9, <1>11 DEF Least
<1>13. ~(j \in (start + 1)..end)
  BY <1>6, <1>10
<1>14. j <= start
  BY <1>11, <1>12, <1>13
<1>15. start = L - b
  BY <1>9, <1>14 DEF Least
<1>16. Len(file) - e.id >= b
  BY <1>3, <1>4, <1>5, <1>6, <1>14, <1>15
<1> DEFINE places == (start + 1)..end
           f == [i \in places |-> buffer[i]]
<1>17. IsFiniteSet(places) /\ Cardinality(places) = l
  BY <1>7, <1>12, <1>15, FS_Interval
<1>18. ExistsBijection(places, BufferPage(p + 1))
  <2>1. places \subseteq 1..L
    BY <1>12
  <2>2. \A x, y \in places : f[x] = f[y] => x = y
    <3>1. ASSUME NEW x \in places, NEW y \in places, f[x] = f[y] PROVE x = y
      <4>1. buffer[x].id = k + x /\ buffer[y].id = k + y
        BY <1>5, <2>1
      <4>2. buffer[x] = buffer[y] /\ x \in Int /\ y \in Int
        BY <3>1
      <4> QED
        BY <4>1, <4>2
    <3> QED
      BY <3>1
  <2>3. f \in [places -> BufferPage(p + 1)]
    BY <1>10
  <2>4. \A t \in BufferPage(p + 1) : \E s \in places : f[s] = t
    BY <1>10
  <2> HIDE DEF f, places
  <2>5. f \in Bijection(places, BufferPage(p + 1))
    BY <2>2, <2>3, <2>4, Fun_IsBij
  <2> QED
    BY <2>5, Fun_ExistsBij
<1> HIDE DEF places
<1>19. Cardinality(BufferPage(p + 1)) = l
  BY <1>17, <1>18, FS_Bijection
<1> QED
  BY <1>7, <1>16, <1>19

(* A page holds stored entries only.                                       *)
LEMMA PageStored ==
  ASSUME LogInv, NEW page \in Nat \ {0}, NEW P \in Pages(page)
  PROVE  P \subseteq Stored
<1>1. CASE production
  BY <1>1 DEF Pages, RowPages, Stored
<1>2. CASE ~production
  <2>1. P = BufferPage(page)
    BY <1>2 DEF Pages
  <2>2. buffer \in Seq(EntryType) /\ Len(buffer) \in Nat
    BY DEF LogInv, Buffered
  <2>3. PICK a \in Nat, b \in Nat : a = page * Limit /\ b = (page - 1) * Limit
    <3>1. page - 1 \in Nat /\ \A x, y \in Nat : x * y \in Nat
      OBVIOUS
    <3> QED
      BY <3>1, LimitAssumption
  <2>4. ASSUME NEW i \in (Len(buffer) - Least(a, Len(buffer)) + 1)
                           ..(Len(buffer) - Least(b, Len(buffer)))
        PROVE  buffer[i] \in ToSet(buffer)
    <3>1. i \in 1..Len(buffer)
      BY <2>2 DEF Least
    <3> QED
      BY <2>2, <3>1, Entries
  <2> QED
    BY <1>2, <2>1, <2>3, <2>4 DEF BufferPage, Stored
<1> QED
  BY <1>1, <1>2 DEF LogInv

(* One more request of the client.                                         *)
LEMMA GetKeepsReader ==
  ASSUME LogInv, GetLogs
  PROVE  LogInv'
<1>1. PICK p \in Nat : p = reader.page
  BY DEF LogInv, ReaderType
<1> DEFINE wanted == IF p + 1 = 1 THEN Stored ELSE reader.wanted
<1>2. PICK P \in Pages(p + 1) :
        reader' = [page |-> p + 1, wanted |-> wanted, seen |-> reader.seen \cup P,
                   done |-> Cardinality(P) < Limit]
  BY <1>1 DEF GetLogs
<1>3. UNCHANGED <<production, now, logVars, boot>> /\ ~reader.done
  BY DEF GetLogs
<1>4. production \in BOOLEAN /\ reader \in ReaderType
  BY DEF LogInv
<1>5. Stored \subseteq EntryType
  BY Entries DEF LogInv, Tabled, Buffered, Stored
<1>6. P \subseteq EntryType
  BY <1>2, <1>5, PageStored
<1>7. wanted \subseteq EntryType
  BY <1>4, <1>5 DEF ReaderType
<1>8. p + 1 = 1 => p * Limit = 0
  <2>1. \A y \in Nat : 0 * y = 0
    OBVIOUS
  <2> QED
    BY <2>1, LimitAssumption
<1> HIDE DEF wanted
<1>9. /\ reader'.page = p + 1 /\ reader'.wanted = wanted /\ reader'.seen = reader.seen \cup P
      /\ reader'.done = (Cardinality(P) < Limit)
  BY <1>2
<1>10. reader' \in ReaderType
  <2>1. reader'.done \in BOOLEAN
    BY <1>9
  <2>2. reader.seen \cup P \in SUBSET EntryType
    BY <1>4, <1>6 DEF ReaderType
  <2> QED
    BY <1>2, <1>7, <2>2 DEF ReaderType
<1>11. PICK q \in Nat, a \in Nat : q = (p + 1) * Limit /\ a = p * Limit /\ q = a + Limit
  <2>1. \A x, y \in Nat : x * y \in Nat /\ (x + 1) * y \in Nat /\ (x + 1) * y = x * y + y
    OBVIOUS
  <2> QED
    BY <2>1, LimitAssumption
<1>12. BehindRows'
  <2> SUFFICES ASSUME production
               PROVE  /\ wanted \subseteq rows
                      /\ \A e \in wanted : Unique(e) /\ e \notin reader.seen \cup P =>
                           ~(Cardinality(P) < Limit) /\ Cardinality(Newer(e)) >= q
    BY <1>3, <1>9, <1>11 DEF BehindRows, logVars, Unique, Newer
  <2>1. wanted \subseteq rows
    BY DEF wanted, Stored, LogInv, BehindRows
  <2>2. ASSUME NEW e \in wanted, Unique(e), e \notin reader.seen \cup P
        PROVE  ~(Cardinality(P) < Limit) /\ Cardinality(Newer(e)) >= q
    <3>1. Cardinality(Newer(e)) >= a
      <4>1. CASE p + 1 = 1
        <5>1. IsFiniteSet(Newer(e))
          <6>1. Newer(e) \in SUBSET rows /\ IsFiniteSet(rows)
            BY DEF Newer, LogInv, Tabled
          <6> QED
            BY <6>1, FS_Subset
        <5>2. Cardinality(Newer(e)) \in Nat
          BY <5>1, FS_CardinalityType
        <5> QED
          BY <1>8, <1>11, <4>1, <5>2
      <4>2. CASE p + 1 # 1
        <5>1. e \in reader.wanted
          BY <4>2 DEF wanted
        <5> QED
          BY <1>1, <1>11, <2>2, <5>1 DEF LogInv, BehindRows
      <4> QED
        BY <4>1, <4>2
    <3>2. /\ P \in SUBSET rows
          /\ Cardinality(P) = Least(Limit, Cardinality(rows) - Least(a, Cardinality(rows)))
          /\ \E S \in SUBSET (rows \ P) :
               /\ Cardinality(S) = Least(a, Cardinality(rows))
               /\ AtLeastAsNew(S, P)
               /\ AtLeastAsNew(S \cup P, rows \ (S \cup P))
      <4>1. P \in RowPages(p + 1) /\ (p + 1) - 1 = p
        BY <1>2 DEF Pages
      <4> QED
        BY <1>11, <4>1 DEF RowPages
    <3>3. PICK S \in SUBSET (rows \ P) :
               /\ Cardinality(S) = Least(a, Cardinality(rows))
               /\ AtLeastAsNew(S, P)
               /\ AtLeastAsNew(S \cup P, rows \ (S \cup P))
      BY <3>2
    <3>4. rows \in SUBSET EntryType /\ IsFiniteSet(rows) /\ e \in rows /\ e \notin P
      BY <2>1, <2>2 DEF LogInv, Tabled
    <3>5. Cardinality(P) = Limit /\ Cardinality(Newer(e)) >= a + Limit
      BY <2>2, <3>1, <3>2, <3>3, <3>4, FullRowPage DEF Newer, Unique
    <3> QED
      BY <1>11, <3>5, LimitAssumption
  <2> QED
    BY <2>1, <2>2
<1>13. BehindBuffer'
  <2> SUFFICES ASSUME ~production
               PROVE  /\ \A e \in wanted : e.id <= Len(file)
                      /\ \A e \in wanted \cap ToSet(buffer) : e \notin reader.seen \cup P =>
                           ~(Cardinality(P) < Limit) /\ Len(file) - e.id >= q
    BY <1>3, <1>9, <1>11 DEF BehindBuffer, logVars
  <2>1. P = BufferPage(p + 1)
    BY <1>2 DEF Pages
  <2>2. \A e \in ToSet(buffer) : e.id \in Nat /\ e.id <= Len(file)
    <3>1. PICK k \in Nat : Newest(k)
      BY DEF LogInv, Buffered
    <3>2. PICK N \in Nat, L \in Nat : N = Len(file) /\ L = Len(buffer)
      BY DEF LogInv, Filed, Buffered
    <3>3. boot \in Nat /\ k \in boot..N /\ L = N - k
          /\ \A i \in 1..L : buffer[i] = file[k + i]
      BY <3>1, <3>2 DEF Newest, LogInv, Buffered
    <3>4. ASSUME NEW i \in 1..L PROVE buffer[i].id = k + i /\ k + i \in Nat /\ k + i <= N
      <4>1. k + i \in 1..N
        BY <3>3
      <4> QED
        BY <3>2, <3>3, <4>1 DEF LogInv, Filed
    <3> QED
      BY <3>2, <3>4, Entries DEF LogInv, Buffered
  <2>3. ASSUME NEW e \in wanted PROVE e.id <= Len(file)
    <3>1. CASE p + 1 = 1
      BY <2>2, <3>1 DEF wanted, Stored
    <3>2. CASE p + 1 # 1
      BY <3>2 DEF wanted, LogInv, BehindBuffer
    <3> QED
      BY <3>1, <3>2
  <2>4. ASSUME NEW e \in wanted, e \in ToSet(buffer), e \notin reader.seen \cup P
        PROVE  ~(Cardinality(P) < Limit) /\ Len(file) - e.id >= q
    <3>1. Len(file) - e.id >= a
      <4>1. CASE p + 1 = 1
        <5>1. a = 0 /\ e.id \in Nat /\ e.id <= Len(file) /\ Len(file) \in Nat
          BY <1>8, <1>11, <2>2, <2>4, <4>1 DEF LogInv, Filed
        <5> QED
          BY <5>1
      <4>2. CASE p + 1 # 1
        <5>1. e \in reader.wanted
          BY <4>2 DEF wanted
        <5> QED
          BY <1>1, <1>11, <2>4, <5>1 DEF LogInv, BehindBuffer
      <4> QED
        BY <4>1, <4>2
    <3>2. Cardinality(P) = Limit /\ Len(file) - e.id >= (p + 1) * Limit
      BY <1>11, <2>1, <2>4, <3>1, FullBufferPage
    <3> QED
      BY <1>11, <3>2, LimitAssumption
  <2> QED
    BY <2>3, <2>4
<1>14. Filed' /\ Buffered' /\ Tabled'
  BY <1>3 DEF LogInv, Filed, Buffered, Newest, Tabled, logVars
<1> QED
  BY <1>3, <1>9, <1>10, <1>12, <1>13, <1>14 DEF LogInv

-----------------------------------------------------------------------------
(* The other steps.                                                        *)

(* A row that lands late is newer than an entry or is not: what is above   *)
(* the entry stays above it.                                               *)
LEMMA RowKeepsReader ==
  ASSUME LogInv, NEW f \in inFlight, RowLands(f) \/ RowFails(f)
  PROVE  LogInv'
<1>1. /\ UNCHANGED <<production, now, file, buffer, boot, reader>>
      /\ inFlight' = inFlight \ {f} /\ rows' \in {rows, rows \cup {f}}
  BY DEF RowLands, RowFails
<1>2. IsFiniteSet(rows) /\ IsFiniteSet(rows')
  BY <1>1, FS_AddElement DEF LogInv, Tabled
<1>3. Filed' /\ Buffered' /\ Tabled'
  BY <1>1, <1>2 DEF LogInv, Filed, Buffered, Newest, Tabled
<1>4. BehindBuffer'
  BY <1>1 DEF LogInv, BehindBuffer
<1>5. ASSUME NEW e \in reader.wanted, production, Unique(e)', e \notin reader.seen
      PROVE  ~reader.done /\ Cardinality(Newer(e)') >= reader.page * Limit
  <2>1. Unique(e)
    BY <1>1, <1>5 DEF Unique
  <2>2. Newer(e) \subseteq Newer(e)' /\ Newer(e)' \in SUBSET rows'
    BY <1>1 DEF Newer
  <2>3. IsFiniteSet(Newer(e)') /\ Cardinality(Newer(e)) <= Cardinality(Newer(e)')
    BY <1>2, <2>2, FS_Subset
  <2>4. Cardinality(Newer(e)') \in Nat /\ Cardinality(Newer(e)) \in Nat
    <3>1. IsFiniteSet(Newer(e))
      BY <2>2, <2>3, FS_Subset
    <3> QED
      BY <2>3, <3>1, FS_CardinalityType
  <2>5. ~reader.done /\ Cardinality(Newer(e)) >= reader.page * Limit
    BY <1>5, <2>1 DEF LogInv, BehindRows
  <2>6. reader.page * Limit \in Nat
    <3>1. reader.page \in Nat /\ Limit \in Nat
      BY LimitAssumption DEF LogInv, ReaderType
    <3> QED
      BY <3>1
  <2> QED
    BY <2>3, <2>4, <2>5, <2>6
<1>6. BehindRows'
  BY <1>1, <1>5 DEF LogInv, BehindRows
<1> QED
  BY <1>1, <1>3, <1>4, <1>6 DEF LogInv

(* A new process has seen nothing of what the client asked for.            *)
LEMMA RestartKeepsReader ==
  ASSUME LogInv, Restart
  PROVE  LogInv'
<1>1. buffer' = <<>> /\ boot' = Len(file) /\ UNCHANGED <<production, now, file, inFlight, rows, reader>>
  BY DEF Restart
<1>2. Filed' /\ Tabled' /\ Len(file) \in Nat
  BY <1>1 DEF LogInv, Filed, Tabled
<1>3. Buffered'
  <2>1. buffer' \in Seq(EntryType) /\ Len(buffer') = 0
    BY <1>1
  <2>2. Newest(Len(file))'
    BY <1>1, <1>2, <2>1, BufferAssumption DEF Newest
  <2> QED
    BY <1>1, <1>2, <2>1, <2>2 DEF Buffered
<1>4. BehindRows'
  BY <1>1 DEF LogInv, BehindRows, Unique, Newer
<1>5. BehindBuffer'
  <2>1. ToSet(buffer') = {}
    <3>1. PICK b : b = buffer'
      OBVIOUS
    <3>2. b \in Seq(EntryType) /\ Len(b) = 0
      BY <1>1, <3>1
    <3>3. \A e : e \notin ToSet(b)
      <4>1. \A e : ~\E i \in 1..Len(b) : b[i] = e
        BY <3>2
      <4> QED
        BY <3>2, <4>1, Entries, Zenon
    <3> QED
      BY <3>1, <3>3
  <2> QED
    BY <1>1, <2>1 DEF LogInv, BehindBuffer
<1> QED
  BY <1>1, <1>2, <1>3, <1>4, <1>5 DEF LogInv

(* At the start there is nothing to miss.                                  *)
LEMMA LogInvInit == Init => LogInv
<1> SUFFICES ASSUME Init PROVE LogInv
  OBVIOUS
<1>1. /\ production \in BOOLEAN /\ now = 0 /\ file = <<>> /\ buffer = <<>>
      /\ inFlight = {} /\ rows = {} /\ boot = 0 /\ reader = NoReader
  BY DEF Init
<1>2. /\ now \in 0..MaxNow /\ 0 <= MaxEntries /\ 0 <= MAX_IN_MEMORY
  BY <1>1, BoundsAssumption, BufferAssumption
<1>3. Filed
  <2>1. Len(file) = 0 /\ file \in Seq(EntryType)
    BY <1>1
  <2> QED
    BY <1>2, <2>1 DEF Filed
<1>4. Buffered
  <2>1. buffer \in Seq(EntryType) /\ Len(buffer) = 0 /\ Len(file) = 0
    BY <1>1
  <2>2. Newest(0)
    BY <1>1, <1>2, <2>1 DEF Newest
  <2> QED
    BY <1>1, <2>1, <2>2 DEF Buffered
<1>5. Tabled
  BY <1>1, FS_EmptySet DEF Tabled
<1>6. reader.wanted = {} /\ reader \in ReaderType
  BY <1>1 DEF NoReader, ReaderType
<1> QED
  BY <1>1, <1>2, <1>3, <1>4, <1>5, <1>6 DEF LogInv, BehindRows, BehindBuffer

(* Every step keeps the invariant.                                         *)
LEMMA LogInvStep ==
  ASSUME LogInv, [Next]_vars
  PROVE  LogInv'
<1>1. ASSUME NEW a \in Agents, LogSwap(a) \/ LogError(a) PROVE LogInv'
  <2>1. \E event \in Events, x \in Nat : Log(a, event, x)
    BY <1>1, AmountAssumption DEF LogSwap, LogError, Events
  <2> QED
    BY <2>1, LogKeepsReader
<1>2. CASE Tick \/ UNCHANGED vars
  <2>1. UNCHANGED <<production, logVars, boot, reader>> /\ now' \in 0..MaxNow
    BY <1>2, BoundsAssumption DEF Tick, vars, LogInv
  <2> QED
    BY <2>1 DEF LogInv, logVars, Filed, Buffered, Newest, Tabled, BehindRows, BehindBuffer,
                Unique, Newer
<1> QED
  BY <1>1, <1>2, RowKeepsReader, RestartKeepsReader, GetKeepsReader DEF Next

(* The invariant holds throughout.                                         *)
THEOREM LogInvariant == Spec => []LogInv
<1>1. LogInv /\ [Next]_vars => LogInv'
  BY LogInvStep
<1> QED
  BY <1>1, LogInvInit, PTL DEF Spec

(* The variables keep their types, and the buffer its length.              *)
THEOREM LogTypeCorrect == Spec => []TypeOK
<1>1. LogInv => TypeOK
  <2> SUFFICES ASSUME LogInv PROVE TypeOK
    OBVIOUS
  <2>1. /\ file \in Seq(EntryType) /\ buffer \in Seq(EntryType) /\ boot \in Nat
        /\ Len(file) \in Nat /\ Len(file) <= MaxEntries
    BY DEF LogInv, Filed, Buffered
  <2>2. PICK k \in Nat : Newest(k)
    BY DEF LogInv, Buffered
  <2>3. Len(buffer) <= MAX_IN_MEMORY /\ boot <= Len(file)
    BY <2>1, <2>2 DEF Newest
  <2>4. boot \in 0..MaxEntries /\ Len(file) \in 0..MaxEntries
    BY <2>1, <2>3, BoundsAssumption
  <2>5. ToSet(file) \cup ToSet(buffer) \cup inFlight \cup rows \subseteq EntryType
    BY <2>1, Entries DEF LogInv, Tabled
  <2> QED
    BY <2>3, <2>4, <2>5 DEF LogInv, TypeOK, ReaderType
<1> QED
  BY <1>1, LogInvariant, PTL

(* Walking the pages misses no entry that was there at the first request   *)
(* and still is, however many entries and late rows arrive between two     *)
(* requests; in production that takes a ts no other row has                *)
(* (audit-logger.ts:162-192).                                              *)
THEOREM PagesMissNothingHolds == Spec => []PagesMissNothing
<1>1. LogInv => PagesMissNothing
  BY DEF LogInv, PagesMissNothing, BehindRows, BehindBuffer, Unique, Stored
<1> QED
  BY <1>1, LogInvariant, PTL

-----------------------------------------------------------------------------
(* The sums.                                                               *)

\* s[n] is the sum of the first n numbers of w.
Adds(N, w, s) == s[0] = 0 /\ \A n \in 1..N : s[n] = s[n - 1] + w[n]

(* Every nonempty set of natural numbers has a least one.                  *)
LEMMA LeastNumber ==
  ASSUME NEW T, T \subseteq Nat, T # {}
  PROVE  \E x \in T : \A y \in T : x <= y
<1> DEFINE R == {ss \in Nat \X Nat : ss[1] < ss[2]}
<1>1. IsWellFoundedOn(R, Nat)
  BY NatLessThanWellFounded, Zenon DEF OpToRel
<1>2. \A x, y \in Nat : <<y, x>> \in R <=> y < x
  OBVIOUS
<1> HIDE DEF R
<1>3. PICK x \in T : \A y \in T : ~(<<y, x>> \in R)
  BY <1>1, WFMin
<1>4. \A y \in T : ~(y < x) /\ y \in Nat
  BY <1>2, <1>3
<1>5. x \in Nat
  OBVIOUS
<1> QED
  BY <1>4, <1>5

(* Natural numbers in order can be added up.                               *)
LEMMA SumsExist ==
  ASSUME NEW N \in Nat, NEW w \in [1..N -> Nat]
  PROVE  \E s \in [0..N -> Nat] : Adds(N, w, s)
<1> DEFINE Upto(m) == \E s \in [0..m -> Nat] : Adds(m, w, s)
           Bad == {m \in 0..N : ~Upto(m)}
<1>1. SUFFICES Bad = {}
  <2>1. N \in 0..N
    OBVIOUS
  <2> QED
    BY <1>1, <2>1
<1>2. SUFFICES ASSUME Bad # {} PROVE FALSE
  OBVIOUS
<1>5. Bad \subseteq Nat
  OBVIOUS
<1> HIDE DEF Bad
<1>6. PICK m \in Bad : \A y \in Bad : m <= y
  BY <1>2, <1>5, LeastNumber
<1>7. m \in 0..N /\ ~Upto(m)
  BY DEF Bad
<1>8. m # 0
  <2>1. Upto(0)
    <3> DEFINE s == [n \in 0..0 |-> 0]
    <3>1. s \in [0..0 -> Nat] /\ s[0] = 0 /\ \A n \in 1..0 : s[n] = s[n - 1] + w[n]
      OBVIOUS
    <3> QED
      BY <3>1 DEF Adds
  <2> QED
    BY <1>7, <2>1
<1>9. m - 1 \in 0..N /\ m - 1 \in Nat /\ m \in Nat
  BY <1>7, <1>8
<1>10. m - 1 \notin Bad
  BY <1>6, <1>9
<1>11. Upto(m - 1)
  BY <1>9, <1>10 DEF Bad
<1>12. PICK s \in [0..(m - 1) -> Nat] :
         s[0] = 0 /\ \A n \in 1..(m - 1) : s[n] = s[n - 1] + w[n]
  BY <1>11 DEF Adds
<1> DEFINE t == [n \in 0..m |-> IF n = m THEN s[m - 1] + w[m] ELSE s[n]]
<1>13. t \in [0..m -> Nat]
  <2>1. m \in 1..N /\ w[m] \in Nat /\ s[m - 1] \in Nat
    BY <1>7, <1>8, <1>9
  <2>2. \A n \in 0..m : n # m => n \in 0..(m - 1)
    BY <1>9
  <2> QED
    BY <2>1, <2>2
<1>14. t[0] = 0
  BY <1>8, <1>9, <1>12
<1>15. ASSUME NEW n \in 1..m PROVE t[n] = t[n - 1] + w[n]
  <2>1. n - 1 # m /\ n - 1 \in 0..m /\ n \in 0..m
    BY <1>9
  <2>2. t[n - 1] = s[n - 1]
    BY <2>1
  <2>3. CASE n = m
    BY <2>1, <2>2, <2>3
  <2>4. CASE n # m
    <3>1. n \in 1..(m - 1)
      BY <1>9, <2>4
    <3>2. s[n] = s[n - 1] + w[n]
      BY <1>12, <3>1
    <3> QED
      BY <2>1, <2>2, <2>4, <3>2
  <2> QED
    BY <2>3, <2>4
<1>16. Upto(m)
  BY <1>13, <1>14, <1>15 DEF Adds
<1> QED
  BY <1>7, <1>16

(* In one way only.                                                        *)
LEMMA SumsAgree ==
  ASSUME NEW N \in Nat, NEW w, NEW s, NEW f, Adds(N, w, s), Adds(N, w, f)
  PROVE  \A n \in 0..N : f[n] = s[n]
<1> DEFINE Bad == {n \in 0..N : f[n] # s[n]}
<1>1. SUFFICES ASSUME Bad # {} PROVE FALSE
  OBVIOUS
<1>2. PICK m \in Bad : \A y \in Bad : m <= y
  <2>1. Bad \subseteq Nat
    OBVIOUS
  <2> HIDE DEF Bad
  <2> QED
    BY <1>1, <2>1, LeastNumber
<1>3. m \in 1..N /\ m - 1 \in 0..N /\ ~(m <= m - 1)
  BY DEF Adds
<1>4. m - 1 \notin Bad
  BY <1>2, <1>3
<1>5. f[m - 1] = s[m - 1]
  BY <1>3, <1>4
<1> QED
  BY <1>3, <1>5 DEF Adds

\* What the entry at a place adds.
Share(log, counted, n) == IF log[n] \in counted THEN log[n].amountIn ELSE 0

(* A total grows entry by entry.                                           *)
LEMMA TotalGrows ==
  ASSUME NEW log \in Seq(EntryType), NEW counted
  PROVE  \E s \in [0..Len(log) -> Nat] :
           /\ s[0] = 0 /\ \A n \in 1..Len(log) : s[n] = s[n - 1] + Share(log, counted, n)
           /\ Total(log, counted) = s[Len(log)]
<1> DEFINE N == Len(log)
           w == [n \in 1..N |-> Share(log, counted, n)]
           Sums(s) == s = [n \in 0..N |->
                             IF n = 0 THEN 0
                             ELSE s[n - 1] + (IF log[n] \in counted THEN log[n].amountIn ELSE 0)]
<1>1. N \in Nat /\ \A n \in 1..N : log[n] \in EntryType
  BY Entries
<1>2. w \in [1..N -> Nat]
  BY <1>1 DEF Share, EntryType
<1>3. PICK s \in [0..N -> Nat] : Adds(N, w, s)
  <2> HIDE DEF w, N
  <2> QED
    BY <1>1, <1>2, SumsExist
<1>4. \A n \in 1..N : w[n] = Share(log, counted, n)
  OBVIOUS
<1>5. Sums(s)
  <2>1. \A n \in 0..N : n # 0 => n \in 1..N
    BY <1>1
  <2>2. \A n \in 0..N : s[n] = IF n = 0 THEN 0
                               ELSE s[n - 1] + (IF log[n] \in counted THEN log[n].amountIn ELSE 0)
    BY <1>3, <1>4, <2>1 DEF Share, Adds
  <2> QED
    BY <1>3, <2>2
<1> DEFINE sum == CHOOSE f : Sums(f)
<1>6. Sums(sum)
  BY <1>5
<1>7. Total(log, counted) = sum[N]
  BY DEF Total
<1> HIDE DEF sum
<1>8. \A n \in 0..N : sum[n] = IF n = 0 THEN 0 ELSE sum[n - 1] + Share(log, counted, n)
  BY <1>6 DEF Share
<1>9. \A n \in 0..N : sum[n] = s[n]
  <2>1. 0 \in 0..N /\ \A n \in 1..N : n \in 0..N /\ n # 0
    BY <1>1
  <2>2. Adds(N, w, sum)
    BY <1>4, <1>8, <2>1 DEF Adds
  <2> HIDE DEF N, w
  <2> QED
    BY <1>1, <1>3, <2>2, SumsAgree
<1>10. s[N] = sum[N]
  BY <1>1, <1>9
<1> QED
  BY <1>3, <1>4, <1>7, <1>10 DEF Adds

(* The process's entries, first those that have left the buffer and then   *)
(* those in it.                                                            *)
LEMMA BootEntries ==
  ASSUME LogInv
  PROVE  \E d \in Nat, L \in Nat :
           /\ SinceBoot \in Seq(EntryType) /\ Len(SinceBoot) = d + L
           /\ buffer \in Seq(EntryType) /\ Len(buffer) = L
           /\ \A n \in 1..d : /\ SinceBoot[n] \notin ToSet(buffer)
                              /\ Len(file) - SinceBoot[n].id >= MAX_IN_MEMORY
           /\ \A i \in 1..L : SinceBoot[d + i] = buffer[i]
<1>1. /\ file \in Seq(EntryType) /\ buffer \in Seq(EntryType) /\ boot \in Nat
      /\ MAX_IN_MEMORY \in Nat
  BY BufferAssumption DEF LogInv, Filed, Buffered
<1>2. PICK k \in Nat : Newest(k)
  BY DEF LogInv, Buffered
<1>3. PICK N \in Nat, L \in Nat : N = Len(file) /\ L = Len(buffer)
  BY <1>1
<1>4. /\ k \in boot..N /\ L = N - k /\ (k > boot => L = MAX_IN_MEMORY)
      /\ \A i \in 1..L : buffer[i] = file[k + i]
      /\ \A j \in 1..N : file[j].id = j
  BY <1>2, <1>3 DEF Newest, LogInv, Filed
<1>5. PICK d \in Nat : d = k - boot
  BY <1>1, <1>4
<1>6. /\ SinceBoot \in Seq(EntryType) /\ Len(SinceBoot) = d + L
      /\ \A n \in 1..(d + L) : SinceBoot[n] = file[boot + n]
  <2>1. boot + 1 \in 1..(N + 1) /\ N \in ((boot + 1) - 1)..N /\ N - (boot + 1) + 1 = d + L
    BY <1>1, <1>4, <1>5
  <2>2. \A n \in 1..(d + L) : (boot + 1) + n - 1 = boot + n
    BY <1>1
  <2> DEFINE m == boot + 1
  <2> HIDE DEF m
  <2>3. /\ SubSeq(file, m, N) \in Seq(EntryType)
        /\ Len(SubSeq(file, m, N)) = N - m + 1
        /\ \A n \in 1..(N - m + 1) : SubSeq(file, m, N)[n] = file[m + n - 1]
    BY <1>1, <1>3, <2>1, SubSeqProperties DEF m
  <2> QED
    BY <1>3, <2>1, <2>2, <2>3 DEF SinceBoot, m
<1>7. ASSUME NEW i \in 1..L PROVE SinceBoot[d + i] = buffer[i] /\ buffer[i].id = k + i
  <2>1. d + i \in 1..(d + L) /\ boot + (d + i) = k + i /\ k + i \in 1..N
    BY <1>1, <1>4, <1>5
  <2> QED
    BY <1>4, <1>6, <2>1
<1>8. ASSUME NEW n \in 1..d
      PROVE  /\ SinceBoot[n] \notin ToSet(buffer)
             /\ N - SinceBoot[n].id >= MAX_IN_MEMORY
  <2>1. n \in 1..(d + L) /\ boot + n \in 1..N /\ boot + n <= k /\ k > boot
    BY <1>1, <1>4, <1>5
  <2>2. SinceBoot[n].id = boot + n
    BY <1>4, <1>6, <2>1
  <2>3. ASSUME NEW i \in 1..L, buffer[i] = SinceBoot[n] PROVE FALSE
    <3>1. k + i = boot + n
      BY <1>7, <2>2, <2>3
    <3> QED
      BY <1>1, <2>1, <3>1
  <2>4. SinceBoot[n] \notin ToSet(buffer)
    BY <1>1, <1>3, <2>3, Entries
  <2>5. N - (boot + n) >= MAX_IN_MEMORY
    BY <1>1, <1>4, <2>1
  <2> QED
    BY <2>2, <2>4, <2>5
<1> QED
  BY <1>1, <1>3, <1>6, <1>7, <1>8

(* The totals of a log and of its end, when only what precedes the end is  *)
(* lost.                                                                   *)
LEMMA TotalsSplit ==
  ASSUME NEW d \in Nat, NEW L \in Nat,
         NEW log \in Seq(EntryType), Len(log) = d + L,
         NEW rest \in Seq(EntryType), Len(rest) = L,
         NEW all, NEW lost, NEW kept,
         \A n \in 1..d : log[n] \in lost <=> log[n] \in all,
         \A i \in 1..L : /\ log[d + i] = rest[i] /\ log[d + i] \notin lost
                         /\ log[d + i] \in all <=> rest[i] \in kept
  PROVE  Total(rest, kept) = Total(log, all) - Total(log, lost)
<1>1. PICK s \in [0..Len(log) -> Nat] :
           /\ s[0] = 0 /\ \A n \in 1..Len(log) : s[n] = s[n - 1] + Share(log, all, n)
           /\ Total(log, all) = s[Len(log)]
  BY TotalGrows
<1>2. PICK m \in [0..Len(log) -> Nat] :
           /\ m[0] = 0 /\ \A n \in 1..Len(log) : m[n] = m[n - 1] + Share(log, lost, n)
           /\ Total(log, lost) = m[Len(log)]
  BY TotalGrows
<1>3. PICK b \in [0..Len(rest) -> Nat] :
           /\ b[0] = 0 /\ \A n \in 1..Len(rest) : b[n] = b[n - 1] + Share(rest, kept, n)
           /\ Total(rest, kept) = b[Len(rest)]
  BY TotalGrows
<1>4. /\ s \in [0..(d + L) -> Nat] /\ m \in [0..(d + L) -> Nat] /\ b \in [0..L -> Nat]
  BY <1>1, <1>2, <1>3
<1>5. \A n \in 0..d : s[n] = m[n]
  <2>1. PICK w : w = [n \in 1..d |-> Share(log, all, n)]
    OBVIOUS
  <2>2. \A n \in 1..d : n \in 1..(d + L) /\ Share(log, lost, n) = Share(log, all, n)
    BY DEF Share
  <2>3. Adds(d, w, s)
    BY <1>1, <2>1, <2>2 DEF Adds
  <2>4. Adds(d, w, m)
    BY <1>2, <2>1, <2>2 DEF Adds
  <2>5. PICK x, y : x = s /\ y = m
    OBVIOUS
  <2>6. Adds(d, w, x) /\ Adds(d, w, y)
    BY <2>3, <2>4, <2>5
  <2>7. \A n \in 0..d : y[n] = x[n]
    BY <2>6, SumsAgree
  <2> QED
    BY <2>5, <2>7
<1>6. \A i \in 0..L : s[d + i] - m[d + i] = b[i]
  <2> DEFINE w == [n \in 1..L |-> Share(rest, kept, n)]
             f == [i \in 0..L |-> s[d + i] - m[d + i]]
  <2>1. Adds(L, w, b)
    BY <1>3 DEF Adds
  <2>2. f[0] = 0
    <3>1. d + 0 = d /\ d \in 0..d /\ d \in 0..(d + L) /\ 0 \in 0..L
      OBVIOUS
    <3>2. s[d] = m[d] /\ s[d] \in Nat
      BY <1>4, <1>5, <3>1
    <3> QED
      BY <3>1, <3>2
  <2>3. ASSUME NEW i \in 1..L PROVE f[i] = f[i - 1] + w[i]
    <3>1. /\ i \in 0..L /\ i - 1 \in 0..L /\ d + i \in 1..(d + L)
          /\ (d + i) - 1 = d + (i - 1) /\ d + i \in 0..(d + L) /\ d + (i - 1) \in 0..(d + L)
      OBVIOUS
    <3>2. Share(log, lost, d + i) = 0
      BY DEF Share
    <3>3. Share(log, all, d + i) = w[i] /\ w[i] \in Nat
      BY Entries DEF Share, EntryType
    <3>4. s[d + i] = s[d + (i - 1)] + w[i]
      BY <1>1, <3>1, <3>3
    <3>5. m[d + i] = m[d + (i - 1)] + 0
      BY <1>2, <3>1, <3>2
    <3>6. /\ s[d + i] \in Nat /\ s[d + (i - 1)] \in Nat
          /\ m[d + i] \in Nat /\ m[d + (i - 1)] \in Nat
      BY <1>4, <3>1
    <3>7. f[i] = s[d + i] - m[d + i] /\ f[i - 1] = s[d + (i - 1)] - m[d + (i - 1)]
      BY <3>1
    <3> HIDE DEF f, w
    <3>8. PICK p \in Nat, q \in Nat, u \in Nat, v \in Nat, x \in Nat :
            /\ p = s[d + i] /\ q = s[d + (i - 1)] /\ x = w[i]
            /\ u = m[d + i] /\ v = m[d + (i - 1)]
      BY <3>3, <3>6
    <3>9. p = q + x /\ u = v + 0 /\ f[i] = p - u /\ f[i - 1] = q - v
      BY <3>4, <3>5, <3>7, <3>8
    <3>10. p - u = (q - v) + x
      BY <3>9
    <3> QED
      BY <3>8, <3>9, <3>10
  <2>4. Adds(L, w, f)
    BY <2>2, <2>3 DEF Adds
  <2>5. \A i \in 0..L : f[i] = s[d + i] - m[d + i]
    OBVIOUS
  <2> HIDE DEF w, f
  <2>6. \A i \in 0..L : f[i] = b[i]
    BY <2>1, <2>4, SumsAgree
  <2> QED
    BY <2>5, <2>6
<1> QED
  BY <1>1, <1>2, <1>3, <1>6

(* What check 5 reads is today's volume of this process: never too much,   *)
(* and too little only by the agent's own swaps of today that entries of   *)
(* any agent have pushed out of the buffer, each of them after             *)
(* MAX_IN_MEMORY newer entries (audit-logger.ts:76-80, 139-153).           *)
THEOREM VolumeUpToEvictionHolds == Spec => []VolumeUpToEviction
<1>1. LogInv => VolumeUpToEviction
  <2> DEFINE swaps(a) == TodaysSwaps(a, SinceBoot)
             lost(a) == swaps(a) \ ToSet(buffer)
  <2> SUFFICES ASSUME LogInv, NEW a \in Agents
               PROVE  /\ DailyVolume(a) = Total(SinceBoot, swaps(a)) - Total(SinceBoot, lost(a))
                      /\ \A e \in lost(a) : Len(file) - e.id >= MAX_IN_MEMORY
    BY DEF VolumeUpToEviction
  <2>1. PICK d \in Nat, L \in Nat :
           /\ SinceBoot \in Seq(EntryType) /\ Len(SinceBoot) = d + L
           /\ buffer \in Seq(EntryType) /\ Len(buffer) = L
           /\ \A n \in 1..d : /\ SinceBoot[n] \notin ToSet(buffer)
                              /\ Len(file) - SinceBoot[n].id >= MAX_IN_MEMORY
           /\ \A i \in 1..L : SinceBoot[d + i] = buffer[i]
    BY BootEntries
  <2>2. \A n \in 1..d : SinceBoot[n] \in lost(a) <=> SinceBoot[n] \in swaps(a)
    BY <2>1
  <2>3. ASSUME NEW i \in 1..L
        PROVE  /\ SinceBoot[d + i] = buffer[i] /\ SinceBoot[d + i] \notin lost(a)
               /\ SinceBoot[d + i] \in swaps(a) <=> buffer[i] \in TodaysSwaps(a, buffer)
    <3>1. d + i \in 1..(d + L)
      OBVIOUS
    <3>2. buffer[i] \in ToSet(buffer) /\ buffer[i] \in ToSet(SinceBoot)
      BY <2>1, <3>1, Entries
    <3> QED
      BY <2>1, <3>2 DEF TodaysSwaps, SwapsOf
  <2>4. DailyVolume(a) = Total(SinceBoot, swaps(a)) - Total(SinceBoot, lost(a))
    <3> HIDE DEF lost, swaps
    <3> QED
      BY <2>1, <2>2, <2>3, TotalsSplit DEF DailyVolume
  <2>5. ASSUME NEW e \in lost(a) PROVE Len(file) - e.id >= MAX_IN_MEMORY
    <3>1. e \in ToSet(SinceBoot) /\ e \notin ToSet(buffer)
      BY DEF TodaysSwaps, SwapsOf
    <3>2. PICK n \in 1..(d + L) : SinceBoot[n] = e
      BY <2>1, <3>1, Entries
    <3>3. n \in 1..d
      <4>1. SUFFICES ASSUME n \notin 1..d PROVE FALSE
        OBVIOUS
      <4>2. PICK i \in 1..L : n = d + i
        <5>1. n - d \in 1..L /\ n = d + (n - d)
          BY <4>1
        <5> QED
          BY <5>1
      <4> QED
        BY <2>1, <3>1, <3>2, <4>2, Entries
    <3> QED
      BY <2>1, <3>2, <3>3
  <2> QED
    BY <2>4, <2>5
<1> QED
  BY <1>1, LogInvariant, PTL
====
