--------------------------- MODULE BoundedIAFProofs ---------------------------
(***************************************************************************)
(* Proofs about BoundedIAF for every set of addresses, chunk size, limit   *)
(* and length of the trace: the types, the bounds on the chunk, the living *)
(* requests at its beginning, that it never shrinks, and that the reports  *)
(* are the hits of LRU caches of all sizes up to the limit.                *)
(*                                                                         *)
(* The conjunction IInv of the first ones is inductive.  The hard step is  *)
(* ProcessRequests: that it keeps one request of every address of the      *)
(* chunk follows from the order of the sorted vector, and that it then     *)
(* never has fewer living requests than before is what makes cur_u grow    *)
(* and stay proportional to them.                                          *)
(*                                                                         *)
(* For the caches, the survivors of a chunk are its last uses, so that by  *)
(* access number they list the queue of every cache from back to front,    *)
(* and eviction cuts off what no cache within the limit holds.  HitsInv    *)
(* says that the histogram is no longer than the living requests allow:    *)
(* resizing it cuts off nothing but hits of larger caches.                 *)
(***************************************************************************)
EXTENDS BoundedIAF, HitsVectorProofs

ChunkReq == [addr : Addr, access_number : Nat \ {0}]

HitsType(hits) == DOMAIN hits \subseteq Nat /\ \A d \in DOMAIN hits : hits[d] \in Nat

IInv == TypeOK /\ ChunkHasRoom /\ ChunkIsBounded /\ ChunkBeginsWithLiving

\* A chunk of requests whose numbers are their positions.
Numbered(chunk) ==
    /\ chunk \in Seq(ChunkReq)
    /\ \A i \in 1..Len(chunk) : chunk[i].access_number = i

DistinctAddrs(v) == \A i, j \in 1..Len(v) : v[i].addr = v[j].addr => i = j

\* kept has the addresses of the last requests of v.
NewestOf(v, kept) ==
    \A i \in 1..Len(kept) : kept[i].addr = v[Len(v) - Len(kept) + i].addr

-----------------------------------------------------------------------------
(* The vector of a chunk, sorted                                           *)

\* Sorting a numbered chunk keeps its requests and orders their addresses.
LEMMA SortedChunk ==
    ASSUME NEW chunk, Numbered(chunk)
    PROVE  /\ Len(SortedRequests(chunk)) = Len(chunk)
           /\ Len(chunk) \in Nat
           /\ \A m \in 1..Len(chunk) : SortedRequests(chunk)[m] \in ChunkReq
           /\ \A m, l \in 1..Len(chunk) : m < l =>
                  ReqLess(SortedRequests(chunk)[m], SortedRequests(chunk)[l])
           /\ \A i \in 1..Len(chunk) : \E m \in 1..Len(chunk) :
                  SortedRequests(chunk)[m] = chunk[i]
<1>1. chunk \in Seq(ChunkReq) /\ Len(chunk) \in Nat /\ \A i \in 1..Len(chunk) : chunk[i] \in ChunkReq
  BY LenProperties DEF Numbered
<1>2. chunk \in Seq([addr : Addr, access_number : Nat])
  <2>1. \A i \in 1..Len(chunk) : chunk[i] \in [addr : Addr, access_number : Nat]
    BY <1>1 DEF ChunkReq
  <2>2. chunk \in [1..Len(chunk) -> ChunkReq]
    BY <1>1, LenProperties
  <2> DEFINE n == Len(chunk)
             R == [addr : Addr, access_number : Nat]
  <2>3. n \in Nat /\ chunk \in [1..n -> R]
    BY <1>1, <2>1, <2>2
  <2> HIDE DEF n, R
  <2>4. chunk \in Seq(R)
    BY <2>3
  <2> QED
    BY <2>4 DEF R
<1>3. DistinctNumbers(chunk)
  BY DEF Numbered, DistinctNumbers
<1>4. /\ Len(SortedRequests(chunk)) = Len(chunk)
      /\ \A m \in 1..Len(chunk) : \E i \in 1..Len(chunk) : SortedRequests(chunk)[m] = chunk[i]
      /\ \A i \in 1..Len(chunk) : \E m \in 1..Len(chunk) : SortedRequests(chunk)[m] = chunk[i]
      /\ \A m, l \in 1..Len(chunk) : m < l =>
             ReqLess(SortedRequests(chunk)[m], SortedRequests(chunk)[l])
  BY <1>2, <1>3, AddrAssumption, SortedRequestsProperties
<1> QED
  BY <1>1, <1>4

\* One request of each address survives.
LEMMA SurvivorsProperties ==
    ASSUME NEW n \in Nat, NEW sorted, Len(sorted) = n,
           \A m \in 1..n : sorted[m] \in ChunkReq,
           \A m, l \in 1..n : m < l => ReqLess(sorted[m], sorted[l])
    PROVE  /\ Survivors(sorted) \subseteq ChunkReq
           /\ IsFiniteSet(Survivors(sorted))
           /\ \A r, s \in Survivors(sorted) : r.addr = s.addr => r = s
           /\ \A m \in 1..n : \E s \in Survivors(sorted) : s.addr = sorted[m].addr
<1> DEFINE last == {j \in 1..n : j = n \/ ~FollowsSameAddr(sorted, j + 1)}
<1>1. Survivors(sorted) = {sorted[i] : i \in last}
  BY DEF Survivors
<1>2. \A m \in 1..n : sorted[m].addr \in Nat
  BY AddrAssumption DEF ChunkReq
<1>3. \A j \in 1..n : j \in last <=> (j = n \/ sorted[j + 1].addr # sorted[j].addr)
  BY DEF FollowsSameAddr
<1> HIDE DEF last
<1>4. last \subseteq 1..n /\ IsFiniteSet(last)
  <2>1. last \subseteq 1..n /\ IsFiniteSet(1..n)
    BY FS_Interval DEF last
  <2> QED
    BY <2>1, FS_Subset
<1>5. IsFiniteSet(Survivors(sorted))
  <2> DEFINE f == [i \in last |-> sorted[i]]
  <2>1. f \in Surjection(last, Survivors(sorted))
    BY <1>1 DEF Surjection
  <2> QED
    BY <1>4, <2>1, FS_Surjection
<1>6. ASSUME NEW m \in 1..n, NEW l \in 1..n, m < l
      PROVE  sorted[m].addr <= sorted[l].addr
  BY <1>2, <1>6 DEF ReqLess
<1>7. ASSUME NEW a \in last, NEW b \in last, sorted[a].addr = sorted[b].addr, a < b
      PROVE  FALSE
  <2>1. a \in 1..n /\ b \in 1..n /\ a + 1 \in 1..n /\ a < a + 1
    BY <1>4, <1>7
  <2>2. sorted[a].addr <= sorted[a + 1].addr
    BY <2>1, <1>6
  <2>3. sorted[a + 1].addr <= sorted[b].addr
    BY <2>1, <1>2, <1>6, <1>7
  <2>4. sorted[a + 1].addr # sorted[a].addr
    BY <2>1, <1>3, <1>7
  <2> QED
    BY <2>1, <2>2, <2>3, <2>4, <1>2, <1>7
<1>8. ASSUME NEW r \in Survivors(sorted), NEW s \in Survivors(sorted), r.addr = s.addr
      PROVE  r = s
  <2>1. PICK a \in last : r = sorted[a]
    BY <1>1
  <2>2. PICK b \in last : s = sorted[b]
    BY <1>1
  <2>3. ~(a < b) /\ ~(b < a)
    BY <2>1, <2>2, <1>7, <1>8
  <2>4. a = b
    BY <2>3, <1>4
  <2> QED
    BY <2>1, <2>2, <2>4
<1>9. ASSUME NEW m \in 1..n
      PROVE  \E s \in Survivors(sorted) : s.addr = sorted[m].addr
  <2> DEFINE same == {j \in 1..n : sorted[j].addr = sorted[m].addr}
  <2>1. m \in same /\ same \in SUBSET (1..n)
    OBVIOUS
  <2>2. PICK j \in same : \A k \in same : k <= j
    <3> HIDE DEF same
    <3> QED
      BY <2>1, GreatestExists
  <2>3. j = n \/ sorted[j + 1].addr # sorted[j].addr
    <3> SUFFICES ASSUME j # n, sorted[j + 1].addr = sorted[j].addr PROVE FALSE
      OBVIOUS
    <3>1. j + 1 \in same
      OBVIOUS
    <3>2. j \in Nat /\ j + 1 <= j
      BY <3>1, <2>2
    <3> QED
      BY <3>2
  <2>4. j \in last
    BY <2>3, <1>3
  <2> QED
    BY <2>4, <1>1
<1>10. Survivors(sorted) \subseteq ChunkReq
  BY <1>1, <1>4
<1> QED
  BY <1>5, <1>8, <1>9, <1>10

\* The limit on a number of living requests.
LEMMA CappedLivingProperties ==
    ASSUME NEW n \in Nat
    PROVE  /\ CappedLiving(n) \in 0..n
           /\ CappedLiving(n) <= MaxLivingReq
           /\ \A p \in Nat : p <= n /\ p <= MaxLivingReq => p <= CappedLiving(n)
BY MaxLivingReqAssumption DEF CappedLiving

\* Eviction and renumbering keep the addresses of the newest living requests
\* and number them by position.
LEMMA KeptProperties ==
    ASSUME NEW n \in Nat, NEW S, S \subseteq ChunkReq,
           \A r, s \in S : r.addr = s.addr => r = s,
           NEW v \in [1..n -> S],
           \A i, j \in 1..n : i < j => v[i].access_number < v[j].access_number
    PROVE  /\ Len(v) = n
           /\ Numbered(Renumber(EvictOldest(v)))
           /\ Len(Renumber(EvictOldest(v))) = CappedLiving(n)
           /\ DistinctAddrs(Renumber(EvictOldest(v)))
           /\ NewestOf(v, Renumber(EvictOldest(v)))
<1> DEFINE c == CappedLiving(n)
           u == EvictOldest(v)
           kept == Renumber(u)
<1>1. v \in Seq(S) /\ Len(v) = n
  OBVIOUS
<1>2. c \in 0..n
  BY CappedLivingProperties
<1>3. \A i \in (n - c + 1)..n : v[i] \in S
  BY <1>2
<1>4. u = SubSeq(v, n - c + 1, n)
  BY <1>1 DEF EvictOldest
<1> HIDE DEF c, u
<1>5. /\ u \in Seq(S) /\ Len(u) = c
      /\ \A i \in 1..c : u[i] = v[n - c + i]
  <2>1. n - c + 1 \in Int /\ n \in Int /\ n - (n - c + 1) + 1 = c
    BY <1>2
  <2>2. /\ u \in Seq(S)
        /\ Len(u) = IF n - c + 1 <= n THEN n - (n - c + 1) + 1 ELSE 0
        /\ \A i \in 1..(n - (n - c + 1) + 1) : u[i] = v[n - c + 1 + i - 1]
    BY <1>3, <1>4, <2>1, SubSeqProperties
  <2> QED
    BY <2>1, <2>2, <1>2
<1>6. \A i \in 1..c : u[i] \in ChunkReq
  BY <1>5, <1>2
<1>7. kept = [i \in 1..c |-> Request(u[i].addr, i)]
  BY <1>5 DEF Renumber
<1>8. /\ kept \in [1..c -> ChunkReq]
      /\ \A i \in 1..c : kept[i].access_number = i /\ kept[i].addr = u[i].addr
  BY <1>6, <1>7, <1>2 DEF Request, ChunkReq
<1>9. kept \in Seq(ChunkReq) /\ Len(kept) = c
  BY <1>2, <1>8
<1>10. ASSUME NEW i \in 1..c, NEW j \in 1..c, u[i].addr = u[j].addr
       PROVE  i = j
  <2>1. n - c + i \in 1..n /\ n - c + j \in 1..n
    BY <1>2
  <2>2. u[i] = v[n - c + i] /\ u[j] = v[n - c + j] /\ u[i] \in S /\ u[j] \in S
    BY <1>5, <2>1
  <2>3. u[i] = u[j]
    BY <2>2, <1>10
  <2>4. v[n - c + i].access_number = v[n - c + j].access_number
    BY <2>2, <2>3
  <2>5. v[n - c + i].access_number \in Nat
    BY <2>1 DEF ChunkReq
  <2>6. ~(n - c + i < n - c + j) /\ ~(n - c + j < n - c + i)
    BY <2>1, <2>4, <2>5
  <2> QED
    BY <2>6, <1>2
<1> HIDE DEF kept
<1>11. DistinctAddrs(kept)
  BY <1>8, <1>9, <1>10 DEF DistinctAddrs
<1>12. NewestOf(v, kept)
  BY <1>1, <1>5, <1>8, <1>9 DEF NewestOf
<1> QED
  BY <1>1, <1>8, <1>9, <1>11, <1>12 DEF Numbered, kept, u, c

-----------------------------------------------------------------------------
(* The histogram keeps its type                                            *)

LEMMA UniqueIdsType ==
    ASSUME NEW sorted, Len(sorted) \in Nat
    PROVE  UniqueIds(sorted) \in Nat
<1> DEFINE firsts == {i \in 1..Len(sorted) : ~FollowsSameAddr(sorted, i)}
<1>1. IsFiniteSet(1..Len(sorted)) /\ firsts \in SUBSET (1..Len(sorted))
  BY FS_Interval
<1>2. UniqueIds(sorted) = Cardinality(firsts)
  BY DEF UniqueIds
<1> HIDE DEF firsts
<1> QED
  BY <1>1, <1>2, FS_Subset, FS_CardinalityType

LEMMA ResizeType ==
    ASSUME NEW hits, HitsType(hits), NEW n \in Int
    PROVE  HitsType(Resize(hits, n))
<1>1. DOMAIN Resize(hits, n) = 0..(n - 1)
  BY DEF Resize
<1>2. \A d \in 0..(n - 1) : Resize(hits, n)[d] = IF d \in DOMAIN hits THEN hits[d] ELSE 0
  BY DEF Resize
<1> QED
  BY <1>1, <1>2 DEF HitsType

LEMMA UpdatedHitsType ==
    ASSUME NEW hits, HitsType(hits), NEW sorted, Len(sorted) \in Nat
    PROVE  HitsType(UpdatedHits(hits, sorted))
<1> DEFINE ops == PopulateOperations(sorted)
           sized == IF VectorSize(hits) < UniqueIds(sorted) + 1
                    THEN Resize(hits, UniqueIds(sorted) + 1) ELSE hits
           postfixes == {k \in 1..Len(ops) : ops[k].type = "Postfix"}
           frozen == [k \in postfixes |-> FrozenDistance(ops, 1, k)]
           num(d) == Cardinality({k \in postfixes : frozen[k] = d})
<1>1. HitsType(sized)
  <2>1. UniqueIds(sorted) + 1 \in Int
    BY UniqueIdsType
  <2> QED
    BY <2>1, ResizeType
<1>2. IsFiniteSet(postfixes)
  <2>1. Len(ops) \in Nat
    BY PopulateOperationsLen
  <2>2. IsFiniteSet(1..Len(ops)) /\ postfixes \in SUBSET (1..Len(ops))
    BY <2>1, FS_Interval
  <2> HIDE DEF postfixes
  <2> QED
    BY <2>2, FS_Subset
<1>3. UpdatedHits(hits, sorted) = [d \in DOMAIN sized |-> sized[d] + num(d)]
  BY DEF UpdatedHits, HitsOfOperations
<1> HIDE DEF sized, postfixes, frozen
<1>4. \A d : num(d) \in Nat
  <2> SUFFICES ASSUME NEW d PROVE num(d) \in Nat
    OBVIOUS
  <2> DEFINE those == {k \in postfixes : frozen[k] = d}
  <2>1. those \in SUBSET postfixes
    OBVIOUS
  <2> HIDE DEF those
  <2>2. Cardinality(those) \in Nat
    BY <1>2, <2>1, FS_Subset, FS_CardinalityType
  <2> QED
    BY <2>2 DEF those
<1> HIDE DEF num
<1> QED
  BY <1>1, <1>3, <1>4 DEF HitsType

-----------------------------------------------------------------------------
(* One step                                                                *)

\* What processing a chunk leaves, and that it has a living request for every
\* address among any p first requests with distinct addresses.
LEMMA ProcessRequestsProperties ==
    ASSUME NEW chunk, Numbered(chunk), HitsType(hits_vector), ProcessRequests(chunk)
    PROVE  /\ requests' = living'
           /\ Numbered(living')
           /\ DistinctAddrs(living')
           /\ Len(living') \in Nat /\ Len(living') <= MaxLivingReq
           /\ HitsType(hits_vector')
           /\ cur_u' = UpdatedU(cur_u, Len(living'))
           /\ \A p \in 0..Len(chunk) :
                  /\ p <= MaxLivingReq
                  /\ \A i, j \in 1..p : chunk[i].addr = chunk[j].addr => i = j
                  => p <= Len(living')
<1> DEFINE sorted == SortedRequests(chunk)
           S == Survivors(sorted)
           n == Cardinality(S)
<1>1. PICK v \in ByAccessNumber(S) :
          /\ hits_vector' = Resize(UpdatedHits(hits_vector, sorted), 1 + CappedLiving(Len(v)))
          /\ living' = Renumber(EvictOldest(v))
          /\ cur_u' = UpdatedU(cur_u, Len(Renumber(EvictOldest(v))))
          /\ requests' = Renumber(EvictOldest(v))
  BY DEF ProcessRequests
<1>2. /\ Len(sorted) = Len(chunk)
      /\ Len(chunk) \in Nat
      /\ \A m \in 1..Len(chunk) : sorted[m] \in ChunkReq
      /\ \A m, l \in 1..Len(chunk) : m < l => ReqLess(sorted[m], sorted[l])
      /\ \A i \in 1..Len(chunk) : \E m \in 1..Len(chunk) : sorted[m] = chunk[i]
  BY SortedChunk
<1> HIDE DEF sorted
<1>3. /\ S \subseteq ChunkReq
      /\ IsFiniteSet(S)
      /\ \A r, s \in S : r.addr = s.addr => r = s
      /\ \A m \in 1..Len(chunk) : \E s \in S : s.addr = sorted[m].addr
  BY <1>2, SurvivorsProperties
<1> HIDE DEF S
<1>4. n \in Nat
  BY <1>3, FS_CardinalityType
<1>5. v \in [1..n -> S] /\ \A i, j \in 1..n : i < j => v[i].access_number < v[j].access_number
  BY DEF ByAccessNumber
<1> HIDE DEF n
<1>6. /\ Len(v) = n
      /\ Numbered(living')
      /\ Len(living') = CappedLiving(n)
      /\ DistinctAddrs(living')
  BY <1>1, <1>3, <1>4, <1>5, KeptProperties
<1>7. /\ CappedLiving(n) \in 0..n
      /\ CappedLiving(n) <= MaxLivingReq
      /\ \A p \in Nat : p <= n /\ p <= MaxLivingReq => p <= CappedLiving(n)
  BY <1>4, CappedLivingProperties
<1>8. HitsType(hits_vector')
  <2>1. HitsType(UpdatedHits(hits_vector, sorted))
    BY <1>2, UpdatedHitsType
  <2>2. 1 + CappedLiving(Len(v)) \in Int
    BY <1>6, <1>7
  <2> QED
    BY <1>1, <2>1, <2>2, ResizeType
<1>9. ASSUME NEW p \in 0..Len(chunk),
             \A i, j \in 1..p : chunk[i].addr = chunk[j].addr => i = j
      PROVE  p <= n
  <2> DEFINE f == [i \in 1..p |-> CHOOSE s \in S : s.addr = chunk[i].addr]
  <2>1. p \in Nat /\ \A i \in 1..p : i \in 1..Len(chunk)
    BY <1>2
  <2>2. \A i \in 1..p : \E s \in S : s.addr = chunk[i].addr
    <3> SUFFICES ASSUME NEW i \in 1..p PROVE \E s \in S : s.addr = chunk[i].addr
      OBVIOUS
    <3>1. PICK m \in 1..Len(chunk) : sorted[m] = chunk[i]
      BY <1>2, <2>1
    <3>2. PICK s \in S : s.addr = sorted[m].addr
      BY <1>3
    <3> QED
      BY <3>1, <3>2
  <2>3. \A i \in 1..p : f[i] \in S /\ f[i].addr = chunk[i].addr
    BY <2>2
  <2>4. f \in Injection(1..p, S)
    <3>1. f \in [1..p -> S]
      BY <2>3
    <3> HIDE DEF f
    <3> QED
      BY <3>1, <2>3, <1>9 DEF Injection, IsInjective
  <2>5. Cardinality(1..p) <= n
    BY <2>4, <1>3, FS_Injection DEF n
  <2>6. Cardinality(1..p) = p
    BY <2>1, FS_Interval
  <2> QED
    BY <2>5, <2>6
<1>10. ASSUME NEW p \in 0..Len(chunk), p <= MaxLivingReq,
              \A i, j \in 1..p : chunk[i].addr = chunk[j].addr => i = j
       PROVE  p <= Len(living')
  <2>1. p \in Nat /\ p <= n
    BY <1>2, <1>9, <1>10
  <2> QED
    BY <2>1, <1>6, <1>7, <1>10
<1> QED
  BY <1>1, <1>4, <1>6, <1>7, <1>8, <1>10

\* Processing a chunk that begins with the living requests.
LEMMA ProcessRequestsStep ==
    ASSUME IInv,
           NEW chunk, Numbered(chunk),
           Len(living) <= Len(chunk),
           \A i \in 1..Len(living) : chunk[i] = living[i],
           ProcessRequests(chunk),
           access_number' \in Nat \ {0}
    PROVE  IInv' /\ cur_u' >= cur_u /\ Len(living') >= Len(living)
<1>1. /\ Len(living) \in Nat /\ Len(living) <= MaxLivingReq
      /\ cur_u \in Nat /\ MinUMult * Len(living) < cur_u
      /\ cur_u <= MinChunkSize \/ cur_u <= MaxUMult * Len(living)
      /\ HitsType(hits_vector)
      /\ \A i, j \in 1..Len(living) : living[i].addr = living[j].addr => i = j
  BY LenProperties DEF IInv, TypeOK, ChunkHasRoom, ChunkIsBounded,
                       ChunkBeginsWithLiving, HitsType, ChunkReq
<1>2. /\ requests' = living'
      /\ Numbered(living')
      /\ DistinctAddrs(living')
      /\ Len(living') \in Nat /\ Len(living') <= MaxLivingReq
      /\ HitsType(hits_vector')
      /\ cur_u' = UpdatedU(cur_u, Len(living'))
      /\ \A p \in 0..Len(chunk) :
             /\ p <= MaxLivingReq
             /\ \A i, j \in 1..p : chunk[i].addr = chunk[j].addr => i = j
             => p <= Len(living')
  BY <1>1, ProcessRequestsProperties
<1>3. Len(chunk) \in Nat
  BY LenProperties DEF Numbered
<1>4. Len(living') >= Len(living)
  <2>1. Len(living) \in 0..Len(chunk)
    BY <1>1, <1>3
  <2>2. \A i, j \in 1..Len(living) : chunk[i].addr = chunk[j].addr => i = j
    BY <1>1
  <2>3. Len(living) <= Len(living')
    BY <2>1, <2>2, <1>1, <1>2
  <2> QED
    BY <2>3, <1>1, <1>2
<1>5. /\ cur_u' \in Nat /\ cur_u' >= cur_u
      /\ MinUMult * Len(living') < cur_u'
      /\ cur_u' <= MinChunkSize \/ cur_u' <= MaxUMult * Len(living')
  <2> DEFINE k == Len(living)
             l == Len(living')
  <2>1. /\ k \in Nat /\ l \in Nat /\ k <= l
        /\ cur_u \in Nat /\ 3 * k < cur_u
        /\ cur_u <= MinChunkSize \/ cur_u <= 4 * k
        /\ cur_u' = IF l * 3 < cur_u THEN cur_u ELSE 4 * l
    BY <1>1, <1>2, <1>4 DEF UpdatedU, MinUMult, MaxUMult
  <2> HIDE DEF k, l
  <2>2. /\ cur_u' \in Nat /\ cur_u' >= cur_u
        /\ 3 * l < cur_u'
        /\ cur_u' <= MinChunkSize \/ cur_u' <= 4 * l
    BY <2>1, MinChunkSizeAssumption
  <2> QED
    BY <2>2 DEF l, MinUMult, MaxUMult
<1>6. Len(living') < cur_u'
  BY <1>2, <1>5 DEF MinUMult
<1>7. IInv'
  BY <1>2, <1>5, <1>6 DEF IInv, TypeOK, ChunkHasRoom, ChunkIsBounded,
        ChunkBeginsWithLiving, HitsType, Numbered, DistinctAddrs, ChunkReq
<1> QED
  BY <1>4, <1>5, <1>7

LEMMA InitInvariant == Init => IInv
<1> SUFFICES ASSUME Init PROVE IInv
  OBVIOUS
<1>1. requests = <<>> /\ living = <<>> /\ hits_vector = <<>> /\ access_number = 1
      /\ cur_u = MinChunkSize
  BY DEF Init
<1>2. requests \in Seq(ChunkReq) /\ Len(requests) = 0 /\ living \in Seq(ChunkReq) /\ Len(living) = 0
  BY <1>1
<1>3. DOMAIN hits_vector = {}
  BY <1>1
<1> QED
  BY <1>1, <1>2, <1>3, MinChunkSizeAssumption, MaxLivingReqAssumption
  DEF IInv, TypeOK, ChunkHasRoom, ChunkIsBounded, ChunkBeginsWithLiving, MinUMult, ChunkReq

\* An access adds its request at the end of the chunk.
LEMMA ChunkOfAccess ==
    ASSUME Numbered(requests), NEW addr \in Addr
    PROVE  LET chunk == Append(requests, Request(addr, Len(requests) + 1))
           IN  /\ Numbered(chunk)
               /\ Len(chunk) = Len(requests) + 1
               /\ \A i \in 1..Len(requests) : chunk[i] = requests[i]
<1> DEFINE chunk == Append(requests, Request(addr, Len(requests) + 1))
<1>1. Len(requests) \in Nat
  BY LenProperties DEF Numbered
<1>2. Request(addr, Len(requests) + 1) \in ChunkReq
  BY <1>1 DEF Request, ChunkReq
<1>3. /\ chunk \in Seq(ChunkReq)
      /\ Len(chunk) = Len(requests) + 1
      /\ \A i \in 1..Len(requests) : chunk[i] = requests[i]
      /\ chunk[Len(requests) + 1] = Request(addr, Len(requests) + 1)
  <2>1. requests \in Seq(ChunkReq)
    BY <1>1 DEF Numbered
  <2> DEFINE r == Request(addr, Len(requests) + 1)
  <2> HIDE DEF r
  <2>2. r \in ChunkReq
    BY <1>2 DEF r
  <2>3. /\ Append(requests, r) \in Seq(ChunkReq)
        /\ Len(Append(requests, r)) = Len(requests) + 1
        /\ \A i \in 1..Len(requests) : Append(requests, r)[i] = requests[i]
        /\ Append(requests, r)[Len(requests) + 1] = r
    BY <2>1, <2>2, AppendProperties
  <2> QED
    BY <2>3 DEF r
<1> HIDE DEF chunk
<1>4. Numbered(chunk)
  <2> SUFFICES ASSUME NEW i \in 1..Len(chunk) PROVE chunk[i].access_number = i
    BY <1>3 DEF Numbered
  <2>1. i \in 1..Len(requests) \/ i = Len(requests) + 1
    BY <1>1, <1>3
  <2> QED
    BY <2>1, <1>1, <1>3 DEF Numbered, Request
<1> QED
  BY <1>3, <1>4 DEF chunk

LEMMA StepInvariant ==
    IInv /\ [Next]_vars => IInv' /\ (vars' = vars \/ (cur_u' >= cur_u /\ Len(living') >= Len(living)))
<1> SUFFICES ASSUME IInv, [Next]_vars
             PROVE  IInv' /\ (vars' = vars \/ (cur_u' >= cur_u /\ Len(living') >= Len(living)))
  OBVIOUS
<1>1. /\ Numbered(requests) /\ Len(requests) \in Nat /\ Len(living) \in Nat
      /\ \A i \in 1..Len(requests) : requests[i] \in ChunkReq
      /\ Len(living) <= Len(requests)
      /\ \A i \in 1..Len(living) : requests[i] = living[i]
      /\ access_number \in Nat \ {0}
      /\ cur_u \in Nat
  <2>1. /\ requests \in Seq(ChunkReq) /\ living \in Seq(ChunkReq)
        /\ access_number \in Nat \ {0} /\ cur_u \in Nat
    BY DEF IInv, TypeOK, ChunkReq
  <2>2. /\ Len(requests) \in Nat /\ Len(living) \in Nat
        /\ \A i \in 1..Len(requests) : requests[i] \in ChunkReq
    BY <2>1, LenProperties
  <2>3. ChunkBeginsWithLiving
    BY DEF IInv
  <2> QED
    BY <2>1, <2>2, <2>3 DEF ChunkBeginsWithLiving, Numbered
<1>2. ASSUME NEW addr \in Addr, MemoryAccess(addr)
      PROVE  IInv' /\ cur_u' >= cur_u /\ Len(living') >= Len(living)
  <2> DEFINE chunk == Append(requests, Request(addr, Len(requests) + 1))
  <2>1. /\ Numbered(chunk)
        /\ Len(chunk) = Len(requests) + 1
        /\ \A i \in 1..Len(requests) : chunk[i] = requests[i]
    BY <1>1, ChunkOfAccess
  <2>2. /\ access_number' \in Nat \ {0}
        /\ \/ ProcessRequests(chunk)
           \/ /\ Len(chunk) < cur_u
              /\ requests' = chunk
              /\ UNCHANGED <<living, hits_vector, cur_u>>
    BY <1>1, <1>2 DEF MemoryAccess
  <2> HIDE DEF chunk
  <2>3. Len(living) <= Len(chunk) /\ \A i \in 1..Len(living) : chunk[i] = living[i]
    BY <1>1, <2>1
  <2>4. CASE ProcessRequests(chunk)
    BY <2>1, <2>2, <2>3, <2>4, ProcessRequestsStep
  <2>5. CASE /\ Len(chunk) < cur_u
             /\ requests' = chunk
             /\ UNCHANGED <<living, hits_vector, cur_u>>
    <3>1. IInv'
      BY <1>1, <2>1, <2>2, <2>3, <2>5
      DEF IInv, TypeOK, ChunkHasRoom, ChunkIsBounded, ChunkBeginsWithLiving, Numbered, ChunkReq
    <3> QED
      BY <3>1, <2>5, <1>1
  <2> QED
    BY <2>2, <2>4, <2>5
<1>3. ASSUME GetSuccessFunction
      PROVE  IInv' /\ cur_u' >= cur_u /\ Len(living') >= Len(living)
  <2>1. access_number' \in Nat \ {0}
    BY <1>1, <1>3 DEF GetSuccessFunction
  <2>2. CASE ProcessRequests(requests)
    BY <1>1, <2>1, <2>2, ProcessRequestsStep
  <2>3. CASE UNCHANGED <<requests, living, hits_vector, cur_u>>
    <3>1. IInv'
      BY <2>1, <2>3 DEF IInv, TypeOK, ChunkHasRoom, ChunkIsBounded, ChunkBeginsWithLiving
    <3> QED
      BY <3>1, <2>3, <1>1
  <2> QED
    BY <1>3, <2>2, <2>3 DEF GetSuccessFunction
<1>4. CASE UNCHANGED vars
  BY <1>4 DEF IInv, TypeOK, ChunkHasRoom, ChunkIsBounded, ChunkBeginsWithLiving, vars
<1> QED
  BY <1>2, <1>3, <1>4 DEF Next

THEOREM Invariance == Spec => []IInv
BY InitInvariant, StepInvariant, PTL DEF Spec

\* The variables of BoundedIAF have their types.
THEOREM TypeCorrect == Spec => []TypeOK
<1>1. IInv => TypeOK
  BY DEF IInv
<1> QED
  BY Invariance, <1>1, PTL

\* The chunk that is being filled has room, and processing one always leaves
\* room for at least a fourth of it to be fresh requests.
THEOREM ChunkAlwaysHasRoom == Spec => []ChunkHasRoom
<1>1. IInv => ChunkHasRoom
  BY DEF IInv
<1> QED
  BY Invariance, <1>1, PTL

\* Memory is bounded by the initial chunk size or four times the living
\* requests.
THEOREM ChunkAlwaysBounded == Spec => []ChunkIsBounded
<1>1. IInv => ChunkIsBounded
  BY DEF IInv
<1> QED
  BY Invariance, <1>1, PTL

\* The next chunk begins with the living requests, one of each address,
\* renumbered by position.
THEOREM LivingBeginTheChunk == Spec => []ChunkBeginsWithLiving
<1>1. IInv => ChunkBeginsWithLiving
  BY DEF IInv
<1> QED
  BY Invariance, <1>1, PTL

\* The size of chunks and the number of living requests never decrease.
THEOREM ChunkMonotone == Spec => ChunkNeverShrinks
<1>1. IInv /\ [Next]_vars => [cur_u' >= cur_u /\ Len(living') >= Len(living)]_vars
  BY StepInvariant
<1> QED
  BY Invariance, <1>1, PTL DEF Spec, ChunkNeverShrinks

-----------------------------------------------------------------------------
(* The caches that a chunk stands for                                      *)

\* The histogram never outgrows the living requests.
HitsInv == Histogram(hits_vector) /\ VectorSize(hits_vector) <= 1 + Len(living)

\* A chunk is a log.
LEMMA ChunkIsLog ==
    ASSUME NEW chunk, Numbered(chunk)
    PROVE  Log(chunk) /\ Len(chunk) \in Nat
<1>1. chunk \in Seq(ChunkReq) /\ Len(chunk) \in Nat /\ \A i \in 1..Len(chunk) : chunk[i] \in ChunkReq
  BY LenProperties DEF Numbered
<1>2. chunk \in Seq(Req)
  <2> DEFINE n == Len(chunk)
  <2>1. chunk \in [1..n -> ChunkReq]
    BY <1>1, LenProperties
  <2>2. \A r \in ChunkReq : r \in Req
    BY AddrAssumption DEF ChunkReq, Req
  <2> HIDE DEF n
  <2>3. chunk \in [1..n -> Req]
    BY <2>1, <2>2
  <2> QED
    BY <1>1, <2>3 DEF n
<1>3. \A i \in 1..Len(chunk) : chunk[i].access_number = i
  BY DEF Numbered
<1> QED
  BY <1>1, <1>2, <1>3 DEF Log, DistinctNumbers

\* The trace of a chunk, place by place.
LEMMA TraceOfChunk ==
    ASSUME NEW chunk, Numbered(chunk)
    PROVE  /\ Len(TraceOf(chunk)) = Len(chunk)
           /\ \A i \in 1..Len(chunk) : TraceOf(chunk)[i] = chunk[i].addr
<1>1. \A i \in 1..Len(chunk) : chunk[i].access_number = i
  BY DEF Numbered
<1>2. /\ Len(TraceOf(chunk)) = Len(chunk)
      /\ \A i \in 1..Len(chunk) : TraceOf(chunk)[chunk[i].access_number] = chunk[i].addr
  BY ChunkIsLog, TraceOfLog
<1> QED
  BY <1>1, <1>2

\* A chunk without a repeated address: no hits, and its queue is its vector.
LEMMA FreshChunk ==
    ASSUME NEW chunk, Numbered(chunk), DistinctAddrs(chunk)
    PROVE  /\ \A x : HitsWithSize(TraceOf(chunk), x) = 0
           /\ Cardinality(DOMAIN LastUse(TraceOf(chunk))) = Len(chunk)
           /\ \A i \in 1..Len(chunk) :
                 PageAt(LastUse(TraceOf(chunk)), Len(chunk) - i) = chunk[i].addr
<1> DEFINE trace == TraceOf(chunk)
           n == Len(chunk)
           table == LastUse(trace)
<1>1. /\ n \in Nat /\ Len(trace) = n
      /\ \A i \in 1..n : trace[i] = chunk[i].addr
  BY ChunkIsLog, TraceOfChunk
<1>2. \A i, j \in 1..n : trace[i] = trace[j] => i = j
  BY <1>1 DEF DistinctAddrs
<1>3. /\ TableUntil(table, n + 1)
      /\ DOMAIN table = Addresses(trace)
      /\ \A a \in Addresses(trace) : table[a] \in 1..n /\ trace[table[a]] = a
  BY <1>1, LastUseProperties
<1> HIDE DEF trace, n, table
<1>4. \A i \in 1..n : trace[i] \in DOMAIN table /\ table[trace[i]] = i
  BY <1>1, <1>2, <1>3 DEF Addresses
<1>5. \A x : HitsWithSize(trace, x) = 0
  <2>1. Repeats(trace) = {}
    BY <1>1, <1>2 DEF Repeats, IsRepeat, Earlier
  <2> QED
    BY <2>1, FS_EmptySet DEF HitsWithSize
<1>6. /\ Cardinality(DOMAIN table) = n
      /\ \A i \in 1..n : PageAt(table, n - i) = trace[i]
  <2> DEFINE t == n + 1
  <2>1. t \in Nat /\ n \in Nat /\ TableUntil(table, t)
    BY <1>1, <1>3
  <2>2. \A a \in DOMAIN table : \E i \in 1..n : trace[i] = a
    BY <1>3
  <2>3. \A i, j \in 1..n : i < j => table[trace[i]] < table[trace[j]]
    BY <1>4
  <2>4. \A i \in 1..n : trace[i] \in DOMAIN table
    BY <1>4
  <2> HIDE DEF t
  <2> QED
    BY <2>1, <2>2, <2>3, <2>4, QueueInOrder
<1> QED
  BY <1>1, <1>5, <1>6 DEF trace, n, table

\* The survivors of a chunk are the last accesses of its addresses.
LEMMA SurvivorsAreLastUses ==
    ASSUME NEW sorted, Log(sorted), Sorted(sorted), NEW r \in Survivors(sorted)
    PROVE  /\ r.access_number \in LastUses(TraceOf(sorted))
           /\ r.addr = TraceOf(sorted)[r.access_number]
<1> DEFINE n == Len(sorted)
           trace == TraceOf(sorted)
<1>1. /\ n \in Nat /\ Len(trace) = n
      /\ \A i \in 1..n : sorted[i].addr \in Nat /\ sorted[i].access_number \in 1..n
      /\ \A i \in 1..n : trace[sorted[i].access_number] = sorted[i].addr
  BY LogElements, TraceOfLog
<1>2. \A m \in 1..n : \E i \in 1..n : sorted[i].access_number = m
  BY LogElements
<1>3. \A l, m \in 1..n : l < m =>
         \/ sorted[l].addr < sorted[m].addr
         \/ sorted[l].addr = sorted[m].addr /\ sorted[l].access_number < sorted[m].access_number
  BY DEF ReqLess, Sorted
<1>4. PICK j \in 1..n : /\ r = sorted[j]
                        /\ j = n \/ ~FollowsSameAddr(sorted, j + 1)
  BY DEF Survivors
<1> HIDE DEF n, trace
<1> DEFINE a == sorted[j].access_number
<1>5. a \in 1..n /\ trace[a] = sorted[j].addr
  BY <1>1
<1>6. ASSUME NEW k \in (a + 1)..n PROVE trace[k] # trace[a]
  <2> SUFFICES ASSUME trace[k] = trace[a] PROVE FALSE
    OBVIOUS
  <2>1. PICK i \in 1..n : sorted[i].access_number = k
    <3>1. k \in 1..n
      BY <1>1, <1>5
    <3> QED
      BY <1>2, <3>1
  <2>2. sorted[i].addr = sorted[j].addr /\ a < sorted[i].access_number
    BY <1>1, <1>5, <2>1
  <2>3. j < i
    BY <1>1, <1>3, <2>1, <2>2
  <2>4. j + 1 \in 1..n /\ j + 1 - 1 = j /\ j + 1 > 1
    BY <1>1, <2>3
  <2>5. sorted[j + 1].addr # sorted[j].addr
    BY <1>1, <1>4, <2>3, <2>4 DEF FollowsSameAddr
  <2>6. sorted[j].addr < sorted[j + 1].addr
    BY <1>1, <1>3, <2>4, <2>5
  <2>7. j + 1 = i \/ j + 1 < i
    BY <1>1, <2>3
  <2> QED
    BY <1>1, <1>3, <2>2, <2>4, <2>6, <2>7
<1>7. a \in LastUses(trace)
  BY <1>1, <1>5, <1>6 DEF LastUses
<1> QED
  BY <1>1, <1>4, <1>7 DEF trace

\* Listed by access number, the survivors are the queue of the chunk from back
\* to front.
LEMMA SurvivorsAreQueue ==
    ASSUME NEW chunk, Numbered(chunk),
           NEW v \in ByAccessNumber(Survivors(SortedRequests(chunk)))
    PROVE  /\ Len(v) \in Nat
           /\ Numbered(Renumber(EvictOldest(v)))
           /\ Len(Renumber(EvictOldest(v))) = CappedLiving(Len(v))
           /\ DistinctAddrs(Renumber(EvictOldest(v)))
           /\ NewestOf(v, Renumber(EvictOldest(v)))
           /\ UniqueIds(SortedRequests(chunk)) = Len(v)
           /\ Cardinality(DOMAIN LastUse(TraceOf(chunk))) = Len(v)
           /\ \A i \in 1..Len(v) :
                 PageAt(LastUse(TraceOf(chunk)), Len(v) - i) = v[i].addr
<1> DEFINE sorted == SortedRequests(chunk)
           S == Survivors(sorted)
           m == Cardinality(S)
           trace == TraceOf(chunk)
           n == Len(trace)
           table == LastUse(trace)
           pages == [i \in 1..m |-> v[i].addr]
           kept == Renumber(EvictOldest(v))
<1>1. /\ Log(chunk) /\ Len(chunk) \in Nat
      /\ Log(sorted) /\ Sorted(sorted)
      /\ TraceOf(sorted) = trace
  BY ChunkIsLog, SortedLog, SortedTrace DEF Sorted
<1>2. /\ Len(sorted) = Len(chunk)
      /\ \A j \in 1..Len(chunk) : sorted[j] \in ChunkReq
      /\ \A j, l \in 1..Len(chunk) : j < l => ReqLess(sorted[j], sorted[l])
      /\ \A i \in 1..Len(chunk) : \E j \in 1..Len(chunk) : sorted[j] = chunk[i]
  BY SortedChunk
<1>3. n = Len(chunk) /\ \A i \in 1..n : trace[i] = chunk[i].addr
  BY TraceOfChunk
<1>4. UniqueIds(sorted) = Cardinality(Addresses(trace))
  <2> HIDE DEF sorted, trace
  <2> QED
    BY <1>1, UniqueIdsAreAddresses
<1> HIDE DEF sorted
<1>5. /\ S \subseteq ChunkReq
      /\ IsFiniteSet(S)
      /\ \A r, s \in S : r.addr = s.addr => r = s
      /\ \A j \in 1..Len(chunk) : \E s \in S : s.addr = sorted[j].addr
  BY <1>1, <1>2, SurvivorsProperties
<1>6. \A r \in S : r.access_number \in LastUses(trace) /\ r.addr = trace[r.access_number]
  <2> HIDE DEF trace
  <2> QED
    BY <1>1, SurvivorsAreLastUses
<1>7. v \in [1..m -> S] /\ \A i, j \in 1..m : i < j => v[i].access_number < v[j].access_number
  BY DEF ByAccessNumber, sorted
<1> HIDE DEF S
<1>8. m \in Nat
  BY <1>5, FS_CardinalityType
<1> HIDE DEF m
<1> HIDE DEF kept
<1>9. /\ Len(v) = m
      /\ Numbered(kept)
      /\ Len(kept) = CappedLiving(m)
      /\ DistinctAddrs(kept)
      /\ NewestOf(v, kept)
  <2>1. \A r, s \in S : r.addr = s.addr => r = s
    BY <1>5
  <2>2. \A i, j \in 1..m : i < j => v[i].access_number < v[j].access_number
    BY <1>7
  <2>3. S \subseteq ChunkReq /\ m \in Nat /\ v \in [1..m -> S]
    BY <1>5, <1>7, <1>8
  <2> QED
    BY <2>1, <2>2, <2>3, KeptProperties DEF kept
<1>10. \A s \in S : \E i \in 1..m : v[i] = s
  <2>1. \A i \in 1..m : v[i] \in S /\ v[i].access_number \in Nat
    BY <1>5, <1>7 DEF ChunkReq
  <2>2. \A i, j \in 1..m : v[i] = v[j] => i = j
    <3> SUFFICES ASSUME NEW i \in 1..m, NEW j \in 1..m, v[i] = v[j] PROVE i = j
      OBVIOUS
    <3>1. ~(i < j) /\ ~(j < i)
      BY <1>7, <2>1
    <3> QED
      BY <3>1, <1>8
  <2>3. v \in Injection(1..m, S)
    BY <1>7, <2>2 DEF Injection, IsInjective
  <2>4. Cardinality(1..m) = m
    BY <1>8, FS_Interval
  <2>5. v \in Surjection(1..m, S)
    BY <2>3, <2>4, <1>5, FS_Injection DEF m
  <2> QED
    BY <2>5 DEF Surjection
<1>11. n \in Nat
  BY <1>1, <1>3
<1>12. /\ TableUntil(table, n + 1)
       /\ DOMAIN table = Addresses(trace)
       /\ \A i \in LastUses(trace) : trace[i] \in Addresses(trace) /\ table[trace[i]] = i
  BY <1>11, LastUseProperties
<1>13. \A a \in Addresses(trace) : \E i \in 1..n : trace[i] = a
  BY DEF Addresses
<1> HIDE DEF n, table, trace
<1>14. \A i \in 1..m : /\ pages[i] = v[i].addr
                        /\ pages[i] \in DOMAIN table
                        /\ table[pages[i]] = v[i].access_number
  BY <1>6, <1>7, <1>12
<1>15. \A a \in DOMAIN table : \E i \in 1..m : pages[i] = a
  <2> SUFFICES ASSUME NEW a \in DOMAIN table PROVE \E i \in 1..m : pages[i] = a
    OBVIOUS
  <2>1. PICK k \in 1..n : chunk[k].addr = a
    BY <1>3, <1>12, <1>13
  <2>2. PICK j \in 1..Len(chunk) : sorted[j] = chunk[k]
    BY <1>2, <1>3, <2>1
  <2>3. PICK s \in S : s.addr = a
    BY <1>5, <2>1, <2>2
  <2> QED
    BY <1>10, <1>14, <2>3
<1>16. \A i, j \in 1..m : i < j => table[pages[i]] < table[pages[j]]
  BY <1>7, <1>14
<1>17. /\ Cardinality(DOMAIN table) = m
       /\ \A i \in 1..m : PageAt(table, m - i) = pages[i]
  <2> DEFINE t == n + 1
  <2>1. t \in Nat /\ TableUntil(table, t)
    BY <1>11, <1>12
  <2>2. \A i \in 1..m : pages[i] \in DOMAIN table
    BY <1>14
  <2> HIDE DEF t, pages
  <2> QED
    BY <2>1, <2>2, <1>8, <1>15, <1>16, QueueInOrder
<1> QED
  BY <1>4, <1>8, <1>9, <1>12, <1>14, <1>17 DEF table, trace, sorted, kept

\* The caches of the living requests are those of the chunk.
LEMMA KeptCaches ==
    ASSUME NEW chunk, Numbered(chunk),
           NEW v \in ByAccessNumber(Survivors(SortedRequests(chunk))),
           NEW x \in Nat \ {0}, x <= MaxLivingReq
    PROVE  TopOfStack(Renumber(EvictOldest(v)), x) = TopOfStack(chunk, x)
<1> DEFINE kept == Renumber(EvictOldest(v))
           m == Len(v)
           k == CappedLiving(m)
           old == LastUse(TraceOf(chunk))
           new == LastUse(TraceOf(kept))
           front == IF x < m THEN x ELSE m
<1>1. /\ m \in Nat
      /\ Numbered(kept)
      /\ Len(kept) = k
      /\ DistinctAddrs(kept)
      /\ NewestOf(v, kept)
      /\ Cardinality(DOMAIN old) = m
      /\ \A i \in 1..m : PageAt(old, m - i) = v[i].addr
  BY SurvivorsAreQueue
<1>2. /\ TopOfStack(chunk, x) = FrontPages(old, x)
      /\ TopOfStack(kept, x) = FrontPages(new, x)
  <2>1. Len(TraceOf(chunk)) \in Nat
    BY ChunkIsLog, TraceOfChunk
  <2>2. Len(TraceOf(kept)) \in Nat
    <3> HIDE DEF kept
    <3> QED
      BY <1>1, ChunkIsLog, TraceOfChunk
  <2> QED
    BY <2>1, <2>2, TopOfStackIsFront
<1> HIDE DEF kept
<1>3. /\ Cardinality(DOMAIN new) = k
      /\ \A i \in 1..k : PageAt(new, k - i) = kept[i].addr
  BY <1>1, FreshChunk
<1> HIDE DEF old, new, m
<1>4. k \in 0..m /\ (IF x < k THEN x ELSE k) = front
  <2>1. m \in Nat /\ MaxLivingReq \in Nat /\ x \in Nat /\ x <= MaxLivingReq
    BY <1>1, MaxLivingReqAssumption
  <2> QED
    BY <2>1 DEF CappedLiving
<1> HIDE DEF k
<1>5. ASSUME NEW i \in 1..front PROVE PageAt(new, i - 1) = PageAt(old, i - 1)
  <2> DEFINE j == k - i + 1
             l == m - i + 1
  <2>1. j \in 1..k /\ l \in 1..m /\ m - k + j = l /\ k - j = i - 1 /\ m - l = i - 1
    BY <1>1, <1>4
  <2> HIDE DEF j, l
  <2>2. kept[j].addr = v[l].addr
    BY <1>1, <2>1 DEF NewestOf, m, k
  <2>3. PageAt(new, k - j) = kept[j].addr /\ PageAt(old, m - l) = v[l].addr
    BY <1>1, <1>3, <2>1
  <2> QED
    BY <2>1, <2>2, <2>3
<1>6. /\ FrontPages(new, x) = [i \in 1..front |-> PageAt(new, i - 1)]
      /\ FrontPages(old, x) = [i \in 1..front |-> PageAt(old, i - 1)]
  BY <1>1, <1>3, <1>4 DEF FrontPages
<1> HIDE DEF front
<1> QED
  BY <1>2, <1>5, <1>6 DEF kept

\* A histogram resized, and the hits up to a size that it keeps.
LEMMA ResizedHistogram ==
    ASSUME NEW hits, Histogram(hits), NEW n \in Nat \ {0}
    PROVE  /\ Histogram(Resize(hits, n))
           /\ VectorSize(Resize(hits, n)) = n
           /\ \A d \in Nat : d < n \/ VectorSize(hits) <= n =>
                 HitAt(Resize(hits, n), d) = HitAt(hits, d)
<1> DEFINE new == Resize(hits, n)
           u == n - 1
<1>1. /\ u \in Nat /\ u + 1 = n
      /\ DOMAIN new = 0..u
      /\ \A d \in 0..u : new[d] = HitAt(hits, d)
  BY DEF Resize, HitAt
<1>2. /\ VectorSize(hits) \in Nat
      /\ DOMAIN hits = 0..(VectorSize(hits) - 1)
      /\ \A d \in DOMAIN hits : hits[d] \in Int
  BY DEF Histogram
<1> HIDE DEF new, u
<1>3. VectorSize(new) = n
  BY <1>1, IntervalSize
<1>4. Histogram(new)
  <2>1. u = n - 1
    BY DEF u
  <2> QED
    BY <1>1, <1>2, <1>3, <2>1 DEF Histogram, HitAt
<1>5. ASSUME NEW d \in Nat, d < n \/ VectorSize(hits) <= n
      PROVE  HitAt(new, d) = HitAt(hits, d)
  BY <1>1, <1>2, <1>5 DEF HitAt
<1> QED
  BY <1>3, <1>4, <1>5 DEF new

LEMMA ResizedHits ==
    ASSUME NEW hits, Histogram(hits), NEW n \in Nat \ {0}, NEW x \in Nat \ {0},
           x < n \/ VectorSize(hits) <= n
    PROVE  SumFunctionOnSet(Resize(hits, n), (1..x) \cap DOMAIN Resize(hits, n)) =
              SumFunctionOnSet(hits, (1..x) \cap DOMAIN hits)
<1> DEFINE new == Resize(hits, n)
<1>1. /\ Histogram(new)
      /\ \A d \in Nat : d < n \/ VectorSize(hits) <= n => HitAt(new, d) = HitAt(hits, d)
  BY ResizedHistogram
<1> HIDE DEF new
<1>2. \A d \in 1..x : HitAt(new, d) = HitAt(hits, d)
  BY <1>1
<1>3. [d \in 1..x |-> HitAt(new, d)] = [d \in 1..x |-> HitAt(hits, d)]
  BY <1>2
<1>4. SumFunctionOnSet([d \in 1..x |-> HitAt(new, d)], 1..x) =
         SumFunctionOnSet(new, (1..x) \cap DOMAIN new)
  BY <1>1, HitsInRange
<1>5. SumFunctionOnSet([d \in 1..x |-> HitAt(hits, d)], 1..x) =
         SumFunctionOnSet(hits, (1..x) \cap DOMAIN hits)
  BY HitsInRange
<1> QED
  BY <1>3, <1>4, <1>5 DEF new

\* The chunk that is processed keeps the histogram within its bound.
LEMMA ProcessingKeepsHistogram ==
    ASSUME NEW chunk, Numbered(chunk), HitsInv, ProcessRequests(chunk)
    PROVE  HitsInv'
<1> DEFINE sorted == SortedRequests(chunk)
           updated == UpdatedHits(hits_vector, sorted)
<1>1. PICK v \in ByAccessNumber(Survivors(sorted)) :
          /\ hits_vector' = Resize(updated, 1 + CappedLiving(Len(v)))
          /\ living' = Renumber(EvictOldest(v))
  BY DEF ProcessRequests
<1> DEFINE k == CappedLiving(Len(v))
           n == 1 + k
<1>2. Len(v) \in Nat /\ Len(living') = k
  BY <1>1, SurvivorsAreQueue
<1>3. Log(sorted) /\ Sorted(sorted)
  BY ChunkIsLog, SortedLog DEF Sorted
<1> HIDE DEF sorted
<1>4. k \in Nat /\ n \in Nat \ {0}
  BY <1>2, CappedLivingProperties
<1>5. Histogram(updated)
  <2>1. 1 \in Nat \ {0}
    OBVIOUS
  <2> QED
    BY <1>3, <2>1, SuccessOfLog DEF HitsInv
<1> HIDE DEF updated, k
<1>6. Histogram(hits_vector') /\ VectorSize(hits_vector') = n
  <2>1. hits_vector' = Resize(updated, n)
    BY <1>1 DEF k
  <2> HIDE DEF n
  <2> QED
    BY <1>4, <1>5, <2>1, ResizedHistogram
<1> QED
  BY <1>2, <1>4, <1>6 DEF HitsInv

\* What counts for a cache is in the histogram.
KnownHits(x) == SumFunctionOnSet(hits_vector, (1..x) \cap DOMAIN hits_vector)

LEMMA KnownIsNumber ==
    ASSUME NEW hits, Histogram(hits), NEW x \in Nat
    PROVE  SumFunctionOnSet(hits, (1..x) \cap DOMAIN hits) \in Int
<1> DEFINE D == (1..x) \cap DOMAIN hits
<1>1. IsFiniteSet(1..x) /\ D \in SUBSET (1..x)
  BY FS_Interval
<1>2. IsFiniteSet(D) /\ \A d \in D : hits[d] \in Int
  BY <1>1, FS_Subset DEF Histogram
<1> HIDE DEF D
<1>3. SumFunctionOnSet(hits, D) \in Int
  BY <1>2, SumProperties
<1> QED
  BY <1>3 DEF D

LEMMA HitsAreNumbers ==
    ASSUME HitsInv, NEW x \in Nat \ {0}
    PROVE  /\ KnownHits(x) \in Int
           /\ KnownHits(x) = HitsOfSize(PrefixSums(hits_vector), x)
           /\ HitsSoFar(x) = KnownHits(x) + HitsWithSize(TraceOf(requests), x)
<1>1. Histogram(hits_vector)
  BY DEF HitsInv
<1> QED
  BY <1>1, KnownIsNumber, SuccessIsSum DEF KnownHits, HitsSoFar

\* Processing a chunk, where the code throws the trace away, changes no cache
\* and no number of hits.
LEMMA ProcessingIsNoAccess ==
    ASSUME NEW chunk, Numbered(chunk), HitsInv,
           Len(living) \in Nat, Len(living') >= Len(living),
           ProcessRequests(chunk),
           NEW x \in Nat \ {0}, x <= MaxLivingReq
    PROVE  /\ TopOfStack(requests', x) = TopOfStack(chunk, x)
           /\ HitsSoFar(x)' = KnownHits(x) + HitsWithSize(TraceOf(chunk), x)
           /\ HitsOfSize(PrefixSums(hits_vector'), x) = HitsSoFar(x)'
<1> DEFINE sorted == SortedRequests(chunk)
           updated == UpdatedHits(hits_vector, sorted)
<1>1. PICK v \in ByAccessNumber(Survivors(sorted)) :
          /\ hits_vector' = Resize(updated, 1 + CappedLiving(Len(v)))
          /\ living' = Renumber(EvictOldest(v))
          /\ requests' = Renumber(EvictOldest(v))
  BY DEF ProcessRequests
<1> DEFINE m == Len(v)
           k == CappedLiving(m)
           n == 1 + k
<1>2. /\ m \in Nat
      /\ Numbered(requests')
      /\ Len(requests') = k
      /\ DistinctAddrs(requests')
      /\ UniqueIds(sorted) = m
  BY <1>1, SurvivorsAreQueue
<1>3. TopOfStack(requests', x) = TopOfStack(chunk, x)
  BY <1>1, KeptCaches
<1>4. Log(sorted) /\ Sorted(sorted) /\ TraceOf(sorted) = TraceOf(chunk)
  BY ChunkIsLog, SortedLog, SortedTrace DEF Sorted
<1>5. /\ HitsWithSize(TraceOf(requests'), x) = 0
      /\ HitsWithSize(TraceOf(chunk), x) \in Nat
  <2>1. Len(TraceOf(chunk)) \in Nat
    BY ChunkIsLog, TraceOfChunk
  <2> QED
    BY <1>2, <2>1, FreshChunk, HitsNumber
<1> HIDE DEF sorted, m
<1>6. /\ k \in Nat /\ n \in Nat \ {0}
      /\ k = m \/ x <= k
  BY <1>2, MaxLivingReqAssumption DEF CappedLiving
<1>7. Histogram(hits_vector) /\ VectorSize(hits_vector) <= 1 + k
  <2>1. Len(living') = k
    BY <1>1, <1>2
  <2>2. Histogram(hits_vector) /\ VectorSize(hits_vector) <= 1 + Len(living)
        /\ VectorSize(hits_vector) \in Nat
    BY DEF HitsInv, Histogram
  <2> HIDE DEF k
  <2> QED
    BY <2>1, <2>2, <1>6
<1>8. /\ Histogram(updated)
      /\ HitsOfSize(PrefixSums(updated), x) =
            HitsOfSize(PrefixSums(hits_vector), x) + HitsWithSize(TraceOf(chunk), x)
  BY <1>4, <1>7, SuccessOfLog
<1>9. VectorSize(updated) = IF VectorSize(hits_vector) < m + 1 THEN m + 1
                            ELSE VectorSize(hits_vector)
  BY <1>2, <1>4, <1>7, HitsOfLog
<1> HIDE DEF updated, k
<1>10. x < n \/ VectorSize(updated) <= n
  BY <1>2, <1>6, <1>7, <1>9 DEF Histogram
<1> HIDE DEF n
<1>11. KnownHits(x)' = SumFunctionOnSet(updated, (1..x) \cap DOMAIN updated)
  <2>1. hits_vector' = Resize(updated, n)
    BY <1>1 DEF n, k, m
  <2> QED
    BY <2>1, <1>6, <1>8, <1>10, ResizedHits DEF KnownHits
<1>12. HitsInv'
  BY ProcessingKeepsHistogram
<1>13. /\ HitsOfSize(PrefixSums(hits_vector), x) = KnownHits(x)
       /\ HitsOfSize(PrefixSums(updated), x) = KnownHits(x)'
  BY <1>7, <1>8, <1>11, SuccessIsSum DEF KnownHits
<1>14. /\ HitsOfSize(PrefixSums(hits_vector'), x) = KnownHits(x)'
       /\ KnownHits(x)' \in Int
  <2>1. Histogram(hits_vector')
    BY <1>12 DEF HitsInv
  <2> QED
    BY <2>1, SuccessIsSum, KnownIsNumber DEF KnownHits
<1>15. HitsSoFar(x)' = KnownHits(x)' + 0
  BY <1>5 DEF HitsSoFar, KnownHits
<1> QED
  BY <1>3, <1>8, <1>13, <1>14, <1>15

-----------------------------------------------------------------------------
(* BoundedIAF implements LRU caches of all sizes up to its limit           *)

\* The caches, their hits and the last report, read from the variables.
Caches == [x \in 1..MaxSize |-> TopOfStack(requests, x)]
CacheHits == [x \in 1..MaxSize |-> HitsSoFar(x)]
Reported == [x \in 1..MaxSize |-> HitsOfSize(success, x)]

LEMMA SizesAreLimited == \A x \in 1..MaxSize : x \in Nat \ {0} /\ x <= MaxLivingReq
BY MaxSizeAssumption, MaxLivingReqAssumption

LEMMA StartIsLRU == Init => HitsInv /\ LRU!Init
<1> SUFFICES ASSUME Init PROVE HitsInv /\ LRU!Init
  OBVIOUS
<1>1. requests = <<>> /\ living = <<>> /\ hits_vector = <<>> /\ success = <<>>
  BY DEF Init
<1>2. HitsInv
  <2>1. VectorSize(hits_vector) = 0
    <3>1. DOMAIN hits_vector = {}
      BY <1>1
    <3> QED
      BY <3>1, FS_EmptySet DEF VectorSize
  <2>2. Len(living) = 0
    BY <1>1
  <2> QED
    BY <1>1, <2>1, <2>2, NoHits DEF HitsInv
<1>3. ASSUME NEW x \in 1..MaxSize
      PROVE  /\ TopOfStack(requests, x) = <<>>
             /\ HitsSoFar(x) = 0
             /\ HitsOfSize(success, x) = 0
  <2>1. /\ TopOfStack(requests, x) = <<>>
        /\ HitsWithSize(TraceOf(requests), x) = 0
        /\ HitsOfSize(success, x) = 0
    BY <1>1, SizesAreLimited, NoAccesses DEF HitsOfSize
  <2>2. (1..x) \cap DOMAIN hits_vector = {}
    BY <1>1
  <2>3. SumFunctionOnSet(hits_vector, {}) = 0
    BY FS_EmptySet, SumProperties
  <2>4. HitsSoFar(x) = 0 + 0
    BY <2>1, <2>2, <2>3 DEF HitsSoFar
  <2> QED
    BY <2>1, <2>4
<1> QED
  BY <1>2, <1>3 DEF LRU!Init, LRU!Sizes

\* An access, whether it fills the chunk or not, is an access of every cache.
LEMMA AccessIsLRU ==
    ASSUME IInv, HitsInv, NEW addr \in Addr, MemoryAccess(addr),
           Len(living') >= Len(living)
    PROVE  HitsInv' /\ LRU!Access(addr)
<1> DEFINE chunk == Append(requests, Request(addr, Len(requests) + 1))
<1>1. Numbered(requests) /\ Len(living) \in Nat
  <2>1. requests \in Seq(ChunkReq) /\ living \in Seq(ChunkReq) /\ ChunkBeginsWithLiving
    BY DEF IInv, TypeOK, ChunkReq
  <2> QED
    BY <2>1, LenProperties DEF ChunkBeginsWithLiving, Numbered
<1>2. Numbered(chunk)
  BY <1>1, ChunkOfAccess
<1>3. Log(requests) /\ addr \in Nat
  BY <1>1, ChunkIsLog, AddrAssumption
<1>4. /\ \/ ProcessRequests(chunk)
         \/ requests' = chunk /\ UNCHANGED <<living, hits_vector>>
      /\ success' = success
  BY DEF MemoryAccess
<1>5. ASSUME NEW x \in Nat \ {0}
      PROVE  /\ TopOfStack(chunk, x) = Touch(TopOfStack(requests, x), addr, x)
             /\ HitsWithSize(TraceOf(requests), x) \in Nat
             /\ HitsWithSize(TraceOf(chunk), x) = HitsWithSize(TraceOf(requests), x)
                  + (IF Holds(TopOfStack(requests, x), addr) THEN 1 ELSE 0)
  BY <1>3, AccessIsTouch DEF Request
<1> HIDE DEF chunk
<1>6. ASSUME NEW x \in Nat \ {0}, x <= MaxLivingReq
      PROVE  /\ TopOfStack(requests', x) = TopOfStack(chunk, x)
             /\ HitsSoFar(x)' = KnownHits(x) + HitsWithSize(TraceOf(chunk), x)
  <2>1. CASE ProcessRequests(chunk)
    BY <1>1, <1>2, <1>6, <2>1, ProcessingIsNoAccess
  <2>2. CASE requests' = chunk /\ UNCHANGED <<living, hits_vector>>
    BY <2>2 DEF HitsSoFar, KnownHits
  <2> QED
    BY <1>4, <2>1, <2>2
<1>7. HitsInv'
  BY <1>1, <1>2, <1>4, ProcessingKeepsHistogram DEF HitsInv
<1>8. ASSUME NEW x \in 1..MaxSize
      PROVE  /\ TopOfStack(requests', x) = LRU!Touch(TopOfStack(requests, x), addr, x)
             /\ HitsSoFar(x)' = HitsSoFar(x) +
                  (IF LRU!Holds(TopOfStack(requests, x), addr) THEN 1 ELSE 0)
  <2>1. x \in Nat \ {0} /\ x <= MaxLivingReq
    BY SizesAreLimited
  <2>2. \A c : /\ LRU!Touch(c, addr, x) = Touch(c, addr, x)
               /\ LRU!Holds(c, addr) <=> Holds(c, addr)
    BY DEF LRU!Touch, LRU!Holds, Touch, Holds
  <2>3. /\ TopOfStack(requests', x) = Touch(TopOfStack(requests, x), addr, x)
        /\ HitsSoFar(x)' = KnownHits(x) + (HitsWithSize(TraceOf(requests), x)
              + (IF Holds(TopOfStack(requests, x), addr) THEN 1 ELSE 0))
    BY <1>5, <1>6, <2>1
  <2>4. /\ KnownHits(x) \in Int
        /\ HitsSoFar(x) = KnownHits(x) + HitsWithSize(TraceOf(requests), x)
        /\ HitsWithSize(TraceOf(requests), x) \in Nat
    BY <1>5, <2>1, HitsAreNumbers
  <2> QED
    BY <2>2, <2>3, <2>4
<1>9. Caches' = [x \in LRU!Sizes |-> LRU!Touch(Caches[x], addr, x)]
  BY <1>8 DEF LRU!Sizes, Caches
<1>10. CacheHits' = [x \in LRU!Sizes |->
                       CacheHits[x] + (IF LRU!Holds(Caches[x], addr) THEN 1 ELSE 0)]
  BY <1>8 DEF LRU!Sizes, CacheHits, Caches
<1>11. Reported' = Reported
  BY <1>4 DEF Reported
<1> QED
  BY <1>7, <1>9, <1>10, <1>11 DEF LRU!Access, Caches, CacheHits, Reported

\* The success function asked for is the hits of the caches.
LEMMA ReportIsLRU ==
    ASSUME IInv, HitsInv, GetSuccessFunction, Len(living') >= Len(living)
    PROVE  HitsInv' /\ LRU!Report
<1>1. /\ Numbered(requests) /\ Len(living) \in Nat /\ Len(requests) \in Nat
      /\ \A i \in 1..Len(living) : requests[i] = living[i]
      /\ DistinctAddrs(living)
  <2>1. requests \in Seq(ChunkReq) /\ living \in Seq(ChunkReq) /\ ChunkBeginsWithLiving
    BY DEF IInv, TypeOK, ChunkReq
  <2> QED
    BY <2>1, LenProperties DEF ChunkBeginsWithLiving, Numbered, DistinctAddrs
<1>2. /\ \/ ProcessRequests(requests)
         \/ /\ Len(requests) = Len(living)
            /\ UNCHANGED <<requests, living, hits_vector>>
      /\ success' = PrefixSums(hits_vector')
  BY <1>1 DEF GetSuccessFunction
<1>3. ASSUME NEW x \in Nat \ {0}, x <= MaxLivingReq
      PROVE  /\ TopOfStack(requests', x) = TopOfStack(requests, x)
             /\ HitsSoFar(x)' = HitsSoFar(x)
             /\ HitsOfSize(success', x) = HitsSoFar(x)
  <2>1. CASE ProcessRequests(requests)
    BY <1>1, <1>2, <1>3, <2>1, ProcessingIsNoAccess, HitsAreNumbers
  <2>2. CASE /\ Len(requests) = Len(living)
             /\ UNCHANGED <<requests, living, hits_vector>>
    <3>1. DistinctAddrs(requests)
      BY <1>1, <2>2 DEF DistinctAddrs
    <3>2. HitsWithSize(TraceOf(requests), x) = 0
      BY <1>1, <3>1, FreshChunk
    <3>3. HitsSoFar(x) = HitsOfSize(PrefixSums(hits_vector), x)
      BY <3>2, HitsAreNumbers
    <3>4. HitsSoFar(x)' = HitsSoFar(x)
      BY <2>2 DEF HitsSoFar
    <3> QED
      BY <1>2, <2>2, <3>3, <3>4
  <2> QED
    BY <1>2, <2>1, <2>2
<1>4. HitsInv'
  <2>1. CASE ProcessRequests(requests)
    BY <1>1, <2>1, ProcessingKeepsHistogram
  <2>2. CASE UNCHANGED <<living, hits_vector>>
    BY <2>2 DEF HitsInv
  <2> QED
    BY <1>2, <2>1, <2>2
<1>5. Caches' = Caches /\ CacheHits' = CacheHits /\ Reported' = CacheHits
  BY <1>3, SizesAreLimited DEF Caches, CacheHits, Reported
<1> QED
  BY <1>4, <1>5 DEF LRU!Report, Caches, CacheHits, Reported

\* BoundedIAF is right, for every chunk size and every limit: each report is the
\* number of hits of LRU caches on the whole trace, for all sizes up to the limit,
\* however often the trace was cut to the living requests on the way.
THEOREM BoundedIAFIsLRU == Spec => ImplementsLRU
<1>1. ASSUME IInv, HitsInv, [Next]_vars PROVE HitsInv' /\ [LRU!Next]_LRU!lruVars
  <2>1. vars' = vars \/ Len(living') >= Len(living)
    BY <1>1, StepInvariant
  <2>2. CASE vars' = vars
    BY <1>1, <2>2 DEF vars, HitsInv, HitsSoFar, LRU!lruVars
  <2>3. ASSUME NEW addr \in Addr, MemoryAccess(addr), Len(living') >= Len(living)
        PROVE  HitsInv' /\ LRU!Next
    BY <1>1, <2>3, AccessIsLRU DEF LRU!Next
  <2>4. ASSUME GetSuccessFunction, Len(living') >= Len(living)
        PROVE  HitsInv' /\ LRU!Next
    BY <1>1, <2>4, ReportIsLRU DEF LRU!Next
  <2> QED
    BY <1>1, <2>1, <2>2, <2>3, <2>4 DEF Next
<1> QED
  BY <1>1, StartIsLRU, Invariance, PTL DEF Spec, ImplementsLRU, LRU!Spec

=============================================================================
