--------------------------- MODULE ThreadedIAFProofs ---------------------------
(***************************************************************************)
(* Proofs about IncrementAndFreeze and ThreadedIAF for every set of        *)
(* addresses, length of the trace, number of mask bits and team of         *)
(* threads: the access numbers of a log are its positions, the threads of  *)
(* populate_operations never write to the same slot, what they leave       *)
(* after the compaction are the operations of module Op, they count every  *)
(* address once, they hand over every survivor once, to its caller a call  *)
(* is one step of IncrementAndFreeze, and what a program is told are the   *)
(* hits of LRU caches of all sizes.                                        *)
(***************************************************************************)
EXTENDS ThreadedIAF, HitsVectorProofs

LEMMA LogIsNumbered ==
    ASSUME Log(requests), Len(requests) = access_number - 1
    PROVE  NumbersArePositions
BY DEF Log, NumbersArePositions

-----------------------------------------------------------------------------
(* IncrementAndFreeze with calls in one step                               *)

LogInv ==
    /\ access_number \in Nat
    /\ Log(requests)
    /\ Len(requests) = access_number - 1
    /\ Len(requests) <= MaxAccesses

LEMMA LogInvInit == Init => LogInv
BY EmptyLog, EmptySeq, MaxAccessesAssumption DEF Init, LogInv

LEMMA LogInvAccess ==
    ASSUME LogInv, NEW addr \in Addr, MemoryAccess(addr)
    PROVE  LogInv'
<1>1. access_number' = access_number + 1 /\ access_number <= MaxAccesses
  BY DEF MemoryAccess
<1>2. Log(requests') /\ Len(requests') = Len(requests) + 1
  <2>1. addr \in Nat
    BY AddrAssumption
  <2> QED
    BY <2>1, AppendToLog DEF MemoryAccess, LogInv
<1> QED
  BY <1>1, <1>2, MaxAccessesAssumption DEF LogInv

\* The access numbers of the log of IncrementAndFreeze are 1..n, each once, also
\* after get_success_function has sorted it.
THEOREM NumbersStayPositions == Spec => []NumbersArePositions
<1>1. LogInv /\ [Next]_vars => LogInv'
  <2> SUFFICES ASSUME LogInv, [Next]_vars PROVE LogInv'
    OBVIOUS
  <2>1. CASE \E addr \in Addr : MemoryAccess(addr)
    BY <2>1, LogInvAccess
  <2>2. CASE GetSuccessFunction
    BY <2>2, SortedLog DEF GetSuccessFunction, LogInv
  <2>3. CASE UNCHANGED vars
    BY <2>3 DEF vars, LogInv
  <2> QED
    BY <2>1, <2>2, <2>3 DEF Next
<1>2. LogInv => NumbersArePositions
  BY LogIsNumbered DEF LogInv
<1> QED
  BY LogInvInit, <1>1, <1>2, PTL DEF Spec

-----------------------------------------------------------------------------
(* Words                                                                   *)

Word == [word : Int, full_amnt : Int]

\* Division by the unit of the type bit takes a word apart.
LEMMA WordParts ==
    ASSUME NEW u \in Nat \ {0}, NEW x \in 0..(u - 1)
    PROVE  /\ x \div u = 0
           /\ x % u = x
           /\ (u + x) \div u = 1
           /\ (u + x) % u = x
<1>1. x = u * 0 + x /\ u + x = u * 1 + x
  OBVIOUS
<1> QED
  BY <1>1

LEMMA DecodedDefault ==
    /\ DefaultOp \in Word
    /\ IsNullWord(DefaultOp)
    /\ DecodedOp(DefaultOp) = NoImpact
<1>1. 0 % TypeUnit = 0
  BY TypeUnitAssumption, WordParts
<1> QED
  BY <1>1 DEF DefaultOp, Word, IsNullWord, DecodedOp, NoImpact

LEMMA DecodedPrefix ==
    ASSUME NEW t \in 0..(TypeUnit - 1), NEW f \in Int
    PROVE  /\ PrefixWord(t, f) \in Word
           /\ DecodedOp(PrefixWord(t, f)) = PrefixOp(t, f)
<1>1. /\ 0 % TypeUnit = 0 /\ 0 \div TypeUnit = 0
      /\ t % TypeUnit = t /\ t \div TypeUnit = 0
  <2>1. 0 \in 0..(TypeUnit - 1)
    BY TypeUnitAssumption
  <2> QED
    BY <2>1, TypeUnitAssumption, WordParts
<1>2. SetType(0, 0) = 0
  BY <1>1, TypeUnitAssumption DEF SetType
<1>3. SetTarget(0, t) = t
  BY <1>1 DEF SetTarget, TypeBit
<1>4. PrefixWord(t, f) = [word |-> t, full_amnt |-> f]
  BY <1>2, <1>3 DEF PrefixWord
<1> QED
  BY <1>1, <1>4, TypeUnitAssumption DEF Word, DecodedOp, IsNullWord, TypeBit, PrefixOp

LEMMA DecodedPostfix ==
    ASSUME NEW t \in 1..(TypeUnit - 1)
    PROVE  /\ PostfixWord(t) \in Word
           /\ DecodedOp(PostfixWord(t)) = PostfixOp(t)
<1> DEFINE u == TypeUnit
<1>1. u \in Nat \ {0} /\ t \in 0..(u - 1) /\ 0 \in 0..(u - 1)
  BY TypeUnitAssumption
<1> HIDE DEF u
<1>2. /\ 0 % u = 0 /\ t % u = t /\ u \div u = 1
      /\ (u + t) % u = t /\ (u + t) \div u = 1
  <2>1. u + 0 = u
    BY <1>1
  <2> QED
    BY <1>1, <2>1, WordParts
<1>3. SetType(0, 1) = u
  BY <1>1, <1>2 DEF SetType, u
<1>4. SetTarget(u, t) = u + t
  BY <1>2 DEF SetTarget, TypeBit, u
<1>5. PostfixWord(t) = [word |-> u + t, full_amnt |-> 0]
  BY <1>3, <1>4 DEF PostfixWord
<1> QED
  BY <1>1, <1>2, <1>5 DEF Word, DecodedOp, IsNullWord, TypeBit, PostfixOp, u

\* A word is null when it decodes as Null.
LEMMA NullWords ==
    ASSUME NEW op
    PROVE  IsNullWord(op) <=> DecodedOp(op).type = "Null"
BY DEF DecodedOp

-----------------------------------------------------------------------------
(* The slots of the operations                                             *)

\* The slots of a log are those of its requests, each of one request.
LEMMA SlotsOfLog ==
    ASSUME NEW v, Log(v)
    PROVE  /\ \A i \in 1..Len(v) : /\ PrefixSlot(v[i].access_number) \in 1..(2 * Len(v))
                                   /\ PostfixSlot(v[i].access_number) \in 1..(2 * Len(v))
           /\ \A i, j \in 1..Len(v) :
                  /\ PrefixSlot(v[i].access_number) # PostfixSlot(v[j].access_number)
                  /\ i # j => /\ PrefixSlot(v[i].access_number) # PrefixSlot(v[j].access_number)
                              /\ PostfixSlot(v[i].access_number) # PostfixSlot(v[j].access_number)
           /\ \A k \in 1..(2 * Len(v)) : \E i \in 1..Len(v) :
                  \/ k = PrefixSlot(v[i].access_number)
                  \/ k = PostfixSlot(v[i].access_number)
BY LogSlots DEF PrefixSlot, PostfixSlot

\* UncompactedOperations, slot by slot.
LEMMA UncompactedSlots ==
    ASSUME NEW v, Log(v)
    PROVE  /\ Len(UncompactedOperations(v)) = 2 * Len(v)
           /\ \A i \in 1..Len(v) :
                 /\ UncompactedOperations(v)[PrefixSlot(v[i].access_number)] = PrefixOf(v, i)
                 /\ UncompactedOperations(v)[PostfixSlot(v[i].access_number)] = PostfixOf(v, i)
BY UncompactedOperationsProperties DEF PrefixSlot, PostfixSlot

\* In the slots of a log a Null is what has no target.
LEMMA NullSlots ==
    ASSUME NEW v, Log(v), NEW k \in 1..(2 * Len(v))
    PROVE  IsNull(UncompactedOperations(v)[k]) <=> UncompactedOperations(v)[k].type = "Null"
<1>1. PICK i \in 1..Len(v) : \/ k = PrefixSlot(v[i].access_number)
                             \/ k = PostfixSlot(v[i].access_number)
  BY SlotsOfLog
<1>2. UncompactedOperations(v)[k] \in {PrefixOf(v, i), PostfixOf(v, i)}
  BY <1>1, UncompactedSlots
<1>3. IsNull(PrefixOf(v, i)) <=> PrefixOf(v, i).type = "Null"
  BY DEF IsNull, PrefixOf, PrefixOp
<1>4. IsNull(PostfixOf(v, i)) <=> PostfixOf(v, i).type = "Null"
  <2>1. CASE FollowsSameAddr(v, i)
    <3>1. i - 1 \in 1..Len(v)
      BY <2>1, LenProperties DEF FollowsSameAddr, Log
    <3>2. v[i - 1].access_number \in 1..Len(v)
      BY <3>1 DEF Log
    <3> QED
      BY <2>1, <3>2 DEF IsNull, PostfixOf, PostfixOp
  <2>2. CASE ~FollowsSameAddr(v, i)
    BY <2>2 DEF IsNull, PostfixOf, NoImpact
  <2> QED
    BY <2>1, <2>2
<1> QED
  BY <1>2, <1>3, <1>4

-----------------------------------------------------------------------------
(* Compacting                                                              *)

\* The slots that stay.
Kept(v) ==
    {k \in 1..(2 * Len(v)) : k = 1 \/ ~IsNull(UncompactedOperations(v)[k])}

\* What stays, at its rank, is what populate_operations returns.
LEMMA CompactedSlots ==
    ASSUME NEW v, Log(v), NEW f,
           Len(f) = Cardinality(Kept(v)),
           \A j \in Kept(v) : DecodedOp(f[Rank(Kept(v), j) + 1]) = UncompactedOperations(v)[j]
    PROVE  Decoded(f) = PopulateOperations(v)
<1> DEFINE U == UncompactedOperations(v)
           K == Kept(v)
           c == Cardinality(K)
           N == 2 * Len(v)
           g == [m \in 1..Len(Ascending(K)) |-> U[Ascending(K)[m]]]
<1>1. N \in Nat /\ Len(U) = N /\ \A j \in K : j \in Nat /\ 1 <= j /\ j <= N
  <2>1. Len(v) \in Nat
    BY LenProperties DEF Log
  <2>2. Len(U) = N
    BY UncompactedSlots
  <2>3. \A j \in K : j \in Nat /\ 1 <= j /\ j <= N
    BY <2>1 DEF Kept
  <2> QED
    BY <2>1, <2>2, <2>3
<1> HIDE DEF N
<1>2. K = {k \in 1..Len(U) : k = 1 \/ ~IsNull(U[k])}
  BY <1>1 DEF Kept, N
<1> HIDE DEF K, U
<1>3. /\ c \in Nat
      /\ Len(Ascending(K)) = c
      /\ \A m \in 1..c : Ascending(K)[m] \in K /\ Rank(K, Ascending(K)[m]) = m - 1
  BY <1>1, RankProperties, AscendingProperties
<1>4. PopulateOperations(v) = Vector(g)
  BY <1>2 DEF PopulateOperations, Compact, U
<1>5. g \in [1..c -> {g[m] : m \in 1..c}]
  BY <1>3
<1>6. PopulateOperations(v) = g
  <2> HIDE DEF g, c
  <2> QED
    BY <1>3, <1>4, <1>5, VectorOfFunction, ZenonT(60)
<1>7. \A m \in 1..c : DecodedOp(f[m]) = U[Ascending(K)[m]]
  <2> SUFFICES ASSUME NEW m \in 1..c PROVE DecodedOp(f[m]) = U[Ascending(K)[m]]
    OBVIOUS
  <2>1. Rank(K, Ascending(K)[m]) + 1 = m
    <3>1. Rank(K, Ascending(K)[m]) = m - 1 /\ m \in Int
      BY <1>3
    <3> QED
      BY <3>1
  <2> QED
    BY <1>3, <2>1 DEF K, U
<1>8. Decoded(f) = [m \in 1..c |-> DecodedOp(f[m])]
  BY DEF Decoded, K
<1> QED
  BY <1>3, <1>6, <1>7, <1>8

-----------------------------------------------------------------------------
(* The inductive invariant of populate_operations                          *)

\* The requests of the call in progress.
CallInv ==
    /\ Log(reqs)
    /\ Len(reqs) \in 1..MaxAccesses
    /\ \A l, m \in 1..Len(reqs) : l < m => ReqLess(reqs[l], reqs[m])

\* No thread has written the slots of the request at place i, or one has.
Unwritten(i) ==
    /\ operations[PrefixSlot(reqs[i].access_number)] = DefaultOp
    /\ operations[PostfixSlot(reqs[i].access_number)] = DefaultOp

Written(i) ==
    /\ DecodedOp(operations[PrefixSlot(reqs[i].access_number)]) = PrefixOf(reqs, i)
    /\ DecodedOp(operations[PostfixSlot(reqs[i].access_number)]) = PostfixOf(reqs, i)

LoopInv ==
    /\ operations \in [1..(2 * Len(reqs)) -> Word]
    /\ todo \in [Threads -> SUBSET (1..Len(reqs))]
    /\ \A t, u \in Threads : t # u => todo[t] \cap todo[u] = {}
    /\ \A i \in 1..Len(reqs) : IF \E t \in Threads : i \in todo[t]
                               THEN Unwritten(i)
                               ELSE Written(i)

CompactInv ==
    /\ operations \in [1..(2 * Len(reqs)) -> Word]
    /\ cur_idx \in 1..(2 * Len(reqs))
    /\ place_idx \in 1..cur_idx
    /\ place_idx = Rank(Kept(reqs), cur_idx + 1)
    /\ \A k \in (cur_idx + 1)..(2 * Len(reqs)) :
          DecodedOp(operations[k]) = UncompactedOperations(reqs)[k]
    /\ \A j \in Kept(reqs) :
          j <= cur_idx =>
              DecodedOp(operations[Rank(Kept(reqs), j) + 1]) = UncompactedOperations(reqs)[j]

PopulateInv ==
    /\ phase \in {"idle", "loop", "compact", "return"}
    /\ phase # "idle" => CallInv
    /\ phase = "loop" => LoopInv
    /\ phase = "compact" => CompactInv
    /\ OperationsBuilt

\* A non-empty set of numbers has a least element, which Min chooses.
LEMMA MinIsElement ==
    ASSUME NEW S, S # {}, \A x \in S : x \in Nat
    PROVE  Min(S) \in S
<1> DEFINE less == OpToRel(<, Nat)
<1>1. IsWellFoundedOn(less, Nat)
  BY NatLessThanWellFounded
<1>2. \A x, y \in Nat : x < y => <<x, y>> \in less
  BY DEF OpToRel
<1> HIDE DEF less
<1>3. S \subseteq Nat
  OBVIOUS
<1>4. PICK m \in S : \A x \in S : ~(<<x, m>> \in less)
  BY <1>1, <1>3, WFMin
<1>5. \A x \in S : m <= x
  <2>1. \A x \in S : ~(x < m)
    BY <1>2, <1>4
  <2> QED
    BY <2>1
<1> QED
  BY <1>5 DEF Min

LEMMA CallStarts ==
    ASSUME NEW v, Log(v), Len(v) <= MaxAccesses, NEW wants, Call(v, wants)
    PROVE  PopulateInv'
<1> DEFINE n == Len(v)
           w == SortedRequests(v)
<1>1. n \in 1..MaxAccesses /\ n \in Nat
  BY LenProperties, MaxAccessesAssumption DEF Log, Call
<1>2. /\ reqs' = w /\ phase' = "loop"
      /\ operations' = FreshOperations(operations, n)
  BY DEF Call
<1>3. /\ Log(w) /\ Len(w) = n
      /\ \A l, m \in 1..n : l < m => ReqLess(w[l], w[m])
  BY SortedLog
<1>4. operations' = [k \in 1..(2 * n) |-> DefaultOp]
  <2>1. \A k \in 1..(2 * n) : ~(k <= Len(<<>>))
    BY EmptySeq
  <2> QED
    BY <1>2, <2>1 DEF FreshOperations, ResizedOps
<1>5. PICK share \in [1..n -> Threads] :
          todo' = [t \in Threads |-> {i \in 1..n : share[i] = t}]
  BY DEF Call
<1> HIDE DEF w, n
<1>6. CallInv'
  BY <1>1, <1>2, <1>3 DEF CallInv
<1>7. LoopInv'
  <2>1. operations' \in [1..(2 * Len(reqs')) -> Word]
    BY <1>2, <1>3, <1>4, DecodedDefault
  <2>2. todo' \in [Threads -> SUBSET (1..Len(reqs'))]
    BY <1>2, <1>3, <1>5
  <2>3. \A t, u \in Threads : t # u => todo'[t] \cap todo'[u] = {}
    BY <1>5
  <2>4. ASSUME NEW i \in 1..Len(reqs')
        PROVE  (\E t \in Threads : i \in todo'[t]) /\ Unwritten(i)'
    <3>1. i \in 1..n
      BY <1>2, <1>3
    <3>2. share[i] \in Threads /\ i \in todo'[share[i]]
      BY <1>5, <3>1
    <3>3. /\ PrefixSlot(w[i].access_number) \in 1..(2 * n)
          /\ PostfixSlot(w[i].access_number) \in 1..(2 * n)
      BY <1>3, <3>1, SlotsOfLog
    <3>4. Unwritten(i)'
      BY <1>2, <1>4, <3>3 DEF Unwritten
    <3> QED
      BY <3>2, <3>4
  <2> QED
    BY <2>1, <2>2, <2>3, <2>4 DEF LoopInv
<1> QED
  BY <1>2, <1>6, <1>7 DEF PopulateInv, OperationsBuilt

\* What a request of a call has before it in the sorted vector.
LEMMA RepeatsAreFollowers ==
    ASSUME CallInv, NEW i \in 1..Len(reqs)
    PROVE  /\ RepeatsLast(i) <=> FollowsSameAddr(reqs, i)
           /\ reqs[i].access_number \in 1..Len(reqs)
           /\ reqs[i].access_number - 1 \in 0..(TypeUnit - 1)
           /\ FollowsSameAddr(reqs, i) =>
                 /\ LastRequest(i) = reqs[i - 1]
                 /\ reqs[i - 1].access_number \in 1..(TypeUnit - 1)
<1>1. /\ Len(reqs) \in Nat /\ Len(reqs) <= MaxAccesses
      /\ \A j \in 1..Len(reqs) : /\ reqs[j] \in Req
                                 /\ reqs[j].access_number \in 1..Len(reqs)
  <2>1. reqs \in Seq(Req) /\ Len(reqs) \in 1..MaxAccesses
    BY DEF CallInv, Log
  <2>2. Len(reqs) \in Nat /\ \A j \in 1..Len(reqs) : reqs[j] \in Req
    BY <2>1, LenProperties
  <2>3. \A j \in 1..Len(reqs) : reqs[j].access_number \in 1..Len(reqs)
    BY DEF CallInv, Log
  <2>4. Len(reqs) <= MaxAccesses
    BY <2>1, MaxAccessesAssumption
  <2> QED
    BY <2>2, <2>3, <2>4
<1>2. MaxAccesses <= TypeUnit /\ MaxAccesses \in Nat /\ TypeUnit \in Nat
  BY MaskAssumption, TypeUnitAssumption, MaxAccessesAssumption DEF TypeUnit
<1>3. reqs[i].access_number - 1 \in 0..(TypeUnit - 1)
  BY <1>1, <1>2
<1>4. CASE i = 1
  BY <1>1, <1>3, <1>4 DEF RepeatsLast, LastRequest, FollowsSameAddr
<1>5. CASE i # 1
  <2>1. i - 1 \in 1..Len(reqs) /\ i - 1 < i /\ i > 1
    BY <1>1, <1>5
  <2>2. LastRequest(i) = reqs[i - 1] /\ reqs[i - 1].access_number \in 1..Len(reqs)
    BY <1>1, <1>5, <2>1 DEF LastRequest
  <2>3. RepeatsLast(i) <=> FollowsSameAddr(reqs, i)
    BY <1>1, <2>1, <2>2 DEF RepeatsLast, FollowsSameAddr
  <2>4. ReqLess(reqs[i - 1], reqs[i])
    BY <2>1 DEF CallInv
  <2>5. reqs[i].addr \in Nat
    BY <1>1, AddrAssumption DEF Req
  <2>6. ASSUME FollowsSameAddr(reqs, i)
        PROVE  reqs[i - 1].access_number \in 1..(TypeUnit - 1)
    <3>1. reqs[i - 1].access_number < reqs[i].access_number
      BY <2>4, <2>5, <2>6 DEF ReqLess, FollowsSameAddr
    <3>2. reqs[i].access_number \in 1..Len(reqs)
      BY <1>1
    <3> QED
      BY <1>1, <1>2, <2>2, <3>1, <3>2
  <2> QED
    BY <1>1, <1>3, <2>2, <2>3, <2>6
<1> QED
  BY <1>4, <1>5

\* One iteration writes the slots of its own request, and those only.
LEMMA IterateWritesOwnSlots ==
    ASSUME CallInv, LoopInv, NEW t \in Threads, Iterate(t)
    PROVE  \E i \in todo[t] :
              /\ todo' = [todo EXCEPT ![t] = @ \ {i}]
              /\ operations' \in [1..(2 * Len(reqs)) -> Word]
              /\ DecodedOp(operations'[PrefixSlot(reqs[i].access_number)]) = PrefixOf(reqs, i)
              /\ DecodedOp(operations'[PostfixSlot(reqs[i].access_number)]) = PostfixOf(reqs, i)
              /\ \A k \in 1..(2 * Len(reqs)) :
                    \/ k = PrefixSlot(reqs[i].access_number)
                    \/ k = PostfixSlot(reqs[i].access_number)
                    \/ operations'[k] = operations[k]
<1> DEFINE i == Min(todo[t])
           a == reqs[i].access_number
           p == PrefixSlot(a)
           q == PostfixSlot(a)
           D == 1..(2 * Len(reqs))
<1>1. i \in todo[t] /\ i \in 1..Len(reqs)
  <2>1. todo[t] # {} /\ todo[t] \subseteq 1..Len(reqs)
    BY DEF LoopInv, Iterate
  <2>2. \A x \in todo[t] : x \in Nat
    BY <2>1
  <2>3. Min(todo[t]) \in todo[t]
    BY <2>1, <2>2, MinIsElement
  <2> QED
    BY <2>1, <2>3
<1>2. /\ todo' = [todo EXCEPT ![t] = @ \ {i}]
      /\ \/ /\ RepeatsLast(i)
            /\ operations' = [operations EXCEPT
                   ![p] = PrefixWord(a - 1, -1),
                   ![q] = PostfixWord(LastRequest(i).access_number)]
         \/ /\ ~RepeatsLast(i)
            /\ operations' = [operations EXCEPT ![p] = PrefixWord(a - 1, 0)]
  BY DEF Iterate
<1> HIDE DEF i
<1>3. /\ RepeatsLast(i) <=> FollowsSameAddr(reqs, i)
      /\ a - 1 \in 0..(TypeUnit - 1)
      /\ FollowsSameAddr(reqs, i) =>
            /\ LastRequest(i) = reqs[i - 1]
            /\ reqs[i - 1].access_number \in 1..(TypeUnit - 1)
  BY <1>1, RepeatsAreFollowers
<1>4. p \in D /\ q \in D /\ p # q
  BY <1>1, SlotsOfLog DEF CallInv
<1>5. operations \in [D -> Word]
  BY DEF LoopInv
<1>6. operations[q] = DefaultOp
  BY <1>1 DEF LoopInv, Unwritten
<1> HIDE DEF p, q, D
<1>7. CASE RepeatsLast(i)
  <2>1. operations' = [operations EXCEPT
                   ![p] = PrefixWord(a - 1, -1),
                   ![q] = PostfixWord(reqs[i - 1].access_number)]
    BY <1>2, <1>3, <1>7
  <2>2. /\ PrefixWord(a - 1, -1) \in Word
        /\ DecodedOp(PrefixWord(a - 1, -1)) = PrefixOf(reqs, i)
    BY <1>3, <1>7, DecodedPrefix DEF PrefixOf
  <2>3. /\ PostfixWord(reqs[i - 1].access_number) \in Word
        /\ DecodedOp(PostfixWord(reqs[i - 1].access_number)) = PostfixOf(reqs, i)
    BY <1>3, <1>7, DecodedPostfix DEF PostfixOf
  <2>4. /\ operations' \in [D -> Word]
        /\ operations'[p] = PrefixWord(a - 1, -1)
        /\ operations'[q] = PostfixWord(reqs[i - 1].access_number)
        /\ \A k \in D : k = p \/ k = q \/ operations'[k] = operations[k]
    <3> HIDE DEF a
    <3> QED
      BY <1>4, <1>5, <2>1, <2>2, <2>3
  <2> QED
    BY <1>1, <1>2, <2>2, <2>3, <2>4 DEF p, q, D
<1>8. CASE ~RepeatsLast(i)
  <2>1. operations' = [operations EXCEPT ![p] = PrefixWord(a - 1, 0)]
    BY <1>2, <1>8
  <2>2. /\ PrefixWord(a - 1, 0) \in Word
        /\ DecodedOp(PrefixWord(a - 1, 0)) = PrefixOf(reqs, i)
    BY <1>3, <1>8, DecodedPrefix DEF PrefixOf
  <2>3. PostfixOf(reqs, i) = NoImpact
    BY <1>3, <1>8 DEF PostfixOf
  <2>4. /\ operations' \in [D -> Word]
        /\ operations'[p] = PrefixWord(a - 1, 0)
        /\ operations'[q] = DefaultOp
        /\ \A k \in D : k = p \/ operations'[k] = operations[k]
    <3> HIDE DEF a
    <3> QED
      BY <1>4, <1>5, <1>6, <2>1, <2>2
  <2> QED
    BY <1>1, <1>2, <2>2, <2>3, <2>4, DecodedDefault DEF p, q, D
<1> QED
  BY <1>7, <1>8

LEMMA IterateKeepsInv ==
    ASSUME PopulateInv, NEW t \in Threads, Iterate(t)
    PROVE  PopulateInv'
<1> DEFINE n == Len(reqs)
           p(i) == PrefixSlot(reqs[i].access_number)
           q(i) == PostfixSlot(reqs[i].access_number)
           D == 1..(2 * n)
<1>1. phase = "loop" /\ phase' = "loop" /\ UNCHANGED reqs
  BY DEF Iterate
<1>2. CallInv /\ LoopInv /\ CallInv'
  BY <1>1 DEF PopulateInv, CallInv
<1>3. PICK i \in todo[t] :
          /\ todo' = [todo EXCEPT ![t] = @ \ {i}]
          /\ operations' \in [D -> Word]
          /\ DecodedOp(operations'[p(i)]) = PrefixOf(reqs, i)
          /\ DecodedOp(operations'[q(i)]) = PostfixOf(reqs, i)
          /\ \A k \in D : k = p(i) \/ k = q(i) \/ operations'[k] = operations[k]
  BY <1>2, IterateWritesOwnSlots
<1>4. /\ todo \in [Threads -> SUBSET (1..n)]
      /\ \A u, s \in Threads : u # s => todo[u] \cap todo[s] = {}
      /\ \A j \in 1..n : IF \E u \in Threads : j \in todo[u] THEN Unwritten(j) ELSE Written(j)
  BY <1>2 DEF LoopInv
<1>5. i \in 1..n
  BY <1>4
<1>6. /\ \A j \in 1..n : p(j) \in D /\ q(j) \in D
      /\ \A j \in 1..n : j # i => /\ p(j) # p(i) /\ p(j) # q(i)
                                  /\ q(j) # p(i) /\ q(j) # q(i)
  BY <1>2, <1>5, SlotsOfLog DEF CallInv
<1> HIDE DEF D
<1>7. \A u \in Threads, j \in 1..n : j \in todo'[u] <=> j \in todo[u] /\ j # i
  <2> HIDE DEF n
  <2>1. ASSUME NEW u \in Threads, u # t PROVE i \notin todo[u]
    BY <1>4, <2>1
  <2> QED
    BY <1>3, <1>4, <2>1
<1>8. todo' \in [Threads -> SUBSET (1..n)]
  <2> HIDE DEF n
  <2> QED
    BY <1>3, <1>4
<1>9. \A u, s \in Threads : u # s => todo'[u] \cap todo'[s] = {}
  <2> HIDE DEF n
  <2>1. \A u \in Threads : todo'[u] \subseteq todo[u]
    BY <1>3, <1>4
  <2> QED
    BY <1>4, <2>1
<1>10. ASSUME NEW j \in 1..n
       PROVE  IF \E u \in Threads : j \in todo'[u] THEN Unwritten(j)' ELSE Written(j)'
  <2>1. CASE j = i
    <3>1. ~\E u \in Threads : j \in todo'[u]
      BY <1>7, <2>1
    <3>2. Written(j)'
      BY <1>1, <1>3, <2>1 DEF Written, PrefixOf, PostfixOf
    <3> QED
      BY <3>1, <3>2
  <2>2. CASE j # i
    <3>1. (\E u \in Threads : j \in todo'[u]) <=> (\E u \in Threads : j \in todo[u])
      BY <1>7, <2>2
    <3>2. operations'[p(j)] = operations[p(j)] /\ operations'[q(j)] = operations[q(j)]
      <4>1. p(j) \in D /\ q(j) \in D /\ p(j) # p(i) /\ p(j) # q(i)
            /\ q(j) # p(i) /\ q(j) # q(i)
        BY <1>6, <2>2
      <4> HIDE DEF p, q
      <4> QED
        BY <1>3, <4>1
    <3>3. (Unwritten(j) => Unwritten(j)') /\ (Written(j) => Written(j)')
      BY <1>1, <3>2 DEF Unwritten, Written, PrefixOf, PostfixOf
    <3> QED
      BY <1>4, <3>1, <3>3
  <2> QED
    BY <2>1, <2>2
<1>11. LoopInv'
  BY <1>1, <1>3, <1>8, <1>9, <1>10 DEF LoopInv, D
<1> QED
  BY <1>1, <1>2, <1>11 DEF PopulateInv, OperationsBuilt

\* What a step that only moves survivors leaves alone.
LEMMA SameOperations ==
    ASSUME PopulateInv, UNCHANGED <<phase, reqs, operations, todo, place_idx, cur_idx>>
    PROVE  PopulateInv'
<1>1. CallInv => CallInv'
  BY DEF CallInv
<1>2. LoopInv => LoopInv'
  BY DEF LoopInv, Unwritten, Written
<1>3. CompactInv => CompactInv'
  BY DEF CompactInv
<1>4. OperationsBuilt'
  BY DEF PopulateInv, OperationsBuilt
<1> QED
  BY <1>1, <1>2, <1>3, <1>4 DEF PopulateInv

\* When no iteration is left the operations are complete, Nulls included.
LEMMA JoinKeepsInv ==
    ASSUME PopulateInv, Join
    PROVE  PopulateInv'
<1> DEFINE n == Len(reqs)
           K == Kept(reqs)
           U == UncompactedOperations(reqs)
<1>1. /\ phase = "loop" /\ phase' = "compact" /\ UNCHANGED <<reqs, operations>>
      /\ place_idx' = 1 /\ cur_idx' = 1
      /\ \A t \in Threads : todo[t] = {}
  BY DEF Join, AtBarrier
<1>2. CallInv /\ LoopInv /\ CallInv'
  BY <1>1 DEF PopulateInv, CallInv
<1>3. n \in Nat /\ n >= 1
  BY <1>2, LenProperties DEF CallInv, Log
<1>4. \A i \in 1..n : Written(i)
  BY <1>1, <1>2 DEF LoopInv
<1>5. \A k \in 1..(2 * n) : DecodedOp(operations[k]) = U[k]
  <2> SUFFICES ASSUME NEW k \in 1..(2 * n) PROVE DecodedOp(operations[k]) = U[k]
    OBVIOUS
  <2>1. PICK i \in 1..n : \/ k = PrefixSlot(reqs[i].access_number)
                          \/ k = PostfixSlot(reqs[i].access_number)
    BY <1>2, SlotsOfLog DEF CallInv
  <2> QED
    BY <1>2, <1>4, <2>1, UncompactedSlots DEF CallInv, Written
<1>6. 1 \in K /\ \A j \in K : j \in Nat /\ 1 <= j /\ j <= 2 * n
  BY <1>3 DEF Kept
<1> HIDE DEF K, U, n
<1>7. Rank(K, 1) = 0 /\ Rank(K, 1 + 1) = 1
  <2>1. 2 * n \in Nat /\ 1 \in Nat
    BY <1>3
  <2>2. Rank(K, 1) = 0 /\ (1 \in K => Rank(K, 1 + 1) = Rank(K, 1) + 1)
    BY <1>6, <2>1, RankProperties
  <2> QED
    BY <1>6, <2>2
<1>8. CompactInv'
  <2>1. operations' \in [1..(2 * Len(reqs')) -> Word]
    BY <1>1, <1>2 DEF LoopInv
  <2>2. 1 \in 1..(2 * n) /\ 1 \in 1..1
    BY <1>3
  <2>3. \A k \in (1 + 1)..(2 * n) : DecodedOp(operations[k]) = U[k]
    BY <1>3, <1>5
  <2>4. ASSUME NEW j \in K, j <= 1
        PROVE  DecodedOp(operations[Rank(K, j) + 1]) = U[j]
    <3>1. j = 1 /\ 0 + 1 = 1
      BY <1>6, <2>4
    <3> QED
      BY <1>5, <1>7, <2>2, <3>1
  <2> QED
    BY <1>1, <1>7, <2>1, <2>2, <2>3, <2>4 DEF CompactInv, K, U, n
<1> QED
  BY <1>1, <1>2, <1>8 DEF PopulateInv, OperationsBuilt

\* The next slot goes to the place of its rank, if it stays.
LEMMA CompactStepKeepsInv ==
    ASSUME PopulateInv, CompactStep
    PROVE  PopulateInv'
<1> DEFINE n == Len(reqs)
           K == Kept(reqs)
           U == UncompactedOperations(reqs)
           N == 2 * n
           c == cur_idx
           k == cur_idx + 1
<1>1. /\ phase = "compact" /\ phase' = "compact" /\ UNCHANGED reqs
      /\ cur_idx' = k
  BY DEF CompactStep
<1>2. CallInv /\ CompactInv /\ CallInv'
  BY <1>1 DEF PopulateInv, CallInv
<1>3. /\ N \in Nat
      /\ operations \in [1..N -> Word] /\ Len(operations) = N
      /\ c \in 1..N /\ c < N
  <2>1. n \in Nat
    BY <1>2, LenProperties DEF CallInv, Log
  <2>2. operations \in [1..N -> Word] /\ c \in 1..N
    BY <1>2 DEF CompactInv
  <2>3. N \in Nat
    BY <2>1
  <2> HIDE DEF N
  <2>4. Len(operations) = N
    BY <2>2, <2>3, VectorOfFunction
  <2> QED
    BY <2>2, <2>3, <2>4 DEF CompactStep
<1>4. \A j \in K : j \in Nat /\ 1 <= j /\ j <= N
  BY <1>3 DEF Kept
<1>5. /\ place_idx \in 1..c
      /\ place_idx = Rank(K, k)
      /\ \A l \in k..N : DecodedOp(operations[l]) = U[l]
      /\ \A j \in K : j <= c => DecodedOp(operations[Rank(K, j) + 1]) = U[j]
  BY <1>2 DEF CompactInv
<1>6. k \in K <=> ~IsNullWord(operations[k])
  <2>1. k \in 1..N /\ k # 1 /\ k \in k..N
    BY <1>3
  <2>2. DecodedOp(operations[k]) = U[k]
    BY <1>5, <2>1
  <2>3. IsNull(U[k]) <=> U[k].type = "Null"
    BY <1>2, <2>1, NullSlots DEF CallInv
  <2>4. IsNullWord(operations[k]) <=> U[k].type = "Null"
    BY <2>2, NullWords
  <2> QED
    BY <2>1, <2>3, <2>4 DEF Kept
<1>7. /\ ~IsNullWord(operations[k]) =>
            /\ operations' = [operations EXCEPT ![place_idx + 1] = operations[k]]
            /\ place_idx' = place_idx + 1
      /\ IsNullWord(operations[k]) => UNCHANGED <<operations, place_idx>>
  BY DEF CompactStep
<1> HIDE DEF K, U, N, n
<1>8. /\ k \in Nat
      /\ k \in K => Rank(K, k + 1) = Rank(K, k) + 1
      /\ k \notin K => Rank(K, k + 1) = Rank(K, k)
      /\ \A j \in K : Rank(K, j) \in Nat /\ (j < k => Rank(K, j) < Rank(K, k))
  <2>1. k \in Nat
    BY <1>3
  <2> HIDE DEF k
  <2>2. /\ k \in K => Rank(K, k + 1) = Rank(K, k) + 1
        /\ k \notin K => Rank(K, k + 1) = Rank(K, k)
        /\ \A j \in K : j < k => Rank(K, j) < Rank(K, k)
    <3>1. N \in Nat
      BY <1>3
    <3>2. \A l \in Nat : /\ l \in K => Rank(K, l + 1) = Rank(K, l) + 1
                         /\ l \notin K => Rank(K, l + 1) = Rank(K, l)
      BY <1>4, <3>1, RankProperties
    <3>3. \A l \in Nat, j \in K : j < l => Rank(K, j) < Rank(K, l)
      BY <1>4, <3>1, RankProperties
    <3> QED
      BY <2>1, <3>2, <3>3
  <2>3. \A j \in K : Rank(K, j) \in Nat
    BY <1>3, <1>4, RankProperties
  <2> QED
    BY <2>1, <2>2, <2>3
<1>9. CASE k \in K
  <2>1. /\ operations' = [operations EXCEPT ![place_idx + 1] = operations[k]]
        /\ place_idx' = place_idx + 1
    BY <1>6, <1>7, <1>9
  <2>2. place_idx + 1 \in 1..N /\ place_idx + 1 <= k /\ place_idx \in Nat /\ k \in 1..N
    BY <1>3, <1>5
  <2>3. operations' \in [1..N -> Word]
    BY <1>3, <2>1, <2>2
  <2>4. \A l \in (k + 1)..N : DecodedOp(operations'[l]) = U[l]
    <3> SUFFICES ASSUME NEW l \in (k + 1)..N PROVE DecodedOp(operations'[l]) = U[l]
      OBVIOUS
    <3>1. l \in k..N /\ l # place_idx + 1 /\ l \in 1..N
      BY <1>3, <2>2
    <3>2. operations'[l] = operations[l]
      BY <1>3, <2>1, <3>1
    <3> QED
      BY <1>5, <3>1, <3>2
  <2>5. ASSUME NEW j \in K, j <= k
        PROVE  DecodedOp(operations'[Rank(K, j) + 1]) = U[j]
    <3>1. CASE j = k
      <4>1. operations'[Rank(K, k) + 1] = operations[k]
        BY <1>3, <1>5, <2>1, <2>2
      <4>2. k \in k..N
        BY <1>3
      <4> QED
        BY <1>5, <3>1, <4>1, <4>2
    <3>2. CASE j # k
      <4>1. j <= c /\ j < k /\ j \in Nat
        BY <1>3, <1>4, <2>5, <3>2
      <4>2. Rank(K, j) \in Nat /\ Rank(K, j) < place_idx
        BY <1>5, <1>8, <4>1
      <4>3. Rank(K, j) + 1 \in 1..N /\ Rank(K, j) + 1 # place_idx + 1
        BY <1>3, <2>2, <4>2
      <4>4. operations'[Rank(K, j) + 1] = operations[Rank(K, j) + 1]
        BY <1>3, <2>1, <4>3
      <4> QED
        BY <1>5, <4>1, <4>4
    <3> QED
      BY <3>1, <3>2
  <2>6. place_idx' = Rank(K, k + 1) /\ place_idx' \in 1..k
    BY <1>5, <1>8, <1>9, <2>1, <2>2
  <2>7. CompactInv'
    BY <1>1, <2>2, <2>3, <2>4, <2>5, <2>6 DEF CompactInv, K, U, N, n
  <2> QED
    BY <1>1, <1>2, <2>7 DEF PopulateInv, OperationsBuilt
<1>10. CASE k \notin K
  <2>1. UNCHANGED <<operations, place_idx>>
    BY <1>6, <1>7, <1>10
  <2>2. k \in 1..N /\ place_idx \in 1..k
    BY <1>3, <1>5
  <2>3. \A l \in (k + 1)..N : DecodedOp(operations[l]) = U[l]
    BY <1>3, <1>5
  <2>4. \A j \in K : j <= k => DecodedOp(operations[Rank(K, j) + 1]) = U[j]
    <3>1. \A j \in K : j <= k => j <= c
      BY <1>3, <1>4, <1>10
    <3> QED
      BY <1>5, <3>1
  <2>5. place_idx = Rank(K, k + 1)
    BY <1>5, <1>8, <1>10
  <2>6. CompactInv'
    BY <1>1, <1>3, <2>1, <2>2, <2>3, <2>4, <2>5 DEF CompactInv, K, U, N, n
  <2> QED
    BY <1>1, <1>2, <2>6 DEF PopulateInv, OperationsBuilt
<1> QED
  BY <1>9, <1>10

\* At the end of the vector every slot that stays is at its rank.
LEMMA FinishBuildsOperations ==
    ASSUME PopulateInv, Finish
    PROVE  PopulateInv'
<1> DEFINE K == Kept(reqs)
           U == UncompactedOperations(reqs)
           N == 2 * Len(reqs)
<1>1. /\ phase = "compact" /\ phase' = "return" /\ UNCHANGED reqs
      /\ cur_idx = Len(operations)
      /\ operations' = ResizedOps(operations, place_idx)
  BY DEF Finish
<1>2. CallInv /\ CompactInv /\ CallInv'
  BY <1>1 DEF PopulateInv, CallInv
<1>3. N \in Nat /\ Len(operations) = N /\ cur_idx = N
  <2>1. N \in Nat
    <3>1. Len(reqs) \in Nat
      BY <1>2, LenProperties DEF CallInv, Log
    <3> QED
      BY <3>1
  <2>2. operations \in [1..N -> Word]
    BY <1>2 DEF CompactInv
  <2> HIDE DEF N
  <2> QED
    BY <1>1, <2>1, <2>2, VectorOfFunction
<1>4. /\ place_idx \in 1..N
      /\ place_idx = Rank(K, N + 1)
      /\ \A j \in K : DecodedOp(operations[Rank(K, j) + 1]) = U[j]
      /\ \A j \in K : j \in Nat /\ 1 <= j /\ j <= N
  <2>1. \A j \in K : j \in Nat /\ 1 <= j /\ j <= N
    BY <1>3 DEF Kept
  <2> QED
    BY <1>2, <1>3, <2>1 DEF CompactInv
<1> HIDE DEF K, U, N
<1>5. /\ place_idx = Cardinality(K)
      /\ \A j \in K : Rank(K, j) \in Nat /\ Rank(K, j) < place_idx
  <2>1. N + 1 \in Nat /\ \A j \in K : j < N + 1 /\ j \in Nat
    BY <1>3, <1>4
  <2> QED
    BY <1>3, <1>4, <2>1, RankProperties
<1>6. operations' = [m \in 1..place_idx |-> operations[m]]
  <2>1. \A m \in 1..place_idx : m <= Len(operations)
    BY <1>3, <1>4
  <2> QED
    BY <1>1, <2>1 DEF ResizedOps
<1>7. Len(operations') = Cardinality(K)
  <2>1. operations' \in [1..place_idx -> {operations[m] : m \in 1..place_idx}]
    BY <1>6
  <2>2. place_idx \in Nat
    BY <1>3, <1>4
  <2> QED
    BY <1>5, <2>1, <2>2, VectorOfFunction
<1>8. \A j \in K : DecodedOp(operations'[Rank(K, j) + 1]) = U[j]
  <2> SUFFICES ASSUME NEW j \in K PROVE DecodedOp(operations'[Rank(K, j) + 1]) = U[j]
    OBVIOUS
  <2>1. Rank(K, j) + 1 \in 1..place_idx
    BY <1>3, <1>4, <1>5
  <2>2. operations'[Rank(K, j) + 1] = operations[Rank(K, j) + 1]
    BY <1>6, <2>1
  <2> QED
    BY <1>4, <2>2
<1>9. Decoded(operations') = PopulateOperations(reqs)
  BY <1>2, <1>7, <1>8, CompactedSlots DEF CallInv, K, U
<1> QED
  BY <1>1, <1>2, <1>9 DEF PopulateInv, OperationsBuilt, Decoded

\* What BoundedIAF hands over is a log.
LEMMA ChunkIsLog ==
    ASSUME NEW n \in 1..MaxAccesses, NEW addrs \in [1..n -> Addr], CallProcessChunk(addrs)
    PROVE  /\ UNCHANGED <<vars, caller, log>>
           /\ caller = "BoundedIAF"
           /\ \E v : Call(v, TRUE) /\ Log(v) /\ Len(v) <= MaxAccesses
<1> DEFINE v == [i \in 1..n |-> [addr |-> addrs[i], access_number |-> i]]
<1>1. n \in Nat /\ Len(addrs) = n
  BY VectorOfFunction, MaxAccessesAssumption
<1>2. Call(v, TRUE) /\ UNCHANGED <<vars, caller, log>> /\ caller = "BoundedIAF"
  BY <1>1 DEF CallProcessChunk
<1>3. Log(v) /\ Len(v) <= MaxAccesses
  <2>1. addrs \in [1..n -> Nat]
    BY AddrAssumption
  <2>2. Log(v) /\ Len(v) = n
    BY <1>1, <2>1, NumberedByPlace
  <2> QED
    BY <2>2, MaxAccessesAssumption
<1> HIDE DEF v
<1> QED
  BY <1>2, <1>3

\* The invariant and what the calls start from.
ThreadedInv == LogInv /\ PopulateInv

LEMMA ThreadedInvInductive ==
    /\ ThreadedInit => ThreadedInv
    /\ ThreadedInv /\ [ThreadedNext]_threadedVars => ThreadedInv'
<1>1. ThreadedInit => ThreadedInv
  BY LogInvInit DEF ThreadedInit, PopulateInit, ThreadedInv, PopulateInv, OperationsBuilt
<1>2. ASSUME ThreadedInv, [ThreadedNext]_threadedVars PROVE ThreadedInv'
  <2>1. LogInv /\ PopulateInv
    BY <1>2 DEF ThreadedInv
  <2>2. UNCHANGED vars => LogInv'
    BY <2>1 DEF vars, LogInv
  <2>3. UNCHANGED populateVars => PopulateInv'
    BY <2>1, SameOperations DEF populateVars, loopVars, compactVars
  <2>4. CASE \E addr \in Addr : Access(addr)
    BY <2>1, <2>3, <2>4, LogInvAccess DEF Access, ThreadedInv
  <2>5. CASE CallGetSuccessFunction
    <3>1. Log(requests) /\ Len(requests) <= MaxAccesses
      BY <2>1 DEF LogInv
    <3>2. Call(requests, FALSE)
      BY <2>5 DEF CallGetSuccessFunction
    <3>3. PopulateInv'
      BY <3>1, <3>2, CallStarts
    <3>4. requests' = SortedRequests(requests) /\ access_number' = access_number
      BY <2>5, <3>2 DEF CallGetSuccessFunction, Call
    <3>5. LogInv'
      BY <2>1, <3>1, <3>4, SortedLog DEF LogInv
    <3> QED
      BY <3>3, <3>5 DEF ThreadedInv
  <2>6. CASE \E n \in 1..MaxAccesses : \E addrs \in [1..n -> Addr] : CallProcessChunk(addrs)
    <3>1. PICK v : Call(v, TRUE) /\ Log(v) /\ Len(v) <= MaxAccesses /\ UNCHANGED vars
      BY <2>6, ChunkIsLog
    <3>2. PopulateInv'
      BY <3>1, CallStarts
    <3> QED
      BY <2>2, <3>1, <3>2 DEF ThreadedInv
  <2>7. CASE Step
    <3>1. LogInv'
      BY <2>2, <2>7 DEF Step
    <3>2. ASSUME NEW t \in Threads, EnterCritical(t) \/ LeaveCritical(t)
          PROVE  PopulateInv'
      BY <2>1, <3>2, SameOperations DEF EnterCritical, LeaveCritical, compactVars
    <3>3. PopulateInv'
      BY <2>1, <2>7, <3>2, IterateKeepsInv, JoinKeepsInv, CompactStepKeepsInv,
         FinishBuildsOperations DEF Step, PopulateStep
    <3> QED
      BY <3>1, <3>3 DEF ThreadedInv
  <2>8. CASE EndCall
    <3>1. LogInv'
      BY <2>1, <2>8 DEF EndCall, LogInv
    <3>2. PopulateInv'
      BY <2>8 DEF EndCall, Return, PopulateInv, OperationsBuilt
    <3> QED
      BY <3>1, <3>2 DEF ThreadedInv
  <2>9. CASE UNCHANGED threadedVars
    BY <2>2, <2>3, <2>9 DEF threadedVars, ThreadedInv
  <2> QED
    BY <1>2, <2>4, <2>5, <2>6, <2>7, <2>8, <2>9 DEF ThreadedNext
<1> QED
  BY <1>1, <1>2

-----------------------------------------------------------------------------
(* Theorems                                                                *)

\* The log keeps its numbers also when the calls take many steps and it is
\* sorted at the beginning of one.
THEOREM NumbersStayPositionsInSteps == ThreadedSpec => []NumbersArePositions
<1>1. ThreadedInv => NumbersArePositions
  BY LogIsNumbered DEF ThreadedInv, LogInv
<1> QED
  BY <1>1, ThreadedInvInductive, PTL DEF ThreadedSpec

\* Whatever the team, the sharing of the loop and the order of the steps, and
\* whatever a call finds in the vector, populate_operations returns the
\* operations of module Op, as long as their targets fit under the mask.
THEOREM ThreadsBuildTheOperations == ThreadedSpec => []OperationsBuilt
<1>1. ThreadedInv => OperationsBuilt
  BY DEF ThreadedInv, PopulateInv
<1> QED
  BY <1>1, ThreadedInvInductive, PTL DEF ThreadedSpec

\* No thread of populate_operations writes where another one has written.
THEOREM ThreadsNeverCollide == ThreadedSpec => SlotsWrittenOnce
<1> DEFINE A == phase = "loop" =>
                   \A k \in 1..Len(operations) :
                       operations[k] # DefaultOp => operations'[k] = operations[k]
<1>1. ThreadedInv /\ [ThreadedNext]_threadedVars => [A]_populateVars
  <2> SUFFICES ASSUME ThreadedInv, ThreadedNext, phase = "loop",
                      operations' # operations,
                      NEW k \in 1..Len(operations), operations[k] # DefaultOp
               PROVE  operations'[k] = operations[k]
    BY DEF threadedVars
  <2>1. CallInv /\ LoopInv
    BY DEF ThreadedInv, PopulateInv
  <2>2. PICK t \in Threads : Iterate(t)
    BY DEF ThreadedNext, Access, CallGetSuccessFunction, CallProcessChunk, Call, Step,
           PopulateStep, EnterCritical, LeaveCritical, Join, CompactStep, Finish,
           EndCall, Return, populateVars
  <2>3. PICK i \in todo[t] :
            \A l \in 1..(2 * Len(reqs)) :
                \/ l = PrefixSlot(reqs[i].access_number)
                \/ l = PostfixSlot(reqs[i].access_number)
                \/ operations'[l] = operations[l]
    BY <2>1, <2>2, IterateWritesOwnSlots
  <2>4. Unwritten(i)
    <3>1. i \in 1..Len(reqs)
      BY <2>1 DEF LoopInv
    <3> QED
      BY <2>1, <3>1 DEF LoopInv
  <2>5. k \in 1..(2 * Len(reqs))
    <3>1. 2 * Len(reqs) \in Nat
      <4>1. Len(reqs) \in Nat
        BY <2>1, LenProperties DEF CallInv, Log
      <4> QED
        BY <4>1
    <3>2. Len(operations) = 2 * Len(reqs)
      BY <2>1, <3>1, VectorOfFunction DEF LoopInv
    <3> QED
      BY <3>2
  <2> QED
    BY <2>3, <2>4, <2>5 DEF Unwritten
<1> QED
  BY <1>1, ThreadedInvInductive, PTL DEF ThreadedSpec, SlotsWrittenOnce

-----------------------------------------------------------------------------
(* The number of addresses                                                 *)

\* The places of the sorted vector where another address begins.
Firsts == {i \in 1..Len(reqs) : ~FollowsSameAddr(reqs, i)}

\* The iterations that no thread has done yet.
Undone == UNION {todo[t] : t \in Threads}

\* The copies of unique_ids count the iterations done at such places; the sum
\* stays until the caller has taken it.
CountInv ==
    /\ unique_ids_priv \in [Threads -> Int]
    /\ phase = "loop" => SumFunction(unique_ids_priv) = Cardinality(Firsts \ Undone)
    /\ phase # "loop" => unique_ids_priv = [t \in Threads |-> 0]
    /\ UniqueIdsAddUp
    /\ phase = "compact" => unique_ids = UniqueIds(reqs)

LEMMA SumOfZeros == SumFunction([t \in Threads |-> 0]) = 0
<1> DEFINE f == [t \in Threads |-> 0]
<1>1. /\ {} \in SUBSET Threads
      /\ \A t \in Threads : f[t] = IF t \in {} THEN 1 ELSE 0
      /\ DOMAIN f = Threads
  OBVIOUS
<1> HIDE DEF f
<1>2. SumFunctionOnSet(f, Threads) = Cardinality({})
  BY <1>1, ThreadsAssumption, SumOfOnes
<1>3. SumFunction(f) = SumFunctionOnSet(f, Threads)
  BY <1>1, Zenon DEF SumFunction
<1> QED
  BY <1>2, <1>3, FS_EmptySet DEF f

LEMMA FirstsAreFinite ==
    ASSUME CallInv
    PROVE  IsFiniteSet(Firsts) /\ Cardinality(Firsts) = UniqueIds(reqs)
<1>1. Len(reqs) \in Nat
  BY LenProperties DEF CallInv, Log
<1>2. IsFiniteSet(1..Len(reqs)) /\ Firsts \subseteq 1..Len(reqs)
  BY <1>1, FS_Interval DEF Firsts
<1> QED
  BY <1>2, FS_Subset DEF Firsts, UniqueIds

LEMMA CallCountsFromZero ==
    ASSUME CountInv, NEW v, Log(v), Len(v) <= MaxAccesses, NEW wants, Call(v, wants)
    PROVE  CountInv'
<1> DEFINE n == Len(v)
<1>1. /\ phase = "idle" /\ phase' = "loop" /\ unique_ids_priv' = unique_ids_priv
      /\ reqs' = SortedRequests(v)
  BY DEF Call
<1>2. PICK share \in [1..n -> Threads] :
          todo' = [t \in Threads |-> {i \in 1..n : share[i] = t}]
  BY DEF Call
<1>3. Len(reqs') = n
  BY <1>1, SortedLog
<1> HIDE DEF n
<1>4. (Firsts \ Undone)' = {}
  <2>1. \A i \in 1..n : share[i] \in Threads /\ i \in todo'[share[i]]
    BY <1>2
  <2> QED
    BY <1>3, <2>1 DEF Firsts, Undone
<1>5. Cardinality((Firsts \ Undone)') = 0
  BY <1>4, FS_EmptySet
<1>6. SumFunction(unique_ids_priv') = 0
  BY <1>1, SumOfZeros DEF CountInv
<1> QED
  BY <1>1, <1>5, <1>6 DEF CountInv, UniqueIdsAddUp

LEMMA IterateCounts ==
    ASSUME PopulateInv, CountInv, NEW t \in Threads, Iterate(t)
    PROVE  CountInv'
<1> DEFINE i == Min(todo[t])
<1>1. /\ phase = "loop" /\ phase' = "loop" /\ UNCHANGED <<reqs, unique_ids>>
      /\ todo' = [todo EXCEPT ![t] = @ \ {i}]
      /\ IF RepeatsLast(i) THEN unique_ids_priv' = unique_ids_priv
                           ELSE unique_ids_priv' = [unique_ids_priv EXCEPT ![t] = @ + 1]
  BY DEF Iterate, compactVars
<1>2. CallInv /\ LoopInv
  BY <1>1 DEF PopulateInv
<1>3. i \in todo[t] /\ i \in 1..Len(reqs)
  <2>1. todo[t] # {} /\ todo[t] \in SUBSET (1..Len(reqs))
    BY <1>2 DEF Iterate, LoopInv
  <2>2. \A x \in todo[t] : x \in Nat
    <3>1. Len(reqs) \in Nat
      BY <1>2, LenProperties DEF CallInv, Log
    <3> QED
      BY <2>1, <3>1
  <2> QED
    BY <2>1, <2>2, MinIsElement
<1> HIDE DEF i
<1>4. RepeatsLast(i) <=> FollowsSameAddr(reqs, i)
  BY <1>2, <1>3, RepeatsAreFollowers
<1>5. /\ Undone' = Undone \ {i} /\ i \in Undone
  <2>1. \A u \in Threads : todo'[u] = todo[u] \ {i}
    BY <1>1, <1>2, <1>3 DEF LoopInv
  <2> QED
    BY <1>3, <2>1 DEF Undone
<1>6. Firsts' = Firsts
  BY <1>1 DEF Firsts
<1>7. IsFiniteSet(Firsts \ Undone) /\ Cardinality(Firsts \ Undone) \in Nat
  BY <1>2, FirstsAreFinite, FS_Difference, FS_CardinalityType
<1>8. CASE FollowsSameAddr(reqs, i)
  <2>1. Firsts' \ Undone' = Firsts \ Undone
    BY <1>5, <1>6, <1>8 DEF Firsts
  <2> QED
    BY <1>1, <1>4, <1>8, <2>1 DEF CountInv, UniqueIdsAddUp
<1>9. CASE ~FollowsSameAddr(reqs, i)
  <2>1. Firsts' \ Undone' = (Firsts \ Undone) \cup {i} /\ i \notin Firsts \ Undone
    BY <1>3, <1>5, <1>6, <1>9 DEF Firsts
  <2>2. Cardinality(Firsts' \ Undone') = Cardinality(Firsts \ Undone) + 1
    BY <1>7, <2>1, FS_AddElement
  <2>3. /\ unique_ids_priv' = [unique_ids_priv EXCEPT ![t] = unique_ids_priv[t] + 1]
        /\ unique_ids_priv \in [Threads -> Int]
    BY <1>1, <1>4, <1>9 DEF CountInv
  <2> DEFINE c == unique_ids_priv[t] + 1
  <2>4. SumFunction(unique_ids_priv') = SumFunction(unique_ids_priv) + c - unique_ids_priv[t]
    <3>1. c \in Int /\ unique_ids_priv' = [unique_ids_priv EXCEPT ![t] = c]
      BY <2>3
    <3> HIDE DEF c
    <3>2. SumFunction([unique_ids_priv EXCEPT ![t] = c])
              = SumFunction(unique_ids_priv) + c - unique_ids_priv[t]
      BY <2>3, <3>1, ThreadsAssumption, SumOfUpdate
    <3> QED
      BY <3>1, <3>2
  <2>5. unique_ids_priv[t] \in Int /\ SumFunction(unique_ids_priv) = Cardinality(Firsts \ Undone)
    BY <1>1, <2>3 DEF CountInv
  <2>6. SumFunction(unique_ids_priv') = Cardinality(Firsts' \ Undone')
    BY <1>7, <2>2, <2>4, <2>5
  <2>7. unique_ids_priv' \in [Threads -> Int]
    BY <2>3
  <2> QED
    BY <1>1, <2>6, <2>7 DEF CountInv, UniqueIdsAddUp
<1> QED
  BY <1>8, <1>9

LEMMA JoinAddsUp ==
    ASSUME PopulateInv, CountInv, Join
    PROVE  CountInv'
<1>1. /\ phase = "loop" /\ phase' = "compact" /\ UNCHANGED reqs
      /\ unique_ids' = SumFunction(unique_ids_priv)
      /\ unique_ids_priv' = [t \in Threads |-> 0]
      /\ \A t \in Threads : todo[t] = {}
  BY DEF Join, AtBarrier, NoThreads
<1>2. Firsts \ Undone = Firsts
  BY <1>1 DEF Undone
<1>3. unique_ids' = UniqueIds(reqs)
  BY <1>1, <1>2, FirstsAreFinite DEF CountInv, PopulateInv
<1> QED
  BY <1>1, <1>3 DEF CountInv, UniqueIdsAddUp

LEMMA SameCounts ==
    ASSUME CountInv, UNCHANGED <<phase, reqs, todo, unique_ids_priv, unique_ids>>
    PROVE  CountInv'
BY DEF CountInv, UniqueIdsAddUp, Firsts, Undone

LEMMA CountInvInductive ==
    /\ ThreadedInit => CountInv
    /\ ThreadedInv /\ CountInv /\ [ThreadedNext]_threadedVars => CountInv'
<1>1. ThreadedInit => CountInv
  BY DEF ThreadedInit, PopulateInit, CountInv, UniqueIdsAddUp
<1>2. ASSUME ThreadedInv, CountInv, [ThreadedNext]_threadedVars PROVE CountInv'
  <2>1. LogInv /\ PopulateInv
    BY <1>2 DEF ThreadedInv
  <2>2. UNCHANGED populateVars => CountInv'
    BY <1>2, SameCounts DEF populateVars, loopVars, compactVars
  <2>3. ASSUME NEW v, Log(v), Len(v) <= MaxAccesses, NEW wants, Call(v, wants)
        PROVE  CountInv'
    BY <1>2, <2>3, CallCountsFromZero
  <2>4. CASE \E addr \in Addr : Access(addr)
    BY <2>2, <2>4 DEF Access
  <2>5. CASE CallGetSuccessFunction
    BY <2>1, <2>3, <2>5 DEF CallGetSuccessFunction, LogInv
  <2>6. CASE \E n \in 1..MaxAccesses : \E addrs \in [1..n -> Addr] : CallProcessChunk(addrs)
    BY <2>3, <2>6, ChunkIsLog
  <2>7. CASE Step
    <3>1. ASSUME NEW t \in Threads, EnterCritical(t) \/ LeaveCritical(t)
          PROVE  CountInv'
      BY <1>2, <3>1, SameCounts DEF EnterCritical, LeaveCritical, compactVars
    <3>2. CASE CompactStep
      BY <1>2, <3>2 DEF CompactStep, CountInv, UniqueIdsAddUp, loopVars
    <3>3. CASE Finish
      BY <1>2, <3>3 DEF Finish, CountInv, UniqueIdsAddUp, loopVars, compactVars
    <3> QED
      BY <1>2, <2>1, <2>7, <3>1, <3>2, <3>3, IterateCounts, JoinAddsUp DEF Step, PopulateStep
  <2>8. CASE EndCall
    BY <1>2, <2>8 DEF EndCall, Return, CountInv, UniqueIdsAddUp, loopVars
  <2>9. CASE UNCHANGED threadedVars
    BY <2>2, <2>9 DEF threadedVars
  <2> QED
    BY <1>2, <2>4, <2>5, <2>6, <2>7, <2>8, <2>9 DEF ThreadedNext
<1> QED
  BY <1>1, <1>2

\* The threads count every address once between them: the room that
\* update_hits_vector makes is that of the addresses of the requests.
THEOREM ThreadsCountTheAddresses == ThreadedSpec => []UniqueIdsAddUp
<1>1. CountInv => UniqueIdsAddUp
  BY DEF CountInv
<1> QED
  BY <1>1, ThreadedInvInductive, CountInvInductive, PTL DEF ThreadedSpec

-----------------------------------------------------------------------------
(* A call is one step of IncrementAndFreeze                                *)

\* While a program waits for its call, the log is sorted and its old order is
\* remembered; BoundedIAF has its requests elsewhere.
WaitingInv ==
    /\ caller = "BoundedIAF" => requests = <<>> /\ log = <<>>
    /\ phase = "idle" => log = <<>>
    /\ caller = "program" /\ phase # "idle" =>
          /\ log # <<>>
          /\ reqs = SortedRequests(log)
          /\ requests = reqs
    /\ caller \in {"program", "BoundedIAF"}

LEMMA StepKeepsCall ==
    ASSUME Step
    PROVE  /\ phase # "idle" /\ phase' # "idle"
           /\ UNCHANGED <<vars, caller, log, reqs>>
BY DEF Step, PopulateStep, Iterate, EnterCritical, LeaveCritical, Join, CompactStep, Finish

LEMMA WaitingInvInductive ==
    /\ ThreadedInit => WaitingInv
    /\ WaitingInv /\ [ThreadedNext]_threadedVars => WaitingInv'
<1>1. ThreadedInit => WaitingInv
  BY DEF ThreadedInit, Init, PopulateInit, WaitingInv
<1>2. ASSUME WaitingInv, [ThreadedNext]_threadedVars PROVE WaitingInv'
  <2>1. CASE \E addr \in Addr : Access(addr)
    BY <1>2, <2>1 DEF Access, WaitingInv, populateVars
  <2>2. CASE CallGetSuccessFunction
    <3>1. requests # <<>>
      <4>1. Len(requests) > 0
        BY <2>2 DEF CallGetSuccessFunction, Call
      <4> QED
        BY <4>1, EmptySeq
    <3> QED
      BY <1>2, <2>2, <3>1 DEF CallGetSuccessFunction, Call, WaitingInv
  <2>3. CASE \E n \in 1..MaxAccesses : \E addrs \in [1..n -> Addr] : CallProcessChunk(addrs)
    BY <1>2, <2>3 DEF CallProcessChunk, Call, WaitingInv, vars
  <2>4. CASE Step
    BY <1>2, <2>4, StepKeepsCall DEF WaitingInv, vars
  <2>5. CASE EndCall
    BY <1>2, <2>5 DEF EndCall, Return, WaitingInv
  <2>6. CASE UNCHANGED threadedVars
    BY <1>2, <2>6 DEF threadedVars, vars, populateVars, WaitingInv
  <2> QED
    BY <1>2, <2>1, <2>2, <2>3, <2>4, <2>5, <2>6 DEF ThreadedNext
<1> QED
  BY <1>1, <1>2

\* The operators that the instance has brought along are those of this module.
LEMMA AtomicOperators ==
    /\ \A v : Atomic!SortedRequests(v) = SortedRequests(v)
    /\ \A v : Atomic!UpdatedHits(<<>>, v) = UpdatedHits(<<>>, v)
    /\ \A v : Atomic!PrefixSums(v) = PrefixSums(v)
<1>1. ASSUME NEW v PROVE Atomic!SortedRequests(v) = SortedRequests(v)
  BY DEF SortedRequests, SortedBy, Vector, ReqLess, Cardinality,
         Atomic!SortedRequests, Atomic!SortedBy, Atomic!Vector, Atomic!ReqLess,
         Atomic!Cardinality
<1>2. ASSUME NEW v PROVE Atomic!PopulateOperations(v) = PopulateOperations(v)
  BY DEF PopulateOperations, Compact, UncompactedOperations, Ascending, Vector, IsNull,
         PrefixOp, PostfixOp, NoImpact, FollowsSameAddr, Cardinality,
         Atomic!PopulateOperations, Atomic!Compact, Atomic!UncompactedOperations,
         Atomic!Ascending, Atomic!Vector, Atomic!IsNull, Atomic!PrefixOp,
         Atomic!PostfixOp, Atomic!NoImpact, Atomic!FollowsSameAddr, Atomic!Cardinality
<1>3. ASSUME NEW v PROVE Atomic!UniqueIds(v) = UniqueIds(v)
  BY DEF UniqueIds, FollowsSameAddr, Cardinality,
         Atomic!UniqueIds, Atomic!FollowsSameAddr, Atomic!Cardinality
<1>4. ASSUME NEW ops, NEW n
      PROVE  Atomic!HitsOfOperations(<<>>, ops, n) = HitsOfOperations(<<>>, ops, n)
  BY DEF HitsOfOperations, VectorSize, Resize, FrozenDistance, Effect, IncAmnt,
         SumFunction, SumFunctionOnSet, FoldFunctionOnSet, MapThenFoldSet, Cardinality,
         Atomic!HitsOfOperations, Atomic!VectorSize, Atomic!Resize,
         Atomic!FrozenDistance, Atomic!Effect, Atomic!IncAmnt, Atomic!SumFunction,
         Atomic!SumFunctionOnSet, Atomic!FoldFunctionOnSet, Atomic!MapThenFoldSet,
         Atomic!Cardinality
<1>5. ASSUME NEW v PROVE Atomic!PrefixSums(v) = PrefixSums(v)
  BY DEF PrefixSums, SumFunctionOnSet, FoldFunctionOnSet, MapThenFoldSet,
         Atomic!PrefixSums, Atomic!SumFunctionOnSet, Atomic!FoldFunctionOnSet,
         Atomic!MapThenFoldSet
<1> QED
  BY <1>1, <1>2, <1>3, <1>4, <1>5 DEF UpdatedHits, Atomic!UpdatedHits

\* The end of the call of a program is the step of the atomic simulator.
LEMMA EndCallIsGetSuccessFunction ==
    ASSUME WaitingInv, OperationsBuilt, UniqueIdsAddUp, EndCall, caller = "program"
    PROVE  Atomic!GetSuccessFunction
<1>1. /\ phase = "return" /\ phase' = "idle"
      /\ requests' = requests /\ access_number' = access_number
      /\ success' = PrefixSums(HitsOfOperations(<<>>, Decoded(operations), unique_ids))
  BY DEF EndCall, Return
<1>2. log # <<>> /\ reqs = SortedRequests(log) /\ requests = reqs
  BY <1>1 DEF WaitingInv
<1>3. /\ Decoded(operations) = PopulateOperations(reqs)
      /\ unique_ids = UniqueIds(reqs)
  BY <1>1 DEF OperationsBuilt, UniqueIdsAddUp
<1>4. success' = PrefixSums(UpdatedHits(<<>>, SortedRequests(log)))
  BY <1>1, <1>2, <1>3 DEF UpdatedHits
<1> QED
  BY <1>1, <1>2, <1>4, AtomicOperators DEF Atomic!GetSuccessFunction

LEMMA StepsRefine ==
    ASSUME ThreadedInv, CountInv, WaitingInv, [ThreadedNext]_threadedVars
    PROVE  [Atomic!Next]_(Atomic!vars)
<1>1. OperationsBuilt /\ UniqueIdsAddUp
  BY DEF ThreadedInv, PopulateInv, CountInv
<1>2. CASE \E addr \in Addr : Access(addr)
  <2>1. PICK addr \in Addr : Access(addr)
    BY <1>2
  <2>2. Atomic!MemoryAccess(addr)
    BY <2>1 DEF Access, MemoryAccess, Atomic!MemoryAccess, populateVars
  <2> QED
    BY <2>2 DEF Atomic!Next
<1>3. CASE CallGetSuccessFunction
  BY <1>3 DEF CallGetSuccessFunction, Call, Atomic!vars
<1>4. CASE \E n \in 1..MaxAccesses : \E addrs \in [1..n -> Addr] : CallProcessChunk(addrs)
  BY <1>4 DEF CallProcessChunk, Call, vars, WaitingInv, Atomic!vars
<1>5. CASE Step
  BY <1>5, StepKeepsCall DEF vars, Atomic!vars
<1>6. CASE EndCall
  <2>1. CASE caller = "program"
    BY <1>1, <1>6, <2>1, EndCallIsGetSuccessFunction DEF Atomic!Next
  <2>2. CASE caller = "BoundedIAF"
    BY <1>6, <2>2 DEF EndCall, Return, WaitingInv, Atomic!vars
  <2> QED
    BY <2>1, <2>2 DEF WaitingInv
<1>7. CASE UNCHANGED threadedVars
  BY <1>7 DEF threadedVars, vars, populateVars, Atomic!vars
<1> QED
  BY <1>2, <1>3, <1>4, <1>5, <1>6, <1>7 DEF ThreadedNext

\* To its callers a call of the threads is one step of IncrementAndFreeze.
THEOREM ThreadsImplementAtomicCalls == ThreadedSpec => ImplementsAtomicCalls
<1>1. ThreadedInit => Atomic!Init
  BY DEF ThreadedInit, Init, PopulateInit, Atomic!Init
<1> QED
  BY <1>1, ThreadedInvInductive, CountInvInductive, WaitingInvInductive, StepsRefine,
     PTL DEF ThreadedSpec, ImplementsAtomicCalls, Atomic!Spec

-----------------------------------------------------------------------------
(* The survivors                                                           *)

Listed(seq) == {seq[k] : k \in 1..Len(seq)}

NoRepeats(seq) == \A j, k \in 1..Len(seq) : seq[j] = seq[k] => j = k

\* The survivors in front of the places where another address begins, as far
\* as the iterations have met them.
Met == {reqs[i - 1] : i \in {j \in Firsts \ Undone : j > 1}}

\* Each survivor that was met is in the hands of one thread or handed over, once.
MeetInv ==
    /\ living_req \in Seq(Req)
    /\ living_req_priv \in [Threads -> Seq(Req)]
    /\ NoRepeats(living_req)
    /\ \A t \in Threads : NoRepeats(living_req_priv[t])
    /\ \A t \in Threads : Listed(living_req) \cap Listed(living_req_priv[t]) = {}
    /\ \A t, u \in Threads : t # u =>
          Listed(living_req_priv[t]) \cap Listed(living_req_priv[u]) = {}
    /\ Met = Listed(living_req) \cup UNION {Listed(living_req_priv[t]) : t \in Threads}

\* Threads go to the end through the critical section, one at a time, with
\* nothing left to do; in it they know where the vector ends, and at the end
\* they have handed all over.
CriticalInv ==
    /\ \A t \in Threads : stage[t] # "loop" => todo[t] = {}
    /\ \A t \in Threads : stage[t] = "critical" => inserts_at[t] = Len(living_req)
    /\ \A t, u \in Threads : stage[t] = "critical" /\ stage[u] = "critical" => t = u
    /\ \A t \in Threads : stage[t] = "end" => living_req_priv[t] = <<>>

HandOverInv ==
    /\ stage \in [Threads -> {"loop", "critical", "end"}]
    /\ inserts_at \in [Threads -> Nat]
    /\ phase = "loop" /\ wants_living => MeetInv /\ CriticalInv
    /\ phase # "loop" =>
          /\ living_req_priv = [t \in Threads |-> <<>>]
          /\ stage = [t \in Threads |-> "loop"]
    /\ phase = "compact" /\ wants_living =>
          /\ living_req \in Seq(Req)
          /\ NoRepeats(living_req)
          /\ Listed(living_req) = {reqs[i - 1] : i \in {j \in Firsts : j > 1}}
    /\ SurvivorsComplete

LEMMA EmptyListed == Listed(<<>>) = {} /\ NoRepeats(<<>>)
BY EmptySeq DEF Listed, NoRepeats

\* A request more at the end of a vector.
LEMMA AppendListed ==
    ASSUME NEW R, NEW seq \in Seq(R), NEW r \in R
    PROVE  /\ Append(seq, r) \in Seq(R)
           /\ Listed(Append(seq, r)) = Listed(seq) \cup {r}
           /\ NoRepeats(seq) /\ r \notin Listed(seq) => NoRepeats(Append(seq, r))
<1> DEFINE a == Append(seq, r)
           n == Len(seq)
<1>1. /\ a \in Seq(R) /\ n \in Nat /\ Len(a) = n + 1
      /\ \A k \in 1..n : a[k] = seq[k]
      /\ a[n + 1] = r
  BY AppendProperties, LenProperties
<1> HIDE DEF a, n
<1>2. \A k : k \in 1..(n + 1) <=> k \in 1..n \/ k = n + 1
  BY <1>1
<1>3. Listed(a) = Listed(seq) \cup {r}
  <2>1. \A x : x \in Listed(a) <=> \E k \in 1..(n + 1) : x = a[k]
    BY <1>1 DEF Listed
  <2>2. \A x : x \in Listed(seq) <=> \E k \in 1..n : x = seq[k]
    BY DEF Listed, n
  <2>3. \A x : x \in Listed(a) <=> x \in Listed(seq) \/ x = r
    BY <1>1, <1>2, <2>1, <2>2
  <2> QED
    BY <2>3
<1>4. ASSUME NoRepeats(seq), r \notin Listed(seq) PROVE NoRepeats(a)
  <2>1. \A j, k \in 1..n : seq[j] = seq[k] => j = k
    BY <1>4 DEF NoRepeats, n
  <2>2. \A k \in 1..n : seq[k] # r
    BY <1>4 DEF Listed, n
  <2>3. ASSUME NEW j \in 1..(n + 1), NEW k \in 1..(n + 1), a[j] = a[k] PROVE j = k
    BY <1>1, <1>2, <2>1, <2>2, <2>3
  <2> QED
    BY <1>1, <2>3 DEF NoRepeats
<1> QED
  BY <1>1, <1>3, <1>4 DEF a

\* Two vectors, one behind the other.
LEMMA ConcatListed ==
    ASSUME NEW R, NEW s \in Seq(R), NEW r \in Seq(R)
    PROVE  /\ s \o r \in Seq(R)
           /\ Listed(s \o r) = Listed(s) \cup Listed(r)
           /\ NoRepeats(s) /\ NoRepeats(r) /\ Listed(s) \cap Listed(r) = {}
                => NoRepeats(s \o r)
<1> DEFINE c == s \o r
           m == Len(s)
           n == Len(r)
<1>1. /\ c \in Seq(R) /\ m \in Nat /\ n \in Nat /\ Len(c) = m + n
      /\ \A k \in 1..(m + n) : c[k] = IF k <= m THEN s[k] ELSE r[k - m]
  BY ConcatProperties, LenProperties
<1> HIDE DEF c, m, n
<1>2. /\ \A k \in 1..m : k \in 1..(m + n) /\ c[k] = s[k]
      /\ \A k \in 1..n : k + m \in 1..(m + n) /\ c[k + m] = r[k]
      /\ \A k \in 1..(m + n) : \/ k \in 1..m
                               \/ k - m \in 1..n /\ c[k] = r[k - m]
  <2>1. \A k \in 1..m : k \in 1..(m + n) /\ c[k] = s[k]
    BY <1>1
  <2>2. ASSUME NEW k \in 1..n PROVE k + m \in 1..(m + n) /\ c[k + m] = r[k]
    <3>1. k + m \in 1..(m + n) /\ ~(k + m <= m) /\ (k + m) - m = k
      BY <1>1
    <3> QED
      BY <1>1, <3>1
  <2>3. ASSUME NEW k \in 1..(m + n), k \notin 1..m
        PROVE  k - m \in 1..n /\ c[k] = r[k - m]
    <3>1. k - m \in 1..n /\ ~(k <= m)
      BY <1>1, <2>3
    <3> QED
      BY <1>1, <3>1
  <2> QED
    BY <2>1, <2>2, <2>3
<1>3. Listed(c) = Listed(s) \cup Listed(r)
  <2>1. \A x : x \in Listed(c) <=> \E k \in 1..(m + n) : x = c[k]
    BY <1>1 DEF Listed
  <2>2. \A x : x \in Listed(s) <=> \E k \in 1..m : x = s[k]
    BY DEF Listed, m
  <2>3. \A x : x \in Listed(r) <=> \E k \in 1..n : x = r[k]
    BY DEF Listed, n
  <2>4. \A x : x \in Listed(c) => x \in Listed(s) \/ x \in Listed(r)
    BY <1>2, <2>1, <2>2, <2>3
  <2>5. \A x : x \in Listed(s) \/ x \in Listed(r) => x \in Listed(c)
    BY <1>2, <2>1, <2>2, <2>3
  <2> QED
    BY <2>4, <2>5
<1>4. ASSUME NoRepeats(s), NoRepeats(r), Listed(s) \cap Listed(r) = {}
      PROVE  NoRepeats(c)
  <2>1. \A j, k \in 1..m : s[j] = s[k] => j = k
    BY <1>4 DEF NoRepeats, m
  <2>2. \A j, k \in 1..n : r[j] = r[k] => j = k
    BY <1>4 DEF NoRepeats, n
  <2>3. \A j \in 1..m, k \in 1..n : s[j] # r[k]
    <3>1. \A j \in 1..m : s[j] \in Listed(s)
      BY DEF Listed, m
    <3>2. \A k \in 1..n : r[k] \in Listed(r)
      BY DEF Listed, n
    <3> QED
      BY <1>4, <3>1, <3>2
  <2>4. ASSUME NEW j \in 1..(m + n), NEW k \in 1..(m + n), c[j] = c[k] PROVE j = k
    <3>1. CASE j \in 1..m /\ k \in 1..m
      BY <1>2, <2>1, <2>4, <3>1
    <3>2. CASE j \in 1..m /\ k \notin 1..m
      BY <1>2, <2>3, <2>4, <3>2
    <3>3. CASE j \notin 1..m /\ k \in 1..m
      BY <1>2, <2>3, <2>4, <3>3
    <3>4. CASE j \notin 1..m /\ k \notin 1..m
      <4>1. j - m \in 1..n /\ k - m \in 1..n /\ r[j - m] = r[k - m]
        BY <1>2, <2>4, <3>4
      <4>2. j - m = k - m
        BY <2>2, <4>1
      <4> QED
        BY <1>1, <4>2
    <3> QED
      BY <3>1, <3>2, <3>3, <3>4
  <2> QED
    BY <1>1, <2>4 DEF NoRepeats
<1> QED
  BY <1>1, <1>3, <1>4 DEF c

LEMMA CallMeetsNone ==
    ASSUME HandOverInv, NEW v, Log(v), Len(v) <= MaxAccesses, NEW wants, Call(v, wants)
    PROVE  HandOverInv'
<1> DEFINE n == Len(v)
<1>1. /\ phase = "idle" /\ phase' = "loop"
      /\ UNCHANGED <<living_req_priv, stage, inserts_at>>
      /\ reqs' = SortedRequests(v) /\ living_req' = <<>>
  BY DEF Call
<1>2. PICK share \in [1..n -> Threads] :
          todo' = [t \in Threads |-> {i \in 1..n : share[i] = t}]
  BY DEF Call
<1>3. Len(reqs') = n
  BY <1>1, SortedLog
<1> HIDE DEF n
<1>4. Met' = {}
  <2>1. \A i \in 1..n : share[i] \in Threads /\ i \in todo'[share[i]]
    BY <1>2
  <2>2. (Firsts \ Undone)' = {}
    BY <1>3, <2>1 DEF Firsts, Undone
  <2> QED
    BY <2>2 DEF Met
<1>5. /\ living_req_priv' = [t \in Threads |-> <<>>]
      /\ stage' = [t \in Threads |-> "loop"]
  BY <1>1 DEF HandOverInv
<1>6. MeetInv'
  <2>1. \A t \in Threads : living_req_priv'[t] = <<>>
    BY <1>5
  <2>2. living_req_priv' \in [Threads -> Seq(Req)] /\ living_req' \in Seq(Req)
    BY <1>1, <1>5, EmptySeq
  <2> QED
    BY <1>1, <1>4, <2>1, <2>2, EmptyListed DEF MeetInv
<1>7. CriticalInv'
  BY <1>5 DEF CriticalInv
<1> QED
  BY <1>1, <1>5, <1>6, <1>7 DEF HandOverInv, SurvivorsComplete

\* The requests of a call, by place.
LEMMA RequestsOfCall ==
    ASSUME CallInv
    PROVE  /\ Len(reqs) \in Nat
           /\ \A i \in 1..Len(reqs) : reqs[i] \in Req
           /\ \A i, j \in 1..Len(reqs) : reqs[i] = reqs[j] => i = j
<1>1. Len(reqs) \in Nat /\ \A i \in 1..Len(reqs) : reqs[i] \in Req
  BY LenProperties DEF CallInv, Log
<1>2. \A i, j \in 1..Len(reqs) : reqs[i] = reqs[j] => i = j
  BY DEF CallInv, Log, DistinctNumbers
<1> QED
  BY <1>1, <1>2

LEMMA IterateMeets ==
    ASSUME PopulateInv, HandOverInv, NEW t \in Threads, Iterate(t)
    PROVE  HandOverInv'
<1> DEFINE i == Min(todo[t])
<1>1. /\ phase = "loop" /\ phase' = "loop"
      /\ UNCHANGED <<reqs, wants_living, living_req, stage, inserts_at>>
      /\ todo[t] # {} /\ todo' = [todo EXCEPT ![t] = @ \ {i}]
      /\ IF RepeatsLast(i) \/ ~(wants_living /\ i > 1)
         THEN living_req_priv' = living_req_priv
         ELSE living_req_priv' = [living_req_priv EXCEPT ![t] = Append(@, reqs[i - 1])]
  BY DEF Iterate
<1>2. CallInv /\ LoopInv
  BY <1>1 DEF PopulateInv
<1>3. i \in todo[t] /\ i \in 1..Len(reqs)
  <2>1. todo[t] \in SUBSET (1..Len(reqs))
    BY <1>2 DEF LoopInv
  <2>2. \A x \in todo[t] : x \in Nat
    BY <1>2, <2>1, RequestsOfCall
  <2> QED
    BY <1>1, <2>1, <2>2, MinIsElement
<1> HIDE DEF i
<1>4. RepeatsLast(i) <=> FollowsSameAddr(reqs, i)
  BY <1>2, <1>3, RepeatsAreFollowers
<1>5. Undone' = Undone \ {i} /\ i \in Undone /\ \A u \in Threads : todo'[u] \subseteq todo[u]
  <2>1. \A u \in Threads : todo'[u] = todo[u] \ {i}
    BY <1>1, <1>2, <1>3 DEF LoopInv
  <2> QED
    BY <1>3, <2>1 DEF Undone
<1>6. Firsts' = Firsts
  BY <1>1 DEF Firsts
<1>7. /\ wants_living => MeetInv /\ CriticalInv
      /\ stage \in [Threads -> {"loop", "critical", "end"}] /\ inserts_at \in [Threads -> Nat]
  BY <1>1 DEF HandOverInv
<1>8. ASSUME wants_living PROVE MeetInv' /\ CriticalInv'
  <2>1. MeetInv /\ CriticalInv
    BY <1>7, <1>8
  <2>2. stage[t] = "loop"
    BY <1>1, <2>1 DEF CriticalInv
  <2>3. CASE FollowsSameAddr(reqs, i) \/ ~(i > 1)
    <3>1. living_req_priv' = living_req_priv
      BY <1>1, <1>4, <2>3
    <3>2. Met' = Met
      BY <1>1, <1>5, <1>6, <2>3 DEF Met, Firsts
    <3> QED
      BY <1>1, <1>5, <2>1, <3>1, <3>2 DEF MeetInv, CriticalInv
  <2>4. CASE ~FollowsSameAddr(reqs, i) /\ i > 1
    <3> DEFINE r == reqs[i - 1]
               p == living_req_priv
    <3>1. /\ r \in Req
          /\ \A j \in 1..Len(reqs) : j > 1 => (reqs[j - 1] = r => j = i)
      <4>1. \A j \in 1..Len(reqs) : j > 1 => j - 1 \in 1..Len(reqs)
        BY <1>2, RequestsOfCall
      <4>2. \A j \in 1..Len(reqs) : j > 1 => (j - 1 = i - 1 => j = i)
        BY <1>2, <1>3, RequestsOfCall
      <4> QED
        BY <1>2, <1>3, <2>4, <4>1, <4>2, RequestsOfCall
    <3>2. p' = [p EXCEPT ![t] = Append(p[t], r)]
      BY <1>1, <1>4, <1>8, <2>4
    <3>3. Met' = Met \cup {r}
      <4>1. Firsts' \ Undone' = (Firsts \ Undone) \cup {i}
        BY <1>3, <1>5, <1>6, <2>4 DEF Firsts
      <4>2. Met' = {reqs[k - 1] : k \in {j \in Firsts' \ Undone' : j > 1}}
        BY <1>1 DEF Met
      <4> QED
        BY <2>4, <4>1, <4>2 DEF Met
    <3>4. r \notin Met
      <4>1. \A j \in Firsts \ Undone : j > 1 => reqs[j - 1] # r
        BY <1>5, <3>1 DEF Firsts
      <4> QED
        BY <4>1 DEF Met
    <3> HIDE DEF r
    <3>5. /\ p \in [Threads -> Seq(Req)]
          /\ r \notin Listed(living_req)
          /\ \A u \in Threads : r \notin Listed(p[u])
      BY <2>1, <3>4 DEF MeetInv
    <3>6. /\ Append(p[t], r) \in Seq(Req)
          /\ Listed(Append(p[t], r)) = Listed(p[t]) \cup {r}
          /\ NoRepeats(Append(p[t], r))
      <4>1. p[t] \in Seq(Req) /\ NoRepeats(p[t])
        BY <2>1 DEF MeetInv
      <4> QED
        BY <3>1, <3>5, <4>1, AppendListed
    <3>7. /\ p' \in [Threads -> Seq(Req)]
          /\ p'[t] = Append(p[t], r)
          /\ \A u \in Threads : u # t => p'[u] = p[u]
      BY <3>2, <3>5, <3>6
    <3>8. MeetInv'
      <4>1. \A u \in Threads : NoRepeats(p'[u])
        BY <2>1, <3>6, <3>7 DEF MeetInv
      <4>2. ASSUME NEW u \in Threads PROVE Listed(living_req) \cap Listed(p'[u]) = {}
        <5>1. CASE u = t
          BY <2>1, <3>5, <3>6, <3>7, <5>1 DEF MeetInv
        <5>2. CASE u # t
          BY <2>1, <3>7, <5>2 DEF MeetInv
        <5> QED
          BY <5>1, <5>2
      <4>3. ASSUME NEW u \in Threads, NEW s \in Threads, u # s
            PROVE  Listed(p'[u]) \cap Listed(p'[s]) = {}
        <5>0. Listed(p[u]) \cap Listed(p[s]) = {}
          BY <2>1, <4>3 DEF MeetInv
        <5>1. CASE u = t
          BY <3>5, <3>6, <3>7, <4>3, <5>0, <5>1
        <5>2. CASE s = t
          BY <3>5, <3>6, <3>7, <4>3, <5>0, <5>2
        <5>3. CASE u # t /\ s # t
          BY <3>7, <5>0, <5>3
        <5> QED
          BY <5>1, <5>2, <5>3
      <4>4. UNION {Listed(p'[u]) : u \in Threads} = (UNION {Listed(p[u]) : u \in Threads}) \cup {r}
        <5>1. \A x : (\E u \in Threads : x \in Listed(p'[u])) <=>
                        (\E u \in Threads : x \in Listed(p[u])) \/ x = r
          BY <3>6, <3>7
        <5> QED
          BY <5>1
      <4>5. Met' = Listed(living_req) \cup UNION {Listed(p'[u]) : u \in Threads}
        BY <2>1, <3>3, <4>4 DEF MeetInv
      <4> QED
        BY <1>1, <2>1, <3>7, <4>1, <4>2, <4>3, <4>5 DEF MeetInv
    <3>9. CriticalInv'
      <4>1. \A u \in Threads : stage[u] # "loop" => u # t
        BY <2>2
      <4> QED
        BY <1>1, <1>5, <2>1, <3>7, <4>1 DEF CriticalInv
    <3> QED
      BY <3>8, <3>9
  <2> QED
    BY <2>3, <2>4
<1> QED
  BY <1>1, <1>7, <1>8 DEF HandOverInv, SurvivorsComplete

LEMMA EnterCriticalMeets ==
    ASSUME HandOverInv, NEW t \in Threads, EnterCritical(t)
    PROVE  HandOverInv'
<1>1. /\ phase = "loop" /\ wants_living /\ todo[t] = {} /\ stage[t] = "loop"
      /\ \A u \in Threads : stage[u] # "critical"
      /\ stage' = [stage EXCEPT ![t] = "critical"]
      /\ inserts_at' = [inserts_at EXCEPT ![t] = Len(living_req)]
      /\ UNCHANGED <<phase, reqs, wants_living, living_req, todo, living_req_priv>>
  BY DEF EnterCritical
<1>2. /\ MeetInv /\ CriticalInv /\ inserts_at \in [Threads -> Nat]
      /\ stage \in [Threads -> {"loop", "critical", "end"}]
  BY <1>1 DEF HandOverInv
<1>3. MeetInv'
  BY <1>1, <1>2 DEF MeetInv, Met, Firsts, Undone
<1>4. CriticalInv'
  BY <1>1, <1>2 DEF CriticalInv
<1>5. inserts_at' \in [Threads -> Nat]
  <2>1. Len(living_req) \in Nat
    BY <1>2, LenProperties DEF MeetInv
  <2> QED
    BY <1>1, <1>2, <2>1
<1> QED
  BY <1>1, <1>2, <1>3, <1>4, <1>5 DEF HandOverInv, SurvivorsComplete

LEMMA LeaveCriticalMeets ==
    ASSUME HandOverInv, NEW t \in Threads, LeaveCritical(t)
    PROVE  HandOverInv'
<1> DEFINE p == living_req_priv
<1>1. /\ phase = "loop" /\ stage[t] = "critical"
      /\ living_req' = SubSeq(living_req, 1, inserts_at[t]) \o p[t]
      /\ p' = [p EXCEPT ![t] = <<>>]
      /\ inserts_at' = [inserts_at EXCEPT ![t] = 0]
      /\ stage' = [stage EXCEPT ![t] = "end"]
      /\ UNCHANGED <<phase, reqs, wants_living, todo>>
  BY DEF LeaveCritical
<1>2. /\ inserts_at \in [Threads -> Nat]
      /\ stage \in [Threads -> {"loop", "critical", "end"}]
      /\ wants_living => MeetInv /\ CriticalInv
  BY <1>1 DEF HandOverInv
<1>3. ASSUME wants_living PROVE MeetInv' /\ CriticalInv'
  <2>1. MeetInv /\ CriticalInv
    BY <1>2, <1>3
  <2>2. living_req \in Seq(Req) /\ p \in [Threads -> Seq(Req)] /\ p[t] \in Seq(Req)
    BY <2>1 DEF MeetInv
  <2>3. living_req' = living_req \o p[t]
    <3>1. inserts_at[t] = Len(living_req)
      BY <1>1, <2>1 DEF CriticalInv
    <3>2. SubSeq(living_req, 1, Len(living_req)) = living_req
      BY <2>2, SubSeqFull
    <3> QED
      BY <1>1, <3>1, <3>2
  <2>4. /\ living_req' \in Seq(Req)
        /\ Listed(living_req') = Listed(living_req) \cup Listed(p[t])
        /\ NoRepeats(living_req')
    <3>1. /\ NoRepeats(living_req) /\ NoRepeats(p[t])
          /\ Listed(living_req) \cap Listed(p[t]) = {}
      BY <2>1 DEF MeetInv
    <3> QED
      BY <2>2, <2>3, <3>1, ConcatListed
  <2>5. /\ p' \in [Threads -> Seq(Req)]
        /\ p'[t] = <<>>
        /\ \A u \in Threads : u # t => p'[u] = p[u]
    BY <1>1, <2>2, EmptySeq
  <2>6. Met' = Met
    BY <1>1 DEF Met, Firsts, Undone
  <2>7. MeetInv'
    <3>1. ASSUME NEW u \in Threads
          PROVE  NoRepeats(p'[u]) /\ Listed(living_req') \cap Listed(p'[u]) = {}
      <4>1. CASE u = t
        BY <2>5, <4>1, EmptyListed
      <4>2. CASE u # t
        BY <2>1, <2>4, <2>5, <4>2 DEF MeetInv
      <4> QED
        BY <4>1, <4>2
    <3>2. ASSUME NEW u \in Threads, NEW s \in Threads, u # s
          PROVE  Listed(p'[u]) \cap Listed(p'[s]) = {}
      <4>1. CASE u = t \/ s = t
        BY <2>5, <4>1, EmptyListed
      <4>2. CASE u # t /\ s # t
        BY <2>1, <2>5, <3>2, <4>2 DEF MeetInv
      <4> QED
        BY <4>1, <4>2
    <3>3. Met' = Listed(living_req') \cup UNION {Listed(p'[u]) : u \in Threads}
      <4>1. Listed(p'[t]) = {}
        BY <2>5, EmptyListed
      <4>2. \A x : (\E u \in Threads : x \in Listed(p[u])) <=>
                      x \in Listed(p[t]) \/ (\E u \in Threads : x \in Listed(p'[u]))
        BY <2>5, <4>1
      <4>3. Met = Listed(living_req) \cup UNION {Listed(p[u]) : u \in Threads}
        BY <2>1 DEF MeetInv
      <4> QED
        BY <2>4, <2>6, <4>2, <4>3
    <3> QED
      BY <2>4, <2>5, <3>1, <3>2, <3>3 DEF MeetInv
  <2>8. CriticalInv'
    <3>1. \A u \in Threads : u # t => stage'[u] = stage[u] /\ stage[u] # "critical"
      BY <1>1, <1>2, <2>1 DEF CriticalInv
    <3>2. stage'[t] = "end"
      BY <1>1, <1>2
    <3> QED
      BY <1>1, <2>1, <2>5, <3>1, <3>2 DEF CriticalInv
  <2> QED
    BY <2>7, <2>8
<1> QED
  BY <1>1, <1>2, <1>3 DEF HandOverInv, SurvivorsComplete

LEMMA JoinMeetsAll ==
    ASSUME HandOverInv, Join
    PROVE  HandOverInv'
<1>1. /\ phase = "loop" /\ phase' = "compact"
      /\ UNCHANGED <<reqs, wants_living, living_req>>
      /\ living_req_priv' = [t \in Threads |-> <<>>]
      /\ stage' = [t \in Threads |-> "loop"]
      /\ inserts_at' = [t \in Threads |-> 0]
      /\ \A t \in Threads : todo[t] = {}
      /\ wants_living => \A t \in Threads : stage[t] = "end"
  BY DEF Join, AtBarrier, NoThreads
<1>2. ASSUME wants_living
      PROVE  /\ living_req \in Seq(Req)
             /\ NoRepeats(living_req)
             /\ Listed(living_req) = {reqs[i - 1] : i \in {j \in Firsts : j > 1}}
  <2>1. MeetInv /\ CriticalInv
    BY <1>1, <1>2 DEF HandOverInv
  <2>2. \A t \in Threads : Listed(living_req_priv[t]) = {}
    BY <1>1, <1>2, <2>1, EmptyListed DEF CriticalInv
  <2>3. Met = Listed(living_req)
    BY <2>1, <2>2 DEF MeetInv
  <2>4. Firsts \ Undone = Firsts
    BY <1>1 DEF Undone
  <2> QED
    BY <2>1, <2>3, <2>4 DEF MeetInv, Met
<1> QED
  BY <1>1, <1>2 DEF HandOverInv, SurvivorsComplete, Firsts

\* The last element of the sorted vector is the survivor nobody has met.
LEMMA FinishCompletes ==
    ASSUME PopulateInv, HandOverInv, Finish
    PROVE  HandOverInv'
<1> DEFINE n == Len(reqs)
           a == Append(living_req, reqs[n])
           inner == {reqs[i - 1] : i \in {j \in Firsts : j > 1}}
<1>1. /\ phase = "compact" /\ phase' = "return"
      /\ UNCHANGED <<reqs, wants_living, living_req_priv, stage, inserts_at>>
      /\ wants_living =>
            living_req' = SortedBy(a, LAMBDA left, right : left.access_number < right.access_number)
  BY DEF Finish, loopVars
<1>2. CallInv /\ n \in Nat /\ n >= 1
  <2>1. CallInv
    BY <1>1 DEF PopulateInv
  <2> QED
    BY <2>1, RequestsOfCall DEF CallInv
<1>3. ASSUME wants_living
      PROVE  living_req' \in ByAccessNumber(Survivors(reqs))
  <2>1. /\ living_req \in Seq(Req) /\ NoRepeats(living_req)
        /\ Listed(living_req) = inner
    BY <1>1, <1>3 DEF HandOverInv
  <2>2. /\ reqs[n] \in Req
        /\ \A i, j \in 1..n : reqs[i] = reqs[j] => i = j
    BY <1>2, RequestsOfCall
  <2>3. reqs[n] \notin inner
    <3> SUFFICES ASSUME NEW i \in Firsts, i > 1, reqs[n] = reqs[i - 1] PROVE FALSE
      OBVIOUS
    <3>1. i \in 1..n /\ i - 1 \in 1..n /\ n \in 1..n /\ i - 1 # n
      BY <1>2 DEF Firsts
    <3> QED
      BY <2>2, <3>1
  <2>4. inner \cup {reqs[n]} = Survivors(reqs)
    <3>1. ASSUME NEW i \in Firsts, i > 1 PROVE reqs[i - 1] \in Survivors(reqs)
      <4>1. i - 1 \in 1..n /\ ~FollowsSameAddr(reqs, (i - 1) + 1)
        BY <1>2, <3>1 DEF Firsts
      <4> QED
        BY <4>1 DEF Survivors
    <3>2. reqs[n] \in Survivors(reqs)
      BY <1>2 DEF Survivors
    <3>3. ASSUME NEW j \in 1..n, j = n \/ ~FollowsSameAddr(reqs, j + 1), j # n
          PROVE  reqs[j] \in inner
      <4>1. j + 1 \in Firsts /\ j + 1 > 1 /\ (j + 1) - 1 = j
        BY <1>2, <3>3 DEF Firsts
      <4> HIDE DEF n
      <4> QED
        BY <4>1
    <3> QED
      BY <3>1, <3>2, <3>3 DEF Survivors
  <2> HIDE DEF n, inner
  <2>5. a \in Seq(Req) /\ NoRepeats(a) /\ Listed(a) = Survivors(reqs)
    <3>1. reqs[n] \notin Listed(living_req)
      BY <2>1, <2>3
    <3>2. /\ a \in Seq(Req) /\ NoRepeats(a)
          /\ Listed(a) = Listed(living_req) \cup {reqs[n]}
      BY <2>1, <2>2, <3>1, AppendListed
    <3> QED
      BY <2>1, <2>4, <3>2
  <2> DEFINE S == Survivors(reqs)
             c == Len(a)
  <2>6. DistinctNumbers(a)
    <3>1. \A r, q \in S : r.access_number = q.access_number => r = q
      <4>1. \A i, j \in 1..n : reqs[i].access_number = reqs[j].access_number => i = j
        BY <1>2 DEF CallInv, Log, DistinctNumbers, n
      <4>2. \A r \in S : \E i \in 1..n : r = reqs[i]
        BY DEF Survivors, n
      <4> QED
        BY <4>1, <4>2
    <3>2. \A k \in 1..Len(a) : a[k] \in S
      BY <2>5 DEF Listed
    <3> QED
      BY <2>5, <3>1, <3>2 DEF NoRepeats, DistinctNumbers
  <2>7. c \in Nat /\ c = Cardinality(S)
    <3>1. c \in Nat
      BY <2>5, LenProperties
    <3> DEFINE f == [k \in 1..c |-> a[k]]
    <3>2. f \in Bijection(1..c, S)
      <4>1. \A k \in 1..c : f[k] = a[k] /\ f[k] \in S
        BY <2>5 DEF Listed
      <4>2. \A j, k \in 1..c : f[j] = f[k] => j = k
        BY <2>5 DEF NoRepeats
      <4>3. \A x \in S : \E k \in 1..c : f[k] = x
        BY <2>5 DEF Listed
      <4>4. f \in [1..c -> S]
        BY <4>1
      <4> HIDE DEF f, c, S
      <4> QED
        BY <4>2, <4>3, <4>4 DEF Bijection, Injection, Surjection, IsInjective
    <3>3. IsFiniteSet(1..c) /\ Cardinality(1..c) = c
      BY <3>1, FS_Interval
    <3>4. Cardinality(S) = Cardinality(1..c)
      <4> HIDE DEF f, c, S
      <4>1. ExistsBijection(1..c, S)
        BY <3>2 DEF ExistsBijection
      <4> QED
        BY <3>3, <4>1, FS_Bijection
    <3> QED
      BY <3>1, <3>3, <3>4
  <2> DEFINE w == SortedBy(a, LAMBDA left, right : left.access_number < right.access_number)
  <2>8. /\ w \in [1..Len(a) -> {a[k] : k \in 1..Len(a)}]
        /\ \A m, l \in 1..Len(a) : m < l => w[m].access_number < w[l].access_number
    <3>1. \A r \in Req : r.access_number \in Nat
      BY DEF Req
    <3> HIDE DEF a
    <3> QED
      BY <2>5, <2>6, <3>1, SortedByNumber
  <2>9. {a[k] : k \in 1..Len(a)} = S
    BY <2>5 DEF Listed
  <2>10. w \in [1..Cardinality(S) -> S]
    BY <2>7, <2>8, <2>9
  <2>11. living_req' = w
    BY <1>1, <1>3
  <2> HIDE DEF w, a
  <2> QED
    BY <2>7, <2>8, <2>10, <2>11 DEF ByAccessNumber
<1> QED
  BY <1>1, <1>3 DEF HandOverInv, SurvivorsComplete

LEMMA SameHandOver ==
    ASSUME HandOverInv,
           UNCHANGED <<phase, reqs, wants_living, living_req, todo, living_req_priv,
                       stage, inserts_at>>
    PROVE  HandOverInv'
<1>1. UNCHANGED <<Met, Firsts>>
  BY DEF Met, Firsts, Undone
<1>2. (MeetInv => MeetInv') /\ (CriticalInv => CriticalInv')
  BY <1>1 DEF MeetInv, CriticalInv
<1> QED
  BY <1>1, <1>2 DEF HandOverInv, SurvivorsComplete

LEMMA HandOverInvInductive ==
    /\ ThreadedInit => HandOverInv
    /\ ThreadedInv /\ HandOverInv /\ [ThreadedNext]_threadedVars => HandOverInv'
<1>1. ThreadedInit => HandOverInv
  BY DEF ThreadedInit, PopulateInit, HandOverInv, SurvivorsComplete
<1>2. ASSUME ThreadedInv, HandOverInv, [ThreadedNext]_threadedVars PROVE HandOverInv'
  <2>1. LogInv /\ PopulateInv
    BY <1>2 DEF ThreadedInv
  <2>2. UNCHANGED populateVars => HandOverInv'
    BY <1>2, SameHandOver DEF populateVars, loopVars, compactVars
  <2>3. ASSUME NEW v, Log(v), Len(v) <= MaxAccesses, NEW wants, Call(v, wants)
        PROVE  HandOverInv'
    BY <1>2, <2>3, CallMeetsNone
  <2>4. CASE \E addr \in Addr : Access(addr)
    BY <2>2, <2>4 DEF Access
  <2>5. CASE CallGetSuccessFunction
    BY <2>1, <2>3, <2>5 DEF CallGetSuccessFunction, LogInv
  <2>6. CASE \E n \in 1..MaxAccesses : \E addrs \in [1..n -> Addr] : CallProcessChunk(addrs)
    BY <2>3, <2>6, ChunkIsLog
  <2>7. CASE Step
    <3>1. CASE CompactStep
      <4>1. /\ UNCHANGED <<phase, reqs, wants_living, living_req, todo, living_req_priv,
                           stage, inserts_at>>
        BY <3>1 DEF CompactStep, loopVars
      <4> QED
        BY <1>2, <4>1, SameHandOver
    <3> QED
      BY <1>2, <2>1, <2>7, <3>1, IterateMeets, EnterCriticalMeets, LeaveCriticalMeets,
         JoinMeetsAll, FinishCompletes DEF Step, PopulateStep
  <2>8. CASE EndCall
    BY <1>2, <2>8 DEF EndCall, Return, HandOverInv, SurvivorsComplete, loopVars
  <2>9. CASE UNCHANGED threadedVars
    BY <2>2, <2>9 DEF threadedVars
  <2> QED
    BY <1>2, <2>4, <2>5, <2>6, <2>7, <2>8, <2>9 DEF ThreadedNext
<1> QED
  BY <1>1, <1>2

\* No survivor is lost in the critical section, and none comes twice: BoundedIAF
\* gets the last request of every address, by access number.
THEOREM ThreadsHandOverSurvivors == ThreadedSpec => []SurvivorsComplete
<1>1. HandOverInv => SurvivorsComplete
  BY DEF HandOverInv
<1> QED
  BY <1>1, ThreadedInvInductive, HandOverInvInductive, PTL DEF ThreadedSpec

-----------------------------------------------------------------------------
(* Increment-and-Freeze implements LRU caches of all sizes                 *)

\* The caches, their hits and the last report, read from the variables.
Caches == [x \in 1..MaxSize |-> TopOfStack(requests, x)]
CacheHits == [x \in 1..MaxSize |-> HitsWithSize(TraceOf(requests), x)]
Reported == [x \in 1..MaxSize |-> HitsOfSize(success, x)]

LEMMA SizesArePositive == \A x \in 1..MaxSize : x \in Nat \ {0}
BY MaxSizeAssumption

LEMMA StartIsLRU == Init => LRU!Init
<1> SUFFICES ASSUME Init PROVE LRU!Init
  OBVIOUS
<1>1. requests = <<>> /\ success = <<>>
  BY DEF Init
<1>2. ASSUME NEW x \in 1..MaxSize
      PROVE  /\ TopOfStack(requests, x) = <<>>
             /\ HitsWithSize(TraceOf(requests), x) = 0
             /\ HitsOfSize(success, x) = 0
  BY <1>1, SizesArePositive, NoAccesses DEF HitsOfSize
<1> QED
  BY <1>2 DEF LRU!Init, LRU!Sizes

LEMMA AccessIsLRU ==
    ASSUME LogInv, NEW addr \in Addr, MemoryAccess(addr)
    PROVE  LRU!Access(addr)
<1>1. Log(requests) /\ addr \in Nat
  BY AddrAssumption DEF LogInv
<1>2. /\ requests' = Append(requests, [addr |-> addr, access_number |-> Len(requests) + 1])
      /\ success' = success
  BY DEF MemoryAccess
<1>3. ASSUME NEW x \in 1..MaxSize
      PROVE  /\ TopOfStack(requests', x) = LRU!Touch(TopOfStack(requests, x), addr, x)
             /\ HitsWithSize(TraceOf(requests'), x) = HitsWithSize(TraceOf(requests), x) +
                  (IF LRU!Holds(TopOfStack(requests, x), addr) THEN 1 ELSE 0)
  <2>1. x \in Nat \ {0}
    BY SizesArePositive
  <2>2. \A c : /\ LRU!Touch(c, addr, x) = Touch(c, addr, x)
               /\ LRU!Holds(c, addr) <=> Holds(c, addr)
    BY DEF LRU!Touch, LRU!Holds, Touch, Holds
  <2> QED
    BY <1>1, <1>2, <2>1, <2>2, AccessIsTouch
<1>4. Caches' = [x \in LRU!Sizes |-> LRU!Touch(Caches[x], addr, x)]
  BY <1>3 DEF LRU!Sizes, Caches
<1>5. CacheHits' = [x \in LRU!Sizes |->
                       CacheHits[x] + (IF LRU!Holds(Caches[x], addr) THEN 1 ELSE 0)]
  BY <1>3 DEF LRU!Sizes, CacheHits, Caches
<1>6. Reported' = Reported
  BY <1>2 DEF Reported
<1> QED
  BY <1>4, <1>5, <1>6 DEF LRU!Access, Caches, CacheHits, Reported

\* The log may be sorted at any time: the caches are those of its trace.
LEMMA SortingIsNoAccess ==
    ASSUME Log(requests), requests' = SortedRequests(requests)
    PROVE  UNCHANGED <<Caches, CacheHits>>
<1>1. TraceOf(requests') = TraceOf(requests)
  BY SortedTrace
<1>2. ASSUME NEW x \in 1..MaxSize PROVE TopOfStack(requests', x) = TopOfStack(requests, x)
  <2>1. Len(TraceOf(requests)) \in Nat /\ Len(TraceOf(requests')) \in Nat
    BY <1>1, TraceOfLog, LogElements
  <2> QED
    BY <1>1, <2>1, TopOfStackIsFront, SizesArePositive
<1> QED
  BY <1>1, <1>2 DEF Caches, CacheHits

\* What a call computes from the sorted log is the hits of the caches.
LEMMA ReportIsHits ==
    ASSUME NEW v, Log(v), Sorted(v)
    PROVE  \A x \in 1..MaxSize :
              HitsOfSize(PrefixSums(UpdatedHits(<<>>, v)), x) = HitsWithSize(TraceOf(v), x)
<1> SUFFICES ASSUME NEW x \in 1..MaxSize
             PROVE  HitsOfSize(PrefixSums(UpdatedHits(<<>>, v)), x) = HitsWithSize(TraceOf(v), x)
  OBVIOUS
<1>1. x \in Nat \ {0}
  BY SizesArePositive
<1>2. HitsOfSize(PrefixSums(UpdatedHits(<<>>, v)), x) =
         HitsOfSize(PrefixSums(<<>>), x) + HitsWithSize(TraceOf(v), x)
  BY <1>1, NoHits, SuccessOfLog
<1>3. HitsOfSize(PrefixSums(<<>>), x) = 0
  BY <1>1, NoHits
<1>4. HitsWithSize(TraceOf(v), x) \in Nat
  BY TraceOfLog, HitsNumber
<1> QED
  BY <1>2, <1>3, <1>4

LEMMA ReportIsLRU ==
    ASSUME Log(requests), requests' = SortedRequests(requests),
           success' = PrefixSums(UpdatedHits(<<>>, SortedRequests(requests)))
    PROVE  LRU!Report
<1> DEFINE v == SortedRequests(requests)
<1>1. Log(v) /\ Sorted(v) /\ TraceOf(v) = TraceOf(requests)
  BY SortedLog, SortedTrace DEF Sorted
<1> HIDE DEF v
<1>2. success' = PrefixSums(UpdatedHits(<<>>, v))
  BY DEF v
<1>3. \A x \in 1..MaxSize : HitsOfSize(success', x) = HitsWithSize(TraceOf(requests), x)
  BY <1>1, <1>2, ReportIsHits
<1>4. Reported' = CacheHits
  BY <1>3 DEF Reported, CacheHits
<1> QED
  BY <1>4, SortingIsNoAccess DEF LRU!Report, Caches, CacheHits, Reported

LEMMA NothingIsLRU ==
    ASSUME UNCHANGED <<requests, success>>
    PROVE  UNCHANGED LRU!lruVars
BY DEF LRU!lruVars

\* Increment-and-Freeze is right, for every set of addresses, every log and every
\* cache size: each report, in the middle of a trace or again for the same one, is
\* the number of hits of LRU caches that were kept all the time.
THEOREM IncrementAndFreezeIsLRU == Spec => ImplementsLRU
<1>1. ASSUME LogInv, [Next]_vars PROVE LogInv' /\ [LRU!Next]_LRU!lruVars
  <2>1. CASE \E addr \in Addr : MemoryAccess(addr)
    BY <1>1, <2>1, LogInvAccess, AccessIsLRU DEF LRU!Next
  <2>2. CASE GetSuccessFunction
    <3>1. LogInv'
      BY <1>1, <2>2, SortedLog DEF GetSuccessFunction, LogInv
    <3>2. LRU!Report
      BY <1>1, <2>2, ReportIsLRU DEF GetSuccessFunction, LogInv
    <3> QED
      BY <3>1, <3>2 DEF LRU!Next
  <2>3. CASE UNCHANGED vars
    BY <1>1, <2>3, NothingIsLRU DEF vars, LogInv
  <2> QED
    BY <1>1, <2>1, <2>2, <2>3 DEF Next
<1> QED
  BY <1>1, LogInvInit, StartIsLRU, PTL DEF Spec, ImplementsLRU, LRU!Spec

\* During the call of a program the log is sorted.
SortedInv == caller = "program" /\ phase # "idle" => Sorted(requests)

LEMMA SortedInvInductive ==
    /\ ThreadedInit => SortedInv
    /\ LogInv /\ SortedInv /\ [ThreadedNext]_threadedVars => SortedInv'
<1>1. ThreadedInit => SortedInv
  BY DEF ThreadedInit, PopulateInit, SortedInv
<1>2. ASSUME LogInv, SortedInv, [ThreadedNext]_threadedVars PROVE SortedInv'
  <2>1. CASE \E addr \in Addr : Access(addr)
    BY <2>1 DEF Access, populateVars, SortedInv
  <2>2. CASE CallGetSuccessFunction
    <3>1. requests' = SortedRequests(requests)
      BY <2>2 DEF CallGetSuccessFunction, Call
    <3>2. Sorted(requests')
      BY <1>2, <3>1, SortedLog DEF LogInv, Sorted
    <3> QED
      BY <3>2 DEF SortedInv
  <2>3. CASE \E n \in 1..MaxAccesses : \E addrs \in [1..n -> Addr] : CallProcessChunk(addrs)
    BY <2>3 DEF CallProcessChunk, SortedInv
  <2>4. CASE Step
    <3>1. requests' = requests /\ caller' = caller /\ phase # "idle"
      BY <2>4, StepKeepsCall DEF vars
    <3>2. caller = "program" => Sorted(requests')
      BY <1>2, <3>1 DEF SortedInv
    <3> QED
      BY <3>1, <3>2 DEF SortedInv
  <2>5. CASE EndCall
    BY <2>5 DEF EndCall, Return, SortedInv
  <2>6. CASE UNCHANGED threadedVars
    <3>1. requests' = requests /\ caller' = caller /\ phase' = phase
      BY <2>6 DEF threadedVars, vars, populateVars
    <3>2. Sorted(requests') <=> Sorted(requests)
      BY <3>1
    <3> QED
      BY <1>2, <3>1, <3>2 DEF SortedInv
  <2> QED
    BY <1>2, <2>1, <2>2, <2>3, <2>4, <2>5, <2>6 DEF ThreadedNext
<1> QED
  BY <1>1, <1>2

\* What a program is told at the end of a call is what the caches have hit.
LEMMA EndCallIsReport ==
    ASSUME LogInv, SortedInv, OperationsBuilt, UniqueIdsAddUp, WaitingInv, EndCall,
           caller = "program"
    PROVE  LRU!Report
<1>1. /\ phase = "return" /\ requests' = requests
      /\ success' = PrefixSums(HitsOfOperations(<<>>, Decoded(operations), unique_ids))
  BY DEF EndCall, Return
<1>2. Log(requests) /\ Sorted(requests) /\ requests = reqs
  BY <1>1 DEF LogInv, SortedInv, WaitingInv
<1>3. Decoded(operations) = PopulateOperations(reqs) /\ unique_ids = UniqueIds(reqs)
  BY <1>1 DEF OperationsBuilt, UniqueIdsAddUp
<1>4. success' = PrefixSums(UpdatedHits(<<>>, requests))
  BY <1>1, <1>2, <1>3 DEF UpdatedHits
<1>5. \A x \in 1..MaxSize : HitsOfSize(success', x) = HitsWithSize(TraceOf(requests), x)
  BY <1>2, <1>4, ReportIsHits
<1>6. Reported' = CacheHits
  BY <1>5 DEF Reported, CacheHits
<1>7. Caches' = Caches /\ CacheHits' = CacheHits
  BY <1>1 DEF Caches, CacheHits
<1> QED
  BY <1>6, <1>7 DEF LRU!Report, Caches, CacheHits, Reported

\* The same of the threads: whatever their number, the sharing of the loop and the
\* order of the steps, a program is told the hits of LRU caches of all sizes.
THEOREM ThreadsImplementLRU == ThreadedSpec => ImplementsLRU
<1>1. ASSUME ThreadedInv, CountInv, WaitingInv, SortedInv, [ThreadedNext]_threadedVars
      PROVE  [LRU!Next]_LRU!lruVars
  <2>0. LogInv /\ OperationsBuilt /\ UniqueIdsAddUp
    BY <1>1 DEF ThreadedInv, PopulateInv, CountInv
  <2>1. CASE \E addr \in Addr : Access(addr)
    BY <2>0, <2>1, AccessIsLRU DEF Access, LRU!Next
  <2>2. CASE CallGetSuccessFunction
    <3>1. /\ Log(requests) /\ requests' = SortedRequests(requests)
          /\ success' = success
      BY <2>0, <2>2 DEF CallGetSuccessFunction, Call, LogInv
    <3>2. UNCHANGED <<Caches, CacheHits, Reported>>
      BY <3>1, SortingIsNoAccess DEF Reported
    <3> QED
      BY <3>2 DEF LRU!lruVars, Caches, CacheHits, Reported
  <2>3. CASE \E n \in 1..MaxAccesses : \E addrs \in [1..n -> Addr] : CallProcessChunk(addrs)
    BY <2>3, NothingIsLRU DEF CallProcessChunk, vars
  <2>4. CASE Step
    BY <2>4, NothingIsLRU DEF Step, vars
  <2>5. CASE EndCall
    <3>1. CASE caller = "program"
      BY <1>1, <2>0, <2>5, <3>1, EndCallIsReport DEF LRU!Next
    <3>2. CASE caller # "program"
      BY <2>5, <3>2, NothingIsLRU DEF EndCall
    <3> QED
      BY <3>1, <3>2
  <2>6. CASE UNCHANGED threadedVars
    BY <2>6, NothingIsLRU DEF threadedVars, vars
  <2> QED
    BY <1>1, <2>1, <2>2, <2>3, <2>4, <2>5, <2>6 DEF ThreadedNext
<1>2. ThreadedInv => LogInv
  BY DEF ThreadedInv
<1>3. ThreadedInit => LRU!Init
  BY StartIsLRU DEF ThreadedInit
<1> QED
  BY <1>1, <1>2, <1>3, ThreadedInvInductive, CountInvInductive, WaitingInvInductive,
     SortedInvInductive, PTL DEF ThreadedSpec, ImplementsLRU, LRU!Spec

=============================================================================
