--------------------------- MODULE ProjectionsProofs ---------------------------
(***************************************************************************)
(* Proofs about Projections for every number of requests, branching, size  *)
(* of the base case and width of the int indexes: unfinished tasks own     *)
(* disjoint ranges of requests and disjoint slots of the shared vector,    *)
(* and no step of one changes an operation of another.                     *)
(*                                                                         *)
(* First come the ranges.  The argument needs no distances, only that a    *)
(* partition frees at least as many slots as operations wait in its        *)
(* scratch spaces, that freed slots hold Nulls, and that the first slot of *)
(* a task always does, so that the boundary is never found there.          *)
(*                                                                         *)
(* Then, that the parallel recursion computes the histogram of stack       *)
(* distances, for every trace, branching, size of the base case and        *)
(* interleaving, as long as the int indexes of PartitionState can hold the *)
(* number of operations.  A Postfix is due to freeze one distance, that of *)
(* the next access of its request.  The invariant says of every Postfix,   *)
(* wherever it is, that it still will: what the operations before it add   *)
(* to the distance of its target, those in the same scratch space and the  *)
(* amounts that this space has not seen yet included, is its due.  A side  *)
(* of a partition can forget the operations before it because they add     *)
(* nothing to requests behind them: what the Postfix of an access adds     *)
(* there the -1 of its Prefix takes back.                                  *)
(***************************************************************************)
EXTENDS Projections, HitsVectorProofs

-----------------------------------------------------------------------------
(* Scratch spaces                                                          *)

\* An operation that begins to wait.
LEMMA StackPushed ==
    ASSUME NEW q, IsStack(q), NEW a, IsOp(a), NEW b, IsOp(b)
    PROVE  LET r == Front(q) \o <<a, b>>
           IN  /\ IsStack(r)
               /\ Len(r) = Len(q) + 1
               /\ \A j \in 1..(Len(q) + 1) : r[j] = IF j <= Len(q) - 1 THEN q[j]
                                                  ELSE IF j = Len(q) THEN a ELSE b
<1> DEFINE T == {q[j] : j \in 1..Len(q)} \cup {a, b}
           n == Len(q)
           r == Front(q) \o <<a, b>>
<1>1. q \in Seq(T) /\ n \in Nat \ {0}
  <2>1. n \in Nat \ {0} /\ q \in Seq({q[j] : j \in 1..n})
    BY DEF IsStack
  <2>2. \A j \in 1..n : q[j] \in T
    OBVIOUS
  <2>3. DOMAIN q = 1..n
    BY <2>1, LenProperties
  <2>4. q = [j \in 1..n |-> q[j]]
    BY <2>1, <2>3
  <2> HIDE DEF T
  <2>5. q \in [1..n -> T]
    BY <2>2, <2>4
  <2> QED
    BY <2>1, <2>5
<1>2. a \in T /\ b \in T
  OBVIOUS
<1> HIDE DEF T
<1>3. /\ Front(q) \in Seq(T) /\ Len(Front(q)) = n - 1
      /\ \A j \in 1..(n - 1) : Front(q)[j] = q[j]
  <2>1. \A j \in 1..(n - 1) : q[j] \in T
    BY <1>1
  <2>2. 1 \in Int /\ n - 1 \in Int
    BY <1>1
  <2> HIDE DEF n
  <2>3. /\ SubSeq(q, 1, n - 1) \in Seq(T)
        /\ Len(SubSeq(q, 1, n - 1)) = IF 1 <= n - 1 THEN n - 1 - 1 + 1 ELSE 0
        /\ \A j \in 1..(n - 1 - 1 + 1) : SubSeq(q, 1, n - 1)[j] = q[1 + j - 1]
    BY <2>1, <2>2, SubSeqProperties
  <2>4. Front(q) = SubSeq(q, 1, n - 1)
    BY DEF Front, n
  <2> QED
    BY <1>1, <2>3, <2>4
<1>4. /\ <<a, b>> \in Seq(T) /\ Len(<<a, b>>) = 2
      /\ <<a, b>>[1] = a /\ <<a, b>>[2] = b
  BY <1>2
<1>5. /\ r \in Seq(T) /\ Len(r) = n + 1
      /\ \A j \in 1..(n + 1) : r[j] = IF j <= n - 1 THEN q[j]
                                      ELSE IF j = n THEN a ELSE b
  BY <1>1, <1>3, <1>4, ConcatProperties
<1>6. \A j \in 1..(n + 1) : IsOp(r[j])
  <2>1. \A j \in 1..n : IsOp(q[j])
    BY DEF IsStack
  <2>2. \A j \in 1..(n + 1) : j <= n - 1 => j \in 1..n
    BY <1>1
  <2> HIDE DEF r, n
  <2> QED
    BY <1>5, <2>1, <2>2
<1>7. r \in Seq({r[j] : j \in 1..Len(r)})
  <2>1. DOMAIN r = 1..Len(r) /\ Len(r) \in Nat
    BY <1>1, <1>5, LenProperties
  <2>2. r = [j \in 1..Len(r) |-> r[j]]
    BY <1>5, <2>1
  <2> HIDE DEF r
  <2>3. r \in [1..Len(r) -> {r[j] : j \in 1..Len(r)}]
    BY <2>2
  <2> QED
    BY <2>1, <2>3
<1>8. Len(r) \in Nat \ {0} /\ \A j \in 1..Len(r) : IsOp(r[j])
  BY <1>1, <1>5, <1>6
<1> HIDE DEF r
<1>9. IsStack(r)
  BY <1>7, <1>8 DEF IsStack
<1> QED
  BY <1>5, <1>9 DEF r

-----------------------------------------------------------------------------
(* Tasks                                                                   *)

ProjSequences == [start : Nat \ {0}, end : Nat, base : Nat, num_ops : Nat \ {0}]

\* Where the partitions end that are left when n of them are.
EndAt(sp, n) ==
    (sp.last * sp.num_partitions - (sp.num_partitions - n) * sp.dist) \div sp.num_partitions

\* The range of a task that splits, between its partitions.
RangeInv(t) ==
    /\ t.split.last \in Nat
    /\ t.split.dist \in Nat
    /\ t.split.num_partitions \in 2..t.split.dist
    /\ t.split.num_partitions <= Branching
    /\ t.split.i \in 1..(t.split.num_partitions - 1)
    /\ t.split.last - t.split.dist + 1 = t.seq.start
    /\ t.seq.end = EndAt(t.split, t.split.i + 1)

\* The state of the loop of partition(): what waits fits into the slots behind
\* cur_idx, which hold Nulls.
LoopInv(t, ops) ==
    LET st == t.split.state
        n == t.split.i
    IN  /\ st.cur_idx \in Int
        /\ st.merge_into_idx \in Int
        /\ st.merge_into_idx < t.seq.num_ops
        /\ \A p \in 0..(n - 1) : p \in DOMAIN st.scratch /\ IsStack(st.scratch[p])
        /\ IsFiniteSet(Waiting(st.scratch, n))
        /\ st.cur_idx + Cardinality(Waiting(st.scratch, n))
              + (IF t.pc = "split" THEN 1 ELSE 0) <= st.merge_into_idx
        /\ t.pc = "split" => st.cur_idx >= 0
        /\ \A k \in 0..st.merge_into_idx :
              k > st.cur_idx => IsNull(ops[t.seq.base + k])

\* The fields of a task and of its partitioning.
TaskFields == {"pc", "seq", "split", "local"}

SplitFields == {"dist", "num_partitions", "last", "i", "state"}

StateFields == {"incr_array", "all_full_incr", "scratch", "merge_into_idx", "cur_idx"}

Shaped(t) == DOMAIN t.split = SplitFields /\ DOMAIN t.split.state = StateFields

TaskInv(t, ops) ==
    /\ DOMAIN t = TaskFields
    /\ t.pc \in {"do_projections", "partition", "split", "base_case"}
    /\ t.seq \in ProjSequences
    /\ t.seq.start <= t.seq.end
    /\ Region(t) \subseteq DOMAIN ops
    /\ IsNull(ops[t.seq.base])
    /\ t.pc \in {"partition", "split"} => Shaped(t) /\ RangeInv(t) /\ LoopInv(t, ops)

\* It is only the task's own slots that matter to it.
LEMMA TaskInvFrame ==
    ASSUME NEW t, NEW ops, NEW ops2, TaskInv(t, ops),
           DOMAIN ops2 = DOMAIN ops,
           \A k \in Region(t) : ops2[k] = ops[k]
    PROVE  TaskInv(t, ops2)
<1>1. t.seq.base \in Nat /\ t.seq.num_ops \in Nat \ {0}
  BY DEF TaskInv, ProjSequences
<1>2. \A k \in 0..(t.seq.num_ops - 1) : ops2[t.seq.base + k] = ops[t.seq.base + k]
  BY <1>1 DEF Region
<1>3. ops2[t.seq.base] = ops[t.seq.base]
  BY <1>1 DEF Region
<1>4. ASSUME LoopInv(t, ops) PROVE LoopInv(t, ops2)
  <2>1. \A k \in 0..t.split.state.merge_into_idx : k \in 0..(t.seq.num_ops - 1)
    BY <1>1, <1>4 DEF LoopInv
  <2> QED
    BY <1>2, <1>4, <2>1 DEF LoopInv
<1> QED
  BY <1>3, <1>4 DEF TaskInv

-----------------------------------------------------------------------------
(* Where a range is split                                                  *)

\* What the quotient by b says of a number.
LEMMA Quotient ==
    ASSUME NEW a \in Int, NEW b \in Nat \ {0}
    PROVE  /\ a \div b \in Int
           /\ b * (a \div b) <= a
           /\ a < b * (a \div b) + b
OBVIOUS

LEMMA CancelFactor ==
    ASSUME NEW b \in Nat \ {0}, NEW x \in Int, NEW y \in Int, b * x < b * y + b
    PROVE  x <= y
<1> SUFFICES ASSUME x >= y + 1 PROVE FALSE
  OBVIOUS
<1>1. b * x = b * (y + 1) + b * (x - (y + 1))
  OBVIOUS
<1>2. b * (x - (y + 1)) >= 0
  OBVIOUS
<1>3. b * (y + 1) = b * y + b
  OBVIOUS
<1>4. b * x \in Int /\ b * y \in Int
  OBVIOUS
<1> QED
  BY <1>1, <1>2, <1>3, <1>4

\* Every partition has a request: the ends increase from the first one on.
LEMMA EndsIncrease ==
    ASSUME NEW t, RangeInv(t), t.seq.start \in Nat \ {0}
    PROVE  /\ LeftEnd(t) = EndAt(t.split, t.split.i)
           /\ LeftEnd(t) \in Nat
           /\ t.seq.start <= LeftEnd(t)
           /\ LeftEnd(t) < t.seq.end
<1> DEFINE last == t.split.last
           dist == t.split.dist
           np == t.split.num_partitions
           i == t.split.i
           first == t.seq.start
           a == last * np - (np - i) * dist
           c == last * np - (np - (i + 1)) * dist
<1>1. LeftEnd(t) = a \div np /\ t.seq.end = c \div np /\ LeftEnd(t) = EndAt(t.split, i)
  BY DEF LeftEnd, EndAt, RangeInv
<1>2. /\ last \in Nat /\ dist \in Nat /\ np \in Nat \ {0} /\ i \in Nat
      /\ np <= dist /\ 1 <= i /\ first \in Nat \ {0}
      /\ last - dist + 1 = first
  BY DEF RangeInv
<1> HIDE DEF last, dist, np, i, first
<1>3. a \in Int /\ c \in Int /\ c = a + dist
  <2>1. last * np \in Int /\ (np - i) * dist \in Int /\ (np - (i + 1)) * dist \in Int
    BY <1>2
  <2>2. (np - (i + 1)) * dist = (np - i) * dist - dist
    BY <1>2
  <2> QED
    BY <1>2, <2>1, <2>2
<1>4. a >= np * first
  <2>1. a = np * (last - dist) + i * dist
    BY <1>2
  <2>2. i * dist >= dist
    BY <1>2
  <2>3. np * (last - dist) + np = np * first
    BY <1>2
  <2>4. np * (last - dist) \in Int /\ i * dist \in Int /\ np * first \in Int
    BY <1>2
  <2> HIDE DEF a
  <2> QED
    BY <1>2, <2>1, <2>2, <2>3, <2>4
<1> HIDE DEF a, c
<1> DEFINE x == a \div np
           y == c \div np
<1>5. /\ x \in Int /\ np * x <= a /\ a < np * x + np
      /\ y \in Int /\ np * y <= c /\ c < np * y + np
  BY <1>2, <1>3, Quotient
<1> HIDE DEF x, y
<1>6. first <= x
  <2>1. np * first < np * x + np
    <3>1. np * first \in Int /\ np * x \in Int
      BY <1>2, <1>5
    <3> QED
      BY <1>2, <1>3, <1>4, <1>5, <3>1
  <2> QED
    BY <1>2, <1>5, <2>1, CancelFactor
<1>7. x + 1 <= y
  <2>1. np * (x + 1) = np * x + np /\ np * x \in Int /\ np * y \in Int
    BY <1>2, <1>5
  <2>2. np * (x + 1) < np * y + np
    BY <1>2, <1>3, <1>5, <2>1
  <2> QED
    BY <1>2, <1>5, <2>2, CancelFactor
<1>8. x \in Nat /\ x < y
  BY <1>2, <1>5, <1>6, <1>7
<1> QED
  BY <1>1, <1>6, <1>8 DEF x, y, first, i

LEMMA PowersOfInt ==
    /\ 2^IntBits \in Nat \ {0}
    /\ 2^(IntBits - 1) \in Nat \ {0}
    /\ 2^IntBits = 2 * 2^(IntBits - 1)
<1> DEFINE k == IntBits - 1
<1>1. /\ k \in 0..(Branching + IntBits) /\ k + 1 = IntBits
      /\ IntBits \in 0..(Branching + IntBits)
  BY IntBitsAssumption, BranchingAssumption
<1> HIDE DEF k
<1>2. 2^k \in Nat \ {0} /\ 2^(k + 1) = 2 * 2^k /\ 2^IntBits \in Nat \ {0}
  BY <1>1, PowersAssumption
<1>3. 2^IntBits = 2 * 2^k
  BY <1>1, <1>2, Zenon
<1> QED
  BY <1>2, <1>3 DEF k

\* The int that a count becomes is never greater.
LEMMA AsIntBound ==
    ASSUME NEW x \in Nat
    PROVE  AsInt(x) \in Int /\ AsInt(x) <= x
<1> DEFINE h == 2^(IntBits - 1)
           m == 2^IntBits
<1>1. h \in Nat /\ m \in Nat \ {0} /\ AsInt(x) = ((x + h) % m) - h
  BY PowersOfInt DEF AsInt
<1> HIDE DEF h, m
<1>2. x + h \in Nat
  BY <1>1
<1>3. (x + h) % m \in Nat /\ (x + h) % m <= x + h
  <2>1. x + h = m * ((x + h) \div m) + ((x + h) % m) /\ (x + h) % m \in Nat
    BY <1>1, <1>2
  <2>2. (x + h) \div m \in Nat
    BY <1>1, <1>2
  <2>3. m * ((x + h) \div m) \in Nat
    BY <1>1, <2>2
  <2> QED
    BY <1>2, <2>1, <2>3
<1> QED
  BY <1>1, <1>3

-----------------------------------------------------------------------------
(* The tree of increments of a PartitionState                              *)

\* An int that is not too wide is itself.
LEMMA AsIntExact ==
    ASSUME NEW x \in Nat, x < 2^(IntBits - 1)
    PROVE  AsInt(x) = x
<1> DEFINE h == 2^(IntBits - 1)
           m == 2^IntBits
<1>1. h \in Nat \ {0} /\ m \in Nat \ {0} /\ m = 2 * h /\ AsInt(x) = ((x + h) % m) - h /\ x < h
  BY PowersOfInt DEF AsInt
<1> HIDE DEF h, m
<1>2. x + h \in 0..(m - 1)
  BY <1>1
<1>3. (x + h) % m = x + h
  BY <1>1, <1>2
<1> QED
  BY <1>1, <1>3

\* The powers of two that the tree uses.
Depths == 0..Branching

LEMMA Doubled ==
    ASSUME NEW k \in Depths
    PROVE  2^k \in Nat \ {0} /\ 2^(k + 1) = 2 * 2^k
BY PowersAssumption, BranchingAssumption, IntBitsAssumption DEF Depths

LEMMA PowersIncrease ==
    ASSUME NEW a \in Depths, NEW b \in Depths, a <= b
    PROVE  2^a <= 2^b
<1> DEFINE P == {n \in Nat : a + n \in Depths => 2^a <= 2^(a + n)}
<1>0. Branching \in Nat
  BY BranchingAssumption
<1>1. 0 \in P
  <2>1. a + 0 = a
    BY <1>0 DEF Depths
  <2>2. 2^a <= 2^a
    BY Doubled
  <2> QED
    BY <2>1, <2>2
<1>2. ASSUME NEW n \in Nat, n \in P PROVE n + 1 \in P
  <2> SUFFICES ASSUME a + (n + 1) \in Depths PROVE 2^a <= 2^(a + (n + 1))
    OBVIOUS
  <2> DEFINE k == a + n
  <2>1. k \in Depths /\ a + (n + 1) = k + 1
    BY <1>0 DEF Depths
  <2>2. 2^a <= 2^k
    BY <1>2, <2>1
  <2> HIDE DEF k
  <2>3. 2^k \in Nat /\ 2^(k + 1) = 2 * 2^k /\ 2^a \in Nat
    BY <2>1, Doubled
  <2>4. 2^a <= 2^(k + 1)
    BY <2>2, <2>3
  <2> QED
    BY <2>1, <2>4
<1>3. Nat \subseteq P
  <2> HIDE DEF P
  <2> QED
    BY <1>1, <1>2, SetOfNaturals
<1> DEFINE d == b - a
<1>4. d \in Nat /\ a + d = b
  BY <1>0 DEF Depths
<1> HIDE DEF d
<1>5. d \in P
  BY <1>3, <1>4
<1> QED
  BY <1>4, <1>5

\* The tree has a leaf for every partition but the last.
LEMMA TreeHasLeaves ==
    /\ TreeDepth \in Depths /\ TreeDepth >= 1
    /\ 2^TreeDepth \in Nat \ {0} /\ 2^TreeDepth <= Branching
    /\ \A p \in 0..(Branching - 2) : p < 2^TreeDepth
<1>0. Branching \in Nat \ {0, 1}
  BY BranchingAssumption
<1>1. PICK k \in 1..Branching : Branching = 2^k \/ Branching = 2^k + 1
  BY BranchingAssumption
<1>2. k \in Depths /\ 1 \in Depths /\ 0 \in Depths /\ 1 <= k
  BY <1>0, <1>1 DEF Depths
<1>3. 2^1 = 2
  <2>1. 2^(0 + 1) = 2 * 2^0 /\ 2^0 = 1 /\ 0 + 1 = 1
    BY <1>2, Doubled, PowersAssumption
  <2> QED
    BY <2>1
<1>4. 2^k \in Nat /\ 2 <= 2^k /\ 2^(k + 1) = 2 * 2^k
  BY <1>2, <1>3, PowersIncrease, Doubled
<1>5. 2^k <= Branching /\ Branching < 2^(k + 1)
  BY <1>0, <1>1, <1>4
<1>6. TreeDepth \in 0..Branching /\ 2^TreeDepth <= Branching /\ Branching < 2^(TreeDepth + 1)
  BY <1>2, <1>5 DEF TreeDepth, Depths
<1>7. TreeDepth \in Depths /\ TreeDepth \in Nat
  BY <1>0, <1>6 DEF Depths
<1>8. k <= TreeDepth
  <2> SUFFICES ASSUME TreeDepth < k PROVE FALSE
    BY <1>0, <1>2, <1>7 DEF Depths
  <2> DEFINE e == TreeDepth + 1
  <2>1. e \in Depths /\ e <= k /\ Branching < 2^e
    BY <1>0, <1>2, <1>6, <1>7 DEF Depths
  <2> HIDE DEF e
  <2>2. 2^e <= 2^k /\ 2^e \in Nat
    BY <1>2, <2>1, PowersIncrease, Doubled
  <2> QED
    BY <1>0, <1>4, <1>5, <2>1, <2>2
<1>9. 2^k <= 2^TreeDepth /\ 2^TreeDepth \in Nat \ {0}
  BY <1>2, <1>7, <1>8, PowersIncrease, Doubled
<1> QED
  BY <1>0, <1>1, <1>2, <1>4, <1>6, <1>7, <1>8, <1>9

\* Half of a quotient.
LEMMA HalfQuotient ==
    ASSUME NEW x \in Nat, NEW m \in Nat \ {0}
    PROVE  /\ x \div m \in Nat /\ x \div (2 * m) \in Nat
           /\ x \div m = 2 * (x \div (2 * m)) + ((x \div m) % 2)
           /\ (x \div m) % 2 \in {0, 1}
<1> DEFINE q == x \div m
           r == x \div (2 * m)
           s == q \div 2
           mm == 2 * m
<1>1. mm \in Nat \ {0} /\ mm = 2 * m
  OBVIOUS
<1>2. q \in Int /\ m * q <= x /\ x < m * q + m
  BY Quotient
<1>3. r \in Int /\ mm * r <= x /\ x < mm * r + mm
  <2> DEFINE y == x \div mm
  <2> HIDE DEF mm
  <2>0. mm \in Nat \ {0} /\ x \in Int
    BY <1>1
  <2>1. x \in Int /\ y \in Int /\ mm * y <= x /\ x < mm * y + mm
    BY <2>0, Quotient
  <2>2. r = y
    BY DEF mm
  <2> HIDE DEF y, r
  <2> QED
    BY <2>1, <2>2
<1> HIDE DEF q, r, mm
<1>4. q \in Nat
  <2>1. m * 0 = 0 /\ m * 0 < m * q + m
    <3>1. m * q \in Int
      BY <1>2
    <3> QED
      BY <1>2, <3>1
  <2>2. 0 <= q
    BY <1>2, <2>1, CancelFactor
  <2> QED
    BY <1>2, <2>2
<1>5. q = 2 * s + (q % 2) /\ q % 2 \in {0, 1} /\ s \in Nat
  BY <1>4
<1> HIDE DEF s
<1>6. mm * s <= x /\ x < mm * s + mm
  <2> DEFINE u == q % 2
  <2>1. q = 2 * s + u /\ u \in {0, 1}
    BY <1>5
  <2> HIDE DEF u
  <2>2. m * q = m * (2 * s + u) /\ m * (2 * s + u) = 2 * (m * s) + m * u
    BY <1>5, <2>1
  <2>3. mm * s = 2 * (m * s) /\ m * s \in Int
    BY <1>1, <1>5
  <2>4. m * u = 0 \/ m * u = m
    BY <2>1
  <2> QED
    BY <1>1, <1>2, <2>2, <2>3, <2>4
<1>7. r <= s
  <2>1. mm * r < mm * s + mm
    <3>1. mm * r \in Int /\ mm * s \in Int
      BY <1>1, <1>3, <1>5
    <3> QED
      BY <1>1, <1>3, <1>6, <3>1
  <2> QED
    BY <1>1, <1>3, <1>5, <2>1, CancelFactor
<1>8. s <= r
  <2>1. mm * s < mm * r + mm
    <3>1. mm * r \in Int /\ mm * s \in Int
      BY <1>1, <1>3, <1>5
    <3> QED
      BY <1>1, <1>3, <1>6, <3>1
  <2> QED
    BY <1>1, <1>3, <1>5, <2>1, CancelFactor
<1>9. r = s
  BY <1>3, <1>5, <1>7, <1>8
<1> QED
  BY <1>4, <1>5, <1>9 DEF q, r

\* The branch at a depth on the way to a leaf.
Branch(leaf, d) == leaf \div 2^(TreeDepth - d)

LEMMA BranchSteps ==
    ASSUME NEW x \in Nat, x < 2^TreeDepth
    PROVE  /\ Branch(x, 0) = 0
           /\ Branch(x, TreeDepth) = x
           /\ \A d \in 0..(TreeDepth - 1) :
                 /\ Branch(x, d) \in Nat /\ Turn(x, d) \in {0, 1}
                 /\ Branch(x, d + 1) = 2 * Branch(x, d) + Turn(x, d)
                 /\ Node(x, d) = 2^d - 1 + Branch(x, d)
<1>1. TreeDepth \in Depths /\ TreeDepth \in Nat /\ Branching \in Nat /\ 2^TreeDepth \in Nat \ {0}
  BY TreeHasLeaves, BranchingAssumption DEF Depths
<1>2. Branch(x, 0) = 0
  <2>1. TreeDepth - 0 = TreeDepth
    BY <1>1
  <2>2. Branch(x, 0) = x \div 2^TreeDepth
    BY <2>1 DEF Branch
  <2> QED
    BY <1>1, <2>2
<1>3. Branch(x, TreeDepth) = x
  <2>1. TreeDepth - TreeDepth = 0
    BY <1>1
  <2>2. Branch(x, TreeDepth) = x \div 1
    BY <2>1, PowersAssumption DEF Branch
  <2> QED
    BY <2>2
<1>4. ASSUME NEW d \in 0..(TreeDepth - 1)
      PROVE  /\ Branch(x, d) \in Nat /\ Turn(x, d) \in {0, 1}
             /\ Branch(x, d + 1) = 2 * Branch(x, d) + Turn(x, d)
             /\ Node(x, d) = 2^d - 1 + Branch(x, d)
  <2> DEFINE k == TreeDepth - 1 - d
             m == 2^k
  <2>1. k \in Depths /\ k + 1 = TreeDepth - d /\ k = TreeDepth - (d + 1)
    BY <1>1 DEF Depths
  <2>2. Branch(x, d) = x \div 2^(k + 1) /\ Branch(x, d + 1) = x \div m /\ Turn(x, d) = (x \div m) % 2
    BY <2>1 DEF Branch, Turn
  <2>3. m \in Nat \ {0} /\ 2^(k + 1) = 2 * m
    <3> HIDE DEF k
    <3> QED
      BY <2>1, Doubled
  <2>4. Node(x, d) = 2^d - 1 + Branch(x, d)
    <3>1. x % 2^TreeDepth = x
      BY <1>1
    <3> QED
      BY <3>1 DEF Node, Branch
  <2>5. Branch(x, d) = x \div (2 * m)
    BY <2>2, <2>3
  <2> HIDE DEF m, k
  <2> QED
    BY <2>2, <2>3, <2>4, <2>5, HalfQuotient
<1> QED
  BY <1>2, <1>3, <1>4

LEMMA BranchBound ==
    ASSUME NEW x \in Nat, x < 2^TreeDepth, NEW d \in 0..TreeDepth
    PROVE  Branch(x, d) \in Nat /\ Branch(x, d) < 2^d
<1> DEFINE P == {n \in Nat : n <= TreeDepth => Branch(x, n) \in Nat /\ Branch(x, n) < 2^n}
<1>1. TreeDepth \in Nat /\ TreeDepth \in Depths /\ Branching \in Nat
  BY TreeHasLeaves, BranchingAssumption DEF Depths
<1>2. 0 \in P
  BY BranchSteps, PowersAssumption
<1>3. ASSUME NEW n \in Nat, n \in P PROVE n + 1 \in P
  <2> SUFFICES ASSUME n + 1 <= TreeDepth
               PROVE  Branch(x, n + 1) \in Nat /\ Branch(x, n + 1) < 2^(n + 1)
    OBVIOUS
  <2>1. n \in 0..(TreeDepth - 1) /\ n \in Depths
    BY <1>1 DEF Depths
  <2>2. Branch(x, n + 1) = 2 * Branch(x, n) + Turn(x, n) /\ Turn(x, n) \in {0, 1}
    BY <2>1, BranchSteps
  <2>3. Branch(x, n) \in Nat /\ Branch(x, n) < 2^n
    BY <1>1, <1>3, <2>1
  <2>4. 2^n \in Nat /\ 2^(n + 1) = 2 * 2^n
    BY <2>1, Doubled
  <2> QED
    BY <2>2, <2>3, <2>4
<1>4. Nat \subseteq P
  <2> HIDE DEF P
  <2> QED
    BY <1>2, <1>3, SetOfNaturals
<1>5. d \in Nat /\ d <= TreeDepth
  BY <1>1
<1>6. d \in P
  BY <1>4, <1>5
<1> QED
  BY <1>5, <1>6

\* No node has two depths.
LEMMA NodesDiffer ==
    ASSUME NEW x \in Nat, x < 2^TreeDepth, NEW y \in Nat, y < 2^TreeDepth,
           NEW d \in 0..(TreeDepth - 1), NEW e \in 0..(TreeDepth - 1),
           Node(x, d) = Node(y, e)
    PROVE  d = e /\ Branch(x, d) = Branch(y, d)
<1>1. TreeDepth \in Nat /\ TreeDepth \in Depths /\ Branching \in Nat
  BY TreeHasLeaves, BranchingAssumption DEF Depths
<1>2. /\ d \in Depths /\ e \in Depths /\ d + 1 \in Depths /\ e + 1 \in Depths
      /\ d \in 0..TreeDepth /\ e \in 0..TreeDepth /\ d \in Nat /\ e \in Nat
  BY <1>1 DEF Depths
<1>3. /\ Branch(x, d) \in Nat /\ Branch(x, d) < 2^d
      /\ Branch(y, e) \in Nat /\ Branch(y, e) < 2^e
  BY <1>2, BranchBound
<1>4. 2^d - 1 + Branch(x, d) = 2^e - 1 + Branch(y, e)
  BY BranchSteps
<1>5. /\ 2^d \in Nat /\ 2^(d + 1) = 2 * 2^d
      /\ 2^e \in Nat /\ 2^(e + 1) = 2 * 2^e
  BY <1>2, Doubled
<1>6. ~(d < e)
  <2> SUFFICES ASSUME d < e PROVE FALSE
    OBVIOUS
  <2> DEFINE k == d + 1
  <2>1. k \in Depths /\ k <= e /\ 2^k = 2 * 2^d
    BY <1>2, <1>5
  <2> HIDE DEF k
  <2>2. 2^k <= 2^e
    BY <1>2, <2>1, PowersIncrease
  <2> QED
    BY <1>3, <1>4, <1>5, <2>1, <2>2
<1>7. ~(e < d)
  <2> SUFFICES ASSUME e < d PROVE FALSE
    OBVIOUS
  <2> DEFINE k == e + 1
  <2>1. k \in Depths /\ k <= d /\ 2^k = 2 * 2^e
    BY <1>2, <1>5
  <2> HIDE DEF k
  <2>2. 2^k <= 2^d
    BY <1>2, <2>1, PowersIncrease
  <2> QED
    BY <1>3, <1>4, <1>5, <2>1, <2>2
<1>8. d = e
  BY <1>2, <1>6, <1>7
<1>9. Branch(x, d) = Branch(y, e)
  BY <1>3, <1>4, <1>5, <1>8
<1> QED
  BY <1>8, <1>9

\* The ways to q and to p part at a depth, q to the left.
PartsLeft(q, p, d) ==
    Branch(q, d) = Branch(p, d) /\ Turn(q, d) = 0 /\ Turn(p, d) = 1

\* They do so once if q is left of p, and never otherwise.
LEMMA PartingsCount ==
    ASSUME NEW q \in Nat, q < 2^TreeDepth, NEW p \in Nat, p < 2^TreeDepth,
           NEW f, \A d \in 0..(TreeDepth - 1) : f[d] = IF PartsLeft(q, p, d) THEN 1 ELSE 0
    PROVE  SumFunctionOnSet(f, 0..(TreeDepth - 1)) = IF q < p THEN 1 ELSE 0
<1> DEFINE D == TreeDepth
           S == 0..(D - 1)
           Sum(n) == SumFunctionOnSet(f, 0..(n - 1))
           P == {n \in Nat : n <= D =>
                    Sum(n) = IF Branch(q, n) < Branch(p, n) THEN 1 ELSE 0}
<1>1. D \in Nat
  BY TreeHasLeaves, BranchingAssumption DEF Depths
<1>2. IsFiniteSet(S) /\ \A d \in S : f[d] \in Int
  <2>1. IsFiniteSet(S)
    BY <1>1, FS_Interval
  <2> QED
    BY <2>1
<1>3. /\ SumFunctionOnSet(f, {}) = 0
      /\ \A T \in SUBSET S :
            /\ SumFunctionOnSet(f, T) \in Int
            /\ \A d \in S \ T :
                  SumFunctionOnSet(f, T \cup {d}) = SumFunctionOnSet(f, T) + f[d]
  <2> HIDE DEF S
  <2> QED
    BY <1>2, SumProperties
<1>4. 0 \in P
  <2>1. 0..(0 - 1) = {}
    OBVIOUS
  <2>2. Sum(0) = 0
    BY <1>3, <2>1
  <2>3. Branch(q, 0) = 0 /\ Branch(p, 0) = 0
    BY BranchSteps
  <2> QED
    BY <2>2, <2>3
<1>5. ASSUME NEW n \in Nat, n \in P PROVE n + 1 \in P
  <2> SUFFICES ASSUME n + 1 <= D
               PROVE  Sum(n + 1) = IF Branch(q, n + 1) < Branch(p, n + 1) THEN 1 ELSE 0
    OBVIOUS
  <2> DEFINE T == 0..(n - 1)
  <2>1. n \in S \ T /\ T \in SUBSET S /\ 0..(n + 1 - 1) = T \cup {n}
    BY <1>1
  <2>2. Sum(n + 1) = SumFunctionOnSet(f, T) + f[n]
    <3> DEFINE U == 0..(n + 1 - 1)
    <3>1. Sum(n + 1) = SumFunctionOnSet(f, U)
      OBVIOUS
    <3>2. U = T \cup {n}
      BY <2>1
    <3>3. SumFunctionOnSet(f, T \cup {n}) = SumFunctionOnSet(f, T) + f[n]
      BY <1>3, <2>1
    <3> HIDE DEF U, T, Sum
    <3> QED
      BY <3>1, <3>2, <3>3
  <2>3. SumFunctionOnSet(f, T) = IF Branch(q, n) < Branch(p, n) THEN 1 ELSE 0
    BY <1>1, <1>5
  <2>4. f[n] = IF PartsLeft(q, p, n) THEN 1 ELSE 0
    BY <2>1
  <2>5. /\ Branch(q, n) \in Nat /\ Turn(q, n) \in {0, 1}
        /\ Branch(q, n + 1) = 2 * Branch(q, n) + Turn(q, n)
        /\ Branch(p, n) \in Nat /\ Turn(p, n) \in {0, 1}
        /\ Branch(p, n + 1) = 2 * Branch(p, n) + Turn(p, n)
    BY <2>1, BranchSteps
  <2> HIDE DEF Sum, T
  <2>6. Branch(q, n + 1) < Branch(p, n + 1) <=>
          Branch(q, n) < Branch(p, n) \/ PartsLeft(q, p, n)
    BY <2>5 DEF PartsLeft
  <2>7. ~(Branch(q, n) < Branch(p, n) /\ PartsLeft(q, p, n))
    BY <2>5 DEF PartsLeft
  <2> QED
    BY <2>2, <2>3, <2>4, <2>6, <2>7
<1>6. Nat \subseteq P
  <2> HIDE DEF P
  <2> QED
    BY <1>4, <1>5, SetOfNaturals
<1>7. D \in P
  BY <1>1, <1>6
<1>8. Sum(D) = IF Branch(q, D) < Branch(p, D) THEN 1 ELSE 0
  BY <1>1, <1>7
<1>9. Branch(q, D) = q /\ Branch(p, D) = p
  BY BranchSteps
<1> QED
  BY <1>8, <1>9

\* An increment at the leaf q is seen by the leaves right of it.
LEMMA IncrementSeen ==
    ASSUME NEW arr \in [0..(Branching - 1) -> Int],
           NEW q \in 0..(Branching - 2), NEW p \in 0..(Branching - 2)
    PROVE  /\ IncrUpdated(arr, q) \in [0..(Branching - 1) -> Int]
           /\ IncrSum(arr, p) \in Int
           /\ IncrSum(IncrUpdated(arr, q), p) = IncrSum(arr, p) + (IF q < p THEN 1 ELSE 0)
<1> DEFINE D == TreeDepth
           S == 0..(D - 1)
           new == IncrUpdated(arr, q)
           f == [d \in S |-> Turn(p, d) * arr[Node(p, d)]]
           g == [d \in S |-> Turn(p, d) * new[Node(p, d)]]
           h == [d \in S |-> IF PartsLeft(q, p, d) THEN 1 ELSE 0]
<1>1. /\ D \in Nat /\ D \in Depths /\ Branching \in Nat /\ 2^D <= Branching /\ 2^D \in Nat
      /\ q \in Nat /\ q < 2^D /\ p \in Nat /\ p < 2^D
  BY TreeHasLeaves, BranchingAssumption DEF Depths
<1>2. new \in [0..(Branching - 1) -> Int]
  BY DEF IncrUpdated
<1>3. IsFiniteSet(S)
  BY <1>1, FS_Interval
<1>4. ASSUME NEW d \in S
      PROVE  /\ Node(p, d) \in 0..(Branching - 1)
             /\ Turn(p, d) \in {0, 1}
             /\ f[d] = Turn(p, d) * arr[Node(p, d)] /\ f[d] \in Int
             /\ g[d] = f[d] + h[d] /\ h[d] \in Int
  <2>1. /\ Branch(p, d) \in Nat /\ Turn(p, d) \in {0, 1} /\ Turn(q, d) \in {0, 1}
        /\ Node(p, d) = 2^d - 1 + Branch(p, d) /\ Node(q, d) = 2^d - 1 + Branch(q, d)
    BY <1>1, BranchSteps
  <2>2. Branch(p, d) < 2^d /\ 2^d \in Nat /\ 2^(d + 1) = 2 * 2^d /\ 2^(d + 1) <= 2^D
    <3> DEFINE e == d + 1
    <3>1. d \in 0..D /\ d \in Depths /\ e \in Depths /\ e <= D
      BY <1>1 DEF Depths
    <3>2. 2^d \in Nat /\ 2^(d + 1) = 2 * 2^d
      BY <3>1, Doubled
    <3>3. Branch(p, d) < 2^d
      BY <1>1, <3>1, BranchBound
    <3> HIDE DEF e
    <3>4. 2^e <= 2^D
      BY <1>1, <3>1, PowersIncrease
    <3> QED
      BY <3>2, <3>3, <3>4 DEF e
  <2>3. Node(p, d) \in 0..(Branching - 1)
    BY <1>1, <2>1, <2>2
  <2>4. (\E e \in S : Node(q, e) = Node(p, d) /\ Turn(q, e) = 0) <=>
          Branch(q, d) = Branch(p, d) /\ Turn(q, d) = 0
    <3>1. ASSUME NEW e \in S, Node(q, e) = Node(p, d) PROVE e = d /\ Branch(q, d) = Branch(p, d)
      <4>1. e = d /\ Branch(q, e) = Branch(p, e)
        BY <1>1, <3>1, NodesDiffer
      <4> QED
        BY <4>1
    <3>2. Branch(q, d) = Branch(p, d) => Node(q, d) = Node(p, d)
      BY <2>1
    <3> QED
      BY <3>1, <3>2
  <2>5. new[Node(p, d)] = IF Branch(q, d) = Branch(p, d) /\ Turn(q, d) = 0
                          THEN arr[Node(p, d)] + 1 ELSE arr[Node(p, d)]
    <3>1. new[Node(p, d)] = IF \E e \in S : Node(q, e) = Node(p, d) /\ Turn(q, e) = 0
                            THEN arr[Node(p, d)] + 1 ELSE arr[Node(p, d)]
      BY <2>3 DEF IncrUpdated
    <3> QED
      BY <2>4, <3>1
  <2>6. h[d] = IF PartsLeft(q, p, d) THEN 1 ELSE 0
    OBVIOUS
  <2>7. f[d] = Turn(p, d) * arr[Node(p, d)] /\ g[d] = Turn(p, d) * new[Node(p, d)]
    OBVIOUS
  <2>8. arr[Node(p, d)] \in Int
    BY <2>3
  <2> HIDE DEF f, g, h, new
  <2>9. CASE Turn(p, d) = 0
    <3>1. ~PartsLeft(q, p, d)
      BY <2>9 DEF PartsLeft
    <3>2. new[Node(p, d)] \in Int
      BY <2>5, <2>8
    <3>3. f[d] = 0 /\ g[d] = 0
      BY <2>7, <2>8, <2>9, <3>2
    <3> QED
      BY <2>1, <2>3, <2>6, <2>7, <3>1, <3>3
  <2>10. CASE Turn(p, d) = 1
    <3>1. new[Node(p, d)] = arr[Node(p, d)] + h[d] /\ h[d] \in Int
      BY <2>5, <2>6, <2>8, <2>10 DEF PartsLeft
    <3>2. f[d] = arr[Node(p, d)] /\ g[d] = new[Node(p, d)]
      BY <2>7, <2>8, <2>10, <3>1
    <3> QED
      BY <2>1, <2>3, <2>7, <2>8, <3>1, <3>2
  <2> QED
    BY <2>1, <2>9, <2>10
<1>5. IncrSum(arr, p) = SumFunctionOnSet(f, S) /\ IncrSum(new, p) = SumFunctionOnSet(g, S)
  BY DEF IncrSum, SumFunction
<1>6. \A d \in S : h[d] = IF PartsLeft(q, p, d) THEN 1 ELSE 0
  OBVIOUS
<1> HIDE DEF f, g, h, new
<1>7. SumFunctionOnSet(h, S) = IF q < p THEN 1 ELSE 0
  BY <1>1, <1>6, PartingsCount
<1> HIDE DEF S
<1>8. \A d \in S : f[d] \in Int /\ h[d] \in Int /\ g[d] = f[d] + h[d]
  BY <1>4
<1>9. SumFunctionOnSet(g, S) = SumFunctionOnSet(f, S) + SumFunctionOnSet(h, S)
  BY <1>3, <1>8, SumOfSums
<1>10. SumFunctionOnSet(f, S) \in Int
  BY <1>3, <1>8, SumType
<1> QED
  BY <1>2, <1>5, <1>7, <1>9, <1>10 DEF new

-----------------------------------------------------------------------------
(* The requests of a partition                                             *)

Partition(sp, p) == (EndAt(sp, p) + 1)..EndAt(sp, p + 1)

\* Where partitions end, in terms of the first request.
LEMMA EndAtBounds ==
    ASSUME NEW t, RangeInv(t), t.seq.start \in Nat \ {0}, NEW n \in Nat,
           NEW np, np = t.split.num_partitions, NEW dist, dist = t.split.dist,
           NEW b, b = t.seq.start - 1
    PROVE  /\ EndAt(t.split, n) \in Int
           /\ np \in Nat \ {0} /\ dist \in Nat \ {0} /\ b \in Nat
           /\ np * EndAt(t.split, n) <= np * b + n * dist
           /\ np * b + n * dist < np * EndAt(t.split, n) + np
<1> DEFINE last == t.split.last
           a == last * np - (np - n) * dist
<1>1. /\ last \in Nat /\ dist \in Nat \ {0} /\ np \in Nat \ {0} /\ b \in Nat
      /\ last = b + dist
  BY DEF RangeInv
<1>2. EndAt(t.split, n) = a \div np
  BY DEF EndAt
<1> HIDE DEF last
<1>3. a \in Int /\ a = np * b + n * dist
  <2>1. last * np = np * b + np * dist
    BY <1>1
  <2>2. (np - n) * dist = np * dist - n * dist
    BY <1>1
  <2>3. np * b \in Int /\ np * dist \in Int /\ n * dist \in Int
    BY <1>1
  <2> QED
    BY <2>1, <2>2, <2>3
<1> HIDE DEF a
<1> DEFINE x == a \div np
<1>4. x \in Int /\ np * x <= a /\ a < np * x + np
  BY <1>1, <1>3, Quotient
<1> HIDE DEF x
<1>5. EndAt(t.split, n) = x
  BY <1>2 DEF x
<1> QED
  BY <1>1, <1>3, <1>4, <1>5

LEMMA EndsOrdered ==
    ASSUME NEW t, RangeInv(t), t.seq.start \in Nat \ {0},
           NEW m \in Nat, NEW n \in Nat, m <= n
    PROVE  /\ EndAt(t.split, m) \in Int /\ EndAt(t.split, n) \in Int
           /\ EndAt(t.split, m) <= EndAt(t.split, n)
           /\ EndAt(t.split, 0) = t.seq.start - 1
<1> DEFINE np == t.split.num_partitions
           dist == t.split.dist
           b == t.seq.start - 1
           x == EndAt(t.split, m)
           y == EndAt(t.split, n)
           z == EndAt(t.split, 0)
<1>1. /\ x \in Int /\ np \in Nat \ {0} /\ dist \in Nat \ {0} /\ b \in Nat
      /\ np * x <= np * b + m * dist
  BY EndAtBounds
<1>2. y \in Int /\ np * b + n * dist < np * y + np
  BY EndAtBounds
<1>3. z \in Int /\ np * z <= np * b + 0 * dist /\ np * b + 0 * dist < np * z + np
  BY EndAtBounds
<1> HIDE DEF np, dist, b, x, y, z
<1>4. m * dist <= n * dist
  <2> DEFINE c == (n - m) * dist
  <2>1. n * dist = m * dist + c
    BY <1>1
  <2>2. c \in Int /\ c >= 0 /\ m * dist \in Int
    BY <1>1
  <2> HIDE DEF c
  <2> QED
    BY <2>1, <2>2
<1>5. /\ m * dist \in Int /\ n * dist \in Int /\ 0 * dist = 0
      /\ np * b \in Int /\ np * x \in Int /\ np * y \in Int /\ np * z \in Int
  BY <1>1, <1>2, <1>3
<1>6. np * x < np * y + np
  BY <1>1, <1>2, <1>4, <1>5
<1>7. x <= y
  BY <1>1, <1>2, <1>6, CancelFactor
<1>8. np * z < np * b + np /\ np * b < np * z + np
  BY <1>1, <1>3, <1>5
<1>9. z <= b /\ b <= z
  BY <1>1, <1>3, <1>8, CancelFactor
<1>10. z = b
  BY <1>1, <1>3, <1>9
<1> QED
  BY <1>1, <1>2, <1>7, <1>10 DEF x, y, z, b

\* A target on the left belongs to the partition that it is moved to.
LEMMA TargetInPartition ==
    ASSUME NEW t, RangeInv(t), t.seq.start \in Nat \ {0},
           NEW target \in t.seq.start..LeftEnd(t)
    PROVE  /\ PartitionTarget(t, target) \in 0..(t.split.i - 1)
           /\ target \in Partition(t.split, PartitionTarget(t, target))
<1> DEFINE np == t.split.num_partitions
           dist == t.split.dist
           b == t.seq.start - 1
           i == t.split.i
           u == target - b
           a == u * np + dist - 1
           x == a \div dist
           q == x - 1
           e == EndAt(t.split, i)
<1>1. i \in Nat \ {0} /\ e = LeftEnd(t) /\ e \in Int
  BY EndsIncrease DEF RangeInv
<1>2. /\ np \in Nat \ {0} /\ dist \in Nat \ {0} /\ b \in Nat
      /\ np * e <= np * b + i * dist
  BY <1>1, EndAtBounds
<1>3. target \in Int /\ t.seq.start <= target /\ target <= e /\ b + 1 = t.seq.start
  BY <1>1, <1>2
<1>4. PartitionTarget(t, target) = q
  BY DEF PartitionTarget
<1> HIDE DEF np, dist, b, i, e
<1>5. u \in Int /\ 1 <= u /\ target = b + u
  BY <1>2, <1>3
<1> HIDE DEF u
<1>6. u * np \in Int /\ a \in Int /\ u * np >= 1
  BY <1>2, <1>5
<1>7. x \in Int /\ dist * x <= a /\ a < dist * x + dist
  <2> HIDE DEF a
  <2> QED
    BY <1>2, <1>6, Quotient
<1> HIDE DEF x
<1>8. /\ q \in Int /\ dist * q \in Int /\ dist * x \in Int /\ dist * q = dist * x - dist
      /\ dist * (q + 1) = dist * x
  BY <1>2, <1>7
<1>9. dist * q < u * np /\ u * np <= dist * x
  BY <1>2, <1>6, <1>7, <1>8
<1>10. q >= 0
  <2>1. dist * 1 < dist * x + dist
    BY <1>2, <1>6, <1>8, <1>9
  <2>2. 1 <= x
    BY <1>2, <1>7, <2>1, CancelFactor
  <2> QED
    BY <1>7, <2>2
<1>11. np * target = np * b + u * np
  BY <1>2, <1>5
<1>12. /\ np * b \in Int /\ np * e \in Int /\ np * target \in Int
       /\ i * dist = dist * i /\ i * dist \in Int
  BY <1>1, <1>2, <1>3
<1>13. q <= i - 1
  <2>1. np * target <= np * e
    <3> DEFINE c == np * (e - target)
    <3>1. np * e = np * target + c
      BY <1>1, <1>2, <1>3
    <3>2. c >= 0 /\ c \in Int
      BY <1>1, <1>2, <1>3
    <3> HIDE DEF c
    <3> QED
      BY <1>12, <3>1, <3>2
  <2>2. u * np <= dist * i
    BY <1>2, <1>6, <1>11, <1>12, <2>1
  <2>3. dist * x < dist * i + dist
    BY <1>2, <1>6, <1>8, <1>9, <1>12, <2>2
  <2>4. x <= i
    BY <1>1, <1>2, <1>7, <2>3, CancelFactor
  <2> QED
    BY <1>1, <1>7, <2>4
<1> DEFINE y == EndAt(t.split, q)
           z == EndAt(t.split, q + 1)
<1>14. y \in Int /\ np * y <= np * b + q * dist
  <2>1. q \in Nat
    BY <1>8, <1>10
  <2> HIDE DEF q
  <2> QED
    BY <2>1, EndAtBounds DEF np, dist, b
<1>15. z \in Int /\ np * b + (q + 1) * dist < np * z + np
  <2> DEFINE k == q + 1
  <2>1. k \in Nat
    BY <1>8, <1>10
  <2> HIDE DEF k
  <2>2. EndAt(t.split, k) \in Int /\ np * b + k * dist < np * EndAt(t.split, k) + np
    BY <2>1, EndAtBounds DEF np, dist, b
  <2> QED
    BY <2>2 DEF k
<1>16. q * dist = dist * q /\ (q + 1) * dist = dist * x
  BY <1>2, <1>7, <1>8
<1> HIDE DEF y, z, q
<1>17. y < target
  <2> DEFINE v == target - 1
  <2>1. v \in Int /\ np * v = np * target - np
    BY <1>2, <1>3
  <2> HIDE DEF v
  <2>2. np * y \in Int
    BY <1>2, <1>14
  <2>3. np * y < np * v + np
    BY <1>2, <1>6, <1>8, <1>9, <1>11, <1>12, <1>14, <1>16, <2>1, <2>2
  <2>4. y <= v
    BY <1>2, <1>14, <2>1, <2>3, CancelFactor
  <2> QED
    BY <1>3, <1>14, <2>4 DEF v
<1>18. target <= z
  <2>1. np * z \in Int
    BY <1>2, <1>15
  <2>2. np * target < np * z + np
    BY <1>2, <1>6, <1>8, <1>9, <1>11, <1>12, <1>15, <1>16, <2>1
  <2> QED
    BY <1>2, <1>3, <1>15, <2>2, CancelFactor
<1>19. target \in Partition(t.split, q)
  <2>1. target \in (y + 1)..z
    BY <1>3, <1>14, <1>15, <1>17, <1>18
  <2> QED
    BY <2>1 DEF Partition, y, z
<1>20. q \in 0..(i - 1)
  BY <1>1, <1>8, <1>10, <1>13
<1> QED
  BY <1>4, <1>19, <1>20 DEF i

\* Partitions lie in the range, one after the other.
LEMMA PartitionsOrdered ==
    ASSUME NEW t, RangeInv(t), t.seq.start \in Nat \ {0},
           NEW p \in 0..(t.split.i - 1), NEW j \in Partition(t.split, p)
    PROVE  /\ j \in t.seq.start..LeftEnd(t)
           /\ \A q \in 0..(t.split.i - 1) : q # p =>
                 \A target \in Partition(t.split, q) : j >= target <=> q < p
<1> DEFINE i == t.split.i
<1>1. /\ i \in Nat \ {0} /\ LeftEnd(t) = EndAt(t.split, i)
      /\ p \in Nat /\ p < i /\ p + 1 \in Nat /\ p + 1 <= i
  BY EndsIncrease DEF RangeInv
<1> HIDE DEF i
<1>2. /\ EndAt(t.split, p) \in Int /\ EndAt(t.split, p + 1) \in Int
      /\ j \in Int /\ EndAt(t.split, p) < j /\ j <= EndAt(t.split, p + 1)
  <2>1. EndAt(t.split, p) \in Int /\ EndAt(t.split, p + 1) \in Int
    BY <1>1, EndsOrdered
  <2> QED
    BY <2>1 DEF Partition
<1>3. /\ EndAt(t.split, 0) <= EndAt(t.split, p) /\ EndAt(t.split, 0) = t.seq.start - 1
      /\ EndAt(t.split, p + 1) <= EndAt(t.split, i) /\ EndAt(t.split, i) \in Int
  <2>1. 0 \in Nat /\ 0 <= p
    BY <1>1
  <2>2. EndAt(t.split, 0) <= EndAt(t.split, p) /\ EndAt(t.split, 0) = t.seq.start - 1
    BY <1>1, <2>1, EndsOrdered
  <2> DEFINE k == p + 1
  <2>3. k \in Nat /\ k <= i /\ i \in Nat
    BY <1>1
  <2> HIDE DEF k
  <2>4. EndAt(t.split, k) <= EndAt(t.split, i) /\ EndAt(t.split, i) \in Int
    BY <2>3, EndsOrdered
  <2> QED
    BY <2>2, <2>4 DEF k
<1>4. j \in t.seq.start..LeftEnd(t)
  BY <1>1, <1>2, <1>3
<1>5. ASSUME NEW q \in 0..(i - 1), q # p, NEW target \in Partition(t.split, q)
      PROVE  j >= target <=> q < p
  <2>1. q \in Nat /\ q + 1 \in Nat
    BY <1>1
  <2>2. /\ EndAt(t.split, q) \in Int /\ EndAt(t.split, q + 1) \in Int
        /\ target \in Int /\ EndAt(t.split, q) < target /\ target <= EndAt(t.split, q + 1)
    <3>1. EndAt(t.split, q) \in Int /\ EndAt(t.split, q + 1) \in Int
      BY <2>1, EndsOrdered
    <3> QED
      BY <3>1, <1>5 DEF Partition
  <2>3. CASE q < p
    <3> DEFINE k == q + 1
    <3>1. k \in Nat /\ k <= p /\ p \in Nat
      BY <1>1, <2>1, <2>3
    <3> HIDE DEF k
    <3>2. EndAt(t.split, k) <= EndAt(t.split, p)
      BY <3>1, EndsOrdered
    <3> QED
      BY <1>2, <2>2, <2>3, <3>2 DEF k
  <2>4. CASE p < q
    <3> DEFINE k == p + 1
    <3>1. k \in Nat /\ k <= q /\ ~(q < p)
      BY <1>1, <2>1, <2>4
    <3> HIDE DEF k
    <3>2. EndAt(t.split, k) <= EndAt(t.split, q)
      BY <2>1, <3>1, EndsOrdered
    <3> QED
      BY <1>2, <2>2, <3>1, <3>2 DEF k
  <2> QED
    BY <1>1, <1>5, <2>1, <2>3, <2>4
<1> QED
  BY <1>4, <1>5 DEF i

-----------------------------------------------------------------------------
(* The inductive invariant                                                 *)

\* The tasks and their operations.
TasksInv ==
    /\ \A k \in DOMAIN operations : IsOp(operations[k])
    /\ \A s \in DOMAIN tasks : TaskInv(tasks[s], operations) /\ tasks[s].seq.start = s
    /\ RegionsDisjoint

IInv ==
    /\ phase \in {"called", "sorted", "built", "projecting", "returned"}
    /\ Log(requests) /\ Len(requests) \in Nat \ {0}
    /\ phase \in {"called", "sorted", "built"} => DOMAIN tasks = {}
    /\ phase = "built" => operations = UncompactedOperations(requests)
    /\ phase \in {"projecting", "returned"} => TasksInv

\* What TasksDoNotInterfere says of a step.
NoInterference ==
    \A u \in DOMAIN tasks \cap DOMAIN tasks' :
        tasks'[u] = tasks[u] =>
            \A k \in Region(tasks[u]) : operations'[k] = operations[k]

\* A step changes nothing but the slots of the task s.
WritesOnlyIn(s) ==
    /\ DOMAIN operations' = DOMAIN operations
    /\ \A k \in DOMAIN operations : IsOp(operations'[k])
    /\ \A k \in DOMAIN operations :
          k \notin Region(tasks[s]) => operations'[k] = operations[k]

LEMMA OthersKeepInv ==
    ASSUME TasksInv, NEW s \in DOMAIN tasks, WritesOnlyIn(s),
           NEW u \in DOMAIN tasks, u # s
    PROVE  /\ TaskInv(tasks[u], operations')
           /\ \A k \in Region(tasks[u]) : operations'[k] = operations[k]
<1>1. Region(tasks[u]) \cap Region(tasks[s]) = {}
  <2>1. s \in Nat /\ u \in Nat
    BY DEF TasksInv, TaskInv, ProjSequences
  <2>2. s < u \/ u < s
    BY <2>1
  <2> QED
    BY <2>2 DEF TasksInv, RegionsDisjoint
<1>2. TaskInv(tasks[u], operations) /\ Region(tasks[u]) \subseteq DOMAIN operations
  BY DEF TasksInv, TaskInv
<1>3. \A k \in Region(tasks[u]) : operations'[k] = operations[k]
  BY <1>1, <1>2 DEF WritesOnlyIn
<1> QED
  BY <1>2, <1>3, TaskInvFrame DEF WritesOnlyIn

\* A task that goes on in its range and its slots.
LEMMA TaskGoesOn ==
    ASSUME TasksInv, NEW s \in DOMAIN tasks, NEW t,
           WritesOnlyIn(s),
           SetTask(s, t),
           t.seq = tasks[s].seq,
           TaskInv(t, operations'),
           t # tasks[s] \/ operations' = operations
    PROVE  TasksInv' /\ NoInterference
<1>1. /\ DOMAIN tasks' = DOMAIN tasks
      /\ \A u \in DOMAIN tasks : tasks'[u] = IF u = s THEN t ELSE tasks[u]
  BY DEF SetTask
<1>2. \A u \in DOMAIN tasks : tasks'[u].seq = tasks[u].seq
  BY <1>1
<1>3. \A u \in DOMAIN tasks' : TaskInv(tasks'[u], operations') /\ tasks'[u].seq.start = u
  BY <1>1, <1>2, OthersKeepInv DEF TasksInv
<1>4. RegionsDisjoint'
  BY <1>1, <1>2 DEF TasksInv, RegionsDisjoint, Region
<1>5. \A k \in DOMAIN operations' : IsOp(operations'[k])
  BY DEF WritesOnlyIn
<1>6. NoInterference
  <2> SUFFICES ASSUME NEW u \in DOMAIN tasks, tasks'[u] = tasks[u],
                      NEW k \in Region(tasks[u])
               PROVE  operations'[k] = operations[k]
    BY DEF NoInterference
  <2>1. CASE u = s
    BY <1>1, <2>1
  <2>2. CASE u # s
    BY <2>2, OthersKeepInv
  <2> QED
    BY <2>1, <2>2
<1> QED
  BY <1>3, <1>4, <1>5, <1>6 DEF TasksInv

\* A task that goes on with the left of its range and the lower of its slots, and
\* a new one with the others.
LEMMA TaskSplits ==
    ASSUME TasksInv, NEW s \in DOMAIN tasks, NEW left, NEW right,
           WritesOnlyIn(s),
           right.seq.start \in Nat,
           tasks' = [u \in DOMAIN tasks \cup {right.seq.start} |->
                        IF u = right.seq.start THEN right
                        ELSE IF u # s THEN tasks[u] ELSE left],
           left.seq.start = s, left.seq.end < right.seq.start,
           left.seq.end \in Nat,
           s < right.seq.start, right.seq.start <= right.seq.end,
           right.seq.end = tasks[s].seq.end,
           Region(left) \subseteq Region(tasks[s]),
           Region(right) \subseteq Region(tasks[s]),
           Region(left) \cap Region(right) = {},
           TaskInv(left, operations'), TaskInv(right, operations'),
           left # tasks[s]
    PROVE  TasksInv' /\ NoInterference
<1> DEFINE r == right.seq.start
           end == tasks[s].seq.end
<1>1. /\ s \in Nat \ {0} /\ r \in Nat /\ end \in Nat /\ s < r /\ r <= end
      /\ right.seq.end = end /\ left.seq.end \in Nat /\ left.seq.end < r
      /\ left.seq.start = s
  BY DEF TasksInv, TaskInv, ProjSequences
<1>2. \A u \in DOMAIN tasks : u \in Nat /\ tasks[u].seq.end \in Nat
  BY DEF TasksInv, TaskInv, ProjSequences
<1>3. \A u \in DOMAIN tasks : /\ s < u => end < u
                              /\ u < s => tasks[u].seq.end < s
                              /\ u # s => Region(tasks[u]) \cap Region(tasks[s]) = {}
  BY <1>1, <1>2 DEF TasksInv, RegionsDisjoint
<1> HIDE DEF r, end
<1>4. r \notin DOMAIN tasks
  BY <1>1, <1>2, <1>3
<1>5. /\ DOMAIN tasks' = DOMAIN tasks \cup {r}
      /\ tasks'[r] = right
      /\ tasks'[s] = left
      /\ \A u \in DOMAIN tasks : u # s => tasks'[u] = tasks[u]
  BY <1>1, <1>4 DEF r
<1>6. \A u \in DOMAIN tasks' : TaskInv(tasks'[u], operations') /\ tasks'[u].seq.start = u
  BY <1>1, <1>5, OthersKeepInv DEF TasksInv, r
<1>7. RegionsDisjoint'
  <2> SUFFICES ASSUME NEW u \in DOMAIN tasks \cup {r}, NEW v \in DOMAIN tasks \cup {r}, u < v
               PROVE  /\ tasks'[u].seq.end < v
                      /\ Region(tasks'[u]) \cap Region(tasks'[v]) = {}
    <3>1. \A u, v \in DOMAIN tasks' :
              u < v => /\ tasks'[u].seq.end < v
                       /\ Region(tasks'[u]) \cap Region(tasks'[v]) = {}
      BY <1>5, Zenon
    <3> QED
      BY <3>1, Zenon DEF RegionsDisjoint, Region
  <2>1. CASE u = r
    <3>1. v \in DOMAIN tasks /\ v # s /\ s < v
      BY <1>1, <1>2, <2>1
    <3>2. end < v /\ Region(tasks[v]) \cap Region(tasks[s]) = {}
      BY <1>3, <3>1
    <3> QED
      BY <1>1, <1>5, <2>1, <3>1, <3>2
  <2>2. CASE u = s /\ v = r
    BY <1>1, <1>5, <2>2
  <2>3. CASE u = s /\ v # r
    <3>1. v \in DOMAIN tasks /\ v # s /\ s < v
      BY <1>1, <1>2, <2>3
    <3>2. end < v /\ Region(tasks[v]) \cap Region(tasks[s]) = {}
      BY <1>3, <3>1
    <3>3. left.seq.end < v
      BY <1>1, <1>2, <3>1, <3>2
    <3> QED
      BY <1>5, <2>3, <3>1, <3>2, <3>3
  <2>4. CASE u # r /\ u # s /\ v = r
    <3>1. u \in DOMAIN tasks /\ u < s
      BY <1>1, <1>2, <1>3, <2>4
    <3>2. tasks[u].seq.end < s /\ Region(tasks[u]) \cap Region(tasks[s]) = {}
      BY <1>3, <2>4, <3>1
    <3>3. tasks[u].seq.end < r
      BY <1>1, <1>2, <3>1, <3>2
    <3> QED
      BY <1>5, <2>4, <3>1, <3>2, <3>3
  <2>5. CASE u # r /\ u # s /\ v = s
    <3>1. tasks[u].seq.end < s /\ Region(tasks[u]) \cap Region(tasks[s]) = {}
      BY <1>3, <2>5
    <3> QED
      BY <1>5, <2>5, <3>1
  <2>6. CASE u # r /\ u # s /\ v # s /\ v # r
    BY <1>5, <2>6 DEF TasksInv, RegionsDisjoint
  <2> QED
    BY <2>1, <2>2, <2>3, <2>4, <2>5, <2>6
<1>8. NoInterference
  <2> SUFFICES ASSUME NEW u \in DOMAIN tasks, tasks'[u] = tasks[u],
                      NEW k \in Region(tasks[u])
               PROVE  operations'[k] = operations[k]
    BY DEF NoInterference
  <2>1. u # s
    BY <1>5
  <2> QED
    BY <2>1, OthersKeepInv
<1>9. \A k \in DOMAIN operations' : IsOp(operations'[k])
  BY DEF WritesOnlyIn
<1> QED
  BY <1>6, <1>7, <1>8, <1>9 DEF TasksInv

\* A task that ends, and whatever else leaves the operations alone.
LEMMA TaskEnds ==
    ASSUME TasksInv, NEW s \in DOMAIN tasks,
           tasks' = [u \in DOMAIN tasks \ {s} |-> tasks[u]],
           operations' = operations
    PROVE  TasksInv' /\ NoInterference
<1>1. /\ DOMAIN tasks' = DOMAIN tasks \ {s}
      /\ \A u \in DOMAIN tasks' : tasks'[u] = tasks[u]
  OBVIOUS
<1>2. RegionsDisjoint'
  BY <1>1 DEF TasksInv, RegionsDisjoint, Region
<1>3. TasksInv'
  BY <1>1, <1>2 DEF TasksInv
<1> QED
  BY <1>3 DEF NoInterference

-----------------------------------------------------------------------------
(* One lemma per action                                                    *)

LEMMA InStateFields ==
    ASSUME NEW t, NEW pc, NEW st, DOMAIN t = TaskFields, DOMAIN t.split = SplitFields
    PROVE  /\ DOMAIN InState(t, pc, st) = TaskFields
           /\ InState(t, pc, st).pc = pc
           /\ InState(t, pc, st).seq = t.seq
           /\ DOMAIN InState(t, pc, st).split = SplitFields
           /\ InState(t, pc, st).split.dist = t.split.dist
           /\ InState(t, pc, st).split.num_partitions = t.split.num_partitions
           /\ InState(t, pc, st).split.last = t.split.last
           /\ InState(t, pc, st).split.i = t.split.i
           /\ InState(t, pc, st).split.state = st
<1> DEFINE sp == [t.split EXCEPT !.state = st]
<1>1. /\ DOMAIN sp = SplitFields
      /\ sp.dist = t.split.dist
      /\ sp.num_partitions = t.split.num_partitions
      /\ sp.last = t.split.last
      /\ sp.i = t.split.i
      /\ sp.state = st
  BY DEF SplitFields
<1>2. InState(t, pc, st) = [t EXCEPT !.pc = pc, !.split = sp]
  BY DEF InState
<1> HIDE DEF sp
<1>3. /\ DOMAIN InState(t, pc, st) = TaskFields
      /\ InState(t, pc, st).pc = pc
      /\ InState(t, pc, st).seq = t.seq
      /\ InState(t, pc, st).split = sp
  BY <1>2 DEF TaskFields
<1> QED
  BY <1>1, <1>3

\* Two updates of a vector, the second of which prevails.
LEMMA TwoWrites ==
    ASSUME NEW f, NEW a, NEW x, NEW b, NEW y
    PROVE  LET g == [f EXCEPT ![a] = x, ![b] = y]
           IN  /\ DOMAIN g = DOMAIN f
               /\ \A k \in DOMAIN f :
                     g[k] = IF k = b THEN y ELSE IF k = a THEN x ELSE f[k]
OBVIOUS

\* The slots that an iteration of partition() looks at.
LEMMA IterationSlots ==
    ASSUME TasksInv, NEW s \in DOMAIN tasks, Iterating(s)
    PROVE  LET t == tasks[s]
               st == t.split.state
               cur == Slot(t, st.cur_idx)
               merge == Slot(t, st.merge_into_idx)
           IN  /\ t.seq.base \in Nat /\ t.seq.num_ops \in Nat \ {0}
               /\ st.cur_idx \in Nat /\ st.merge_into_idx \in Nat
               /\ st.cur_idx <= st.merge_into_idx
               /\ st.merge_into_idx < t.seq.num_ops
               /\ cur = t.seq.base + st.cur_idx
               /\ merge = t.seq.base + st.merge_into_idx
               /\ cur \in Region(t) /\ merge \in Region(t)
               /\ cur \in DOMAIN operations /\ merge \in DOMAIN operations
               /\ IsOp(operations[cur]) /\ IsOp(operations[merge])
               /\ merge # cur => IsNull(operations[merge])
               /\ RangeInv(t) /\ LoopInv(t, operations) /\ Shaped(t)
               /\ DOMAIN t = TaskFields
<1> DEFINE t == tasks[s]
           st == t.split.state
           base == t.seq.base
<1>1. TaskInv(t, operations) /\ t.pc = "partition" /\ st.cur_idx >= 0
  BY DEF TasksInv, Iterating
<1>2. /\ RangeInv(t) /\ LoopInv(t, operations) /\ Shaped(t) /\ DOMAIN t = TaskFields
      /\ base \in Nat /\ t.seq.num_ops \in Nat \ {0}
      /\ Region(t) \subseteq DOMAIN operations
  BY <1>1 DEF TaskInv, ProjSequences
<1>3. /\ st.cur_idx \in Int /\ st.merge_into_idx \in Int
      /\ st.merge_into_idx < t.seq.num_ops
      /\ IsFiniteSet(Waiting(st.scratch, t.split.i))
      /\ st.cur_idx + Cardinality(Waiting(st.scratch, t.split.i)) + 0 <= st.merge_into_idx
      /\ \A k \in 0..st.merge_into_idx :
            k > st.cur_idx => IsNull(operations[base + k])
  BY <1>1, <1>2 DEF LoopInv
<1>4. Cardinality(Waiting(st.scratch, t.split.i)) \in Nat
  BY <1>3, FS_CardinalityType
<1>5. /\ st.cur_idx \in Nat /\ st.merge_into_idx \in Nat
      /\ st.cur_idx <= st.merge_into_idx
  BY <1>1, <1>3, <1>4
<1>6. /\ Slot(t, st.cur_idx) = base + st.cur_idx
      /\ Slot(t, st.merge_into_idx) = base + st.merge_into_idx
      /\ Slot(t, st.cur_idx) \in Region(t) /\ Slot(t, st.merge_into_idx) \in Region(t)
  BY <1>2, <1>3, <1>5 DEF Slot, Region
<1>7. Slot(t, st.merge_into_idx) # Slot(t, st.cur_idx) =>
          IsNull(operations[Slot(t, st.merge_into_idx)])
  BY <1>2, <1>3, <1>5, <1>6
<1> QED
  BY <1>2, <1>3, <1>5, <1>6, <1>7 DEF TasksInv

\* An iteration that takes one operation away from cur_idx: what it must leave
\* behind for the invariant to hold.
LEMMA Iterated ==
    ASSUME TasksInv, NEW s \in DOMAIN tasks, Iterating(s),
           NEW pc \in {"partition", "split"}, NEW st,
           SetTask(s, InState(tasks[s], pc, st)),
           WritesOnlyIn(s),
           DOMAIN st = StateFields,
           st.cur_idx = tasks[s].split.state.cur_idx - 1,
           IsNull(operations'[tasks[s].seq.base]),
           LoopInv(InState(tasks[s], pc, st), operations')
    PROVE  TasksInv' /\ NoInterference
<1> DEFINE t == tasks[s]
           after == InState(t, pc, st)
<1>1. /\ TaskInv(t, operations) /\ RangeInv(t) /\ Shaped(t) /\ DOMAIN t = TaskFields
      /\ t.split.state.cur_idx \in Nat
  BY IterationSlots DEF TasksInv
<1>2. /\ DOMAIN after = TaskFields
      /\ after.pc = pc
      /\ after.seq = t.seq
      /\ DOMAIN after.split = SplitFields
      /\ after.split.dist = t.split.dist
      /\ after.split.num_partitions = t.split.num_partitions
      /\ after.split.last = t.split.last
      /\ after.split.i = t.split.i
      /\ after.split.state = st
  BY <1>1, InStateFields DEF Shaped
<1>3. LoopInv(after, operations') /\ SetTask(s, after)
  OBVIOUS
<1> HIDE DEF after
<1>4. RangeInv(after)
  BY <1>1, <1>2 DEF RangeInv, EndAt
<1>5. Region(after) \subseteq DOMAIN operations'
  BY <1>1, <1>2 DEF Region, TaskInv, WritesOnlyIn
<1>6. TaskInv(after, operations')
  BY <1>1, <1>2, <1>3, <1>4, <1>5 DEF TaskInv, Shaped
<1>7. after # t
  BY <1>1, <1>2
<1> QED
  BY <1>2, <1>3, <1>6, <1>7, TaskGoesOn

\* The state of the loop after such an iteration.
LEMMA LoopGoesOn ==
    ASSUME TasksInv, NEW s \in DOMAIN tasks, Iterating(s),
           NEW pc, NEW st,
           LET t == tasks[s]
               n == t.split.i
           IN  /\ st.cur_idx = t.split.state.cur_idx - 1
               /\ st.merge_into_idx \in Int
               /\ st.merge_into_idx <= t.split.state.merge_into_idx
               /\ \A p \in 0..(n - 1) : p \in DOMAIN st.scratch /\ IsStack(st.scratch[p])
               /\ IsFiniteSet(Waiting(st.scratch, n))
               /\ st.cur_idx + Cardinality(Waiting(st.scratch, n))
                     + (IF pc = "split" THEN 1 ELSE 0) <= st.merge_into_idx
               /\ pc = "split" => t.split.state.cur_idx >= 1
               /\ \A k \in DOMAIN operations :
                     \/ operations'[k] = operations[k]
                     \/ IsNull(operations'[k])
                     \/ k = Slot(t, t.split.state.merge_into_idx)
                        /\ st.merge_into_idx < t.split.state.merge_into_idx
                     \/ k < Slot(t, t.split.state.cur_idx)
               /\ \/ IsNull(operations'[Slot(t, t.split.state.cur_idx)])
                  \/ st.merge_into_idx < t.split.state.cur_idx
    PROVE  LoopInv(InState(tasks[s], pc, st), operations')
<1> DEFINE t == tasks[s]
           old == t.split.state
           n == t.split.i
           base == t.seq.base
           after == InState(t, pc, st)
<1>1. /\ LoopInv(t, operations) /\ base \in Nat /\ t.seq.num_ops \in Nat \ {0}
      /\ Shaped(t) /\ DOMAIN t = TaskFields
      /\ old.cur_idx \in Nat /\ old.merge_into_idx \in Nat
      /\ old.merge_into_idx < t.seq.num_ops
      /\ Slot(t, old.cur_idx) = base + old.cur_idx
      /\ Slot(t, old.merge_into_idx) = base + old.merge_into_idx
  BY IterationSlots
<1>2. Region(t) \subseteq DOMAIN operations
  BY DEF TasksInv, TaskInv
<1>3. /\ after.pc = pc /\ after.seq = t.seq /\ after.split.i = n
      /\ after.split.state = st
  BY <1>1, InStateFields DEF Shaped
<1>4. ASSUME NEW k \in 0..st.merge_into_idx, k > st.cur_idx
      PROVE  IsNull(operations'[base + k])
  <2>1. k \in Nat /\ old.cur_idx <= k /\ k <= old.merge_into_idx
        /\ k <= st.merge_into_idx
    BY <1>1, <1>4
  <2>2. base + k \in DOMAIN operations
    BY <1>1, <1>2, <2>1 DEF Region
  <2>3. CASE k = old.cur_idx
    BY <1>1, <2>1, <2>3
  <2>4. CASE k > old.cur_idx
    <3>1. IsNull(operations[base + k])
      BY <1>1, <2>1, <2>4 DEF LoopInv
    <3>2. /\ ~(base + k < base + old.cur_idx)
          /\ base + k = base + old.merge_into_idx =>
                ~(st.merge_into_idx < old.merge_into_idx)
      BY <1>1, <2>1
    <3> QED
      BY <1>1, <2>2, <3>1, <3>2
  <2> QED
    BY <1>1, <2>1, <2>3, <2>4
<1> HIDE DEF after
<1>5. /\ st.cur_idx \in Int
      /\ st.merge_into_idx < t.seq.num_ops
      /\ pc = "split" => st.cur_idx >= 0
  BY <1>1
<1>6. LoopInv(after, operations')
  BY <1>3, <1>4, <1>5 DEF LoopInv
<1> QED
  BY <1>6 DEF after

LEMMA MergeBoundaryKeepsInv ==
    ASSUME TasksInv, NEW s \in DOMAIN tasks, MergeBoundary(s)
    PROVE  TasksInv' /\ NoInterference
<1> DEFINE t == tasks[s]
           old == t.split.state
           op == CurOp(t)
           base == t.seq.base
           cur == Slot(t, old.cur_idx)
           merge == Slot(t, old.merge_into_idx)
           st == [old EXCEPT !.cur_idx = @ - 1]
           credited == [operations EXCEPT ![cur - 1] = AddFull(@, op.full + IncAmnt)]
<1>1. /\ Iterating(s)
      /\ IsBoundaryOp(op, LeftEnd(t))
      /\ operations' = IF merge = cur
                       THEN [credited EXCEPT ![cur] = MakeNull(op)]
                       ELSE [credited EXCEPT ![merge] = AddFull(@, op.full), ![cur] = NoImpact]
      /\ SetTask(s, InState(t, "split", st))
  BY DEF MergeBoundary
<1>2. /\ base \in Nat /\ t.seq.num_ops \in Nat \ {0}
      /\ old.cur_idx \in Nat /\ old.merge_into_idx \in Nat
      /\ old.cur_idx <= old.merge_into_idx
      /\ old.merge_into_idx < t.seq.num_ops
      /\ cur = base + old.cur_idx
      /\ merge = base + old.merge_into_idx
      /\ cur \in Region(t) /\ merge \in Region(t)
      /\ cur \in DOMAIN operations /\ merge \in DOMAIN operations
      /\ IsOp(operations[cur]) /\ IsOp(operations[merge])
      /\ merge # cur => IsNull(operations[merge])
      /\ RangeInv(t) /\ LoopInv(t, operations) /\ Shaped(t)
  BY <1>1, IterationSlots
<1>3. /\ \A k \in DOMAIN operations : IsOp(operations[k])
      /\ Region(t) \subseteq DOMAIN operations
      /\ IsNull(operations[base])
      /\ t.seq.start \in Nat \ {0}
  BY DEF TasksInv, TaskInv, ProjSequences
<1>4. op = operations[cur]
  BY DEF CurOp
<1>5. ~IsNull(op)
  BY <1>1, <1>2, <1>3, EndsIncrease DEF IsBoundaryOp, IsNull
<1>6. old.cur_idx >= 1
  <2>1. cur # base
    BY <1>3, <1>4, <1>5
  <2> QED
    BY <1>2, <2>1
<1>7. cur - 1 \in Region(t) /\ cur - 1 \in DOMAIN operations /\ cur - 1 # cur /\ cur - 1 # merge
      /\ cur - 1 >= base
  BY <1>2, <1>3, <1>6 DEF Region
<1>8. st.cur_idx = old.cur_idx - 1 /\ st.merge_into_idx = old.merge_into_idx
      /\ st.scratch = old.scratch /\ DOMAIN st = StateFields
  BY <1>2 DEF Shaped, StateFields
<1> HIDE DEF st, old, cur, merge, op, t, base
<1>9. /\ DOMAIN credited = DOMAIN operations
      /\ \A k \in DOMAIN operations :
            credited[k] = IF k = cur - 1
                          THEN AddFull(operations[cur - 1], op.full + IncAmnt)
                          ELSE operations[k]
  BY <1>7
<1> HIDE DEF credited
<1>10. /\ DOMAIN operations' = DOMAIN operations
       /\ \A k \in DOMAIN operations :
            operations'[k] = IF k = cur THEN (IF merge = cur THEN MakeNull(op) ELSE NoImpact)
                             ELSE IF k = merge THEN AddFull(operations[merge], op.full)
                             ELSE IF k = cur - 1
                             THEN AddFull(operations[cur - 1], op.full + IncAmnt)
                             ELSE operations[k]
  <2>1. CASE merge = cur
    BY <1>1, <1>2, <1>9, <2>1
  <2>2. CASE merge # cur
    <3>1. operations' = [credited EXCEPT ![merge] = AddFull(credited[merge], op.full),
                                         ![cur] = NoImpact]
      BY <1>1, <2>2
    <3>2. credited[merge] = operations[merge]
      BY <1>2, <1>7, <1>9
    <3> QED
      BY <1>9, <2>2, <3>1, <3>2, TwoWrites
  <2> QED
    BY <2>1, <2>2
<1>11. /\ IsOp(op)
       /\ IsOp(MakeNull(op)) /\ IsNull(MakeNull(op))
       /\ IsOp(NoImpact) /\ IsNull(NoImpact)
       /\ IsOp(AddFull(operations[merge], op.full))
       /\ IsNull(AddFull(operations[merge], op.full)) <=> IsNull(operations[merge])
       /\ IsOp(AddFull(operations[cur - 1], op.full + IncAmnt))
       /\ IsNull(AddFull(operations[cur - 1], op.full + IncAmnt)) <=>
             IsNull(operations[cur - 1])
  BY <1>2, <1>3, <1>4, <1>7, MakeNullIsNull, NoImpactIsNull, AddFullKeepsTarget
<1>12. \A k \in DOMAIN operations : IsOp(operations'[k])
  BY <1>3, <1>10, <1>11
<1>13. \A k \in DOMAIN operations : k \notin Region(t) => operations'[k] = operations[k]
  BY <1>2, <1>7, <1>10
<1>14. IsNull(operations'[base])
  <2>1. base \in DOMAIN operations
    BY <1>2, <1>3 DEF Region, t, base
  <2>2. base # cur /\ base # merge
    BY <1>2, <1>6
  <2>3. CASE base = cur - 1
    BY <1>3, <1>10, <1>11, <2>1, <2>2, <2>3
  <2>4. CASE base # cur - 1
    BY <1>3, <1>10, <2>1, <2>2, <2>4
  <2> QED
    BY <2>3, <2>4
<1>15. WritesOnlyIn(s)
  BY <1>10, <1>12, <1>13 DEF WritesOnlyIn, t
<1>16. LoopInv(InState(t, "split", st), operations')
  <2> DEFINE n == t.split.i
  <2>1. /\ \A p \in 0..(n - 1) : p \in DOMAIN st.scratch /\ IsStack(st.scratch[p])
        /\ IsFiniteSet(Waiting(st.scratch, n))
        /\ old.cur_idx + Cardinality(Waiting(st.scratch, n)) + 0 <= old.merge_into_idx
    BY <1>1, <1>2, <1>8 DEF LoopInv, Iterating, old, t
  <2>2. Cardinality(Waiting(st.scratch, n)) \in Nat
    BY <2>1, FS_CardinalityType
  <2>3. st.cur_idx + Cardinality(Waiting(st.scratch, n)) + 1 <= st.merge_into_idx
    <3> HIDE DEF n
    <3> QED
      BY <1>2, <1>8, <2>1, <2>2
  <2>4. \A k \in DOMAIN operations :
            \/ operations'[k] = operations[k]
            \/ IsNull(operations'[k])
            \/ k < cur
    BY <1>2, <1>7, <1>10, <1>11
  <2>5. IsNull(operations'[cur])
    BY <1>2, <1>10, <1>11
  <2> HIDE DEF n
  <2>6. Iterating(s) /\ st.merge_into_idx \in Int /\ st.merge_into_idx <= old.merge_into_idx
    BY <1>1, <1>2, <1>8
  <2> QED
    BY <1>6, <1>8, <2>1, <2>3, <2>4, <2>5, <2>6, LoopGoesOn DEF t, old, cur, merge, n
<1>17. SetTask(s, InState(t, "split", st))
  BY <1>1
<1> QED
  BY <1>1, <1>8, <1>14, <1>15, <1>16, <1>17, Iterated DEF t, old, base

\* What a step that writes the slots at cur_idx and merge_into_idx leaves of
\* the others.
LEMMA MergeWrites ==
    ASSUME TasksInv, NEW s \in DOMAIN tasks, Iterating(s),
           NEW atCur, NEW atMerge, IsOp(atCur), IsOp(atMerge),
           LET t == tasks[s]
               cur == Slot(t, t.split.state.cur_idx)
               merge == Slot(t, t.split.state.merge_into_idx)
           IN  /\ DOMAIN operations' = DOMAIN operations
               /\ \A k \in DOMAIN operations :
                     operations'[k] = IF k = cur THEN atCur
                                      ELSE IF k = merge THEN atMerge ELSE operations[k]
               /\ IsNull(atCur) \/ operations[cur] = atCur
    PROVE  /\ WritesOnlyIn(s)
           /\ IsNull(operations'[tasks[s].seq.base])
<1> DEFINE t == tasks[s]
           cur == Slot(t, t.split.state.cur_idx)
           merge == Slot(t, t.split.state.merge_into_idx)
           base == t.seq.base
<1>1. /\ base \in Nat /\ t.seq.num_ops \in Nat \ {0}
      /\ t.split.state.cur_idx \in Nat /\ t.split.state.merge_into_idx \in Nat
      /\ t.split.state.cur_idx <= t.split.state.merge_into_idx
      /\ cur = base + t.split.state.cur_idx
      /\ merge = base + t.split.state.merge_into_idx
      /\ cur \in Region(t) /\ merge \in Region(t)
  BY IterationSlots
<1>2. /\ \A k \in DOMAIN operations : IsOp(operations[k])
      /\ Region(t) \subseteq DOMAIN operations
      /\ IsNull(operations[base])
  BY DEF TasksInv, TaskInv
<1>3. WritesOnlyIn(s)
  BY <1>1, <1>2 DEF WritesOnlyIn
<1>4. base \in DOMAIN operations /\ (base = merge => base = cur)
  BY <1>1, <1>2 DEF Region
<1>5. IsNull(operations'[base])
  BY <1>2, <1>4
<1> QED
  BY <1>3, <1>5

LEMMA MovePostfixKeepsInv ==
    ASSUME TasksInv, NEW s \in DOMAIN tasks, MovePostfixToScratch(s)
    PROVE  TasksInv' /\ NoInterference
<1> DEFINE t == tasks[s]
           old == t.split.state
           op == CurOp(t)
           base == t.seq.base
           cur == Slot(t, old.cur_idx)
           merge == Slot(t, old.merge_into_idx)
           target == PartitionTarget(t, op.target)
           incrs == IncrSum(old.incr_array, target)
           stack == old.scratch[target]
           moved == AddFull(op, incrs + old.all_full_incr - Last(stack).full)
           all_full_incr == old.all_full_incr + op.full
           above == AddFull(NoImpact, incrs + all_full_incr)
           pushed == Front(stack) \o <<moved, above>>
           scratch == [old.scratch EXCEPT ![target] = pushed]
           incr_array == IncrUpdated(old.incr_array, target)
           st == [old EXCEPT !.incr_array = incr_array,
                             !.all_full_incr = all_full_incr,
                             !.scratch = scratch,
                             !.cur_idx = @ - 1]
           n == t.split.i
           atCur == IF cur # merge THEN NoImpact ELSE MakeNull(AddFull(op, IncAmnt))
           atMerge == AddFull(operations[merge], op.full + IncAmnt)
<1>1. /\ Iterating(s)
      /\ operations' =
             IF cur # merge
             THEN [operations EXCEPT ![merge] = AddFull(operations[merge], op.full + IncAmnt),
                                     ![cur] = NoImpact]
             ELSE [operations EXCEPT ![cur] = MakeNull(AddFull(op, IncAmnt))]
      /\ SetTask(s, InState(t, "partition", st))
  BY DEF MovePostfixToScratch
<1>2. /\ old.cur_idx \in Nat /\ old.merge_into_idx \in Nat
      /\ old.cur_idx <= old.merge_into_idx
      /\ old.merge_into_idx < t.seq.num_ops
      /\ cur \in DOMAIN operations /\ merge \in DOMAIN operations
      /\ IsOp(operations[cur]) /\ IsOp(operations[merge])
      /\ merge # cur => IsNull(operations[merge])
      /\ LoopInv(t, operations) /\ Shaped(t)
      /\ t.seq.num_ops \in Nat
  BY <1>1, IterationSlots
<1>3. /\ IsOp(op) /\ IsOp(moved) /\ IsOp(above)
  BY <1>2, AddFullKeepsTarget, NoImpactIsNull DEF CurOp
<1>4. /\ \A p \in 0..(n - 1) : p \in DOMAIN old.scratch /\ IsStack(old.scratch[p])
      /\ IsFiniteSet(Waiting(old.scratch, n))
      /\ old.cur_idx + Cardinality(Waiting(old.scratch, n)) + 0 <= old.merge_into_idx
  BY <1>1, <1>2 DEF LoopInv, Iterating
<1>5. target \in 0..(n - 1) => IsStack(pushed) /\ Len(pushed) = Len(stack) + 1
  <2> HIDE DEF target, moved, above, n
  <2> QED
    BY <1>3, <1>4, StackPushed
<1>6. /\ st.cur_idx = old.cur_idx - 1 /\ st.merge_into_idx = old.merge_into_idx
      /\ st.scratch = scratch /\ DOMAIN st = StateFields
  <2> HIDE DEF incr_array, all_full_incr, scratch, old
  <2>1. DOMAIN old = StateFields
    BY <1>2 DEF Shaped, old
  <2> QED
    BY <2>1 DEF StateFields
<1>7. /\ IsOp(atCur) /\ IsNull(atCur)
      /\ IsOp(atMerge) /\ (IsNull(atMerge) <=> IsNull(operations[merge]))
  BY <1>2, <1>3, AddFullKeepsTarget, MakeNullIsNull, NoImpactIsNull
<1> HIDE DEF target, moved, above, pushed, stack, st, incr_array, all_full_incr, op
<1>8. /\ DOMAIN operations' = DOMAIN operations
      /\ \A k \in DOMAIN operations :
            operations'[k] = IF k = cur THEN atCur
                             ELSE IF k = merge THEN atMerge ELSE operations[k]
  <2>1. CASE cur # merge
    BY <1>1, <2>1, TwoWrites
  <2>2. CASE cur = merge
    BY <1>1, <2>2
  <2> QED
    BY <2>1, <2>2
<1> HIDE DEF atCur, atMerge, cur, merge
<1>9. WritesOnlyIn(s) /\ IsNull(operations'[base])
  BY <1>1, <1>7, <1>8, MergeWrites DEF cur, merge
<1>10. /\ \A p \in 0..(n - 1) : p \in DOMAIN scratch /\ IsStack(scratch[p])
       /\ \A p \in 0..(n - 1) : Len(old.scratch[p]) \in Nat \ {0}
  BY <1>4, <1>5 DEF IsStack
<1>11. /\ IsFiniteSet(Waiting(scratch, n))
       /\ Cardinality(Waiting(scratch, n)) <= Cardinality(Waiting(old.scratch, n)) + 1
  <2>1. target \in 0..(n - 1) => Len(pushed) = Len(old.scratch[target]) + 1
    BY <1>5 DEF stack
  <2>2. \A p \in 0..(n - 1) : p \in DOMAIN old.scratch /\ Len(old.scratch[p]) \in Nat \ {0}
    BY <1>4, <1>10
  <2> HIDE DEF n, old
  <2> QED
    BY <1>4, <2>1, <2>2, WaitingPushed
<1>12. LoopInv(InState(t, "partition", st), operations')
  <2>1. /\ Cardinality(Waiting(scratch, n)) \in Nat
        /\ Cardinality(Waiting(old.scratch, n)) \in Nat
    BY <1>4, <1>11, FS_CardinalityType
  <2> DEFINE w == Cardinality(Waiting(scratch, n))
             w0 == Cardinality(Waiting(old.scratch, n))
  <2>2. st.cur_idx + w + 0 <= st.merge_into_idx
    <3>1. w \in Nat /\ w0 \in Nat /\ w <= w0 + 1 /\ old.cur_idx + w0 + 0 <= old.merge_into_idx
      BY <1>4, <1>11, <2>1
    <3> HIDE DEF w, w0
    <3> QED
      BY <1>2, <1>6, <3>1
  <2>3. \A k \in DOMAIN operations :
            operations'[k] = operations[k] \/ IsNull(operations'[k])
    BY <1>2, <1>7, <1>8
  <2>4. IsNull(operations'[cur])
    BY <1>2, <1>7, <1>8
  <2>5. st.merge_into_idx \in Int /\ st.merge_into_idx <= old.merge_into_idx
    BY <1>2, <1>6
  <2>6. \A p \in 0..(n - 1) : p \in DOMAIN st.scratch /\ IsStack(st.scratch[p])
    BY <1>6, <1>10
  <2>7. /\ IsFiniteSet(Waiting(st.scratch, n))
        /\ st.cur_idx + Cardinality(Waiting(st.scratch, n)) + 0 <= st.merge_into_idx
    BY <1>6, <1>11, <2>2
  <2> HIDE DEF scratch, w, w0
  <2> QED
    BY <1>1, <1>6, <2>3, <2>4, <2>5, <2>6, <2>7, LoopGoesOn DEF cur
<1>13. SetTask(s, InState(t, "partition", st))
  BY <1>1
<1> QED
  BY <1>1, <1>6, <1>9, <1>12, <1>13, Iterated

LEMMA KeepOnRightKeepsInv ==
    ASSUME TasksInv, NEW s \in DOMAIN tasks, KeepOnRight(s)
    PROVE  TasksInv' /\ NoInterference
<1> DEFINE t == tasks[s]
           old == t.split.state
           op == CurOp(t)
           base == t.seq.base
           cur == Slot(t, old.cur_idx)
           merge == Slot(t, old.merge_into_idx)
           kept == IF merge = cur THEN op ELSE AddFull(op, operations[merge].full)
           all_full_incr == old.all_full_incr + FullIncrToLeft(op, LeftEnd(t) + 1)
           st == [old EXCEPT !.all_full_incr = all_full_incr,
                             !.merge_into_idx = NextMergeIdx(@, kept),
                             !.cur_idx = @ - 1]
           n == t.split.i
           atCur == IF merge = cur THEN op ELSE NoImpact
<1>1. /\ Iterating(s)
      /\ operations' = IF merge = cur
                       THEN operations
                       ELSE [operations EXCEPT ![merge] = kept, ![cur] = NoImpact]
      /\ SetTask(s, InState(t, "partition", st))
  BY DEF KeepOnRight
<1>2. /\ old.cur_idx \in Nat /\ old.merge_into_idx \in Nat
      /\ old.cur_idx <= old.merge_into_idx
      /\ cur \in DOMAIN operations /\ merge \in DOMAIN operations
      /\ IsOp(operations[cur]) /\ IsOp(operations[merge])
      /\ cur = base + old.cur_idx /\ merge = base + old.merge_into_idx /\ base \in Nat
      /\ LoopInv(t, operations) /\ Shaped(t)
      /\ op = operations[cur]
  BY <1>1, IterationSlots DEF CurOp
<1>3. /\ IsOp(op) /\ IsOp(kept) /\ IsOp(NoImpact) /\ IsNull(NoImpact)
      /\ IsNull(kept) <=> IsNull(op)
  BY <1>2, AddFullKeepsTarget, NoImpactIsNull
<1>4. /\ st.cur_idx = old.cur_idx - 1
      /\ st.merge_into_idx = IF IsNull(kept) THEN old.merge_into_idx
                             ELSE old.merge_into_idx - 1
      /\ st.scratch = old.scratch /\ DOMAIN st = StateFields
  <2> HIDE DEF all_full_incr, old, kept
  <2>1. DOMAIN old = StateFields
    BY <1>2 DEF Shaped, old
  <2> QED
    BY <2>1 DEF StateFields, NextMergeIdx
<1> HIDE DEF st, op, kept
<1>5. /\ DOMAIN operations' = DOMAIN operations
      /\ \A k \in DOMAIN operations :
            operations'[k] = IF k = cur THEN atCur
                             ELSE IF k = merge THEN kept ELSE operations[k]
      /\ IsOp(atCur)
      /\ IsNull(atCur) \/ operations[cur] = atCur
  <2>1. CASE merge # cur
    BY <1>1, <1>3, <2>1, TwoWrites
  <2>2. CASE cur = merge
    BY <1>1, <1>2, <1>3, <2>2
  <2> QED
    BY <2>1, <2>2
<1>6. WritesOnlyIn(s) /\ IsNull(operations'[base])
  <2> HIDE DEF atCur
  <2> QED
    BY <1>1, <1>3, <1>5, MergeWrites
<1>7. LoopInv(InState(t, "partition", st), operations')
  <2> DEFINE w == Cardinality(Waiting(st.scratch, n))
  <2>1. /\ \A p \in 0..(n - 1) : p \in DOMAIN st.scratch /\ IsStack(st.scratch[p])
        /\ IsFiniteSet(Waiting(st.scratch, n))
        /\ old.cur_idx + w + 0 <= old.merge_into_idx
    BY <1>1, <1>2, <1>4 DEF LoopInv, Iterating
  <2>2. w \in Nat
    BY <2>1, FS_CardinalityType
  <2>3. st.cur_idx + w + 0 <= st.merge_into_idx
    <3>1. w \in Nat /\ old.cur_idx + w + 0 <= old.merge_into_idx
      BY <2>1, <2>2
    <3> HIDE DEF w
    <3> QED
      BY <1>2, <1>4, <3>1
  <2>4. st.merge_into_idx \in Int /\ st.merge_into_idx <= old.merge_into_idx
    BY <1>2, <1>4
  <2>5. ~IsNull(kept) => st.merge_into_idx < old.merge_into_idx
    BY <1>2, <1>4
  <2>6. \A k \in DOMAIN operations :
            \/ operations'[k] = operations[k]
            \/ IsNull(operations'[k])
            \/ k = merge /\ st.merge_into_idx < old.merge_into_idx
    BY <1>2, <1>3, <1>5, <2>5
  <2>7. IsNull(operations'[cur]) \/ st.merge_into_idx < old.cur_idx
    <3>1. CASE merge # cur
      BY <1>2, <1>3, <1>5, <3>1
    <3>2. CASE merge = cur
      <4>1. old.merge_into_idx = old.cur_idx
        BY <1>2, <3>2
      <4>2. operations'[cur] = op
        BY <1>2, <1>5, <3>2
      <4> QED
        BY <1>3, <2>5, <4>1, <4>2
    <3> QED
      BY <3>1, <3>2
  <2>8. st.cur_idx + Cardinality(Waiting(st.scratch, n)) + 0 <= st.merge_into_idx
    BY <2>3
  <2> HIDE DEF w
  <2> QED
    BY <1>1, <1>4, <2>1, <2>4, <2>6, <2>7, <2>8, LoopGoesOn
<1>8. SetTask(s, InState(t, "partition", st))
  BY <1>1
<1> QED
  BY <1>1, <1>4, <1>6, <1>7, <1>8, Iterated

LEMMA TaskUntouched ==
    ASSUME TasksInv, NEW s \in DOMAIN tasks, operations' = operations
    PROVE  WritesOnlyIn(s)
BY DEF TasksInv, WritesOnlyIn

LEMMA NewTaskInv ==
    ASSUME NEW seq \in ProjSequences, seq.start <= seq.end,
           NEW ops, seq.base..(seq.base + seq.num_ops - 1) \subseteq DOMAIN ops,
           IsNull(ops[seq.base])
    PROVE  TaskInv(NewTask(seq), ops)
BY DEF TaskInv, NewTask, TaskFields, Region

\* The scratch spaces of a new PartitionState are empty but for a Null each.
LEMMA NewLoop ==
    ASSUME NEW num_ops \in Nat \ {0}, NEW n \in Nat, n <= Branching - 1
    PROVE  LET st == NewPartitionState(num_ops)
           IN  /\ DOMAIN st = StateFields
               /\ st.cur_idx \in Int /\ st.cur_idx = st.merge_into_idx
               /\ st.merge_into_idx < num_ops
               /\ \A p \in 0..(n - 1) : p \in DOMAIN st.scratch /\ IsStack(st.scratch[p])
               /\ Waiting(st.scratch, n) = {}
<1> DEFINE st == NewPartitionState(num_ops)
           q == <<NoImpact>>
<1>1. /\ DOMAIN st = StateFields
      /\ st.cur_idx = AsInt(num_ops - 1) /\ st.merge_into_idx = AsInt(num_ops - 1)
      /\ st.scratch = EmptyScratch
  BY DEF NewPartitionState, StateFields
<1>2. AsInt(num_ops - 1) \in Int /\ AsInt(num_ops - 1) <= num_ops - 1
  BY AsIntBound
<1>3. IsStack(q) /\ Len(q) = 1
  <2>1. Len(q) = 1 /\ q[1] = NoImpact /\ q \in Seq({NoImpact})
    OBVIOUS
  <2>2. {q[j] : j \in 1..Len(q)} = {NoImpact}
    BY <2>1
  <2> HIDE DEF q
  <2> QED
    BY <2>1, <2>2, NoImpactIsNull DEF IsStack
<1>4. \A p \in 0..(n - 1) : p \in DOMAIN EmptyScratch /\ EmptyScratch[p] = q
  BY BranchingAssumption DEF EmptyScratch
<1> HIDE DEF st, q
<1>5. Waiting(st.scratch, n) = {}
  <2> SUFFICES ASSUME NEW w \in Waiting(st.scratch, n) PROVE FALSE
    OBVIOUS
  <2>1. w[1] \in 0..(n - 1) /\ w[2] \in 1..(Len(st.scratch[w[1]]) - 1)
    BY DEF Waiting
  <2>2. Len(st.scratch[w[1]]) = 1
    BY <1>1, <1>3, <1>4, <2>1
  <2> QED
    BY <2>1, <2>2
<1>6. st.cur_idx \in Int /\ st.cur_idx = st.merge_into_idx /\ st.merge_into_idx < num_ops
  BY <1>1, <1>2
<1> QED
  BY <1>1, <1>3, <1>4, <1>5, <1>6 DEF st

LEMMA DoProjectionsKeepsInv ==
    ASSUME TasksInv, NEW s \in DOMAIN tasks, DoProjections(s)
    PROVE  TasksInv' /\ NoInterference
<1> DEFINE t == tasks[s]
           dist == Size(t.seq)
           np == Min({dist, Branching})
           local == [idx |-> 0, full_amnt |-> 0,
                     distances |-> [j \in t.seq.start..t.seq.end |-> 0]]
           state == NewPartitionState(t.seq.num_ops)
           split == [dist |-> dist, num_partitions |-> np, last |-> t.seq.end,
                     i |-> np - 1, state |-> state]
           small == [t EXCEPT !.pc = "base_case", !.local = local]
           large == [t EXCEPT !.pc = "partition", !.split = split]
<1>1. /\ t.pc = "do_projections"
      /\ SetTask(s, IF IsSmall(t.seq) THEN small ELSE large)
      /\ operations' = operations
  BY DEF DoProjections
<1>2. /\ TaskInv(t, operations) /\ DOMAIN t = TaskFields
      /\ t.seq \in ProjSequences /\ t.seq.start \in Nat \ {0} /\ t.seq.end \in Nat
      /\ t.seq.num_ops \in Nat \ {0}
      /\ t.seq.start <= t.seq.end
      /\ Region(t) \subseteq DOMAIN operations
      /\ IsNull(operations[t.seq.base])
  BY DEF TasksInv, TaskInv, ProjSequences
<1>3. WritesOnlyIn(s)
  BY <1>1, TaskUntouched
<1>4. CASE IsSmall(t.seq)
  <2>1. /\ DOMAIN small = TaskFields
        /\ small.pc = "base_case"
        /\ small.seq = t.seq
    <3> HIDE DEF local
    <3> QED
      BY <1>2 DEF TaskFields
  <2> HIDE DEF small
  <2>2. TaskInv(small, operations')
    BY <1>1, <1>2, <2>1 DEF TaskInv, Region
  <2>3. small # t
    BY <1>1, <2>1
  <2> QED
    BY <1>1, <1>3, <1>4, <2>1, <2>2, <2>3, TaskGoesOn
<1>5. CASE ~IsSmall(t.seq)
  <2>1. /\ dist \in Nat /\ dist >= 2
        /\ dist = t.seq.end - t.seq.start + 1
    BY <1>2, <1>5, BaseCaseAssumption DEF Size, IsSmall
  <2>2. np \in 2..dist /\ np <= Branching /\ Branching \in Nat
    <3>1. np = IF dist <= Branching THEN dist ELSE Branching
      <4>1. \A x \in {dist, Branching} :
              (\A y \in {dist, Branching} : x <= y) =>
                  x = IF dist <= Branching THEN dist ELSE Branching
        BY <2>1, BranchingAssumption
      <4>2. \E x \in {dist, Branching} : \A y \in {dist, Branching} : x <= y
        BY <2>1, BranchingAssumption
      <4> HIDE DEF dist
      <4> QED
        BY <4>1, <4>2 DEF Min
    <3> QED
      BY <2>1, <3>1, BranchingAssumption
  <2> HIDE DEF np, dist, state
  <2>3. /\ DOMAIN split = SplitFields
        /\ split.dist = dist /\ split.num_partitions = np /\ split.last = t.seq.end
        /\ split.i = np - 1 /\ split.state = state
    BY DEF SplitFields
  <2> HIDE DEF split
  <2>4. /\ DOMAIN large = TaskFields
        /\ large.pc = "partition"
        /\ large.seq = t.seq
        /\ large.split = split
    BY <1>2 DEF TaskFields
  <2> HIDE DEF large
  <2>5. RangeInv(large)
    <3>1. EndAt(split, np) = t.seq.end
      <4>1. EndAt(split, np) = (t.seq.end * np - (np - np) * dist) \div np
        BY <2>3 DEF EndAt
      <4>2. (np - np) * dist = 0 /\ t.seq.end * np = np * t.seq.end
        BY <1>2, <2>1, <2>2
      <4>3. EndAt(split, np) = (np * t.seq.end) \div np
        BY <1>2, <2>2, <4>1, <4>2
      <4>4. /\ np * t.seq.end \in Int /\ np \in Nat \ {0}
            /\ (np * t.seq.end) \div np \in Int
            /\ np * ((np * t.seq.end) \div np) <= np * t.seq.end
            /\ np * t.seq.end < np * ((np * t.seq.end) \div np) + np
        BY <1>2, <2>2, Quotient
      <4> DEFINE q == (np * t.seq.end) \div np
      <4>5. q \in Int /\ np * q <= np * t.seq.end /\ np * t.seq.end < np * q + np
        BY <4>4
      <4> HIDE DEF q
      <4>6. t.seq.end <= q
        BY <1>2, <4>4, <4>5, CancelFactor
      <4>7. q <= t.seq.end
        <5>1. np * q < np * t.seq.end + np
          BY <1>2, <4>4, <4>5
        <5> QED
          BY <1>2, <4>4, <4>5, <5>1, CancelFactor
      <4> QED
        BY <1>2, <4>3, <4>5, <4>6, <4>7 DEF q
    <3>2. np - 1 + 1 = np /\ np - 1 \in 1..(np - 1)
      BY <2>1, <2>2
    <3>3. t.seq.end - dist + 1 = t.seq.start
      BY <1>2, <2>1
    <3> QED
      BY <1>2, <2>1, <2>2, <2>3, <2>4, <3>1, <3>2, <3>3 DEF RangeInv
  <2>6. LoopInv(large, operations')
    <3>1. /\ state.cur_idx \in Int /\ state.cur_idx = state.merge_into_idx
          /\ state.merge_into_idx < t.seq.num_ops
          /\ \A p \in 0..(np - 1 - 1) : p \in DOMAIN state.scratch /\ IsStack(state.scratch[p])
          /\ Waiting(state.scratch, np - 1) = {}
      <4>1. np - 1 \in Nat /\ np - 1 <= Branching - 1 /\ t.seq.num_ops \in Nat \ {0}
        BY <1>2, <2>1, <2>2
      <4> QED
        BY <4>1, NewLoop, Zenon DEF state
    <3>2. /\ IsFiniteSet(Waiting(state.scratch, np - 1))
          /\ Cardinality(Waiting(state.scratch, np - 1)) = 0
      BY <3>1, FS_EmptySet
    <3>3. state.cur_idx + 0 + 0 <= state.merge_into_idx
      BY <3>1
    <3>4. \A k \in 0..state.merge_into_idx : ~(k > state.cur_idx)
      BY <3>1
    <3> QED
      BY <2>3, <2>4, <3>1, <3>2, <3>3, <3>4 DEF LoopInv
  <2>7. DOMAIN state = StateFields
    <3>1. 0 \in Nat /\ 0 <= Branching - 1
      BY <2>2
    <3> QED
      BY <1>2, <3>1, NewLoop DEF state
  <2>8. TaskInv(large, operations')
    BY <1>1, <1>2, <2>3, <2>4, <2>5, <2>6, <2>7 DEF TaskInv, Region, Shaped
  <2>9. large # t
    BY <1>1, <2>4
  <2> QED
    BY <1>1, <1>3, <1>5, <2>4, <2>8, <2>9, TaskGoesOn
<1> QED
  BY <1>4, <1>5

LEMMA ApplyOperationKeepsInv ==
    ASSUME TasksInv, NEW s \in DOMAIN tasks, ApplyOperation(s)
    PROVE  TasksInv' /\ NoInterference
<1> DEFINE t == tasks[s]
<1>1. PICK local : SetTask(s, [t EXCEPT !.local = local])
  BY DEF ApplyOperation
<1> DEFINE after == [t EXCEPT !.local = local]
<1>2. operations' = operations /\ t.pc = "base_case"
  BY DEF ApplyOperation
<1>3. TaskInv(t, operations) /\ DOMAIN t = TaskFields
  BY DEF TasksInv, TaskInv
<1>4. DOMAIN after = TaskFields /\ after.pc = "base_case" /\ after.seq = t.seq
  BY <1>2, <1>3 DEF TaskFields
<1> HIDE DEF after
<1>5. TaskInv(after, operations')
  BY <1>2, <1>3, <1>4 DEF TaskInv, Region
<1>6. SetTask(s, after)
  BY <1>1 DEF after
<1> QED
  BY <1>2, <1>4, <1>5, <1>6, TaskUntouched, TaskGoesOn

LEMMA EndBaseCaseKeepsInv ==
    ASSUME TasksInv, NEW s \in DOMAIN tasks, EndBaseCase(s)
    PROVE  TasksInv' /\ NoInterference
BY TaskEnds DEF EndBaseCase

\* The end of a partitioning: what waits is put back into freed slots, and the
\* vector is cut at merge_into_idx.
LEMMA SplitOffKeepsInv ==
    ASSUME TasksInv, NEW s \in DOMAIN tasks, SplitOff(s)
    PROVE  TasksInv' /\ NoInterference
<1> DEFINE t == tasks[s]
           old == t.split.state
           i == t.split.i
           stack == old.scratch[i - 1]
           moved == Front(stack)
           merge == old.merge_into_idx
           null_idx == NullIdx(merge, Len(moved))
           incrs_to_end == IncrSum(old.incr_array, i - 1)
           left == LeftSide(t)
           right == RightSide(t)
           null_op == AddFull(operations[Slot(t, null_idx)],
                              old.all_full_incr + incrs_to_end - Last(stack).full)
           incr_array == IncrUpdated(old.incr_array, i - 1)
           scratch == [old.scratch EXCEPT ![i - 1] = <<>>]
           st == [old EXCEPT !.incr_array = incr_array,
                             !.scratch = scratch,
                             !.merge_into_idx = null_idx]
           stepped == [t EXCEPT !.seq = left, !.split = [t.split EXCEPT !.i = @ - 1]]
           continued == InState(stepped, "partition", st)
           goingOn == IF i = 1 THEN NewTask(left) ELSE continued
           base == t.seq.base
           end == LeftEnd(t)
           n == t.seq.num_ops
<1>1. /\ t.pc = "split"
      /\ operations' = [k \in DOMAIN operations |->
             IF k \in Slot(t, merge - Len(moved))..Slot(t, merge - 1)
             THEN moved[Slot(t, merge) - k]
             ELSE IF k = Slot(t, null_idx) THEN null_op ELSE operations[k]]
      /\ tasks' = [u \in DOMAIN tasks \cup {right.start} |->
             IF u = right.start THEN NewTask(right)
             ELSE IF u # s THEN tasks[u] ELSE goingOn]
  BY DEF SplitOff
<1>2. /\ TaskInv(t, operations) /\ RangeInv(t) /\ LoopInv(t, operations) /\ Shaped(t)
      /\ DOMAIN t = TaskFields
      /\ t.seq.start = s /\ s \in Nat \ {0} /\ t.seq.end \in Nat
      /\ base \in Nat /\ n \in Nat \ {0}
      /\ Region(t) \subseteq DOMAIN operations
      /\ IsNull(operations[base])
      /\ \A k \in DOMAIN operations : IsOp(operations[k])
  BY <1>1 DEF TasksInv, TaskInv, ProjSequences
<1>3. /\ old.cur_idx \in Int /\ merge \in Int /\ merge < n
      /\ \A p \in 0..(i - 1) : p \in DOMAIN old.scratch /\ IsStack(old.scratch[p])
      /\ IsFiniteSet(Waiting(old.scratch, i))
      /\ old.cur_idx + Cardinality(Waiting(old.scratch, i)) + 1 <= merge
      /\ old.cur_idx >= 0
      /\ \A k \in 0..merge : k > old.cur_idx => IsNull(operations[base + k])
  BY <1>1, <1>2 DEF LoopInv
<1>4. /\ i \in Nat \ {0} /\ i - 1 \in 0..(i - 1)
      /\ i \in 1..(t.split.num_partitions - 1)
      /\ t.split.num_partitions \in Nat
  BY <1>2 DEF RangeInv
<1>5. /\ end = EndAt(t.split, i) /\ end \in Nat /\ s <= end /\ end < t.seq.end
  BY <1>2, EndsIncrease
<1>6. /\ Len(stack) \in Nat \ {0}
      /\ Len(moved) = Len(stack) - 1
      /\ \A j \in 1..(Len(stack) - 1) : moved[j] = stack[j] /\ IsOp(stack[j])
  <2>1. IsStack(stack)
    BY <1>3, <1>4
  <2> HIDE DEF stack
  <2> DEFINE T == {stack[j] : j \in 1..Len(stack)}
             l == Len(stack)
  <2>2. l \in Nat \ {0} /\ stack \in Seq(T) /\ \A j \in 1..l : IsOp(stack[j])
    BY <2>1 DEF IsStack
  <2>3. \A j \in 1..l : stack[j] \in T
    OBVIOUS
  <2> HIDE DEF T, l
  <2>4. 1 \in Int /\ l - 1 \in Int /\ \A j \in 1..(l - 1) : stack[j] \in T
    BY <2>2, <2>3 DEF l
  <2>5. /\ Len(SubSeq(stack, 1, l - 1)) = IF 1 <= l - 1 THEN l - 1 - 1 + 1 ELSE 0
        /\ \A j \in 1..(l - 1 - 1 + 1) : SubSeq(stack, 1, l - 1)[j] = stack[1 + j - 1]
    BY <2>4, SubSeqProperties
  <2>6. moved = SubSeq(stack, 1, l - 1)
    BY DEF Front, l
  <2> HIDE DEF moved
  <2>7. Len(moved) = l - 1
    BY <2>2, <2>5, <2>6
  <2>8. \A j \in 1..(l - 1) : moved[j] = stack[j] /\ IsOp(stack[j])
    <3> SUFFICES ASSUME NEW j \in 1..(l - 1) PROVE moved[j] = stack[j] /\ IsOp(stack[j])
      OBVIOUS
    <3>1. j \in 1..l /\ j \in 1..(l - 1 - 1 + 1) /\ 1 + j - 1 = j
      BY <2>2
    <3> QED
      BY <2>2, <2>5, <2>6, <3>1
  <2> QED
    BY <2>2, <2>7, <2>8 DEF l
<1> DEFINE w0 == Cardinality(Waiting(old.scratch, i))
           w == Cardinality(Waiting(scratch, i - 1))
<1>7. /\ IsFiniteSet(Waiting(scratch, i - 1))
      /\ w \in Nat /\ w0 \in Nat
      /\ w + (Len(stack) - 1) <= w0
  <2>1. \A p \in 0..(i - 1) : p \in DOMAIN old.scratch /\ Len(old.scratch[p]) \in Nat \ {0}
    BY <1>3 DEF IsStack
  <2>2. /\ IsFiniteSet(Waiting(scratch, i - 1))
        /\ w + (Len(stack) - 1) <= w0
    <3> HIDE DEF i, old
    <3> QED
      BY <1>3, <1>4, <2>1, WaitingPopped
  <2> QED
    BY <1>3, <2>2, FS_CardinalityType
<1> DEFINE l == Len(stack) - 1
<1>8. /\ l \in Nat /\ null_idx = merge - l - 1
      /\ null_idx \in Nat /\ merge \in Nat \ {0} /\ null_idx < merge
      /\ old.cur_idx + w <= null_idx /\ old.cur_idx \in Nat
  <2>1. l \in Nat /\ null_idx = merge - l - 1
    BY <1>6 DEF NullIdx
  <2>2. old.cur_idx + w0 + 1 <= merge /\ w + l <= w0
    BY <1>3, <1>7
  <2> HIDE DEF w, w0, l, null_idx, old
  <2>3. merge \in Int /\ old.cur_idx \in Int /\ old.cur_idx >= 0 /\ w \in Nat /\ w0 \in Nat
    BY <1>3, <1>7
  <2> HIDE DEF merge
  <2> QED
    BY <2>1, <2>2, <2>3
<1>9. /\ left = ProjSequence(s, end, base, merge)
      /\ right = ProjSequence(end + 1, t.seq.end, base + merge, n - merge)
  BY <1>2 DEF LeftSide, RightSide
<1>10. /\ IsOp(null_op)
       /\ IsNull(operations[base + null_idx]) => IsNull(null_op)
       /\ base + null_idx \in DOMAIN operations
  <2>1. base + null_idx \in DOMAIN operations
    <3>1. null_idx \in Nat /\ null_idx < n
      BY <1>2, <1>3, <1>8
    <3> HIDE DEF null_idx
    <3> QED
      BY <1>2, <3>1 DEF Region
  <2>2. IsOp(operations[base + null_idx])
    BY <1>2, <2>1
  <2> HIDE DEF null_idx
  <2> QED
    BY <2>1, <2>2, AddFullKeepsTarget DEF Slot
<1> HIDE DEF null_op, moved, stack, null_idx, scratch, w, w0, old, incr_array, merge, i, l
<1>11. /\ DOMAIN operations' = DOMAIN operations
       /\ \A k \in DOMAIN operations :
             operations'[k] = IF k \in (base + (merge - l))..(base + (merge - 1))
                              THEN moved[(base + merge) - k]
                              ELSE IF k = base + null_idx THEN null_op ELSE operations[k]
  <2>1. /\ Len(moved) = l
        /\ Slot(t, merge - l) = base + (merge - l)
        /\ Slot(t, merge - 1) = base + (merge - 1)
        /\ Slot(t, merge) = base + merge
        /\ Slot(t, null_idx) = base + null_idx
    BY <1>6 DEF Slot, l
  <2> HIDE DEF base
  <2> QED
    BY <1>1, <2>1
<1>12. \A k \in (base + (merge - l))..(base + (merge - 1)) :
          /\ IsOp(moved[(base + merge) - k])
          /\ k \in Region(t)
  <2> SUFFICES ASSUME NEW k \in (base + (merge - l))..(base + (merge - 1))
               PROVE  IsOp(moved[(base + merge) - k]) /\ k \in Region(t)
    OBVIOUS
  <2>1. (base + merge) - k \in 1..l
    BY <1>2, <1>8
  <2>2. merge - l >= 0
    BY <1>8
  <2>3. k \in base..(base + n - 1)
    BY <1>2, <1>3, <1>8, <2>2
  <2> QED
    BY <1>6, <2>1, <2>3 DEF l, Region
<1>13. WritesOnlyIn(s)
  <2>1. \A k \in DOMAIN operations : IsOp(operations'[k])
    BY <1>2, <1>10, <1>11, <1>12
  <2>2. base + null_idx \in Region(t)
    BY <1>2, <1>3, <1>8 DEF Region
  <2>3. \A k \in DOMAIN operations : k \notin Region(t) => operations'[k] = operations[k]
    BY <1>11, <1>12, <2>2
  <2> QED
    BY <1>11, <2>1, <2>3 DEF WritesOnlyIn
<1>14. ASSUME NEW k \in 0..null_idx, k > old.cur_idx \/ k = 0
       PROVE  IsNull(operations'[base + k])
  <2>1. k \in Nat /\ k <= merge /\ k < n
    BY <1>2, <1>3, <1>8
  <2>2. IsNull(operations[base + k])
    <3>1. CASE k > old.cur_idx
      BY <1>3, <2>1, <3>1
    <3>2. CASE k = 0
      <4>1. base + k = base
        BY <1>2, <3>2
      <4> QED
        BY <1>2, <4>1
    <3> QED
      BY <1>14, <3>1, <3>2
  <2>3. base + k \in DOMAIN operations
    BY <1>2, <2>1 DEF Region
  <2>4. base + k \notin (base + (merge - l))..(base + (merge - 1))
    BY <1>2, <1>8, <2>1
  <2>5. base + k = base + null_idx => IsNull(null_op)
    BY <1>10, <2>2
  <2> QED
    BY <1>11, <2>2, <2>3, <2>4, <2>5
<1>15. IsNull(operations'[base])
  <2>1. 0 \in 0..null_idx
    BY <1>8
  <2>2. base + 0 = base
    BY <1>2
  <2> QED
    BY <1>14, <2>1, <2>2
<1>16. IsNull(operations'[base + merge])
  <2>1. merge \in 0..merge /\ merge > old.cur_idx
    BY <1>3, <1>7, <1>8
  <2>2. base + merge \in DOMAIN operations
    BY <1>2, <1>3, <1>8 DEF Region
  <2>3. /\ base + merge \notin (base + (merge - l))..(base + (merge - 1))
        /\ base + merge # base + null_idx
    BY <1>2, <1>8
  <2> QED
    BY <1>3, <1>11, <2>1, <2>2, <2>3
<1>17. /\ left \in ProjSequences /\ right \in ProjSequences
       /\ left.start = s /\ left.end = end /\ left.base = base /\ left.num_ops = merge
       /\ right.start = end + 1 /\ right.end = t.seq.end
       /\ right.base = base + merge /\ right.num_ops = n - merge
  BY <1>2, <1>3, <1>5, <1>8, <1>9 DEF ProjSequence, ProjSequences
<1> HIDE DEF left, right, end, base, n
<1>18. /\ base..(base + merge - 1) \subseteq Region(t)
       /\ (base + merge)..(base + merge + (n - merge) - 1) \subseteq Region(t)
       /\ base..(base + merge - 1) \cap (base + merge)..(base + merge + (n - merge) - 1) = {}
  BY <1>2, <1>3, <1>8 DEF Region, base, n
<1>19. TaskInv(NewTask(right), operations')
  <2>1. right.start <= right.end
    BY <1>2, <1>5, <1>17
  <2>2. right.base..(right.base + right.num_ops - 1) \subseteq DOMAIN operations'
    BY <1>2, <1>11, <1>17, <1>18
  <2> QED
    BY <1>16, <1>17, <2>1, <2>2, NewTaskInv
<1>20. /\ TaskInv(goingOn, operations')
       /\ goingOn.seq = left
       /\ goingOn.pc # "split"
  <2>1. left.start <= left.end
    BY <1>5, <1>17
  <2>2. left.base..(left.base + left.num_ops - 1) \subseteq DOMAIN operations'
    BY <1>2, <1>11, <1>17, <1>18
  <2>3. CASE i = 1
    <3>1. TaskInv(NewTask(left), operations')
      BY <1>15, <1>17, <2>1, <2>2, NewTaskInv
    <3>2. NewTask(left).seq = left /\ NewTask(left).pc = "do_projections"
      BY DEF NewTask
    <3> QED
      BY <2>3, <3>1, <3>2
  <2>4. CASE i # 1
    <3> DEFINE sp == [t.split EXCEPT !.i = @ - 1]
    <3>1. /\ DOMAIN sp = SplitFields
          /\ sp.dist = t.split.dist
          /\ sp.num_partitions = t.split.num_partitions
          /\ sp.last = t.split.last
          /\ sp.i = i - 1
      BY <1>2 DEF SplitFields, Shaped, i
    <3> HIDE DEF sp
    <3>2. /\ DOMAIN stepped = TaskFields
          /\ stepped.seq = left
          /\ stepped.split = sp
      <4>1. stepped = [t EXCEPT !.seq = left, !.split = sp]
        BY DEF sp
      <4> HIDE DEF stepped
      <4> QED
        BY <1>2, <4>1 DEF TaskFields
    <3>3. /\ DOMAIN st = StateFields
          /\ st.cur_idx = old.cur_idx
          /\ st.merge_into_idx = null_idx
          /\ st.scratch = scratch
      BY <1>2 DEF Shaped, StateFields, old
    <3> HIDE DEF stepped, st
    <3>4. /\ DOMAIN continued = TaskFields
          /\ continued.pc = "partition"
          /\ continued.seq = left
          /\ DOMAIN continued.split = SplitFields
          /\ continued.split.dist = t.split.dist
          /\ continued.split.num_partitions = t.split.num_partitions
          /\ continued.split.last = t.split.last
          /\ continued.split.i = i - 1
          /\ continued.split.state = st
      BY <3>1, <3>2, InStateFields
    <3> HIDE DEF continued
    <3>5. RangeInv(continued)
      <4>1. i - 1 \in 1..(t.split.num_partitions - 1) /\ i - 1 + 1 = i
        BY <1>4, <2>4
      <4>2. EndAt(continued.split, i) = EndAt(t.split, i)
        BY <3>4 DEF EndAt
      <4>3. continued.seq.end = EndAt(continued.split, continued.split.i + 1)
        BY <1>5, <1>17, <3>4, <4>1, <4>2
      <4>4. continued.seq.start = t.seq.start
        BY <1>2, <1>17, <3>4
      <4> QED
        BY <1>2, <3>4, <4>1, <4>3, <4>4 DEF RangeInv
    <3>6. LoopInv(continued, operations')
      <4>1. \A p \in 0..(i - 1 - 1) : p \in DOMAIN scratch /\ scratch[p] = old.scratch[p]
                                      /\ IsStack(scratch[p])
        BY <1>3, <1>4 DEF scratch
      <4>2. old.cur_idx + w + 0 <= null_idx
        BY <1>7, <1>8
      <4>3. null_idx \in Int /\ null_idx < merge /\ old.cur_idx \in Int
        BY <1>8
      <4>4. \A k \in 0..null_idx : k > old.cur_idx => IsNull(operations'[base + k])
        BY <1>14
      <4> QED
        BY <1>7, <1>17, <3>3, <3>4, <4>1, <4>2, <4>3, <4>4 DEF LoopInv, w
    <3>7. TaskInv(continued, operations')
      <4>1. Region(continued) \subseteq DOMAIN operations'
        BY <2>2, <3>4 DEF Region
      <4> QED
        BY <1>15, <1>17, <2>1, <3>3, <3>4, <3>5, <3>6, <4>1 DEF TaskInv, Shaped
    <3> QED
      BY <2>4, <3>4, <3>7
  <2> QED
    BY <2>3, <2>4
<1>21. /\ NewTask(right).seq = right
       /\ Region(NewTask(right)) = (base + merge)..(base + merge + (n - merge) - 1)
  BY <1>17 DEF NewTask, Region
<1> HIDE DEF goingOn
<1>22. Region(goingOn) = base..(base + merge - 1)
  BY <1>17, <1>20 DEF Region
<1>23. /\ tasks' = [u \in DOMAIN tasks \cup {NewTask(right).seq.start} |->
                       IF u = NewTask(right).seq.start THEN NewTask(right)
                       ELSE IF u # s THEN tasks[u] ELSE goingOn]
       /\ NewTask(right).seq.start = end + 1
       /\ NewTask(right).seq.end = t.seq.end
       /\ goingOn.seq.start = s /\ goingOn.seq.end = end
       /\ goingOn # t
  BY <1>1, <1>17, <1>20, <1>21
<1>24. /\ end + 1 \in Nat /\ end < end + 1 /\ end \in Nat /\ s < end + 1
       /\ end + 1 <= t.seq.end
  BY <1>2, <1>5
<1> QED
  BY <1>13, <1>18, <1>19, <1>20, <1>21, <1>22, <1>23, <1>24, TaskSplits

-----------------------------------------------------------------------------
(* The invariant is inductive                                              *)

LEMMA InitIInv == Init => IInv
<1> SUFFICES ASSUME Init PROVE IInv
  OBVIOUS
<1>1. PICK n \in 1..MaxRequests : trace \in [1..n -> Addr]
  BY DEF Init, Traces
<1>2. n \in Nat \ {0} /\ trace \in [1..n -> Nat] /\ Len(trace) = n
  <2>1. Addr \subseteq Nat /\ MaxRequests \in Nat
    BY AddrAssumption, MaxRequestsAssumption
  <2>2. n \in Nat \ {0}
    BY <2>1
  <2>3. trace \in [1..n -> Nat]
    BY <1>1, <2>1
  <2> QED
    BY <2>2, <2>3
<1>3. requests = [i \in 1..n |-> [addr |-> trace[i], access_number |-> i]]
  BY <1>2 DEF Init, RequestVector
<1>4. Log(requests) /\ Len(requests) = n
  BY <1>2, <1>3, NumberedByPlace
<1>5. DOMAIN tasks = {}
  BY DEF Init
<1> QED
  BY <1>2, <1>4, <1>5 DEF IInv, Init

LEMMA StartProjectionsKeepsInv ==
    ASSUME IInv, StartProjections
    PROVE  IInv' /\ NoInterference
<1> DEFINE ops == Compact(operations)
           seq == ProjSequence(1, Len(requests), 0, Len(ops))
<1>1. /\ phase = "built" /\ phase' = "projecting"
      /\ operations' = FromZero(ops)
      /\ tasks' = [s \in {1} |-> NewTask(seq)]
      /\ requests' = requests
  BY DEF StartProjections
<1>2. /\ Log(requests) /\ Len(requests) \in Nat \ {0}
      /\ DOMAIN tasks = {}
      /\ operations = UncompactedOperations(requests)
  BY <1>1 DEF IInv
<1>3. /\ Len(ops) \in Nat \ {0}
      /\ \A k \in 1..Len(ops) : IsOp(ops[k])
      /\ IsNull(ops[1])
  BY <1>2, CompactedOperations
<1> HIDE DEF ops
<1>4. /\ DOMAIN operations' = 0..(Len(ops) - 1)
      /\ \A k \in 0..(Len(ops) - 1) : operations'[k] = ops[k + 1]
  BY <1>1 DEF FromZero
<1>5. \A k \in DOMAIN operations' : IsOp(operations'[k])
  <2>1. \A k \in 0..(Len(ops) - 1) : k + 1 \in 1..Len(ops)
    BY <1>3
  <2> QED
    BY <1>3, <1>4, <2>1
<1>6. TaskInv(NewTask(seq), operations')
  <2>1. /\ seq \in ProjSequences /\ seq.start <= seq.end
        /\ seq.base = 0 /\ seq.num_ops = Len(ops)
    BY <1>2, <1>3 DEF ProjSequence, ProjSequences
  <2> HIDE DEF seq
  <2>2. seq.base..(seq.base + seq.num_ops - 1) \subseteq DOMAIN operations'
    BY <1>3, <1>4, <2>1
  <2>3. IsNull(operations'[seq.base])
    <3>1. 0 \in 0..(Len(ops) - 1) /\ 0 + 1 = 1
      BY <1>3
    <3> QED
      BY <1>3, <1>4, <2>1, <3>1
  <2> QED
    BY <2>1, <2>2, <2>3, NewTaskInv
<1>7. /\ DOMAIN tasks' = {1} /\ tasks'[1] = NewTask(seq)
      /\ NewTask(seq).seq.start = 1
  BY <1>1 DEF NewTask, ProjSequence
<1> HIDE DEF seq
<1>8. RegionsDisjoint'
  <2>1. \A s, u \in DOMAIN tasks' : ~(s < u)
    BY <1>7
  <2> QED
    BY <2>1 DEF RegionsDisjoint
<1>9. TasksInv'
  BY <1>5, <1>6, <1>7, <1>8 DEF TasksInv
<1>10. NoInterference
  BY <1>2 DEF NoInterference
<1> QED
  BY <1>1, <1>2, <1>9, <1>10 DEF IInv

LEMMA TaskStepKeepsInv ==
    ASSUME TasksInv, NEW s \in DOMAIN tasks, TaskStep(s)
    PROVE  TasksInv' /\ NoInterference
<1>1. CASE DoProjections(s)
  BY <1>1, DoProjectionsKeepsInv
<1>2. CASE MergeBoundary(s)
  BY <1>2, MergeBoundaryKeepsInv
<1>3. CASE MovePostfixToScratch(s)
  BY <1>3, MovePostfixKeepsInv
<1>4. CASE KeepOnRight(s)
  BY <1>4, KeepOnRightKeepsInv
<1>5. CASE SplitOff(s)
  BY <1>5, SplitOffKeepsInv
<1>6. CASE ApplyOperation(s)
  BY <1>6, ApplyOperationKeepsInv
<1>7. CASE EndBaseCase(s)
  BY <1>7, EndBaseCaseKeepsInv
<1> QED
  BY <1>1, <1>2, <1>3, <1>4, <1>5, <1>6, <1>7 DEF TaskStep

\* Whatever leaves the tasks and their operations alone.
LEMMA StutterKeepsInv ==
    ASSUME tasks' = tasks, operations' = operations
    PROVE  /\ TasksInv => TasksInv'
           /\ NoInterference
<1>1. TasksInv => TasksInv'
  BY DEF TasksInv, RegionsDisjoint, Region
<1> QED
  BY <1>1 DEF NoInterference

LEMMA NextKeepsInv ==
    ASSUME IInv, [Next]_vars
    PROVE  IInv' /\ NoInterference
<1>1. CASE SortRequests
  <2>1. /\ phase = "called" /\ phase' = "sorted" /\ tasks' = tasks
        /\ requests' = SortedRequests(requests)
    BY <1>1 DEF SortRequests
  <2>2. Log(requests') /\ Len(requests') = Len(requests)
    BY <2>1, SortedLog DEF IInv
  <2>3. DOMAIN tasks = {}
    BY <2>1 DEF IInv
  <2> QED
    BY <2>1, <2>2, <2>3 DEF IInv, NoInterference
<1>2. CASE BuildOperations
  <2>1. /\ phase = "sorted" /\ phase' = "built" /\ tasks' = tasks
        /\ requests' = requests
        /\ operations' = UncompactedOperations(requests)
    BY <1>2 DEF BuildOperations
  <2>2. DOMAIN tasks = {}
    BY <2>1 DEF IInv
  <2> QED
    BY <2>1, <2>2 DEF IInv, NoInterference
<1>3. CASE StartProjections
  BY <1>3, StartProjectionsKeepsInv
<1>4. CASE \E s \in DOMAIN tasks : TaskStep(s)
  <2>1. PICK s \in DOMAIN tasks : TaskStep(s)
    BY <1>4
  <2>2. phase' = phase /\ requests' = requests
    BY <2>1 DEF TaskStep, DoProjections, MergeBoundary, MovePostfixToScratch,
                KeepOnRight, SplitOff, ApplyOperation, EndBaseCase
  <2>3. phase \in {"projecting", "returned"} /\ TasksInv
    BY <2>1 DEF IInv
  <2>4. TasksInv' /\ NoInterference
    BY <2>1, <2>3, TaskStepKeepsInv
  <2> QED
    BY <2>2, <2>3, <2>4 DEF IInv
<1>5. CASE Return
  <2>1. /\ phase = "projecting" /\ phase' = "returned"
        /\ tasks' = tasks /\ operations' = operations /\ requests' = requests
    BY <1>5 DEF Return
  <2>2. TasksInv
    BY <2>1 DEF IInv
  <2> QED
    BY <2>1, <2>2, StutterKeepsInv DEF IInv
<1>6. CASE UNCHANGED vars
  <2>1. /\ tasks' = tasks /\ operations' = operations /\ requests' = requests
        /\ phase' = phase
    BY <1>6 DEF vars
  <2> QED
    BY <2>1, StutterKeepsInv DEF IInv
<1> QED
  BY <1>1, <1>2, <1>3, <1>4, <1>5, <1>6 DEF Next, Populate

\* Unfinished tasks own disjoint ranges of requests and disjoint slots of the
\* vector of operations (do_projections hands [base + merge_into_idx, ..) to
\* the new task and goes on with what is below), however they interleave.
THEOREM TasksOwnDisjointRegions == Spec => []RegionsDisjoint
<1>1. Init => IInv
  BY InitIInv
<1>2. IInv /\ [Next]_vars => IInv'
  BY NextKeepsInv
<1>3. IInv => RegionsDisjoint
  <2>1. ASSUME DOMAIN tasks = {} PROVE RegionsDisjoint
    BY <2>1 DEF RegionsDisjoint
  <2> QED
    BY <2>1 DEF IInv, TasksInv
<1> QED
  BY <1>1, <1>2, <1>3, PTL DEF Spec

\* No step of a task, of partition() or of do_projections, changes an
\* operation that another unfinished task owns: the vector needs no lock.
THEOREM TasksNeverInterfere == Spec => TasksDoNotInterfere
<1>1. Init => IInv
  BY InitIInv
<1>2. IInv /\ [Next]_vars => IInv'
  BY NextKeepsInv
<1>3. IInv /\ [Next]_vars => [NoInterference]_vars
  BY NextKeepsInv
<1> QED
  BY <1>1, <1>2, <1>3, PTL DEF Spec, TasksDoNotInterfere, NoInterference

\* The int indexes can hold the number of operations of a call, which is at
\* most two per request: within this limit the loop of partition() is right.
IndexesFit == 2 * MaxRequests <= 2^(IntBits - 1)

-----------------------------------------------------------------------------
(* The invariant of the operations: each Postfix freezes what is due       *)

\* The amounts that the scratch space p has not seen yet.
Unseen(st, p) ==
    IncrSum(st.incr_array, p) + st.all_full_incr - Last(st.scratch[p]).full

\* What a partitioning has in the slots up to hi and in the scratch spaces,
\* for the requests up to end.
LeftInv(t, hi, end, ops, n, due) ==
    LET st == t.split.state
        lo == t.seq.base
        i == t.split.i
    IN  /\ Coherent(ops, lo, hi, n, due)
        /\ Targets(ops, lo, hi, "Prefix") = t.seq.start..(end - 1)
        /\ Targets(ops, lo, hi, "Postfix") \cap WaitingTargets(st.scratch, i) = {}
        /\ Targets(ops, lo, hi, "Postfix") \cup WaitingTargets(st.scratch, i)
              = DOMAIN due \cap t.seq.start..end
        /\ \A p \in 0..(i - 1) :
              StackInv(st.scratch[p], Unseen(st, p), Partition(t.split, p),
                       ops, lo, lo + st.cur_idx, n, due)

\* The slots between cur_idx and merge_into_idx are free, as many as operations
\* wait, and those before hold operations.
SlotsInv(t, ops) ==
    LET st == t.split.state
        lo == t.seq.base
    IN  /\ st.incr_array \in [0..(Branching - 1) -> Int]
        /\ st.all_full_incr \in Int
        /\ st.cur_idx \in Nat
        /\ st.merge_into_idx - st.cur_idx = Pending(t) + (IF t.pc = "split" THEN 1 ELSE 0)
        /\ \A k \in (lo + 1)..(lo + st.cur_idx) : ~IsNull(ops[k])
        /\ \A k \in (lo + st.cur_idx + 1)..(lo + st.merge_into_idx - 1) : ops[k] = NoImpact

\* The invariant of a task, whose Postfixes have their due.
MeaningInv(t, ops, n, due) ==
    LET st == t.split.state
        lo == t.seq.base
        hi == lo + t.seq.num_ops - 1
        start == t.seq.start
        end == t.seq.end
    IN  /\ end <= n
        /\ t.pc \in {"do_projections", "base_case"} =>
              Projected(ops, lo, hi, start, end, n, due)
        /\ t.pc = "base_case" => LocalInv(t, ops)
        /\ t.pc \in {"partition", "split"} => SlotsInv(t, ops)
        /\ t.pc = "partition" =>
              /\ LeftInv(t, hi, end, ops, n, due)
              /\ \A k \in (lo + st.merge_into_idx + 1)..hi :
                    ~IsNull(ops[k]) /\ ops[k].target > LeftEnd(t)
        /\ t.pc = "split" =>
              /\ LeftInv(t, lo + st.cur_idx, LeftEnd(t), ops, n, due)
              /\ Projected(ops, lo + st.merge_into_idx, hi, LeftEnd(t) + 1, end, n, due)

HInv ==
    /\ Len(trace) \in Nat /\ Len(trace) <= MaxRequests
    /\ Len(trace) = Len(requests) /\ TraceOf(requests) = trace
    /\ phase # "called" => Sorted(requests)
    /\ phase = "returned" => DOMAIN tasks = {}
    /\ phase \in {"called", "sorted"} => DOMAIN operations = {}
    /\ phase \in {"called", "sorted", "built"} => DOMAIN hits_vector = {}
    /\ \A k \in DOMAIN operations : OpInv(operations[k], Len(trace))
    /\ phase \in {"projecting", "returned"} =>
          /\ \A s \in DOMAIN tasks : MeaningInv(tasks[s], operations, Len(trace), Due(trace))
          /\ DOMAIN hits_vector = 0..UniqueIds(requests)
          /\ Counts(hits_vector, Due(trace), Live(tasks, operations, Due(trace)))

-----------------------------------------------------------------------------
(* Scratch spaces of operations that get their due                         *)

LEMMA PushedElements ==
    ASSUME NEW q, IsStack(q), NEW moved, IsOp(moved), NEW end, IsOp(end)
    PROVE  IsPushed(Front(q) \o <<moved, end>>, q, moved, end)
<1> DEFINE r == Front(q) \o <<moved, end>>
<1>1. /\ Len(r) = Len(q) + 1
      /\ \A j \in 1..(Len(q) + 1) : r[j] = IF j <= Len(q) - 1 THEN q[j]
                                         ELSE IF j = Len(q) THEN moved ELSE end
  BY StackPushed
<1>2. Len(q) \in Nat \ {0}
  BY DEF IsStack
<1> HIDE DEF r
<1>3. IsPushed(r, q, moved, end)
  BY <1>1, <1>2 DEF IsPushed
<1> QED
  BY <1>3 DEF r

-----------------------------------------------------------------------------
(* What waits in the scratch spaces                                        *)

Spaces(scratch, i) == i \in Nat /\ \A p \in 0..(i - 1) : Len(scratch[p]) \in Nat \ {0}

PendingIn(scratch, i) ==
    SumFunctionOnSet([p \in 0..(i - 1) |-> Moved(scratch[p])], 0..(i - 1))

LEMMA PendingIsSum ==
    ASSUME NEW t
    PROVE  Pending(t) = PendingIn(t.split.state.scratch, t.split.i)
<1> DEFINE f == [p \in 0..(t.split.i - 1) |-> Moved(t.split.state.scratch[p])]
<1>1. DOMAIN f = 0..(t.split.i - 1)
  OBVIOUS
<1> HIDE DEF f
<1>2. SumFunction(f) = SumFunctionOnSet(f, 0..(t.split.i - 1))
  BY <1>1, Zenon DEF SumFunction
<1> QED
  BY <1>2 DEF Pending, PendingIn, f

LEMMA PendingTerms ==
    ASSUME NEW scratch, NEW i, Spaces(scratch, i)
    PROVE  LET f == [p \in 0..(i - 1) |-> Moved(scratch[p])]
           IN  /\ IsFiniteSet(0..(i - 1))
               /\ \A p \in 0..(i - 1) : f[p] = Len(scratch[p]) - 1 /\ f[p] \in Nat /\ f[p] \in Int
               /\ PendingIn(scratch, i) = SumFunctionOnSet(f, 0..(i - 1))
<1>1. i \in Nat /\ \A p \in 0..(i - 1) : Len(scratch[p]) \in Nat \ {0}
  BY DEF Spaces
<1>2. IsFiniteSet(0..(i - 1))
  BY <1>1, FS_Interval
<1> QED
  BY <1>1, <1>2 DEF PendingIn, Moved

\* They are the spaces' operations one by one, and none is negative.
LEMMA PendingNat ==
    ASSUME NEW scratch, NEW i, Spaces(scratch, i)
    PROVE  /\ PendingIn(scratch, i) \in Nat
           /\ PendingIn(scratch, i) = 0 => \A p \in 0..(i - 1) : Len(scratch[p]) = 1
           /\ (\A p \in 0..(i - 1) : Len(scratch[p]) = 1) => PendingIn(scratch, i) = 0
<1> DEFINE D == 0..(i - 1)
           f == [p \in D |-> Moved(scratch[p])]
           none == [p \in D |-> 0]
<1>1. /\ IsFiniteSet(D)
      /\ \A p \in D : f[p] = Len(scratch[p]) - 1 /\ f[p] \in Nat /\ f[p] \in Int
      /\ PendingIn(scratch, i) = SumFunctionOnSet(f, D)
  BY PendingTerms, Zenon
<1>2. \A p \in D : none[p] = 0
  OBVIOUS
<1>3. \A p \in D : Len(scratch[p]) \in Nat \ {0}
  BY DEF Spaces
<1> HIDE DEF D, f, none
<1>4. ASSUME NEW T \in SUBSET D PROVE SumFunctionOnSet(f, T) \in Nat
  <2>1. IsFiniteSet(T)
    BY <1>1, FS_Subset
  <2>2. \A p \in T : none[p] \in Int /\ f[p] \in Int /\ none[p] <= f[p]
    BY <1>1, <1>2
  <2>3. SumFunctionOnSet(none, T) <= SumFunctionOnSet(f, T)
    BY <2>1, <2>2, SumMonotone
  <2>4. SumFunctionOnSet(none, T) = Cardinality({})
    <3>1. {} \in SUBSET T /\ \A p \in T : none[p] = IF p \in {} THEN 1 ELSE 0
      BY <1>2
    <3> QED
      BY <2>1, <3>1, SumOfOnes
  <2>5. SumFunctionOnSet(f, T) \in Int
    BY <2>1, <2>2, SumType
  <2> QED
    BY <2>3, <2>4, <2>5, FS_EmptySet
<1>5. PendingIn(scratch, i) \in Nat
  BY <1>1, <1>4
<1>6. ASSUME PendingIn(scratch, i) = 0, NEW p \in D PROVE Len(scratch[p]) = 1
  <2>1. SumFunctionOnSet(f, D) = f[p] + SumFunctionOnSet(f, D \ {p})
    BY <1>1, SumRest
  <2>2. SumFunctionOnSet(f, D \ {p}) \in Nat /\ f[p] \in Nat
    BY <1>1, <1>4
  <2>3. SumFunctionOnSet(f, D) = 0
    BY <1>1, <1>6
  <2>4. f[p] = Len(scratch[p]) - 1 /\ Len(scratch[p]) \in Nat \ {0}
    BY <1>1, <1>3
  <2> DEFINE here == Len(scratch[p])
             rest == SumFunctionOnSet(f, D \ {p})
  <2>5. 0 = here - 1 + rest /\ here \in Nat \ {0} /\ rest \in Nat
    BY <2>1, <2>2, <2>3, <2>4
  <2> HIDE DEF here, rest
  <2>6. here = 1
    BY <2>5
  <2> QED
    BY <2>6 DEF here
<1>7. ASSUME \A p \in D : Len(scratch[p]) = 1 PROVE PendingIn(scratch, i) = 0
  <2>0. \A p \in D : f[p] = 0
    <3> SUFFICES ASSUME NEW p \in D PROVE f[p] = 0
      OBVIOUS
    <3>1. Len(scratch[p]) = 1 /\ f[p] = Len(scratch[p]) - 1
      BY <1>1, <1>7
    <3> QED
      BY <3>1
  <2>1. {} \in SUBSET D /\ \A p \in D : f[p] = IF p \in {} THEN 1 ELSE 0
    BY <2>0
  <2>2. SumFunctionOnSet(f, D) = Cardinality({})
    BY <1>1, <2>1, SumOfOnes
  <2> QED
    BY <1>1, <2>2, FS_EmptySet
<1> QED
  BY <1>5, <1>6, <1>7 DEF D

\* The last of the spaces.
LEMMA PendingLast ==
    ASSUME NEW scratch, NEW i, Spaces(scratch, i), NEW l, l = i - 1, l \in Nat
    PROVE  /\ Spaces(scratch, l)
           /\ PendingIn(scratch, i) = PendingIn(scratch, l) + (Len(scratch[l]) - 1)
<1> DEFINE D == 0..(i - 1)
           E == 0..(l - 1)
           f == [p \in D |-> Moved(scratch[p])]
           g == [p \in E |-> Moved(scratch[p])]
<1>1. i \in Nat /\ \A p \in 0..(i - 1) : Len(scratch[p]) \in Nat \ {0}
  BY DEF Spaces
<1>2. l \in D /\ D \ {l} = E /\ \A p \in E : p \in D
  BY <1>1
<1>3. Spaces(scratch, l)
  BY <1>1, <1>2 DEF Spaces
<1>4. /\ IsFiniteSet(D)
      /\ \A p \in D : f[p] = Len(scratch[p]) - 1 /\ f[p] \in Nat /\ f[p] \in Int
      /\ PendingIn(scratch, i) = SumFunctionOnSet(f, D)
  BY PendingTerms, Zenon
<1>5. /\ IsFiniteSet(E)
      /\ \A p \in E : g[p] = Len(scratch[p]) - 1 /\ g[p] \in Nat /\ g[p] \in Int
      /\ PendingIn(scratch, l) = SumFunctionOnSet(g, E)
  BY <1>3, PendingTerms, Zenon
<1> HIDE DEF D, E, f, g
<1>6. SumFunctionOnSet(f, D) = f[l] + SumFunctionOnSet(f, E)
  <2>1. SumFunctionOnSet(f, D) = f[l] + SumFunctionOnSet(f, D \ {l})
    BY <1>2, <1>4, SumRest, ZenonT(60)
  <2> QED
    BY <1>2, <2>1, Zenon
<1>7. \A p \in E : g[p] \in Int /\ f[p] = g[p]
  BY <1>2, <1>4, <1>5
<1>8. SumFunctionOnSet(g, E) = SumFunctionOnSet(f, E)
  BY <1>5, <1>7, SumSame
<1>9. SumFunctionOnSet(g, E) \in Int
  BY <1>5, SumType
<1> QED
  BY <1>2, <1>3, <1>4, <1>5, <1>6, <1>8, <1>9

\* A space that takes one more operation.
LEMMA PendingMore ==
    ASSUME NEW scratch, NEW i, Spaces(scratch, i), NEW q \in 0..(i - 1), NEW scratch2,
           Len(scratch2[q]) = Len(scratch[q]) + 1,
           \A p \in 0..(i - 1) : p # q => scratch2[p] = scratch[p]
    PROVE  Spaces(scratch2, i) /\ PendingIn(scratch2, i) = PendingIn(scratch, i) + 1
<1> DEFINE D == 0..(i - 1)
           f == [p \in D |-> Moved(scratch[p])]
           g == [p \in D |-> Moved(scratch2[p])]
<1>1. Spaces(scratch2, i)
  BY DEF Spaces
<1>2. /\ IsFiniteSet(D)
      /\ \A p \in D : f[p] = Len(scratch[p]) - 1 /\ f[p] \in Nat /\ f[p] \in Int
      /\ PendingIn(scratch, i) = SumFunctionOnSet(f, D)
  BY PendingTerms, Zenon
<1>3. /\ IsFiniteSet(D)
      /\ \A p \in D : g[p] = Len(scratch2[p]) - 1 /\ g[p] \in Nat /\ g[p] \in Int
      /\ PendingIn(scratch2, i) = SumFunctionOnSet(g, D)
  BY <1>1, PendingTerms, Zenon
<1>4. /\ q \in D /\ \A p \in D \ {q} : scratch2[p] = scratch[p]
      /\ Len(scratch[q]) \in Nat
  BY DEF Spaces
<1> HIDE DEF D, f, g
<1>5. \A p \in D \ {q} : g[p] = f[p]
  BY <1>2, <1>3, <1>4
<1>6. \A p \in D : f[p] \in Int /\ g[p] \in Int
  BY <1>2, <1>3
<1>7. SumFunctionOnSet(g, D) = SumFunctionOnSet(f, D) + (IF q \in D THEN g[q] - f[q] ELSE 0)
  BY <1>2, <1>5, <1>6, SumOfChange
<1>8. SumFunctionOnSet(f, D) \in Int
  BY <1>2, <1>6, SumType
<1> QED
  BY <1>1, <1>2, <1>3, <1>4, <1>7, <1>8, SMTT(30)

\* The requests whose Postfix waits.
LEMMA WaitingTarget ==
    ASSUME NEW scratch, NEW i, Spaces(scratch, i)
    PROVE  \A x : x \in WaitingTargets(scratch, i) <=>
              \E p \in 0..(i - 1) : \E m \in 1..(Len(scratch[p]) - 1) : x = scratch[p][m].target
<1>1. \A p \in 0..(i - 1) : \A m \in 1..(Len(scratch[p]) - 1) :
         <<p, m>> \in Waiting(scratch, i)
  BY DEF Spaces, Waiting
<1>2. \A w \in Waiting(scratch, i) : w[1] \in 0..(i - 1) /\ w[2] \in 1..(Len(scratch[w[1]]) - 1)
  BY DEF Waiting
<1>3. ASSUME NEW x \in WaitingTargets(scratch, i)
      PROVE  \E p \in 0..(i - 1) : \E m \in 1..(Len(scratch[p]) - 1) : x = scratch[p][m].target
  <2>1. PICK w \in Waiting(scratch, i) : x = scratch[w[1]][w[2]].target
    BY <1>3, Zenon DEF WaitingTargets
  <2> QED
    BY <1>2, <2>1, Zenon
<1>4. ASSUME NEW p \in 0..(i - 1), NEW m \in 1..(Len(scratch[p]) - 1)
      PROVE  scratch[p][m].target \in WaitingTargets(scratch, i)
  <2> DEFINE w == <<p, m>>
  <2>1. w \in Waiting(scratch, i) /\ w[1] = p /\ w[2] = m
    BY <1>1
  <2> HIDE DEF w
  <2> QED
    BY <2>1, Zenon DEF WaitingTargets
<1> QED
  BY <1>3, <1>4, Zenon

-----------------------------------------------------------------------------
(* A task in the loop of partition()                                       *)

FirstSlot(t) == t.seq.base

LastSlot(t) == t.seq.base + t.seq.num_ops - 1

\* What the invariant says of a task in the loop, in terms of its slots.
LoopWith(t, st, ops, n, due) ==
    /\ LoopSlots(ops, FirstSlot(t), Slot(t, st.cur_idx), Slot(t, st.merge_into_idx),
                 LastSlot(t), LeftEnd(t), n, due)
    /\ t.seq.end <= n
    /\ st.incr_array \in [0..(Branching - 1) -> Int]
    /\ st.all_full_incr \in Int
    /\ st.cur_idx \in Nat /\ st.merge_into_idx \in Int
    /\ st.merge_into_idx - st.cur_idx = PendingIn(st.scratch, t.split.i)
    /\ Targets(ops, FirstSlot(t), LastSlot(t), "Prefix") = t.seq.start..(t.seq.end - 1)
    /\ Targets(ops, FirstSlot(t), LastSlot(t), "Postfix")
          \cap WaitingTargets(st.scratch, t.split.i) = {}
    /\ Targets(ops, FirstSlot(t), LastSlot(t), "Postfix")
          \cup WaitingTargets(st.scratch, t.split.i) = DOMAIN due \cap t.seq.start..t.seq.end
    /\ \A p \in 0..(t.split.i - 1) :
          StackInv(st.scratch[p], Unseen(st, p), Partition(t.split, p),
                   ops, FirstSlot(t), Slot(t, st.cur_idx), n, due)

\* The spaces of a task that splits.
LEMMA SpacesOfTask ==
    ASSUME NEW t, NEW ops, TaskInv(t, ops), t.pc \in {"partition", "split"}
    PROVE  /\ t.seq.base \in Nat /\ t.seq.num_ops \in Nat \ {0}
           /\ t.seq.start \in Nat \ {0} /\ t.seq.end \in Nat
           /\ t.seq.start <= LeftEnd(t) /\ LeftEnd(t) < t.seq.end /\ LeftEnd(t) \in Nat
           /\ RangeInv(t) /\ t.split.i \in Nat \ {0} /\ t.split.i <= Branching - 1
           /\ Spaces(t.split.state.scratch, t.split.i)
           /\ t.split.state.merge_into_idx < t.seq.num_ops
           /\ \A p \in 0..(t.split.i - 1) :
                 /\ p \in 0..(Branching - 2)
                 /\ p \in DOMAIN t.split.state.scratch /\ IsStack(t.split.state.scratch[p])
<1>1. /\ t.seq.base \in Nat /\ t.seq.num_ops \in Nat \ {0}
      /\ t.seq.start \in Nat \ {0} /\ t.seq.end \in Nat
      /\ RangeInv(t) /\ LoopInv(t, ops)
  BY DEF TaskInv, ProjSequences
<1>2. t.seq.start <= LeftEnd(t) /\ LeftEnd(t) < t.seq.end /\ LeftEnd(t) \in Nat
  BY <1>1, EndsIncrease
<1>3. /\ t.split.i \in Nat \ {0} /\ t.split.i <= Branching - 1
      /\ \A p \in 0..(t.split.i - 1) : p \in 0..(Branching - 2)
  <2>1. /\ t.split.dist \in Nat /\ t.split.num_partitions \in 2..t.split.dist
        /\ t.split.num_partitions <= Branching
        /\ t.split.i \in 1..(t.split.num_partitions - 1)
    BY <1>1 DEF RangeInv
  <2> QED
    BY <2>1, BranchingAssumption
<1>4. /\ t.split.state.merge_into_idx < t.seq.num_ops
      /\ \A p \in 0..(t.split.i - 1) :
            p \in DOMAIN t.split.state.scratch /\ IsStack(t.split.state.scratch[p])
  BY <1>1 DEF LoopInv
<1>5. Spaces(t.split.state.scratch, t.split.i)
  BY <1>3, <1>4 DEF Spaces, IsStack
<1> QED
  BY <1>1, <1>2, <1>3, <1>4, <1>5

LEMMA LoopOpened ==
    ASSUME NEW t, NEW ops, TaskInv(t, ops), t.pc = "partition",
           NEW n \in Nat, NEW due, MeaningInv(t, ops, n, due)
    PROVE  LoopWith(t, t.split.state, ops, n, due)
<1> DEFINE st == t.split.state
           lo == t.seq.base
           hi == t.seq.base + t.seq.num_ops - 1
           C == lo + st.cur_idx
           M == lo + st.merge_into_idx
           E == LeftEnd(t)
<1>1. /\ t.seq.base \in Nat /\ t.seq.num_ops \in Nat \ {0}
      /\ t.seq.start \in Nat \ {0} /\ t.seq.end \in Nat
      /\ t.seq.start <= E /\ E < t.seq.end /\ E \in Nat
      /\ Spaces(st.scratch, t.split.i)
      /\ st.merge_into_idx < t.seq.num_ops
  BY SpacesOfTask
<1>2. /\ t.seq.end <= n
      /\ SlotsInv(t, ops)
      /\ LeftInv(t, hi, t.seq.end, ops, n, due)
      /\ \A k \in (lo + st.merge_into_idx + 1)..hi : ~IsNull(ops[k]) /\ ops[k].target > E
  BY DEF MeaningInv
<1>3. /\ st.incr_array \in [0..(Branching - 1) -> Int]
      /\ st.all_full_incr \in Int
      /\ st.cur_idx \in Nat
      /\ st.merge_into_idx - st.cur_idx = Pending(t)
      /\ \A k \in (lo + 1)..C : ~IsNull(ops[k])
      /\ \A k \in (C + 1)..(M - 1) : ops[k] = NoImpact
  <2>1. Pending(t) \in Nat
    BY <1>1, PendingIsSum, PendingNat
  <2>2. /\ st.incr_array \in [0..(Branching - 1) -> Int]
        /\ st.all_full_incr \in Int
        /\ st.cur_idx \in Nat
        /\ st.merge_into_idx - st.cur_idx = Pending(t) + (IF t.pc = "split" THEN 1 ELSE 0)
        /\ \A k \in (lo + 1)..C : ~IsNull(ops[k])
    BY <1>2 DEF SlotsInv
  <2>6. \A k \in (C + 1)..(M - 1) : ops[k] = NoImpact
    <3> DEFINE P(k) == ops[k] = NoImpact
    <3>1. \A k \in (lo + st.cur_idx + 1)..(lo + st.merge_into_idx - 1) : P(k)
      BY <1>2, Zenon DEF SlotsInv
    <3> HIDE DEF P
    <3>2. st.merge_into_idx \in Int
      BY DEF TaskInv, LoopInv
    <3>3. \A k \in (C + 1)..(M - 1) : P(k)
      BY <1>1, <2>2, <3>1, <3>2
    <3> QED
      BY <3>3 DEF P
  <2>3. t.pc # "split"
    OBVIOUS
  <2>4. st.merge_into_idx - st.cur_idx = Pending(t) + 0
    BY <2>2, <2>3, Zenon
  <2>5. Pending(t) + 0 = Pending(t)
    BY <2>1
  <2> QED
    BY <2>2, <2>4, <2>5, <2>6, Zenon
<1>4. /\ Coherent(ops, lo, hi, n, due)
      /\ Targets(ops, lo, hi, "Prefix") = t.seq.start..(t.seq.end - 1)
      /\ Targets(ops, lo, hi, "Postfix") \cap WaitingTargets(st.scratch, t.split.i) = {}
      /\ Targets(ops, lo, hi, "Postfix") \cup WaitingTargets(st.scratch, t.split.i)
            = DOMAIN due \cap t.seq.start..t.seq.end
      /\ \A p \in 0..(t.split.i - 1) :
            StackInv(st.scratch[p], Unseen(st, p), Partition(t.split, p), ops, lo, C, n, due)
  BY <1>2 DEF LeftInv
<1>5. /\ st.merge_into_idx \in Int /\ st.cur_idx <= st.merge_into_idx
      /\ IsNull(ops[lo])
      /\ \A k \in 0..st.merge_into_idx : k > st.cur_idx => IsNull(ops[lo + k])
  <2>1. Pending(t) \in Nat
    BY <1>1, PendingIsSum, PendingNat
  <2>2. LoopInv(t, ops) /\ IsNull(ops[lo])
    BY DEF TaskInv
  <2> QED
    BY <1>3, <2>1, <2>2 DEF LoopInv
<1>6. /\ lo \in Int /\ C \in Int /\ M \in Int /\ hi \in Int
      /\ lo <= C /\ C <= M /\ M <= hi
  <2> DEFINE cur == st.cur_idx
             merge == st.merge_into_idx
             num_ops == t.seq.num_ops
             base == lo
  <2>1. /\ base \in Nat /\ num_ops \in Nat \ {0} /\ cur \in Nat /\ merge \in Int
        /\ cur <= merge /\ merge < num_ops
    BY <1>1, <1>3, <1>5
  <2> HIDE DEF cur, merge, num_ops, base
  <2>2. /\ base \in Int /\ base + cur \in Int /\ base + merge \in Int
        /\ base + num_ops - 1 \in Int
        /\ base <= base + cur /\ base + cur <= base + merge /\ base + merge <= base + num_ops - 1
    BY <2>1
  <2> QED
    BY <2>2 DEF cur, merge, num_ops, base
<1>7. \A k \in lo..hi : OpInv(ops[k], n)
  BY <1>4 DEF Coherent
<1>8. ops[lo].type = "Null"
  BY <1>5, <1>6, <1>7 DEF OpInv, IsNull
<1>9. \A k \in (C + 1)..M : ops[k].type = "Null"
  <2> SUFFICES ASSUME NEW k \in (C + 1)..M PROVE ops[k].type = "Null"
    OBVIOUS
  <2> DEFINE d == k - lo
  <2>1. d \in 0..st.merge_into_idx /\ d > st.cur_idx /\ lo + d = k /\ k \in lo..hi
    <3> DEFINE cur == st.cur_idx
               merge == st.merge_into_idx
    <3>1. cur \in Nat /\ merge \in Int /\ C = lo + cur /\ M = lo + merge
      BY <1>3, <1>5
    <3> HIDE DEF cur, merge, C, M, hi, lo
    <3>2. d \in 0..merge /\ d > cur /\ lo + d = k /\ k \in lo..hi
      BY <1>6, <3>1
    <3> QED
      BY <3>2 DEF cur, merge
  <2> HIDE DEF d
  <2>2. IsNull(ops[k])
    BY <1>5, <2>1
  <2> QED
    BY <1>7, <2>1, <2>2 DEF OpInv, IsNull
<1>10. E \in Targets(ops, lo, hi, "Prefix")
  BY <1>1, <1>4
<1>11. \A k \in (M + 1)..hi : ~IsNull(ops[k]) /\ E < ops[k].target
  <2> SUFFICES ASSUME NEW k \in (M + 1)..hi PROVE ~IsNull(ops[k]) /\ E < ops[k].target
    OBVIOUS
  <2>1. ~IsNull(ops[k]) /\ ops[k].target > E
    BY <1>2
  <2>2. ops[k].target \in Int
    BY <1>6, <1>7 DEF OpInv
  <2> QED
    BY <1>1, <2>1, <2>2
<1>12. LoopSlots(ops, lo, C, M, hi, E, n, due)
  <2> HIDE DEF C, M, hi, lo, E
  <2> QED
    BY <1>1, <1>3, <1>4, <1>6, <1>8, <1>9, <1>10, <1>11 DEF LoopSlots
<1> QED
  BY <1>2, <1>3, <1>4, <1>5, <1>12, PendingIsSum DEF LoopWith, FirstSlot, LastSlot, Slot

LEMMA LoopClosed ==
    ASSUME NEW t, t.pc = "partition", NEW ops, NEW n, NEW due, LoopWith(t, t.split.state, ops, n, due)
    PROVE  MeaningInv(t, ops, n, due)
<1> DEFINE st == t.split.state
           lo == t.seq.base
           hi == t.seq.base + t.seq.num_ops - 1
           C == lo + st.cur_idx
           M == lo + st.merge_into_idx
           E == LeftEnd(t)
<1>1. LoopSlots(ops, lo, C, M, hi, E, n, due)
  BY DEF LoopWith, FirstSlot, LastSlot, Slot
<1>2. /\ Coherent(ops, lo, hi, n, due)
      /\ \A k \in (lo + 1)..C : ~IsNull(ops[k])
      /\ \A k \in (C + 1)..(M - 1) : ops[k] = NoImpact
      /\ \A k \in (M + 1)..hi : ~IsNull(ops[k]) /\ E < ops[k].target
      /\ hi \in Int /\ M \in Int /\ lo \in Int /\ C \in Int /\ E \in Nat
      /\ lo <= C /\ C <= M
  BY <1>1 DEF LoopSlots
<1>3. SlotsInv(t, ops)
  <2>1. /\ st.incr_array \in [0..(Branching - 1) -> Int]
        /\ st.all_full_incr \in Int
        /\ st.cur_idx \in Nat
        /\ st.merge_into_idx \in Int
        /\ st.merge_into_idx - st.cur_idx = Pending(t)
    BY PendingIsSum, Zenon DEF LoopWith
  <2>3. Pending(t) + (IF t.pc = "split" THEN 1 ELSE 0) = Pending(t)
    <3> HIDE DEF st
    <3>1. Pending(t) \in Int
      BY <2>1
    <3> QED
      BY <3>1
  <2>4. st.merge_into_idx - st.cur_idx = Pending(t) + (IF t.pc = "split" THEN 1 ELSE 0)
    BY <2>1, <2>3, Zenon
  <2>5. \A k \in (lo + st.cur_idx + 1)..(lo + st.merge_into_idx - 1) : ops[k] = NoImpact
    <3> DEFINE P(k) == ops[k] = NoImpact
    <3>1. \A k \in (C + 1)..(M - 1) : P(k)
      BY <1>2
    <3>2. lo \in Int /\ st.cur_idx \in Int /\ st.merge_into_idx \in Int
      BY <1>2, <2>1
    <3> HIDE DEF P, st
    <3>3. \A k \in (lo + st.cur_idx + 1)..(lo + st.merge_into_idx - 1) : P(k)
      BY <3>1, <3>2
    <3> QED
      BY <3>3 DEF P, st
  <2> QED
    BY <1>2, <2>1, <2>4, <2>5, Zenon DEF SlotsInv
<1>4. LeftInv(t, hi, t.seq.end, ops, n, due)
  BY <1>2 DEF LoopWith, LeftInv, FirstSlot, LastSlot, Slot
<1>5. \A k \in (M + 1)..hi : ~IsNull(ops[k]) /\ ops[k].target > E
  <2> SUFFICES ASSUME NEW k \in (M + 1)..hi PROVE ~IsNull(ops[k]) /\ ops[k].target > E
    OBVIOUS
  <2>1. k \in lo..hi
    BY <1>2
  <2>2. ops[k].target \in Int
    BY <1>2, <2>1 DEF Coherent, OpInv
  <2> QED
    BY <1>2, <2>2
<1> QED
  BY <1>3, <1>4, <1>5 DEF MeaningInv, LoopWith

\* A task in another state of its loop.
LEMMA StateChanged ==
    ASSUME NEW t, NEW pc, NEW st, DOMAIN t = TaskFields, DOMAIN t.split = SplitFields
    PROVE  LET u == InState(t, pc, st)
           IN  /\ u.pc = pc /\ u.seq = t.seq /\ u.split.i = t.split.i /\ u.split.state = st
               /\ LeftEnd(u) = LeftEnd(t)
               /\ \A p : Partition(u.split, p) = Partition(t.split, p)
<1> DEFINE u == InState(t, pc, st)
<1>1. /\ u.pc = pc /\ u.seq = t.seq /\ u.split.i = t.split.i /\ u.split.state = st
      /\ u.split.dist = t.split.dist /\ u.split.num_partitions = t.split.num_partitions
      /\ u.split.last = t.split.last
  BY InStateFields
<1> HIDE DEF u
<1>2. LeftEnd(u) = LeftEnd(t)
  BY <1>1 DEF LeftEnd
<1>3. \A p : EndAt(u.split, p) = EndAt(t.split, p)
  BY <1>1 DEF EndAt
<1>4. \A p : Partition(u.split, p) = Partition(t.split, p)
  BY <1>3 DEF Partition
<1> QED
  BY <1>1, <1>2, <1>4 DEF u

LEMMA LoopStepped ==
    ASSUME NEW t, DOMAIN t = TaskFields, DOMAIN t.split = SplitFields,
           NEW st, NEW ops, NEW n, NEW due, LoopWith(t, st, ops, n, due)
    PROVE  MeaningInv(InState(t, "partition", st), ops, n, due)
<1> DEFINE u == InState(t, "partition", st)
<1>1. /\ u.pc = "partition" /\ u.seq = t.seq /\ u.split.i = t.split.i /\ u.split.state = st
      /\ LeftEnd(u) = LeftEnd(t)
  BY StateChanged
<1>2. \A p : Partition(u.split, p) = Partition(t.split, p)
  BY StateChanged
<1> HIDE DEF u
<1>3. /\ FirstSlot(u) = FirstSlot(t) /\ LastSlot(u) = LastSlot(t)
      /\ \A x : Slot(u, x) = Slot(t, x)
  BY <1>1 DEF FirstSlot, LastSlot, Slot
<1>4. LoopWith(u, u.split.state, ops, n, due)
  BY <1>1, <1>2, <1>3 DEF LoopWith
<1> QED
  BY <1>1, <1>4, LoopClosed DEF u

\* The amounts that the spaces have not seen.
LEMMA UnseenType ==
    ASSUME NEW t, NEW st, NEW ops, NEW n, NEW due, LoopWith(t, st, ops, n, due),
           Spaces(st.scratch, t.split.i),
           NEW p \in 0..(t.split.i - 1), p \in 0..(Branching - 2)
    PROVE  /\ Unseen(st, p) \in Int
           /\ IncrSum(st.incr_array, p) \in Int
           /\ Last(st.scratch[p]).full \in Int
           /\ Len(st.scratch[p]) \in Nat \ {0}
<1>1. Len(st.scratch[p]) \in Nat \ {0}
  BY DEF Spaces
<1>2. Last(st.scratch[p]).full \in Int
  <2>1. StackInv(st.scratch[p], Unseen(st, p), Partition(t.split, p),
                 ops, FirstSlot(t), Slot(t, st.cur_idx), n, due)
    BY DEF LoopWith
  <2> QED
    BY <2>1 DEF StackInv, Last
<1>3. IncrSum(st.incr_array, p) \in Int
  BY IncrementSeen DEF LoopWith
<1>4. st.all_full_incr \in Int
  BY DEF LoopWith
<1> QED
  BY <1>1, <1>2, <1>3, <1>4 DEF Unseen

\* An operation that stays on the right leaves every scratch space with as
\* much to come as before.
LEMMA KeptLoop ==
    ASSUME NEW t, NEW ops, TaskInv(t, ops), t.pc = "partition", NEW n \in Nat, NEW due,
           NEW old, old = t.split.state, LoopWith(t, old, ops, n, due),
           NEW C, C = Slot(t, old.cur_idx), NEW M, M = Slot(t, old.merge_into_idx),
           NEW E, E = LeftEnd(t),
           ~IsBoundaryOp(ops[C], E), ~MoveToScratch(ops[C], E + 1),
           NEW ops2, IsKept(ops2, ops, FirstSlot(t), C, M, LastSlot(t)),
           NEW st, st.incr_array = old.incr_array, st.scratch = old.scratch,
           st.all_full_incr = old.all_full_incr + FullIncrToLeft(ops[C], E + 1),
           st.cur_idx = old.cur_idx - 1, st.merge_into_idx = old.merge_into_idx - 1
    PROVE  LoopWith(t, st, ops2, n, due)
<1> DEFINE lo == FirstSlot(t)
           hi == LastSlot(t)
           C2 == C - 1
           M2 == M - 1
           inc == FullIncrToLeft(ops[C], E + 1)
           i == t.split.i
<1>1. /\ LoopSlots(ops, lo, C, M, hi, E, n, due)
      /\ lo \in Int /\ t.seq.base = lo
      /\ old.cur_idx \in Nat /\ old.merge_into_idx \in Int
      /\ C = lo + old.cur_idx /\ M = lo + old.merge_into_idx
      /\ old.all_full_incr \in Int
  <2>1. LoopSlots(ops, lo, C, M, hi, E, n, due)
    BY DEF LoopWith
  <2>2. t.seq.base \in Nat
    BY DEF TaskInv, ProjSequences
  <2>3. /\ old.cur_idx \in Nat /\ old.merge_into_idx \in Int /\ old.all_full_incr \in Int
    BY DEF LoopWith
  <2> QED
    BY <2>1, <2>2, <2>3 DEF Slot, FirstSlot
<1>2. /\ LoopSlots(ops2, lo, C2, M2, hi, E, n, due)
      /\ Targets(ops2, lo, hi, "Prefix") = Targets(ops, lo, hi, "Prefix")
      /\ Targets(ops2, lo, hi, "Postfix") = Targets(ops, lo, hi, "Postfix")
      /\ inc \in Int
      /\ \A j \in 0..E :
             /\ Adds(ops, lo, C, j) \in Int /\ Adds(ops2, lo, C2, j) \in Int
             /\ Adds(ops, lo, C, j) = Adds(ops2, lo, C2, j) + inc
  <2> DEFINE F == lo
             L == hi
  <2>1. Keeps(ops2, C2, M2, ops, F, C, M, L, E, n, due)
    BY <1>1 DEF Keeps
  <2>0. E \in Int /\ F \in Int /\ C \in Int
    BY <1>1 DEF LoopSlots
  <2> HIDE DEF F, L, C2, M2
  <2>2. LoopSlots(ops2, F, C2, M2, L, E, n, due) /\ SameTargets(ops2, ops, F, L) /\ inc \in Int
    BY <2>1, KeptSlots
  <2>3. \A j \in 0..E :
           /\ Adds(ops, F, C, j) \in Int /\ Adds(ops2, F, C2, j) \in Int
           /\ Adds(ops, F, C, j) = Adds(ops2, F, C2, j) + inc
    BY <2>0, <2>1, KeptSlots
  <2> QED
    BY <2>2, <2>3 DEF F, L, SameTargets
<1>3. /\ lo < C /\ old.cur_idx >= 1
      /\ Slot(t, st.cur_idx) = C2 /\ Slot(t, st.merge_into_idx) = M2
      /\ st.cur_idx \in Nat /\ st.merge_into_idx \in Int
      /\ st.merge_into_idx - st.cur_idx = old.merge_into_idx - old.cur_idx
      /\ st.all_full_incr \in Int
  <2>1. lo < C
    BY <1>1, BoundaryBelow
  <2> HIDE DEF lo, inc
  <2>2. Slot(t, st.cur_idx) = lo + st.cur_idx /\ Slot(t, st.merge_into_idx) = lo + st.merge_into_idx
    BY <1>1 DEF Slot
  <2> QED
    BY <1>1, <1>2, <2>1, <2>2 DEF inc
<1>4. ASSUME NEW p \in 0..(i - 1)
      PROVE  StackInv(st.scratch[p], Unseen(st, p), Partition(t.split, p), ops2, lo, C2, n, due)
  <2> DEFINE stack == old.scratch[p]
             range == Partition(t.split, p)
             u == Unseen(old, p)
             u2 == Unseen(st, p)
  <2>1. /\ Spaces(old.scratch, i) /\ p \in 0..(Branching - 2) /\ E \in Nat
        /\ RangeInv(t) /\ t.seq.start \in Nat \ {0}
    BY SpacesOfTask
  <2>2. /\ u \in Int /\ Len(stack) \in Nat \ {0}
        /\ IncrSum(old.incr_array, p) \in Int /\ Last(old.scratch[p]).full \in Int
    BY <2>1, UnseenType
  <2>3. u2 = u + inc /\ u2 \in Int
    <3> DEFINE a == IncrSum(old.incr_array, p)
               l == Last(old.scratch[p]).full
               x == old.all_full_incr
               y == st.all_full_incr
    <3>1. u = a + x - l /\ u2 = a + y - l
      BY DEF Unseen
    <3>2. a \in Int /\ l \in Int /\ x \in Int /\ inc \in Int /\ y = x + inc
      BY <1>1, <1>2, <2>2
    <3> HIDE DEF a, l, u, u2, inc, x, y
    <3> QED
      BY <3>1, <3>2
  <2>4. \A j \in range : j \in 0..E
    BY <2>1, PartitionsOrdered
  <2>5. StackInv(stack, u, range, ops, lo, C, n, due)
    BY DEF LoopWith
  <2> HIDE DEF stack, range, u, u2, lo, C2, inc
  <2>6. \A j \in range : /\ Adds(ops, lo, C, j) \in Int /\ Adds(ops2, lo, C2, j) \in Int
                         /\ u + Adds(ops, lo, C, j) = u2 + Adds(ops2, lo, C2, j)
    BY <1>2, <2>2, <2>3, <2>4
  <2>7. StackInv(stack, u2, range, ops2, lo, C2, n, due)
    BY <2>2, <2>3, <2>5, <2>6, StackCarried
  <2> QED
    BY <2>7 DEF stack, range, u2
<1>5. /\ t.seq.end <= n
      /\ st.incr_array \in [0..(Branching - 1) -> Int]
      /\ old.merge_into_idx - old.cur_idx = PendingIn(st.scratch, i)
      /\ Targets(ops, lo, hi, "Prefix") = t.seq.start..(t.seq.end - 1)
      /\ Targets(ops, lo, hi, "Postfix") \cap WaitingTargets(st.scratch, i) = {}
      /\ Targets(ops, lo, hi, "Postfix") \cup WaitingTargets(st.scratch, i)
            = DOMAIN due \cap t.seq.start..t.seq.end
  BY DEF LoopWith
<1> HIDE DEF lo, hi, C2, M2, inc, i
<1> QED
  BY <1>2, <1>3, <1>4, <1>5 DEF LoopWith, lo, hi, i

\* A space that one more operation waits in.
AlsoWaits(b, a, i, target) ==
    WaitingTargets(b, i) = WaitingTargets(a, i) \cup {target}

LEMMA MovedWaiting ==
    ASSUME NEW a, NEW i, Spaces(a, i), NEW q \in 0..(i - 1), NEW b, NEW moved, NEW end,
           IsPushed(b[q], a[q], moved, end),
           \A p \in 0..(i - 1) : p # q => b[p] = a[p]
    PROVE  /\ Spaces(b, i)
           /\ PendingIn(b, i) = PendingIn(a, i) + 1
           /\ AlsoWaits(b, a, i, moved.target)
<1> DEFINE l == Len(a[q])
<1>1. /\ Len(b[q]) = l + 1 /\ l \in Nat \ {0}
      /\ \A k \in 1..(l - 1) : b[q][k] = a[q][k]
      /\ b[q][l] = moved
  BY DEF IsPushed, Spaces
<1>2. Spaces(b, i) /\ PendingIn(b, i) = PendingIn(a, i) + 1
  <2>1. Len(b[q]) = Len(a[q]) + 1
    BY <1>1
  <2> QED
    BY <2>1, PendingMore
<1>3. \A x : x \in WaitingTargets(a, i) <=>
              \E p \in 0..(i - 1) : \E m \in 1..(Len(a[p]) - 1) : x = a[p][m].target
  BY WaitingTarget
<1>4. \A x : x \in WaitingTargets(b, i) <=>
              \E p \in 0..(i - 1) : \E m \in 1..(Len(b[p]) - 1) : x = b[p][m].target
  BY <1>2, WaitingTarget
<1> HIDE DEF l
<1>5. ASSUME NEW x \in WaitingTargets(b, i) PROVE x \in WaitingTargets(a, i) \cup {moved.target}
  <2> PICK p \in 0..(i - 1) : \E m \in 1..(Len(b[p]) - 1) : x = b[p][m].target
    BY <1>4
  <2> PICK m \in 1..(Len(b[p]) - 1) : x = b[p][m].target
    OBVIOUS
  <2>1. CASE p # q
    BY <1>3, <2>1
  <2>2. CASE p = q /\ m = l
    BY <1>1, <2>2
  <2>3. CASE p = q /\ m # l
    <3>1. m \in 1..(l - 1)
      BY <1>1, <2>3
    <3>2. b[p][m] = a[p][m] /\ m \in 1..(Len(a[p]) - 1)
      BY <1>1, <2>3, <3>1 DEF l
    <3> QED
      BY <1>3, <3>2
  <2> QED
    BY <2>1, <2>2, <2>3
<1>6. moved.target \in WaitingTargets(b, i)
  <2>1. l \in 1..(Len(b[q]) - 1)
    BY <1>1
  <2> QED
    BY <1>1, <1>4, <2>1
<1>7. ASSUME NEW x \in WaitingTargets(a, i) PROVE x \in WaitingTargets(b, i)
  <2> PICK p \in 0..(i - 1) : \E m \in 1..(Len(a[p]) - 1) : x = a[p][m].target
    BY <1>3
  <2> PICK m \in 1..(Len(a[p]) - 1) : x = a[p][m].target
    OBVIOUS
  <2>1. m \in 1..(Len(b[p]) - 1) /\ b[p][m] = a[p][m]
    <3>1. CASE p # q
      BY <3>1
    <3>2. CASE p = q
      BY <1>1, <3>2 DEF l
    <3> QED
      BY <3>1, <3>2
  <2> QED
    BY <1>4, <2>1
<1>8. AlsoWaits(b, a, i, moved.target)
  BY <1>5, <1>6, <1>7 DEF AlsoWaits
<1> QED
  BY <1>2, <1>8

\* The partitioning after the Postfix op has been moved to the space q.
IsMoved(st, old, op, q, end, i) ==
    /\ IsNull(end)
    /\ end.full = IncrSum(old.incr_array, q) + old.all_full_incr + op.full
    /\ IsPushed(st.scratch[q], old.scratch[q], AddFull(op, Unseen(old, q)), end)
    /\ \A p \in 0..(i - 1) : p # q => st.scratch[p] = old.scratch[p]
    /\ st.incr_array = IncrUpdated(old.incr_array, q)
    /\ st.all_full_incr = old.all_full_incr + op.full

LEMMA MovedUnseen ==
    ASSUME NEW st, NEW old, NEW op, NEW q, NEW end, NEW i \in Nat,
           IsMoved(st, old, op, q, end, i), i <= Branching - 1, q \in 0..(i - 1),
           old.incr_array \in [0..(Branching - 1) -> Int], old.all_full_incr \in Int,
           op.full \in Int,
           NEW p \in 0..(i - 1), Last(old.scratch[p]).full \in Int
    PROVE  /\ st.incr_array \in [0..(Branching - 1) -> Int]
           /\ Unseen(old, p) \in Int /\ Unseen(st, p) \in Int
           /\ p # q => Unseen(st, p) = Unseen(old, p) + op.full + (IF q < p THEN 1 ELSE 0)
           /\ p = q => Unseen(st, p) = 0 /\ end.full \in Int
<1> DEFINE arr == old.incr_array
           arr2 == st.incr_array
           a == IncrSum(arr, p)
           b == IncrSum(arr2, p)
           x == old.all_full_incr
           y == st.all_full_incr
           f == op.full
           l == Last(old.scratch[p]).full
           l2 == Last(st.scratch[p]).full
           d == IF q < p THEN 1 ELSE 0
           u == Unseen(old, p)
           u2 == Unseen(st, p)
           e == end.full
<1>1. q \in 0..(Branching - 2) /\ p \in 0..(Branching - 2)
  BY BranchingAssumption
<1>2. arr2 = IncrUpdated(arr, q) /\ y = x + f
  BY DEF IsMoved
<1>3. arr2 \in [0..(Branching - 1) -> Int] /\ a \in Int /\ b = a + d
  <2> DEFINE r == arr
  <2>1. r \in [0..(Branching - 1) -> Int]
    OBVIOUS
  <2> HIDE DEF r
  <2>2. /\ IncrUpdated(r, q) \in [0..(Branching - 1) -> Int]
        /\ IncrSum(r, p) \in Int
        /\ IncrSum(IncrUpdated(r, q), p) = IncrSum(r, p) + (IF q < p THEN 1 ELSE 0)
    BY <1>1, <2>1, IncrementSeen
  <2> QED
    BY <1>2, <2>2 DEF r
<1>4. d \in {0, 1} /\ (q = p => d = 0)
  OBVIOUS
<1>5. u = a + x - l /\ u2 = b + y - l2
  BY DEF Unseen
<1>6. p # q => l2 = l
  BY DEF IsMoved
<1>7. p = q => l2 = e /\ e = a + x + f
  <2>1. ASSUME p = q PROVE Last(st.scratch[p]) = end
    BY <2>1 DEF IsMoved, IsPushed, Last
  <2> QED
    BY <2>1 DEF IsMoved
<1>8. x \in Int /\ f \in Int /\ l \in Int
  OBVIOUS
<1> HIDE DEF arr, arr2, a, b, x, y, f, l, l2, d, u, u2, e
<1>9. /\ u \in Int /\ u2 \in Int
      /\ p # q => u2 = u + f + d
      /\ p = q => u2 = 0 /\ e \in Int
  BY <1>2, <1>3, <1>4, <1>5, <1>6, <1>7, <1>8
<1> QED
  BY <1>3, <1>9 DEF u, u2, f, d, e, arr2

\* A Postfix that is moved goes on top of the space of its partition, which
\* has seen everything then; the spaces of the partitions above see its 1.
LEMMA TakenLoop ==
    ASSUME NEW t, NEW ops, TaskInv(t, ops), t.pc = "partition", NEW n \in Nat, NEW due,
           NEW old, old = t.split.state, LoopWith(t, old, ops, n, due),
           NEW C, C = Slot(t, old.cur_idx), NEW M, M = Slot(t, old.merge_into_idx),
           NEW E, E = LeftEnd(t), MoveToScratch(ops[C], E + 1),
           NEW ops2, IsTaken(ops2, ops, FirstSlot(t), C, M, LastSlot(t)),
           NEW q, q = PartitionTarget(t, ops[C].target),
           NEW st, NEW end, IsMoved(st, old, ops[C], q, end, t.split.i),
           st.cur_idx = old.cur_idx - 1, st.merge_into_idx = old.merge_into_idx
    PROVE  LoopWith(t, st, ops2, n, due)
<1> DEFINE lo == FirstSlot(t)
           hi == LastSlot(t)
           C2 == C - 1
           op == ops[C]
           T == op.target
           i == t.split.i
           start == t.seq.start
           c == old.cur_idx
           m == old.merge_into_idx
           c2 == st.cur_idx
<1>1. LoopSlots(ops, lo, C, M, hi, E, n, due)
  BY DEF LoopWith
<1>2. /\ lo \in Int /\ c \in Nat /\ m \in Int /\ old.all_full_incr \in Int
      /\ C = lo + c /\ M = lo + m
  <2>1. t.seq.base \in Nat
    BY DEF TaskInv, ProjSequences
  <2> QED
    BY <2>1 DEF LoopWith, Slot, FirstSlot
<1>3. /\ LoopSlots(ops2, lo, C2, M, hi, E, n, due)
      /\ LessTarget(ops2, ops, lo, hi, T)
      /\ \A j : /\ Adds(ops, lo, C, j) \in Int /\ Adds(ops2, lo, C2, j) \in Int
                /\ Adds(ops, lo, C, j) = Adds(ops2, lo, C2, j) + Whole(op, j)
  <2> DEFINE F == lo
             L == hi
  <2>1. Takes(ops2, C2, ops, F, C, M, L, E, n, due)
    BY <1>1 DEF Takes
  <2> HIDE DEF F, L, C2
  <2>2. LoopSlots(ops2, F, C2, M, L, E, n, due) /\ LessTarget(ops2, ops, F, L, T)
    BY <2>1, TakenSlots
  <2>3. LessAdds(ops2, C2, ops, F, C)
    BY <2>1, TakenSlots
  <2> QED
    BY <2>2, <2>3 DEF F, L, LessAdds
<1>4. /\ lo < C /\ C \in lo..hi /\ M \in C..hi
      /\ Summable(ops, lo, C) /\ OpInv(op, n)
  BY <1>1, BoundaryBelow, ZenonT(60)
<1>0. C \in Int /\ M \in Int /\ hi \in Int
  BY <1>1 DEF LoopSlots
<1>5. /\ op.full \in Int /\ op.type = "Postfix" /\ T \in 0..n /\ E \in Nat /\ T <= E
      /\ IsOp(op)
  BY <1>1, <1>4, SMTT(30) DEF OpInv, MoveToScratch, LoopSlots
<1>6. /\ Targets(ops, lo, hi, "Prefix") = start..(t.seq.end - 1)
      /\ Targets(ops, lo, hi, "Postfix") \cap WaitingTargets(old.scratch, i) = {}
      /\ Targets(ops, lo, hi, "Postfix") \cup WaitingTargets(old.scratch, i)
            = DOMAIN due \cap start..t.seq.end
      /\ t.seq.end <= n
      /\ m - c = PendingIn(old.scratch, i)
      /\ old.incr_array \in [0..(Branching - 1) -> Int]
      /\ \A p \in 0..(i - 1) :
            StackInv(old.scratch[p], Unseen(old, p), Partition(t.split, p), ops, lo, C, n, due)
  BY DEF LoopWith
<1>7. /\ Spaces(old.scratch, i) /\ i \in Nat \ {0} /\ i <= Branching - 1
      /\ RangeInv(t) /\ start \in Nat \ {0} /\ t.seq.end \in Nat
      /\ \A p \in 0..(i - 1) : p \in 0..(Branching - 2)
  BY SpacesOfTask
<1>8. T \in Targets(ops, lo, hi, "Postfix")
  BY <1>4, <1>5 DEF Targets
<1> HIDE DEF lo, hi, C2, T, i, start, c, m, c2
<1>9. q \in 0..(i - 1) /\ T \in Partition(t.split, q)
  <2>1. T \in start..E
    BY <1>5, <1>6, <1>7, <1>8
  <2> QED
    BY <1>7, <2>1, TargetInPartition DEF T, i, start
<1>10. IsMoved(st, old, op, q, end, i) /\ c2 = c - 1 /\ st.merge_into_idx = m
  BY DEF i, c, m, c2
<1>11. ASSUME NEW p \in 0..(i - 1)
       PROVE  Last(old.scratch[p]).full \in Int /\ Len(old.scratch[p]) \in Nat \ {0}
  BY <1>7, UnseenType DEF i
<1>12. ASSUME NEW p \in 0..(i - 1)
       PROVE  /\ st.incr_array \in [0..(Branching - 1) -> Int]
              /\ Unseen(old, p) \in Int /\ Unseen(st, p) \in Int
              /\ p # q => Unseen(st, p) = Unseen(old, p) + op.full + (IF q < p THEN 1 ELSE 0)
              /\ p = q => Unseen(st, p) = 0 /\ end.full \in Int
  <2>1. /\ i \in Nat /\ i <= Branching - 1 /\ q \in 0..(i - 1)
        /\ IsMoved(st, old, op, q, end, i)
        /\ old.incr_array \in [0..(Branching - 1) -> Int] /\ old.all_full_incr \in Int
        /\ op.full \in Int /\ Last(old.scratch[p]).full \in Int
    BY <1>2, <1>5, <1>6, <1>7, <1>9, <1>10, <1>11
  <2> HIDE DEF op
  <2>2. /\ st.incr_array \in [0..(Branching - 1) -> Int]
        /\ Unseen(old, p) \in Int /\ Unseen(st, p) \in Int
    BY <2>1, MovedUnseen
  <2>3. /\ p # q => Unseen(st, p) = Unseen(old, p) + op.full + (IF q < p THEN 1 ELSE 0)
        /\ p = q => Unseen(st, p) = 0 /\ end.full \in Int
    BY <2>1, MovedUnseen
  <2> QED
    BY <2>2, <2>3
<1>13. ASSUME NEW p \in 0..(i - 1), p # q
       PROVE  StackInv(st.scratch[p], Unseen(st, p), Partition(t.split, p), ops2, lo, C2, n, due)
  <2> DEFINE stack == old.scratch[p]
             range == Partition(t.split, p)
             u == Unseen(old, p)
             u2 == Unseen(st, p)
             d == IF q < p THEN 1 ELSE 0
             full == op.full
  <2>1. st.scratch[p] = stack
    BY <1>10, <1>13 DEF IsMoved
  <2>2. u2 = u + full + d /\ u2 \in Int /\ u \in Int
    BY <1>12, <1>13
  <2>3. \A j \in range : Whole(op, j) = full + d
    <3> SUFFICES ASSUME NEW j \in range PROVE Whole(op, j) = full + d
      OBVIOUS
    <3>1. j \in start..E /\ (j >= T <=> q < p)
      BY <1>7, <1>9, <1>13, PartitionsOrdered DEF i, start
    <3>2. Whole(op, j) = (IF j >= T THEN 1 ELSE 0) + full
      BY <1>5 DEF Whole, Effect, IncAmnt, T
    <3> QED
      BY <1>5, <3>1, <3>2
  <2>4. Len(stack) \in Nat \ {0}
    BY <1>11
  <2>5. StackInv(stack, u, range, ops, lo, C, n, due)
    BY <1>6
  <2>6. d \in Int /\ full \in Int
    BY <1>5
  <2> HIDE DEF stack, range, u, u2, full, d
  <2>7. \A j \in range : /\ Adds(ops, lo, C, j) \in Int /\ Adds(ops2, lo, C2, j) \in Int
                         /\ u + Adds(ops, lo, C, j) = u2 + Adds(ops2, lo, C2, j)
    BY <1>3, <2>2, <2>3, <2>6
  <2>8. StackInv(stack, u2, range, ops2, lo, C2, n, due)
    BY <2>2, <2>4, <2>5, <2>7, StackCarried
  <2> QED
    BY <2>1, <2>8 DEF range, u2
<1>14. StackInv(st.scratch[q], Unseen(st, q), Partition(t.split, q), ops2, lo, C2, n, due)
  <2> DEFINE stack == old.scratch[q]
             new == st.scratch[q]
             range == Partition(t.split, q)
             u == Unseen(old, q)
             l == Len(stack)
  <2>1. u \in Int /\ l \in Nat \ {0} /\ Unseen(st, q) = 0 /\ end.full \in Int
    BY <1>9, <1>11, <1>12
  <2>2. StackInv(stack, u, range, ops, lo, C, n, due)
    BY <1>6, <1>9
  <2>3. \A k \in 1..(l - 1) : stack[k].target # T
    <3>1. T \notin WaitingTargets(old.scratch, i)
      BY <1>6, <1>8
    <3> DEFINE a == old.scratch
    <3>2. Spaces(a, i) /\ i \in Nat
      BY <1>7
    <3> HIDE DEF a
    <3>3. \A x : x \in WaitingTargets(a, i) <=>
              \E p \in 0..(i - 1) : \E k \in 1..(Len(a[p]) - 1) : x = a[p][k].target
      BY <3>2, WaitingTarget
    <3> QED
      BY <1>9, <3>1, <3>3 DEF a
  <2>4. Adds(ops, lo, C - 1, T) + 1 = due[T]
    BY <1>1, <1>4, <1>5 DEF LoopSlots, Coherent, T
  <2>5. IsNull(end) /\ IsPushed(new, stack, AddFull(op, u), end)
    BY <1>10 DEF IsMoved
  <2>6. \A k \in lo..(C - 1) : ops2[k] = ops[k]
    <3>1. \A k \in lo..(C - 1) : k \in lo..hi /\ k # C /\ k # M
      BY <1>0, <1>2, <1>4
    <3> QED
      BY <3>1 DEF IsTaken, lo, hi
  <2>7. lo \in Int /\ C \in Int /\ lo <= C
    BY <1>2, <1>4
  <2>8. C2 = C - 1
    BY DEF C2
  <2>11. /\ \A k \in 1..(l - 1) : stack[k].target # ops[C].target
         /\ Adds(ops, lo, C - 1, ops[C].target) + 1 = due[ops[C].target]
         /\ ops[C].target \in range
         /\ OpInv(ops[C], n) /\ ops[C].type = "Postfix" /\ Summable(ops, lo, C)
    BY <1>4, <1>5, <1>9, <2>3, <2>4 DEF T
  <2> HIDE DEF stack, new, range, u
  <2>9. Len(stack) = l
    OBVIOUS
  <2> HIDE DEF l
  <2>12. IsGrown(new, end, ops2, C2, stack, l, u, range, ops, lo, C, n, due)
    BY <1>0, <2>1, <2>2, <2>5, <2>6, <2>7, <2>8, <2>9, <2>11 DEF IsGrown
  <2>10. StackInv(new, 0, range, ops2, lo, C2, n, due)
    BY <2>12, StackGrown
  <2> QED
    BY <2>1, <2>10 DEF new, range
<1>15. /\ Spaces(st.scratch, i)
       /\ PendingIn(st.scratch, i) = PendingIn(old.scratch, i) + 1
       /\ WaitingTargets(st.scratch, i) = WaitingTargets(old.scratch, i) \cup {T}
  <2> DEFINE moved == AddFull(op, Unseen(old, q))
             a == old.scratch
             b == st.scratch
  <2>1. moved.target = T
    BY <1>5, AddFullKeepsTarget DEF T
  <2>2. /\ IsPushed(b[q], a[q], moved, end)
        /\ \A p \in 0..(i - 1) : p # q => b[p] = a[p]
    BY <1>10 DEF IsMoved
  <2>3. Spaces(a, i) /\ i \in Nat
    BY <1>7
  <2> HIDE DEF moved, a, b
  <2>4. /\ Spaces(b, i)
        /\ PendingIn(b, i) = PendingIn(a, i) + 1
    BY <1>9, <2>2, <2>3, MovedWaiting
  <2>5. AlsoWaits(b, a, i, moved.target)
    BY <1>9, <2>2, <2>3, MovedWaiting
  <2> QED
    BY <2>1, <2>4, <2>5 DEF AlsoWaits, a, b
<1>16. /\ Targets(ops2, lo, hi, "Prefix") = start..(t.seq.end - 1)
       /\ Targets(ops2, lo, hi, "Postfix") \cap WaitingTargets(st.scratch, i) = {}
       /\ Targets(ops2, lo, hi, "Postfix") \cup WaitingTargets(st.scratch, i)
             = DOMAIN due \cap start..t.seq.end
  <2> DEFINE A == Targets(ops, lo, hi, "Postfix")
             A2 == Targets(ops2, lo, hi, "Postfix")
             W == WaitingTargets(old.scratch, i)
             W2 == WaitingTargets(st.scratch, i)
             D == DOMAIN due \cap start..t.seq.end
  <2>1. A \cap W = {} /\ A \cup W = D /\ T \in A
    BY <1>6, <1>8
  <2>2. A2 = A \ {T} /\ W2 = W \cup {T} /\ Targets(ops2, lo, hi, "Prefix") = start..(t.seq.end - 1)
    BY <1>3, <1>6, <1>15 DEF LessTarget
  <2> HIDE DEF A, W, D, A2, W2
  <2>3. A2 \cap W2 = {} /\ A2 \cup W2 = D
    BY <2>1, <2>2
  <2> QED
    BY <2>2, <2>3 DEF A2, W2, D
<1>17. c2 \in Nat /\ Slot(t, c2) = C2 /\ Slot(t, st.merge_into_idx) = M
       /\ st.merge_into_idx \in Int
       /\ st.merge_into_idx - c2 = PendingIn(st.scratch, i)
  <2>1. Slot(t, c2) = lo + c2 /\ Slot(t, st.merge_into_idx) = lo + st.merge_into_idx
    BY DEF Slot, lo, FirstSlot
  <2>2. PendingIn(old.scratch, i) \in Nat
    BY <1>7, PendingNat
  <2>3. c >= 1
    BY <1>2, <1>4
  <2>4. st.merge_into_idx = m /\ c2 = c - 1
    BY <1>10
  <2>5. C2 = C - 1
    BY DEF C2
  <2>6. m - c = PendingIn(old.scratch, i) /\ PendingIn(st.scratch, i) = PendingIn(old.scratch, i) + 1
    BY <1>6, <1>15
  <2> DEFINE x == PendingIn(st.scratch, i)
             y == PendingIn(old.scratch, i)
             z == st.merge_into_idx
  <2> HIDE DEF x, y, z
  <2>7. c2 \in Nat /\ lo + c2 = C2 /\ lo + z = M /\ z \in Int /\ z - c2 = x
    BY <1>2, <2>2, <2>3, <2>4, <2>5, <2>6 DEF x, y, z
  <2> QED
    BY <2>1, <2>7 DEF x, z
<1>18. st.incr_array \in [0..(Branching - 1) -> Int]
  BY <1>9, <1>12
<1>19. st.all_full_incr \in Int /\ t.seq.end <= n
  <2>1. st.all_full_incr = old.all_full_incr + op.full
    BY <1>10 DEF IsMoved
  <2> QED
    BY <1>2, <1>5, <1>6, <2>1
<1>20. ASSUME NEW p \in 0..(i - 1)
       PROVE  StackInv(st.scratch[p], Unseen(st, p), Partition(t.split, p), ops2, lo, C2, n, due)
  BY <1>13, <1>14
<1> HIDE DEF op
<1> QED
  BY <1>3, <1>16, <1>17, <1>18, <1>19, <1>20 DEF LoopWith, lo, hi, i, start, c2

LEMMA KeepOnRightMeaning ==
    ASSUME TasksInv, NEW s \in DOMAIN tasks, KeepOnRight(s),
           NEW n \in Nat, NEW due, MeaningInv(tasks[s], operations, n, due)
    PROVE  MeaningInv(tasks'[s], operations', n, due)
<1> DEFINE t == tasks[s]
           old == t.split.state
           op == CurOp(t)
           C == Slot(t, old.cur_idx)
           M == Slot(t, old.merge_into_idx)
           E == LeftEnd(t)
           kept == IF M = C THEN op ELSE AddFull(op, operations[M].full)
           st == [old EXCEPT !.all_full_incr = @ + FullIncrToLeft(op, E + 1),
                             !.merge_into_idx = NextMergeIdx(@, kept),
                             !.cur_idx = @ - 1]
<1>1. /\ Iterating(s)
      /\ ~IsBoundaryOp(op, E) /\ ~MoveToScratch(op, E + 1)
      /\ operations' = IF M = C
                       THEN operations
                       ELSE [operations EXCEPT ![M] = kept, ![C] = NoImpact]
      /\ SetTask(s, InState(t, "partition", st))
  BY DEF KeepOnRight
<1>2. /\ C \in DOMAIN operations /\ M \in DOMAIN operations
      /\ IsOp(operations[C]) /\ IsOp(operations[M])
      /\ Shaped(t) /\ DOMAIN t = TaskFields
      /\ op = operations[C]
      /\ TaskInv(t, operations) /\ Region(t) \subseteq DOMAIN operations
      /\ t.pc = "partition"
  BY <1>1, IterationSlots DEF CurOp, TasksInv, TaskInv, Iterating
<1>3. LoopWith(t, old, operations, n, due)
  BY <1>2, LoopOpened
<1>4. LoopSlots(operations, FirstSlot(t), C, M, LastSlot(t), E, n, due)
  BY <1>3 DEF LoopWith
<1>5. ~IsNull(op)
  <2>1. OpInv(operations[C], n) /\ operations[C].type \in {"Prefix", "Postfix"}
    BY <1>4, BoundaryBelow
  <2> QED
    BY <1>2, <2>1 DEF OpInv, IsNull
<1>6. ~IsNull(kept)
  BY <1>2, <1>5, AddFullKeepsTarget
<1>7. /\ st.incr_array = old.incr_array /\ st.scratch = old.scratch
      /\ st.all_full_incr = old.all_full_incr + FullIncrToLeft(op, E + 1)
      /\ st.cur_idx = old.cur_idx - 1 /\ st.merge_into_idx = old.merge_into_idx - 1
  <2> HIDE DEF old, kept, op, E
  <2>1. DOMAIN old = StateFields
    BY <1>2 DEF Shaped, old
  <2> QED
    BY <1>6, <2>1 DEF StateFields, NextMergeIdx
<1> HIDE DEF st, op, t, old
<1>8. IsKept(operations', operations, FirstSlot(t), C, M, LastSlot(t))
  <2>1. ASSUME NEW k \in FirstSlot(t)..LastSlot(t) PROVE k \in DOMAIN operations
    BY <1>2 DEF Region, FirstSlot, LastSlot
  <2> HIDE DEF C, M
  <2>2. CASE M = C
    BY <1>1, <2>2 DEF IsKept
  <2>3. CASE M # C
    <3>1. \A k \in DOMAIN operations :
             operations'[k] = IF k = C THEN NoImpact
                              ELSE IF k = M THEN kept ELSE operations[k]
      BY <1>1, <2>3, TwoWrites
    <3> QED
      BY <1>2, <2>1, <2>3, <3>1 DEF IsKept
  <2> QED
    BY <2>2, <2>3
<1>9. LoopWith(t, st, operations', n, due)
  <2> DEFINE o == operations
             o2 == operations'
             sold == t.split.state
  <2> HIDE DEF o, o2
  <2>1. /\ TaskInv(t, o) /\ t.pc = "partition" /\ old = t.split.state
        /\ LoopWith(t, old, o, n, due)
        /\ ~IsBoundaryOp(o[C], E) /\ ~MoveToScratch(o[C], E + 1)
        /\ IsKept(o2, o, FirstSlot(t), C, M, LastSlot(t))
        /\ st.all_full_incr = old.all_full_incr + FullIncrToLeft(o[C], E + 1)
    BY <1>1, <1>2, <1>3, <1>7, <1>8 DEF o, o2, old
  <2> HIDE DEF C, M, E, sold
  <2>2. C = Slot(t, old.cur_idx) /\ M = Slot(t, old.merge_into_idx) /\ E = LeftEnd(t)
    BY DEF C, M, E
  <2>3. LoopWith(t, st, o2, n, due)
    BY <1>7, <2>1, <2>2, KeptLoop
  <2> QED
    BY <2>3 DEF o2
<1>10. tasks'[s] = InState(t, "partition", st)
  BY <1>1 DEF SetTask
<1> QED
  BY <1>2, <1>9, <1>10, LoopStepped DEF Shaped, t

LEMMA MovePostfixMeaning ==
    ASSUME TasksInv, NEW s \in DOMAIN tasks, MovePostfixToScratch(s),
           NEW n \in Nat, NEW due, MeaningInv(tasks[s], operations, n, due)
    PROVE  MeaningInv(tasks'[s], operations', n, due)
<1> DEFINE t == tasks[s]
           old == t.split.state
           op == CurOp(t)
           C == Slot(t, old.cur_idx)
           M == Slot(t, old.merge_into_idx)
           E == LeftEnd(t)
           q == PartitionTarget(t, op.target)
           incrs == IncrSum(old.incr_array, q)
           stack == old.scratch[q]
           moved == AddFull(op, incrs + old.all_full_incr - Last(stack).full)
           all_full_incr == old.all_full_incr + op.full
           end == AddFull(NoImpact, incrs + all_full_incr)
           pushed == Front(stack) \o <<moved, end>>
           scratch == [old.scratch EXCEPT ![q] = pushed]
           incr_array == IncrUpdated(old.incr_array, q)
           st == [old EXCEPT !.incr_array = incr_array,
                             !.all_full_incr = all_full_incr,
                             !.scratch = scratch,
                             !.cur_idx = @ - 1]
           i == t.split.i
           atCur == IF C # M THEN NoImpact ELSE MakeNull(AddFull(op, IncAmnt))
           atMerge == AddFull(operations[M], op.full + IncAmnt)
<1>1. /\ Iterating(s)
      /\ MoveToScratch(op, E + 1)
      /\ operations' =
             IF C # M
             THEN [operations EXCEPT ![M] = AddFull(operations[M], op.full + IncAmnt),
                                     ![C] = NoImpact]
             ELSE [operations EXCEPT ![C] = MakeNull(AddFull(op, IncAmnt))]
      /\ SetTask(s, InState(t, "partition", st))
  BY DEF MovePostfixToScratch
<1>2. /\ C \in DOMAIN operations /\ M \in DOMAIN operations
      /\ IsOp(operations[C]) /\ IsOp(operations[M])
      /\ Shaped(t) /\ DOMAIN t = TaskFields
      /\ op = operations[C]
      /\ TaskInv(t, operations) /\ Region(t) \subseteq DOMAIN operations
      /\ t.pc = "partition"
  BY <1>1, IterationSlots DEF CurOp, TasksInv, TaskInv, Iterating
<1>3. LoopWith(t, old, operations, n, due)
  BY <1>2, LoopOpened
<1>4. LoopSlots(operations, FirstSlot(t), C, M, LastSlot(t), E, n, due)
  BY <1>3 DEF LoopWith
<1>5. /\ op.type = "Postfix" /\ op.target \in t.seq.start..E
      /\ op.full \in Int /\ old.all_full_incr \in Int
      /\ old.incr_array \in [0..(Branching - 1) -> Int]
  <2>1. OpInv(op, n) /\ C \in FirstSlot(t)..LastSlot(t)
    <3> DEFINE lo == FirstSlot(t)
               hi == LastSlot(t)
               o == operations
    <3>1. LoopSlots(o, lo, C, M, hi, E, n, due)
      BY <1>4
    <3> HIDE DEF lo, hi, o, C, M, E
    <3>2. OpInv(o[C], n) /\ C \in lo..hi
      BY <3>1, BoundaryBelow
    <3> QED
      BY <1>2, <3>2 DEF lo, hi, o
  <2>2. op.type = "Postfix" /\ op.target < E + 1 /\ E \in Nat
    BY <1>1, <1>4 DEF MoveToScratch, LoopSlots
  <2>3. op.target \in Targets(operations, FirstSlot(t), LastSlot(t), "Postfix")
    BY <1>2, <2>1, <2>2 DEF Targets
  <2>4. op.target \in t.seq.start..t.seq.end
    BY <1>3, <2>3 DEF LoopWith
  <2>5. t.seq.start \in Nat /\ t.seq.end \in Nat
    BY <1>2 DEF TaskInv, ProjSequences
  <2>6. op.target \in t.seq.start..E
    BY <2>2, <2>4, <2>5
  <2>7. op.full \in Int
    BY <2>1 DEF OpInv
  <2>8. old.all_full_incr \in Int /\ old.incr_array \in [0..(Branching - 1) -> Int]
    BY <1>3 DEF LoopWith
  <2> QED
    BY <2>2, <2>6, <2>7, <2>8
<1>6. /\ Spaces(old.scratch, i) /\ RangeInv(t) /\ t.seq.start \in Nat \ {0}
      /\ i \in Nat \ {0} /\ i <= Branching - 1
      /\ \A p \in 0..(i - 1) : p \in DOMAIN old.scratch /\ IsStack(old.scratch[p])
  BY <1>2, SpacesOfTask
<1>7. q \in 0..(i - 1)
  BY <1>5, <1>6, TargetInPartition
<1>8. IsOp(moved) /\ IsOp(end) /\ IsNull(end)
  BY <1>2, AddFullKeepsTarget, NoImpactIsNull
<1>9. IsPushed(pushed, stack, moved, end)
  <2>1. IsStack(stack)
    BY <1>6, <1>7
  <2> HIDE DEF moved, end, stack
  <2> QED
    BY <1>8, <2>1, PushedElements
<1>10. end.full = incrs + old.all_full_incr + op.full
  <2>1. incrs \in Int
    <3> DEFINE arr == old.incr_array
    <3>1. arr \in [0..(Branching - 1) -> Int] /\ q \in 0..(Branching - 2)
      BY <1>5, <1>6, <1>7, BranchingAssumption, SMTT(30)
    <3> HIDE DEF arr, q
    <3>2. IncrSum(arr, q) \in Int
      BY <3>1, IncrementSeen
    <3> QED
      BY <3>2 DEF arr
  <2> DEFINE amount == incrs + all_full_incr
  <2>2. amount \in Int /\ amount = incrs + old.all_full_incr + op.full
    BY <1>5, <2>1
  <2> HIDE DEF amount
  <2>3. AddFull(NoImpact, amount).full = amount
    BY <2>2 DEF AddFull, NoImpact
  <2> QED
    BY <2>2, <2>3 DEF amount
<1> HIDE DEF pushed, end, q, incr_array
<1>11. /\ st.incr_array = incr_array /\ st.scratch = scratch
       /\ st.all_full_incr = old.all_full_incr + op.full
       /\ st.cur_idx = old.cur_idx - 1 /\ st.merge_into_idx = old.merge_into_idx
  <2> HIDE DEF old, op, scratch
  <2>1. DOMAIN old = StateFields
    BY <1>2 DEF Shaped, old
  <2> QED
    BY <2>1 DEF StateFields
<1>12. /\ scratch[q] = pushed
       /\ \A p \in 0..(i - 1) : p # q => scratch[p] = old.scratch[p]
  BY <1>6, <1>7
<1>13. moved = AddFull(op, Unseen(old, q))
  BY DEF Unseen
<1>14. IsMoved(st, old, op, q, end, i)
  <2> HIDE DEF st, scratch, moved, op, old, i, incrs
  <2>1. IsPushed(st.scratch[q], old.scratch[q], AddFull(op, Unseen(old, q)), end)
    BY <1>9, <1>11, <1>12, <1>13 DEF stack
  <2>2. st.incr_array = IncrUpdated(old.incr_array, q)
    BY <1>11 DEF incr_array
  <2>3. end.full = IncrSum(old.incr_array, q) + old.all_full_incr + op.full
    BY <1>10 DEF incrs
  <2> QED
    BY <1>8, <1>11, <1>12, <2>1, <2>2, <2>3 DEF IsMoved
<1> HIDE DEF st, scratch, moved, stack, all_full_incr, incrs, old
<1>15. IsTaken(operations', operations, FirstSlot(t), C, M, LastSlot(t))
  <2>1. ASSUME NEW k \in FirstSlot(t)..LastSlot(t) PROVE k \in DOMAIN operations
    BY <1>2 DEF Region, FirstSlot, LastSlot
  <2> HIDE DEF C, M, op, t
  <2>2. CASE M = C
    BY <1>1, <1>2, <2>2, <2>1 DEF IsTaken
  <2>3. CASE M # C
    <3>1. \A k \in DOMAIN operations :
             operations'[k] = IF k = C THEN NoImpact
                              ELSE IF k = M THEN atMerge ELSE operations[k]
      BY <1>1, <2>3, TwoWrites
    <3> QED
      BY <1>2, <2>1, <2>3, <3>1 DEF IsTaken
  <2> QED
    BY <2>2, <2>3
<1>16. LoopWith(t, st, operations', n, due)
  <2> DEFINE o == operations
             o2 == operations'
  <2> HIDE DEF o, o2
  <2>1. /\ TaskInv(t, o) /\ t.pc = "partition" /\ old = t.split.state
        /\ LoopWith(t, old, o, n, due)
        /\ MoveToScratch(o[C], E + 1)
        /\ IsTaken(o2, o, FirstSlot(t), C, M, LastSlot(t))
        /\ q = PartitionTarget(t, o[C].target)
        /\ IsMoved(st, old, o[C], q, end, t.split.i)
    BY <1>1, <1>2, <1>3, <1>14, <1>15 DEF o, o2, old, q
  <2> HIDE DEF C, M, E, op, t, i
  <2>2. C = Slot(t, old.cur_idx) /\ M = Slot(t, old.merge_into_idx) /\ E = LeftEnd(t)
    BY DEF C, M, E
  <2>3. LoopWith(t, st, o2, n, due)
    BY <1>11, <2>1, <2>2, TakenLoop
  <2> QED
    BY <2>3 DEF o2
<1>17. tasks'[s] = InState(t, "partition", st)
  BY <1>1 DEF SetTask, st, scratch, incr_array, q, pushed, end, moved, stack, old, incrs, all_full_incr
<1> QED
  BY <1>2, <1>16, <1>17, LoopStepped DEF Shaped, t

\* What waits is for the left side.
LEMMA WaitingOnLeft ==
    ASSUME NEW t, RangeInv(t), t.seq.start \in Nat \ {0},
           NEW scratch, Spaces(scratch, t.split.i),
           \A p \in 0..(t.split.i - 1) : \A m \in 1..(Len(scratch[p]) - 1) :
              scratch[p][m].target \in Partition(t.split, p)
    PROVE  WaitingTargets(scratch, t.split.i) \subseteq t.seq.start..LeftEnd(t)
<1> SUFFICES ASSUME NEW x \in WaitingTargets(scratch, t.split.i)
             PROVE  x \in t.seq.start..LeftEnd(t)
  OBVIOUS
<1>1. PICK p \in 0..(t.split.i - 1) : \E m \in 1..(Len(scratch[p]) - 1) : x = scratch[p][m].target
  <2> DEFINE i == t.split.i
  <2>1. Spaces(scratch, i) /\ x \in WaitingTargets(scratch, i)
    OBVIOUS
  <2> HIDE DEF i
  <2>2. \E p \in 0..(i - 1) : \E m \in 1..(Len(scratch[p]) - 1) : x = scratch[p][m].target
    BY <2>1, WaitingTarget
  <2> QED
    BY <2>2 DEF i
<1>2. x \in Partition(t.split, p)
  BY <1>1
<1> QED
  BY <1>2, PartitionsOrdered

\* What the invariant says of a task that has split, in terms of its slots.
SplitWith(t, st, ops, n, due) ==
    /\ CutSides(ops, FirstSlot(t), Slot(t, st.cur_idx), Slot(t, st.merge_into_idx),
                LastSlot(t), n, due)
    /\ t.seq.end <= n
    /\ st.incr_array \in [0..(Branching - 1) -> Int]
    /\ st.all_full_incr \in Int
    /\ st.cur_idx \in Nat /\ st.merge_into_idx \in Int
    /\ st.merge_into_idx - st.cur_idx = PendingIn(st.scratch, t.split.i) + 1
    /\ Targets(ops, FirstSlot(t), Slot(t, st.cur_idx), "Prefix") = t.seq.start..(LeftEnd(t) - 1)
    /\ Targets(ops, FirstSlot(t), Slot(t, st.cur_idx), "Postfix")
          \cap WaitingTargets(st.scratch, t.split.i) = {}
    /\ Targets(ops, FirstSlot(t), Slot(t, st.cur_idx), "Postfix")
          \cup WaitingTargets(st.scratch, t.split.i) = DOMAIN due \cap t.seq.start..LeftEnd(t)
    /\ \A p \in 0..(t.split.i - 1) :
          StackInv(st.scratch[p], Unseen(st, p), Partition(t.split, p),
                   ops, FirstSlot(t), Slot(t, st.cur_idx), n, due)
    /\ Targets(ops, Slot(t, st.merge_into_idx), LastSlot(t), "Prefix")
          = (LeftEnd(t) + 1)..(t.seq.end - 1)
    /\ Targets(ops, Slot(t, st.merge_into_idx), LastSlot(t), "Postfix")
          = DOMAIN due \cap (LeftEnd(t) + 1)..t.seq.end

\* The boundary leaves every scratch space with as much to come as before.
LEMMA CutLoop ==
    ASSUME NEW t, NEW ops, TaskInv(t, ops), t.pc = "partition", NEW n \in Nat, NEW due,
           NEW old, old = t.split.state, LoopWith(t, old, ops, n, due),
           NEW C, C = Slot(t, old.cur_idx), NEW M, M = Slot(t, old.merge_into_idx),
           NEW E, E = LeftEnd(t), IsBoundaryOp(ops[C], E),
           NEW ops2, IsCut(ops2, ops, FirstSlot(t), C, M, LastSlot(t)),
           NEW st, st.incr_array = old.incr_array, st.scratch = old.scratch,
           st.all_full_incr = old.all_full_incr,
           st.cur_idx = old.cur_idx - 1, st.merge_into_idx = old.merge_into_idx
    PROVE  SplitWith(t, st, ops2, n, due)
<1> DEFINE lo == FirstSlot(t)
           hi == LastSlot(t)
           C2 == C - 1
           i == t.split.i
           start == t.seq.start
           tend == t.seq.end
           c == old.cur_idx
           m == old.merge_into_idx
           c2 == st.cur_idx
           W == WaitingTargets(old.scratch, i)
<1>1. LoopSlots(ops, lo, C, M, hi, E, n, due)
  BY DEF LoopWith
<1>2. /\ lo \in Int /\ c \in Nat /\ m \in Int /\ old.all_full_incr \in Int
      /\ C = lo + c /\ M = lo + m
  <2>1. t.seq.base \in Nat
    BY DEF TaskInv, ProjSequences
  <2> QED
    BY <2>1 DEF LoopWith, Slot, FirstSlot
<1>3. /\ CutSides(ops2, lo, C2, M, hi, n, due)
      /\ CutTargets(ops2, C2, ops, lo, M, hi, E)
      /\ SameAddsBelow(ops2, C2, ops, lo, C, E)
  <2> DEFINE F == lo
             L == hi
  <2>1. Cuts(ops2, C2, ops, F, C, M, L, E, n, due)
    BY <1>1 DEF Cuts
  <2> HIDE DEF F, L, C2
  <2>2. /\ CutSides(ops2, F, C2, M, L, n, due)
        /\ CutTargets(ops2, C2, ops, F, M, L, E)
    BY <2>1, CutSlots
  <2>3. SameAddsBelow(ops2, C2, ops, F, C, E)
    BY <2>1, CutSlots
  <2> QED
    BY <2>2, <2>3 DEF F, L
<1>4. /\ lo < C /\ C \in Int /\ E \in Nat
      /\ Summable(ops, lo, C)
  BY <1>1, BoundaryBelow DEF LoopSlots
<1>6. /\ Targets(ops, lo, hi, "Prefix") = start..(tend - 1)
      /\ Targets(ops, lo, hi, "Postfix") \cap W = {}
      /\ Targets(ops, lo, hi, "Postfix") \cup W = DOMAIN due \cap start..tend
      /\ tend <= n
      /\ m - c = PendingIn(old.scratch, i)
      /\ old.incr_array \in [0..(Branching - 1) -> Int]
      /\ \A p \in 0..(i - 1) :
            StackInv(old.scratch[p], Unseen(old, p), Partition(t.split, p), ops, lo, C, n, due)
  BY DEF LoopWith
<1>7. /\ Spaces(old.scratch, i) /\ i \in Nat \ {0}
      /\ RangeInv(t) /\ start \in Nat \ {0} /\ tend \in Nat
      /\ start <= E /\ E < tend
      /\ \A p \in 0..(i - 1) : p \in 0..(Branching - 2)
  BY SpacesOfTask
<1>8. W \subseteq start..E
  <2>1. \A p \in 0..(i - 1) : \A k \in 1..(Len(old.scratch[p]) - 1) :
            old.scratch[p][k].target \in Partition(t.split, p)
    BY <1>6 DEF StackInv
  <2> HIDE DEF W
  <2> QED
    BY <1>7, <2>1, WaitingOnLeft DEF W
<1> HIDE DEF lo, hi, C2, i, start, tend, c, m, c2, W
<1>9. ASSUME NEW p \in 0..(i - 1)
      PROVE  /\ Unseen(old, p) \in Int /\ Len(old.scratch[p]) \in Nat \ {0}
             /\ Unseen(st, p) = Unseen(old, p) /\ st.scratch[p] = old.scratch[p]
  <2>1. Unseen(old, p) \in Int /\ Len(old.scratch[p]) \in Nat \ {0}
    BY <1>7, UnseenType DEF i
  <2>2. Unseen(st, p) = Unseen(old, p)
    BY DEF Unseen
  <2> QED
    BY <2>1, <2>2
<1>10. ASSUME NEW p \in 0..(i - 1)
       PROVE  StackInv(st.scratch[p], Unseen(st, p), Partition(t.split, p), ops2, lo, C2, n, due)
  <2> DEFINE stack == old.scratch[p]
             range == Partition(t.split, p)
             u == Unseen(old, p)
  <2>1. \A j \in range : j \in 0..E
    <3> SUFFICES ASSUME NEW j \in range PROVE j \in 0..E
      OBVIOUS
    <3>1. j \in start..E
      BY <1>7, PartitionsOrdered DEF i, start
    <3> QED
      BY <1>7, <3>1
  <2>2. u \in Int /\ Len(stack) \in Nat \ {0} /\ StackInv(stack, u, range, ops, lo, C, n, due)
    BY <1>6, <1>9
  <2> HIDE DEF stack, range, u
  <2>3. \A j \in range : /\ Adds(ops, lo, C, j) \in Int /\ Adds(ops2, lo, C2, j) \in Int
                         /\ u + Adds(ops, lo, C, j) = u + Adds(ops2, lo, C2, j)
    BY <1>3, <2>1 DEF SameAddsBelow
  <2>4. StackInv(stack, u, range, ops2, lo, C2, n, due)
    BY <2>2, <2>3, StackCarried
  <2> QED
    BY <1>9, <2>4 DEF stack, range, u
<1>11. /\ Targets(ops2, lo, C2, "Prefix") = start..(E - 1)
       /\ Targets(ops2, M, hi, "Prefix") = (E + 1)..(tend - 1)
  <2> DEFINE A == Targets(ops, lo, hi, "Prefix")
  <2>1. /\ Targets(ops2, lo, C2, "Prefix") = {T \in A : T < E}
        /\ Targets(ops2, M, hi, "Prefix") = {T \in A : E < T}
    BY <1>3 DEF CutTargets
  <2>2. A = start..(tend - 1)
    BY <1>6
  <2> HIDE DEF A
  <2>3. {T \in A : T < E} = start..(E - 1) /\ {T \in A : E < T} = (E + 1)..(tend - 1)
    BY <1>4, <1>7, <2>2
  <2> QED
    BY <2>1, <2>3
<1>12. /\ Targets(ops2, lo, C2, "Postfix") \cap W = {}
       /\ Targets(ops2, lo, C2, "Postfix") \cup W = DOMAIN due \cap start..E
       /\ Targets(ops2, M, hi, "Postfix") = DOMAIN due \cap (E + 1)..tend
  <2> DEFINE A == Targets(ops, lo, hi, "Postfix")
             D == DOMAIN due
  <2>1. /\ Targets(ops2, lo, C2, "Postfix") = {T \in A : T <= E}
        /\ Targets(ops2, M, hi, "Postfix") = {T \in A : E < T}
    BY <1>3 DEF CutTargets
  <2>2. A \cap W = {} /\ A \cup W = D \cap start..tend
    BY <1>6
  <2> HIDE DEF A, D
  <2>3. {T \in A : T <= E} \cap W = {}
    BY <2>2
  <2>4. {T \in A : T <= E} \cup W = D \cap start..E
    BY <1>4, <1>7, <1>8, <2>2
  <2>5. {T \in A : E < T} = D \cap (E + 1)..tend
    BY <1>4, <1>7, <1>8, <2>2
  <2> QED
    BY <2>1, <2>3, <2>4, <2>5 DEF D
<1>13. /\ c2 \in Nat /\ Slot(t, c2) = C2 /\ Slot(t, st.merge_into_idx) = M
       /\ st.merge_into_idx \in Int
       /\ st.merge_into_idx - c2 = PendingIn(old.scratch, i) + 1
  <2>1. Slot(t, c2) = lo + c2 /\ Slot(t, st.merge_into_idx) = lo + st.merge_into_idx
    BY DEF Slot, lo, FirstSlot
  <2>3. c >= 1
    BY <1>2, <1>4
  <2>4. st.merge_into_idx = m /\ c2 = c - 1
    BY DEF m, c2, c
  <2>5. C2 = C - 1
    BY DEF C2
  <2> DEFINE x == PendingIn(old.scratch, i)
             z == st.merge_into_idx
  <2>6. m - c = x
    BY <1>6
  <2> HIDE DEF x, z
  <2>7. c2 \in Nat /\ lo + c2 = C2 /\ lo + z = M /\ z \in Int /\ z - c2 = x + 1
    BY <1>2, <2>3, <2>4, <2>5, <2>6 DEF z
  <2> QED
    BY <2>1, <2>7 DEF x, z
<1> QED
  BY <1>2, <1>3, <1>6, <1>10, <1>11, <1>12, <1>13 DEF SplitWith, lo, hi, i, start, tend, c2, W

LEMMA SplitClosed ==
    ASSUME NEW t, t.pc = "split", NEW ops, NEW n, NEW due, SplitWith(t, t.split.state, ops, n, due),
           LeftEnd(t) \in Nat
    PROVE  MeaningInv(t, ops, n, due)
<1> DEFINE st == t.split.state
           lo == t.seq.base
           hi == t.seq.base + t.seq.num_ops - 1
           C == lo + st.cur_idx
           M == lo + st.merge_into_idx
           E == LeftEnd(t)
<1>1. CutSides(ops, lo, C, M, hi, n, due)
  BY DEF SplitWith, FirstSlot, LastSlot, Slot
<1>2. /\ Coherent(ops, lo, C, n, due)
      /\ \A k \in (lo + 1)..C : ~IsNull(ops[k])
      /\ \A k \in (C + 1)..(M - 1) : ops[k] = NoImpact
      /\ Coherent(ops, M, hi, n, due)
      /\ \A k \in (M + 1)..hi : ~IsNull(ops[k])
      /\ hi \in Int /\ M \in Int /\ lo \in Int /\ C \in Int
  BY <1>1 DEF CutSides
<1>3. SlotsInv(t, ops)
  <2>1. /\ st.incr_array \in [0..(Branching - 1) -> Int]
        /\ st.all_full_incr \in Int
        /\ st.cur_idx \in Nat
        /\ st.merge_into_idx \in Int
        /\ st.merge_into_idx - st.cur_idx = Pending(t) + 1
    BY PendingIsSum, Zenon DEF SplitWith
  <2>4. st.merge_into_idx - st.cur_idx = Pending(t) + (IF t.pc = "split" THEN 1 ELSE 0)
    BY <2>1, Zenon
  <2>5. \A k \in (lo + st.cur_idx + 1)..(lo + st.merge_into_idx - 1) : ops[k] = NoImpact
    <3> DEFINE P(k) == ops[k] = NoImpact
    <3>1. \A k \in (C + 1)..(M - 1) : P(k)
      BY <1>2
    <3>2. lo \in Int /\ st.cur_idx \in Int /\ st.merge_into_idx \in Int
      BY <1>2, <2>1
    <3> HIDE DEF P, st
    <3>3. \A k \in (lo + st.cur_idx + 1)..(lo + st.merge_into_idx - 1) : P(k)
      BY <3>1, <3>2
    <3> QED
      BY <3>3 DEF P, st
  <2> QED
    BY <1>2, <2>1, <2>4, <2>5, Zenon DEF SlotsInv
<1>4. LeftInv(t, C, E, ops, n, due)
  BY <1>2 DEF SplitWith, LeftInv, FirstSlot, LastSlot, Slot
<1>5. Projected(ops, M, hi, E + 1, t.seq.end, n, due)
  <2>1. /\ Targets(ops, M, hi, "Prefix") = (E + 1)..(t.seq.end - 1)
        /\ Targets(ops, M, hi, "Postfix") = DOMAIN due \cap (E + 1)..t.seq.end
    BY DEF SplitWith, FirstSlot, LastSlot, Slot
  <2> HIDE DEF M, hi, E
  <2> QED
    BY <1>2, <2>1 DEF Projected
<1> QED
  BY <1>3, <1>4, <1>5 DEF MeaningInv, SplitWith

LEMMA SplitStepped ==
    ASSUME NEW t, DOMAIN t = TaskFields, DOMAIN t.split = SplitFields, LeftEnd(t) \in Nat,
           NEW st, NEW ops, NEW n, NEW due, SplitWith(t, st, ops, n, due)
    PROVE  MeaningInv(InState(t, "split", st), ops, n, due)
<1> DEFINE u == InState(t, "split", st)
<1>1. /\ u.pc = "split" /\ u.seq = t.seq /\ u.split.i = t.split.i /\ u.split.state = st
      /\ LeftEnd(u) = LeftEnd(t)
  BY StateChanged
<1>2. \A p : Partition(u.split, p) = Partition(t.split, p)
  BY StateChanged
<1> HIDE DEF u
<1>3. /\ FirstSlot(u) = FirstSlot(t) /\ LastSlot(u) = LastSlot(t)
      /\ \A x : Slot(u, x) = Slot(t, x)
  BY <1>1 DEF FirstSlot, LastSlot, Slot
<1>4. SplitWith(u, u.split.state, ops, n, due)
  BY <1>1, <1>2, <1>3 DEF SplitWith
<1> QED
  BY <1>1, <1>4, SplitClosed DEF u

LEMMA MergeBoundaryMeaning ==
    ASSUME TasksInv, NEW s \in DOMAIN tasks, MergeBoundary(s),
           NEW n \in Nat, NEW due, MeaningInv(tasks[s], operations, n, due)
    PROVE  MeaningInv(tasks'[s], operations', n, due)
<1> DEFINE t == tasks[s]
           old == t.split.state
           op == CurOp(t)
           C == Slot(t, old.cur_idx)
           M == Slot(t, old.merge_into_idx)
           E == LeftEnd(t)
           st == [old EXCEPT !.cur_idx = @ - 1]
           credited == [operations EXCEPT ![C - 1] = AddFull(@, op.full + IncAmnt)]
<1>1. /\ Iterating(s)
      /\ IsBoundaryOp(op, E)
      /\ operations' = IF M = C
                       THEN [credited EXCEPT ![C] = MakeNull(op)]
                       ELSE [credited EXCEPT ![M] = AddFull(@, op.full), ![C] = NoImpact]
      /\ SetTask(s, InState(t, "split", st))
  BY DEF MergeBoundary
<1>2. /\ C \in DOMAIN operations /\ M \in DOMAIN operations
      /\ IsOp(operations[C]) /\ IsOp(operations[M])
      /\ Shaped(t) /\ DOMAIN t = TaskFields
      /\ op = operations[C]
      /\ TaskInv(t, operations) /\ Region(t) \subseteq DOMAIN operations
      /\ t.pc = "partition"
  BY <1>1, IterationSlots DEF CurOp, TasksInv, TaskInv, Iterating
<1>3. LoopWith(t, old, operations, n, due)
  BY <1>2, LoopOpened
<1>4. LoopSlots(operations, FirstSlot(t), C, M, LastSlot(t), E, n, due)
  BY <1>3 DEF LoopWith
<1>5. E \in Nat
  BY <1>4 DEF LoopSlots
<1>7. /\ st.incr_array = old.incr_array /\ st.scratch = old.scratch
      /\ st.all_full_incr = old.all_full_incr
      /\ st.cur_idx = old.cur_idx - 1 /\ st.merge_into_idx = old.merge_into_idx
  <2> HIDE DEF old, op, E
  <2>1. DOMAIN old = StateFields
    BY <1>2 DEF Shaped, old
  <2> QED
    BY <2>1 DEF StateFields
<1>8. IsCut(operations', operations, FirstSlot(t), C, M, LastSlot(t))
  <2> DEFINE lo == FirstSlot(t)
             hi == LastSlot(t)
             o == operations
  <2>1. \A k \in lo..hi : k \in DOMAIN operations
    BY <1>2 DEF Region, FirstSlot, LastSlot
  <2>2. LoopSlots(o, lo, C, M, hi, E, n, due)
    BY <1>4
  <2> HIDE DEF lo, hi, o, C, M, E
  <2>3. lo < C /\ C \in lo..hi /\ M \in C..hi
    BY <2>2, BoundaryBelow
  <2>4. lo \in Int /\ hi \in Int /\ C \in Int /\ M \in Int
    BY <2>2 DEF LoopSlots
  <2>5. C - 1 \in lo..hi /\ C - 1 # C /\ C - 1 # M
    BY <2>3, <2>4
  <2>6. /\ DOMAIN credited = DOMAIN operations
        /\ \A k \in DOMAIN operations :
             credited[k] = IF k = C - 1 THEN AddFull(operations[k], op.full + IncAmnt)
                           ELSE operations[k]
    BY <2>1, <2>5
  <2> HIDE DEF op, credited
  <2>7. CASE M = C
    <3>1. \A k \in DOMAIN operations :
             operations'[k] = IF k = C THEN MakeNull(op) ELSE credited[k]
      BY <1>1, <2>6, <2>7
    <3> QED
      BY <1>2, <2>1, <2>5, <2>6, <2>7, <3>1 DEF IsCut, lo, hi
  <2>8. CASE M # C
    <3>1. operations' = [credited EXCEPT ![M] = AddFull(credited[M], op.full), ![C] = NoImpact]
      BY <1>1, <2>8
    <3>2. \A k \in DOMAIN operations :
             operations'[k] = IF k = C THEN NoImpact
                              ELSE IF k = M THEN AddFull(credited[M], op.full) ELSE credited[k]
      BY <2>6, <3>1, TwoWrites
    <3>3. credited[M] = operations[M]
      BY <1>2, <2>5, <2>6
    <3> QED
      BY <1>2, <2>1, <2>5, <2>6, <2>8, <3>2, <3>3 DEF IsCut, lo, hi
  <2> QED
    BY <2>7, <2>8 DEF lo, hi
<1> HIDE DEF st, op, t, old
<1>9. SplitWith(t, st, operations', n, due)
  <2> DEFINE o == operations
             o2 == operations'
             sold == t.split.state
  <2> HIDE DEF o, o2
  <2>1. /\ TaskInv(t, o) /\ t.pc = "partition" /\ old = t.split.state
        /\ LoopWith(t, old, o, n, due)
        /\ IsBoundaryOp(o[C], E)
        /\ IsCut(o2, o, FirstSlot(t), C, M, LastSlot(t))
    BY <1>1, <1>2, <1>3, <1>7, <1>8 DEF o, o2, old
  <2> HIDE DEF C, M, E, sold
  <2>2. C = Slot(t, old.cur_idx) /\ M = Slot(t, old.merge_into_idx) /\ E = LeftEnd(t)
    BY DEF C, M, E
  <2>3. SplitWith(t, st, o2, n, due)
    BY <1>7, <2>1, <2>2, CutLoop
  <2> QED
    BY <2>3 DEF o2
<1>10. tasks'[s] = InState(t, "split", st)
  BY <1>1 DEF SetTask, t
<1> QED
  BY <1>2, <1>5, <1>9, <1>10, SplitStepped DEF Shaped, t

\* The scratch space stack is put back below M, from the Null at G on, which takes
\* what the space has not seen.
IsUnstacked(ops2, ops, lo, M, hi, G, stack, unseen) ==
    \A k \in lo..hi :
        ops2[k] = IF k \in (G + 1)..(M - 1) THEN stack[M - k]
                  ELSE IF k = G THEN AddFull(ops[k], unseen)
                  ELSE ops[k]

Unstacks(ops2, ops, lo, C, M, hi, G, stack, L, unseen, range, n, due) ==
    /\ CutSides(ops, lo, C, M, hi, n, due)
    /\ L \in Nat /\ Len(stack) = L + 1
    /\ G = M - L - 1 /\ C <= G
    /\ unseen \in Int
    /\ StackInv(stack, unseen, range, ops, lo, C, n, due)
    /\ Targets(ops, lo, C, "Postfix") \cap StackTargets(stack, L) = {}
    /\ IsUnstacked(ops2, ops, lo, M, hi, G, stack, unseen)

UnstackedSide(ops2, lo, C, G, hi2, range, n, due) ==
    /\ lo <= C /\ C <= G /\ G <= hi2
    /\ Coherent(ops2, lo, hi2, n, due)
    /\ ops2[lo].type = "Null"
    /\ \A k \in (lo + 1)..C : ~IsNull(ops2[k])
    /\ \A k \in (C + 1)..(G - 1) : ops2[k] = NoImpact
    /\ \A k \in (C + 1)..G : ops2[k].type = "Null"
    /\ \A k \in (G + 1)..hi2 : ~IsNull(ops2[k]) /\ ops2[k].target \in range

LEMMA UnstackedSlots ==
    ASSUME NEW ops2, NEW ops, NEW lo, NEW C, NEW M, NEW hi, NEW G, NEW stack, NEW L, NEW unseen,
           NEW range, NEW n \in Nat, NEW due, NEW hi2, hi2 = M - 1,
           Unstacks(ops2, ops, lo, C, M, hi, G, stack, L, unseen, range, n, due)
    PROVE  /\ UnstackedSide(ops2, lo, C, G, hi2, range, n, due)
           /\ UnstackedTargets(ops2, ops, lo, C, hi2, stack, L)
<1>0. /\ CutSides(ops, lo, C, M, hi, n, due)
      /\ L \in Nat /\ Len(stack) = L + 1
      /\ G = M - L - 1 /\ C <= G
      /\ unseen \in Int
      /\ StackInv(stack, unseen, range, ops, lo, C, n, due)
      /\ Targets(ops, lo, C, "Postfix") \cap StackTargets(stack, L) = {}
      /\ IsUnstacked(ops2, ops, lo, M, hi, G, stack, unseen)
  BY DEF Unstacks
<1>1. /\ lo \in Int /\ C \in Int /\ M \in Int /\ hi \in Int
      /\ lo <= C /\ C < M /\ M <= hi
      /\ Coherent(ops, lo, C, n, due)
      /\ ops[lo].type = "Null"
      /\ \A k \in (lo + 1)..C : ~IsNull(ops[k])
      /\ \A k \in (C + 1)..(M - 1) : ops[k] = NoImpact
  BY <1>0 DEF CutSides
<1>2. G \in Int /\ G < M /\ lo <= G /\ G <= hi2 /\ hi2 \in Int /\ G + L = hi2 /\ C <= G
  BY <1>0, <1>1
<1>3. /\ \A k \in lo..(G - 1) : ops2[k] = ops[k]
      /\ ops2[G] = AddFull(ops[G], unseen)
      /\ \A k \in (G + 1)..hi2 : ops2[k] = stack[M - k]
  <2>1. \A k \in lo..(G - 1) : k \in lo..hi /\ k \notin (G + 1)..(M - 1) /\ k # G
    BY <1>1, <1>2
  <2>2. G \in lo..hi /\ G \notin (G + 1)..(M - 1)
    BY <1>1, <1>2
  <2>3. \A k \in (G + 1)..hi2 : k \in lo..hi /\ k \in (G + 1)..(M - 1)
    BY <1>1, <1>2
  <2> QED
    BY <1>0, <2>1, <2>2, <2>3 DEF IsUnstacked
<1>4. \A m \in 1..L : OpInv(stack[m], n) /\ stack[m].type = "Postfix" /\ stack[m].target \in range
  <2>1. Len(stack) - 1 = L
    BY <1>0
  <2> QED
    BY <1>0, <2>1 DEF StackInv
<1>5. /\ \A k \in lo..C : OpInv(ops[k], n)
      /\ \A k \in lo..G : OpInv(ops[k], n)
      /\ \A k \in (C + 1)..G : ops[k] = NoImpact /\ ops[k].type = "Null"
  <2>1. \A k \in lo..C : OpInv(ops[k], n)
    BY <1>1 DEF Coherent
  <2>2. \A k \in (C + 1)..G : ops[k] = NoImpact
    BY <1>1, <1>2
  <2>3. OpInv(NoImpact, n) /\ NoImpact.type = "Null"
    BY NoImpactInv
  <2>4. \A k \in lo..G : k \in lo..C \/ k \in (C + 1)..G
    BY <1>1, <1>2
  <2> QED
    BY <2>1, <2>2, <2>3, <2>4
<1>6. /\ OpInv(ops2[G], n) /\ ops2[G].type = ops[G].type /\ ops2[G].target = ops[G].target
      /\ \A j : Whole(ops2[G], j) = Whole(ops[G], j) + unseen /\ Whole(ops[G], j) \in Int
  <2> DEFINE op == ops[G]
  <2>1. OpInv(op, n) /\ unseen \in Int /\ ops2[G] = AddFull(op, unseen)
    BY <1>0, <1>1, <1>2, <1>3, <1>5
  <2> HIDE DEF op
  <2>2. /\ OpInv(AddFull(op, unseen), n)
        /\ AddFull(op, unseen).type = op.type /\ AddFull(op, unseen).target = op.target
        /\ \A j : /\ Whole(AddFull(op, unseen), j) = Whole(op, j) + unseen
                  /\ Whole(op, j) \in Int
    BY <2>1, AddFullInv
  <2> QED
    BY <2>1, <2>2 DEF op
<1>7. /\ \A k \in lo..G : OpInv(ops2[k], n)
      /\ \A k \in lo..G : ops2[k].type = ops[k].type /\ ops2[k].target = ops[k].target
  <2>1. \A k \in lo..G : k = G \/ k \in lo..(G - 1)
    BY <1>1, <1>2
  <2> QED
    BY <1>3, <1>5, <1>6, <2>1
<1>8. /\ \A k \in lo..(C - 1) : ops2[k] = ops[k]
      /\ \A k \in (C + 1)..(G - 1) : ops2[k] = NoImpact
      /\ \A k \in (C + 1)..G : ops2[k].type = "Null"
      /\ \A k \in lo..C : ops2[k].type = ops[k].type /\ ops2[k].target = ops[k].target
  <2>1. /\ \A k \in lo..(C - 1) : k \in lo..(G - 1)
        /\ \A k \in (C + 1)..(G - 1) : k \in lo..(G - 1) /\ k \in (C + 1)..G
        /\ \A k \in (C + 1)..G : k \in lo..G
        /\ \A k \in lo..C : k \in lo..G
    BY <1>1, <1>2
  <2> QED
    BY <1>3, <1>5, <1>7, <2>1
<1>9. \A j : Adds(ops2, lo, G, j) = Adds(ops, lo, C, j) + unseen
  <2> SUFFICES ASSUME NEW j PROVE Adds(ops2, lo, G, j) = Adds(ops, lo, C, j) + unseen
    OBVIOUS
  <2> DEFINE a == C + 1
  <2>1. Summable(ops, lo, G) /\ Summable(ops2, lo, G) /\ Summable(ops, lo, C)
    BY <1>1, <1>2, <1>5, <1>7 DEF Summable, OpInv
  <2>2. a \in Int /\ lo <= a /\ a <= G + 1 /\ a - 1 = C
    BY <1>1, <1>2
  <2>3. \A k \in a..G : Whole(ops[k], j) = 0
    BY <1>5, NoImpactInv
  <2> HIDE DEF a
  <2>4. Adds(ops, lo, G, j) = Adds(ops, lo, a - 1, j) + Adds(ops, a, G, j)
    BY <2>1, <2>2, AddsSplit
  <2>5. Adds(ops, a, G, j) = 0
    BY <1>2, <2>2, <2>3, AddsNothing
  <2>6. G \in lo..G /\ \A k \in lo..G : k # G => ops2[k] = ops[k]
    <3>1. \A k \in lo..G : k # G => k \in lo..(G - 1)
      BY <1>1, <1>2
    <3> QED
      BY <1>1, <1>2, <1>3, <3>1
  <2>7. Adds(ops2, lo, G, j) = Adds(ops, lo, G, j) + Whole(ops2[G], j) - Whole(ops[G], j)
    BY <2>1, <2>6, AddsWrite
  <2>8. Adds(ops, lo, C, j) \in Int /\ Adds(ops, lo, G, j) \in Int
    BY <2>1, AddsType
  <2> QED
    BY <1>0, <1>6, <2>2, <2>4, <2>5, <2>7, <2>8
<1>10. IsReversed(ops2, G, stack, L)
  <2>1. \A r \in 1..L : G + r \in (G + 1)..hi2 /\ M - (G + r) = L + 1 - r
    BY <1>0, <1>1, <1>2
  <2> QED
    BY <1>3, <2>1 DEF IsReversed
<1>11. Unstacked(ops2, ops, lo, C, G, stack, L, unseen, n)
  BY <1>7, <1>8, <1>9, <1>10 DEF Unstacked
<1>12. Coherent(ops2, lo, hi2, n, due) /\ UnstackedTargets(ops2, ops, lo, C, hi2, stack, L)
  <2>1. PutsBack(ops2, hi2, ops, lo, C, G, stack, L, unseen, range, n, due)
    BY <1>0, <1>1, <1>2, <1>11 DEF PutsBack
  <2> QED
    BY <2>1, ScratchUnstacked
<1>13. \A k \in (G + 1)..hi2 : ~IsNull(ops2[k]) /\ ops2[k].target \in range
  <2>1. \A k \in (G + 1)..hi2 : M - k \in 1..L
    BY <1>0, <1>1, <1>2
  <2> QED
    BY <1>3, <1>4, <2>1 DEF OpInv, IsNull
<1>14. ops2[lo].type = "Null" /\ \A k \in (lo + 1)..C : ~IsNull(ops2[k])
  <2>1. lo \in lo..C /\ \A k \in (lo + 1)..C : k \in lo..C
    BY <1>1
  <2> QED
    BY <1>1, <1>8, <2>1 DEF IsNull
<1> QED
  BY <1>1, <1>2, <1>8, <1>12, <1>13, <1>14 DEF UnstackedSide

LEMMA SplitOpened ==
    ASSUME NEW t, NEW ops, TaskInv(t, ops), t.pc = "split",
           NEW n \in Nat, NEW due, MeaningInv(t, ops, n, due)
    PROVE  SplitWith(t, t.split.state, ops, n, due)
<1> DEFINE st == t.split.state
           lo == t.seq.base
           hi == t.seq.base + t.seq.num_ops - 1
           C == lo + st.cur_idx
           M == lo + st.merge_into_idx
           E == LeftEnd(t)
<1>1. /\ t.seq.base \in Nat /\ t.seq.num_ops \in Nat \ {0}
      /\ t.seq.start \in Nat \ {0} /\ t.seq.end \in Nat
      /\ t.seq.start <= E /\ E < t.seq.end /\ E \in Nat
      /\ Spaces(st.scratch, t.split.i)
      /\ st.merge_into_idx < t.seq.num_ops
  BY SpacesOfTask
<1>2. /\ t.seq.end <= n
      /\ SlotsInv(t, ops)
      /\ LeftInv(t, C, E, ops, n, due)
      /\ Projected(ops, M, hi, E + 1, t.seq.end, n, due)
  BY DEF MeaningInv
<1>3. /\ st.incr_array \in [0..(Branching - 1) -> Int]
      /\ st.all_full_incr \in Int
      /\ st.cur_idx \in Nat
      /\ st.merge_into_idx - st.cur_idx = PendingIn(st.scratch, t.split.i) + 1
      /\ \A k \in (lo + 1)..C : ~IsNull(ops[k])
      /\ \A k \in (C + 1)..(M - 1) : ops[k] = NoImpact
  <2>2. /\ st.incr_array \in [0..(Branching - 1) -> Int]
        /\ st.all_full_incr \in Int
        /\ st.cur_idx \in Nat
        /\ st.merge_into_idx - st.cur_idx = Pending(t) + (IF t.pc = "split" THEN 1 ELSE 0)
        /\ \A k \in (lo + 1)..C : ~IsNull(ops[k])
    BY <1>2 DEF SlotsInv
  <2>4. st.merge_into_idx - st.cur_idx = PendingIn(st.scratch, t.split.i) + 1
    BY <2>2, PendingIsSum, Zenon
  <2>6. \A k \in (C + 1)..(M - 1) : ops[k] = NoImpact
    <3> DEFINE P(k) == ops[k] = NoImpact
    <3>1. \A k \in (lo + st.cur_idx + 1)..(lo + st.merge_into_idx - 1) : P(k)
      BY <1>2, Zenon DEF SlotsInv
    <3> HIDE DEF P
    <3>2. st.merge_into_idx \in Int
      BY DEF TaskInv, LoopInv
    <3>3. \A k \in (C + 1)..(M - 1) : P(k)
      BY <1>1, <2>2, <3>1, <3>2, SMTT(30)
    <3> QED
      BY <3>3 DEF P
  <2> QED
    BY <2>2, <2>4, <2>6, Zenon
<1>4. /\ Coherent(ops, lo, C, n, due)
      /\ Targets(ops, lo, C, "Prefix") = t.seq.start..(E - 1)
      /\ Targets(ops, lo, C, "Postfix") \cap WaitingTargets(st.scratch, t.split.i) = {}
      /\ Targets(ops, lo, C, "Postfix") \cup WaitingTargets(st.scratch, t.split.i)
            = DOMAIN due \cap t.seq.start..E
      /\ \A p \in 0..(t.split.i - 1) :
            StackInv(st.scratch[p], Unseen(st, p), Partition(t.split, p), ops, lo, C, n, due)
  BY <1>2 DEF LeftInv
<1>5. /\ Coherent(ops, M, hi, n, due)
      /\ Targets(ops, M, hi, "Prefix") = (E + 1)..(t.seq.end - 1)
      /\ Targets(ops, M, hi, "Postfix") = DOMAIN due \cap (E + 1)..t.seq.end
      /\ \A k \in (M + 1)..hi : ~IsNull(ops[k])
  BY <1>2 DEF Projected
<1>6. /\ st.merge_into_idx \in Int /\ st.cur_idx < st.merge_into_idx
      /\ IsNull(ops[lo])
      /\ IsNull(ops[M])
  <2>1. PendingIn(st.scratch, t.split.i) \in Nat
    BY <1>1, PendingNat
  <2>2. LoopInv(t, ops) /\ IsNull(ops[lo])
    BY DEF TaskInv
  <2>3. /\ st.merge_into_idx \in Int
        /\ \A k \in 0..st.merge_into_idx : k > st.cur_idx => IsNull(ops[lo + k])
    BY <2>2 DEF LoopInv
  <2> DEFINE x == PendingIn(st.scratch, t.split.i)
             c == st.cur_idx
             m == st.merge_into_idx
  <2>4. x \in Nat /\ c \in Nat /\ m \in Int /\ m - c = x + 1
    BY <1>3, <2>1, <2>3
  <2> HIDE DEF x, c, m
  <2>5. c < m /\ m \in 0..m
    BY <2>4
  <2> QED
    BY <2>2, <2>3, <2>5 DEF c, m
<1>7. /\ lo \in Int /\ C \in Int /\ M \in Int /\ hi \in Int
      /\ lo <= C /\ C < M /\ M <= hi
  <2> DEFINE cur == st.cur_idx
             merge == st.merge_into_idx
             num_ops == t.seq.num_ops
             base == lo
  <2>1. /\ base \in Nat /\ num_ops \in Nat \ {0} /\ cur \in Nat /\ merge \in Int
        /\ cur < merge /\ merge < num_ops
    BY <1>1, <1>3, <1>6
  <2> HIDE DEF cur, merge, num_ops, base
  <2>2. /\ base \in Int /\ base + cur \in Int /\ base + merge \in Int
        /\ base + num_ops - 1 \in Int
        /\ base <= base + cur /\ base + cur < base + merge /\ base + merge <= base + num_ops - 1
    BY <2>1
  <2> QED
    BY <2>2 DEF cur, merge, num_ops, base
<1>8. ops[lo].type = "Null" /\ ops[M].type = "Null"
  <2>1. lo \in lo..C /\ M \in M..hi
    BY <1>7
  <2>2. OpInv(ops[lo], n) /\ OpInv(ops[M], n)
    BY <1>4, <1>5, <2>1 DEF Coherent
  <2> QED
    BY <1>6, <2>2 DEF OpInv, IsNull
<1>9. CutSides(ops, lo, C, M, hi, n, due)
  <2> HIDE DEF C, M, hi, lo, E
  <2> QED
    BY <1>3, <1>4, <1>5, <1>7, <1>8 DEF CutSides
<1> QED
  BY <1>2, <1>3, <1>4, <1>5, <1>6, <1>9 DEF SplitWith, FirstSlot, LastSlot, Slot

\* The last of the scratch spaces among what waits.
LastWaits(scratch, l, L) ==
    WaitingTargets(scratch, l + 1) = WaitingTargets(scratch, l) \cup StackTargets(scratch[l], L)

LEMMA WaitingLast ==
    ASSUME NEW scratch, NEW i, Spaces(scratch, i), NEW l, l = i - 1, l \in Nat,
           NEW L, L = Len(scratch[l]) - 1
    PROVE  LastWaits(scratch, l, L)
<1>1. Spaces(scratch, l) /\ i \in Nat /\ i = l + 1
  BY DEF Spaces
<1> DEFINE A == WaitingTargets(scratch, i)
           B == WaitingTargets(scratch, l)
           S == StackTargets(scratch[l], L)
<1>2. \A x : x \in A <=> \E p \in 0..(i - 1) : \E m \in 1..(Len(scratch[p]) - 1) : x = scratch[p][m].target
  BY WaitingTarget
<1>3. \A x : x \in B <=> \E p \in 0..(l - 1) : \E m \in 1..(Len(scratch[p]) - 1) : x = scratch[p][m].target
  BY <1>1, WaitingTarget
<1>4. \A x : x \in S <=> \E m \in 1..(Len(scratch[l]) - 1) : x = scratch[l][m].target
  BY DEF StackTargets
<1>5. \A p : p \in 0..(i - 1) <=> p \in 0..(l - 1) \/ p = l
  BY <1>1
<1> HIDE DEF A, B, S
<1>6. A = B \cup S
  <2>1. ASSUME NEW x \in A PROVE x \in B \/ x \in S
    <3>1. PICK p \in 0..(i - 1) : \E m \in 1..(Len(scratch[p]) - 1) : x = scratch[p][m].target
      BY <1>2
    <3>2. CASE p \in 0..(l - 1)
      BY <1>3, <3>1, <3>2, Zenon
    <3>3. CASE p = l
      <4>1. \E m \in 1..(Len(scratch[l]) - 1) : x = scratch[l][m].target
        BY <3>1, <3>3, Zenon
      <4> QED
        BY <1>4, <4>1
    <3> QED
      BY <1>5, <3>2, <3>3
  <2>2. ASSUME NEW x \in B PROVE x \in A
    <3>1. PICK p \in 0..(l - 1) : \E m \in 1..(Len(scratch[p]) - 1) : x = scratch[p][m].target
      BY <1>3
    <3>2. p \in 0..(i - 1)
      BY <1>5
    <3> QED
      BY <1>2, <3>1, <3>2, Zenon
  <2>3. ASSUME NEW x \in S PROVE x \in A
    <3>1. \E m \in 1..(Len(scratch[l]) - 1) : x = scratch[l][m].target
      BY <1>4
    <3>2. l \in 0..(i - 1)
      BY <1>5
    <3> QED
      BY <1>2, <3>1, <3>2, Zenon
  <2> QED
    BY <2>1, <2>2, <2>3
<1> QED
  BY <1>1, <1>6 DEF LastWaits, A, B, S

\* The task t, with old for its state, unstacks the last of its spaces, l.
SplitUnstacks(t, old, l, L, G, M, ops, ops2, n, due) ==
    /\ TaskInv(t, ops) /\ t.pc = "split" /\ old = t.split.state
    /\ SplitWith(t, old, ops, n, due)
    /\ l = t.split.i - 1 /\ L = Len(old.scratch[l]) - 1
    /\ M = Slot(t, old.merge_into_idx) /\ G = M - L - 1
    /\ IsUnstacked(ops2, ops, FirstSlot(t), M, LastSlot(t), G, old.scratch[l], Unseen(old, l))

LEMMA SplitUnstacked ==
    ASSUME NEW t, NEW old, NEW l, NEW L, NEW G, NEW M, NEW ops, NEW ops2, NEW n \in Nat, NEW due,
           SplitUnstacks(t, old, l, L, G, M, ops, ops2, n, due),
           NEW C, C = Slot(t, old.cur_idx), NEW hi2, hi2 = M - 1
    PROVE  /\ UnstackedSide(ops2, FirstSlot(t), C, G, hi2, Partition(t.split, l), n, due)
           /\ UnstackedTargets(ops2, ops, FirstSlot(t), C, hi2, old.scratch[l], L)
           /\ LastWaits(old.scratch, l, L)
           /\ Spaces(old.scratch, l)
           /\ l \in Nat /\ L \in Nat /\ G \in Int /\ C \in Int /\ M \in Int
           /\ G = C + PendingIn(old.scratch, l)
<1>0. /\ TaskInv(t, ops) /\ t.pc = "split" /\ old = t.split.state
      /\ SplitWith(t, old, ops, n, due)
      /\ l = t.split.i - 1 /\ L = Len(old.scratch[l]) - 1
      /\ M = Slot(t, old.merge_into_idx) /\ G = M - L - 1
      /\ IsUnstacked(ops2, ops, FirstSlot(t), M, LastSlot(t), G, old.scratch[l], Unseen(old, l))
  BY DEF SplitUnstacks
<1> DEFINE lo == FirstSlot(t)
           hi == LastSlot(t)
           scratch == old.scratch
           stack == scratch[l]
           i == t.split.i
           c == old.cur_idx
           m == old.merge_into_idx
           unseen == Unseen(old, l)
           range == Partition(t.split, l)
           x == PendingIn(scratch, l)
<1>1. /\ lo \in Int /\ c \in Nat /\ m \in Int /\ C = lo + c /\ M = lo + m
  <2>1. t.seq.base \in Nat
    BY <1>0 DEF TaskInv, ProjSequences
  <2> QED
    BY <1>0, <2>1, SMTT(30) DEF SplitWith, Slot, FirstSlot
<1>2. /\ CutSides(ops, lo, C, M, hi, n, due)
      /\ m - c = PendingIn(scratch, i) + 1
      /\ Targets(ops, lo, C, "Postfix") \cap WaitingTargets(scratch, i) = {}
      /\ \A p \in 0..(i - 1) :
            StackInv(scratch[p], Unseen(old, p), Partition(t.split, p), ops, lo, C, n, due)
      /\ old.incr_array \in [0..(Branching - 1) -> Int] /\ old.all_full_incr \in Int
  BY <1>0 DEF SplitWith
<1>3. /\ Spaces(scratch, i) /\ i \in Nat \ {0}
      /\ \A p \in 0..(i - 1) : p \in 0..(Branching - 2)
  BY <1>0, SpacesOfTask
<1>4. l \in Nat /\ l + 1 = i /\ l \in 0..(i - 1)
  BY <1>0, <1>3
<1>5. Len(stack) \in Nat \ {0} /\ L \in Nat /\ Len(stack) = L + 1
  <2>1. Len(scratch[l]) \in Nat \ {0}
    BY <1>3, <1>4 DEF Spaces
  <2>2. L = Len(stack) - 1
    BY <1>0
  <2> HIDE DEF stack
  <2>3. Len(stack) \in Nat \ {0}
    BY <2>1 DEF stack
  <2> QED
    BY <2>2, <2>3
<1>6. unseen \in Int
  <2> DEFINE arr == old.incr_array
  <2>1. arr \in [0..(Branching - 1) -> Int] /\ l \in 0..(Branching - 2)
    BY <1>2, <1>3, <1>4
  <2> HIDE DEF arr
  <2>2. IncrSum(arr, l) \in Int
    BY <2>1, IncrementSeen
  <2>3. StackInv(stack, unseen, range, ops, lo, C, n, due)
    BY <1>2, <1>4
  <2>4. Last(stack).full \in Int
    BY <2>3 DEF StackInv, Last
  <2> QED
    BY <1>2, <2>2, <2>4 DEF Unseen, arr
<1>7. LastWaits(scratch, l, L)
  <2> HIDE DEF scratch, i
  <2> QED
    BY <1>0, <1>3, <1>4, WaitingLast DEF scratch, i
<1>8. Spaces(scratch, l) /\ PendingIn(scratch, i) = x + L /\ x \in Nat
  <2>1. l = i - 1
    BY <1>4, <1>3
  <2> HIDE DEF scratch, i
  <2>2. /\ Spaces(scratch, l)
        /\ PendingIn(scratch, i) = PendingIn(scratch, l) + (Len(scratch[l]) - 1)
    BY <1>3, <1>4, <2>1, PendingLast
  <2>3. PendingIn(scratch, l) \in Nat
    BY <2>2, PendingNat
  <2> QED
    BY <1>0, <2>2, <2>3 DEF scratch
<1>9. G = C + x /\ G \in Int /\ C \in Int /\ M \in Int /\ C <= G
  <2> DEFINE y == PendingIn(scratch, i)
  <2>1. m - c = y + 1 /\ y = x + L /\ x \in Nat
    BY <1>2, <1>8
  <2>2. G = M - L - 1
    BY <1>0
  <2> HIDE DEF lo, c, m, x, y, stack
  <2>3. L \in Nat
    BY <1>5
  <2> QED
    BY <1>1, <2>1, <2>2, <2>3
<1>10. Targets(ops, lo, C, "Postfix") \cap StackTargets(stack, L) = {}
  <2> DEFINE A == Targets(ops, lo, C, "Postfix")
             W == WaitingTargets(scratch, i)
             W1 == WaitingTargets(scratch, l)
             S == StackTargets(stack, L)
  <2>1. A \cap W = {}
    BY <1>2
  <2>2. W = W1 \cup S
    BY <1>4, <1>7 DEF LastWaits
  <2> HIDE DEF A, W, S, W1
  <2>3. A \cap S = {}
    BY <2>1, <2>2
  <2> QED
    BY <2>3 DEF A, S
<1>11. Unstacks(ops2, ops, lo, C, M, hi, G, stack, L, unseen, range, n, due)
  <2>1. StackInv(stack, unseen, range, ops, lo, C, n, due)
    BY <1>2, <1>4
  <2>2. IsUnstacked(ops2, ops, lo, M, hi, G, stack, unseen) /\ G = M - L - 1
    BY <1>0
  <2> HIDE DEF lo, hi, stack, unseen, range
  <2> QED
    BY <1>2, <1>5, <1>6, <1>9, <1>10, <2>1, <2>2 DEF Unstacks
<1>12. /\ UnstackedSide(ops2, lo, C, G, hi2, range, n, due)
       /\ UnstackedTargets(ops2, ops, lo, C, hi2, stack, L)
  <2> HIDE DEF lo, hi, stack, unseen, range
  <2> QED
    BY <1>11, UnstackedSlots
<1> QED
  BY <1>4, <1>5, <1>7, <1>8, <1>9, <1>12

\* The task u, with st for its state, goes on with the left side.
GoesOn(u, st, t, old, l, L) ==
    /\ u.seq = LeftSide(t)
    /\ u.split.dist = t.split.dist /\ u.split.num_partitions = t.split.num_partitions
    /\ u.split.last = t.split.last /\ u.split.i = l
    /\ st.incr_array = IncrUpdated(old.incr_array, l)
    /\ st.all_full_incr = old.all_full_incr
    /\ st.cur_idx = old.cur_idx /\ st.merge_into_idx = old.merge_into_idx - L - 1
    /\ \A p \in 0..(l - 1) : st.scratch[p] = old.scratch[p]

LEMMA UnstackedLoop ==
    ASSUME NEW t, NEW old, NEW l, NEW L, NEW G, NEW M, NEW ops, NEW ops2, NEW n \in Nat, NEW due,
           SplitUnstacks(t, old, l, L, G, M, ops, ops2, n, due),
           NEW u, TaskInv(u, ops2), u.pc = "partition", NEW st, GoesOn(u, st, t, old, l, L)
    PROVE  LoopWith(u, st, ops2, n, due)
<1> DEFINE C == Slot(t, old.cur_idx)
           hi2 == M - 1
           lo == FirstSlot(t)
           E == LeftEnd(t)
           E2 == LeftEnd(u)
           range == Partition(t.split, l)
           stack == old.scratch[l]
           c == old.cur_idx
           m == old.merge_into_idx
           start == t.seq.start
           A == Targets(ops, lo, C, "Postfix")
           W == WaitingTargets(old.scratch, l + 1)
           W1 == WaitingTargets(old.scratch, l)
           S == StackTargets(stack, L)
<1>1. /\ TaskInv(t, ops) /\ t.pc = "split" /\ old = t.split.state
      /\ SplitWith(t, old, ops, n, due)
      /\ l = t.split.i - 1 /\ L = Len(old.scratch[l]) - 1
      /\ M = Slot(t, m) /\ G = M - L - 1
      /\ IsUnstacked(ops2, ops, lo, M, LastSlot(t), G, stack, Unseen(old, l))
  BY DEF SplitUnstacks
<1>2. /\ UnstackedSide(ops2, lo, C, G, hi2, range, n, due)
      /\ UnstackedTargets(ops2, ops, lo, C, hi2, stack, L)
      /\ LastWaits(old.scratch, l, L)
      /\ Spaces(old.scratch, l)
      /\ l \in Nat /\ L \in Nat /\ G \in Int /\ C \in Int /\ M \in Int
      /\ G = C + PendingIn(old.scratch, l)
  <2> HIDE DEF C, hi2, lo, range, stack
  <2>1. C = Slot(t, old.cur_idx) /\ hi2 = M - 1
    BY DEF C, hi2
  <2> QED
    BY <2>1, SplitUnstacked DEF lo, range, stack
<1>3. /\ t.seq.base \in Nat /\ t.seq.num_ops \in Nat \ {0} /\ start \in Nat \ {0}
      /\ t.seq.end \in Nat /\ start <= E /\ E < t.seq.end /\ E \in Nat
      /\ t.split.i \in Nat \ {0} /\ RangeInv(t)
      /\ \A p \in 0..(t.split.i - 1) : p \in 0..(Branching - 2)
      /\ Spaces(old.scratch, t.split.i)
  BY <1>1, SpacesOfTask
<1>4. t.split.i = l + 1
  <2> DEFINE i == t.split.i
  <2>1. i \in Nat \ {0} /\ l = i - 1
    BY <1>1, <1>3
  <2> HIDE DEF i
  <2>2. i = l + 1
    BY <2>1
  <2> QED
    BY <2>2 DEF i
<1>5. /\ CutSides(ops, lo, C, M, LastSlot(t), n, due)
      /\ t.seq.end <= n
      /\ old.incr_array \in [0..(Branching - 1) -> Int] /\ old.all_full_incr \in Int
      /\ c \in Nat /\ m \in Int
      /\ Targets(ops, lo, C, "Prefix") = start..(E - 1)
      /\ A \cap W = {}
      /\ A \cup W = DOMAIN due \cap start..E
      /\ \A p \in 0..l :
            StackInv(old.scratch[p], Unseen(old, p), Partition(t.split, p), ops, lo, C, n, due)
  <2>1. t.split.i - 1 = l
    BY <1>1
  <2> QED
    BY <1>1, <1>4, <2>1 DEF SplitWith
<1>6. /\ u.seq.start = start /\ u.seq.end = E /\ u.seq.base = t.seq.base /\ u.seq.num_ops = m
      /\ u.split.i = l
      /\ st.incr_array = IncrUpdated(old.incr_array, l) /\ st.all_full_incr = old.all_full_incr
      /\ st.cur_idx = c /\ st.merge_into_idx = m - L - 1
      /\ \A p \in 0..(l - 1) : st.scratch[p] = old.scratch[p]
  BY <1>1, SMTT(30) DEF GoesOn, LeftSide, ProjSequence
<1>7. \A p : EndAt(u.split, p) = EndAt(t.split, p) /\ Partition(u.split, p) = Partition(t.split, p)
  BY DEF GoesOn, EndAt, Partition
<1>8. /\ RangeInv(u) /\ l \in Nat \ {0}
      /\ E2 = EndAt(t.split, l) /\ E2 \in Nat /\ start <= E2 /\ E2 < E
  <2>1. RangeInv(u) /\ u.split.i \in Nat \ {0}
    BY SpacesOfTask
  <2>2. E2 = EndAt(u.split, l) /\ E2 \in Nat /\ start <= E2 /\ E2 < E
    BY <1>3, <1>6, <2>1, EndsIncrease
  <2> QED
    BY <1>6, <1>7, <2>1, <2>2
<1>9. /\ FirstSlot(u) = lo /\ LastSlot(u) = hi2
      /\ Slot(u, st.cur_idx) = C /\ Slot(u, st.merge_into_idx) = G
      /\ lo \in Int /\ C = lo + c /\ M = lo + m /\ hi2 \in Int
  <2>1. /\ lo = t.seq.base /\ lo \in Int
        /\ FirstSlot(u) = lo /\ LastSlot(u) = lo + m - 1
        /\ Slot(u, st.cur_idx) = lo + c /\ Slot(u, st.merge_into_idx) = lo + (m - L - 1)
        /\ C = lo + c /\ M = lo + m /\ G = M - L - 1
    BY <1>1, <1>3, <1>6, SMTT(30) DEF FirstSlot, LastSlot, Slot
  <2> DEFINE first == FirstSlot(u)
             last == LastSlot(u)
             cur == Slot(u, st.cur_idx)
             merge == Slot(u, st.merge_into_idx)
  <2> HIDE DEF lo, C, c, m, first, last, cur, merge
  <2>2. c \in Nat /\ m \in Int /\ L \in Nat
    BY <1>2, <1>5
  <2>3. first = lo /\ last = hi2 /\ cur = C /\ merge = G /\ C = lo + c /\ M = lo + m /\ hi2 \in Int
    BY <2>1, <2>2 DEF first, last, cur, merge
  <2> QED
    BY <2>1, <2>3 DEF first, last, cur, merge
<1> HIDE DEF C, hi2, lo, E, E2, range, stack, c, m, start, A, W, W1, S
<1>10. /\ lo <= C /\ C <= G /\ G <= hi2
       /\ Coherent(ops2, lo, hi2, n, due)
       /\ ops2[lo].type = "Null"
       /\ \A k \in (lo + 1)..C : ~IsNull(ops2[k])
       /\ \A k \in (C + 1)..(G - 1) : ops2[k] = NoImpact
       /\ \A k \in (C + 1)..G : ops2[k].type = "Null"
       /\ \A k \in (G + 1)..hi2 : ~IsNull(ops2[k]) /\ ops2[k].target \in range
  BY <1>2 DEF UnstackedSide
<1>11. \A k \in (G + 1)..hi2 : ~IsNull(ops2[k]) /\ E2 < ops2[k].target
  <2>1. \A j \in range : E2 < j
    <3>1. EndAt(t.split, l + 1) \in Int
      BY <1>2, <1>3, EndsOrdered DEF start
    <3> QED
      BY <1>8, <3>1 DEF range, Partition
  <2> QED
    BY <1>10, <2>1
<1>12. /\ Targets(ops2, lo, hi2, "Prefix") = start..(E - 1)
       /\ E2 \in Targets(ops2, lo, hi2, "Prefix")
  <2>1. Targets(ops2, lo, hi2, "Prefix") = start..(E - 1)
    BY <1>2, <1>5 DEF UnstackedTargets
  <2>2. E2 \in start..(E - 1)
    BY <1>3, <1>8 DEF E, start
  <2> QED
    BY <2>1, <2>2
<1>13. LoopSlots(ops2, lo, C, G, hi2, E2, n, due)
  BY <1>2, <1>8, <1>9, <1>10, <1>11, <1>12 DEF LoopSlots
<1>14. W = W1 \cup S
  BY <1>2 DEF LastWaits, W, W1, S, stack
<1>15. W1 \cap S = {}
  <2> SUFFICES ASSUME NEW x \in W1, x \in S PROVE FALSE
    OBVIOUS
  <2>1. PICK p \in 0..(l - 1) : \E k \in 1..(Len(old.scratch[p]) - 1) : x = old.scratch[p][k].target
    <3> DEFINE a == old.scratch
    <3>1. Spaces(a, l) /\ x \in WaitingTargets(a, l)
      BY <1>2 DEF W1
    <3> HIDE DEF a
    <3>2. \E p \in 0..(l - 1) : \E k \in 1..(Len(a[p]) - 1) : x = a[p][k].target
      BY <3>1, WaitingTarget
    <3> QED
      BY <3>2 DEF a
  <2>2. PICK k \in 1..L : x = stack[k].target
    BY DEF S, StackTargets
  <2>3. p \in 0..l /\ l \in 0..l /\ p # l
    BY <1>2
  <2>4. x \in Partition(t.split, p)
    BY <1>5, <2>1, <2>3 DEF StackInv
  <2>5. x \in Partition(t.split, l)
    BY <1>1, <1>5, <2>2, <2>3 DEF StackInv, stack
  <2>6. t.split.i - 1 = l
    BY <1>1
  <2>7. x >= x <=> p < l
    BY <1>3, <2>3, <2>4, <2>5, <2>6, PartitionsOrdered DEF start
  <2>8. x >= x <=> l < p
    BY <1>3, <2>3, <2>4, <2>5, <2>6, PartitionsOrdered DEF start
  <2> QED
    BY <1>2, <2>1, <2>7, <2>8
<1>16. /\ Targets(ops2, lo, hi2, "Postfix") \cap W1 = {}
       /\ Targets(ops2, lo, hi2, "Postfix") \cup W1 = DOMAIN due \cap start..E
  <2>1. Targets(ops2, lo, hi2, "Postfix") = A \cup S
    BY <1>2 DEF UnstackedTargets, A, S
  <2>2. A \cap W = {} /\ A \cup W = DOMAIN due \cap start..E
    BY <1>5
  <2> QED
    BY <1>14, <1>15, <2>1, <2>2
<1>17. WaitingTargets(st.scratch, l) = W1 /\ PendingIn(st.scratch, l) = PendingIn(old.scratch, l)
  <2> DEFINE a == old.scratch
             b == st.scratch
  <2>1. \A p \in 0..(l - 1) : b[p] = a[p]
    BY <1>6
  <2> HIDE DEF a, b
  <2>2. [p \in 0..(l - 1) |-> Moved(b[p])] = [p \in 0..(l - 1) |-> Moved(a[p])]
    BY <2>1
  <2>3. PendingIn(b, l) = PendingIn(a, l)
    BY <2>2 DEF PendingIn
  <2>4. Waiting(b, l) = Waiting(a, l)
    <3>1. \A w : w \in (0..(l - 1)) \X Nat => w[1] \in 0..(l - 1)
      OBVIOUS
    <3> QED
      BY <2>1, <3>1 DEF Waiting
  <2>5. \A w \in Waiting(a, l) : w[1] \in 0..(l - 1)
    BY DEF Waiting
  <2>6. WaitingTargets(b, l) = WaitingTargets(a, l)
    BY <2>1, <2>4, <2>5 DEF WaitingTargets
  <2> QED
    BY <2>3, <2>6 DEF a, b, W1
<1>18. ASSUME NEW p \in 0..(l - 1)
       PROVE  StackInv(st.scratch[p], Unseen(st, p), Partition(u.split, p), ops2, lo, C, n, due)
  <2> DEFINE q == old.scratch[p]
             part == Partition(t.split, p)
             x == Unseen(old, p)
  <2>1. p \in 0..l /\ p \in 0..(Branching - 2) /\ l \in 0..(Branching - 2) /\ ~(l < p)
    <3>1. p \in 0..l /\ l \in 0..l /\ ~(l < p)
      BY <1>2
    <3>2. \A y \in 0..l : y \in 0..(t.split.i - 1)
      BY <1>2, <1>4
    <3> QED
      BY <1>3, <3>1, <3>2
  <2>2. StackInv(q, x, part, ops, lo, C, n, due)
    BY <1>5, <2>1
  <2>3. Len(q) \in Nat \ {0}
    BY <1>2 DEF Spaces
  <2>4. Unseen(st, p) = x /\ x \in Int
    <3> DEFINE arr == old.incr_array
    <3>1. arr \in [0..(Branching - 1) -> Int]
      BY <1>5
    <3> HIDE DEF arr
    <3>2. IncrSum(arr, p) \in Int /\ IncrSum(IncrUpdated(arr, l), p) = IncrSum(arr, p) + 0
      BY <2>1, <3>1, IncrementSeen
    <3>3. IncrSum(st.incr_array, p) = IncrSum(old.incr_array, p)
      BY <1>6, <3>2 DEF arr
    <3>4. Last(q).full \in Int
      BY <2>2 DEF StackInv, Last
    <3> QED
      BY <1>5, <1>6, <3>2, <3>3, <3>4 DEF Unseen, arr
  <2>5. StackInv(q, x, part, ops2, lo, C, n, due)
    <3>1. CASE G = C
      <4>1. PendingIn(old.scratch, l) = 0
        <5>1. PendingIn(old.scratch, l) \in Nat
          BY <1>2, PendingNat
        <5> QED
          BY <1>2, <3>1, <5>1
      <4>2. Len(q) = 1
        BY <1>2, <4>1, PendingNat
      <4>3. 1..(Len(q) - 1) = {}
        BY <4>2
      <4> QED
        BY <2>2, <4>3, Zenon DEF StackInv
    <3>2. CASE G # C
      <4>1. \A k \in lo..C : ops2[k] = ops[k]
        <5>1. \A k \in lo..C : k \in lo..LastSlot(t) /\ k \notin (G + 1)..(M - 1) /\ k # G
          <6>1. LastSlot(t) \in Int /\ C < M /\ M <= LastSlot(t)
            BY <1>5 DEF CutSides
          <6> QED
            BY <1>2, <1>9, <1>10, <3>2, <6>1
        <5> QED
          BY <1>1, <5>1 DEF IsUnstacked
      <4>2. Summable(ops, lo, C)
        <5>1. Coherent(ops, lo, C, n, due)
          BY <1>5 DEF CutSides
        <5> QED
          BY <1>2, <1>9, <5>1, CoherentSummable
      <4>3. \A j : Adds(ops2, lo, C, j) = Adds(ops, lo, C, j) /\ Adds(ops, lo, C, j) \in Int
        BY <4>1, <4>2, AddsFrame, AddsType
      <4> HIDE DEF q, x, part
      <4>4. \A j \in part : /\ Adds(ops, lo, C, j) \in Int /\ Adds(ops2, lo, C, j) \in Int
                            /\ x + Adds(ops, lo, C, j) = x + Adds(ops2, lo, C, j)
        BY <4>3
      <4> QED
        BY <2>2, <2>3, <2>4, <4>4, StackCarried
    <3> QED
      BY <3>1, <3>2
  <2> QED
    BY <1>6, <1>7, <2>4, <2>5
<1>19. st.incr_array \in [0..(Branching - 1) -> Int]
  <2>1. l \in 0..(Branching - 2)
    <3>1. l \in 0..(t.split.i - 1)
      BY <1>2, <1>4
    <3> QED
      BY <1>3, <3>1
  <2> QED
    BY <1>5, <1>6, <2>1, IncrementSeen
<1>20. /\ st.cur_idx \in Nat /\ st.merge_into_idx \in Int
       /\ st.merge_into_idx - st.cur_idx = PendingIn(st.scratch, l)
  <2> DEFINE x == PendingIn(old.scratch, l)
  <2>1. /\ c \in Nat /\ m \in Int /\ L \in Nat /\ lo \in Int /\ C = lo + c /\ M = lo + m
        /\ G = M - L - 1 /\ G = C + x
    BY <1>1, <1>2, <1>5, <1>9
  <2>2. x \in Nat
    BY <1>2, PendingNat
  <2> HIDE DEF x
  <2>3. m - L - 1 \in Int /\ m - L - 1 - c = x
    BY <2>1, <2>2
  <2> QED
    BY <1>6, <1>17, <2>1, <2>3 DEF x
<1>21. E <= n
  BY <1>3, <1>5 DEF E
<1> QED
  BY <1>5, <1>6, <1>9, <1>12, <1>13, <1>16, <1>17, <1>18, <1>19, <1>20, <1>21 DEF LoopWith, E2

\* A task at its beginning.
LEMMA NewTaskMeaning ==
    ASSUME NEW seq, NEW ops, NEW n, NEW due, seq.end <= n,
           Projected(ops, seq.base, seq.base + seq.num_ops - 1, seq.start, seq.end, n, due)
    PROVE  MeaningInv(NewTask(seq), ops, n, due)
<1> DEFINE u == NewTask(seq)
<1>1. u.pc = "do_projections" /\ u.seq = seq
  BY DEF NewTask
<1> HIDE DEF u
<1>2. /\ u.pc # "base_case" /\ u.pc # "partition" /\ u.pc # "split"
      /\ u.pc \notin {"partition", "split"}
  BY <1>1
<1> QED
  BY <1>1, <1>2 DEF MeaningInv, u

\* The right side of a partitioning as a task of its own.
LEMMA RightSideMeaning ==
    ASSUME NEW t, NEW old, NEW l, NEW L, NEW G, NEW M, NEW ops, NEW ops2, NEW n \in Nat, NEW due,
           SplitUnstacks(t, old, l, L, G, M, ops, ops2, n, due)
    PROVE  MeaningInv(NewTask(RightSide(t)), ops2, n, due)
<1> DEFINE hi == LastSlot(t)
           lo == FirstSlot(t)
           seq == RightSide(t)
           m == old.merge_into_idx
<1>1. /\ TaskInv(t, ops) /\ t.pc = "split" /\ old = t.split.state
      /\ SplitWith(t, old, ops, n, due)
      /\ M = Slot(t, m) /\ G = M - L - 1
      /\ IsUnstacked(ops2, ops, lo, M, hi, G, old.scratch[l], Unseen(old, l))
  BY DEF SplitUnstacks
<1>2. G \in Int /\ M \in Int /\ L \in Nat
  BY SplitUnstacked
<1>3. /\ CutSides(ops, lo, Slot(t, old.cur_idx), M, hi, n, due)
      /\ t.seq.end <= n
      /\ Targets(ops, M, hi, "Prefix") = (LeftEnd(t) + 1)..(t.seq.end - 1)
      /\ Targets(ops, M, hi, "Postfix") = DOMAIN due \cap (LeftEnd(t) + 1)..t.seq.end
      /\ m \in Int
  BY <1>1 DEF SplitWith
<1>4. /\ hi \in Int /\ M <= hi /\ lo <= M /\ lo \in Int
      /\ Coherent(ops, M, hi, n, due)
      /\ \A k \in (M + 1)..hi : ~IsNull(ops[k])
  BY <1>3 DEF CutSides
<1>5. \A k \in M..hi : ops2[k] = ops[k]
  <2> SUFFICES ASSUME NEW k \in M..hi PROVE ops2[k] = ops[k]
    OBVIOUS
  <2> HIDE DEF hi, lo
  <2>1. k \in lo..hi /\ k \notin (G + 1)..(M - 1) /\ k # G
    BY <1>1, <1>2, <1>4
  <2> QED
    BY <1>1, <2>1 DEF IsUnstacked
<1>6. /\ seq.start = LeftEnd(t) + 1 /\ seq.end = t.seq.end
      /\ seq.base = t.seq.base + m /\ seq.num_ops = t.seq.num_ops - m
  BY <1>1 DEF RightSide, ProjSequence
<1>7. seq.base = M /\ seq.base + seq.num_ops - 1 = hi
  <2>1. t.seq.base \in Nat /\ t.seq.num_ops \in Nat
    BY <1>1, SpacesOfTask
  <2> HIDE DEF seq
  <2> QED
    BY <1>1, <1>3, <1>6, <2>1, SMTT(30) DEF Slot, LastSlot
<1> HIDE DEF hi, seq
<1>8. /\ Coherent(ops2, M, hi, n, due)
      /\ \A type : Targets(ops2, M, hi, type) = Targets(ops, M, hi, type)
  BY <1>2, <1>4, <1>5, CoherentFrame
<1>9. \A k \in (M + 1)..hi : ~IsNull(ops2[k])
  BY <1>2, <1>4, <1>5
<1>10. Projected(ops2, M, hi, seq.start, seq.end, n, due)
  BY <1>3, <1>6, <1>8, <1>9 DEF Projected
<1> QED
  BY <1>3, <1>6, <1>7, <1>10, NewTaskMeaning DEF seq

\* The left side of a partitioning, once nothing else is split off.
LEMMA LeftSideMeaning ==
    ASSUME NEW t, NEW old, NEW l, NEW L, NEW G, NEW M, NEW ops, NEW ops2, NEW n \in Nat, NEW due,
           SplitUnstacks(t, old, l, L, G, M, ops, ops2, n, due), l = 0
    PROVE  MeaningInv(NewTask(LeftSide(t)), ops2, n, due)
<1> DEFINE lo == FirstSlot(t)
           seq == LeftSide(t)
           m == old.merge_into_idx
           C == Slot(t, old.cur_idx)
           hi2 == M - 1
           E == LeftEnd(t)
           range == Partition(t.split, l)
           stack == old.scratch[l]
           start == t.seq.start
           A == Targets(ops, lo, C, "Postfix")
           S == StackTargets(stack, L)
<1>1. /\ TaskInv(t, ops) /\ t.pc = "split" /\ old = t.split.state
      /\ SplitWith(t, old, ops, n, due)
      /\ M = Slot(t, m) /\ l = t.split.i - 1
  BY DEF SplitUnstacks
<1>2. /\ UnstackedSide(ops2, lo, C, G, hi2, range, n, due)
      /\ UnstackedTargets(ops2, ops, lo, C, hi2, stack, L)
      /\ LastWaits(old.scratch, l, L)
      /\ Spaces(old.scratch, l)
      /\ L \in Nat /\ G \in Int /\ C \in Int /\ M \in Int
      /\ G = C + PendingIn(old.scratch, l)
  <2> HIDE DEF C, hi2, lo, range, stack
  <2>1. C = Slot(t, old.cur_idx) /\ hi2 = M - 1
    BY DEF C, hi2
  <2> QED
    BY <2>1, SplitUnstacked DEF lo, range, stack
<1>3. t.split.i \in Nat \ {0} /\ t.seq.base \in Nat /\ t.seq.end \in Nat /\ E < t.seq.end /\ E \in Nat
  BY <1>1, SpacesOfTask
<1>4. t.split.i = l + 1
  <2> DEFINE i == t.split.i
  <2>1. i \in Nat \ {0} /\ l = i - 1
    BY <1>1, <1>3
  <2> HIDE DEF i
  <2>2. i = l + 1
    BY <2>1
  <2> QED
    BY <2>2 DEF i
<1>5. /\ t.seq.end <= n /\ m \in Int
      /\ Targets(ops, lo, C, "Prefix") = start..(E - 1)
      /\ A \cup WaitingTargets(old.scratch, l + 1) = DOMAIN due \cap start..E
  BY <1>1, <1>4 DEF SplitWith
<1>6. G = C
  <2>1. \A p \in 0..(l - 1) : Len(old.scratch[p]) = 1
    OBVIOUS
  <2>2. PendingIn(old.scratch, l) = 0
    BY <1>2, <2>1, PendingNat
  <2> QED
    BY <1>2, <2>2
<1>7. WaitingTargets(old.scratch, l + 1) = S
  <2>1. Waiting(old.scratch, l) = {}
    <3>1. 0..(l - 1) = {}
      OBVIOUS
    <3> QED
      BY <3>1 DEF Waiting
  <2>2. WaitingTargets(old.scratch, l) = {}
    BY <2>1 DEF WaitingTargets
  <2> QED
    BY <1>2, <2>2 DEF LastWaits
<1>8. /\ seq.start = start /\ seq.end = E /\ seq.base = t.seq.base /\ seq.num_ops = m
  BY <1>1 DEF LeftSide, ProjSequence
<1>9. seq.base = lo /\ seq.base + seq.num_ops - 1 = hi2
  BY <1>1, <1>3, <1>5, <1>8 DEF Slot, FirstSlot
<1>10. lo \in Int /\ hi2 \in Int
  BY <1>2, <1>3 DEF FirstSlot
<1>11. E <= n
  BY <1>3, <1>5
<1> HIDE DEF lo, C, hi2, E, range, stack, start, A, S, seq
<1>12. /\ lo <= C /\ C <= hi2
       /\ Coherent(ops2, lo, hi2, n, due)
       /\ \A k \in (lo + 1)..C : ~IsNull(ops2[k])
       /\ \A k \in (C + 1)..hi2 : ~IsNull(ops2[k])
  BY <1>2, <1>6, Zenon DEF UnstackedSide
<1>13. \A k \in (lo + 1)..hi2 : ~IsNull(ops2[k])
  <2> SUFFICES ASSUME NEW k \in (lo + 1)..hi2 PROVE ~IsNull(ops2[k])
    OBVIOUS
  <2>1. k \in (lo + 1)..C \/ k \in (C + 1)..hi2
    BY <1>2, <1>10
  <2> QED
    BY <1>12, <2>1
<1>14. /\ Targets(ops2, lo, hi2, "Prefix") = start..(E - 1)
       /\ Targets(ops2, lo, hi2, "Postfix") = DOMAIN due \cap start..E
  <2>1. /\ Targets(ops2, lo, hi2, "Prefix") = Targets(ops, lo, C, "Prefix")
        /\ Targets(ops2, lo, hi2, "Postfix") = A \cup S
    BY <1>2 DEF UnstackedTargets, A, S
  <2> QED
    BY <1>5, <1>7, <2>1, Zenon
<1>15. Projected(ops2, lo, hi2, start, E, n, due)
  BY <1>12, <1>13, <1>14 DEF Projected
<1>16. Projected(ops2, seq.base, seq.base + seq.num_ops - 1, seq.start, seq.end, n, due)
  BY <1>8, <1>9, <1>15, Zenon
<1>17. seq.end <= n
  BY <1>8, <1>11
<1> QED
  BY <1>16, <1>17, NewTaskMeaning DEF seq

LEMMA Predecessor ==
    ASSUME NEW i \in Nat \ {0}, NEW l, l = i - 1
    PROVE  l \in Nat /\ (l = 0 <=> i = 1) /\ l \in 0..(i - 1) /\ i = l + 1
OBVIOUS

\* The slots that L operations are put back into.
LEMMA PutBackSlots ==
    ASSUME NEW b \in Nat, NEW m \in Int, NEW L \in Nat, NEW M, M = b + m, NEW G, G = M - L - 1
    PROVE  /\ M \in Int /\ G \in Int
           /\ b + (m - L) = G + 1 /\ b + (m - 1) = M - 1 /\ b + (m - L - 1) = G
           /\ \A k \in (G + 1)..(M - 1) : M - k \in 1..L
OBVIOUS

\* The vector that SplitOff leaves.
LEMMA SplitOffUnstacks ==
    ASSUME TasksInv, NEW s \in DOMAIN tasks, SplitOff(s),
           NEW n \in Nat, NEW due, MeaningInv(tasks[s], operations, n, due),
           NEW t, t = tasks[s], NEW old, old = t.split.state,
           NEW l, l = t.split.i - 1, NEW L, L = Len(old.scratch[l]) - 1,
           NEW M, M = Slot(t, old.merge_into_idx), NEW G, G = M - L - 1
    PROVE  SplitUnstacks(t, old, l, L, G, M, operations, operations', n, due)
<1> DEFINE stack == old.scratch[l]
           moved == Front(stack)
           m == old.merge_into_idx
           null_idx == NullIdx(m, Len(moved))
           incrs == IncrSum(old.incr_array, l)
           full == old.all_full_incr + incrs - Last(stack).full
           lo == FirstSlot(t)
           hi == LastSlot(t)
<1>1. /\ t.pc = "split"
      /\ operations' = [k \in DOMAIN operations |->
             IF k \in Slot(t, m - Len(moved))..Slot(t, m - 1)
             THEN moved[Slot(t, m) - k]
             ELSE IF k = Slot(t, null_idx)
             THEN AddFull(operations[Slot(t, null_idx)], full) ELSE operations[k]]
  BY DEF SplitOff
<1>2. TaskInv(t, operations) /\ Region(t) \subseteq DOMAIN operations
  BY DEF TasksInv, TaskInv
<1>3. SplitWith(t, old, operations, n, due)
  BY <1>1, <1>2, SplitOpened
<1>4. /\ t.seq.base \in Nat /\ t.split.i \in Nat \ {0} /\ Spaces(old.scratch, t.split.i)
      /\ \A p \in 0..(t.split.i - 1) :
            p \in 0..(Branching - 2) /\ p \in DOMAIN old.scratch /\ IsStack(old.scratch[p])
  BY <1>1, <1>2, SpacesOfTask
<1>5. l \in Nat /\ l \in 0..(t.split.i - 1)
  BY <1>4, Predecessor
<1>6. /\ Len(stack) \in Nat \ {0} /\ L = Len(stack) - 1 /\ L \in Nat
      /\ Len(moved) = L
      /\ \A j \in 1..L : moved[j] = stack[j]
  <2>1. IsStack(stack)
    BY <1>4, <1>5
  <2>0. L = Len(stack) - 1
    OBVIOUS
  <2> HIDE DEF stack
  <2> DEFINE T == {stack[j] : j \in 1..Len(stack)}
             len == Len(stack)
  <2>2. len \in Nat \ {0} /\ stack \in Seq(T)
    BY <2>1 DEF IsStack
  <2>3. \A j \in 1..len : stack[j] \in T
    OBVIOUS
  <2> HIDE DEF T, len
  <2>4. 1 \in Int /\ len - 1 \in Int /\ \A j \in 1..(len - 1) : stack[j] \in T
    BY <2>2, <2>3 DEF len
  <2>5. /\ Len(SubSeq(stack, 1, len - 1)) = IF 1 <= len - 1 THEN len - 1 - 1 + 1 ELSE 0
        /\ \A j \in 1..(len - 1 - 1 + 1) : SubSeq(stack, 1, len - 1)[j] = stack[1 + j - 1]
    BY <2>4, SubSeqProperties
  <2>6. moved = SubSeq(stack, 1, len - 1)
    BY DEF Front, len
  <2> HIDE DEF moved
  <2>7. Len(moved) = len - 1
    BY <2>2, <2>5, <2>6
  <2>8. \A j \in 1..(len - 1) : moved[j] = stack[j]
    <3> SUFFICES ASSUME NEW j \in 1..(len - 1) PROVE moved[j] = stack[j]
      OBVIOUS
    <3>1. j \in 1..len /\ j \in 1..(len - 1 - 1 + 1) /\ 1 + j - 1 = j
      BY <2>2
    <3> QED
      BY <2>2, <2>5, <2>6, <3>1
  <2>9. L = len - 1
    BY <2>0 DEF len
  <2> QED
    BY <2>2, <2>7, <2>8, <2>9, SMTT(30) DEF len
<1>7. /\ m \in Int /\ lo \in Int /\ M = lo + m
      /\ Slot(t, m - Len(moved)) = G + 1 /\ Slot(t, m - 1) = M - 1 /\ Slot(t, m) = M
      /\ Slot(t, null_idx) = G
  <2> DEFINE b == t.seq.base
             len == Len(moved)
  <2>1. m \in Int /\ b \in Nat /\ len = L /\ L \in Nat
    BY <1>3, <1>4, <1>6 DEF SplitWith
  <2>2. /\ M = b + m /\ G = M - L - 1 /\ lo = b
        /\ Slot(t, m - len) = b + (m - len) /\ Slot(t, m - 1) = b + (m - 1)
        /\ Slot(t, null_idx) = b + (m - len - 1)
        /\ Slot(t, m) = M
    BY DEF Slot, FirstSlot, NullIdx
  <2> HIDE DEF b, len, m, null_idx, lo
  <2>3. /\ M \in Int /\ G \in Int
        /\ b + (m - L) = G + 1 /\ b + (m - 1) = M - 1 /\ b + (m - L - 1) = G
    BY <2>1, <2>2, PutBackSlots
  <2>4. lo \in Int
    BY <2>1, <2>2
  <2> QED
    BY <2>1, <2>2, <2>3, <2>4 DEF len
<1>8. full = Unseen(old, l)
  <2> DEFINE arr == old.incr_array
             a == old.all_full_incr
             x == Last(stack).full
             unseen == Unseen(old, l)
  <2>1. unseen = incrs + a - x /\ full = a + incrs - x
    BY DEF Unseen
  <2>2. incrs \in Int
    <3>1. arr \in [0..(Branching - 1) -> Int] /\ l \in 0..(Branching - 2)
      BY <1>3, <1>4, <1>5 DEF SplitWith
    <3> HIDE DEF arr
    <3>2. IncrSum(arr, l) \in Int
      BY <3>1, IncrementSeen
    <3> QED
      BY <3>2 DEF arr
  <2>3. a \in Int /\ x \in Int
    <3>1. StackInv(stack, unseen, Partition(t.split, l), operations, lo, Slot(t, old.cur_idx), n, due)
      BY <1>3, <1>5 DEF SplitWith
    <3> QED
      BY <1>3, <3>1 DEF SplitWith, StackInv, Last
  <2> HIDE DEF incrs, a, x, unseen, full
  <2>5. full = unseen
    BY <2>1, <2>2, <2>3
  <2> QED
    BY <2>5 DEF unseen
<1> DEFINE unseen == Unseen(old, l)
<1> HIDE DEF full, moved, null_idx, lo, hi, unseen
<1>9. IsUnstacked(operations', operations, lo, M, hi, G, stack, unseen)
  <2>0. lo = t.seq.base /\ hi = t.seq.base + t.seq.num_ops - 1
    BY DEF lo, hi, FirstSlot, LastSlot
  <2> SUFFICES ASSUME NEW k \in lo..hi
               PROVE  operations'[k] = IF k \in (G + 1)..(M - 1) THEN stack[M - k]
                                       ELSE IF k = G THEN AddFull(operations[k], unseen)
                                       ELSE operations[k]
    BY DEF IsUnstacked
  <2>1. k \in DOMAIN operations /\ k \in Int
    BY <1>2, <1>7, <2>0 DEF Region
  <2>2. operations'[k] = IF k \in (G + 1)..(M - 1) THEN moved[M - k]
                         ELSE IF k = G THEN AddFull(operations[G], full) ELSE operations[k]
    BY <1>1, <1>7, <2>1, Zenon
  <2>3. k \in (G + 1)..(M - 1) => moved[M - k] = stack[M - k]
    <3> DEFINE b == t.seq.base
    <3>1. b \in Nat /\ m \in Int /\ L \in Nat /\ M = b + m /\ G = M - L - 1
      BY <1>4, <1>6, <1>7, <2>0
    <3> HIDE DEF b, m
    <3>2. k \in (G + 1)..(M - 1) => M - k \in 1..L
      <4>1. M \in Int /\ G \in Int
        BY <3>1, PutBackSlots
      <4> HIDE DEF stack
      <4>2. ASSUME k \in (G + 1)..(M - 1) PROVE M - k \in 1..L
        <5>1. k \in Int /\ G + 1 <= k /\ k <= M - 1
          BY <2>1, <4>1, <4>2
        <5>2. 1 <= M - k /\ M - k <= L /\ M - k \in Int
          BY <3>1, <4>1, <5>1
        <5> DEFINE y == M - k
        <5>3. 1 <= y /\ y <= L /\ y \in Int /\ L \in Nat
          BY <3>1, <5>2
        <5> HIDE DEF y
        <5>4. y \in 1..L
          BY <5>3
        <5> QED
          BY <5>4 DEF y
      <4> QED
        BY <4>2
    <3> QED
      BY <1>6, <3>2
  <2> QED
    BY <1>8, <2>2, <2>3 DEF unseen
<1> QED
  BY <1>1, <1>2, <1>3, <1>9 DEF SplitUnstacks, lo, hi, unseen

\* The two tasks that SplitOff leaves.
SplitTasks(s, r, t, old, l, L) ==
    /\ DOMAIN tasks' = DOMAIN tasks \cup {r}
    /\ tasks'[r] = NewTask(RightSide(t))
    /\ \A u \in DOMAIN tasks : u # s /\ u # r => tasks'[u] = tasks[u]
    /\ s # r
    /\ l = 0 => tasks'[s] = NewTask(LeftSide(t))
    /\ l # 0 => \E st : /\ GoesOn(tasks'[s], st, t, old, l, L)
                        /\ tasks'[s].pc = "partition"
                        /\ tasks'[s].split.state = st

LEMMA SplitOffTasks ==
    ASSUME TasksInv, NEW s \in DOMAIN tasks, SplitOff(s),
           NEW t, t = tasks[s], NEW old, old = t.split.state,
           NEW l, l = t.split.i - 1, NEW L, L = Len(old.scratch[l]) - 1, L \in Nat,
           NEW r, r = LeftEnd(t) + 1
    PROVE  SplitTasks(s, r, t, old, l, L)
<1> DEFINE stack == old.scratch[l]
           i == t.split.i
           m == old.merge_into_idx
           null_idx == NullIdx(m, Len(Front(stack)))
           left == LeftSide(t)
           right == RightSide(t)
           arr == IncrUpdated(old.incr_array, l)
           scratch == [old.scratch EXCEPT ![l] = <<>>]
           st == [old EXCEPT !.incr_array = arr, !.scratch = scratch,
                             !.merge_into_idx = null_idx]
           sp == [t.split EXCEPT !.i = @ - 1]
           stepped == [t EXCEPT !.seq = left, !.split = sp]
           continued == InState(stepped, "partition", st)
<1>1. /\ t.pc = "split"
      /\ tasks' = [u \in DOMAIN tasks \cup {right.start} |->
             IF u = right.start THEN NewTask(right)
             ELSE IF u # s THEN tasks[u]
             ELSE IF i = 1 THEN NewTask(left) ELSE continued]
  BY DEF SplitOff
<1>2. /\ TaskInv(t, operations) /\ t.seq.start = s /\ Shaped(t) /\ DOMAIN t = TaskFields
  BY <1>1 DEF TasksInv, TaskInv
<1>3. /\ s \in Nat /\ LeftEnd(t) \in Nat /\ s <= LeftEnd(t) /\ i \in Nat \ {0}
      /\ Spaces(old.scratch, i)
  BY <1>1, <1>2, SpacesOfTask
<1>4. right.start = LeftEnd(t) + 1
  BY DEF RightSide, ProjSequence
<1>5. s # LeftEnd(t) + 1
  BY <1>3
<1>6. l \in Nat /\ (l = 0 <=> i = 1) /\ l = i - 1
  BY <1>3, Predecessor
<1> HIDE DEF right, left, continued, i
<1>7. /\ DOMAIN tasks' = DOMAIN tasks \cup {LeftEnd(t) + 1}
      /\ tasks'[LeftEnd(t) + 1] = NewTask(right)
      /\ \A u \in DOMAIN tasks : u # s /\ u # LeftEnd(t) + 1 => tasks'[u] = tasks[u]
      /\ l = 0 => tasks'[s] = NewTask(left)
      /\ l # 0 => tasks'[s] = continued
  BY <1>1, <1>4, <1>5, <1>6
<1>8. /\ DOMAIN sp = SplitFields /\ sp.dist = t.split.dist
      /\ sp.num_partitions = t.split.num_partitions
      /\ sp.last = t.split.last /\ sp.i = l
  <2>1. sp = [t.split EXCEPT !.i = l]
    OBVIOUS
  <2> HIDE DEF sp
  <2>2. DOMAIN t.split = SplitFields
    BY <1>2 DEF Shaped
  <2> QED
    BY <2>1, <2>2 DEF SplitFields
<1> HIDE DEF sp
<1>9. DOMAIN stepped = TaskFields /\ stepped.seq = left /\ stepped.split = sp
  BY <1>2 DEF TaskFields
<1>10. /\ st.cur_idx = old.cur_idx /\ st.merge_into_idx = null_idx
       /\ st.incr_array = arr /\ st.all_full_incr = old.all_full_incr
       /\ st.scratch = scratch
  <2>1. DOMAIN old = StateFields
    BY <1>2 DEF Shaped
  <2> HIDE DEF arr, scratch, null_idx
  <2> QED
    BY <2>1 DEF StateFields
<1> HIDE DEF stepped, st
<1>11. /\ continued.pc = "partition" /\ continued.seq = left
       /\ continued.split.dist = t.split.dist
       /\ continued.split.num_partitions = t.split.num_partitions
       /\ continued.split.last = t.split.last
       /\ continued.split.i = l
       /\ continued.split.state = st
  BY <1>8, <1>9, InStateFields DEF continued
<1>12. null_idx = m - L - 1
  <2>1. IsStack(stack)
    <3>1. LoopInv(t, operations)
      BY <1>1, <1>2 DEF TaskInv
    <3>2. l \in 0..(i - 1)
      BY <1>3, <1>6
    <3> QED
      BY <3>1, <3>2 DEF LoopInv, i
  <2>2. Len(Front(stack)) = L
    <3> HIDE DEF stack
    <3> DEFINE T == {stack[j] : j \in 1..Len(stack)}
               len == Len(stack)
    <3>0. L = len - 1
      BY DEF stack
    <3>1. len \in Nat \ {0} /\ stack \in Seq(T)
      BY <2>1 DEF IsStack
    <3>2. \A j \in 1..len : stack[j] \in T
      OBVIOUS
    <3> HIDE DEF T, len
    <3>3. 1 \in Int /\ len - 1 \in Int /\ \A j \in 1..(len - 1) : stack[j] \in T
      BY <3>1, <3>2 DEF len
    <3>4. Len(SubSeq(stack, 1, len - 1)) = IF 1 <= len - 1 THEN len - 1 - 1 + 1 ELSE 0
      BY <3>3, SubSeqProperties
    <3>5. Front(stack) = SubSeq(stack, 1, len - 1)
      BY DEF Front, len
    <3> QED
      BY <3>0, <3>1, <3>4, <3>5
  <2> QED
    BY <2>2 DEF NullIdx
<1>13. \A p \in 0..(l - 1) : scratch[p] = old.scratch[p]
  <2> SUFFICES ASSUME NEW p \in 0..(l - 1) PROVE scratch[p] = old.scratch[p]
    OBVIOUS
  <2>1. p # l
    BY <1>6
  <2>2. p \in DOMAIN old.scratch
    <3>1. LoopInv(t, operations)
      BY <1>1, <1>2 DEF TaskInv
    <3>2. p \in 0..(i - 1)
      BY <1>3, <1>6
    <3> QED
      BY <3>1, <3>2 DEF LoopInv, i
  <2> QED
    BY <2>1, <2>2
<1>14. l # 0 => GoesOn(tasks'[s], st, t, old, l, L)
  BY <1>7, <1>10, <1>11, <1>12, <1>13 DEF GoesOn, left
<1> QED
  BY <1>5, <1>7, <1>11, <1>14 DEF left, right, SplitTasks

LEMMA SplitOffMeaning ==
    ASSUME TasksInv, NEW s \in DOMAIN tasks, SplitOff(s),
           NEW n \in Nat, NEW due, MeaningInv(tasks[s], operations, n, due),
           NEW r, r = LeftEnd(tasks[s]) + 1
    PROVE  /\ MeaningInv(tasks'[s], operations', n, due)
           /\ MeaningInv(tasks'[r], operations', n, due)
           /\ DOMAIN tasks' = DOMAIN tasks \cup {r} /\ r # s
           /\ \A u \in DOMAIN tasks : u # s /\ u # r => tasks'[u] = tasks[u]
           /\ tasks'[r] = NewTask(RightSide(tasks[s]))
           /\ tasks'[s].pc # "base_case" /\ tasks'[s].seq = LeftSide(tasks[s])
<1> DEFINE t == tasks[s]
           old == t.split.state
           l == t.split.i - 1
           L == Len(old.scratch[l]) - 1
           M == Slot(t, old.merge_into_idx)
           G == M - L - 1
           o2 == operations'
<1>0. t = tasks[s] /\ old = t.split.state /\ l = t.split.i - 1 /\ L = Len(old.scratch[l]) - 1
      /\ M = Slot(t, old.merge_into_idx) /\ G = M - L - 1 /\ o2 = operations'
  OBVIOUS
<1> HIDE DEF t, old, l, L, M, G, o2
<1>1. SplitUnstacks(t, old, l, L, G, M, operations, o2, n, due)
  BY <1>0, SplitOffUnstacks
<1>2. L \in Nat
  BY <1>1, SplitUnstacked
<1>8. SplitTasks(s, r, t, old, l, L)
  BY <1>0, <1>2, SplitOffTasks
<1>3. /\ DOMAIN tasks' = DOMAIN tasks \cup {r}
      /\ tasks'[r] = NewTask(RightSide(t))
      /\ \A u \in DOMAIN tasks : u # s /\ u # r => tasks'[u] = tasks[u]
      /\ s # r
      /\ l = 0 => tasks'[s] = NewTask(LeftSide(t))
      /\ l # 0 => \E st : /\ GoesOn(tasks'[s], st, t, old, l, L)
                          /\ tasks'[s].pc = "partition"
                          /\ tasks'[s].split.state = st
  BY <1>8 DEF SplitTasks
<1>4. MeaningInv(tasks'[r], o2, n, due)
  BY <1>1, <1>3, RightSideMeaning
<1>5. CASE l = 0
  <2>1. MeaningInv(NewTask(LeftSide(t)), o2, n, due)
    BY <1>1, <1>5, LeftSideMeaning
  <2>2. /\ NewTask(LeftSide(t)).pc = "do_projections"
        /\ NewTask(LeftSide(t)).seq = LeftSide(t)
    BY DEF NewTask
  <2> QED
    BY <1>0, <1>3, <1>4, <1>5, <2>1, <2>2
<1>6. CASE l # 0
  <2> DEFINE u == tasks'[s]
  <2>1. PICK st : GoesOn(u, st, t, old, l, L) /\ u.pc = "partition" /\ u.split.state = st
    BY <1>3, <1>6
  <2>2. TaskInv(u, o2)
    <3>1. TasksInv'
      BY SplitOffKeepsInv
    <3>2. s \in DOMAIN tasks'
      BY <1>3
    <3> QED
      BY <1>0, <3>1, <3>2 DEF TasksInv
  <2> HIDE DEF u
  <2>3. LoopWith(u, st, o2, n, due)
    BY <1>1, <2>1, <2>2, UnstackedLoop
  <2>4. MeaningInv(u, o2, n, due)
    BY <2>1, <2>3, LoopClosed
  <2>5. u.seq = LeftSide(t) /\ u.pc # "base_case"
    BY <2>1 DEF GoesOn
  <2> QED
    BY <1>0, <1>3, <1>4, <2>4, <2>5 DEF u
<1> QED
  BY <1>5, <1>6

-----------------------------------------------------------------------------
(* A task that begins                                                      *)

\* The targets of a set of slots that differ are as many as the slots.
LEMMA DifferentTargets ==
    ASSUME NEW ops, NEW K, NEW T, IsFiniteSet(T),
           \A k \in K : ops[k].target \in T,
           \A k \in K : \A l \in K : ops[k].target = ops[l].target => k = l
    PROVE  IsFiniteSet(K) /\ Cardinality(K) <= Cardinality(T)
<1> DEFINE f == [k \in K |-> ops[k].target]
<1>1. f \in [K -> T]
  OBVIOUS
<1>2. \A k, l \in K : f[k] = f[l] => k = l
  OBVIOUS
<1> HIDE DEF f
<1>3. f \in Injection(K, T)
  BY <1>1, <1>2 DEF Injection, IsInjective
<1> QED
  BY <1>3, FS_Injection

\* A projected sequence has at most two operations per request.
LEMMA ProjectedSize ==
    ASSUME NEW ops, NEW lo \in Int, NEW hi \in Int, lo <= hi, ops[lo].type = "Null",
           NEW start \in Int, NEW end \in Int, start <= end, NEW n \in Nat, NEW due,
           Projected(ops, lo, hi, start, end, n, due)
    PROVE  hi - lo + 1 <= 2 * (end - start + 1)
<1> DEFINE P == {k \in lo..hi : ops[k].type = "Prefix"}
           Q == {k \in lo..hi : ops[k].type = "Postfix"}
           R == (lo + 1)..hi
           S == start..(end - 1)
           T == start..end
<1>1. /\ Coherent(ops, lo, hi, n, due)
      /\ Targets(ops, lo, hi, "Prefix") = S
      /\ Targets(ops, lo, hi, "Postfix") = DOMAIN due \cap T
      /\ \A k \in R : ~IsNull(ops[k])
  BY DEF Projected
<1>2. /\ IsFiniteSet(R) /\ Cardinality(R) = hi - lo
      /\ IsFiniteSet(S) /\ Cardinality(S) = end - start
      /\ IsFiniteSet(T) /\ Cardinality(T) = end - start + 1
  <2> DEFINE a == lo + 1
             b == end - 1
  <2>0. a \in Int /\ b \in Int
    OBVIOUS
  <2> HIDE DEF a, b
  <2>1. /\ IsFiniteSet(a..hi) /\ Cardinality(a..hi) = IF a > hi THEN 0 ELSE hi - a + 1
        /\ IsFiniteSet(start..b) /\ Cardinality(start..b) = IF start > b THEN 0 ELSE b - start + 1
        /\ IsFiniteSet(start..end)
        /\ Cardinality(start..end) = IF start > end THEN 0 ELSE end - start + 1
    BY <2>0, FS_Interval
  <2>2. R = a..hi /\ S = start..b /\ T = start..end /\ a = lo + 1 /\ b = end - 1
    BY DEF a, b
  <2> HIDE DEF R, S, T
  <2>3. /\ IsFiniteSet(R) /\ Cardinality(R) = IF a > hi THEN 0 ELSE hi - a + 1
        /\ IsFiniteSet(S) /\ Cardinality(S) = IF start > b THEN 0 ELSE b - start + 1
        /\ IsFiniteSet(T) /\ Cardinality(T) = IF start > end THEN 0 ELSE end - start + 1
    BY <2>1, <2>2, Zenon
  <2> QED
    BY <2>2, <2>3
<1>3. IsFiniteSet(P) /\ Cardinality(P) <= Cardinality(S)
  <2>1. \A k \in P : ops[k].target \in S
    BY <1>1 DEF Targets
  <2>2. \A k \in P : \A l \in P : ops[k].target = ops[l].target => k = l
    <3> SUFFICES ASSUME NEW k \in P, NEW l \in P, ops[k].target = ops[l].target, k # l
                 PROVE  FALSE
      OBVIOUS
    <3>1. ops[k].target \in Int
      BY <2>1
    <3>2. CASE k < l
      <4>1. k \in lo..(l - 1)
        BY <3>2
      <4>2. ops[k].target < ops[l].target
        BY <1>1, <4>1 DEF Coherent
      <4> QED
        BY <3>1, <4>2
    <3>3. CASE l < k
      <4>1. l \in lo..(k - 1)
        BY <3>3
      <4>2. ops[l].target < ops[k].target
        BY <1>1, <4>1 DEF Coherent
      <4> QED
        BY <3>1, <4>2
    <3> QED
      BY <3>2, <3>3
  <2> HIDE DEF P, S
  <2> QED
    BY <1>2, <2>1, <2>2, DifferentTargets
<1>4. IsFiniteSet(Q) /\ Cardinality(Q) <= Cardinality(T)
  <2>1. \A k \in Q : ops[k].target \in T
    BY <1>1 DEF Targets
  <2>2. \A k \in Q : \A l \in Q : ops[k].target = ops[l].target => k = l
    BY <1>1 DEF Coherent
  <2> HIDE DEF Q, T
  <2> QED
    BY <1>2, <2>1, <2>2, DifferentTargets
<1>5. R = P \cup Q
  <2>1. \A k \in R : k \in lo..hi /\ ops[k].type \in {"Prefix", "Postfix"}
    <3> SUFFICES ASSUME NEW k \in R PROVE k \in lo..hi /\ ops[k].type \in {"Prefix", "Postfix"}
      OBVIOUS
    <3>1. k \in lo..hi
      OBVIOUS
    <3>2. OpInv(ops[k], n) /\ ~IsNull(ops[k])
      BY <1>1, <3>1 DEF Coherent
    <3> QED
      BY <3>1, <3>2 DEF OpInv, IsNull
  <2>2. \A k \in P \cup Q : k \in R
    <3> SUFFICES ASSUME NEW k \in P \cup Q PROVE k \in R
      OBVIOUS
    <3>1. k \in lo..hi /\ k # lo
      OBVIOUS
    <3> QED
      BY <3>1
  <2> QED
    BY <2>1, <2>2
<1>6. P \cap Q = {}
  OBVIOUS
<1> HIDE DEF P, Q, R, S, T
<1>7. Cardinality(R) = Cardinality(P) + Cardinality(Q)
  <2>1. Cardinality(P \cup Q) = Cardinality(P) + Cardinality(Q) - Cardinality(P \cap Q)
    BY <1>3, <1>4, FS_Union
  <2>2. Cardinality(P \cap Q) = 0
    BY <1>6, FS_EmptySet
  <2>3. Cardinality(P) \in Nat /\ Cardinality(Q) \in Nat
    BY <1>3, <1>4, FS_CardinalityType
  <2> QED
    BY <1>5, <2>1, <2>2, <2>3
<1>8. Cardinality(P) \in Nat /\ Cardinality(Q) \in Nat
  BY <1>3, <1>4, FS_CardinalityType
<1> QED
  BY <1>2, <1>3, <1>4, <1>7, <1>8

\* The tree and the scratch spaces of a new PartitionState.
LEMMA NewState ==
    ASSUME NEW num_ops \in Nat \ {0}, num_ops <= 2^(IntBits - 1), NEW i \in Nat, i <= Branching - 1
    PROVE  LET st == NewPartitionState(num_ops)
           IN  /\ st.incr_array \in [0..(Branching - 1) -> Int]
               /\ st.all_full_incr = 0
               /\ st.cur_idx = num_ops - 1 /\ st.merge_into_idx = num_ops - 1
               /\ \A p \in 0..(i - 1) : st.scratch[p] = <<NoImpact>>
<1> DEFINE st == NewPartitionState(num_ops)
<1>1. AsInt(num_ops - 1) = num_ops - 1
  <2>1. num_ops - 1 \in Nat /\ num_ops - 1 < 2^(IntBits - 1)
    BY PowersOfInt
  <2> QED
    BY <2>1, AsIntExact
<1>2. /\ st.incr_array = [k \in 0..(Branching - 1) |-> 0]
      /\ st.all_full_incr = 0
      /\ st.cur_idx = AsInt(num_ops - 1) /\ st.merge_into_idx = AsInt(num_ops - 1)
      /\ st.scratch = EmptyScratch
  BY DEF NewPartitionState
<1>3. \A p \in 0..(i - 1) : EmptyScratch[p] = <<NoImpact>>
  BY BranchingAssumption DEF EmptyScratch
<1> HIDE DEF st
<1> QED
  BY <1>1, <1>2, <1>3 DEF st

\* A task that has just taken the branch of partition().
Begins(u, seq, np) ==
    /\ u.pc = "partition" /\ u.seq = seq
    /\ u.split.state = NewPartitionState(seq.num_ops)
    /\ u.split.i = np - 1

LEMMA NewLoopMeaning ==
    ASSUME NEW u, NEW ops, TaskInv(u, ops), NEW n \in Nat, NEW due,
           NEW seq, NEW np, Begins(u, seq, np), seq.end <= n,
           Projected(ops, seq.base, seq.base + seq.num_ops - 1, seq.start, seq.end, n, due),
           2 * n <= 2^(IntBits - 1)
    PROVE  MeaningInv(u, ops, n, due)
<1> DEFINE st == u.split.state
           lo == FirstSlot(u)
           hi == LastSlot(u)
           E == LeftEnd(u)
           i == u.split.i
           start == seq.start
           end == seq.end
           num_ops == seq.num_ops
           C == Slot(u, st.cur_idx)
           M == Slot(u, st.merge_into_idx)
<1>1. /\ u.pc = "partition" /\ u.seq = seq /\ st = NewPartitionState(num_ops)
      /\ lo = seq.base /\ hi = seq.base + num_ops - 1
  BY DEF Begins, FirstSlot, LastSlot
<1>2. /\ seq.base \in Nat /\ num_ops \in Nat \ {0} /\ start \in Nat \ {0} /\ end \in Nat
      /\ start <= E /\ E < end /\ E \in Nat
      /\ i \in Nat \ {0} /\ i <= Branching - 1
      /\ Spaces(st.scratch, i)
      /\ IsNull(ops[seq.base])
  <2>1. IsNull(ops[seq.base])
    BY <1>1 DEF TaskInv
  <2> QED
    BY <1>1, <2>1, SpacesOfTask
<1>3. Projected(ops, lo, hi, start, end, n, due)
  BY <1>1
<1>4. lo \in Int /\ hi \in Int /\ lo <= hi /\ hi - lo + 1 = num_ops
  BY <1>1, <1>2
<1>5. Coherent(ops, lo, hi, n, due) /\ ops[lo].type = "Null"
  <2>1. Coherent(ops, lo, hi, n, due)
    BY <1>3 DEF Projected
  <2>2. OpInv(ops[lo], n)
    BY <1>4, <2>1 DEF Coherent
  <2> QED
    BY <1>1, <1>2, <2>1, <2>2 DEF OpInv, IsNull
<1>6. num_ops <= 2^(IntBits - 1)
  <2>1. hi - lo + 1 <= 2 * (end - start + 1)
    <3> HIDE DEF lo, hi, start, end
    <3>1. start \in Int /\ end \in Int /\ start <= end
      BY <1>2
    <3> QED
      BY <1>3, <1>4, <1>5, <3>1, ProjectedSize
  <2> DEFINE big == 2^(IntBits - 1)
  <2>2. end <= n
    OBVIOUS
  <2>3. big \in Nat /\ 2 * n <= big
    BY PowersOfInt
  <2> HIDE DEF lo, hi, start, end, num_ops, big
  <2>4. 2 * (end - start + 1) <= 2 * n
    BY <1>2, <2>2
  <2> QED
    BY <1>2, <1>4, <2>1, <2>3, <2>4 DEF big
<1>7. /\ st.incr_array \in [0..(Branching - 1) -> Int]
      /\ st.all_full_incr = 0
      /\ st.cur_idx = num_ops - 1 /\ st.merge_into_idx = num_ops - 1
      /\ \A p \in 0..(i - 1) : st.scratch[p] = <<NoImpact>>
  <2> HIDE DEF st, i, num_ops
  <2> QED
    BY <1>1, <1>2, <1>6, NewState
<1>8. C = hi /\ M = hi
  BY <1>1, <1>2, <1>7 DEF Slot
<1>9. \A p \in 0..(i - 1) : Len(st.scratch[p]) = 1 /\ st.scratch[p][1] = NoImpact
  <2>1. Len(<<NoImpact>>) = 1 /\ <<NoImpact>>[1] = NoImpact
    OBVIOUS
  <2> HIDE DEF st, i
  <2> QED
    BY <1>7, <2>1, Zenon
<1>10. PendingIn(st.scratch, i) = 0
  <2> HIDE DEF st, i
  <2> QED
    BY <1>2, <1>9, PendingNat
<1>11. WaitingTargets(st.scratch, i) = {}
  <2>1. Waiting(st.scratch, i) = {}
    <3> SUFFICES ASSUME NEW w \in Waiting(st.scratch, i) PROVE FALSE
      OBVIOUS
    <3>1. w[1] \in 0..(i - 1) /\ w[2] \in 1..(Len(st.scratch[w[1]]) - 1)
      BY DEF Waiting
    <3>2. Len(st.scratch[w[1]]) = 1
      BY <1>9, <3>1
    <3> QED
      BY <3>1, <3>2
  <2> QED
    BY <2>1 DEF WaitingTargets
<1>12. /\ Targets(ops, lo, hi, "Prefix") = start..(end - 1)
       /\ Targets(ops, lo, hi, "Postfix") = DOMAIN due \cap start..end
       /\ \A k \in (lo + 1)..hi : ~IsNull(ops[k])
  BY <1>3 DEF Projected
<1>13. E \in Targets(ops, lo, hi, "Prefix")
  BY <1>2, <1>12
<1>14. LoopSlots(ops, lo, C, M, hi, E, n, due)
  <2> HIDE DEF lo, hi, C, M, E
  <2>1. /\ (C + 1)..(M - 1) = {} /\ (C + 1)..M = {} /\ (M + 1)..hi = {}
        /\ C \in Int /\ M \in Int /\ lo <= C /\ C <= M /\ M <= hi
    BY <1>4, <1>8
  <2>2. \A k \in (lo + 1)..C : ~IsNull(ops[k])
    BY <1>8, <1>12, Zenon
  <2>3. /\ \A k \in (C + 1)..(M - 1) : ops[k] = NoImpact
        /\ \A k \in (C + 1)..M : ops[k].type = "Null"
        /\ \A k \in (M + 1)..hi : ~IsNull(ops[k]) /\ E < ops[k].target
    BY <2>1, Zenon
  <2> QED
    BY <1>2, <1>4, <1>5, <1>13, <2>1, <2>2, <2>3, Zenon DEF LoopSlots
<1>15. ASSUME NEW p \in 0..(i - 1)
       PROVE  StackInv(st.scratch[p], Unseen(st, p), Partition(u.split, p), ops, lo, C, n, due)
  <2> DEFINE q == st.scratch[p]
  <2>1. Len(q) = 1 /\ q[1] = NoImpact
    BY <1>9
  <2>2. IsNull(q[1]) /\ q[1].full \in Int
    BY <2>1 DEF NoImpact, IsNull
  <2> HIDE DEF q
  <2>3. 1..(Len(q) - 1) = {}
    BY <2>1
  <2> QED
    BY <2>1, <2>2, <2>3 DEF StackInv, q
<1>16. /\ u.seq.end <= n
       /\ st.all_full_incr \in Int
       /\ st.cur_idx \in Nat /\ st.merge_into_idx \in Int
       /\ st.merge_into_idx - st.cur_idx = PendingIn(st.scratch, i)
  BY <1>1, <1>2, <1>7, <1>10
<1>17. /\ Targets(ops, lo, hi, "Prefix") = u.seq.start..(u.seq.end - 1)
       /\ Targets(ops, lo, hi, "Postfix") \cap WaitingTargets(st.scratch, i) = {}
       /\ Targets(ops, lo, hi, "Postfix") \cup WaitingTargets(st.scratch, i)
             = DOMAIN due \cap u.seq.start..u.seq.end
  BY <1>1, <1>11, <1>12
<1>18. LoopWith(u, st, ops, n, due)
  BY <1>7, <1>14, <1>15, <1>16, <1>17 DEF LoopWith
<1> QED
  BY <1>1, <1>18, LoopClosed

\* A task that has just taken the branch of do_base_case().
BeginsLocal(u, seq) ==
    /\ u.pc = "base_case" /\ u.seq = seq
    /\ u.local.idx = 0 /\ u.local.full_amnt = 0
    /\ u.local.distances = [j \in seq.start..seq.end |-> 0]

LEMMA NewLocalMeaning ==
    ASSUME NEW u, NEW ops, NEW n \in Nat, NEW due, NEW seq, seq \in ProjSequences,
           BeginsLocal(u, seq), seq.end <= n,
           Projected(ops, seq.base, seq.base + seq.num_ops - 1, seq.start, seq.end, n, due)
    PROVE  MeaningInv(u, ops, n, due)
<1>1. /\ u.pc = "base_case" /\ u.seq = seq
      /\ u.local.idx = 0 /\ u.local.full_amnt = 0
      /\ u.local.distances = [j \in seq.start..seq.end |-> 0]
  BY DEF BeginsLocal
<1>2. seq.base \in Nat /\ seq.num_ops \in Nat
  BY DEF ProjSequences
<1>3. \A j : Adds(ops, seq.base, seq.base + 0 - 1, j) = 0
  <2> DEFINE b == seq.base
  <2>1. b \in Int /\ b + 0 - 1 \in Int /\ b + 0 - 1 < b
    BY <1>2
  <2> HIDE DEF b
  <2>2. \A j : Adds(ops, b, b + 0 - 1, j) = 0
    BY <2>1, AddsNone
  <2> QED
    BY <2>2 DEF b
<1>4. \A j \in seq.start..seq.end : u.local.distances[j] = 0
  BY <1>1
<1>5. LocalInv(u, ops)
  BY <1>1, <1>2, <1>3, <1>4 DEF LocalInv
<1>6. u.pc \notin {"partition", "split"} /\ u.pc # "partition" /\ u.pc # "split"
  BY <1>1
<1> QED
  BY <1>1, <1>5, <1>6 DEF MeaningInv

LEMMA DoProjectionsMeaning ==
    ASSUME TasksInv, NEW s \in DOMAIN tasks, DoProjections(s),
           NEW n \in Nat, NEW due, MeaningInv(tasks[s], operations, n, due),
           2 * n <= 2^(IntBits - 1)
    PROVE  /\ MeaningInv(tasks'[s], operations', n, due)
           /\ tasks'[s].seq = tasks[s].seq
           /\ tasks'[s].pc = "base_case" => tasks'[s].local.idx = 0
<1> DEFINE t == tasks[s]
           dist == Size(t.seq)
           np == Min({dist, Branching})
           local == [idx |-> 0, full_amnt |-> 0,
                     distances |-> [j \in t.seq.start..t.seq.end |-> 0]]
           state == NewPartitionState(t.seq.num_ops)
           split == [dist |-> dist, num_partitions |-> np, last |-> t.seq.end,
                     i |-> np - 1, state |-> state]
           small == [t EXCEPT !.pc = "base_case", !.local = local]
           large == [t EXCEPT !.pc = "partition", !.split = split]
<1>1. /\ t.pc = "do_projections"
      /\ SetTask(s, IF IsSmall(t.seq) THEN small ELSE large)
      /\ operations' = operations
  BY DEF DoProjections
<1>2. DOMAIN t = TaskFields /\ t.seq \in ProjSequences
  BY DEF TasksInv, TaskInv
<1>3. /\ t.seq.end <= n
      /\ Projected(operations, t.seq.base, t.seq.base + t.seq.num_ops - 1,
                   t.seq.start, t.seq.end, n, due)
  BY <1>1 DEF MeaningInv
<1>4. TasksInv' /\ s \in DOMAIN tasks'
  <2>1. s \in DOMAIN tasks'
    BY <1>1 DEF SetTask
  <2> QED
    BY <2>1, DoProjectionsKeepsInv
<1>5. TaskInv(tasks'[s], operations)
  BY <1>1, <1>4 DEF TasksInv
<1>6. tasks'[s] = IF IsSmall(t.seq) THEN small ELSE large
  <2> HIDE DEF small, large
  <2> QED
    BY <1>1 DEF SetTask
<1>7. CASE IsSmall(t.seq)
  <2>1. small.pc = "base_case" /\ small.seq = t.seq /\ small.local = local
    <3> HIDE DEF local
    <3> QED
      BY <1>2 DEF TaskFields
  <2> HIDE DEF small
  <2>2. BeginsLocal(small, t.seq)
    BY <2>1 DEF BeginsLocal
  <2>3. MeaningInv(small, operations, n, due)
    BY <1>2, <1>3, <2>2, NewLocalMeaning
  <2> QED
    BY <1>1, <1>6, <1>7, <2>1, <2>3
<1>8. CASE ~IsSmall(t.seq)
  <2> HIDE DEF np, dist
  <2>1. split.i = np - 1 /\ split.state = NewPartitionState(t.seq.num_ops)
    OBVIOUS
  <2> HIDE DEF split
  <2>2. large.pc = "partition" /\ large.seq = t.seq /\ large.split = split
    BY <1>2 DEF TaskFields
  <2> HIDE DEF large
  <2>3. Begins(large, t.seq, np)
    BY <2>1, <2>2 DEF Begins
  <2>4. TaskInv(large, operations)
    BY <1>5, <1>6, <1>8
  <2>5. MeaningInv(large, operations, n, due)
    BY <1>3, <2>3, <2>4, NewLoopMeaning
  <2> QED
    BY <1>1, <1>6, <1>8, <2>2, <2>5
<1> QED
  BY <1>7, <1>8

-----------------------------------------------------------------------------
(* A task that applies its operations                                      *)

\* What a task in its base case has still to freeze lies in its range.
LEMMA UnfrozenInRange ==
    ASSUME NEW t, NEW ops, TaskInv(t, ops), NEW n \in Nat, NEW due, MeaningInv(t, ops, n, due)
    PROVE  Unfrozen(t, ops, due) \subseteq DOMAIN due \cap t.seq.start..t.seq.end
<1> DEFINE lo == t.seq.base
           hi == lo + t.seq.num_ops - 1
           range == DOMAIN due \cap t.seq.start..t.seq.end
<1>1. CASE t.pc = "base_case"
  <2>1. Projected(ops, lo, hi, t.seq.start, t.seq.end, n, due) /\ LocalInv(t, ops)
    BY <1>1 DEF MeaningInv
  <2>2. Targets(ops, lo, hi, "Postfix") = range
    BY <2>1 DEF Projected
  <2>3. lo \in Nat /\ t.seq.num_ops \in Nat /\ t.local.idx \in 0..t.seq.num_ops
    BY <2>1 DEF TaskInv, ProjSequences, LocalInv
  <2>4. Unfrozen(t, ops, due) = Targets(ops, lo + t.local.idx, hi, "Postfix")
    BY <1>1 DEF Unfrozen
  <2> HIDE DEF range
  <2>5. \A k \in (lo + t.local.idx)..hi : k \in lo..hi
    BY <2>3
  <2> QED
    BY <2>2, <2>4, <2>5 DEF Targets, range
<1>2. CASE t.pc # "base_case"
  BY <1>2 DEF Unfrozen
<1> QED
  BY <1>1, <1>2

\* What the task u is after applying the operation op.
Applies(u, t, op) ==
    /\ u.pc = "base_case" /\ u.seq = t.seq
    /\ u.local.idx = t.local.idx + 1
    /\ u.local.full_amnt = t.local.full_amnt + op.full
    /\ u.local.distances = [j \in DOMAIN t.local.distances |->
                               t.local.distances[j] + Effect(op, j)]

\* The distance of each request after applying the operation at k.
Grows(t, ops, k) ==
    \A j \in t.seq.start..t.seq.end :
        t.local.distances[j] + Effect(ops[k], j) + t.local.full_amnt
           = Adds(ops, t.seq.base, k - 1, j) + Effect(ops[k], j)

\* The distance of each request grows by what the operation does to it.
LEMMA DistancesGrow ==
    ASSUME NEW t, NEW ops, NEW u, t.seq \in ProjSequences, LocalInv(t, ops),
           t.local.idx < t.seq.num_ops,
           NEW k, k = t.seq.base + t.local.idx, Applies(u, t, ops[k]),
           Summable(ops, t.seq.base, t.seq.base + t.seq.num_ops - 1)
    PROVE  LocalInv(u, ops) /\ Grows(t, ops, k)
<1> DEFINE lo == t.seq.base
           num_ops == t.seq.num_ops
           hi == lo + num_ops - 1
           idx == t.local.idx
           full == t.local.full_amnt
           dist == t.local.distances
           range == t.seq.start..t.seq.end
           op == ops[k]
<1>1. /\ lo \in Nat /\ num_ops \in Nat /\ idx \in 0..num_ops /\ idx < num_ops
      /\ full \in Int /\ dist \in [range -> Int]
      /\ \A j \in range : dist[j] + full = Adds(ops, lo, lo + idx - 1, j)
  BY DEF LocalInv, ProjSequences
<1>2. /\ u.seq = t.seq /\ u.local.idx = idx + 1
      /\ u.local.full_amnt = full + op.full
      /\ u.local.distances = [j \in DOMAIN dist |-> dist[j] + Effect(op, j)]
  BY DEF Applies
<1>3. k = lo + idx
  OBVIOUS
<1> HIDE DEF lo, idx, num_ops, full, dist, range
<1>4. /\ k \in lo..hi /\ k \in Int /\ hi \in Int /\ lo \in Int /\ lo <= k
      /\ lo + idx - 1 = k - 1 /\ lo + (idx + 1) - 1 = k
  BY <1>1, <1>3
<1>5. Summable(ops, lo, hi)
  BY DEF lo, num_ops
<1> HIDE DEF hi
<1>6. op.full \in Int /\ \A j : Effect(op, j) \in Int /\ Whole(op, j) = Effect(op, j) + op.full
  BY <1>4, <1>5 DEF Summable, Effect, IncAmnt, Whole
<1>7. Summable(ops, lo, k)
  <2>1. \A m \in lo..k : m \in lo..hi
    BY <1>4
  <2> QED
    BY <1>4, <1>5, <2>1 DEF Summable
<1>8. \A j : /\ Adds(ops, lo, k, j) = Adds(ops, lo, k - 1, j) + Whole(op, j)
             /\ Adds(ops, lo, k - 1, j) \in Int
  <2> SUFFICES ASSUME NEW j
               PROVE  /\ Adds(ops, lo, k, j) = Adds(ops, lo, k - 1, j) + Whole(op, j)
                      /\ Adds(ops, lo, k - 1, j) \in Int
    OBVIOUS
  <2>1. /\ Adds(ops, lo, k, j) = Adds(ops, lo, k - 1, j) + Whole(op, j)
        /\ Summable(ops, lo, k - 1)
    BY <1>4, <1>7, AddsLast
  <2> QED
    BY <2>1, AddsType
<1> HIDE DEF op
<1>9. ASSUME NEW j \in range
      PROVE  /\ dist[j] + Effect(op, j) + full = Adds(ops, lo, k - 1, j) + Effect(op, j)
             /\ (dist[j] + Effect(op, j)) + (full + op.full) = Adds(ops, lo, k, j)
             /\ dist[j] + Effect(op, j) \in Int
  <2> DEFINE a == Adds(ops, lo, k - 1, j)
             e == Effect(op, j)
             d == dist[j]
  <2>1. d \in Int /\ d + full = a
    BY <1>1, <1>4
  <2>2. Adds(ops, lo, k, j) = a + (e + op.full) /\ a \in Int /\ e \in Int
    BY <1>6, <1>8
  <2> HIDE DEF a, e, d
  <2>3. /\ d + e + full = a + e
        /\ (d + e) + (full + op.full) = Adds(ops, lo, k, j)
        /\ d + e \in Int
    BY <1>1, <1>6, <2>1, <2>2
  <2> QED
    BY <2>3 DEF a, e, d
<1>10. /\ u.local.distances \in [range -> Int]
       /\ \A j \in range : u.local.distances[j] = dist[j] + Effect(op, j)
  <2>1. DOMAIN dist = range
    BY <1>1
  <2> QED
    BY <1>2, <1>9, <2>1
<1>11. u.local.idx \in 0..num_ops /\ u.local.full_amnt \in Int
  BY <1>1, <1>2, <1>6
<1>12. \A j \in range : u.local.distances[j] + u.local.full_amnt = Adds(ops, lo, lo + u.local.idx - 1, j)
  BY <1>2, <1>4, <1>9, <1>10
<1>13. LocalInv(u, ops)
  BY <1>2, <1>10, <1>11, <1>12 DEF LocalInv, range, lo, num_ops
<1> QED
  BY <1>9, <1>13 DEF Grows, range, lo, op, full, dist

\* The distance that a Postfix freezes is its due.
LEMMA ApplyOperationMeaning ==
    ASSUME TasksInv, NEW s \in DOMAIN tasks, ApplyOperation(s),
           NEW n \in Nat, NEW due, MeaningInv(tasks[s], operations, n, due)
    PROVE  LET op == operations[Slot(tasks[s], tasks[s].local.idx)]
           IN  /\ MeaningInv(tasks'[s], operations', n, due)
               /\ tasks'[s].seq = tasks[s].seq
               /\ op.type = "Postfix" =>
                     /\ op.target \in DOMAIN due
                     /\ op.target \in Unfrozen(tasks[s], operations, due)
                     /\ hits_vector' = [hits_vector EXCEPT ![due[op.target]] = @ + 1]
                     /\ Unfrozen(tasks'[s], operations', due)
                           = Unfrozen(tasks[s], operations, due) \ {op.target}
               /\ op.type # "Postfix" =>
                     /\ hits_vector' = hits_vector
                     /\ Unfrozen(tasks'[s], operations', due) = Unfrozen(tasks[s], operations, due)
<1> DEFINE t == tasks[s]
           l == t.local
           lo == t.seq.base
           hi == lo + t.seq.num_ops - 1
           idx == l.idx
           k == lo + idx
           op == operations[Slot(t, l.idx)]
           distances == [j \in DOMAIN l.distances |-> l.distances[j] + Effect(op, j)]
           hit == distances[op.target] + l.full_amnt
           local == [idx |-> l.idx + 1, full_amnt |-> l.full_amnt + op.full,
                     distances |-> distances]
           u == [t EXCEPT !.local = local]
           range == t.seq.start..t.seq.end
           ops == operations
<1>1. /\ t.pc = "base_case"
      /\ l.idx < t.seq.num_ops
      /\ hits_vector' = IF op.type = "Postfix"
                        THEN [hits_vector EXCEPT ![hit] = @ + 1] ELSE hits_vector
      /\ SetTask(s, u)
      /\ operations' = operations
  BY DEF ApplyOperation
<1>2. DOMAIN t = TaskFields /\ t.seq \in ProjSequences /\ TaskInv(t, operations)
  BY DEF TasksInv, TaskInv
<1>3. /\ t.seq.end <= n
      /\ Projected(ops, lo, hi, t.seq.start, t.seq.end, n, due)
      /\ LocalInv(t, ops)
  BY <1>1 DEF MeaningInv
<1>4. tasks'[s] = u
  <2> HIDE DEF u
  <2> QED
    BY <1>1 DEF SetTask
<1>5. Applies(u, t, op) /\ u.pc = "base_case" /\ u.seq = t.seq /\ u.local.idx = l.idx + 1
  <2>1. /\ local.idx = l.idx + 1
        /\ local.full_amnt = l.full_amnt + op.full
        /\ local.distances = distances
    BY Zenon
  <2> HIDE DEF local
  <2>2. u.pc = "base_case" /\ u.seq = t.seq /\ u.local = local
    BY <1>1, <1>2 DEF TaskFields
  <2> HIDE DEF u
  <2> QED
    BY <2>1, <2>2 DEF Applies
<1>6. lo \in Nat /\ t.seq.num_ops \in Nat /\ l.idx \in 0..t.seq.num_ops /\ hi \in Int /\ lo \in Int
  BY <1>2, <1>3 DEF ProjSequences, LocalInv
<1>7. k \in lo..hi /\ k \in Int
  <2> DEFINE num_ops == t.seq.num_ops
  <2>1. idx \in 0..num_ops /\ num_ops \in Nat /\ idx < num_ops /\ hi = lo + num_ops - 1 /\ lo \in Int
    BY <1>1, <1>6
  <2> HIDE DEF idx, num_ops, lo, hi
  <2> QED
    BY <2>1
<1>8. /\ Coherent(ops, lo, hi, n, due)
      /\ Targets(ops, lo, hi, "Postfix") = DOMAIN due \cap range
  BY <1>3 DEF Projected
<1>9. Summable(ops, lo, hi)
  BY <1>6, <1>8, CoherentSummable
<1>10. l.distances \in [range -> Int]
  BY <1>3 DEF LocalInv
<1>18. op = ops[k]
  BY DEF Slot
<1> HIDE DEF u, hit, distances, local, op
<1>11. LocalInv(u, ops) /\ Grows(t, ops, k)
  <2> DEFINE o == operations
  <2>1. /\ t.seq \in ProjSequences /\ LocalInv(t, o) /\ l.idx < t.seq.num_ops
        /\ Applies(u, t, o[k])
        /\ Summable(o, lo, lo + t.seq.num_ops - 1)
        /\ k = lo + l.idx
    BY <1>1, <1>2, <1>3, <1>5, <1>9, <1>18
  <2> HIDE DEF k, o, t
  <2>2. LocalInv(u, o) /\ Grows(t, o, k)
    BY <2>1, DistancesGrow
  <2> QED
    BY <2>2 DEF o
<1>12. MeaningInv(u, ops, n, due)
  <2>1. u.pc \notin {"partition", "split"} /\ u.pc # "partition" /\ u.pc # "split"
    BY <1>5
  <2> QED
    BY <1>3, <1>5, <1>11, <2>1 DEF MeaningInv
<1> DEFINE A == Unfrozen(t, ops, due)
           B == Unfrozen(u, ops, due)
           next == k + 1
<1>13. A = Targets(ops, k, hi, "Postfix") /\ B = Targets(ops, next, hi, "Postfix")
  <2>1. A = Targets(ops, k, hi, "Postfix")
    BY <1>1 DEF Unfrozen
  <2>2. B = Targets(ops, lo + (l.idx + 1), hi, "Postfix")
    BY <1>5 DEF Unfrozen
  <2>3. lo + (l.idx + 1) = next
    BY <1>6
  <2> QED
    BY <2>1, <2>2, <2>3
<1>14. /\ \A m \in next..hi : m \in k..hi /\ m # k
       /\ \A m \in k..hi : m \in lo..hi /\ (m # k => m \in next..hi)
       /\ k \in k..hi
  BY <1>6, <1>7
<1> HIDE DEF A, B, next, k
<1>15. op = ops[k]
  BY <1>18
<1>16. ASSUME op.type = "Postfix"
       PROVE  /\ op.target \in DOMAIN due /\ op.target \in A /\ B = A \ {op.target}
              /\ hit = due[op.target]
  <2>1. op.target \in DOMAIN due /\ op.target \in range
    BY <1>7, <1>8, <1>15, <1>16 DEF Targets
  <2>2. op.target \in A
    BY <1>13, <1>14, <1>15, <1>16 DEF Targets
  <2>3. \A m \in lo..hi : ops[m].type = "Postfix" /\ ops[m].target = op.target => m = k
    BY <1>7, <1>8, <1>15, <1>16 DEF Coherent
  <2>4. B = A \ {op.target}
    <3>1. \A x \in B : x \in A /\ x # op.target
      BY <1>13, <1>14, <2>3 DEF Targets
    <3>2. \A x \in A : x # op.target => x \in B
      BY <1>13, <1>14, <1>15 DEF Targets
    <3> QED
      BY <3>1, <3>2
  <2>5. hit = due[op.target]
    <3> DEFINE T == op.target
    <3>1. distances[T] = l.distances[T] + Effect(op, T)
      BY <1>10, <2>1 DEF distances
    <3>2. Effect(op, T) = 1
      <4>1. T \in Int
        BY <2>1, <1>2 DEF ProjSequences
      <4> QED
        BY <1>16, <4>1 DEF Effect, IncAmnt
    <3>3. hit = Adds(ops, lo, k - 1, T) + 1
      BY <1>11, <1>15, <2>1, <3>1, <3>2 DEF hit, Grows
    <3>4. Adds(ops, lo, k - 1, T) + 1 = due[T]
      BY <1>7, <1>8, <1>15, <1>16 DEF Coherent
    <3> QED
      BY <3>3, <3>4
  <2> QED
    BY <2>1, <2>2, <2>4, <2>5
<1>17. ASSUME op.type # "Postfix" PROVE B = A
  <2>1. \A x \in B : x \in A
    BY <1>13, <1>14 DEF Targets
  <2>2. \A x \in A : x \in B
    BY <1>13, <1>14, <1>15, <1>17 DEF Targets
  <2> QED
    BY <2>1, <2>2
<1> QED
  BY <1>1, <1>4, <1>5, <1>12, <1>16, <1>17 DEF A, B, op

-----------------------------------------------------------------------------
(* A task whose slots stay as they are                                     *)

SameSlots(ops2, ops, lo, hi) == \A k \in lo..hi : ops2[k] = ops[k]

LEMMA StackFrame ==
    ASSUME NEW stack, NEW unseen, NEW range, NEW ops, NEW lo, NEW cur, NEW n, NEW due,
           StackInv(stack, unseen, range, ops, lo, cur, n, due),
           Summable(ops, lo, cur), NEW ops2, SameSlots(ops2, ops, lo, cur)
    PROVE  StackInv(stack, unseen, range, ops2, lo, cur, n, due)
<1>1. \A j : Adds(ops2, lo, cur, j) = Adds(ops, lo, cur, j)
  BY AddsFrame DEF SameSlots
<1> QED
  BY <1>1 DEF StackInv

LEMMA ProjectedFrame ==
    ASSUME NEW ops, NEW lo \in Int, NEW hi \in Int, NEW start, NEW end, NEW n \in Nat, NEW due,
           Projected(ops, lo, hi, start, end, n, due),
           NEW ops2, SameSlots(ops2, ops, lo, hi)
    PROVE  Projected(ops2, lo, hi, start, end, n, due)
<1>1. /\ Coherent(ops2, lo, hi, n, due)
      /\ \A type : Targets(ops2, lo, hi, type) = Targets(ops, lo, hi, type)
  BY CoherentFrame DEF Projected, SameSlots
<1>2. \A k \in (lo + 1)..hi : k \in lo..hi
  OBVIOUS
<1> QED
  BY <1>1, <1>2 DEF Projected, SameSlots

LEMMA LoopFrame ==
    ASSUME NEW t, NEW st, NEW ops, NEW n \in Nat, NEW due, LoopWith(t, st, ops, n, due),
           NEW ops2, SameSlots(ops2, ops, FirstSlot(t), LastSlot(t))
    PROVE  LoopWith(t, st, ops2, n, due)
<1> DEFINE lo == FirstSlot(t)
           hi == LastSlot(t)
           C == Slot(t, st.cur_idx)
           M == Slot(t, st.merge_into_idx)
           E == LeftEnd(t)
<1>1. LoopSlots(ops, lo, C, M, hi, E, n, due)
  BY DEF LoopWith
<1>2. SameSlots(ops2, ops, lo, hi)
  OBVIOUS
<1> HIDE DEF lo, hi, C, M, E
<1>3. /\ lo \in Int /\ C \in Int /\ M \in Int /\ hi \in Int /\ E \in Nat
      /\ lo <= C /\ C <= M /\ M <= hi
      /\ Coherent(ops, lo, hi, n, due)
  BY <1>1 DEF LoopSlots
<1>4. /\ Coherent(ops2, lo, hi, n, due)
      /\ \A type : Targets(ops2, lo, hi, type) = Targets(ops, lo, hi, type)
  BY <1>2, <1>3, CoherentFrame DEF SameSlots
<1>5. /\ lo \in lo..hi
      /\ \A k \in (lo + 1)..C : k \in lo..hi
      /\ \A k \in (C + 1)..(M - 1) : k \in lo..hi
      /\ \A k \in (C + 1)..M : k \in lo..hi
      /\ \A k \in (M + 1)..hi : k \in lo..hi
      /\ \A k \in lo..C : k \in lo..hi
  BY <1>3
<1>6. LoopSlots(ops2, lo, C, M, hi, E, n, due)
  BY <1>1, <1>2, <1>4, <1>5 DEF LoopSlots, SameSlots
<1>7. SameSlots(ops2, ops, lo, C)
  BY <1>2, <1>5 DEF SameSlots
<1>8. Summable(ops, lo, C)
  BY <1>1, BoundaryBelow
<1>9. \A p \in 0..(t.split.i - 1) :
         StackInv(st.scratch[p], Unseen(st, p), Partition(t.split, p), ops2, lo, C, n, due)
  <2> SUFFICES ASSUME NEW p \in 0..(t.split.i - 1)
               PROVE  StackInv(st.scratch[p], Unseen(st, p), Partition(t.split, p),
                               ops2, lo, C, n, due)
    OBVIOUS
  <2>1. StackInv(st.scratch[p], Unseen(st, p), Partition(t.split, p), ops, lo, C, n, due)
    BY DEF LoopWith, lo, C
  <2> QED
    BY <1>7, <1>8, <2>1, StackFrame
<1> QED
  BY <1>4, <1>6, <1>9 DEF LoopWith, lo, hi, C, M, E

LEMMA SplitFrame ==
    ASSUME NEW t, NEW st, NEW ops, NEW n \in Nat, NEW due, SplitWith(t, st, ops, n, due),
           NEW ops2, SameSlots(ops2, ops, FirstSlot(t), LastSlot(t))
    PROVE  SplitWith(t, st, ops2, n, due)
<1> DEFINE lo == FirstSlot(t)
           hi == LastSlot(t)
           C == Slot(t, st.cur_idx)
           M == Slot(t, st.merge_into_idx)
           E == LeftEnd(t)
<1>1. CutSides(ops, lo, C, M, hi, n, due)
  BY DEF SplitWith
<1>2. SameSlots(ops2, ops, lo, hi)
  OBVIOUS
<1> HIDE DEF lo, hi, C, M, E
<1>3. /\ lo \in Int /\ C \in Int /\ M \in Int /\ hi \in Int
      /\ lo <= C /\ C < M /\ M <= hi
      /\ Coherent(ops, lo, C, n, due) /\ Coherent(ops, M, hi, n, due)
  BY <1>1 DEF CutSides
<1>4. /\ lo \in lo..hi /\ M \in lo..hi
      /\ \A k \in (lo + 1)..C : k \in lo..hi
      /\ \A k \in (C + 1)..(M - 1) : k \in lo..hi
      /\ \A k \in (M + 1)..hi : k \in lo..hi
      /\ \A k \in M..hi : k \in lo..hi
      /\ \A k \in lo..C : k \in lo..hi
  BY <1>3
<1>5. SameSlots(ops2, ops, lo, C) /\ SameSlots(ops2, ops, M, hi)
  BY <1>2, <1>4 DEF SameSlots
<1>6. /\ Coherent(ops2, lo, C, n, due)
      /\ \A type : Targets(ops2, lo, C, type) = Targets(ops, lo, C, type)
  BY <1>3, <1>5, CoherentFrame DEF SameSlots
<1>7. /\ Coherent(ops2, M, hi, n, due)
      /\ \A type : Targets(ops2, M, hi, type) = Targets(ops, M, hi, type)
  BY <1>3, <1>5, CoherentFrame DEF SameSlots
<1>8. CutSides(ops2, lo, C, M, hi, n, due)
  BY <1>1, <1>2, <1>4, <1>6, <1>7 DEF CutSides, SameSlots
<1>9. Summable(ops, lo, C)
  BY <1>3, CoherentSummable
<1>10. \A p \in 0..(t.split.i - 1) :
         StackInv(st.scratch[p], Unseen(st, p), Partition(t.split, p), ops2, lo, C, n, due)
  <2> SUFFICES ASSUME NEW p \in 0..(t.split.i - 1)
               PROVE  StackInv(st.scratch[p], Unseen(st, p), Partition(t.split, p),
                               ops2, lo, C, n, due)
    OBVIOUS
  <2>1. StackInv(st.scratch[p], Unseen(st, p), Partition(t.split, p), ops, lo, C, n, due)
    BY DEF SplitWith, lo, C
  <2> QED
    BY <1>5, <1>9, <2>1, StackFrame
<1> QED
  BY <1>6, <1>7, <1>8, <1>10 DEF SplitWith, lo, hi, C, M, E

LEMMA LocalFrame ==
    ASSUME NEW t, NEW ops, t.seq \in ProjSequences, LocalInv(t, ops),
           Summable(ops, FirstSlot(t), LastSlot(t)),
           NEW ops2, SameSlots(ops2, ops, FirstSlot(t), LastSlot(t))
    PROVE  LocalInv(t, ops2)
<1> DEFINE lo == t.seq.base
           hi == lo + t.seq.num_ops - 1
           idx == t.local.idx
           last == lo + idx - 1
<1>1. Summable(ops, lo, hi) /\ SameSlots(ops2, ops, lo, hi)
  BY DEF FirstSlot, LastSlot
<1>2. lo \in Int /\ hi \in Int /\ last \in Int /\ last <= hi
  BY SMTT(30) DEF LocalInv, ProjSequences
<1>0. last = lo + idx - 1
  OBVIOUS
<1> HIDE DEF lo, hi, last
<1>3. \A k \in lo..last : k \in lo..hi
  BY <1>2
<1>4. Summable(ops, lo, last) /\ SameSlots(ops2, ops, lo, last)
  BY <1>1, <1>2, <1>3 DEF Summable, SameSlots
<1>5. \A j : Adds(ops2, lo, last, j) = Adds(ops, lo, last, j)
  BY <1>4, AddsFrame DEF SameSlots
<1> QED
  BY <1>0, <1>5 DEF LocalInv, lo

\* It is only a task's own slots that matter to it.
LEMMA MeaningFrame ==
    ASSUME NEW t, NEW ops, TaskInv(t, ops), NEW n \in Nat, NEW due, MeaningInv(t, ops, n, due),
           NEW ops2, TaskInv(t, ops2), \A k \in Region(t) : ops2[k] = ops[k]
    PROVE  /\ MeaningInv(t, ops2, n, due)
           /\ Unfrozen(t, ops2, due) = Unfrozen(t, ops, due)
<1> DEFINE lo == t.seq.base
           hi == lo + t.seq.num_ops - 1
<1>1. /\ t.seq \in ProjSequences /\ lo \in Int /\ hi \in Int
      /\ t.pc \in {"do_projections", "partition", "split", "base_case"}
      /\ SameSlots(ops2, ops, lo, hi)
      /\ lo = FirstSlot(t) /\ hi = LastSlot(t)
  BY DEF TaskInv, ProjSequences, Region, SameSlots, FirstSlot, LastSlot
<1>2. CASE t.pc = "do_projections"
  <2>1. t.seq.end <= n /\ Projected(ops, lo, hi, t.seq.start, t.seq.end, n, due)
    BY <1>2 DEF MeaningInv
  <2> HIDE DEF lo, hi
  <2>2. Projected(ops2, lo, hi, t.seq.start, t.seq.end, n, due)
    BY <1>1, <2>1, ProjectedFrame
  <2>3. t.pc \notin {"partition", "split"} /\ t.pc # "base_case" /\ t.pc # "partition" /\ t.pc # "split"
    BY <1>2
  <2> QED
    BY <2>1, <2>2, <2>3 DEF MeaningInv, Unfrozen, lo, hi
<1>3. CASE t.pc = "base_case"
  <2>1. /\ t.seq.end <= n /\ Projected(ops, lo, hi, t.seq.start, t.seq.end, n, due)
        /\ LocalInv(t, ops)
    BY <1>3 DEF MeaningInv
  <2>2. t.local.idx \in 0..t.seq.num_ops
    BY <2>1 DEF LocalInv
  <2> DEFINE here == lo + t.local.idx
  <2>3. \A k \in here..hi : k \in lo..hi
    BY <1>1, <2>2
  <2> HIDE DEF lo, hi
  <2>4. Projected(ops2, lo, hi, t.seq.start, t.seq.end, n, due)
    BY <1>1, <2>1, ProjectedFrame
  <2>5. Summable(ops, lo, hi)
    BY <1>1, <2>1, CoherentSummable DEF Projected
  <2>6. LocalInv(t, ops2)
    BY <1>1, <2>1, <2>5, LocalFrame
  <2>7. t.pc \notin {"partition", "split"} /\ t.pc # "partition" /\ t.pc # "split"
    BY <1>3
  <2>8. MeaningInv(t, ops2, n, due)
    BY <2>1, <2>4, <2>6, <2>7 DEF MeaningInv, lo, hi
  <2>9. Targets(ops2, here, hi, "Postfix") = Targets(ops, here, hi, "Postfix")
    <3>1. \A k \in here..hi : ops2[k] = ops[k]
      BY <1>1, <2>3 DEF SameSlots
    <3> HIDE DEF here
    <3> QED
      BY <3>1, TargetsFrame
  <2> QED
    BY <1>3, <2>8, <2>9 DEF Unfrozen, lo, hi
<1>4. CASE t.pc = "partition"
  <2>1. LoopWith(t, t.split.state, ops, n, due)
    BY <1>4, LoopOpened
  <2>2. LoopWith(t, t.split.state, ops2, n, due)
    BY <1>1, <2>1, LoopFrame
  <2>3. MeaningInv(t, ops2, n, due)
    BY <1>4, <2>2, LoopClosed
  <2> QED
    BY <1>4, <2>3 DEF Unfrozen
<1>5. CASE t.pc = "split"
  <2>1. SplitWith(t, t.split.state, ops, n, due)
    BY <1>5, SplitOpened
  <2>2. SplitWith(t, t.split.state, ops2, n, due)
    BY <1>1, <2>1, SplitFrame
  <2>3. LeftEnd(t) \in Nat
    BY <1>5, SpacesOfTask
  <2>4. MeaningInv(t, ops2, n, due)
    BY <1>5, <2>2, <2>3, SplitClosed
  <2> QED
    BY <1>5, <2>4 DEF Unfrozen
<1> QED
  BY <1>1, <1>2, <1>3, <1>4, <1>5

-----------------------------------------------------------------------------
(* A step of a task                                                        *)

AllMean(ts, ops, n, due) == \A u \in DOMAIN ts : MeaningInv(ts[u], ops, n, due)

\* A task that a step leaves alone.
LEMMA OthersMean ==
    ASSUME TasksInv, TasksInv', NoInterference,
           NEW n \in Nat, NEW due, AllMean(tasks, operations, n, due),
           NEW u \in DOMAIN tasks, u \in DOMAIN tasks', tasks'[u] = tasks[u]
    PROVE  /\ MeaningInv(tasks'[u], operations', n, due)
           /\ Unfrozen(tasks'[u], operations', due) = Unfrozen(tasks[u], operations, due)
<1>1. TaskInv(tasks[u], operations) /\ TaskInv(tasks[u], operations')
  BY DEF TasksInv
<1>2. \A k \in Region(tasks[u]) : operations'[k] = operations[k]
  BY DEF NoInterference
<1>3. MeaningInv(tasks[u], operations, n, due)
  BY DEF AllMean
<1> QED
  BY <1>1, <1>2, <1>3, MeaningFrame

\* The ranges of two tasks have no request in common.
LEMMA RangesDisjoint ==
    ASSUME TasksInv, NEW s \in DOMAIN tasks, NEW u \in DOMAIN tasks, u # s
    PROVE  (tasks[s].seq.start..tasks[s].seq.end) \cap (tasks[u].seq.start..tasks[u].seq.end) = {}
<1>1. /\ tasks[s].seq.start = s /\ tasks[u].seq.start = u
      /\ tasks[s].seq.start \in Nat /\ tasks[u].seq.start \in Nat
      /\ tasks[s].seq.end \in Nat /\ tasks[u].seq.end \in Nat
  BY DEF TasksInv, TaskInv, ProjSequences
<1>2. s < u => tasks[s].seq.end < u
  BY DEF TasksInv, RegionsDisjoint
<1>3. u < s => tasks[u].seq.end < s
  BY DEF TasksInv, RegionsDisjoint
<1> QED
  BY <1>1, <1>2, <1>3

LEMMA UnfrozenDisjoint ==
    ASSUME TasksInv, NEW n \in Nat, NEW due, AllMean(tasks, operations, n, due),
           NEW s \in DOMAIN tasks, NEW u \in DOMAIN tasks, u # s
    PROVE  Unfrozen(tasks[s], operations, due) \cap Unfrozen(tasks[u], operations, due) = {}
<1>1. Unfrozen(tasks[s], operations, due) \subseteq tasks[s].seq.start..tasks[s].seq.end
  <2>1. TaskInv(tasks[s], operations) /\ MeaningInv(tasks[s], operations, n, due)
    BY DEF TasksInv, AllMean
  <2> QED
    BY <2>1, UnfrozenInRange
<1>2. Unfrozen(tasks[u], operations, due) \subseteq tasks[u].seq.start..tasks[u].seq.end
  <2>1. TaskInv(tasks[u], operations) /\ MeaningInv(tasks[u], operations, n, due)
    BY DEF TasksInv, AllMean
  <2> QED
    BY <2>1, UnfrozenInRange
<1> QED
  BY <1>1, <1>2, RangesDisjoint, Zenon

\* What a step does to the requests still to be frozen and to the histogram.
FreezesAtMostOne(due) ==
    \/ /\ hits_vector' = hits_vector
       /\ Live(tasks', operations', due) = Live(tasks, operations, due)
    \/ \E p \in Live(tasks, operations, due) :
          /\ p \in DOMAIN due
          /\ hits_vector' = [hits_vector EXCEPT ![due[p]] = @ + 1]
          /\ Live(tasks', operations', due) = Live(tasks, operations, due) \ {p}

\* A step of one task that leaves its range alone.
LEMMA OneTaskMoves ==
    ASSUME TasksInv, TasksInv', NoInterference,
           NEW n \in Nat, NEW due, AllMean(tasks, operations, n, due),
           NEW s \in DOMAIN tasks, DOMAIN tasks' = DOMAIN tasks,
           \A u \in DOMAIN tasks : u # s => tasks'[u] = tasks[u],
           MeaningInv(tasks'[s], operations', n, due)
    PROVE  /\ AllMean(tasks', operations', n, due)
           /\ Unfrozen(tasks'[s], operations', due) = Unfrozen(tasks[s], operations, due) =>
                 Live(tasks', operations', due) = Live(tasks, operations, due)
           /\ \A p \in Unfrozen(tasks[s], operations, due) :
                 Unfrozen(tasks'[s], operations', due)
                    = Unfrozen(tasks[s], operations, due) \ {p} =>
                 Live(tasks', operations', due) = Live(tasks, operations, due) \ {p}
<1>1. \A u \in DOMAIN tasks : u # s =>
          /\ MeaningInv(tasks'[u], operations', n, due)
          /\ Unfrozen(tasks'[u], operations', due) = Unfrozen(tasks[u], operations, due)
  BY OthersMean
<1>2. AllMean(tasks', operations', n, due)
  BY <1>1, Zenon DEF AllMean
<1> DEFINE F == [u \in DOMAIN tasks |-> Unfrozen(tasks[u], operations, due)]
           G == [u \in DOMAIN tasks |-> Unfrozen(tasks'[u], operations', due)]
<1>3. Live(tasks, operations, due) = UNION {F[u] : u \in DOMAIN tasks}
  BY DEF Live
<1>4. Live(tasks', operations', due) = UNION {G[u] : u \in DOMAIN tasks}
  BY DEF Live
<1>5. \A u \in DOMAIN tasks : u # s => G[u] = F[u] /\ F[s] \cap F[u] = {}
  BY <1>1, UnfrozenDisjoint
<1>6. G[s] = Unfrozen(tasks'[s], operations', due) /\ F[s] = Unfrozen(tasks[s], operations, due)
  OBVIOUS
<1> HIDE DEF F, G
<1>7. G[s] = F[s] => UNION {G[u] : u \in DOMAIN tasks} = UNION {F[u] : u \in DOMAIN tasks}
  BY <1>5
<1>8. ASSUME NEW p \in F[s], G[s] = F[s] \ {p}
      PROVE  UNION {G[u] : u \in DOMAIN tasks} = (UNION {F[u] : u \in DOMAIN tasks}) \ {p}
  BY <1>5, <1>8
<1> QED
  BY <1>2, <1>3, <1>4, <1>6, <1>7, <1>8

\* An iteration of partition() leaves the requests of the task unfrozen.
LEMMA IteratedUnfrozen ==
    ASSUME TasksInv, NEW s \in DOMAIN tasks, Iterating(s), NEW due,
           NEW pc \in {"partition", "split"}, NEW st, SetTask(s, InState(tasks[s], pc, st))
    PROVE  /\ DOMAIN tasks' = DOMAIN tasks
           /\ \A u \in DOMAIN tasks : u # s => tasks'[u] = tasks[u]
           /\ Unfrozen(tasks'[s], operations', due) = Unfrozen(tasks[s], operations, due)
<1> DEFINE t == tasks[s]
           u == InState(t, pc, st)
<1>1. DOMAIN t = TaskFields /\ DOMAIN t.split = SplitFields /\ t.pc = "partition"
  BY DEF TasksInv, TaskInv, Iterating, Shaped
<1>2. u.pc = pc /\ u.seq = t.seq
  BY <1>1, InStateFields
<1>3. DOMAIN tasks' = DOMAIN tasks /\ tasks'[s] = u /\ \A v \in DOMAIN tasks : v # s => tasks'[v] = tasks[v]
  BY DEF SetTask
<1> HIDE DEF t, u
<1>4. Unfrozen(u, operations', due) = Unfrozen(t, operations, due)
  BY <1>1, <1>2 DEF Unfrozen
<1> QED
  BY <1>3, <1>4 DEF t

LEMMA PartitionSteps ==
    ASSUME TasksInv, NEW s \in DOMAIN tasks,
           MergeBoundary(s) \/ MovePostfixToScratch(s) \/ KeepOnRight(s)
    PROVE  /\ Iterating(s) /\ hits_vector' = hits_vector
           /\ \E pc \in {"partition", "split"} : \E st : SetTask(s, InState(tasks[s], pc, st))
<1>1. CASE MergeBoundary(s)
  BY <1>1 DEF MergeBoundary
<1>2. CASE MovePostfixToScratch(s)
  BY <1>2 DEF MovePostfixToScratch
<1>3. CASE KeepOnRight(s)
  BY <1>3 DEF KeepOnRight
<1> QED
  BY <1>1, <1>2, <1>3

LEMMA PartitionStepsMean ==
    ASSUME TasksInv, TasksInv', NoInterference, NEW s \in DOMAIN tasks,
           MergeBoundary(s) \/ MovePostfixToScratch(s) \/ KeepOnRight(s),
           NEW n \in Nat, NEW due, AllMean(tasks, operations, n, due)
    PROVE  AllMean(tasks', operations', n, due) /\ FreezesAtMostOne(due)
<1>1. /\ Iterating(s) /\ hits_vector' = hits_vector
      /\ \E pc \in {"partition", "split"} : \E st : SetTask(s, InState(tasks[s], pc, st))
  BY PartitionSteps
<1>2. /\ DOMAIN tasks' = DOMAIN tasks
      /\ \A u \in DOMAIN tasks : u # s => tasks'[u] = tasks[u]
      /\ Unfrozen(tasks'[s], operations', due) = Unfrozen(tasks[s], operations, due)
  BY <1>1, IteratedUnfrozen
<1>3. MeaningInv(tasks[s], operations, n, due)
  BY DEF AllMean
<1>4. MeaningInv(tasks'[s], operations', n, due)
  BY <1>3, MergeBoundaryMeaning, MovePostfixMeaning, KeepOnRightMeaning
<1> QED
  BY <1>1, <1>2, <1>4, OneTaskMoves DEF FreezesAtMostOne

LEMMA DoProjectionsMean ==
    ASSUME TasksInv, TasksInv', NoInterference, NEW s \in DOMAIN tasks, DoProjections(s),
           NEW n \in Nat, NEW due, AllMean(tasks, operations, n, due),
           2 * n <= 2^(IntBits - 1)
    PROVE  AllMean(tasks', operations', n, due) /\ FreezesAtMostOne(due)
<1>1. MeaningInv(tasks[s], operations, n, due) /\ TaskInv(tasks[s], operations)
  BY DEF AllMean, TasksInv
<1>2. /\ MeaningInv(tasks'[s], operations', n, due)
      /\ tasks'[s].seq = tasks[s].seq
      /\ tasks'[s].pc = "base_case" => tasks'[s].local.idx = 0
  BY <1>1, DoProjectionsMeaning
<1>3. hits_vector' = hits_vector /\ tasks[s].pc = "do_projections"
  BY DEF DoProjections
<1>4. DOMAIN tasks' = DOMAIN tasks /\ \A u \in DOMAIN tasks : u # s => tasks'[u] = tasks[u]
  BY DEF DoProjections, SetTask
<1>5. Unfrozen(tasks'[s], operations', due) = Unfrozen(tasks[s], operations, due)
  <2> DEFINE u == tasks'[s]
             q == tasks[s].seq
  <2>1. Unfrozen(tasks[s], operations, due) = DOMAIN due \cap q.start..q.end
    BY <1>3 DEF Unfrozen
  <2>2. q.base \in Nat
    BY <1>1 DEF TaskInv, ProjSequences
  <2>3. u.seq = q
    BY <1>2
  <2>4. CASE u.pc = "base_case"
    <3>1. Projected(operations', q.base, q.base + q.num_ops - 1, q.start, q.end, n, due)
      BY <1>2, <2>3, <2>4 DEF MeaningInv
    <3>2. Targets(operations', q.base, q.base + q.num_ops - 1, "Postfix") = DOMAIN due \cap q.start..q.end
      BY <3>1 DEF Projected
    <3>3. u.local.idx = 0 /\ q.base + 0 = q.base
      BY <1>2, <2>2, <2>4
    <3> HIDE DEF q, u
    <3>4. Unfrozen(u, operations', due) = Targets(operations', q.base + 0, q.base + q.num_ops - 1, "Postfix")
      BY <2>3, <2>4, <3>3 DEF Unfrozen
    <3>5. Unfrozen(u, operations', due) = Targets(operations', q.base, q.base + q.num_ops - 1, "Postfix")
      BY <3>3, <3>4
    <3> QED
      BY <2>1, <3>2, <3>5 DEF u
  <2>5. CASE u.pc # "base_case"
    BY <2>1, <2>3, <2>5 DEF Unfrozen
  <2> QED
    BY <2>4, <2>5
<1> QED
  BY <1>2, <1>3, <1>4, <1>5, OneTaskMoves DEF FreezesAtMostOne

LEMMA ApplyOperationMean ==
    ASSUME TasksInv, TasksInv', NoInterference, NEW s \in DOMAIN tasks, ApplyOperation(s),
           NEW n \in Nat, NEW due, AllMean(tasks, operations, n, due)
    PROVE  AllMean(tasks', operations', n, due) /\ FreezesAtMostOne(due)
<1> DEFINE op == operations[Slot(tasks[s], tasks[s].local.idx)]
           F == Unfrozen(tasks[s], operations, due)
           p == op.target
<1>1. MeaningInv(tasks[s], operations, n, due)
  BY DEF AllMean
<1>2. /\ MeaningInv(tasks'[s], operations', n, due)
      /\ op.type = "Postfix" =>
            /\ p \in DOMAIN due
            /\ p \in F
            /\ hits_vector' = [hits_vector EXCEPT ![due[p]] = @ + 1]
            /\ Unfrozen(tasks'[s], operations', due) = F \ {p}
      /\ op.type # "Postfix" =>
            /\ hits_vector' = hits_vector
            /\ Unfrozen(tasks'[s], operations', due) = F
  BY <1>1, ApplyOperationMeaning
<1>3. DOMAIN tasks' = DOMAIN tasks /\ \A u \in DOMAIN tasks : u # s => tasks'[u] = tasks[u]
  BY DEF ApplyOperation, SetTask
<1>4. F \subseteq Live(tasks, operations, due)
  BY DEF Live
<1>5. /\ AllMean(tasks', operations', n, due)
      /\ Unfrozen(tasks'[s], operations', due) = F =>
            Live(tasks', operations', due) = Live(tasks, operations, due)
      /\ \A x \in F : Unfrozen(tasks'[s], operations', due) = F \ {x} =>
            Live(tasks', operations', due) = Live(tasks, operations, due) \ {x}
  BY <1>2, <1>3, OneTaskMoves
<1> HIDE DEF op, F, p
<1> QED
  BY <1>2, <1>4, <1>5 DEF FreezesAtMostOne

LEMMA EndBaseCaseMean ==
    ASSUME TasksInv, TasksInv', NoInterference, NEW s \in DOMAIN tasks, EndBaseCase(s),
           NEW n \in Nat, NEW due, AllMean(tasks, operations, n, due)
    PROVE  AllMean(tasks', operations', n, due) /\ FreezesAtMostOne(due)
<1>1. /\ DOMAIN tasks' = DOMAIN tasks \ {s} /\ \A u \in DOMAIN tasks' : tasks'[u] = tasks[u]
      /\ hits_vector' = hits_vector
      /\ tasks[s].pc = "base_case" /\ tasks[s].local.idx = tasks[s].seq.num_ops
  BY DEF EndBaseCase
<1>2. \A u \in DOMAIN tasks' :
          /\ MeaningInv(tasks'[u], operations', n, due)
          /\ Unfrozen(tasks'[u], operations', due) = Unfrozen(tasks[u], operations, due)
  BY <1>1, OthersMean
<1>3. Unfrozen(tasks[s], operations, due) = {}
  <2> DEFINE b == tasks[s].seq.base
             m == tasks[s].seq.num_ops
  <2>1. b \in Nat /\ m \in Nat
    BY DEF TasksInv, TaskInv, ProjSequences
  <2>2. Unfrozen(tasks[s], operations, due) = Targets(operations, b + m, b + m - 1, "Postfix")
    BY <1>1 DEF Unfrozen
  <2> HIDE DEF b, m
  <2>3. (b + m)..(b + m - 1) = {}
    BY <2>1
  <2> QED
    BY <2>2, <2>3 DEF Targets
<1>4. Live(tasks', operations', due) = Live(tasks, operations, due)
  <2> DEFINE F == [u \in DOMAIN tasks |-> Unfrozen(tasks[u], operations, due)]
             G == [u \in DOMAIN tasks' |-> Unfrozen(tasks'[u], operations', due)]
  <2>1. Live(tasks, operations, due) = UNION {F[u] : u \in DOMAIN tasks}
    BY DEF Live
  <2>2. Live(tasks', operations', due) = UNION {G[u] : u \in DOMAIN tasks'}
    BY DEF Live
  <2>3. \A u \in DOMAIN tasks' : G[u] = F[u]
    BY <1>1, <1>2
  <2>4. F[s] = {}
    BY <1>3
  <2> HIDE DEF F, G
  <2> QED
    BY <1>1, <2>1, <2>2, <2>3, <2>4
<1> QED
  BY <1>1, <1>2, <1>4 DEF AllMean, FreezesAtMostOne

LEMMA SplitOffMean ==
    ASSUME TasksInv, TasksInv', NoInterference, NEW s \in DOMAIN tasks, SplitOff(s),
           NEW n \in Nat, NEW due, AllMean(tasks, operations, n, due)
    PROVE  AllMean(tasks', operations', n, due) /\ FreezesAtMostOne(due)
<1> DEFINE t == tasks[s]
           r == LeftEnd(t) + 1
<1>1. MeaningInv(t, operations, n, due) /\ TaskInv(t, operations) /\ t.seq.start = s
  BY DEF AllMean, TasksInv
<1>2. hits_vector' = hits_vector /\ t.pc = "split"
  BY DEF SplitOff
<1>3. /\ MeaningInv(tasks'[s], operations', n, due)
      /\ MeaningInv(tasks'[r], operations', n, due)
      /\ DOMAIN tasks' = DOMAIN tasks \cup {r} /\ r # s
      /\ \A u \in DOMAIN tasks : u # s /\ u # r => tasks'[u] = tasks[u]
      /\ tasks'[r] = NewTask(RightSide(t))
      /\ tasks'[s].pc # "base_case" /\ tasks'[s].seq = LeftSide(t)
  BY <1>1, SplitOffMeaning
<1>4. /\ t.seq.start \in Nat \ {0} /\ t.seq.end \in Nat
      /\ LeftEnd(t) \in Nat /\ t.seq.start <= LeftEnd(t) /\ LeftEnd(t) < t.seq.end
  <2>1. RangeInv(t) /\ t.seq \in ProjSequences
    BY <1>1, <1>2 DEF TaskInv
  <2>2. t.seq.start \in Nat \ {0} /\ t.seq.end \in Nat
    BY <2>1 DEF ProjSequences
  <2> QED
    BY <2>1, <2>2, EndsIncrease
<1>5. r \notin DOMAIN tasks
  <2>1. s \in Nat /\ r \in Nat /\ s < r /\ r <= t.seq.end
    BY <1>1, <1>4
  <2>2. ASSUME r \in DOMAIN tasks PROVE FALSE
    <3>1. t.seq.end < r
      BY <2>1, <2>2 DEF TasksInv, RegionsDisjoint
    <3> QED
      BY <1>4, <2>1, <3>1
  <2> QED
    BY <2>2
<1>6. \A u \in DOMAIN tasks : u # s =>
          /\ MeaningInv(tasks'[u], operations', n, due)
          /\ Unfrozen(tasks'[u], operations', due) = Unfrozen(tasks[u], operations, due)
  BY <1>3, <1>5, OthersMean
<1>7. AllMean(tasks', operations', n, due)
  BY <1>3, <1>6, Zenon DEF AllMean
<1>8. Unfrozen(tasks'[s], operations', due) \cup Unfrozen(tasks'[r], operations', due)
         = Unfrozen(t, operations, due)
  <2>1. Unfrozen(tasks'[s], operations', due) = DOMAIN due \cap t.seq.start..LeftEnd(t)
    BY <1>3 DEF Unfrozen, LeftSide, ProjSequence
  <2>2. Unfrozen(tasks'[r], operations', due) = DOMAIN due \cap (LeftEnd(t) + 1)..t.seq.end
    BY <1>3 DEF Unfrozen, RightSide, ProjSequence, NewTask
  <2>3. Unfrozen(t, operations, due) = DOMAIN due \cap t.seq.start..t.seq.end
    BY <1>2 DEF Unfrozen
  <2> HIDE DEF t, r
  <2>4. t.seq.start..t.seq.end = (t.seq.start..LeftEnd(t)) \cup ((LeftEnd(t) + 1)..t.seq.end)
    BY <1>4
  <2> QED
    BY <2>1, <2>2, <2>3, <2>4
<1>9. Live(tasks', operations', due) = Live(tasks, operations, due)
  <2> DEFINE F == [u \in DOMAIN tasks |-> Unfrozen(tasks[u], operations, due)]
             G == [u \in DOMAIN tasks' |-> Unfrozen(tasks'[u], operations', due)]
  <2>1. Live(tasks, operations, due) = UNION {F[u] : u \in DOMAIN tasks}
    BY DEF Live
  <2>2. Live(tasks', operations', due) = UNION {G[u] : u \in DOMAIN tasks'}
    BY DEF Live
  <2>3. \A u \in DOMAIN tasks : u # s => G[u] = F[u]
    BY <1>3, <1>6
  <2>4. G[s] \cup G[r] = F[s]
    BY <1>3, <1>8
  <2> HIDE DEF F, G, t, r
  <2>5. DOMAIN tasks' = DOMAIN tasks \cup {r} /\ r \notin DOMAIN tasks
    BY <1>3, <1>5
  <2>6. UNION {G[u] : u \in DOMAIN tasks'} \subseteq UNION {F[u] : u \in DOMAIN tasks}
    BY <2>3, <2>4, <2>5
  <2>7. UNION {F[u] : u \in DOMAIN tasks} \subseteq UNION {G[u] : u \in DOMAIN tasks'}
    BY <2>3, <2>4, <2>5
  <2> QED
    BY <2>1, <2>2, <2>6, <2>7
<1> QED
  BY <1>2, <1>7, <1>9 DEF FreezesAtMostOne

\* A step of a task keeps the meaning of all tasks and freezes at most one
\* request, at its due.
LEMMA TaskStepMean ==
    ASSUME TasksInv, NEW s \in DOMAIN tasks, TaskStep(s),
           NEW n \in Nat, NEW due, AllMean(tasks, operations, n, due),
           2 * n <= 2^(IntBits - 1)
    PROVE  AllMean(tasks', operations', n, due) /\ FreezesAtMostOne(due)
<1>1. TasksInv' /\ NoInterference
  BY TaskStepKeepsInv
<1>2. CASE MergeBoundary(s) \/ MovePostfixToScratch(s) \/ KeepOnRight(s)
  BY <1>1, <1>2, PartitionStepsMean
<1>3. CASE DoProjections(s)
  BY <1>1, <1>3, DoProjectionsMean
<1>4. CASE SplitOff(s)
  BY <1>1, <1>4, SplitOffMean
<1>5. CASE ApplyOperation(s)
  BY <1>1, <1>5, ApplyOperationMean
<1>6. CASE EndBaseCase(s)
  BY <1>1, <1>6, EndBaseCaseMean
<1> QED
  BY <1>2, <1>3, <1>4, <1>5, <1>6 DEF TaskStep

-----------------------------------------------------------------------------
(* What the slots hold                                                     *)

AllOps(ops, n) == \A k \in DOMAIN ops : OpInv(ops[k], n)

LEMMA WrittenOps ==
    ASSUME NEW f, NEW n, AllOps(f, n), NEW a, NEW x, OpInv(x, n)
    PROVE  AllOps([f EXCEPT ![a] = x], n)
<1>1. \A k \in DOMAIN f : [f EXCEPT ![a] = x][k] = IF k = a THEN x ELSE f[k]
  OBVIOUS
<1> QED
  BY <1>1, Zenon DEF AllOps

LEMMA MergeBoundaryOps ==
    ASSUME TasksInv, NEW s \in DOMAIN tasks, MergeBoundary(s), NEW n \in Nat, AllOps(operations, n)
    PROVE  AllOps(operations', n)
<1> DEFINE t == tasks[s]
           st == t.split.state
           cur == Slot(t, st.cur_idx)
           merge == Slot(t, st.merge_into_idx)
           op == CurOp(t)
           credited == [operations EXCEPT ![cur - 1] = AddFull(@, op.full + IncAmnt)]
<1>1. Iterating(s)
  BY DEF MergeBoundary
<1>2. cur \in DOMAIN operations /\ merge \in DOMAIN operations
  BY <1>1, IterationSlots
<1>3. operations' = IF merge = cur
                    THEN [credited EXCEPT ![cur] = MakeNull(op)]
                    ELSE [credited EXCEPT ![merge] = AddFull(@, op.full), ![cur] = NoImpact]
  BY DEF MergeBoundary
<1>4. op = operations[cur]
  BY DEF CurOp
<1> HIDE DEF t, st, cur, merge, op
<1>5. OpInv(op, n) /\ op.full \in Int /\ op.full + IncAmnt \in Int
  BY <1>2, <1>4 DEF AllOps, OpInv, IncAmnt
<1>6. AllOps(credited, n)
  <2>1. \A k \in DOMAIN operations :
           credited[k] = IF k = cur - 1 THEN AddFull(operations[k], op.full + IncAmnt)
                         ELSE operations[k]
    OBVIOUS
  <2>2. \A k \in DOMAIN operations : OpInv(AddFull(operations[k], op.full + IncAmnt), n)
    BY <1>5, AddFullInv DEF AllOps
  <2> HIDE DEF credited
  <2>3. DOMAIN credited = DOMAIN operations
    BY DEF credited
  <2> QED
    BY <2>1, <2>2, <2>3, Zenon DEF AllOps
<1>7. DOMAIN credited = DOMAIN operations
  OBVIOUS
<1> HIDE DEF credited
<1>8. OpInv(MakeNull(op), n) /\ OpInv(NoImpact, n) /\ OpInv(AddFull(credited[merge], op.full), n)
  <2>1. OpInv(credited[merge], n)
    BY <1>2, <1>6, <1>7 DEF AllOps
  <2> QED
    BY <1>5, <2>1, MakeNullInv, NoImpactInv, AddFullInv
<1>9. AllOps([credited EXCEPT ![cur] = MakeNull(op)], n)
  BY <1>6, <1>8, WrittenOps
<1>10. AllOps([credited EXCEPT ![merge] = AddFull(@, op.full), ![cur] = NoImpact], n)
  <2> DEFINE g == [credited EXCEPT ![merge] = AddFull(credited[merge], op.full)]
  <2>1. AllOps(g, n)
    BY <1>6, <1>8, WrittenOps
  <2>2. [credited EXCEPT ![merge] = AddFull(@, op.full), ![cur] = NoImpact]
          = [g EXCEPT ![cur] = NoImpact]
    OBVIOUS
  <2> HIDE DEF g
  <2> QED
    BY <1>8, <2>1, <2>2, WrittenOps
<1> QED
  BY <1>3, <1>9, <1>10

LEMMA MovePostfixOps ==
    ASSUME TasksInv, NEW s \in DOMAIN tasks, MovePostfixToScratch(s),
           NEW n \in Nat, AllOps(operations, n)
    PROVE  AllOps(operations', n)
<1> DEFINE t == tasks[s]
           st == t.split.state
           cur == Slot(t, st.cur_idx)
           merge == Slot(t, st.merge_into_idx)
           op == CurOp(t)
<1>1. Iterating(s)
  BY DEF MovePostfixToScratch
<1>2. cur \in DOMAIN operations /\ merge \in DOMAIN operations
  BY <1>1, IterationSlots
<1>3. operations' =
             IF cur # merge
             THEN [operations EXCEPT ![merge] = AddFull(@, op.full + IncAmnt),
                                     ![cur] = NoImpact]
             ELSE [operations EXCEPT ![cur] = MakeNull(AddFull(op, IncAmnt))]
  BY DEF MovePostfixToScratch
<1>4. op = operations[cur]
  BY DEF CurOp
<1> HIDE DEF t, st, cur, merge, op
<1>5. OpInv(op, n) /\ op.full \in Int /\ op.full + IncAmnt \in Int /\ IncAmnt \in Int
  BY <1>2, <1>4 DEF AllOps, OpInv, IncAmnt
<1>6. OpInv(NoImpact, n) /\ OpInv(AddFull(operations[merge], op.full + IncAmnt), n)
  <2>1. OpInv(operations[merge], n)
    BY <1>2 DEF AllOps
  <2> QED
    BY <1>5, <2>1, NoImpactInv, AddFullInv
<1>7. OpInv(MakeNull(AddFull(op, IncAmnt)), n)
  <2>1. AddFull(op, IncAmnt).full \in Int
    BY <1>5, AddFullInv
  <2> QED
    BY <2>1, MakeNullInv
<1>8. AllOps([operations EXCEPT ![cur] = MakeNull(AddFull(op, IncAmnt))], n)
  BY <1>7, WrittenOps
<1>9. AllOps([operations EXCEPT ![merge] = AddFull(@, op.full + IncAmnt), ![cur] = NoImpact], n)
  <2> DEFINE g == [operations EXCEPT ![merge] = AddFull(operations[merge], op.full + IncAmnt)]
  <2>1. AllOps(g, n)
    BY <1>6, WrittenOps
  <2>2. [operations EXCEPT ![merge] = AddFull(@, op.full + IncAmnt), ![cur] = NoImpact]
          = [g EXCEPT ![cur] = NoImpact]
    OBVIOUS
  <2> HIDE DEF g
  <2> QED
    BY <1>6, <2>1, <2>2, WrittenOps
<1> QED
  BY <1>3, <1>8, <1>9

LEMMA KeepOnRightOps ==
    ASSUME TasksInv, NEW s \in DOMAIN tasks, KeepOnRight(s), NEW n \in Nat, AllOps(operations, n)
    PROVE  AllOps(operations', n)
<1> DEFINE t == tasks[s]
           st == t.split.state
           cur == Slot(t, st.cur_idx)
           merge == Slot(t, st.merge_into_idx)
           op == CurOp(t)
           kept == AddFull(op, operations[merge].full)
<1>1. Iterating(s)
  BY DEF KeepOnRight
<1>2. cur \in DOMAIN operations /\ merge \in DOMAIN operations
  BY <1>1, IterationSlots
<1>3. operations' = IF merge = cur THEN operations
                    ELSE [operations EXCEPT ![merge] = kept, ![cur] = NoImpact]
  BY DEF KeepOnRight
<1>4. op = operations[cur]
  BY DEF CurOp
<1> HIDE DEF t, st, cur, merge, op
<1>5. OpInv(NoImpact, n) /\ OpInv(kept, n)
  <2>1. OpInv(op, n) /\ operations[merge].full \in Int
    BY <1>2, <1>4 DEF AllOps, OpInv
  <2> QED
    BY <2>1, NoImpactInv, AddFullInv
<1> HIDE DEF kept
<1>6. AllOps([operations EXCEPT ![merge] = kept, ![cur] = NoImpact], n)
  <2> DEFINE g == [operations EXCEPT ![merge] = kept]
  <2>1. AllOps(g, n)
    BY <1>5, WrittenOps
  <2>2. [operations EXCEPT ![merge] = kept, ![cur] = NoImpact] = [g EXCEPT ![cur] = NoImpact]
    OBVIOUS
  <2> HIDE DEF g
  <2> QED
    BY <1>5, <2>1, <2>2, WrittenOps
<1> QED
  BY <1>3, <1>6

LEMMA SplitOffOps ==
    ASSUME TasksInv, NEW s \in DOMAIN tasks, SplitOff(s),
           NEW n \in Nat, NEW due, MeaningInv(tasks[s], operations, n, due), AllOps(operations, n)
    PROVE  AllOps(operations', n)
<1> DEFINE t == tasks[s]
           st == t.split.state
           l == t.split.i - 1
           stack == st.scratch[l]
           moved == Front(stack)
           L == Len(stack) - 1
           merge == st.merge_into_idx
           null_idx == NullIdx(merge, Len(moved))
           a == IncrSum(st.incr_array, l)
           extra == st.all_full_incr + a - Last(stack).full
           first == Slot(t, merge - Len(moved))
           last == Slot(t, merge - 1)
           sm == Slot(t, merge)
           nslot == Slot(t, null_idx)
<1>1. operations' = [k \in DOMAIN operations |->
             IF k \in first..last THEN moved[sm - k]
             ELSE IF k = nslot THEN AddFull(operations[nslot], extra) ELSE operations[k]]
  BY DEF SplitOff
<1>2. /\ t.pc = "split" /\ t.seq.base \in Nat /\ t.split.i \in 1..(Branching - 1)
      /\ merge \in Int /\ IsStack(stack)
  <2>1. TaskInv(t, operations) /\ t.pc = "split"
    BY DEF TasksInv, SplitOff
  <2>2. RangeInv(t) /\ LoopInv(t, operations) /\ t.seq.base \in Nat
    BY <2>1 DEF TaskInv, ProjSequences
  <2>3. t.split.i \in 1..(Branching - 1)
    BY <2>2, BranchingAssumption DEF RangeInv
  <2> HIDE DEF t
  <2>4. l \in 0..(t.split.i - 1)
    BY <2>3
  <2> QED
    BY <2>1, <2>2, <2>3, <2>4 DEF LoopInv
<1>3. SlotsInv(t, operations) /\ LeftInv(t, t.seq.base + st.cur_idx, LeftEnd(t), operations, n, due)
  BY <1>2 DEF MeaningInv
<1> HIDE DEF t
<1>4. st.incr_array \in [0..(Branching - 1) -> Int] /\ st.all_full_incr \in Int
  BY <1>3 DEF SlotsInv
<1>5. StackInv(stack, Unseen(st, l), Partition(t.split, l), operations, t.seq.base,
               t.seq.base + st.cur_idx, n, due)
  <2>1. l \in 0..(t.split.i - 1)
    BY <1>2
  <2> QED
    BY <1>3, <2>1 DEF LeftInv
<1>6. Len(stack) \in Nat \ {0} /\ L \in Nat
  BY <1>2, SMTT(30) DEF IsStack
<1>7. Len(moved) = L /\ \A m \in 1..L : moved[m] = stack[m]
  BY <1>6 DEF Front
<1>8. \A m \in 1..L : OpInv(moved[m], n)
  BY <1>5, <1>7 DEF StackInv
<1>9. Last(stack).full \in Int
  BY <1>5, <1>6 DEF StackInv, Last
<1>10. a \in Int
  <2>1. l \in 0..(Branching - 2)
    BY <1>2, BranchingAssumption
  <2> HIDE DEF l, st
  <2> QED
    BY <1>4, <2>1, IncrementSeen
<1>11. extra \in Int
  <2> HIDE DEF a, st, stack
  <2> QED
    BY <1>4, <1>9, <1>10
<1>12. \A k \in first..last : sm - k \in 1..L
  <2>1. first = t.seq.base + (merge - L) /\ last = t.seq.base + (merge - 1) /\ sm = t.seq.base + merge
    BY <1>7 DEF Slot
  <2> DEFINE b == t.seq.base
  <2> HIDE DEF first, last, sm, L, merge, b
  <2>2. b \in Nat /\ merge \in Int /\ L \in Nat
    BY <1>2, <1>6 DEF L, merge, b
  <2>3. first = b + (merge - L) /\ last = b + (merge - 1) /\ sm = b + merge
    BY <2>1 DEF b
  <2> QED
    BY <2>2, <2>3
<1> HIDE DEF extra, moved, first, last, sm, nslot, L
<1>13. ASSUME NEW k \in DOMAIN operations PROVE OpInv(operations'[k], n)
  <2>1. OpInv(operations[k], n)
    BY DEF AllOps
  <2>2. CASE k \in first..last
    BY <1>1, <1>8, <1>12, <2>2
  <2>3. CASE k \notin first..last /\ k = nslot
    BY <1>1, <1>11, <2>1, <2>3, AddFullInv
  <2>4. CASE k \notin first..last /\ k # nslot
    BY <1>1, <2>1, <2>4
  <2> QED
    BY <2>2, <2>3, <2>4
<1>14. DOMAIN operations' = DOMAIN operations
  BY <1>1
<1> QED
  BY <1>13, <1>14 DEF AllOps

LEMMA TaskStepOps ==
    ASSUME TasksInv, NEW s \in DOMAIN tasks, TaskStep(s),
           NEW n \in Nat, NEW due, AllMean(tasks, operations, n, due), AllOps(operations, n)
    PROVE  AllOps(operations', n)
<1>1. MeaningInv(tasks[s], operations, n, due)
  BY DEF AllMean
<1>2. CASE operations' = operations
  BY <1>2
<1>3. CASE MergeBoundary(s)
  BY <1>3, MergeBoundaryOps
<1>4. CASE MovePostfixToScratch(s)
  BY <1>4, MovePostfixOps
<1>5. CASE KeepOnRight(s)
  BY <1>5, KeepOnRightOps
<1>6. CASE SplitOff(s)
  BY <1>1, <1>6, SplitOffOps
<1>7. CASE DoProjections(s) \/ ApplyOperation(s) \/ EndBaseCase(s)
  BY <1>2, <1>7 DEF DoProjections, ApplyOperation, EndBaseCase
<1> QED
  BY <1>3, <1>4, <1>5, <1>6, <1>7 DEF TaskStep

-----------------------------------------------------------------------------
(* What is due, and the histogram of what has been frozen                  *)

\* A step that freezes at most one request counts it.
LEMMA CountsStep ==
    ASSUME NEW due, IsFiniteSet(DOMAIN due), FreezesAtMostOne(due),
           \A p \in DOMAIN due : due[p] \in DOMAIN hits_vector,
           Counts(hits_vector, due, Live(tasks, operations, due))
    PROVE  /\ DOMAIN hits_vector' = DOMAIN hits_vector
           /\ Counts(hits_vector', due, Live(tasks', operations', due))
<1>1. CASE /\ hits_vector' = hits_vector
           /\ Live(tasks', operations', due) = Live(tasks, operations, due)
  BY <1>1
<1> DEFINE live == Live(tasks, operations, due)
           next == Live(tasks', operations', due)
<1>2. CASE \E p \in live : /\ p \in DOMAIN due
                           /\ hits_vector' = [hits_vector EXCEPT ![due[p]] = @ + 1]
                           /\ next = live \ {p}
  <2>1. PICK p \in live : /\ p \in DOMAIN due
                          /\ hits_vector' = [hits_vector EXCEPT ![due[p]] = @ + 1]
                          /\ next = live \ {p}
    BY <1>2
  <2> HIDE DEF live, next
  <2>2. DOMAIN hits_vector' = DOMAIN hits_vector
    BY <2>1
  <2>3. ASSUME NEW d \in DOMAIN hits_vector
        PROVE  hits_vector'[d] = Cardinality(FrozenAt(d, due, next))
    <3>1. hits_vector[d] = Cardinality(FrozenAt(d, due, live))
      BY DEF Counts, live
    <3>2. CASE d = due[p]
      <4>1. FrozenAt(d, due, next) = FrozenAt(d, due, live) \cup {p} /\ p \notin FrozenAt(d, due, live)
        BY <2>1, <3>2 DEF FrozenAt
      <4>2. IsFiniteSet(FrozenAt(d, due, live))
        <5>1. FrozenAt(d, due, live) \subseteq DOMAIN due
          BY DEF FrozenAt
        <5> QED
          BY <5>1, FS_Subset
      <4>3. Cardinality(FrozenAt(d, due, next)) = Cardinality(FrozenAt(d, due, live)) + 1
        BY <4>1, <4>2, FS_AddElement
      <4>4. hits_vector'[d] = hits_vector[d] + 1
        BY <2>1, <3>2
      <4> QED
        BY <3>1, <4>3, <4>4
    <3>3. CASE d # due[p]
      <4>1. FrozenAt(d, due, next) = FrozenAt(d, due, live)
        BY <2>1, <3>3 DEF FrozenAt
      <4>2. hits_vector'[d] = hits_vector[d]
        BY <2>1, <3>3
      <4> QED
        BY <3>1, <4>1, <4>2
    <3> QED
      BY <3>2, <3>3
  <2> QED
    BY <2>2, <2>3 DEF Counts, next
<1> QED
  BY <1>1, <1>2 DEF FreezesAtMostOne

-----------------------------------------------------------------------------
(* The operations of a call at its start                                   *)

LEMMA StartVector ==
    ASSUME NEW v, Log(v), Sorted(v), Len(v) \in Nat \ {0}
    PROVE  LET whole == UncompactedOperations(v)
               ops == Compact(whole)
           IN  \E kept : Squeezed(FromZero(ops), Len(ops), whole, Len(v), kept)
<1> DEFINE n == Len(v)
           trace_ == TraceOf(v)
           whole == UncompactedOperations(v)
           K == {k \in 1..Len(whole) : k = 1 \/ ~IsNull(whole[k])}
           kept == Ascending(K)
           f == [m \in 1..Len(kept) |-> whole[kept[m]]]
           ops == Compact(whole)
           c == Cardinality(K)
           N == 2 * n
           new == FromZero(ops)
<1>1. n \in Nat \ {0} /\ N \in Nat /\ Len(whole) = N /\ Slots(whole, trace_, n)
  BY LogElements, SlotsFromLog
<1>2. ops = Vector(f)
  BY DEF Compact
<1>3. \A k \in K : k \in Nat /\ 1 <= k /\ k <= N
  BY <1>1
<1>4. \A k \in 1..N : k \in K <=> k = 1 \/ ~IsNull(whole[k])
  BY <1>1
<1> HIDE DEF n, trace_, whole, K, kept, ops
<1>5. /\ c \in Nat
      /\ Len(kept) = c
      /\ \A m \in 1..c : kept[m] \in K
      /\ \A m \in 1..c : Rank(K, kept[m]) = m - 1
      /\ \A k \in Nat, j \in K : j < k => Rank(K, j) < Rank(K, k)
  <2> HIDE DEF N
  <2>1. /\ Cardinality(K) \in Nat
        /\ \A k \in Nat, j \in K : j < k => Rank(K, j) < Rank(K, k)
    BY <1>1, <1>3, RankProperties, Zenon
  <2>2. /\ Len(Ascending(K)) = Cardinality(K)
        /\ \A m \in 1..Cardinality(K) :
              Ascending(K)[m] \in K /\ Rank(K, Ascending(K)[m]) = m - 1
    BY <1>1, <1>3, AscendingProperties, Zenon
  <2> QED
    BY <2>1, <2>2 DEF kept
<1>6. \A k \in K : \E m \in 1..c : kept[m] = k
  BY <1>1, <1>3, KeptHasPlace DEF kept
<1> HIDE DEF c
<1>7. Len(ops) = c /\ \A m \in 1..c : ops[m] = whole[kept[m]]
  <2>1. f \in [1..c -> {f[m] : m \in 1..c}] /\ \A m \in 1..c : f[m] = whole[kept[m]]
    BY <1>5
  <2> HIDE DEF f
  <2>2. Vector(f) = f /\ Len(f) = c
    BY <1>5, <2>1, VectorOfFunction, ZenonT(60)
  <2> QED
    BY <1>2, <2>1, <2>2
<1>8. \A m \in 1..c : kept[m] \in 1..N /\ kept[m] \in Nat
  BY <1>3, <1>5
<1>9. 1 \in K
  <2>1. 1 \in 1..N
    BY <1>1 DEF N
  <2> QED
    BY <1>4, <2>1
<1>10. c # 0
  <2>1. \E m \in 1..c : kept[m] = 1
    BY <1>6, <1>9
  <2> QED
    BY <1>5, <2>1
<1>11. \A m \in 1..c : new[m - 1] = whole[kept[m]]
  <2> TAKE m \in 1..c
  <2>1. m - 1 \in 0..(Len(ops) - 1) /\ (m - 1) + 1 = m
    BY <1>5, <1>7
  <2>2. new[m - 1] = ops[(m - 1) + 1]
    BY <2>1 DEF FromZero
  <2> QED
    BY <1>7, <2>1, <2>2
<1> HIDE DEF new
<1>12. ASSUME NEW l \in 1..c, NEW m \in 1..c, l < m PROVE kept[l] < kept[m]
  <2>1. /\ kept[l] \in K /\ kept[m] \in K /\ kept[l] \in Nat /\ kept[m] \in Nat
        /\ Rank(K, kept[l]) = l - 1 /\ Rank(K, kept[m]) = m - 1
    BY <1>5, <1>8
  <2>2. CASE kept[l] = kept[m]
    BY <1>5, <1>12, <2>1, <2>2
  <2>3. CASE kept[m] < kept[l]
    <3>1. Rank(K, kept[m]) < Rank(K, kept[l])
      BY <1>5, <2>1, <2>3
    <3> QED
      BY <1>5, <1>12, <2>1, <3>1
  <2> QED
    BY <2>1, <2>2, <2>3
<1>13. ASSUME NEW m \in 2..c PROVE ~IsNull(whole[kept[m]])
  <2>1. m \in 1..c /\ 1 \in 1..c /\ 1 < m
    BY <1>5
  <2>2. kept[1] < kept[m] /\ kept[1] \in 1..N /\ kept[m] \in K /\ kept[m] \in 1..N
    BY <1>5, <1>8, <1>12, <2>1
  <2>3. kept[m] # 1
    BY <1>1, <2>2
  <2> QED
    BY <1>4, <2>2, <2>3
<1>14. \A k \in 1..N : whole[k].full \in Int
  BY <1>1, KindsOfSlots
<1>15. ASSUME NEW j \in 1..n
       PROVE  \A m \in 1..c : Adds(new, 0, m - 1, j) = SumFunctionOnSet(Effects(whole, N, j), 1..kept[m])
  <2> DEFINE h == Effects(whole, N, j)
             g == [m \in 1..c |-> Whole(new[m - 1], j)]
  <2>1. \A k \in 1..N : h[k] = Whole(whole[k], j)
    BY DEF Effects
  <2>2. \A m \in 1..c : g[m] = h[kept[m]]
    BY <1>8, <1>11, <2>1
  <2>3. \A m \in 1..c : g[m] = Whole(new[m - 1], j)
    OBVIOUS
  <2> HIDE DEF g, h
  <2>4. \A k \in 1..N : h[k] \in Int
    BY <1>1, <2>1, SlotsUpTo
  <2>5. \A k \in 1..N : k \notin K => h[k] = 0
    BY <1>1, <1>4, <2>1, KindsOfSlots
  <2>6. \A m \in 1..c : SumFunctionOnSet(g, 1..m) = SumFunctionOnSet(h, 1..kept[m])
    <3>1. LeavesOutZeros(N, K, h, g)
      BY <1>1, <1>3, <2>2, <2>4, <2>5 DEF kept, c, LeavesOutZeros
    <3> HIDE DEF N
    <3>2. \A l \in 1..Cardinality(K) :
             SumFunctionOnSet(g, 1..l) = SumFunctionOnSet(h, 1..Ascending(K)[l])
      BY <3>1, SumOfKept
    <3> QED
      BY <3>2 DEF kept, c
  <2>7. Summable(new, 0, c - 1)
    <3>1. ASSUME NEW k \in 0..(c - 1) PROVE new[k].full \in Int
      <4>1. k + 1 \in 1..c /\ (k + 1) - 1 = k
        BY <1>5
      <4>2. new[k] = whole[kept[k + 1]] /\ kept[k + 1] \in 1..N
        BY <1>8, <1>11, <4>1
      <4> QED
        BY <1>14, <4>2
    <3> QED
      BY <1>5, <3>1 DEF Summable
  <2>8. \A m \in 0..c : Adds(new, 0, m - 1, j) = SumFunctionOnSet(g, 1..m)
    BY <1>5, <2>3, <2>7, AddsFromZero
  <2> QED
    BY <1>5, <2>6, <2>8 DEF h
<1>16. Squeezed(new, c, whole, n, kept)
  <2>1. \A k \in 1..N : ~IsNull(whole[k]) => \E m \in 1..c : kept[m] = k
    BY <1>4, <1>6
  <2> QED
    BY <1>5, <1>8, <1>10, <1>11, <1>12, <1>13, <1>14, <1>15, <2>1 DEF Squeezed
<1> QED
  BY <1>7, <1>16 DEF new, n, whole, ops

-----------------------------------------------------------------------------
(* The invariant of the operations is inductive                            *)

LEMMA UncompactedDomain ==
    ASSUME NEW v, Log(v)
    PROVE  DOMAIN UncompactedOperations(v) = 1..(2 * Len(v))
<1> DEFINE n == Len(v)
           Writer(k) == {i \in 1..n : (k + 1) \div 2 = v[i].access_number}
           Slot_(k, i) ==
               IF k % 2 = 1
               THEN PrefixOp(v[i].access_number - 1,
                             IF FollowsSameAddr(v, i) THEN -1 ELSE 0)
               ELSE IF FollowsSameAddr(v, i)
                    THEN PostfixOp(v[i-1].access_number)
                    ELSE NoImpact
           f == [k \in 1..2*n |->
                    IF Writer(k) = {} THEN NoImpact
                    ELSE Slot_(k, CHOOSE i \in Writer(k) : TRUE)]
<1>1. n \in Nat /\ 2 * n \in Nat
  BY LenProperties DEF Log
<1>2. UncompactedOperations(v) = Vector(f)
  BY DEF UncompactedOperations
<1> HIDE DEF Writer, Slot_, n
<1>3. f \in [1..2*n -> {f[k] : k \in 1..2*n}] /\ DOMAIN f = 1..2*n
  OBVIOUS
<1> HIDE DEF f
<1>4. Vector(f) = f
  BY <1>1, <1>3, VectorOfFunction
<1> QED
  BY <1>2, <1>3, <1>4 DEF n

LEMMA InitHInv == Init => HInv
<1> SUFFICES ASSUME Init PROVE HInv
  OBVIOUS
<1>1. PICK n \in 1..MaxRequests : trace \in [1..n -> Addr]
  BY DEF Init, Traces
<1>2. n \in Nat \ {0} /\ trace \in [1..n -> Nat] /\ Len(trace) = n /\ n <= MaxRequests
  <2>1. Addr \subseteq Nat /\ MaxRequests \in Nat
    BY AddrAssumption, MaxRequestsAssumption
  <2>2. n \in Nat \ {0} /\ n <= MaxRequests
    BY <2>1
  <2>3. trace \in [1..n -> Nat]
    BY <1>1, <2>1
  <2> QED
    BY <2>2, <2>3
<1>3. requests = [i \in 1..n |-> [addr |-> trace[i], access_number |-> i]]
  BY <1>2 DEF Init, RequestVector
<1>4. Log(requests) /\ Len(requests) = n
  BY <1>2, <1>3, NumberedByPlace
<1>5. TraceOf(requests) = trace
  <2>1. /\ TraceOf(requests) \in [1..n -> Nat]
        /\ \A i \in 1..n : TraceOf(requests)[requests[i].access_number] = requests[i].addr
    BY <1>4, TraceOfLog
  <2>2. \A i \in 1..n : TraceOf(requests)[i] = trace[i]
    BY <1>3, <2>1
  <2> QED
    BY <1>2, <2>1, <2>2
<1>6. /\ phase = "called" /\ DOMAIN operations = {} /\ DOMAIN hits_vector = {}
  BY DEF Init
<1> QED
  BY <1>2, <1>4, <1>5, <1>6 DEF HInv

LEMMA SortRequestsHInv ==
    ASSUME IInv, HInv, SortRequests
    PROVE  HInv'
<1>1. /\ phase = "called" /\ phase' = "sorted"
      /\ trace' = trace /\ tasks' = tasks /\ operations' = operations
      /\ hits_vector' = hits_vector /\ requests' = SortedRequests(requests)
  BY DEF SortRequests
<1>2. Log(requests)
  BY DEF IInv
<1>3. Len(requests') = Len(requests) /\ Sorted(requests')
  BY <1>1, <1>2, SortedLog DEF Sorted
<1>4. TraceOf(requests') = TraceOf(requests)
  BY <1>1, <1>2, SortedTrace
<1> QED
  BY <1>1, <1>3, <1>4 DEF HInv

LEMMA BuildOperationsHInv ==
    ASSUME IInv, HInv, BuildOperations
    PROVE  HInv'
<1>1. /\ phase = "sorted" /\ phase' = "built"
      /\ trace' = trace /\ tasks' = tasks /\ requests' = requests
      /\ hits_vector' = hits_vector /\ operations' = UncompactedOperations(requests)
  BY DEF BuildOperations
<1> DEFINE n == Len(trace)
<1>2. /\ Log(requests) /\ Sorted(requests) /\ n \in Nat /\ Len(requests) = n
      /\ TraceOf(requests) = trace
  BY <1>1 DEF IInv, HInv
<1>3. DOMAIN operations' = 1..(2 * n)
  BY <1>1, <1>2, UncompactedDomain
<1>4. Slots(operations', trace, n)
  BY <1>1, <1>2, SlotsFromLog
<1> HIDE DEF n
<1>5. \A k \in DOMAIN operations' : OpInv(operations'[k], n)
  BY <1>2, <1>3, <1>4, SlotOp
<1> QED
  BY <1>1, <1>5 DEF HInv, n

\* The histogram has room for every distance.
LEMMA DuesAreSmall ==
    ASSUME NEW v, Log(v), Sorted(v)
    PROVE  /\ UniqueIds(v) \in Nat
           /\ \A p \in DOMAIN Due(TraceOf(v)) : Due(TraceOf(v))[p] \in 1..UniqueIds(v)
<1> DEFINE tr == TraceOf(v)
<1>1. Len(tr) \in Nat
  BY TraceOfLog
<1>2. /\ IsFiniteSet(Addresses(tr)) /\ UniqueIds(v) = Cardinality(Addresses(tr))
      /\ UniqueIds(v) \in Nat
  BY UniqueIdsAreAddresses
<1> HIDE DEF tr
<1>3. ASSUME NEW p \in DOMAIN Due(tr) PROVE Due(tr)[p] \in 1..UniqueIds(v)
  <2>1. PICK i \in Repeats(tr) : p = PreviousAccess(tr, i)
    BY <1>1, DueProperties
  <2>2. Due(tr)[p] = Distance(tr, i)
    BY <1>1, <2>1, DueProperties
  <2>3. i \in 1..Len(tr) /\ IsRepeat(tr, i)
    BY DEF Repeats
  <2> QED
    BY <1>1, <1>2, <2>2, <2>3, DistancesAreSmall
<1> QED
  BY <1>2, <1>3 DEF tr

LEMMA StartProjectionsHInv ==
    ASSUME IInv, HInv, StartProjections
    PROVE  HInv'
<1> DEFINE n == Len(trace)
           whole == UncompactedOperations(requests)
           c == Len(Compact(whole))
           seq == ProjSequence(1, n, 0, c)
           t == NewTask(seq)
           due == Due(trace)
<1>1. /\ phase = "built" /\ phase' = "projecting"
      /\ trace' = trace /\ requests' = requests
      /\ operations' = FromZero(Compact(operations))
      /\ hits_vector' = [d \in 0..UniqueIds(requests) |-> 0]
      /\ tasks' = [s \in {1} |-> NewTask(ProjSequence(1, Len(requests), 0,
                                                      Len(Compact(operations))))]
  BY DEF StartProjections
<1>2. /\ Log(requests) /\ Sorted(requests) /\ n \in Nat \ {0} /\ Len(requests) = n
      /\ TraceOf(requests) = trace
      /\ operations = whole
  BY <1>1 DEF IInv, HInv
<1>3. operations' = FromZero(Compact(whole)) /\ tasks' = [s \in {1} |-> t]
  BY <1>1, <1>2
<1>4. PICK kept : Squeezed(operations', c, whole, n, kept)
  <2>1. \E kept : Squeezed(FromZero(Compact(whole)), Len(Compact(whole)), whole, Len(requests), kept)
    BY <1>2, StartVector
  <2> QED
    BY <1>2, <1>3, <2>1
<1>5. Slots(whole, trace, n)
  BY <1>2, SlotsFromLog
<1>6. DOMAIN operations' = 0..(c - 1)
  BY <1>3 DEF FromZero
<1> HIDE DEF whole, c
<1>7. Starts(operations', c, whole, n, trace, kept)
  BY <1>2, <1>4, <1>5 DEF Starts
<1> HIDE DEF n
<1>8. Projected(operations', 0, c - 1, 1, n, n, due)
  BY <1>7, StartProjected
<1>9. c \in Nat \ {0} /\ \A k \in 0..(c - 1) : OpInv(operations'[k], n)
  BY <1>7, StartOps
<1>10. /\ seq.start = 1 /\ seq.end = n /\ seq.base = 0 /\ seq.num_ops = c
       /\ t.pc = "do_projections" /\ t.seq = seq
  BY DEF ProjSequence, NewTask
<1> HIDE DEF t, seq
<1>11. MeaningInv(t, operations', n, due)
  <2>1. 0 + c - 1 = c - 1 /\ n <= n
    BY <1>2, <1>9
  <2> QED
    BY <1>8, <1>10, <2>1 DEF MeaningInv
<1>12. DOMAIN tasks' = {1} /\ tasks'[1] = t
  BY <1>3
<1>13. \A s \in DOMAIN tasks' : MeaningInv(tasks'[s], operations', n, due)
  BY <1>11, <1>12
<1>14. Live(tasks', operations', due) = DOMAIN due
  <2>1. Unfrozen(t, operations', due) = DOMAIN due \cap 1..n
    BY <1>10 DEF Unfrozen
  <2>2. DOMAIN due \subseteq 1..n
    BY <1>2, DueProperties DEF n
  <2> QED
    BY <1>12, <2>1, <2>2 DEF Live
<1> HIDE DEF due
<1>15. Counts(hits_vector', due, Live(tasks', operations', due))
  <2>1. \A d : FrozenAt(d, due, DOMAIN due) = {}
    BY DEF FrozenAt
  <2>2. \A d \in DOMAIN hits_vector' : hits_vector'[d] = 0
    BY <1>1
  <2>3. Cardinality({}) = 0
    BY FS_EmptySet
  <2> QED
    BY <1>14, <2>1, <2>2, <2>3 DEF Counts
<1>16. DOMAIN hits_vector' = 0..UniqueIds(requests)
  BY <1>1
<1> QED
  BY <1>1, <1>2, <1>6, <1>9, <1>13, <1>15, <1>16 DEF HInv, n, due

LEMMA TaskStepHInv ==
    ASSUME IndexesFit, IInv, HInv, NEW s \in DOMAIN tasks, TaskStep(s)
    PROVE  HInv'
<1> DEFINE n == Len(trace)
           due == Due(trace)
<1>1. /\ phase' = phase /\ requests' = requests /\ trace' = trace
  BY DEF TaskStep, DoProjections, MergeBoundary, MovePostfixToScratch,
         KeepOnRight, SplitOff, ApplyOperation, EndBaseCase
<1>2. phase = "projecting"
  <2>1. DOMAIN tasks # {}
    OBVIOUS
  <2> QED
    BY <2>1 DEF IInv, HInv
<1>3. TasksInv /\ Log(requests) /\ Sorted(requests) /\ trace = TraceOf(requests)
  BY <1>2 DEF IInv, HInv
<1>4. n \in Nat /\ 2 * n <= 2^(IntBits - 1)
  <2>1. n \in Nat /\ n <= MaxRequests
    BY DEF HInv
  <2>2. 2^(IntBits - 1) \in Nat
    BY PowersOfInt
  <2> QED
    BY <2>1, <2>2, MaxRequestsAssumption DEF IndexesFit
<1>5. AllMean(tasks, operations, n, due) /\ AllOps(operations, n)
  BY <1>2 DEF HInv, AllMean, AllOps
<1>6. AllMean(tasks', operations', n, due) /\ FreezesAtMostOne(due)
  BY <1>3, <1>4, <1>5, TaskStepMean
<1>7. AllOps(operations', n)
  BY <1>3, <1>4, <1>5, TaskStepOps
<1>8. IsFiniteSet(DOMAIN due)
  BY <1>4, DueProperties
<1>9. /\ DOMAIN hits_vector = 0..UniqueIds(requests)
      /\ Counts(hits_vector, due, Live(tasks, operations, due))
  BY <1>2 DEF HInv
<1>10. \A p \in DOMAIN due : due[p] \in DOMAIN hits_vector
  <2>1. /\ UniqueIds(requests) \in Nat
        /\ \A p \in DOMAIN due : due[p] \in 1..UniqueIds(requests)
    BY <1>3, DuesAreSmall
  <2>2. 1..UniqueIds(requests) \subseteq 0..UniqueIds(requests)
    BY <2>1
  <2> QED
    BY <1>9, <2>1, <2>2
<1> HIDE DEF n, due
<1>11. /\ DOMAIN hits_vector' = DOMAIN hits_vector
       /\ Counts(hits_vector', due, Live(tasks', operations', due))
  BY <1>6, <1>8, <1>9, <1>10, CountsStep
<1> QED
  BY <1>1, <1>2, <1>6, <1>7, <1>9, <1>11 DEF HInv, n, due, AllMean, AllOps

LEMMA NextKeepsHInv ==
    ASSUME IndexesFit, IInv, HInv, [Next]_vars
    PROVE  HInv'
<1>1. CASE Populate
  BY <1>1, SortRequestsHInv, BuildOperationsHInv DEF Populate
<1>2. CASE StartProjections
  BY <1>2, StartProjectionsHInv
<1>3. CASE \E s \in DOMAIN tasks : TaskStep(s)
  BY <1>3, TaskStepHInv
<1>4. CASE Return
  <2>1. /\ phase = "projecting" /\ phase' = "returned" /\ DOMAIN tasks = {}
        /\ trace' = trace /\ tasks' = tasks /\ operations' = operations
        /\ requests' = requests /\ hits_vector' = hits_vector
    BY <1>4 DEF Return
  <2> QED
    BY <2>1 DEF HInv
<1>5. CASE UNCHANGED vars
  BY <1>5 DEF vars, HInv
<1> QED
  BY <1>1, <1>2, <1>3, <1>4, <1>5 DEF Next

LEMMA HistogramInvariant ==
    ASSUME IndexesFit
    PROVE  Spec => [](IInv /\ HInv)
<1>1. Init => IInv /\ HInv
  BY InitIInv, InitHInv
<1>2. IInv /\ HInv /\ [Next]_vars => IInv' /\ HInv'
  BY NextKeepsInv, NextKeepsHInv
<1> QED
  BY <1>1, <1>2, PTL DEF Spec

-----------------------------------------------------------------------------
(* What follows from the invariant of the operations                       *)

\* What it says of one task.
LEMMA TaskOfCall ==
    ASSUME IInv, HInv, NEW s \in DOMAIN tasks
    PROVE  /\ phase = "projecting" /\ Len(trace) \in Nat
           /\ TasksInv /\ TaskInv(tasks[s], operations) /\ tasks[s].seq.start = s
           /\ MeaningInv(tasks[s], operations, Len(trace), Due(trace))
           /\ Log(requests) /\ Sorted(requests) /\ trace = TraceOf(requests)
           /\ DOMAIN hits_vector = 0..UniqueIds(requests)
<1>1. phase = "projecting"
  <2>1. DOMAIN tasks # {}
    OBVIOUS
  <2> QED
    BY <2>1 DEF IInv, HInv
<1> QED
  BY <1>1 DEF IInv, HInv, TasksInv

\* The slots of a task.
LEMMA SlotsOfTask ==
    ASSUME NEW t, NEW ops, TaskInv(t, ops), NEW n \in Nat, NEW due, MeaningInv(t, ops, n, due)
    PROVE  LET lo == t.seq.base
               hi == lo + t.seq.num_ops - 1
           IN  /\ lo \in Nat /\ hi \in Nat /\ lo <= hi /\ t.seq.num_ops \in Nat \ {0}
               /\ hi - lo + 1 = t.seq.num_ops
               /\ Region(t) = lo..hi
               /\ t.seq.start \in Nat \ {0} /\ t.seq.end \in Nat
               /\ t.seq.start <= t.seq.end /\ t.seq.end <= n
               /\ IsNull(ops[lo])
               /\ t.pc \in {"do_projections", "base_case"} =>
                     Projected(ops, lo, hi, t.seq.start, t.seq.end, n, due)
<1>1. /\ t.seq.base \in Nat /\ t.seq.num_ops \in Nat \ {0}
      /\ t.seq.start \in Nat \ {0} /\ t.seq.end \in Nat /\ t.seq.start <= t.seq.end
      /\ IsNull(ops[t.seq.base])
  BY DEF TaskInv, ProjSequences
<1>2. /\ t.seq.end <= n
      /\ t.pc \in {"do_projections", "base_case"} =>
            Projected(ops, t.seq.base, t.seq.base + t.seq.num_ops - 1, t.seq.start, t.seq.end, n, due)
  BY DEF MeaningInv
<1>3. Region(t) = t.seq.base..(t.seq.base + t.seq.num_ops - 1)
  BY DEF Region
<1> QED
  BY <1>1, <1>2, <1>3

LEMMA InvTypeOK == IInv /\ HInv => TypeOK
<1> SUFFICES ASSUME IInv, HInv PROVE TypeOK
  OBVIOUS
<1> DEFINE n == Len(trace)
           due == Due(trace)
<1>1. n \in Nat
  BY DEF HInv
<1>2. \A k \in DOMAIN operations :
         /\ operations[k].type \in {"Prefix", "Postfix", "Null"}
         /\ operations[k].target \in 0..n
         /\ operations[k].full \in Int
         /\ operations[k].type = "Null" <=> operations[k].target = 0
  BY DEF HInv, OpInv
<1>3. ASSUME NEW d \in DOMAIN hits_vector PROVE hits_vector[d] \in 0..n
  <2> DEFINE F == FrozenAt(d, due, Live(tasks, operations, due))
  <2>1. phase \in {"projecting", "returned"}
    BY <1>3 DEF HInv, IInv
  <2>2. hits_vector[d] = Cardinality(F)
    BY <2>1 DEF HInv, Counts
  <2>3. F \subseteq 1..n
    BY <1>1, DueProperties DEF FrozenAt
  <2>4. IsFiniteSet(1..n) /\ Cardinality(1..n) = n
    <3> HIDE DEF n
    <3>1. 1 \in Int /\ n \in Int /\ (1 > n => n = 0) /\ n - 1 + 1 = n
      BY <1>1
    <3>2. IsFiniteSet(1..n) /\ Cardinality(1..n) = IF 1 > n THEN 0 ELSE n - 1 + 1
      BY <3>1, FS_Interval, Zenon
    <3> QED
      BY <3>1, <3>2
  <2> HIDE DEF F
  <2>5. IsFiniteSet(F) /\ Cardinality(F) <= n
    BY <2>3, <2>4, FS_Subset
  <2>6. Cardinality(F) \in Nat
    BY <2>5, FS_CardinalityType
  <2> QED
    BY <1>1, <2>2, <2>5, <2>6
<1>4. ASSUME NEW s \in DOMAIN tasks
      PROVE  /\ tasks[s].pc \in {"do_projections", "partition", "split", "base_case"}
             /\ tasks[s].seq.start = s
             /\ s <= tasks[s].seq.end /\ tasks[s].seq.end <= n
             /\ Region(tasks[s]) \subseteq DOMAIN operations
  <2>1. /\ TaskInv(tasks[s], operations) /\ tasks[s].seq.start = s
        /\ MeaningInv(tasks[s], operations, n, due)
    BY TaskOfCall
  <2> QED
    BY <2>1 DEF TaskInv, MeaningInv
<1>5. phase \in {"called", "sorted", "built", "projecting", "returned"}
  BY DEF IInv
<1> QED
  BY <1>2, <1>3, <1>4, <1>5 DEF TypeOK

LEMMA InvBoundaryIsFound == IInv /\ HInv => BoundaryIsFound
<1> SUFFICES ASSUME IInv, HInv, NEW s \in DOMAIN tasks, Partitioning(s)
             PROVE  tasks[s].split.state.cur_idx >= 0
  BY DEF BoundaryIsFound
<1>1. MeaningInv(tasks[s], operations, Len(trace), Due(trace))
  BY TaskOfCall
<1>2. tasks[s].split.state.cur_idx \in Nat
  BY <1>1 DEF MeaningInv, SlotsInv, Partitioning
<1> QED
  BY <1>2

LEMMA InvScratchFitsFreedSlots == IInv /\ HInv => ScratchFitsFreedSlots
<1> SUFFICES ASSUME IInv, HInv, NEW s \in DOMAIN tasks, Partitioning(s)
             PROVE  LET st == tasks[s].split.state
                    IN  /\ st.merge_into_idx < tasks[s].seq.num_ops
                        /\ st.merge_into_idx - st.cur_idx
                             = Pending(tasks[s]) + (IF tasks[s].pc = "split" THEN 1 ELSE 0)
  BY DEF ScratchFitsFreedSlots
<1>1. /\ TaskInv(tasks[s], operations)
      /\ MeaningInv(tasks[s], operations, Len(trace), Due(trace))
  BY TaskOfCall
<1>2. SlotsInv(tasks[s], operations) /\ LoopInv(tasks[s], operations)
  BY <1>1 DEF MeaningInv, TaskInv, Partitioning
<1> QED
  BY <1>2 DEF SlotsInv, LoopInv

LEMMA InvProjectionsAreSmall == IInv /\ HInv => ProjectionsAreSmall
<1> SUFFICES ASSUME IInv, HInv, NEW s \in DOMAIN tasks, tasks[s].pc = "do_projections"
             PROVE  tasks[s].seq.num_ops <= 2 * Size(tasks[s].seq)
  BY DEF ProjectionsAreSmall
<1> DEFINE t == tasks[s]
           n == Len(trace)
           due == Due(trace)
           lo == t.seq.base
           hi == lo + t.seq.num_ops - 1
<1>1. /\ n \in Nat /\ TaskInv(t, operations) /\ MeaningInv(t, operations, n, due)
  BY TaskOfCall
<1> HIDE DEF t, n, due
<1>2. /\ lo \in Int /\ hi \in Int /\ lo <= hi /\ hi - lo + 1 = t.seq.num_ops
      /\ t.seq.start \in Int /\ t.seq.end \in Int /\ t.seq.start <= t.seq.end
      /\ IsNull(operations[lo])
      /\ Projected(operations, lo, hi, t.seq.start, t.seq.end, n, due)
  <2>1. t.pc = "do_projections"
    BY DEF t
  <2> QED
    BY <1>1, <2>1, SlotsOfTask
<1> HIDE DEF lo, hi
<1>3. operations[lo].type = "Null"
  <2>1. OpInv(operations[lo], n)
    BY <1>2 DEF Projected, Coherent
  <2> QED
    BY <1>2, <2>1 DEF OpInv, IsNull
<1>4. hi - lo + 1 <= 2 * (t.seq.end - t.seq.start + 1)
  BY <1>1, <1>2, <1>3, ProjectedSize
<1> QED
  BY <1>2, <1>4 DEF Size, t

LEMMA InvHitsAreStackDistances == IInv /\ HInv => HitsAreStackDistances
<1> SUFFICES ASSUME IInv, HInv, NEW d \in DOMAIN hits_vector
             PROVE  /\ hits_vector[d] <= AtDistance(trace, d)
                    /\ phase = "returned" => hits_vector[d] = AtDistance(trace, d)
  BY DEF HitsAreStackDistances
<1> DEFINE due == Due(trace)
           live == Live(tasks, operations, due)
           F == FrozenAt(d, due, live)
           A == FrozenAt(d, due, {})
<1>1. Len(trace) \in Nat /\ phase \in {"projecting", "returned"}
  BY DEF HInv, IInv
<1>2. hits_vector[d] = Cardinality(F)
  BY <1>1 DEF HInv, Counts
<1>3. IsFiniteSet(A) /\ Cardinality(A) = AtDistance(trace, d)
  BY <1>1, DueAtDistance
<1>4. F \subseteq A
  BY DEF FrozenAt
<1>5. phase = "returned" => F = A
  <2>1. phase = "returned" => live = {}
    BY DEF HInv, Live
  <2> QED
    BY <2>1
<1> HIDE DEF F, A
<1>6. Cardinality(F) <= Cardinality(A)
  BY <1>3, <1>4, FS_Subset
<1> QED
  BY <1>2, <1>3, <1>5, <1>6

\* The distance that a Postfix freezes is what the operations before it add,
\* and 1.
LEMMA FrozenIsAdds ==
    ASSUME NEW ops, NEW lo \in Int, NEW k \in Int, lo <= k, Summable(ops, lo, k),
           NEW t \in Int, ops[k].target = t, ops[k].type = "Postfix"
    PROVE  FrozenDistance(ops, lo, k) = Adds(ops, lo, k - 1, t) + 1
<1> DEFINE e == [m \in lo..k |-> Effect(ops[m], t)]
           f == [m \in lo..(k - 1) |-> ops[m].full]
           g == Terms(ops, lo, k - 1, t)
           D == lo..k
           E == lo..(k - 1)
<1>1. FrozenDistance(ops, lo, k) = SumFunctionOnSet(e, D) + SumFunctionOnSet(f, E)
  <2>1. FrozenDistance(ops, lo, k) = SumFunction(e) + SumFunction(f)
    BY DEF FrozenDistance
  <2>2. SumFunction(e) = SumFunctionOnSet(e, D) /\ SumFunction(f) = SumFunctionOnSet(f, E)
    BY Zenon DEF SumFunction
  <2> QED
    BY <2>1, <2>2
<1>2. /\ IsFiniteSet(D) /\ IsFiniteSet(E) /\ k \in D /\ D \ {k} = E
      /\ \A m \in E : m \in D
  <2>1. IsFiniteSet(D) /\ IsFiniteSet(E)
    BY FS_Interval
  <2>2. k \in D /\ \A m : m \in E <=> m \in D /\ m # k
    OBVIOUS
  <2> HIDE DEF D, E
  <2>3. D \ {k} = E
    BY <2>2
  <2> QED
    BY <2>1, <2>2, <2>3
<1>3. \A m \in D : e[m] = Effect(ops[m], t) /\ e[m] \in Int
  BY DEF Effect, IncAmnt
<1>4. \A m \in E : /\ f[m] = ops[m].full /\ f[m] \in Int
                   /\ g[m] = Effect(ops[m], t) + ops[m].full
  BY <1>2 DEF Terms, Whole, Summable
<1>5. e[k] = 1
  BY <1>2, <1>3 DEF Effect, IncAmnt
<1>6. Adds(ops, lo, k - 1, t) = SumFunctionOnSet(g, E)
  BY DEF Adds
<1> HIDE DEF e, f, g, D, E
<1>7. \A m \in E : e[m] \in Int /\ f[m] \in Int /\ g[m] = e[m] + f[m]
  BY <1>2, <1>3, <1>4
<1>8. SumFunctionOnSet(g, E) = SumFunctionOnSet(e, E) + SumFunctionOnSet(f, E)
  BY <1>2, <1>7, SumOfSums
<1>9. SumFunctionOnSet(e, D) = e[k] + SumFunctionOnSet(e, E)
  BY <1>2, <1>3, SumRest
<1>10. SumFunctionOnSet(e, E) \in Int /\ SumFunctionOnSet(f, E) \in Int
  BY <1>2, <1>7, SumType
<1> QED
  BY <1>1, <1>5, <1>6, <1>8, <1>9, <1>10

\* The Postfixes of a sequence that is not being partitioned.
LEMMA ProjectedPostfixes ==
    ASSUME NEW ops, NEW lo \in Int, NEW hi \in Int, NEW start, NEW end,
           NEW n \in Nat, NEW due, Projected(ops, lo, hi, start, end, n, due)
    PROVE  /\ \A k \in lo..hi : ops[k].type = "Postfix" =>
                 /\ ops[k].target \in DOMAIN due \cap start..end
                 /\ FrozenDistance(ops, lo, k) = due[ops[k].target]
           /\ \A p \in DOMAIN due \cap start..end :
                 \E k \in lo..hi : ops[k].type = "Postfix" /\ ops[k].target = p
           /\ \A k, l \in lo..hi :
                 /\ ops[k].type = "Postfix" /\ ops[l].type = "Postfix"
                 /\ ops[k].target = ops[l].target
                 => k = l
<1>1. Coherent(ops, lo, hi, n, due)
  BY DEF Projected
<1>2. Targets(ops, lo, hi, "Postfix") = DOMAIN due \cap start..end
  BY DEF Projected
<1>3. ASSUME NEW k \in lo..hi, ops[k].type = "Postfix"
      PROVE  /\ ops[k].target \in DOMAIN due \cap start..end
             /\ FrozenDistance(ops, lo, k) = due[ops[k].target]
  <2>1. ops[k].target \in DOMAIN due \cap start..end
    BY <1>2, <1>3 DEF Targets
  <2>2. Summable(ops, lo, k)
    BY <1>1 DEF Coherent, OpInv, Summable
  <2>3. ops[k].target \in Int
    BY <1>1 DEF Coherent, OpInv
  <2>4. Adds(ops, lo, k - 1, ops[k].target) + 1 = due[ops[k].target]
    BY <1>1, <1>3 DEF Coherent
  <2>5. k \in Int /\ lo <= k
    OBVIOUS
  <2>6. FrozenDistance(ops, lo, k) = Adds(ops, lo, k - 1, ops[k].target) + 1
    BY <1>3, <2>2, <2>3, <2>5, FrozenIsAdds
  <2> QED
    BY <2>1, <2>4, <2>6
<1>4. ASSUME NEW p \in DOMAIN due \cap start..end
      PROVE  \E k \in lo..hi : ops[k].type = "Postfix" /\ ops[k].target = p
  BY <1>2 DEF Targets
<1>5. \A k, l \in lo..hi :
         /\ ops[k].type = "Postfix" /\ ops[l].type = "Postfix"
         /\ ops[k].target = ops[l].target
         => k = l
  BY <1>1 DEF Coherent
<1> QED
  BY <1>3, <1>4, <1>5

\* The next access of a request is the one that is due.
LEMMA NextAccesses ==
    ASSUME NEW tr, Len(tr) \in Nat, NEW p
    PROVE  LET N == {i \in Repeats(tr) : PreviousAccess(tr, i) = p}
           IN  /\ p \in DOMAIN Due(tr) => \E i : N = {i}
               /\ p \notin DOMAIN Due(tr) => N = {}
               /\ \A i \in N : Due(tr)[p] = Distance(tr, i)
<1> DEFINE N == {i \in Repeats(tr) : PreviousAccess(tr, i) = p}
<1>1. ASSUME NEW i \in N PROVE p \in DOMAIN Due(tr) /\ Due(tr)[p] = Distance(tr, i)
  BY DueProperties
<1>2. ASSUME p \in DOMAIN Due(tr) PROVE \E i : N = {i}
  <2>1. PICK i \in Repeats(tr) : p = PreviousAccess(tr, i)
    BY <1>2, DueProperties
  <2>2. \A j \in N : j = i
    BY <2>1, NextAccessIsOne
  <2>3. i \in N
    BY <2>1
  <2>4. N = {i}
    BY <2>2, <2>3
  <2> QED
    BY <2>4
<1> QED
  BY <1>1, <1>2

LEMMA InvProjectionsPreserveDistances == IInv /\ HInv => ProjectionsPreserveDistances
<1> DEFINE NextAccess(p) == {i \in Repeats(trace) : PreviousAccess(trace, i) = p}
<1> SUFFICES ASSUME IInv, HInv, NEW s \in DOMAIN tasks, tasks[s].pc = "do_projections"
             PROVE  LET t == tasks[s]
                    IN  /\ \A p \in t.seq.start..t.seq.end :
                              Cardinality({k \in PostfixIn(t) : operations[k].target = p})
                                 = Cardinality(NextAccess(p))
                        /\ \A k \in PostfixIn(t) : \A i \in NextAccess(operations[k].target) :
                              FrozenDistance(operations, t.seq.base, k) = Distance(trace, i)
  BY DEF ProjectionsPreserveDistances
<1> DEFINE t == tasks[s]
           n == Len(trace)
           due == Due(trace)
           lo == t.seq.base
           hi == lo + t.seq.num_ops - 1
           P == PostfixIn(t)
<1>1. /\ n \in Nat /\ TaskInv(t, operations) /\ MeaningInv(t, operations, n, due)
      /\ t.pc = "do_projections"
  BY TaskOfCall
<1>2. P = {k \in Region(t) : operations[k].type = "Postfix"}
  BY DEF PostfixIn
<1>3. \A p : /\ p \in DOMAIN due => \E i : NextAccess(p) = {i}
             /\ p \notin DOMAIN due => NextAccess(p) = {}
             /\ \A i \in NextAccess(p) : due[p] = Distance(trace, i)
  BY <1>1, NextAccesses
<1> HIDE DEF t, n, due, P, NextAccess
<1>4. /\ lo \in Int /\ hi \in Int /\ Region(t) = lo..hi
      /\ Projected(operations, lo, hi, t.seq.start, t.seq.end, n, due)
  BY <1>1, SlotsOfTask
<1> HIDE DEF lo, hi
<1>5. /\ \A k \in P : /\ operations[k].target \in DOMAIN due
                      /\ FrozenDistance(operations, lo, k) = due[operations[k].target]
      /\ \A p \in DOMAIN due \cap t.seq.start..t.seq.end :
            \E k \in P : operations[k].target = p
      /\ \A k, l \in P : operations[k].target = operations[l].target => k = l
  <2> DEFINE ops == operations
             start == t.seq.start
             end == t.seq.end
  <2>1. n \in Nat /\ lo \in Int /\ hi \in Int /\ Projected(ops, lo, hi, start, end, n, due)
    BY <1>1, <1>4
  <2> HIDE DEF ops, start, end
  <2>2. /\ \A k \in lo..hi : ops[k].type = "Postfix" =>
              /\ ops[k].target \in DOMAIN due \cap start..end
              /\ FrozenDistance(ops, lo, k) = due[ops[k].target]
        /\ \A p \in DOMAIN due \cap start..end :
              \E k \in lo..hi : ops[k].type = "Postfix" /\ ops[k].target = p
        /\ \A k, l \in lo..hi :
              /\ ops[k].type = "Postfix" /\ ops[l].type = "Postfix"
              /\ ops[k].target = ops[l].target
              => k = l
    BY <2>1, ProjectedPostfixes
  <2>3. \A k : k \in P <=> k \in lo..hi /\ ops[k].type = "Postfix"
    BY <1>2, <1>4 DEF ops
  <2> QED
    BY <2>2, <2>3 DEF ops, start, end
<1>6. ASSUME NEW p \in t.seq.start..t.seq.end
      PROVE  Cardinality({k \in P : operations[k].target = p}) = Cardinality(NextAccess(p))
  <2>1. CASE p \in DOMAIN due
    <3>1. PICK k \in P : operations[k].target = p
      BY <1>5, <2>1
    <3>2. {l \in P : operations[l].target = p} = {k}
      BY <1>5, <3>1
    <3>3. PICK i : NextAccess(p) = {i}
      BY <1>3, <2>1
    <3>4. Cardinality({k}) = 1 /\ Cardinality({i}) = 1
      BY FS_Singleton
    <3> QED
      BY <3>2, <3>3, <3>4
  <2>2. CASE p \notin DOMAIN due
    <3>1. {l \in P : operations[l].target = p} = {}
      BY <1>5, <2>2
    <3>2. NextAccess(p) = {}
      BY <1>3, <2>2
    <3> QED
      BY <3>1, <3>2
  <2> QED
    BY <2>1, <2>2
<1>7. ASSUME NEW k \in P, NEW i \in NextAccess(operations[k].target)
      PROVE  FrozenDistance(operations, lo, k) = Distance(trace, i)
  BY <1>3, <1>5
<1> QED
  BY <1>6, <1>7 DEF P, t, lo

\* The base of the right side, and the ends of the scratch spaces.
LEMMA SplitAssertions ==
    ASSUME NEW t, NEW ops, TaskInv(t, ops), t.pc \in {"partition", "split"},
           NEW n \in Nat, NEW due, MeaningInv(t, ops, n, due)
    PROVE  /\ t.seq.start <= LeftEnd(t) /\ LeftEnd(t) < t.seq.end
           /\ \A p \in 0..(t.split.i - 1) : IsNull(Last(t.split.state.scratch[p]))
           /\ t.pc = "split" => IsNull(ops[RightSide(t).base])
<1> DEFINE st == t.split.state
           waiting == Waiting(st.scratch, t.split.i)
<1>1. t.seq.start <= LeftEnd(t) /\ LeftEnd(t) < t.seq.end
  BY SpacesOfTask
<1>2. ASSUME NEW p \in 0..(t.split.i - 1) PROVE IsNull(Last(st.scratch[p]))
  <2>1. \E hi : \E end : LeftInv(t, hi, end, ops, n, due)
    BY DEF MeaningInv
  <2>2. IsNull(st.scratch[p][Len(st.scratch[p])])
    BY <1>2, <2>1 DEF LeftInv, StackInv
  <2> QED
    BY <2>2 DEF Last
<1>3. ASSUME t.pc = "split" PROVE IsNull(ops[RightSide(t).base])
  <2>1. /\ st.cur_idx \in Int /\ st.merge_into_idx \in Int
        /\ IsFiniteSet(waiting) /\ st.cur_idx + Cardinality(waiting) + 1 <= st.merge_into_idx
        /\ st.cur_idx >= 0
        /\ \A k \in 0..st.merge_into_idx : k > st.cur_idx => IsNull(ops[t.seq.base + k])
    BY <1>3 DEF TaskInv, LoopInv
  <2>2. Cardinality(waiting) \in Nat
    BY <2>1, FS_CardinalityType
  <2> HIDE DEF st, waiting
  <2>3. st.merge_into_idx \in 0..st.merge_into_idx /\ st.merge_into_idx > st.cur_idx
    BY <2>1, <2>2
  <2>4. RightSide(t).base = t.seq.base + st.merge_into_idx
    BY DEF RightSide, ProjSequence, st
  <2> QED
    BY <2>1, <2>3, <2>4
<1> QED
  BY <1>1, <1>2, <1>3

\* The operation that an iteration of partition() looks at.
LEMMA IterationAssertions ==
    ASSUME NEW t, NEW ops, TaskInv(t, ops), t.pc = "partition",
           NEW n \in Nat, NEW due, MeaningInv(t, ops, n, due)
    PROVE  LET st == t.split.state
               op == ops[Slot(t, st.cur_idx)]
           IN  /\ op.type = "Prefix" => op.target >= LeftEnd(t)
               /\ st.cur_idx > 0
               /\ MoveToScratch(op, LeftEnd(t) + 1) =>
                     PartitionTarget(t, op.target) \in 0..(t.split.i - 1)
<1> DEFINE st == t.split.state
           lo == FirstSlot(t)
           hi == LastSlot(t)
           C == Slot(t, st.cur_idx)
           M == Slot(t, st.merge_into_idx)
           E == LeftEnd(t)
           op == ops[C]
<1>1. LoopWith(t, st, ops, n, due)
  BY LoopOpened
<1>2. /\ t.seq.base \in Nat /\ RangeInv(t) /\ E \in Nat
      /\ t.seq.start \in Nat \ {0}
  BY SpacesOfTask
<1>3. /\ LoopSlots(ops, lo, C, M, hi, E, n, due) /\ st.cur_idx \in Nat
      /\ Targets(ops, lo, hi, "Postfix") \subseteq t.seq.start..t.seq.end
  BY <1>1 DEF LoopWith
<1>4. C = t.seq.base + st.cur_idx /\ lo = t.seq.base
  BY DEF Slot, FirstSlot
<1> HIDE DEF st, lo, hi, C, M, E
<1>5. /\ lo < C /\ C \in lo..hi
      /\ OpInv(op, n)
      /\ op.type = "Prefix" => E <= op.target
  BY <1>3, BoundaryBelow
<1>6. st.cur_idx > 0
  BY <1>2, <1>3, <1>4, <1>5
<1>7. op.target \in Nat
  BY <1>5 DEF OpInv
<1>8. ASSUME MoveToScratch(op, E + 1) PROVE PartitionTarget(t, op.target) \in 0..(t.split.i - 1)
  <2>1. op.type = "Postfix" /\ op.target < E + 1
    BY <1>8 DEF MoveToScratch
  <2>2. op.target \in Targets(ops, lo, hi, "Postfix")
    BY <1>5, <2>1 DEF Targets
  <2>3. op.target \in t.seq.start..E
    <3>1. op.target \in t.seq.start..t.seq.end
      BY <1>3, <2>2
    <3> QED
      BY <1>2, <1>7, <2>1, <3>1
  <2> QED
    BY <1>2, <2>3, TargetInPartition DEF E
<1> QED
  BY <1>2, <1>5, <1>6, <1>7, <1>8 DEF st, C, E

\* The operations of a base case.
LEMMA BaseCaseAssertions ==
    ASSUME NEW ops, NEW lo \in Int, NEW hi \in Int, NEW start \in Nat \ {0}, NEW end \in Nat,
           start <= end,
           NEW n \in Nat, NEW due, Projected(ops, lo, hi, start, end, n, due),
           NEW k \in lo..hi
    PROVE  /\ ops[k].target <= end
           /\ ops[k].type = "Postfix" => /\ ops[k].target >= start
                                         /\ ops[k].target \in DOMAIN due
                                         /\ FrozenDistance(ops, lo, k) = due[ops[k].target]
<1>1. OpInv(ops[k], n)
  BY DEF Projected, Coherent
<1>2. CASE ops[k].type = "Null"
  BY <1>1, <1>2 DEF OpInv
<1>3. CASE ops[k].type = "Prefix"
  <2>1. ops[k].target \in start..(end - 1)
    BY <1>3 DEF Projected, Targets
  <2> QED
    BY <1>3, <2>1
<1>4. CASE ops[k].type = "Postfix"
  <2>1. /\ ops[k].target \in DOMAIN due \cap start..end
        /\ FrozenDistance(ops, lo, k) = due[ops[k].target]
    BY <1>4, ProjectedPostfixes
  <2> QED
    BY <2>1
<1> QED
  BY <1>1, <1>2, <1>3, <1>4 DEF OpInv

LEMMA InvAssertionsHold == IInv /\ HInv => AssertionsHold
<1> SUFFICES ASSUME IInv, HInv, NEW s \in DOMAIN tasks
             PROVE  LET t == tasks[s]
                        st == t.split.state
                        op == CurOp(t)
                    IN  /\ IsNull(operations[t.seq.base])
                        /\ Partitioning(s) =>
                              /\ t.seq.start <= LeftEnd(t) /\ LeftEnd(t) < t.seq.end
                              /\ \A p \in 0..(t.split.i - 1) : IsNull(Last(st.scratch[p]))
                        /\ Iterating(s) =>
                              /\ op.type = "Prefix" => op.target >= LeftEnd(t)
                              /\ IsBoundaryOp(op, LeftEnd(t)) => st.cur_idx > 0
                              /\ MoveToScratch(op, LeftEnd(t) + 1) =>
                                    PartitionTarget(t, op.target) \in 0..(t.split.i - 1)
                        /\ t.pc = "split" => IsNull(operations[RightSide(t).base])
                        /\ t.pc = "base_case" =>
                              \A k \in Region(t) :
                                  /\ operations[k].target <= t.seq.end
                                  /\ operations[k].type = "Postfix" =>
                                        /\ operations[k].target >= t.seq.start
                                        /\ FrozenDistance(operations, t.seq.base, k)
                                              \in DOMAIN hits_vector \ {0}
  BY DEF AssertionsHold
<1> DEFINE t == tasks[s]
           n == Len(trace)
           due == Due(trace)
<1>1. /\ n \in Nat /\ TaskInv(t, operations) /\ MeaningInv(t, operations, n, due)
      /\ Log(requests) /\ Sorted(requests) /\ trace = TraceOf(requests)
      /\ DOMAIN hits_vector = 0..UniqueIds(requests)
  BY TaskOfCall
<1>2. IsNull(operations[t.seq.base])
  BY <1>1 DEF TaskInv
<1>3. ASSUME Partitioning(s)
      PROVE  /\ t.seq.start <= LeftEnd(t) /\ LeftEnd(t) < t.seq.end
             /\ \A p \in 0..(t.split.i - 1) : IsNull(Last(t.split.state.scratch[p]))
  <2>1. t.pc \in {"partition", "split"}
    BY <1>3 DEF Partitioning
  <2> HIDE DEF t, n, due
  <2> QED
    BY <1>1, <2>1, SplitAssertions
<1>4. ASSUME Iterating(s)
      PROVE  /\ CurOp(t).type = "Prefix" => CurOp(t).target >= LeftEnd(t)
             /\ t.split.state.cur_idx > 0
             /\ MoveToScratch(CurOp(t), LeftEnd(t) + 1) =>
                   PartitionTarget(t, CurOp(t).target) \in 0..(t.split.i - 1)
  <2>1. t.pc = "partition"
    BY <1>4 DEF Iterating
  <2>2. CurOp(t) = operations[Slot(t, t.split.state.cur_idx)]
    BY DEF CurOp
  <2> HIDE DEF t, n, due
  <2> QED
    BY <1>1, <2>1, <2>2, IterationAssertions
<1>5. ASSUME t.pc = "split" PROVE IsNull(operations[RightSide(t).base])
  <2> HIDE DEF t, n, due
  <2> QED
    BY <1>1, <1>5, SplitAssertions
<1>6. ASSUME t.pc = "base_case", NEW k \in Region(t)
      PROVE  /\ operations[k].target <= t.seq.end
             /\ operations[k].type = "Postfix" =>
                   /\ operations[k].target >= t.seq.start
                   /\ FrozenDistance(operations, t.seq.base, k) \in DOMAIN hits_vector \ {0}
  <2> DEFINE lo == t.seq.base
             hi == lo + t.seq.num_ops - 1
  <2> HIDE DEF t, n
  <2>1. /\ lo \in Int /\ hi \in Int /\ Region(t) = lo..hi
        /\ t.seq.start \in Nat \ {0} /\ t.seq.end \in Nat /\ t.seq.start <= t.seq.end
        /\ Projected(operations, lo, hi, t.seq.start, t.seq.end, n, due)
    BY <1>1, <1>6, SlotsOfTask
  <2>2. /\ UniqueIds(requests) \in Nat
        /\ \A p \in DOMAIN due : due[p] \in 1..UniqueIds(requests)
    BY <1>1, DuesAreSmall
  <2>3. 1..UniqueIds(requests) \subseteq DOMAIN hits_vector \ {0}
    BY <1>1, <2>2
  <2> DEFINE start == t.seq.start
             end == t.seq.end
  <2> HIDE DEF lo, hi, due
  <2>5. /\ n \in Nat /\ k \in lo..hi /\ lo \in Int /\ hi \in Int
        /\ start \in Nat \ {0} /\ end \in Nat /\ start <= end
        /\ Projected(operations, lo, hi, start, end, n, due)
    BY <1>1, <1>6, <2>1
  <2> HIDE DEF start, end
  <2>6. /\ operations[k].target <= end
        /\ operations[k].type = "Postfix" =>
              /\ operations[k].target >= start
              /\ operations[k].target \in DOMAIN due
              /\ FrozenDistance(operations, lo, k) = due[operations[k].target]
    BY <2>5, BaseCaseAssertions, SMTT(30)
  <2>4. /\ operations[k].target <= t.seq.end
        /\ operations[k].type = "Postfix" =>
              /\ operations[k].target >= t.seq.start
              /\ operations[k].target \in DOMAIN due
              /\ FrozenDistance(operations, lo, k) = due[operations[k].target]
    BY <2>6 DEF start, end
  <2> QED
    BY <2>2, <2>3, <2>4 DEF lo
<1> QED
  BY <1>2, <1>3, <1>4, <1>5, <1>6

-----------------------------------------------------------------------------
(* Every repeated access is counted or has an operation                    *)

\* Sets that correspond one to one.
LEMMA SameSize ==
    ASSUME NEW A, IsFiniteSet(A), NEW B, NEW f,
           \A x \in A : f[x] \in B,
           \A x, y \in A : f[x] = f[y] => x = y,
           \A p \in B : \E x \in A : f[x] = p
    PROVE  IsFiniteSet(B) /\ Cardinality(B) = Cardinality(A)
<1> DEFINE g == [x \in A |-> f[x]]
<1>1. g \in [A -> B] /\ \A x \in A : g[x] = f[x]
  OBVIOUS
<1> HIDE DEF g
<1>2. g \in Bijection(A, B)
  BY <1>1 DEF Bijection, Injection, Surjection, IsInjective
<1>3. ExistsBijection(A, B)
  BY <1>2 DEF ExistsBijection
<1> QED
  BY <1>3, FS_Bijection

UnionOf(A, S) == UNION {A[x] : x \in S}

\* The sizes of disjoint sets add up to the size of their union.
LEMMA SumOfSizes ==
    ASSUME NEW S, IsFiniteSet(S), NEW A, \A x \in S : IsFiniteSet(A[x]),
           \A x, y \in S : x # y => A[x] \cap A[y] = {},
           NEW f, \A x \in S : f[x] = Cardinality(A[x])
    PROVE  /\ IsFiniteSet(UnionOf(A, S))
           /\ SumFunctionOnSet(f, S) = Cardinality(UnionOf(A, S))
<1> DEFINE P == {T \in SUBSET S : /\ IsFiniteSet(UnionOf(A, T))
                                  /\ SumFunctionOnSet(f, T) = Cardinality(UnionOf(A, T))}
<1>1. \A x \in S : f[x] \in Int
  BY FS_CardinalityType
<1>2. {} \in P
  <2>1. UnionOf(A, {}) = {}
    BY DEF UnionOf
  <2>2. SumFunctionOnSet(f, {}) = 0 /\ Cardinality({}) = 0 /\ IsFiniteSet({})
    BY <1>1, SumProperties, FS_EmptySet
  <2> QED
    BY <2>1, <2>2
<1>3. ASSUME NEW T \in SUBSET S, NEW x \in S \ T, T \in P PROVE T \cup {x} \in P
  <2> DEFINE U == UnionOf(A, T)
             V == UnionOf(A, T \cup {x})
  <2>1. V = U \cup A[x] /\ U \cap A[x] = {}
    BY DEF UnionOf
  <2>2. IsFiniteSet(U) /\ IsFiniteSet(A[x]) /\ SumFunctionOnSet(f, T) = Cardinality(U)
    BY <1>3
  <2>3. SumFunctionOnSet(f, T \cup {x}) = SumFunctionOnSet(f, T) + f[x]
    BY <1>1, SumProperties
  <2> HIDE DEF U, V
  <2>4. /\ IsFiniteSet(V) /\ Cardinality(V) = Cardinality(U) + Cardinality(A[x])
    <3> DEFINE B == A[x]
    <3>1. V = U \cup B /\ U \cap B = {} /\ IsFiniteSet(U) /\ IsFiniteSet(B)
      BY <2>1, <2>2
    <3> HIDE DEF B
    <3>2. /\ IsFiniteSet(U \cup B)
          /\ Cardinality(U \cup B) = Cardinality(U) + Cardinality(B) - Cardinality(U \cap B)
      BY <3>1, FS_Union
    <3>3. Cardinality(U) \in Nat /\ Cardinality(B) \in Nat /\ Cardinality(U \cap B) = 0
      BY <3>1, FS_EmptySet, FS_CardinalityType
    <3>4. IsFiniteSet(V) /\ Cardinality(V) = Cardinality(U) + Cardinality(B)
      BY <3>1, <3>2, <3>3
    <3> QED
      BY <3>4 DEF B
  <2>5. SumFunctionOnSet(f, T \cup {x}) = Cardinality(V)
    BY <2>2, <2>3, <2>4
  <2> QED
    BY <2>4, <2>5 DEF V
<1>4. SUBSET S \subseteq P
  <2> HIDE DEF P
  <2> QED
    BY <1>2, <1>3, SetOfSubsets
<1> QED
  BY <1>4

\* As many requests are due as accesses are repeated.
LEMMA DueForRepeats ==
    ASSUME NEW tr, Len(tr) \in Nat
    PROVE  Cardinality(DOMAIN Due(tr)) = Cardinality(Repeats(tr))
<1> DEFINE f == [i \in Repeats(tr) |-> PreviousAccess(tr, i)]
           D == DOMAIN Due(tr)
<1>1. IsFiniteSet(Repeats(tr))
  <2>1. IsFiniteSet(1..Len(tr))
    BY FS_Interval
  <2>2. Repeats(tr) \subseteq 1..Len(tr)
    BY DEF Repeats
  <2> QED
    BY <2>1, <2>2, FS_Subset
<1>2. \A i \in Repeats(tr) : f[i] = PreviousAccess(tr, i)
  OBVIOUS
<1> HIDE DEF f
<1>3. /\ \A i \in Repeats(tr) : f[i] \in D
      /\ \A p \in D : \E i \in Repeats(tr) : f[i] = p
  BY <1>2, DueProperties
<1>4. \A i, j \in Repeats(tr) : f[i] = f[j] => i = j
  BY <1>2, NextAccessIsOne
<1> HIDE DEF D
<1>5. Cardinality(D) = Cardinality(Repeats(tr))
  BY <1>1, <1>3, <1>4, SameSize
<1> QED
  BY <1>5 DEF D

\* The histogram counts all that have been frozen.
LEMMA HitsOfFrozen ==
    ASSUME NEW due, IsFiniteSet(DOMAIN due), NEW live, NEW u \in Nat,
           NEW hits, DOMAIN hits = 0..u, \A p \in DOMAIN due : due[p] \in 0..u,
           Counts(hits, due, live)
    PROVE  /\ SumFunction(hits) = Cardinality(DOMAIN due \ live)
           /\ IsFiniteSet(DOMAIN due \ live)
<1> DEFINE S == 0..u
           A == [d \in S |-> FrozenAt(d, due, live)]
<1>1. IsFiniteSet(S) /\ SumFunction(hits) = SumFunctionOnSet(hits, S)
  <2>1. IsFiniteSet(S)
    BY FS_Interval
  <2>2. DOMAIN hits = S
    OBVIOUS
  <2>3. SumFunction(hits) = SumFunctionOnSet(hits, S)
    BY <2>2, Zenon DEF SumFunction
  <2> QED
    BY <2>1, <2>3
<1>2. \A d \in S : A[d] = {p \in DOMAIN due : due[p] = d /\ p \notin live}
  BY DEF FrozenAt
<1>3. \A d \in S : hits[d] = Cardinality(A[d])
  BY DEF Counts
<1> HIDE DEF A, S
<1>4. \A d \in S : IsFiniteSet(A[d])
  <2>1. \A d \in S : A[d] \subseteq DOMAIN due
    BY <1>2
  <2> QED
    BY <2>1, FS_Subset
<1>5. \A d, e \in S : d # e => A[d] \cap A[e] = {}
  BY <1>2
<1>6. UnionOf(A, S) = DOMAIN due \ live
  BY <1>2 DEF UnionOf, S
<1>7. /\ IsFiniteSet(UnionOf(A, S))
      /\ SumFunctionOnSet(hits, S) = Cardinality(UnionOf(A, S))
  BY <1>1, <1>3, <1>4, <1>5, SumOfSizes
<1> QED
  BY <1>1, <1>6, <1>7

Postfixes(ops, lo, hi) == {k \in lo..hi : ops[k].type = "Postfix"}

\* As many Postfixes as they have targets.
LEMMA PostfixesByTarget ==
    ASSUME NEW ops, NEW lo \in Int, NEW hi \in Int,
           \A k, l \in lo..hi :
              /\ ops[k].type = "Postfix" /\ ops[l].type = "Postfix"
              /\ ops[k].target = ops[l].target
              => k = l
    PROVE  LET P == Postfixes(ops, lo, hi)
               T == Targets(ops, lo, hi, "Postfix")
           IN  IsFiniteSet(P) /\ IsFiniteSet(T) /\ Cardinality(P) = Cardinality(T)
<1> DEFINE P == Postfixes(ops, lo, hi)
           T == Targets(ops, lo, hi, "Postfix")
           f == [k \in P |-> ops[k].target]
<1>1. IsFiniteSet(P)
  BY FS_Interval, FS_Subset DEF Postfixes
<1>2. \A k \in P : f[k] = ops[k].target
  OBVIOUS
<1>3. T = {ops[k].target : k \in P}
  BY DEF Targets, Postfixes
<1>4. \A k, l \in P : ops[k].target = ops[l].target => k = l
  BY DEF Postfixes
<1> HIDE DEF f, P, T
<1>5. IsFiniteSet(T) /\ Cardinality(T) = Cardinality(P)
  BY <1>1, <1>2, <1>3, <1>4, SameSize
<1> QED
  BY <1>1, <1>5 DEF P, T

LEMMA StackTargetsSize ==
    ASSUME NEW stack, NEW L \in Nat,
           \A m, l \in 1..L : stack[m].target = stack[l].target => m = l
    PROVE  IsFiniteSet(StackTargets(stack, L)) /\ Cardinality(StackTargets(stack, L)) = L
<1> DEFINE I == 1..L
           T == StackTargets(stack, L)
           f == [m \in I |-> stack[m].target]
<1>1. IsFiniteSet(I) /\ Cardinality(I) = L
  <2>1. 1 \in Int /\ L \in Int /\ (1 > L => L = 0) /\ L - 1 + 1 = L
    OBVIOUS
  <2>2. IsFiniteSet(1..L) /\ Cardinality(1..L) = IF 1 > L THEN 0 ELSE L - 1 + 1
    BY <2>1, FS_Interval, Zenon
  <2> QED
    BY <2>1, <2>2
<1>2. \A m \in I : f[m] = stack[m].target
  OBVIOUS
<1>3. T = {stack[m].target : m \in I}
  BY DEF StackTargets
<1>4. \A m, l \in I : stack[m].target = stack[l].target => m = l
  OBVIOUS
<1> HIDE DEF I, T, f
<1>5. IsFiniteSet(T) /\ Cardinality(T) = Cardinality(I)
  BY <1>1, <1>2, <1>3, <1>4, SameSize
<1> QED
  BY <1>1, <1>5 DEF T

\* What waits in the scratch spaces has targets of its own each.
LEMMA PendingByTarget ==
    ASSUME NEW t, NEW ops, TaskInv(t, ops), t.pc \in {"partition", "split"},
           NEW n \in Nat, NEW due, MeaningInv(t, ops, n, due)
    PROVE  LET W == WaitingTargets(t.split.state.scratch, t.split.i)
           IN  IsFiniteSet(W) /\ Pending(t) = Cardinality(W)
<1> DEFINE scratch == t.split.state.scratch
           i == t.split.i
           I == 0..(i - 1)
           W == WaitingTargets(scratch, i)
           f == [p \in I |-> Moved(scratch[p])]
           A == [p \in I |-> StackTargets(scratch[p], Len(scratch[p]) - 1)]
<1>1. Spaces(scratch, i) /\ RangeInv(t) /\ t.seq.start \in Nat \ {0}
  BY SpacesOfTask
<1>2. ASSUME NEW p \in I
      PROVE  LET len == Len(scratch[p])
             IN  /\ \A m \in 1..(len - 1) : scratch[p][m].target \in Partition(t.split, p)
                 /\ \A m, l \in 1..(len - 1) :
                       scratch[p][m].target = scratch[p][l].target => m = l
  <2>1. \E hi : \E end : LeftInv(t, hi, end, ops, n, due)
    BY DEF MeaningInv
  <2>2. \E unseen : \E lo : \E cur :
           StackInv(scratch[p], unseen, Partition(t.split, p), ops, lo, cur, n, due)
    BY <2>1 DEF LeftInv
  <2> QED
    BY <2>2 DEF StackInv
<1>3. Pending(t) = PendingIn(scratch, i)
  BY PendingIsSum
<1>4. /\ IsFiniteSet(I)
      /\ \A p \in I : f[p] = Len(scratch[p]) - 1 /\ f[p] \in Nat
      /\ PendingIn(scratch, i) = SumFunctionOnSet(f, I)
  BY <1>1, PendingTerms
<1>5. \A p, q \in I : p # q => Partition(t.split, p) \cap Partition(t.split, q) = {}
  <2> SUFFICES ASSUME NEW p \in I, NEW q \in I, p # q,
                      NEW j \in Partition(t.split, p), j \in Partition(t.split, q)
               PROVE  FALSE
    OBVIOUS
  <2>1. j \in t.seq.start..LeftEnd(t)
    BY <1>1, PartitionsOrdered
  <2>2. j >= j
    BY <2>1
  <2>3. (j >= j <=> q < p) /\ (j >= j <=> p < q)
    BY <1>1, PartitionsOrdered
  <2>4. p \in Int /\ q \in Int
    OBVIOUS
  <2> QED
    BY <2>2, <2>3, <2>4
<1>6. \A p \in I : A[p] = StackTargets(scratch[p], Len(scratch[p]) - 1)
  OBVIOUS
<1>7. \A x : x \in W <=> \E p \in I : \E m \in 1..(Len(scratch[p]) - 1) : x = scratch[p][m].target
  BY <1>1, WaitingTarget, SMTT(30)
<1> HIDE DEF scratch, i, I, W, f, A
<1>8. \A p \in I : IsFiniteSet(A[p]) /\ f[p] = Cardinality(A[p])
  <2> TAKE p \in I
  <2> DEFINE stack == scratch[p]
             L == Len(stack) - 1
  <2>1. L \in Nat /\ f[p] = L
    BY <1>4
  <2>2. \A m, l \in 1..L : stack[m].target = stack[l].target => m = l
    BY <1>2
  <2>3. A[p] = StackTargets(stack, L)
    BY <1>6
  <2> HIDE DEF stack, L
  <2>4. IsFiniteSet(StackTargets(stack, L)) /\ Cardinality(StackTargets(stack, L)) = L
    BY <2>1, <2>2, StackTargetsSize
  <2> QED
    BY <2>1, <2>3, <2>4
<1>9. \A p \in I : A[p] \subseteq Partition(t.split, p)
  BY <1>2, <1>6 DEF StackTargets
<1>10. \A p, q \in I : p # q => A[p] \cap A[q] = {}
  BY <1>5, <1>9
<1>11. UnionOf(A, I) = W
  <2>1. \A x : x \in UnionOf(A, I) <=>
           \E p \in I : \E m \in 1..(Len(scratch[p]) - 1) : x = scratch[p][m].target
    BY <1>6 DEF UnionOf, StackTargets
  <2> QED
    BY <1>7, <2>1
<1>12. IsFiniteSet(UnionOf(A, I)) /\ SumFunctionOnSet(f, I) = Cardinality(UnionOf(A, I))
  BY <1>4, <1>8, <1>10, SumOfSizes
<1>13. IsFiniteSet(W) /\ Pending(t) = Cardinality(W)
  BY <1>3, <1>4, <1>11, <1>12
<1> QED
  BY <1>13 DEF W, scratch, i

\* The Postfixes among a task's slots: those of two parts with nothing between.
LEMMA PostfixesOfParts ==
    ASSUME NEW ops, NEW lo \in Int, NEW hi \in Int, NEW C \in Int, NEW M \in Int,
           lo <= C, C < M, M <= hi,
           \A k \in (C + 1)..(M - 1) : ops[k] = NoImpact
    PROVE  Cardinality(Postfixes(ops, lo, hi))
             = Cardinality(Postfixes(ops, lo, C)) + Cardinality(Postfixes(ops, M, hi))
<1> DEFINE A == Postfixes(ops, lo, C)
           B == Postfixes(ops, M, hi)
           U == Postfixes(ops, lo, hi)
<1>1. IsFiniteSet(lo..C) /\ IsFiniteSet(M..hi)
  BY FS_Interval
<1>2. IsFiniteSet(A) /\ IsFiniteSet(B)
  BY <1>1, FS_Subset DEF Postfixes
<1>3. NoImpact.type # "Postfix"
  BY DEF NoImpact
<1>4. \A k \in lo..hi : k \in lo..C \/ k \in (C + 1)..(M - 1) \/ k \in M..hi
  OBVIOUS
<1>5. /\ \A k \in lo..C : k \in lo..hi /\ k \notin M..hi
      /\ \A k \in M..hi : k \in lo..hi
  OBVIOUS
<1>6. \A k : k \in U <=> k \in A \/ k \in B
  BY <1>3, <1>4, <1>5 DEF Postfixes
<1>7. A \cap B = {}
  BY <1>5 DEF Postfixes
<1>8. U = A \cup B
  BY <1>6
<1> HIDE DEF U, A, B
<1>9. Cardinality(A \cup B) = Cardinality(A) + Cardinality(B) - Cardinality(A \cap B)
  BY <1>2, FS_Union
<1>10. Cardinality(A) \in Nat /\ Cardinality(B) \in Nat /\ Cardinality(A \cap B) = 0
  BY <1>2, <1>7, FS_EmptySet, FS_CardinalityType
<1>11. Cardinality(U) = Cardinality(A) + Cardinality(B)
  BY <1>8, <1>9, <1>10
<1> QED
  BY <1>2, <1>11 DEF U, A, B

LEMMA DisjointSize ==
    ASSUME NEW A, NEW B, IsFiniteSet(A), IsFiniteSet(B), A \cap B = {}
    PROVE  IsFiniteSet(A \cup B) /\ Cardinality(A \cup B) = Cardinality(A) + Cardinality(B)
<1>1. /\ IsFiniteSet(A \cup B)
      /\ Cardinality(A \cup B) = Cardinality(A) + Cardinality(B) - Cardinality(A \cap B)
  BY FS_Union
<1>2. Cardinality(A) \in Nat /\ Cardinality(B) \in Nat /\ Cardinality(A \cap B) = 0
  BY FS_EmptySet, FS_CardinalityType
<1> QED
  BY <1>1, <1>2

\* Operations that are applied or that wait: one for each request to freeze.
LEMMA UnappliedPartition ==
    ASSUME NEW t, NEW ops, TaskInv(t, ops), t.pc = "partition",
           NEW n \in Nat, NEW due, MeaningInv(t, ops, n, due)
    PROVE  Cardinality({k \in Region(t) : ops[k].type = "Postfix"}) + Pending(t)
             = Cardinality(DOMAIN due \cap t.seq.start..t.seq.end)
<1> DEFINE lo == t.seq.base
           hi == lo + t.seq.num_ops - 1
           T == Targets(ops, lo, hi, "Postfix")
           W == WaitingTargets(t.split.state.scratch, t.split.i)
           P == Postfixes(ops, lo, hi)
           D == DOMAIN due \cap t.seq.start..t.seq.end
<1>1. lo \in Int /\ hi \in Int /\ Region(t) = lo..hi
  BY SlotsOfTask
<1>2. IsFiniteSet(W) /\ Pending(t) = Cardinality(W)
  BY PendingByTarget
<1>3. LeftInv(t, hi, t.seq.end, ops, n, due)
  BY DEF MeaningInv
<1>4. Coherent(ops, lo, hi, n, due) /\ T \cap W = {} /\ T \cup W = D
  BY <1>3 DEF LeftInv
<1>5. \A k, l \in lo..hi :
         /\ ops[k].type = "Postfix" /\ ops[l].type = "Postfix"
         /\ ops[k].target = ops[l].target
         => k = l
  BY <1>4 DEF Coherent
<1>6. IsFiniteSet(P) /\ IsFiniteSet(T) /\ Cardinality(P) = Cardinality(T)
  <2> HIDE DEF lo, hi
  <2> QED
    BY <1>1, <1>5, PostfixesByTarget
<1>7. {k \in Region(t) : ops[k].type = "Postfix"} = P
  BY <1>1 DEF Postfixes
<1> HIDE DEF T, W, P, D
<1>8. Cardinality(T \cup W) = Cardinality(T) + Cardinality(W)
  BY <1>2, <1>4, <1>6, DisjointSize
<1>9. Cardinality(P) + Pending(t) = Cardinality(D)
  BY <1>2, <1>4, <1>6, <1>8
<1> QED
  BY <1>7, <1>9 DEF D

LEMMA UnappliedSplit ==
    ASSUME NEW t, NEW ops, TaskInv(t, ops), t.pc = "split",
           NEW n \in Nat, NEW due, MeaningInv(t, ops, n, due)
    PROVE  Cardinality({k \in Region(t) : ops[k].type = "Postfix"}) + Pending(t)
             = Cardinality(DOMAIN due \cap t.seq.start..t.seq.end)
<1> DEFINE st == t.split.state
           lo == t.seq.base
           hi == lo + t.seq.num_ops - 1
           C == lo + st.cur_idx
           M == lo + st.merge_into_idx
           E == LeftEnd(t)
           T1 == Targets(ops, lo, C, "Postfix")
           T2 == Targets(ops, M, hi, "Postfix")
           W == WaitingTargets(st.scratch, t.split.i)
           PL == Postfixes(ops, lo, C)
           PR == Postfixes(ops, M, hi)
           P == Postfixes(ops, lo, hi)
           D1 == DOMAIN due \cap t.seq.start..E
           D2 == DOMAIN due \cap (E + 1)..t.seq.end
           D == DOMAIN due \cap t.seq.start..t.seq.end
<1>1. /\ lo \in Nat /\ hi \in Int /\ Region(t) = lo..hi
      /\ t.seq.num_ops \in Nat
  BY SlotsOfTask
<1>2. IsFiniteSet(W) /\ Pending(t) = Cardinality(W)
  BY PendingByTarget
<1>3. /\ LeftInv(t, C, E, ops, n, due)
      /\ Projected(ops, M, hi, E + 1, t.seq.end, n, due)
      /\ SlotsInv(t, ops)
  BY DEF MeaningInv
<1>4. /\ Coherent(ops, lo, C, n, due) /\ T1 \cap W = {} /\ T1 \cup W = D1
      /\ Coherent(ops, M, hi, n, due) /\ T2 = D2
  BY <1>3 DEF LeftInv, Projected
<1>5. /\ t.seq.start \in Nat /\ t.seq.end \in Nat /\ E \in Nat
      /\ t.seq.start <= E /\ E < t.seq.end
      /\ Spaces(st.scratch, t.split.i) /\ st.merge_into_idx < t.seq.num_ops
  BY SpacesOfTask
<1>6. /\ C \in Int /\ M \in Int /\ lo <= C /\ C < M /\ M <= hi
      /\ \A k \in (C + 1)..(M - 1) : ops[k] = NoImpact
  <2>1. /\ st.cur_idx \in Nat
        /\ st.merge_into_idx - st.cur_idx = Pending(t) + 1
        /\ \A k \in (C + 1)..(M - 1) : ops[k] = NoImpact
    <3>1. SlotsInv(t, ops)
      BY <1>3
    <3>2. /\ t.split.state.cur_idx \in Nat
          /\ t.split.state.merge_into_idx - t.split.state.cur_idx = Pending(t) + 1
          /\ \A k \in (t.seq.base + t.split.state.cur_idx + 1)
                     ..(t.seq.base + t.split.state.merge_into_idx - 1) : ops[k] = NoImpact
      BY <3>1 DEF SlotsInv
    <3>3. t.split.state.merge_into_idx \in Int
      BY DEF TaskInv, LoopInv
    <3>4. M - 1 = t.seq.base + t.split.state.merge_into_idx - 1
      BY <1>1, <3>3
    <3> QED
      BY <3>2, <3>4, Zenon
  <2>2. Pending(t) \in Nat
    BY <1>2, FS_CardinalityType
  <2>3. st.merge_into_idx \in Int
    BY DEF TaskInv, LoopInv
  <2>4. st.merge_into_idx < t.seq.num_ops
    BY <1>5
  <2> DEFINE cur == st.cur_idx
             merge == st.merge_into_idx
             num == t.seq.num_ops
             base == t.seq.base
  <2>5. /\ cur \in Nat /\ merge \in Int /\ merge - cur = Pending(t) + 1 /\ Pending(t) \in Nat
        /\ merge < num /\ num \in Nat /\ base \in Nat
    BY <1>1, <2>1, <2>2, <2>3, <2>4
  <2> HIDE DEF cur, merge, num, base
  <2>6. /\ base + cur \in Int /\ base + merge \in Int /\ base <= base + cur
        /\ base + cur < base + merge /\ base + merge <= base + num - 1
    BY <2>5
  <2> QED
    BY <2>1, <2>6 DEF cur, merge, num, base
<1> HIDE DEF E
<1>7. D = D1 \cup D2 /\ D1 \cap D2 = {}
  <2>1. \A j \in t.seq.start..t.seq.end : j \in t.seq.start..E \/ j \in (E + 1)..t.seq.end
    BY <1>5
  <2>2. \A j \in t.seq.start..E : j \in t.seq.start..t.seq.end /\ j \notin (E + 1)..t.seq.end
    BY <1>5
  <2>3. \A j \in (E + 1)..t.seq.end : j \in t.seq.start..t.seq.end
    BY <1>5
  <2> QED
    BY <2>1, <2>2, <2>3
<1>8. /\ \A k, l \in lo..C :
            /\ ops[k].type = "Postfix" /\ ops[l].type = "Postfix"
            /\ ops[k].target = ops[l].target
            => k = l
      /\ \A k, l \in M..hi :
            /\ ops[k].type = "Postfix" /\ ops[l].type = "Postfix"
            /\ ops[k].target = ops[l].target
            => k = l
  BY <1>4 DEF Coherent
<1> HIDE DEF lo, hi, C, M
<1>9. /\ IsFiniteSet(T1) /\ Cardinality(PL) = Cardinality(T1)
      /\ IsFiniteSet(T2) /\ Cardinality(PR) = Cardinality(T2)
  <2>1. lo \in Int
    BY <1>1
  <2>2. IsFiniteSet(T1) /\ Cardinality(PL) = Cardinality(T1)
    BY <1>6, <1>8, <2>1, PostfixesByTarget
  <2>3. IsFiniteSet(T2) /\ Cardinality(PR) = Cardinality(T2)
    BY <1>1, <1>6, <1>8, PostfixesByTarget
  <2> QED
    BY <2>2, <2>3
<1>10. Cardinality(P) = Cardinality(PL) + Cardinality(PR)
  <2>1. lo \in Int
    BY <1>1
  <2>2. /\ hi \in Int /\ C \in Int /\ M \in Int /\ lo <= C /\ C < M /\ M <= hi
        /\ \A k \in (C + 1)..(M - 1) : ops[k] = NoImpact
    BY <1>1, <1>6
  <2> QED
    BY <2>1, <2>2, PostfixesOfParts
<1>11. {k \in Region(t) : ops[k].type = "Postfix"} = P
  BY <1>1 DEF Postfixes
<1> HIDE DEF T1, T2, W, P, PL, PR, D1, D2, D
<1>12. IsFiniteSet(D1) /\ Cardinality(D1) = Cardinality(T1) + Cardinality(W)
  <2>1. IsFiniteSet(T1 \cup W) /\ Cardinality(T1 \cup W) = Cardinality(T1) + Cardinality(W)
    BY <1>2, <1>4, <1>9, DisjointSize
  <2> QED
    BY <1>4, <2>1
<1>13. Cardinality(D) = Cardinality(D1) + Cardinality(D2)
  <2>1. IsFiniteSet(D2)
    BY <1>4, <1>9
  <2>2. Cardinality(D1 \cup D2) = Cardinality(D1) + Cardinality(D2)
    BY <1>7, <1>12, <2>1, DisjointSize
  <2> QED
    BY <1>7, <2>2
<1>14. Cardinality(T1) \in Nat /\ Cardinality(T2) \in Nat /\ Cardinality(W) \in Nat
  BY <1>2, <1>9, FS_CardinalityType
<1>15. Cardinality(P) + Pending(t) = Cardinality(D)
  BY <1>2, <1>4, <1>9, <1>10, <1>12, <1>13, <1>14
<1> QED
  BY <1>11, <1>15 DEF D

LEMMA UnappliedWhole ==
    ASSUME NEW t, NEW ops, TaskInv(t, ops), t.pc = "do_projections",
           NEW n \in Nat, NEW due, MeaningInv(t, ops, n, due)
    PROVE  Cardinality({k \in Region(t) : ops[k].type = "Postfix"})
             = Cardinality(DOMAIN due \cap t.seq.start..t.seq.end)
<1> DEFINE lo == t.seq.base
           hi == lo + t.seq.num_ops - 1
<1>1. /\ lo \in Int /\ hi \in Int /\ Region(t) = lo..hi
      /\ Projected(ops, lo, hi, t.seq.start, t.seq.end, n, due)
  BY SlotsOfTask
<1>2. \A k, l \in lo..hi :
         /\ ops[k].type = "Postfix" /\ ops[l].type = "Postfix"
         /\ ops[k].target = ops[l].target
         => k = l
  BY <1>1 DEF Projected, Coherent
<1>3. Targets(ops, lo, hi, "Postfix") = DOMAIN due \cap t.seq.start..t.seq.end
  BY <1>1 DEF Projected
<1> HIDE DEF lo, hi
<1>4. Cardinality(Postfixes(ops, lo, hi))
        = Cardinality(Targets(ops, lo, hi, "Postfix"))
  BY <1>1, <1>2, PostfixesByTarget
<1> QED
  BY <1>1, <1>3, <1>4 DEF Postfixes

LEMMA UnappliedBaseCase ==
    ASSUME NEW t, NEW ops, TaskInv(t, ops), t.pc = "base_case",
           NEW n \in Nat, NEW due, MeaningInv(t, ops, n, due)
    PROVE  Cardinality({k \in Region(t) : ops[k].type = "Postfix" /\ k >= Slot(t, t.local.idx)})
             = Cardinality(Unfrozen(t, ops, due))
<1> DEFINE lo == t.seq.base
           hi == lo + t.seq.num_ops - 1
           m == lo + t.local.idx
<1>1. /\ lo \in Nat /\ hi \in Int /\ Region(t) = lo..hi
      /\ Projected(ops, lo, hi, t.seq.start, t.seq.end, n, due)
  BY SlotsOfTask
<1>2. t.local.idx \in Nat
  <2>1. t.local.idx \in 0..t.seq.num_ops
    BY DEF MeaningInv, LocalInv
  <2> QED
    BY <2>1
<1>3. m \in Int /\ lo <= m
  BY <1>1, <1>2
<1>4. \A k, l \in lo..hi :
         /\ ops[k].type = "Postfix" /\ ops[l].type = "Postfix"
         /\ ops[k].target = ops[l].target
         => k = l
  BY <1>1 DEF Projected, Coherent
<1>5. Unfrozen(t, ops, due) = Targets(ops, m, hi, "Postfix") /\ Slot(t, t.local.idx) = m
  BY DEF Unfrozen, Slot
<1> HIDE DEF lo, hi, m
<1>6. \A k : k \in m..hi <=> k \in lo..hi /\ k >= m
  BY <1>1, <1>3
<1>7. \A k, l \in m..hi :
         /\ ops[k].type = "Postfix" /\ ops[l].type = "Postfix"
         /\ ops[k].target = ops[l].target
         => k = l
  BY <1>4, <1>6
<1>8. Cardinality(Postfixes(ops, m, hi))
        = Cardinality(Targets(ops, m, hi, "Postfix"))
  BY <1>1, <1>3, <1>7, PostfixesByTarget
<1>9. {k \in Region(t) : ops[k].type = "Postfix" /\ k >= m} = Postfixes(ops, m, hi)
  BY <1>1, <1>6 DEF Postfixes
<1> QED
  BY <1>5, <1>8, <1>9

\* What a task has still to apply: the Postfixes among its operations that it
\* has not applied, and those that wait in its scratch spaces.
LEMMA UnappliedIsUnfrozen ==
    ASSUME NEW t, TaskInv(t, operations), NEW n \in Nat, NEW due,
           MeaningInv(t, operations, n, due)
    PROVE  /\ t.pc = "base_case" =>
                 Cardinality({k \in PostfixIn(t) : k >= Slot(t, t.local.idx)})
                   = Cardinality(Unfrozen(t, operations, due))
           /\ t.pc \in {"partition", "split"} =>
                 Cardinality(PostfixIn(t)) + Pending(t) = Cardinality(Unfrozen(t, operations, due))
           /\ t.pc = "do_projections" =>
                 Cardinality(PostfixIn(t)) = Cardinality(Unfrozen(t, operations, due))
<1> DEFINE U == Unfrozen(t, operations, due)
<1>1. PostfixIn(t) = {k \in Region(t) : operations[k].type = "Postfix"}
  BY DEF PostfixIn
<1>2. t.pc # "base_case" => U = DOMAIN due \cap t.seq.start..t.seq.end
  BY DEF Unfrozen
<1>3. ASSUME t.pc = "base_case"
      PROVE  Cardinality({k \in PostfixIn(t) : k >= Slot(t, t.local.idx)}) = Cardinality(U)
  <2>1. {k \in PostfixIn(t) : k >= Slot(t, t.local.idx)}
          = {k \in Region(t) : operations[k].type = "Postfix" /\ k >= Slot(t, t.local.idx)}
    BY <1>1
  <2> QED
    BY <1>3, <2>1, UnappliedBaseCase
<1>4. ASSUME t.pc = "partition" PROVE Cardinality(PostfixIn(t)) + Pending(t) = Cardinality(U)
  BY <1>1, <1>2, <1>4, UnappliedPartition
<1>5. ASSUME t.pc = "split" PROVE Cardinality(PostfixIn(t)) + Pending(t) = Cardinality(U)
  BY <1>1, <1>2, <1>5, UnappliedSplit
<1>6. ASSUME t.pc = "do_projections" PROVE Cardinality(PostfixIn(t)) = Cardinality(U)
  BY <1>1, <1>2, <1>6, UnappliedWhole
<1> QED
  BY <1>3, <1>4, <1>5, <1>6

LEMMA InvEveryRepeatIsSomewhere == IInv /\ HInv => EveryRepeatIsSomewhere
<1> DEFINE Unapplied(t) ==
             CASE t.pc = "base_case" ->
                    Cardinality({k \in PostfixIn(t) : k >= Slot(t, t.local.idx)})
               [] t.pc \in {"partition", "split"} -> Cardinality(PostfixIn(t)) + Pending(t)
               [] OTHER -> Cardinality(PostfixIn(t))
           f == [s \in DOMAIN tasks |-> Unapplied(tasks[s])]
<1> SUFFICES ASSUME IInv, HInv, phase \in {"projecting", "returned"}
             PROVE  Cardinality(Repeats(trace)) = SumFunction(hits_vector) + SumFunction(f)
  BY DEF EveryRepeatIsSomewhere
<1> DEFINE S == DOMAIN tasks
           n == Len(trace)
           due == Due(trace)
           D == DOMAIN due
           A == [s \in S |-> Unfrozen(tasks[s], operations, due)]
           live == Live(tasks, operations, due)
           u == UniqueIds(requests)
<1>1. /\ n \in Nat /\ TasksInv /\ AllMean(tasks, operations, n, due)
      /\ Log(requests) /\ Sorted(requests) /\ trace = TraceOf(requests)
      /\ DOMAIN hits_vector = 0..u /\ Counts(hits_vector, due, live)
  BY DEF IInv, HInv, AllMean
<1>2. /\ D \subseteq 1..n /\ IsFiniteSet(D) /\ Cardinality(D) = Cardinality(Repeats(trace))
  BY <1>1, DueProperties, DueForRepeats
<1>3. u \in Nat /\ \A p \in D : due[p] \in 0..u
  <2>1. u \in Nat /\ \A p \in D : due[p] \in 1..u
    BY <1>1, DuesAreSmall
  <2>2. 1..u \subseteq 0..u
    BY <2>1
  <2> QED
    BY <2>1, <2>2
<1>4. IsFiniteSet(S)
  <2>1. S \subseteq 1..n
    <3> SUFFICES ASSUME NEW s \in S PROVE s \in 1..n
      OBVIOUS
    <3> DEFINE t == tasks[s]
    <3>1. TaskInv(t, operations) /\ t.seq.start = s /\ MeaningInv(t, operations, n, due)
      BY <1>1 DEF TasksInv, AllMean
    <3> HIDE DEF t, n, due
    <3>2. t.seq.start \in Nat \ {0} /\ t.seq.end \in Nat /\ t.seq.start <= t.seq.end /\ t.seq.end <= n
      BY <1>1, <3>1, SlotsOfTask
    <3> QED
      BY <1>1, <3>1, <3>2
  <2>2. IsFiniteSet(1..n)
    BY <1>1, FS_Interval
  <2> QED
    BY <2>1, <2>2, FS_Subset
<1>5. \A s \in S : A[s] = Unfrozen(tasks[s], operations, due)
  OBVIOUS
<1>6. \A s \in S : f[s] = Cardinality(A[s])
  <2> SUFFICES ASSUME NEW s \in S PROVE f[s] = Cardinality(A[s])
    OBVIOUS
  <2> DEFINE t == tasks[s]
  <2>1. TaskInv(t, operations) /\ MeaningInv(t, operations, n, due)
    BY <1>1 DEF TasksInv, AllMean
  <2>2. t.pc \in {"do_projections", "partition", "split", "base_case"}
    BY <2>1 DEF TaskInv
  <2>3. /\ t.pc = "base_case" =>
              Cardinality({k \in PostfixIn(t) : k >= Slot(t, t.local.idx)}) = Cardinality(A[s])
        /\ t.pc \in {"partition", "split"} =>
              Cardinality(PostfixIn(t)) + Pending(t) = Cardinality(A[s])
        /\ t.pc = "do_projections" => Cardinality(PostfixIn(t)) = Cardinality(A[s])
    <3>1. A[s] = Unfrozen(t, operations, due)
      OBVIOUS
    <3> HIDE DEF t, n, due, A
    <3> QED
      BY <1>1, <2>1, <3>1, UnappliedIsUnfrozen
  <2>4. f[s] = Unapplied(t)
    OBVIOUS
  <2> HIDE DEF t, A, f
  <2> QED
    BY <2>2, <2>3, <2>4
<1>7. \A s, v \in S : s # v => A[s] \cap A[v] = {}
  BY <1>1, <1>5, UnfrozenDisjoint
<1>8. \A s \in S : A[s] \subseteq D
  <2> SUFFICES ASSUME NEW s \in S PROVE A[s] \subseteq D
    OBVIOUS
  <2> DEFINE t == tasks[s]
  <2>1. TaskInv(t, operations) /\ MeaningInv(t, operations, n, due)
    BY <1>1 DEF TasksInv, AllMean
  <2>2. A[s] = Unfrozen(t, operations, due)
    OBVIOUS
  <2> HIDE DEF t, A, n, due
  <2> QED
    BY <1>1, <2>1, <2>2, UnfrozenInRange
<1>9. live = UnionOf(A, S)
  BY <1>5 DEF Live, UnionOf
<1>10. SumFunction(f) = SumFunctionOnSet(f, S)
  <2>1. DOMAIN f = S
    OBVIOUS
  <2> HIDE DEF f
  <2> QED
    BY <2>1, Zenon DEF SumFunction
<1> HIDE DEF S, n, due, A, live, u, f
<1>11. \A s \in S : IsFiniteSet(A[s])
  BY <1>2, <1>8, FS_Subset
<1>12. IsFiniteSet(live) /\ SumFunction(f) = Cardinality(live)
  BY <1>4, <1>6, <1>7, <1>9, <1>10, <1>11, SumOfSizes
<1>13. SumFunction(hits_vector) = Cardinality(D \ live) /\ IsFiniteSet(D \ live)
  BY <1>1, <1>2, <1>3, HitsOfFrozen
<1>14. D = (D \ live) \cup live /\ (D \ live) \cap live = {}
  BY <1>8, <1>9 DEF UnionOf
<1> DEFINE B == D \ live
<1> HIDE DEF B, D
<1>15. Cardinality(B \cup live) = Cardinality(B) + Cardinality(live)
  BY <1>12, <1>13, <1>14, DisjointSize DEF B
<1> QED
  BY <1>2, <1>12, <1>13, <1>14, <1>15 DEF B

-----------------------------------------------------------------------------
(* The theorems                                                            *)

\* A task that is final when it is created is one schedule among all: what
\* holds of Spec holds of UndeferredSpec.
LEMMA UndeferredIsASchedule == UndeferredSpec => Spec
<1>1. [UndeferredNext]_vars => [Next]_vars
  BY DEF UndeferredNext, Next
<1> QED
  BY <1>1, PTL DEF UndeferredSpec, Spec

\* The variables of update_hits_vector hold what their types promise: slots
\* hold operations on the call's requests, the histogram counts at most all of
\* them, and tasks lie in the vectors.
THEOREM CallIsTyped ==
    ASSUME IndexesFit
    PROVE  Spec => []TypeOK
BY HistogramInvariant, InvTypeOK, PTL

\* partition() meets its boundary operation before it runs out of operations
\* (assert cur_idx >= 0), however the tasks interleave.
THEOREM BoundaryIsAlwaysFound ==
    ASSUME IndexesFit
    PROVE  Spec => []BoundaryIsFound
BY HistogramInvariant, InvBoundaryIsFound, PTL

\* At every iteration of partition() the slots that it has freed are as many as
\* the operations in the scratch spaces: these can be put back.
THEOREM FreedSlotsTakeWhatWaits ==
    ASSUME IndexesFit
    PROVE  Spec => []ScratchFitsFreedSlots
BY HistogramInvariant, InvScratchFitsFreedSlots, PTL

\* The assertions of partition() and do_base_case() hold whenever they are
\* reached, and the accesses to distances and hits stay in their arrays.
THEOREM AssertionsAlwaysHold ==
    ASSUME IndexesFit
    PROVE  Spec => []AssertionsHold
BY HistogramInvariant, InvAssertionsHold, PTL

\* A task starts with at most two operations per request of its range.
THEOREM ProjectionsAreLinear ==
    ASSUME IndexesFit
    PROVE  Spec => []ProjectionsAreSmall
BY HistogramInvariant, InvProjectionsAreSmall, PTL

\* A task starts with operations that freeze each request of its range that is
\* accessed again once, at the stack distance of its next access.
THEOREM ProjectionsKeepDistances ==
    ASSUME IndexesFit
    PROVE  Spec => []ProjectionsPreserveDistances
BY HistogramInvariant, InvProjectionsPreserveDistances, PTL

\* While Postfixes wander between slots, scratch spaces and tasks, each repeated
\* access has been counted or is in one place where it is still to be applied.
THEOREM NoRepeatIsLost ==
    ASSUME IndexesFit
    PROVE  Spec => []EveryRepeatIsSomewhere
BY HistogramInvariant, InvEveryRepeatIsSomewhere, PTL

\* The histogram never exceeds that of the stack distances of the call's
\* requests, and is equal to it when update_hits_vector returns.
THEOREM HitsAreTrueDistances ==
    ASSUME IndexesFit
    PROVE  Spec => []HitsAreStackDistances
BY HistogramInvariant, InvHitsAreStackDistances, PTL

\* The histogram is a vector.
IsVector(v) == v = [d \in DOMAIN v |-> v[d]]

LEMMA HitsAreAVector == Spec => []IsVector(hits_vector)
<1>1. Init => IsVector(hits_vector)
  BY DEF Init, IsVector
<1>2. IsVector(hits_vector) /\ [Next]_vars => IsVector(hits_vector)'
  <2> SUFFICES ASSUME IsVector(hits_vector), [Next]_vars
               PROVE  IsVector(hits_vector)'
    OBVIOUS
  <2> USE DEF IsVector
  <2>1. CASE hits_vector' = hits_vector
    BY <2>1
  <2>2. CASE StartProjections
    BY <2>2 DEF StartProjections
  <2>3. ASSUME NEW s \in DOMAIN tasks, TaskStep(s)
        PROVE  \/ hits_vector' = hits_vector
               \/ \E hit : hits_vector' = [hits_vector EXCEPT ![hit] = @ + 1]
    BY <2>3 DEF TaskStep, DoProjections, MergeBoundary, MovePostfixToScratch, KeepOnRight,
                SplitOff, ApplyOperation, EndBaseCase
  <2>4. ASSUME NEW hit, hits_vector' = [hits_vector EXCEPT ![hit] = @ + 1]
        PROVE  IsVector(hits_vector')
    BY <2>4
  <2> QED
    BY <2>1, <2>2, <2>3, <2>4
       DEF Next, Populate, SortRequests, BuildOperations, Return, vars
<1> QED
  BY <1>1, <1>2, PTL DEF Spec

\* What the simulators take a call for: the tasks together leave what the
\* operator UpdatedHits of HitsVector computes at once.
ReturnsUpdatedHits ==
    phase = "returned" => hits_vector = UpdatedHits(<<>>, requests)

LEMMA InvReturnsUpdatedHits == IInv /\ HInv /\ IsVector(hits_vector) => ReturnsUpdatedHits
<1> SUFFICES ASSUME IInv, HInv, IsVector(hits_vector), phase = "returned"
             PROVE  hits_vector = UpdatedHits(<<>>, requests)
  BY DEF ReturnsUpdatedHits
<1> DEFINE u == UniqueIds(requests)
           new == UpdatedHits(<<>>, requests)
<1>1. Log(requests) /\ Sorted(requests) /\ TraceOf(requests) = trace
  BY DEF IInv, HInv
<1>2. u \in Nat
  BY <1>1, UniqueIdsAreAddresses
<1>3. Histogram(<<>>) /\ VectorSize(<<>>) = 0
  BY NoHits, FS_EmptySet DEF VectorSize
<1>4. DOMAIN new = 0..u /\ \A d \in 0..u : new[d] = HitAt(<<>>, d) + AtDistance(trace, d)
  <2>1. VectorSize(<<>>) < u + 1 /\ (u + 1) - 1 = u
    BY <1>2, <1>3
  <2> HIDE DEF u, new
  <2> QED
    BY <1>1, <1>3, <2>1, HitsOfLog DEF u, new
<1>5. \A d \in 0..u : new[d] = AtDistance(trace, d)
  <2> SUFFICES ASSUME NEW d \in 0..u
               PROVE  new[d] = AtDistance(trace, d)
    OBVIOUS
  <2>1. HitAt(<<>>, d) = 0
    BY DEF HitAt
  <2>2. AtDistance(trace, d) \in Nat
    BY <1>1, DueAtDistance, FS_CardinalityType DEF HInv
  <2> HIDE DEF u, new
  <2> QED
    BY <1>4, <2>1, <2>2
<1>6. DOMAIN hits_vector = 0..u /\ hits_vector = [d \in DOMAIN hits_vector |-> hits_vector[d]]
  BY DEF HInv, IsVector
<1>7. \A d \in 0..u : hits_vector[d] = AtDistance(trace, d)
  BY <1>6, InvHitsAreStackDistances DEF HitsAreStackDistances
<1>8. new = [d \in DOMAIN new |-> new[d]]
  BY DEF UpdatedHits, HitsOfOperations
<1> HIDE DEF u, new
<1>9. hits_vector = new
  <2>1. /\ hits_vector = [d \in 0..u |-> hits_vector[d]]
        /\ new = [d \in 0..u |-> new[d]]
    BY <1>4, <1>6, <1>8, Zenon
  <2>2. \A d \in 0..u : hits_vector[d] = new[d]
    BY <1>5, <1>7
  <2>3. [d \in 0..u |-> hits_vector[d]] = [d \in 0..u |-> new[d]]
    BY <2>2
  <2> QED
    BY <2>1, <2>3, Zenon
<1> QED
  BY <1>9 DEF new

\* update_hits_vector, with its recursion of tasks over one shared vector, is
\* the one step that IncrementAndFreeze and BoundedIAF take it for.
THEOREM TasksComputeUpdatedHits ==
    ASSUME IndexesFit
    PROVE  Spec => []ReturnsUpdatedHits
BY HistogramInvariant, HitsAreAVector, InvReturnsUpdatedHits, PTL

=============================================================================
