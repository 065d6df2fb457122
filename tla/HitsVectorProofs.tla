--------------------------- MODULE HitsVectorProofs ---------------------------
(***************************************************************************)
(* That Increment-and-Freeze is right, for every log: the operations       *)
(* freeze the stack distance of each repeated access, the histogram counts *)
(* these, and its prefix sums are the hits of an LRU cache of each size.   *)
(*                                                                         *)
(* The argument is the paper's.  Access a adds 1 to the distances of all   *)
(* that came before it, unless its address was accessed there already, for *)
(* its Postfix and the -1 of its Prefix take the 1 back from all before    *)
(* its previous access.  So what is frozen for an address last accessed at *)
(* t counts the accesses after t that are the first of their address       *)
(* there.                                                                  *)
(*                                                                         *)
(* First come lemmas about the operators that this module and those of     *)
(* other components are built from: sums over finite sets, which the model *)
(* takes with the folds of the community modules; the vectors of module Op *)
(* that are sorted by address, where equal addresses are contiguous and    *)
(* each has a last access; the operations of a log, before and after the   *)
(* compaction; and the queue of pages of module PageQueue, whose front an  *)
(* access changes as it changes an LRU cache.  Last come lemmas about      *)
(* coherent sequences of operations, and what the steps of partition()     *)
(* make of the slots and the scratch spaces of one, which the proofs about *)
(* Projections put together.                                               *)
(***************************************************************************)
EXTENDS HitsVector, Op, PageQueue, FiniteSetTheorems, SequenceTheorems, WellFoundedInduction, TLAPS

-----------------------------------------------------------------------------
(* Induction, and sums over finite sets                                    *)

\* Natural induction, with the statement as a set.
LEMMA SetOfNaturals ==
    ASSUME NEW P, 0 \in P, \A n \in Nat : n \in P => n + 1 \in P
    PROVE  Nat \subseteq P
<1> DEFINE less == OpToRel(<, Nat)
           Q == Nat \ P
<1>1. IsWellFoundedOn(less, Nat)
  BY NatLessThanWellFounded
<1>2. \A x, y \in Nat : x < y => <<x, y>> \in less
  BY DEF OpToRel
<1> HIDE DEF less
<1> SUFFICES ASSUME Q # {} PROVE FALSE
  OBVIOUS
<1>3. PICK b \in Q : \A c \in Q : ~(<<c, b>> \in less)
  <2>1. Q \subseteq Nat
    OBVIOUS
  <2> HIDE DEF Q
  <2> QED
    BY <1>1, <2>1, WFMin
<1>4. b \in Nat /\ b # 0 /\ b \notin P
  OBVIOUS
<1>5. b - 1 \in Nat /\ b - 1 < b
  BY <1>4
<1>6. b - 1 \in P
  BY <1>2, <1>3, <1>4, <1>5
<1> QED
  BY <1>4, <1>5, <1>6

\* Induction on a finite set, with the statement as a set of its subsets.
LEMMA SetOfSubsets ==
    ASSUME NEW S, IsFiniteSet(S), NEW P,
           {} \in P,
           \A T \in SUBSET S : \A x \in S \ T : T \in P => T \cup {x} \in P
    PROVE  SUBSET S \subseteq P
<1> DEFINE N == {n \in Nat : \A T \in SUBSET S : Cardinality(T) = n => T \in P}
<1>1. \A T \in SUBSET S : IsFiniteSet(T) /\ Cardinality(T) \in Nat
  BY FS_Subset, FS_CardinalityType
<1>2. 0 \in N
  <2>1. \A T \in SUBSET S : Cardinality(T) = 0 => T = {}
    BY <1>1, FS_EmptySet
  <2> QED
    BY <2>1
<1>3. ASSUME NEW n \in Nat, n \in N PROVE n + 1 \in N
  <2> SUFFICES ASSUME NEW T \in SUBSET S, Cardinality(T) = n + 1 PROVE T \in P
    OBVIOUS
  <2>1. T # {}
    <3>1. Cardinality({}) = 0
      BY FS_EmptySet
    <3> SUFFICES ASSUME T = {} PROVE FALSE
      OBVIOUS
    <3> QED
      BY <3>1
  <2>2. PICK x \in T : TRUE
    BY <2>1
  <2>3. /\ T \ {x} \in SUBSET S /\ x \in S \ (T \ {x})
        /\ (T \ {x}) \cup {x} = T
    OBVIOUS
  <2>4. Cardinality(T \ {x}) = n
    <3>1. Cardinality(T \ {x}) = Cardinality(T) - 1
      BY <1>1, FS_RemoveElement
    <3> QED
      BY <3>1
  <2>5. T \ {x} \in P
    BY <1>3, <2>3, <2>4
  <2> QED
    BY <2>3, <2>5
<1>4. Nat \subseteq N
  <2> HIDE DEF N
  <2> QED
    BY <1>2, <1>3, SetOfNaturals
<1> QED
  BY <1>1, <1>4

\* What the fold of SumFunctionOnSet computes, on the subsets of S.
Sums(f, S) ==
    CHOOSE iter : iter = [s \in SUBSET S |->
        IF s = {} THEN 0
        ELSE f[CHOOSE x \in s : TRUE] + iter[s \ {CHOOSE x \in s : TRUE}]]

IsIteration(iter, f, S) ==
    iter = [s \in SUBSET S |->
        IF s = {} THEN 0
        ELSE f[CHOOSE x \in s : TRUE] + iter[s \ {CHOOSE x \in s : TRUE}]]

LEMMA SumIsIteration ==
    ASSUME NEW f, NEW S
    PROVE  SumFunctionOnSet(f, S) = Sums(f, S)[S]
BY DEF SumFunctionOnSet, FoldFunctionOnSet, MapThenFoldSet, Sums

LEMMA IterationStep ==
    ASSUME NEW f, NEW S, NEW iter, IsIteration(iter, f, S)
    PROVE  /\ iter[{}] = 0
           /\ \A T \in SUBSET S : T # {} =>
                  /\ (CHOOSE x \in T : TRUE) \in T
                  /\ iter[T] = f[CHOOSE x \in T : TRUE] + iter[T \ {CHOOSE x \in T : TRUE}]
BY DEF IsIteration

\* An element less, on the subsets of one size.
LEMMA SizeOfRest ==
    ASSUME NEW T, IsFiniteSet(T), NEW n \in Nat, Cardinality(T) = n + 1, NEW x \in T
    PROVE  IsFiniteSet(T \ {x}) /\ Cardinality(T \ {x}) = n
<1>1. IsFiniteSet(T \ {x}) /\ Cardinality(T \ {x}) = Cardinality(T) - 1
  BY FS_RemoveElement
<1> QED
  BY <1>1

LEMMA IterationsAgree ==
    ASSUME NEW f, NEW A, NEW B, NEW a, NEW b,
           IsIteration(a, f, A), IsIteration(b, f, B),
           NEW S \in SUBSET (A \cap B), IsFiniteSet(S)
    PROVE  a[S] = b[S]
<1> DEFINE N == {n \in Nat : \A T \in SUBSET S : Cardinality(T) = n => a[T] = b[T]}
<1>1. \A T \in SUBSET S : IsFiniteSet(T) /\ Cardinality(T) \in Nat
  BY FS_Subset, FS_CardinalityType
<1>2. 0 \in N
  <2>1. \A T \in SUBSET S : Cardinality(T) = 0 => T = {}
    BY <1>1, FS_EmptySet
  <2>2. a[{}] = 0 /\ b[{}] = 0
    BY IterationStep
  <2> QED
    BY <2>1, <2>2
<1>3. ASSUME NEW n \in Nat, n \in N PROVE n + 1 \in N
  <2> SUFFICES ASSUME NEW T \in SUBSET S, Cardinality(T) = n + 1 PROVE a[T] = b[T]
    OBVIOUS
  <2>1. T # {}
    <3>1. Cardinality({}) = 0
      BY FS_EmptySet
    <3> SUFFICES ASSUME T = {} PROVE FALSE
      OBVIOUS
    <3> QED
      BY <3>1
  <2> DEFINE x == CHOOSE y \in T : TRUE
  <2>2. /\ T \in SUBSET A /\ T \in SUBSET B
        /\ x \in T
        /\ a[T] = f[x] + a[T \ {x}]
        /\ b[T] = f[x] + b[T \ {x}]
    <3>1. T \in SUBSET A /\ T \in SUBSET B
      OBVIOUS
    <3> QED
      BY <2>1, <3>1, IterationStep
  <2> HIDE DEF x
  <2>3. T \ {x} \in SUBSET S /\ Cardinality(T \ {x}) = n
    BY <1>1, <2>2, SizeOfRest
  <2> QED
    BY <1>3, <2>2, <2>3
<1>4. Nat \subseteq N
  <2> HIDE DEF N
  <2> QED
    BY <1>2, <1>3, SetOfNaturals
<1> QED
  BY <1>1, <1>4

\* The sums over the subsets of the rests of a set make those of the set.
LEMMA IterationExtends ==
    ASSUME NEW f, NEW T, IsFiniteSet(T),
           \A U \in SUBSET T : U # T => IsIteration(Sums(f, U), f, U)
    PROVE  IsIteration(Sums(f, T), f, T)
<1> DEFINE first(s) == CHOOSE x \in s : TRUE
           rest(s) == s \ {first(s)}
           sum(s) == IF s = {} THEN 0 ELSE f[first(s)] + Sums(f, rest(s))[rest(s)]
           iter == [s \in SUBSET T |-> sum(s)]
<1>1. ASSUME NEW s \in SUBSET T, s # {}
      PROVE  /\ first(s) \in s
             /\ rest(s) \in SUBSET T
             /\ rest(s) # T
             /\ IsIteration(Sums(f, rest(s)), f, rest(s))
             /\ IsFiniteSet(rest(s))
  <2>1. first(s) \in s
    BY <1>1
  <2> HIDE DEF first
  <2>2. rest(s) \in SUBSET T /\ rest(s) # T
    BY <2>1
  <2> QED
    BY <2>1, <2>2, FS_Subset
<1>2. ASSUME NEW s \in SUBSET T, s # {}
      PROVE  iter[rest(s)] = Sums(f, rest(s))[rest(s)]
  <2> DEFINE U == rest(s)
  <2>1. U \in SUBSET T /\ U # T /\ IsIteration(Sums(f, U), f, U)
    BY <1>1, <1>2
  <2>2. CASE U = {}
    <3>1. iter[U] = 0
      BY <2>1, <2>2
    <3>2. Sums(f, U)[{}] = 0
      <4> HIDE DEF U
      <4> QED
        BY <2>1, IterationStep
    <3> QED
      BY <2>2, <3>1, <3>2
  <2>3. CASE U # {}
    <3> HIDE DEF U
    <3>1. iter[U] = f[first(U)] + Sums(f, rest(U))[rest(U)]
      BY <2>1, <2>3
    <3>2. Sums(f, U)[U] = f[first(U)] + Sums(f, U)[rest(U)]
      BY <2>1, <2>3, IterationStep
    <3>3. rest(U) \in SUBSET U /\ IsIteration(Sums(f, rest(U)), f, rest(U)) /\ IsFiniteSet(rest(U))
      BY <1>1, <2>1, <2>3
    <3>4. rest(U) \in SUBSET (U \cap rest(U))
      BY <3>3
    <3> HIDE DEF rest
    <3>5. Sums(f, U)[rest(U)] = Sums(f, rest(U))[rest(U)]
      BY <2>1, <3>3, <3>4, IterationsAgree
    <3> HIDE DEF iter
    <3> QED
      BY <3>1, <3>2, <3>5 DEF U
  <2> HIDE DEF iter, rest
  <2> QED
    BY <2>2, <2>3
<1>3. \A s \in SUBSET T : sum(s) = IF s = {} THEN 0 ELSE f[first(s)] + iter[rest(s)]
  <2> HIDE DEF first, rest, iter
  <2> QED
    BY <1>2
<1>4. iter = [s \in SUBSET T |-> IF s = {} THEN 0 ELSE f[first(s)] + iter[rest(s)]]
  <2> DEFINE g(s) == IF s = {} THEN 0 ELSE f[first(s)] + iter[rest(s)]
  <2>1. \A s \in SUBSET T : sum(s) = g(s)
    BY <1>3
  <2>2. iter = [s \in SUBSET T |-> g(s)]
    <3> HIDE DEF sum, g
    <3> QED
      BY <2>1
  <2> QED
    BY <2>2
<1>5. IsIteration(iter, f, T)
  <2> HIDE DEF iter
  <2> QED
    BY <1>4 DEF IsIteration
<1> HIDE DEF iter
<1>6. \E it : it = [s \in SUBSET T |->
        IF s = {} THEN 0
        ELSE f[CHOOSE x \in s : TRUE] + it[s \ {CHOOSE x \in s : TRUE}]]
  BY <1>5 DEF IsIteration
<1> QED
  BY <1>6 DEF IsIteration, Sums

LEMMA IterationExists ==
    ASSUME NEW f, NEW S, IsFiniteSet(S)
    PROVE  IsIteration(Sums(f, S), f, S)
<1> DEFINE N == {n \in Nat : \A T \in SUBSET S :
                    Cardinality(T) <= n => IsIteration(Sums(f, T), f, T)}
<1>1. \A T \in SUBSET S : IsFiniteSet(T) /\ Cardinality(T) \in Nat
  BY FS_Subset, FS_CardinalityType
<1>2. \A T \in SUBSET S : \A U \in SUBSET T : U # T =>
          U \in SUBSET S /\ Cardinality(U) < Cardinality(T)
  <2>1. \A T \in SUBSET S : \A U \in SUBSET T : U # T =>
          Cardinality(U) <= Cardinality(T) /\ Cardinality(U) # Cardinality(T)
    BY <1>1, FS_Subset
  <2> QED
    BY <1>1, <2>1
<1>3. 0 \in N
  <2>1. \A T \in SUBSET S : Cardinality(T) <= 0 => \A U \in SUBSET T : U = T
    BY <1>1, <1>2
  <2> QED
    BY <1>1, <2>1, IterationExtends
<1>4. ASSUME NEW n \in Nat, n \in N PROVE n + 1 \in N
  <2> SUFFICES ASSUME NEW T \in SUBSET S, Cardinality(T) <= n + 1
               PROVE  IsIteration(Sums(f, T), f, T)
    OBVIOUS
  <2>1. \A U \in SUBSET T : U # T => U \in SUBSET S /\ Cardinality(U) <= n
    BY <1>1, <1>2
  <2>2. \A U \in SUBSET T : U # T => IsIteration(Sums(f, U), f, U)
    BY <1>4, <2>1
  <2> QED
    BY <1>1, <2>2, IterationExtends
<1>5. Nat \subseteq N
  <2> HIDE DEF N
  <2> QED
    BY <1>3, <1>4, SetOfNaturals
<1>6. Cardinality(S) \in N /\ S \in SUBSET S
  BY <1>1, <1>5
<1> QED
  BY <1>1, <1>6

\* A sum, and one element taken out of it.
LEMMA SumChosen ==
    ASSUME NEW f, NEW S, IsFiniteSet(S)
    PROVE  /\ S = {} => SumFunctionOnSet(f, S) = 0
           /\ S # {} => \E x \in S : SumFunctionOnSet(f, S) = f[x] + SumFunctionOnSet(f, S \ {x})
<1>1. IsIteration(Sums(f, S), f, S) /\ SumFunctionOnSet(f, S) = Sums(f, S)[S]
  BY IterationExists, SumIsIteration
<1>2. CASE S = {}
  <2>1. Sums(f, S)[{}] = 0
    BY <1>1, IterationStep
  <2> QED
    BY <1>1, <1>2, <2>1
<1>3. CASE S # {}
  <2> DEFINE x == CHOOSE y \in S : TRUE
  <2>1. x \in S /\ Sums(f, S)[S] = f[x] + Sums(f, S)[S \ {x}]
    BY <1>1, <1>3, IterationStep
  <2> HIDE DEF x
  <2> DEFINE R == S \ {x}
  <2>2. IsFiniteSet(R) /\ R \in SUBSET (S \cap R)
    BY FS_Subset
  <2>3. IsIteration(Sums(f, R), f, R) /\ SumFunctionOnSet(f, R) = Sums(f, R)[R]
    BY <2>2, IterationExists, SumIsIteration
  <2>4. Sums(f, S)[R] = Sums(f, R)[R]
    <3> HIDE DEF R
    <3> QED
      BY <1>1, <2>2, <2>3, IterationsAgree
  <2> QED
    BY <1>1, <2>1, <2>3, <2>4
<1> QED
  BY <1>2, <1>3

LEMMA SumType ==
    ASSUME NEW S, IsFiniteSet(S), NEW f, \A x \in S : f[x] \in Int
    PROVE  SumFunctionOnSet(f, S) \in Int
<1> DEFINE N == {n \in Nat : \A T \in SUBSET S :
                    Cardinality(T) = n => SumFunctionOnSet(f, T) \in Int}
<1>1. \A T \in SUBSET S : IsFiniteSet(T) /\ Cardinality(T) \in Nat
  BY FS_Subset, FS_CardinalityType
<1>2. 0 \in N
  <2>1. \A T \in SUBSET S : Cardinality(T) = 0 => T = {}
    BY <1>1, FS_EmptySet
  <2> QED
    BY <1>1, <2>1, SumChosen
<1>3. ASSUME NEW n \in Nat, n \in N PROVE n + 1 \in N
  <2> SUFFICES ASSUME NEW T \in SUBSET S, Cardinality(T) = n + 1
               PROVE  SumFunctionOnSet(f, T) \in Int
    OBVIOUS
  <2>1. CASE T = {}
    BY <1>1, <2>1, SumChosen
  <2>2. CASE T # {}
    <3>1. PICK x \in T : SumFunctionOnSet(f, T) = f[x] + SumFunctionOnSet(f, T \ {x})
      BY <1>1, <2>2, SumChosen
    <3>2. T \ {x} \in SUBSET S /\ Cardinality(T \ {x}) = n
      BY <1>1, SizeOfRest
    <3>3. SumFunctionOnSet(f, T \ {x}) \in Int
      BY <1>3, <3>2
    <3> QED
      BY <3>1, <3>3
  <2> QED
    BY <2>1, <2>2
<1>4. Nat \subseteq N
  <2> HIDE DEF N
  <2> QED
    BY <1>2, <1>3, SetOfNaturals
<1> QED
  BY <1>1, <1>4

\* Whichever element is taken out, the rest is what is left of the sum.
LEMMA SumRest ==
    ASSUME NEW S, IsFiniteSet(S), NEW f, \A x \in S : f[x] \in Int, NEW x \in S
    PROVE  SumFunctionOnSet(f, S) = f[x] + SumFunctionOnSet(f, S \ {x})
<1> DEFINE sum(T) == SumFunctionOnSet(f, T)
           N == {n \in Nat : \A T \in SUBSET S : Cardinality(T) = n =>
                    \A y \in T : sum(T) = f[y] + sum(T \ {y})}
<1>1. \A T \in SUBSET S : IsFiniteSet(T) /\ Cardinality(T) \in Nat
  BY FS_Subset, FS_CardinalityType
<1>2. \A T \in SUBSET S : sum(T) \in Int
  BY <1>1, SumType
<1>3. 0 \in N
  <2>1. \A T \in SUBSET S : Cardinality(T) = 0 => T = {}
    BY <1>1, FS_EmptySet
  <2> QED
    BY <2>1
<1>4. ASSUME NEW n \in Nat, n \in N PROVE n + 1 \in N
  <2> SUFFICES ASSUME NEW T \in SUBSET S, Cardinality(T) = n + 1, NEW y \in T
               PROVE  sum(T) = f[y] + sum(T \ {y})
    OBVIOUS
  <2>1. PICK z \in T : sum(T) = f[z] + sum(T \ {z})
    BY <1>1, SumChosen
  <2>2. CASE y = z
    BY <2>1, <2>2
  <2>3. CASE y # z
    <3>1. /\ T \ {z} \in SUBSET S /\ Cardinality(T \ {z}) = n /\ y \in T \ {z}
          /\ T \ {y} \in SUBSET S /\ Cardinality(T \ {y}) = n /\ z \in T \ {y}
      BY <1>1, <2>3, SizeOfRest
    <3> HIDE DEF sum
    <3>2. sum(T \ {z}) = f[y] + sum((T \ {z}) \ {y})
      BY <1>4, <3>1
    <3>3. sum(T \ {y}) = f[z] + sum((T \ {y}) \ {z})
      BY <1>4, <3>1
    <3>4. (T \ {z}) \ {y} = (T \ {y}) \ {z} /\ (T \ {z}) \ {y} \in SUBSET S
      OBVIOUS
    <3> DEFINE R == (T \ {z}) \ {y}
    <3>5. f[y] \in Int /\ f[z] \in Int /\ sum(R) \in Int
      BY <1>2, <3>4
    <3>6. sum(T \ {y}) = f[z] + sum(R)
      BY <3>3, <3>4
    <3>7. sum(T) = f[z] + (f[y] + sum(R))
      BY <2>1, <3>2 DEF sum
    <3> HIDE DEF R
    <3> QED
      BY <3>5, <3>6, <3>7
  <2> QED
    BY <2>2, <2>3
<1>5. Nat \subseteq N
  <2> HIDE DEF N
  <2> QED
    BY <1>3, <1>4, SetOfNaturals
<1>6. S \in SUBSET S /\ Cardinality(S) \in N
  BY <1>1, <1>5
<1> QED
  BY <1>6

\* Sums of integers over a finite set: what they are and how they grow.
LEMMA SumProperties ==
    ASSUME NEW S, IsFiniteSet(S), NEW f, \A x \in S : f[x] \in Int
    PROVE  /\ SumFunctionOnSet(f, {}) = 0
           /\ \A T \in SUBSET S :
                 /\ SumFunctionOnSet(f, T) \in Int
                 /\ \A x \in S \ T :
                       SumFunctionOnSet(f, T \cup {x}) = SumFunctionOnSet(f, T) + f[x]
<1>1. SumFunctionOnSet(f, {}) = 0
  BY FS_EmptySet, SumChosen
<1>2. \A T \in SUBSET S : IsFiniteSet(T)
  BY FS_Subset
<1>3. \A T \in SUBSET S : SumFunctionOnSet(f, T) \in Int
  BY <1>2, SumType
<1>4. ASSUME NEW T \in SUBSET S, NEW x \in S \ T
      PROVE  SumFunctionOnSet(f, T \cup {x}) = SumFunctionOnSet(f, T) + f[x]
  <2> DEFINE U == T \cup {x}
  <2>1. U \in SUBSET S /\ x \in U /\ U \ {x} = T /\ IsFiniteSet(U)
    BY <1>2
  <2> HIDE DEF U
  <2>2. SumFunctionOnSet(f, U) = f[x] + SumFunctionOnSet(f, T)
    BY <2>1, SumRest
  <2>3. f[x] \in Int /\ SumFunctionOnSet(f, T) \in Int
    BY <1>3
  <2> QED
    BY <2>2, <2>3 DEF U
<1> QED
  BY <1>1, <1>3, <1>4

\* Sums of two functions that agree on the set.
LEMMA SumSame ==
    ASSUME NEW S, IsFiniteSet(S), NEW f, NEW g,
           \A x \in S : f[x] \in Int /\ g[x] = f[x]
    PROVE  SumFunctionOnSet(f, S) = SumFunctionOnSet(g, S)
<1> DEFINE P == {T \in SUBSET S : SumFunctionOnSet(f, T) = SumFunctionOnSet(g, T)}
<1>1. {} \in P
  BY SumProperties
<1>2. ASSUME NEW T \in SUBSET S, NEW x \in S \ T, T \in P PROVE T \cup {x} \in P
  <2>1. SumFunctionOnSet(f, T \cup {x}) = SumFunctionOnSet(f, T) + f[x]
    BY SumProperties
  <2>2. SumFunctionOnSet(g, T \cup {x}) = SumFunctionOnSet(g, T) + g[x]
    BY SumProperties
  <2> QED
    BY <1>2, <2>1, <2>2
<1>3. SUBSET S \subseteq P
  <2> HIDE DEF P
  <2> QED
    BY <1>1, <1>2, SetOfSubsets
<1> QED
  BY <1>3

\* A sum term by term below another is not greater than that.
LEMMA SumMonotone ==
    ASSUME NEW S, IsFiniteSet(S), NEW f, NEW g,
           \A x \in S : f[x] \in Int /\ g[x] \in Int /\ f[x] <= g[x]
    PROVE  SumFunctionOnSet(f, S) <= SumFunctionOnSet(g, S)
<1> DEFINE P == {T \in SUBSET S : SumFunctionOnSet(f, T) <= SumFunctionOnSet(g, T)}
<1>1. {} \in P
  <2>1. SumFunctionOnSet(f, {}) = 0 /\ SumFunctionOnSet(g, {}) = 0
    BY SumProperties
  <2> QED
    BY <2>1
<1>2. ASSUME NEW T \in SUBSET S, NEW x \in S \ T, T \in P PROVE T \cup {x} \in P
  <2>1. /\ SumFunctionOnSet(f, T \cup {x}) = SumFunctionOnSet(f, T) + f[x]
        /\ SumFunctionOnSet(f, T) \in Int
    BY SumProperties
  <2>2. /\ SumFunctionOnSet(g, T \cup {x}) = SumFunctionOnSet(g, T) + g[x]
        /\ SumFunctionOnSet(g, T) \in Int
    BY SumProperties
  <2> QED
    BY <1>2, <2>1, <2>2
<1>3. SUBSET S \subseteq P
  <2> HIDE DEF P
  <2> QED
    BY <1>1, <1>2, SetOfSubsets
<1> QED
  BY <1>3

\* The sum of two functions.
LEMMA SumOfSums ==
    ASSUME NEW S, IsFiniteSet(S), NEW f, NEW g, NEW h,
           \A x \in S : f[x] \in Int /\ g[x] \in Int /\ h[x] = f[x] + g[x]
    PROVE  SumFunctionOnSet(h, S) = SumFunctionOnSet(f, S) + SumFunctionOnSet(g, S)
<1> DEFINE P == {T \in SUBSET S :
                    SumFunctionOnSet(h, T) = SumFunctionOnSet(f, T) + SumFunctionOnSet(g, T)}
<1>0. \A x \in S : h[x] \in Int
  OBVIOUS
<1>1. {} \in P
  <2>1. SumFunctionOnSet(f, {}) = 0 /\ SumFunctionOnSet(g, {}) = 0 /\ SumFunctionOnSet(h, {}) = 0
    BY <1>0, SumProperties
  <2> QED
    BY <2>1
<1>2. ASSUME NEW T \in SUBSET S, NEW x \in S \ T, T \in P PROVE T \cup {x} \in P
  <2>1. /\ SumFunctionOnSet(f, T \cup {x}) = SumFunctionOnSet(f, T) + f[x]
        /\ SumFunctionOnSet(f, T) \in Int
    BY SumProperties
  <2>2. /\ SumFunctionOnSet(g, T \cup {x}) = SumFunctionOnSet(g, T) + g[x]
        /\ SumFunctionOnSet(g, T) \in Int
    BY SumProperties
  <2>3. SumFunctionOnSet(h, T \cup {x}) = SumFunctionOnSet(h, T) + h[x]
    BY <1>0, SumProperties
  <2> QED
    BY <1>2, <2>1, <2>2, <2>3
<1>3. SUBSET S \subseteq P
  <2> HIDE DEF P
  <2> QED
    BY <1>1, <1>2, SetOfSubsets
<1> QED
  BY <1>3

\* Sums over two sets without common elements.
LEMMA SumOfUnion ==
    ASSUME NEW S, IsFiniteSet(S), NEW A \in SUBSET S, NEW B \in SUBSET S,
           A \cap B = {}, NEW f, \A x \in S : f[x] \in Int
    PROVE  SumFunctionOnSet(f, A \cup B) = SumFunctionOnSet(f, A) + SumFunctionOnSet(f, B)
<1> DEFINE P == {T \in SUBSET B :
                    SumFunctionOnSet(f, A \cup T) = SumFunctionOnSet(f, A) + SumFunctionOnSet(f, T)}
<1>1. {} \in P
  <2>1. SumFunctionOnSet(f, {}) = 0 /\ SumFunctionOnSet(f, A) \in Int /\ A \cup {} = A
    BY SumProperties
  <2> QED
    BY <2>1
<1>2. ASSUME NEW T \in SUBSET B, NEW x \in B \ T, T \in P PROVE T \cup {x} \in P
  <2>1. /\ SumFunctionOnSet(f, T \cup {x}) = SumFunctionOnSet(f, T) + f[x]
        /\ SumFunctionOnSet(f, T) \in Int /\ SumFunctionOnSet(f, A) \in Int
    BY SumProperties
  <2> DEFINE U == A \cup T
  <2>2. U \in SUBSET S /\ x \in S \ U /\ A \cup (T \cup {x}) = U \cup {x}
    OBVIOUS
  <2>3. SumFunctionOnSet(f, U) = SumFunctionOnSet(f, A) + SumFunctionOnSet(f, T)
    BY <1>2
  <2> HIDE DEF U
  <2>4. SumFunctionOnSet(f, U \cup {x}) = SumFunctionOnSet(f, U) + f[x]
    BY <2>2, SumProperties
  <2>5. f[x] \in Int
    BY <2>2
  <2> DEFINE V == A \cup (T \cup {x})
             W == T \cup {x}
  <2>6. SumFunctionOnSet(f, V) = SumFunctionOnSet(f, U) + f[x]
    BY <2>2, <2>4
  <2>7. SumFunctionOnSet(f, W) = SumFunctionOnSet(f, T) + f[x]
    BY <2>1
  <2>8. SumFunctionOnSet(f, V) = SumFunctionOnSet(f, A) + SumFunctionOnSet(f, W)
    <3> HIDE DEF V, W
    <3> QED
      BY <2>1, <2>3, <2>5, <2>6, <2>7
  <2> QED
    BY <2>8
<1>3. SUBSET B \subseteq P
  <2>1. IsFiniteSet(B)
    BY FS_Subset
  <2>2. \A T \in SUBSET B : \A x \in B \ T : T \in P => T \cup {x} \in P
    BY <1>2
  <2> HIDE DEF P
  <2> QED
    BY ONLY <1>1, <2>1, <2>2, SetOfSubsets
<1> QED
  BY <1>3

\* Counting is summing ones.
LEMMA SumOfOnes ==
    ASSUME NEW S, IsFiniteSet(S), NEW f, NEW A \in SUBSET S,
           \A x \in S : f[x] = IF x \in A THEN 1 ELSE 0
    PROVE  SumFunctionOnSet(f, S) = Cardinality(A)
<1> DEFINE P == {T \in SUBSET S : SumFunctionOnSet(f, T) = Cardinality(T \cap A)}
<1>1. {} \in P
  <2>1. SumFunctionOnSet(f, {}) = 0 /\ {} \cap A = {} /\ Cardinality({}) = 0
    BY SumProperties, FS_EmptySet
  <2> QED
    BY <2>1
<1>2. ASSUME NEW T \in SUBSET S, NEW x \in S \ T, T \in P PROVE T \cup {x} \in P
  <2>1. SumFunctionOnSet(f, T \cup {x}) = SumFunctionOnSet(f, T) + f[x]
    BY SumProperties
  <2>2. IsFiniteSet(T \cap A) /\ Cardinality(T \cap A) \in Nat
    BY FS_Subset, FS_CardinalityType
  <2>3. CASE x \in A
    <3>1. (T \cup {x}) \cap A = (T \cap A) \cup {x} /\ x \notin T \cap A
      BY <2>3
    <3>2. Cardinality((T \cap A) \cup {x}) = Cardinality(T \cap A) + 1
      BY <2>2, <3>1, FS_AddElement
    <3>3. SumFunctionOnSet(f, T) = Cardinality(T \cap A) /\ f[x] = 1
      BY <1>2, <2>3
    <3> DEFINE V == (T \cup {x}) \cap A
    <3>5. Cardinality(V) = Cardinality(T \cap A) + 1
      BY <3>1, <3>2
    <3>4. SumFunctionOnSet(f, T \cup {x}) = Cardinality(V)
      <4> HIDE DEF V
      <4> QED
        BY <2>1, <3>5, <3>3
    <3> QED
      BY <3>4
  <2>4. CASE x \notin A
    <3>1. (T \cup {x}) \cap A = T \cap A
      BY <2>4
    <3>2. SumFunctionOnSet(f, T) = Cardinality(T \cap A) /\ f[x] = 0
      BY <1>2, <2>4
    <3> DEFINE V == (T \cup {x}) \cap A
    <3>4. Cardinality(V) = Cardinality(T \cap A)
      BY <3>1
    <3>3. SumFunctionOnSet(f, T \cup {x}) = Cardinality(V)
      <4> HIDE DEF V
      <4> QED
        BY <2>1, <2>2, <3>2, <3>4
    <3> QED
      BY <3>3
  <2> QED
    BY <2>3, <2>4
<1>3. SUBSET S \subseteq P
  <2> HIDE DEF P
  <2> QED
    BY <1>1, <1>2, SetOfSubsets
<1>4. S \in P /\ S \cap A = A
  BY <1>3
<1> QED
  BY <1>4

\* One more at one place.
LEMMA SumOfUpdate ==
    ASSUME NEW S, IsFiniteSet(S), NEW f \in [S -> Int], NEW y \in S, NEW v \in Int
    PROVE  SumFunction([f EXCEPT ![y] = v]) = SumFunction(f) + v - f[y]
<1> DEFINE g == [f EXCEPT ![y] = v]
<1>1. /\ DOMAIN f = S /\ DOMAIN g = S
      /\ \A x \in S : f[x] \in Int /\ g[x] \in Int
      /\ g[y] = v
      /\ \A x \in S \ {y} : g[x] = f[x]
  OBVIOUS
<1>2. SumFunction(f) = SumFunctionOnSet(f, S) /\ SumFunction(g) = SumFunctionOnSet(g, S)
  BY <1>1, Zenon DEF SumFunction
<1> HIDE DEF g
<1>3. SumFunctionOnSet(f, S) = f[y] + SumFunctionOnSet(f, S \ {y})
  BY <1>1, SumRest
<1>4. SumFunctionOnSet(g, S) = g[y] + SumFunctionOnSet(g, S \ {y})
  BY <1>1, SumRest
<1>5. IsFiniteSet(S \ {y})
  BY FS_Subset
<1>6. SumFunctionOnSet(f, S \ {y}) = SumFunctionOnSet(g, S \ {y})
  BY <1>1, <1>5, SumSame
<1>7. SumFunctionOnSet(f, S \ {y}) \in Int /\ f[y] \in Int
  BY <1>1, <1>5, SumType
<1> QED
  BY <1>1, <1>2, <1>3, <1>4, <1>6, <1>7 DEF g

\* The sums over one set of two functions that differ at most at one place.
LEMMA SumOfChange ==
    ASSUME NEW S, IsFiniteSet(S), NEW f, NEW g, NEW y,
           \A x \in S : f[x] \in Int /\ g[x] \in Int,
           \A x \in S \ {y} : g[x] = f[x]
    PROVE  SumFunctionOnSet(g, S) =
               SumFunctionOnSet(f, S) + (IF y \in S THEN g[y] - f[y] ELSE 0)
<1>1. CASE y \in S
  <2>1. /\ SumFunctionOnSet(f, S) = f[y] + SumFunctionOnSet(f, S \ {y})
        /\ SumFunctionOnSet(g, S) = g[y] + SumFunctionOnSet(g, S \ {y})
    BY <1>1, SumRest
  <2>2. IsFiniteSet(S \ {y})
    BY FS_Subset
  <2>3. /\ SumFunctionOnSet(f, S \ {y}) = SumFunctionOnSet(g, S \ {y})
        /\ SumFunctionOnSet(f, S \ {y}) \in Int
    BY <2>2, SumSame, SumType
  <2> QED
    BY <1>1, <2>1, <2>3
<1>2. CASE y \notin S
  <2>1. SumFunctionOnSet(f, S) = SumFunctionOnSet(g, S)
    BY <1>2, SumSame
  <2>2. SumFunctionOnSet(f, S) \in Int
    BY SumType
  <2> QED
    BY <1>2, <2>1, <2>2
<1> QED
  BY <1>1, <1>2

-----------------------------------------------------------------------------
(* Ranks and sorting                                                       *)

\* Sets of predecessors that are comparable and exclude the element itself
\* have all the sizes from 0 up, each once: counting predecessors ranks.
LEMMA RanksAreOnto ==
    ASSUME NEW n \in Nat,
           NEW L \in [1..n -> SUBSET (1..n)],
           \A i \in 1..n : i \notin L[i],
           \A i, j \in 1..n : i # j =>
               \/ i \in L[j] /\ L[i] \subseteq L[j]
               \/ j \in L[i] /\ L[j] \subseteq L[i]
    PROVE  /\ \A i \in 1..n : Cardinality(L[i]) \in 0..(n - 1)
           /\ \A i, j \in 1..n : i \in L[j] => Cardinality(L[i]) < Cardinality(L[j])
           /\ \A i, j \in 1..n : Cardinality(L[i]) = Cardinality(L[j]) => i = j
           /\ \A m \in 0..(n - 1) : \E i \in 1..n : Cardinality(L[i]) = m
<1>1. IsFiniteSet(1..n) /\ Cardinality(1..n) = n
  BY FS_Interval
<1>2. \A i \in 1..n : IsFiniteSet(L[i]) /\ Cardinality(L[i]) \in Nat
  BY <1>1, FS_Subset, FS_CardinalityType
<1>3. \A i \in 1..n : Cardinality(L[i]) \in 0..(n - 1)
  <2> SUFFICES ASSUME NEW i \in 1..n PROVE Cardinality(L[i]) \in 0..(n - 1)
    OBVIOUS
  <2>1. Cardinality(L[i]) <= n
    BY <1>1, FS_Subset
  <2>2. Cardinality(L[i]) # n
    BY <1>1, FS_Subset
  <2> QED
    BY <2>1, <2>2, <1>2
<1>4. ASSUME NEW i \in 1..n, NEW j \in 1..n, i \in L[j]
      PROVE  Cardinality(L[i]) < Cardinality(L[j])
  <2>1. i # j
    BY <1>4
  <2>2. j \notin L[i] \/ ~(L[j] \subseteq L[i])
    BY <1>4
  <2>3. L[i] \subseteq L[j]
    BY <2>1, <2>2
  <2>4. Cardinality(L[i]) <= Cardinality(L[j])
    BY <2>3, <1>2, FS_Subset
  <2>5. Cardinality(L[i]) # Cardinality(L[j])
    BY <2>3, <1>2, <1>4, FS_Subset
  <2> QED
    BY <2>4, <2>5, <1>2
<1>5. ASSUME NEW i \in 1..n, NEW j \in 1..n, Cardinality(L[i]) = Cardinality(L[j])
      PROVE  i = j
  <2> SUFFICES ASSUME i # j PROVE FALSE
    OBVIOUS
  <2>1. i \in L[j] \/ j \in L[i]
    OBVIOUS
  <2> QED
    BY <2>1, <1>4, <1>5, <1>2
<1>6. \A m \in 0..(n - 1) : \E i \in 1..n : Cardinality(L[i]) = m
  <2> DEFINE rank == [i \in 1..n |-> Cardinality(L[i])]
  <2>1. rank \in Injection(1..n, 0..(n - 1))
    BY <1>3, <1>5 DEF Injection, IsInjective
  <2>2. IsFiniteSet(0..(n - 1)) /\ Cardinality(0..(n - 1)) = n
    <3>1. 0 \in Int /\ n - 1 \in Int
      OBVIOUS
    <3>2. /\ IsFiniteSet(0..(n - 1))
          /\ Cardinality(0..(n - 1)) = IF 0 > n - 1 THEN 0 ELSE n - 1 - 0 + 1
      BY <3>1, FS_Interval, Zenon
    <3> QED
      BY <3>2
  <2>3. rank \in Surjection(1..n, 0..(n - 1))
    BY <2>1, <2>2, <1>1, FS_Injection
  <2> QED
    BY <2>3 DEF Surjection
<1> QED
  BY <1>3, <1>4, <1>5, <1>6

\* Vector(seq) is seq.
LEMMA VectorIsSame ==
    ASSUME NEW S, NEW seq \in Seq(S)
    PROVE  Vector(seq) = seq
<1>1. Len(seq) \in Nat /\ DOMAIN seq = 1..Len(seq) /\ \A i \in 1..Len(seq) : seq[i] \in S
  BY LenProperties
<1>2. /\ Vector(seq) \in Seq(S)
      /\ Len(Vector(seq)) = Len(seq)
      /\ \A i \in 1..Len(seq) : Vector(seq)[i] = seq[i]
  BY <1>1, SubSeqProperties DEF Vector
<1> QED
  BY <1>2, SeqEqual

\* A function on 1..n is a vector, and Vector leaves it alone.
LEMMA VectorOfFunction ==
    ASSUME NEW n \in Nat, NEW S, NEW f \in [1..n -> S]
    PROVE  /\ Vector(f) = f
           /\ f \in Seq(S)
           /\ Len(f) = n
<1>1. f \in Seq(S) /\ Len(f) = n
  OBVIOUS
<1> QED
  BY <1>1, VectorIsSame

LEMMA ReqLessTransitive ==
    ASSUME NEW p, NEW q, NEW r,
           p.addr \in Nat, q.addr \in Nat, r.addr \in Nat,
           p.access_number \in Nat, q.access_number \in Nat, r.access_number \in Nat,
           ReqLess(p, q), ReqLess(q, r)
    PROVE  ReqLess(p, r)
BY DEF ReqLess

\* Requests with distinct access numbers and their order.
DistinctNumbers(reqs) ==
    \A i, j \in 1..Len(reqs) : reqs[i].access_number = reqs[j].access_number => i = j

\* An order in which every place has as many elements before it as are less.
LEMMA RankedPlaces ==
    ASSUME NEW n \in Nat,
           NEW L \in [1..n -> SUBSET (1..n)],
           \A i \in 1..n : i \notin L[i],
           \A i, j \in 1..n : i # j =>
               \/ i \in L[j] /\ L[i] \subseteq L[j]
               \/ j \in L[i] /\ L[j] \subseteq L[i],
           NEW at \in [1..n -> 1..n],
           \A m \in 1..n : Cardinality(L[at[m]]) = m - 1
    PROVE  /\ \A i \in 1..n : \E m \in 1..n : at[m] = i
           /\ \A m, l \in 1..n : m < l => at[m] \in L[at[l]]
<1>1. /\ \A i \in 1..n : Cardinality(L[i]) \in 0..(n - 1)
      /\ \A i, j \in 1..n : i \in L[j] => Cardinality(L[i]) < Cardinality(L[j])
      /\ \A i, j \in 1..n : Cardinality(L[i]) = Cardinality(L[j]) => i = j
  BY RanksAreOnto
<1>2. ASSUME NEW i \in 1..n PROVE \E m \in 1..n : at[m] = i
  <2> DEFINE c == Cardinality(L[i])
             m == c + 1
  <2>0. c \in 0..(n - 1)
    BY <1>1
  <2>1. m \in 1..n /\ c = m - 1
    <3> HIDE DEF c
    <3> QED
      BY <2>0
  <2> HIDE DEF m
  <2>2. at[m] \in 1..n /\ Cardinality(L[at[m]]) = Cardinality(L[i])
    BY <2>1
  <2>3. at[m] = i
    BY <1>1, <2>2
  <2> QED
    BY <2>1, <2>3
<1>3. ASSUME NEW m \in 1..n, NEW l \in 1..n, m < l
      PROVE  at[m] \in L[at[l]]
  <2>1. /\ at[m] \in 1..n /\ Cardinality(L[at[m]]) = m - 1
        /\ at[l] \in 1..n /\ Cardinality(L[at[l]]) = l - 1
    OBVIOUS
  <2>2. at[m] # at[l]
    <3>1. m - 1 # l - 1
      BY <1>3
    <3> QED
      BY <2>1, <3>1
  <2>3. at[l] \notin L[at[m]]
    <3> SUFFICES ASSUME at[l] \in L[at[m]] PROVE FALSE
      OBVIOUS
    <3>1. Cardinality(L[at[l]]) < Cardinality(L[at[m]])
      BY <1>1, <2>1
    <3>2. l - 1 < m - 1
      BY <2>1, <3>1
    <3> QED
      BY <1>3, <3>2
  <2> QED
    BY <2>1, <2>2, <2>3
<1> QED
  BY <1>2, <1>3

\* std::sort on requests: a permutation, in which every element is less than
\* those behind it.
LEMMA SortedRequestsProperties ==
    ASSUME NEW A, A \subseteq Nat,
           NEW reqs \in Seq([addr : A, access_number : Nat]),
           DistinctNumbers(reqs)
    PROVE  /\ SortedRequests(reqs) \in Seq([addr : A, access_number : Nat])
           /\ Len(SortedRequests(reqs)) = Len(reqs)
           /\ \A m \in 1..Len(reqs) : \E i \in 1..Len(reqs) :
                  SortedRequests(reqs)[m] = reqs[i]
           /\ \A i \in 1..Len(reqs) : \E m \in 1..Len(reqs) :
                  SortedRequests(reqs)[m] = reqs[i]
           /\ \A m, l \in 1..Len(reqs) : m < l =>
                  ReqLess(SortedRequests(reqs)[m], SortedRequests(reqs)[l])
<1> DEFINE R == [addr : A, access_number : Nat]
           n == Len(reqs)
           lesser(i) == {j \in 1..n : ReqLess(reqs[j], reqs[i])}
           L == [i \in 1..n |-> lesser(i)]
           place(m) == CHOOSE i \in 1..n : Cardinality(lesser(i)) = m - 1
           at == [m \in 1..n |-> place(m)]
           sorted == [m \in 1..n |-> reqs[place(m)]]
<1>1. n \in Nat /\ \A i \in 1..n : reqs[i] \in R
  BY LenProperties
<1>2. \A i \in 1..n : reqs[i].addr \in Nat /\ reqs[i].access_number \in Nat
  BY <1>1
<1>3. L \in [1..n -> SUBSET (1..n)] /\ \A i \in 1..n : i \notin L[i]
  BY <1>2 DEF ReqLess
<1>4. \A i, j \in 1..n : i # j => ReqLess(reqs[i], reqs[j]) \/ ReqLess(reqs[j], reqs[i])
  BY <1>2 DEF ReqLess, DistinctNumbers, n
<1>5. \A i, j \in 1..n : ReqLess(reqs[i], reqs[j]) => L[i] \subseteq L[j]
  <2>1. ASSUME NEW i \in 1..n, NEW j \in 1..n, NEW k \in 1..n,
               ReqLess(reqs[i], reqs[j]), ReqLess(reqs[k], reqs[i])
        PROVE  ReqLess(reqs[k], reqs[j])
    <3> HIDE DEF n
    <3> QED
      BY <1>2, <2>1, ReqLessTransitive
  <2>2. \A i, k \in 1..n : k \in L[i] <=> ReqLess(reqs[k], reqs[i])
    OBVIOUS
  <2>3. \A i \in 1..n : L[i] \subseteq 1..n
    OBVIOUS
  <2> HIDE DEF n, L
  <2> QED
    BY <2>1, <2>2, <2>3
<1>6. \A i, j \in 1..n : i # j => \/ i \in L[j] /\ L[i] \subseteq L[j]
                                  \/ j \in L[i] /\ L[j] \subseteq L[i]
  BY <1>4, <1>5
<1>7. ASSUME NEW m \in 1..n
      PROVE  place(m) \in 1..n /\ Cardinality(L[place(m)]) = m - 1
  <2>1. \A k \in 0..(n - 1) : \E i \in 1..n : Cardinality(L[i]) = k
    <3> HIDE DEF L, n
    <3> QED
      BY <1>1, <1>3, <1>6, RanksAreOnto
  <2>2. m - 1 \in 0..(n - 1)
    BY <1>1
  <2>3. \E i \in 1..n : Cardinality(L[i]) = m - 1
    BY <2>1, <2>2
  <2>4. \E i \in 1..n : Cardinality(lesser(i)) = m - 1
    BY <2>3
  <2>5. place(m) \in 1..n /\ Cardinality(lesser(place(m))) = m - 1
    <3> HIDE DEF lesser
    <3> QED
      BY <2>4
  <2> QED
    BY <2>5
<1> HIDE DEF place
<1>8. /\ \A i \in 1..n : \E m \in 1..n : at[m] = i
      /\ \A m, l \in 1..n : m < l => at[m] \in L[at[l]]
  <2>1. at \in [1..n -> 1..n] /\ \A m \in 1..n : at[m] = place(m)
    BY <1>7
  <2> HIDE DEF n, L, at
  <2>2. \A m \in 1..n : Cardinality(L[at[m]]) = m - 1
    BY <1>7, <2>1
  <2> QED
    BY <1>1, <1>3, <1>6, <2>1, <2>2, RankedPlaces
<1>9. SortedRequests(reqs) = sorted /\ sorted \in Seq(R) /\ Len(sorted) = n
  <2>1. SortedRequests(reqs) = Vector(sorted)
    BY DEF SortedRequests, SortedBy, place
  <2>2. sorted \in [1..n -> R]
    BY <1>1, <1>7
  <2> HIDE DEF sorted, n, R
  <2>3. sorted \in Seq(R) /\ Len(sorted) = n
    BY <1>1, <2>2, VectorOfFunction
  <2> QED
    BY <2>1, <2>3, VectorIsSame
<1>10. \A m \in 1..n : at[m] \in 1..n /\ sorted[m] = reqs[at[m]]
  BY <1>7
<1>11. \A i, j \in 1..n : i \in L[j] => ReqLess(reqs[i], reqs[j])
  OBVIOUS
<1> HIDE DEF at, sorted, n, L, R
<1>12. /\ \A m \in 1..n : \E i \in 1..n : sorted[m] = reqs[i]
       /\ \A i \in 1..n : \E m \in 1..n : sorted[m] = reqs[i]
       /\ \A m, l \in 1..n : m < l => ReqLess(sorted[m], sorted[l])
  <2>1. \A m \in 1..n : \E i \in 1..n : sorted[m] = reqs[i]
    BY <1>10
  <2>2. ASSUME NEW i \in 1..n PROVE \E m \in 1..n : sorted[m] = reqs[i]
    <3>1. PICK m \in 1..n : at[m] = i
      BY <1>8
    <3> QED
      BY <1>10, <3>1
  <2>3. ASSUME NEW m \in 1..n, NEW l \in 1..n, m < l
        PROVE  ReqLess(sorted[m], sorted[l])
    <3>1. at[m] \in L[at[l]]
      BY <1>8, <2>3
    <3> QED
      BY <1>10, <1>11, <3>1
  <2> QED
    BY <2>1, <2>2, <2>3
<1> QED
  BY <1>9, <1>12 DEF n, R

\* Requests sorted by access number.
LEMMA SortedByNumber ==
    ASSUME NEW R, NEW reqs \in Seq(R), \A r \in R : r.access_number \in Nat,
           DistinctNumbers(reqs)
    PROVE  LET w == SortedBy(reqs, LAMBDA left, right : left.access_number < right.access_number)
           IN  /\ w \in [1..Len(reqs) -> {reqs[i] : i \in 1..Len(reqs)}]
               /\ \A m, l \in 1..Len(reqs) :
                     m < l => w[m].access_number < w[l].access_number
<1> DEFINE n == Len(reqs)
           lesser(i) == {j \in 1..n : reqs[j].access_number < reqs[i].access_number}
           L == [i \in 1..n |-> lesser(i)]
           place(m) == CHOOSE i \in 1..n : Cardinality(lesser(i)) = m - 1
           at == [m \in 1..n |-> place(m)]
           sorted == [m \in 1..n |-> reqs[place(m)]]
<1>1. n \in Nat /\ \A i \in 1..n : reqs[i].access_number \in Nat /\ reqs[i] \in R
  BY LenProperties
<1>2. L \in [1..n -> SUBSET (1..n)] /\ \A i \in 1..n : i \notin L[i]
  BY <1>1
<1>3. \A i, j \in 1..n : i # j => \/ i \in L[j] /\ L[i] \subseteq L[j]
                                  \/ j \in L[i] /\ L[j] \subseteq L[i]
  <2>1. \A i, j \in 1..n : i # j => reqs[i].access_number # reqs[j].access_number
    BY DEF DistinctNumbers
  <2> HIDE DEF n
  <2> QED
    BY <1>1, <2>1, SMTT(30)
<1>4. ASSUME NEW m \in 1..n
      PROVE  place(m) \in 1..n /\ Cardinality(L[place(m)]) = m - 1
  <2>1. \A k \in 0..(n - 1) : \E i \in 1..n : Cardinality(L[i]) = k
    <3> HIDE DEF L, n
    <3> QED
      BY <1>1, <1>2, <1>3, RanksAreOnto
  <2>2. m - 1 \in 0..(n - 1)
    BY <1>1
  <2>3. \E i \in 1..n : Cardinality(L[i]) = m - 1
    BY <2>1, <2>2
  <2>4. \E i \in 1..n : Cardinality(lesser(i)) = m - 1
    BY <2>3
  <2>5. place(m) \in 1..n /\ Cardinality(lesser(place(m))) = m - 1
    <3> HIDE DEF lesser
    <3> QED
      BY <2>4
  <2> QED
    BY <2>5
<1> HIDE DEF place
<1>5. \A m, l \in 1..n : m < l => at[m] \in L[at[l]]
  <2>1. at \in [1..n -> 1..n] /\ \A m \in 1..n : at[m] = place(m)
    BY <1>4
  <2> HIDE DEF n, L, at
  <2>2. \A m \in 1..n : Cardinality(L[at[m]]) = m - 1
    BY <1>4, <2>1
  <2> QED
    BY <1>1, <1>2, <1>3, <2>1, <2>2, RankedPlaces
<1>6. SortedBy(reqs, LAMBDA left, right : left.access_number < right.access_number) = sorted
  <2>1. SortedBy(reqs, LAMBDA left, right : left.access_number < right.access_number)
            = Vector(sorted)
    BY DEF SortedBy, place
  <2>2. sorted \in [1..n -> R]
    BY <1>1, <1>4
  <2> HIDE DEF sorted, n
  <2>3. sorted \in Seq(R) /\ Len(sorted) = n
    BY <1>1, <2>2, VectorOfFunction
  <2> QED
    BY <2>1, <2>3, VectorIsSame
<1>7. sorted \in [1..n -> {reqs[i] : i \in 1..n}]
  BY <1>4
<1>8. \A m, l \in 1..n : m < l => sorted[m].access_number < sorted[l].access_number
  <2>1. \A m \in 1..n : at[m] \in 1..n /\ sorted[m] = reqs[at[m]]
    BY <1>4
  <2>2. \A i, j \in 1..n : i \in L[j] => reqs[i].access_number < reqs[j].access_number
    OBVIOUS
  <2> HIDE DEF at, sorted, n, L
  <2> QED
    BY <1>5, <2>1, <2>2
<1> HIDE DEF sorted
<1> QED
  BY <1>6, <1>7, <1>8

-----------------------------------------------------------------------------
\* A set of numbers up to n has a greatest element.
LEMMA GreatestExists ==
    ASSUME NEW n \in Nat, NEW S \in SUBSET (1..n), S # {}
    PROVE  \E x \in S : \A y \in S : y <= x
<1> DEFINE less == OpToRel(<, Nat)
           below == {n - x : x \in S}
<1>1. IsWellFoundedOn(less, Nat)
  BY NatLessThanWellFounded
<1>2. \A x, y \in Nat : x < y => <<x, y>> \in less
  BY DEF OpToRel
<1> HIDE DEF less
<1>3. below \subseteq Nat /\ below # {}
  <2>1. PICK x \in S : TRUE
    OBVIOUS
  <2>2. n - x \in below
    BY <2>1
  <2>3. \A y \in S : n - y \in Nat
    OBVIOUS
  <2> QED
    BY <2>2, <2>3
<1>4. PICK b \in below : \A c \in below : ~(<<c, b>> \in less)
  <2> HIDE DEF below
  <2> QED
    BY <1>1, <1>3, WFMin
<1>5. PICK x \in S : b = n - x
  OBVIOUS
<1>6. ASSUME NEW y \in S PROVE y <= x
  <2>1. n - y \in below /\ n - y \in Nat /\ n - x \in Nat
    OBVIOUS
  <2>2. ~(n - y < n - x)
    BY <2>1, <1>2, <1>4, <1>5
  <2> QED
    BY <2>2
<1> QED
  BY <1>6

\* populate_operations returns a vector.
LEMMA PopulateOperationsLen ==
    ASSUME NEW sorted, Len(sorted) \in Nat
    PROVE  Len(PopulateOperations(sorted)) \in Nat
<1> DEFINE n == Len(sorted)
           ops == UncompactedOperations(sorted)
           slots == {k \in 1..Len(ops) : k = 1 \/ ~IsNull(ops[k])}
           kept == Ascending(slots)
<1>1. Len(ops) \in Nat
  <2> DEFINE Writer(k) == {i \in 1..n : (k + 1) \div 2 = sorted[i].access_number}
             Slot(k, i) ==
                 IF k % 2 = 1
                 THEN PrefixOp(sorted[i].access_number - 1,
                               IF FollowsSameAddr(sorted, i) THEN -1 ELSE 0)
                 ELSE IF FollowsSameAddr(sorted, i)
                      THEN PostfixOp(sorted[i-1].access_number)
                      ELSE NoImpact
             f == [k \in 1..2*n |->
                      IF Writer(k) = {} THEN NoImpact
                      ELSE Slot(k, CHOOSE i \in Writer(k) : TRUE)]
  <2>1. ops = Vector(f)
    BY DEF UncompactedOperations
  <2>2. 2 * n \in Nat
    OBVIOUS
  <2>3. f \in [1..2*n -> {f[k] : k \in 1..2*n}]
    <3> HIDE DEF Writer, Slot
    <3> QED
      OBVIOUS
  <2> HIDE DEF f, n
  <2> QED
    BY <2>1, <2>2, <2>3, VectorOfFunction
<1>2. Cardinality(slots) \in Nat
  <2>1. IsFiniteSet(1..Len(ops))
    BY <1>1, FS_Interval
  <2> HIDE DEF ops
  <2> QED
    BY <2>1, FS_Subset, FS_CardinalityType
<1>3. Len(kept) \in Nat
  <2> DEFINE f == [m \in 1..Cardinality(slots) |->
                      CHOOSE k \in slots : Cardinality({j \in slots : j < k}) = m - 1]
  <2> HIDE DEF slots
  <2>1. kept = Vector(f)
    BY DEF Ascending
  <2>2. f \in [1..Cardinality(slots) -> {f[m] : m \in 1..Cardinality(slots)}]
    OBVIOUS
  <2> HIDE DEF f
  <2> QED
    BY <1>2, <2>1, <2>2, VectorOfFunction
<1>4. PopulateOperations(sorted) = Vector([m \in 1..Len(kept) |-> ops[kept[m]]])
  BY DEF PopulateOperations, Compact
<1> DEFINE f == [m \in 1..Len(kept) |-> ops[kept[m]]]
<1>5. f \in [1..Len(kept) -> {f[m] : m \in 1..Len(kept)}]
  <2> HIDE DEF kept, ops
  <2> QED
    OBVIOUS
<1> HIDE DEF f, kept
<1> QED
  BY <1>3, <1>4, <1>5, VectorOfFunction DEF f

-----------------------------------------------------------------------------
(* Logs: vectors of requests that are numbered by position                 *)

Req == [addr : Nat, access_number : Nat]

\* A log: requests whose access numbers are 1..n, each once, in any order.
Log(v) ==
    /\ v \in Seq(Req)
    /\ DistinctNumbers(v)
    /\ \A i \in 1..Len(v) : v[i].access_number \in 1..Len(v)
    /\ \A m \in 1..Len(v) : \E i \in 1..Len(v) : v[i].access_number = m

LEMMA EmptyLog == Log(<<>>)
BY EmptySeq DEF Log, DistinctNumbers

\* An access appended with the next number.
LEMMA AppendToLog ==
    ASSUME NEW v, Log(v), NEW addr \in Nat
    PROVE  LET w == Append(v, [addr |-> addr, access_number |-> Len(v) + 1])
           IN Log(w) /\ Len(w) = Len(v) + 1
<1> DEFINE r == [addr |-> addr, access_number |-> Len(v) + 1]
           w == Append(v, r)
<1>1. v \in Seq(Req) /\ Len(v) \in Nat
  BY LenProperties DEF Log
<1>2. r \in Req /\ r.access_number = Len(v) + 1
  BY <1>1 DEF Req
<1> HIDE DEF r
<1>3. /\ w \in Seq(Req)
      /\ Len(w) = Len(v) + 1
      /\ \A i \in 1..Len(v) : w[i] = v[i]
      /\ w[Len(v) + 1] = r
  BY <1>1, <1>2, AppendProperties
<1> HIDE DEF w
<1>4. \A i \in 1..Len(w) : i \in 1..Len(v) \/ i = Len(v) + 1
  BY <1>1, <1>3
<1>5. DistinctNumbers(w)
  <2> SUFFICES ASSUME NEW i \in 1..Len(w), NEW j \in 1..Len(w),
                      w[i].access_number = w[j].access_number
               PROVE  i = j
    BY DEF DistinctNumbers
  <2>1. \A k \in 1..Len(v) : w[k].access_number \in 1..Len(v)
    BY <1>3 DEF Log
  <2>2. w[Len(v) + 1].access_number = Len(v) + 1
    BY <1>2, <1>3
  <2>3. CASE i \in 1..Len(v) /\ j \in 1..Len(v)
    BY <1>3, <2>3 DEF Log, DistinctNumbers
  <2>4. CASE i = Len(v) + 1 \/ j = Len(v) + 1
    BY <1>1, <1>4, <2>1, <2>2, <2>4
  <2> QED
    BY <1>4, <2>3, <2>4
<1>6. \A i \in 1..Len(w) : w[i].access_number \in 1..Len(w)
  <2> SUFFICES ASSUME NEW i \in 1..Len(w) PROVE w[i].access_number \in 1..Len(w)
    OBVIOUS
  <2>1. CASE i \in 1..Len(v)
    <3>1. w[i].access_number = v[i].access_number /\ v[i].access_number \in 1..Len(v)
      BY <1>3, <2>1 DEF Log
    <3> QED
      BY <1>1, <1>3, <3>1
  <2>2. CASE i = Len(v) + 1
    BY <1>1, <1>2, <1>3, <2>2
  <2> QED
    BY <1>4, <2>1, <2>2
<1>7. \A m \in 1..Len(w) : \E i \in 1..Len(w) : w[i].access_number = m
  <2> SUFFICES ASSUME NEW m \in 1..Len(w)
               PROVE  \E i \in 1..Len(w) : w[i].access_number = m
    OBVIOUS
  <2>1. CASE m \in 1..Len(v)
    <3>1. PICK i \in 1..Len(v) : v[i].access_number = m
      BY <2>1 DEF Log
    <3>2. i \in 1..Len(w) /\ w[i].access_number = m
      BY <1>1, <1>3, <3>1
    <3> QED
      BY <3>2
  <2>2. CASE m = Len(v) + 1
    <3>1. Len(v) + 1 \in 1..Len(w)
      BY <1>1, <1>3
    <3> QED
      BY <1>2, <1>3, <2>2, <3>1
  <2> QED
    BY <1>4, <2>1, <2>2
<1> QED
  BY <1>3, <1>5, <1>6, <1>7 DEF Log, w, r

\* Sorting a log by address leaves it a log.
LEMMA SortedLog ==
    ASSUME NEW v, Log(v)
    PROVE  /\ Log(SortedRequests(v))
           /\ Len(SortedRequests(v)) = Len(v)
           /\ \A l, m \in 1..Len(v) :
                 l < m => ReqLess(SortedRequests(v)[l], SortedRequests(v)[m])
<1> DEFINE w == SortedRequests(v)
<1>1. /\ w \in Seq(Req)
      /\ Len(w) = Len(v)
      /\ \A m \in 1..Len(v) : \E i \in 1..Len(v) : w[m] = v[i]
      /\ \A i \in 1..Len(v) : \E m \in 1..Len(v) : w[m] = v[i]
      /\ \A m, l \in 1..Len(v) : m < l => ReqLess(w[m], w[l])
  BY SortedRequestsProperties DEF Log, Req
<1>2. Len(v) \in Nat /\ \A m \in 1..Len(v) : w[m] \in Req
  BY <1>1, LenProperties
<1> HIDE DEF w
<1>3. ASSUME NEW l \in 1..Len(v), NEW m \in 1..Len(v), l < m
      PROVE  w[l].access_number # w[m].access_number
  <2> SUFFICES ASSUME w[l].access_number = w[m].access_number PROVE FALSE
    OBVIOUS
  <2>1. PICK i \in 1..Len(v) : w[l] = v[i]
    BY <1>1
  <2>2. PICK j \in 1..Len(v) : w[m] = v[j]
    BY <1>1
  <2>3. i = j
    BY <2>1, <2>2 DEF Log, DistinctNumbers
  <2>4. w[l] = w[m] /\ ReqLess(w[l], w[m])
    BY <1>1, <1>3, <2>1, <2>2, <2>3
  <2>5. w[l].addr \in Nat /\ w[l].access_number \in Nat
    BY <1>2 DEF Req
  <2> QED
    BY <2>4, <2>5 DEF ReqLess
<1>6. DistinctNumbers(w)
  <2>1. \A l, m \in 1..Len(v) : l # m => l < m \/ m < l
    BY <1>2
  <2> QED
    BY <1>1, <1>3, <2>1 DEF DistinctNumbers
<1>4. \A i \in 1..Len(v) : w[i].access_number \in 1..Len(v)
  BY <1>1 DEF Log
<1>5. \A m \in 1..Len(v) : \E i \in 1..Len(v) : w[i].access_number = m
  <2> SUFFICES ASSUME NEW m \in 1..Len(v)
               PROVE  \E i \in 1..Len(v) : w[i].access_number = m
    OBVIOUS
  <2>1. PICK i \in 1..Len(v) : v[i].access_number = m
    BY DEF Log
  <2> QED
    BY <1>1, <2>1
<1> QED
  BY <1>1, <1>4, <1>5, <1>6 DEF Log, w

\* The requests of a chunk, numbered by place.
LEMMA NumberedByPlace ==
    ASSUME NEW n \in Nat, NEW addrs \in [1..n -> Nat]
    PROVE  LET v == [i \in 1..n |-> [addr |-> addrs[i], access_number |-> i]]
           IN Log(v) /\ Len(v) = n
<1> DEFINE v == [i \in 1..n |-> [addr |-> addrs[i], access_number |-> i]]
<1>1. v \in [1..n -> Req]
  BY DEF Req
<1>2. \A i \in 1..n : v[i].access_number = i
  OBVIOUS
<1> HIDE DEF v
<1>3. v \in Seq(Req) /\ Len(v) = n
  BY <1>1
<1> QED
  BY <1>2, <1>3 DEF Log, DistinctNumbers, v

-----------------------------------------------------------------------------
(* The operations of a log, slot by slot                                   *)

\* What the request at place i of a sorted log leaves in its two slots.
PrefixOf(v, i) ==
    PrefixOp(v[i].access_number - 1, IF FollowsSameAddr(v, i) THEN -1 ELSE 0)

PostfixOf(v, i) ==
    IF FollowsSameAddr(v, i) THEN PostfixOp(v[i - 1].access_number) ELSE NoImpact

\* The slots of a log are those of its requests, each of one request.
LEMMA LogSlots ==
    ASSUME NEW v, Log(v)
    PROVE  /\ \A i \in 1..Len(v) : /\ 2 * v[i].access_number - 1 \in 1..(2 * Len(v))
                                   /\ 2 * v[i].access_number \in 1..(2 * Len(v))
           /\ \A i, j \in 1..Len(v) :
                  /\ 2 * v[i].access_number - 1 # 2 * v[j].access_number
                  /\ i # j => /\ 2 * v[i].access_number - 1 # 2 * v[j].access_number - 1
                              /\ 2 * v[i].access_number # 2 * v[j].access_number
           /\ \A k \in 1..(2 * Len(v)) : \E i \in 1..Len(v) :
                  \/ k = 2 * v[i].access_number - 1
                  \/ k = 2 * v[i].access_number
<1> DEFINE n == Len(v)
<1>1. /\ n \in Nat
      /\ \A i \in 1..n : v[i].access_number \in 1..n
      /\ \A i, j \in 1..n : i # j => v[i].access_number # v[j].access_number
      /\ \A m \in 1..n : \E i \in 1..n : v[i].access_number = m
  BY LenProperties DEF Log, DistinctNumbers
<1> HIDE DEF n
<1>2. \A i \in 1..n : /\ 2 * v[i].access_number - 1 \in 1..(2 * n)
                      /\ 2 * v[i].access_number \in 1..(2 * n)
  BY <1>1
<1>3. \A a, b \in 1..n : /\ 2 * a - 1 # 2 * b
                         /\ a # b => /\ 2 * a - 1 # 2 * b - 1
                                     /\ 2 * a # 2 * b
  BY <1>1
<1>4. ASSUME NEW k \in 1..(2 * n)
      PROVE  \E i \in 1..n : \/ k = 2 * v[i].access_number - 1
                             \/ k = 2 * v[i].access_number
  <2>1. PICK m \in 1..n : k = 2 * m - 1 \/ k = 2 * m
    <3>1. (k + 1) \div 2 \in 1..n
      BY <1>1
    <3>2. k = 2 * ((k + 1) \div 2) - 1 \/ k = 2 * ((k + 1) \div 2)
      BY <1>1
    <3> QED
      BY <3>1, <3>2
  <2>2. PICK i \in 1..n : v[i].access_number = m
    BY <1>1
  <2> QED
    BY <2>1, <2>2
<1>5. \A i, j \in 1..n :
          /\ 2 * v[i].access_number - 1 # 2 * v[j].access_number
          /\ i # j => /\ 2 * v[i].access_number - 1 # 2 * v[j].access_number - 1
                      /\ 2 * v[i].access_number # 2 * v[j].access_number
  BY <1>1, <1>3
<1> QED
  BY <1>2, <1>4, <1>5 DEF n

\* UncompactedOperations, slot by slot.
LEMMA UncompactedOperationsProperties ==
    ASSUME NEW v, Log(v)
    PROVE  /\ Len(UncompactedOperations(v)) = 2 * Len(v)
           /\ \A i \in 1..Len(v) :
                 /\ UncompactedOperations(v)[2 * v[i].access_number - 1] = PrefixOf(v, i)
                 /\ UncompactedOperations(v)[2 * v[i].access_number] = PostfixOf(v, i)
<1> DEFINE n == Len(v)
           Writer(k) == {i \in 1..n : (k + 1) \div 2 = v[i].access_number}
           Slot(k, i) ==
               IF k % 2 = 1
               THEN PrefixOp(v[i].access_number - 1,
                             IF FollowsSameAddr(v, i) THEN -1 ELSE 0)
               ELSE IF FollowsSameAddr(v, i)
                    THEN PostfixOp(v[i-1].access_number)
                    ELSE NoImpact
           f == [k \in 1..2*n |->
                    IF Writer(k) = {} THEN NoImpact
                    ELSE Slot(k, CHOOSE i \in Writer(k) : TRUE)]
<1>1. /\ n \in Nat
      /\ \A i \in 1..n : v[i].access_number \in 1..n
      /\ \A i, j \in 1..n : v[i].access_number = v[j].access_number => i = j
  BY LenProperties DEF Log, DistinctNumbers
<1>2. UncompactedOperations(v) = Vector(f)
  BY DEF UncompactedOperations
<1>3. f \in [1..2*n -> {f[k] : k \in 1..2*n}]
  <2> HIDE DEF Writer, Slot
  <2> QED
    OBVIOUS
<1>4. UncompactedOperations(v) = f /\ Len(f) = 2 * n
  <2>1. 2 * n \in Nat
    BY <1>1
  <2> HIDE DEF f, n
  <2> QED
    BY <1>2, <1>3, <2>1, VectorOfFunction
<1> HIDE DEF n
<1>5. ASSUME NEW i \in 1..n, NEW k \in 1..2*n, (k + 1) \div 2 = v[i].access_number
      PROVE  f[k] = Slot(k, i)
  <2>1. Writer(k) = {i}
    BY <1>1, <1>5
  <2>2. (CHOOSE j \in Writer(k) : TRUE) = i
    BY <2>1
  <2> HIDE DEF Writer, Slot
  <2> QED
    BY <2>1, <2>2
<1>6. ASSUME NEW i \in 1..n
      PROVE  /\ f[2 * v[i].access_number - 1] = PrefixOf(v, i)
             /\ f[2 * v[i].access_number] = PostfixOf(v, i)
  <2> DEFINE a == v[i].access_number
  <2>1. a \in 1..n
    BY <1>1
  <2>2. /\ 2 * a - 1 \in 1..2*n /\ (2 * a - 1 + 1) \div 2 = a /\ (2 * a - 1) % 2 = 1
        /\ 2 * a \in 1..2*n /\ (2 * a + 1) \div 2 = a /\ (2 * a) % 2 = 0
    <3> HIDE DEF a
    <3> QED
      BY <1>1, <2>1
  <2>3. f[2 * a - 1] = Slot(2 * a - 1, i) /\ f[2 * a] = Slot(2 * a, i)
    <3> HIDE DEF f, Slot
    <3> QED
      BY <1>5, <2>2
  <2>4. Slot(2 * a - 1, i) = PrefixOf(v, i) /\ Slot(2 * a, i) = PostfixOf(v, i)
    BY <2>2 DEF PrefixOf, PostfixOf
  <2> HIDE DEF f, Slot
  <2> QED
    BY <2>3, <2>4
<1> HIDE DEF f
<1> QED
  BY <1>4, <1>6 DEF n

-----------------------------------------------------------------------------
(* Compacting                                                              *)

\* How many elements of S are less than k.
Rank(S, k) == Cardinality({j \in S : j < k})

LEMMA RankProperties ==
    ASSUME NEW N \in Nat, NEW S,
           \A j \in S : j \in Nat /\ 1 <= j /\ j <= N
    PROVE  /\ Cardinality(S) \in Nat
           /\ Rank(S, 1) = 0
           /\ Rank(S, N + 1) = Cardinality(S)
           /\ \A k \in Nat : /\ Rank(S, k) \in Nat
                             /\ k \in S => Rank(S, k + 1) = Rank(S, k) + 1
                             /\ k \notin S => Rank(S, k + 1) = Rank(S, k)
           /\ \A k \in Nat, j \in S : j < k => Rank(S, j) < Rank(S, k)
<1> DEFINE below(k) == {j \in S : j < k}
<1>0. S \subseteq 1..N
  OBVIOUS
<1>1. IsFiniteSet(1..N)
  BY FS_Interval
<1>2. IsFiniteSet(S) /\ Cardinality(S) \in Nat
  BY <1>0, <1>1, FS_Subset, FS_CardinalityType
<1>3. \A k \in Nat : /\ IsFiniteSet(below(k)) /\ Rank(S, k) = Cardinality(below(k))
                     /\ Rank(S, k) \in Nat
  BY <1>2, FS_Subset, FS_CardinalityType DEF Rank
<1>4. Rank(S, 1) = 0
  <2>1. below(1) = {}
    OBVIOUS
  <2> QED
    BY <1>3, <2>1, FS_EmptySet
<1>5. Rank(S, N + 1) = Cardinality(S)
  <2>1. below(N + 1) = S
    OBVIOUS
  <2> QED
    BY <1>3, <2>1
<1>6. ASSUME NEW k \in Nat
      PROVE  /\ k \in S => Rank(S, k + 1) = Rank(S, k) + 1
             /\ k \notin S => Rank(S, k + 1) = Rank(S, k)
  <2>1. CASE k \in S
    <3>1. below(k + 1) = below(k) \cup {k} /\ k \notin below(k)
      <4>1. \A j \in S : j < k + 1 <=> j < k \/ j = k
        OBVIOUS
      <4>2. ~(k < k)
        OBVIOUS
      <4>3. \A j : j \in below(k + 1) <=> j \in below(k) \cup {k}
        BY <2>1, <4>1, Zenon
      <4> QED
        BY <4>2, <4>3, Zenon
    <3>2. Cardinality(below(k) \cup {k}) = Cardinality(below(k)) + 1
      <4> HIDE DEF below
      <4> QED
        BY <1>3, <3>1, FS_AddElement
    <3>3. Rank(S, k + 1) = Cardinality(below(k + 1))
      BY DEF Rank
    <3> HIDE DEF below
    <3> QED
      BY <1>3, <2>1, <3>1, <3>2, <3>3
  <2>2. CASE k \notin S
    <3>1. below(k + 1) = below(k)
      BY <2>2
    <3>2. Rank(S, k + 1) = Cardinality(below(k + 1))
      BY DEF Rank
    <3> HIDE DEF below
    <3> QED
      BY <1>3, <2>2, <3>1, <3>2
  <2> QED
    BY <2>1, <2>2
<1>7. ASSUME NEW k \in Nat, NEW j \in S, j < k
      PROVE  Rank(S, j) < Rank(S, k)
  <2>1. below(j) \subseteq below(k) /\ j \in below(k) /\ j \notin below(j) /\ j \in Nat
    BY <1>7
  <2> HIDE DEF below
  <2>2. /\ Cardinality(below(j)) <= Cardinality(below(k))
        /\ Cardinality(below(j)) # Cardinality(below(k))
    BY <1>3, <2>1, FS_Subset
  <2> QED
    BY <1>3, <2>1, <2>2
<1> QED
  BY <1>2, <1>3, <1>4, <1>5, <1>6, <1>7

\* Ascending lists the elements of a set by their ranks.
LEMMA AscendingProperties ==
    ASSUME NEW N \in Nat, NEW S,
           \A j \in S : j \in Nat /\ 1 <= j /\ j <= N
    PROVE  /\ Len(Ascending(S)) = Cardinality(S)
           /\ \A m \in 1..Cardinality(S) :
                 Ascending(S)[m] \in S /\ Rank(S, Ascending(S)[m]) = m - 1
<1> DEFINE c == Cardinality(S)
           rank == [k \in S |-> Rank(S, k)]
           f == [m \in 1..c |-> CHOOSE k \in S : Cardinality({j \in S : j < k}) = m - 1]
<1>1. /\ c \in Nat /\ IsFiniteSet(S) /\ S \subseteq Nat
      /\ \A k \in S : Rank(S, k) \in 0..(c - 1)
      /\ \A j, k \in S : Rank(S, j) = Rank(S, k) => j = k
  <2>1. IsFiniteSet(S)
    <3>1. IsFiniteSet(1..N)
      BY FS_Interval
    <3>2. S \subseteq 1..N
      OBVIOUS
    <3> QED
      BY <3>1, <3>2, FS_Subset
  <2>2. \A k \in S : k < N + 1 /\ k \in Nat
    OBVIOUS
  <2>3. \A j, k \in S : j # k => j < k \/ k < j
    OBVIOUS
  <2>4. c \in Nat /\ N + 1 \in Nat
    BY RankProperties
  <2>5. \A k \in S : Rank(S, k) \in Nat /\ Rank(S, k) < c
    BY <2>2, <2>4, RankProperties
  <2>6. \A j, k \in S : Rank(S, j) = Rank(S, k) => j = k
    <3>1. \A j, k \in S : j < k => Rank(S, j) < Rank(S, k)
      BY <2>2, RankProperties
    <3> QED
      BY <2>3, <2>5, <3>1
  <2> HIDE DEF c
  <2>7. \A k \in S : Rank(S, k) \in 0..(c - 1)
    BY <2>4, <2>5
  <2> QED
    BY <2>1, <2>2, <2>4, <2>6, <2>7
<1>2. IsFiniteSet(0..(c - 1)) /\ Cardinality(0..(c - 1)) = c
  <2> HIDE DEF c
  <2>1. 0 \in Int /\ c - 1 \in Int
    BY <1>1
  <2>2. /\ IsFiniteSet(0..(c - 1))
        /\ Cardinality(0..(c - 1)) = IF 0 > c - 1 THEN 0 ELSE c - 1 - 0 + 1
    BY <2>1, FS_Interval, Zenon
  <2> QED
    BY <1>1, <2>2
<1>3. rank \in Injection(S, 0..(c - 1))
  BY <1>1 DEF Injection, IsInjective
<1>4. rank \in Surjection(S, 0..(c - 1))
  <2> HIDE DEF rank
  <2> QED
    BY <1>1, <1>2, <1>3, FS_Injection
<1>5. \A m \in 1..c : f[m] \in S /\ Rank(S, f[m]) = m - 1
  <2> SUFFICES ASSUME NEW m \in 1..c PROVE f[m] \in S /\ Rank(S, f[m]) = m - 1
    OBVIOUS
  <2>1. m - 1 \in 0..(c - 1)
    BY <1>1
  <2>2. \E k \in S : Rank(S, k) = m - 1
    BY <1>4, <2>1 DEF Surjection
  <2>3. f[m] = CHOOSE k \in S : Rank(S, k) = m - 1
    BY DEF Rank
  <2> HIDE DEF f
  <2> QED
    BY <2>2, <2>3
<1>6. Ascending(S) = Vector(f)
  BY DEF Ascending
<1>7. f \in [1..c -> S]
  <2>1. f = [m \in 1..c |-> f[m]]
    OBVIOUS
  <2> HIDE DEF f
  <2> QED
    BY <1>5, <2>1
<1> HIDE DEF f, c
<1>8. Ascending(S) = f /\ Len(f) = c
  BY <1>1, <1>6, <1>7, VectorOfFunction
<1> QED
  BY <1>5, <1>8 DEF c


-----------------------------------------------------------------------------
(* The queue of a page table                                               *)

\* A page table with timestamps that are less than t.
TableUntil(table, t) ==
    /\ IsFiniteSet(DOMAIN table)
    /\ table \in [DOMAIN table -> Nat]
    /\ \A a \in DOMAIN table : table[a] < t
    /\ \A a, b \in DOMAIN table : table[a] = table[b] => a = b

\* Pages used later are nearer to the front, and ranks number the pages from 0.
LEMMA UsedSinceNumbersPages ==
    ASSUME NEW t \in Nat, NEW table, TableUntil(table, t)
    PROVE  /\ Cardinality(DOMAIN table) \in Nat
           /\ \A a \in DOMAIN table :
                 UsedSince(table, a) \in 0..(Cardinality(DOMAIN table) - 1)
           /\ \A a, b \in DOMAIN table :
                 table[a] > table[b] <=> UsedSince(table, a) < UsedSince(table, b)
           /\ \A r \in 0..(Cardinality(DOMAIN table) - 1) :
                 \E a \in DOMAIN table : UsedSince(table, a) = r
<1> DEFINE D == DOMAIN table
           n == Cardinality(D)
           later(a) == {b \in D : table[b] > table[a]}
<1>1. IsFiniteSet(D) /\ n \in Nat
  BY FS_CardinalityType DEF TableUntil
<1>2. ASSUME NEW a \in D
      PROVE  /\ UsedSince(table, a) = Cardinality(later(a))
             /\ IsFiniteSet(later(a))
             /\ Cardinality(later(a)) \in 0..(n - 1)
  <2>1. UsedSince(table, a) = Cardinality(later(a))
    BY DEF UsedSince
  <2>2. later(a) \in SUBSET D /\ a \notin later(a)
    BY DEF TableUntil
  <2> HIDE DEF later
  <2>3. IsFiniteSet(later(a)) /\ Cardinality(later(a)) <= n /\ Cardinality(later(a)) # n
    BY <1>1, <2>2, FS_Subset
  <2>4. Cardinality(later(a)) \in Nat
    BY <2>3, FS_CardinalityType
  <2> HIDE DEF n
  <2> QED
    BY <1>1, <2>1, <2>3, <2>4
<1>3. ASSUME NEW a \in D, NEW b \in D, table[a] > table[b]
      PROVE  UsedSince(table, a) < UsedSince(table, b)
  <2>1. later(a) \in SUBSET later(b) /\ a \in later(b) /\ a \notin later(a)
    BY <1>3 DEF TableUntil
  <2> HIDE DEF later
  <2>2. /\ Cardinality(later(a)) <= Cardinality(later(b))
        /\ Cardinality(later(a)) # Cardinality(later(b))
    BY <1>2, <2>1, FS_Subset
  <2> HIDE DEF n
  <2> QED
    BY <1>1, <1>2, <2>2
<1>4. \A a \in D : UsedSince(table, a) \in 0..(n - 1)
  <2> HIDE DEF later, n
  <2> QED
    BY <1>2
<1>5. \A a, b \in D : table[a] > table[b] <=> UsedSince(table, a) < UsedSince(table, b)
  <2> HIDE DEF n
  <2>1. \A a, b \in D : table[a] \in Nat /\ (table[a] = table[b] => a = b)
    BY DEF TableUntil
  <2> QED
    BY <1>1, <1>3, <1>4, <2>1
<1>6. \A r \in 0..(n - 1) : \E a \in D : UsedSince(table, a) = r
  <2> DEFINE rank == [a \in D |-> UsedSince(table, a)]
  <2> HIDE DEF n
  <2>1. \A a, b \in D : UsedSince(table, a) = UsedSince(table, b) => a = b
    <3>1. \A a, b \in D : table[a] \in Nat /\ (table[a] = table[b] => a = b)
      BY DEF TableUntil
    <3> QED
      BY <1>1, <1>3, <1>4, <3>1
  <2>2. rank \in Injection(D, 0..(n - 1))
    BY <1>4, <2>1 DEF Injection, IsInjective
  <2>3. IsFiniteSet(0..(n - 1)) /\ Cardinality(0..(n - 1)) = n
    <3>1. 0 \in Int /\ n - 1 \in Int
      BY <1>1
    <3>2. /\ IsFiniteSet(0..(n - 1))
          /\ Cardinality(0..(n - 1)) = IF 0 > n - 1 THEN 0 ELSE n - 1 - 0 + 1
      BY <3>1, FS_Interval, Zenon
    <3> QED
      BY <1>1, <3>2
  <2>4. rank \in Surjection(D, 0..(n - 1))
    BY <2>2, <2>3, FS_Injection DEF n
  <2> QED
    BY <2>4 DEF Surjection
<1> QED
  BY <1>1, <1>4, <1>5, <1>6

\* PageAt inverts the rank.
LEMMA PageAtHasRank ==
    ASSUME NEW t \in Nat, NEW table, TableUntil(table, t)
    PROVE  /\ \A r \in 0..(Cardinality(DOMAIN table) - 1) :
                 /\ PageAt(table, r) \in DOMAIN table
                 /\ UsedSince(table, PageAt(table, r)) = r
           /\ \A a \in DOMAIN table : PageAt(table, UsedSince(table, a)) = a
<1> DEFINE n == Cardinality(DOMAIN table)
<1>1. ASSUME NEW r \in 0..(n - 1)
      PROVE  PageAt(table, r) \in DOMAIN table /\ UsedSince(table, PageAt(table, r)) = r
  <2>1. \E a \in DOMAIN table : UsedSince(table, a) = r
    BY UsedSinceNumbersPages
  <2> QED
    BY <2>1 DEF PageAt
<1>2. ASSUME NEW a \in DOMAIN table PROVE PageAt(table, UsedSince(table, a)) = a
  <2> DEFINE b == PageAt(table, UsedSince(table, a))
  <2>1. UsedSince(table, a) \in 0..(n - 1) /\ n \in Nat
    BY UsedSinceNumbersPages
  <2>2. b \in DOMAIN table /\ UsedSince(table, b) = UsedSince(table, a)
    BY <1>1, <2>1
  <2> HIDE DEF b
  <2>3. ~(table[a] > table[b]) /\ ~(table[b] > table[a])
    BY <2>1, <2>2, UsedSinceNumbersPages
  <2>4. table[a] = table[b]
    BY <2>2, <2>3 DEF TableUntil
  <2> QED
    BY <2>2, <2>4 DEF TableUntil, b
<1> QED
  BY <1>1, <1>2

-----------------------------------------------------------------------------
(* An access                                                               *)

\* The table after an access at time t.
UsedAt(table, addr, t) ==
    [a \in DOMAIN table \cup {addr} |-> IF a = addr THEN t ELSE table[a]]

\* The place of the queue, counted from 1, that an access closes or adds.
PlaceOf(table, addr) ==
    IF addr \in DOMAIN table THEN UsedSince(table, addr) + 1
    ELSE Cardinality(DOMAIN table) + 1

LEMMA UsedIsTable ==
    ASSUME NEW t \in Nat, NEW table, TableUntil(table, t), NEW addr
    PROVE  /\ TableUntil(UsedAt(table, addr, t), t + 1)
           /\ DOMAIN UsedAt(table, addr, t) = DOMAIN table \cup {addr}
           /\ Cardinality(DOMAIN table) \in Nat
           /\ Cardinality(DOMAIN UsedAt(table, addr, t)) =
                IF addr \in DOMAIN table THEN Cardinality(DOMAIN table)
                ELSE Cardinality(DOMAIN table) + 1
<1> DEFINE u == UsedAt(table, addr, t)
<1>1. DOMAIN u = DOMAIN table \cup {addr}
  BY DEF UsedAt
<1>2. \A a \in DOMAIN u : u[a] = IF a = addr THEN t ELSE table[a]
  BY DEF UsedAt
<1>3. IsFiniteSet(DOMAIN table) /\ Cardinality(DOMAIN table) \in Nat
  BY FS_CardinalityType DEF TableUntil
<1>4. /\ IsFiniteSet(DOMAIN u)
      /\ Cardinality(DOMAIN u) = IF addr \in DOMAIN table THEN Cardinality(DOMAIN table)
                                 ELSE Cardinality(DOMAIN table) + 1
  BY <1>1, <1>3, FS_AddElement
<1>5. u = [a \in DOMAIN u |-> u[a]]
  BY DEF UsedAt
<1> HIDE DEF u
<1>6. TableUntil(u, t + 1)
  BY <1>1, <1>2, <1>4, <1>5 DEF TableUntil
<1> QED
  BY <1>1, <1>3, <1>4, <1>6 DEF u

\* Every page before the one accessed moves back by one.
LEMMA AccessShiftsRanks ==
    ASSUME NEW t \in Nat, NEW table, TableUntil(table, t), NEW addr
    PROVE  LET used == UsedAt(table, addr, t)
           IN  /\ UsedSince(used, addr) = 0
               /\ \A b \in DOMAIN table \ {addr} :
                     UsedSince(used, b) =
                       IF UsedSince(table, b) + 1 < PlaceOf(table, addr)
                       THEN UsedSince(table, b) + 1 ELSE UsedSince(table, b)
<1> DEFINE used == UsedAt(table, addr, t)
           D == DOMAIN table
           n == Cardinality(D)
           later(f, a) == {b \in DOMAIN f : f[b] > f[a]}
<1>1. /\ DOMAIN used = D \cup {addr}
      /\ used[addr] = t
      /\ \A b \in D \ {addr} : used[b] = table[b]
      /\ \A b \in D : table[b] \in Nat /\ table[b] < t
      /\ IsFiniteSet(D)
  BY DEF UsedAt, TableUntil
<1> HIDE DEF used
<1>2. UsedSince(used, addr) = 0
  <2>1. later(used, addr) = {}
    BY <1>1
  <2> QED
    BY <2>1, FS_EmptySet DEF UsedSince
<1>3. ASSUME NEW b \in D \ {addr}
      PROVE  UsedSince(used, b) = IF UsedSince(table, b) + 1 < PlaceOf(table, addr)
                                  THEN UsedSince(table, b) + 1 ELSE UsedSince(table, b)
  <2>1. /\ UsedSince(used, b) = Cardinality(later(used, b))
        /\ UsedSince(table, b) = Cardinality(later(table, b))
    BY DEF UsedSince
  <2>2. later(used, b) = later(table, b) \cup {addr}
    BY <1>1
  <2>3. IsFiniteSet(later(table, b))
    BY <1>1, FS_Subset
  <2>4. addr \in later(table, b) <=> addr \in D /\ table[addr] > table[b]
    OBVIOUS
  <2> HIDE DEF later
  <2>5. UsedSince(used, b) = IF addr \in later(table, b) THEN UsedSince(table, b)
                             ELSE UsedSince(table, b) + 1
    BY <2>1, <2>2, <2>3, FS_AddElement
  <2>6. n \in Nat /\ UsedSince(table, b) \in 0..(n - 1)
    BY UsedSinceNumbersPages
  <2>7. CASE addr \in D
    <3>1. /\ table[addr] > table[b] <=> UsedSince(table, addr) < UsedSince(table, b)
          /\ table[b] > table[addr] <=> UsedSince(table, b) < UsedSince(table, addr)
          /\ UsedSince(table, addr) \in 0..(n - 1)
      BY <2>7, UsedSinceNumbersPages
    <3>2. table[addr] > table[b] \/ table[b] > table[addr]
      BY <1>1, <2>7 DEF TableUntil
    <3>3. PlaceOf(table, addr) = UsedSince(table, addr) + 1
      BY <2>7 DEF PlaceOf
    <3> HIDE DEF n
    <3> QED
      BY <2>4, <2>5, <2>6, <2>7, <3>1, <3>2, <3>3
  <2>8. CASE addr \notin D
    <3>1. PlaceOf(table, addr) = n + 1
      BY <2>8 DEF PlaceOf
    <3> HIDE DEF n
    <3> QED
      BY <2>4, <2>5, <2>6, <2>8, <3>1
  <2> QED
    BY <2>7, <2>8
<1> QED
  BY <1>2, <1>3 DEF used


\* The queue after an access.
LEMMA AccessMovesPage ==
    ASSUME NEW t \in Nat, NEW table, TableUntil(table, t), NEW addr
    PROVE  LET used == UsedAt(table, addr, t)
           IN  \A i \in 0..(Cardinality(DOMAIN used) - 1) :
                  PageAt(used, i) = IF i = 0 THEN addr
                                    ELSE IF i < PlaceOf(table, addr) THEN PageAt(table, i - 1)
                                    ELSE PageAt(table, i)
<1> DEFINE used == UsedAt(table, addr, t)
           D == DOMAIN table
           n == Cardinality(D)
           p == PlaceOf(table, addr)
<1>1. /\ TableUntil(used, t + 1)
      /\ DOMAIN used = D \cup {addr}
      /\ n \in Nat
      /\ Cardinality(DOMAIN used) = IF addr \in D THEN n ELSE n + 1
  BY UsedIsTable
<1>2. /\ UsedSince(used, addr) = 0
      /\ \A b \in D \ {addr} :
            UsedSince(used, b) = IF UsedSince(table, b) + 1 < p
                                 THEN UsedSince(table, b) + 1 ELSE UsedSince(table, b)
  BY AccessShiftsRanks
<1>3. \A a \in DOMAIN used : PageAt(used, UsedSince(used, a)) = a
  <2>1. t + 1 \in Nat
    OBVIOUS
  <2> HIDE DEF used
  <2> QED
    BY <1>1, <2>1, PageAtHasRank
<1>4. /\ addr \in D => UsedSince(table, addr) \in 0..(n - 1) /\ p = UsedSince(table, addr) + 1
      /\ addr \notin D => p = n + 1
  BY UsedSinceNumbersPages DEF PlaceOf
<1>5. \A r \in 0..(n - 1) :
         PageAt(table, r) \in D /\ UsedSince(table, PageAt(table, r)) = r
  BY PageAtHasRank
<1> HIDE DEF used, n, p
<1>6. ASSUME NEW i \in 0..(Cardinality(DOMAIN used) - 1), i # 0
      PROVE  PageAt(used, i) = IF i < p THEN PageAt(table, i - 1) ELSE PageAt(table, i)
  <2> DEFINE r == IF i < p THEN i - 1 ELSE i
             b == PageAt(table, r)
  <2>1. r \in 0..(n - 1) /\ r + 1 # p /\ (r + 1 < p <=> i < p)
    BY <1>1, <1>4, <1>6
  <2>2. b \in D /\ UsedSince(table, b) = r
    BY <1>5, <2>1
  <2>3. b # addr
    BY <1>1, <1>4, <2>1, <2>2
  <2> HIDE DEF b
  <2>4. UsedSince(used, b) = IF r + 1 < p THEN r + 1 ELSE r
    BY <1>2, <2>2, <2>3
  <2>5. UsedSince(used, b) = i
    BY <1>1, <1>6, <2>1, <2>4
  <2>6. PageAt(used, i) = b
    BY <1>1, <1>3, <2>2, <2>5
  <2> QED
    BY <2>6 DEF b
<1>7. PageAt(used, 0) = addr
  BY <1>1, <1>2, <1>3
<1> QED
  BY <1>6, <1>7 DEF used, p

\* A cache holds the pages of the queue up to its size.
LEMMA FrontProperties ==
    ASSUME NEW t \in Nat, NEW table, TableUntil(table, t), NEW x \in Nat \ {0}
    PROVE  LET m == IF x < Cardinality(DOMAIN table) THEN x ELSE Cardinality(DOMAIN table)
           IN  /\ m \in Nat
               /\ FrontPages(table, x) = [i \in 1..m |-> PageAt(table, i - 1)]
               /\ FrontPages(table, x) \in Seq(DOMAIN table)
               /\ Len(FrontPages(table, x)) = m
<1> DEFINE n == Cardinality(DOMAIN table)
           m == IF x < n THEN x ELSE n
           f == [i \in 1..m |-> PageAt(table, i - 1)]
<1>1. FrontPages(table, x) = f
  BY DEF FrontPages
<1>2. n \in Nat
  BY UsedSinceNumbersPages
<1>3. \A r \in 0..(n - 1) : PageAt(table, r) \in DOMAIN table
  BY PageAtHasRank
<1> HIDE DEF n
<1>4. m \in Nat /\ \A i \in 1..m : i - 1 \in 0..(n - 1)
  BY <1>2
<1>5. f \in [1..m -> DOMAIN table]
  BY <1>3, <1>4
<1> HIDE DEF f, m
<1>6. f \in Seq(DOMAIN table) /\ Len(f) = m
  BY <1>4, <1>5, VectorOfFunction
<1> QED
  BY <1>1, <1>4, <1>6 DEF f, m, n

\* A cache hits the pages that are in front of its size in the queue.
LEMMA FrontHolds ==
    ASSUME NEW t \in Nat, NEW table, TableUntil(table, t), NEW x \in Nat \ {0}, NEW addr
    PROVE  /\ Holds(FrontPages(table, x), addr)
                <=> addr \in DOMAIN table /\ UsedSince(table, addr) < x
           /\ Holds(FrontPages(table, x), addr) =>
                (CHOOSE i \in 1..Len(FrontPages(table, x)) : FrontPages(table, x)[i] = addr)
                  = PlaceOf(table, addr)
<1> DEFINE c == FrontPages(table, x)
           n == Cardinality(DOMAIN table)
           m == IF x < n THEN x ELSE n
<1>1. m \in Nat /\ c = [i \in 1..m |-> PageAt(table, i - 1)] /\ Len(c) = m
  BY FrontProperties
<1>2. n \in Nat
  BY UsedSinceNumbersPages
<1>3. \A r \in 0..(n - 1) :
         PageAt(table, r) \in DOMAIN table /\ UsedSince(table, PageAt(table, r)) = r
  BY PageAtHasRank
<1>4. \A a \in DOMAIN table :
         UsedSince(table, a) \in 0..(n - 1) /\ PageAt(table, UsedSince(table, a)) = a
  BY PageAtHasRank, UsedSinceNumbersPages
<1> HIDE DEF c, n
<1>5. \A i \in 1..m : /\ c[i] \in DOMAIN table
                      /\ UsedSince(table, c[i]) = i - 1
                      /\ i - 1 < x
  <2>1. \A i \in 1..m : i - 1 \in 0..(n - 1) /\ c[i] = PageAt(table, i - 1) /\ i - 1 < x
    BY <1>1, <1>2
  <2> QED
    BY <1>3, <2>1
<1>6. ASSUME addr \in DOMAIN table, UsedSince(table, addr) < x
      PROVE  UsedSince(table, addr) + 1 \in 1..m /\ c[UsedSince(table, addr) + 1] = addr
  BY <1>1, <1>2, <1>4, <1>6
<1>7. Holds(c, addr) <=> addr \in DOMAIN table /\ UsedSince(table, addr) < x
  <2> HIDE DEF m
  <2>1. ASSUME NEW i \in 1..m, c[i] = addr
        PROVE  addr \in DOMAIN table /\ UsedSince(table, addr) < x
    BY <1>5, <2>1
  <2> QED
    BY <1>1, <1>6, <2>1 DEF Holds
<1>8. ASSUME Holds(c, addr)
      PROVE  (CHOOSE i \in 1..Len(c) : c[i] = addr) = PlaceOf(table, addr)
  <2> DEFINE q == CHOOSE i \in 1..Len(c) : c[i] = addr
  <2> HIDE DEF m
  <2>1. \E i \in 1..Len(c) : c[i] = addr
    BY <1>8 DEF Holds
  <2>2. q \in 1..m /\ c[q] = addr
    BY <1>1, <2>1
  <2> HIDE DEF q
  <2>3. addr \in DOMAIN table /\ UsedSince(table, addr) = q - 1
    BY <1>5, <2>2
  <2>4. q = UsedSince(table, addr) + 1
    BY <1>1, <2>2, <2>3
  <2> QED
    BY <2>3, <2>4 DEF PlaceOf, q
<1> QED
  BY <1>7, <1>8 DEF c

\* What an access does to the queue is what it does to each cache.
LEMMA AccessTouchesFront ==
    ASSUME NEW t \in Nat, NEW table, TableUntil(table, t), NEW x \in Nat \ {0}, NEW addr
    PROVE  FrontPages(UsedAt(table, addr, t), x) = Touch(FrontPages(table, x), addr, x)
<1> DEFINE c == FrontPages(table, x)
           used == UsedAt(table, addr, t)
           n == Cardinality(DOMAIN table)
           m == IF x < n THEN x ELSE n
           k == Cardinality(DOMAIN used)
           l == IF x < k THEN x ELSE k
           p == PlaceOf(table, addr)
           displaced == IF Holds(c, addr)
                        THEN CHOOSE i \in 1..Len(c) : c[i] = addr
                        ELSE IF Len(c) = x THEN x ELSE Len(c) + 1
<1>1. n \in Nat /\ k = IF addr \in DOMAIN table THEN n ELSE n + 1
  BY UsedIsTable
<1>2. FrontPages(used, x) = [i \in 1..l |-> PageAt(used, i - 1)]
  BY DEF FrontPages
<1>3. c = [i \in 1..m |-> PageAt(table, i - 1)] /\ Len(c) = m
  BY FrontProperties
<1>4. /\ addr \in DOMAIN table => UsedSince(table, addr) \in 0..(n - 1) /\ p = UsedSince(table, addr) + 1
      /\ addr \notin DOMAIN table => p = n + 1
  BY UsedSinceNumbersPages DEF PlaceOf
<1>5. \A i \in 0..(k - 1) :
         PageAt(used, i) = IF i = 0 THEN addr
                           ELSE IF i < p THEN PageAt(table, i - 1) ELSE PageAt(table, i)
  BY AccessMovesPage
<1>6. Touch(c, addr, x) =
        [i \in 1..(IF displaced > Len(c) THEN displaced ELSE Len(c)) |->
            IF i = 1 THEN addr ELSE IF i <= displaced THEN c[i - 1] ELSE c[i]]
  BY DEF Touch
<1>7. /\ Holds(c, addr) <=> addr \in DOMAIN table /\ UsedSince(table, addr) < x
      /\ Holds(c, addr) => (CHOOSE i \in 1..Len(c) : c[i] = addr) = p
  BY FrontHolds
<1>8. displaced = IF addr \in DOMAIN table /\ UsedSince(table, addr) < x THEN p
                  ELSE IF m = x THEN x ELSE m + 1
  <2> HIDE DEF c, m, p
  <2> QED
    BY <1>3, <1>7
<1> HIDE DEF c, used, n, k, p, displaced
<1>9. (IF displaced > Len(c) THEN displaced ELSE Len(c)) = l
  BY <1>1, <1>3, <1>4, <1>8
<1>10. l \in Nat /\ (displaced = p \/ (displaced = l /\ p > l))
  BY <1>1, <1>3, <1>4, <1>8
<1>11. m \in Nat /\ m <= l /\ l <= m + 1 /\ displaced \in 1..l /\ (l = m + 1 => displaced = l)
  BY <1>1, <1>3, <1>4, <1>8
<1>12. l <= k /\ k \in Nat
  BY <1>1
<1> HIDE DEF l, m
<1>13. ASSUME NEW i \in 1..l
       PROVE  PageAt(used, i - 1) =
                IF i = 1 THEN addr ELSE IF i <= displaced THEN c[i - 1] ELSE c[i]
  <2>1. i - 1 \in 0..(k - 1)
    BY <1>10, <1>12, <1>13
  <2>2. CASE i = 1
    <3>1. i - 1 = 0
      BY <2>2
    <3> QED
      BY <1>5, <2>1, <2>2, <3>1
  <2>3. CASE i # 1 /\ i <= displaced
    <3>1. i - 1 < p /\ i - 1 # 0
      BY <1>4, <1>1, <1>10, <1>11, <1>13, <2>3
    <3>2. PageAt(used, i - 1) = PageAt(table, i - 1 - 1)
      BY <1>5, <2>1, <3>1
    <3>3. i - 1 \in 1..m
      BY <1>10, <1>11, <1>13, <2>3
    <3>4. c[i - 1] = PageAt(table, i - 1 - 1)
      BY <1>3, <3>3
    <3> QED
      BY <2>3, <3>2, <3>4
  <2>4. CASE i # 1 /\ ~(i <= displaced)
    <3>1. ~(i - 1 < p) /\ i - 1 # 0 /\ i \in 1..m
      BY <1>1, <1>4, <1>10, <1>11, <1>13, <2>4
    <3>2. PageAt(used, i - 1) = PageAt(table, i - 1)
      BY <1>5, <2>1, <3>1
    <3>3. c[i] = PageAt(table, i - 1)
      BY <1>3, <3>1
    <3> QED
      BY <2>4, <3>2, <3>3
  <2> QED
    BY <2>2, <2>3, <2>4
<1> QED
  BY <1>2, <1>6, <1>9, <1>13 DEF c, used

-----------------------------------------------------------------------------
(* The trace of a log                                                      *)

LEMMA LogElements ==
    ASSUME NEW v, Log(v)
    PROVE  /\ Len(v) \in Nat
           /\ \A i \in 1..Len(v) : v[i].addr \in Nat /\ v[i].access_number \in 1..Len(v)
           /\ \A m \in 1..Len(v) : \E i \in 1..Len(v) : v[i].access_number = m
           /\ \A i, j \in 1..Len(v) : v[i].access_number = v[j].access_number => i = j
<1>1. v \in Seq(Req) /\ Len(v) \in Nat /\ \A i \in 1..Len(v) : v[i] \in Req
  BY LenProperties DEF Log
<1>2. \A i \in 1..Len(v) : v[i].addr \in Nat
  BY <1>1 DEF Req
<1> QED
  BY <1>1, <1>2 DEF Log, DistinctNumbers

\* The trace as a function of the number of the access.
LEMMA TraceOfLog ==
    ASSUME NEW v, Log(v)
    PROVE  /\ Len(v) \in Nat
           /\ TraceOf(v) \in [1..Len(v) -> Nat]
           /\ \A i \in 1..Len(v) : TraceOf(v)[v[i].access_number] = v[i].addr
           /\ TraceOf(v) \in Seq(Nat)
           /\ Len(TraceOf(v)) = Len(v)
<1> DEFINE n == Len(v)
           place(m) == CHOOSE i \in 1..n : v[i].access_number = m
<1>1. /\ n \in Nat
      /\ \A i \in 1..n : v[i].addr \in Nat /\ v[i].access_number \in 1..n
      /\ \A i, j \in 1..n : v[i].access_number = v[j].access_number => i = j
  BY LogElements
<1> HIDE DEF n
<1>2. \A m \in 1..n : place(m) \in 1..n /\ v[place(m)].access_number = m
  <2>1. \A m \in 1..n : \E i \in 1..n : v[i].access_number = m
    BY LogElements DEF n
  <2> QED
    BY <2>1
<1>3. TraceOf(v) = [m \in 1..n |-> v[place(m)].addr]
  BY DEF TraceOf, RequestNumbered, n
<1> HIDE DEF place
<1>4. TraceOf(v) \in [1..n -> Nat]
  BY <1>1, <1>2, <1>3
<1>5. \A i \in 1..n : place(v[i].access_number) = i
  BY <1>1, <1>2
<1>6. \A i \in 1..n : TraceOf(v)[v[i].access_number] = v[i].addr
  BY <1>1, <1>3, <1>5
<1>7. TraceOf(v) \in Seq(Nat) /\ Len(TraceOf(v)) = n
  BY <1>1, <1>4, VectorOfFunction
<1> QED
  BY <1>1, <1>4, <1>6, <1>7 DEF n

\* A vector sorted by address.
Sorted(v) == \A l, m \in 1..Len(v) : l < m => ReqLess(v[l], v[m])

\* A vector that has no requests but those of another one.
Rearranged(w, v) == Len(w) = Len(v) /\ \A i \in 1..Len(v) : \E j \in 1..Len(v) : w[i] = v[j]

\* Two logs with the same requests have the same trace.
LEMMA SameRequestsSameTrace ==
    ASSUME NEW v, NEW w, Log(v), Log(w), Rearranged(w, v)
    PROVE  TraceOf(w) = TraceOf(v)
<1> DEFINE n == Len(v)
<1>1. /\ TraceOf(v) \in [1..n -> Nat] /\ TraceOf(w) \in [1..n -> Nat]
      /\ \A i \in 1..n : TraceOf(v)[v[i].access_number] = v[i].addr
      /\ \A i \in 1..n : TraceOf(w)[w[i].access_number] = w[i].addr
  BY TraceOfLog DEF Rearranged
<1>2. /\ \A m \in 1..n : \E i \in 1..n : w[i].access_number = m
      /\ \A i \in 1..n : \E j \in 1..n : w[i] = v[j]
  BY LogElements DEF Rearranged
<1> HIDE DEF n
<1>3. ASSUME NEW m \in 1..n PROVE TraceOf(w)[m] = TraceOf(v)[m]
  <2>1. PICK i \in 1..n : w[i].access_number = m
    BY <1>2
  <2>2. PICK j \in 1..n : w[i] = v[j]
    BY <1>2
  <2> QED
    BY <1>1, <2>1, <2>2
<1> DEFINE f == TraceOf(v)
           g == TraceOf(w)
<1>4. f \in [1..n -> Nat] /\ g \in [1..n -> Nat] /\ \A m \in 1..n : g[m] = f[m]
  BY <1>1, <1>3
<1> HIDE DEF f, g
<1>5. f = g
  <2>1. f = [m \in 1..n |-> f[m]] /\ g = [m \in 1..n |-> g[m]]
    BY <1>4
  <2>2. [m \in 1..n |-> f[m]] = [m \in 1..n |-> g[m]]
    BY <1>4
  <2> QED
    BY <2>1, <2>2, Zenon
<1> QED
  BY <1>5 DEF f, g

LEMMA SortedTrace ==
    ASSUME NEW v, Log(v)
    PROVE  TraceOf(SortedRequests(v)) = TraceOf(v)
<1> DEFINE w == SortedRequests(v)
<1>1. Log(w) /\ Len(w) = Len(v)
  BY SortedLog
<1>2. v \in Seq([addr : Nat, access_number : Nat]) /\ DistinctNumbers(v)
  BY DEF Log, Req
<1>3. \A m \in 1..Len(v) : \E i \in 1..Len(v) : w[m] = v[i]
  BY <1>2, SortedRequestsProperties
<1> HIDE DEF w
<1>4. TraceOf(w) = TraceOf(v)
  BY <1>1, <1>3, SameRequestsSameTrace DEF Rearranged
<1> QED
  BY <1>4 DEF w

-----------------------------------------------------------------------------
(* Previous accesses                                                       *)

LEMMA PreviousAccessProperties ==
    ASSUME NEW n \in Nat, NEW trace, NEW i \in 1..n, IsRepeat(trace, i)
    PROVE  /\ PreviousAccess(trace, i) \in 1..(i - 1)
           /\ trace[PreviousAccess(trace, i)] = trace[i]
           /\ \A k \in (PreviousAccess(trace, i) + 1)..(i - 1) : trace[k] # trace[i]
<1> DEFINE S == Earlier(trace, i)
           p == PreviousAccess(trace, i)
<1>1. S = {j \in 1..(i - 1) : trace[j] = trace[i]} /\ S # {}
  BY DEF Earlier, IsRepeat
<1>2. i - 1 \in Nat /\ S \in SUBSET (1..(i - 1))
  BY <1>1
<1>3. p = CHOOSE j \in S : \A k \in S : k <= j
  BY DEF PreviousAccess
<1> HIDE DEF S, p
<1>4. \E j \in S : \A k \in S : k <= j
  BY <1>1, <1>2, GreatestExists
<1>5. p \in S /\ \A k \in S : k <= p
  BY <1>3, <1>4
<1>6. \A k \in (p + 1)..(i - 1) : trace[k] # trace[i]
  BY <1>1, <1>5
<1> QED
  BY <1>1, <1>5, <1>6 DEF p

\* The previous access is the only one with its properties.
LEMMA PreviousAccessIs ==
    ASSUME NEW n \in Nat, NEW trace, NEW i \in 1..n, NEW p \in 1..(i - 1),
           trace[p] = trace[i], \A k \in (p + 1)..(i - 1) : trace[k] # trace[i]
    PROVE  IsRepeat(trace, i) /\ PreviousAccess(trace, i) = p
<1>1. IsRepeat(trace, i)
  BY DEF IsRepeat, Earlier
<1> DEFINE q == PreviousAccess(trace, i)
<1>2. /\ q \in 1..(i - 1)
      /\ trace[q] = trace[i]
      /\ \A k \in (q + 1)..(i - 1) : trace[k] # trace[i]
  BY <1>1, PreviousAccessProperties
<1> HIDE DEF q
<1>3. q = p
  BY <1>2
<1> QED
  BY <1>1, <1>3 DEF q

\* In the sorted vector the previous access of an address is the element before.
LEMMA FollowersAreRepeats ==
    ASSUME NEW v, Log(v), Sorted(v),
           NEW i \in 1..Len(v)
    PROVE  /\ FollowsSameAddr(v, i) <=> IsRepeat(TraceOf(v), v[i].access_number)
           /\ FollowsSameAddr(v, i) =>
                v[i - 1].access_number = PreviousAccess(TraceOf(v), v[i].access_number)
<1> DEFINE n == Len(v)
           trace == TraceOf(v)
           a == v[i].access_number
<1>1. /\ n \in Nat
      /\ \A j \in 1..n : v[j].addr \in Nat /\ v[j].access_number \in 1..n
      /\ \A j \in 1..n : trace[v[j].access_number] = v[j].addr
  BY LogElements, TraceOfLog
<1>0. \A m \in 1..n : \E j \in 1..n : v[j].access_number = m
  BY LogElements
<1>2. \A l, m \in 1..n : l < m =>
         v[l].addr < v[m].addr \/ (v[l].addr = v[m].addr /\ v[l].access_number < v[m].access_number)
  BY DEF ReqLess, Sorted
<1> HIDE DEF trace, n
<1>3. ASSUME FollowsSameAddr(v, i)
      PROVE  IsRepeat(trace, a) /\ v[i - 1].access_number = PreviousAccess(trace, a)
  <2> DEFINE p == v[i - 1].access_number
  <2>1. i - 1 \in 1..n /\ v[i - 1].addr = v[i].addr
    BY <1>1, <1>3 DEF FollowsSameAddr, n
  <2>2. i - 1 < i /\ i \in 1..n /\ a \in 1..n
    BY <1>1 DEF n
  <2>3. p < a
    BY <1>1, <1>2, <2>1, <2>2
  <2>4. p \in 1..(a - 1) /\ trace[p] = trace[a]
    BY <1>1, <2>1, <2>2, <2>3
  <2>5. ASSUME NEW k \in (p + 1)..(a - 1), trace[k] = trace[a] PROVE FALSE
    <3>1. PICK j \in 1..n : v[j].access_number = k
      <4>1. k \in 1..n
        BY <1>1, <2>2, <2>4, <2>5
      <4> QED
        BY <1>0, <4>1
    <3>2. v[j].addr = v[i].addr /\ p < v[j].access_number /\ v[j].access_number < a
      BY <1>1, <2>2, <2>4, <2>5, <3>1
    <3>3. ~(j < i - 1) /\ j # i - 1 /\ ~(i < j) /\ j # i
      BY <1>1, <1>2, <2>1, <2>2, <3>2, SMTT(30)
    <3> QED
      BY <2>1, <2>2, <3>1, <3>3
  <2> HIDE DEF p, a
  <2>6. \A k \in (p + 1)..(a - 1) : trace[k] # trace[a]
    BY <2>5
  <2>7. IsRepeat(trace, a) /\ PreviousAccess(trace, a) = p
    <3>1. n \in Nat /\ a \in 1..n /\ p \in 1..(a - 1) /\ trace[p] = trace[a]
      BY <1>1, <2>2, <2>4
    <3> QED
      BY <3>1, <2>6, PreviousAccessIs, Zenon
  <2> QED
    BY <2>7 DEF p
<1>4. ASSUME IsRepeat(trace, a) PROVE FollowsSameAddr(v, i)
  <2>1. PICK k \in 1..(a - 1) : trace[k] = trace[a]
    BY <1>4 DEF IsRepeat, Earlier
  <2>2. i \in 1..n /\ a \in 1..n
    BY <1>1 DEF n
  <2>3. PICK j \in 1..n : v[j].access_number = k
    <3>1. k \in 1..n
      BY <1>1, <2>1, <2>2
    <3> QED
      BY <1>0, <3>1
  <2>4. v[j].addr = v[i].addr /\ v[j].access_number < a
    BY <1>1, <2>1, <2>2, <2>3
  <2>5. j < i
    BY <1>1, <1>2, <2>2, <2>3, <2>4
  <2>6. i - 1 \in 1..n /\ i - 1 < i /\ (j < i - 1 \/ j = i - 1)
    BY <1>1, <2>2, <2>3, <2>5
  <2>7. v[i - 1].addr = v[i].addr
    BY <1>1, <1>2, <2>2, <2>3, <2>4, <2>6
  <2> QED
    BY <2>2, <2>6, <2>7 DEF FollowsSameAddr
<1> QED
  BY <1>3, <1>4 DEF trace


-----------------------------------------------------------------------------
(* Distances                                                               *)

LEMMA LeastExists ==
    ASSUME NEW S \in SUBSET Nat, S # {}
    PROVE  \E x \in S : \A y \in S : x <= y
<1> DEFINE less == OpToRel(<, Nat)
<1>1. IsWellFoundedOn(less, Nat)
  BY NatLessThanWellFounded
<1>2. \A x, y \in Nat : x < y => <<x, y>> \in less
  BY DEF OpToRel
<1> HIDE DEF less
<1>3. PICK x \in S : \A y \in S : ~(<<y, x>> \in less)
  BY <1>1, WFMin
<1>4. ASSUME NEW y \in S PROVE x <= y
  <2>1. x \in Nat /\ y \in Nat
    OBVIOUS
  <2>2. ~(y < x)
    BY <1>2, <1>3, <2>1
  <2> QED
    BY <2>1, <2>2
<1> QED
  BY <1>4

\* The places of a window where an address is accessed first in the window.
FirstsIn(trace, lo, hi) ==
    {b \in lo..hi : \A c \in lo..(b - 1) : trace[c] # trace[b]}

\* They are as many as the addresses in the window.
LEMMA FirstsCountAddresses ==
    ASSUME NEW trace, NEW lo \in Nat, NEW hi \in Nat
    PROVE  /\ IsFiniteSet({trace[b] : b \in lo..hi})
           /\ Cardinality({trace[b] : b \in lo..hi}) = Cardinality(FirstsIn(trace, lo, hi))
<1> DEFINE F == FirstsIn(trace, lo, hi)
           A == {trace[b] : b \in lo..hi}
           f == [b \in F |-> trace[b]]
<1>1. F \in SUBSET (lo..hi) /\ \A b \in F : \A c \in lo..(b - 1) : trace[c] # trace[b]
  BY DEF FirstsIn
<1>2. IsFiniteSet(F)
  BY <1>1, FS_Interval, FS_Subset
<1>3. ASSUME NEW a \in A PROVE \E b \in F : trace[b] = a
  <2> DEFINE S == {b \in lo..hi : trace[b] = a}
  <2>1. S \in SUBSET Nat /\ S # {}
    OBVIOUS
  <2> HIDE DEF S
  <2>2. PICK b \in S : \A c \in S : b <= c
    BY <2>1, LeastExists
  <2> USE DEF S
  <2>3. b \in lo..hi /\ trace[b] = a
    BY <2>2
  <2>4. \A c \in lo..(b - 1) : trace[c] # trace[b]
    BY <2>2, <2>3
  <2> QED
    BY <2>3, <2>4 DEF FirstsIn
<1>4. \A b, c \in F : trace[b] = trace[c] => b = c
  <2> SUFFICES ASSUME NEW b \in F, NEW c \in F, b < c PROVE trace[b] # trace[c]
    BY <1>1
  <2>1. b \in lo..(c - 1)
    BY <1>1
  <2> QED
    BY <1>1, <2>1
<1>5. \A b \in F : trace[b] \in A
  BY <1>1
<1> HIDE DEF F, A
<1>6. f \in Bijection(F, A)
  BY <1>3, <1>4, <1>5 DEF Bijection, Injection, Surjection, IsInjective
<1>7. IsFiniteSet(A) /\ Cardinality(A) = Cardinality(F)
  BY <1>2, <1>6, FS_Bijection DEF ExistsBijection
<1> QED
  BY <1>7 DEF A, F

\* A distance counts the first accesses since the previous access.
LEMMA DistanceCountsFirsts ==
    ASSUME NEW n \in Nat, NEW trace, NEW i \in 1..n, IsRepeat(trace, i)
    PROVE  Distance(trace, i) =
             Cardinality(FirstsIn(trace, PreviousAccess(trace, i) + 1, i))
<1> DEFINE t == PreviousAccess(trace, i)
<1>1. t \in 1..(i - 1) /\ trace[t] = trace[i]
  BY PreviousAccessProperties
<1>2. Distance(trace, i) = Cardinality({trace[j] : j \in t..(i - 1)})
  BY DEF Distance
<1> HIDE DEF t
<1>3. {trace[j] : j \in t..(i - 1)} = {trace[j] : j \in (t + 1)..i}
  <2>1. ASSUME NEW j \in t..(i - 1) PROVE \E k \in (t + 1)..i : trace[k] = trace[j]
    <3>1. CASE j = t
      BY <1>1, <3>1
    <3>2. CASE j # t
      BY <1>1, <3>2
    <3> QED
      BY <3>1, <3>2
  <2>2. ASSUME NEW j \in (t + 1)..i PROVE \E k \in t..(i - 1) : trace[k] = trace[j]
    <3>1. CASE j = i
      BY <1>1, <3>1
    <3>2. CASE j # i
      BY <1>1, <3>2
    <3> QED
      BY <3>1, <3>2
  <2>3. \A x : x \in {trace[j] : j \in t..(i - 1)} <=> x \in {trace[j] : j \in (t + 1)..i}
    BY <2>1, <2>2
  <2> QED
    BY <2>3
<1>4. t + 1 \in Nat /\ i \in Nat
  BY <1>1
<1>5. Cardinality({trace[j] : j \in (t + 1)..i}) = Cardinality(FirstsIn(trace, t + 1, i))
  BY <1>4, FirstsCountAddresses
<1> QED
  BY <1>2, <1>3, <1>5 DEF t

\* An access after t is the first of its address after t.
FirstSince(trace, t, a) ==
    a > t /\ ~(IsRepeat(trace, a) /\ PreviousAccess(trace, a) > t)

\* Those among the first i accesses.
FirstsSince(trace, t, i) == {a \in 1..i : FirstSince(trace, t, a)}

LEMMA FirstsAreFirstSince ==
    ASSUME NEW n \in Nat, NEW trace, NEW t \in 1..n, NEW i \in 1..n
    PROVE  FirstsIn(trace, t + 1, i) = FirstsSince(trace, t, i)
<1>1. ASSUME NEW a \in (t + 1)..i
      PROVE  (\A c \in (t + 1)..(a - 1) : trace[c] # trace[a]) <=> FirstSince(trace, t, a)
  <2>1. a > t /\ a \in 1..n /\ a \in Nat
    BY <1>1
  <2>2. ASSUME IsRepeat(trace, a), PreviousAccess(trace, a) > t
        PROVE  \E c \in (t + 1)..(a - 1) : trace[c] = trace[a]
    <3>1. PreviousAccess(trace, a) \in 1..(a - 1) /\ trace[PreviousAccess(trace, a)] = trace[a]
      BY <2>1, <2>2, PreviousAccessProperties
    <3>2. PreviousAccess(trace, a) \in (t + 1)..(a - 1)
      BY <2>1, <2>2, <3>1
    <3> QED
      BY <3>1, <3>2
  <2>3. ASSUME NEW c \in (t + 1)..(a - 1), trace[c] = trace[a]
        PROVE  IsRepeat(trace, a) /\ PreviousAccess(trace, a) > t
    <3>1. c \in 1..(a - 1)
      BY <2>1
    <3>2. IsRepeat(trace, a)
      BY <2>3, <3>1 DEF IsRepeat, Earlier
    <3> DEFINE p == PreviousAccess(trace, a)
    <3>3. p \in 1..(a - 1) /\ \A k \in (p + 1)..(a - 1) : trace[k] # trace[a]
      BY <2>1, <3>2, PreviousAccessProperties
    <3> HIDE DEF p
    <3>4. ~(c > p)
      BY <2>1, <2>3, <3>1, <3>3
    <3>5. p > t
      BY <3>1, <3>3, <3>4
    <3> QED
      BY <3>2, <3>5 DEF p
  <2> QED
    BY <2>1, <2>2, <2>3 DEF FirstSince
<1>2. \A a \in 1..i : FirstSince(trace, t, a) => a \in (t + 1)..i
  BY DEF FirstSince
<1>3. \A a \in (t + 1)..i : a \in 1..i
  OBVIOUS
<1>4. \A a : a \in FirstsIn(trace, t + 1, i) <=> a \in FirstsSince(trace, t, i)
  BY <1>1, <1>2, <1>3, Zenon DEF FirstsIn, FirstsSince
<1> QED
  BY <1>4

-----------------------------------------------------------------------------
(* What operations freeze                                                  *)

\* The two slots of every access of a trace.
Slots(ops, trace, n) ==
    \A a \in 1..n :
        /\ ops[2 * a - 1] = PrefixOp(a - 1, IF IsRepeat(trace, a) THEN -1 ELSE 0)
        /\ ops[2 * a] = IF IsRepeat(trace, a) THEN PostfixOp(PreviousAccess(trace, a))
                        ELSE NoImpact

\* All that an operation does to the distance of request j.
Whole(op, j) == Effect(op, j) + op.full

\* What the slots of an access do to the distance of request t: they add 1 for
\* the first access of an address after t.
LEMMA SlotsOfAccess ==
    ASSUME NEW n \in Nat, NEW trace, NEW ops, Slots(ops, trace, n),
           NEW t \in 1..n, NEW a \in 1..n
    PROVE  /\ Whole(ops[2 * a - 1], t) \in Int
           /\ Whole(ops[2 * a], t) \in Int
           /\ Whole(ops[2 * a - 1], t) + Whole(ops[2 * a], t)
                = IF FirstSince(trace, t, a) THEN 1 ELSE 0
<1>1. ops[2 * a - 1] = [type |-> IF a - 1 = 0 THEN "Null" ELSE "Prefix", target |-> a - 1,
                        full |-> IF IsRepeat(trace, a) THEN -1 ELSE 0]
  BY DEF Slots, PrefixOp
<1> DEFINE r == IsRepeat(trace, a)
           p == PreviousAccess(trace, a)
<1>2. r => p \in 1..(a - 1)
  BY PreviousAccessProperties
<1>3. /\ r => ops[2 * a] = [type |-> "Postfix", target |-> p, full |-> 0]
      /\ ~r => ops[2 * a] = [type |-> "Null", target |-> 0, full |-> 0]
  BY DEF Slots, PostfixOp, NoImpact
<1>4. FirstSince(trace, t, a) <=> a > t /\ ~(r /\ p > t)
  BY DEF FirstSince
<1> DEFINE first == ops[2 * a - 1]
           second == ops[2 * a]
<1>5. /\ first.type = IF a - 1 = 0 THEN "Null" ELSE "Prefix"
      /\ first.target = a - 1
      /\ first.full = IF r THEN -1 ELSE 0
  BY <1>1
<1>6. /\ r => second.type = "Postfix" /\ second.target = p /\ second.full = 0
      /\ ~r => second.type = "Null" /\ second.full = 0
  BY <1>3
<1> HIDE DEF r, p, first, second
<1>7. Effect(first, t) = IF t < a THEN 1 ELSE 0
  BY <1>5 DEF Effect, IncAmnt
<1>8. Effect(second, t) = IF r /\ t >= p THEN 1 ELSE 0
  BY <1>6 DEF Effect, IncAmnt
<1>9. /\ Whole(first, t) = (IF t < a THEN 1 ELSE 0) + (IF r THEN -1 ELSE 0)
      /\ Whole(second, t) = (IF r /\ t >= p THEN 1 ELSE 0)
  BY <1>5, <1>6, <1>7, <1>8 DEF Whole
<1>10. a \in Nat /\ t \in Nat
  OBVIOUS
<1>11. /\ Whole(first, t) \in Int
       /\ Whole(second, t) \in Int
       /\ Whole(first, t) + Whole(second, t) = IF FirstSince(trace, t, a) THEN 1 ELSE 0
  BY <1>2, <1>4, <1>9, <1>10
<1> QED
  BY <1>11 DEF first, second

\* What the slots of the accesses up to i do to it.
LEMMA SlotsUpTo ==
    ASSUME NEW n \in Nat, NEW trace, NEW ops, Slots(ops, trace, n),
           NEW t \in 1..n, NEW h,
           \A k \in 1..(2 * n) : h[k] = Whole(ops[k], t)
    PROVE  /\ \A k \in 1..(2 * n) : h[k] \in Int
           /\ \A i \in 0..n : SumFunctionOnSet(h, 1..(2 * i)) =
                                Cardinality(FirstsSince(trace, t, i))
<1> DEFINE F(i) == FirstsSince(trace, t, i)
           S(i) == 1..(2 * i)
           P == {i \in Nat : i <= n => SumFunctionOnSet(h, S(i)) = Cardinality(F(i))}
<1>1. ASSUME NEW k \in 1..(2 * n) PROVE h[k] \in Int
  <2>1. PICK a \in 1..n : k = 2 * a - 1 \/ k = 2 * a
    <3>1. (k + 1) \div 2 \in 1..n /\ (k = 2 * ((k + 1) \div 2) - 1 \/ k = 2 * ((k + 1) \div 2))
      OBVIOUS
    <3> QED
      BY <3>1
  <2>2. Whole(ops[2 * a - 1], t) \in Int /\ Whole(ops[2 * a], t) \in Int
    BY SlotsOfAccess
  <2>3. h[k] = Whole(ops[k], t)
    OBVIOUS
  <2> QED
    BY <2>1, <2>2, <2>3
<1>2. IsFiniteSet(1..(2 * n))
  BY FS_Interval
<1> DEFINE D == 1..(2 * n)
<1>0. \A T \in SUBSET D :
         /\ SumFunctionOnSet(h, T) \in Int
         /\ \A x \in D \ T : SumFunctionOnSet(h, T \cup {x}) = SumFunctionOnSet(h, T) + h[x]
  <2>1. IsFiniteSet(D) /\ \A x \in D : h[x] \in Int
    BY <1>1, <1>2
  <2> HIDE DEF D
  <2> QED
    BY <2>1, SumProperties
<1>3. 0 \in P
  <2>1. S(0) = {} /\ F(0) = {}
    BY DEF FirstsSince
  <2>2. SumFunctionOnSet(h, {}) = 0
    BY <1>1, <1>2, SumProperties
  <2> QED
    BY <2>1, <2>2, FS_EmptySet
<1>4. ASSUME NEW i \in Nat, i \in P PROVE i + 1 \in P
  <2> SUFFICES ASSUME i + 1 <= n
               PROVE  SumFunctionOnSet(h, S(i + 1)) = Cardinality(F(i + 1))
    OBVIOUS
  <2> DEFINE a == i + 1
  <2>1. /\ SumFunctionOnSet(h, S(i)) = Cardinality(F(i))
        /\ a \in 1..n
    BY <1>4
  <2>2. /\ S(i) \in SUBSET (1..(2 * n))
        /\ 2 * a - 1 \in (1..(2 * n)) \ S(i)
        /\ S(i) \cup {2 * a - 1} \in SUBSET (1..(2 * n))
        /\ 2 * a \in (1..(2 * n)) \ (S(i) \cup {2 * a - 1})
        /\ S(a) = (S(i) \cup {2 * a - 1}) \cup {2 * a}
    BY <2>1
  <2> DEFINE first == 2 * a - 1
             second == 2 * a
  <2>3. h[first] = Whole(ops[2 * a - 1], t) /\ h[second] = Whole(ops[2 * a], t)
    BY <2>2
  <2>4. /\ h[first] \in Int /\ h[second] \in Int
        /\ h[first] + h[second] = IF FirstSince(trace, t, a) THEN 1 ELSE 0
    BY <2>1, <2>3, SlotsOfAccess
  <2>5. F(a) = IF FirstSince(trace, t, a) THEN F(i) \cup {a} ELSE F(i)
    <3>1. \A b : b \in 1..a <=> b \in 1..i \/ b = a
      OBVIOUS
    <3> QED
      BY <3>1 DEF FirstsSince
  <2>6. IsFiniteSet(F(i)) /\ a \notin F(i)
    <3>1. IsFiniteSet(1..i) /\ F(i) \in SUBSET (1..i)
      BY FS_Interval DEF FirstsSince
    <3>2. a \notin 1..i
      OBVIOUS
    <3> QED
      BY <3>1, <3>2, FS_Subset
  <2> HIDE DEF F
  <2>7. Cardinality(F(a)) = Cardinality(F(i)) + (IF FirstSince(trace, t, a) THEN 1 ELSE 0)
    <3>1. Cardinality(F(i)) \in Nat
      BY <2>6, FS_CardinalityType
    <3>2. Cardinality(F(i) \cup {a}) = Cardinality(F(i)) + 1
      BY <2>6, FS_AddElement
    <3> HIDE DEF a
    <3> QED
      BY <2>5, <3>1, <3>2
  <2> DEFINE T == S(i)
             U == T \cup {first}
  <2>8. T \in SUBSET D /\ first \in D \ T /\ U \in SUBSET D /\ second \in D \ U /\ S(a) = U \cup {second}
    BY <2>2
  <2> HIDE DEF S, T, D, first, second
  <2>9. /\ SumFunctionOnSet(h, T) \in Int
        /\ SumFunctionOnSet(h, U) = SumFunctionOnSet(h, T) + h[first]
    BY <1>0, <2>8
  <2> HIDE DEF U
  <2>10. SumFunctionOnSet(h, U \cup {second}) = SumFunctionOnSet(h, U) + h[second]
    BY <1>0, <2>8
  <2> HIDE DEF a
  <2>11. SumFunctionOnSet(h, S(a)) = Cardinality(F(a))
    BY <2>1, <2>4, <2>7, <2>8, <2>9, <2>10 DEF T
  <2> QED
    BY <2>11 DEF a
<1>5. Nat \subseteq P
  <2> HIDE DEF P
  <2> QED
    BY <1>3, <1>4, SetOfNaturals
<1>6. \A i \in 0..n : i \in Nat /\ i <= n
  OBVIOUS
<1> QED
  BY <1>1, <1>5, <1>6


\* The distance that a Postfix freezes is what the operations up to it do.
LEMMA FrozenIsWhole ==
    ASSUME NEW m \in Nat \ {0}, NEW ops, NEW t, ops[m].target = t, ops[m].full = 0,
           \A q \in 1..m : ops[q].full \in Int,
           NEW g, \A q \in 1..m : g[q] = Whole(ops[q], t)
    PROVE  FrozenDistance(ops, 1, m) = SumFunctionOnSet(g, 1..m)
<1> DEFINE e == [q \in 1..m |-> Effect(ops[q], t)]
           f == [q \in 1..(m - 1) |-> ops[q].full]
           fs == [q \in 1..m |-> ops[q].full]
           D == 1..m
           E == 1..(m - 1)
<1>1. FrozenDistance(ops, 1, m) = SumFunction(e) + SumFunction(f)
  BY DEF FrozenDistance
<1>2. SumFunction(e) = SumFunctionOnSet(e, D) /\ SumFunction(f) = SumFunctionOnSet(f, E)
  BY Zenon DEF SumFunction
<1>3. /\ IsFiniteSet(D) /\ IsFiniteSet(E) /\ m \in D /\ D \ {m} = E
      /\ \A q \in D : q \in E \/ q = m
      /\ \A q \in E : q \in D
  <2>1. m \in Nat /\ 1 <= m
    OBVIOUS
  <2>2. IsFiniteSet(D) /\ IsFiniteSet(E)
    BY FS_Interval
  <2>3. m \in D /\ \A q : q \in E <=> q \in D /\ q # m
    BY <2>1
  <2> HIDE DEF D, E
  <2>4. D \ {m} = E
    BY <2>3
  <2> QED
    BY <2>2, <2>3, <2>4
<1>4. \A q \in D : Effect(ops[q], t) \in Int
  BY DEF Effect, IncAmnt
<1>5. \A q \in D : e[q] \in Int /\ fs[q] \in Int /\ g[q] = e[q] + fs[q]
  BY <1>4 DEF Whole
<1>6. \A q \in E : f[q] = fs[q] /\ fs[q] \in Int
  BY <1>3
<1>7. fs[m] = 0
  BY <1>3
<1> HIDE DEF e, f, fs, D, E
<1>8. SumFunctionOnSet(g, D) = SumFunctionOnSet(e, D) + SumFunctionOnSet(fs, D)
  BY <1>3, <1>5, SumOfSums
<1>9. SumFunctionOnSet(fs, D) = fs[m] + SumFunctionOnSet(fs, E)
  BY <1>3, <1>5, SumRest
<1>10. SumFunctionOnSet(f, E) = SumFunctionOnSet(fs, E)
  BY <1>3, <1>6, SumSame
<1>11. SumFunctionOnSet(fs, E) \in Int
  BY <1>3, <1>6, SumType
<1>12. FrozenDistance(ops, 1, m) = SumFunctionOnSet(g, D)
  BY <1>1, <1>2, <1>7, <1>8, <1>9, <1>10, <1>11
<1> QED
  BY <1>12 DEF D

\* The values g are those that h has in K, and h has 0 elsewhere in 1..N.
LeavesOutZeros(N, K, h, g) ==
    /\ N \in Nat /\ \A k \in K : k \in Nat /\ 1 <= k /\ k <= N
    /\ \A k \in 1..N : h[k] \in Int /\ (k \notin K => h[k] = 0)
    /\ \A m \in 1..Cardinality(K) : g[m] = h[Ascending(K)[m]]

\* Sums over a vector from which elements with 0 have been removed.
LEMMA SumOfKept ==
    ASSUME NEW N, NEW K, NEW h, NEW g, LeavesOutZeros(N, K, h, g)
    PROVE  \A m \in 1..Cardinality(K) :
              SumFunctionOnSet(g, 1..m) = SumFunctionOnSet(h, 1..Ascending(K)[m])
<1> DEFINE c == Cardinality(K)
           kept == Ascending(K)
           P == {j \in Nat : j <= N =>
                    SumFunctionOnSet(g, 1..Rank(K, j + 1)) = SumFunctionOnSet(h, 1..j)}
<1>0. /\ N \in Nat /\ \A k \in K : k \in Nat /\ 1 <= k /\ k <= N
      /\ \A k \in 1..N : h[k] \in Int /\ (k \notin K => h[k] = 0)
      /\ \A m \in 1..c : g[m] = h[kept[m]]
  BY DEF LeavesOutZeros
<1> USE <1>0
<1>1. /\ c \in Nat
      /\ Rank(K, 1) = 0
      /\ \A k \in Nat : /\ Rank(K, k) \in Nat
                        /\ k \in K => Rank(K, k + 1) = Rank(K, k) + 1
                        /\ k \notin K => Rank(K, k + 1) = Rank(K, k)
  BY RankProperties
<1>2. \A k \in Nat, j \in K : j < k => Rank(K, j) < Rank(K, k)
  BY RankProperties
<1>3. \A m \in 1..c : kept[m] \in K /\ Rank(K, kept[m]) = m - 1
  BY AscendingProperties
<1>4. \A k \in K : k \in 1..N /\ k \in Nat
  OBVIOUS
<1>5. \A k \in 1..N : Rank(K, k) <= c
  <2>1. Rank(K, N + 1) = c
    BY RankProperties
  <2>2. \A k \in 1..N : Rank(K, k) \in Nat
    BY <1>1
  <2>3. IsFiniteSet(K)
    <3>1. IsFiniteSet(1..N) /\ K \in SUBSET (1..N)
      BY <1>4, FS_Interval
    <3> QED
      BY <3>1, FS_Subset
  <2>4. ASSUME NEW k \in 1..N PROVE Rank(K, k) <= c
    <3>1. {j \in K : j < k} \in SUBSET K
      OBVIOUS
    <3> QED
      BY <2>3, <3>1, FS_Subset DEF Rank
  <2> QED
    BY <2>4
<1>6. ASSUME NEW k \in K PROVE Rank(K, k) + 1 \in 1..c /\ kept[Rank(K, k) + 1] = k
  <2>1. Rank(K, k) \in Nat /\ k \in Nat /\ k < N + 1 /\ N + 1 \in Nat
    BY <1>1, <1>4
  <2>2. Rank(K, k) < c
    <3>1. Rank(K, N + 1) = c
      BY RankProperties
    <3> QED
      BY <1>2, <2>1, <3>1
  <2> DEFINE m == Rank(K, k) + 1
  <2>3. m \in 1..c
    BY <1>1, <2>1, <2>2
  <2> HIDE DEF m
  <2>4. kept[m] \in K /\ Rank(K, kept[m]) = m - 1
    BY <1>3, <2>3
  <2> DEFINE q == kept[m]
  <2>9. q \in K /\ Rank(K, q) = m - 1
    BY <2>4
  <2> HIDE DEF q
  <2>10. q \in Nat
    BY <1>4, <2>9
  <2>5. q \in K /\ q \in Nat /\ Rank(K, q) = Rank(K, k)
    BY <2>1, <2>9, <2>10 DEF m
  <2>6. ~(q < k) /\ ~(k < q)
    BY <1>2, <2>1, <2>5
  <2>7. q = k
    BY <2>1, <2>5, <2>6
  <2> QED
    BY <2>3, <2>7 DEF q, m
<1> HIDE DEF c, kept
<1>7. \A m \in 1..c : g[m] = h[kept[m]] /\ g[m] \in Int
  <2>1. \A m \in 1..c : g[m] = h[kept[m]]
    BY DEF c, kept
  <2>2. \A m \in 1..c : kept[m] \in 1..N
    BY <1>3, <1>4
  <2> QED
    BY <2>1, <2>2
<1>8. 0 \in P
  <2>1. 1..Rank(K, 0 + 1) = {} /\ 1..0 = {}
    BY <1>1
  <2>2. SumFunctionOnSet(g, {}) = 0 /\ SumFunctionOnSet(h, {}) = 0
    BY FS_EmptySet, SumProperties
  <2> QED
    BY <2>1, <2>2
<1>9. ASSUME NEW j \in Nat, j \in P PROVE j + 1 \in P
  <2> SUFFICES ASSUME j + 1 <= N
               PROVE  SumFunctionOnSet(g, 1..Rank(K, j + 1 + 1)) = SumFunctionOnSet(h, 1..(j + 1))
    OBVIOUS
  <2> DEFINE k == j + 1
             T == 1..j
             U == 1..k
             r == Rank(K, k)
  <2>1. k \in 1..N /\ k \in Nat /\ IsFiniteSet(U) /\ k \in U /\ U \ {k} = T
        /\ \A q \in U : q \in 1..N
    <3>1. N \in Nat /\ j \in Nat /\ 1 \in Int /\ k \in Int /\ k <= N
      BY <1>0
    <3>2. IsFiniteSet(U)
      BY <3>1, FS_Interval, Zenon
    <3>3. k \in 1..N /\ k \in Nat /\ k \in U /\ U \ {k} = T /\ \A q \in U : q \in 1..N
      BY <3>1
    <3> QED
      BY <3>2, <3>3
  <2>2. SumFunctionOnSet(g, 1..r) = SumFunctionOnSet(h, T)
    BY <1>9
  <2> HIDE DEF k, T, U
  <2>3. SumFunctionOnSet(h, U) = h[k] + SumFunctionOnSet(h, T)
    BY <2>1, SumRest
  <2>4. IsFiniteSet(T) /\ \A q \in T : h[q] \in Int
    BY <2>1, FS_Subset
  <2>5. SumFunctionOnSet(h, T) \in Int
    BY <2>4, SumType
  <2>6. r \in Nat /\ r <= c
    BY <1>1, <1>5, <2>1
  <2>7. SumFunctionOnSet(g, 1..Rank(K, k + 1)) = SumFunctionOnSet(h, U)
    <3>1. CASE k \in K
      <4> DEFINE m == r + 1
                 W == 1..m
      <4>1. Rank(K, k + 1) = m /\ m \in 1..c /\ kept[m] = k
        BY <1>1, <1>6, <2>1, <3>1
      <4> DEFINE V == 1..r
      <4>2. IsFiniteSet(W) /\ m \in W /\ W \ {m} = V /\ \A q \in W : q \in 1..c
        <5> HIDE DEF r
        <5>1. r \in Nat /\ m = r + 1 /\ c \in Nat /\ m <= c
          BY <1>1, <2>6, <4>1
        <5>2. IsFiniteSet(W)
          BY <5>1, FS_Interval
        <5>3. m \in W /\ \A q : q \in V <=> q \in W /\ q # m
          BY <5>1
        <5>4. \A q \in W : q \in 1..c
          BY <5>1
        <5> HIDE DEF m, W, V
        <5>5. W \ {m} = V
          BY <5>3
        <5> QED
          BY <5>2, <5>3, <5>4, <5>5
      <4>9. SumFunctionOnSet(g, V) = SumFunctionOnSet(h, T)
        BY <2>2
      <4> HIDE DEF m, W, V
      <4>3. \A q \in W : g[q] \in Int
        BY <1>7, <4>2
      <4>4. SumFunctionOnSet(g, W) = g[m] + SumFunctionOnSet(g, V)
        BY <4>2, <4>3, SumRest
      <4>5. g[m] = h[k]
        BY <1>7, <4>1
      <4> QED
        BY <2>3, <4>1, <4>4, <4>5, <4>9 DEF W
    <3>2. CASE k \notin K
      <4>1. Rank(K, k + 1) = r /\ h[k] = 0
        BY <1>1, <2>1, <3>2
      <4> QED
        BY <2>2, <2>3, <2>5, <4>1
    <3> QED
      BY <3>1, <3>2
  <2> QED
    BY <2>7 DEF k, U
<1>10. Nat \subseteq P
  <2> HIDE DEF P
  <2> QED
    BY <1>8, <1>9, SetOfNaturals
<1>11. ASSUME NEW m \in 1..c PROVE SumFunctionOnSet(g, 1..m) = SumFunctionOnSet(h, 1..kept[m])
  <2> DEFINE k == kept[m]
  <2>1. k \in K /\ k \in Nat /\ k <= N /\ Rank(K, k) = m - 1
    BY <1>3, <1>4
  <2> HIDE DEF k
  <2>2. Rank(K, k + 1) = m
    BY <1>1, <2>1
  <2>3. SumFunctionOnSet(g, 1..Rank(K, k + 1)) = SumFunctionOnSet(h, 1..k)
    BY <1>10, <2>1
  <2> QED
    BY <2>2, <2>3 DEF k
<1> QED
  BY <1>11 DEF c, kept

\* Every element kept has its place among them.
LEMMA KeptHasPlace ==
    ASSUME NEW N \in Nat, NEW K, \A k \in K : k \in Nat /\ 1 <= k /\ k <= N, NEW k \in K
    PROVE  \E m \in 1..Cardinality(K) : Ascending(K)[m] = k
<1> DEFINE m == Rank(K, k) + 1
           q == Ascending(K)[m]
<1>1. /\ Cardinality(K) \in Nat
      /\ Rank(K, N + 1) = Cardinality(K)
      /\ \A j \in Nat : Rank(K, j) \in Nat
  BY RankProperties
<1>2. \A i \in Nat, j \in K : j < i => Rank(K, j) < Rank(K, i)
  BY RankProperties
<1>3. k \in Nat /\ k < N + 1 /\ N + 1 \in Nat
  OBVIOUS
<1>4. Rank(K, k) \in Nat /\ Rank(K, k) < Cardinality(K)
  BY <1>1, <1>2, <1>3
<1>5. m \in 1..Cardinality(K)
  BY <1>1, <1>4
<1>6. \A l \in 1..Cardinality(K) : Ascending(K)[l] \in K /\ Rank(K, Ascending(K)[l]) = l - 1
  BY AscendingProperties
<1>7. q \in K /\ Rank(K, q) = m - 1
  BY <1>5, <1>6
<1> HIDE DEF q
<1>8. q \in Nat /\ Rank(K, q) = Rank(K, k)
  BY <1>4, <1>7
<1> HIDE DEF m
<1>9. ~(q < k) /\ ~(k < q)
  BY <1>2, <1>3, <1>4, <1>7, <1>8
<1>10. q = k
  BY <1>3, <1>8, <1>9
<1> QED
  BY <1>5, <1>10 DEF q

-----------------------------------------------------------------------------
(* What populate_operations makes of a sorted log                          *)

\* Its vector, before it is compacted, has the slots of the trace.
LEMMA SlotsFromLog ==
    ASSUME NEW v, Log(v), Sorted(v)
    PROVE  /\ Len(UncompactedOperations(v)) = 2 * Len(v)
           /\ Slots(UncompactedOperations(v), TraceOf(v), Len(v))
<1> DEFINE ops == UncompactedOperations(v)
           trace == TraceOf(v)
<1>1. /\ Len(ops) = 2 * Len(v)
      /\ \A i \in 1..Len(v) : /\ ops[2 * v[i].access_number - 1] = PrefixOf(v, i)
                              /\ ops[2 * v[i].access_number] = PostfixOf(v, i)
  BY UncompactedOperationsProperties
<1>2. \A i \in 1..Len(v) :
         /\ FollowsSameAddr(v, i) <=> IsRepeat(trace, v[i].access_number)
         /\ FollowsSameAddr(v, i) =>
                v[i - 1].access_number = PreviousAccess(trace, v[i].access_number)
  BY FollowersAreRepeats
<1>3. \A a \in 1..Len(v) : \E i \in 1..Len(v) : v[i].access_number = a
  BY LogElements
<1> HIDE DEF ops, trace
<1>4. ASSUME NEW a \in 1..Len(v)
      PROVE  /\ ops[2 * a - 1] = PrefixOp(a - 1, IF IsRepeat(trace, a) THEN -1 ELSE 0)
             /\ ops[2 * a] = IF IsRepeat(trace, a) THEN PostfixOp(PreviousAccess(trace, a))
                             ELSE NoImpact
  <2>1. PICK i \in 1..Len(v) : v[i].access_number = a
    BY <1>3
  <2>2. /\ ops[2 * a - 1] = PrefixOf(v, i) /\ ops[2 * a] = PostfixOf(v, i)
        /\ FollowsSameAddr(v, i) <=> IsRepeat(trace, a)
        /\ FollowsSameAddr(v, i) => v[i - 1].access_number = PreviousAccess(trace, a)
    BY <1>1, <1>2, <2>1
  <2> QED
    BY <2>1, <2>2 DEF PrefixOf, PostfixOf
<1>5. Slots(ops, trace, Len(v))
  BY <1>4 DEF Slots
<1> QED
  BY <1>1, <1>5 DEF ops, trace

\* The Postfixes among the slots and those that compacting drops.
LEMMA KindsOfSlots ==
    ASSUME NEW n \in Nat, NEW trace, NEW ops, Slots(ops, trace, n), NEW k \in 1..(2 * n)
    PROVE  /\ ops[k].full \in Int
           /\ ops[k].type = "Postfix" => \E a \in 1..n : k = 2 * a /\ IsRepeat(trace, a)
           /\ IsNull(ops[k]) => k = 1 \/ \A t \in 1..n : Whole(ops[k], t) = 0
<1>1. PICK a \in 1..n : k = 2 * a - 1 \/ k = 2 * a
  <2>1. (k + 1) \div 2 \in 1..n /\ (k = 2 * ((k + 1) \div 2) - 1 \/ k = 2 * ((k + 1) \div 2))
    OBVIOUS
  <2> QED
    BY <2>1
<1> DEFINE op == ops[k]
           r == IsRepeat(trace, a)
           p == PreviousAccess(trace, a)
<1>2. r => p \in 1..(a - 1)
  BY PreviousAccessProperties
<1>3. CASE k = 2 * a - 1
  <2>1. op = [type |-> IF a - 1 = 0 THEN "Null" ELSE "Prefix", target |-> a - 1,
              full |-> IF r THEN -1 ELSE 0]
    BY <1>3 DEF Slots, PrefixOp
  <2>2. /\ op.type = IF a - 1 = 0 THEN "Null" ELSE "Prefix"
        /\ op.target = a - 1 /\ op.full \in Int
    BY <2>1
  <2> HIDE DEF op
  <2>3. op.type # "Postfix" /\ op.full \in Int /\ (IsNull(op) => k = 1)
    BY <1>3, <2>2 DEF IsNull
  <2> QED
    BY <2>3 DEF op
<1>4. CASE k = 2 * a
  <2>1. /\ r => op = [type |-> "Postfix", target |-> p, full |-> 0]
        /\ ~r => op = [type |-> "Null", target |-> 0, full |-> 0]
    BY <1>4 DEF Slots, PostfixOp, NoImpact
  <2>2. /\ op.full = 0
        /\ r => op.target = p
        /\ ~r => op.type = "Null"
    BY <2>1
  <2> HIDE DEF op, p
  <2>3. /\ op.type = "Postfix" => r
        /\ IsNull(op) => \A t \in 1..n : Whole(op, t) = 0
    BY <1>2, <2>2 DEF IsNull, Whole, Effect
  <2> QED
    BY <1>4, <2>2, <2>3 DEF op
<1> QED
  BY <1>1, <1>3, <1>4

\* The operations that a call applies: their Postfixes are those of the
\* repeated accesses, one for each, and freeze their stack distances.
Freezes(ops, trace, n, at) ==
    /\ Len(ops) \in Nat
    /\ \A k \in 1..Len(ops) : ops[k].type = "Postfix" =>
          /\ at[k] \in 1..n /\ IsRepeat(trace, at[k])
          /\ FrozenDistance(ops, 1, k) = Distance(trace, at[k])
    /\ \A k, l \in 1..Len(ops) : at[k] = at[l] /\ ops[k].type = "Postfix"
                                               /\ ops[l].type = "Postfix" => k = l
    /\ \A a \in 1..n : IsRepeat(trace, a) =>
          \E k \in 1..Len(ops) : ops[k].type = "Postfix" /\ at[k] = a

LEMMA OperationsFreezeDistances ==
    ASSUME NEW v, Log(v), Sorted(v)
    PROVE  \E at : Freezes(PopulateOperations(v), TraceOf(v), Len(v), at)
<1> DEFINE n == Len(v)
           trace == TraceOf(v)
           whole == UncompactedOperations(v)
           K == {k \in 1..Len(whole) : k = 1 \/ ~IsNull(whole[k])}
           kept == Ascending(K)
           f == [m \in 1..Len(kept) |-> whole[kept[m]]]
           ops == PopulateOperations(v)
           c == Cardinality(K)
           N == 2 * n
           at == [m \in 1..c |-> kept[m] \div 2]
<1>1. n \in Nat /\ N \in Nat /\ Len(whole) = N /\ Slots(whole, trace, n)
  BY LogElements, SlotsFromLog
<1>2. ops = Vector(f)
  BY DEF PopulateOperations, Compact
<1>3. \A k \in K : k \in Nat /\ 1 <= k /\ k <= N
  BY <1>1
<1>4. \A k \in 1..N : k \in K <=> k = 1 \/ ~IsNull(whole[k])
  BY <1>1
<1> HIDE DEF n, trace, whole, K, kept, ops
<1>5. /\ c \in Nat
      /\ Len(kept) = c
      /\ \A m \in 1..c : kept[m] \in K
      /\ \A m \in 1..c : Rank(K, kept[m]) = m - 1
  BY <1>1, <1>3, AscendingProperties, RankProperties DEF kept
<1>6. \A k \in K : \E m \in 1..c : kept[m] = k
  BY <1>1, <1>3, KeptHasPlace DEF kept
<1> HIDE DEF c
<1>7. Len(ops) = c /\ \A m \in 1..c : ops[m] = whole[kept[m]]
  <2>1. f \in [1..c -> {f[m] : m \in 1..c}] /\ \A m \in 1..c : f[m] = whole[kept[m]]
    BY <1>5
  <2> HIDE DEF f
  <2>2. Vector(f) = f /\ Len(f) = c
    BY <1>5, <2>1, VectorOfFunction
  <2> QED
    BY <1>2, <2>1, <2>2
<1>8. \A m \in 1..c : kept[m] \in 1..N /\ kept[m] \in Nat
  BY <1>3, <1>5
<1>9. ASSUME NEW m \in 1..c, ops[m].type = "Postfix"
      PROVE  /\ at[m] \in 1..n /\ IsRepeat(trace, at[m]) /\ kept[m] = 2 * at[m]
             /\ FrozenDistance(ops, 1, m) = Distance(trace, at[m])
  <2>1. whole[kept[m]].type = "Postfix"
    BY <1>7, <1>9
  <2>2. PICK a \in 1..n : kept[m] = 2 * a /\ IsRepeat(trace, a)
    <3> DEFINE k == kept[m]
    <3>1. k \in 1..(2 * n) /\ whole[k].type = "Postfix"
      BY <1>8, <2>1
    <3> HIDE DEF k
    <3>2. \E a \in 1..n : k = 2 * a /\ IsRepeat(trace, a)
      BY <1>1, <3>1, KindsOfSlots
    <3> QED
      BY <3>2 DEF k
  <2>3. at[m] = a
    BY <1>1, <2>2
  <2> DEFINE t == PreviousAccess(trace, a)
             h == [k \in 1..N |-> Whole(whole[k], t)]
             g == [l \in 1..c |-> Whole(ops[l], t)]
  <2>4. ops[m] = PostfixOp(t)
    BY <1>1, <1>7, <2>2 DEF Slots
  <2>5. ops[m].target = t /\ ops[m].full = 0
    BY <2>4 DEF PostfixOp
  <2>6. t \in 1..n /\ t \in 1..(a - 1)
    BY <1>1, <2>2, PreviousAccessProperties
  <2> HIDE DEF t
  <2>7. \A k \in 1..N : h[k] = Whole(whole[k], t)
    OBVIOUS
  <2>8. \A l \in 1..c : g[l] = h[kept[l]]
    BY <1>7, <1>8
  <2>9. \A l \in 1..m : g[l] = Whole(ops[l], t)
    BY <1>5
  <2> HIDE DEF g, h
  <2>10. /\ \A k \in 1..N : h[k] \in Int
         /\ \A i \in 0..n : SumFunctionOnSet(h, 1..(2 * i)) =
                                Cardinality(FirstsSince(trace, t, i))
    <3>1. t \in 1..n /\ Slots(whole, trace, n) /\ n \in Nat
      BY <1>1, <2>6
    <3>2. \A k \in 1..(2 * n) : h[k] = Whole(whole[k], t)
      BY <2>7
    <3> HIDE DEF whole, f, kept, at
    <3> QED
      BY <3>1, <3>2, SlotsUpTo, SMTT(30)
  <2>11. \A k \in 1..N : k \notin K => h[k] = 0
    BY <1>1, <1>4, <2>6, <2>7, KindsOfSlots
  <2>12. \A l \in 1..m : ops[l].full \in Int
    <3>1. \A l \in 1..m : l \in 1..c
      BY <1>5
    <3>2. \A k \in 1..N : whole[k].full \in Int
      BY <1>1, KindsOfSlots
    <3> QED
      BY <1>7, <1>8, <3>1, <3>2
  <2>13. FrozenDistance(ops, 1, m) = SumFunctionOnSet(g, 1..m)
    <3>1. m \in Nat \ {0}
      OBVIOUS
    <3> QED
      BY <2>5, <2>9, <2>12, <3>1, FrozenIsWhole
  <2>14. SumFunctionOnSet(g, 1..m) = SumFunctionOnSet(h, 1..kept[m])
    <3>1. LeavesOutZeros(N, K, h, g)
      BY <1>1, <1>3, <2>8, <2>10, <2>11 DEF kept, c, LeavesOutZeros
    <3>2. \A l \in 1..Cardinality(K) :
             SumFunctionOnSet(g, 1..l) = SumFunctionOnSet(h, 1..Ascending(K)[l])
      BY <3>1, SumOfKept
    <3> QED
      BY <3>2 DEF kept, c
  <2>15. FrozenDistance(ops, 1, m) = Cardinality(FirstsSince(trace, t, a))
    BY <1>1, <2>2, <2>10, <2>13, <2>14
  <2>16. FirstsIn(trace, t + 1, a) = FirstsSince(trace, t, a)
    BY <1>1, <2>6, FirstsAreFirstSince
  <2>17. Distance(trace, a) = Cardinality(FirstsIn(trace, t + 1, a))
    BY <1>1, <2>2, DistanceCountsFirsts DEF t
  <2> QED
    BY <2>2, <2>3, <2>15, <2>16, <2>17
<1>10. ASSUME NEW k \in 1..c, NEW l \in 1..c, at[k] = at[l],
              ops[k].type = "Postfix", ops[l].type = "Postfix"
       PROVE  k = l
  <2>1. kept[k] = kept[l]
    BY <1>9, <1>10
  <2>2. k - 1 = l - 1
    BY <1>5, <2>1
  <2> QED
    BY <2>2
<1>11. ASSUME NEW a \in 1..n, IsRepeat(trace, a)
       PROVE  \E k \in 1..c : ops[k].type = "Postfix" /\ at[k] = a
  <2>1. 2 * a \in 1..N /\ whole[2 * a] = PostfixOp(PreviousAccess(trace, a))
    BY <1>1, <1>11 DEF Slots
  <2>2. PreviousAccess(trace, a) \in 1..(a - 1)
    BY <1>1, <1>11, PreviousAccessProperties
  <2>3. ~IsNull(whole[2 * a]) /\ whole[2 * a].type = "Postfix"
    BY <2>1, <2>2 DEF IsNull, PostfixOp
  <2>4. PICK k \in 1..c : kept[k] = 2 * a
    BY <1>4, <1>6, <2>1, <2>3
  <2>5. at[k] = a /\ ops[k].type = "Postfix"
    BY <1>1, <1>7, <2>3, <2>4
  <2> QED
    BY <2>5
<1> HIDE DEF at
<1>12. Freezes(ops, trace, n, at)
  BY <1>5, <1>7, <1>9, <1>10, <1>11 DEF Freezes
<1> QED
  BY <1>12 DEF ops, trace, n

-----------------------------------------------------------------------------
(* The histogram of distances and its sums                                 *)

Addresses(trace) == {trace[i] : i \in 1..Len(trace)}

\* update_hits_vector counts the addresses of its requests.
LEMMA UniqueIdsAreAddresses ==
    ASSUME NEW v, Log(v), Sorted(v)
    PROVE  /\ IsFiniteSet(Addresses(TraceOf(v)))
           /\ UniqueIds(v) = Cardinality(Addresses(TraceOf(v)))
           /\ UniqueIds(v) \in Nat
<1> DEFINE n == Len(v)
           trace == TraceOf(v)
           I == {i \in 1..n : ~FollowsSameAddr(v, i)}
           F == FirstsIn(trace, 1, n)
           f == [i \in I |-> v[i].access_number]
<1>1. /\ n \in Nat
      /\ \A i \in 1..n : v[i].access_number \in 1..n
      /\ \A i, j \in 1..n : v[i].access_number = v[j].access_number => i = j
      /\ Len(trace) = n
  BY LogElements, TraceOfLog
<1>2. UniqueIds(v) = Cardinality(I)
  BY DEF UniqueIds
<1>3. IsFiniteSet(I)
  <2>1. IsFiniteSet(1..n)
    BY <1>1, FS_Interval
  <2>2. I \in SUBSET (1..n)
    OBVIOUS
  <2> QED
    BY <2>1, <2>2, FS_Subset
<1>4. \A i \in 1..n : FollowsSameAddr(v, i) <=> IsRepeat(trace, v[i].access_number)
  BY FollowersAreRepeats
<1>5. \A a \in 1..n : \E i \in 1..n : v[i].access_number = a
  BY LogElements
<1>6. \A a \in 1..n : a \in F <=> ~IsRepeat(trace, a)
  BY DEF FirstsIn, IsRepeat, Earlier
<1>7. \A a \in F : a \in 1..n
  BY DEF FirstsIn
<1>8. IsFiniteSet(Addresses(trace)) /\ Cardinality(Addresses(trace)) = Cardinality(F)
  BY <1>1, FirstsCountAddresses DEF Addresses
<1>9. /\ \A i \in I : i \in 1..n
      /\ \A i \in 1..n : i \in I <=> v[i].access_number \in F
  BY <1>1, <1>4, <1>6
<1> HIDE DEF n, trace, F, I
<1>10. f \in Bijection(I, F)
  <2>1. f \in [I -> F]
    BY <1>9
  <2>2. \A i, j \in I : f[i] = f[j] => i = j
    BY <1>1, <1>9
  <2>3. \A a \in F : \E i \in I : f[i] = a
    BY <1>5, <1>7, <1>9
  <2> HIDE DEF f
  <2> QED
    BY <2>1, <2>2, <2>3 DEF Bijection, Injection, Surjection, IsInjective
<1>11. Cardinality(F) = Cardinality(I)
  BY <1>3, <1>10, FS_Bijection DEF ExistsBijection
<1>12. Cardinality(I) \in Nat
  BY <1>3, FS_CardinalityType
<1> QED
  BY <1>2, <1>8, <1>11, <1>12 DEF trace

\* No distance is larger than the number of addresses.
LEMMA DistancesAreSmall ==
    ASSUME NEW trace, Len(trace) \in Nat, IsFiniteSet(Addresses(trace)),
           NEW a \in 1..Len(trace), IsRepeat(trace, a)
    PROVE  Distance(trace, a) \in 1..Cardinality(Addresses(trace))
<1> DEFINE t == PreviousAccess(trace, a)
           A == {trace[j] : j \in t..(a - 1)}
<1>1. t \in 1..(a - 1)
  BY PreviousAccessProperties
<1> HIDE DEF t
<1>2. trace[t] \in A /\ A \in SUBSET Addresses(trace)
  BY <1>1 DEF Addresses
<1>3. Distance(trace, a) = Cardinality(A)
  BY DEF Distance, t
<1> HIDE DEF A
<1>4. /\ IsFiniteSet(A) /\ Cardinality(A) <= Cardinality(Addresses(trace))
      /\ A # {}
  BY <1>2, FS_Subset
<1>5. Cardinality(A) \in Nat /\ Cardinality(Addresses(trace)) \in Nat /\ Cardinality(A) # 0
  BY <1>4, FS_CardinalityType, FS_EmptySet
<1> QED
  BY <1>3, <1>4, <1>5

LEMMA HitsNumber ==
    ASSUME NEW trace, Len(trace) \in Nat, NEW x
    PROVE  HitsWithSize(trace, x) \in Nat
<1> DEFINE S == {i \in Repeats(trace) : Distance(trace, i) <= x}
<1>1. IsFiniteSet(1..Len(trace))
  BY FS_Interval
<1>2. S \in SUBSET (1..Len(trace))
  BY DEF Repeats
<1>3. HitsWithSize(trace, x) = Cardinality(S)
  BY DEF HitsWithSize
<1> HIDE DEF S
<1> QED
  BY <1>1, <1>2, <1>3, FS_Subset, FS_CardinalityType

\* The accesses at the distances up to x are the hits of a cache of x pages.
LEMMA HitsAddUp ==
    ASSUME NEW trace, IsFiniteSet(Repeats(trace)),
           \A a \in Repeats(trace) : Distance(trace, a) \in Nat \ {0},
           NEW N \in Nat, NEW f, \A d \in 1..N : f[d] = AtDistance(trace, d)
    PROVE  \A x \in 0..N : SumFunctionOnSet(f, 1..x) = HitsWithSize(trace, x)
<1> DEFINE R == Repeats(trace)
           below(x) == {a \in R : Distance(trace, a) <= x}
           at(x) == {a \in R : Distance(trace, a) = x}
           P == {x \in Nat : x <= N => SumFunctionOnSet(f, 1..x) = Cardinality(below(x))}
<1> HIDE DEF R
<1>0. IsFiniteSet(R) /\ \A a \in R : Distance(trace, a) \in Nat \ {0}
  BY DEF R
<1>1. ASSUME NEW x PROVE /\ IsFiniteSet(below(x)) /\ Cardinality(below(x)) \in Nat
                         /\ IsFiniteSet(at(x)) /\ Cardinality(at(x)) \in Nat
  <2>1. below(x) \in SUBSET R /\ at(x) \in SUBSET R
    OBVIOUS
  <2> HIDE DEF below, at
  <2> QED
    BY <1>0, <2>1, FS_Subset, FS_CardinalityType
<1>2. 0 \in P
  <2>1. below(0) = {} /\ 1..0 = {}
    BY <1>0
  <2>2. SumFunctionOnSet(f, {}) = 0
    BY FS_EmptySet, SumProperties
  <2> QED
    BY <2>1, <2>2, FS_EmptySet
<1>5. \A q \in 1..N : f[q] = Cardinality(at(q))
  BY DEF AtDistance, R
<1>6. \A q \in 1..N : f[q] \in Int
  <2> HIDE DEF at
  <2>1. \A q \in 1..N : f[q] \in Nat
    BY <1>1, <1>5, Zenon
  <2> QED
    BY <2>1
<1>3. ASSUME NEW x \in Nat, x \in P PROVE x + 1 \in P
  <2> HIDE DEF at, below
  <2> SUFFICES ASSUME x + 1 <= N
               PROVE  SumFunctionOnSet(f, 1..(x + 1)) = Cardinality(below(x + 1))
    OBVIOUS
  <2> DEFINE d == x + 1
             T == 1..x
             U == 1..d
  <2>1. SumFunctionOnSet(f, T) = Cardinality(below(x))
    BY <1>3
  <2>2. f[d] = Cardinality(at(d))
    BY <1>5
  <2>4. \A q \in U : f[q] \in Int
    BY <1>6
  <2>5. d \in U /\ \A q : q \in T <=> q \in U /\ q # d
    OBVIOUS
  <2>6. IsFiniteSet(U)
    BY FS_Interval
  <2>7. \A a : /\ a \in below(d) <=> a \in below(x) \cup at(d)
               /\ ~(a \in below(x) /\ a \in at(d))
    BY <1>0 DEF below, at
  <2>10. SumFunctionOnSet(f, U) = Cardinality(below(d))
    <3> DEFINE A == below(x)
               B == at(d)
               C == below(d)
    <3>1. /\ IsFiniteSet(A) /\ Cardinality(A) \in Nat
          /\ IsFiniteSet(B) /\ Cardinality(B) \in Nat
      BY <1>1
    <3>2. SumFunctionOnSet(f, T) = Cardinality(A) /\ f[d] = Cardinality(B)
      BY <2>1, <2>2
    <3>3. \A a : (a \in C <=> a \in A \cup B) /\ ~(a \in A /\ a \in B)
      BY <2>7
    <3> HIDE DEF A, B, C, T, U, d
    <3>4. U \ {d} = T
      BY <2>5
    <3>5. SumFunctionOnSet(f, U) = f[d] + SumFunctionOnSet(f, T)
      BY <2>4, <2>5, <2>6, <3>4, SumRest
    <3>6. C = A \cup B /\ A \cap B = {}
      BY <3>3
    <3>7. Cardinality(A \cup B) = Cardinality(A) + Cardinality(B) - Cardinality(A \cap B)
      BY <3>1, FS_Union
    <3>9. Cardinality({}) = 0
      BY FS_EmptySet
    <3>10. /\ Cardinality(A \cap B) = 0
           /\ Cardinality(C) = Cardinality(A) + Cardinality(B) - Cardinality(A \cap B)
      BY <3>6, <3>7, <3>9, Zenon
    <3>8. SumFunctionOnSet(f, U) = Cardinality(C)
      BY <3>1, <3>2, <3>5, <3>10
    <3> QED
      BY <3>8 DEF C
  <2> QED
    BY <2>10
<1>4. Nat \subseteq P
  <2> HIDE DEF P
  <2> QED
    BY <1>2, <1>3, SetOfNaturals
<1>7. \A x \in 0..N : x \in Nat /\ x <= N
  OBVIOUS
<1>8. \A x \in 0..N : SumFunctionOnSet(f, 1..x) = Cardinality(below(x))
  BY <1>4, <1>7
<1> QED
  BY <1>8 DEF HitsWithSize, R

\* A histogram indexed from 0.
Histogram(hits) ==
    /\ VectorSize(hits) \in Nat
    /\ DOMAIN hits = 0..(VectorSize(hits) - 1)
    /\ \A d \in DOMAIN hits : hits[d] \in Int

LEMMA IntervalSize ==
    ASSUME NEW u \in Nat, NEW f, DOMAIN f = 0..u
    PROVE  VectorSize(f) = u + 1
<1>1. 0 \in Int /\ u \in Int /\ ~(0 > u) /\ u - 0 + 1 = u + 1
  OBVIOUS
<1>2. Cardinality(0..u) = IF 0 > u THEN 0 ELSE u - 0 + 1
  BY <1>1, FS_Interval, Zenon
<1> QED
  BY <1>1, <1>2 DEF VectorSize

HitAt(hits, d) == IF d \in DOMAIN hits THEN hits[d] ELSE 0

\* update_hits_vector makes room for all distances and adds one hit for each
\* access at its distance.
LEMMA HitsOfLog ==
    ASSUME NEW v, Log(v), Sorted(v), NEW hits, Histogram(hits)
    PROVE  LET new == UpdatedHits(hits, v)
               size == IF VectorSize(hits) < UniqueIds(v) + 1 THEN UniqueIds(v) + 1
                       ELSE VectorSize(hits)
           IN  /\ size \in Nat \ {0}
               /\ DOMAIN new = 0..(size - 1)
               /\ VectorSize(new) = size
               /\ \A d \in 0..(size - 1) : new[d] = HitAt(hits, d) + AtDistance(TraceOf(v), d)
<1> DEFINE u == UniqueIds(v)
           ops == PopulateOperations(v)
           trace == TraceOf(v)
           n == Len(v)
           size == IF VectorSize(hits) < u + 1 THEN u + 1 ELSE VectorSize(hits)
           sized == IF VectorSize(hits) < u + 1 THEN Resize(hits, u + 1) ELSE hits
           postfixes == {k \in 1..Len(ops) : ops[k].type = "Postfix"}
           frozen == [k \in postfixes |-> FrozenDistance(ops, 1, k)]
           new == UpdatedHits(hits, v)
<1>1. u \in Nat /\ VectorSize(hits) \in Nat
  BY UniqueIdsAreAddresses DEF Histogram
<1>2. new = [d \in DOMAIN sized |->
                sized[d] + Cardinality({k \in postfixes : frozen[k] = d})]
  BY DEF UpdatedHits, HitsOfOperations
<1>3. size \in Nat \ {0} /\ size - 1 \in Nat /\ size = (size - 1) + 1
  BY <1>1
<1>4. DOMAIN sized = 0..(size - 1) /\ \A d \in 0..(size - 1) : sized[d] = HitAt(hits, d)
  <2> HIDE DEF u
  <2>1. CASE VectorSize(hits) < u + 1
    <3>1. sized = Resize(hits, u + 1) /\ size = u + 1
      BY <2>1
    <3> HIDE DEF sized, size
    <3>2. sized = [d \in 0..(size - 1) |-> HitAt(hits, d)]
      BY <3>1 DEF Resize, HitAt
    <3> QED
      BY <3>2
  <2>2. CASE ~(VectorSize(hits) < u + 1)
    <3>1. sized = hits /\ size = VectorSize(hits)
      BY <2>2
    <3> HIDE DEF sized, size
    <3> QED
      BY <3>1 DEF Histogram, HitAt
  <2> QED
    BY <2>1, <2>2
<1>5. n \in Nat /\ Len(trace) = n
  BY LogElements, TraceOfLog
<1>6. PICK at : Freezes(ops, trace, n, at)
  BY OperationsFreezeDistances
<1> HIDE DEF sized, size, ops, trace, n, u, new
<1>7. /\ Len(ops) \in Nat
      /\ \A k \in postfixes : /\ at[k] \in Repeats(trace)
                              /\ frozen[k] = Distance(trace, at[k])
      /\ \A k, l \in postfixes : at[k] = at[l] => k = l
      /\ \A a \in Repeats(trace) : \E k \in postfixes : at[k] = a
  BY <1>5, <1>6 DEF Freezes, Repeats
<1>8. IsFiniteSet(postfixes)
  <2>1. IsFiniteSet(1..Len(ops)) /\ postfixes \in SUBSET (1..Len(ops))
    BY <1>7, FS_Interval
  <2> HIDE DEF postfixes
  <2> QED
    BY <2>1, FS_Subset
<1> HIDE DEF postfixes, frozen
<1>9. ASSUME NEW d
      PROVE  Cardinality({k \in postfixes : frozen[k] = d}) = AtDistance(trace, d)
  <2> DEFINE A == {k \in postfixes : frozen[k] = d}
             B == {a \in Repeats(trace) : Distance(trace, a) = d}
             f == [k \in A |-> at[k]]
  <2>1. /\ \A k \in A : at[k] \in B
        /\ \A k, l \in A : at[k] = at[l] => k = l
    BY <1>7
  <2>2. \A a \in B : \E k \in A : at[k] = a
    BY <1>7
  <2>3. IsFiniteSet(A)
    <3>1. A \in SUBSET postfixes
      OBVIOUS
    <3> HIDE DEF A
    <3> QED
      BY <1>8, <3>1, FS_Subset
  <2> HIDE DEF A, B
  <2>4. f \in Bijection(A, B)
    BY <2>1, <2>2 DEF Bijection, Injection, Surjection, IsInjective
  <2>5. Cardinality(B) = Cardinality(A)
    BY <2>3, <2>4, FS_Bijection DEF ExistsBijection
  <2> QED
    BY <2>5 DEF A, B, AtDistance
<1>10. /\ DOMAIN new = 0..(size - 1)
       /\ \A d \in 0..(size - 1) : new[d] = HitAt(hits, d) + AtDistance(trace, d)
  BY <1>2, <1>4, <1>9
<1>11. VectorSize(new) = size
  BY <1>3, <1>10, IntervalSize
<1> QED
  BY <1>3, <1>10, <1>11 DEF u, size, new, trace

-----------------------------------------------------------------------------
(* The success function                                                    *)

LEMMA LeastOfTwo ==
    ASSUME NEW a \in Int, NEW b \in Int
    PROVE  Min({a, b}) = IF a < b THEN a ELSE b
<1> DEFINE c == IF a < b THEN a ELSE b
<1>1. c \in {a, b} /\ \A y \in {a, b} : c =< y
  OBVIOUS
<1>2. \A x \in {a, b} : (\A y \in {a, b} : x =< y) => x = c
  BY <1>1
<1>3. Min({a, b}) = c
  <2> HIDE DEF c
  <2> QED
    BY <1>1, <1>2 DEF Min
<1> QED
  BY <1>3

\* The hits past the end of a histogram are 0.
LEMMA HitsInRange ==
    ASSUME NEW hits, Histogram(hits), NEW x \in Nat
    PROVE  SumFunctionOnSet([d \in 1..x |-> HitAt(hits, d)], 1..x) =
              SumFunctionOnSet(hits, (1..x) \cap DOMAIN hits)
<1> DEFINE X == 1..x
           f == [d \in X |-> HitAt(hits, d)]
           A == X \cap DOMAIN hits
           Z == X \ DOMAIN hits
<1>1. \A d \in DOMAIN hits : hits[d] \in Int
  BY DEF Histogram
<1>2. \A d \in X : f[d] = IF d \in DOMAIN hits THEN hits[d] ELSE 0
  BY DEF HitAt
<1>3. IsFiniteSet(X)
  BY FS_Interval
<1>4. /\ A \in SUBSET X /\ Z \in SUBSET X /\ A \cap Z = {} /\ X = A \cup Z
      /\ \A d \in A : hits[d] \in Int /\ f[d] = hits[d]
      /\ \A d \in Z : f[d] = IF d \in {} THEN 1 ELSE 0
      /\ \A d \in X : f[d] \in Int
  <2> HIDE DEF X, f
  <2> QED
    BY <1>1, <1>2
<1> HIDE DEF f, X, A, Z
<1>5. IsFiniteSet(A) /\ IsFiniteSet(Z)
  BY <1>3, <1>4, FS_Subset
<1>6. SumFunctionOnSet(f, A \cup Z) = SumFunctionOnSet(f, A) + SumFunctionOnSet(f, Z)
  BY <1>3, <1>4, SumOfUnion
<1>7. SumFunctionOnSet(f, Z) = 0
  BY <1>4, <1>5, SumOfOnes, FS_EmptySet
<1>8. SumFunctionOnSet(hits, A) = SumFunctionOnSet(f, A)
  BY <1>4, <1>5, SumSame
<1>9. SumFunctionOnSet(f, A) \in Int
  <2>1. \A d \in A : f[d] \in Int
    BY <1>4
  <2> QED
    BY <1>5, <2>1, SumType
<1>10. SumFunctionOnSet(f, X) = SumFunctionOnSet(hits, A)
  BY <1>4, <1>6, <1>7, <1>8, <1>9
<1> QED
  BY <1>10 DEF f, X, A

\* A success function read at size x is the sum of the hits up to x.
LEMMA SuccessIsSum ==
    ASSUME NEW hits, Histogram(hits), NEW x \in Nat \ {0}
    PROVE  HitsOfSize(PrefixSums(hits), x) =
              SumFunctionOnSet(hits, (1..x) \cap DOMAIN hits)
<1> DEFINE s == VectorSize(hits)
           m == IF x < s - 1 THEN x ELSE s - 1
           sums == PrefixSums(hits)
           A == (1..x) \cap DOMAIN hits
<1>1. s \in Nat /\ DOMAIN hits = 0..(s - 1)
  BY DEF Histogram
<1>2. DOMAIN sums = 0..(s - 1) /\ \A d \in 0..(s - 1) : sums[d] = SumFunctionOnSet(hits, 1..d)
  BY <1>1 DEF PrefixSums
<1>3. CASE s = 0
  <2>1. HitsOfSize(sums, x) = 0
    BY <1>2, <1>3 DEF HitsOfSize
  <2>2. A = {}
    BY <1>1, <1>3
  <2>3. SumFunctionOnSet(hits, {}) = 0
    BY FS_EmptySet, SumProperties
  <2> QED
    BY <2>1, <2>2, <2>3
<1>4. CASE s # 0
  <2>1. s - 1 \in Nat /\ m \in 0..(s - 1) /\ m \in Nat
    BY <1>1, <1>4
  <2>2. VectorSize(sums) = s
    <3>1. VectorSize(sums) = s - 1 + 1
      BY <1>2, <2>1, IntervalSize
    <3> QED
      BY <1>1, <3>1
  <2>3. HitsOfSize(sums, x) = SumFunctionOnSet(hits, 1..m)
    <3>1. Min({x, s - 1}) = m
      BY <2>1, LeastOfTwo
    <3>2. DOMAIN sums # {}
      BY <1>2, <2>1
    <3> HIDE DEF sums, m
    <3>3. HitsOfSize(sums, x) = sums[m]
      BY <2>2, <3>1, <3>2 DEF HitsOfSize
    <3> QED
      BY <1>2, <2>1, <3>3
  <2>4. 1..m = A
    BY <1>1, <2>1
  <2> QED
    BY <2>3, <2>4
<1> QED
  BY <1>3, <1>4

\* A call of update_hits_vector adds to the success function, at each size,
\* the hits of a cache of this size in the requests of the call.
LEMMA SuccessOfLog ==
    ASSUME NEW v, Log(v), Sorted(v), NEW hits, Histogram(hits), NEW x \in Nat \ {0}
    PROVE  /\ Histogram(UpdatedHits(hits, v))
           /\ HitsOfSize(PrefixSums(UpdatedHits(hits, v)), x) =
                HitsOfSize(PrefixSums(hits), x) + HitsWithSize(TraceOf(v), x)
<1> DEFINE new == UpdatedHits(hits, v)
           trace == TraceOf(v)
           u == UniqueIds(v)
           size == IF VectorSize(hits) < u + 1 THEN u + 1 ELSE VectorSize(hits)
           R == Repeats(trace)
           f == [d \in 1..x |-> HitAt(new, d)]
           g == [d \in 1..x |-> HitAt(hits, d)]
           h == [d \in 1..x |-> AtDistance(trace, d)]
           X == 1..x
<1>1. /\ size \in Nat \ {0}
      /\ DOMAIN new = 0..(size - 1)
      /\ VectorSize(new) = size
      /\ \A d \in 0..(size - 1) : new[d] = HitAt(hits, d) + AtDistance(trace, d)
  BY HitsOfLog
<1>2. VectorSize(hits) \in Nat /\ DOMAIN hits = 0..(VectorSize(hits) - 1)
      /\ \A d \in DOMAIN hits : hits[d] \in Int
  BY DEF Histogram
<1>3. Len(trace) \in Nat
  BY LogElements, TraceOfLog
<1>4. /\ IsFiniteSet(Addresses(trace)) /\ u = Cardinality(Addresses(trace)) /\ u \in Nat
  BY UniqueIdsAreAddresses
<1> HIDE DEF new, trace, u
<1>5. \A a \in R : Distance(trace, a) \in 1..u
  BY <1>3, <1>4, DistancesAreSmall DEF Repeats
<1>6. IsFiniteSet(R)
  <2>1. IsFiniteSet(1..Len(trace)) /\ R \in SUBSET (1..Len(trace))
    BY <1>3, FS_Interval DEF Repeats
  <2> QED
    BY <2>1, FS_Subset
<1> HIDE DEF R
<1>9. \A d \in Int : AtDistance(trace, d) \in Nat /\ (d > u => AtDistance(trace, d) = 0)
  <2> SUFFICES ASSUME NEW d \in Int
               PROVE  AtDistance(trace, d) \in Nat /\ (d > u => AtDistance(trace, d) = 0)
    OBVIOUS
  <2> DEFINE S == {a \in R : Distance(trace, a) = d}
  <2>1. S \in SUBSET R /\ (d > u => S = {})
    BY <1>4, <1>5
  <2>2. AtDistance(trace, d) = Cardinality(S)
    BY DEF AtDistance, R
  <2> HIDE DEF S
  <2>3. IsFiniteSet(S) /\ Cardinality(S) \in Nat
    BY <1>6, <2>1, FS_Subset, FS_CardinalityType
  <2>4. d > u => Cardinality(S) = 0
    BY <2>1, FS_EmptySet
  <2> QED
    BY <2>2, <2>3, <2>4
<1>10. \A d \in Int : HitAt(hits, d) \in Int
  BY <1>2 DEF HitAt
<1>11. Histogram(new)
  <2>1. size \in Int /\ \A d \in 0..(size - 1) : d \in Int
    BY <1>1
  <2>2. \A d \in 0..(size - 1) : new[d] \in Int
    <3> SUFFICES ASSUME NEW d \in 0..(size - 1) PROVE new[d] \in Int
      OBVIOUS
    <3>1. d \in Int
      BY <2>1
    <3>2. HitAt(hits, d) \in Int /\ AtDistance(trace, d) \in Nat
      BY <1>9, <1>10, <3>1
    <3>3. new[d] = HitAt(hits, d) + AtDistance(trace, d)
      BY <1>1
    <3> QED
      BY <3>2, <3>3
  <2> QED
    BY <1>1, <2>2 DEF Histogram
<1>12. \A d \in X : HitAt(new, d) = HitAt(hits, d) + AtDistance(trace, d)
  <2> SUFFICES ASSUME NEW d \in X
               PROVE  HitAt(new, d) = HitAt(hits, d) + AtDistance(trace, d)
    OBVIOUS
  <2>1. CASE d \in 0..(size - 1)
    BY <1>1, <2>1 DEF HitAt
  <2>2. CASE d \notin 0..(size - 1)
    <3>1. d > u /\ ~(d \in 0..(VectorSize(hits) - 1)) /\ d \in Int
      BY <1>1, <1>2, <1>4, <2>2
    <3>2. HitAt(new, d) = 0 /\ HitAt(hits, d) = 0 /\ AtDistance(trace, d) = 0
      BY <1>1, <1>2, <1>9, <2>2, <3>1 DEF HitAt
    <3> QED
      BY <3>2
  <2> QED
    BY <2>1, <2>2
<1>13. \A d \in X : g[d] \in Int /\ h[d] \in Int /\ f[d] = g[d] + h[d]
  BY <1>9, <1>10, <1>12
<1>14. \A d \in 1..x : h[d] = AtDistance(trace, d)
  OBVIOUS
<1>15. HitsOfSize(PrefixSums(new), x) = SumFunctionOnSet(f, X)
       /\ HitsOfSize(PrefixSums(hits), x) = SumFunctionOnSet(g, X)
  <2>1. Histogram(new) /\ Histogram(hits) /\ x \in Nat
    BY <1>11
  <2> QED
    BY <2>1, SuccessIsSum, HitsInRange
<1>16. IsFiniteSet(X)
  BY FS_Interval
<1> HIDE DEF f, g, h
<1>17. SumFunctionOnSet(h, X) = HitsWithSize(trace, x)
  <2>1. x \in Nat /\ x \in 0..x
    OBVIOUS
  <2>2. IsFiniteSet(Repeats(trace)) /\ \A a \in Repeats(trace) : Distance(trace, a) \in Nat \ {0}
    BY <1>4, <1>5, <1>6 DEF R
  <2>3. \A y \in 0..x : SumFunctionOnSet(h, 1..y) = HitsWithSize(trace, y)
    BY <1>14, <2>1, <2>2, HitsAddUp
  <2> QED
    BY <2>1, <2>3
<1> HIDE DEF X
<1>18. SumFunctionOnSet(f, X) = SumFunctionOnSet(g, X) + SumFunctionOnSet(h, X)
  BY <1>13, <1>16, SumOfSums
<1> QED
  BY <1>11, <1>15, <1>17, <1>18 DEF new, trace

LEMMA NoHits == Histogram(<<>>) /\ \A x \in Nat \ {0} : HitsOfSize(PrefixSums(<<>>), x) = 0
<1>1. DOMAIN <<>> = {}
  OBVIOUS
<1>2. VectorSize(<<>>) = 0
  BY <1>1, FS_EmptySet DEF VectorSize
<1>3. Histogram(<<>>)
  BY <1>1, <1>2 DEF Histogram
<1>4. DOMAIN PrefixSums(<<>>) = {}
  BY <1>1 DEF PrefixSums
<1>5. \A x \in Nat \ {0} : HitsOfSize(PrefixSums(<<>>), x) = 0
  BY <1>4 DEF HitsOfSize
<1> QED
  BY <1>3, <1>5

-----------------------------------------------------------------------------
(* The stack of a trace                                                    *)

\* The accesses that are the last of their address.
LastUses(trace) ==
    {i \in 1..Len(trace) : \A j \in (i + 1)..Len(trace) : trace[j] # trace[i]}

\* The number of the last access of every address.
LastUse(trace) ==
    [a \in Addresses(trace) |-> CHOOSE i \in LastUses(trace) : trace[i] = a]

LEMMA LastUseProperties ==
    ASSUME NEW trace, Len(trace) \in Nat
    PROVE  /\ TableUntil(LastUse(trace), Len(trace) + 1)
           /\ DOMAIN LastUse(trace) = Addresses(trace)
           /\ \A a \in Addresses(trace) :
                /\ LastUse(trace)[a] \in LastUses(trace)
                /\ LastUse(trace)[a] \in 1..Len(trace)
                /\ trace[LastUse(trace)[a]] = a
                /\ \A j \in (LastUse(trace)[a] + 1)..Len(trace) : trace[j] # a
           /\ \A i \in LastUses(trace) : /\ trace[i] \in Addresses(trace)
                                         /\ LastUse(trace)[trace[i]] = i
<1> DEFINE n == Len(trace)
           A == Addresses(trace)
           U == LastUses(trace)
           table == LastUse(trace)
<1>1. /\ \A i \in U : /\ i \in 1..n /\ trace[i] \in A
                      /\ \A j \in (i + 1)..n : trace[j] # trace[i]
      /\ \A i \in 1..n : (\A j \in (i + 1)..n : trace[j] # trace[i]) => i \in U
  BY DEF LastUses, Addresses
<1>2. IsFiniteSet(A)
  BY FirstsCountAddresses DEF Addresses
<1>3. ASSUME NEW a \in A PROVE \E i \in U : trace[i] = a
  <2> DEFINE S == {i \in 1..n : trace[i] = a}
  <2>1. S \in SUBSET (1..n) /\ S # {}
    BY DEF Addresses
  <2>2. PICK i \in S : \A y \in S : y <= i
    BY <2>1, GreatestExists
  <2>3. i \in 1..n /\ trace[i] = a /\ \A j \in (i + 1)..n : trace[j] # trace[i]
    BY <2>2
  <2> QED
    BY <1>1, <2>3
<1>4. /\ DOMAIN table = A
      /\ \A a \in A : table[a] \in U /\ trace[table[a]] = a
  <2>1. table = [a \in A |-> CHOOSE i \in U : trace[i] = a]
    BY DEF LastUse
  <2> HIDE DEF table, A, U
  <2> QED
    BY <1>3, <2>1
<1>5. \A i, k \in U : trace[i] = trace[k] => i = k
  <2> SUFFICES ASSUME NEW i \in U, NEW k \in U, trace[i] = trace[k], i < k PROVE FALSE
    BY <1>1
  <2>1. k \in (i + 1)..n
    BY <1>1
  <2> QED
    BY <1>1, <2>1
<1>6. \A i \in U : table[trace[i]] = i
  BY <1>1, <1>4, <1>5
<1>7. \A a \in A : table[a] \in 1..n /\ \A j \in (table[a] + 1)..n : trace[j] # a
  BY <1>1, <1>4
<1>8. TableUntil(table, n + 1)
  <2> HIDE DEF A, U
  <2>1. table \in [A -> Nat] /\ \A a \in A : table[a] < n + 1
    <3>1. table = [a \in A |-> table[a]]
      BY <1>4 DEF LastUse, A, U
    <3>2. \A a \in A : table[a] \in Nat /\ table[a] < n + 1
      BY <1>7
    <3> HIDE DEF table
    <3> QED
      BY <3>1, <3>2
  <2>2. \A a, b \in A : table[a] = table[b] => a = b
    BY <1>4
  <2> HIDE DEF table
  <2> QED
    BY <1>2, <1>4, <2>1, <2>2 DEF TableUntil
<1> HIDE DEF n, A, U, table
<1> QED
  BY <1>1, <1>4, <1>6, <1>7, <1>8 DEF n, A, U, table

\* The caches that the refinement reads from a log are the front of the queue
\* of last uses.
LEMMA TopOfStackIsFront ==
    ASSUME NEW reqs, Len(TraceOf(reqs)) \in Nat, NEW x \in Nat \ {0}
    PROVE  TopOfStack(reqs, x) = FrontPages(LastUse(TraceOf(reqs)), x)
<1> DEFINE trace == TraceOf(reqs)
           n == Len(trace)
           U == LastUses(trace)
           table == LastUse(trace)
           D == DOMAIN table
           c == Cardinality(D)
           from(i) == {j \in U : j >= i}
           nth(k) == CHOOSE i \in U : Cardinality(from(i)) = k
           later(a) == {b \in D : table[b] > table[a]}
<1>1. TopOfStack(reqs, x) = [k \in 1..Min({x, Cardinality(U)}) |-> trace[nth(k)]]
  BY DEF TopOfStack, LastUses
<1>2. /\ n \in Nat
      /\ TableUntil(table, n + 1)
      /\ \A a \in D : table[a] \in U /\ table[a] \in 1..n /\ trace[table[a]] = a
      /\ \A i \in U : trace[i] \in D /\ table[trace[i]] = i
  BY LastUseProperties
<1>3. FrontPages(table, x) = [k \in 1..(IF x < c THEN x ELSE c) |-> PageAt(table, k - 1)]
  BY DEF FrontPages
<1> HIDE DEF trace, n, U, table, D
<1>4. IsFiniteSet(D) /\ c \in Nat /\ DOMAIN table = D
  <2>1. DOMAIN table = D
    BY DEF D
  <2> QED
    BY <1>2, <2>1, FS_CardinalityType DEF TableUntil
<1>5. Cardinality(U) = c
  <2> DEFINE f == [a \in D |-> table[a]]
  <2>1. \A a, b \in D : f[a] = f[b] => a = b
    BY <1>2
  <2>2. f \in [D -> U] /\ \A i \in U : \E a \in D : f[a] = i
    BY <1>2
  <2> HIDE DEF f
  <2>3. f \in Bijection(D, U)
    BY <2>1, <2>2 DEF Bijection, Injection, Surjection, IsInjective
  <2> QED
    BY <1>4, <2>3, FS_Bijection DEF ExistsBijection
<1>6. ASSUME NEW i \in U PROVE Cardinality(from(i)) = UsedSince(table, trace[i]) + 1
  <2> DEFINE a == trace[i]
             L == later(a)
             G == {j \in U : j > i}
             f == [b \in L |-> table[b]]
  <2>1. a \in D /\ table[a] = i
    BY <1>2
  <2>2. \A j \in U : j \in 1..n
    BY <1>2
  <2>3. \A b \in L : b \in D /\ table[b] \in G
    BY <1>2, <2>1
  <2>4. \A j \in G : trace[j] \in L /\ table[trace[j]] = j
    BY <1>2, <2>1
  <2>5. IsFiniteSet(L)
    <3>1. L \in SUBSET D
      OBVIOUS
    <3> HIDE DEF L
    <3> QED
      BY <1>4, <3>1, FS_Subset
  <2>6. UsedSince(table, a) = Cardinality(L)
    BY <1>4 DEF UsedSince
  <2>7. from(i) = G \cup {i} /\ i \notin G
    BY <2>2
  <2> HIDE DEF L, G, a, from
  <2>8. /\ f \in [L -> G]
        /\ \A b, d \in L : f[b] = f[d] => b = d
        /\ \A j \in G : \E b \in L : f[b] = j
    BY <1>2, <2>3, <2>4
  <2> HIDE DEF f
  <2>9. f \in Bijection(L, G)
    BY <2>8 DEF Bijection, Injection, Surjection, IsInjective
  <2>10. IsFiniteSet(G) /\ Cardinality(G) = Cardinality(L)
    BY <2>5, <2>9, FS_Bijection DEF ExistsBijection
  <2>11. Cardinality(G \cup {i}) = Cardinality(G) + 1
    BY <2>7, <2>10, FS_AddElement
  <2>12. Cardinality(from(i)) = UsedSince(table, a) + 1
    BY <2>6, <2>7, <2>10, <2>11
  <2> QED
    BY <2>12 DEF a
<1>7. ASSUME NEW k \in 1..c PROVE trace[nth(k)] = PageAt(table, k - 1)
  <2> DEFINE a == PageAt(table, k - 1)
  <2>1. k - 1 \in 0..(c - 1)
    BY <1>4
  <2>2. a \in D /\ UsedSince(table, a) = k - 1
    <3>1. \A r \in 0..(Cardinality(DOMAIN table) - 1) :
             PageAt(table, r) \in DOMAIN table /\ UsedSince(table, PageAt(table, r)) = r
      BY <1>2, PageAtHasRank
    <3> QED
      BY <1>4, <2>1, <3>1
  <2> HIDE DEF a, from
  <2>3. table[a] \in U /\ trace[table[a]] = a
    BY <1>2, <2>2
  <2>4. Cardinality(from(table[a])) = k
    BY <1>6, <2>2, <2>3
  <2>5. nth(k) \in U /\ Cardinality(from(nth(k))) = k
    BY <2>3, <2>4
  <2> DEFINE i == nth(k)
  <2> HIDE DEF nth
  <2>6. i \in U /\ Cardinality(from(i)) = k
    BY <2>5
  <2> HIDE DEF i
  <2>7. trace[i] \in D /\ UsedSince(table, trace[i]) + 1 = k
    BY <1>2, <1>6, <2>6
  <2>8. PageAt(table, UsedSince(table, trace[i])) = trace[i]
    <3>1. \A b \in DOMAIN table : PageAt(table, UsedSince(table, b)) = b
      BY <1>2, PageAtHasRank
    <3> QED
      BY <1>4, <2>7, <3>1
  <2>9. UsedSince(table, trace[i]) = k - 1
    <3>1. UsedSince(table, trace[i]) \in Int
      <4>1. \A b \in DOMAIN table : UsedSince(table, b) \in 0..(Cardinality(DOMAIN table) - 1)
        BY <1>2, UsedSinceNumbersPages
      <4> QED
        BY <1>4, <2>7, <4>1
    <3> QED
      BY <2>7, <3>1
  <2> QED
    BY <2>8, <2>9 DEF i
<1>8. Min({x, c}) = IF x < c THEN x ELSE c
  BY <1>4, LeastOfTwo
<1> HIDE DEF c, nth
<1> DEFINE m == IF x < c THEN x ELSE c
<1>9. TopOfStack(reqs, x) = [k \in 1..m |-> trace[nth(k)]]
  BY <1>1, <1>5, <1>8
<1>10. \A k \in 1..m : k \in 1..c
  BY <1>4
<1>11. [k \in 1..m |-> trace[nth(k)]] = [k \in 1..m |-> PageAt(table, k - 1)]
  <2> HIDE DEF m
  <2> QED
    BY <1>7, <1>10
<1> QED
  BY <1>3, <1>9, <1>11 DEF table, trace

-----------------------------------------------------------------------------
(* One more access                                                         *)

\* A trace with one more access.
Continues(new, trace, addr) ==
    /\ Len(trace) \in Nat
    /\ Len(new) = Len(trace) + 1
    /\ \A i \in 1..Len(trace) : new[i] = trace[i]
    /\ new[Len(trace) + 1] = addr

LEMMA AppendedTrace ==
    ASSUME NEW v, Log(v), NEW addr \in Nat
    PROVE  Continues(TraceOf(Append(v, [addr |-> addr, access_number |-> Len(v) + 1])),
                     TraceOf(v), addr)
<1> DEFINE n == Len(v)
           r == [addr |-> addr, access_number |-> n + 1]
           w == Append(v, r)
           old == TraceOf(v)
           new == TraceOf(w)
<1>1. Log(w) /\ Len(w) = n + 1
  BY AppendToLog
<1>2. v \in Seq(Req) /\ r \in Req /\ n \in Nat
  BY LogElements DEF Log, Req
<1>3. w[n + 1] = r /\ \A i \in 1..n : w[i] = v[i]
  BY <1>2, AppendProperties
<1>4. /\ Len(new) = n + 1 /\ Len(old) = n
      /\ \A i \in 1..(n + 1) : new[w[i].access_number] = w[i].addr
      /\ \A i \in 1..n : old[v[i].access_number] = v[i].addr
  BY <1>1, TraceOfLog
<1>5. \A m \in 1..n : \E i \in 1..n : v[i].access_number = m
  BY LogElements
<1>6. r.addr = addr /\ r.access_number = n + 1
  OBVIOUS
<1> HIDE DEF new, old, w, r, n
<1>7. new[n + 1] = addr
  BY <1>2, <1>3, <1>4, <1>6
<1>8. ASSUME NEW m \in 1..n PROVE new[m] = old[m]
  <2>1. PICK i \in 1..n : v[i].access_number = m
    BY <1>5
  <2>2. i \in 1..(n + 1)
    BY <1>2
  <2> QED
    BY <1>3, <1>4, <2>1, <2>2
<1>9. Continues(new, old, addr)
  BY <1>2, <1>4, <1>7, <1>8 DEF Continues
<1> QED
  BY <1>9 DEF new, old, w, r, n

LEMMA LastUseAfter ==
    ASSUME NEW trace, NEW new, NEW addr, Continues(new, trace, addr)
    PROVE  LastUse(new) = UsedAt(LastUse(trace), addr, Len(trace) + 1)
<1> DEFINE n == Len(trace)
           A == Addresses(trace)
           B == Addresses(new)
           old == LastUse(trace)
           table == LastUse(new)
<1>1. /\ n \in Nat /\ Len(new) = n + 1
      /\ \A i \in 1..n : new[i] = trace[i]
      /\ new[n + 1] = addr
  BY DEF Continues
<1>2. B = A \cup {addr}
  <2>1. \A i : i \in 1..(n + 1) <=> i \in 1..n \/ i = n + 1
    BY <1>1
  <2> QED
    BY <1>1, <2>1 DEF Addresses
<1>3. /\ DOMAIN old = A
      /\ \A a \in A : /\ old[a] \in 1..n /\ trace[old[a]] = a
                      /\ \A j \in (old[a] + 1)..n : trace[j] # a
  BY <1>1, LastUseProperties
<1>4. /\ DOMAIN table = B
      /\ \A a \in B : /\ table[a] \in 1..(n + 1) /\ new[table[a]] = a
                      /\ \A j \in (table[a] + 1)..(n + 1) : new[j] # a
  <2>1. Len(new) \in Nat
    BY <1>1
  <2> QED
    BY <1>1, <2>1, LastUseProperties
<1>5. table = [a \in B |-> table[a]]
  BY DEF LastUse
<1> HIDE DEF n, A, B, old, table
<1>6. table[addr] = n + 1
  <2>1. addr \in B
    BY <1>2
  <2>2. ~(table[addr] < n + 1)
    BY <1>1, <1>4, <2>1
  <2> QED
    BY <1>1, <1>4, <2>1, <2>2
<1>7. ASSUME NEW a \in A, a # addr PROVE table[a] = old[a]
  <2> DEFINE s == table[a]
             t == old[a]
  <2>1. /\ s \in 1..(n + 1) /\ new[s] = a /\ \A j \in (s + 1)..(n + 1) : new[j] # a
        /\ t \in 1..n /\ trace[t] = a /\ \A j \in (t + 1)..n : trace[j] # a
    BY <1>2, <1>3, <1>4
  <2> HIDE DEF s, t
  <2>2. s \in 1..n /\ trace[s] = a /\ new[t] = a
    BY <1>1, <1>7, <2>1
  <2>3. ~(s < t) /\ ~(t < s)
    BY <1>1, <2>1, <2>2
  <2>4. s = t
    BY <2>1, <2>3
  <2> QED
    BY <2>4 DEF s, t
<1>8. UsedAt(old, addr, n + 1) = [a \in B |-> IF a = addr THEN n + 1 ELSE old[a]]
  BY <1>2, <1>3 DEF UsedAt
<1>9. \A a \in B : table[a] = IF a = addr THEN n + 1 ELSE old[a]
  BY <1>2, <1>6, <1>7
<1>10. [a \in B |-> table[a]] = [a \in B |-> IF a = addr THEN n + 1 ELSE old[a]]
  BY <1>9
<1> QED
  BY <1>5, <1>8, <1>10, Zenon DEF n, old, table

\* The distance of the new access is the place of its address in the queue,
\* and the other distances stay.
LEMMA DistancesAfter ==
    ASSUME NEW trace, NEW new, NEW addr, Continues(new, trace, addr)
    PROVE  LET n == Len(trace)
           IN  /\ \A i \in 1..n : /\ IsRepeat(new, i) <=> IsRepeat(trace, i)
                                  /\ IsRepeat(trace, i) => Distance(new, i) = Distance(trace, i)
               /\ IsRepeat(new, n + 1) <=> addr \in DOMAIN LastUse(trace)
               /\ addr \in DOMAIN LastUse(trace) =>
                     Distance(new, n + 1) = UsedSince(LastUse(trace), addr) + 1
<1> DEFINE n == Len(trace)
           table == LastUse(trace)
           D == DOMAIN table
<1>1. /\ n \in Nat /\ Len(new) = n + 1
      /\ \A i \in 1..n : new[i] = trace[i]
      /\ new[n + 1] = addr
  BY DEF Continues
<1>2. /\ TableUntil(table, n + 1)
      /\ \A a \in D : /\ table[a] \in 1..n
                      /\ trace[table[a]] = a
                      /\ \A j \in (table[a] + 1)..n : trace[j] # a
      /\ \A i \in 1..n : trace[i] \in D
  <2>1. DOMAIN table = Addresses(trace) /\ \A i \in 1..n : trace[i] \in Addresses(trace)
    BY <1>1, LastUseProperties DEF Addresses
  <2>2. /\ TableUntil(table, n + 1)
        /\ \A a \in Addresses(trace) : /\ table[a] \in 1..n
                                        /\ trace[table[a]] = a
                                        /\ \A j \in (table[a] + 1)..n : trace[j] # a
    BY <1>1, LastUseProperties
  <2> QED
    BY <2>1, <2>2
<1> HIDE DEF n, table
<1>3. ASSUME NEW i \in 1..n
      PROVE  /\ IsRepeat(new, i) <=> IsRepeat(trace, i)
             /\ IsRepeat(trace, i) => Distance(new, i) = Distance(trace, i)
  <2>1. \A j \in 1..i : j \in 1..n /\ new[j] = trace[j]
    BY <1>1
  <2>2. \A j \in 1..(i - 1) : j \in 1..i
    BY <1>1
  <2>3. i \in 1..i
    BY <1>1
  <2>4. Earlier(new, i) = Earlier(trace, i)
    BY <2>1, <2>2, <2>3 DEF Earlier
  <2>5. /\ IsRepeat(new, i) <=> IsRepeat(trace, i)
        /\ PreviousAccess(new, i) = PreviousAccess(trace, i)
    BY <2>4 DEF IsRepeat, PreviousAccess
  <2>6. ASSUME IsRepeat(trace, i) PROVE Distance(new, i) = Distance(trace, i)
    <3> DEFINE p == PreviousAccess(trace, i)
    <3>1. p \in 1..(i - 1)
      BY <1>1, <2>6, PreviousAccessProperties
    <3> HIDE DEF p
    <3>2. \A j \in p..(i - 1) : new[j] = trace[j]
      BY <1>1, <2>1, <3>1
    <3>3. {new[j] : j \in p..(i - 1)} = {trace[j] : j \in p..(i - 1)}
      BY <3>2
    <3> QED
      BY <2>5, <3>3 DEF Distance, p
  <2> QED
    BY <2>5, <2>6
<1>4. ASSUME addr \in D
      PROVE  /\ IsRepeat(new, n + 1)
             /\ Distance(new, n + 1) = UsedSince(table, addr) + 1
  <2> DEFINE p == table[addr]
             later == {b \in D : table[b] > p}
             S == {new[j] : j \in p..n}
  <2>1. p \in 1..n /\ trace[p] = addr /\ \A j \in (p + 1)..n : trace[j] # addr
    BY <1>2, <1>4
  <2>2. UsedSince(table, addr) = Cardinality(later)
    BY DEF UsedSince
  <2> HIDE DEF p
  <2>3. IsRepeat(new, n + 1) /\ PreviousAccess(new, n + 1) = p
    <3> DEFINE m == n + 1
    <3>1. m \in Nat /\ m \in 1..m /\ m - 1 = n /\ new[m] = addr
      BY <1>1
    <3> HIDE DEF m
    <3>2. /\ p \in 1..(m - 1) /\ new[p] = new[m]
          /\ \A k \in (p + 1)..(m - 1) : new[k] # new[m]
      BY <1>1, <2>1, <3>1
    <3>3. IsRepeat(new, m) /\ PreviousAccess(new, m) = p
      BY <3>1, <3>2, PreviousAccessIs
    <3> QED
      BY <3>3 DEF m
  <2>4. Distance(new, n + 1) = Cardinality(S)
    <3> DEFINE m == n + 1
    <3>1. m - 1 = n /\ PreviousAccess(new, m) = p
      BY <1>1, <2>3
    <3> HIDE DEF m
    <3>2. Distance(new, m) = Cardinality({new[j] : j \in p..(m - 1)})
      BY <3>1 DEF Distance
    <3> QED
      BY <3>1, <3>2 DEF m
  <2>5. S = later \cup {addr}
    <3>1. ASSUME NEW j \in p..n PROVE new[j] \in later \cup {addr}
      <4>1. j \in 1..n /\ new[j] = trace[j] /\ trace[j] \in D
        BY <1>1, <1>2, <2>1
      <4>2. CASE trace[j] = addr
        BY <4>1, <4>2
      <4>3. CASE trace[j] # addr
        <5> DEFINE b == trace[j]
        <5>1. b \in D /\ b # addr /\ j # p /\ j > p
          BY <1>1, <2>1, <4>1, <4>3
        <5>2. table[b] \in 1..n /\ \A k \in (table[b] + 1)..n : trace[k] # b
          BY <1>2, <5>1
        <5>3. ~(table[b] < j)
          BY <1>1, <4>1, <5>2
        <5>4. table[b] > p
          BY <1>1, <2>1, <4>1, <5>1, <5>2, <5>3
        <5> QED
          BY <4>1, <5>1, <5>4
      <4> QED
        BY <4>2, <4>3
    <3>2. ASSUME NEW b \in later \cup {addr} PROVE \E j \in p..n : new[j] = b
      <4>1. CASE b = addr
        <5>1. p \in p..n /\ new[p] = addr
          BY <1>1, <2>1
        <5> QED
          BY <4>1, <5>1
      <4>2. CASE b # addr
        <5>1. b \in D /\ table[b] \in p..n /\ new[table[b]] = b
          BY <1>1, <1>2, <2>1, <4>2, SMTT(30)
        <5> QED
          BY <5>1
      <4> QED
        BY <4>1, <4>2
    <3> QED
      BY <3>1, <3>2
  <2>6. addr \notin later
    BY <2>1 DEF p
  <2>7. IsFiniteSet(later)
    <3>1. IsFiniteSet(D)
      BY <1>2 DEF TableUntil
    <3>2. later \in SUBSET D
      OBVIOUS
    <3> HIDE DEF later
    <3> QED
      BY <3>1, <3>2, FS_Subset
  <2> HIDE DEF later, S
  <2>8. Cardinality(later \cup {addr}) = Cardinality(later) + 1
    BY <2>6, <2>7, FS_AddElement
  <2> QED
    BY <2>2, <2>3, <2>4, <2>5, <2>8
<1>5. ASSUME IsRepeat(new, n + 1) PROVE addr \in D
  <2> DEFINE m == n + 1
  <2>1. m - 1 = n /\ new[m] = addr /\ IsRepeat(new, m)
    BY <1>1, <1>5
  <2> HIDE DEF m
  <2>2. PICK j \in 1..(m - 1) : new[j] = new[m]
    BY <2>1 DEF IsRepeat, Earlier
  <2> QED
    BY <1>1, <1>2, <2>1, <2>2
<1> QED
  BY <1>3, <1>4, <1>5 DEF n, table

\* A cache has one hit more if it holds the address.
LEMMA HitsAfter ==
    ASSUME NEW trace, NEW new, NEW addr, Continues(new, trace, addr), NEW x \in Nat \ {0}
    PROVE  /\ HitsWithSize(trace, x) \in Nat
           /\ HitsWithSize(new, x) = HitsWithSize(trace, x)
                + (IF Holds(FrontPages(LastUse(trace), x), addr) THEN 1 ELSE 0)
<1> DEFINE n == Len(trace)
           table == LastUse(trace)
           D == DOMAIN table
           S == {i \in Repeats(trace) : Distance(trace, i) <= x}
           T == {i \in Repeats(new) : Distance(new, i) <= x}
           held == addr \in D /\ UsedSince(table, addr) < x
<1>1. n \in Nat /\ Len(new) = n + 1
  BY DEF Continues
<1>2. TableUntil(table, n + 1)
  BY <1>1, LastUseProperties
<1>3. /\ \A i \in 1..n : /\ IsRepeat(new, i) <=> IsRepeat(trace, i)
                         /\ IsRepeat(trace, i) => Distance(new, i) = Distance(trace, i)
      /\ IsRepeat(new, n + 1) <=> addr \in D
      /\ addr \in D => Distance(new, n + 1) = UsedSince(table, addr) + 1
  BY DistancesAfter
<1>4. addr \in D => UsedSince(table, addr) \in Int
  <2>1. \A a \in D : UsedSince(table, a) \in 0..(Cardinality(D) - 1)
    BY <1>1, <1>2, UsedSinceNumbersPages
  <2> QED
    BY <2>1
<1>5. Holds(FrontPages(table, x), addr) <=> held
  <2>1. n + 1 \in Nat
    BY <1>1
  <2> QED
    BY <1>2, <2>1, FrontHolds
<1>6. \A i : i \in S <=> i \in 1..n /\ IsRepeat(trace, i) /\ Distance(trace, i) <= x
  BY DEF Repeats
<1>7. \A i : i \in T <=> i \in 1..(n + 1) /\ IsRepeat(new, i) /\ Distance(new, i) <= x
  BY <1>1 DEF Repeats
<1>8. HitsWithSize(trace, x) = Cardinality(S) /\ HitsWithSize(new, x) = Cardinality(T)
  BY DEF HitsWithSize
<1> HIDE DEF n, table, D, S, T
<1>9. n + 1 \in T <=> held
  BY <1>1, <1>3, <1>4, <1>7
<1>10. \A i \in 1..n : i \in T <=> i \in S
  BY <1>1, <1>3, <1>6, <1>7
<1>11. \A i : i \in 1..(n + 1) <=> i \in 1..n \/ i = n + 1
  BY <1>1
<1>12. T = IF held THEN S \cup {n + 1} ELSE S
  <2> HIDE DEF held
  <2> QED
    BY <1>6, <1>7, <1>9, <1>10, <1>11
<1>13. n + 1 \notin S /\ IsFiniteSet(S)
  <2>1. IsFiniteSet(1..n) /\ S \in SUBSET (1..n)
    BY <1>1, <1>6, FS_Interval
  <2> QED
    BY <1>1, <1>6, <2>1, FS_Subset
<1>14. Cardinality(S) \in Nat /\ Cardinality(S \cup {n + 1}) = Cardinality(S) + 1
  BY <1>13, FS_CardinalityType, FS_AddElement
<1> HIDE DEF held
<1>15. Cardinality(T) = Cardinality(S) + (IF held THEN 1 ELSE 0)
  BY <1>12, <1>14
<1> QED
  BY <1>5, <1>8, <1>14, <1>15 DEF table

\* An access is a touch of every cache, and a hit for those that hold the address.
LEMMA AccessIsTouch ==
    ASSUME NEW v, Log(v), NEW addr \in Nat, NEW x \in Nat \ {0}
    PROVE  LET w == Append(v, [addr |-> addr, access_number |-> Len(v) + 1])
           IN  /\ TopOfStack(w, x) = Touch(TopOfStack(v, x), addr, x)
               /\ HitsWithSize(TraceOf(v), x) \in Nat
               /\ HitsWithSize(TraceOf(w), x) = HitsWithSize(TraceOf(v), x)
                    + (IF Holds(TopOfStack(v, x), addr) THEN 1 ELSE 0)
<1> DEFINE w == Append(v, [addr |-> addr, access_number |-> Len(v) + 1])
           trace == TraceOf(v)
           new == TraceOf(w)
           n == Len(trace)
           table == LastUse(trace)
<1>1. Continues(new, trace, addr)
  BY AppendedTrace
<1>2. n \in Nat /\ Len(new) \in Nat
  BY <1>1 DEF Continues
<1>3. TableUntil(table, n + 1) /\ n + 1 \in Nat
  BY <1>2, LastUseProperties
<1>4. LastUse(new) = UsedAt(table, addr, n + 1)
  BY <1>1, LastUseAfter
<1>5. /\ TopOfStack(v, x) = FrontPages(table, x)
      /\ TopOfStack(w, x) = FrontPages(LastUse(new), x)
  BY <1>2, TopOfStackIsFront
<1> HIDE DEF w, trace, new, table, n
<1>6. FrontPages(UsedAt(table, addr, n + 1), x) = Touch(FrontPages(table, x), addr, x)
  BY <1>3, AccessTouchesFront
<1>7. /\ HitsWithSize(trace, x) \in Nat
      /\ HitsWithSize(new, x) = HitsWithSize(trace, x)
            + (IF Holds(FrontPages(table, x), addr) THEN 1 ELSE 0)
  BY <1>1, HitsAfter DEF table
<1> QED
  BY <1>4, <1>5, <1>6, <1>7 DEF w, trace, new

\* Before the first access all caches are empty and have no hits.
LEMMA NoAccesses ==
    ASSUME NEW x \in Nat \ {0}
    PROVE  /\ TopOfStack(<<>>, x) = <<>>
           /\ HitsWithSize(TraceOf(<<>>), x) = 0
<1> DEFINE trace == TraceOf(<<>>)
           table == LastUse(trace)
<1>1. trace \in Seq(Nat) /\ Len(trace) = 0
  <2>1. Len(<<>>) = 0
    OBVIOUS
  <2> QED
    BY <2>1, EmptyLog, TraceOfLog
<1>2. TopOfStack(<<>>, x) = FrontPages(table, x)
  BY <1>1, TopOfStackIsFront
<1> HIDE DEF trace
<1>3. Addresses(trace) = {} /\ Repeats(trace) = {}
  BY <1>1 DEF Addresses, Repeats
<1>4. DOMAIN table = {}
  <2>1. Len(trace) \in Nat
    BY <1>1
  <2> QED
    BY <1>3, <2>1, LastUseProperties
<1> HIDE DEF table
<1>5. Cardinality(DOMAIN table) = 0 /\ (IF x < 0 THEN x ELSE 0) = 0
  BY <1>4, FS_EmptySet
<1>6. FrontPages(table, x) = [i \in 1..0 |-> PageAt(table, i - 1)]
  BY <1>5 DEF FrontPages
<1>7. FrontPages(table, x) = <<>>
  BY <1>6
<1>8. {i \in Repeats(trace) : Distance(trace, i) <= x} = {}
  BY <1>3
<1> QED
  BY <1>2, <1>7, <1>8, FS_EmptySet DEF HitsWithSize, trace

\* Pages listed by last use are the queue from back to front.
LEMMA QueueInOrder ==
    ASSUME NEW t \in Nat, NEW table, TableUntil(table, t), NEW m \in Nat, NEW s,
           \A i \in 1..m : s[i] \in DOMAIN table,
           \A i, j \in 1..m : i < j => table[s[i]] < table[s[j]],
           \A a \in DOMAIN table : \E i \in 1..m : s[i] = a
    PROVE  /\ Cardinality(DOMAIN table) = m
           /\ \A i \in 1..m : PageAt(table, m - i) = s[i]
<1> DEFINE D == DOMAIN table
<1>1. /\ \A a \in D : table[a] \in Nat
      /\ \A i, j \in 1..m : i < j => ~(table[s[j]] < table[s[i]]) /\ s[i] # s[j]
  BY DEF TableUntil
<1>2. ASSUME NEW lo \in 1..(m + 1), NEW S,
             \A i \in lo..m : s[i] \in S,
             \A a \in S : \E i \in lo..m : s[i] = a
      PROVE  Cardinality(S) = m - lo + 1
  <2> DEFINE g == [i \in lo..m |-> s[i]]
  <2>1. g \in [lo..m -> S] /\ \A a \in S : \E i \in lo..m : g[i] = a
    BY <1>2
  <2>2. \A i, j \in lo..m : g[i] = g[j] => i = j
    <3>1. \A i \in lo..m : i \in 1..m
      OBVIOUS
    <3>2. \A i, j \in 1..m : s[i] = s[j] => i = j
      BY <1>1
    <3> QED
      BY <3>1, <3>2
  <2> HIDE DEF g
  <2>3. g \in Bijection(lo..m, S)
    BY <2>1, <2>2 DEF Bijection, Injection, Surjection, IsInjective
  <2>4. IsFiniteSet(lo..m) /\ Cardinality(lo..m) = IF lo > m THEN 0 ELSE m - lo + 1
    BY FS_Interval
  <2>5. Cardinality(S) = Cardinality(lo..m)
    BY <2>3, <2>4, FS_Bijection DEF ExistsBijection
  <2> QED
    BY <2>4, <2>5
<1>3. Cardinality(D) = m
  <2>1. 1 \in 1..(m + 1) /\ m - 1 + 1 = m
    OBVIOUS
  <2> QED
    BY <1>2, <2>1
<1>4. ASSUME NEW i \in 1..m PROVE PageAt(table, m - i) = s[i]
  <2> DEFINE S == {b \in D : table[b] > table[s[i]]}
             lo == i + 1
  <2>1. lo \in 1..(m + 1) /\ m - lo + 1 = m - i
    OBVIOUS
  <2>2. \A j \in lo..m : s[j] \in S
    BY <1>1
  <2>3. ASSUME NEW a \in S PROVE \E j \in lo..m : s[j] = a
    <3>1. PICK j \in 1..m : s[j] = a
      OBVIOUS
    <3>2. ~(j < i) /\ j # i
      BY <1>1, <3>1
    <3> QED
      BY <3>1, <3>2
  <2> HIDE DEF S, lo
  <2>4. Cardinality(S) = m - i
    BY <1>2, <2>1, <2>2, <2>3
  <2>5. UsedSince(table, s[i]) = m - i
    BY <2>4 DEF UsedSince, S
  <2>6. PageAt(table, UsedSince(table, s[i])) = s[i]
    BY PageAtHasRank
  <2> QED
    BY <2>5, <2>6
<1> QED
  BY <1>3, <1>4

-----------------------------------------------------------------------------
(* Operations                                                              *)

IsOp(op) == op = [type |-> op.type, target |-> op.target, full |-> op.full]

LEMMA NoImpactIsNull == IsOp(NoImpact) /\ IsNull(NoImpact)
BY DEF IsOp, NoImpact, IsNull

LEMMA AddFullKeepsTarget ==
    ASSUME NEW op, IsOp(op), NEW amount
    PROVE  /\ IsOp(AddFull(op, amount))
           /\ AddFull(op, amount).type = op.type
           /\ AddFull(op, amount).target = op.target
           /\ IsNull(AddFull(op, amount)) <=> IsNull(op)
BY DEF IsOp, AddFull, IsNull

LEMMA MakeNullIsNull ==
    ASSUME NEW op, IsOp(op)
    PROVE  IsOp(MakeNull(op)) /\ IsNull(MakeNull(op))
BY DEF IsOp, MakeNull, IsNull

-----------------------------------------------------------------------------
(* Scratch spaces                                                          *)

\* A scratch space with the Null at its end.
IsStack(q) ==
    /\ Len(q) \in Nat \ {0}
    /\ q \in Seq({q[j] : j \in 1..Len(q)})
    /\ \A j \in 1..Len(q) : IsOp(q[j])

\* The places of the operations that wait in the scratch spaces 0..n-1.
Waiting(scratch, n) ==
    {w \in (0..(n - 1)) \X Nat : w[2] \in 1..(Len(scratch[w[1]]) - 1)}

LEMMA WaitingPushed ==
    ASSUME NEW scratch, NEW n, NEW p, NEW q,
           \A x \in 0..(n - 1) : x \in DOMAIN scratch /\ Len(scratch[x]) \in Nat \ {0},
           p \in 0..(n - 1) => Len(q) = Len(scratch[p]) + 1,
           IsFiniteSet(Waiting(scratch, n))
    PROVE  LET after == Waiting([scratch EXCEPT ![p] = q], n)
           IN  /\ IsFiniteSet(after)
               /\ Cardinality(after) <= Cardinality(Waiting(scratch, n)) + 1
<1> DEFINE after == Waiting([scratch EXCEPT ![p] = q], n)
           before == Waiting(scratch, n)
<1>0. Cardinality(before) \in Nat
  BY FS_CardinalityType
<1>1. CASE p \in 0..(n - 1)
  <2> DEFINE w == <<p, Len(scratch[p])>>
  <2>1. \A x \in 0..(n - 1) : [scratch EXCEPT ![p] = q][x] = IF x = p THEN q ELSE scratch[x]
    OBVIOUS
  <2>2. after \subseteq before \cup {w}
    BY <1>1, <2>1 DEF Waiting
  <2>3. /\ IsFiniteSet(before \cup {w})
        /\ Cardinality(before \cup {w}) <= Cardinality(before) + 1
        /\ Cardinality(before \cup {w}) \in Nat
    <3>1. IsFiniteSet(before)
      OBVIOUS
    <3> HIDE DEF before, w
    <3>2. Cardinality(before \cup {w}) \in {Cardinality(before), Cardinality(before) + 1}
      BY <3>1, FS_AddElement
    <3>3. IsFiniteSet(before \cup {w})
      BY <3>1, FS_AddElement
    <3> QED
      BY <1>0, <3>2, <3>3
  <2>4. IsFiniteSet(after) /\ Cardinality(after) <= Cardinality(before \cup {w})
    <3> HIDE DEF before, w, after
    <3> QED
      BY <2>2, <2>3, FS_Subset
  <2>5. Cardinality(after) \in Nat
    BY <2>4, FS_CardinalityType
  <2> HIDE DEF before, w, after
  <2>6. Cardinality(after) <= Cardinality(before) + 1
    BY <1>0, <2>3, <2>4, <2>5
  <2> QED
    BY <2>4, <2>6 DEF before, after
<1>2. CASE p \notin 0..(n - 1)
  <2>1. \A x \in 0..(n - 1) : [scratch EXCEPT ![p] = q][x] = scratch[x]
    BY <1>2
  <2>2. after = before
    BY <2>1 DEF Waiting
  <2> HIDE DEF before, after
  <2>3. Cardinality(after) <= Cardinality(before) + 1
    BY <1>0, <2>2
  <2> QED
    BY <2>2, <2>3 DEF before, after
<1> QED
  BY <1>1, <1>2

\* The operations of a scratch space that wait no longer.
LEMMA WaitingPopped ==
    ASSUME NEW scratch, NEW n \in Nat \ {0},
           \A x \in 0..(n - 1) : x \in DOMAIN scratch /\ Len(scratch[x]) \in Nat \ {0},
           IsFiniteSet(Waiting(scratch, n))
    PROVE  LET after == Waiting([scratch EXCEPT ![n - 1] = <<>>], n - 1)
           IN  /\ IsFiniteSet(after)
               /\ Cardinality(after) + (Len(scratch[n - 1]) - 1)
                      <= Cardinality(Waiting(scratch, n))
<1> DEFINE after == Waiting([scratch EXCEPT ![n - 1] = <<>>], n - 1)
           before == Waiting(scratch, n)
           top == {w \in before : w[1] = n - 1}
           l == Len(scratch[n - 1])
           f == [j \in 1..(l - 1) |-> <<n - 1, j>>]
<1>1. l \in Nat \ {0} /\ n - 1 \in 0..(n - 1)
  OBVIOUS
<1>2. \A x \in 0..(n - 1 - 1) : [scratch EXCEPT ![n - 1] = <<>>][x] = scratch[x]
  OBVIOUS
<1>3. after \subseteq before /\ after \cap top = {}
  BY <1>2 DEF Waiting
<1>4. f \in Injection(1..(l - 1), top)
  <2>1. \A j \in 1..(l - 1) : f[j] \in top
    BY <1>1 DEF Waiting
  <2>2. \A j, k \in 1..(l - 1) : f[j] = f[k] => j = k
    OBVIOUS
  <2>3. f = [j \in 1..(l - 1) |-> f[j]]
    OBVIOUS
  <2> HIDE DEF f, top
  <2>4. f \in [1..(l - 1) -> top]
    BY <2>1, <2>3
  <2> QED
    BY <2>2, <2>4 DEF Injection, IsInjective
<1>5. top \subseteq before
  OBVIOUS
<1> HIDE DEF after, before, top, f, l
<1>6. IsFiniteSet(before)
  BY DEF before
<1>7. IsFiniteSet(after) /\ IsFiniteSet(top)
  BY <1>3, <1>5, <1>6, FS_Subset
<1>8. Cardinality(1..(l - 1)) = l - 1 /\ Cardinality(1..(l - 1)) <= Cardinality(top)
  <2>1. 1 \in Int /\ l - 1 \in Int
    BY <1>1
  <2>2. Cardinality(1..(l - 1)) = IF 1 > l - 1 THEN 0 ELSE l - 1 - 1 + 1
    BY <2>1, FS_Interval, Zenon
  <2>3. Cardinality(1..(l - 1)) <= Cardinality(top)
    BY <1>4, <1>7, FS_Injection
  <2> QED
    BY <1>1, <2>2, <2>3
<1>9. Cardinality(after \cup top) = Cardinality(after) + Cardinality(top)
  <2>1. Cardinality(after \cap top) = 0
    BY <1>3, FS_EmptySet
  <2>2. Cardinality(after) \in Nat /\ Cardinality(top) \in Nat
    BY <1>7, FS_CardinalityType
  <2>3. Cardinality(after \cup top)
            = Cardinality(after) + Cardinality(top) - Cardinality(after \cap top)
    BY <1>7, FS_Union
  <2> QED
    BY <2>1, <2>2, <2>3
<1>10. Cardinality(after \cup top) <= Cardinality(before)
  <2>1. after \cup top \subseteq before
    BY <1>3, <1>5
  <2> QED
    BY <1>6, <2>1, FS_Subset
<1>11. /\ Cardinality(after) \in Nat /\ Cardinality(top) \in Nat
       /\ Cardinality(before) \in Nat
  BY <1>6, <1>7, FS_CardinalityType
<1>12. Cardinality(after) + (l - 1) <= Cardinality(before)
  BY <1>1, <1>8, <1>9, <1>10, <1>11
<1> QED
  BY <1>7, <1>12 DEF after, before, l

-----------------------------------------------------------------------------
(* The operations at the start                                             *)

\* What populate_operations makes of a log: a vector of operations, the first
\* of which is the Null of the first request.
LEMMA CompactedOperations ==
    ASSUME NEW v, Log(v), Len(v) \in Nat \ {0}
    PROVE  LET ops == Compact(UncompactedOperations(v))
           IN  /\ Len(ops) \in Nat \ {0}
               /\ \A k \in 1..Len(ops) : IsOp(ops[k])
               /\ IsNull(ops[1])
<1> DEFINE n == Len(v)
           unc == UncompactedOperations(v)
           K == {k \in 1..Len(unc) : k = 1 \/ ~IsNull(unc[k])}
           kept == Ascending(K)
           f == [m \in 1..Len(kept) |-> unc[kept[m]]]
<1>1. /\ Len(unc) = 2 * n
      /\ \A i \in 1..n : /\ unc[2 * v[i].access_number - 1] = PrefixOf(v, i)
                         /\ unc[2 * v[i].access_number] = PostfixOf(v, i)
      /\ \A k \in 1..(2 * n) : \E i \in 1..n :
             k = 2 * v[i].access_number - 1 \/ k = 2 * v[i].access_number
      /\ \A i \in 1..n : v[i].access_number \in 1..n
      /\ n \in Nat \ {0}
  BY LogSlots, UncompactedOperationsProperties DEF Log
<1>2. \A i \in 1..n : IsOp(PrefixOf(v, i)) /\ IsOp(PostfixOf(v, i))
  BY DEF PrefixOf, PostfixOf, PrefixOp, PostfixOp, NoImpact, IsOp
<1> HIDE DEF unc, n
<1>3. \A k \in 1..(2 * n) : IsOp(unc[k])
  <2> SUFFICES ASSUME NEW k \in 1..(2 * n) PROVE IsOp(unc[k])
    OBVIOUS
  <2>1. PICK i \in 1..n : k = 2 * v[i].access_number - 1 \/ k = 2 * v[i].access_number
    BY <1>1
  <2> QED
    BY <1>1, <1>2, <2>1
<1>4. IsNull(unc[1])
  <2>1. 1 \in 1..(2 * n)
    BY <1>1
  <2>2. PICK i \in 1..n : 1 = 2 * v[i].access_number - 1 \/ 1 = 2 * v[i].access_number
    BY <1>1, <2>1
  <2>3. v[i].access_number = 1 /\ 1 = 2 * v[i].access_number - 1
    BY <1>1, <2>2, SMTT(30)
  <2>4. unc[1] = PrefixOf(v, i)
    BY <1>1, <2>3
  <2>5. PrefixOf(v, i).target = 0
    BY <2>3 DEF PrefixOf, PrefixOp
  <2> QED
    BY <2>4, <2>5 DEF IsNull
<1>5. /\ 2 * n \in Nat
      /\ \A j \in K : j \in Nat /\ 1 <= j /\ j <= 2 * n
      /\ 1 \in K
  BY <1>1
<1> HIDE DEF K
<1>6. /\ Cardinality(K) \in Nat
      /\ Rank(K, 1) = 0
      /\ \A k \in Nat, j \in K : j < k => Rank(K, j) < Rank(K, k)
      /\ \A k \in Nat : Rank(K, k) \in Nat
      /\ Len(kept) = Cardinality(K)
      /\ \A m \in 1..Cardinality(K) : kept[m] \in K /\ Rank(K, kept[m]) = m - 1
  <2> DEFINE N == 2 * n
  <2>1. N \in Nat /\ \A j \in K : j \in Nat /\ 1 <= j /\ j <= N
    BY <1>5
  <2> HIDE DEF N, kept
  <2>2. /\ Cardinality(K) \in Nat
        /\ Rank(K, 1) = 0
        /\ \A k \in Nat : Rank(K, k) \in Nat
        /\ \A k \in Nat, j \in K : j < k => Rank(K, j) < Rank(K, k)
    BY <2>1, RankProperties, Zenon
  <2>3. /\ Len(Ascending(K)) = Cardinality(K)
        /\ \A m \in 1..Cardinality(K) :
              Ascending(K)[m] \in K /\ Rank(K, Ascending(K)[m]) = m - 1
    BY <2>1, AscendingProperties, Zenon
  <2> QED
    BY <2>2, <2>3 DEF kept
<1>7. Len(kept) \in Nat \ {0}
  <2>1. /\ IsFiniteSet(K)
    <3>1. K \subseteq 1..(2 * n)
      BY <1>1, <1>5
    <3>2. IsFiniteSet(1..(2 * n))
      BY <1>1, FS_Interval
    <3> QED
      BY <3>1, <3>2, FS_Subset
  <2>2. Cardinality(K) # 0
    BY <1>5, <2>1, FS_EmptySet
  <2> QED
    BY <1>6, <2>2
<1>8. kept[1] = 1
  <2>1. 1 \in 1..Cardinality(K)
    BY <1>6, <1>7
  <2>2. kept[1] \in K /\ Rank(K, kept[1]) = 0
    BY <1>6, <2>1
  <2>3. kept[1] \in Nat /\ 1 <= kept[1]
    BY <1>5, <2>2
  <2>4. ~(1 < kept[1])
    <3>1. 1 < kept[1] => Rank(K, 1) < Rank(K, kept[1])
      BY <1>5, <1>6, <2>3
    <3>2. Rank(K, 1) = 0 /\ Rank(K, kept[1]) = 0
      BY <1>6, <2>2
    <3> QED
      BY <3>1, <3>2
  <2> QED
    BY <2>3, <2>4
<1>9. \A m \in 1..Len(kept) : kept[m] \in 1..(2 * n)
  BY <1>1, <1>5, <1>6
<1> HIDE DEF kept
<1>10. /\ \A m \in 1..Len(kept) : IsOp(f[m])
       /\ IsNull(f[1])
  BY <1>3, <1>4, <1>7, <1>8, <1>9
<1>11. f \in [1..Len(kept) -> {f[m] : m \in 1..Len(kept)}]
  OBVIOUS
<1>12. Compact(UncompactedOperations(v)) = Vector(f)
  BY DEF Compact, f, kept, K, unc
<1> HIDE DEF f
<1>13. Vector(f) = f /\ Len(f) = Len(kept)
  BY <1>7, <1>11, VectorOfFunction
<1> QED
  BY <1>7, <1>10, <1>12, <1>13

-----------------------------------------------------------------------------
(* What operations add to a distance                                       *)

\* What the operations at lo..hi add to the distance of request j.
Terms(ops, lo, hi, j) == [k \in lo..hi |-> Whole(ops[k], j)]

Adds(ops, lo, hi, j) == SumFunctionOnSet(Terms(ops, lo, hi, j), lo..hi)

\* An operation on the requests 1..n.
OpInv(op, n) ==
    /\ IsOp(op)
    /\ op.type \in {"Prefix", "Postfix", "Null"}
    /\ op.target \in 0..n
    /\ op.full \in Int
    /\ op.type = "Null" <=> op.target = 0

\* The requests that operations of a type have for targets.
Targets(ops, lo, hi, type) ==
    {ops[k].target : k \in {l \in lo..hi : ops[l].type = type}}

\* Operations in the order of their accesses: what comes before a Prefix has
\* a smaller target, and adds nothing to the requests from its target on; no
\* request is frozen twice, and each gets its due.
Coherent(ops, lo, hi, n, due) ==
    /\ \A k \in lo..hi : OpInv(ops[k], n)
    /\ \A l \in lo..hi : ops[l].type = "Prefix" =>
          /\ \A k \in lo..(l - 1) : ops[k].target < ops[l].target
          /\ Adds(ops, lo, l - 1, n) = 0
    /\ \A k \in lo..hi : \A l \in lo..hi :
          /\ ops[k].type = "Postfix" /\ ops[l].type = "Postfix"
          /\ ops[k].target = ops[l].target
          => k = l
    /\ \A k \in lo..hi : ops[k].type = "Postfix" =>
          Adds(ops, lo, k - 1, ops[k].target) + 1 = due[ops[k].target]

\* The operations of a sequence that is not being partitioned: a Prefix to
\* every request but the last, a Postfix to every request that is due.
Projected(ops, lo, hi, start, end, n, due) ==
    /\ Coherent(ops, lo, hi, n, due)
    /\ Targets(ops, lo, hi, "Prefix") = start..(end - 1)
    /\ Targets(ops, lo, hi, "Postfix") = DOMAIN due \cap start..end
    /\ \A k \in (lo + 1)..hi : ~IsNull(ops[k])

\* The requests whose Postfix waits in the scratch spaces below i.
WaitingTargets(scratch, i) == {scratch[w[1]][w[2]].target : w \in Waiting(scratch, i)}

\* A scratch space of Postfixes to requests of a range, and the Null at its
\* end; the operations at lo..cur are yet to come.
StackInv(stack, unseen, range, ops, lo, cur, n, due) ==
    LET len == Len(stack)
    IN  /\ IsNull(stack[len]) /\ stack[len].full \in Int
        /\ \A m \in 1..(len - 1) :
              /\ OpInv(stack[m], n) /\ stack[m].type = "Postfix"
              /\ stack[m].target \in range
              /\ Adds(stack, m + 1, len - 1, stack[m].target) + unseen
                   + Adds(ops, lo, cur, stack[m].target) + 1 = due[stack[m].target]
        /\ \A m \in 1..(len - 1) : \A l \in 1..(len - 1) :
              stack[m].target = stack[l].target => m = l

\* The distances of a base case so far.
LocalInv(t, ops) ==
    /\ t.local.idx \in 0..t.seq.num_ops
    /\ t.local.full_amnt \in Int
    /\ t.local.distances \in [t.seq.start..t.seq.end -> Int]
    /\ \A j \in t.seq.start..t.seq.end :
          t.local.distances[j] + t.local.full_amnt
             = Adds(ops, t.seq.base, t.seq.base + t.local.idx - 1, j)

\* What each request of a trace that is accessed again is due to be frozen at.
Due(tr) ==
    [p \in {PreviousAccess(tr, i) : i \in Repeats(tr)} |->
        Distance(tr, CHOOSE i \in Repeats(tr) : PreviousAccess(tr, i) = p)]

\* The requests of a task that are still to be frozen.
Unfrozen(t, ops, due) ==
    IF t.pc = "base_case"
    THEN Targets(ops, t.seq.base + t.local.idx, t.seq.base + t.seq.num_ops - 1, "Postfix")
    ELSE DOMAIN due \cap t.seq.start..t.seq.end

\* The requests that any of the tasks has still to freeze.
Live(ts, ops, due) == UNION {Unfrozen(ts[s], ops, due) : s \in DOMAIN ts}

\* The requests at a distance that have been frozen.
FrozenAt(d, due, live) == {p \in DOMAIN due : due[p] = d /\ p \notin live}

\* A histogram that counts the requests that have been frozen.
Counts(hits, due, live) ==
    \A d \in DOMAIN hits : hits[d] = Cardinality(FrozenAt(d, due, live))

-----------------------------------------------------------------------------
(* Sums of what operations add                                             *)

LEMMA WholeType ==
    ASSUME NEW op, op.full \in Int, NEW j
    PROVE  Whole(op, j) \in Int
BY DEF Whole, Effect, IncAmnt

\* Slots hold operations with integer amounts.
Summable(ops, lo, hi) ==
    lo \in Int /\ hi \in Int /\ \A k \in lo..hi : ops[k].full \in Int

LEMMA AddsTerms ==
    ASSUME NEW ops, NEW lo, NEW hi, NEW j, Summable(ops, lo, hi)
    PROVE  LET f == Terms(ops, lo, hi, j)
           IN  /\ IsFiniteSet(lo..hi)
               /\ \A k \in lo..hi : f[k] = Whole(ops[k], j) /\ f[k] \in Int
               /\ Adds(ops, lo, hi, j) = SumFunctionOnSet(f, lo..hi)
<1> DEFINE D == lo..hi
           f == Terms(ops, lo, hi, j)
<1>1. IsFiniteSet(D)
  BY FS_Interval DEF Summable
<1>2. \A k \in D : f[k] = Whole(ops[k], j) /\ f[k] \in Int
  BY WholeType DEF Summable, Terms
<1>3. Adds(ops, lo, hi, j) = SumFunctionOnSet(f, D)
  BY DEF Adds
<1> QED
  BY <1>1, <1>2, <1>3

LEMMA AddsType ==
    ASSUME NEW ops, NEW lo, NEW hi, NEW j, Summable(ops, lo, hi)
    PROVE  Adds(ops, lo, hi, j) \in Int
<1> DEFINE D == lo..hi
           f == Terms(ops, lo, hi, j)
<1>1. /\ IsFiniteSet(D)
      /\ \A k \in D : f[k] \in Int
      /\ Adds(ops, lo, hi, j) = SumFunctionOnSet(f, D)
  BY AddsTerms, Zenon
<1> HIDE DEF D, f
<1> QED
  BY <1>1, SumType

LEMMA AddsNone ==
    ASSUME NEW ops, NEW lo \in Int, NEW hi \in Int, NEW j, hi < lo
    PROVE  Adds(ops, lo, hi, j) = 0
<1> DEFINE f == Terms(ops, lo, hi, j)
<1>1. lo..hi = {}
  OBVIOUS
<1>2. Adds(ops, lo, hi, j) = SumFunctionOnSet(f, {})
  BY <1>1 DEF Adds
<1> HIDE DEF f
<1>3. \A x \in {} : f[x] \in Int
  OBVIOUS
<1> QED
  BY <1>2, <1>3, FS_EmptySet, SumProperties

\* Two vectors, or two requests, that make no difference.
LEMMA AddsSame ==
    ASSUME NEW ops, NEW lo, NEW hi, NEW j, Summable(ops, lo, hi),
           NEW ops2, NEW j2,
           \A k \in lo..hi : Whole(ops2[k], j2) = Whole(ops[k], j)
    PROVE  Adds(ops2, lo, hi, j2) = Adds(ops, lo, hi, j)
<1> DEFINE D == lo..hi
           f == Terms(ops, lo, hi, j)
           g == Terms(ops2, lo, hi, j2)
<1>1. /\ IsFiniteSet(D)
      /\ \A k \in D : f[k] = Whole(ops[k], j) /\ f[k] \in Int
      /\ Adds(ops, lo, hi, j) = SumFunctionOnSet(f, D)
  BY AddsTerms, Zenon
<1>2. Adds(ops2, lo, hi, j2) = SumFunctionOnSet(g, D)
  BY DEF Adds
<1>3. \A k \in D : f[k] \in Int /\ g[k] = f[k]
  BY <1>1 DEF Terms
<1> HIDE DEF D, f, g
<1>4. SumFunctionOnSet(f, D) = SumFunctionOnSet(g, D)
  BY <1>1, <1>3, SumSame
<1> QED
  BY <1>1, <1>2, <1>4

LEMMA AddsSplit ==
    ASSUME NEW ops, NEW lo, NEW hi, NEW j, Summable(ops, lo, hi),
           NEW m \in Int, lo <= m, m <= hi + 1
    PROVE  /\ Adds(ops, lo, hi, j) = Adds(ops, lo, m - 1, j) + Adds(ops, m, hi, j)
           /\ Summable(ops, lo, m - 1) /\ Summable(ops, m, hi)
<1> DEFINE D == lo..hi
           A == lo..(m - 1)
           B == m..hi
           f == Terms(ops, lo, hi, j)
           fa == Terms(ops, lo, m - 1, j)
           fb == Terms(ops, m, hi, j)
<1>0. lo \in Int /\ hi \in Int
  BY DEF Summable
<1>1. \A k : k \in D <=> k \in A \/ k \in B
  BY <1>0
<1>2. A \cap B = {} /\ m - 1 \in Int
  BY <1>0
<1>3. Summable(ops, lo, m - 1) /\ Summable(ops, m, hi)
  BY <1>0, <1>1, <1>2 DEF Summable
<1>4. /\ IsFiniteSet(D)
      /\ \A k \in D : f[k] = Whole(ops[k], j) /\ f[k] \in Int
      /\ Adds(ops, lo, hi, j) = SumFunctionOnSet(f, D)
  BY AddsTerms, Zenon
<1>5. /\ IsFiniteSet(A)
      /\ \A k \in A : fa[k] = Whole(ops[k], j) /\ fa[k] \in Int
      /\ Adds(ops, lo, m - 1, j) = SumFunctionOnSet(fa, A)
  BY <1>3, AddsTerms, Zenon
<1>6. /\ IsFiniteSet(B)
      /\ \A k \in B : fb[k] = Whole(ops[k], j) /\ fb[k] \in Int
      /\ Adds(ops, m, hi, j) = SumFunctionOnSet(fb, B)
  BY <1>3, AddsTerms, Zenon
<1> HIDE DEF D, A, B, f, fa, fb
<1>7. D = A \cup B /\ A \in SUBSET D /\ B \in SUBSET D
  BY <1>1
<1>8. SumFunctionOnSet(f, D) = SumFunctionOnSet(f, A) + SumFunctionOnSet(f, B)
  BY <1>2, <1>4, <1>7, SumOfUnion
<1>9. /\ \A k \in A : fa[k] \in Int /\ f[k] = fa[k]
      /\ \A k \in B : fb[k] \in Int /\ f[k] = fb[k]
  BY <1>1, <1>4, <1>5, <1>6
<1>10. SumFunctionOnSet(fa, A) = SumFunctionOnSet(f, A)
  BY <1>5, <1>9, SumSame
<1>11. SumFunctionOnSet(fb, B) = SumFunctionOnSet(f, B)
  BY <1>6, <1>9, SumSame
<1> QED
  BY <1>3, <1>4, <1>5, <1>6, <1>8, <1>10, <1>11

LEMMA AddsSingle ==
    ASSUME NEW ops, NEW k \in Int, NEW j, ops[k].full \in Int
    PROVE  Adds(ops, k, k, j) = Whole(ops[k], j)
<1> DEFINE f == Terms(ops, k, k, j)
<1>1. k..k = {k}
  OBVIOUS
<1>2. f[k] = Whole(ops[k], j) /\ f[k] \in Int
  BY <1>1, WholeType DEF Terms
<1>3. Adds(ops, k, k, j) = SumFunctionOnSet(f, {k})
  BY <1>1 DEF Adds
<1> HIDE DEF f
<1>4. IsFiniteSet({k}) /\ {k} \ {k} = {} /\ \A x \in {k} : f[x] \in Int
  BY <1>2, FS_Singleton
<1>5. SumFunctionOnSet(f, {k}) = f[k] + SumFunctionOnSet(f, {k} \ {k})
  BY <1>4, SumRest
<1>6. SumFunctionOnSet(f, {}) = 0
  BY <1>4, SumProperties
<1>7. SumFunctionOnSet(f, {k} \ {k}) = 0
  BY <1>4, <1>6, Zenon
<1> QED
  BY <1>2, <1>3, <1>5, <1>7

\* The last and the first of them.
LEMMA AddsLast ==
    ASSUME NEW ops, NEW lo, NEW hi, NEW j, Summable(ops, lo, hi), lo <= hi
    PROVE  /\ Adds(ops, lo, hi, j) = Adds(ops, lo, hi - 1, j) + Whole(ops[hi], j)
           /\ Summable(ops, lo, hi - 1)
<1> DEFINE m == hi
<1>1. /\ hi \in Int /\ ops[hi].full \in Int
      /\ m \in Int /\ lo <= m /\ m <= hi + 1
  BY DEF Summable
<1> HIDE DEF m
<1>2. /\ Adds(ops, lo, hi, j) = Adds(ops, lo, m - 1, j) + Adds(ops, m, hi, j)
      /\ Summable(ops, lo, m - 1)
  BY <1>1, AddsSplit
<1>3. Adds(ops, hi, hi, j) = Whole(ops[hi], j)
  BY <1>1, AddsSingle
<1> QED
  BY <1>2, <1>3 DEF m

LEMMA AddsFirst ==
    ASSUME NEW ops, NEW lo, NEW hi, NEW j, Summable(ops, lo, hi), lo <= hi
    PROVE  /\ Adds(ops, lo, hi, j) = Whole(ops[lo], j) + Adds(ops, lo + 1, hi, j)
           /\ Summable(ops, lo + 1, hi)
<1> DEFINE m == lo + 1
<1>1. lo \in Int /\ hi \in Int /\ ops[lo].full \in Int
  BY DEF Summable
<1>2. m \in Int /\ lo <= m /\ m <= hi + 1 /\ m - 1 = lo
  BY <1>1
<1> HIDE DEF m
<1>3. /\ Adds(ops, lo, hi, j) = Adds(ops, lo, m - 1, j) + Adds(ops, m, hi, j)
      /\ Summable(ops, m, hi)
  BY <1>2, AddsSplit
<1>4. Adds(ops, lo, lo, j) = Whole(ops[lo], j)
  BY <1>1, AddsSingle
<1> QED
  BY <1>2, <1>3, <1>4 DEF m

\* Slots that add nothing.
LEMMA AddsNothing ==
    ASSUME NEW ops, NEW lo \in Int, NEW hi \in Int, NEW j,
           \A k \in lo..hi : Whole(ops[k], j) = 0
    PROVE  Adds(ops, lo, hi, j) = 0
<1> DEFINE D == lo..hi
           f == Terms(ops, lo, hi, j)
           none == [k \in D |-> 0]
           P == {T \in SUBSET D : SumFunctionOnSet(f, T) = 0}
<1>1. IsFiniteSet(D)
  BY FS_Interval
<1>2. Adds(ops, lo, hi, j) = SumFunctionOnSet(f, D)
  BY DEF Adds
<1>3. \A k \in D : f[k] \in Int /\ f[k] = 0
  BY DEF Terms
<1> HIDE DEF D, f
<1>4. /\ SumFunctionOnSet(f, {}) = 0
      /\ \A T \in SUBSET D : \A x \in D \ T :
            SumFunctionOnSet(f, T \cup {x}) = SumFunctionOnSet(f, T) + f[x]
  BY <1>1, <1>3, SumProperties
<1>5. {} \in P
  BY <1>4
<1>6. \A T \in SUBSET D : \A x \in D \ T : T \in P => T \cup {x} \in P
  BY <1>3, <1>4
<1>7. SUBSET D \subseteq P
  <2> HIDE DEF P
  <2> QED
    BY <1>1, <1>5, <1>6, SetOfSubsets
<1> QED
  BY <1>2, <1>7

\* Vectors that agree on the slots.
LEMMA AddsFrame ==
    ASSUME NEW ops, NEW lo, NEW hi, NEW j, Summable(ops, lo, hi),
           NEW ops2, \A k \in lo..hi : ops2[k] = ops[k]
    PROVE  Adds(ops2, lo, hi, j) = Adds(ops, lo, hi, j) /\ Summable(ops2, lo, hi)
<1>1. \A k \in lo..hi : Whole(ops2[k], j) = Whole(ops[k], j)
  OBVIOUS
<1>2. Adds(ops2, lo, hi, j) = Adds(ops, lo, hi, j)
  BY <1>1, AddsSame
<1> QED
  BY <1>2 DEF Summable

\* Vectors that differ in one slot.
LEMMA AddsWrite ==
    ASSUME NEW ops, NEW lo, NEW hi, NEW j, Summable(ops, lo, hi),
           NEW ops2, Summable(ops2, lo, hi),
           NEW a \in lo..hi, \A k \in lo..hi : k # a => ops2[k] = ops[k]
    PROVE  Adds(ops2, lo, hi, j) =
             Adds(ops, lo, hi, j) + Whole(ops2[a], j) - Whole(ops[a], j)
<1> DEFINE D == lo..hi
           f == Terms(ops, lo, hi, j)
           g == Terms(ops2, lo, hi, j)
<1>1. /\ IsFiniteSet(D)
      /\ \A k \in D : f[k] = Whole(ops[k], j) /\ f[k] \in Int
      /\ Adds(ops, lo, hi, j) = SumFunctionOnSet(f, D)
  BY AddsTerms, Zenon
<1>2. /\ \A k \in D : g[k] = Whole(ops2[k], j) /\ g[k] \in Int
      /\ Adds(ops2, lo, hi, j) = SumFunctionOnSet(g, D)
  BY AddsTerms, Zenon
<1>3. a \in D /\ \A k \in D : k # a => ops2[k] = ops[k]
  OBVIOUS
<1> HIDE DEF D, f, g
<1>4. \A k \in D \ {a} : g[k] = f[k]
  BY <1>1, <1>2, <1>3
<1>5. \A k \in D : f[k] \in Int /\ g[k] \in Int
  BY <1>1, <1>2
<1>6. SumFunctionOnSet(g, D) = SumFunctionOnSet(f, D) + (IF a \in D THEN g[a] - f[a] ELSE 0)
  BY <1>1, <1>4, <1>5, SumOfChange
<1>7. SumFunctionOnSet(f, D) \in Int
  BY <1>1, <1>5, SumType
<1> QED
  BY <1>1, <1>2, <1>3, <1>5, <1>6, <1>7

\* Vectors that differ in two slots.
LEMMA AddsTwoWrites ==
    ASSUME NEW ops, NEW lo, NEW hi, NEW j, Summable(ops, lo, hi),
           NEW ops2, Summable(ops2, lo, hi),
           NEW a \in lo..hi, NEW b \in lo..hi, a # b,
           \A k \in lo..hi : k # a /\ k # b => ops2[k] = ops[k]
    PROVE  Adds(ops2, lo, hi, j) =
             Adds(ops, lo, hi, j) + (Whole(ops2[a], j) - Whole(ops[a], j))
                                  + (Whole(ops2[b], j) - Whole(ops[b], j))
<1> DEFINE one == [k \in lo..hi |-> IF k = a THEN ops2[k] ELSE ops[k]]
<1>1. /\ \A k \in lo..hi : k # a => one[k] = ops[k]
      /\ \A k \in lo..hi : k # b => ops2[k] = one[k]
      /\ one[a] = ops2[a] /\ one[b] = ops[b]
      /\ Summable(one, lo, hi)
  BY DEF Summable
<1> HIDE DEF one
<1>2. Adds(one, lo, hi, j) = Adds(ops, lo, hi, j) + Whole(one[a], j) - Whole(ops[a], j)
  BY <1>1, AddsWrite
<1>3. Adds(ops2, lo, hi, j) = Adds(one, lo, hi, j) + Whole(ops2[b], j) - Whole(one[b], j)
  BY <1>1, AddsWrite
<1>4. /\ Adds(ops, lo, hi, j) \in Int
      /\ Whole(ops2[a], j) \in Int /\ Whole(ops[a], j) \in Int
      /\ Whole(ops2[b], j) \in Int /\ Whole(ops[b], j) \in Int
  BY AddsType, WholeType DEF Summable
<1> QED
  BY <1>1, <1>2, <1>3, <1>4

\* What a vector adds from the end of a segment that adds the same.
LEMMA AddsOnward ==
    ASSUME NEW ops, NEW lo, NEW hi, NEW j, Summable(ops, lo, hi),
           NEW ops2, NEW lo2 \in Int, Summable(ops2, lo2, hi),
           NEW m \in Int, lo <= m, lo2 <= m, m <= hi,
           \A k \in (m + 1)..hi : ops2[k] = ops[k],
           NEW c \in Int, Adds(ops2, lo2, m, j) = Adds(ops, lo, m, j) + c
    PROVE  Adds(ops2, lo2, hi, j) = Adds(ops, lo, hi, j) + c
<1> DEFINE q == m + 1
<1>0. lo \in Int /\ hi \in Int
  BY DEF Summable
<1>1. q \in Int /\ lo <= q /\ lo2 <= q /\ q <= hi + 1 /\ q - 1 = m
  BY <1>0
<1>2. \A k \in q..hi : ops2[k] = ops[k]
  OBVIOUS
<1> HIDE DEF q
<1>3. /\ Adds(ops, lo, hi, j) = Adds(ops, lo, q - 1, j) + Adds(ops, q, hi, j)
      /\ Summable(ops, lo, q - 1) /\ Summable(ops, q, hi)
  BY <1>1, AddsSplit
<1>4. Adds(ops2, lo2, hi, j) = Adds(ops2, lo2, q - 1, j) + Adds(ops2, q, hi, j)
  BY <1>1, AddsSplit
<1>5. Adds(ops2, q, hi, j) = Adds(ops, q, hi, j)
  BY <1>2, <1>3, AddsFrame
<1>6. Adds(ops, lo, q - 1, j) \in Int /\ Adds(ops, q, hi, j) \in Int
  BY <1>3, AddsType
<1> QED
  BY <1>1, <1>3, <1>4, <1>5, <1>6

-----------------------------------------------------------------------------
(* Coherent operations                                                     *)

LEMMA CoherentSummable ==
    ASSUME NEW ops, NEW lo \in Int, NEW hi \in Int, NEW n, NEW due,
           Coherent(ops, lo, hi, n, due)
    PROVE  Summable(ops, lo, hi)
BY DEF Coherent, OpInv, Summable

\* What comes before a Prefix adds nothing to the requests from its target on.
LEMMA PrefixBalance ==
    ASSUME NEW ops, NEW lo \in Int, NEW hi \in Int, NEW n \in Nat, NEW due,
           Coherent(ops, lo, hi, n, due),
           NEW l \in lo..hi, ops[l].type = "Prefix",
           NEW j \in ops[l].target..n
    PROVE  Adds(ops, lo, l - 1, j) = 0
<1> DEFINE h == l - 1
<1>1. Adds(ops, lo, h, n) = 0
  BY DEF Coherent
<1>2. ASSUME NEW k \in lo..h PROVE Whole(ops[k], j) = Whole(ops[k], n)
  <2>1. ops[k].target < ops[l].target /\ OpInv(ops[k], n) /\ OpInv(ops[l], n)
    BY DEF Coherent
  <2>2. Effect(ops[k], j) = Effect(ops[k], n)
    BY <2>1 DEF Effect, OpInv
  <2> QED
    BY <2>2 DEF Whole
<1>3. Summable(ops, lo, h)
  BY DEF Coherent, OpInv, Summable
<1> HIDE DEF h
<1>4. Adds(ops, lo, h, j) = Adds(ops, lo, h, n)
  BY <1>2, <1>3, AddsSame
<1> QED
  BY <1>1, <1>4 DEF h

\* Operations that come from others, each in a place of its own in the same
\* order, and with as much before it.
ComesFrom(ops2, lo2, hi2, ops, lo, hi, n, origin) ==
    /\ \A l \in lo2..hi2 : OpInv(ops2[l], n)
    /\ \A l \in lo2..hi2 : ops2[l].type # "Null" =>
          /\ origin[l] \in lo..hi
          /\ ops[origin[l]].type = ops2[l].type
          /\ ops[origin[l]].target = ops2[l].target
          /\ ops2[l].type = "Prefix" =>
                Adds(ops2, lo2, l - 1, n) = Adds(ops, lo, origin[l] - 1, n)
          /\ ops2[l].type = "Postfix" =>
                Adds(ops2, lo2, l - 1, ops2[l].target)
                  = Adds(ops, lo, origin[l] - 1, ops2[l].target)
    /\ \A k, l \in lo2..hi2 :
          k < l /\ ops2[k].type # "Null" /\ ops2[l].type # "Null"
            => origin[k] < origin[l]

LEMMA CoherentMapped ==
    ASSUME NEW ops, NEW lo \in Int, NEW hi \in Int, NEW n \in Nat, NEW due,
           Coherent(ops, lo, hi, n, due),
           NEW ops2, NEW lo2 \in Int, NEW hi2 \in Int, NEW origin,
           ComesFrom(ops2, lo2, hi2, ops, lo, hi, n, origin)
    PROVE  Coherent(ops2, lo2, hi2, n, due)
<1>0. /\ \A l \in lo2..hi2 : OpInv(ops2[l], n)
      /\ \A l \in lo2..hi2 : ops2[l].type # "Null" =>
              /\ origin[l] \in lo..hi
              /\ ops[origin[l]].type = ops2[l].type
              /\ ops[origin[l]].target = ops2[l].target
              /\ ops2[l].type = "Prefix" =>
                    Adds(ops2, lo2, l - 1, n) = Adds(ops, lo, origin[l] - 1, n)
              /\ ops2[l].type = "Postfix" =>
                    Adds(ops2, lo2, l - 1, ops2[l].target)
                      = Adds(ops, lo, origin[l] - 1, ops2[l].target)
      /\ \A k, l \in lo2..hi2 :
              k < l /\ ops2[k].type # "Null" /\ ops2[l].type # "Null"
                => origin[k] < origin[l]
  BY DEF ComesFrom
<1>1. ASSUME NEW l \in lo2..hi2, ops2[l].type = "Prefix"
      PROVE  /\ \A k \in lo2..(l - 1) : ops2[k].target < ops2[l].target
             /\ Adds(ops2, lo2, l - 1, n) = 0
  <2>1. /\ origin[l] \in lo..hi
        /\ ops[origin[l]].type = "Prefix"
        /\ ops[origin[l]].target = ops2[l].target
        /\ Adds(ops2, lo2, l - 1, n) = Adds(ops, lo, origin[l] - 1, n)
    BY <1>0, <1>1
  <2>2. /\ \A k \in lo..(origin[l] - 1) : ops[k].target < ops[origin[l]].target
        /\ Adds(ops, lo, origin[l] - 1, n) = 0
    BY <2>1 DEF Coherent
  <2>3. ASSUME NEW k \in lo2..(l - 1) PROVE ops2[k].target < ops2[l].target
    <3>1. k \in lo2..hi2 /\ k < l /\ OpInv(ops2[k], n) /\ OpInv(ops2[l], n)
      BY <1>0
    <3>2. CASE ops2[k].type = "Null"
      BY <1>1, <3>1, <3>2 DEF OpInv
    <3>3. CASE ops2[k].type # "Null"
      <4>1. /\ origin[k] < origin[l] /\ origin[k] \in lo..hi
            /\ ops[origin[k]].target = ops2[k].target
        BY <1>0, <1>1, <3>1, <3>3
      <4>2. origin[k] \in lo..(origin[l] - 1)
        BY <2>1, <4>1
      <4> QED
        BY <2>1, <2>2, <4>1, <4>2
    <3> QED
      BY <3>2, <3>3
  <2> QED
    BY <2>1, <2>2, <2>3
<1>2. ASSUME NEW k \in lo2..hi2, NEW l \in lo2..hi2,
             ops2[k].type = "Postfix", ops2[l].type = "Postfix",
             ops2[k].target = ops2[l].target
      PROVE  k = l
  <2>1. /\ origin[k] \in lo..hi /\ origin[l] \in lo..hi
        /\ ops[origin[k]].type = "Postfix" /\ ops[origin[l]].type = "Postfix"
        /\ ops[origin[k]].target = ops[origin[l]].target
    BY <1>0, <1>2
  <2>2. origin[k] = origin[l]
    BY <2>1 DEF Coherent
  <2>3. ~(k < l) /\ ~(l < k)
    BY <1>0, <1>2, <2>1, <2>2
  <2> QED
    BY <2>3
<1>3. ASSUME NEW k \in lo2..hi2, ops2[k].type = "Postfix"
      PROVE  Adds(ops2, lo2, k - 1, ops2[k].target) + 1 = due[ops2[k].target]
  <2>1. /\ origin[k] \in lo..hi
        /\ ops[origin[k]].type = "Postfix"
        /\ ops[origin[k]].target = ops2[k].target
        /\ Adds(ops2, lo2, k - 1, ops2[k].target)
              = Adds(ops, lo, origin[k] - 1, ops2[k].target)
    BY <1>0, <1>3
  <2>2. Adds(ops, lo, origin[k] - 1, ops[origin[k]].target) + 1
            = due[ops[origin[k]].target]
    BY <2>1 DEF Coherent
  <2> QED
    BY <2>1, <2>2
<1> QED
  BY <1>0, <1>1, <1>2, <1>3 DEF Coherent

\* A part of coherent operations from their beginning on.
LEMMA CoherentBegin ==
    ASSUME NEW ops, NEW lo \in Int, NEW hi \in Int, NEW n \in Nat, NEW due,
           Coherent(ops, lo, hi, n, due),
           NEW ops2, NEW hi2 \in Int, hi2 <= hi,
           \A k \in lo..hi2 : OpInv(ops2[k], n),
           \A k \in lo..hi2 : ops2[k].type = ops[k].type /\ ops2[k].target = ops[k].target,
           \A k \in lo..(hi2 - 1) : ops2[k] = ops[k]
    PROVE  Coherent(ops2, lo, hi2, n, due)
<1> DEFINE origin == [k \in lo..hi2 |-> k]
<1>1. Summable(ops, lo, hi)
  BY CoherentSummable
<1>2. ASSUME NEW l \in lo..hi2, NEW j
      PROVE  Adds(ops2, lo, l - 1, j) = Adds(ops, lo, l - 1, j)
  <2> DEFINE h == l - 1
  <2>1. Summable(ops, lo, h) /\ \A k \in lo..h : ops2[k] = ops[k]
    BY <1>1 DEF Summable
  <2> HIDE DEF h
  <2>2. Adds(ops2, lo, h, j) = Adds(ops, lo, h, j)
    BY <2>1, AddsFrame
  <2> QED
    BY <2>2 DEF h
<1>3. \A l \in lo..hi2 : origin[l] = l /\ l \in lo..hi
  OBVIOUS
<1> HIDE DEF origin
<1>4. \A l \in lo..hi2 : ops2[l].type # "Null" =>
         /\ origin[l] \in lo..hi
         /\ ops[origin[l]].type = ops2[l].type
         /\ ops[origin[l]].target = ops2[l].target
         /\ ops2[l].type = "Prefix" =>
               Adds(ops2, lo, l - 1, n) = Adds(ops, lo, origin[l] - 1, n)
         /\ ops2[l].type = "Postfix" =>
               Adds(ops2, lo, l - 1, ops2[l].target)
                 = Adds(ops, lo, origin[l] - 1, ops2[l].target)
  BY <1>2, <1>3
<1>5. \A k, l \in lo..hi2 :
         k < l /\ ops2[k].type # "Null" /\ ops2[l].type # "Null"
           => origin[k] < origin[l]
  BY <1>3
<1>6. ComesFrom(ops2, lo, hi2, ops, lo, hi, n, origin)
  BY <1>4, <1>5 DEF ComesFrom
<1> QED
  BY <1>6, CoherentMapped

LEMMA TargetsSplit ==
    ASSUME NEW ops, NEW lo \in Int, NEW hi \in Int, NEW type,
           NEW m \in Int, lo <= m, m <= hi + 1
    PROVE  Targets(ops, lo, hi, type) =
             Targets(ops, lo, m - 1, type) \cup Targets(ops, m, hi, type)
<1>1. \A k : k \in lo..hi <=> k \in lo..(m - 1) \/ k \in m..hi
  OBVIOUS
<1> QED
  BY <1>1 DEF Targets

\* Vectors whose operations of a type have the same targets.
LEMMA TargetsFrame ==
    ASSUME NEW ops, NEW lo, NEW hi, NEW type, NEW ops2,
           \A k \in lo..hi :
              /\ ops2[k].type = type <=> ops[k].type = type
              /\ ops[k].type = type => ops2[k].target = ops[k].target
    PROVE  Targets(ops2, lo, hi, type) = Targets(ops, lo, hi, type)
BY DEF Targets

-----------------------------------------------------------------------------
(* What the steps of partition() do to coherent operations                 *)

LEMMA WholeOfFull ==
    ASSUME NEW op, IsOp(op), op.full \in Int, NEW amount \in Int, NEW j
    PROVE  /\ AddFull(op, amount).full = op.full + amount
           /\ Whole(AddFull(op, amount), j) = Whole(op, j) + amount
           /\ Whole(op, j) \in Int
<1>1. /\ AddFull(op, amount).full = op.full + amount
      /\ AddFull(op, amount).type = op.type
      /\ AddFull(op, amount).target = op.target
  BY DEF AddFull, IsOp
<1>2. Effect(AddFull(op, amount), j) = Effect(op, j) /\ Effect(op, j) \in Int
  BY <1>1 DEF Effect, IncAmnt
<1> QED
  BY <1>1, <1>2 DEF Whole

LEMMA WholeOfNull ==
    ASSUME NEW op, op.type = "Null", op.full \in Int, NEW j
    PROVE  Whole(op, j) = op.full
BY DEF Whole, Effect

LEMMA NoImpactInv ==
    ASSUME NEW n \in Nat, NEW j
    PROVE  OpInv(NoImpact, n) /\ NoImpact.type = "Null" /\ Whole(NoImpact, j) = 0
BY DEF OpInv, NoImpact, IsOp, Whole, Effect

\* An operation that stays on the right slides to the slot to merge into.
LEMMA OperationSlid ==
    ASSUME NEW ops, NEW lo \in Int, NEW hi \in Int, NEW n \in Nat, NEW due,
           Coherent(ops, lo, hi, n, due),
           NEW C \in lo..hi, NEW M \in lo..hi, C < M,
           \A k \in (C + 1)..(M - 1) : ops[k] = NoImpact,
           ops[M].type = "Null",
           NEW ops2, ops2[C] = NoImpact,
           ops2[M] = AddFull(ops[C], ops[M].full),
           \A k \in lo..hi : k # C /\ k # M => ops2[k] = ops[k]
    PROVE  /\ Coherent(ops2, lo, hi, n, due)
           /\ \A type \in {"Prefix", "Postfix"} :
                 Targets(ops2, lo, hi, type) = Targets(ops, lo, hi, type)
           /\ OpInv(ops2[M], n)
           /\ ops2[M].type = ops[C].type /\ ops2[M].target = ops[C].target
<1> DEFINE origin == [k \in lo..hi |-> IF k = M THEN C ELSE k]
<1>1. Summable(ops, lo, hi)
  BY CoherentSummable
<1>2. /\ \A k \in lo..hi : OpInv(ops[k], n)
      /\ OpInv(ops[C], n) /\ OpInv(ops[M], n)
  BY DEF Coherent
<1>3. /\ ops2[M].full = ops[C].full + ops[M].full
      /\ ops2[M].type = ops[C].type /\ ops2[M].target = ops[C].target
      /\ IsOp(ops2[M])
  <2>1. /\ IsOp(ops[C]) /\ ops[C].full \in Int /\ ops[M].full \in Int
        /\ ops2[M] = AddFull(ops[C], ops[M].full)
    BY <1>2 DEF OpInv
  <2>2. ops2[M].full = ops[C].full + ops[M].full
    BY <2>1 DEF AddFull, IsOp
  <2> QED
    BY <2>1, <2>2, AddFullKeepsTarget
<1>4. \A k \in lo..hi : OpInv(ops2[k], n)
  <2>1. OpInv(ops2[M], n)
    BY <1>2, <1>3 DEF OpInv
  <2>2. OpInv(ops2[C], n)
    BY NoImpactInv
  <2> QED
    BY <1>2, <2>1, <2>2
<1>5. Summable(ops2, lo, hi)
  BY <1>4 DEF Summable, OpInv
<1>6. ASSUME NEW j
      PROVE  /\ Whole(ops2[C], j) = 0 /\ Whole(ops[M], j) = ops[M].full
             /\ Whole(ops2[M], j) = Whole(ops[C], j) + ops[M].full
             /\ Whole(ops[C], j) \in Int /\ ops[M].full \in Int
  <2>1. Whole(ops2[C], j) = 0
    BY NoImpactInv
  <2>2. Whole(ops[M], j) = ops[M].full
    BY <1>2, WholeOfNull DEF OpInv
  <2>3. ops[M].full \in Int /\ ops[C].full \in Int /\ IsOp(ops[C])
    BY <1>2 DEF OpInv
  <2> QED
    BY <2>1, <2>2, <2>3, WholeOfFull
<1>7. ASSUME NEW l \in lo..hi, l <= C, NEW j
      PROVE  Adds(ops2, lo, l - 1, j) = Adds(ops, lo, l - 1, j)
  <2> DEFINE h == l - 1
  <2>1. Summable(ops, lo, h) /\ \A k \in lo..h : ops2[k] = ops[k]
    BY <1>1, <1>7 DEF Summable
  <2> HIDE DEF h
  <2>2. Adds(ops2, lo, h, j) = Adds(ops, lo, h, j)
    BY <2>1, AddsFrame
  <2> QED
    BY <2>2 DEF h
<1>8. ASSUME NEW j PROVE Adds(ops2, lo, M - 1, j) = Adds(ops, lo, C - 1, j)
  <2> DEFINE h == M - 1
  <2>1. h \in Int /\ Summable(ops2, lo, h) /\ lo <= C /\ C <= h + 1 /\ C \in Int
    BY <1>5 DEF Summable
  <2>2. \A k \in C..h : Whole(ops2[k], j) = 0
    <3>1. \A k \in C..h : ops2[k] = NoImpact
      OBVIOUS
    <3> QED
      BY <3>1, NoImpactInv
  <2> HIDE DEF h
  <2>3. /\ Adds(ops2, lo, h, j) = Adds(ops2, lo, C - 1, j) + Adds(ops2, C, h, j)
        /\ Summable(ops2, lo, C - 1)
    BY <2>1, AddsSplit
  <2>4. Adds(ops2, C, h, j) = 0
    BY <2>1, <2>2, AddsNothing
  <2>5. Adds(ops2, lo, C - 1, j) \in Int
    BY <2>3, AddsType
  <2> QED
    BY <1>7, <2>3, <2>4, <2>5 DEF h
<1>9. ASSUME NEW l \in lo..hi, M < l, NEW j
      PROVE  Adds(ops2, lo, l - 1, j) = Adds(ops, lo, l - 1, j)
  <2> DEFINE h == l - 1
  <2>1. /\ Summable(ops, lo, h) /\ Summable(ops2, lo, h)
        /\ C \in lo..h /\ M \in lo..h /\ C # M
        /\ \A k \in lo..h : k # C /\ k # M => ops2[k] = ops[k]
    BY <1>1, <1>5, <1>9 DEF Summable
  <2> HIDE DEF h
  <2>2. Adds(ops2, lo, h, j) =
             Adds(ops, lo, h, j) + (Whole(ops2[C], j) - Whole(ops[C], j))
                                 + (Whole(ops2[M], j) - Whole(ops[M], j))
    BY <2>1, AddsTwoWrites
  <2>3. Adds(ops, lo, h, j) \in Int
    BY <2>1, AddsType
  <2> QED
    BY <1>6, <2>2, <2>3 DEF h
<1>10. \A l \in lo..hi : origin[l] = IF l = M THEN C ELSE l
  OBVIOUS
<1>11. \A l \in lo..hi : ops2[l].type = "Null" \/ l < C \/ l = M \/ l > M
  <2>1. \A l \in lo..hi : l = C \/ l \in (C + 1)..(M - 1) \/ l < C \/ l = M \/ l > M
    OBVIOUS
  <2> QED
    BY <2>1, NoImpactInv
<1> HIDE DEF origin
<1>12. ASSUME NEW l \in lo..hi, ops2[l].type # "Null"
       PROVE  /\ origin[l] \in lo..hi
              /\ ops[origin[l]].type = ops2[l].type
              /\ ops[origin[l]].target = ops2[l].target
              /\ \A j : Adds(ops2, lo, l - 1, j) = Adds(ops, lo, origin[l] - 1, j)
  <2>1. CASE l = M
    BY <1>3, <1>8, <1>10, <2>1
  <2>2. CASE l # M
    <3>1. l # C
      BY <1>12, NoImpactInv
    <3>2. origin[l] = l /\ ops2[l] = ops[l]
      BY <1>10, <2>2, <3>1
    <3>3. l < C \/ l > M
      BY <1>11, <1>12, <2>2
    <3>4. \A j : Adds(ops2, lo, l - 1, j) = Adds(ops, lo, l - 1, j)
      BY <1>7, <1>9, <3>3
    <3> QED
      BY <3>2, <3>4
  <2> QED
    BY <2>1, <2>2
<1>13. \A k, l \in lo..hi :
          k < l /\ ops2[k].type # "Null" /\ ops2[l].type # "Null"
            => origin[k] < origin[l]
  BY <1>10, <1>11
<1>14. Coherent(ops2, lo, hi, n, due)
  <2>1. \A l \in lo..hi : ops2[l].type # "Null" =>
           /\ origin[l] \in lo..hi
           /\ ops[origin[l]].type = ops2[l].type
           /\ ops[origin[l]].target = ops2[l].target
           /\ ops2[l].type = "Prefix" =>
                 Adds(ops2, lo, l - 1, n) = Adds(ops, lo, origin[l] - 1, n)
           /\ ops2[l].type = "Postfix" =>
                 Adds(ops2, lo, l - 1, ops2[l].target)
                   = Adds(ops, lo, origin[l] - 1, ops2[l].target)
    BY <1>12
  <2>2. ComesFrom(ops2, lo, hi, ops, lo, hi, n, origin)
    BY <1>4, <1>13, <2>1 DEF ComesFrom
  <2> QED
    BY <2>2, CoherentMapped
<1>15. ASSUME NEW type \in {"Prefix", "Postfix"}
       PROVE  Targets(ops2, lo, hi, type) = Targets(ops, lo, hi, type)
  <2>1. \A k \in lo..hi : ops[k].type = type =>
           \E l \in lo..hi : ops2[l].type = type /\ ops2[l].target = ops[k].target
    BY <1>2, <1>3
  <2>2. \A k \in lo..hi : ops2[k].type = type =>
           \E l \in lo..hi : ops[l].type = type /\ ops[l].target = ops2[k].target
    BY <1>12
  <2> QED
    BY <2>1, <2>2 DEF Targets
<1> QED
  BY <1>3, <1>4, <1>14, <1>15

\* What is behind a slot up to which two vectors add the same to a request.
LEMMA SameOnward ==
    ASSUME NEW ops, NEW lo \in Int, NEW hi \in Int, Summable(ops, lo, hi),
           NEW ops2, NEW lo2 \in Int, Summable(ops2, lo2, hi),
           NEW M \in Int, lo <= M, lo2 <= M,
           \A k \in (M + 1)..hi : ops2[k] = ops[k],
           NEW j, Adds(ops2, lo2, M, j) = Adds(ops, lo, M, j),
           NEW l \in (M + 1)..(hi + 1)
    PROVE  Adds(ops2, lo2, l - 1, j) = Adds(ops, lo, l - 1, j)
<1> DEFINE h == l - 1
           c == 0
<1>1. /\ h \in Int /\ M <= h /\ h <= hi /\ c \in Int
      /\ Summable(ops, lo, h) /\ Summable(ops2, lo2, h)
      /\ \A k \in (M + 1)..h : ops2[k] = ops[k]
  BY DEF Summable
<1>2. Adds(ops, lo, M, j) \in Int /\ Adds(ops, lo, h, j) \in Int
  <2>1. Summable(ops, lo, M)
    BY <1>1 DEF Summable
  <2> HIDE DEF h
  <2> QED
    BY <1>1, <2>1, AddsType
<1>3. Adds(ops2, lo2, M, j) = Adds(ops, lo, M, j) + c
  BY <1>2
<1> HIDE DEF h, c
<1>4. Adds(ops2, lo2, h, j) = Adds(ops, lo, h, j) + c
  BY <1>1, <1>3, AddsOnward
<1> QED
  BY <1>2, <1>4 DEF c, h

\* A Postfix is taken out; what is left behind adds the same to its target and
\* to the requests after it.
LEMMA OperationTaken ==
    ASSUME NEW ops, NEW lo \in Int, NEW hi \in Int, NEW n \in Nat, NEW due,
           Coherent(ops, lo, hi, n, due),
           NEW C \in lo..hi, NEW M \in C..hi,
           ops[C].type = "Postfix",
           \A k \in (C + 1)..M : ops[k].type = "Null",
           \A k \in (M + 1)..hi : ops[C].target <= ops[k].target,
           NEW ops2, \A k \in lo..hi : OpInv(ops2[k], n),
           ops2[C].type = "Null",
           \A k \in lo..hi : k # C => ops2[k].type = ops[k].type /\ ops2[k].target = ops[k].target,
           \A k \in lo..hi : k < C \/ k > M => ops2[k] = ops[k],
           \A j \in ops[C].target..n : Adds(ops2, lo, M, j) = Adds(ops, lo, M, j)
    PROVE  /\ Coherent(ops2, lo, hi, n, due)
           /\ Targets(ops2, lo, hi, "Prefix") = Targets(ops, lo, hi, "Prefix")
           /\ Targets(ops2, lo, hi, "Postfix") = Targets(ops, lo, hi, "Postfix") \ {ops[C].target}
<1> DEFINE origin == [k \in lo..hi |-> k]
<1>1. Summable(ops, lo, hi)
  BY CoherentSummable
<1>2. /\ \A k \in lo..hi : OpInv(ops[k], n)
      /\ OpInv(ops[C], n)
  BY DEF Coherent
<1>3. Summable(ops2, lo, hi)
  BY DEF Summable, OpInv
<1>4. ASSUME NEW l \in lo..hi, l <= C, NEW j
      PROVE  Adds(ops2, lo, l - 1, j) = Adds(ops, lo, l - 1, j)
  <2> DEFINE h == l - 1
  <2>1. Summable(ops, lo, h) /\ \A k \in lo..h : ops2[k] = ops[k]
    BY <1>1, <1>4 DEF Summable
  <2> HIDE DEF h
  <2>2. Adds(ops2, lo, h, j) = Adds(ops, lo, h, j)
    BY <2>1, AddsFrame
  <2> QED
    BY <2>2 DEF h
<1>5. ASSUME NEW l \in lo..hi, M < l, NEW j \in ops[C].target..n
      PROVE  Adds(ops2, lo, l - 1, j) = Adds(ops, lo, l - 1, j)
  <2>1. /\ l \in (M + 1)..(hi + 1) /\ M \in Int /\ lo <= M
        /\ \A k \in (M + 1)..hi : ops2[k] = ops[k]
        /\ Adds(ops2, lo, M, j) = Adds(ops, lo, M, j)
    BY <1>5
  <2> QED
    BY <1>1, <1>3, <2>1, SameOnward
<1>6. \A l \in lo..hi : origin[l] = l
  OBVIOUS
<1> HIDE DEF origin
<1>7. ASSUME NEW l \in lo..hi, ops2[l].type # "Null"
      PROVE  /\ l # C /\ ops[l].type = ops2[l].type /\ ops[l].target = ops2[l].target
             /\ l < C \/ l > M
  <2>1. l # C
    BY <1>7
  <2>2. ops[l].type = ops2[l].type /\ ops[l].target = ops2[l].target
    BY <2>1
  <2>3. l \notin (C + 1)..M
    BY <1>7, <2>2
  <2> QED
    BY <2>1, <2>2, <2>3
<1>8. ASSUME NEW l \in lo..hi, ops2[l].type # "Null"
      PROVE  /\ origin[l] \in lo..hi
             /\ ops[origin[l]].type = ops2[l].type
             /\ ops[origin[l]].target = ops2[l].target
             /\ Adds(ops2, lo, l - 1, n) = Adds(ops, lo, origin[l] - 1, n)
             /\ Adds(ops2, lo, l - 1, ops2[l].target)
                  = Adds(ops, lo, origin[l] - 1, ops2[l].target)
  <2>1. CASE l < C
    BY <1>4, <1>6, <1>7, <1>8, <2>1
  <2>2. CASE l > M
    <3>1. /\ ops[l].target \in ops[C].target..n /\ n \in ops[C].target..n
          /\ ops[l].target = ops2[l].target
      BY <1>2, <1>7, <1>8, <2>2 DEF OpInv
    <3>2. /\ Adds(ops2, lo, l - 1, n) = Adds(ops, lo, l - 1, n)
          /\ Adds(ops2, lo, l - 1, ops[l].target) = Adds(ops, lo, l - 1, ops[l].target)
      BY <1>5, <2>2, <3>1
    <3> QED
      BY <1>6, <1>7, <1>8, <3>1, <3>2
  <2> QED
    BY <1>7, <1>8, <2>1, <2>2
<1>9. ComesFrom(ops2, lo, hi, ops, lo, hi, n, origin)
  <2>1. \A l \in lo..hi : ops2[l].type # "Null" =>
           /\ origin[l] \in lo..hi
           /\ ops[origin[l]].type = ops2[l].type
           /\ ops[origin[l]].target = ops2[l].target
           /\ ops2[l].type = "Prefix" =>
                 Adds(ops2, lo, l - 1, n) = Adds(ops, lo, origin[l] - 1, n)
           /\ ops2[l].type = "Postfix" =>
                 Adds(ops2, lo, l - 1, ops2[l].target)
                   = Adds(ops, lo, origin[l] - 1, ops2[l].target)
    BY <1>8
  <2>2. \A k, l \in lo..hi : k < l => origin[k] < origin[l]
    BY <1>6
  <2> QED
    BY <2>1, <2>2 DEF ComesFrom
<1>10. Coherent(ops2, lo, hi, n, due)
  BY <1>9, CoherentMapped
<1>11. Targets(ops2, lo, hi, "Prefix") = Targets(ops, lo, hi, "Prefix")
  <2>1. \A k \in lo..hi : /\ ops2[k].type = "Prefix" <=> ops[k].type = "Prefix"
                          /\ ops[k].type = "Prefix" => ops2[k].target = ops[k].target
    OBVIOUS
  <2> QED
    BY <2>1, TargetsFrame
<1>12. Targets(ops2, lo, hi, "Postfix") = Targets(ops, lo, hi, "Postfix") \ {ops[C].target}
  <2>1. \A k \in lo..hi : ops2[k].type = "Postfix" <=> ops[k].type = "Postfix" /\ k # C
    OBVIOUS
  <2>2. \A k \in lo..hi : ops[k].type = "Postfix" /\ k # C => ops[k].target # ops[C].target
    BY DEF Coherent
  <2>3. \A k \in lo..hi : k # C => ops2[k].target = ops[k].target
    OBVIOUS
  <2> QED
    BY <2>1, <2>2, <2>3 DEF Targets
<1> QED
  BY <1>10, <1>11, <1>12

\* The operations behind a Prefix, cut off before a Null that adds what the
\* Prefix and the Nulls after it add to the requests behind its target.
LEMMA OperationsCut ==
    ASSUME NEW ops, NEW lo \in Int, NEW hi \in Int, NEW n \in Nat, NEW due,
           Coherent(ops, lo, hi, n, due),
           NEW C \in lo..hi, NEW M \in C..hi,
           ops[C].type = "Prefix",
           \A k \in (M + 1)..hi : ops[C].target < ops[k].target,
           NEW ops2, \A k \in M..hi : OpInv(ops2[k], n),
           ops2[M].type = "Null",
           \A k \in (M + 1)..hi : ops2[k] = ops[k],
           \A j \in (ops[C].target + 1)..n : ops2[M].full = Adds(ops, C, M, j)
    PROVE  Coherent(ops2, M, hi, n, due)
<1> DEFINE origin == [k \in M..hi |-> k]
<1>1. Summable(ops, lo, hi) /\ Summable(ops2, M, hi)
  BY CoherentSummable DEF Summable, OpInv
<1>2. /\ \A k \in lo..hi : OpInv(ops[k], n)
      /\ OpInv(ops[C], n) /\ OpInv(ops2[M], n)
  BY DEF Coherent
<1>3. ASSUME NEW j \in (ops[C].target + 1)..n
      PROVE  Adds(ops2, M, M, j) = Adds(ops, lo, M, j)
  <2>1. j \in ops[C].target..n
    BY <1>2, <1>3 DEF OpInv
  <2>2. Adds(ops, lo, C - 1, j) = 0
    BY <2>1, PrefixBalance
  <2>3. /\ Summable(ops, lo, M) /\ C \in Int /\ lo <= C /\ C <= M + 1
        /\ M \in Int /\ ops2[M].full \in Int
    BY <1>1, <1>2 DEF Summable, OpInv
  <2>4. /\ Adds(ops, lo, M, j) = Adds(ops, lo, C - 1, j) + Adds(ops, C, M, j)
        /\ Summable(ops, C, M)
    BY <2>3, AddsSplit
  <2>5. Adds(ops, C, M, j) \in Int
    BY <2>4, AddsType
  <2>6. Adds(ops2, M, M, j) = Whole(ops2[M], j)
    BY <2>3, AddsSingle
  <2>7. Whole(ops2[M], j) = ops2[M].full
    BY <2>3, WholeOfNull
  <2> QED
    BY <1>3, <2>2, <2>4, <2>5, <2>6, <2>7
<1>4. ASSUME NEW l \in M..hi, M < l, NEW j \in (ops[C].target + 1)..n
      PROVE  Adds(ops2, M, l - 1, j) = Adds(ops, lo, l - 1, j)
  <2>1. /\ l \in (M + 1)..(hi + 1) /\ M \in Int /\ lo <= M /\ M <= M
        /\ \A k \in (M + 1)..hi : ops2[k] = ops[k]
        /\ Adds(ops2, M, M, j) = Adds(ops, lo, M, j)
    BY <1>3, <1>4
  <2> QED
    BY <1>1, <2>1, SameOnward
<1>5. \A l \in M..hi : origin[l] = l
  OBVIOUS
<1> HIDE DEF origin
<1>6. ASSUME NEW l \in M..hi, ops2[l].type # "Null"
      PROVE  /\ origin[l] \in lo..hi
             /\ ops[origin[l]].type = ops2[l].type
             /\ ops[origin[l]].target = ops2[l].target
             /\ Adds(ops2, M, l - 1, n) = Adds(ops, lo, origin[l] - 1, n)
             /\ Adds(ops2, M, l - 1, ops2[l].target)
                  = Adds(ops, lo, origin[l] - 1, ops2[l].target)
  <2>1. l # M /\ M < l /\ l \in (M + 1)..hi
    BY <1>6
  <2>2. ops2[l] = ops[l] /\ origin[l] = l /\ l \in lo..hi
    BY <1>5, <2>1
  <2>3. /\ ops[l].target \in (ops[C].target + 1)..n
        /\ n \in (ops[C].target + 1)..n
    BY <1>2, <2>1, <2>2 DEF OpInv
  <2>4. /\ Adds(ops2, M, l - 1, n) = Adds(ops, lo, l - 1, n)
        /\ Adds(ops2, M, l - 1, ops[l].target) = Adds(ops, lo, l - 1, ops[l].target)
    BY <1>4, <2>1, <2>3
  <2> QED
    BY <2>2, <2>4
<1>7. ComesFrom(ops2, M, hi, ops, lo, hi, n, origin)
  <2>1. \A l \in M..hi : ops2[l].type # "Null" =>
           /\ origin[l] \in lo..hi
           /\ ops[origin[l]].type = ops2[l].type
           /\ ops[origin[l]].target = ops2[l].target
           /\ ops2[l].type = "Prefix" =>
                 Adds(ops2, M, l - 1, n) = Adds(ops, lo, origin[l] - 1, n)
           /\ ops2[l].type = "Postfix" =>
                 Adds(ops2, M, l - 1, ops2[l].target)
                   = Adds(ops, lo, origin[l] - 1, ops2[l].target)
    BY <1>6
  <2>2. \A k, l \in M..hi : k < l => origin[k] < origin[l]
    BY <1>5
  <2> QED
    BY <2>1, <2>2 DEF ComesFrom
<1> QED
  BY <1>7, CoherentMapped

-----------------------------------------------------------------------------
(* Scratch spaces of operations that get their due                         *)

LEMMA StackSummable ==
    ASSUME NEW stack, Len(stack) \in Nat \ {0}, NEW unseen, NEW range, NEW ops, NEW lo,
           NEW cur, NEW n, NEW due,
           StackInv(stack, unseen, range, ops, lo, cur, n, due)
    PROVE  \A m \in 1..Len(stack) : Summable(stack, m, Len(stack) - 1)
BY DEF StackInv, OpInv, Summable

\* Amounts that move from the operations to come to those not seen.
LEMMA StackCarried ==
    ASSUME NEW stack, Len(stack) \in Nat \ {0}, NEW unseen \in Int, NEW range, NEW ops, NEW lo,
           NEW cur, NEW n, NEW due,
           StackInv(stack, unseen, range, ops, lo, cur, n, due),
           NEW unseen2 \in Int, NEW ops2, NEW cur2,
           \A j \in range : /\ Adds(ops, lo, cur, j) \in Int
                            /\ Adds(ops2, lo, cur2, j) \in Int
                            /\ unseen + Adds(ops, lo, cur, j)
                                 = unseen2 + Adds(ops2, lo, cur2, j)
    PROVE  StackInv(stack, unseen2, range, ops2, lo, cur2, n, due)
<1> DEFINE len == Len(stack)
<1>1. ASSUME NEW m \in 1..(len - 1)
      PROVE  Adds(stack, m + 1, len - 1, stack[m].target) + unseen2
                + Adds(ops2, lo, cur2, stack[m].target) + 1 = due[stack[m].target]
  <2> DEFINE j == stack[m].target
             q == m + 1
             above == Adds(stack, q, len - 1, j)
  <2>1. j \in range /\ above + unseen + Adds(ops, lo, cur, j) + 1 = due[j]
    BY DEF StackInv
  <2>2. q \in 1..len
    OBVIOUS
  <2> HIDE DEF q
  <2>3. above \in Int
    BY <2>2, StackSummable, AddsType
  <2>4. /\ Adds(ops, lo, cur, j) \in Int /\ Adds(ops2, lo, cur2, j) \in Int
        /\ unseen + Adds(ops, lo, cur, j) = unseen2 + Adds(ops2, lo, cur2, j)
    BY <2>1
  <2> HIDE DEF j, above
  <2>5. above + unseen2 + Adds(ops2, lo, cur2, j) + 1 = due[j]
    BY <2>1, <2>3, <2>4, SMTT(30)
  <2> QED
    BY <2>5 DEF above, j, q
<1> QED
  BY <1>1 DEF StackInv

\* A scratch space with an operation pushed below another Null.
IsPushed(r, q, moved, end) ==
    /\ Len(r) = Len(q) + 1
    /\ \A k \in 1..(Len(q) - 1) : r[k] = q[k]
    /\ r[Len(q)] = moved
    /\ r[Len(q) + 1] = end

\* A Postfix that begins to wait, with the amounts that its scratch space has
\* not seen yet.
IsGrown(new, end, ops2, cur2, stack, l, unseen, range, ops, lo, cur, n, due) ==
    /\ l \in Nat \ {0} /\ Len(stack) = l
    /\ unseen \in Int /\ lo \in Int /\ cur \in Int /\ lo <= cur
    /\ StackInv(stack, unseen, range, ops, lo, cur, n, due)
    /\ Summable(ops, lo, cur)
    /\ OpInv(ops[cur], n) /\ ops[cur].type = "Postfix" /\ ops[cur].target \in range
    /\ \A m \in 1..(l - 1) : stack[m].target # ops[cur].target
    /\ Adds(ops, lo, cur - 1, ops[cur].target) + 1 = due[ops[cur].target]
    /\ IsNull(end) /\ end.full \in Int
    /\ \A k \in lo..(cur - 1) : ops2[k] = ops[k]
    /\ IsPushed(new, stack, AddFull(ops[cur], unseen), end)
    /\ cur2 = cur - 1

LEMMA StackGrown ==
    ASSUME NEW new, NEW end, NEW ops2, NEW cur2, NEW stack, NEW l, NEW unseen, NEW range,
           NEW ops, NEW lo, NEW cur, NEW n \in Nat, NEW due,
           IsGrown(new, end, ops2, cur2, stack, l, unseen, range, ops, lo, cur, n, due)
    PROVE  StackInv(new, 0, range, ops2, lo, cur2, n, due)
<1>a. /\ l \in Nat \ {0} /\ Len(stack) = l
      /\ unseen \in Int /\ lo \in Int /\ cur \in Int /\ lo <= cur
      /\ StackInv(stack, unseen, range, ops, lo, cur, n, due)
      /\ Summable(ops, lo, cur)
      /\ OpInv(ops[cur], n) /\ ops[cur].type = "Postfix" /\ ops[cur].target \in range
      /\ \A m \in 1..(l - 1) : stack[m].target # ops[cur].target
      /\ Adds(ops, lo, cur - 1, ops[cur].target) + 1 = due[ops[cur].target]
      /\ IsNull(end) /\ end.full \in Int
      /\ \A k \in lo..(cur - 1) : ops2[k] = ops[k]
      /\ IsPushed(new, stack, AddFull(ops[cur], unseen), end)
      /\ cur2 = cur - 1
  BY DEF IsGrown
<1> USE <1>a
<1> DEFINE op == ops[cur]
           moved == AddFull(op, unseen)
           h == cur - 1
<1>1. l \in Nat \ {0}
  OBVIOUS
<1>2. IsOp(op) /\ op.full \in Int /\ op.target \in 0..n
  BY DEF OpInv
<1>3. /\ moved.type = "Postfix" /\ moved.target = op.target
      /\ moved.full \in Int /\ IsOp(moved)
  <2>1. moved.full = op.full + unseen
    BY <1>2 DEF AddFull, IsOp
  <2> QED
    BY <1>2, <2>1, AddFullKeepsTarget
<1>4. OpInv(moved, n)
  BY <1>3 DEF OpInv
<1> HIDE DEF moved
<1>5. Len(new) = l + 1
  BY DEF IsPushed
<1>6. /\ \A k \in 1..(l - 1) : new[k] = stack[k]
      /\ new[l] = moved /\ new[l + 1] = end
  BY DEF IsPushed, moved
<1>7. \A k \in 1..(l - 1) :
         /\ OpInv(stack[k], n) /\ stack[k].type = "Postfix" /\ stack[k].target \in range
         /\ Adds(stack, k + 1, l - 1, stack[k].target) + unseen
              + Adds(ops, lo, cur, stack[k].target) + 1 = due[stack[k].target]
         /\ stack[k].target # op.target
  BY DEF StackInv
<1>0. \A k \in 1..l : k \in 1..(l - 1) \/ k = l
  BY <1>1
<1>8. \A k \in 1..l : OpInv(new[k], n) /\ new[k].type = "Postfix" /\ new[k].target \in range
  <2> SUFFICES ASSUME NEW k \in 1..l
               PROVE  OpInv(new[k], n) /\ new[k].type = "Postfix" /\ new[k].target \in range
    OBVIOUS
  <2>1. CASE k = l
    BY <1>3, <1>4, <1>6, <2>1
  <2>2. CASE k \in 1..(l - 1)
    <3>1. new[k] = stack[k]
      BY <1>6, <2>2
    <3> QED
      BY <1>7, <2>2, <3>1
  <2> QED
    BY <1>0, <2>1, <2>2
<1>9. ASSUME NEW j
      PROVE  /\ Adds(ops2, lo, h, j) = Adds(ops, lo, h, j)
             /\ Adds(ops, lo, cur, j) = Adds(ops, lo, h, j) + Whole(op, j)
             /\ Adds(ops, lo, h, j) \in Int /\ Whole(op, j) \in Int
             /\ Whole(moved, j) = Whole(op, j) + unseen
  <2>1. /\ Adds(ops, lo, cur, j) = Adds(ops, lo, h, j) + Whole(op, j)
        /\ Summable(ops, lo, h)
    BY AddsLast
  <2>2. \A k \in lo..h : ops2[k] = ops[k]
    OBVIOUS
  <2>3. Whole(moved, j) = Whole(op, j) + unseen /\ Whole(op, j) \in Int
    BY <1>2, WholeOfFull DEF moved
  <2> HIDE DEF h
  <2>4. Adds(ops2, lo, h, j) = Adds(ops, lo, h, j) /\ Adds(ops, lo, h, j) \in Int
    BY <2>1, <2>2, AddsFrame, AddsType
  <2> QED
    BY <2>1, <2>3, <2>4
<1>10. ASSUME NEW m \in 1..l
       PROVE  Adds(new, m + 1, l, new[m].target) + 0 + Adds(ops2, lo, h, new[m].target) + 1
                 = due[new[m].target]
  <2> DEFINE j == new[m].target
             q == m + 1
  <2>1. CASE m = l
    <3>1. j = op.target
      BY <1>3, <1>6, <2>1
    <3>2. Adds(new, m + 1, l, j) = 0
      <4>1. q \in Int /\ l \in Int /\ l < q
        BY <1>1, <2>1
      <4> HIDE DEF q
      <4>2. Adds(new, q, l, j) = 0
        BY <4>1, AddsNone
      <4> QED
        BY <4>2 DEF q
    <3>3. Adds(ops2, lo, h, j) + 1 = due[j]
      BY <1>9, <3>1
    <3> HIDE DEF j, h
    <3>4. Adds(ops2, lo, h, j) \in Int
      BY <1>9
    <3> QED
      BY <3>2, <3>3, <3>4 DEF j
  <2>2. CASE m # l
    <3>1. /\ m \in 1..(l - 1) /\ new[m] = stack[m] /\ j = stack[m].target
          /\ q \in Int /\ q <= l /\ 1 <= q
      BY <1>1, <1>6, <2>2
    <3>2. Adds(stack, q, l - 1, j) + unseen + Adds(ops, lo, cur, j) + 1 = due[j]
      BY <1>7, <3>1
    <3>3. Summable(new, q, l)
      BY <1>1, <1>8, <3>1 DEF Summable, OpInv
    <3> HIDE DEF q, j
    <3>4. /\ Adds(new, q, l, j) = Adds(new, q, l - 1, j) + Whole(new[l], j)
          /\ Summable(new, q, l - 1)
      <4> DEFINE e == l
      <4>1. q <= e /\ Summable(new, q, e)
        BY <3>1, <3>3
      <4> HIDE DEF e
      <4>2. /\ Adds(new, q, e, j) = Adds(new, q, e - 1, j) + Whole(new[e], j)
            /\ Summable(new, q, e - 1)
        BY <4>1, AddsLast
      <4> QED
        BY <4>2 DEF e
    <3>5. /\ Adds(stack, q, l - 1, j) = Adds(new, q, l - 1, j)
          /\ Adds(new, q, l - 1, j) \in Int
      <4> DEFINE e == l - 1
      <4>1. \A k \in q..e : stack[k] = new[k]
        BY <1>1, <1>6, <3>1
      <4>2. Summable(new, q, e)
        BY <3>4
      <4> HIDE DEF e
      <4>3. Adds(stack, q, e, j) = Adds(new, q, e, j) /\ Adds(new, q, e, j) \in Int
        BY <4>1, <4>2, AddsFrame, AddsType
      <4> QED
        BY <4>3 DEF e
    <3>6. /\ Adds(ops2, lo, h, j) = Adds(ops, lo, h, j)
          /\ Adds(ops, lo, cur, j) = Adds(ops, lo, h, j) + Whole(op, j)
          /\ Adds(ops, lo, h, j) \in Int /\ Whole(op, j) \in Int
          /\ Whole(new[l], j) = Whole(op, j) + unseen
      BY <1>6, <1>9
    <3> HIDE DEF h, op
    <3>7. Adds(new, q, l, j) + 0 + Adds(ops2, lo, h, j) + 1 = due[j]
      BY <3>2, <3>4, <3>5, <3>6
    <3> QED
      BY <3>7 DEF q, j
  <2> QED
    BY <2>1, <2>2
<1>11. \A m \in 1..l : \A k \in 1..l : new[m].target = new[k].target => m = k
  <2>1. \A m \in 1..(l - 1) : \A k \in 1..(l - 1) :
           stack[m].target = stack[k].target => m = k
    BY DEF StackInv
  <2>2. \A m \in 1..(l - 1) : new[m].target = stack[m].target /\ new[m].target # op.target
    BY <1>6, <1>7
  <2>3. new[l].target = op.target
    BY <1>3, <1>6
  <2> HIDE DEF op
  <2> SUFFICES ASSUME NEW m \in 1..l, NEW k \in 1..l, new[m].target = new[k].target
               PROVE  m = k
    OBVIOUS
  <2> QED
    BY <1>0, <2>1, <2>2, <2>3
<1>12. Len(new) - 1 = l
  BY <1>1, <1>5
<1>13. StackInv(new, 0, range, ops2, lo, h, n, due)
  <2> HIDE DEF h, op
  <2> QED
    BY <1>5, <1>6, <1>8, <1>10, <1>11, <1>12 DEF StackInv
<1> QED
  BY <1>13

\* A scratch space that is put back from its end on.
IsReversed(ops, lo, stack, L) == \A r \in 1..L : ops[lo + r] = stack[L + 1 - r]

LEMMA AddsReversed ==
    ASSUME NEW ops, NEW lo \in Int, NEW stack, NEW L \in Nat, Summable(stack, 1, L),
           IsReversed(ops, lo, stack, L), NEW j
    PROVE  \A r \in 0..L : Adds(ops, lo + 1, lo + r, j) = Adds(stack, L + 1 - r, L, j)
<1> USE DEF IsReversed
<1> DEFINE P == {r \in Nat : r <= L =>
                    Adds(ops, lo + 1, lo + r, j) = Adds(stack, L + 1 - r, L, j)}
<1>1. 0 \in P
  <2> DEFINE a == lo + 1
             b == lo + 0
             c == L + 1 - 0
  <2>1. a \in Int /\ b \in Int /\ b < a /\ c \in Int /\ L \in Int /\ L < c
    OBVIOUS
  <2> HIDE DEF a, b, c
  <2>2. Adds(ops, a, b, j) = 0 /\ Adds(stack, c, L, j) = 0
    BY <2>1, AddsNone
  <2> QED
    BY <2>2 DEF a, b, c
<1>2. ASSUME NEW r \in Nat, r \in P PROVE r + 1 \in P
  <2> SUFFICES ASSUME r + 1 <= L
               PROVE  Adds(ops, lo + 1, lo + (r + 1), j) = Adds(stack, L + 1 - (r + 1), L, j)
    OBVIOUS
  <2> DEFINE a == lo + 1
             b == lo + (r + 1)
             c == L + 1 - (r + 1)
  <2>1. /\ a \in Int /\ b \in Int /\ a <= b /\ b - 1 = lo + r
        /\ c \in 1..L /\ c + 1 = L + 1 - r
        /\ ops[b] = stack[c]
    OBVIOUS
  <2>2. \A k \in a..b : ops[k].full \in Int
    <3> SUFFICES ASSUME NEW k \in a..b PROVE ops[k].full \in Int
      OBVIOUS
    <3> DEFINE q == k - lo
    <3>1. q \in 1..L /\ lo + q = k /\ L + 1 - q \in 1..L
      OBVIOUS
    <3> HIDE DEF q
    <3>2. ops[k] = stack[L + 1 - q]
      BY <3>1
    <3> QED
      BY <3>1, <3>2 DEF Summable
  <2>3. Summable(ops, a, b) /\ Summable(stack, c, L)
    BY <2>1, <2>2 DEF Summable
  <2>4. Adds(ops, lo + 1, lo + r, j) = Adds(stack, L + 1 - r, L, j)
    BY <1>2
  <2>5. Adds(ops, a, b - 1, j) = Adds(stack, c + 1, L, j)
    BY <2>1, <2>4
  <2> HIDE DEF a, b, c
  <2>6. /\ Adds(ops, a, b, j) = Adds(ops, a, b - 1, j) + Whole(ops[b], j)
        /\ Summable(ops, a, b - 1)
    BY <2>1, <2>3, AddsLast
  <2>7. Adds(stack, c, L, j) = Whole(stack[c], j) + Adds(stack, c + 1, L, j)
    <3>1. c <= L /\ c \in Int /\ L \in Int
      BY <2>1
    <3>2. Summable(stack, c, L)
      BY <2>3
    <3> QED
      BY <3>1, <3>2, AddsFirst
  <2>8. Adds(ops, a, b - 1, j) \in Int /\ Whole(ops[b], j) \in Int
    BY <2>1, <2>3, <2>6, AddsType, WholeType DEF Summable
  <2> QED
    BY <2>1, <2>5, <2>6, <2>7, <2>8 DEF a, b, c
<1>3. Nat \subseteq P
  <2> HIDE DEF P
  <2> QED
    BY <1>1, <1>2, SetOfNaturals
<1> QED
  BY <1>3

-----------------------------------------------------------------------------
(* A scratch space put back behind the operations of its side              *)

\* The operations at lo..N, Nulls that add what a scratch space has not seen,
\* and its operations from the last to the first.
Unstacked(ops2, ops, lo, N, G, stack, L, unseen, n) ==
    /\ \A k \in lo..G : OpInv(ops2[k], n)
    /\ \A k \in lo..N : ops2[k].type = ops[k].type /\ ops2[k].target = ops[k].target
    /\ \A k \in lo..(N - 1) : ops2[k] = ops[k]
    /\ \A k \in (N + 1)..G : ops2[k].type = "Null"
    /\ \A j : Adds(ops2, lo, G, j) = Adds(ops, lo, N, j) + unseen
    /\ IsReversed(ops2, G, stack, L)

StackTargets(stack, L) == {stack[m].target : m \in 1..L}

UnstackedTargets(ops2, ops, lo, N, hi, stack, L) ==
    /\ Targets(ops2, lo, hi, "Prefix") = Targets(ops, lo, N, "Prefix")
    /\ Targets(ops2, lo, hi, "Postfix")
          = Targets(ops, lo, N, "Postfix") \cup StackTargets(stack, L)

PutsBack(ops2, hi, ops, lo, N, G, stack, L, unseen, range, n, due) ==
    /\ lo \in Int /\ N \in Int /\ G \in Int /\ lo <= N /\ N <= G
    /\ L \in Nat /\ Len(stack) = L + 1 /\ hi = G + L
    /\ Coherent(ops, lo, N, n, due)
    /\ unseen \in Int
    /\ StackInv(stack, unseen, range, ops, lo, N, n, due)
    /\ Targets(ops, lo, N, "Postfix") \cap StackTargets(stack, L) = {}
    /\ Unstacked(ops2, ops, lo, N, G, stack, L, unseen, n)

LEMMA ScratchUnstacked ==
    ASSUME NEW ops, NEW lo, NEW N, NEW n \in Nat, NEW due, NEW G, NEW stack, NEW L, NEW unseen,
           NEW range, NEW ops2, NEW hi,
           PutsBack(ops2, hi, ops, lo, N, G, stack, L, unseen, range, n, due)
    PROVE  Coherent(ops2, lo, hi, n, due) /\ UnstackedTargets(ops2, ops, lo, N, hi, stack, L)
<1> USE DEF PutsBack
<1>0. Len(stack) - 1 = L /\ hi \in Int /\ G <= hi
  OBVIOUS
<1>1. /\ \A m \in 1..L : OpInv(stack[m], n) /\ stack[m].type = "Postfix"
      /\ \A m \in 1..L : Adds(stack, m + 1, L, stack[m].target) + unseen
                           + Adds(ops, lo, N, stack[m].target) + 1 = due[stack[m].target]
      /\ \A m \in 1..L : \A l \in 1..L : stack[m].target = stack[l].target => m = l
  BY <1>0 DEF StackInv
<1>2. \A k \in lo..hi :
         /\ OpInv(ops2[k], n)
         /\ \/ k \in lo..N /\ ops2[k].type = ops[k].type /\ ops2[k].target = ops[k].target
            \/ k \in (N + 1)..G /\ ops2[k].type = "Null"
            \/ G < k /\ \E m \in 1..L : k = hi + 1 - m /\ ops2[k] = stack[m]
  <2> SUFFICES ASSUME NEW k \in lo..(hi)
               PROVE  /\ OpInv(ops2[k], n)
                      /\ \/ k \in lo..N /\ ops2[k].type = ops[k].type /\ ops2[k].target = ops[k].target
                         \/ k \in (N + 1)..G /\ ops2[k].type = "Null"
                         \/ G < k /\ \E m \in 1..L : k = hi + 1 - m /\ ops2[k] = stack[m]
    OBVIOUS
  <2>1. CASE k \in lo..N
    <3>1. k \in lo..G
      BY <2>1
    <3> QED
      BY <2>1, <3>1 DEF Unstacked, IsReversed
  <2>2. CASE k \in (N + 1)..G
    <3>1. k \in lo..G
      BY <2>2
    <3> QED
      BY <2>2, <3>1 DEF Unstacked, IsReversed
  <2>3. CASE G < k
    <3> DEFINE r == k - G
               m == L + 1 - r
    <3>1. r \in 1..L /\ m \in 1..L /\ G + r = k /\ k = hi + 1 - m
      BY <2>3
    <3>2. ops2[G + r] = stack[m]
      <4> HIDE DEF r
      <4> QED
        BY <3>1 DEF Unstacked, IsReversed
    <3>3. ops2[k] = stack[m]
      BY <3>1, <3>2
    <3> HIDE DEF m
    <3> QED
      BY <1>1, <2>3, <3>1, <3>3
  <2> QED
    BY <2>1, <2>2, <2>3
<1>3. \A k \in lo..N : /\ k \in lo..hi
                       /\ ops2[k].type = ops[k].type /\ ops2[k].target = ops[k].target
  BY DEF Unstacked, IsReversed
<1>4. \A k \in lo..hi : ops2[k].type = "Prefix" => k \in lo..N
  BY <1>1, <1>2
<1>5. Summable(ops, lo, N)
  BY CoherentSummable
<1>6. ASSUME NEW l \in lo..N, NEW j PROVE Adds(ops2, lo, l - 1, j) = Adds(ops, lo, l - 1, j)
  <2> DEFINE h == l - 1
  <2>1. Summable(ops, lo, h) /\ \A k \in lo..h : ops2[k] = ops[k]
    BY <1>5, SMTT(30) DEF Summable, Unstacked
  <2> HIDE DEF h
  <2>2. Adds(ops2, lo, h, j) = Adds(ops, lo, h, j)
    BY <2>1, AddsFrame
  <2> QED
    BY <2>2 DEF h
<1>7. ASSUME NEW l \in lo..hi, ops2[l].type = "Prefix"
      PROVE  /\ \A k \in lo..(l - 1) : ops2[k].target < ops2[l].target
             /\ Adds(ops2, lo, l - 1, n) = 0
  <2>1. l \in lo..N /\ ops[l].type = "Prefix" /\ ops2[l].target = ops[l].target
    BY <1>3, <1>4, <1>7
  <2>2. /\ \A k \in lo..(l - 1) : ops[k].target < ops[l].target
        /\ Adds(ops, lo, l - 1, n) = 0
    BY <2>1 DEF Coherent
  <2>3. \A k \in lo..(l - 1) : ops2[k].target = ops[k].target
    BY <1>3, <2>1
  <2> QED
    BY <1>6, <2>1, <2>2, <2>3
<1>8. ASSUME NEW m \in 1..L
      PROVE  LET k == hi + 1 - m
             IN  /\ k \in (G + 1)..hi /\ ops2[k] = stack[m]
                 /\ Adds(ops2, lo, k - 1, stack[m].target) + 1 = due[stack[m].target]
  <2> DEFINE r == L + 1 - m
             j == stack[m].target
             k == hi + 1 - m
             a == G + 1
             h == G + (r - 1)
             q == m + 1
             b == lo
  <2>1. /\ r \in 1..L /\ L + 1 - r = m /\ G + r = k /\ k \in (G + 1)..hi
        /\ h = k - 1 /\ h \in Int /\ a \in Int /\ b <= a /\ a <= h + 1 /\ a - 1 = G
        /\ r - 1 \in 0..L /\ L + 1 - (r - 1) = q /\ h \in lo..hi
    OBVIOUS
  <2>2. ops2[k] = stack[m]
    <3> HIDE DEF r, k
    <3> QED
      BY <2>1 DEF Unstacked, IsReversed
  <2>3. Summable(ops2, b, h)
    BY <1>2, <2>1 DEF Summable, OpInv
  <2>4. Summable(stack, 1, L)
    BY <1>1 DEF Summable, OpInv
  <2>5. Adds(ops2, a, h, j) = Adds(stack, q, L, j)
    <3>1. IsReversed(ops2, G, stack, L)
      BY DEF Unstacked, IsReversed
    <3> HIDE DEF j
    <3>2. \A x \in 0..L : Adds(ops2, G + 1, G + x, j) = Adds(stack, L + 1 - x, L, j)
      BY <2>4, <3>1, AddsReversed
    <3> QED
      BY <2>1, <3>2
  <2>6. a \in Int /\ b <= a /\ a <= h + 1
    BY <2>1
  <2> HIDE DEF j, k, a, h, q, r, b
  <2>7. /\ Adds(ops2, b, h, j) = Adds(ops2, b, a - 1, j) + Adds(ops2, a, h, j)
        /\ Summable(ops2, a, h)
    BY <2>6, <2>3, AddsSplit
  <2>8. Adds(ops2, lo, a - 1, j) = Adds(ops, lo, N, j) + unseen
    BY <2>1 DEF Unstacked, IsReversed
  <2>9. Adds(stack, q, L, j) + unseen + Adds(ops, lo, N, j) + 1 = due[j]
    BY <1>1 DEF j, q
  <2>10. Adds(ops, lo, N, j) \in Int /\ Adds(ops2, a, h, j) \in Int
    BY <1>5, <2>7, AddsType
  <2>11. Adds(ops2, lo, h, j) + 1 = due[j]
    BY <2>5, <2>7, <2>8, <2>9, <2>10 DEF b
  <2> QED
    BY <2>1, <2>2, <2>11 DEF j, k
<1>9. ASSUME NEW k \in lo..hi, ops2[k].type = "Postfix"
      PROVE  Adds(ops2, lo, k - 1, ops2[k].target) + 1 = due[ops2[k].target]
  <2>1. CASE k \in lo..N
    <3>1. ops[k].type = "Postfix" /\ ops2[k].target = ops[k].target
      BY <1>3, <1>9, <2>1
    <3>2. Adds(ops, lo, k - 1, ops[k].target) + 1 = due[ops[k].target]
      BY <2>1, <3>1 DEF Coherent
    <3> QED
      BY <1>6, <2>1, <3>1, <3>2
  <2>2. CASE k \notin lo..N
    <3>1. PICK m \in 1..L : k = hi + 1 - m
      BY <1>2, <1>9, <2>2
    <3> QED
      BY <1>8, <3>1
  <2> QED
    BY <2>1, <2>2
<1>10. \A k \in lo..hi : ops2[k].type = "Postfix" =>
          \/ /\ k \in lo..N /\ ops[k].type = "Postfix" /\ ops2[k].target = ops[k].target
             /\ ops2[k].target \in Targets(ops, lo, N, "Postfix")
          \/ /\ ops2[k].target \in StackTargets(stack, L)
             /\ \E m \in 1..L : k = hi + 1 - m /\ ops2[k].target = stack[m].target
  BY <1>2, <1>3 DEF Targets, StackTargets
<1>11. ASSUME NEW k \in lo..hi, NEW l \in lo..hi,
              ops2[k].type = "Postfix", ops2[l].type = "Postfix",
              ops2[k].target = ops2[l].target
       PROVE  k = l
  <2>1. CASE k \in lo..N /\ ops[k].type = "Postfix" /\ ops2[k].target = ops[k].target
             /\ ops2[k].target \in Targets(ops, lo, N, "Postfix")
    <3>1. ops2[l].target \notin StackTargets(stack, L)
      BY <1>11, <2>1
    <3>2. l \in lo..N /\ ops[l].type = "Postfix" /\ ops2[l].target = ops[l].target
      BY <1>10, <1>11, <3>1
    <3> QED
      BY <1>11, <2>1, <3>2 DEF Coherent
  <2>2. CASE /\ ops2[k].target \in StackTargets(stack, L)
             /\ \E m \in 1..L : k = hi + 1 - m /\ ops2[k].target = stack[m].target
    <3>1. ops2[l].target \notin Targets(ops, lo, N, "Postfix")
      BY <1>11, <2>2
    <3>2. \E m \in 1..L : l = hi + 1 - m /\ ops2[l].target = stack[m].target
      BY <1>10, <1>11, <3>1
    <3> QED
      BY <1>1, <1>11, <2>2, <3>2
  <2> QED
    BY <1>10, <1>11, <2>1, <2>2
<1>12. Coherent(ops2, lo, hi, n, due)
  BY <1>2, <1>7, <1>9, <1>11 DEF Coherent
<1>13. Targets(ops2, lo, hi, "Prefix") = Targets(ops, lo, N, "Prefix")
  BY <1>3, <1>4 DEF Targets
<1>14. Targets(ops2, lo, hi, "Postfix")
          = Targets(ops, lo, N, "Postfix") \cup StackTargets(stack, L)
  <2>1. \A x \in Targets(ops2, lo, hi, "Postfix") :
           x \in Targets(ops, lo, N, "Postfix") \cup StackTargets(stack, L)
    BY <1>10 DEF Targets
  <2>2. \A x \in Targets(ops, lo, N, "Postfix") : x \in Targets(ops2, lo, hi, "Postfix")
    BY <1>3 DEF Targets
  <2>3. \A m \in 1..L : stack[m].target \in Targets(ops2, lo, hi, "Postfix")
    <3> SUFFICES ASSUME NEW m \in 1..L
                 PROVE  stack[m].target \in Targets(ops2, lo, hi, "Postfix")
      OBVIOUS
    <3> DEFINE k == hi + 1 - m
    <3>1. k \in (G + 1)..hi /\ ops2[k] = stack[m]
      BY <1>8
    <3>2. k \in lo..hi
      BY <3>1
    <3> HIDE DEF k
    <3> QED
      BY <1>1, <3>1, <3>2 DEF Targets
  <2> QED
    BY <2>1, <2>2, <2>3 DEF StackTargets
<1> QED
  BY <1>12, <1>13, <1>14, Zenon DEF UnstackedTargets

LEMMA AddFullInv ==
    ASSUME NEW n \in Nat, NEW op, OpInv(op, n), NEW amount \in Int
    PROVE  /\ OpInv(AddFull(op, amount), n)
           /\ AddFull(op, amount).type = op.type /\ AddFull(op, amount).target = op.target
           /\ AddFull(op, amount).full = op.full + amount
           /\ \A j : /\ Whole(AddFull(op, amount), j) = Whole(op, j) + amount
                     /\ Whole(op, j) \in Int
<1>1. IsOp(op) /\ op.full \in Int
  BY DEF OpInv
<1>2. /\ IsOp(AddFull(op, amount))
      /\ AddFull(op, amount).type = op.type /\ AddFull(op, amount).target = op.target
  BY <1>1, AddFullKeepsTarget
<1>3. \A j : /\ AddFull(op, amount).full = op.full + amount
             /\ Whole(AddFull(op, amount), j) = Whole(op, j) + amount
             /\ Whole(op, j) \in Int
  BY <1>1, WholeOfFull
<1> HIDE DEF AddFull
<1> QED
  BY <1>1, <1>2, <1>3 DEF OpInv

LEMMA MakeNullInv ==
    ASSUME NEW n \in Nat, NEW op, op.full \in Int
    PROVE  /\ OpInv(MakeNull(op), n)
           /\ MakeNull(op).type = "Null" /\ MakeNull(op).target = 0
           /\ MakeNull(op).full = op.full
           /\ \A j : Whole(MakeNull(op), j) = op.full
BY DEF MakeNull, OpInv, IsOp, Whole, Effect

\* Vectors that agree on the slots.
LEMMA CoherentFrame ==
    ASSUME NEW ops, NEW lo \in Int, NEW hi \in Int, NEW n \in Nat, NEW due,
           NEW ops2, \A k \in lo..hi : ops2[k] = ops[k]
    PROVE  /\ Coherent(ops, lo, hi, n, due) => Coherent(ops2, lo, hi, n, due)
           /\ \A type : Targets(ops2, lo, hi, type) = Targets(ops, lo, hi, type)
<1>1. ASSUME Coherent(ops, lo, hi, n, due) PROVE Coherent(ops2, lo, hi, n, due)
  <2> DEFINE h == hi
  <2>1. h \in Int /\ h <= hi
    OBVIOUS
  <2>2. \A k \in lo..h : OpInv(ops2[k], n)
    BY <1>1 DEF Coherent
  <2>3. \A k \in lo..h : ops2[k].type = ops[k].type /\ ops2[k].target = ops[k].target
    OBVIOUS
  <2>4. \A k \in lo..(h - 1) : ops2[k] = ops[k]
    OBVIOUS
  <2> HIDE DEF h
  <2>5. Coherent(ops2, lo, h, n, due)
    BY <1>1, <2>1, <2>2, <2>3, <2>4, CoherentBegin
  <2> QED
    BY <2>5 DEF h
<1>2. \A type : Targets(ops2, lo, hi, type) = Targets(ops, lo, hi, type)
  BY TargetsFrame
<1> QED
  BY <1>1, <1>2

-----------------------------------------------------------------------------
(* The slots of a task in the loop of partition()                          *)

\* The slots lo..hi of a task with C for cur_idx, M for merge_into_idx and E
\* for the end of the left side.
LoopSlots(ops, lo, C, M, hi, E, n, due) ==
    /\ lo \in Int /\ C \in Int /\ M \in Int /\ hi \in Int /\ E \in Nat
    /\ lo <= C /\ C <= M /\ M <= hi
    /\ Coherent(ops, lo, hi, n, due)
    /\ ops[lo].type = "Null"
    /\ \A k \in (lo + 1)..C : ~IsNull(ops[k])
    /\ \A k \in (C + 1)..(M - 1) : ops[k] = NoImpact
    /\ \A k \in (C + 1)..M : ops[k].type = "Null"
    /\ \A k \in (M + 1)..hi : ~IsNull(ops[k]) /\ E < ops[k].target
    /\ E \in Targets(ops, lo, hi, "Prefix")

\* The boundary is at cur_idx or below.
LEMMA BoundaryBelow ==
    ASSUME NEW ops, NEW lo, NEW C, NEW M, NEW hi, NEW E, NEW n \in Nat, NEW due,
           LoopSlots(ops, lo, C, M, hi, E, n, due)
    PROVE  /\ lo < C /\ C \in lo..hi /\ M \in C..hi
           /\ Summable(ops, lo, hi) /\ Summable(ops, lo, C)
           /\ OpInv(ops[C], n) /\ ops[C].type \in {"Prefix", "Postfix"}
           /\ ops[C].type = "Prefix" => E <= ops[C].target
           /\ \E k \in lo..C : ops[k].type = "Prefix" /\ ops[k].target = E
<1>1. /\ lo \in Int /\ C \in Int /\ M \in Int /\ hi \in Int /\ E \in Nat
      /\ lo <= C /\ C <= M /\ M <= hi
      /\ \A k \in lo..hi : OpInv(ops[k], n)
  BY DEF LoopSlots, Coherent
<1>2. PICK b \in lo..hi : ops[b].type = "Prefix" /\ ops[b].target = E
  BY DEF LoopSlots, Targets
<1>3. b \in lo..C
  <2>1. b \notin (C + 1)..M
    BY <1>2 DEF LoopSlots
  <2>2. b \notin (M + 1)..hi
    <3> SUFFICES ASSUME b \in (M + 1)..hi PROVE FALSE
      OBVIOUS
    <3>1. E < ops[b].target
      BY DEF LoopSlots
    <3> QED
      BY <1>1, <1>2, <3>1
  <2> QED
    BY <1>1, <2>1, <2>2
<1>4. b # lo
  BY <1>2 DEF LoopSlots
<1>5. lo < C /\ C \in lo..hi /\ M \in C..hi /\ C \in (lo + 1)..C
  BY <1>1, <1>3, <1>4
<1>6. OpInv(ops[C], n) /\ ops[C].type \in {"Prefix", "Postfix"}
  <2>1. OpInv(ops[C], n) /\ ~IsNull(ops[C])
    BY <1>1, <1>5 DEF LoopSlots
  <2> QED
    BY <2>1 DEF OpInv, IsNull
<1>7. ops[C].type = "Prefix" => E <= ops[C].target
  <2> SUFFICES ASSUME ops[C].type = "Prefix" PROVE E <= ops[C].target
    OBVIOUS
  <2>1. \A k \in lo..(C - 1) : ops[k].target < ops[C].target
    BY <1>5 DEF LoopSlots, Coherent
  <2>2. b \in lo..(C - 1) \/ b = C
    BY <1>1, <1>3
  <2>3. ops[b].target \in Int /\ ops[C].target \in Int
    BY <1>1, <1>2, <1>5 DEF OpInv
  <2> QED
    BY <1>2, <2>1, <2>2, <2>3
<1>8. Summable(ops, lo, hi) /\ Summable(ops, lo, C)
  BY <1>1, <1>5 DEF Summable, OpInv
<1> QED
  BY <1>2, <1>3, <1>5, <1>6, <1>7, <1>8

\* What is counted for the left side when an operation stays on the right.
LEMMA KeptForLeft ==
    ASSUME NEW n \in Nat, NEW op, OpInv(op, n), NEW E \in Nat,
           ~IsBoundaryOp(op, E), ~MoveToScratch(op, E + 1),
           op.type = "Prefix" => E <= op.target,
           NEW j \in 0..E
    PROVE  FullIncrToLeft(op, E + 1) \in Int /\ Whole(op, j) = FullIncrToLeft(op, E + 1)
<1>1. /\ op.type \in {"Prefix", "Postfix", "Null"} /\ op.target \in Int /\ op.full \in Int
  BY DEF OpInv
<1>2. CASE op.type = "Prefix"
  BY <1>1, <1>2 DEF IsBoundaryOp, FullIncrToLeft, Whole, Effect, IncAmnt
<1>3. CASE op.type = "Postfix"
  BY <1>1, <1>3 DEF MoveToScratch, FullIncrToLeft, Whole, Effect, IncAmnt
<1>4. CASE op.type = "Null"
  BY <1>1, <1>4 DEF FullIncrToLeft, Whole, Effect, IncAmnt
<1> QED
  BY <1>1, <1>2, <1>3, <1>4

\* The operation at C is merged into the Null at M.
IsKept(ops2, ops, lo, C, M, hi) ==
    \A k \in lo..hi :
        ops2[k] = IF M = C THEN ops[k]
                  ELSE IF k = C THEN NoImpact
                  ELSE IF k = M THEN AddFull(ops[C], ops[M].full)
                  ELSE ops[k]

Keeps(ops2, C2, M2, ops, lo, C, M, hi, E, n, due) ==
    /\ LoopSlots(ops, lo, C, M, hi, E, n, due)
    /\ ~IsBoundaryOp(ops[C], E) /\ ~MoveToScratch(ops[C], E + 1)
    /\ IsKept(ops2, ops, lo, C, M, hi)
    /\ C2 = C - 1 /\ M2 = M - 1

SameTargets(ops2, ops, lo, hi) ==
    /\ Targets(ops2, lo, hi, "Prefix") = Targets(ops, lo, hi, "Prefix")
    /\ Targets(ops2, lo, hi, "Postfix") = Targets(ops, lo, hi, "Postfix")

LEMMA KeptSlots ==
    ASSUME NEW ops, NEW lo, NEW C, NEW M, NEW hi, NEW E, NEW n \in Nat, NEW due,
           NEW ops2, NEW C2, NEW M2, Keeps(ops2, C2, M2, ops, lo, C, M, hi, E, n, due)
    PROVE  /\ LoopSlots(ops2, lo, C2, M2, hi, E, n, due)
           /\ SameTargets(ops2, ops, lo, hi)
           /\ FullIncrToLeft(ops[C], E + 1) \in Int
           /\ \A j \in 0..E :
                 /\ Adds(ops, lo, C, j) \in Int /\ Adds(ops2, lo, C2, j) \in Int
                 /\ Adds(ops, lo, C, j) = Adds(ops2, lo, C2, j) + FullIncrToLeft(ops[C], E + 1)
<1>0. /\ LoopSlots(ops, lo, C, M, hi, E, n, due)
      /\ ~IsBoundaryOp(ops[C], E) /\ ~MoveToScratch(ops[C], E + 1)
      /\ IsKept(ops2, ops, lo, C, M, hi)
      /\ C2 = C - 1 /\ M2 = M - 1
  BY DEF Keeps
<1> USE <1>0
<1>1. /\ lo \in Int /\ C \in Int /\ M \in Int /\ hi \in Int /\ E \in Nat
      /\ lo <= C /\ C <= M /\ M <= hi
      /\ Coherent(ops, lo, hi, n, due)
      /\ ops[lo].type = "Null"
      /\ \A k \in (lo + 1)..C : ~IsNull(ops[k])
      /\ \A k \in (C + 1)..(M - 1) : ops[k] = NoImpact
      /\ \A k \in (M + 1)..hi : ~IsNull(ops[k]) /\ E < ops[k].target
      /\ E \in Targets(ops, lo, hi, "Prefix")
      /\ C # M => ops[M].type = "Null"
  BY DEF LoopSlots
<1>2. /\ lo < C /\ C \in lo..hi /\ M \in C..hi
      /\ Summable(ops, lo, hi) /\ Summable(ops, lo, C)
      /\ OpInv(ops[C], n) /\ ops[C].type \in {"Prefix", "Postfix"}
      /\ ops[C].type = "Prefix" => E <= ops[C].target
  BY BoundaryBelow
<1>3. ~IsNull(ops[C]) /\ E < ops[C].target
  BY <1>1, <1>2 DEF OpInv, IsNull, IsBoundaryOp, MoveToScratch
<1>4. /\ Coherent(ops2, lo, hi, n, due)
      /\ \A type \in {"Prefix", "Postfix"} :
            Targets(ops2, lo, hi, type) = Targets(ops, lo, hi, type)
      /\ ops2[M].target = ops[C].target
  <2>1. CASE M = C
    <3>1. \A k \in lo..hi : ops2[k] = ops[k]
      BY <2>1 DEF IsKept
    <3>2. /\ Coherent(ops2, lo, hi, n, due)
          /\ \A type : Targets(ops2, lo, hi, type) = Targets(ops, lo, hi, type)
      BY <1>1, <3>1, CoherentFrame
    <3>3. ops2[M] = ops[C]
      BY <1>2, <2>1, <3>1
    <3> QED
      BY <3>2, <3>3
  <2>2. CASE M # C
    <3>1. /\ M \in lo..hi /\ C < M /\ ops[M].type = "Null"
          /\ ops2[C] = NoImpact /\ ops2[M] = AddFull(ops[C], ops[M].full)
          /\ \A k \in lo..hi : k # C /\ k # M => ops2[k] = ops[k]
      BY <1>1, <1>2, <2>2 DEF IsKept
    <3>2. /\ lo \in Int /\ hi \in Int /\ C \in lo..hi /\ Coherent(ops, lo, hi, n, due)
          /\ \A k \in (C + 1)..(M - 1) : ops[k] = NoImpact
      BY <1>1, <1>2
    <3> HIDE <1>0
    <3> QED
      BY <3>1, <3>2, OperationSlid
  <2> QED
    BY <2>1, <2>2
<1>5. \A k \in lo..hi : k < C \/ k > M => ops2[k] = ops[k]
  BY <1>1 DEF IsKept
<1>6. \A k \in (C2 + 1)..(M2 - 1) : ops2[k] = NoImpact
  BY <1>1, <1>2 DEF IsKept
<1>7. \A k \in (C2 + 1)..M2 : ops2[k].type = "Null"
  BY <1>1, <1>2 DEF IsKept, NoImpact
<1>8. \A k \in (M2 + 1)..hi : ~IsNull(ops2[k]) /\ E < ops2[k].target
  <2> SUFFICES ASSUME NEW k \in (M2 + 1)..hi
               PROVE  ~IsNull(ops2[k]) /\ E < ops2[k].target
    OBVIOUS
  <2>1. CASE k = M
    BY <1>3, <1>4, <2>1 DEF IsNull
  <2>2. CASE k \in (M + 1)..hi
    BY <1>1, <1>2, <1>5, <2>2
  <2> QED
    BY <1>1, <2>1, <2>2
<1>9. LoopSlots(ops2, lo, C2, M2, hi, E, n, due)
  BY <1>1, <1>2, <1>4, <1>5, <1>6, <1>7, <1>8 DEF LoopSlots
<1>10. ASSUME NEW j \in 0..E
       PROVE  /\ FullIncrToLeft(ops[C], E + 1) \in Int
              /\ Adds(ops, lo, C, j) \in Int /\ Adds(ops2, lo, C2, j) \in Int
              /\ Adds(ops, lo, C, j) = Adds(ops2, lo, C2, j) + FullIncrToLeft(ops[C], E + 1)
  <2>1. FullIncrToLeft(ops[C], E + 1) \in Int /\ Whole(ops[C], j) = FullIncrToLeft(ops[C], E + 1)
    BY <1>1, <1>2, KeptForLeft
  <2>2. /\ Adds(ops, lo, C, j) = Adds(ops, lo, C - 1, j) + Whole(ops[C], j)
        /\ Summable(ops, lo, C - 1)
    BY <1>1, <1>2, AddsLast, SMTT(30)
  <2>3. Summable(ops, lo, C2) /\ \A k \in lo..C2 : ops2[k] = ops[k]
    BY <1>1, <1>2, <1>5, <2>2
  <2>4. Adds(ops2, lo, C2, j) = Adds(ops, lo, C2, j)
    BY <2>3, AddsFrame
  <2>5. Adds(ops, lo, C, j) \in Int /\ Adds(ops, lo, C2, j) \in Int
    BY <1>2, <2>3, AddsType
  <2> QED
    BY <2>1, <2>2, <2>4, <2>5
<1>11. 0 \in 0..E
  BY <1>1
<1>12. SameTargets(ops2, ops, lo, hi)
  BY <1>4 DEF SameTargets
<1> QED
  BY <1>9, <1>10, <1>11, <1>12

\* The Postfix at C is taken out and becomes a full increment at M.
IsTaken(ops2, ops, lo, C, M, hi) ==
    \A k \in lo..hi :
        ops2[k] = IF k = C THEN IF M = C THEN MakeNull(AddFull(ops[C], IncAmnt)) ELSE NoImpact
                  ELSE IF k = M THEN AddFull(ops[M], ops[C].full + IncAmnt)
                  ELSE ops[k]

Takes(ops2, C2, ops, lo, C, M, hi, E, n, due) ==
    /\ LoopSlots(ops, lo, C, M, hi, E, n, due)
    /\ MoveToScratch(ops[C], E + 1)
    /\ IsTaken(ops2, ops, lo, C, M, hi)
    /\ C2 = C - 1

LessTarget(ops2, ops, lo, hi, T) ==
    /\ Targets(ops2, lo, hi, "Prefix") = Targets(ops, lo, hi, "Prefix")
    /\ Targets(ops2, lo, hi, "Postfix") = Targets(ops, lo, hi, "Postfix") \ {T}

LessAdds(ops2, C2, ops, lo, C) ==
    \A j : /\ Adds(ops, lo, C, j) \in Int /\ Adds(ops2, lo, C2, j) \in Int
           /\ Adds(ops, lo, C, j) = Adds(ops2, lo, C2, j) + Whole(ops[C], j)

LEMMA TakenSlots ==
    ASSUME NEW ops, NEW lo, NEW C, NEW M, NEW hi, NEW E, NEW n \in Nat, NEW due,
           NEW ops2, NEW C2, Takes(ops2, C2, ops, lo, C, M, hi, E, n, due)
    PROVE  /\ LoopSlots(ops2, lo, C2, M, hi, E, n, due)
           /\ LessTarget(ops2, ops, lo, hi, ops[C].target)
           /\ LessAdds(ops2, C2, ops, lo, C)
<1> DEFINE T == ops[C].target
<1>0. /\ LoopSlots(ops, lo, C, M, hi, E, n, due)
      /\ MoveToScratch(ops[C], E + 1)
      /\ IsTaken(ops2, ops, lo, C, M, hi)
      /\ C2 = C - 1
  BY DEF Takes
<1> USE <1>0
<1>1. /\ lo \in Int /\ C \in Int /\ M \in Int /\ hi \in Int /\ E \in Nat
      /\ lo <= C /\ C <= M /\ M <= hi
      /\ Coherent(ops, lo, hi, n, due)
      /\ ops[lo].type = "Null"
      /\ \A k \in (lo + 1)..C : ~IsNull(ops[k])
      /\ \A k \in (C + 1)..(M - 1) : ops[k] = NoImpact
      /\ \A k \in (C + 1)..M : ops[k].type = "Null"
      /\ \A k \in (M + 1)..hi : ~IsNull(ops[k]) /\ E < ops[k].target
      /\ E \in Targets(ops, lo, hi, "Prefix")
      /\ C # M => ops[M].type = "Null"
  BY DEF LoopSlots
<1>2. /\ lo < C /\ C \in lo..hi /\ M \in C..hi
      /\ Summable(ops, lo, hi) /\ Summable(ops, lo, C)
      /\ OpInv(ops[C], n)
  BY BoundaryBelow
<1>3. /\ ops[C].type = "Postfix" /\ T \in 0..n /\ T <= E /\ ops[C].full \in Int
      /\ ops[C].full + IncAmnt \in Int /\ IncAmnt \in Int
  BY <1>1, <1>2 DEF OpInv, MoveToScratch, IncAmnt
<1>4. /\ \A k \in lo..hi : k < C \/ k > M => ops2[k] = ops[k]
      /\ \A k \in lo..hi : k # C /\ k # M => ops2[k] = ops[k]
  BY <1>1 DEF IsTaken
<1>5. M \in lo..hi /\ OpInv(ops[M], n) /\ \A k \in lo..hi : OpInv(ops[k], n)
  BY <1>1, <1>2 DEF Coherent
<1>6. M = C => /\ OpInv(ops2[C], n) /\ ops2[C].type = "Null"
               /\ \A j : Whole(ops2[C], j) = ops[C].full + 1
  <2> SUFFICES ASSUME M = C
               PROVE  /\ OpInv(ops2[C], n) /\ ops2[C].type = "Null"
                      /\ \A j : Whole(ops2[C], j) = ops[C].full + 1
    OBVIOUS
  <2> DEFINE op == AddFull(ops[C], IncAmnt)
  <2>1. ops2[C] = MakeNull(op)
    BY <1>2 DEF IsTaken
  <2>2. op.full \in Int /\ op.full = ops[C].full + 1
    BY <1>2, <1>3, AddFullInv DEF IncAmnt
  <2> HIDE DEF op
  <2> QED
    BY <2>1, <2>2, MakeNullInv
<1>7. M # C => /\ OpInv(ops2[C], n) /\ ops2[C].type = "Null"
               /\ OpInv(ops2[M], n)
               /\ ops2[M].type = ops[M].type /\ ops2[M].target = ops[M].target
               /\ \A j : /\ Whole(ops2[C], j) = 0
                         /\ Whole(ops2[M], j) = Whole(ops[M], j) + ops[C].full + 1
                         /\ Whole(ops[M], j) \in Int
  <2> SUFFICES ASSUME M # C
               PROVE  /\ OpInv(ops2[C], n) /\ ops2[C].type = "Null"
                      /\ OpInv(ops2[M], n)
                      /\ ops2[M].type = ops[M].type /\ ops2[M].target = ops[M].target
                      /\ \A j : /\ Whole(ops2[C], j) = 0
                                /\ Whole(ops2[M], j) = Whole(ops[M], j) + ops[C].full + 1
                                /\ Whole(ops[M], j) \in Int
    OBVIOUS
  <2> DEFINE amount == ops[C].full + IncAmnt
  <2>1. ops2[C] = NoImpact /\ ops2[M] = AddFull(ops[M], amount) /\ amount \in Int
    BY <1>2, <1>3, <1>5 DEF IsTaken
  <2>2. amount = ops[C].full + 1
    BY DEF IncAmnt
  <2> HIDE DEF amount
  <2>3. \A j : OpInv(NoImpact, n) /\ NoImpact.type = "Null" /\ Whole(NoImpact, j) = 0
    BY NoImpactInv
  <2>4. /\ OpInv(ops2[M], n)
        /\ ops2[M].type = ops[M].type /\ ops2[M].target = ops[M].target
        /\ \A j : /\ Whole(ops2[M], j) = Whole(ops[M], j) + amount
                  /\ Whole(ops[M], j) \in Int
    <3> DEFINE op == ops[M]
    <3>1. OpInv(op, n) /\ amount \in Int
      BY <1>5, <2>1
    <3>2. ops2[M] = AddFull(op, amount)
      BY <2>1
    <3> HIDE DEF op
    <3>3. /\ OpInv(AddFull(op, amount), n)
          /\ AddFull(op, amount).type = op.type /\ AddFull(op, amount).target = op.target
          /\ \A j : /\ Whole(AddFull(op, amount), j) = Whole(op, j) + amount
                    /\ Whole(op, j) \in Int
      BY <3>1, AddFullInv
    <3> QED
      BY <3>2, <3>3 DEF op
  <2> QED
    BY <1>3, <2>1, <2>2, <2>3, <2>4
<1>8. /\ \A k \in lo..hi : OpInv(ops2[k], n)
      /\ \A k \in lo..hi : k # C => ops2[k].type = ops[k].type /\ ops2[k].target = ops[k].target
      /\ ops2[C].type = "Null"
  BY <1>4, <1>5, <1>6, <1>7
<1>9. ASSUME NEW j \in T..n PROVE Adds(ops2, lo, M, j) = Adds(ops, lo, M, j)
  <2>1. Summable(ops, lo, M) /\ Summable(ops2, lo, M)
    BY <1>1, <1>2, <1>5, <1>8 DEF Summable, OpInv
  <2>2. Whole(ops[C], j) = ops[C].full + 1
    BY <1>3 DEF Whole, Effect, IncAmnt
  <2>3. C \in lo..M /\ M \in lo..M /\ \A k \in lo..M : k \in lo..hi
    BY <1>1, <1>2
  <2>4. Adds(ops, lo, M, j) \in Int
    BY <2>1, AddsType
  <2>5. CASE M = C
    <3>1. \A k \in lo..M : k # C => ops2[k] = ops[k]
      BY <1>4, <2>3, <2>5
    <3>2. Adds(ops2, lo, M, j) = Adds(ops, lo, M, j) + Whole(ops2[C], j) - Whole(ops[C], j)
      BY <2>1, <2>3, <3>1, AddsWrite
    <3> QED
      BY <1>3, <1>6, <2>2, <2>4, <2>5, <3>2
  <2>6. CASE M # C
    <3>1. \A k \in lo..M : k # C /\ k # M => ops2[k] = ops[k]
      BY <1>4, <2>3
    <3>2. Adds(ops2, lo, M, j) = Adds(ops, lo, M, j)
                                   + (Whole(ops2[C], j) - Whole(ops[C], j))
                                   + (Whole(ops2[M], j) - Whole(ops[M], j))
      BY <2>1, <2>3, <2>6, <3>1, AddsTwoWrites
    <3> QED
      BY <1>3, <1>7, <2>2, <2>4, <2>6, <3>2
  <2> QED
    BY <2>5, <2>6
<1>10. \A k \in (M + 1)..hi : ops[C].target <= ops[k].target
  <2> SUFFICES ASSUME NEW k \in (M + 1)..hi PROVE ops[C].target <= ops[k].target
    OBVIOUS
  <2>1. k \in lo..hi /\ E < ops[k].target
    BY <1>1, <1>2
  <2>2. ops[k].target \in Int /\ T \in Int
    BY <1>3, <1>5, <2>1 DEF OpInv
  <2> QED
    BY <1>1, <1>3, <2>1, <2>2
<1>11. /\ Coherent(ops2, lo, hi, n, due)
       /\ Targets(ops2, lo, hi, "Prefix") = Targets(ops, lo, hi, "Prefix")
       /\ Targets(ops2, lo, hi, "Postfix") = Targets(ops, lo, hi, "Postfix") \ {T}
  BY <1>1, <1>2, <1>3, <1>4, <1>8, <1>9, <1>10, OperationTaken
<1>12. \A k \in (C2 + 1)..(M - 1) : ops2[k] = NoImpact
  BY <1>1, <1>2 DEF IsTaken
<1>13. \A k \in (C2 + 1)..M : ops2[k].type = "Null"
  BY <1>1, <1>2, <1>8
<1>14. LoopSlots(ops2, lo, C2, M, hi, E, n, due)
  <2>1. \A k \in (M + 1)..hi : ~IsNull(ops2[k]) /\ E < ops2[k].target
    BY <1>1, <1>2, <1>4
  <2>2. \A k \in (lo + 1)..C2 : ~IsNull(ops2[k])
    BY <1>1, <1>2, <1>4
  <2>3. ops2[lo] = ops[lo]
    BY <1>1, <1>2, <1>4
  <2> QED
    BY <1>1, <1>2, <1>11, <1>12, <1>13, <2>1, <2>2, <2>3 DEF LoopSlots
<1>15. ASSUME NEW j
       PROVE  /\ Adds(ops, lo, C, j) \in Int /\ Adds(ops2, lo, C2, j) \in Int
              /\ Adds(ops, lo, C, j) = Adds(ops2, lo, C2, j) + Whole(ops[C], j)
  <2>1. /\ Adds(ops, lo, C, j) = Adds(ops, lo, C - 1, j) + Whole(ops[C], j)
        /\ Summable(ops, lo, C - 1)
    BY <1>1, <1>2, AddsLast
  <2>2. Summable(ops, lo, C2) /\ \A k \in lo..C2 : ops2[k] = ops[k]
    BY <1>1, <1>2, <1>4, <2>1
  <2>3. Adds(ops2, lo, C2, j) = Adds(ops, lo, C2, j)
    BY <2>2, AddsFrame
  <2>4. Adds(ops, lo, C, j) \in Int /\ Adds(ops, lo, C2, j) \in Int
    BY <1>2, <2>2, AddsType
  <2> QED
    BY <2>1, <2>3, <2>4
<1>16. LessTarget(ops2, ops, lo, hi, T)
  BY <1>11 DEF LessTarget
<1>17. LessAdds(ops2, C2, ops, lo, C)
  BY <1>15 DEF LessAdds
<1> QED
  BY <1>14, <1>16, <1>17

\* The boundary at C is credited to the operation before it, and its full
\* amount to the Null at M.
IsCut(ops2, ops, lo, C, M, hi) ==
    \A k \in lo..hi :
        ops2[k] = IF k = C - 1 THEN AddFull(ops[k], ops[C].full + IncAmnt)
                  ELSE IF k = C THEN IF M = C THEN MakeNull(ops[C]) ELSE NoImpact
                  ELSE IF k = M THEN AddFull(ops[M], ops[C].full)
                  ELSE ops[k]

Cuts(ops2, C2, ops, lo, C, M, hi, E, n, due) ==
    /\ LoopSlots(ops, lo, C, M, hi, E, n, due)
    /\ IsBoundaryOp(ops[C], E)
    /\ IsCut(ops2, ops, lo, C, M, hi)
    /\ C2 = C - 1

\* The slots of the two sides once the boundary is merged.
CutSides(ops, lo, C, M, hi, n, due) ==
    /\ lo \in Int /\ C \in Int /\ M \in Int /\ hi \in Int
    /\ lo <= C /\ C < M /\ M <= hi
    /\ Coherent(ops, lo, C, n, due)
    /\ ops[lo].type = "Null"
    /\ \A k \in (lo + 1)..C : ~IsNull(ops[k])
    /\ \A k \in (C + 1)..(M - 1) : ops[k] = NoImpact
    /\ Coherent(ops, M, hi, n, due)
    /\ ops[M].type = "Null"
    /\ \A k \in (M + 1)..hi : ~IsNull(ops[k])

CutTargets(ops2, C2, ops, lo, M, hi, E) ==
    /\ Targets(ops2, lo, C2, "Prefix") = {T \in Targets(ops, lo, hi, "Prefix") : T < E}
    /\ Targets(ops2, lo, C2, "Postfix") = {T \in Targets(ops, lo, hi, "Postfix") : T <= E}
    /\ Targets(ops2, M, hi, "Prefix") = {T \in Targets(ops, lo, hi, "Prefix") : E < T}
    /\ Targets(ops2, M, hi, "Postfix") = {T \in Targets(ops, lo, hi, "Postfix") : E < T}

SameAddsBelow(ops2, C2, ops, lo, C, E) ==
    \A j \in 0..E :
        /\ Adds(ops, lo, C, j) \in Int /\ Adds(ops2, lo, C2, j) \in Int
        /\ Adds(ops, lo, C, j) = Adds(ops2, lo, C2, j)

LEMMA CutSlots ==
    ASSUME NEW ops, NEW lo, NEW C, NEW M, NEW hi, NEW E, NEW n \in Nat, NEW due,
           NEW ops2, NEW C2, Cuts(ops2, C2, ops, lo, C, M, hi, E, n, due)
    PROVE  /\ CutSides(ops2, lo, C2, M, hi, n, due)
           /\ CutTargets(ops2, C2, ops, lo, M, hi, E)
           /\ SameAddsBelow(ops2, C2, ops, lo, C, E)
<1>0. /\ LoopSlots(ops, lo, C, M, hi, E, n, due)
      /\ IsBoundaryOp(ops[C], E)
      /\ IsCut(ops2, ops, lo, C, M, hi)
      /\ C2 = C - 1
  BY DEF Cuts
<1> USE <1>0
<1>1. /\ lo \in Int /\ C \in Int /\ M \in Int /\ hi \in Int /\ E \in Nat
      /\ lo <= C /\ C <= M /\ M <= hi
      /\ Coherent(ops, lo, hi, n, due)
      /\ ops[lo].type = "Null"
      /\ \A k \in (lo + 1)..C : ~IsNull(ops[k])
      /\ \A k \in (C + 1)..(M - 1) : ops[k] = NoImpact
      /\ \A k \in (C + 1)..M : ops[k].type = "Null"
      /\ \A k \in (M + 1)..hi : ~IsNull(ops[k]) /\ E < ops[k].target
      /\ E \in Targets(ops, lo, hi, "Prefix")
      /\ C # M => ops[M].type = "Null"
  BY DEF LoopSlots
<1>2. /\ lo < C /\ C \in lo..hi /\ M \in C..hi /\ C2 \in lo..hi
      /\ Summable(ops, lo, hi) /\ Summable(ops, lo, C)
      /\ OpInv(ops[C], n)
  <2>1. /\ lo < C /\ C \in lo..hi /\ M \in C..hi
        /\ Summable(ops, lo, hi) /\ Summable(ops, lo, C)
        /\ OpInv(ops[C], n)
    BY BoundaryBelow
  <2>2. C2 \in lo..hi
    BY <1>1, <2>1
  <2> QED
    BY <2>1, <2>2
<1>3. /\ ops[C].type = "Prefix" /\ ops[C].target = E /\ ops[C].full \in Int
      /\ ops[C].full + IncAmnt \in Int
  BY <1>1, <1>2 DEF OpInv, IsBoundaryOp, IncAmnt
<1>4. /\ \A k \in lo..hi : k < C2 \/ k > M => ops2[k] = ops[k]
      /\ \A k \in lo..hi : k < C => ops[k].target < E
  <2>1. \A k \in lo..(C - 1) : ops[k].target < ops[C].target
    BY <1>1, <1>2, <1>3 DEF Coherent
  <2> QED
    BY <1>1, <1>3, <2>1 DEF IsCut
<1>5. M \in lo..hi /\ OpInv(ops[M], n) /\ \A k \in lo..hi : OpInv(ops[k], n)
  BY <1>1, <1>2 DEF Coherent
<1>6. /\ OpInv(ops2[C2], n) /\ ops2[C2].type = ops[C2].type /\ ops2[C2].target = ops[C2].target
      /\ \A j : /\ Whole(ops2[C2], j) = Whole(ops[C2], j) + ops[C].full + 1
                /\ Whole(ops[C2], j) \in Int
  <2> DEFINE op == ops[C2]
             amount == ops[C].full + IncAmnt
  <2>1. OpInv(op, n) /\ amount \in Int
    BY <1>2, <1>3, <1>5
  <2>2. ops2[C2] = AddFull(op, amount)
    BY <1>2 DEF IsCut
  <2>3. amount = ops[C].full + 1
    BY DEF IncAmnt
  <2> HIDE DEF op, amount
  <2>4. /\ OpInv(AddFull(op, amount), n)
        /\ AddFull(op, amount).type = op.type /\ AddFull(op, amount).target = op.target
        /\ \A j : /\ Whole(AddFull(op, amount), j) = Whole(op, j) + amount
                  /\ Whole(op, j) \in Int
    BY <2>1, AddFullInv
  <2>5. \A j : Whole(ops2[C2], j) = Whole(op, j) + ops[C].full + 1 /\ Whole(op, j) \in Int
    BY <1>3, <2>2, <2>3, <2>4
  <2> QED
    BY <2>2, <2>4, <2>5 DEF op
<1>7. /\ OpInv(ops2[M], n) /\ ops2[M].type = "Null"
      /\ M = C => ops2[M].full = ops[C].full
      /\ M # C => ops2[M].full = ops[M].full + ops[C].full
  <2>1. CASE M = C
    <3>1. ops2[M] = MakeNull(ops[C])
      BY <1>1, <1>2, <2>1 DEF IsCut
    <3> QED
      BY <1>3, <2>1, <3>1, MakeNullInv
  <2>2. CASE M # C
    <3> DEFINE op == ops[M]
               amount == ops[C].full
    <3>1. OpInv(op, n) /\ amount \in Int
      BY <1>3, <1>5
    <3>2. ops2[M] = AddFull(op, amount)
      BY <1>1, <1>2, <2>2 DEF IsCut
    <3>3. op.type = "Null"
      BY <1>1, <2>2
    <3> HIDE DEF op, amount
    <3>4. /\ OpInv(AddFull(op, amount), n)
          /\ AddFull(op, amount).type = op.type
          /\ AddFull(op, amount).full = op.full + amount
      BY <3>1, AddFullInv
    <3> QED
      BY <2>2, <3>2, <3>3, <3>4 DEF op, amount
  <2> QED
    BY <2>1, <2>2
<1>8. /\ \A k \in lo..C2 : OpInv(ops2[k], n)
      /\ \A k \in lo..C2 : ops2[k].type = ops[k].type /\ ops2[k].target = ops[k].target
      /\ \A k \in lo..(C2 - 1) : ops2[k] = ops[k]
  BY <1>1, <1>2, <1>4, <1>5, <1>6
<1>9. Coherent(ops2, lo, C2, n, due)
  <2>1. C2 \in Int /\ C2 <= hi
    BY <1>2
  <2> QED
    BY <1>1, <1>8, <2>1, CoherentBegin
<1>10. \A k \in lo..hi : /\ k \in lo..C2 <=> k < C
                         /\ k \in M..hi <=> ~(k < M)
                         /\ ops[k].target \in Int
  BY <1>1, <1>2, <1>5 DEF OpInv
<1>11. \A k \in lo..hi : ops[k].type # "Null" =>
          \/ k < C /\ ops[k].target < E
          \/ k = C /\ ops[k].target = E /\ ops[k].type = "Prefix"
          \/ k \in (M + 1)..hi /\ k \in M..hi /\ E < ops[k].target /\ ops2[k] = ops[k]
  <2> SUFFICES ASSUME NEW k \in lo..hi, ops[k].type # "Null"
               PROVE  \/ k < C /\ ops[k].target < E
                      \/ k = C /\ ops[k].target = E /\ ops[k].type = "Prefix"
                      \/ k \in (M + 1)..hi /\ k \in M..hi /\ E < ops[k].target /\ ops2[k] = ops[k]
    OBVIOUS
  <2>1. k \notin (C + 1)..M
    BY <1>1
  <2>2. k < C \/ k = C \/ k \in (M + 1)..hi
    BY <1>1, <2>1
  <2>3. CASE k \in (M + 1)..hi
    <3>1. E < ops[k].target
      BY <1>1, <2>3
    <3>2. k \in M..hi /\ k > M
      BY <1>1, <2>3
    <3>3. ops2[k] = ops[k]
      BY <1>4, <3>2
    <3> QED
      BY <2>3, <3>1, <3>2, <3>3
  <2> QED
    BY <1>3, <1>4, <2>2, <2>3
<1>12. \A k \in M..hi : k \in lo..hi /\ (k # M => k \in (M + 1)..hi)
  BY <1>1
<1>13. ASSUME NEW type \in {"Prefix", "Postfix"}
       PROVE  /\ Targets(ops2, lo, C2, type) = {T \in Targets(ops, lo, hi, type) : T < E}
              /\ Targets(ops2, M, hi, type) = {T \in Targets(ops, lo, hi, type) : E < T}
  <2>1. \A k \in lo..C2 : k \in lo..hi /\ k < C
    BY <1>1, <1>2
  <2>2. Targets(ops2, lo, C2, type) \subseteq {T \in Targets(ops, lo, hi, type) : T < E}
    BY <1>4, <1>8, <2>1 DEF Targets
  <2>3. ASSUME NEW T \in Targets(ops, lo, hi, type), T < E
        PROVE  T \in Targets(ops2, lo, C2, type)
    <3>1. PICK k \in lo..hi : ops[k].type = type /\ ops[k].target = T
      BY DEF Targets
    <3>2. ~(E < T) /\ E # T
      BY <1>1, <1>10, <2>3, <3>1
    <3>3. k < C
      BY <1>11, <3>1, <3>2
    <3>4. k \in lo..C2
      BY <1>10, <3>3
    <3> QED
      BY <1>8, <3>1, <3>4 DEF Targets
  <2>4. Targets(ops2, M, hi, type) \subseteq {T \in Targets(ops, lo, hi, type) : E < T}
    <3> SUFFICES ASSUME NEW k \in M..hi, ops2[k].type = type
                 PROVE  ops2[k].target \in Targets(ops, lo, hi, type) /\ E < ops2[k].target
      BY DEF Targets
    <3>1. k \in lo..hi /\ k \in (M + 1)..hi
      BY <1>7, <1>12
    <3>2. ops2[k] = ops[k]
      BY <1>1, <1>4, <3>1
    <3> QED
      BY <1>1, <3>1, <3>2 DEF Targets
  <2>5. ASSUME NEW T \in Targets(ops, lo, hi, type), E < T
        PROVE  T \in Targets(ops2, M, hi, type)
    <3>1. PICK k \in lo..hi : ops[k].type = type /\ ops[k].target = T
      BY DEF Targets
    <3>2. ~(T < E) /\ E # T
      BY <1>1, <1>10, <2>5, <3>1
    <3>3. k \in M..hi /\ ops2[k] = ops[k]
      BY <1>11, <3>1, <3>2
    <3> QED
      BY <3>1, <3>3 DEF Targets
  <2> QED
    BY <2>2, <2>3, <2>4, <2>5
<1>14. {T \in Targets(ops, lo, hi, "Postfix") : T < E} = {T \in Targets(ops, lo, hi, "Postfix") : T <= E}
  <2> SUFFICES ASSUME NEW k \in lo..hi, ops[k].type = "Postfix"
               PROVE  ops[k].target < E <=> ops[k].target <= E
    BY DEF Targets
  <2>1. ops[k].target # E
    BY <1>1, <1>10, <1>11
  <2> QED
    BY <1>1, <1>10, <2>1
<1>15. Coherent(ops2, M, hi, n, due)
  <2>1. ASSUME NEW j \in (ops[C].target + 1)..n
        PROVE  ops2[M].full = Adds(ops, C, M, j)
    <3>1. Whole(ops[C], j) = ops[C].full
      BY <1>1, <1>3 DEF Whole, Effect
    <3>2. CASE M = C
      BY <1>1, <1>2, <1>3, <1>7, <3>1, <3>2, AddsSingle
    <3>3. CASE M # C
      <4> DEFINE h == M - 1
                 a == C + 1
      <4>1. /\ Summable(ops, C, M) /\ C <= M
            /\ h \in Int /\ a \in Int /\ a <= M
            /\ ops[M].full \in Int /\ ops[M].type = "Null"
        BY <1>1, <1>2, <1>5, <3>3 DEF Summable, OpInv
      <4>2. \A k \in a..h : Whole(ops[k], j) = 0
        BY <1>1, NoImpactInv
      <4>3. /\ Adds(ops, C, M, j) = Whole(ops[C], j) + Adds(ops, C + 1, M, j)
            /\ Summable(ops, C + 1, M)
        BY <4>1, AddsFirst
      <4>4. Summable(ops, a, M)
        BY <4>3
      <4> HIDE DEF a
      <4>5. Adds(ops, a, M, j) = Adds(ops, a, M - 1, j) + Whole(ops[M], j)
        BY <4>1, <4>4, AddsLast
      <4> HIDE DEF h
      <4>6. Adds(ops, a, h, j) = 0
        BY <4>1, <4>2, AddsNothing
      <4>7. Whole(ops[M], j) = ops[M].full
        BY <4>1, WholeOfNull
      <4> QED
        BY <1>3, <1>7, <3>1, <3>3, <4>1, <4>3, <4>5, <4>6, <4>7 DEF a, h
    <3> QED
      BY <3>2, <3>3
  <2>2. \A k \in M..hi : OpInv(ops2[k], n)
    <3> SUFFICES ASSUME NEW k \in M..hi PROVE OpInv(ops2[k], n)
      OBVIOUS
    <3>1. CASE k = M
      BY <1>7, <3>1
    <3>2. CASE k # M
      <4>1. k \in lo..hi /\ k > M
        BY <1>1, <3>2
      <4> QED
        BY <1>4, <1>5, <4>1
    <3> QED
      BY <3>1, <3>2
  <2>3. \A k \in (M + 1)..hi : ops2[k] = ops[k]
    BY <1>1, <1>4
  <2>4. \A k \in (M + 1)..hi : ops[C].target < ops[k].target
    BY <1>1, <1>3
  <2> QED
    BY <1>1, <1>2, <1>3, <1>7, <2>1, <2>2, <2>3, <2>4, OperationsCut
<1>16. \A k \in (C2 + 1)..(M - 1) : ops2[k] = NoImpact
  BY <1>1, <1>2 DEF IsCut
<1>17. /\ ops2[lo].type = "Null"
       /\ \A k \in (lo + 1)..C2 : ~IsNull(ops2[k])
       /\ \A k \in (M + 1)..hi : ~IsNull(ops2[k])
  <2>1. lo \in lo..C2
    BY <1>1, <1>2
  <2>2. \A k \in (lo + 1)..C2 : k \in lo..C2 /\ k \in (lo + 1)..C
    BY <1>1, <1>2
  <2>3. \A k \in (M + 1)..hi : ops2[k] = ops[k]
    BY <1>1, <1>4
  <2> QED
    BY <1>1, <1>8, <2>1, <2>2, <2>3 DEF IsNull
<1>18. ASSUME NEW j \in 0..E
       PROVE  /\ Adds(ops, lo, C, j) \in Int /\ Adds(ops2, lo, C2, j) \in Int
              /\ Adds(ops, lo, C, j) = Adds(ops2, lo, C2, j)
  <2>1. Whole(ops[C], j) = ops[C].full + 1
    BY <1>1, <1>3 DEF Whole, Effect, IncAmnt
  <2>2. /\ Adds(ops, lo, C, j) = Adds(ops, lo, C - 1, j) + Whole(ops[C], j)
        /\ Summable(ops, lo, C - 1)
    BY <1>1, <1>2, AddsLast
  <2>3. Summable(ops, lo, C2) /\ Summable(ops2, lo, C2) /\ C2 \in lo..C2
    BY <1>1, <1>2, <1>8, <2>2 DEF Summable, OpInv
  <2>4. \A k \in lo..C2 : k # C2 => ops2[k] = ops[k]
    BY <1>1, <1>8
  <2>5. Adds(ops2, lo, C2, j) = Adds(ops, lo, C2, j) + Whole(ops2[C2], j) - Whole(ops[C2], j)
    BY <2>3, <2>4, AddsWrite
  <2>6. Adds(ops, lo, C, j) \in Int /\ Adds(ops, lo, C2, j) \in Int
    BY <1>2, <2>3, AddsType
  <2> QED
    BY <1>3, <1>6, <2>1, <2>2, <2>5, <2>6
<1>19. /\ lo <= C2 /\ C2 < M /\ M <= hi
       /\ lo \in Int /\ C2 \in Int /\ M \in Int /\ hi \in Int
  BY <1>1, <1>2
<1>20. CutSides(ops2, lo, C2, M, hi, n, due)
  <2> HIDE <1>0
  <2> QED
    BY <1>7, <1>9, <1>15, <1>16, <1>17, <1>19 DEF CutSides
<1>21. CutTargets(ops2, C2, ops, lo, M, hi, E)
  <2> HIDE <1>0
  <2> QED
    BY <1>13, <1>14, Zenon DEF CutTargets
<1>22. SameAddsBelow(ops2, C2, ops, lo, C, E)
  BY <1>18 DEF SameAddsBelow
<1> QED
  BY <1>20, <1>21, <1>22

-----------------------------------------------------------------------------
(* What is due, and the histogram of what has been frozen                  *)

LEMMA NextAccessIsOne ==
    ASSUME NEW tr, Len(tr) \in Nat, NEW i \in Repeats(tr), NEW j \in Repeats(tr),
           PreviousAccess(tr, i) = PreviousAccess(tr, j)
    PROVE  i = j
<1> DEFINE n == Len(tr)
           p == PreviousAccess(tr, i)
<1>1. i \in 1..n /\ j \in 1..n /\ IsRepeat(tr, i) /\ IsRepeat(tr, j)
  BY DEF Repeats
<1> HIDE DEF n
<1>2. n \in Nat
  BY DEF n
<1>3. /\ p \in 1..(i - 1) /\ tr[p] = tr[i]
      /\ \A k \in (p + 1)..(i - 1) : tr[k] # tr[i]
  BY <1>1, <1>2, PreviousAccessProperties
<1>4. /\ p \in 1..(j - 1) /\ tr[p] = tr[j]
      /\ \A k \in (p + 1)..(j - 1) : tr[k] # tr[j]
  BY <1>1, <1>2, PreviousAccessProperties
<1> HIDE DEF p
<1>5. ~(i < j)
  <2>1. ASSUME i < j PROVE i \in (p + 1)..(j - 1)
    BY <1>1, <1>2, <1>3, <1>4, <2>1
  <2> QED
    BY <1>3, <1>4, <2>1
<1>6. ~(j < i)
  BY <1>1, <1>2, <1>3, <1>4
<1> QED
  BY <1>1, <1>2, <1>5, <1>6

\* What is due to a request, by its next access.
LEMMA DueProperties ==
    ASSUME NEW tr, Len(tr) \in Nat
    PROVE  /\ DOMAIN Due(tr) \subseteq 1..Len(tr)
           /\ IsFiniteSet(DOMAIN Due(tr))
           /\ \A i \in Repeats(tr) : /\ PreviousAccess(tr, i) \in DOMAIN Due(tr)
                                     /\ Due(tr)[PreviousAccess(tr, i)] = Distance(tr, i)
           /\ \A p \in DOMAIN Due(tr) : \E i \in Repeats(tr) : p = PreviousAccess(tr, i)
<1> DEFINE n == Len(tr)
           D == {PreviousAccess(tr, i) : i \in Repeats(tr)}
<1>1. DOMAIN Due(tr) = D
  BY DEF Due
<1>2. D \subseteq 1..n
  <2>1. ASSUME NEW i \in Repeats(tr) PROVE PreviousAccess(tr, i) \in 1..n
    <3>1. i \in 1..n /\ IsRepeat(tr, i)
      BY DEF Repeats
    <3>2. PreviousAccess(tr, i) \in 1..(i - 1)
      BY <3>1, PreviousAccessProperties
    <3> QED
      BY <3>1, <3>2
  <2> QED
    BY <2>1
<1>3. IsFiniteSet(D)
  <2>1. IsFiniteSet(1..n)
    BY FS_Interval
  <2> QED
    BY <1>2, <2>1, FS_Subset
<1>4. ASSUME NEW i \in Repeats(tr) PROVE Due(tr)[PreviousAccess(tr, i)] = Distance(tr, i)
  <2> DEFINE p == PreviousAccess(tr, i)
             c == CHOOSE j \in Repeats(tr) : PreviousAccess(tr, j) = p
  <2>1. Due(tr)[p] = Distance(tr, c)
    BY DEF Due
  <2>2. c \in Repeats(tr) /\ PreviousAccess(tr, c) = p
    OBVIOUS
  <2>3. c = i
    BY <2>2, NextAccessIsOne
  <2> QED
    BY <2>1, <2>3
<1> QED
  BY <1>1, <1>2, <1>3, <1>4

\* As many requests are due at a distance as accesses are at it.
LEMMA DueAtDistance ==
    ASSUME NEW tr, Len(tr) \in Nat, NEW d
    PROVE  /\ IsFiniteSet(FrozenAt(d, Due(tr), {}))
           /\ Cardinality(FrozenAt(d, Due(tr), {})) = AtDistance(tr, d)
<1> DEFINE A == {i \in Repeats(tr) : Distance(tr, i) = d}
           B == FrozenAt(d, Due(tr), {})
           f == [i \in A |-> PreviousAccess(tr, i)]
<1>1. IsFiniteSet(A)
  <2>1. IsFiniteSet(1..Len(tr))
    BY FS_Interval
  <2>2. A \subseteq 1..Len(tr)
    BY DEF Repeats
  <2> QED
    BY <2>1, <2>2, FS_Subset
<1>2. B = {p \in DOMAIN Due(tr) : Due(tr)[p] = d}
  BY DEF FrozenAt
<1>3. \A i \in A : f[i] \in B
  BY <1>2, DueProperties
<1>4. \A i, j \in A : f[i] = f[j] => i = j
  BY NextAccessIsOne
<1>5. \A p \in B : \E i \in A : f[i] = p
  <2> TAKE p \in B
  <2>1. p \in DOMAIN Due(tr) /\ Due(tr)[p] = d
    BY <1>2
  <2>2. PICK i \in Repeats(tr) : p = PreviousAccess(tr, i)
    BY <2>1, DueProperties
  <2>3. Distance(tr, i) = d
    BY <2>1, <2>2, DueProperties
  <2> QED
    BY <2>2, <2>3
<1>6. f \in Bijection(A, B)
  <2>1. f \in [A -> B]
    BY <1>3
  <2> HIDE DEF f, A, B
  <2> QED
    BY <1>4, <1>5, <2>1 DEF Bijection, Injection, Surjection, IsInjective
<1> HIDE DEF f
<1>7. IsFiniteSet(B) /\ Cardinality(B) = Cardinality(A)
  <2>1. ExistsBijection(A, B)
    BY <1>6 DEF ExistsBijection
  <2> HIDE DEF A, B
  <2> QED
    BY <1>1, <2>1, FS_Bijection
<1> QED
  BY <1>7 DEF AtDistance

-----------------------------------------------------------------------------
(* From the slots of a vector to those of a task                           *)

\* A sum over slots from 0 is the sum over places from 1.
LEMMA AddsFromZero ==
    ASSUME NEW ops, NEW c \in Nat, Summable(ops, 0, c - 1), NEW j,
           NEW g, \A m \in 1..c : g[m] = Whole(ops[m - 1], j)
    PROVE  \A m \in 0..c : Adds(ops, 0, m - 1, j) = SumFunctionOnSet(g, 1..m)
<1> DEFINE P == {m \in Nat : m <= c => Adds(ops, 0, m - 1, j) = SumFunctionOnSet(g, 1..m)}
<1>0. ASSUME NEW k \in 0..(c - 1) PROVE Whole(ops[k], j) \in Int
  BY WholeType DEF Summable
<1>1. \A m \in 1..c : g[m] \in Int /\ g[m] = Whole(ops[m - 1], j)
  <2>1. \A m \in 1..c : m - 1 \in 0..(c - 1)
    OBVIOUS
  <2> QED
    BY <1>0, <2>1
<1>2. 0 \in P
  <2>1. Adds(ops, 0, 0 - 1, j) = 0
    BY AddsNone
  <2>2. \A x \in {} : g[x] \in Int
    OBVIOUS
  <2>3. SumFunctionOnSet(g, {}) = 0
    BY <2>2, FS_EmptySet, SumProperties
  <2>4. 1..0 = {}
    OBVIOUS
  <2> QED
    BY <2>1, <2>3, <2>4
<1>3. ASSUME NEW m \in Nat, m \in P PROVE m + 1 \in P
  <2>1. CASE m + 1 > c
    BY <2>1
  <2>2. CASE m + 1 <= c
    <3>1. Adds(ops, 0, m - 1, j) = SumFunctionOnSet(g, 1..m)
      BY <1>3, <2>2
    <3>2. Summable(ops, 0, m)
      BY <2>2 DEF Summable
    <3>3. Adds(ops, 0, m, j) = Adds(ops, 0, m - 1, j) + Whole(ops[m], j)
      BY <3>2, AddsLast
    <3>4. SumFunctionOnSet(g, 1..(m + 1)) = SumFunctionOnSet(g, 1..m) + g[m + 1]
      <4> DEFINE S == 1..(m + 1)
                 T == 1..m
      <4>1. IsFiniteSet(S) /\ \A x \in S : g[x] \in Int
        BY <1>1, <2>2, FS_Interval
      <4>2. T \in SUBSET S /\ m + 1 \in S \ T /\ S = T \cup {m + 1}
        OBVIOUS
      <4> HIDE DEF S, T
      <4>3. SumFunctionOnSet(g, T \cup {m + 1}) = SumFunctionOnSet(g, T) + g[m + 1]
        BY <4>1, <4>2, SumProperties
      <4> QED
        BY <4>2, <4>3 DEF S, T
    <3>5. g[m + 1] = Whole(ops[m], j)
      <4>1. m + 1 \in 1..c /\ (m + 1) - 1 = m
        BY <2>2
      <4> QED
        BY <1>1, <4>1
    <3>6. (m + 1) - 1 = m
      OBVIOUS
    <3> QED
      BY <3>1, <3>3, <3>4, <3>5, <3>6
  <2> QED
    BY <2>1, <2>2
<1> HIDE DEF P
<1>4. Nat \subseteq P
  BY <1>2, <1>3, SetOfNaturals
<1> QED
  BY <1>4 DEF P

\* The effects of the slots of all accesses on request j.
Effects(whole, N, j) == [k \in 1..N |-> Whole(whole[k], j)]

\* The vector that the tasks begin with: the place of slot kept[m] is m - 1, and
\* what has been squeezed out adds nothing.
Squeezed(ops, c, whole, n, kept) ==
    /\ c \in Nat \ {0}
    /\ \A m \in 1..c : kept[m] \in 1..(2 * n) /\ ops[m - 1] = whole[kept[m]]
    /\ \A l, m \in 1..c : l < m => kept[l] < kept[m]
    /\ \A k \in 1..(2 * n) : ~IsNull(whole[k]) => \E m \in 1..c : kept[m] = k
    /\ \A m \in 2..c : ~IsNull(whole[kept[m]])
    /\ \A k \in 1..(2 * n) : whole[k].full \in Int
    /\ \A j \in 1..n : \A m \in 1..c :
          Adds(ops, 0, m - 1, j) = SumFunctionOnSet(Effects(whole, 2 * n, j), 1..kept[m])

\* The operation in a slot.
LEMMA SlotOp ==
    ASSUME NEW n \in Nat, NEW tr, NEW whole, Slots(whole, tr, n), NEW k \in 1..(2 * n)
    PROVE  LET op == whole[k]
           IN  /\ OpInv(op, n)
               /\ op.type = "Prefix" => \E a \in 2..n : k = 2 * a - 1 /\ op.target = a - 1
               /\ op.type = "Postfix" =>
                     \E a \in 1..n : /\ k = 2 * a /\ IsRepeat(tr, a)
                                     /\ op.target = PreviousAccess(tr, a)
                                     /\ PreviousAccess(tr, a) \in 1..n
                                     /\ op.full = 0
               /\ \A a \in 2..n : k < 2 * a - 1 => op.target < a - 1
<1>1. PICK a \in 1..n : k = 2 * a - 1 \/ k = 2 * a
  <2>1. (k + 1) \div 2 \in 1..n /\ (k = 2 * ((k + 1) \div 2) - 1 \/ k = 2 * ((k + 1) \div 2))
    OBVIOUS
  <2> QED
    BY <2>1
<1> DEFINE op == whole[k]
           r == IsRepeat(tr, a)
           p == PreviousAccess(tr, a)
<1>2. r => p \in 1..(a - 1)
  BY PreviousAccessProperties
<1>3. CASE k = 2 * a - 1
  <2>1. op = [type |-> IF a - 1 = 0 THEN "Null" ELSE "Prefix", target |-> a - 1,
              full |-> IF r THEN -1 ELSE 0]
    BY <1>3 DEF Slots, PrefixOp
  <2>2. /\ op.type = IF a - 1 = 0 THEN "Null" ELSE "Prefix"
        /\ op.target = a - 1 /\ op.full \in Int /\ IsOp(op)
    BY <2>1 DEF IsOp
  <2> HIDE DEF op
  <2>3. OpInv(op, n)
    <3>1. a - 1 \in 0..n
      OBVIOUS
    <3> QED
      BY <2>2, <3>1 DEF OpInv
  <2>4. op.type # "Postfix" /\ (op.type = "Prefix" => a \in 2..n)
    BY <2>2
  <2>5. \A b \in 2..n : k < 2 * b - 1 => op.target < b - 1
    BY <1>3, <2>2
  <2> QED
    BY <1>3, <2>2, <2>3, <2>4, <2>5 DEF op
<1>4. CASE k = 2 * a /\ r
  <2>1. op = [type |-> "Postfix", target |-> p, full |-> 0]
    BY <1>4 DEF Slots, PostfixOp
  <2>2. op.type = "Postfix" /\ op.target = p /\ op.full = 0 /\ IsOp(op)
    BY <2>1 DEF IsOp
  <2> HIDE DEF op, p
  <2>3. p \in 1..(a - 1) /\ p \in 1..n /\ p \in 0..n /\ p # 0
    BY <1>2, <1>4
  <2>4. OpInv(op, n)
    BY <2>2, <2>3 DEF OpInv
  <2>5. \A b \in 2..n : k < 2 * b - 1 => op.target < b - 1
    BY <1>4, <2>2, <2>3
  <2> QED
    BY <1>4, <2>2, <2>3, <2>4, <2>5 DEF op, p
<1>5. CASE k = 2 * a /\ ~r
  <2>1. op = NoImpact
    BY <1>5 DEF Slots
  <2>2. OpInv(op, n) /\ op.type = "Null" /\ op.target = 0
    BY <2>1, NoImpactInv DEF NoImpact
  <2> HIDE DEF op
  <2>3. \A b \in 2..n : op.target < b - 1
    BY <2>2
  <2> QED
    BY <2>2, <2>3 DEF op
<1> QED
  BY <1>1, <1>3, <1>4, <1>5

\* Sums over slots grow by the effect of the last one.
LEMMA EffectsGrow ==
    ASSUME NEW n \in Nat, NEW whole, \A k \in 1..(2 * n) : whole[k].full \in Int,
           NEW j, NEW k \in 1..(2 * n)
    PROVE  LET h == Effects(whole, 2 * n, j)
           IN  /\ SumFunctionOnSet(h, 1..k) = SumFunctionOnSet(h, 1..(k - 1)) + Whole(whole[k], j)
               /\ SumFunctionOnSet(h, 1..(k - 1)) \in Int
<1> DEFINE N == 2 * n
           h == Effects(whole, N, j)
           S == 1..k
           T == 1..(k - 1)
<1>1. \A x \in 1..N : h[x] = Whole(whole[x], j) /\ h[x] \in Int
  BY WholeType DEF Effects
<1>2. IsFiniteSet(S) /\ \A x \in S : h[x] \in Int
  <2>1. IsFiniteSet(S)
    BY FS_Interval
  <2>2. S \subseteq 1..N
    OBVIOUS
  <2> QED
    BY <1>1, <2>1, <2>2
<1>3. T \in SUBSET S /\ k \in S \ T /\ S = T \cup {k}
  OBVIOUS
<1> HIDE DEF S, T, h
<1>4. SumFunctionOnSet(h, T) \in Int /\ SumFunctionOnSet(h, T \cup {k}) = SumFunctionOnSet(h, T) + h[k]
  <2>1. \A U \in SUBSET S :
           /\ SumFunctionOnSet(h, U) \in Int
           /\ \A x \in S \ U : SumFunctionOnSet(h, U \cup {x}) = SumFunctionOnSet(h, U) + h[x]
    BY <1>2, SumProperties, ZenonT(60)
  <2> QED
    BY <1>3, <2>1, Zenon
<1>5. h[k] = Whole(whole[k], j)
  BY <1>1
<1> QED
  BY <1>3, <1>4, <1>5 DEF S, T, h

\* What a call begins with.
Starts(ops, c, whole, n, tr, kept) ==
    /\ n \in Nat \ {0} /\ Len(tr) = n
    /\ Slots(whole, tr, n)
    /\ Squeezed(ops, c, whole, n, kept)

LEMMA StartOps ==
    ASSUME NEW ops, NEW c, NEW whole, NEW n, NEW tr, NEW kept, Starts(ops, c, whole, n, tr, kept)
    PROVE  /\ c \in Nat \ {0} /\ n \in Nat
           /\ \A k \in 0..(c - 1) : /\ k + 1 \in 1..c
                                    /\ kept[k + 1] \in 1..(2 * n) /\ kept[k + 1] \in Nat
                                    /\ ops[k] = whole[kept[k + 1]]
                                    /\ OpInv(ops[k], n)
                                    /\ k # 0 => ~IsNull(ops[k])
           /\ Summable(ops, 0, c - 1)
           /\ \A k, l \in 0..(c - 1) : /\ k < l => kept[k + 1] < kept[l + 1]
                                       /\ kept[k + 1] = kept[l + 1] => k = l
<1>1. c \in Nat \ {0} /\ n \in Nat
  BY DEF Starts, Squeezed
<1>2. ASSUME NEW k \in 0..(c - 1)
      PROVE  /\ k + 1 \in 1..c
             /\ kept[k + 1] \in 1..(2 * n) /\ kept[k + 1] \in Nat
             /\ ops[k] = whole[kept[k + 1]]
             /\ OpInv(ops[k], n)
             /\ k # 0 => ~IsNull(ops[k])
  <2>1. k + 1 \in 1..c /\ (k + 1) - 1 = k /\ (k # 0 => k + 1 \in 2..c)
    BY <1>1
  <2>2. kept[k + 1] \in 1..(2 * n) /\ ops[k] = whole[kept[k + 1]]
    BY <2>1 DEF Starts, Squeezed
  <2>3. OpInv(whole[kept[k + 1]], n)
    BY <1>1, <2>2, SlotOp DEF Starts
  <2>4. k # 0 => ~IsNull(whole[kept[k + 1]])
    BY <2>1 DEF Starts, Squeezed
  <2>5. kept[k + 1] \in Nat
    BY <1>1, <2>2
  <2> QED
    BY <2>1, <2>2, <2>3, <2>4, <2>5
<1>3. Summable(ops, 0, c - 1)
  BY <1>1, <1>2 DEF Summable, OpInv
<1>4. ASSUME NEW k \in 0..(c - 1), NEW l \in 0..(c - 1), k < l PROVE kept[k + 1] < kept[l + 1]
  <2>1. k + 1 \in 1..c /\ l + 1 \in 1..c /\ k + 1 < l + 1
    BY <1>1, <1>4
  <2> QED
    BY <2>1 DEF Starts, Squeezed
<1>5. ASSUME NEW k \in 0..(c - 1), NEW l \in 0..(c - 1), kept[k + 1] = kept[l + 1] PROVE k = l
  <2>1. kept[k + 1] \in Nat /\ kept[l + 1] \in Nat
    BY <1>2
  <2>2. ~(k < l)
    BY <1>4, <1>5, <2>1
  <2>3. ~(l < k)
    BY <1>4, <1>5, <2>1
  <2> QED
    BY <1>1, <2>2, <2>3
<1> QED
  BY <1>1, <1>2, <1>3, <1>4, <1>5

\* What the operations before and up to one add.
LEMMA StartAdds ==
    ASSUME NEW ops, NEW c, NEW whole, NEW n, NEW tr, NEW kept, Starts(ops, c, whole, n, tr, kept),
           NEW l \in 0..(c - 1), NEW j \in 1..n
    PROVE  LET h == Effects(whole, 2 * n, j)
           IN  /\ Adds(ops, 0, l - 1, j) = SumFunctionOnSet(h, 1..(kept[l + 1] - 1))
               /\ Adds(ops, 0, l - 1, j) + Whole(ops[l], j) = SumFunctionOnSet(h, 1..kept[l + 1])
<1> DEFINE h == Effects(whole, 2 * n, j)
           k == kept[l + 1]
<1>1. /\ c \in Nat \ {0} /\ n \in Nat /\ l + 1 \in 1..c
      /\ k \in 1..(2 * n) /\ ops[l] = whole[k] /\ OpInv(ops[l], n)
      /\ Summable(ops, 0, c - 1)
  BY StartOps
<1>2. \A x \in 1..(2 * n) : whole[x].full \in Int
  BY DEF Starts, Squeezed
<1>3. Adds(ops, 0, (l + 1) - 1, j) = SumFunctionOnSet(h, 1..k)
  BY <1>1 DEF Starts, Squeezed
<1>4. /\ SumFunctionOnSet(h, 1..k) = SumFunctionOnSet(h, 1..(k - 1)) + Whole(whole[k], j)
      /\ SumFunctionOnSet(h, 1..(k - 1)) \in Int
  BY <1>1, <1>2, EffectsGrow
<1> HIDE DEF h, k
<1>5. Summable(ops, 0, l) /\ Summable(ops, 0, l - 1)
  BY <1>1 DEF Summable
<1>6. /\ Adds(ops, 0, l, j) = Adds(ops, 0, l - 1, j) + Whole(ops[l], j)
      /\ Adds(ops, 0, l - 1, j) \in Int
  <2>1. l \in Int /\ 0 <= l
    BY <1>1
  <2>2. Adds(ops, 0, l, j) = Adds(ops, 0, l - 1, j) + Whole(ops[l], j)
    BY <1>5, <2>1, AddsLast
  <2>3. Adds(ops, 0, l - 1, j) \in Int
    BY <1>5, AddsType
  <2> QED
    BY <2>2, <2>3
<1>7. Whole(ops[l], j) \in Int
  BY <1>1, WholeType DEF OpInv
<1>8. (l + 1) - 1 = l
  OBVIOUS
<1>9. Adds(ops, 0, l, j) = SumFunctionOnSet(h, 1..k)
  BY <1>3, <1>8
<1> DEFINE A == Adds(ops, 0, l - 1, j)
           B == SumFunctionOnSet(h, 1..(k - 1))
           w == Whole(ops[l], j)
<1>10. A + w = B + w /\ A \in Int /\ B \in Int /\ w \in Int
  BY <1>1, <1>4, <1>6, <1>7, <1>9
<1> HIDE DEF A, B, w
<1>11. A = B
  BY <1>10
<1> QED
  BY <1>6, <1>9, <1>11 DEF A, B, w, h, k

\* The kinds of operations that a call begins with.
LEMMA StartKinds ==
    ASSUME NEW ops, NEW c, NEW whole, NEW n, NEW tr, NEW kept, Starts(ops, c, whole, n, tr, kept),
           NEW l \in 0..(c - 1)
    PROVE  /\ ops[l].type = "Prefix" => \E a \in 2..n : kept[l + 1] = 2 * a - 1 /\ ops[l].target = a - 1
           /\ ops[l].type = "Postfix" =>
                 \E a \in 1..n : /\ kept[l + 1] = 2 * a /\ IsRepeat(tr, a)
                                 /\ ops[l].target = PreviousAccess(tr, a)
                                 /\ PreviousAccess(tr, a) \in 1..n
                                 /\ ops[l].full = 0
           /\ \A a \in 2..n : kept[l + 1] < 2 * a - 1 => ops[l].target < a - 1
<1> DEFINE k == kept[l + 1]
           op == whole[k]
<1>1. n \in Nat /\ k \in 1..(2 * n) /\ ops[l] = op
  BY StartOps
<1>2. Slots(whole, tr, n)
  BY DEF Starts
<1> HIDE DEF k
<1>3. /\ op.type = "Prefix" => \E a \in 2..n : k = 2 * a - 1 /\ op.target = a - 1
      /\ op.type = "Postfix" =>
            \E a \in 1..n : /\ k = 2 * a /\ IsRepeat(tr, a)
                            /\ op.target = PreviousAccess(tr, a)
                            /\ PreviousAccess(tr, a) \in 1..n
                            /\ op.full = 0
      /\ \A a \in 2..n : k < 2 * a - 1 => op.target < a - 1
  BY <1>1, <1>2, SlotOp
<1> HIDE DEF op
<1> QED
  BY <1>1, <1>3, Zenon DEF k

\* The effects of the slots of the first m accesses.
LEMMA EffectsUpTo ==
    ASSUME NEW n \in Nat, NEW tr, NEW whole, Slots(whole, tr, n), NEW t \in 1..n, NEW m \in 0..n
    PROVE  SumFunctionOnSet(Effects(whole, 2 * n, t), 1..(2 * m)) = Cardinality(FirstsSince(tr, t, m))
<1> DEFINE h == Effects(whole, 2 * n, t)
<1>1. \A k \in 1..(2 * n) : h[k] = Whole(whole[k], t)
  BY DEF Effects
<1> HIDE DEF h
<1>2. /\ \A k \in 1..(2 * n) : h[k] \in Int
      /\ \A i \in 0..n : SumFunctionOnSet(h, 1..(2 * i)) = Cardinality(FirstsSince(tr, t, i))
  BY <1>1, SlotsUpTo
<1>3. SumFunctionOnSet(h, 1..(2 * m)) = Cardinality(FirstsSince(tr, t, m))
  BY <1>2, Zenon
<1> QED
  BY <1>3 DEF h

\* Before a Prefix come smaller targets, and nothing for the last request.
LEMMA StartPrefixes ==
    ASSUME NEW ops, NEW c, NEW whole, NEW n, NEW tr, NEW kept, Starts(ops, c, whole, n, tr, kept),
           NEW l \in 0..(c - 1), ops[l].type = "Prefix"
    PROVE  /\ \A k \in 0..(l - 1) : ops[k].target < ops[l].target
           /\ Adds(ops, 0, l - 1, n) = 0
<1>1. c \in Nat \ {0} /\ n \in Nat \ {0} /\ Slots(whole, tr, n)
  BY DEF Starts, Squeezed
<1>2. PICK a \in 2..n : kept[l + 1] = 2 * a - 1 /\ ops[l].target = a - 1
  BY StartKinds
<1>3. ASSUME NEW k \in 0..(l - 1) PROVE ops[k].target < ops[l].target
  <2>1. k \in 0..(c - 1) /\ k < l
    BY <1>1
  <2>2. kept[k + 1] < kept[l + 1]
    BY <2>1, StartOps
  <2>3. kept[k + 1] < 2 * a - 1
    BY <1>2, <2>2
  <2> QED
    BY <1>2, <2>1, <2>3, StartKinds
<1>4. Adds(ops, 0, l - 1, n) = 0
  <2> DEFINE h == Effects(whole, 2 * n, n)
             F == FirstsSince(tr, n, a - 1)
  <2>1. n \in 1..n
    BY <1>1
  <2>2. Adds(ops, 0, l - 1, n) = SumFunctionOnSet(h, 1..(kept[l + 1] - 1))
    BY <2>1, StartAdds
  <2>3. kept[l + 1] - 1 = 2 * (a - 1) /\ a - 1 \in 0..n
    BY <1>1, <1>2
  <2>6. F = {}
    <3>1. \A b \in 1..(a - 1) : ~(b > n)
      BY <1>1
    <3> QED
      BY <3>1 DEF FirstsSince, FirstSince
  <2>7. SumFunctionOnSet(h, 1..(2 * (a - 1))) = Cardinality(F)
    <3> DEFINE m == a - 1
    <3>1. m \in 0..n
      BY <2>3
    <3> HIDE DEF m
    <3>2. SumFunctionOnSet(Effects(whole, 2 * n, n), 1..(2 * m)) =
             Cardinality(FirstsSince(tr, n, m))
      BY <1>1, <2>1, <3>1, EffectsUpTo
    <3> QED
      BY <3>2 DEF m, h
  <2> HIDE DEF F
  <2> QED
    BY <2>2, <2>3, <2>6, <2>7, FS_EmptySet
<1> QED
  BY <1>3, <1>4

\* A Postfix freezes the distance of the next access of its target.
LEMMA StartPostfixes ==
    ASSUME NEW ops, NEW c, NEW whole, NEW n, NEW tr, NEW kept, Starts(ops, c, whole, n, tr, kept),
           NEW l \in 0..(c - 1), ops[l].type = "Postfix"
    PROVE  /\ ops[l].target \in DOMAIN Due(tr)
           /\ Adds(ops, 0, l - 1, ops[l].target) + 1 = Due(tr)[ops[l].target]
<1>1. c \in Nat \ {0} /\ n \in Nat \ {0} /\ Slots(whole, tr, n) /\ Len(tr) = n
  BY DEF Starts, Squeezed
<1>2. PICK a \in 1..n : /\ kept[l + 1] = 2 * a /\ IsRepeat(tr, a)
                        /\ ops[l].target = PreviousAccess(tr, a)
                        /\ PreviousAccess(tr, a) \in 1..n
                        /\ ops[l].full = 0
  BY StartKinds
<1> DEFINE t == ops[l].target
           h == Effects(whole, 2 * n, t)
<1>3. a \in Repeats(tr) /\ t \in 1..n /\ t = PreviousAccess(tr, a)
  BY <1>1, <1>2 DEF Repeats
<1>4. t \in DOMAIN Due(tr) /\ Due(tr)[t] = Distance(tr, a)
  BY <1>1, <1>3, DueProperties
<1>5. Adds(ops, 0, l - 1, t) + Whole(ops[l], t) = SumFunctionOnSet(h, 1..(2 * a))
  BY <1>2, <1>3, StartAdds
<1>6. Whole(ops[l], t) = 1
  <2>1. t \in Int
    BY <1>3
  <2> QED
    BY <1>2, <2>1 DEF Whole, Effect, IncAmnt
<1>7. SumFunctionOnSet(h, 1..(2 * a)) = Cardinality(FirstsSince(tr, t, a))
  <2>1. n \in Nat /\ a \in 0..n
    BY <1>1
  <2> HIDE DEF t
  <2> QED
    BY <1>1, <1>3, <2>1, EffectsUpTo
<1>8. FirstsIn(tr, t + 1, a) = FirstsSince(tr, t, a)
  BY <1>1, <1>3, FirstsAreFirstSince
<1>9. Distance(tr, a) = Cardinality(FirstsIn(tr, t + 1, a))
  <2>1. n \in Nat /\ a \in 1..n /\ IsRepeat(tr, a)
    BY <1>1, <1>2
  <2>2. Distance(tr, a) = Cardinality(FirstsIn(tr, PreviousAccess(tr, a) + 1, a))
    BY <2>1, DistanceCountsFirsts
  <2> QED
    BY <1>3, <2>2, Zenon
<1> QED
  BY <1>4, <1>5, <1>6, <1>7, <1>8, <1>9

LEMMA StartTargets ==
    ASSUME NEW ops, NEW c, NEW whole, NEW n, NEW tr, NEW kept, Starts(ops, c, whole, n, tr, kept)
    PROVE  /\ Targets(ops, 0, c - 1, "Prefix") = 1..(n - 1)
           /\ Targets(ops, 0, c - 1, "Postfix") = DOMAIN Due(tr) \cap 1..n
<1>1. c \in Nat \ {0} /\ n \in Nat \ {0} /\ Slots(whole, tr, n) /\ Len(tr) = n
  BY DEF Starts, Squeezed
<1>2. ASSUME NEW k \in 1..(2 * n), ~IsNull(whole[k])
      PROVE  \E l \in 0..(c - 1) : ops[l] = whole[k]
  <2>1. PICK m \in 1..c : kept[m] = k
    BY <1>2 DEF Starts, Squeezed
  <2>2. ops[m - 1] = whole[k] /\ m - 1 \in 0..(c - 1)
    BY <1>1, <2>1 DEF Starts, Squeezed
  <2> QED
    BY <2>2
<1>3. ASSUME NEW x \in Targets(ops, 0, c - 1, "Prefix") PROVE x \in 1..(n - 1)
  <2>1. PICK l \in 0..(c - 1) : ops[l].type = "Prefix" /\ x = ops[l].target
    BY DEF Targets
  <2>2. \E a \in 2..n : kept[l + 1] = 2 * a - 1 /\ ops[l].target = a - 1
    BY <2>1, StartKinds
  <2> QED
    BY <1>1, <2>1, <2>2
<1>4. ASSUME NEW x \in 1..(n - 1) PROVE x \in Targets(ops, 0, c - 1, "Prefix")
  <2> DEFINE a == x + 1
             k == 2 * a - 1
  <2>1. a \in 1..n /\ k \in 1..(2 * n) /\ a - 1 = x /\ x # 0
    BY <1>1
  <2>2. whole[k] = PrefixOp(x, IF IsRepeat(tr, a) THEN -1 ELSE 0)
    BY <1>1, <2>1 DEF Slots
  <2>3. whole[k].type = "Prefix" /\ whole[k].target = x /\ ~IsNull(whole[k])
    BY <2>1, <2>2 DEF PrefixOp, IsNull
  <2>4. PICK l \in 0..(c - 1) : ops[l] = whole[k]
    BY <1>2, <2>1, <2>3
  <2> QED
    BY <2>3, <2>4 DEF Targets
<1>5. ASSUME NEW x \in Targets(ops, 0, c - 1, "Postfix") PROVE x \in DOMAIN Due(tr) \cap 1..n
  <2>1. PICK l \in 0..(c - 1) : ops[l].type = "Postfix" /\ x = ops[l].target
    BY DEF Targets
  <2>2. x \in DOMAIN Due(tr)
    BY <2>1, StartPostfixes
  <2> QED
    BY <1>1, <2>2, DueProperties
<1>6. ASSUME NEW x \in DOMAIN Due(tr) PROVE x \in Targets(ops, 0, c - 1, "Postfix")
  <2>1. PICK a \in Repeats(tr) : x = PreviousAccess(tr, a)
    BY <1>1, DueProperties
  <2>2. a \in 1..n /\ IsRepeat(tr, a) /\ 2 * a \in 1..(2 * n)
    BY <1>1, <2>1 DEF Repeats
  <2>3. whole[2 * a] = PostfixOp(x)
    BY <1>1, <2>1, <2>2 DEF Slots
  <2>4. x \in 1..n
    BY <1>1, DueProperties
  <2>5. whole[2 * a].type = "Postfix" /\ whole[2 * a].target = x /\ ~IsNull(whole[2 * a])
    BY <2>3, <2>4 DEF PostfixOp, IsNull
  <2>6. PICK l \in 0..(c - 1) : ops[l] = whole[2 * a]
    BY <1>2, <2>2, <2>5
  <2> QED
    BY <2>5, <2>6 DEF Targets
<1> QED
  BY <1>3, <1>4, <1>5, <1>6

LEMMA StartProjected ==
    ASSUME NEW ops, NEW c, NEW whole, NEW n, NEW tr, NEW kept, Starts(ops, c, whole, n, tr, kept)
    PROVE  Projected(ops, 0, c - 1, 1, n, n, Due(tr))
<1>1. c \in Nat \ {0} /\ n \in Nat \ {0} /\ Len(tr) = n
  BY DEF Starts, Squeezed
<1>2. \A k \in 0..(c - 1) : OpInv(ops[k], n)
  BY StartOps
<1>3. ASSUME NEW k \in 0..(c - 1), NEW l \in 0..(c - 1),
             ops[k].type = "Postfix", ops[l].type = "Postfix", ops[k].target = ops[l].target
      PROVE  k = l
  <2>1. PICK a \in 1..n : /\ kept[k + 1] = 2 * a /\ IsRepeat(tr, a)
                          /\ ops[k].target = PreviousAccess(tr, a)
    BY <1>3, StartKinds
  <2>2. PICK b \in 1..n : /\ kept[l + 1] = 2 * b /\ IsRepeat(tr, b)
                          /\ ops[l].target = PreviousAccess(tr, b)
    BY <1>3, StartKinds
  <2>3. a \in Repeats(tr) /\ b \in Repeats(tr)
    BY <1>1, <2>1, <2>2 DEF Repeats
  <2>4. PreviousAccess(tr, a) = PreviousAccess(tr, b)
    BY <1>3, <2>1, <2>2
  <2>5. a = b
    BY <1>1, <2>3, <2>4, NextAccessIsOne
  <2> QED
    BY <2>1, <2>2, <2>5, StartOps
<1>4. Coherent(ops, 0, c - 1, n, Due(tr))
  <2>1. \A l \in 0..(c - 1) : ops[l].type = "Prefix" =>
          /\ \A k \in 0..(l - 1) : ops[k].target < ops[l].target
          /\ Adds(ops, 0, l - 1, n) = 0
    BY StartPrefixes
  <2>2. \A k \in 0..(c - 1) : ops[k].type = "Postfix" =>
          Adds(ops, 0, k - 1, ops[k].target) + 1 = Due(tr)[ops[k].target]
    BY StartPostfixes
  <2> QED
    BY <1>2, <1>3, <2>1, <2>2 DEF Coherent
<1>5. \A k \in (0 + 1)..(c - 1) : ~IsNull(ops[k])
  <2>1. \A k \in (0 + 1)..(c - 1) : k \in 0..(c - 1) /\ k # 0
    BY <1>1
  <2> QED
    BY <2>1, StartOps
<1> QED
  BY <1>4, <1>5, StartTargets DEF Projected

=============================================================================
