------------------------------ MODULE DataLemmas ------------------------------
(***************************************************************************)
(* Facts about numbers and finite sets that the proofs about the delay     *)
(* consumer, the schedule and the propagation engine need: least elements, *)
(* and with them induction, the extremes of a finite set, sums over one,   *)
(* and lists of one in order, with what is in their middle.                *)
(*                                                                         *)
(* The library's induction theorems take an operator, which the provers    *)
(* cannot instantiate.  Least is the first-order form of the same          *)
(* principle: a set of counterexamples has a smallest one.                 *)
(***************************************************************************)
EXTENDS Integers, Sequences, FiniteSetsExt, FiniteSetTheorems, SequenceTheorems,
        WellFoundedInduction, TLAPS

-----------------------------------------------------------------------------
(* Least elements.                                                         *)

\* The natural numbers are well-founded, with the relation spelled out.
LEMMA LessWellFounded == IsWellFoundedOn({p \in Nat \X Nat : p[1] < p[2]}, Nat)
<1>1. OpToRel(<, Nat) = {p \in Nat \X Nat : p[1] < p[2]}
  BY Zenon DEF OpToRel
<1>2. QED
  BY NatLessThanWellFounded, <1>1, Zenon

\* A set of naturals that is not empty has a least element.
LEMMA Least ==
  ASSUME NEW S \in SUBSET Nat, S # {}
  PROVE  \E n \in S : \A m \in S : n <= m
<1>1. PICK n \in S : \A m \in S : ~(<<m, n>> \in {p \in Nat \X Nat : p[1] < p[2]})
  BY WFMin, LessWellFounded, Zenon
<1>2. ASSUME NEW m \in S PROVE n <= m
  <2>1. ~(<<m, n>>[1] < <<m, n>>[2])
    BY <1>1
  <2>2. QED
    BY <2>1
<1>3. QED
  BY <1>2

\* Induction: what holds of 0 and passes from each natural to the next is true of
\* all, when it is given as a set.
LEMMA InductionOnSet ==
  ASSUME NEW H \in SUBSET Nat, 0 \in H, \A n \in H : n + 1 \in H
  PROVE  H = Nat
<1>1. SUFFICES ASSUME Nat \ H # {} PROVE FALSE
  OBVIOUS
<1>2. PICK n \in Nat \ H : \A m \in Nat \ H : n <= m
  BY <1>1, Least
<1>3. n # 0 /\ n - 1 \in Nat /\ n - 1 \in H
  BY <1>2
<1>4. QED
  BY <1>3, <1>2

\* A set of at most two elements is finite.
LEMMA PairFinite ==
  ASSUME NEW x, NEW y
  PROVE  IsFiniteSet({x}) /\ IsFiniteSet({x, y})
<1>1. IsFiniteSet({x})
  BY FS_Singleton
<1>2. IsFiniteSet({x} \cup {y})
  BY <1>1, FS_AddElement
<1>3. {x, y} = {x} \cup {y}
  OBVIOUS
<1>4. QED
  BY <1>1, <1>2, <1>3

\* A finite set of integers that is not empty has a greatest and a least element.
LEMMA Extremes ==
  ASSUME NEW S \in SUBSET Int, IsFiniteSet(S), S # {}
  PROVE  /\ \E x \in S : \A y \in S : x >= y
         /\ \E x \in S : \A y \in S : x <= y
<1> DEFINE Has(T) == /\ \E x \in T : \A y \in T : x >= y
                     /\ \E x \in T : \A y \in T : x <= y
           H == {n \in Nat : \A T \in SUBSET S : T # {} /\ Cardinality(T) = n => Has(T)}
<1>1. 0 \in H
  <2>1. ASSUME NEW T \in SUBSET S, Cardinality(T) = 0 PROVE T = {}
    BY <2>1, FS_Subset, FS_EmptySet
  <2>2. QED
    BY <2>1
<1>2. ASSUME NEW n \in H PROVE n + 1 \in H
  <2>1. SUFFICES ASSUME NEW T \in SUBSET S, T # {}, Cardinality(T) = n + 1
                 PROVE  Has(T)
    OBVIOUS
  <2>2. PICK x \in T : TRUE
    BY <2>1
  <2>3. IsFiniteSet(T) /\ Cardinality(T \ {x}) = n
    <3>1. n \in Nat /\ IsFiniteSet(T)
      BY FS_Subset
    <3>2. Cardinality(T \ {x}) = Cardinality(T) - 1
      BY <3>1, FS_RemoveElement
    <3>3. QED
      BY <3>1, <3>2, <2>1
  <2>4. CASE T \ {x} = {}
    BY <2>4
  <2>5. CASE T \ {x} # {}
    <3>1. Has(T \ {x})
      BY <2>5, <2>3
    <3>2. PICK g \in T \ {x} : \A y \in T \ {x} : g >= y
      BY <3>1
    <3>3. PICK l \in T \ {x} : \A y \in T \ {x} : l <= y
      BY <3>1
    <3>4. \E z \in T : \A y \in T : z >= y
      <4>1. CASE g >= x BY <3>2, <4>1
      <4>2. CASE ~(g >= x) BY <3>2, <4>2
      <4>3. QED BY <4>1, <4>2
    <3>5. \E z \in T : \A y \in T : z <= y
      <4>1. CASE l <= x BY <3>3, <4>1
      <4>2. CASE ~(l <= x) BY <3>3, <4>2
      <4>3. QED BY <4>1, <4>2
    <3>6. QED
      BY <3>4, <3>5
  <2>6. QED
    BY <2>4, <2>5
<1> HIDE DEF H
<1>3. H = Nat
  <2>1. H \in SUBSET Nat
    BY DEF H
  <2>2. QED
    BY <1>1, <1>2, <2>1, InductionOnSet
<1>4. Cardinality(S) \in H
  BY <1>3, FS_CardinalityType
<1>5. QED
  BY <1>4 DEF H

\* Max and Min of such a set are what their names say.
LEMMA MaxIs ==
  ASSUME NEW S \in SUBSET Int, IsFiniteSet(S), S # {}
  PROVE  Max(S) \in S /\ \A y \in S : Max(S) >= y
BY Extremes DEF Max

\* The minimum of a finite set of integers is its least element.
LEMMA MinIs ==
  ASSUME NEW S \in SUBSET Int, IsFiniteSet(S), S # {}
  PROVE  Min(S) \in S /\ \A y \in S : Min(S) <= y
BY Extremes DEF Min

-----------------------------------------------------------------------------
(* Sums over a finite set.                                                 *)

\* The set's first element, as the community modules' folds take it.
Pick(T) == CHOOSE x \in T : TRUE

\* What the recursive function behind MapThenSumSet satisfies.
SumsUp(g, f, S) ==
  g = [T \in SUBSET S |-> IF T = {} THEN 0 ELSE f[Pick(T)] + g[T \ {Pick(T)}]]

\* There is such a function: it can be built for ever larger subsets.
LEMMA SumFunctionExists ==
  ASSUME NEW S, IsFiniteSet(S), NEW f
  PROVE  \E g : SumsUp(g, f, S)
<1> DEFINE Next(g) == [T \in SUBSET S |-> IF T = {} THEN 0 ELSE f[Pick(T)] + g[T \ {Pick(T)}]]
           Upto(g, n) == \A T \in SUBSET S : Cardinality(T) <= n => g[T] = Next(g)[T]
           H == {n \in Nat : \E g : g = [T \in SUBSET S |-> g[T]] /\ Upto(g, n)}
<1>1. 0 \in H
  <2> DEFINE g == [T \in SUBSET S |-> 0]
  <2>1. ASSUME NEW T \in SUBSET S, Cardinality(T) <= 0 PROVE T = {}
    BY <2>1, FS_Subset, FS_EmptySet, FS_CardinalityType
  <2>2. g = [T \in SUBSET S |-> g[T]] /\ Upto(g, 0)
    BY <2>1
  <2>3. QED
    BY <2>2
<1>2. ASSUME NEW n \in H PROVE n + 1 \in H
  <2>0. n \in Nat
    OBVIOUS
  <2>1. PICK g : g = [T \in SUBSET S |-> g[T]] /\ Upto(g, n)
    OBVIOUS
  <2>2. ASSUME NEW T \in SUBSET S, Cardinality(T) <= n + 1
        PROVE  Next(g)[T] = Next(Next(g))[T]
    <3>1. CASE T = {}
      BY <3>1
    <3>2. CASE T # {}
      <4>1. Pick(T) \in T
        BY <3>2 DEF Pick
      <4> DEFINE U == T \ {Pick(T)}
      <4>2. U \in SUBSET S /\ Cardinality(U) <= n
        <5>1. IsFiniteSet(T) /\ Cardinality(T) \in Nat
          BY FS_Subset, FS_CardinalityType
        <5>2. Cardinality(U) = Cardinality(T) - 1
          BY <5>1, <4>1, FS_RemoveElement
        <5>3. QED
          BY <5>1, <5>2, <2>2, <2>0
      <4>3. g[U] = Next(g)[U]
        BY <4>2, <2>1
      <4>4. Next(g)[T] = f[Pick(T)] + g[U] /\ Next(Next(g))[T] = f[Pick(T)] + Next(g)[U]
        BY <3>2
      <4>5. QED
        BY <4>3, <4>4
    <3>3. QED
      BY <3>1, <3>2
  <2>3. Upto(Next(g), n + 1) /\ Next(g) = [T \in SUBSET S |-> Next(g)[T]]
    BY <2>2
  <2>4. \E h : h = [T \in SUBSET S |-> h[T]] /\ Upto(h, n + 1)
    <3> HIDE DEF Next, Upto
    <3>1. QED
      BY <2>3
  <2>5. QED
    <3> HIDE DEF Next, Upto
    <3>1. QED
      BY <2>4, <2>0
<1> HIDE DEF H
<1>3. H = Nat
  <2>1. H \in SUBSET Nat
    BY DEF H
  <2>2. QED
    BY <1>1, <1>2, <2>1, InductionOnSet
<1>4. Cardinality(S) \in H
  BY <1>3, FS_CardinalityType
<1>5. PICK g : g = [T \in SUBSET S |-> g[T]] /\ Upto(g, Cardinality(S))
  BY <1>4 DEF H
<1>6. ASSUME NEW T \in SUBSET S PROVE g[T] = Next(g)[T]
  BY <1>5, FS_Subset
<1>7. g = Next(g)
  BY <1>5, <1>6
<1>8. QED
  BY <1>7 DEF SumsUp

\* The sum of integers is one, and lies between so many times their bounds.
LEMMA SumBounds ==
  ASSUME NEW S, IsFiniteSet(S), NEW f, NEW g, SumsUp(g, f, S),
         NEW low \in Int, NEW high \in Int, \A x \in S : f[x] \in low..high
  PROVE  /\ g[S] \in Int
         /\ low * Cardinality(S) <= g[S] /\ g[S] <= high * Cardinality(S)
<1> DEFINE Good(T, n) == g[T] \in Int /\ low * n <= g[T] /\ g[T] <= high * n
           H == {n \in Nat : \A T \in SUBSET S : Cardinality(T) = n => Good(T, n)}
<1>1. 0 \in H
  <2>1. ASSUME NEW T \in SUBSET S, Cardinality(T) = 0 PROVE Good(T, 0)
    <3>1. T = {}
      BY <2>1, FS_Subset, FS_EmptySet
    <3>2. g[T] = 0
      BY <3>1 DEF SumsUp
    <3>3. QED
      BY <3>2
  <2>2. QED
    BY <2>1
<1>2. ASSUME NEW n \in H PROVE n + 1 \in H
  <2>0. n \in Nat
    OBVIOUS
  <2>1. ASSUME NEW T \in SUBSET S, Cardinality(T) = n + 1 PROVE Good(T, n + 1)
    <3>1. T # {} /\ IsFiniteSet(T)
      BY <2>1, <2>0, FS_Subset, FS_EmptySet
    <3>2. Pick(T) \in T
      BY <3>1 DEF Pick
    <3> DEFINE U == T \ {Pick(T)}
    <3>3. Cardinality(U) = n
      <4>1. Cardinality(U) = Cardinality(T) - 1
        BY <3>1, <3>2, FS_RemoveElement
      <4>2. QED
        BY <4>1, <2>1, <2>0
    <3>4. Good(U, n)
      BY <3>3
    <3>5. g[T] = f[Pick(T)] + g[U]
      BY <3>1 DEF SumsUp
    <3>6. f[Pick(T)] \in low..high
      BY <3>2
    <3> HIDE DEF U
    <3>7. low * (n + 1) = low * n + low /\ high * (n + 1) = high * n + high
      BY <2>0
    <3>8. low * n \in Int /\ high * n \in Int
      BY <2>0
    <3>9. QED
      BY <3>4, <3>5, <3>6, <3>7, <3>8
  <2>2. QED
    BY <2>0, <2>1
<1> HIDE DEF H
<1>3. H = Nat
  <2>1. H \in SUBSET Nat
    BY DEF H
  <2>2. QED
    BY <1>1, <1>2, <2>1, InductionOnSet
<1>4. Cardinality(S) \in H
  BY <1>3, FS_CardinalityType
<1>5. QED
  BY <1>4 DEF H

\* The sum of the values of finitely many records.
LEMMA SumOfValues ==
  ASSUME NEW S, IsFiniteSet(S), NEW low \in Int, NEW high \in Int,
         \A o \in S : o.value \in low..high
  PROVE  LET sum == MapThenSumSet(LAMBDA o : o.value, S) IN
         sum \in Int /\ low * Cardinality(S) <= sum /\ sum <= high * Cardinality(S)
<1> DEFINE f == [o \in S |-> o.value]
           Is(g) == g = [T \in SUBSET S |-> IF T = {} THEN 0
                           ELSE (CHOOSE x \in T : TRUE).value + g[T \ {CHOOSE x \in T : TRUE}]]
           sum == MapThenSumSet(LAMBDA o : o.value, S)
<1>1. ASSUME NEW g PROVE Is(g) <=> SumsUp(g, f, S)
  <2>1. \A T \in SUBSET S : T # {} => f[Pick(T)] = (CHOOSE x \in T : TRUE).value
    BY DEF Pick
  <2>2. QED
    BY <2>1 DEF SumsUp, Pick
<1> HIDE DEF f, Is
<1>2. \E g : Is(g)
  BY <1>1, SumFunctionExists
<1>3. sum = (CHOOSE g : Is(g))[S]
  BY DEF MapThenSumSet, MapThenFoldSet, Is
<1>4. PICK g : Is(g) /\ sum = g[S]
  BY <1>2, <1>3
<1>5. SumsUp(g, f, S)
  BY <1>1, <1>4
<1>6. \A o \in S : f[o] \in low..high
  BY DEF f
<1>7. g[S] \in Int /\ low * Cardinality(S) <= g[S] /\ g[S] <= high * Cardinality(S)
  BY <1>5, <1>6, SumBounds
<1>8. QED
  BY <1>4, <1>7

\* Of the members of a set of naturals, at most n have less than n before them.
LEMMA FirstOnes ==
  ASSUME NEW S \in SUBSET Nat, IsFiniteSet(S), NEW n \in Nat
  PROVE  /\ IsFiniteSet({i \in S : Cardinality({j \in S : j < i}) < n})
         /\ Cardinality({i \in S : Cardinality({j \in S : j < i}) < n}) <= n
<1> DEFINE First == {i \in S : Cardinality({j \in S : j < i}) < n}
<1> SUFFICES IsFiniteSet(First) /\ Cardinality(First) <= n
  OBVIOUS
<1>1. IsFiniteSet(First) /\ First \in SUBSET Nat
  BY FS_Subset
<1>2. CASE First = {}
  <2> HIDE DEF First
  <2>1. QED
    BY <1>1, <1>2, FS_EmptySet
<1>3. CASE First # {}
  <2>1. PICK m \in First : \A y \in First : m >= y
    <3> HIDE DEF First
    <3>1. First \in SUBSET Int
      BY <1>1
    <3>2. QED
      BY <1>1, <1>3, <3>1, Extremes
  <2> DEFINE Before == {j \in S : j < m}
  <2>2. IsFiniteSet(Before) /\ Cardinality(Before) < n
    BY <2>1, FS_Subset
  <2>3. First \ {m} \subseteq Before
    <3>1. SUFFICES ASSUME NEW y \in First, y # m PROVE y < m
      OBVIOUS
    <3>2. m >= y /\ m \in Nat /\ y \in Nat
      BY <2>1, <1>1
    <3>3. QED
      BY <3>1, <3>2
  <2> HIDE DEF First, Before
  <2>4. Cardinality(First \ {m}) <= Cardinality(Before)
    BY <2>2, <2>3, FS_Subset
  <2>5. Cardinality(First \ {m}) = Cardinality(First) - 1
    BY <1>1, <2>1, FS_RemoveElement
  <2>6. Cardinality(First) \in Nat /\ Cardinality(Before) \in Nat
    BY <1>1, <2>2, FS_CardinalityType
  <2>7. QED
    BY <1>1, <2>2, <2>4, <2>5, <2>6
<1>4. QED
  BY <1>2, <1>3

-----------------------------------------------------------------------------
(* Folds over a finite set.                                                *)

\* What the recursive function behind a fold satisfies, when c chooses the element
\* of a subset that is taken last and op, a function, combines.
Folds(g, op, base, c, S) ==
  g = [T \in SUBSET S |-> IF T = {} THEN base ELSE op[c[T]][g[T \ {c[T]}]]]

\* The fold itself, with values among those of op.
FoldOf(op, base, c, S, B) == CHOOSE g \in [SUBSET S -> B] : Folds(g, op, base, c, S)

\* There is such a function.
LEMMA FoldExists ==
  ASSUME NEW S, IsFiniteSet(S), NEW B, NEW base \in B, NEW op \in [S -> [B -> B]],
         NEW c, \A T \in SUBSET S : T # {} => c[T] \in T
  PROVE  /\ FoldOf(op, base, c, S, B) \in [SUBSET S -> B]
         /\ Folds(FoldOf(op, base, c, S, B), op, base, c, S)
<1> DEFINE Next(g) == [T \in SUBSET S |-> IF T = {} THEN base ELSE op[c[T]][g[T \ {c[T]}]]]
           Upto(g, n) == \A T \in SUBSET S : Cardinality(T) <= n => g[T] = Next(g)[T]
           H == {n \in Nat : \E g \in [SUBSET S -> B] : Upto(g, n)}
<1>0. ASSUME NEW g \in [SUBSET S -> B] PROVE Next(g) \in [SUBSET S -> B]
  <2>1. ASSUME NEW T \in SUBSET S, T # {} PROVE op[c[T]][g[T \ {c[T]}]] \in B
    <3>1. c[T] \in S /\ g[T \ {c[T]}] \in B
      BY <2>1
    <3>2. QED
      BY <3>1
  <2>2. QED
    BY <2>1
<1>1. 0 \in H
  <2> DEFINE g == [T \in SUBSET S |-> base]
  <2>1. ASSUME NEW T \in SUBSET S, Cardinality(T) <= 0 PROVE T = {}
    BY <2>1, FS_Subset, FS_EmptySet, FS_CardinalityType
  <2>2. g \in [SUBSET S -> B] /\ Upto(g, 0)
    BY <2>1
  <2> HIDE DEF g, Upto
  <2>3. QED
    BY <2>2
<1>2. ASSUME NEW n \in H PROVE n + 1 \in H
  <2>0. n \in Nat
    OBVIOUS
  <2>1. PICK g \in [SUBSET S -> B] : Upto(g, n)
    OBVIOUS
  <2>2. ASSUME NEW T \in SUBSET S, Cardinality(T) <= n + 1
        PROVE  Next(g)[T] = Next(Next(g))[T]
    <3>1. CASE T = {}
      BY <3>1
    <3>2. CASE T # {}
      <4>1. c[T] \in T
        BY <3>2
      <4> DEFINE U == T \ {c[T]}
      <4>2. U \in SUBSET S /\ Cardinality(U) <= n
        <5>1. IsFiniteSet(T) /\ Cardinality(T) \in Nat
          BY FS_Subset, FS_CardinalityType
        <5>2. Cardinality(U) = Cardinality(T) - 1
          BY <5>1, <4>1, FS_RemoveElement
        <5>3. QED
          BY <5>1, <5>2, <2>2, <2>0
      <4>3. g[U] = Next(g)[U]
        BY <4>2, <2>1
      <4>4. Next(g)[T] = op[c[T]][g[U]] /\ Next(Next(g))[T] = op[c[T]][Next(g)[U]]
        BY <3>2
      <4>5. QED
        BY <4>3, <4>4
    <3>3. QED
      BY <3>1, <3>2
  <2>3. Upto(Next(g), n + 1) /\ Next(g) \in [SUBSET S -> B]
    BY <2>2, <1>0
  <2>4. QED
    <3> HIDE DEF Next, Upto
    <3>1. QED
      BY <2>3, <2>0
<1> HIDE DEF H
<1>3. H = Nat
  <2>1. H \in SUBSET Nat
    BY DEF H
  <2>2. QED
    BY <1>1, <1>2, <2>1, InductionOnSet
<1>4. Cardinality(S) \in H
  BY <1>3, FS_CardinalityType
<1>5. PICK g \in [SUBSET S -> B] : Upto(g, Cardinality(S))
  BY <1>4 DEF H
<1>6. ASSUME NEW T \in SUBSET S PROVE g[T] = Next(g)[T]
  BY <1>5, FS_Subset
<1>7. g = Next(g)
  BY <1>6
<1>8. Folds(g, op, base, c, S)
  BY <1>7 DEF Folds
<1>9. QED
  BY <1>8 DEF FoldOf

-----------------------------------------------------------------------------
(* Sequences whose elements are of no particular set.                      *)

\* What appending does to a function on 1..n.
LEMMA AppendAny ==
  ASSUME NEW n \in Nat, NEW s, s = [i \in 1..n |-> s[i]], NEW e
  PROVE  /\ Len(s) = n /\ DOMAIN s = 1..n
         /\ Append(s, e) = [i \in 1..(n + 1) |-> IF i = n + 1 THEN e ELSE s[i]]
         /\ Len(Append(s, e)) = n + 1 /\ DOMAIN Append(s, e) = 1..(n + 1)
<1> DEFINE S == {s[i] : i \in 1..n} \cup {e}
<1>1. s \in Seq(S)
  <2>1. s \in [1..n -> S]
    OBVIOUS
  <2>2. QED
    BY <2>1
<1>2. e \in S
  OBVIOUS
<1> HIDE DEF S
<1>3. Len(s) = n /\ DOMAIN s = 1..n
  BY <1>1
<1>4. Append(s, e) = [i \in 1..(n + 1) |-> IF i = n + 1 THEN e ELSE s[i]]
  BY <1>1, <1>2, <1>3
<1>5. QED
  BY <1>1, <1>2, <1>3, <1>4

-----------------------------------------------------------------------------
(* The values of a function on a finite set.                               *)

\* The values of a function on a finite set are finitely many.
LEMMA ValuesFinite ==
  ASSUME NEW S, IsFiniteSet(S), NEW f
  PROVE  /\ IsFiniteSet({f[x] : x \in S})
         /\ Cardinality({f[x] : x \in S}) <= Cardinality(S)
<1> DEFINE g == [x \in S |-> f[x]]
           T == {f[x] : x \in S}
<1>1. g \in Surjection(S, T)
  BY DEF Surjection
<1> HIDE DEF g
<1>2. QED
  BY <1>1, FS_Surjection

-----------------------------------------------------------------------------
(* Lists of a finite set, in order.                                        *)

\* An enumeration without repetition of a finite set meets all of it.
LEMMA EnumerationFull ==
  ASSUME NEW S, IsFiniteSet(S), NEW f \in [1..Cardinality(S) -> S],
         \A i, j \in 1..Cardinality(S) : i # j => f[i] # f[j]
  PROVE  \A r \in S : \E k \in 1..Cardinality(S) : f[k] = r
<1> DEFINE D == 1..Cardinality(S)
           T == {f[k] : k \in D}
<1>1. Cardinality(S) \in Nat /\ IsFiniteSet(D) /\ Cardinality(D) = Cardinality(S)
  <2>1. Cardinality(S) \in Nat
    BY FS_CardinalityType
  <2>2. 1 \in Int /\ Cardinality(S) \in Int
    BY <2>1
  <2>3. QED
    BY <2>1, <2>2, FS_Interval
<1>2. f \in Bijection(D, T)
  <2>1. f \in [D -> T]
    OBVIOUS
  <2>2. \A i, j \in D : f[i] = f[j] => i = j
    OBVIOUS
  <2>3. \A t \in T : \E k \in D : f[k] = t
    OBVIOUS
  <2> HIDE DEF D, T
  <2>4. QED
    BY <2>1, <2>2, <2>3 DEF Bijection, Injection, Surjection, IsInjective
<1>3. Cardinality(T) = Cardinality(S)
  <2>1. ExistsBijection(D, T)
    BY <1>2 DEF ExistsBijection
  <2> HIDE DEF D, T
  <2>2. QED
    BY <1>1, <2>1, FS_Bijection
<1>4. T \in SUBSET S
  OBVIOUS
<1> HIDE DEF T
<1>5. T = S
  BY <1>3, <1>4, FS_Subset
<1>6. QED
  BY <1>5 DEF T

\* What is ordered from each element to the next is ordered throughout.
LEMMA OrderedThroughout ==
  ASSUME NEW n \in Nat, NEW v, \A i \in 1..n : v[i] \in Int,
         \A i \in 2..n : v[i - 1] <= v[i]
  PROVE  \A j, k \in 1..n : j <= k => v[j] <= v[k]
<1> DEFINE H == {d \in Nat : \A j \in 1..n : j + d \in 1..n => v[j] <= v[j + d]}
<1>1. 0 \in H
  OBVIOUS
<1>2. ASSUME NEW d \in H PROVE d + 1 \in H
  <2>1. ASSUME NEW j \in 1..n, j + (d + 1) \in 1..n PROVE v[j] <= v[j + (d + 1)]
    <3>1. d \in Nat /\ j + d \in 1..n /\ j + (d + 1) \in 2..n /\ (j + (d + 1)) - 1 = j + d
      BY <2>1
    <3>2. v[j] <= v[j + d]
      BY <3>1
    <3>3. v[j + d] <= v[j + (d + 1)]
      BY <3>1
    <3>4. v[j] \in Int /\ v[j + d] \in Int /\ v[j + (d + 1)] \in Int
      BY <2>1, <3>1
    <3>5. QED
      BY <3>2, <3>3, <3>4
  <2>2. QED
    BY <2>1
<1> HIDE DEF H
<1>3. H = Nat
  <2>1. H \in SUBSET Nat
    BY DEF H
  <2>2. QED
    BY <1>1, <1>2, <2>1, InductionOnSet
<1>4. ASSUME NEW j \in 1..n, NEW k \in 1..n, j <= k PROVE v[j] <= v[k]
  <2>1. k - j \in Nat /\ j + (k - j) = k
    BY <1>4
  <2>2. k - j \in H
    BY <2>1, <1>3
  <2>3. QED
    BY <2>1, <2>2 DEF H
<1>5. QED
  BY <1>4

\* A finite set has a list in the order of its keys.
LEMMA SortedExists ==
  ASSUME NEW S, IsFiniteSet(S), NEW key, \A x \in S : key[x] \in Int
  PROVE  \E s \in [1..Cardinality(S) -> S] :
           /\ \A i, j \in 1..Cardinality(S) : i # j => s[i] # s[j]
           /\ \A i \in 2..Cardinality(S) : key[s[i - 1]] <= key[s[i]]
<1> DEFINE Sorted(T, n) ==
             \E s \in [1..n -> T] : /\ \A i, j \in 1..n : i # j => s[i] # s[j]
                                    /\ \A i \in 2..n : key[s[i - 1]] <= key[s[i]]
           H == {n \in Nat : \A T \in SUBSET S : Cardinality(T) = n => Sorted(T, n)}
<1>1. 0 \in H
  <2>1. ASSUME NEW T \in SUBSET S PROVE Sorted(T, 0)
    <3>1. 1..0 = {} /\ 2..0 = {}
      OBVIOUS
    <3>2. PICK s : s = [i \in {} |-> i]
      OBVIOUS
    <3>3. s \in [{} -> T]
      BY <3>2
    <3>4. QED
      BY <3>1, <3>3
  <2>2. QED
    BY <2>1
<1>2. ASSUME NEW n \in H PROVE n + 1 \in H
  <2>1. SUFFICES ASSUME NEW T \in SUBSET S, Cardinality(T) = n + 1
                 PROVE  Sorted(T, n + 1)
    OBVIOUS
  <2>2. n \in Nat /\ IsFiniteSet(T) /\ T # {}
    <3>1. n \in Nat /\ IsFiniteSet(T)
      BY FS_Subset
    <3>2. QED
      BY <3>1, <2>1, FS_EmptySet
  <2>3. PICK x \in T : \A y \in T : key[y] <= key[x]
    <3> DEFINE K == {key[y] : y \in T}
    <3>1. IsFiniteSet(K)
      BY <2>2, ValuesFinite
    <3>2. K \in SUBSET Int /\ K # {}
      BY <2>2
    <3>3. PICK top \in K : \A m \in K : top >= m
      BY <3>1, <3>2, Extremes
    <3>4. PICK x \in T : key[x] = top
      BY <3>3
    <3>5. ASSUME NEW y \in T PROVE key[y] <= key[x]
      <4>1. key[y] \in Int /\ key[x] \in Int /\ key[x] >= key[y]
        BY <3>3, <3>4
      <4>2. QED
        BY <4>1
    <3>6. QED
      BY <3>5
  <2>4. Cardinality(T \ {x}) = n
    <3>1. Cardinality(T \ {x}) = Cardinality(T) - 1
      BY <2>2, FS_RemoveElement
    <3>2. QED
      BY <3>1, <2>1, <2>2
  <2>5. PICK s \in [1..n -> T \ {x}] :
           /\ \A i, j \in 1..n : i # j => s[i] # s[j]
           /\ \A i \in 2..n : key[s[i - 1]] <= key[s[i]]
    BY <2>4, T \ {x} \in SUBSET S
  <2> DEFINE u == [i \in 1..(n + 1) |-> IF i = n + 1 THEN x ELSE s[i]]
  <2>6. \A i \in 1..n : u[i] = s[i] /\ u[i] \in T \ {x}
    BY <2>2
  <2>7. u[n + 1] = x
    BY <2>2
  <2>8. u \in [1..(n + 1) -> T]
    BY <2>2, <2>6, <2>7
  <2> HIDE DEF u
  <2>9. ASSUME NEW i \in 1..(n + 1), NEW j \in 1..(n + 1), i # j PROVE u[i] # u[j]
    <3>1. CASE i = n + 1
      BY <2>2, <2>6, <2>7, <2>9, <3>1
    <3>2. CASE j = n + 1
      BY <2>2, <2>6, <2>7, <2>9, <3>2
    <3>3. CASE i # n + 1 /\ j # n + 1
      <4>1. i \in 1..n /\ j \in 1..n
        BY <2>2, <3>3
      <4>2. QED
        BY <4>1, <2>5, <2>6, <2>9
    <3>4. QED
      BY <3>1, <3>2, <3>3
  <2>10. ASSUME NEW i \in 2..(n + 1) PROVE key[u[i - 1]] <= key[u[i]]
    <3>1. i - 1 \in 1..n /\ i - 1 \in 1..(n + 1) /\ i \in 1..(n + 1)
      BY <2>2
    <3>2. CASE i = n + 1
      BY <2>3, <2>7, <2>8, <3>1, <3>2
    <3>3. CASE i # n + 1
      <4>1. i \in 2..n /\ i \in 1..n
        BY <2>2, <3>3
      <4>2. QED
        BY <4>1, <3>1, <2>5, <2>6
    <3>4. QED
      BY <3>2, <3>3
  <2>11. QED
    BY <2>8, <2>9, <2>10
<1> HIDE DEF H
<1>3. H = Nat
  <2>1. H \in SUBSET Nat
    BY DEF H
  <2>2. QED
    BY <1>1, <1>2, <2>1, InductionOnSet
<1>4. PICK n \in Nat : n = Cardinality(S)
  BY FS_CardinalityType
<1>5. Sorted(S, n)
  BY <1>3, <1>4 DEF H
<1>6. QED
  BY <1>4, <1>5

\* The values of a function from one number to another.
Values(F, a, b) == {F[i] : i \in a..b}

\* When they are distinct, they are counted by the numbers.
LEMMA ValuesCounted ==
  ASSUME NEW F, NEW a \in Int, NEW b \in Int, a <= b + 1,
         \A i, j \in a..b : i # j => F[i] # F[j]
  PROVE  IsFiniteSet(Values(F, a, b)) /\ Cardinality(Values(F, a, b)) = (b - a) + 1
<1> DEFINE D == a..b
           T == Values(F, a, b)
           G == [i \in D |-> F[i]]
<1>1. IsFiniteSet(D) /\ Cardinality(D) = (b - a) + 1
  <2>1. IsFiniteSet(D) /\ Cardinality(D) = IF a > b THEN 0 ELSE b - a + 1
    BY FS_Interval, Zenon
  <2> HIDE DEF D
  <2>2. QED
    BY <2>1
<1>2. G \in Bijection(D, T)
  <2>1. G \in [D -> T]
    BY DEF Values
  <2>2. \A i, j \in D : G[i] = G[j] => i = j
    OBVIOUS
  <2>3. \A t \in T : \E i \in D : G[i] = t
    BY DEF Values
  <2> HIDE DEF D, T, G
  <2>4. QED
    BY <2>1, <2>2, <2>3 DEF Bijection, Injection, Surjection, IsInjective
<1>3. ExistsBijection(D, T)
  BY <1>2 DEF ExistsBijection
<1> HIDE DEF D
<1>4. QED
  BY <1>1, <1>3, FS_Bijection

\* The least value that half of them, or more, do not exceed, and the greatest that
\* half of them do not fall below.
LowMiddle(B, gap, half) ==
  Min({gap[t] : t \in {u \in B : Cardinality({t \in B : gap[t] <= gap[u]}) >= half}})

HighMiddle(B, gap, half) ==
  Max({gap[t] : t \in {u \in B : Cardinality({t \in B : gap[t] >= gap[u]}) >= half}})

\* A list of a set's elements in the order of their gaps.
ListedBy(n, F, B, gap) ==
  /\ \A t \in B : gap[t] \in Int
  /\ F \in [1..n -> B] /\ \A i, j \in 1..n : i # j => F[i] # F[j]
  /\ \A t \in B : \E i \in 1..n : F[i] = t
  /\ \A i, j \in 1..n : i <= j => gap[F[i]] <= gap[F[j]]

\* They are the two middle ones of such a list.
LEMMA MiddleOnes ==
  ASSUME NEW n \in Nat \ {0}, NEW F, NEW B, NEW gap, ListedBy(n, F, B, gap),
         NEW half \in Int, half = (n + 1) \div 2
  PROVE  /\ IsFiniteSet(B) /\ Cardinality(B) = n
         /\ half \in 1..n /\ n + 1 - half \in 1..n
         /\ LowMiddle(B, gap, half) = gap[F[half]]
         /\ HighMiddle(B, gap, half) = gap[F[n + 1 - half]]
<1> USE DEF ListedBy
<1> DEFINE Below(m) == {t \in B : gap[t] <= m}
           Above(m) == {t \in B : gap[t] >= m}
           Lows  == {u \in B : Cardinality(Below(gap[u])) >= half}
           Highs == {u \in B : Cardinality(Above(gap[u])) >= half}
<1>1. half \in 1..n
  OBVIOUS
<1>2. PICK last \in 1..n : last = n + 1 - half
  BY <1>1
<1>3. IsFiniteSet(B) /\ Cardinality(B) = n
  <2>1. B = Values(F, 1, n)
    BY DEF Values
  <2>2. IsFiniteSet(Values(F, 1, n)) /\ Cardinality(Values(F, 1, n)) = (n - 1) + 1
    BY ValuesCounted
  <2>3. QED
    BY <2>1, <2>2
<1>4. \A m : IsFiniteSet(Below(m)) /\ IsFiniteSet(Above(m))
  BY <1>3, FS_Subset
<1>5. F[half] \in Lows
  <2> DEFINE T == Values(F, 1, half)
  <2>1. IsFiniteSet(T) /\ Cardinality(T) = half
    <3>1. Cardinality(T) = (half - 1) + 1 /\ IsFiniteSet(T)
      BY <1>1, ValuesCounted
    <3>2. QED
      BY <3>1, <1>1
  <2>2. T \subseteq Below(gap[F[half]])
    BY <1>1 DEF Values
  <2>3. Cardinality(T) <= Cardinality(Below(gap[F[half]]))
    <3> HIDE DEF T, Below
    <3>1. QED
      BY <1>4, <2>2, FS_Subset
  <2>4. Cardinality(Below(gap[F[half]])) \in Nat
    <3> HIDE DEF Below
    <3>1. QED
      BY <1>4, FS_CardinalityType
  <2>5. F[half] \in B
    BY <1>1
  <2>6. Cardinality(Below(gap[F[half]])) >= half
    <3> HIDE DEF T, Below
    <3>1. QED
      BY <1>1, <2>1, <2>3, <2>4
  <2>7. QED
    BY <2>5, <2>6
<1>6. ASSUME NEW u \in Lows PROVE gap[F[half]] <= gap[u]
  <2>1. u \in B /\ gap[u] \in Int /\ gap[F[half]] \in Int
    BY <1>1
  <2>2. SUFFICES ASSUME gap[u] < gap[F[half]] PROVE FALSE
    BY <2>1
  <2> DEFINE T == Values(F, 1, half - 1)
  <2>3. IsFiniteSet(T) /\ Cardinality(T) = half - 1
    <3>1. half - 1 \in Int /\ 1 <= (half - 1) + 1 /\ half - 1 <= n
      BY <1>1
    <3>2. Cardinality(T) = ((half - 1) - 1) + 1 /\ IsFiniteSet(T)
      BY <3>1, ValuesCounted
    <3>3. QED
      BY <3>2, <1>1
  <2>4. Below(gap[u]) \subseteq T
    <3>1. SUFFICES ASSUME NEW t \in B, gap[t] <= gap[u] PROVE t \in T
      OBVIOUS
    <3>2. PICK i \in 1..n : F[i] = t
      OBVIOUS
    <3>3. ~(half <= i)
      BY <1>1, <2>1, <2>2, <3>1, <3>2
    <3>4. i \in 1..(half - 1)
      BY <1>1, <3>3
    <3>5. QED
      BY <3>2, <3>4 DEF Values
  <2>5. Cardinality(Below(gap[u])) <= half - 1 /\ Cardinality(Below(gap[u])) \in Nat
    <3> HIDE DEF T, Below
    <3>1. QED
      BY <1>4, <2>3, <2>4, FS_Subset, FS_CardinalityType
  <2>6. Cardinality(Below(gap[u])) >= half
    OBVIOUS
  <2> HIDE DEF Below
  <2>7. QED
    BY <1>1, <2>5, <2>6
<1>7. F[last] \in Highs
  <2> DEFINE T == Values(F, last, n)
  <2>1. IsFiniteSet(T) /\ Cardinality(T) = half
    <3>1. Cardinality(T) = (n - last) + 1 /\ IsFiniteSet(T)
      BY <1>2, ValuesCounted
    <3>2. QED
      BY <3>1, <1>1, <1>2
  <2>2. T \subseteq Above(gap[F[last]])
    <3>1. ASSUME NEW i \in last..n PROVE F[i] \in B /\ gap[F[i]] >= gap[F[last]]
      <4>1. i \in 1..n /\ last <= i
        BY <1>2
      <4>2. gap[F[last]] <= gap[F[i]] /\ F[i] \in B /\ F[last] \in B
        BY <1>2, <4>1
      <4>3. QED
        BY <4>2
    <3>2. QED
      BY <3>1 DEF Values
  <2>3. Cardinality(T) <= Cardinality(Above(gap[F[last]]))
    <3> HIDE DEF T, Above
    <3>1. QED
      BY <1>4, <2>2, FS_Subset
  <2>4. Cardinality(Above(gap[F[last]])) \in Nat
    <3> HIDE DEF Above
    <3>1. QED
      BY <1>4, FS_CardinalityType
  <2>5. F[last] \in B
    BY <1>2
  <2>6. Cardinality(Above(gap[F[last]])) >= half
    <3> HIDE DEF T, Above
    <3>1. QED
      BY <1>1, <2>1, <2>3, <2>4
  <2>7. QED
    BY <2>5, <2>6
<1>8. ASSUME NEW u \in Highs PROVE gap[F[last]] >= gap[u]
  <2>1. u \in B /\ gap[u] \in Int /\ gap[F[last]] \in Int
    BY <1>2
  <2>2. SUFFICES ASSUME gap[u] > gap[F[last]] PROVE FALSE
    BY <2>1
  <2> DEFINE T == Values(F, last + 1, n)
  <2>3. IsFiniteSet(T) /\ Cardinality(T) = half - 1
    <3>1. last + 1 \in Int /\ 1 <= last + 1 /\ last + 1 <= n + 1
      BY <1>2
    <3>2. Cardinality(T) = (n - (last + 1)) + 1 /\ IsFiniteSet(T)
      BY <3>1, ValuesCounted
    <3>3. QED
      BY <3>2, <1>1, <1>2
  <2>4. Above(gap[u]) \subseteq T
    <3>1. SUFFICES ASSUME NEW t \in B, gap[t] >= gap[u] PROVE t \in T
      OBVIOUS
    <3>2. PICK i \in 1..n : F[i] = t
      OBVIOUS
    <3>3. ~(i <= last)
      BY <1>2, <2>1, <2>2, <3>1, <3>2
    <3>4. i \in (last + 1)..n
      BY <1>2, <3>3
    <3>5. QED
      BY <3>2, <3>4 DEF Values
  <2>5. Cardinality(Above(gap[u])) <= half - 1 /\ Cardinality(Above(gap[u])) \in Nat
    <3> HIDE DEF T, Above
    <3>1. QED
      BY <1>4, <2>3, <2>4, FS_Subset, FS_CardinalityType
  <2>6. Cardinality(Above(gap[u])) >= half
    OBVIOUS
  <2> HIDE DEF Above
  <2>7. QED
    BY <1>1, <2>5, <2>6
<1> HIDE DEF Lows, Highs
<1>9. Min({gap[t] : t \in Lows}) = gap[F[half]]
  <2> DEFINE L == {gap[t] : t \in Lows}
  <2>1. IsFiniteSet(L)
    <3>1. IsFiniteSet(Lows)
      BY <1>3, FS_Subset DEF Lows
    <3>2. QED
      BY <3>1, ValuesFinite
  <2>2. L \in SUBSET Int /\ gap[F[half]] \in L
    BY <1>5 DEF Lows
  <2>3. \A m \in L : gap[F[half]] <= m
    BY <1>6
  <2> HIDE DEF L
  <2>4. Min(L) \in L /\ Min(L) <= gap[F[half]]
    BY <2>1, <2>2, MinIs
  <2>5. gap[F[half]] <= Min(L) /\ Min(L) \in Int /\ gap[F[half]] \in Int
    BY <2>2, <2>3, <2>4
  <2>6. QED
    BY <2>4, <2>5 DEF L
<1>10. Max({gap[t] : t \in Highs}) = gap[F[last]]
  <2> DEFINE L == {gap[t] : t \in Highs}
  <2>1. IsFiniteSet(L)
    <3>1. IsFiniteSet(Highs)
      BY <1>3, FS_Subset DEF Highs
    <3>2. QED
      BY <3>1, ValuesFinite
  <2>2. L \in SUBSET Int /\ gap[F[last]] \in L
    BY <1>7 DEF Highs
  <2>3. \A m \in L : gap[F[last]] >= m
    BY <1>8
  <2> HIDE DEF L
  <2>4. Max(L) \in L /\ Max(L) >= gap[F[last]]
    BY <2>1, <2>2, MaxIs
  <2>5. gap[F[last]] >= Max(L) /\ Max(L) \in Int /\ gap[F[last]] \in Int
    BY <2>2, <2>3, <2>4
  <2>6. QED
    BY <2>4, <2>5 DEF L
<1>11. QED
  BY <1>1, <1>2, <1>3, <1>9, <1>10 DEF Lows, Highs, LowMiddle, HighMiddle
=============================================================================
