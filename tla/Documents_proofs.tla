-------------------------- MODULE Documents_proofs --------------------------
(***************************************************************************)
(* Theorems about Documents: what the gateway's parsers and the ledger's   *)
(* fold make of a document, the two indexes of a table and the exporters   *)
(* of an archive, for documents of any length and every value of the       *)
(* constants.                                                              *)
(*                                                                         *)
(* A pass over the lines is a fold.  Of each there is a lemma ("Run") that *)
(* it goes through a sequence of states, one for every line, and of these  *)
(* an invariant ("After") that says what the state after k lines has to do *)
(* with the document; what is meant by the whole document follows from the *)
(* invariant after the last line.  An export is a fold over the            *)
(* directories, deepest first, and has such an invariant too.              *)
(***************************************************************************)
EXTENDS Documents, FiniteSetTheorems, SequenceTheorems, TLAPS

------------------------------------------------------------------------------
(***************************************************************************)
(* Numbers, and folds over sequences.                                      *)
(***************************************************************************)

\* A set of numbers that is not empty has a least one.
LEMMA LeastNumber == ASSUME NEW S \in SUBSET Nat, S # {} PROVE \E n \in S : \A m \in S : n <= m
<1> DEFINE R == OpToRel(<, Nat)
<1>1. IsWellFoundedOn(R, Nat)
  BY NatLessThanWellFounded
<1>2. \A x, y \in Nat : x < y => <<x, y>> \in R
  BY DEF OpToRel
<1> HIDE DEF R
<1>3. PICK n \in S : \A m \in S : ~(<<m, n>> \in R)
  <2>1. \E n \in S : \A m \in S : ~(<<m, n>> \in R)
    BY <1>1, WFMin
  <2> QED BY <2>1
<1>4. ASSUME NEW m \in S PROVE n <= m
  <2>1. m \in Nat /\ n \in Nat
    OBVIOUS
  <2>2. ~(m < n)
    BY <1>2, <1>3, <2>1, Zenon
  <2> QED
    BY <2>1, <2>2
<1> QED BY <1>4

\* Induction, stated of a set of numbers.
LEMMA NumberInduction ==
    ASSUME NEW S, 0 \in S, \A n \in Nat : n \in S => n + 1 \in S
    PROVE  Nat \subseteq S
<1> SUFFICES ASSUME Nat \ S # {} PROVE FALSE
  OBVIOUS
<1>1. PICK n \in Nat \ S : \A m \in Nat \ S : n <= m
  BY LeastNumber
<1>2. n # 0 /\ n - 1 \in Nat
  BY <1>1
<1>3. n - 1 \in S
  BY <1>1, <1>2
<1>4. (n - 1) + 1 \in S
  BY <1>2, <1>3
<1> QED
  BY <1>1, <1>4

\* Induction up to a bound.
LEMMA UpTo ==
    ASSUME NEW n \in Nat, NEW S, 0 \in S, \A k \in 1..n : k - 1 \in S => k \in S
    PROVE  0..n \subseteq S
<1> DEFINE T == {k \in Nat : k <= n => k \in S}
<1>1. 0 \in T
  OBVIOUS
<1>2. ASSUME NEW k \in Nat, k \in T PROVE k + 1 \in T
  <2> SUFFICES ASSUME k + 1 <= n PROVE k + 1 \in S
    OBVIOUS
  <2>1. k \in S /\ k + 1 \in 1..n /\ (k + 1) - 1 = k
    BY <1>2
  <2> QED
    BY <2>1
<1> HIDE DEF T
<1>3. Nat \subseteq T
  BY <1>1, <1>2, NumberInduction
<1> QED
  BY <1>3 DEF T

\* The greatest of a set of numbers up to n.
LEMMA MaxIs ==
    ASSUME NEW n \in Nat, NEW T \in SUBSET (1..n), NEW m \in T, \A i \in T : i <= m
    PROVE  Max(T) = m
<1>1. \A x \in T : (\A y \in T : x >= y) => x = m
  OBVIOUS
<1>2. \A y \in T : m >= y
  OBVIOUS
<1> QED
  BY <1>1, <1>2 DEF Max

\* What MapThenFoldSet, which FoldLeft stands for, defines by recursion.
Folds(it, St, F, base, s) ==
    /\ it \in [SUBSET (1..Len(s)) -> St]
    /\ \A T \in SUBSET (1..Len(s)) :
          it[T] = IF T = {} THEN base ELSE F[<<it[T \ {Max(T)}], s[Max(T)]>>]

\* There is such a function.
LEMMA FoldExists ==
    ASSUME NEW St, NEW A, NEW F \in [St \X A -> St], NEW base \in St,
           NEW s \in Seq(A)
    PROVE  \E it : Folds(it, St, F, base, s)
<1> DEFINE n == Len(s)
           Ranked(k, it) ==
               \A T \in SUBSET (1..k) :
                   it[T] = IF T = {} THEN base ELSE F[<<it[T \ {Max(T)}], s[Max(T)]>>]
           I == {k \in 0..n : \E it \in [SUBSET (1..k) -> St] : Ranked(k, it)}
<1>0. n \in Nat /\ \A i \in 1..n : s[i] \in A
  OBVIOUS
<1>1. 0 \in I
  <2> DEFINE it == [T \in SUBSET (1..0) |-> base]
  <2>1. it \in [SUBSET (1..0) -> St]
    OBVIOUS
  <2>2. Ranked(0, it)
    <3> SUFFICES ASSUME NEW T \in SUBSET (1..0) PROVE T = {} /\ it[T] = base
      OBVIOUS
    <3> QED
      OBVIOUS
  <2>3. 0 \in 0..n
    BY <1>0
  <2> QED
    BY <2>1, <2>2, <2>3
<1>2. ASSUME NEW k \in 1..n, k - 1 \in I PROVE k \in I
  <2>1. PICK f \in [SUBSET (1..k - 1) -> St] : Ranked(k - 1, f)
    BY <1>2
  <2> DEFINE g == [T \in SUBSET (1..k) |->
                      IF k \in T THEN F[<<f[T \ {k}], s[k]>>] ELSE f[T]]
  <2>2. ASSUME NEW T \in SUBSET (1..k) PROVE T \ {k} \in SUBSET (1..k - 1)
    OBVIOUS
  <2>3. g \in [SUBSET (1..k) -> St]
    <3> SUFFICES ASSUME NEW T \in SUBSET (1..k)
                 PROVE  (IF k \in T THEN F[<<f[T \ {k}], s[k]>>] ELSE f[T]) \in St
      OBVIOUS
    <3>1. CASE k \in T
      <4>1. f[T \ {k}] \in St /\ s[k] \in A
        BY <1>0, <2>1, <2>2
      <4> QED
        BY <3>1, <4>1
    <3>2. CASE k \notin T
      <4>1. T \in SUBSET (1..k - 1)
        BY <2>2, <3>2
      <4> QED
        BY <2>1, <3>2, <4>1
    <3> QED
      BY <3>1, <3>2
  <2>4. ASSUME NEW T \in SUBSET (1..k)
        PROVE  g[T] = IF T = {} THEN base ELSE F[<<g[T \ {Max(T)}], s[Max(T)]>>]
    <3>1. CASE k \in T
      <4>1. Max(T) = k
        <5>1. k \in Nat /\ \A i \in T : i <= k
          OBVIOUS
        <5> QED
          BY <3>1, <5>1, MaxIs
      <4>2. T \ {k} \in SUBSET (1..k) /\ k \notin T \ {k}
        OBVIOUS
      <4>3. g[T \ {k}] = f[T \ {k}]
        BY <4>2
      <4>4. g[T] = F[<<f[T \ {k}], s[k]>>]
        BY <3>1
      <4> QED
        BY <3>1, <4>1, <4>3, <4>4
    <3>2. CASE k \notin T /\ T # {}
      <4>1. T \in SUBSET (1..k - 1) /\ k - 1 \in Nat
        BY <2>2, <3>2
      <4>2. f[T] = F[<<f[T \ {Max(T)}], s[Max(T)]>>]
        BY <2>1, <3>2, <4>1
      <4>3. g[T] = f[T] /\ g[T \ {Max(T)}] = f[T \ {Max(T)}]
        BY <3>2
      <4> QED
        BY <3>2, <4>2, <4>3
    <3>3. CASE T = {}
      <4>1. g[T] = f[T] /\ f[T] = base
        BY <2>1, <3>3
      <4> QED
        BY <3>3, <4>1
    <3> QED
      BY <3>1, <3>2, <3>3
  <2> HIDE DEF g
  <2>5. Ranked(k, g)
    BY <2>4
  <2>6. k \in 0..n
    BY <1>0
  <2> QED
    BY <2>3, <2>5, <2>6
<1> HIDE DEF I
<1>3. 0..n \subseteq I
  BY <1>0, <1>1, <1>2, UpTo
<1>4. n \in I
  BY <1>0, <1>3
<1> QED
  BY <1>4 DEF I, Folds

\* A set of numbers up to n that is not empty has a greatest one ...
LEMMA GreatestIn ==
    ASSUME NEW n \in Nat, NEW T \in SUBSET (1..n), T # {}
    PROVE  \E m \in T : \A i \in T : i <= m
<1> DEFINE U == {u \in 0..n : \A i \in T : i <= u}
<1>1. U \in SUBSET Nat /\ n \in U
  OBVIOUS
<1>2. PICK m \in U : \A u \in U : m <= u
  BY <1>1, LeastNumber
<1>3. m \in T
  <2> SUFFICES ASSUME m \notin T PROVE FALSE
    OBVIOUS
  <2>1. m # 0
    <3>1. PICK i \in T : TRUE
      OBVIOUS
    <3>2. i \in 1..n /\ i <= m
      BY <3>1
    <3> QED
      BY <3>2
  <2>2. m - 1 \in U
    BY <1>2, <2>1
  <2> QED
    BY <1>2, <2>2
<1> QED
  BY <1>2, <1>3

\* ... which is what Max finds.
LEMMA MaxIn ==
    ASSUME NEW n \in Nat, NEW T \in SUBSET (1..n), T # {}
    PROVE  Max(T) \in T /\ T \ {Max(T)} \in SUBSET (1..n)
<1>1. PICK m \in T : \A i \in T : i <= m
  BY GreatestIn
<1>2. Max(T) = m
  BY <1>1, MaxIs
<1> QED
  BY <1>1, <1>2

\* The prefixes of a sequence by their last elements.
LEMMA Prefix ==
    ASSUME NEW n \in Nat, NEW k \in 1..n
    PROVE  /\ 1..k \in SUBSET (1..n) /\ 1..k # {}
           /\ Max(1..k) = k
           /\ (1..k) \ {k} = 1..k - 1
<1> DEFINE T == 1..k
<1>1. k \in Nat /\ T \in SUBSET (1..n) /\ k \in T /\ \A i \in T : i <= k
  OBVIOUS
<1>2. (1..k) \ {k} = 1..k - 1
  OBVIOUS
<1> HIDE DEF T
<1>3. Max(T) = k
  BY <1>1, MaxIs
<1> QED
  BY <1>1, <1>2, <1>3 DEF T

\* What holds at first and is kept by every step of a sequence of states holds
\* of them all.
LEMMA Along ==
    ASSUME NEW n \in Nat, NEW h, NEW St, h[0] \in St,
           \A k \in 1..n : h[k - 1] \in St => h[k] \in St
    PROVE  \A k \in 0..n : h[k] \in St
<1> DEFINE I == {k \in 0..n : h[k] \in St}
<1>1. 0 \in I
  OBVIOUS
<1>2. ASSUME NEW k \in 1..n, k - 1 \in I PROVE k \in I
  BY <1>2
<1> HIDE DEF I
<1>3. 0..n \subseteq I
  BY <1>1, <1>2, UpTo
<1> QED
  BY <1>3 DEF I

\* What the definition of a fold says of it, where it stays among the states St.
Unfolds(fold, St, F, base, s) ==
    /\ fold[{}] = base
    /\ \A T \in SUBSET (1..Len(s)) :
          T # {} /\ fold[T \ {Max(T)}] \in St =>
              fold[T] = F[<<fold[T \ {Max(T)}], s[Max(T)]>>]

\* The states h[0], h[1] ... that a fold goes through, and at whose end it is.
RunsThrough(h, fold, St, F, base, s) ==
    /\ h \in [0..Len(s) -> St]
    /\ h[0] = base
    /\ \A k \in 1..Len(s) : h[k - 1] \in St /\ h[k] = F[<<h[k - 1], s[k]>>]
    /\ fold[1..Len(s)] = h[Len(s)]

\* A fold goes through a sequence of states.
LEMMA FoldRuns ==
    ASSUME NEW St, NEW A, NEW F \in [St \X A -> St], NEW base \in St, NEW s \in Seq(A),
           NEW fold, Unfolds(fold, St, F, base, s)
    PROVE  \E h : RunsThrough(h, fold, St, F, base, s)
<1> DEFINE n == Len(s)
           h == [k \in 0..n |-> fold[1..k]]
<1>0. n \in Nat /\ \A k \in 1..n : s[k] \in A
  OBVIOUS
<1>1. h[0] = base
  <2>1. 1..0 = {} /\ 0 \in 0..n
    BY <1>0
  <2> QED
    BY <2>1 DEF Unfolds
<1>2. ASSUME NEW k \in 1..n, h[k - 1] \in St PROVE h[k] = F[<<h[k - 1], s[k]>>]
  <2>1. 1..k \in SUBSET (1..n) /\ 1..k # {} /\ Max(1..k) = k /\ (1..k) \ {k} = 1..k - 1
    BY <1>0, Prefix
  <2>2. h[k] = fold[1..k] /\ h[k - 1] = fold[1..k - 1]
    BY <1>0
  <2> DEFINE T == 1..k
  <2>3. T \in SUBSET (1..n) /\ T # {} /\ Max(T) = k /\ T \ {k} = 1..k - 1
    BY <2>1
  <2>4. fold[T \ {Max(T)}] \in St
    BY <1>2, <2>2, <2>3
  <2> HIDE DEF T
  <2>5. fold[T] = F[<<fold[T \ {Max(T)}], s[Max(T)]>>]
    BY <2>3, <2>4 DEF Unfolds
  <2> QED
    BY <2>2, <2>3, <2>5 DEF T
<1>3. \A k \in 1..n : h[k - 1] \in St => h[k] \in St
  BY <1>0, <1>2
<1>4. \A k \in 0..n : h[k] \in St
  <2> HIDE DEF h
  <2> QED
    BY <1>0, <1>1, <1>3, Along
<1>5. h \in [0..n -> St] /\ fold[1..n] = h[n]
  BY <1>0, <1>4
<1> HIDE DEF h
<1>6. \A k \in 1..n : h[k - 1] \in St /\ h[k] = F[<<h[k - 1], s[k]>>]
  <2>1. \A k \in 1..n : k - 1 \in 0..n
    BY <1>0
  <2> QED
    BY <1>2, <1>4, <2>1
<1> QED
  BY <1>1, <1>5, <1>6 DEF RunsThrough

\* A set of line numbers, up to one more line.
LEMMA UpToNext ==
    ASSUME NEW n \in Nat, NEW S \in SUBSET (1..n), NEW k \in 1..n
    PROVE  /\ S \cap (1..k - 1) \in SUBSET (1..k - 1)
           /\ S \cap (1..k) = IF k \in S THEN (S \cap (1..k - 1)) \cup {k} ELSE S \cap (1..k - 1)
<1>1. 1..k = (1..k - 1) \cup {k}
  OBVIOUS
<1> QED
  BY <1>1

------------------------------------------------------------------------------
(***************************************************************************)
(* Ascending, and what is listed in that order.                            *)
(***************************************************************************)

\* How many of S are before i.
RankIn(S, i) == Cardinality({j \in S : j < i})

\* Sets of line numbers are finite.
LEMMA FiniteUpTo ==
    ASSUME NEW n \in Nat, NEW S \in SUBSET (1..n)
    PROVE  IsFiniteSet(S) /\ Cardinality(S) \in Nat
<1>1. IsFiniteSet(1..n)
  BY FS_Interval
<1>2. IsFiniteSet(S)
  BY <1>1, FS_Subset
<1> QED
  BY <1>2, FS_CardinalityType

\* Distinct elements have distinct numbers of elements before them.
LEMMA RankGrows ==
    ASSUME NEW n \in Nat, NEW S \in SUBSET (1..n), NEW i \in S, NEW j \in S, i < j
    PROVE  RankIn(S, i) < RankIn(S, j)
<1> DEFINE A == {x \in S : x < i}
           B == {x \in S : x < j}
<1>1. A \in SUBSET (1..n) /\ B \in SUBSET (1..n)
  OBVIOUS
<1>2. IsFiniteSet(A) /\ IsFiniteSet(B) /\ Cardinality(A) \in Nat /\ Cardinality(B) \in Nat
  BY <1>1, FiniteUpTo
<1>3. A \subseteq B /\ i \in B /\ i \notin A
  <2>1. ASSUME NEW x \in A PROVE x \in B
    <3>1. x \in 1..n /\ i \in 1..n /\ j \in 1..n /\ x < i
      OBVIOUS
    <3>2. x < j
      BY <3>1
    <3> QED
      BY <3>2
  <2>2. i \in 1..n /\ ~(i < i)
    OBVIOUS
  <2> QED
    BY <2>1, <2>2
<1> HIDE DEF A, B
<1>4. Cardinality(A) <= Cardinality(B) /\ (Cardinality(A) = Cardinality(B) => A = B)
  BY <1>2, <1>3, FS_Subset
<1>5. Cardinality(A) < Cardinality(B)
  BY <1>2, <1>3, <1>4
<1> QED
  BY <1>5 DEF RankIn, A, B

\* Its number of elements before it tells an element from the others.
LEMMA NthIs ==
    ASSUME NEW n \in Nat, NEW S \in SUBSET (1..n), NEW i \in S
    PROVE  (CHOOSE x \in S : Cardinality({j \in S : j < x}) = RankIn(S, i)) = i
<1> DEFINE x == CHOOSE x \in S : Cardinality({j \in S : j < x}) = RankIn(S, i)
<1>1. x \in S /\ RankIn(S, x) = RankIn(S, i)
  BY DEF RankIn
<1> HIDE DEF x
<1>2. x \in 1..n /\ i \in 1..n
  BY <1>1
<1>3. ~(x < i)
  <2> SUFFICES ASSUME x < i PROVE FALSE
    OBVIOUS
  <2>1. RankIn(S, x) < RankIn(S, i)
    BY <1>1, RankGrows
  <2>2. RankIn(S, i) \in Nat
    BY FiniteUpTo DEF RankIn
  <2> QED
    BY <1>1, <2>1, <2>2
<1>4. ~(i < x)
  <2> SUFFICES ASSUME i < x PROVE FALSE
    OBVIOUS
  <2>1. RankIn(S, i) < RankIn(S, x)
    BY <1>1, RankGrows
  <2>2. RankIn(S, i) \in Nat
    BY FiniteUpTo DEF RankIn
  <2> QED
    BY <1>1, <2>1, <2>2
<1>5. x = i
  BY <1>2, <1>3, <1>4
<1> QED
  BY <1>5 DEF x

\* Nothing is listed of no numbers.
LEMMA AscendingEmpty == Ascending({}) = << >>
<1>1. Cardinality({}) = 0
  BY FS_EmptySet
<1> QED
  BY <1>1 DEF Ascending

\* The k-th number of Ascending(S) is in S and has k - 1 others before it.
Ranked(S) ==
    /\ \A k \in 1..Cardinality(S) : Ascending(S)[k] \in S /\ RankIn(S, Ascending(S)[k]) = k - 1

\* Ascending(S) then lists as many numbers as S has, all of S.
LEMMA RankedType ==
    ASSUME NEW n \in Nat, NEW S \in SUBSET (1..n), Ranked(S)
    PROVE  /\ Ascending(S) \in [1..Cardinality(S) -> S]
           /\ Ascending(S) \in Seq(1..n) /\ Len(Ascending(S)) = Cardinality(S)
<1>1. Cardinality(S) \in Nat
  BY FiniteUpTo
<1>2. ASSUME NEW p \in 1..Cardinality(S)
      PROVE  (CHOOSE i \in S : Cardinality({j \in S : j < i}) = p - 1) \in S
  BY <1>2 DEF Ranked, Ascending
<1>3. Ascending(S) \in [1..Cardinality(S) -> S]
  BY <1>2 DEF Ascending
<1>4. Ascending(S) \in [1..Cardinality(S) -> 1..n]
  BY <1>3
<1> QED
  BY <1>1, <1>3, <1>4

\* One more number, greater than the others, is last.
LEMMA RankedStep ==
    ASSUME NEW n \in Nat, NEW k \in 1..n, NEW S \in SUBSET (1..k - 1), Ranked(S)
    PROVE  /\ Ranked(S \cup {k})
           /\ Ascending(S \cup {k}) = Append(Ascending(S), k)
<1> DEFINE T == S \cup {k}
<1>1. /\ k - 1 \in Nat /\ S \in SUBSET (1..n) /\ T \in SUBSET (1..n) /\ k \notin S /\ k \in T
      /\ S \in SUBSET T
  OBVIOUS
<1>2. /\ IsFiniteSet(S) /\ Cardinality(S) \in Nat
      /\ IsFiniteSet(T) /\ Cardinality(T) \in Nat
  BY <1>1, FiniteUpTo
<1>3. Cardinality(T) = Cardinality(S) + 1
  BY <1>1, <1>2, FS_AddElement
<1>4. ASSUME NEW i \in S PROVE RankIn(T, i) = RankIn(S, i)
  <2>1. {j \in T : j < i} = {j \in S : j < i}
    BY <1>4
  <2> QED
    BY <2>1 DEF RankIn
<1>5. RankIn(T, k) = Cardinality(S)
  <2>1. {j \in T : j < k} = S
    <3>1. ASSUME NEW j \in S PROVE j < k
      <4>1. j \in 1..k - 1 /\ k \in Nat
        OBVIOUS
      <4> QED
        BY <4>1
    <3>2. ~(k < k)
      OBVIOUS
    <3> QED
      BY <3>1, <3>2
  <2> QED
    BY <2>1 DEF RankIn
<1> HIDE DEF T
<1>6. ASSUME NEW p \in 1..Cardinality(S) PROVE Ascending(T)[p] = Ascending(S)[p]
  <2> DEFINE i == Ascending(S)[p]
  <2>1. i \in S /\ RankIn(S, i) = p - 1
    BY DEF Ranked
  <2> HIDE DEF i
  <2>2. i \in T /\ RankIn(T, i) = p - 1 /\ p \in 1..Cardinality(T)
    BY <1>1, <1>2, <1>3, <1>4, <2>1
  <2>3. Ascending(T)[p] = CHOOSE x \in T : Cardinality({j \in T : j < x}) = p - 1
    BY <2>2 DEF Ascending
  <2>4. (CHOOSE x \in T : Cardinality({j \in T : j < x}) = RankIn(T, i)) = i
    BY <1>1, <2>2, NthIs
  <2>5. Ascending(T)[p] = i
    BY <2>2, <2>3, <2>4
  <2> QED
    BY <2>5 DEF i
<1>7. Ascending(T)[Cardinality(S) + 1] = k
  <2>1. Cardinality(S) + 1 \in 1..Cardinality(T) /\ (Cardinality(S) + 1) - 1 = Cardinality(S)
    BY <1>2, <1>3
  <2>2. Ascending(T)[Cardinality(S) + 1]
           = CHOOSE x \in T : Cardinality({j \in T : j < x}) = (Cardinality(S) + 1) - 1
    BY <2>1 DEF Ascending
  <2>3. (CHOOSE x \in T : Cardinality({j \in T : j < x}) = RankIn(T, k)) = k
    BY <1>1, NthIs
  <2> QED
    BY <1>5, <2>1, <2>2, <2>3
<1>8. Ranked(T)
  <2> SUFFICES ASSUME NEW p \in 1..Cardinality(T)
               PROVE  Ascending(T)[p] \in T /\ RankIn(T, Ascending(T)[p]) = p - 1
    BY DEF Ranked
  <2>1. CASE p = Cardinality(S) + 1
    BY <1>1, <1>2, <1>5, <1>7, <2>1
  <2>2. CASE p # Cardinality(S) + 1
    <3>1. p \in 1..Cardinality(S)
      BY <1>2, <1>3, <2>2
    <3>2. Ascending(S)[p] \in S /\ RankIn(S, Ascending(S)[p]) = p - 1
      BY <3>1 DEF Ranked
    <3> QED
      BY <1>1, <1>4, <1>6, <3>1, <3>2
  <2> QED
    BY <2>1, <2>2
<1>9. Ascending(T) = Append(Ascending(S), k)
  <2>1. Ascending(S) \in Seq(1..n) /\ Len(Ascending(S)) = Cardinality(S)
    BY <1>1, RankedType
  <2>2. Ascending(T) \in Seq(1..n) /\ Len(Ascending(T)) = Cardinality(T)
    BY <1>1, <1>8, RankedType
  <2>3. \A p \in 1..Cardinality(S) + 1 : Ascending(T)[p] = Append(Ascending(S), k)[p]
    BY <1>1, <1>2, <1>6, <1>7, <2>1
  <2> QED
    BY <1>1, <1>2, <1>3, <2>1, <2>2, <2>3
<1> QED
  BY <1>8, <1>9 DEF T

\* Ascending puts every set of line numbers in order.
LEMMA AllRanked ==
    ASSUME NEW n \in Nat, NEW S \in SUBSET (1..n)
    PROVE  Ranked(S)
<1> DEFINE I == {k \in 0..n : \A T \in SUBSET (1..k) : Ranked(T)}
<1>1. 0 \in I
  <2>1. Cardinality({}) = 0
    BY FS_EmptySet
  <2>2. Ranked({})
    BY <2>1 DEF Ranked
  <2>3. \A T \in SUBSET (1..0) : Ranked(T)
    <3>1. \A T \in SUBSET (1..0) : T = {}
      OBVIOUS
    <3> QED
      BY <2>2, <3>1
  <2>4. 0 \in 0..n
    OBVIOUS
  <2> QED
    BY <2>3, <2>4
<1>2. ASSUME NEW k \in 1..n, k - 1 \in I PROVE k \in I
  <2> SUFFICES ASSUME NEW T \in SUBSET (1..k) PROVE Ranked(T)
    OBVIOUS
  <2>1. T \ {k} \in SUBSET (1..k - 1)
    OBVIOUS
  <2>2. Ranked(T \ {k})
    BY <1>2, <2>1
  <2>3. CASE k \in T
    <3>1. Ranked((T \ {k}) \cup {k})
      BY <2>1, <2>2, RankedStep
    <3>2. (T \ {k}) \cup {k} = T
      BY <2>3
    <3> QED
      BY <3>1, <3>2
  <2>4. CASE k \notin T
    BY <2>2, <2>4
  <2> QED
    BY <2>3, <2>4
<1> HIDE DEF I
<1>3. n \in I
  <2>1. 0..n \subseteq I
    BY <1>1, <1>2, UpTo
  <2> QED
    BY <2>1
<1> QED
  BY <1>3 DEF I

\* A number greater than all others is listed last.
LEMMA AscendingAppend ==
    ASSUME NEW n \in Nat, NEW k \in 1..n, NEW S \in SUBSET (1..k - 1)
    PROVE  Ascending(S \cup {k}) = Append(Ascending(S), k)
<1>1. k - 1 \in Nat
  OBVIOUS
<1>2. Ranked(S)
  BY <1>1, AllRanked
<1> QED
  BY <1>2, RankedStep

\* G of the numbers in S, in their order.
Listed(G, S) == [k \in DOMAIN Ascending(S) |-> G[Ascending(S)[k]]]

\* What is listed is a sequence as long as the set is large.
LEMMA ListedType ==
    ASSUME NEW n \in Nat, NEW S \in SUBSET (1..n), NEW A, NEW G \in [1..n -> A]
    PROVE  Listed(G, S) \in Seq(A) /\ Len(Listed(G, S)) = Len(Ascending(S))
<1> DEFINE s == Ascending(S)
<1>1. s \in Seq(1..n)
  BY AllRanked, RankedType
<1> HIDE DEF s
<1>2. [k \in DOMAIN s |-> G[s[k]]] \in Seq(A) /\ Len([k \in DOMAIN s |-> G[s[k]]]) = Len(s)
  <2>1. DOMAIN s = 1..Len(s) /\ Len(s) \in Nat /\ \A k \in 1..Len(s) : s[k] \in 1..n
    BY <1>1
  <2>2. [k \in 1..Len(s) |-> G[s[k]]] \in [1..Len(s) -> A]
    BY <2>1
  <2> QED
    BY <2>1, <2>2
<1> QED
  BY <1>2 DEF s, Listed

\* The type of Ascending, for any set of line numbers.
LEMMA AscendingType ==
    ASSUME NEW n \in Nat, NEW S \in SUBSET (1..n)
    PROVE  /\ Ascending(S) \in [1..Cardinality(S) -> S]
           /\ Ascending(S) \in Seq(1..n) /\ Len(Ascending(S)) = Cardinality(S)
           /\ DOMAIN Ascending(S) = 1..Cardinality(S)
  BY AllRanked, RankedType

\* Ascending lists every number of S, and each before those that are greater.
LEMMA AscendingMembers ==
    ASSUME NEW n \in Nat, NEW S \in SUBSET (1..n)
    PROVE  /\ \A i \in S : \E k \in 1..Cardinality(S) : Ascending(S)[k] = i
           /\ \A j, k \in 1..Cardinality(S) : j < k => Ascending(S)[j] < Ascending(S)[k]
<1> DEFINE m == Cardinality(S)
           a == Ascending(S)
           R(i) == RankIn(S, i)
<1>1. m \in Nat /\ IsFiniteSet(S)
  BY FiniteUpTo
<1>2. a \in [1..m -> S] /\ \A k \in 1..m : R(a[k]) = k - 1
  BY AllRanked, AscendingType DEF Ranked
<1>3. \A i \in S : i \in Nat
  OBVIOUS
<1> HIDE DEF m, a, R
<1>4. ASSUME NEW j \in 1..m, NEW k \in 1..m, j < k PROVE a[j] < a[k]
  <2>1. a[j] \in S /\ a[k] \in S /\ a[j] \in Nat /\ a[k] \in Nat /\ R(a[j]) = j - 1 /\ R(a[k]) = k - 1
    BY <1>2, <1>3
  <2>2. a[j] # a[k]
    BY <1>1, <1>4, <2>1
  <2>3. ~(a[k] < a[j])
    <3>1. SUFFICES ASSUME a[k] < a[j] PROVE FALSE
      OBVIOUS
    <3>2. R(a[k]) < R(a[j])
      BY <2>1, <3>1, RankGrows DEF R
    <3> QED
      BY <1>1, <1>4, <2>1, <3>2
  <2> QED
    BY <2>1, <2>2, <2>3
<1>5. a \in Surjection(1..m, S)
  <2>1. \A j, k \in 1..m : a[j] = a[k] => j = k
    <3>1. ASSUME NEW j \in 1..m, NEW k \in 1..m, a[j] = a[k] PROVE j = k
      <4>1. a[j] \in Nat
        BY <1>2, <1>3
      <4>2. ~(j < k) /\ ~(k < j)
        BY <1>4, <3>1, <4>1
      <4> QED
        BY <1>1, <4>2
    <3> QED
      BY <3>1
  <2>2. a \in Injection(1..m, S)
    BY <1>2, <2>1 DEF Injection, IsInjective
  <2>3. Cardinality(1..m) = m
    BY <1>1, FS_Interval
  <2> QED
    BY <1>1, <2>2, <2>3, FS_Injection DEF m
<1>6. \A i \in S : \E k \in 1..m : a[k] = i
  BY <1>5 DEF Surjection
<1> QED
  BY <1>4, <1>6 DEF m, a

\* Nothing else is listed.
LEMMA AscendingSet ==
    ASSUME NEW n \in Nat, NEW S \in SUBSET (1..n)
    PROVE  ToSet(Ascending(S)) = S
<1>1. Ascending(S) \in [1..Cardinality(S) -> S] /\ DOMAIN Ascending(S) = 1..Cardinality(S)
  BY AscendingType
<1>2. \A i \in S : \E k \in 1..Cardinality(S) : Ascending(S)[k] = i
  BY AscendingMembers
<1> QED
  BY <1>1, <1>2 DEF ToSet

\* The numbers up to m.
LEMMA AscendingUpTo == ASSUME NEW m \in Nat PROVE Ascending(1..m) = [k \in 1..m |-> k]
<1>1. Cardinality(1..m) = m
  BY FS_Interval
<1>2. ASSUME NEW i \in 1..m PROVE Cardinality({j \in 1..m : j < i}) = i - 1
  <2>1. {j \in 1..m : j < i} = 1..i - 1
    OBVIOUS
  <2>2. Cardinality(1..i - 1) = i - 1
    BY FS_Interval
  <2> QED
    BY <2>1, <2>2
<1>3. ASSUME NEW k \in 1..m
      PROVE  (CHOOSE i \in 1..m : Cardinality({j \in 1..m : j < i}) = k - 1) = k
  <2>1. \A i \in 1..m : Cardinality({j \in 1..m : j < i}) = k - 1 <=> i = k
    BY <1>2
  <2> QED
    BY <2>1
<1> QED
  BY <1>1, <1>3 DEF Ascending

\* All members of a sequence are the sequence.
LEMMA AtAll == ASSUME NEW A, NEW s \in Seq(A) PROVE At(s, DOMAIN s) = s
<1>1. DOMAIN s = 1..Len(s) /\ Len(s) \in Nat
  OBVIOUS
<1>2. Ascending(DOMAIN s) = [k \in 1..Len(s) |-> k]
  BY <1>1, AscendingUpTo
<1>3. At(s, DOMAIN s) = [k \in 1..Len(s) |-> s[k]]
  BY <1>2 DEF At
<1> QED
  BY <1>1, <1>3

\* What is listed is what the function gives of the numbers.
Lists(s, G, S) ==
    /\ DOMAIN s = 1..Cardinality(S) /\ Cardinality(S) \in Nat
    /\ \A k \in 1..Cardinality(S) : Ascending(S)[k] \in S /\ s[k] = G[Ascending(S)[k]]
    /\ \A i \in S : \E k \in 1..Cardinality(S) : Ascending(S)[k] = i /\ s[k] = G[i]

\* ... for every set of line numbers.
LEMMA ListedMembers ==
    ASSUME NEW n \in Nat, NEW S \in SUBSET (1..n), NEW G
    PROVE  Lists(Listed(G, S), G, S)
<1>1. DOMAIN Ascending(S) = 1..Cardinality(S) /\ Ascending(S) \in [1..Cardinality(S) -> S]
  BY AscendingType
<1>2. Cardinality(S) \in Nat
  BY FiniteUpTo
<1>3. \A k \in 1..Cardinality(S) : Ascending(S)[k] \in S /\ Listed(G, S)[k] = G[Ascending(S)[k]]
  BY <1>1 DEF Listed
<1>4. \A i \in S : \E k \in 1..Cardinality(S) : Ascending(S)[k] = i /\ Listed(G, S)[k] = G[i]
  <2>1. ASSUME NEW i \in S
        PROVE  \E k \in 1..Cardinality(S) : Ascending(S)[k] = i /\ Listed(G, S)[k] = G[i]
    <3>1. PICK k \in 1..Cardinality(S) : Ascending(S)[k] = i
      BY AscendingMembers
    <3> QED
      BY <1>3, <3>1
  <2> QED
    BY <2>1
<1>5. DOMAIN Listed(G, S) = 1..Cardinality(S)
  BY <1>1 DEF Listed
<1> QED
  BY <1>2, <1>3, <1>4, <1>5 DEF Lists

\* Nothing is listed of no numbers.
LEMMA ListedEmpty == ASSUME NEW G PROVE Listed(G, {}) = << >>
  BY AscendingEmpty DEF Listed

\* Nothing is listed only of no numbers.
LEMMA ListedIsEmpty ==
    ASSUME NEW n \in Nat, NEW S \in SUBSET (1..n), NEW A, NEW G \in [1..n -> A]
    PROVE  (Listed(G, S) = << >>) <=> (S = {})
<1>1. Len(Listed(G, S)) = Cardinality(S)
  BY ListedType, AscendingType
<1>2. Cardinality(S) = 0 <=> S = {}
  BY FiniteUpTo, FS_EmptySet
<1>3. Listed(G, S) \in Seq(A)
  BY ListedType
<1> QED
  BY <1>1, <1>2, <1>3

\* What stands at a number greater than all others is listed last.
LEMMA ListedAppend ==
    ASSUME NEW G, NEW k \in Nat \ {0}, NEW S \in SUBSET (1..k - 1)
    PROVE  Listed(G, S \cup {k}) = Append(Listed(G, S), G[k])
<1> DEFINE s == Ascending(S)
           t == Ascending(S \cup {k})
           A == {G[i] : i \in 1..k}
           F == [i \in 1..k |-> G[i]]
<1>1. k \in Nat /\ k \in 1..k /\ S \in SUBSET (1..k)
  OBVIOUS
<1>2. s \in Seq(1..k)
  BY <1>1, AscendingType
<1>3. t = Append(s, k)
  BY <1>1, AscendingAppend
<1>4. Listed(G, S) \in Seq(A) /\ Len(Listed(G, S)) = Len(s)
  <2>1. F \in [1..k -> A]
    OBVIOUS
  <2>2. Listed(F, S) \in Seq(A) /\ Len(Listed(F, S)) = Len(Ascending(S))
    <3> HIDE DEF A, F
    <3> QED
      BY <1>1, <2>1, ListedType
  <2>3. \A i \in DOMAIN s : F[s[i]] = G[s[i]]
    BY <1>2
  <2>4. Listed(F, S) = Listed(G, S)
    BY <2>3 DEF Listed
  <2> QED
    BY <2>2, <2>4
<1>5. Listed(G, S) = [i \in DOMAIN s |-> G[s[i]]] /\ Listed(G, S \cup {k}) = [i \in DOMAIN t |-> G[t[i]]]
  BY DEF Listed
<1>6. G[k] \in A
  BY <1>1
<1> HIDE DEF s, t, A
<1>7. DOMAIN t = 1..Len(s) + 1 /\ \A i \in 1..Len(s) + 1 : t[i] = IF i <= Len(s) THEN s[i] ELSE k
  BY <1>1, <1>2, <1>3
<1>8. Append(Listed(G, S), G[k])
         = [i \in 1..Len(s) + 1 |-> IF i <= Len(s) THEN Listed(G, S)[i] ELSE G[k]]
  BY <1>2, <1>4, <1>6
<1>9. DOMAIN s = 1..Len(s) /\ Len(s) \in Nat
  BY <1>2
<1>10. \A i \in 1..Len(s) + 1 : G[t[i]] = IF i <= Len(s) THEN Listed(G, S)[i] ELSE G[k]
  BY <1>5, <1>7, <1>9
<1> QED
  BY <1>5, <1>7, <1>8, <1>10

\* The least of a set of line numbers is first in it ...
LEMMA AscendingFirst ==
    ASSUME NEW n \in Nat, NEW S \in SUBSET (1..n), NEW b \in S, \A i \in S : b <= i
    PROVE  Cardinality(S) # 0 /\ Ascending(S)[1] = b
<1>1. Cardinality(S) \in Nat /\ IsFiniteSet(S) /\ Cardinality(S) # 0
  BY FiniteUpTo, FS_EmptySet
<1>2. {j \in S : j < b} = {}
  <2>1. ASSUME NEW j \in S PROVE ~(j < b)
    <3>1. b <= j /\ b \in Nat /\ j \in Nat
      OBVIOUS
    <3> QED
      BY <3>1
  <2> QED
    BY <2>1
<1>3. RankIn(S, b) = 1 - 1
  BY <1>2, FS_EmptySet DEF RankIn
<1>4. (CHOOSE x \in S : Cardinality({j \in S : j < x}) = RankIn(S, b)) = b
  BY NthIs
<1>5. 1 \in 1..Cardinality(S)
  BY <1>1
<1> QED
  BY <1>1, <1>3, <1>4, <1>5 DEF Ascending

\* ... and the least of the others is second.
LEMMA AscendingSecond ==
    ASSUME NEW n \in Nat, NEW S \in SUBSET (1..n), NEW b \in S, \A i \in S : b <= i,
           NEW c \in S \ {b}, \A i \in S \ {b} : c <= i
    PROVE  Cardinality(S) > 1 /\ Ascending(S)[2] = c
<1>1. Cardinality(S) \in Nat /\ IsFiniteSet(S) /\ Cardinality({b}) = 1 /\ Cardinality({b, c}) = 2
  <2>0. IsFiniteSet({b}) /\ c \notin {b}
    BY FS_Singleton
  <2>1. Cardinality({b} \cup {c}) = Cardinality({b}) + 1
    BY <2>0, FS_AddElement
  <2>2. {b} \cup {c} = {b, c} /\ Cardinality({b}) = 1
    BY FS_Singleton
  <2>3. Cardinality(S) \in Nat /\ IsFiniteSet(S)
    BY FiniteUpTo
  <2> QED
    BY <2>1, <2>2, <2>3
<1>2. {j \in S : j < c} = {b}
  <2>1. ASSUME NEW j \in S PROVE j < c <=> j = b
    BY <2>1
  <2> QED
    BY <2>1
<1>3. RankIn(S, c) = 2 - 1
  BY <1>1, <1>2 DEF RankIn
<1>4. (CHOOSE x \in S : Cardinality({j \in S : j < x}) = RankIn(S, c)) = c
  BY NthIs
<1>5. Cardinality(S) > 1 /\ 2 \in 1..Cardinality(S)
  <2>1. {b, c} \subseteq S
    OBVIOUS
  <2>2. Cardinality({b, c}) <= Cardinality(S)
    BY <1>1, <2>1, FS_Subset
  <2> QED
    BY <1>1, <2>2
<1> QED
  BY <1>3, <1>4, <1>5 DEF Ascending

------------------------------------------------------------------------------
(***************************************************************************)
(* The heading that a line is under.                                       *)
(***************************************************************************)

\* No heading is above the first line.
LEMMA HeadingFirst ==
    ASSUME NEW L, NEW H
    PROVE  HeadingOf(L, H, 1) = 0
<1> DEFINE Above(i) == {j \in 1..i - 1 : L[j].kind \in H}
<1>0. \A i : HeadingOf(L, H, i) =
             IF Above(i) = {} THEN 0 ELSE CHOOSE j \in Above(i) : \A m \in Above(i) : m <= j
  BY DEF HeadingOf
<1>1. HeadingOf(L, H, 1) = 0
  <2>1. Above(1) = {}
    OBVIOUS
  <2> QED
    BY <1>0, <2>1
<1> QED
  BY <1>1

\* The next line is under this one if this is a heading, or else with it.
LEMMA HeadingNext ==
    ASSUME NEW L, NEW H, NEW k \in Nat \ {0}
    PROVE  HeadingOf(L, H, k + 1) = IF L[k].kind \in H THEN k ELSE HeadingOf(L, H, k)
<1> DEFINE Above(i) == {j \in 1..i - 1 : L[j].kind \in H}
<1>0. \A i : HeadingOf(L, H, i) =
             IF Above(i) = {} THEN 0 ELSE CHOOSE j \in Above(i) : \A m \in Above(i) : m <= j
  BY DEF HeadingOf
<1>1. ASSUME L[k].kind \in H PROVE HeadingOf(L, H, k + 1) = k
  <2>1. k \in Above(k + 1) /\ \A m \in Above(k + 1) : m <= k
    BY <1>1
  <2>2. \A j \in Above(k + 1) : (\A m \in Above(k + 1) : m <= j) => j = k
    <3>1. \A j \in Above(k + 1) : j \in Nat
      OBVIOUS
    <3> QED
      BY <2>1, <3>1
  <2> HIDE DEF Above
  <2>3. (CHOOSE j \in Above(k + 1) : \A m \in Above(k + 1) : m <= j) = k
    BY <2>1, <2>2
  <2>4. HeadingOf(L, H, k + 1) =
           IF Above(k + 1) = {} THEN 0
           ELSE CHOOSE j \in Above(k + 1) : \A m \in Above(k + 1) : m <= j
    BY <1>0, Zenon
  <2> QED
    BY <1>1, <2>1, <2>3, <2>4
<1>2. ASSUME ~(L[k].kind \in H) PROVE HeadingOf(L, H, k + 1) = HeadingOf(L, H, k)
  <2>1. Above(k + 1) = Above(k)
    <3>1. ASSUME NEW j \in Above(k + 1) PROVE j \in Above(k)
      <4>1. j # k
        BY <1>2, <3>1
      <4> QED
        BY <3>1, <4>1
    <3>2. ASSUME NEW j \in Above(k) PROVE j \in Above(k + 1)
      BY <3>2
    <3> QED
      BY <3>1, <3>2
  <2> HIDE DEF Above
  <2>2. HeadingOf(L, H, k + 1) = HeadingOf(L, H, k)
    BY <1>0, <2>1, Zenon
  <2> QED
    BY <1>2, <2>2
<1> QED
  BY <1>1, <1>2

\* The heading of a line is above it, if there is one.
LEMMA HeadingType ==
    ASSUME NEW L, NEW H, NEW k \in Nat \ {0}
    PROVE  /\ HeadingOf(L, H, k) \in 0..k - 1
           /\ HeadingOf(L, H, k) # 0 => L[HeadingOf(L, H, k)].kind \in H
<1> DEFINE Above(i) == {j \in 1..i - 1 : L[j].kind \in H}
<1>0. \A i : HeadingOf(L, H, i) =
             IF Above(i) = {} THEN 0 ELSE CHOOSE j \in Above(i) : \A m \in Above(i) : m <= j
  BY DEF HeadingOf
<1>1. HeadingOf(L, H, k) \in 0..k - 1 /\ (HeadingOf(L, H, k) # 0 => L[HeadingOf(L, H, k)].kind \in H)
  <2>1. CASE Above(k) = {}
    BY <1>0, <2>1
  <2>2. CASE Above(k) # {}
    <3>1. k - 1 \in Nat /\ Above(k) \in SUBSET (1..k - 1)
      OBVIOUS
    <3>2. PICK m \in Above(k) : \A j \in Above(k) : j <= m
      <4> HIDE DEF Above
      <4> QED
        BY <2>2, <3>1, GreatestIn
    <3>3. (CHOOSE j \in Above(k) : \A i \in Above(k) : i <= j) \in Above(k)
      BY <3>2
    <3>4. HeadingOf(L, H, k) \in Above(k)
      BY <1>0, <2>2, <3>3
    <3> QED
      BY <3>4
  <2> QED
    BY <2>1, <2>2
<1> QED
  BY <1>1

\* No heading lies between a line and the one it is under.
LEMMA HeadingLast ==
    ASSUME NEW L, NEW H, NEW i \in Nat, NEW j \in 1..i - 1, L[j].kind \in H
    PROVE  j <= HeadingOf(L, H, i)
<1> DEFINE Above == {m \in 1..i - 1 : L[m].kind \in H}
<1>1. i - 1 \in Nat /\ j \in Above /\ Above \in SUBSET (1..i - 1)
  OBVIOUS
<1>2. HeadingOf(L, H, i) = IF Above = {} THEN 0 ELSE CHOOSE m \in Above : \A k \in Above : k <= m
  BY DEF HeadingOf
<1> HIDE DEF Above
<1>3. \E m \in Above : \A k \in Above : k <= m
  BY <1>1, GreatestIn
<1> QED
  BY <1>1, <1>2, <1>3

\* Line i is under a section's heading.
InSection(L, H, i) == HeadingOf(L, H, i) # 0 /\ L[HeadingOf(L, H, i)].kind = "section"

------------------------------------------------------------------------------
(***************************************************************************)
(* Every document is a sequence of its source's lines.                     *)
(***************************************************************************)

\* The invariant of the enumeration.
Lines ==
    /\ source \in DOMAIN LinesOf
    /\ source \in ClassSources => lines \in Seq(AnyClassLine)
    /\ source \notin ClassSources => lines \in Seq(LinesOf[source])

\* A document has only lines that its source may have.
LEMMA LinesInv == Spec => []Lines
<1>1. ASSUME NEW c \in ClassSources PROVE LinesOf[c] \subseteq AnyClassLine
  <2>1. LinesOf[c] = ClassLines(c)
    <3>1. LinesOf["class"] = ClassLines("class")
      BY DEF LinesOf
    <3>2. LinesOf["items"] = ClassLines("items")
      BY DEF LinesOf
    <3>3. LinesOf["methods"] = ClassLines("methods")
      BY DEF LinesOf
    <3> QED
      BY <3>1, <3>2, <3>3 DEF ClassSources
  <2>2. TableCells[c] \subseteq Seq(STRING) \ {<<>>}
    BY CellsAssumption
  <2>3. [kind: {"cells"}, cells: TableCells[c]]
           \subseteq [kind: {"cells"}, cells: Seq(STRING) \ {<<>>}]
    BY <2>2
  <2> QED
    BY <2>1, <2>3 DEF ClassLines, Kinds, AnyClassLine
<1>2. Init => Lines
  BY OpeningAssumption DEF Init, Lines
<1>3. Lines /\ [Next]_<<source, lines>> => Lines'
  <2>1. ASSUME Lines, [Next]_<<source, lines>> PROVE Lines'
    <3>1. CASE UNCHANGED <<source, lines>>
      BY <2>1, <3>1 DEF Lines
    <3>2. CASE Next
      <4>1. PICK l \in LinesOf[source] : lines' = Append(lines, l) /\ source' = source
        BY <3>2 DEF Next
      <4> QED
        BY <1>1, <2>1, <4>1 DEF Lines
    <3> QED
      BY <2>1, <3>1, <3>2
  <2> QED
    BY <2>1
<1> QED
  BY <1>2, <1>3, PTL DEF Spec

------------------------------------------------------------------------------
(***************************************************************************)
(* The ledger of claims: the dictionary after k records has, for every     *)
(* task, its current record among these, unless a release among them       *)
(* matches none.                                                           *)
(***************************************************************************)

\* The records of the ledger, and the states of its fold.
LedgerLine == LinesOf["ledger"]
Replays == [claims: [Tasks -> LedgerLine \cup {NoClaim}], raised: BOOLEAN]
Unclaimed == [claims |-> [t \in Tasks |-> NoClaim], raised |-> FALSE]

\* What the records have in common; none of them is NoClaim.
LEMMA LedgerLineIs ==
  ASSUME NEW e \in LedgerLine
  PROVE  /\ e.kind \in {"claimed", "released", "noted"}
         /\ e.kind # "noted" => e.task \in Tasks
         /\ e # NoClaim
  BY DEF LedgerLine, LinesOf, Noted, NoClaim

\* A step of the fold keeps the type of its state.
LEMMA FoldStepType ==
  ASSUME NEW s \in Replays, NEW e \in LedgerLine
  PROVE  FoldStep(s, e) \in Replays
<1>1. /\ e.kind \in {"claimed", "released", "noted"}
      /\ e.kind # "noted" => e.task \in Tasks
  BY LedgerLineIs
<1> QED
  BY <1>1 DEF Replays, FoldStep

\* The states that the fold goes through.
LEMMA ReplayRun ==
    ASSUME NEW s \in Seq(LedgerLine)
    PROVE  \E h \in [0..Len(s) -> Replays] :
              /\ h[0] = Unclaimed
              /\ \A k \in 1..Len(s) : h[k] = FoldStep(h[k - 1], s[k])
              /\ Fold(s) = h[Len(s)]
<1> DEFINE n == Len(s)
           F == [p \in Replays \X LedgerLine |-> FoldStep(p[1], p[2])]
           Is(g) == g = [T \in SUBSET DOMAIN s |->
                            IF T = {} THEN Unclaimed
                            ELSE FoldStep(g[T \ {Max(T)}], s[Max(T)])]
           fold == CHOOSE g : Is(g)
<1>0. n \in Nat /\ DOMAIN s = 1..n /\ \A i \in 1..n : s[i] \in LedgerLine
  OBVIOUS
<1>1. F \in [Replays \X LedgerLine -> Replays] /\ Unclaimed \in Replays
  BY FoldStepType DEF Unclaimed, Replays
<1>2. \A t \in Replays : \A l \in LedgerLine : F[<<t, l>>] = FoldStep(t, l)
  OBVIOUS
<1> HIDE DEF F
<1>3. \A T \in SUBSET (1..n) : T # {} => s[Max(T)] \in LedgerLine /\ T \ {Max(T)} \in SUBSET (1..n)
  BY <1>0, MaxIn
<1>4. Is(fold)
  <2>1. PICK g : Folds(g, Replays, F, Unclaimed, s)
    BY <1>1, FoldExists
  <2>2. g \in [SUBSET (1..n) -> Replays]
    BY <2>1 DEF Folds
  <2>3. ASSUME NEW T \in SUBSET (1..n)
        PROVE  g[T] = IF T = {} THEN Unclaimed ELSE FoldStep(g[T \ {Max(T)}], s[Max(T)])
    BY <1>2, <1>3, <2>1, <2>2 DEF Folds
  <2>4. Is(g)
    BY <1>0, <2>2, <2>3
  <2> QED
    BY <2>4
<1>5. Fold(s) = fold[1..n]
  BY <1>0 DEF Fold, FoldLeft, MapThenFoldSet, Unclaimed
<1> HIDE DEF fold
<1>6. fold[{}] = Unclaimed
  BY <1>0, <1>4
<1>7. Unfolds(fold, Replays, F, Unclaimed, s)
  <2>1. ASSUME NEW T \in SUBSET (1..n), T # {}, fold[T \ {Max(T)}] \in Replays
        PROVE  fold[T] = F[<<fold[T \ {Max(T)}], s[Max(T)]>>]
    <3>1. fold[T] = FoldStep(fold[T \ {Max(T)}], s[Max(T)])
      BY <1>0, <1>4, <2>1
    <3> QED
      BY <1>2, <1>3, <2>1, <3>1
  <2> QED
    BY <1>6, <2>1 DEF Unfolds
<1>8. PICK h : RunsThrough(h, fold, Replays, F, Unclaimed, s)
  BY <1>1, <1>7, FoldRuns
<1> QED
  BY <1>0, <1>2, <1>5, <1>8 DEF RunsThrough

\* Current, of the first k records.
CurrentAt(L, k, t) ==
    {i \in 1..k : /\ L[i].kind = "claimed" /\ L[i].task = t
                  /\ \A j \in i + 1..k : ~Touches(L[j], t)}

\* A release that makes the fold raise.
Unmatched(L, j) == L[j].kind = "released" /\ ~\E i \in DOMAIN L : Releases(L, i, j)

\* The dictionary after k records.
Replayed(L, s, k) ==
    /\ s.raised <=> \E j \in 1..k : Unmatched(L, j)
    /\ ~s.raised =>
          \A t \in Tasks : /\ CurrentAt(L, k, t) = {} => s.claims[t] = NoClaim
                           /\ \A i \in CurrentAt(L, k, t) : s.claims[t] = L[i]

\* What record k does to the current records of a task.
LEMMA CurrentAtStep ==
    ASSUME NEW L \in Seq(LedgerLine), NEW k \in 1..Len(L), NEW t \in Tasks
    PROVE  /\ ~Touches(L[k], t) => CurrentAt(L, k, t) = CurrentAt(L, k - 1, t)
           /\ Touches(L[k], t) =>
                 CurrentAt(L, k, t) = IF L[k].kind = "claimed" THEN {k} ELSE {}
<1>0. Len(L) \in Nat /\ \A i \in 1..k : k \in i + 1..k \/ i = k
  OBVIOUS
<1>1. CASE ~Touches(L[k], t)
  <2>1. ASSUME NEW i \in CurrentAt(L, k, t) PROVE i \in CurrentAt(L, k - 1, t)
    <3>1. i # k
      BY <1>1, <2>1 DEF CurrentAt, Touches
    <3> QED
      BY <2>1, <3>1 DEF CurrentAt
  <2>2. ASSUME NEW i \in CurrentAt(L, k - 1, t) PROVE i \in CurrentAt(L, k, t)
    <3>1. i \in 1..k /\ \A j \in i + 1..k : j \in i + 1..k - 1 \/ j = k
      BY <2>2 DEF CurrentAt
    <3> QED
      BY <1>1, <2>2, <3>1 DEF CurrentAt
  <2> QED
    BY <1>1, <2>1, <2>2
<1>2. CASE Touches(L[k], t)
  <2>1. ASSUME NEW i \in CurrentAt(L, k, t) PROVE i = k
    BY <1>0, <1>2, <2>1 DEF CurrentAt
  <2>2. L[k].kind = "claimed" => k \in CurrentAt(L, k, t)
    BY <1>2 DEF CurrentAt, Touches
  <2>3. L[k].kind # "claimed" => k \notin CurrentAt(L, k, t)
    BY DEF CurrentAt
  <2> QED
    BY <1>2, <2>1, <2>2, <2>3
<1> QED
  BY <1>1, <1>2

\* A release matches a claim exactly if that is the current record before it.
LEMMA ReleasesIs ==
    ASSUME NEW L \in Seq(LedgerLine), NEW k \in 1..Len(L), NEW i, L[k].kind = "released"
    PROVE  i \in DOMAIN L /\ Releases(L, i, k) <=>
              /\ i \in CurrentAt(L, k - 1, L[k].task)
              /\ L[i].owner = L[k].owner /\ L[i].id = L[k].id
<1>0. Len(L) \in Nat /\ DOMAIN L = 1..Len(L)
  OBVIOUS
<1>1. ASSUME i \in 1..k - 1
      PROVE  (\A j \in i + 1..k - 1 : ~Touches(L[j], L[k].task)) <=>
             (\A j \in DOMAIN L : i < j /\ j < k => ~Touches(L[j], L[k].task))
  BY <1>0, <1>1
<1> QED
  BY <1>0, <1>1 DEF Releases, CurrentAt

\* One record: the dictionary goes on agreeing with the current records.
LEMMA ReplayStep ==
    ASSUME NEW L \in Seq(LedgerLine), NEW k \in 1..Len(L), NEW s \in Replays,
           Replayed(L, s, k - 1)
    PROVE  Replayed(L, FoldStep(s, L[k]), k)
<1> DEFINE e == L[k]
           s2 == FoldStep(s, e)
<1>0. /\ Len(L) \in Nat /\ DOMAIN L = 1..Len(L) /\ e \in LedgerLine
      /\ k \in Nat /\ 1..k = (1..k - 1) \cup {k}
  OBVIOUS
<1>1. /\ e.kind \in {"claimed", "released", "noted"}
      /\ e.kind # "noted" => e.task \in Tasks
      /\ e # NoClaim
  BY <1>0, LedgerLineIs
<1>2. (\E j \in 1..k : Unmatched(L, j)) <=> (\E j \in 1..k - 1 : Unmatched(L, j)) \/ Unmatched(L, k)
  BY <1>0
<1>3. \A t \in Tasks :
         /\ ~Touches(e, t) => CurrentAt(L, k, t) = CurrentAt(L, k - 1, t)
         /\ Touches(e, t) => CurrentAt(L, k, t) = IF e.kind = "claimed" THEN {k} ELSE {}
  BY CurrentAtStep
<1>4. CASE s.raised
  BY <1>2, <1>4 DEF Replayed, FoldStep
<1>5. CASE ~s.raised /\ e.kind = "noted"
  <2>1. s2 = s /\ ~Unmatched(L, k) /\ \A t \in Tasks : ~Touches(e, t)
    BY <1>5 DEF FoldStep, Unmatched, Touches
  <2>2. \A t \in Tasks : CurrentAt(L, k, t) = CurrentAt(L, k - 1, t)
    BY <1>3, <2>1
  <2> QED
    BY <1>2, <1>5, <2>1, <2>2 DEF Replayed
<1>6. CASE ~s.raised /\ e.kind = "claimed"
  <2>1. s2 = [s EXCEPT !.claims[e.task] = e]
    BY <1>6 DEF FoldStep
  <2>2. s2.raised = s.raised /\ s2.claims = [s.claims EXCEPT ![e.task] = e]
    BY <2>1 DEF Replays
  <2>3. ~Unmatched(L, k)
    BY <1>6 DEF Unmatched
  <2>4. ASSUME NEW t \in Tasks
        PROVE  /\ CurrentAt(L, k, t) = {} => s2.claims[t] = NoClaim
               /\ \A i \in CurrentAt(L, k, t) : s2.claims[t] = L[i]
    BY <1>1, <1>3, <1>6, <2>2 DEF Replayed, Touches, Replays
  <2> QED
    BY <1>2, <1>6, <2>2, <2>3, <2>4 DEF Replayed
<1>7. CASE ~s.raised /\ e.kind = "released" /\ Matched(s.claims, e)
  <2>1. s2 = [s EXCEPT !.claims[e.task] = NoClaim]
    BY <1>7 DEF FoldStep
  <2>2. s2.raised = s.raised /\ s2.claims = [s.claims EXCEPT ![e.task] = NoClaim]
    BY <2>1 DEF Replays
  <2>3. PICK i \in CurrentAt(L, k - 1, e.task) : s.claims[e.task] = L[i]
    BY <1>1, <1>7 DEF Replayed, Matched
  <2>4. ~Unmatched(L, k)
    BY <1>7, <2>3, ReleasesIs DEF Matched, Unmatched
  <2>5. ASSUME NEW t \in Tasks
        PROVE  /\ CurrentAt(L, k, t) = {} => s2.claims[t] = NoClaim
               /\ \A j \in CurrentAt(L, k, t) : s2.claims[t] = L[j]
    BY <1>1, <1>3, <1>7, <2>2 DEF Replayed, Touches, Replays
  <2> QED
    BY <1>2, <1>7, <2>2, <2>4, <2>5 DEF Replayed
<1>8. CASE ~s.raised /\ e.kind = "released" /\ ~Matched(s.claims, e)
  <2>1. s2 = [s EXCEPT !.raised = TRUE]
    BY <1>8 DEF FoldStep
  <2>2. s2.raised = TRUE
    BY <2>1 DEF Replays
  <2>3. ASSUME NEW i \in DOMAIN L, Releases(L, i, k) PROVE FALSE
    <3>1. i \in CurrentAt(L, k - 1, e.task) /\ L[i].owner = e.owner /\ L[i].id = e.id
      BY <1>8, <2>3, ReleasesIs
    <3>2. s.claims[e.task] = L[i] /\ L[i] # NoClaim
      <4>1. L[i] \in LedgerLine
        BY <1>0, <2>3
      <4> QED
        BY <1>1, <1>8, <3>1, <4>1, LedgerLineIs DEF Replayed
    <3> QED
      BY <1>8, <3>1, <3>2 DEF Matched
  <2>4. Unmatched(L, k)
    BY <1>8, <2>3 DEF Unmatched
  <2> QED
    BY <1>2, <2>2, <2>4 DEF Replayed
<1> QED
  BY <1>1, <1>4, <1>5, <1>6, <1>7, <1>8

\* The dictionary after the whole ledger.
LEMMA ReplayAgrees ==
    ASSUME NEW L \in Seq(LedgerLine)
    PROVE  Fold(L) \in Replays /\ Replayed(L, Fold(L), Len(L))
<1>0. Len(L) \in Nat
  OBVIOUS
<1>1. PICK h \in [0..Len(L) -> Replays] :
         /\ h[0] = Unclaimed
         /\ \A k \in 1..Len(L) : h[k] = FoldStep(h[k - 1], L[k])
         /\ Fold(L) = h[Len(L)]
  BY ReplayRun
<1> DEFINE I == {k \in 0..Len(L) : Replayed(L, h[k], k)}
<1>2. 0 \in I
  BY <1>0, <1>1 DEF Replayed, Unclaimed, CurrentAt
<1>3. ASSUME NEW k \in 1..Len(L), k - 1 \in I PROVE k \in I
  <2>1. h[k - 1] \in Replays /\ k \in 0..Len(L)
    BY <1>0
  <2> QED
    BY <1>0, <1>1, <1>3, <2>1, ReplayStep
<1> HIDE DEF I
<1>4. Len(L) \in I
  <2>1. 0..Len(L) \subseteq I
    BY <1>0, <1>2, <1>3, UpTo
  <2> QED
    BY <1>0, <2>1
<1> QED
  BY <1>0, <1>1, <1>4 DEF I

\* Current is CurrentAt of the whole ledger.
LEMMA CurrentIsAt ==
    ASSUME NEW L \in Seq(LedgerLine), NEW t \in Tasks
    PROVE  Current(L, t) = CurrentAt(L, Len(L), t)
  BY DEF Current, CurrentAt

\* _ledger_claims raises "release ledger does not match active ownership"
\* exactly on the ledgers with a release that matches no claim in force.
THEOREM FoldRaises == Spec => []FoldRaisesIffUnreplayable
<1>1. Lines => FoldRaisesIffUnreplayable
  <2> SUFFICES ASSUME Lines, source = "ledger" PROVE Fold(lines).raised <=> ~Replayable(lines)
    BY DEF FoldRaisesIffUnreplayable
  <2>1. PICK L : L = lines
    OBVIOUS
  <2>2. L \in Seq(LedgerLine)
    BY <2>1 DEF Lines, ClassSources, LedgerLine
  <2>3. Replayed(L, Fold(L), Len(L))
    BY <2>2, ReplayAgrees
  <2>4. Replayable(L) <=> ~\E j \in 1..Len(L) : Unmatched(L, j)
    BY <2>2 DEF Replayable, Unmatched
  <2> QED
    BY <2>1, <2>3, <2>4 DEF Replayed
<1> QED
  BY <1>1, LinesInv, PTL

\* What _ledger_claims returns, unexpired records only, is for every task the
\* record that Active names, of any ledger and at any time.
THEOREM FoldReturns == Spec => []FoldReturnsActive
<1>1. Lines => FoldReturnsActive
  <2> SUFFICES ASSUME Lines, source = "ledger", Replayable(lines), NEW now \in 0..MaxTime
               PROVE  /\ Unexpired(Fold(lines).claims, now) = {t \in Tasks : Active(lines, t, now) # {}}
                      /\ \A t \in Tasks : \A i \in Active(lines, t, now) :
                            Fold(lines).claims[t] = lines[i]
    BY DEF FoldReturnsActive
  <2>1. PICK L : L = lines
    OBVIOUS
  <2>2. L \in Seq(LedgerLine)
    BY <2>1 DEF Lines, ClassSources, LedgerLine
  <2>3. Replayed(L, Fold(L), Len(L)) /\ Fold(L) \in Replays
    BY <2>2, ReplayAgrees
  <2>4. ~Fold(L).raised
    BY <2>1, <2>2, <2>3 DEF Replayable, Unmatched, Replayed
  <2>5. ASSUME NEW t \in Tasks
        PROVE  /\ Current(L, t) = {} => Fold(L).claims[t] = NoClaim
               /\ \A i \in Current(L, t) : Fold(L).claims[t] = L[i] /\ L[i] # NoClaim
    <3>1. \A i \in Current(L, t) : L[i] \in LedgerLine
      BY <2>2 DEF Current
    <3> QED
      BY <2>2, <2>3, <2>4, <3>1, CurrentIsAt, LedgerLineIs DEF Replayed
  <2>6. ASSUME NEW t \in Tasks
        PROVE  t \in Unexpired(Fold(L).claims, now) <=> Active(L, t, now) # {}
    <3>1. CASE Current(L, t) = {}
      BY <2>5, <3>1 DEF Unexpired, Active
    <3>2. CASE Current(L, t) # {}
      BY <2>5, <3>2 DEF Unexpired, Active
    <3> QED
      BY <3>1, <3>2
  <2>7. Unexpired(Fold(L).claims, now) \subseteq Tasks
    BY DEF Unexpired
  <2> QED
    BY <2>1, <2>5, <2>6, <2>7 DEF Active
<1> QED
  BY <1>1, LinesInv, PTL

------------------------------------------------------------------------------
(***************************************************************************)
(* FourCCs.                                                                *)
(***************************************************************************)

\* A claim that the registrar's rows confirm is never contradicted.
LEMMA CorrectClaim ==
    ASSUME NEW F, NEW c \in Classes, NEW x \in Explicit(F, c) \cap Committed(F, c)
    PROVE  [kind |-> "class", class |-> c] \in Lookup(F, Classes, x)
<1>1. ~Contradicted(F, Classes, c, x)
  BY DEF Contradicted, OwnRow
<1>2. x \in Served(F, Classes)[c]
  BY <1>1 DEF Served
<1> QED
  BY <1>2 DEF Lookup

\* lookup by FourCC finds every class whose document claims what the registrar
\* says of it: "a correctly-documented class is never suppressed".
THEOREM CorrectClaims == Spec => []CorrectClaimServed
<1>1. CorrectClaimServed
  BY CorrectClaim DEF CorrectClaimServed
<1> QED
  BY <1>1, PTL

\* Only the classes served for a FourCC are found under it.
LEMMA LookedUp ==
    ASSUME NEW F, NEW c \in Classes, NEW x,
           [kind |-> "class", class |-> c] \in Lookup(F, Classes, x)
    PROVE  x \in Served(F, Classes)[c]
  BY DEF Lookup

\* A FourCC is served for a class if the registrar says so, or if no row of another
\* class and no level has it.
LEMMA Uncontradicted ==
    ASSUME NEW F, RegistrarAccepts(F), ~Conflict(F, Classes),
           NEW c \in Classes, NEW x, x \in Served(F, Classes)[c]
    PROVE  \/ c \in Among(F, "row", x)
           \/ /\ Among(F, "row", x) \cap Classes = {}
              /\ \A l \in DOMAIN Levels :
                    x \in {l, Levels[l]} => Among(F, "row", l) = {}
<1>1. x \in Committed(F, c) => c \in Among(F, "row", x)
  BY DEF Committed, Among
<1>2. CASE x \in Explicit(F, c) /\ ~Contradicted(F, Classes, c, x)
  <2>1. CASE OwnRow(F, c, x)
    BY <1>1, <2>1 DEF OwnRow
  <2>2. CASE ~OwnRow(F, c, x)
    <3>1. ~LevelId(F, x) /\ (Among(F, "row", x) \cap Classes) \ {c} = {}
      BY <1>2, <2>2 DEF Contradicted
    <3>2. \A l \in DOMAIN Levels : x \in {l, Levels[l]} => Among(F, "row", l) = {}
      BY <3>1 DEF LevelId
    <3> QED
      BY <3>1, <3>2
  <2> QED
    BY <2>1, <2>2
<1>3. CASE x \in Committed(F, c)
  BY <1>1, <1>3
<1> QED
  BY <1>2, <1>3 DEF Served

\* lookup by FourCC finds no class that the registrar contradicts, and none under
\* a FourCC of a level.
THEOREM OnlyUncontradicted == Spec => []ServedIsUncontradicted
<1>1. ServedIsUncontradicted
  <2> SUFFICES ASSUME Starts, NEW c \in Classes, NEW x \in FourCCs,
                      [kind |-> "class", class |-> c] \in Lookup(lines, Classes, x)
               PROVE  \/ c \in Among(lines, "row", x)
                      \/ /\ Among(lines, "row", x) \cap Classes = {}
                         /\ \A l \in DOMAIN Levels :
                               x \in {l, Levels[l]} => Among(lines, "row", l) = {}
    BY DEF ServedIsUncontradicted
  <2>1. PICK F : F = lines
    OBVIOUS
  <2>2. x \in Served(F, Classes)[c]
    BY <2>1, LookedUp
  <2>3. RegistrarAccepts(F) /\ ~Conflict(F, Classes)
    BY <2>1 DEF Starts
  <2>4. \/ c \in Among(F, "row", x)
        \/ /\ Among(F, "row", x) \cap Classes = {}
           /\ \A l \in DOMAIN Levels :
                 x \in {l, Levels[l]} => Among(F, "row", l) = {}
    BY <2>2, <2>3, Uncontradicted
  <2> QED
    BY <2>1, <2>4
<1> QED
  BY <1>1, PTL

------------------------------------------------------------------------------
(***************************************************************************)
(* The hand-off: after k lines the tasks are the items among them that are *)
(* in a section.                                                           *)
(***************************************************************************)

\* The lines of the hand-off, its parser's states and steps.
HandoffLine == LinesOf["handoff"]
HandoffTasks == {Task("handoff", l, ItemStatus(l), i) : l \in HandoffLine, i \in Nat}
HandoffStates == [in: BOOLEAN, tasks: Seq(HandoffTasks), number: Nat]
HandoffStart == [in |-> FALSE, tasks |-> <<>>, number |-> 0]
HandoffNext(s, line) == HandoffStep([s EXCEPT !.number = @ + 1], line)

\* A step keeps the type of the state.
LEMMA HandoffNextType ==
    ASSUME NEW s \in HandoffStates, NEW l \in HandoffLine
    PROVE  HandoffNext(s, l) \in HandoffStates
<1> DEFINE t == [s EXCEPT !.number = @ + 1]
<1>1. t \in HandoffStates
  BY DEF HandoffStates
<1>2. Task("handoff", l, ItemStatus(l), t.number) \in HandoffTasks
  BY <1>1 DEF HandoffTasks, HandoffStates
<1> HIDE DEF t
<1>3. Append(t.tasks, Task("handoff", l, ItemStatus(l), t.number)) \in Seq(HandoffTasks)
  BY <1>1, <1>2 DEF HandoffStates
<1>4. HandoffStep(t, l) \in HandoffStates
  BY <1>1, <1>3 DEF HandoffStep, Within, HandoffStates
<1> QED
  BY <1>4 DEF HandoffNext, t

\* The parser, by the end of its fold.
LEMMA HandoffIs ==
    ASSUME NEW s
    PROVE  LET end == FoldLeft(HandoffNext, HandoffStart, s)
           IN  Handoff(s) = IF end.tasks = <<>> THEN Refused ELSE end.tasks
  BY DEF Handoff, Loop, FoldLeft, HandoffNext, HandoffStart, MapThenFoldSet

\* The states that the hand-off's parser goes through.
LEMMA HandoffRun ==
    ASSUME NEW s \in Seq(HandoffLine)
    PROVE  \E h \in [0..Len(s) -> HandoffStates] :
              /\ h[0] = HandoffStart
              /\ \A k \in 1..Len(s) : h[k] = HandoffNext(h[k - 1], s[k])
              /\ FoldLeft(HandoffNext, HandoffStart, s) = h[Len(s)]
<1> DEFINE n == Len(s)
           F == [p \in HandoffStates \X HandoffLine |-> HandoffNext(p[1], p[2])]
           Is(g) == g = [T \in SUBSET DOMAIN s |->
                            IF T = {} THEN HandoffStart
                            ELSE HandoffNext(g[T \ {Max(T)}], s[Max(T)])]
           fold == CHOOSE g : Is(g)
<1>0. n \in Nat /\ DOMAIN s = 1..n /\ \A i \in 1..n : s[i] \in HandoffLine
  OBVIOUS
<1>1. F \in [HandoffStates \X HandoffLine -> HandoffStates] /\ HandoffStart \in HandoffStates
  BY HandoffNextType DEF HandoffStart, HandoffStates
<1>2. \A t \in HandoffStates : \A l \in HandoffLine : F[<<t, l>>] = HandoffNext(t, l)
  OBVIOUS
<1> HIDE DEF F
<1>3. \A T \in SUBSET (1..n) : T # {} => s[Max(T)] \in HandoffLine /\ T \ {Max(T)} \in SUBSET (1..n)
  BY <1>0, MaxIn
<1>4. Is(fold)
  <2>1. PICK g : Folds(g, HandoffStates, F, HandoffStart, s)
    BY <1>1, FoldExists
  <2>2. g \in [SUBSET (1..n) -> HandoffStates]
    BY <2>1 DEF Folds
  <2>3. ASSUME NEW T \in SUBSET (1..n)
        PROVE  g[T] = IF T = {} THEN HandoffStart ELSE HandoffNext(g[T \ {Max(T)}], s[Max(T)])
    BY <1>2, <1>3, <2>1, <2>2 DEF Folds
  <2>4. Is(g)
    BY <1>0, <2>2, <2>3
  <2> QED
    BY <2>4
<1>5. FoldLeft(HandoffNext, HandoffStart, s) = fold[1..n]
  BY <1>0 DEF FoldLeft, MapThenFoldSet
<1> HIDE DEF fold
<1>6. fold[{}] = HandoffStart
  BY <1>0, <1>4
<1>7. Unfolds(fold, HandoffStates, F, HandoffStart, s)
  <2>1. ASSUME NEW T \in SUBSET (1..n), T # {}, fold[T \ {Max(T)}] \in HandoffStates
        PROVE  fold[T] = F[<<fold[T \ {Max(T)}], s[Max(T)]>>]
    <3>1. fold[T] = HandoffNext(fold[T \ {Max(T)}], s[Max(T)])
      BY <1>0, <1>4, <2>1
    <3> QED
      BY <1>2, <1>3, <2>1, <3>1
  <2> QED
    BY <1>6, <2>1 DEF Unfolds
<1>8. PICK h : RunsThrough(h, fold, HandoffStates, F, HandoffStart, s)
  BY <1>1, <1>7, FoldRuns
<1> QED
  BY <1>0, <1>2, <1>5, <1>8 DEF RunsThrough

\* The task that a line makes if it is an item.
HandoffGet(L) == [i \in 1..Len(L) |-> Task("handoff", L[i], ItemStatus(L[i]), i)]

\* The items that are in a section.
HandoffItems(L) ==
    {i \in 1..Len(L) : L[i].kind = "item" /\ InSection(L, {"section", "heading"}, i)}

\* The state after k lines.
HandoffAfter(L, s, k) ==
    /\ s.number = k
    /\ s.in <=> InSection(L, {"section", "heading"}, k + 1)
    /\ s.tasks = Listed(HandoffGet(L), HandoffItems(L) \cap (1..k))

\* The kinds of lines.
LEMMA HandoffLineIs ==
    ASSUME NEW l \in HandoffLine
    PROVE  l.kind \in {"section", "heading", "text", "item"}
  BY DEF HandoffLine, LinesOf, Kinds

\* They are tasks of the hand-off.
LEMMA HandoffGetType ==
    ASSUME NEW L \in Seq(HandoffLine)
    PROVE  HandoffGet(L) \in [1..Len(L) -> HandoffTasks]
<1>1. \A i \in 1..Len(L) : L[i] \in HandoffLine /\ i \in Nat
  OBVIOUS
<1> QED
  BY <1>1 DEF HandoffGet, HandoffTasks

\* One line of the hand-off.
LEMMA HandoffStepAgrees ==
    ASSUME NEW L \in Seq(HandoffLine), NEW k \in 1..Len(L), NEW s \in HandoffStates,
           HandoffAfter(L, s, k - 1)
    PROVE  HandoffAfter(L, HandoffNext(s, L[k]), k)
<1> DEFINE l == L[k]
           t == [s EXCEPT !.number = @ + 1]
           H == {"section", "heading"}
           G == HandoffGet(L)
           I == HandoffItems(L)
<1>0. /\ Len(L) \in Nat /\ l \in HandoffLine /\ k \in Nat \ {0} /\ (k - 1) + 1 = k
      /\ I \in SUBSET (1..Len(L))
  BY DEF HandoffItems
<1>1. l.kind \in {"section", "heading", "text", "item"}
  BY <1>0, HandoffLineIs
<1>2. /\ t.number = k /\ t.in = s.in /\ t.tasks = s.tasks /\ t \in HandoffStates
  BY <1>0 DEF HandoffAfter, HandoffStates
<1>3. HeadingOf(L, H, k + 1) = IF l.kind \in H THEN k ELSE HeadingOf(L, H, k)
  <2> HIDE DEF H
  <2> QED
    BY <1>0, HeadingNext
<1>4. s.in <=> InSection(L, H, k)
  BY <1>0 DEF HandoffAfter
<1>5. s.tasks = Listed(G, I \cap (1..k - 1))
  BY DEF HandoffAfter
<1>6. /\ I \cap (1..k - 1) \in SUBSET (1..k - 1)
      /\ I \cap (1..k) = IF k \in I THEN (I \cap (1..k - 1)) \cup {k} ELSE I \cap (1..k - 1)
  BY <1>0, UpToNext
<1>7. k \in I <=> l.kind = "item" /\ InSection(L, H, k)
  BY DEF HandoffItems
<1> HIDE DEF t, G, I
<1>8. ASSUME NEW u \in HandoffStates, u = HandoffStep(t, l)
      PROVE  HandoffAfter(L, u, k)
  <2>1. CASE l.kind \in H
    <3>1. u = [t EXCEPT !.in = Within(t, l)]
      BY <1>8, <2>1 DEF HandoffStep
    <3>2. u.number = k /\ u.tasks = s.tasks /\ u.in = (l.kind = "section")
      BY <1>2, <3>1 DEF HandoffStates, Within
    <3>3. InSection(L, H, k + 1) <=> l.kind = "section"
      BY <1>0, <1>3, <2>1 DEF InSection
    <3>4. k \notin I
      BY <1>7, <2>1
    <3> QED
      BY <1>5, <1>6, <3>2, <3>3, <3>4 DEF HandoffAfter, G, I
  <2>2. CASE l.kind = "item" /\ s.in
    <3>1. u = [t EXCEPT !.tasks = Append(@, Task("handoff", l, ItemStatus(l), t.number))]
      BY <1>2, <1>8, <2>2 DEF HandoffStep
    <3>2. u.number = k /\ u.in = s.in
          /\ u.tasks = Append(s.tasks, Task("handoff", l, ItemStatus(l), k))
      BY <1>2, <3>1 DEF HandoffStates
    <3>3. InSection(L, H, k + 1) <=> InSection(L, H, k)
      BY <1>3, <2>2 DEF InSection
    <3>4. k \in I /\ G[k] = Task("handoff", l, ItemStatus(l), k)
      BY <1>4, <1>7, <2>2 DEF G, HandoffGet
    <3>5. Listed(G, I \cap (1..k)) = Append(Listed(G, I \cap (1..k - 1)), G[k])
      <4>1. G \in [1..Len(L) -> HandoffTasks]
        BY HandoffGetType DEF G
      <4> DEFINE J == I \cap (1..k - 1)
      <4>3. J \in SUBSET (1..k - 1)
        BY <1>6
      <4> HIDE DEF J
      <4>2. Listed(G, J \cup {k}) = Append(Listed(G, J), G[k])
        BY <1>0, <4>3, ListedAppend
      <4> QED
        BY <1>6, <3>4, <4>2 DEF J
    <3> QED
      BY <1>4, <1>5, <3>2, <3>3, <3>4, <3>5 DEF HandoffAfter, G, I
  <2>3. CASE l.kind \notin H /\ ~(l.kind = "item" /\ s.in)
    <3>1. u = t
      BY <1>2, <1>8, <2>3 DEF HandoffStep
    <3>2. InSection(L, H, k + 1) <=> InSection(L, H, k)
      BY <1>3, <2>3 DEF InSection
    <3>3. k \notin I
      BY <1>4, <1>7, <2>3
    <3> QED
      BY <1>2, <1>4, <1>5, <1>6, <3>1, <3>2, <3>3 DEF HandoffAfter, G, I
  <2> QED
    BY <2>1, <2>2, <2>3
<1>9. HandoffNext(s, l) = HandoffStep(t, l) /\ HandoffNext(s, l) \in HandoffStates
  BY <1>0, HandoffNextType DEF HandoffNext, t
<1> QED
  BY <1>8, <1>9

\* The hand-off's parser does what is meant by the document.
LEMMA HandoffAgrees ==
    ASSUME NEW L \in Seq(HandoffLine)
    PROVE  Handoff(L) = HandoffMeaning(L)
<1> DEFINE n == Len(L)
           end == FoldLeft(HandoffNext, HandoffStart, L)
<1>0. n \in Nat /\ DOMAIN L = 1..n
  OBVIOUS
<1>1. PICK h \in [0..n -> HandoffStates] :
         /\ h[0] = HandoffStart
         /\ \A k \in 1..n : h[k] = HandoffNext(h[k - 1], L[k])
         /\ end = h[n]
  BY HandoffRun
<1> DEFINE I == {k \in 0..n : HandoffAfter(L, h[k], k)}
<1>2. 0 \in I
  <2>1. ~InSection(L, {"section", "heading"}, 0 + 1)
    BY HeadingFirst DEF InSection
  <2>2. HandoffItems(L) \cap (1..0) = {}
    OBVIOUS
  <2> QED
    BY <1>0, <1>1, <2>1, <2>2, ListedEmpty DEF HandoffAfter, HandoffStart
<1>3. ASSUME NEW k \in 1..n, k - 1 \in I PROVE k \in I
  <2>1. h[k - 1] \in HandoffStates /\ k \in 0..n
    BY <1>0
  <2> QED
    BY <1>0, <1>1, <1>3, <2>1, HandoffStepAgrees
<1> HIDE DEF I
<1>4. n \in I
  <2>1. 0..n \subseteq I
    BY <1>0, <1>2, <1>3, UpTo
  <2> QED
    BY <1>0, <2>1
<1>5. HandoffAfter(L, end, n)
  BY <1>1, <1>4 DEF I
<1>6. HandoffItems(L) \cap (1..n) = HandoffItems(L) /\ HandoffItems(L) \in SUBSET (1..n)
  BY DEF HandoffItems
<1>7. end.tasks = Listed(HandoffGet(L), HandoffItems(L))
  BY <1>5, <1>6 DEF HandoffAfter
<1>8. (end.tasks = <<>>) <=> (HandoffItems(L) = {})
  BY <1>0, <1>6, <1>7, HandoffGetType, ListedIsEmpty
<1>9. Listed(HandoffGet(L), HandoffItems(L)) = TasksAt("handoff", L, HandoffItems(L), ItemStatus)
  <2>1. \A i \in DOMAIN Ascending(HandoffItems(L)) : Ascending(HandoffItems(L))[i] \in 1..n
    BY <1>0, <1>6, AscendingType
  <2> QED
    BY <2>1 DEF Listed, TasksAt, HandoffGet
<1>10. HandoffMeaning(L) = IF HandoffItems(L) = {} THEN Refused
                           ELSE TasksAt("handoff", L, HandoffItems(L), ItemStatus)
  BY <1>0 DEF HandoffMeaning, HandoffItems, InSection
<1>11. Handoff(L) = IF end.tasks = <<>> THEN Refused ELSE end.tasks
  BY HandoffIs
<1> QED
  BY <1>7, <1>8, <1>9, <1>10, <1>11

------------------------------------------------------------------------------
(***************************************************************************)
(* The QA ledger: nothing is read before the first header in a section,    *)
(* and from then on the table below it.                                    *)
(***************************************************************************)

\* The lines of the QA ledger, its parser's states and steps.
QaLine == LinesOf["qa"]
QaTasks == {Task("qa", l, RowStatus(l), i) : l \in QaLine, i \in Nat}
QaStates == [in: BOOLEAN, header: BOOLEAN, over: BOOLEAN, refused: BOOLEAN,
             tasks: Seq(QaTasks), number: Nat]
QaStart == [in |-> FALSE, header |-> FALSE, over |-> FALSE, refused |-> FALSE,
            tasks |-> <<>>, number |-> 0]
QaNext(s, line) == QaStep([s EXCEPT !.number = @ + 1], line)

\* The kinds of lines.
LEMMA QaLineIs ==
    ASSUME NEW l \in QaLine
    PROVE  l.kind \in {"section", "heading", "header", "blank", "text", "short", "row"}
  BY DEF QaLine, LinesOf, Kinds

\* What a step does, by what the line is.
LEMMA QaStepIs ==
    ASSUME NEW t \in QaStates, NEW l \in QaLine
    PROVE  /\ t.over \/ t.refused => QaStep(t, l) = t
           /\ ~t.over /\ ~t.refused =>
                 /\ l.kind = "section" => QaStep(t, l) = [t EXCEPT !.in = TRUE]
                 /\ l.kind = "heading" => QaStep(t, l) = [t EXCEPT !.in = FALSE, !.over = t.header]
                 /\ l.kind \notin {"section", "heading"} /\ ~t.in => QaStep(t, l) = t
                 /\ t.in =>
                       /\ l.kind = "text" => QaStep(t, l) = [t EXCEPT !.over = t.header]
                       /\ l.kind = "header" => QaStep(t, l) = [t EXCEPT !.header = TRUE]
                       /\ l.kind = "short" => QaStep(t, l) = [t EXCEPT !.refused = t.header]
                       /\ t.header /\ Reads(l) =>
                             QaStep(t, l) = [t EXCEPT !.tasks = Append(@, Task("qa", l, RowStatus(l), t.number))]
                       /\ l.kind \in {"blank", "row"} /\ ~(t.header /\ Reads(l)) => QaStep(t, l) = t
<1>1. t.header \in BOOLEAN
  BY DEF QaStates
<1>2. l.kind \in {"section", "heading", "header", "blank", "text", "short", "row"}
  BY QaLineIs
<1>3. Reads(l) => l.kind = "row"
  BY DEF Reads
<1>4. l.kind \in {"heading", "text"} => Over(t, l) = t.header
  BY <1>1 DEF Over
<1>5. CASE t.over \/ t.refused
  BY <1>5 DEF QaStep
<1>6. CASE ~t.over /\ ~t.refused /\ l.kind \in {"section", "heading"}
  BY <1>1, <1>3, <1>4, <1>6 DEF QaStep
<1>7. CASE ~t.over /\ ~t.refused /\ l.kind \notin {"section", "heading"} /\ ~t.in
  BY <1>7 DEF QaStep
<1>8. CASE ~t.over /\ ~t.refused /\ l.kind = "text" /\ t.in
  BY <1>1, <1>3, <1>4, <1>8 DEF QaStep
<1>9. CASE ~t.over /\ ~t.refused /\ l.kind = "header" /\ t.in
  BY <1>3, <1>9 DEF QaStep
<1>10. CASE ~t.over /\ ~t.refused /\ l.kind = "short" /\ t.in
  BY <1>3, <1>10 DEF QaStep
<1>11. CASE ~t.over /\ ~t.refused /\ l.kind \in {"blank", "row"} /\ t.in
  BY <1>3, <1>11 DEF QaStep
<1> QED
  BY <1>2, <1>5, <1>6, <1>7, <1>8, <1>9, <1>10, <1>11

\* The states it can lead to.
LEMMA QaStepIn ==
    ASSUME NEW t \in QaStates, NEW l \in QaLine
    PROVE  QaStep(t, l) \in
              {t, [t EXCEPT !.in = TRUE], [t EXCEPT !.in = FALSE, !.over = t.header],
               [t EXCEPT !.over = t.header], [t EXCEPT !.header = TRUE],
               [t EXCEPT !.refused = t.header],
               [t EXCEPT !.tasks = Append(@, Task("qa", l, RowStatus(l), t.number))]}
<1>1. t.over \in BOOLEAN /\ t.refused \in BOOLEAN /\ t.in \in BOOLEAN /\ t.header \in BOOLEAN
  BY DEF QaStates
<1>2. l.kind \in {"section", "heading", "header", "blank", "text", "short", "row"}
  BY QaLineIs
<1>3. CASE t.over \/ t.refused \/ (l.kind \notin {"section", "heading"} /\ ~t.in)
  <2>1. QaStep(t, l) = t
    BY <1>1, <1>3, QaStepIs
  <2> QED
    BY <2>1
<1>4. CASE ~t.over /\ ~t.refused /\ l.kind \in {"section", "heading"}
  <2>1. QaStep(t, l) \in {[t EXCEPT !.in = TRUE], [t EXCEPT !.in = FALSE, !.over = t.header]}
    BY <1>1, <1>4, QaStepIs
  <2> QED
    BY <2>1
<1>5. CASE ~t.over /\ ~t.refused /\ l.kind \in {"text", "header", "short"} /\ t.in
  <2>1. QaStep(t, l) \in {[t EXCEPT !.over = t.header], [t EXCEPT !.header = TRUE],
                          [t EXCEPT !.refused = t.header]}
    BY <1>1, <1>5, QaStepIs
  <2> QED
    BY <2>1
<1>6. CASE ~t.over /\ ~t.refused /\ l.kind \in {"blank", "row"} /\ t.in
  <2>1. QaStep(t, l) \in {t, [t EXCEPT !.tasks = Append(@, Task("qa", l, RowStatus(l), t.number))]}
    BY <1>1, <1>6, QaStepIs
  <2> QED
    BY <2>1
<1> QED
  BY <1>1, <1>2, <1>3, <1>4, <1>5, <1>6

\* A step keeps the type of the state.
LEMMA QaNextType ==
    ASSUME NEW s \in QaStates, NEW l \in QaLine
    PROVE  QaNext(s, l) \in QaStates
<1> DEFINE t == [s EXCEPT !.number = @ + 1]
<1>1. t \in QaStates
  BY DEF QaStates
<1>2. Task("qa", l, RowStatus(l), t.number) \in QaTasks
  BY <1>1 DEF QaTasks, QaStates
<1> HIDE DEF t
<1>3. Append(t.tasks, Task("qa", l, RowStatus(l), t.number)) \in Seq(QaTasks) /\ t.header \in BOOLEAN
  BY <1>1, <1>2 DEF QaStates
<1> DEFINE Steps == {t, [t EXCEPT !.in = TRUE], [t EXCEPT !.in = FALSE, !.over = t.header],
                     [t EXCEPT !.over = t.header], [t EXCEPT !.header = TRUE],
                     [t EXCEPT !.refused = t.header],
                     [t EXCEPT !.tasks = Append(@, Task("qa", l, RowStatus(l), t.number))]}
<1>4. \A u \in Steps : u \in QaStates
  BY <1>1, <1>3 DEF QaStates
<1>5. QaStep(t, l) \in QaStates
  BY <1>1, <1>4, QaStepIn
<1> QED
  BY <1>5 DEF QaNext, t

\* The states that the QA parser goes through.
LEMMA QaRun ==
    ASSUME NEW s \in Seq(QaLine)
    PROVE  \E h \in [0..Len(s) -> QaStates] :
              /\ h[0] = QaStart
              /\ \A k \in 1..Len(s) : h[k] = QaNext(h[k - 1], s[k])
              /\ FoldLeft(QaNext, QaStart, s) = h[Len(s)]
<1> DEFINE n == Len(s)
           F == [p \in QaStates \X QaLine |-> QaNext(p[1], p[2])]
           Is(g) == g = [T \in SUBSET DOMAIN s |->
                            IF T = {} THEN QaStart
                            ELSE QaNext(g[T \ {Max(T)}], s[Max(T)])]
           fold == CHOOSE g : Is(g)
<1>0. n \in Nat /\ DOMAIN s = 1..n /\ \A i \in 1..n : s[i] \in QaLine
  OBVIOUS
<1>1. F \in [QaStates \X QaLine -> QaStates] /\ QaStart \in QaStates
  BY QaNextType DEF QaStart, QaStates
<1>2. \A t \in QaStates : \A l \in QaLine : F[<<t, l>>] = QaNext(t, l)
  OBVIOUS
<1> HIDE DEF F
<1>3. \A T \in SUBSET (1..n) : T # {} => s[Max(T)] \in QaLine /\ T \ {Max(T)} \in SUBSET (1..n)
  BY <1>0, MaxIn
<1>4. Is(fold)
  <2>1. PICK g : Folds(g, QaStates, F, QaStart, s)
    BY <1>1, FoldExists
  <2>2. g \in [SUBSET (1..n) -> QaStates]
    BY <2>1 DEF Folds
  <2>3. ASSUME NEW T \in SUBSET (1..n)
        PROVE  g[T] = IF T = {} THEN QaStart ELSE QaNext(g[T \ {Max(T)}], s[Max(T)])
    BY <1>2, <1>3, <2>1, <2>2 DEF Folds
  <2>4. Is(g)
    BY <1>0, <2>2, <2>3
  <2> QED
    BY <2>4
<1>5. FoldLeft(QaNext, QaStart, s) = fold[1..n]
  BY <1>0 DEF FoldLeft, MapThenFoldSet
<1> HIDE DEF fold
<1>6. fold[{}] = QaStart
  BY <1>0, <1>4
<1>7. Unfolds(fold, QaStates, F, QaStart, s)
  <2>1. ASSUME NEW T \in SUBSET (1..n), T # {}, fold[T \ {Max(T)}] \in QaStates
        PROVE  fold[T] = F[<<fold[T \ {Max(T)}], s[Max(T)]>>]
    <3>1. fold[T] = QaNext(fold[T \ {Max(T)}], s[Max(T)])
      BY <1>0, <1>4, <2>1
    <3> QED
      BY <1>2, <1>3, <2>1, <3>1
  <2> QED
    BY <1>6, <2>1 DEF Unfolds
<1>8. PICK h : RunsThrough(h, fold, QaStates, F, QaStart, s)
  BY <1>1, <1>7, FoldRuns
<1> QED
  BY <1>0, <1>2, <1>5, <1>8 DEF RunsThrough

\* The parser, by the end of its fold.
LEMMA QaIs ==
    ASSUME NEW s
    PROVE  LET end == FoldLeft(QaNext, QaStart, s)
           IN  Qa(s) = IF end.refused \/ ~end.header THEN Refused ELSE end.tasks
  BY DEF Qa, Loop, FoldLeft, QaNext, QaStart, MapThenFoldSet

\* The parts of QaMeaning.
QaHeads == {"section", "heading"}
QaGet(L) == [i \in 1..Len(L) |-> Task("qa", L[i], RowStatus(L[i]), i)]
QaHeaders(L) == {i \in 1..Len(L) : L[i].kind = "header" /\ InSection(L, QaHeads, i)}
QaEnds(L, h) == {i \in 1..Len(L) : i > h /\ L[i].kind \in {"heading", "text"}}
QaBody(L, h) == {i \in 1..Len(L) : i > h /\ \A e \in QaEnds(L, h) : i < e}
QaRows(L, h) == {i \in QaBody(L, h) : Reads(L[i])}
IsFirst(L, h) == h \in QaHeaders(L) /\ \A j \in QaHeaders(L) : h <= j

\* The state after k lines when the table begins at line h.
QaTable(L, h, s, k) ==
    /\ s.header
    /\ s.over => /\ \E e \in QaEnds(L, h) : e <= k
                 /\ \A i \in QaBody(L, h) : L[i].kind # "short"
    /\ s.refused <=> \E i \in QaBody(L, h) : i <= k /\ L[i].kind = "short"
    /\ ~s.over /\ ~s.refused => s.in /\ \A e \in QaEnds(L, h) : e > k
    /\ ~s.refused => s.tasks = Listed(QaGet(L), QaRows(L, h) \cap (1..k))

\* The state after k lines.
QaAfter(L, s, k) ==
    /\ s.number = k
    /\ ~s.over /\ ~s.refused => (s.in <=> InSection(L, QaHeads, k + 1))
    /\ (\A i \in QaHeaders(L) : i > k) => ~s.header /\ ~s.over /\ ~s.refused /\ s.tasks = << >>
    /\ \A h \in 1..k : IsFirst(L, h) => QaTable(L, h, s, k)

\* Line k below a table that is not over before it.
LEMMA QaBodyNext ==
    ASSUME NEW L \in Seq(QaLine), NEW k \in 1..Len(L), NEW h \in 1..k - 1,
           \A e \in QaEnds(L, h) : e > k - 1
    PROVE  /\ k \in QaEnds(L, h) <=> L[k].kind \in {"heading", "text"}
           /\ k \in QaBody(L, h) <=> L[k].kind \notin {"heading", "text"}
           /\ k \notin QaEnds(L, h) => \A e \in QaEnds(L, h) : e > k
           /\ k \in QaEnds(L, h) => \A i \in QaBody(L, h) : i <= k - 1
<1>0. Len(L) \in Nat /\ k \in Nat /\ h < k /\ h \in Nat
  OBVIOUS
<1>1. k \in QaEnds(L, h) <=> L[k].kind \in {"heading", "text"}
  BY <1>0 DEF QaEnds
<1>2. k \notin QaEnds(L, h) => \A e \in QaEnds(L, h) : e > k
  <2> SUFFICES ASSUME k \notin QaEnds(L, h), NEW e \in QaEnds(L, h) PROVE e > k
    OBVIOUS
  <2>1. e \in Nat /\ e > k - 1 /\ e # k
    BY DEF QaEnds
  <2> QED
    BY <1>0, <2>1
<1>3. k \in QaEnds(L, h) => \A i \in QaBody(L, h) : i <= k - 1
  <2> SUFFICES ASSUME k \in QaEnds(L, h), NEW i \in QaBody(L, h) PROVE i <= k - 1
    OBVIOUS
  <2>1. i \in Nat /\ i < k
    BY DEF QaBody
  <2> QED
    BY <1>0, <2>1
<1>4. k \in QaBody(L, h) <=> k \notin QaEnds(L, h)
  <2>1. k \in QaBody(L, h) => k \notin QaEnds(L, h)
    BY <1>0 DEF QaBody
  <2>2. k \notin QaEnds(L, h) => k \in QaBody(L, h)
    BY <1>0, <1>2 DEF QaBody
  <2> QED
    BY <2>1, <2>2
<1> QED
  BY <1>1, <1>2, <1>3, <1>4

\* A table goes on with line k, in what is kept of it and in what is not.
LEMMA QaRowsNext ==
    ASSUME NEW L \in Seq(QaLine), NEW k \in 1..Len(L), NEW h
    PROVE  /\ k \notin QaRows(L, h) => QaRows(L, h) \cap (1..k) = QaRows(L, h) \cap (1..k - 1)
           /\ k \in QaRows(L, h) =>
                 Listed(QaGet(L), QaRows(L, h) \cap (1..k))
                    = Append(Listed(QaGet(L), QaRows(L, h) \cap (1..k - 1)),
                             Task("qa", L[k], RowStatus(L[k]), k))
<1> DEFINE S == QaRows(L, h)
           J == S \cap (1..k - 1)
<1>1. S \in SUBSET (1..Len(L)) /\ Len(L) \in Nat
  BY DEF QaRows, QaBody
<1> HIDE DEF S
<1>2. J \in SUBSET (1..k - 1) /\ S \cap (1..k) = IF k \in S THEN J \cup {k} ELSE J
  BY <1>1, UpToNext
<1> HIDE DEF J
<1>3. k \in Nat \ {0} /\ QaGet(L)[k] = Task("qa", L[k], RowStatus(L[k]), k)
  BY DEF QaGet
<1>4. Listed(QaGet(L), J \cup {k}) = Append(Listed(QaGet(L), J), QaGet(L)[k])
  BY <1>2, <1>3, ListedAppend
<1> QED
  BY <1>2, <1>3, <1>4 DEF S, J

\* The table that began before line k.
LEMMA QaTableStep ==
    ASSUME NEW L \in Seq(QaLine), NEW k \in 1..Len(L), NEW t \in QaStates, t.number = k,
           NEW h \in 1..k - 1, QaTable(L, h, t, k - 1)
    PROVE  QaTable(L, h, QaStep(t, L[k]), k)
<1> DEFINE l == L[k]
           u == QaStep(t, l)
           B == QaBody(L, h)
           E == QaEnds(L, h)
           R == QaRows(L, h)
<1>0. /\ Len(L) \in Nat /\ l \in QaLine /\ k \in Nat
      /\ \A i \in B : i \in Nat /\ (i <= k <=> i <= k - 1 \/ i = k)
      /\ \A e \in E : e \in Nat /\ (e <= k <=> e <= k - 1 \/ e = k) /\ (e > k => e > k - 1)
  BY DEF QaBody, QaEnds
<1>1. l.kind \in {"section", "heading", "header", "blank", "text", "short", "row"}
  BY <1>0, QaLineIs
<1>2. Reads(l) => l.kind = "row"
  BY DEF Reads
<1>3. k \in R <=> k \in B /\ Reads(l)
  BY DEF QaRows
<1>4. /\ t.header
      /\ t.over => (\E e \in E : e <= k - 1) /\ \A i \in B : L[i].kind # "short"
      /\ t.refused <=> \E i \in B : i <= k - 1 /\ L[i].kind = "short"
      /\ ~t.over /\ ~t.refused => t.in /\ \A e \in E : e > k - 1
      /\ ~t.refused => t.tasks = Listed(QaGet(L), R \cap (1..k - 1))
  BY DEF QaTable
<1>5. /\ t.header \in BOOLEAN /\ t.over \in BOOLEAN /\ t.refused \in BOOLEAN /\ t.in \in BOOLEAN
  BY DEF QaStates
<1>6. k \notin R => R \cap (1..k) = R \cap (1..k - 1)
  BY QaRowsNext
<1>7. CASE t.over \/ t.refused
  <2>1. u = t
    BY <1>0, <1>7, QaStepIs
  <2>2. t.over => k \notin B
    BY <1>0, <1>4 DEF QaBody
  <2>3. ~t.refused => t.over /\ k \notin R
    BY <1>3, <1>7, <2>2
  <2> HIDE DEF u, B, E, R, l
  <2>4. ASSUME NEW i \in B, i <= k - 1, L[i].kind = "short"
        PROVE  \E j \in B : j <= k /\ L[j].kind = "short"
    BY <1>0, <2>4
  <2>5. t.refused <=> \E i \in B : i <= k /\ L[i].kind = "short"
    BY <1>0, <1>4, <1>7, <2>4
  <2>6. t.over => \E e \in E : e <= k
    BY <1>0, <1>4
  <2> QED
    BY <1>4, <1>6, <1>7, <2>1, <2>3, <2>5, <2>6 DEF QaTable, u, B, E, R, l
<1>8. CASE ~t.over /\ ~t.refused
  <2>1. /\ k \in E <=> l.kind \in {"heading", "text"}
        /\ k \in B <=> l.kind \notin {"heading", "text"}
        /\ k \notin E => \A e \in E : e > k
        /\ k \in E => \A i \in B : i <= k - 1
    BY <1>4, <1>8, QaBodyNext
  <2>2. t.in /\ t.header /\ \A i \in B : i <= k - 1 => L[i].kind # "short"
    BY <1>4, <1>8
  <2>3. CASE l.kind \in {"heading", "text"}
    <3>1. u.over /\ u.header = t.header /\ u.refused = t.refused /\ u.tasks = t.tasks
      <4>1. u \in {[t EXCEPT !.in = FALSE, !.over = t.header], [t EXCEPT !.over = t.header]}
        BY <1>0, <1>8, <2>2, <2>3, QaStepIs
      <4> HIDE DEF u
      <4> QED
        BY <2>2, <4>1 DEF QaStates
    <3>2. k \in E /\ k \notin B /\ k \notin R
      BY <1>3, <2>1, <2>3
    <3> HIDE DEF u, B, E, R, l
    <3>3. \A i \in B : L[i].kind # "short"
      BY <2>1, <2>2, <3>2
    <3>4. k <= k
      BY <1>0
    <3> QED
      BY <1>4, <1>6, <1>8, <2>2, <3>1, <3>2, <3>3, <3>4 DEF QaTable, u, B, E, R, l
  <2>4. CASE l.kind = "short"
    <3>1. u = [t EXCEPT !.refused = t.header]
      BY <1>0, <1>8, <2>2, <2>4, QaStepIs
    <3>2. u.refused /\ u.header = t.header /\ u.over = t.over
      <4> HIDE DEF u
      <4> QED
        BY <2>2, <3>1 DEF QaStates
    <3>3. k \in B /\ k <= k
      BY <1>0, <2>1, <2>4
    <3> HIDE DEF u, B, E, R
    <3> QED
      BY <1>8, <2>2, <2>4, <3>2, <3>3 DEF QaTable, u, B, E, R
  <2>5. CASE Reads(l)
    <3>1. u = [t EXCEPT !.tasks = Append(@, Task("qa", l, RowStatus(l), k))]
      BY <1>0, <1>8, <2>2, <2>5, QaStepIs
    <3>2. /\ u.refused = t.refused /\ u.header = t.header /\ u.over = t.over /\ u.in = t.in
          /\ u.tasks = Append(t.tasks, Task("qa", l, RowStatus(l), k))
      <4> HIDE DEF u
      <4> QED
        BY <3>1 DEF QaStates
    <3>3. k \in B /\ k \notin E /\ k \in R /\ l.kind # "short"
      BY <1>2, <1>3, <2>1, <2>5
    <3>4. Listed(QaGet(L), R \cap (1..k))
             = Append(Listed(QaGet(L), R \cap (1..k - 1)), Task("qa", l, RowStatus(l), k))
      BY <3>3, QaRowsNext
    <3> HIDE DEF u, B, E, R
    <3>5. \A i \in B : i <= k => L[i].kind # "short"
      BY <1>0, <2>2, <3>3
    <3> QED
      BY <1>4, <1>8, <2>1, <2>2, <3>2, <3>3, <3>4, <3>5 DEF QaTable, u, B, E, R
  <2>6. CASE l.kind \in {"section", "header", "blank", "row"} /\ ~Reads(l)
    <3>1. u \in {t, [t EXCEPT !.in = TRUE], [t EXCEPT !.header = TRUE]}
      BY <1>0, <1>8, <2>2, <2>6, QaStepIs
    <3>2. /\ u.refused = t.refused /\ u.header /\ u.over = t.over /\ u.in
          /\ u.tasks = t.tasks
      <4> HIDE DEF u
      <4> QED
        BY <2>2, <3>1 DEF QaStates
    <3>3. k \in B /\ k \notin E /\ k \notin R /\ l.kind # "short"
      BY <1>3, <2>1, <2>6
    <3> HIDE DEF u, B, E, R
    <3>5. \A i \in B : i <= k => L[i].kind # "short"
      BY <1>0, <2>2, <3>3
    <3> QED
      BY <1>4, <1>6, <1>8, <2>1, <2>2, <3>2, <3>3, <3>5 DEF QaTable, u, B, E, R
  <2> QED
    BY <1>1, <1>2, <2>3, <2>4, <2>5, <2>6
<1> QED
  BY <1>7, <1>8

\* The table that begins at line k.
LEMMA QaTableBegins ==
    ASSUME NEW L \in Seq(QaLine), NEW k \in 1..Len(L), NEW u \in QaStates,
           u.header, u.in, ~u.over, ~u.refused, u.tasks = << >>
    PROVE  QaTable(L, k, u, k)
<1>1. \A i \in QaBody(L, k) : i \in Nat /\ ~(i <= k)
  BY DEF QaBody
<1>2. \A e \in QaEnds(L, k) : e > k
  BY DEF QaEnds
<1>3. QaRows(L, k) \cap (1..k) = {}
  BY <1>1 DEF QaRows
<1> QED
  BY <1>1, <1>2, <1>3, ListedEmpty DEF QaTable

\* One line of the QA ledger.
LEMMA QaStepAgrees ==
    ASSUME NEW L \in Seq(QaLine), NEW k \in 1..Len(L), NEW s \in QaStates,
           QaAfter(L, s, k - 1)
    PROVE  QaAfter(L, QaNext(s, L[k]), k)
<1> DEFINE l == L[k]
           t == [s EXCEPT !.number = @ + 1]
           u == QaStep(t, l)
<1>0. Len(L) \in Nat /\ l \in QaLine /\ k \in Nat \ {0} /\ (k - 1) + 1 = k
  OBVIOUS
<1>1. /\ t.number = k /\ t.in = s.in /\ t.tasks = s.tasks /\ t.header = s.header
      /\ t.over = s.over /\ t.refused = s.refused /\ t \in QaStates
  BY <1>0 DEF QaAfter, QaStates
<1>2. l.kind \in {"section", "heading", "header", "blank", "text", "short", "row"}
  BY <1>0, QaLineIs
<1>3. Reads(l) => l.kind = "row"
  BY DEF Reads
<1>4. HeadingOf(L, QaHeads, k + 1) = IF l.kind \in QaHeads THEN k ELSE HeadingOf(L, QaHeads, k)
  BY <1>0, HeadingNext
<1>5. InSection(L, QaHeads, k + 1) <=>
        IF l.kind \in QaHeads THEN l.kind = "section" ELSE InSection(L, QaHeads, k)
  BY <1>0, <1>4 DEF InSection
<1>6. /\ ~t.over /\ ~t.refused => (t.in <=> InSection(L, QaHeads, k))
      /\ (\A i \in QaHeaders(L) : i > k - 1) => ~t.header /\ ~t.over /\ ~t.refused /\ t.tasks = << >>
  BY <1>0, <1>1 DEF QaAfter
<1>7. \A h \in 1..k - 1 : IsFirst(L, h) => QaTable(L, h, t, k - 1)
  BY <1>1 DEF QaAfter, QaTable
<1>8. k \in QaHeaders(L) <=> l.kind = "header" /\ InSection(L, QaHeads, k)
  BY DEF QaHeaders
<1>9. t.header \in BOOLEAN /\ t.over \in BOOLEAN /\ t.refused \in BOOLEAN /\ t.in \in BOOLEAN
  BY <1>1 DEF QaStates
<1>10. \A i \in QaHeaders(L) : i \in Nat /\ (i > k <=> i > k - 1 /\ i # k)
  BY <1>0 DEF QaHeaders
<1> HIDE DEF t
  \* The number, and the section, whatever the line is.
<1>11. u \in {t, [t EXCEPT !.in = TRUE], [t EXCEPT !.in = FALSE, !.over = t.header],
              [t EXCEPT !.over = t.header], [t EXCEPT !.header = TRUE],
              [t EXCEPT !.refused = t.header],
              [t EXCEPT !.tasks = Append(@, Task("qa", l, RowStatus(l), t.number))]}
  BY <1>0, <1>1, QaStepIn
<1>12. u.number = k
  <2> HIDE DEF u
  <2> QED
    BY <1>1, <1>11 DEF QaStates
<1>13. ~u.over /\ ~u.refused => (u.in <=> InSection(L, QaHeads, k + 1))
  <2>1. CASE t.over \/ t.refused
    BY <1>0, <1>1, <2>1, QaStepIs
  <2>2. CASE ~t.over /\ ~t.refused /\ l.kind = "section"
    <3>1. u = [t EXCEPT !.in = TRUE]
      BY <1>0, <1>1, <2>2, QaStepIs
    <3> QED
      BY <1>1, <1>5, <2>2, <3>1 DEF QaStates, QaHeads
  <2>3. CASE ~t.over /\ ~t.refused /\ l.kind = "heading"
    <3>1. u = [t EXCEPT !.in = FALSE, !.over = t.header]
      BY <1>0, <1>1, <2>3, QaStepIs
    <3> QED
      BY <1>1, <1>5, <2>3, <3>1 DEF QaStates, QaHeads
  <2>4. CASE ~t.over /\ ~t.refused /\ l.kind \notin {"section", "heading"}
    <3>1. u \in {t, [t EXCEPT !.over = t.header], [t EXCEPT !.header = TRUE],
                 [t EXCEPT !.refused = t.header],
                 [t EXCEPT !.tasks = Append(@, Task("qa", l, RowStatus(l), t.number))]}
      <4>1. ~t.in => u = t
        BY <1>0, <1>1, <2>4, QaStepIs
      <4>2. t.in /\ l.kind \in {"text", "header", "short"} =>
               u \in {[t EXCEPT !.over = t.header], [t EXCEPT !.header = TRUE],
                      [t EXCEPT !.refused = t.header]}
        BY <1>0, <1>1, <2>4, QaStepIs
      <4>3. t.in /\ l.kind \in {"blank", "row"} =>
               u \in {t, [t EXCEPT !.tasks = Append(@, Task("qa", l, RowStatus(l), t.number))]}
        BY <1>0, <1>1, <1>9, <2>4, QaStepIs
      <4> HIDE DEF u
      <4> QED
        BY <1>2, <1>9, <2>4, <4>1, <4>2, <4>3
    <3>2. u.in = t.in
      <4> HIDE DEF u
      <4> QED
        BY <1>1, <3>1 DEF QaStates
    <3> QED
      BY <1>5, <1>6, <2>4, <3>2 DEF QaHeads
  <2> QED
    BY <2>1, <2>2, <2>3, <2>4
<1>14. (\A i \in QaHeaders(L) : i > k) => ~u.header /\ ~u.over /\ ~u.refused /\ u.tasks = << >>
  <2> SUFFICES ASSUME \A i \in QaHeaders(L) : i > k
               PROVE  ~u.header /\ ~u.over /\ ~u.refused /\ u.tasks = << >>
    OBVIOUS
  <2>1. ~t.header /\ ~t.over /\ ~t.refused /\ t.tasks = << >>
    BY <1>6, <1>10
  <2>2. ~(k \in QaHeaders(L))
    BY <1>10
  <2>3. u \in {t, [t EXCEPT !.in = TRUE], [t EXCEPT !.in = FALSE, !.over = t.header],
               [t EXCEPT !.over = t.header], [t EXCEPT !.refused = t.header]}
    <3>1. CASE l.kind = "header"
      <4>1. ~t.in
        BY <1>6, <1>8, <2>1, <2>2, <3>1
      <4> QED
        BY <1>0, <1>1, <2>1, <3>1, <4>1, QaStepIs
    <3>2. CASE l.kind # "header"
      BY <1>0, <1>1, <1>2, <1>3, <1>9, <2>1, <3>2, QaStepIs
    <3> QED
      BY <3>1, <3>2
  <2> HIDE DEF u
  <2> QED
    BY <1>1, <2>1, <2>3 DEF QaStates
<1>15. ASSUME NEW h \in 1..k, IsFirst(L, h) PROVE QaTable(L, h, u, k)
  <2>1. CASE h # k
    <3>1. h \in 1..k - 1
      BY <2>1
    <3>2. QaTable(L, h, t, k - 1)
      BY <1>7, <1>15, <3>1
    <3> QED
      BY <1>1, <3>1, <3>2, QaTableStep
  <2>2. CASE h = k
    <3>1. \A i \in QaHeaders(L) : i > k - 1
      <4>1. ASSUME NEW i \in QaHeaders(L) PROVE i > k - 1
        <5>1. k <= i /\ i \in Nat
          BY <1>10, <1>15, <2>2 DEF IsFirst
        <5> QED
          BY <1>0, <5>1
      <4> QED
        BY <4>1
    <3>2. ~t.header /\ ~t.over /\ ~t.refused /\ t.tasks = << >>
      BY <1>6, <3>1
    <3>3. l.kind = "header" /\ t.in
      BY <1>6, <1>8, <1>15, <2>2, <3>2 DEF IsFirst
    <3>4. u = [t EXCEPT !.header = TRUE]
      BY <1>0, <1>1, <3>2, <3>3, QaStepIs
    <3> HIDE DEF u
    <3>5. u.header /\ u.in /\ ~u.over /\ ~u.refused /\ u.tasks = << >> /\ u \in QaStates
      BY <1>1, <3>2, <3>3, <3>4 DEF QaStates
    <3> QED
      BY <2>2, <3>5, QaTableBegins
  <2> QED
    BY <2>1, <2>2
<1>16. QaNext(s, l) = u
  BY DEF QaNext, t
<1> HIDE DEF u
<1> QED
  BY <1>12, <1>13, <1>14, <1>15, <1>16 DEF QaAfter

\* The QA parser does what is meant by the document.
LEMMA QaAgree ==
    ASSUME NEW L \in Seq(QaLine)
    PROVE  Qa(L) = QaMeaning(L)
<1> DEFINE n == Len(L)
           end == FoldLeft(QaNext, QaStart, L)
<1>0. n \in Nat /\ DOMAIN L = 1..n
  OBVIOUS
<1>1. PICK f \in [0..n -> QaStates] :
         /\ f[0] = QaStart
         /\ \A k \in 1..n : f[k] = QaNext(f[k - 1], L[k])
         /\ end = f[n]
  BY QaRun
<1> DEFINE I == {k \in 0..n : QaAfter(L, f[k], k)}
<1>2. 0 \in I
  <2>1. ~InSection(L, QaHeads, 0 + 1)
    BY HeadingFirst DEF InSection
  <2> QED
    BY <1>0, <1>1, <2>1 DEF QaAfter, QaStart
<1>3. ASSUME NEW k \in 1..n, k - 1 \in I PROVE k \in I
  <2>1. f[k - 1] \in QaStates /\ k \in 0..n
    BY <1>0
  <2> QED
    BY <1>0, <1>1, <1>3, <2>1, QaStepAgrees
<1> HIDE DEF I
<1>4. n \in I
  <2>1. 0..n \subseteq I
    BY <1>0, <1>2, <1>3, UpTo
  <2> QED
    BY <1>0, <2>1
<1>5. QaAfter(L, end, n) /\ end \in QaStates
  BY <1>0, <1>1, <1>4 DEF I
<1>6. Qa(L) = IF end.refused \/ ~end.header THEN Refused ELSE end.tasks
  BY QaIs
<1> HIDE DEF end
<1>7. CASE QaHeaders(L) = {}
  <2>1. ~end.header
    BY <1>5, <1>7 DEF QaAfter
  <2>2. QaMeaning(L) = Refused
    BY <1>0, <1>7 DEF QaMeaning, QaHeaders, InSection, QaHeads
  <2> QED
    BY <1>6, <2>1, <2>2
<1>8. CASE QaHeaders(L) # {}
  <2> DEFINE h == CHOOSE i \in QaHeaders(L) : \A j \in QaHeaders(L) : i <= j
  <2>1. IsFirst(L, h)
    <3>1. QaHeaders(L) \in SUBSET Nat
      BY DEF QaHeaders
    <3>2. \E i \in QaHeaders(L) : \A j \in QaHeaders(L) : i <= j
      BY <1>8, <3>1, LeastNumber
    <3> QED
      BY <3>2 DEF IsFirst
  <2>2. QaMeaning(L) = IF \E i \in QaBody(L, h) : L[i].kind = "short" THEN Refused
                       ELSE TasksAt("qa", L, QaRows(L, h), RowStatus)
    BY <1>0, <1>8 DEF QaMeaning, QaHeaders, InSection, QaHeads, QaBody, QaEnds, QaRows
  <2> HIDE DEF h
  <2>3. h \in 1..n
    BY <2>1 DEF IsFirst, QaHeaders
  <2>4. QaTable(L, h, end, n)
    BY <1>0, <1>5, <2>1, <2>3 DEF QaAfter
  <2>5. QaRows(L, h) \in SUBSET (1..n) /\ QaBody(L, h) \in SUBSET (1..n)
    BY DEF QaRows, QaBody
  <2>6. QaRows(L, h) \cap (1..n) = QaRows(L, h) /\ \A i \in QaBody(L, h) : i <= n
    BY <1>0, <2>5
  <2>7. Listed(QaGet(L), QaRows(L, h)) = TasksAt("qa", L, QaRows(L, h), RowStatus)
    <3>1. \A i \in DOMAIN Ascending(QaRows(L, h)) : Ascending(QaRows(L, h))[i] \in 1..n
      BY <1>0, <2>5, AscendingType
    <3> QED
      BY <3>1 DEF Listed, TasksAt, QaGet
  <2> QED
    BY <1>6, <2>2, <2>4, <2>6, <2>7 DEF QaTable
<1> QED
  BY <1>7, <1>8

\* _qa_tasks reads the rows of the first table under the master report's
\* heading, of any ledger, and refuses one with a malformed row in that table.
THEOREM QaReads == Spec => []QaAgrees
<1>1. Lines => QaAgrees
  <2> SUFFICES ASSUME Lines, source = "qa" PROVE Qa(lines) = QaMeaning(lines)
    BY DEF QaAgrees
  <2>1. PICK L : L = lines
    OBVIOUS
  <2>2. L \in Seq(QaLine)
    BY <2>1 DEF Lines, ClassSources, QaLine
  <2> QED
    BY <2>1, <2>2, QaAgree
<1> QED
  BY <1>1, LinesInv, PTL

------------------------------------------------------------------------------
(***************************************************************************)
(* The catalogue: after k lines the tasks are the rows among them that are *)
(* below a header of their section.  It is refused for a section that has  *)
(* ended without a header, or for a line that does not fit.                *)
(***************************************************************************)

\* The lines of the catalogue, its parser's states and steps.
CatalogLine == LinesOf["catalog"]
CatHeads == Tables \cup {"heading"}
CatalogTasks == {Task("catalog", l, "open", i) : l \in CatalogLine, i \in Nat}
CatalogStates == [table: Tables \cup {"none"}, header: BOOLEAN, refused: BOOLEAN,
                  found: SUBSET CatHeads, tasks: Seq(CatalogTasks), number: Nat]
CatalogStart == [table |-> "none", header |-> FALSE, refused |-> FALSE,
                 found |-> {}, tasks |-> <<>>, number |-> 0]
CatalogNext(s, line) == CatalogStep([s EXCEPT !.number = @ + 1], line)

\* The kinds of lines.
LEMMA CatalogLineIs ==
    ASSUME NEW l \in CatalogLine
    PROVE  /\ l.kind \in {"queue", "unused", "heading", "else", "header", "row", "dash"}
           /\ l.kind \in {"header", "row", "dash"} => l.of \in Tables
           /\ Heading(l) <=> l.kind \in CatHeads
           /\ l.kind \in CatHeads <=> l.kind \in {"queue", "unused", "heading"}
           /\ l.kind \in Tables <=> l.kind \in {"queue", "unused"}
  BY DEF CatalogLine, LinesOf, Kinds, Heading, CatHeads, Tables

\* A step keeps the type of the state.
LEMMA CatalogNextType ==
    ASSUME NEW s \in CatalogStates, NEW l \in CatalogLine
    PROVE  CatalogNext(s, l) \in CatalogStates
<1> DEFINE t == [s EXCEPT !.number = @ + 1]
<1>1. t \in CatalogStates
  BY DEF CatalogStates
<1>2. Task("catalog", l, "open", t.number) \in CatalogTasks
  BY <1>1 DEF CatalogTasks, CatalogStates
<1> HIDE DEF t
<1>3. Append(t.tasks, Task("catalog", l, "open", t.number)) \in Seq(CatalogTasks)
  BY <1>1, <1>2 DEF CatalogStates
<1>4. Heading(l) => Enter(t, l) \in CatalogStates
  <2> SUFFICES ASSUME Heading(l) PROVE Enter(t, l) \in CatalogStates
    OBVIOUS
  <2>1. l.kind \in CatHeads /\ t.found \cup {l.kind} \in SUBSET CatHeads
    BY <1>1, CatalogLineIs DEF CatalogStates
  <2>2. (t.refused \/ (t.table # "none" /\ ~t.header)) \in BOOLEAN
    BY <1>1 DEF CatalogStates
  <2>3. (IF l.kind \in Tables THEN l.kind ELSE "none") \in Tables \cup {"none"}
    OBVIOUS
  <2> QED
    BY <1>1, <2>1, <2>2, <2>3 DEF Enter, CatalogStates
<1>5. [t EXCEPT !.header = TRUE] \in CatalogStates /\ [t EXCEPT !.refused = TRUE] \in CatalogStates
      /\ [t EXCEPT !.tasks = Append(t.tasks, Task("catalog", l, "open", t.number))] \in CatalogStates
  BY <1>1, <1>3 DEF CatalogStates
<1>6. CatalogStep(t, l) \in CatalogStates
  BY <1>1, <1>4, <1>5 DEF CatalogStep
<1> QED
  BY <1>6 DEF CatalogNext, t

\* The states that the catalogue's parser goes through.
LEMMA CatalogRun ==
    ASSUME NEW s \in Seq(CatalogLine)
    PROVE  \E h \in [0..Len(s) -> CatalogStates] :
              /\ h[0] = CatalogStart
              /\ \A k \in 1..Len(s) : h[k] = CatalogNext(h[k - 1], s[k])
              /\ FoldLeft(CatalogNext, CatalogStart, s) = h[Len(s)]
<1> DEFINE n == Len(s)
           F == [p \in CatalogStates \X CatalogLine |-> CatalogNext(p[1], p[2])]
           Is(g) == g = [T \in SUBSET DOMAIN s |->
                            IF T = {} THEN CatalogStart
                            ELSE CatalogNext(g[T \ {Max(T)}], s[Max(T)])]
           fold == CHOOSE g : Is(g)
<1>0. n \in Nat /\ DOMAIN s = 1..n /\ \A i \in 1..n : s[i] \in CatalogLine
  OBVIOUS
<1>1. F \in [CatalogStates \X CatalogLine -> CatalogStates] /\ CatalogStart \in CatalogStates
  BY CatalogNextType DEF CatalogStart, CatalogStates
<1>2. \A t \in CatalogStates : \A l \in CatalogLine : F[<<t, l>>] = CatalogNext(t, l)
  OBVIOUS
<1> HIDE DEF F
<1>3. \A T \in SUBSET (1..n) : T # {} => s[Max(T)] \in CatalogLine /\ T \ {Max(T)} \in SUBSET (1..n)
  BY <1>0, MaxIn
<1>4. Is(fold)
  <2>1. PICK g : Folds(g, CatalogStates, F, CatalogStart, s)
    BY <1>1, FoldExists
  <2>2. g \in [SUBSET (1..n) -> CatalogStates]
    BY <2>1 DEF Folds
  <2>3. ASSUME NEW T \in SUBSET (1..n)
        PROVE  g[T] = IF T = {} THEN CatalogStart ELSE CatalogNext(g[T \ {Max(T)}], s[Max(T)])
    BY <1>2, <1>3, <2>1, <2>2 DEF Folds
  <2>4. Is(g)
    BY <1>0, <2>2, <2>3
  <2> QED
    BY <2>4
<1>5. FoldLeft(CatalogNext, CatalogStart, s) = fold[1..n]
  BY <1>0 DEF FoldLeft, MapThenFoldSet
<1> HIDE DEF fold
<1>6. fold[{}] = CatalogStart
  BY <1>0, <1>4
<1>7. Unfolds(fold, CatalogStates, F, CatalogStart, s)
  <2>1. ASSUME NEW T \in SUBSET (1..n), T # {}, fold[T \ {Max(T)}] \in CatalogStates
        PROVE  fold[T] = F[<<fold[T \ {Max(T)}], s[Max(T)]>>]
    <3>1. fold[T] = CatalogNext(fold[T \ {Max(T)}], s[Max(T)])
      BY <1>0, <1>4, <2>1
    <3> QED
      BY <1>2, <1>3, <2>1, <3>1
  <2> QED
    BY <1>6, <2>1 DEF Unfolds
<1>8. PICK h : RunsThrough(h, fold, CatalogStates, F, CatalogStart, s)
  BY <1>1, <1>7, FoldRuns
<1> QED
  BY <1>0, <1>2, <1>5, <1>8 DEF RunsThrough

\* The parser, by the end of its fold.
LEMMA CatalogIs ==
    ASSUME NEW s
    PROVE  LET end == FoldLeft(CatalogNext, CatalogStart, s)
           IN  Catalog(s) = IF \/ end.refused \/ ~(Tables \subseteq end.found)
                               \/ end.table # "none" /\ ~end.header
                            THEN Refused ELSE end.tasks
  BY DEF Catalog, Loop, FoldLeft, CatalogNext, CatalogStart, MapThenFoldSet

\* The parts of CatalogMeaning.
CatUnder(L, i) == HeadingOf(L, CatHeads, i)
CatSections(L) == {i \in 1..Len(L) : L[i].kind \in Tables}
CatBelow(L, s) == {i \in 1..Len(L) : ~Heading(L[i]) /\ CatUnder(L, i) = s}
CatFits(L, s, i) == L[i].kind # "else" /\ L[i].of = L[s].kind
CatHeaders(L, s) == {i \in CatBelow(L, s) : L[i].kind = "header" /\ CatFits(L, s, i)}
CatBody(L, s) == {i \in CatBelow(L, s) : \E h \in CatHeaders(L, s) : h < i}
CatRows(L) == {i \in UNION {CatBody(L, s) : s \in CatSections(L)} : L[i].kind = "row"}
CatGet(L) == [i \in 1..Len(L) |-> Task("catalog", L[i], "open", i)]

\* What the first k lines are refused for, the current section being that of line c.
CatBad(L, k, c) ==
    \E s \in CatSections(L) :
        \/ s <= k /\ s # c /\ CatHeaders(L, s) = {}
        \/ \E i \in CatBody(L, s) : i <= k /\ L[i].kind # "else" /\ ~CatFits(L, s, i)

\* The state after k lines.
CatAfter(L, s, k) ==
    LET c == CatUnder(L, k + 1) IN
    /\ s.number = k
    /\ s.found = {L[i].kind : i \in {i \in 1..k : L[i].kind \in CatHeads}}
    /\ s.table = IF c \in CatSections(L) THEN L[c].kind ELSE "none"
    /\ s.header <=> c \in CatSections(L) /\ \E i \in CatHeaders(L, c) : i <= k
    /\ s.refused <=> CatBad(L, k, c)
    /\ ~s.refused => s.tasks = Listed(CatGet(L), CatRows(L) \cap (1..k))

\* Line k and what is below the sections.
LEMMA CatLine ==
    ASSUME NEW L \in Seq(CatalogLine), NEW k \in 1..Len(L)
    PROVE  /\ Heading(L[k]) => /\ \A s : k \notin CatBelow(L, s)
                               /\ \A s \in CatSections(L) : s < k => \A i \in CatBelow(L, s) : i <= k - 1
           /\ ~Heading(L[k]) => \A s : k \in CatBelow(L, s) <=> s = CatUnder(L, k)
           /\ \A i \in CatBelow(L, k) : i > k
           /\ CatUnder(L, k + 1) = IF Heading(L[k]) THEN k ELSE CatUnder(L, k)
           /\ CatUnder(L, k) \in 0..k - 1
<1>0. Len(L) \in Nat /\ k \in Nat \ {0} /\ L[k] \in CatalogLine
  OBVIOUS
<1>1. Heading(L[k]) <=> L[k].kind \in CatHeads
  BY <1>0, CatalogLineIs
<1>2. CatUnder(L, k + 1) = IF Heading(L[k]) THEN k ELSE CatUnder(L, k)
  BY <1>0, <1>1, HeadingNext DEF CatUnder
<1>3. CatUnder(L, k) \in 0..k - 1
  BY <1>0, HeadingType DEF CatUnder
<1>4. \A s : k \in CatBelow(L, s) <=> ~Heading(L[k]) /\ s = CatUnder(L, k)
  BY DEF CatBelow
<1>5. ASSUME Heading(L[k]), NEW s \in CatSections(L), s < k, NEW i \in CatBelow(L, s)
      PROVE  i <= k - 1
  <2>1. i \in Nat /\ i # k /\ CatUnder(L, i) = s /\ s \in Nat
    BY <1>5 DEF CatBelow, CatSections
  <2>2. ASSUME i > k PROVE FALSE
    <3>1. k \in 1..i - 1
      BY <1>0, <2>1, <2>2
    <3>2. k <= CatUnder(L, i)
      BY <1>1, <1>5, <2>1, <3>1, HeadingLast DEF CatUnder
    <3> QED
      BY <1>0, <1>5, <2>1, <3>2
  <2> QED
    BY <1>0, <2>1, <2>2
<1>6. ASSUME NEW i \in CatBelow(L, k) PROVE i > k
  <2>1. i \in Nat \ {0} /\ CatUnder(L, i) = k
    BY DEF CatBelow
  <2>2. CatUnder(L, i) \in 0..i - 1
    BY <2>1, HeadingType DEF CatUnder
  <2> QED
    BY <1>0, <2>1, <2>2
<1> QED
  BY <1>2, <1>3, <1>4, <1>5, <1>6

\* They are sets of line numbers.
LEMMA CatTypes ==
    ASSUME NEW L \in Seq(CatalogLine), NEW s
    PROVE  /\ CatSections(L) \in SUBSET (1..Len(L)) /\ CatRows(L) \in SUBSET (1..Len(L))
           /\ CatBelow(L, s) \in SUBSET (1..Len(L))
           /\ CatHeaders(L, s) \in SUBSET CatBelow(L, s)
           /\ CatBody(L, s) \in SUBSET CatBelow(L, s)
  BY DEF CatSections, CatRows, CatBelow, CatHeaders, CatBody

\* What a line that is no heading adds to what is said of the lines before it.
LEMMA CatOther ==
    ASSUME NEW L \in Seq(CatalogLine), NEW k \in 1..Len(L), ~Heading(L[k]),
           NEW c, c = CatUnder(L, k)
    PROVE  /\ (\E i \in CatHeaders(L, c) : i <= k) <=>
                  \/ \E i \in CatHeaders(L, c) : i <= k - 1
                  \/ L[k].kind = "header" /\ CatFits(L, c, k)
           /\ k \in CatBody(L, c) <=> \E i \in CatHeaders(L, c) : i <= k - 1
           /\ k \in CatRows(L) <=>
                  c \in CatSections(L) /\ k \in CatBody(L, c) /\ L[k].kind = "row"
           /\ CatBad(L, k, c) <=>
                  \/ CatBad(L, k - 1, c)
                  \/ /\ c \in CatSections(L) /\ k \in CatBody(L, c)
                     /\ L[k].kind # "else" /\ ~CatFits(L, c, k)
<1>0. Len(L) \in Nat /\ k \in Nat
  OBVIOUS
<1>1. \A s : k \in CatBelow(L, s) <=> s = c
  BY CatLine
<1>2. \A s : \A i \in CatHeaders(L, s) : i \in Nat
  BY DEF CatHeaders, CatBelow
<1>3. \A s : \A i \in CatBody(L, s) : i \in Nat
  BY DEF CatBody, CatBelow
<1>4. \A i \in Nat : (i <= k <=> i <= k - 1 \/ i = k) /\ (i < k <=> i <= k - 1)
  BY <1>0
<1>5. \A s \in CatSections(L) : s \in Nat /\ s # k
  <2>1. L[k] \in CatalogLine
    OBVIOUS
  <2>2. L[k].kind \notin Tables
    BY <2>1 DEF Heading
  <2> QED
    BY <2>2 DEF CatSections
<1>6. k \in CatHeaders(L, c) <=> L[k].kind = "header" /\ CatFits(L, c, k)
  BY <1>1 DEF CatHeaders
<1>7. k \in CatBody(L, c) <=> \E i \in CatHeaders(L, c) : i <= k - 1
  <2>1. k \in CatBody(L, c) <=> \E i \in CatHeaders(L, c) : i < k
    BY <1>1 DEF CatBody
  <2> QED
    BY <1>2, <1>4, <2>1
<1>8. \A s : k \in CatBody(L, s) => s = c
  BY <1>1 DEF CatBody
<1>9. k \in CatRows(L) <=> c \in CatSections(L) /\ k \in CatBody(L, c) /\ L[k].kind = "row"
  <2>1. k \in CatRows(L) <=> L[k].kind = "row" /\ \E s \in CatSections(L) : k \in CatBody(L, s)
    BY DEF CatRows
  <2> QED
    BY <1>8, <2>1
<1>10. ASSUME NEW s \in CatSections(L)
       PROVE  /\ s <= k <=> s <= k - 1
              /\ (\E i \in CatBody(L, s) : i <= k /\ L[i].kind # "else" /\ ~CatFits(L, s, i)) <=>
                     \/ \E i \in CatBody(L, s) : i <= k - 1 /\ L[i].kind # "else" /\ ~CatFits(L, s, i)
                     \/ s = c /\ k \in CatBody(L, c) /\ L[k].kind # "else" /\ ~CatFits(L, c, k)
  <2>1. s <= k <=> s <= k - 1
    BY <1>4, <1>5
  <2>2. \A i \in CatBody(L, s) : i <= k <=> i <= k - 1 \/ i = k
    BY <1>3, <1>4
  <2>3. k \in CatBody(L, s) <=> s = c /\ k \in CatBody(L, c)
    BY <1>8
  <2> QED
    BY <2>1, <2>2, <2>3
<1>11. CatBad(L, k, c) <=>
         \/ CatBad(L, k - 1, c)
         \/ /\ c \in CatSections(L) /\ k \in CatBody(L, c)
            /\ L[k].kind # "else" /\ ~CatFits(L, c, k)
  BY <1>10 DEF CatBad
<1>12. (\E i \in CatHeaders(L, c) : i <= k) <=>
          \/ \E i \in CatHeaders(L, c) : i <= k - 1
          \/ L[k].kind = "header" /\ CatFits(L, c, k)
  BY <1>2, <1>4, <1>6
<1> QED
  BY <1>7, <1>9, <1>11, <1>12

\* What a heading ends.
LEMMA CatHeading ==
    ASSUME NEW L \in Seq(CatalogLine), NEW k \in 1..Len(L), Heading(L[k]),
           NEW c, c = CatUnder(L, k)
    PROVE  /\ ~\E i \in CatHeaders(L, k) : i <= k
           /\ k \notin CatRows(L)
           /\ k \in CatSections(L) <=> L[k].kind \in Tables
           /\ CatBad(L, k, k) <=>
                  \/ CatBad(L, k - 1, c)
                  \/ c \in CatSections(L) /\ ~\E i \in CatHeaders(L, c) : i <= k - 1
<1>0. Len(L) \in Nat /\ k \in Nat /\ c \in 0..k - 1
  BY CatLine
<1>1. \A s : k \notin CatBelow(L, s)
  BY CatLine
<1>2. \A s \in CatSections(L) : s < k => \A i \in CatBelow(L, s) : i <= k - 1
  BY CatLine
<1>3. \A i \in CatBelow(L, k) : i > k
  BY CatLine
<1>4. \A s : \A i \in CatBelow(L, s) : i \in Nat
  BY DEF CatBelow
<1>5. \A i \in Nat : i <= k <=> i <= k - 1 \/ i = k
  BY <1>0
<1>6. ~\E i \in CatHeaders(L, k) : i <= k
  BY <1>0, <1>3, <1>4, CatTypes
<1>7. k \notin CatRows(L)
  <2>1. k \in CatRows(L) => \E s \in CatSections(L) : k \in CatBody(L, s)
    BY DEF CatRows
  <2> QED
    BY <1>1, <2>1, CatTypes
<1>8. k \in CatSections(L) <=> L[k].kind \in Tables
  BY DEF CatSections
<1>9. ASSUME NEW s \in CatSections(L)
      PROVE  /\ s <= k /\ s # k <=> s <= k - 1
             /\ \A i \in CatBody(L, s) : i <= k <=> i <= k - 1
             /\ s = c => s <= k - 1 /\ (CatHeaders(L, s) = {} <=> ~\E i \in CatHeaders(L, s) : i <= k - 1)
  <2>1. s \in Nat
    BY DEF CatSections
  <2>2. s <= k /\ s # k <=> s <= k - 1
    BY <1>0, <2>1
  <2>3. \A i \in CatBody(L, s) : i <= k <=> i <= k - 1
    BY <1>1, <1>4, <1>5, CatTypes
  <2>4. s = c => s <= k - 1 /\ s < k
    BY <1>0, <2>1
  <2>5. s = c => \A i \in CatHeaders(L, s) : i <= k - 1
    BY <1>2, <2>4, CatTypes
  <2> QED
    BY <2>2, <2>3, <2>4, <2>5
<1>10. CatBad(L, k, k) <=>
         \/ CatBad(L, k - 1, c)
         \/ c \in CatSections(L) /\ ~\E i \in CatHeaders(L, c) : i <= k - 1
  BY <1>9 DEF CatBad
<1> QED
  BY <1>6, <1>7, <1>8, <1>10

\* Rows make tasks of the catalogue.
LEMMA CatGetType ==
    ASSUME NEW L \in Seq(CatalogLine)
    PROVE  CatGet(L) \in [1..Len(L) -> CatalogTasks]
<1>1. \A i \in 1..Len(L) : L[i] \in CatalogLine /\ i \in Nat
  OBVIOUS
<1> QED
  BY <1>1 DEF CatGet, CatalogTasks

\* One line of the catalogue.
LEMMA CatStepAgrees ==
    ASSUME NEW L \in Seq(CatalogLine), NEW k \in 1..Len(L), NEW s \in CatalogStates,
           CatAfter(L, s, k - 1)
    PROVE  CatAfter(L, CatalogNext(s, L[k]), k)
<1> DEFINE l == L[k]
           t == [s EXCEPT !.number = @ + 1]
           c == CatUnder(L, k)
           In == c \in CatSections(L)
           Seen == \E i \in CatHeaders(L, c) : i <= k - 1
           Kinds0 == {L[i].kind : i \in {i \in 1..k - 1 : L[i].kind \in CatHeads}}
           Kinds1 == {L[i].kind : i \in {i \in 1..k : L[i].kind \in CatHeads}}
           G == CatGet(L)
           R == CatRows(L)
<1>0. /\ Len(L) \in Nat /\ l \in CatalogLine /\ k \in Nat \ {0} /\ (k - 1) + 1 = k
      /\ R \in SUBSET (1..Len(L))
  BY CatTypes
<1>1. /\ t.number = k /\ t.found = Kinds0 /\ t.table = (IF In THEN L[c].kind ELSE "none")
      /\ (t.header <=> In /\ Seen) /\ (t.refused <=> CatBad(L, k - 1, c))
      /\ (~t.refused => t.tasks = Listed(G, R \cap (1..k - 1)))
      /\ t.header \in BOOLEAN /\ t.refused \in BOOLEAN /\ t \in CatalogStates
  BY <1>0 DEF CatAfter, CatalogStates
<1>2. l.kind \in {"queue", "unused", "heading", "else", "header", "row", "dash"}
  BY <1>0, CatalogLineIs
<1>3. In => L[c].kind \in Tables
  BY DEF CatSections
<1>4. "none" \notin Tables
  BY DEF Tables
<1>5. /\ R \cap (1..k - 1) \in SUBSET (1..k - 1)
      /\ R \cap (1..k) = IF k \in R THEN (R \cap (1..k - 1)) \cup {k} ELSE R \cap (1..k - 1)
  BY <1>0, UpToNext
<1>6. CatUnder(L, k + 1) = IF Heading(l) THEN k ELSE c
  BY CatLine
<1>7. Kinds1 = IF Heading(l) THEN Kinds0 \cup {l.kind} ELSE Kinds0
  <2>1. 1..k = (1..k - 1) \cup {k}
    BY <1>0
  <2>2. Heading(l) <=> l.kind \in CatHeads
    BY <1>0, CatalogLineIs
  <2> HIDE DEF l
  <2>3. {i \in 1..k : L[i].kind \in CatHeads} =
           IF L[k].kind \in CatHeads THEN {i \in 1..k - 1 : L[i].kind \in CatHeads} \cup {k}
           ELSE {i \in 1..k - 1 : L[i].kind \in CatHeads}
    BY <2>1
  <2> QED
    BY <2>2, <2>3 DEF l
<1>8. CatalogNext(s, l) = CatalogStep(t, l) /\ CatalogNext(s, l) \in CatalogStates
  BY <1>0, CatalogNextType DEF CatalogNext
<1>c. c = CatUnder(L, k)
  OBVIOUS
<1> HIDE DEF t, G, R, Kinds0, Kinds1, c, In, Seen
  \* What is to be shown of the next state, by what is known of line k.
<1>9. ASSUME NEW u \in CatalogStates, u.number = k, u.found = Kinds1,
             LET d == CatUnder(L, k + 1) IN
             /\ u.table = IF d \in CatSections(L) THEN L[d].kind ELSE "none"
             /\ u.header <=> d \in CatSections(L) /\ \E i \in CatHeaders(L, d) : i <= k
             /\ u.refused <=> CatBad(L, k, d),
             ~u.refused => u.tasks = Listed(G, R \cap (1..k))
      PROVE  CatAfter(L, u, k)
  BY <1>9 DEF CatAfter, G, R, Kinds1
<1>10. ASSUME Heading(l), NEW u \in CatalogStates, u = CatalogStep(t, l) PROVE CatAfter(L, u, k)
  <2>1. /\ ~\E i \in CatHeaders(L, k) : i <= k
        /\ k \notin R
        /\ k \in CatSections(L) <=> l.kind \in Tables
        /\ CatBad(L, k, k) <=> CatBad(L, k - 1, c) \/ (In /\ ~Seen)
    BY <1>10, <1>c, CatHeading DEF R, In, Seen
  <2>2. u = Enter(t, l)
    BY <1>10 DEF CatalogStep
  <2>3. /\ u.number = k /\ u.found = Kinds0 \cup {l.kind} /\ u.tasks = t.tasks
        /\ u.table = IF l.kind \in Tables THEN l.kind ELSE "none"
        /\ u.header = FALSE
        /\ u.refused = (t.refused \/ (t.table # "none" /\ ~t.header))
    BY <1>1, <2>2 DEF Enter, CatalogStates
  <2>4. t.table # "none" <=> In
    BY <1>1, <1>3, <1>4
  <2>5. u.refused <=> CatBad(L, k, k)
    BY <1>1, <2>1, <2>3, <2>4
  <2>6. ~u.refused => u.tasks = Listed(G, R \cap (1..k))
    BY <1>1, <1>5, <2>1, <2>3
  <2>7. CatUnder(L, k + 1) = k
    BY <1>6, <1>10
  <2>8. u.found = Kinds1
    BY <1>7, <1>10, <2>3
  <2> QED
    BY <1>9, <2>1, <2>3, <2>5, <2>6, <2>7, <2>8
<1>11. ASSUME ~Heading(l), NEW u \in CatalogStates, u = CatalogStep(t, l) PROVE CatAfter(L, u, k)
  <2> DEFINE fits == CatFits(L, c, k)
             next == Task("catalog", l, "open", k)
             bad == In /\ k \in CatBody(L, c) /\ l.kind # "else" /\ ~fits
  <2>1. /\ (\E i \in CatHeaders(L, c) : i <= k) <=> Seen \/ (l.kind = "header" /\ fits)
        /\ k \in CatBody(L, c) <=> Seen
        /\ k \in R <=> In /\ k \in CatBody(L, c) /\ l.kind = "row"
        /\ CatBad(L, k, c) <=> CatBad(L, k - 1, c) \/ bad
    BY <1>11, <1>c, CatOther DEF R, In, Seen
  <2>2. CatUnder(L, k + 1) = c /\ Kinds1 = Kinds0
    BY <1>6, <1>7, <1>11
  <2>3. In => (fits <=> l.kind # "else" /\ l.of = t.table)
    BY <1>1 DEF CatFits, In
  <2>4. t.table = "none" <=> ~In
    BY <1>1, <1>3, <1>4
  <2> HIDE DEF fits
  <2>5. CASE \/ ~In \/ l.kind = "else"
             \/ ~Seen /\ ~(l.kind = "header" /\ fits)
             \/ Seen /\ fits /\ l.kind = "dash"
    <3>1. u = t
      BY <1>1, <1>2, <1>11, <2>3, <2>4, <2>5 DEF CatalogStep
    <3>2. k \notin R /\ (CatBad(L, k, c) <=> CatBad(L, k - 1, c))
      BY <2>1, <2>5
    <3>3. R \cap (1..k) = R \cap (1..k - 1)
      BY <1>5, <3>2
    <3>4. In => ((\E i \in CatHeaders(L, c) : i <= k) <=> Seen)
      BY <2>1, <2>5
    <3> QED
      BY <1>1, <1>9, <2>2, <3>1, <3>2, <3>3, <3>4 DEF In
  <2>6. CASE In /\ l.kind = "header" /\ fits
    <3>1. u = [t EXCEPT !.header = TRUE]
      BY <1>1, <1>11, <2>3, <2>4, <2>6 DEF CatalogStep
    <3>2. /\ u.number = k /\ u.found = Kinds0 /\ u.tasks = t.tasks /\ u.table = t.table
          /\ u.header = TRUE /\ u.refused = t.refused
      BY <1>1, <3>1 DEF CatalogStates
    <3>3. k \notin R /\ (CatBad(L, k, c) <=> CatBad(L, k - 1, c))
      BY <2>1, <2>6
    <3>4. R \cap (1..k) = R \cap (1..k - 1)
      BY <1>5, <3>3
    <3>5. \E i \in CatHeaders(L, c) : i <= k
      BY <2>1, <2>6
    <3> QED
      BY <1>1, <1>9, <2>2, <2>6, <3>2, <3>3, <3>4, <3>5 DEF In
  <2>7. CASE In /\ Seen /\ l.kind # "else" /\ ~fits
    <3>1. u = [t EXCEPT !.refused = TRUE]
      BY <1>1, <1>11, <2>3, <2>4, <2>7 DEF CatalogStep
    <3>2. /\ u.number = k /\ u.found = Kinds0 /\ u.tasks = t.tasks /\ u.table = t.table
          /\ u.header = t.header /\ u.refused = TRUE
      BY <1>1, <3>1 DEF CatalogStates
    <3>3. CatBad(L, k, c)
      BY <2>1, <2>7
    <3>4. \E i \in CatHeaders(L, c) : i <= k
      BY <2>1, <2>7
    <3> QED
      BY <1>1, <1>9, <2>2, <2>7, <3>2, <3>3, <3>4 DEF In
  <2>8. CASE In /\ Seen /\ fits /\ l.kind = "row"
    <3>1. u = [t EXCEPT !.tasks = Append(@, next)]
      BY <1>1, <1>11, <2>3, <2>4, <2>8 DEF CatalogStep
    <3>2. /\ u.number = k /\ u.found = Kinds0 /\ u.tasks = Append(t.tasks, next)
          /\ u.table = t.table /\ u.header = t.header /\ u.refused = t.refused
      <4> HIDE DEF next
      <4> QED
        BY <1>1, <3>1 DEF CatalogStates
    <3>3. k \in R /\ (CatBad(L, k, c) <=> CatBad(L, k - 1, c))
      BY <2>1, <2>8
    <3>4. G[k] = next
      BY DEF G, CatGet
    <3> DEFINE J == R \cap (1..k - 1)
    <3>5. J \in SUBSET (1..k - 1)
      BY <1>5
    <3> HIDE DEF J
    <3>6. Listed(G, J \cup {k}) = Append(Listed(G, J), G[k])
      BY <1>0, <3>5, ListedAppend
    <3>7. Listed(G, R \cap (1..k)) = Append(Listed(G, R \cap (1..k - 1)), next)
      BY <1>5, <3>3, <3>4, <3>6 DEF J
    <3>8. \E i \in CatHeaders(L, c) : i <= k
      BY <2>1, <2>8
    <3>9. ~u.refused => u.tasks = Listed(G, R \cap (1..k))
      BY <1>1, <3>2, <3>7
    <3> QED
      BY <1>1, <1>9, <2>2, <2>8, <3>2, <3>3, <3>8, <3>9 DEF In
  <2>9. Heading(l) <=> l.kind \in {"queue", "unused", "heading"}
    BY <1>0, CatalogLineIs
  <2> QED
    BY <1>2, <1>11, <2>5, <2>6, <2>7, <2>8, <2>9
<1> QED
  BY <1>8, <1>10, <1>11

\* The catalogue's parser does what is meant by the document.
LEMMA CatAgrees ==
    ASSUME NEW L \in Seq(CatalogLine)
    PROVE  Catalog(L) = CatalogMeaning(L)
<1> DEFINE n == Len(L)
           end == FoldLeft(CatalogNext, CatalogStart, L)
           c == CatUnder(L, n + 1)
           S == CatSections(L)
           Found == {L[i].kind : i \in {i \in 1..n : L[i].kind \in CatHeads}}
           Amiss == \/ {L[i].kind : i \in S} # Tables
                    \/ \E i \in S : CatHeaders(L, i) = {}
                    \/ \E i \in S : \E j \in CatBody(L, i) : L[j].kind # "else" /\ ~CatFits(L, i, j)
<1>0. n \in Nat /\ DOMAIN L = 1..n
  OBVIOUS
<1>1. PICK f \in [0..n -> CatalogStates] :
         /\ f[0] = CatalogStart
         /\ \A k \in 1..n : f[k] = CatalogNext(f[k - 1], L[k])
         /\ end = f[n]
  BY CatalogRun
<1> DEFINE I == {k \in 0..n : CatAfter(L, f[k], k)}
<1>2. 0 \in I
  <2>1. CatUnder(L, 0 + 1) = 0
    BY HeadingFirst DEF CatUnder
  <2>2. 0 \notin CatSections(L) /\ CatRows(L) \cap (1..0) = {}
    BY DEF CatSections
  <2>3. ~CatBad(L, 0, 0)
    <3>1. ASSUME NEW i \in CatSections(L) PROVE ~(i <= 0) /\ \A j \in CatBody(L, i) : ~(j <= 0)
      BY <1>0, CatTypes DEF CatSections, CatBelow
    <3> QED
      BY <3>1 DEF CatBad
  <2>4. {L[i].kind : i \in {i \in 1..0 : L[i].kind \in CatHeads}} = {}
    OBVIOUS
  <2> QED
    BY <1>0, <1>1, <2>1, <2>2, <2>3, <2>4, ListedEmpty DEF CatAfter, CatalogStart
<1>3. ASSUME NEW k \in 1..n, k - 1 \in I PROVE k \in I
  <2>1. f[k - 1] \in CatalogStates /\ k \in 0..n
    BY <1>0
  <2> QED
    BY <1>0, <1>1, <1>3, <2>1, CatStepAgrees
<1> HIDE DEF I
<1>4. n \in I
  <2>1. 0..n \subseteq I
    BY <1>0, <1>2, <1>3, UpTo
  <2> QED
    BY <1>0, <2>1
<1>5. CatAfter(L, end, n) /\ end \in CatalogStates
  BY <1>0, <1>1, <1>4 DEF I
<1>6. Catalog(L) = IF \/ end.refused \/ ~(Tables \subseteq end.found)
                      \/ end.table # "none" /\ ~end.header
                   THEN Refused ELSE end.tasks
  BY CatalogIs
<1> HIDE DEF end
<1>7. CatRows(L) \cap (1..n) = CatRows(L) /\ CatRows(L) \in SUBSET (1..n)
  BY <1>0, CatTypes
<1>8. Listed(CatGet(L), CatRows(L)) = TasksAt("catalog", L, CatRows(L), Open)
  <2>1. \A i \in DOMAIN Ascending(CatRows(L)) : Ascending(CatRows(L))[i] \in 1..n
    BY <1>0, <1>7, AscendingType
  <2> QED
    BY <2>1 DEF Listed, TasksAt, CatGet, Open
<1>9. CatalogMeaning(L) = IF Amiss THEN Refused ELSE TasksAt("catalog", L, CatRows(L), Open)
  BY <1>0 DEF CatalogMeaning, CatRows, CatBody, CatHeaders, CatFits, CatBelow, CatSections,
              CatUnder, CatHeads
<1>10. Tables \subseteq end.found <=> {L[i].kind : i \in S} = Tables
  <2>1. end.found = Found
    BY <1>5 DEF CatAfter
  <2>2. S = {i \in 1..n : L[i].kind \in Tables}
    BY DEF CatSections
  <2> HIDE DEF S
  <2>3. Tables \subseteq CatHeads
    BY DEF CatHeads
  <2> QED
    BY <2>1, <2>2, <2>3
<1>11. \A i \in S : i <= n /\ \A j \in CatBelow(L, i) : j <= n
  BY <1>0, CatTypes
<1>12. end.table # "none" <=> c \in S
  <2>1. end.table = IF c \in S THEN L[c].kind ELSE "none"
    BY <1>5 DEF CatAfter
  <2>2. c \in S => L[c].kind # "none"
    BY DEF CatSections, Tables
  <2> QED
    BY <2>1, <2>2
<1>13. c \in S => (end.header <=> CatHeaders(L, c) # {})
  <2>1. end.header <=> c \in S /\ \E i \in CatHeaders(L, c) : i <= n
    BY <1>5 DEF CatAfter
  <2>2. c \in S => \A i \in CatHeaders(L, c) : i <= n
    BY <1>11, CatTypes
  <2> QED
    BY <2>1, <2>2
<1>14. end.refused <=> \/ \E i \in S : i # c /\ CatHeaders(L, i) = {}
                       \/ \E i \in S : \E j \in CatBody(L, i) : L[j].kind # "else" /\ ~CatFits(L, i, j)
  <2>1. end.refused <=> CatBad(L, n, c)
    BY <1>5 DEF CatAfter
  <2>2. \A i \in S : i <= n /\ \A j \in CatBody(L, i) : j <= n
    BY <1>11, CatTypes
  <2> HIDE DEF c
  <2> QED
    BY <2>1, <2>2 DEF CatBad
<1>15. ~end.refused => end.tasks = Listed(CatGet(L), CatRows(L))
  BY <1>5, <1>7 DEF CatAfter
<1> HIDE DEF c, S
<1>16. (\/ end.refused \/ ~(Tables \subseteq end.found)
        \/ end.table # "none" /\ ~end.header) <=> Amiss
  BY <1>10, <1>12, <1>13, <1>14
<1> QED
  BY <1>6, <1>8, <1>9, <1>15, <1>16

\* _handoff_tasks and _catalog_tasks return the items under headings of current
\* work and the rows below the header of their own section, of any document,
\* however sections repeat or interrupt each other.
THEOREM SectionTasks == Spec => []SectionTasksAgree
<1>1. Lines => SectionTasksAgree
  <2> SUFFICES ASSUME Lines PROVE SectionTasksAgree
    OBVIOUS
  <2>1. PICK L : L = lines
    OBVIOUS
  <2>2. ASSUME source = "handoff" PROVE Handoff(lines) = HandoffMeaning(lines)
    <3>1. L \in Seq(HandoffLine)
      BY <2>1, <2>2 DEF Lines, ClassSources, HandoffLine
    <3> QED
      BY <2>1, <3>1, HandoffAgrees
  <2>3. ASSUME source = "catalog" PROVE Catalog(lines) = CatalogMeaning(lines)
    <3>1. L \in Seq(CatalogLine)
      BY <2>1, <2>3 DEF Lines, ClassSources, CatalogLine
    <3> QED
      BY <2>1, <3>1, CatAgrees
  <2> QED
    BY <2>2, <2>3 DEF SectionTasksAgree
<1> QED
  BY <1>1, LinesInv, PTL

------------------------------------------------------------------------------
(***************************************************************************)
(* A class document: of a section the lines with cells, its first table's  *)
(* parser after some of them, which goes by the first two of these, and    *)
(* the tables of both sections.                                            *)
(***************************************************************************)

\* The lines of a class document, the states and the steps of a table's parser.
ClassLine == AnyClassLine
TableStates == [header: Seq(STRING), separator: BOOLEAN, over: BOOLEAN, refused: BOOLEAN,
                rows: Seq(Nat), number: Nat]
TableStart(p) == [header |-> <<>>, separator |-> FALSE, over |-> FALSE, refused |-> FALSE,
                  rows |-> <<>>, number |-> p]
TableNext(s, line) == TableStep([s EXCEPT !.number = @ + 1], line)
TableLine == {l \in ClassLine : l.kind \in {"text", "cells"}}

\* The kinds of lines.
LEMMA ClassLineIs ==
    ASSUME NEW l \in ClassLine
    PROVE  /\ l.kind \in Headings \cup {"text", "cells"}
           /\ l.kind = "cells" => l.cells \in Seq(STRING) \ {<<>>}
  BY DEF ClassLine, AnyClassLine, Headings

\* What a step does, by what the line is.
LEMMA TableStepIs ==
    ASSUME NEW t \in TableStates, NEW l \in TableLine
    PROVE  /\ t.over \/ t.refused => TableStep(t, l) = t
           /\ ~t.over /\ ~t.refused =>
                 /\ l.kind = "text" => TableStep(t, l) = [t EXCEPT !.over = t.separator]
                 /\ l.kind # "text" =>
                       /\ t.header = <<>> => TableStep(t, l) = [t EXCEPT !.header = l.cells]
                       /\ t.header # <<>> =>
                             TableStep(t, l) =
                                IF \/ Len(l.cells) # Len(t.header)
                                   \/ Separator(l) <=> t.separator
                                THEN [t EXCEPT !.refused = TRUE]
                                ELSE IF Separator(l) THEN [t EXCEPT !.separator = TRUE]
                                ELSE [t EXCEPT !.rows = Append(@, t.number)]
<1>1. t.separator \in BOOLEAN /\ Separator(l) \in BOOLEAN
  BY DEF TableStates, Separator
<1> QED
  BY <1>1 DEF TableStep, Malformed

\* A step keeps the type of the state.
LEMMA TableNextType ==
    ASSUME NEW s \in TableStates, NEW l \in TableLine
    PROVE  TableNext(s, l) \in TableStates
<1> DEFINE t == [s EXCEPT !.number = @ + 1]
<1>1. t \in TableStates
  BY DEF TableStates
<1>2. l.kind # "text" => l.cells \in Seq(STRING)
  BY ClassLineIs DEF TableLine
<1> HIDE DEF t
<1>3. Append(t.rows, t.number) \in Seq(Nat)
  BY <1>1 DEF TableStates
<1>4. TableStep(t, l) \in TableStates
  BY <1>1, <1>2, <1>3 DEF TableStep, TableStates
<1> QED
  BY <1>4 DEF TableNext, t

\* The states that it goes through from line p.
LEMMA TableRun ==
    ASSUME NEW p \in Nat, NEW s \in Seq(TableLine)
    PROVE  \E h \in [0..Len(s) -> TableStates] :
              /\ h[0] = TableStart(p)
              /\ \A k \in 1..Len(s) : h[k] = TableNext(h[k - 1], s[k])
              /\ FoldLeft(TableNext, TableStart(p), s) = h[Len(s)]
<1> DEFINE n == Len(s)
           F == [x \in TableStates \X TableLine |-> TableNext(x[1], x[2])]
           Is(g) == g = [T \in SUBSET DOMAIN s |->
                            IF T = {} THEN TableStart(p)
                            ELSE TableNext(g[T \ {Max(T)}], s[Max(T)])]
           fold == CHOOSE g : Is(g)
<1>0. n \in Nat /\ DOMAIN s = 1..n /\ \A i \in 1..n : s[i] \in TableLine
  OBVIOUS
<1>1. F \in [TableStates \X TableLine -> TableStates] /\ TableStart(p) \in TableStates
  BY TableNextType DEF TableStart, TableStates
<1>2. \A t \in TableStates : \A l \in TableLine : F[<<t, l>>] = TableNext(t, l)
  OBVIOUS
<1> HIDE DEF F
<1>3. \A T \in SUBSET (1..n) : T # {} => s[Max(T)] \in TableLine /\ T \ {Max(T)} \in SUBSET (1..n)
  BY <1>0, MaxIn
<1>4. Is(fold)
  <2>1. PICK g : Folds(g, TableStates, F, TableStart(p), s)
    BY <1>1, FoldExists
  <2>2. g \in [SUBSET (1..n) -> TableStates]
    BY <2>1 DEF Folds
  <2>3. ASSUME NEW T \in SUBSET (1..n)
        PROVE  g[T] = IF T = {} THEN TableStart(p) ELSE TableNext(g[T \ {Max(T)}], s[Max(T)])
    BY <1>2, <1>3, <2>1, <2>2 DEF Folds
  <2>4. Is(g)
    BY <1>0, <2>2, <2>3
  <2> QED
    BY <2>4
<1>5. FoldLeft(TableNext, TableStart(p), s) = fold[1..n]
  BY <1>0 DEF FoldLeft, MapThenFoldSet
<1> HIDE DEF fold
<1>6. fold[{}] = TableStart(p)
  BY <1>0, <1>4
<1>7. Unfolds(fold, TableStates, F, TableStart(p), s)
  <2>1. ASSUME NEW T \in SUBSET (1..n), T # {}, fold[T \ {Max(T)}] \in TableStates
        PROVE  fold[T] = F[<<fold[T \ {Max(T)}], s[Max(T)]>>]
    <3>1. fold[T] = TableNext(fold[T \ {Max(T)}], s[Max(T)])
      BY <1>0, <1>4, <2>1
    <3> QED
      BY <1>2, <1>3, <2>1, <3>1
  <2> QED
    BY <1>6, <2>1 DEF Unfolds
<1>8. PICK h : RunsThrough(h, fold, TableStates, F, TableStart(p), s)
  BY <1>1, <1>7, FoldRuns
<1> QED
  BY <1>0, <1>2, <1>5, <1>8 DEF RunsThrough

\* The parser, by the end of its fold.
LEMMA FirstTableIs ==
    ASSUME NEW s, NEW p
    PROVE  LET end == FoldLeft(TableNext, TableStart(p), s)
           IN  FirstTable(s, p) = IF end.refused \/ (end.header # <<>> /\ ~end.separator)
                                  THEN Refused ELSE [header |-> end.header, rows |-> end.rows]
  BY DEF FirstTable, Loop, FoldLeft, TableNext, TableStart, MapThenFoldSet

\* Lines p + 1 to e - 1 are the section's.
Section(L, p, e) ==
    /\ p \in Nat /\ e \in Nat
    /\ \A i \in p + 1..e - 1 : L[i] \in TableLine

\* Its lines with cells.
CellLines(L, p, e) == {i \in p + 1..e - 1 : L[i].kind # "text"}

\* The first of the lines with cells, and the second of them.
IsHeader(D, b) == b \in D /\ \A i \in D : b <= i
IsSecond(D, b, c) == IsHeader(D, b) /\ c \in D \ {b} /\ \A i \in D \ {b} : c <= i

\* The lines of the table after its second one, c.
TableRows(L, e, c) == {i \in c + 1..e - 1 : \A j \in c..i : L[j].kind # "text"}

\* What the lines up to m of a table that begins with b and c are refused for.
TableBad(L, e, b, c, m) ==
    \/ Len(L[c].cells) # Len(L[b].cells) \/ ~Separator(L[c])
    \/ \E i \in TableRows(L, e, c) :
          i <= m /\ (Len(L[i].cells) # Len(L[b].cells) \/ Separator(L[i]))

\* A table of which no more than a header has been read.
Untouched(s) == ~s.separator /\ ~s.over /\ ~s.refused /\ s.rows = << >>

\* There is a line of text from line c to line m.
TextIn(L, c, m) == \E j \in c..m : L[j].kind = "text"

\* The table whose second line is c, after the lines up to m.
TableBody(L, e, b, c, s, m) ==
    /\ s.refused <=> TableBad(L, e, b, c, m)
    /\ ~s.refused =>
          /\ s.separator
          /\ s.over <=> TextIn(L, c, m)
          /\ s.rows = Ascending(TableRows(L, e, c) \cap (1..m))

\* The invariant of the parser, after the lines of a section up to m.
TableAfter(L, p, e, s, m) ==
    LET D == CellLines(L, p, e) IN
    /\ s.number = m
    /\ (\A i \in D : i > m) => s.header = <<>> /\ Untouched(s)
    /\ \A b \in D : IsHeader(D, b) /\ b <= m =>
          /\ s.header = L[b].cells
          /\ (\A i \in D \ {b} : i > m) => Untouched(s)
    /\ \A b, c \in D : IsSecond(D, b, c) /\ c <= m => TableBody(L, e, b, c, s, m)

\* What one more line, k, adds to the rows R of a table with the separator c.
RowsNext(L, R, c, k) ==
    /\ k \in R <=> L[k].kind # "text" /\ \A j \in c..k - 1 : L[j].kind # "text"
    /\ k \notin R => R \cap (1..k) = R \cap (1..k - 1)
    /\ k \in R => Ascending(R \cap (1..k)) = Append(Ascending(R \cap (1..k - 1)), k)

\* A line of the table is its last row, another leaves its rows as they are.
LEMMA TableRowsNext ==
    ASSUME NEW L, NEW e \in Nat, NEW c \in Nat \ {0}, NEW k \in c + 1..e - 1,
           NEW R, R = TableRows(L, e, c)
    PROVE  RowsNext(L, R, c, k)
<1> DEFINE S == R \cap (1..k - 1)
<1>1. k \in Nat \ {0} /\ c..k = (c..k - 1) \cup {k}
  OBVIOUS
<1>2. k \in R <=> L[k].kind # "text" /\ \A j \in c..k - 1 : L[j].kind # "text"
  BY <1>1 DEF TableRows
<1>3. R \in SUBSET (1..e - 1) /\ e - 1 \in Nat /\ k \in 1..e - 1
  BY DEF TableRows
<1>4. /\ S \in SUBSET (1..k - 1)
      /\ R \cap (1..k) = IF k \in R THEN S \cup {k} ELSE S
  BY <1>3, UpToNext
<1> HIDE DEF S
<1>5. Ascending(S \cup {k}) = Append(Ascending(S), k)
  BY <1>3, <1>4, AscendingAppend
<1> QED
  BY <1>2, <1>4, <1>5 DEF RowsNext, S

\* A line below the second line of a table.
LEMMA TableBodyStep ==
    ASSUME NEW L, NEW p, NEW e, Section(L, p, e), NEW k \in p + 1..e - 1,
           NEW b, NEW c \in p + 1..k - 1, NEW t \in TableStates, t.number = k,
           t.header = L[b].cells, t.header # <<>>, TableBody(L, e, b, c, t, k - 1)
    PROVE  TableBody(L, e, b, c, TableStep(t, L[k]), k)
<1> DEFINE l == L[k]
           u == TableStep(t, l)
           R == TableRows(L, e, c)
           Ill(i) == Len(L[i].cells) # Len(L[b].cells) \/ Separator(L[i])
           Text(m) == TextIn(L, c, m)
<1>0. /\ p \in Nat /\ e \in Nat /\ k \in Nat /\ c \in Nat \ {0} /\ k \in c + 1..e - 1 /\ l \in TableLine
      /\ l.kind \in {"text", "cells"}
      /\ \A i \in R : i \in Nat /\ (i <= k <=> i <= k - 1 \/ i = k)
  BY DEF Section, TableLine, TableRows
<1>a. R = TableRows(L, e, c)
  OBVIOUS
<1>1. /\ k \in R <=> l.kind # "text" /\ \A j \in c..k - 1 : L[j].kind # "text"
      /\ k \notin R => R \cap (1..k) = R \cap (1..k - 1)
      /\ k \in R => Ascending(R \cap (1..k)) = Append(Ascending(R \cap (1..k - 1)), k)
  <2>1. e \in Nat /\ c \in Nat \ {0} /\ k \in c + 1..e - 1
    BY <1>0
  <2> HIDE DEF R
  <2>2. RowsNext(L, R, c, k)
    BY <2>1, <1>a, TableRowsNext
  <2> QED
    BY <2>2 DEF RowsNext
<1>2. Text(k) <=> Text(k - 1) \/ l.kind = "text"
  <2>1. c..k = (c..k - 1) \cup {k}
    BY <1>0
  <2> QED
    BY <2>1 DEF TextIn
<1>3. TableBad(L, e, b, c, k) <=> TableBad(L, e, b, c, k - 1) \/ (k \in R /\ Ill(k))
  <2>1. (\E i \in R : i <= k /\ Ill(i)) <=> (\E i \in R : i <= k - 1 /\ Ill(i)) \/ (k \in R /\ Ill(k))
    <3> HIDE DEF R, Ill
    <3>1. k <= k
      BY <1>0
    <3> QED
      BY <1>0, <3>1
  <2> QED
    BY <2>1 DEF TableBad
<1>4. k \in R <=> ~Text(k)
  BY <1>0, <1>1, <1>2 DEF TextIn
<1>5. /\ t.refused <=> TableBad(L, e, b, c, k - 1)
      /\ ~t.refused => t.separator /\ (t.over <=> Text(k - 1))
                       /\ t.rows = Ascending(R \cap (1..k - 1))
      /\ t.separator \in BOOLEAN /\ t.over \in BOOLEAN /\ t.refused \in BOOLEAN
  BY DEF TableBody, TableStates
<1> DEFINE Holds == /\ u.refused <=> TableBad(L, e, b, c, k)
                    /\ ~u.refused => /\ u.separator
                                     /\ u.over <=> Text(k)
                                     /\ u.rows = Ascending(R \cap (1..k))
<1> HIDE DEF u
<1>6. Holds => TableBody(L, e, b, c, u, k)
  BY DEF TableBody
<1> HIDE DEF R, Text, Ill
<1> SUFFICES Holds
  BY <1>6 DEF u
<1>8. CASE t.refused \/ t.over
  <2>1. u = t
    BY <1>0, <1>8, TableStepIs DEF u
  <2> HIDE DEF l
  <2> QED
    BY <1>1, <1>2, <1>3, <1>4, <1>5, <1>8, <2>1
<1>9. CASE ~t.refused /\ ~t.over /\ l.kind = "text"
  <2>1. u = [t EXCEPT !.over = t.separator]
    BY <1>0, <1>9, TableStepIs DEF u
  <2>2. u.refused = t.refused /\ u.separator = t.separator /\ u.over = t.separator /\ u.rows = t.rows
    BY <2>1 DEF TableStates
  <2> QED
    BY <1>1, <1>2, <1>3, <1>4, <1>5, <1>9, <2>2
<1>10. CASE ~t.refused /\ ~t.over /\ l.kind # "text"
  <2>1. k \in R /\ ~Text(k)
    BY <1>2, <1>4, <1>5, <1>10
  <2>2. CASE Ill(k)
    <3>1. u = [t EXCEPT !.refused = TRUE]
      <4>1. Len(l.cells) # Len(t.header) \/ Separator(l)
        BY <2>2 DEF Ill
      <4>2. t.separator = TRUE
        BY <1>5, <1>10
      <4> QED
        BY <1>0, <1>10, <4>1, <4>2, TableStepIs DEF u
    <3>2. u.refused = TRUE
      BY <3>1 DEF TableStates
    <3> QED
      BY <1>3, <2>1, <2>2, <3>2
  <2>3. CASE ~Ill(k)
    <3>1. u = [t EXCEPT !.rows = Append(@, t.number)]
      <4>1. Len(l.cells) = Len(t.header) /\ ~Separator(l)
        BY <2>3 DEF Ill
      <4>2. t.separator = TRUE
        BY <1>5, <1>10
      <4> QED
        BY <1>0, <1>10, <4>1, <4>2, TableStepIs DEF u
    <3>2. u.refused = t.refused /\ u.separator = t.separator /\ u.over = t.over
          /\ u.rows = Append(t.rows, k)
      BY <3>1 DEF TableStates
    <3> QED
      BY <1>1, <1>3, <1>5, <1>10, <2>1, <2>3, <3>2
  <2> QED
    BY <2>2, <2>3
<1> QED
  BY <1>8, <1>9, <1>10

\* The second line of a table, which is to be its separator.
LEMMA TableSecond ==
    ASSUME NEW L, NEW p, NEW e, Section(L, p, e), NEW k \in p + 1..e - 1, L[k].kind # "text",
           NEW b, NEW t \in TableStates, t.number = k,
           t.header = L[b].cells, t.header # <<>>, Untouched(t)
    PROVE  TableBody(L, e, b, k, TableStep(t, L[k]), k)
<1> DEFINE l == L[k]
           u == TableStep(t, l)
<1>0. /\ p \in Nat /\ e \in Nat /\ k \in Nat /\ l \in TableLine
      /\ l.kind = "cells"
  BY DEF Section, TableLine
<1>1. TableRows(L, e, k) \cap (1..k) = {} /\ ~\E i \in TableRows(L, e, k) : i <= k
  BY <1>0 DEF TableRows
<1>2. TableBad(L, e, b, k, k) <=> Len(l.cells) # Len(t.header) \/ ~Separator(l)
  BY <1>1 DEF TableBad
<1>3. ~TextIn(L, k, k)
  BY <1>0 DEF TextIn
<1>4. u = IF Len(l.cells) # Len(t.header) \/ ~Separator(l) THEN [t EXCEPT !.refused = TRUE]
          ELSE [t EXCEPT !.separator = TRUE]
  BY <1>0, TableStepIs DEF Untouched
<1> HIDE DEF u
<1>5. CASE Len(l.cells) # Len(t.header) \/ ~Separator(l)
  <2>1. u.refused = TRUE
    BY <1>4, <1>5 DEF TableStates
  <2> QED
    BY <1>2, <1>5, <2>1 DEF TableBody, u
<1>6. CASE ~(Len(l.cells) # Len(t.header) \/ ~Separator(l))
  <2>1. u.refused = t.refused /\ u.separator = TRUE /\ u.over = t.over /\ u.rows = t.rows
    BY <1>4, <1>6 DEF TableStates
  <2> QED
    BY <1>1, <1>2, <1>3, <1>6, <2>1, AscendingEmpty DEF TableBody, Untouched, u
<1> QED
  BY <1>5, <1>6

\* One line of a section keeps the invariant.
LEMMA TableStepAgrees ==
    ASSUME NEW L, NEW p, NEW e, Section(L, p, e), NEW k \in p + 1..e - 1,
           NEW s \in TableStates, TableAfter(L, p, e, s, k - 1)
    PROVE  TableAfter(L, p, e, TableNext(s, L[k]), k)
<1> DEFINE l == L[k]
           t == [s EXCEPT !.number = @ + 1]
           u == TableStep(t, l)
           D == CellLines(L, p, e)
<1>0. /\ p \in Nat /\ e \in Nat /\ k \in Nat /\ l \in TableLine
      /\ l.kind \in {"text", "cells"}
  BY DEF Section, TableLine
<1>1. /\ t.number = k /\ t.header = s.header /\ t.separator = s.separator /\ t.over = s.over
      /\ t.refused = s.refused /\ t.rows = s.rows /\ t \in TableStates
  <2>1. s.number = k - 1 /\ k - 1 + 1 = k
    BY <1>0 DEF TableAfter
  <2>2. t \in TableStates
    BY DEF TableStates
  <2> QED
    BY <2>1, <2>2 DEF TableStates
<1>2. /\ k \in D <=> l.kind # "text"
      /\ \A i \in D : i \in p + 1..e - 1 /\ i \in Nat /\ L[i].cells \in Seq(STRING) \ {<<>>}
      /\ \A i \in D : (i > k <=> i > k - 1 /\ i # k) /\ (i <= k <=> i <= k - 1 \/ i = k)
  <2>1. k \in D <=> l.kind # "text"
    BY DEF CellLines
  <2>2. ASSUME NEW i \in D PROVE i \in p + 1..e - 1 /\ i \in Nat /\ L[i].cells \in Seq(STRING) \ {<<>>}
    <3>1. i \in p + 1..e - 1 /\ L[i].kind # "text"
      BY DEF CellLines
    <3>2. L[i] \in TableLine
      BY <3>1 DEF Section
    <3> QED
      BY <1>0, <3>1, <3>2, ClassLineIs DEF TableLine
  <2> HIDE DEF D
  <2> QED
    BY <1>0, <2>1, <2>2
<1>3. /\ (\A i \in D : i > k - 1) => t.header = <<>> /\ Untouched(t)
      /\ \A b \in D : IsHeader(D, b) /\ b <= k - 1 =>
            /\ t.header = L[b].cells
            /\ (\A i \in D \ {b} : i > k - 1) => Untouched(t)
      /\ \A b, c \in D : IsSecond(D, b, c) /\ c <= k - 1 => TableBody(L, e, b, c, t, k - 1)
  BY <1>1 DEF TableAfter, Untouched, TableBody
<1>4. TableNext(s, l) = u
  BY DEF TableNext
<1> HIDE DEF t, D
<1>5. u \in {t, [t EXCEPT !.over = t.separator], [t EXCEPT !.refused = TRUE],
             [t EXCEPT !.separator = TRUE], [t EXCEPT !.rows = Append(@, t.number)]}
      \/ (t.header = <<>> /\ u = [t EXCEPT !.header = l.cells])
  <2>1. t.over \in BOOLEAN /\ t.refused \in BOOLEAN
    BY <1>1 DEF TableStates
  <2>2. CASE t.over \/ t.refused
    BY <1>0, <1>1, <2>2, TableStepIs
  <2>3. CASE ~t.over /\ ~t.refused /\ l.kind = "text"
    BY <1>0, <1>1, <2>3, TableStepIs
  <2>4. CASE ~t.over /\ ~t.refused /\ l.kind # "text" /\ t.header = <<>>
    BY <1>0, <1>1, <2>4, TableStepIs
  <2>5. CASE ~t.over /\ ~t.refused /\ l.kind # "text" /\ t.header # <<>>
    BY <1>0, <1>1, <2>5, TableStepIs
  <2> QED
    BY <2>1, <2>2, <2>3, <2>4, <2>5
<1>6. u.number = k /\ (t.header # <<>> => u.header = t.header)
  <2> HIDE DEF u
  <2> QED
    BY <1>1, <1>5 DEF TableStates
  \* A line of text, while the table has no separator.
<1>7. ASSUME l.kind = "text", Untouched(t) PROVE Untouched(u) /\ u.header = t.header
  <2>1. u = [t EXCEPT !.over = t.separator]
    BY <1>0, <1>1, <1>7, TableStepIs DEF Untouched
  <2> HIDE DEF u
  <2>2. /\ u.separator = t.separator /\ u.over = t.separator /\ u.refused = t.refused
        /\ u.rows = t.rows /\ u.header = t.header
    BY <1>1, <2>1 DEF TableStates
  <2> QED
    BY <1>7, <2>2 DEF Untouched
<1>8. (\A i \in D : i > k) => u.header = <<>> /\ Untouched(u)
  <2> SUFFICES ASSUME \A i \in D : i > k PROVE u.header = <<>> /\ Untouched(u)
    OBVIOUS
  <2>1. (\A i \in D : i > k - 1) /\ l.kind = "text"
    BY <1>2
  <2> QED
    BY <1>3, <1>7, <2>1
<1>9. ASSUME NEW b \in D, IsHeader(D, b), b <= k
      PROVE  /\ u.header = L[b].cells
             /\ (\A i \in D \ {b} : i > k) => Untouched(u)
  <2>1. CASE b = k
    <3>1. \A i \in D : i > k - 1
      <4>1. ASSUME NEW i \in D PROVE i > k - 1
        <5>1. k <= i /\ i \in Nat
          BY <1>2, <1>9, <2>1 DEF IsHeader
        <5> QED
          BY <1>0, <5>1
      <4> QED
        BY <4>1
    <3>2. t.header = <<>> /\ Untouched(t) /\ l.kind # "text"
      BY <1>2, <1>3, <2>1, <3>1
    <3>3. u = [t EXCEPT !.header = l.cells]
      BY <1>0, <1>1, <3>2, TableStepIs DEF Untouched
    <3> HIDE DEF u
    <3>4. /\ u.separator = t.separator /\ u.over = t.over /\ u.refused = t.refused
          /\ u.rows = t.rows /\ u.header = l.cells
      BY <1>1, <3>3 DEF TableStates
    <3> QED
      BY <2>1, <3>2, <3>4 DEF Untouched
  <2>2. CASE b # k
    <3>1. b <= k - 1
      BY <1>2, <1>9, <2>2
    <3>2. t.header = L[b].cells /\ t.header # <<>>
      BY <1>2, <1>3, <1>9, <3>1
    <3>3. (\A i \in D \ {b} : i > k) => l.kind = "text" /\ Untouched(t)
      BY <1>2, <1>3, <1>9, <2>2, <3>1
    <3> QED
      BY <1>6, <1>7, <3>2, <3>3
  <2> QED
    BY <2>1, <2>2
<1>10. ASSUME NEW b \in D, NEW c \in D, IsSecond(D, b, c), c <= k
       PROVE  TableBody(L, e, b, c, u, k)
  <2>1. b < c /\ b <= k - 1
    <3>1. b <= c /\ b # c /\ b \in Nat /\ c \in Nat
      BY <1>2, <1>10 DEF IsSecond, IsHeader
    <3> QED
      BY <1>0, <1>10, <3>1
  <2>2. IsHeader(D, b) /\ t.header = L[b].cells /\ t.header # <<>>
    BY <1>2, <1>3, <1>10, <2>1 DEF IsSecond
  <2>3. CASE c = k
    <3>1. \A i \in D \ {b} : i > k - 1
      <4>1. ASSUME NEW i \in D \ {b} PROVE i > k - 1
        <5>1. k <= i /\ i \in Nat
          BY <1>2, <1>10, <2>3 DEF IsSecond
        <5> QED
          BY <1>0, <5>1
      <4> QED
        BY <4>1
    <3>2. Untouched(t) /\ l.kind # "text"
      BY <1>2, <1>3, <2>1, <2>2, <2>3, <3>1
    <3> QED
      BY <1>1, <2>2, <2>3, <3>2, TableSecond
  <2>4. CASE c # k
    <3>1. c \in p + 1..k - 1 /\ c <= k - 1
      BY <1>0, <1>2, <1>10, <2>4
    <3>2. TableBody(L, e, b, c, t, k - 1)
      BY <1>3, <1>10, <3>1
    <3> QED
      BY <1>1, <2>2, <3>1, <3>2, TableBodyStep
  <2> QED
    BY <2>3, <2>4
<1> HIDE DEF u
<1> QED
  BY <1>4, <1>6, <1>8, <1>9, <1>10 DEF TableAfter, D

\* The lines up to the next heading are those below this one.
LEMMA SectionIs ==
    ASSUME NEW L \in Seq(ClassLine), NEW p \in 1..Len(L), L[p].kind \in Headings,
           NEW e, e = SectionEnd(L, p)
    PROVE  /\ e \in p + 1..Len(L) + 1 /\ Section(L, p, e)
           /\ \A i \in 1..Len(L) :
                 i \in p + 1..e - 1 <=> L[i].kind \notin Headings /\ HeadingOf(L, Headings, i) = p
<1> DEFINE after == {i \in p + 1..Len(L) : L[i].kind \in Headings}
<1>0. p \in Nat /\ Len(L) \in Nat /\ after \in SUBSET Nat
  OBVIOUS
<1>1. /\ e \in p + 1..Len(L) + 1
      /\ e <= Len(L) => L[e].kind \in Headings
      /\ \A i \in p + 1..e - 1 : L[i].kind \notin Headings
  <2>1. CASE after = {}
    <3>1. e = Len(L) + 1
      BY <2>1 DEF SectionEnd
    <3> QED
      BY <1>0, <2>1, <3>1
  <2>2. CASE after # {}
    <3>1. e = CHOOSE i \in after : \A j \in after : i <= j
      BY <2>2 DEF SectionEnd
    <3>2. \E i \in after : \A j \in after : i <= j
      BY <1>0, <2>2, LeastNumber
    <3>3. e \in after /\ \A j \in after : e <= j
      BY <3>1, <3>2
    <3>4. e \in p + 1..Len(L) /\ L[e].kind \in Headings
      BY <3>3
    <3>5. ASSUME NEW i \in p + 1..e - 1 PROVE L[i].kind \notin Headings
      <4>1. i \in p + 1..Len(L) /\ ~(e <= i)
        BY <1>0, <3>4
      <4> QED
        BY <3>3, <4>1
    <3> QED
      BY <1>0, <3>4, <3>5
  <2> QED
    BY <2>1, <2>2
<1> HIDE DEF after
<1>2. ASSUME NEW i \in p + 1..e - 1 PROVE i \in 1..Len(L) /\ L[i] \in TableLine
  <2>1. i \in 1..Len(L) /\ L[i] \in ClassLine /\ L[i].kind \notin Headings
    BY <1>0, <1>1
  <2> QED
    BY <2>1, ClassLineIs DEF TableLine
<1>3. ASSUME NEW i \in 1..Len(L)
      PROVE  i \in p + 1..e - 1 <=> L[i].kind \notin Headings /\ HeadingOf(L, Headings, i) = p
  <2> DEFINE g == HeadingOf(L, Headings, i)
  <2>1. g \in 0..i - 1 /\ (g # 0 => L[g].kind \in Headings)
    BY HeadingType
  <2>2. \A j \in 1..i - 1 : L[j].kind \in Headings => j <= g
    BY HeadingLast
  <2> HIDE DEF g
  <2>3. ASSUME i \in p + 1..e - 1 PROVE L[i].kind \notin Headings /\ g = p
    <3>1. p \in 1..i - 1 /\ p <= g
      BY <1>0, <2>2, <2>3
    <3>2. g \notin p + 1..e - 1
      BY <1>0, <1>1, <2>1, <3>1
    <3> QED
      BY <1>0, <1>1, <2>1, <2>3, <3>1, <3>2
  <2>4. ASSUME L[i].kind \notin Headings, g = p PROVE i \in p + 1..e - 1
    <3>1. i >= p + 1
      BY <1>0, <2>1, <2>4
    <3>2. ~(i >= e)
      <4>1. SUFFICES ASSUME i >= e PROVE FALSE
        OBVIOUS
      <4>2. e \in Nat /\ e <= Len(L) /\ L[e].kind \in Headings
        BY <1>0, <1>1, <4>1
      <4>3. e \in 1..i - 1
        BY <1>0, <1>1, <2>4, <4>1, <4>2
      <4>4. e <= p
        BY <2>2, <2>4, <4>2, <4>3
      <4> QED
        BY <1>0, <1>1, <4>4
    <3> QED
      BY <1>0, <1>1, <3>1, <3>2
  <2> QED
    BY <2>3, <2>4 DEF g
<1>4. Section(L, p, e)
  BY <1>0, <1>1, <1>2 DEF Section
<1> QED
  BY <1>1, <1>3, <1>4

\* The parser along a section.
LEMMA TableAgrees ==
    ASSUME NEW L \in Seq(ClassLine), NEW p \in 1..Len(L), NEW e \in p + 1..Len(L) + 1,
           Section(L, p, e)
    PROVE  \E end \in TableStates :
              /\ TableAfter(L, p, e, end, e - 1)
              /\ FirstTable(SubSeq(L, p + 1, e - 1), p) =
                    IF end.refused \/ (end.header # <<>> /\ ~end.separator)
                    THEN Refused ELSE [header |-> end.header, rows |-> end.rows]
<1> DEFINE S == SubSeq(L, p + 1, e - 1)
           n == e - 1 - p
<1>0. p \in Nat /\ e \in Nat /\ n \in Nat /\ Len(L) \in Nat
  OBVIOUS
<1>1. /\ S \in Seq(TableLine) /\ Len(S) = n
      /\ \A j \in 1..n : p + j \in p + 1..e - 1 /\ S[j] = L[p + j]
  <2>1. S = [j \in 1..n |-> L[p + j]]
    <3>1. ASSUME NEW j \in 1..n PROVE L[j + (p + 1) - 1] = L[p + j]
      <4>1. j + (p + 1) - 1 = p + j
        BY <1>0
      <4> QED
        BY <4>1
    <3>2. 1 + (e - 1) - (p + 1) = n
      BY <1>0
    <3> HIDE DEF n
    <3>3. S = [j \in 1..n |-> L[j + (p + 1) - 1]]
      BY <3>2
    <3> QED
      BY <3>1, <3>3
  <2>2. ASSUME NEW j \in 1..n PROVE p + j \in p + 1..e - 1 /\ L[p + j] \in TableLine
    <3>1. p + j \in p + 1..e - 1
      BY <1>0
    <3> QED
      BY <3>1 DEF Section
  <2> HIDE DEF n, S
  <2>3. S \in [1..n -> TableLine]
    BY <2>1, <2>2
  <2> QED
    BY <1>0, <2>1, <2>2, <2>3
<1> HIDE DEF S
<1>2. PICK h \in [0..Len(S) -> TableStates] :
         /\ h[0] = TableStart(p)
         /\ \A k \in 1..Len(S) : h[k] = TableNext(h[k - 1], S[k])
         /\ FoldLeft(TableNext, TableStart(p), S) = h[Len(S)]
  BY <1>0, <1>1, TableRun
<1> DEFINE I == {j \in 0..n : TableAfter(L, p, e, h[j], p + j)}
<1>3. 0 \in I
  <2>1. \A i \in CellLines(L, p, e) : i \in Nat /\ i > p /\ ~(i <= p)
    BY <1>0 DEF CellLines
  <2>2. p + 0 = p /\ 0 \in 0..n
    BY <1>0
  <2>3. TableAfter(L, p, e, TableStart(p), p)
    BY <2>1 DEF TableAfter, TableStart, Untouched
  <2> QED
    BY <1>2, <2>2, <2>3
<1>4. ASSUME NEW j \in 1..n, j - 1 \in I PROVE j \in I
  <2>1. h[j - 1] \in TableStates /\ j \in 0..n
    BY <1>0, <1>1, <1>2
  <2> DEFINE k == p + j
             s == h[j - 1]
  <2>2. k \in p + 1..e - 1 /\ k - 1 = p + (j - 1)
    BY <1>0
  <2>3. TableAfter(L, p, e, s, k - 1)
    BY <1>4, <2>2
  <2>4. h[j] = TableNext(s, L[k])
    BY <1>1, <1>2
  <2> HIDE DEF k, s
  <2>5. TableAfter(L, p, e, TableNext(s, L[k]), k)
    BY <2>1, <2>2, <2>3, TableStepAgrees DEF s
  <2> QED
    BY <2>1, <2>4, <2>5 DEF k
<1> HIDE DEF I
<1>5. n \in I
  <2> HIDE DEF n
  <2>1. 0..n \subseteq I
    BY <1>0, <1>3, <1>4, UpTo
  <2> QED
    BY <1>0, <2>1
<1>6. p + n = e - 1
  BY <1>0
<1>7. TableAfter(L, p, e, h[n], e - 1) /\ h[n] \in TableStates
  BY <1>0, <1>1, <1>2, <1>5, <1>6 DEF I
<1>8. FirstTable(S, p) = IF h[n].refused \/ (h[n].header # <<>> /\ ~h[n].separator)
                         THEN Refused ELSE [header |-> h[n].header, rows |-> h[n].rows]
  BY <1>1, <1>2, FirstTableIs
<1> QED
  BY <1>7, <1>8 DEF S

\* The parts of ClassDocMeaning.
ClassAt(L, name) == {i \in DOMAIN L : L[i].kind = name}
ClassOnce(L, name) == Cardinality(ClassAt(L, name)) = 1
ClassOf(L, name) == {i \in DOMAIN L : /\ L[i].kind \notin Headings
                                      /\ HeadingOf(L, Headings, i) # 0
                                      /\ L[HeadingOf(L, Headings, i)].kind = name}
ClassCells(L, name) == Ascending({i \in ClassOf(L, name) : L[i].kind # "text"})
ClassRows(L, name) ==
    {i \in ClassOf(L, name) : /\ i > ClassCells(L, name)[2]
                              /\ \A j \in ClassCells(L, name)[2]..i : L[j].kind # "text"}
ClassHeader(L, name) == L[ClassCells(L, name)[1]].cells
ClassTable(L, name) ==
    /\ Len(ClassCells(L, name)) > 1
    /\ Separator(L[ClassCells(L, name)[2]])
    /\ \A i \in ClassRows(L, name) : ~Separator(L[i])
    /\ \A i \in ClassRows(L, name) \cup {ClassCells(L, name)[2]} :
           Len(L[i].cells) = Len(ClassHeader(L, name))
KnownHeader(header) ==
    \/ header \in Structures
    \/ \E k \in DOMAIN header :
          header[k] \in Signatures /\ RemoveAt(header, k) \in Structures
IdentityKnown(c, L) ==
    /\ ClassTable(L, "identity") /\ ClassHeader(L, "identity") = IdentityHeader
    /\ IdentityFits(c, L, ClassRows(L, "identity"))
MethodsKnown(L) ==
    ClassCells(L, "methods") # <<>> =>
        /\ ClassTable(L, "methods") /\ KnownHeader(ClassHeader(L, "methods"))
        /\ MethodsFit(L, ClassHeader(L, "methods"), ClassRows(L, "methods"))

\* What _first_table returns for a section.
TableGood(L, name, T) ==
    /\ ClassCells(L, name) = <<>> => T = [header |-> <<>>, rows |-> <<>>]
    /\ ClassCells(L, name) # <<>> =>
          \/ T = Refused /\ ~ClassTable(L, name)
          \/ /\ T = [header |-> ClassHeader(L, name), rows |-> Ascending(ClassRows(L, name))]
             /\ ClassHeader(L, name) \in Seq(STRING) \ {<<>>}
             /\ Ascending(ClassRows(L, name)) \in Seq(Nat)
             /\ ToSet(Ascending(ClassRows(L, name))) = ClassRows(L, name)
             /\ ClassTable(L, name)

\* ClassDocMeaning, in terms of its parts.
LEMMA ClassMeaningIs ==
    ASSUME NEW c, NEW L
    PROVE  ClassDocMeaning(c, L) =
              IF /\ ClassOnce(L, "identity") /\ ClassOnce(L, "methods")
                 /\ IdentityKnown(c, L) /\ MethodsKnown(L)
              THEN [identity |-> Ascending(ClassRows(L, "identity")),
                    methods |-> IF ClassCells(L, "methods") = <<>> THEN <<>>
                                ELSE Ascending(ClassRows(L, "methods"))]
              ELSE Refused
  BY DEF ClassDocMeaning, ClassOnce, ClassAt, ClassOf, ClassCells, ClassRows, ClassHeader,
         ClassTable, KnownHeader, IdentityKnown, MethodsKnown

\* What the parser ends with, by the cells of the section.
LEMMA TableEnds ==
    ASSUME NEW L \in Seq(ClassLine), NEW p \in 1..Len(L), NEW e \in p + 1..Len(L) + 1,
           Section(L, p, e), NEW s \in TableStates, TableAfter(L, p, e, s, e - 1),
           NEW D, D = CellLines(L, p, e)
    PROVE  /\ D \in SUBSET (1..Len(L)) /\ \A i \in D : L[i].cells \in Seq(STRING) \ {<<>>}
           /\ D = {} => s.header = <<>> /\ Untouched(s)
           /\ \A b \in D : IsHeader(D, b) =>
                 /\ s.header = L[b].cells
                 /\ D = {b} => Untouched(s)
           /\ \A b, c \in D : IsSecond(D, b, c) => TableBody(L, e, b, c, s, e - 1)
<1>0. p \in Nat /\ e \in Nat /\ Len(L) \in Nat
  OBVIOUS
<1>1. ASSUME NEW i \in D
      PROVE  i \in 1..Len(L) /\ i <= e - 1 /\ L[i].cells \in Seq(STRING) \ {<<>>}
  <2>1. i \in p + 1..e - 1 /\ L[i].kind # "text"
    BY DEF CellLines
  <2>2. L[i] \in TableLine
    BY <2>1 DEF Section
  <2>3. L[i].cells \in Seq(STRING) \ {<<>>}
    BY <2>1, <2>2, ClassLineIs DEF TableLine
  <2> QED
    BY <1>0, <2>1, <2>3
<1> QED
  BY <1>1 DEF TableAfter

\* _first_table of one section.
LEMMA TableOfSection ==
    ASSUME NEW L \in Seq(ClassLine), NEW p \in 1..Len(L), NEW e \in p + 1..Len(L) + 1,
           Section(L, p, e), NEW name, ClassOf(L, name) = p + 1..e - 1
    PROVE  TableGood(L, name, FirstTable(SubSeq(L, p + 1, e - 1), p))
<1> DEFINE D == CellLines(L, p, e)
           T == FirstTable(SubSeq(L, p + 1, e - 1), p)
           n == Len(L)
<1>0. p \in Nat /\ e \in Nat /\ n \in Nat
  OBVIOUS
<1>1. PICK s \in TableStates :
         /\ TableAfter(L, p, e, s, e - 1)
         /\ T = IF s.refused \/ (s.header # <<>> /\ ~s.separator)
                THEN Refused ELSE [header |-> s.header, rows |-> s.rows]
  BY TableAgrees
<1>2. /\ D \in SUBSET (1..n) /\ \A i \in D : L[i].cells \in Seq(STRING) \ {<<>>}
      /\ D = {} => s.header = <<>> /\ Untouched(s)
      /\ \A b \in D : IsHeader(D, b) =>
            /\ s.header = L[b].cells
            /\ D = {b} => Untouched(s)
      /\ \A b, c \in D : IsSecond(D, b, c) => TableBody(L, e, b, c, s, e - 1)
  BY <1>1, TableEnds
<1>3. ClassCells(L, name) = Ascending(D)
  BY DEF ClassCells, CellLines
<1>4. /\ Ascending(D) \in Seq(1..n) /\ Len(Ascending(D)) = Cardinality(D)
      /\ Cardinality(D) \in Nat /\ IsFiniteSet(D)
  BY <1>0, <1>2, AscendingType, FiniteUpTo
<1> HIDE DEF T, D
<1>5. CASE D = {}
  <2>1. ClassCells(L, name) = <<>>
    BY <1>3, <1>5, AscendingEmpty
  <2>2. T = [header |-> <<>>, rows |-> <<>>]
    BY <1>1, <1>2, <1>5 DEF Untouched
  <2> QED
    BY <2>1, <2>2 DEF TableGood, T
<1>6. CASE D # {}
  <2>1. PICK b \in D : \A i \in D : b <= i
    <3>1. D \in SUBSET Nat
      BY <1>2
    <3> QED
      BY <1>6, <3>1, LeastNumber
  <2>2. IsHeader(D, b) /\ s.header = L[b].cells /\ s.header # <<>>
    BY <1>2, <2>1 DEF IsHeader
  <2>3. Cardinality(D) # 0 /\ Ascending(D)[1] = b /\ ClassCells(L, name) # <<>>
    <3>1. Cardinality(D) # 0 /\ Ascending(D)[1] = b
      BY <1>0, <1>2, <2>1, AscendingFirst
    <3> QED
      BY <1>3, <1>4, <3>1
  <2>4. CASE D = {b}
    <3>1. Cardinality(D) = 1
      BY <2>4, FS_Singleton
    <3>2. ~ClassTable(L, name)
      BY <1>3, <1>4, <3>1 DEF ClassTable
    <3>3. T = Refused
      BY <1>1, <1>2, <2>2, <2>4 DEF Untouched
    <3> QED
      BY <2>3, <3>2, <3>3 DEF TableGood, T
  <2>5. CASE D # {b}
    <3>1. PICK c \in D \ {b} : \A i \in D \ {b} : c <= i
      <4>1. D \ {b} \in SUBSET Nat /\ D \ {b} # {}
        BY <1>2, <2>1, <2>5
      <4> QED
        BY <4>1, LeastNumber
    <3>2. Cardinality(D) > 1 /\ Ascending(D)[2] = c
      BY <1>0, <1>2, <2>1, <3>1, AscendingSecond
    <3>3. TableBody(L, e, b, c, s, e - 1)
      BY <1>2, <2>2, <3>1 DEF IsSecond
    <3>4. b \in p + 1..e - 1 /\ c \in p + 1..e - 1
      BY <2>1, <3>1 DEF D, CellLines
    <3> DEFINE R == TableRows(L, e, c)
    <3>5. ClassRows(L, name) = R
      <4>1. ASSUME NEW i PROVE i \in ClassRows(L, name) <=> i \in R
        <5>1. i \in p + 1..e - 1 /\ i > c <=> i \in c + 1..e - 1
          BY <1>0, <3>4
        <5> QED
          BY <1>3, <3>2, <5>1 DEF ClassRows, TableRows
      <4> QED
        BY <4>1
    <3>6. /\ R \in SUBSET (1..n) /\ R \cap (1..e - 1) = R
          /\ \A i \in R : i <= e - 1 /\ L[i].kind = "cells"
      <4>1. ASSUME NEW i \in R
            PROVE  i \in 1..n /\ i \in 1..e - 1 /\ i <= e - 1 /\ L[i].kind = "cells"
        <5>1. i \in c + 1..e - 1 /\ \A j \in c..i : L[j].kind # "text"
          BY DEF TableRows
        <5>2. i \in p + 1..e - 1 /\ L[i].kind # "text"
          BY <1>0, <3>4, <5>1
        <5>3. L[i] \in TableLine
          BY <5>2 DEF Section
        <5> QED
          BY <1>0, <5>2, <5>3 DEF TableLine
      <4> HIDE DEF R
      <4> QED
        BY <4>1
    <3>7. Ascending(R) \in Seq(Nat)
      <4> HIDE DEF R
      <4>1. Ascending(R) \in Seq(1..n)
        BY <1>0, <3>6, AscendingType
      <4> QED
        BY <4>1
    <3>8. ClassTable(L, name) <=> ~TableBad(L, e, b, c, e - 1)
      <4>1. ClassTable(L, name) <=>
               /\ Separator(L[c]) /\ \A i \in R : ~Separator(L[i])
               /\ \A i \in R \cup {c} : Len(L[i].cells) = Len(L[b].cells)
        <5> HIDE DEF R
        <5> QED
          BY <1>3, <1>4, <2>3, <3>2, <3>5 DEF ClassTable, ClassHeader
      <4>2. TableBad(L, e, b, c, e - 1) <=>
               \/ Len(L[c].cells) # Len(L[b].cells) \/ ~Separator(L[c])
               \/ \E i \in R : Len(L[i].cells) # Len(L[b].cells) \/ Separator(L[i])
        BY <3>6 DEF TableBad
      <4> HIDE DEF R
      <4> QED
        BY <4>1, <4>2
    <3>9. CASE TableBad(L, e, b, c, e - 1)
      <4>1. T = Refused
        BY <1>1, <3>3, <3>9 DEF TableBody
      <4> QED
        BY <2>3, <3>8, <3>9, <4>1 DEF TableGood, T
    <3>10. CASE ~TableBad(L, e, b, c, e - 1)
      <4>1. ~s.refused /\ s.separator /\ s.rows = Ascending(R)
        BY <3>3, <3>6, <3>10 DEF TableBody
      <4>2. T = [header |-> L[b].cells, rows |-> Ascending(R)]
        BY <1>1, <2>2, <4>1
      <4>3. ClassHeader(L, name) = L[b].cells /\ L[b].cells \in Seq(STRING) \ {<<>>}
        BY <1>2, <1>3, <2>1, <2>3 DEF ClassHeader
      <4>4. ToSet(Ascending(R)) = R
        <5> HIDE DEF R
        <5> QED
          BY <1>0, <3>6, AscendingSet
      <4> HIDE DEF R
      <4> QED
        BY <2>3, <3>5, <3>7, <3>8, <3>10, <4>2, <4>3, <4>4 DEF TableGood, T
    <3> QED
      BY <3>9, <3>10
  <2> QED
    BY <2>4, <2>5
<1> QED
  BY <1>5, <1>6

\* _section and _first_table.
LEMMA SectionTableIs ==
    ASSUME NEW L \in Seq(ClassLine), NEW name \in Headings
    PROVE  /\ ~ClassOnce(L, name) => SectionTable(L, name) = Refused
           /\ ClassOnce(L, name) => TableGood(L, name, SectionTable(L, name))
<1> DEFINE at == ClassAt(L, name)
           p == CHOOSE i \in at : TRUE
           e == SectionEnd(L, p)
<1>1. SectionTable(L, name) = IF ~ClassOnce(L, name) THEN Refused
                              ELSE FirstTable(SubSeq(L, p + 1, e - 1), p)
  BY DEF SectionTable, ClassOnce, ClassAt
<1>2. ASSUME ClassOnce(L, name) PROVE TableGood(L, name, FirstTable(SubSeq(L, p + 1, e - 1), p))
  <2>1. PICK q : at = {q}
    <3>1. at \in SUBSET (1..Len(L)) /\ Len(L) \in Nat
      BY DEF ClassAt
    <3> HIDE DEF at
    <3>2. IsFiniteSet(at)
      BY <3>1, FiniteUpTo
    <3> QED
      BY <1>2, <3>2, FS_Singleton DEF ClassOnce, at
  <2>2. p = q
    BY <2>1
  <2> HIDE DEF p
  <2>3. p \in 1..Len(L) /\ L[p].kind = name /\ \A i \in 1..Len(L) : L[i].kind = name => i = p
    BY <2>1, <2>2 DEF ClassAt
  <2> HIDE DEF e
  <2>4. /\ e \in p + 1..Len(L) + 1 /\ Section(L, p, e)
        /\ \A i \in 1..Len(L) :
              i \in p + 1..e - 1 <=> L[i].kind \notin Headings /\ HeadingOf(L, Headings, i) = p
    BY <2>3, SectionIs DEF e
  <2>5. ClassOf(L, name) = p + 1..e - 1
    <3>1. ASSUME NEW i \in 1..Len(L)
          PROVE  (HeadingOf(L, Headings, i) # 0 /\ L[HeadingOf(L, Headings, i)].kind = name)
                    <=> HeadingOf(L, Headings, i) = p
      <4>1. HeadingOf(L, Headings, i) \in 0..i - 1
        BY HeadingType
      <4>2. HeadingOf(L, Headings, i) # 0 => HeadingOf(L, Headings, i) \in 1..Len(L)
        BY <4>1
      <4> QED
        BY <2>3, <4>2
    <3>2. ASSUME NEW i PROVE i \in ClassOf(L, name) <=> i \in p + 1..e - 1
      <4>1. i \in p + 1..e - 1 => i \in 1..Len(L)
        BY <2>3, <2>4
      <4>2. i \in ClassOf(L, name) <=>
               i \in 1..Len(L) /\ L[i].kind \notin Headings /\ HeadingOf(L, Headings, i) = p
        BY <3>1 DEF ClassOf
      <4> QED
        BY <2>4, <4>1, <4>2
    <3> QED
      BY <3>2
  <2> QED
    BY <2>3, <2>4, <2>5, TableOfSection
<1> QED
  BY <1>1, <1>2

\* Of the numbers up to n without k: those before k keep their places, those after
\* it come one place earlier.
LEMMA AscendingWithout ==
    ASSUME NEW n \in Nat, NEW k \in 1..n
    PROVE  Ascending((1..n) \ {k}) = [j \in 1..n - 1 |-> IF j < k THEN j ELSE j + 1]
<1> DEFINE S == (1..n) \ {k}
           R(i) == Cardinality({j \in S : j < i})
<1>1. Cardinality(S) = n - 1
  <2>1. IsFiniteSet(1..n) /\ Cardinality(1..n) = n
    BY FS_Interval
  <2> QED
    BY <2>1, FS_RemoveElement
<1>2. ASSUME NEW i \in S PROVE R(i) = IF i < k THEN i - 1 ELSE i - 2
  <2>1. CASE i < k
    <3>1. {j \in S : j < i} = 1..i - 1
      BY <2>1
    <3>2. Cardinality(1..i - 1) = i - 1
      BY FS_Interval
    <3> QED
      BY <2>1, <3>1, <3>2
  <2>2. CASE ~(i < k)
    <3>1. {j \in S : j < i} = (1..i - 1) \ {k} /\ k \in 1..i - 1
      BY <2>2
    <3>2. IsFiniteSet(1..i - 1) /\ Cardinality(1..i - 1) = i - 1
      BY FS_Interval
    <3>3. \A X : IsFiniteSet(X) /\ k \in X => Cardinality(X \ {k}) = Cardinality(X) - 1
      BY FS_RemoveElement
    <3>4. Cardinality({j \in S : j < i}) = (i - 1) - 1
      BY <3>1, <3>2, <3>3
    <3> QED
      BY <2>2, <3>4
  <2> QED
    BY <2>1, <2>2
<1>3. ASSUME NEW j \in 1..n - 1
      PROVE  (CHOOSE i \in S : R(i) = j - 1) = IF j < k THEN j ELSE j + 1
  <2>1. \A i \in S : R(i) = j - 1 <=> i = IF j < k THEN j ELSE j + 1
    <3> HIDE DEF R
    <3> QED
      BY <1>2
  <2>2. (IF j < k THEN j ELSE j + 1) \in S
    OBVIOUS
  <2> HIDE DEF R, S
  <2> QED
    BY <2>1, <2>2
<1> QED
  BY <1>1, <1>3 DEF Ascending

\* A header of which one column is left out.
LEMMA OneLeftOut ==
    ASSUME NEW h \in Seq(STRING), NEW k \in DOMAIN h
    PROVE  At(h, DOMAIN h \ {k}) = RemoveAt(h, k)
<1> DEFINE n == Len(h)
<1>1. n \in Nat /\ DOMAIN h = 1..n /\ k \in 1..n
  OBVIOUS
<1>2. Ascending(DOMAIN h \ {k}) = [j \in 1..n - 1 |-> IF j < k THEN j ELSE j + 1]
  BY <1>1, AscendingWithout
<1>3. At(h, DOMAIN h \ {k}) = [j \in 1..n - 1 |-> h[IF j < k THEN j ELSE j + 1]]
  <2>1. DOMAIN [j \in 1..n - 1 |-> IF j < k THEN j ELSE j + 1] = 1..n - 1
    OBVIOUS
  <2> QED
    BY <1>2, <2>1 DEF At
<1>4. RemoveAt(h, k) = [j \in 1..n - 1 |-> h[IF j < k THEN j ELSE j + 1]]
  <2> DEFINE s == SubSeq(h, 1, k - 1)
             t == SubSeq(h, k + 1, n)
  <2>1. s \in Seq(STRING) /\ Len(s) = k - 1 /\ \A j \in 1..k - 1 : s[j] = h[j]
    BY <1>1
  <2>2. t \in Seq(STRING) /\ Len(t) = n - k /\ \A j \in 1..n - k : t[j] = h[k + j]
    BY <1>1
  <2>3. RemoveAt(h, k) = s \o t
    BY DEF RemoveAt
  <2> HIDE DEF s, t, n
  <2>4. s \o t \in Seq(STRING) /\ Len(s \o t) = n - 1
    <3>1. s \o t \in Seq(STRING) /\ Len(s \o t) = Len(s) + Len(t)
      BY <2>1, <2>2, ConcatProperties
    <3>2. (k - 1) + (n - k) = n - 1
      BY <1>1
    <3> QED
      BY <2>1, <2>2, <3>1, <3>2
  <2>5. ASSUME NEW j \in 1..n - 1 PROVE (s \o t)[j] = h[IF j < k THEN j ELSE j + 1]
    <3>1. CASE j < k
      BY <1>1, <2>1, <2>2, <3>1
    <3>2. CASE ~(j < k)
      <4>1. (s \o t)[j] = t[j - (k - 1)]
        BY <1>1, <2>1, <2>2, <3>2
      <4>2. j - (k - 1) \in 1..n - k /\ k + (j - (k - 1)) = j + 1
        BY <1>1, <3>2
      <4> QED
        BY <2>2, <3>2, <4>1, <4>2
    <3> QED
      BY <3>1, <3>2
  <2> DEFINE u == s \o t
  <2> HIDE DEF u
  <2>6. u = [j \in 1..Len(u) |-> u[j]]
    <3>1. u \in Seq(STRING)
      BY <2>4 DEF u
    <3> QED
      BY <3>1
  <2> QED
    BY <2>3, <2>4, <2>5, <2>6 DEF u
<1> QED
  BY <1>3, <1>4

\* None of the headers known has a column for signatures.
LEMMA NoSignatures ==
    ASSUME NEW h \in Structures, NEW k \in DOMAIN h
    PROVE  h[k] \notin Signatures
<1>1. CASE h = <<"Slot", "Address", "Name", "Behavior", "Status">>
  BY <1>1 DEF Signatures
<1>2. CASE h = <<"Slot", "Address", "Role", "Behavior">>
  BY <1>2 DEF Signatures
<1>3. CASE h = <<"Slot", "Address", "Name", "Behavior">>
  BY <1>3 DEF Signatures
<1>4. CASE h = <<"Slot(s)", "Address(es)", "Name", "Behavior", "Status">>
  BY <1>4 DEF Signatures
<1> QED
  BY <1>1, <1>2, <1>3, <1>4 DEF Structures

\* The columns for signatures are counted, and the others compared.
LEMMA HeaderKnown ==
    ASSUME NEW h \in Seq(STRING)
    PROVE  MethodsHeader(h) <=> KnownHeader(h)
<1> DEFINE S == {i \in DOMAIN h : h[i] \in Signatures}
           n == Len(h)
<1>1. n \in Nat /\ DOMAIN h = 1..n /\ S \in SUBSET (1..n)
  OBVIOUS
<1>2. IsFiniteSet(S) /\ Cardinality(S) \in Nat
  BY <1>1, FiniteUpTo
<1>3. MethodsHeader(h) <=> Cardinality(S) <= 1 /\ At(h, DOMAIN h \ S) \in Structures
  BY DEF MethodsHeader
<1>4. \A i \in DOMAIN h : i \in S <=> h[i] \in Signatures
  OBVIOUS
<1> HIDE DEF S, n
<1>5. CASE S = {}
  <2>1. Cardinality(S) = 0 /\ DOMAIN h \ S = DOMAIN h
    BY <1>5, FS_EmptySet
  <2>2. At(h, DOMAIN h) = h
    BY AtAll
  <2>3. \A k \in DOMAIN h : h[k] \notin Signatures
    BY <1>4, <1>5
  <2> QED
    BY <1>3, <2>1, <2>2, <2>3 DEF KnownHeader
<1>6. ASSUME NEW k, S = {k} PROVE MethodsHeader(h) <=> KnownHeader(h)
  <2>1. k \in DOMAIN h /\ Cardinality(S) = 1 /\ h[k] \in Signatures
    BY <1>1, <1>4, <1>6, FS_Singleton
  <2>2. At(h, DOMAIN h \ S) = RemoveAt(h, k)
    BY <1>6, <2>1, OneLeftOut
  <2>3. h \notin Structures
    BY <2>1, NoSignatures
  <2>4. \A i \in DOMAIN h : h[i] \in Signatures => i = k
    BY <1>4, <1>6
  <2> QED
    BY <1>3, <2>1, <2>2, <2>3, <2>4 DEF KnownHeader
<1>7. ASSUME S # {}, \A k : S # {k} PROVE ~MethodsHeader(h) /\ ~KnownHeader(h)
  <2>1. Cardinality(S) # 0 /\ Cardinality(S) # 1
    BY <1>2, <1>7, FS_EmptySet, FS_Singleton
  <2>2. ~MethodsHeader(h)
    BY <1>2, <1>3, <2>1
  <2>3. h \notin Structures
    BY <1>1, <1>4, <1>7, NoSignatures
  <2>4. ASSUME NEW k \in DOMAIN h, h[k] \in Signatures, RemoveAt(h, k) \in Structures PROVE FALSE
    <3>1. PICK i \in S : i # k
      <4>1. k \in S /\ S # {k}
        BY <1>4, <1>7, <2>4
      <4> QED
        BY <4>1
    <3>2. i \in DOMAIN h \ {k} /\ h[i] \in Signatures
      BY <1>1, <1>4, <3>1
    <3>3. DOMAIN h \ {k} \in SUBSET (1..n)
      BY <1>1
    <3>4. Lists(At(h, DOMAIN h \ {k}), h, DOMAIN h \ {k})
      <4>1. At(h, DOMAIN h \ {k}) = Listed(h, DOMAIN h \ {k})
        BY DEF At, Listed
      <4>2. Lists(Listed(h, DOMAIN h \ {k}), h, DOMAIN h \ {k})
        BY <1>1, <3>3, ListedMembers
      <4> QED
        BY <4>1, <4>2
    <3>5. PICK j \in DOMAIN At(h, DOMAIN h \ {k}) : At(h, DOMAIN h \ {k})[j] = h[i]
      BY <3>2, <3>4 DEF Lists
    <3>6. At(h, DOMAIN h \ {k}) \in Structures
      BY <2>4, OneLeftOut
    <3> QED
      BY <3>2, <3>5, <3>6, NoSignatures
  <2> QED
    BY <2>2, <2>3, <2>4 DEF KnownHeader
<1> QED
  BY <1>5, <1>6, <1>7

\* What the code makes of what _first_table returns for the Identity section.
LEMMA IdentityIs ==
    ASSUME NEW c, NEW L, NEW T, TableGood(L, "identity", T)
    PROVE  (/\ T # Refused /\ T.header = IdentityHeader
            /\ IdentityFits(c, L, ToSet(T.rows)))
              <=> IdentityKnown(c, L)
<1>1. CASE ClassCells(L, "identity") = <<>>
  <2>1. T = [header |-> <<>>, rows |-> <<>>]
    BY <1>1 DEF TableGood
  <2>2. T.header # IdentityHeader
    BY <2>1 DEF IdentityHeader
  <2>3. ~ClassTable(L, "identity")
    BY <1>1 DEF ClassTable
  <2> QED
    BY <2>2, <2>3 DEF IdentityKnown
<1>2. CASE ClassCells(L, "identity") # <<>>
  BY <1>2, RefusedAssumption DEF TableGood, IdentityKnown
<1> QED
  BY <1>1, <1>2

\* And of what it returns for the methods.
LEMMA MethodsAre ==
    ASSUME NEW L, NEW T, TableGood(L, "methods", T)
    PROVE  (/\ T # Refused
            /\ T.header # <<>> => /\ MethodsHeader(T.header)
                                  /\ MethodsFit(L, T.header, ToSet(T.rows)))
              <=> MethodsKnown(L)
<1>1. CASE ClassCells(L, "methods") = <<>>
  <2>1. T = [header |-> <<>>, rows |-> <<>>]
    BY <1>1 DEF TableGood
  <2>2. T \in [header: Seq(STRING), rows: Seq(Nat)] /\ T.header = <<>>
    <3>1. <<>> \in Seq(STRING) /\ <<>> \in Seq(Nat)
      OBVIOUS
    <3> QED
      BY <2>1, <3>1
  <2>3. T # Refused
    BY <2>2, RefusedAssumption
  <2> QED
    BY <1>1, <2>2, <2>3 DEF MethodsKnown
<1>2. CASE ClassCells(L, "methods") # <<>>
  BY <1>2, RefusedAssumption, HeaderKnown DEF TableGood, MethodsKnown
<1> QED
  BY <1>1, <1>2

\* The rows that the code keeps.
LEMMA RowsAre ==
    ASSUME NEW L, NEW name, NEW T, TableGood(L, name, T), T # Refused
    PROVE  T.rows = IF ClassCells(L, name) = <<>> THEN <<>> ELSE Ascending(ClassRows(L, name))
  BY DEF TableGood

\* The parser of class documents does what is meant by the document.
LEMMA ClassAgrees ==
    ASSUME NEW c, NEW L \in Seq(ClassLine)
    PROVE  ClassDoc(c, L) = ClassDocMeaning(c, L)
<1> DEFINE I == SectionTable(L, "identity")
           M == SectionTable(L, "methods")
           IdentityGood == /\ I # Refused /\ I.header = IdentityHeader
                           /\ IdentityFits(c, L, ToSet(I.rows))
           MethodsGood == /\ M # Refused
                          /\ M.header # <<>> => /\ MethodsHeader(M.header)
                                                /\ MethodsFit(L, M.header, ToSet(M.rows))
<1>1. /\ ~ClassOnce(L, "identity") => I = Refused
      /\ ClassOnce(L, "identity") => TableGood(L, "identity", I)
      /\ ~ClassOnce(L, "methods") => M = Refused
      /\ ClassOnce(L, "methods") => TableGood(L, "methods", M)
  BY SectionTableIs DEF Headings
<1>2. ClassDoc(c, L) = IF IdentityGood /\ MethodsGood
                       THEN [identity |-> I.rows, methods |-> M.rows] ELSE Refused
  BY DEF ClassDoc
<1> HIDE DEF I, M
<1>3. CASE ~ClassOnce(L, "identity") \/ ~ClassOnce(L, "methods")
  BY <1>1, <1>2, <1>3, ClassMeaningIs
<1>4. CASE ClassOnce(L, "identity") /\ ClassOnce(L, "methods")
  <2>1. TableGood(L, "identity", I) /\ TableGood(L, "methods", M)
    BY <1>1, <1>4
  <2>2. IdentityGood <=> IdentityKnown(c, L)
    BY <2>1, IdentityIs
  <2>3. MethodsGood <=> MethodsKnown(L)
    BY <2>1, MethodsAre
  <2>4. IdentityGood => I.rows = Ascending(ClassRows(L, "identity"))
    <3>1. IdentityKnown(c, L) => ClassCells(L, "identity") # <<>>
      BY DEF IdentityKnown, ClassTable
    <3> QED
      BY <2>1, <2>2, <3>1, RowsAre
  <2>5. MethodsGood => M.rows = IF ClassCells(L, "methods") = <<>> THEN <<>>
                                ELSE Ascending(ClassRows(L, "methods"))
    BY <2>1, RowsAre
  <2> HIDE DEF IdentityGood, MethodsGood
  <2> QED
    BY <1>2, <1>4, <2>2, <2>3, <2>4, <2>5, ClassMeaningIs
<1> QED
  BY <1>3, <1>4

\* _parse_class_doc reads, of any document, the first table of each of its two
\* sections, and refuses exactly the documents in which a section is missing or there
\* twice, a table is malformed or has an unknown header, or its rows do not fit.
THEOREM ClassDocs == Spec => []ClassDocAgrees
<1>1. Lines => ClassDocAgrees
  <2> SUFFICES ASSUME Lines, source \in ClassSources, NEW c \in Classes
               PROVE  ClassDoc(c, lines) = ClassDocMeaning(c, lines)
    BY DEF ClassDocAgrees
  <2>1. PICK L : L = lines
    OBVIOUS
  <2>2. L \in Seq(ClassLine)
    BY <2>1 DEF Lines, ClassLine
  <2> QED
    BY <2>1, <2>2, ClassAgrees
<1> QED
  BY <1>1, LinesInv, PTL

------------------------------------------------------------------------------
(***************************************************************************)
(* A stable sort goes through its places in a strict total order: every    *)
(* such order is gone through by the numbers of places before.             *)
(***************************************************************************)

\* A strict total order of the places 1 to n.
Orders(R, n) ==
    /\ \A i \in 1..n : <<i, i>> \notin R
    /\ \A i, j \in 1..n : i # j => <<i, j>> \in R \/ <<j, i>> \in R
    /\ \A i, j, k \in 1..n : <<i, j>> \in R /\ <<j, k>> \in R => <<i, k>> \in R

\* How many of them come before i.
Before(R, n, i) == {j \in 1..n : <<j, i>> \in R}

\* f goes through the places in that order.
Arranges(f, R, n) ==
    /\ f \in [1..n -> 1..n]
    /\ \A k \in 1..n : f[k] = CHOOSE i \in 1..n : Cardinality(Before(R, n, i)) = k - 1
    /\ \A i \in 1..n : \E k \in 1..n : f[k] = i
    /\ \A k, m \in 1..n : k < m => <<f[k], f[m]>> \in R

\* There is a way through the places in every strict total order.
LEMMA OrderArranged ==
    ASSUME NEW n \in Nat, NEW R, Orders(R, n)
    PROVE  \E f : Arranges(f, R, n)
<1> DEFINE B(i) == Before(R, n, i)
           r == [i \in 1..n |-> Cardinality(B(i)) + 1]
           f == [k \in 1..n |-> CHOOSE i \in 1..n : Cardinality(B(i)) = k - 1]
<1>1. IsFiniteSet(1..n) /\ Cardinality(1..n) = n
  BY FS_Interval
<1>2. ASSUME NEW i \in 1..n PROVE IsFiniteSet(B(i)) /\ Cardinality(B(i)) \in 0..n - 1
  <2>1. B(i) \subseteq 1..n /\ i \notin B(i)
    BY DEF Before, Orders
  <2> HIDE DEF B
  <2>2. IsFiniteSet(B(i)) /\ Cardinality(B(i)) <= n /\ (Cardinality(B(i)) = n => B(i) = 1..n)
    BY <1>1, <2>1, FS_Subset
  <2>3. Cardinality(B(i)) \in Nat
    BY <2>2, FS_CardinalityType
  <2> QED
    BY <2>1, <2>2, <2>3
<1>3. ASSUME NEW i \in 1..n, NEW j \in 1..n, <<i, j>> \in R
      PROVE  Cardinality(B(i)) < Cardinality(B(j))
  <2>1. B(i) \subseteq B(j) /\ i \in B(j) /\ i \notin B(i)
    BY <1>3 DEF Before, Orders
  <2> HIDE DEF B
  <2>2. /\ Cardinality(B(i)) <= Cardinality(B(j))
        /\ Cardinality(B(i)) = Cardinality(B(j)) => B(i) = B(j)
    BY <1>2, <2>1, FS_Subset
  <2> QED
    BY <1>2, <2>1, <2>2
<1>4. ASSUME NEW i \in 1..n, NEW j \in 1..n, i # j PROVE Cardinality(B(i)) # Cardinality(B(j))
  <2>1. <<i, j>> \in R \/ <<j, i>> \in R
    BY <1>4 DEF Orders
  <2> HIDE DEF B
  <2> QED
    BY <1>2, <1>3, <2>1
<1>5. \A k \in 1..n : \E i \in 1..n : Cardinality(B(i)) = k - 1
  <2> HIDE DEF B
  <2>1. r \in Injection(1..n, 1..n)
    <3>1. r \in [1..n -> 1..n]
      BY <1>2
    <3>2. \A i, j \in 1..n : r[i] = r[j] => i = j
      BY <1>2, <1>4
    <3> QED
      BY <3>1, <3>2 DEF Injection, IsInjective
  <2>2. r \in Surjection(1..n, 1..n)
    BY <1>1, <2>1, FS_Injection
  <2>3. ASSUME NEW k \in 1..n PROVE \E i \in 1..n : Cardinality(B(i)) = k - 1
    <3>1. PICK i \in 1..n : r[i] = k
      BY <2>2 DEF Surjection
    <3> QED
      BY <1>2, <3>1
  <2> QED
    BY <2>3
<1>6. ASSUME NEW k \in 1..n PROVE f[k] \in 1..n /\ Cardinality(B(f[k])) = k - 1
  BY <1>5
<1>7. ASSUME NEW i \in 1..n PROVE \E k \in 1..n : f[k] = i
  <2> DEFINE k == Cardinality(B(i)) + 1
  <2>1. k \in 1..n /\ k - 1 = Cardinality(B(i))
    BY <1>2
  <2> HIDE DEF B, k, f
  <2>2. f[k] \in 1..n /\ Cardinality(B(f[k])) = Cardinality(B(i))
    BY <1>6, <2>1
  <2> QED
    BY <1>4, <2>1, <2>2
<1>8. ASSUME NEW k \in 1..n, NEW m \in 1..n, k < m PROVE <<f[k], f[m]>> \in R
  <2> HIDE DEF B, f
  <2>1. /\ f[k] \in 1..n /\ f[m] \in 1..n
        /\ Cardinality(B(f[k])) = k - 1 /\ Cardinality(B(f[m])) = m - 1
    BY <1>6
  <2>2. f[k] # f[m] /\ ~(Cardinality(B(f[m])) < Cardinality(B(f[k])))
    BY <1>8, <2>1
  <2>3. <<f[k], f[m]>> \in R \/ <<f[m], f[k]>> \in R
    BY <2>1, <2>2 DEF Orders
  <2> QED
    BY <1>3, <2>1, <2>2, <2>3
<1>9. f \in [1..n -> 1..n]
  BY <1>6
<1>10. \A k \in 1..n : f[k] = CHOOSE i \in 1..n : Cardinality(Before(R, n, i)) = k - 1
  OBVIOUS
<1> HIDE DEF f
<1> QED
  BY <1>7, <1>8, <1>9, <1>10 DEF Arranges

\* A stable sort's order of places.
Smaller(key, i, j) == key[i] < key[j] \/ (key[i] = key[j] /\ i < j)

\* f goes through s in the order of Sorted.
Sorts(f, s, key) ==
    /\ f \in [1..Len(s) -> 1..Len(s)]
    /\ Sorted(s, key) = [k \in 1..Len(s) |-> s[f[k]]]
    /\ \A i \in 1..Len(s) : \E k \in 1..Len(s) : f[k] = i
    /\ \A k, m \in 1..Len(s) : k < m => Smaller(key, f[k], f[m])

\* Sorted goes through a sequence by key, and by place for equal keys.
LEMMA SortedArranged ==
    ASSUME NEW A, NEW s \in Seq(A), NEW key \in [1..Len(s) -> Int]
    PROVE  \E f : Sorts(f, s, key)
<1> DEFINE n == Len(s)
           R == {p \in (1..n) \X (1..n) : Smaller(key, p[1], p[2])}
<1>0. n \in Nat /\ DOMAIN s = 1..n /\ \A i \in 1..n : key[i] \in Int /\ i \in Int
  OBVIOUS
<1>1. \A i, j \in 1..n : <<i, j>> \in R <=> Smaller(key, i, j)
  OBVIOUS
<1> HIDE DEF R
<1>2. Orders(R, n)
  <2>1. \A i \in 1..n : <<i, i>> \notin R
    BY <1>0, <1>1 DEF Smaller
  <2>2. \A i, j \in 1..n : i # j => <<i, j>> \in R \/ <<j, i>> \in R
    BY <1>0, <1>1 DEF Smaller
  <2>3. \A i, j, k \in 1..n : <<i, j>> \in R /\ <<j, k>> \in R => <<i, k>> \in R
    <3>1. ASSUME NEW i \in 1..n, NEW j \in 1..n, NEW k \in 1..n, Smaller(key, i, j), Smaller(key, j, k)
          PROVE  Smaller(key, i, k)
      BY <1>0, <3>1 DEF Smaller
    <3> QED
      BY <1>1, <3>1
  <2> QED
    BY <2>1, <2>2, <2>3 DEF Orders
<1>3. PICK f : Arranges(f, R, n)
  BY <1>0, <1>2, OrderArranged
<1>4. Sorted(s, key) = [k \in 1..n |-> s[f[k]]]
  <2>1. Sorted(s, key) =
           [k \in 1..n |-> s[CHOOSE i \in 1..n :
                                Cardinality({j \in 1..n : Smaller(key, j, i)}) = k - 1]]
    BY <1>0 DEF Sorted, Smaller
  <2>2. \A i \in 1..n : Before(R, n, i) = {j \in 1..n : Smaller(key, j, i)}
    BY <1>1 DEF Before
  <2>3. ASSUME NEW k \in 1..n
        PROVE  (CHOOSE i \in 1..n : Cardinality({j \in 1..n : Smaller(key, j, i)}) = k - 1) = f[k]
    <3>1. f[k] = CHOOSE i \in 1..n : Cardinality(Before(R, n, i)) = k - 1
      BY <1>3 DEF Arranges
    <3>2. \A i \in 1..n : Cardinality(Before(R, n, i)) = k - 1
             <=> Cardinality({j \in 1..n : Smaller(key, j, i)}) = k - 1
      BY <2>2
    <3> QED
      BY <3>1, <3>2
  <2> QED
    BY <2>1, <2>3
<1>5. \A k, m \in 1..n : k < m => Smaller(key, f[k], f[m])
  BY <1>1, <1>3 DEF Arranges
<1> QED
  BY <1>3, <1>4, <1>5 DEF Sorts, Arranges

\* It has the same members, and as many.
LEMMA SortedMembers ==
    ASSUME NEW A, NEW s \in Seq(A), NEW key \in [1..Len(s) -> Int]
    PROVE  /\ Sorted(s, key) \in Seq(A) /\ Len(Sorted(s, key)) = Len(s)
           /\ \A x : (\E k \in 1..Len(s) : Sorted(s, key)[k] = x) <=> (\E k \in 1..Len(s) : s[k] = x)
<1> DEFINE n == Len(s)
           t == Sorted(s, key)
<1>0. n \in Nat /\ \A i \in 1..n : s[i] \in A
  OBVIOUS
<1>1. PICK f : Sorts(f, s, key)
  BY SortedArranged
<1>2. /\ f \in [1..n -> 1..n] /\ t = [k \in 1..n |-> s[f[k]]]
      /\ \A i \in 1..n : \E k \in 1..n : f[k] = i
  BY <1>1 DEF Sorts
<1> HIDE DEF t, n
<1>3. t \in [1..n -> A]
  BY <1>0, <1>2
<1>4. t \in Seq(A) /\ Len(t) = n
  BY <1>0, <1>3
<1>5. \A x : (\E k \in 1..n : t[k] = x) <=> (\E k \in 1..n : s[k] = x)
  BY <1>2
<1> QED
  BY <1>4, <1>5 DEF t, n

\* t has the members of s.
Rearranges(t, s) ==
    /\ Len(t) = Len(s)
    /\ \A k \in 1..Len(s) : \E j \in 1..Len(s) : t[k] = s[j]
    /\ \A j \in 1..Len(s) : \E k \in 1..Len(s) : t[k] = s[j]

\* Sorting does not change the members.
LEMMA SortedRearranges ==
    ASSUME NEW A, NEW s \in Seq(A), NEW key \in [1..Len(s) -> Int]
    PROVE  Sorted(s, key) \in Seq(A) /\ Rearranges(Sorted(s, key), s)
<1>1. /\ Sorted(s, key) \in Seq(A) /\ Len(Sorted(s, key)) = Len(s)
      /\ \A x : (\E k \in 1..Len(s) : Sorted(s, key)[k] = x) <=> (\E k \in 1..Len(s) : s[k] = x)
  BY SortedMembers
<1> DEFINE t == Sorted(s, key)
<1> HIDE DEF t
<1>2. \A k \in 1..Len(s) : \E j \in 1..Len(s) : s[j] = t[k]
  BY <1>1 DEF t
<1>3. \A j \in 1..Len(s) : \E k \in 1..Len(s) : t[k] = s[j]
  BY <1>1 DEF t
<1> QED
  BY <1>1, <1>2, <1>3 DEF Rearranges, t

\* Nor does sorting twice.
LEMMA RearrangedAgain ==
    ASSUME NEW s, NEW t, Rearranges(t, s), NEW u, Rearranges(u, t)
    PROVE  Rearranges(u, s)
<1>1. Len(t) = Len(s) /\ Len(u) = Len(s)
  BY DEF Rearranges
<1>2. ASSUME NEW k \in 1..Len(s) PROVE \E j \in 1..Len(s) : u[k] = s[j]
  <2>1. PICK i \in 1..Len(s) : u[k] = t[i]
    BY <1>1 DEF Rearranges
  <2>2. PICK j \in 1..Len(s) : t[i] = s[j]
    BY <1>1 DEF Rearranges
  <2> QED
    BY <2>1, <2>2
<1>3. ASSUME NEW j \in 1..Len(s) PROVE \E k \in 1..Len(s) : u[k] = s[j]
  <2>1. PICK i \in 1..Len(s) : t[i] = s[j]
    BY <1>1 DEF Rearranges
  <2>2. PICK k \in 1..Len(s) : u[k] = t[i]
    BY <1>1 DEF Rearranges
  <2> QED
    BY <2>1, <2>2
<1> QED
  BY <1>1, <1>2, <1>3 DEF Rearranges

------------------------------------------------------------------------------
(***************************************************************************)
(* One table, two indexes: the tasks are as many as the rows, unless these *)
(* are too many, and each has the ID of its row; the symbol index has the  *)
(* rows of every class.                                                    *)
(***************************************************************************)

\* No two tasks have one ID, and there are not too many.
Distinct(s) == \A i, j \in 1..Len(s) : i # j => s[i].id # s[j].id
Indexed(s) == ~TooMany(s) /\ Distinct(s)

\* The index of the tasks of one table.
LEMMA IndexOfOne ==
    ASSUME NEW s \in Seq(TableTasks)
    PROVE  /\ Indexed(s) => Index(<<s>>) \in Seq(TableTasks) /\ Rearranges(Index(<<s>>), s)
           /\ ~Indexed(s) => Index(<<s>>) = Refused
<1> DEFINE status == [open |-> 0, blocked |-> 1, done |-> 2]
           source0 == [handoff |-> 0, qa |-> 1, linkage |-> 2, catalog |-> 3, decomp |-> 4]
           a == Sorted(s, [i \in DOMAIN s |-> s[i].line])
           b == Sorted(a, [i \in DOMAIN s |-> source0[a[i].source]])
           c == Sorted(b, [i \in DOMAIN s |-> status[b[i].status]])
<1>0. Len(s) \in Nat /\ DOMAIN s = 1..Len(s) /\ s # Refused
  BY TablesAssumption DEF TablesAssumption
<1>1. FlattenSeq(<<s>>) = s
  <2> DEFINE f == [i \in 1..1 |-> s]
             Is(g) == g = [i \in 1..1 |-> IF i = 1 THEN <<s>>[i] ELSE g[i - 1] \o <<s>>[i]]
  <2>1. Is(f)
    OBVIOUS
  <2>2. \A g : Is(g) => g[1] = s
    OBVIOUS
  <2>3. FlattenSeq(<<s>>) = (CHOOSE g : Is(g))[1]
    BY DEF FlattenSeq
  <2> HIDE DEF Is
  <2>4. Is(CHOOSE g : Is(g))
    BY <2>1
  <2> QED
    BY <2>2, <2>3, <2>4
<1>2. Index(<<s>>) = IF s = Refused \/ ~Indexed(s) THEN Refused ELSE c
  <2>1. Refused \in ToSet(<<s>>) <=> s = Refused
    BY DEF ToSet
  <2> QED
    BY <1>0, <1>1, <2>1 DEF Index, Indexed, Distinct
<1>3. \A t \in TableTasks : /\ t.line \in Int
                            /\ source0[t.source] \in Int
                            /\ status[t.status] \in Int
  <2>1. ASSUME NEW t \in TableTasks
        PROVE  /\ t.line \in Int /\ t.source \in {"decomp", "linkage"}
               /\ t.status \in {"open", "blocked", "done"}
    BY DEF TableTasks
  <2>2. source0["decomp"] \in Int /\ source0["linkage"] \in Int
    OBVIOUS
  <2>3. status["open"] \in Int /\ status["blocked"] \in Int /\ status["done"] \in Int
    OBVIOUS
  <2> HIDE DEF source0, status
  <2> QED
    BY <2>1, <2>2, <2>3
<1>4. a \in Seq(TableTasks) /\ Rearranges(a, s)
  <2>1. [i \in DOMAIN s |-> s[i].line] \in [1..Len(s) -> Int]
    BY <1>0, <1>3
  <2> QED
    BY <2>1, SortedRearranges
<1> HIDE DEF a, source0, status
<1>5. b \in Seq(TableTasks) /\ Rearranges(b, a)
  <2>1. Len(a) = Len(s)
    BY <1>4 DEF Rearranges
  <2>2. [i \in DOMAIN s |-> source0[a[i].source]] \in [1..Len(a) -> Int]
    BY <1>0, <1>3, <1>4, <2>1
  <2> QED
    BY <1>4, <2>2, SortedRearranges
<1> HIDE DEF b
<1>6. c \in Seq(TableTasks) /\ Rearranges(c, b)
  <2>1. Len(b) = Len(s)
    BY <1>4, <1>5 DEF Rearranges
  <2>2. [i \in DOMAIN s |-> status[b[i].status]] \in [1..Len(b) -> Int]
    BY <1>0, <1>3, <1>5, <2>1
  <2> QED
    BY <1>5, <2>2, SortedRearranges
<1> HIDE DEF c
<1>7. Rearranges(c, s)
  BY <1>4, <1>5, <1>6, RearrangedAgain
<1> QED
  BY <1>0, <1>2, <1>6, <1>7

\* The rows of the decomp ledger.
DecompLine == LinesOf["decomp"]

\* The task of a row.
DecompGet(L) ==
    [i \in 1..Len(L) |-> [source |-> "decomp", id |-> <<"decomp", L[i].class>>,
                          status |-> DecompStatuses[L[i].status], line |-> i]]
DecompKnown(L) == {i \in 1..Len(L) : L[i].status \in DOMAIN DecompStatuses}

\* What the statuses map to.
LEMMA DecompStatusesAre ==
    /\ DOMAIN DecompStatuses = {"todo", "in_progress", "spec", "ported", "validated"}
    /\ \A x \in DOMAIN DecompStatuses : DecompStatuses[x] \in {"open", "blocked", "done"}
<1>1. DOMAIN DecompStatuses = {"todo", "in_progress", "spec", "ported", "validated"}
  BY DEF DecompStatuses
<1>2. /\ DecompStatuses["todo"] = "open" /\ DecompStatuses["in_progress"] = "open"
      /\ DecompStatuses["spec"] = "done" /\ DecompStatuses["ported"] = "done"
      /\ DecompStatuses["validated"] = "done"
  BY DEF DecompStatuses
<1> QED
  BY <1>1, <1>2

\* The parts of a row.
LEMMA DecompLineIs == ASSUME NEW l \in DecompLine PROVE l.class \in Names \cup {""}
<1>1. DecompLine = [class: Names \cup {""}, addresses: BOOLEAN,
                    status: {"todo", "ported", "planned"}]
  BY DEF DecompLine, LinesOf
<1> QED
  BY <1>1

\* No row is without a class.
Classed(L) == \A i \in DOMAIN L : L[i].class # ""

\* If no row is refused, the tasks are those of the rows with a known status.
LEMMA DecompTasksAre ==
    ASSUME NEW L \in Seq(DecompLine), Classed(L)
    PROVE  /\ DecompTasks(L) = Listed(DecompGet(L), DecompKnown(L))
           /\ DecompTasks(L) \in Seq(TableTasks)
<1> DEFINE n == Len(L)
           named == [i \in DOMAIN L |-> [id |-> L[i].class, status |-> L[i].status]]
           K == DecompKnown(L)
           G == DecompGet(L)
           a == Ascending(K)
<1>1. n \in Nat /\ DOMAIN L = 1..n /\ K \in SUBSET (1..n)
  <2>1. K \subseteq 1..n
    BY DEF DecompKnown
  <2>2. n \in Nat /\ DOMAIN L = 1..n
    OBVIOUS
  <2> HIDE DEF K, n
  <2> QED
    BY <2>1, <2>2
<1>2. ASSUME NEW i \in 1..n
      PROVE  /\ named[i].id = L[i].class /\ named[i].status = L[i].status
             /\ Task("decomp", named[i], DecompTaskStatus(named[i]), i) = G[i]
  <2>1. named[i] = [id |-> L[i].class, status |-> L[i].status]
    BY <1>1
  <2>2. named[i].id = L[i].class /\ named[i].status = L[i].status
    <3> DEFINE x == L[i].class
               y == L[i].status
               z == named[i]
    <3>1. z = [id |-> x, status |-> y]
      BY <2>1
    <3> HIDE DEF x, y, z
    <3>2. z.id = x /\ z.status = y
      BY <3>1
    <3> QED
      BY <3>2 DEF x, y, z
  <2> HIDE DEF named
  <2> QED
    BY <2>2 DEF Task, DecompTaskStatus, DecompGet
<1>3. a \in [1..Cardinality(K) -> K] /\ DOMAIN a = 1..Cardinality(K) /\ Cardinality(K) \in Nat
  BY <1>1, AscendingType, FiniteUpTo
<1>4. DecompTasks(L) = TasksAt("decomp", named, K, DecompTaskStatus)
  BY <1>1 DEF DecompTasks, DecompKnown, Classed
<1> HIDE DEF named, K, G, n
<1>5. TasksAt("decomp", named, K, DecompTaskStatus) = Listed(G, K)
  <2>1. \A k \in DOMAIN a : a[k] \in 1..n
    BY <1>1, <1>3
  <2>2. TasksAt("decomp", named, K, DecompTaskStatus) =
           [k \in DOMAIN a |-> Task("decomp", named[a[k]], DecompTaskStatus(named[a[k]]), a[k])]
    BY DEF TasksAt
  <2>3. \A k \in DOMAIN a : Task("decomp", named[a[k]], DecompTaskStatus(named[a[k]]), a[k]) = G[a[k]]
    BY <1>2, <2>1
  <2> QED
    BY <2>2, <2>3 DEF Listed
<1>6. ASSUME NEW i \in K PROVE G[i] \in TableTasks
  <2>1. i \in 1..n /\ L[i].status \in DOMAIN DecompStatuses
    BY DEF K, DecompKnown, n
  <2>2. L[i] \in DecompLine /\ L[i].class \in Names \cup {""}
    <3>1. L[i] \in DecompLine
      BY <1>1, <2>1
    <3> QED
      BY <3>1, DecompLineIs
  <2>3. <<"decomp", L[i].class>> \in TableIds
    BY <2>2 DEF TableIds
  <2>4. \A x \in DOMAIN DecompStatuses : DecompStatuses[x] \in {"open", "blocked", "done"}
    BY DecompStatusesAre
  <2>5. i \in Nat
    <3>1. 1..n \subseteq Nat
      BY <1>1
    <3> QED
      BY <2>1, <3>1
  <2>6. G[i] = [source |-> "decomp", id |-> <<"decomp", L[i].class>>,
                status |-> DecompStatuses[L[i].status], line |-> i]
    BY <2>1 DEF G, DecompGet, n
  <2>7. DecompStatuses[L[i].status] \in {"open", "blocked", "done"}
    BY <2>1, <2>4
  <2> QED
    <3> DEFINE x == <<"decomp", L[i].class>>
               y == DecompStatuses[L[i].status]
    <3>1. x \in TableIds /\ y \in {"open", "blocked", "done"}
      BY <2>3, <2>7
    <3>2. G[i] = [source |-> "decomp", id |-> x, status |-> y, line |-> i]
      BY <2>6
    <3> HIDE DEF x, y
    <3> QED
      BY <2>5, <3>1, <3>2 DEF TableTasks
<1>7. Listed(G, K) \in Seq(TableTasks)
  <2> HIDE DEF a
  <2>1. \A k \in DOMAIN a : G[a[k]] \in TableTasks
    BY <1>3, <1>6
  <2>2. [k \in DOMAIN a |-> G[a[k]]] \in [1..Cardinality(K) -> TableTasks]
    BY <1>3, <2>1
  <2>3. Listed(G, K) = [k \in DOMAIN a |-> G[a[k]]]
    BY DEF Listed, a
  <2> QED
    BY <1>3, <2>2, <2>3
<1> QED
  BY <1>4, <1>5, <1>7 DEF G, K

\* The task of every class is there, unless the status of its row is that of none.
DecompClasses(L, tasks) ==
    \A c \in LedgerClasses(L) :
        \/ \E i \in DOMAIN tasks : tasks[i].id = <<"decomp", c>> /\ L[tasks[i].line].class = c
        \/ \E i \in DOMAIN L : L[i].class = c /\ i \notin DecompKnown(L)

\* The task index has the classes of the symbol index, or there are too many.
LEMMA DecompServed ==
    ASSUME NEW L \in Seq(DecompLine), LedgerClasses(L) # Refused
    PROVE  LET tasks == Index(<<DecompTasks(L)>>) IN
           IF Cardinality(DecompKnown(L)) > MaxTasks THEN tasks = Refused
           ELSE tasks # Refused /\ DecompClasses(L, tasks)
<1> DEFINE n == Len(L)
           K == DecompKnown(L)
           G == DecompGet(L)
           s == DecompTasks(L)
           t == Index(<<s>>)
           m == Cardinality(K)
<1>1. n \in Nat /\ DOMAIN L = 1..n /\ K \in SUBSET (1..n)
  BY DEF DecompKnown
<1>2. /\ \A i \in DOMAIN L : L[i].class # ""
      /\ \A i, j \in DOMAIN L : i # j => L[i].class # L[j].class
      /\ LedgerClasses(L) = {L[i].class : i \in DOMAIN L}
  BY DEF LedgerClasses
<1>3. s = Listed(G, K) /\ s \in Seq(TableTasks)
  BY <1>2, DecompTasksAre DEF Classed
<1>4. \A i \in 1..n : G[i].id = <<"decomp", L[i].class>> /\ G[i].line = i
  BY DEF DecompGet
<1> HIDE DEF G, s, m
<1>5. /\ DOMAIN s = 1..m /\ m \in Nat
      /\ \A k \in 1..m : Ascending(K)[k] \in K /\ s[k] = G[Ascending(K)[k]]
      /\ \A i \in K : \E k \in 1..m : Ascending(K)[k] = i /\ s[k] = G[i]
  <2>1. Lists(Listed(G, K), G, K)
    BY <1>1, ListedMembers
  <2> HIDE DEF K
  <2> QED
    BY <1>3, <2>1 DEF m, Lists
<1>6. Len(s) = m
  BY <1>3, <1>5
<1>7. Distinct(s)
  <2>1. ASSUME NEW j \in 1..m, NEW k \in 1..m, j # k PROVE s[j].id # s[k].id
    <3> DEFINE p == Ascending(K)[j]
               q == Ascending(K)[k]
    <3>1. p \in 1..n /\ q \in 1..n /\ s[j] = G[p] /\ s[k] = G[q] /\ p \in Nat /\ q \in Nat
      BY <1>1, <1>5
    <3>2. p # q
      <4>1. j < k => p < q
        BY <1>1, AscendingMembers DEF m
      <4>2. k < j => q < p
        BY <1>1, AscendingMembers DEF m
      <4>3. j < k \/ k < j
        BY <1>5, <2>1
      <4> QED
        BY <3>1, <4>1, <4>2, <4>3
    <3> HIDE DEF p, q
    <3>3. L[p].class # L[q].class
      BY <1>1, <1>2, <3>1, <3>2
    <3> QED
      BY <1>4, <3>1, <3>3
  <2> QED
    BY <1>6, <2>1 DEF Distinct
<1> HIDE DEF t
<1>8. CASE m > MaxTasks
  <2>1. ~Indexed(s)
    BY <1>6, <1>8 DEF Indexed, TooMany
  <2>2. t = Refused
    BY <1>3, <2>1, IndexOfOne DEF t
  <2> QED
    BY <1>8, <2>2 DEF m, t, s
<1>9. CASE ~(m > MaxTasks)
  <2>1. Indexed(s)
    BY <1>6, <1>7, <1>9 DEF Indexed, TooMany
  <2>2. t \in Seq(TableTasks) /\ Rearranges(t, s)
    BY <1>3, <2>1, IndexOfOne DEF t
  <2>3. t # Refused
    BY <2>2, TablesAssumption
  <2>4. ASSUME NEW i \in K
        PROVE  \E k \in DOMAIN t : /\ t[k].id = <<"decomp", L[i].class>>
                                   /\ L[t[k].line].class = L[i].class
    <3>1. PICK j \in 1..m : s[j] = G[i]
      BY <1>5
    <3>2. PICK k \in 1..m : t[k] = s[j]
      BY <1>6, <2>2, <3>1 DEF Rearranges
    <3>3. k \in DOMAIN t
      BY <1>6, <2>2, <3>2 DEF Rearranges
    <3> QED
      BY <1>1, <1>4, <3>1, <3>2, <3>3
  <2>5. ASSUME NEW c \in LedgerClasses(L)
        PROVE  \/ \E i \in DOMAIN t : t[i].id = <<"decomp", c>> /\ L[t[i].line].class = c
               \/ \E i \in DOMAIN L : L[i].class = c /\ i \notin K
    <3>1. PICK i \in 1..n : L[i].class = c
      BY <1>1, <1>2
    <3> QED
      BY <1>1, <2>4, <3>1
  <2>6. DecompClasses(L, t)
    BY <2>5 DEF DecompClasses
  <2> QED
    BY <1>9, <2>3, <2>6 DEF m, t, s
<1> QED
  BY <1>8, <1>9

\* The rows of the linkage table.
LinkageLine == LinesOf["linkage"]

\* The parts of a row.
LEMMA LinkageLineIs ==
    ASSUME NEW l \in LinkageLine
    PROVE  l.class \in Names \cup {""} /\ l.aspect \in ToSet(Aspects)
<1>1. LinkageLine = [class: Names \cup {""}, aspect: ToSet(Aspects), domain: {"d", ""},
                     status: LinkageStatuses \cup {"planned"}]
  BY DEF LinkageLine, LinesOf
<1> QED
  BY <1>1

\* The task of a row.
LinkageGet(L) ==
    [i \in 1..Len(L) |->
        [source |-> "linkage", id |-> <<"linkage", <<L[i].class, Slug[L[i].aspect]>> >>,
         status |-> IF L[i].status = "linked" THEN "done" ELSE "blocked", line |-> i]]

\* Every row may be in the table.
AllLinked(L) ==
    \A i \in DOMAIN L : L[i].class # "" /\ L[i].aspect # "" /\ L[i].status \in LinkageStatuses

\* If no row is refused, the tasks are those of the rows.
LEMMA LinkageTasksAre ==
    ASSUME NEW L \in Seq(LinkageLine), AllLinked(L)
    PROVE  /\ LinkageTasks(L) = Listed(LinkageGet(L), 1..Len(L))
           /\ LinkageTasks(L) \in Seq(TableTasks)
<1> DEFINE n == Len(L)
           named == [i \in DOMAIN L |-> [id |-> <<L[i].class, Slug[L[i].aspect]>>,
                                         status |-> L[i].status]]
           K == 1..n
           G == LinkageGet(L)
           a == Ascending(K)
<1>1. n \in Nat /\ DOMAIN L = 1..n
  OBVIOUS
<1>2. ASSUME NEW i \in 1..n
      PROVE  Task("linkage", named[i], LinkageTaskStatus(named[i]), i) = G[i]
  <2> DEFINE x == <<L[i].class, Slug[L[i].aspect]>>
             y == L[i].status
             z == named[i]
  <2>1. z = [id |-> x, status |-> y]
    BY <1>1
  <2>2. G[i] = [source |-> "linkage", id |-> <<"linkage", x>>,
                status |-> IF y = "linked" THEN "done" ELSE "blocked", line |-> i]
    BY DEF LinkageGet
  <2> HIDE DEF x, y, z
  <2>3. z.id = x /\ z.status = y
    BY <2>1
  <2>4. Task("linkage", z, LinkageTaskStatus(z), i) = G[i]
    BY <2>2, <2>3 DEF Task, LinkageTaskStatus
  <2> QED
    BY <2>4 DEF z
<1>3. LinkageTasks(L) = TasksAt("linkage", named, K, LinkageTaskStatus)
  <2>1. {i \in DOMAIN L : L[i].status \in LinkageStatuses} = K
    BY <1>1 DEF AllLinked
  <2>2. ~\E i \in K : L[i].class = "" \/ L[i].aspect = ""
    BY <1>1 DEF AllLinked
  <2> QED
    BY <2>1, <2>2 DEF LinkageTasks
<1> HIDE DEF named, G, n
<1>4. a \in [1..Cardinality(K) -> K] /\ DOMAIN a = 1..Cardinality(K) /\ Cardinality(K) \in Nat
  <2>1. K \in SUBSET (1..n)
    OBVIOUS
  <2> QED
    BY <1>1, <2>1, AscendingType, FiniteUpTo
<1>5. TasksAt("linkage", named, K, LinkageTaskStatus) = Listed(G, K)
  <2>1. \A k \in DOMAIN a : a[k] \in 1..n
    BY <1>4
  <2>2. TasksAt("linkage", named, K, LinkageTaskStatus) =
           [k \in DOMAIN a |-> Task("linkage", named[a[k]], LinkageTaskStatus(named[a[k]]), a[k])]
    BY DEF TasksAt
  <2>3. \A k \in DOMAIN a : Task("linkage", named[a[k]], LinkageTaskStatus(named[a[k]]), a[k]) = G[a[k]]
    BY <1>2, <2>1
  <2> QED
    BY <2>2, <2>3 DEF Listed
<1>6. ASSUME NEW i \in K PROVE G[i] \in TableTasks
  <2>1. L[i].class \in Names \cup {""} /\ L[i].aspect \in ToSet(Aspects)
    <3>1. L[i] \in LinkageLine
      BY <1>1
    <3> QED
      BY <3>1, LinkageLineIs
  <2>2. <<L[i].class, Slug[L[i].aspect]>> \in (Names \cup {""}) \X {Slug[x] : x \in ToSet(Aspects)}
    BY <2>1
  <2>3. <<"linkage", <<L[i].class, Slug[L[i].aspect]>> >> \in TableIds
    BY <2>2 DEF TableIds
  <2>4. i \in Nat
    <3>1. 1..n \subseteq Nat
      BY <1>1
    <3> QED
      BY <3>1
  <2> DEFINE x == <<"linkage", <<L[i].class, Slug[L[i].aspect]>> >>
             y == IF L[i].status = "linked" THEN "done" ELSE "blocked"
  <2>5. G[i] = [source |-> "linkage", id |-> x, status |-> y, line |-> i]
    BY DEF G, LinkageGet, n
  <2>6. x \in TableIds /\ y \in {"open", "blocked", "done"}
    BY <2>3
  <2> HIDE DEF x, y
  <2> QED
    BY <2>4, <2>5, <2>6 DEF TableTasks
<1>7. Listed(G, K) \in Seq(TableTasks)
  <2> HIDE DEF a
  <2>1. \A k \in DOMAIN a : G[a[k]] \in TableTasks
    BY <1>4, <1>6
  <2>2. [k \in DOMAIN a |-> G[a[k]]] \in [1..Cardinality(K) -> TableTasks]
    BY <1>4, <2>1
  <2>3. Listed(G, K) = [k \in DOMAIN a |-> G[a[k]]]
    BY DEF Listed, a
  <2> QED
    BY <1>4, <2>2, <2>3
<1> QED
  BY <1>3, <1>5, <1>7 DEF G, n

\* If neither index refuses the table, the task index has all its rows ...
LEMMA LinkageTasksServed ==
    ASSUME NEW L \in Seq(LinkageLine), AllLinked(L), Index(<<LinkageTasks(L)>>) # Refused
    PROVE  LET tasks == Index(<<LinkageTasks(L)>>) IN
           {tasks[i].line : i \in DOMAIN tasks} = DOMAIN L
<1> DEFINE n == Len(L)
           K == 1..n
           G == LinkageGet(L)
           s == LinkageTasks(L)
           t == Index(<<s>>)
           m == Cardinality(K)
<1>1. n \in Nat /\ DOMAIN L = 1..n
  OBVIOUS
<1>2. s = Listed(G, K) /\ s \in Seq(TableTasks)
  BY LinkageTasksAre
<1>3. \A i \in 1..n : G[i].line = i
  BY DEF LinkageGet
<1> HIDE DEF G, s, m, n
<1>4. /\ DOMAIN s = 1..m /\ m \in Nat
      /\ \A k \in 1..m : Ascending(K)[k] \in K /\ s[k] = G[Ascending(K)[k]]
      /\ \A i \in K : \E k \in 1..m : Ascending(K)[k] = i /\ s[k] = G[i]
  <2>0. K \in SUBSET (1..n)
    OBVIOUS
  <2>1. Lists(Listed(G, K), G, K)
    BY <1>1, <2>0, ListedMembers
  <2> HIDE DEF K
  <2> QED
    BY <1>2, <2>1 DEF m, Lists
<1>5. Len(s) = m
  BY <1>2, <1>4
<1> HIDE DEF t
<1>6. t \in Seq(TableTasks) /\ Rearranges(t, s)
  <2>1. t # Refused
    BY DEF t, s
  <2> QED
    BY <1>2, <2>1, IndexOfOne DEF t
<1> HIDE DEF K
<1>7. DOMAIN t = 1..m
  BY <1>5, <1>6 DEF Rearranges
<1>8. ASSUME NEW k \in DOMAIN t PROVE t[k].line \in K
  <2>1. PICK j \in 1..m : t[k] = s[j]
    BY <1>5, <1>6, <1>7 DEF Rearranges
  <2>2. Ascending(K)[j] \in K /\ s[j] = G[Ascending(K)[j]]
    BY <1>4
  <2> QED
    BY <1>3, <2>1, <2>2 DEF K
<1>9. ASSUME NEW i \in K PROVE \E k \in DOMAIN t : t[k].line = i
  <2>1. PICK j \in 1..m : s[j] = G[i]
    BY <1>4
  <2>2. PICK k \in 1..m : t[k] = s[j]
    BY <1>5, <1>6 DEF Rearranges
  <2> QED
    BY <1>3, <1>7, <2>1, <2>2 DEF K
<1>10. {t[k].line : k \in DOMAIN t} = K
  BY <1>8, <1>9
<1> QED
  BY <1>1, <1>10 DEF t, s, K

\* The rows of class c, and where their aspects come among all.
RowsOf(L, c) == {i \in DOMAIN L : L[i].class = c}
AspectAt(L, i) == CHOOSE k \in DOMAIN Aspects : Aspects[k] = L[i].aspect
ByAspectOf(L, c) ==
    Sorted(Ascending(RowsOf(L, c)),
           [k \in DOMAIN Ascending(RowsOf(L, c)) |-> AspectAt(L, Ascending(RowsOf(L, c))[k])])

\* They are all there when they are in order.
LEMMA ByAspectHas ==
    ASSUME NEW L \in Seq(LinkageLine), NEW c
    PROVE  /\ ByAspectOf(L, c) \in Seq(Nat)
           /\ Len(ByAspectOf(L, c)) = Len(Ascending(RowsOf(L, c)))
           /\ \A i \in RowsOf(L, c) : \E k \in 1..Len(ByAspectOf(L, c)) : ByAspectOf(L, c)[k] = i
<1> DEFINE n == Len(L)
           R == RowsOf(L, c)
           a == Ascending(R)
           key == [k \in DOMAIN a |-> AspectAt(L, a[k])]
           b == ByAspectOf(L, c)
<1>1. n \in Nat /\ DOMAIN L = 1..n
  OBVIOUS
<1>2. R \in SUBSET (1..n)
  BY DEF RowsOf
<1> HIDE DEF n, R
<1>3. /\ a \in [1..Cardinality(R) -> R] /\ a \in Seq(1..n) /\ Len(a) = Cardinality(R)
      /\ DOMAIN a = 1..Cardinality(R)
  BY <1>1, <1>2, AscendingType
<1>4. \A i \in R : \E k \in 1..Len(a) : a[k] = i
  BY <1>1, <1>2, <1>3, AscendingMembers
<1> HIDE DEF a
<1>5. ASSUME NEW i \in 1..n PROVE AspectAt(L, i) \in Int
  <2>1. L[i] \in LinkageLine
    BY <1>1
  <2>2. L[i].aspect \in ToSet(Aspects)
    BY <2>1, LinkageLineIs
  <2>3. PICK k \in DOMAIN Aspects : Aspects[k] = L[i].aspect
    BY <2>2 DEF ToSet
  <2>4. AspectAt(L, i) \in DOMAIN Aspects
    BY <2>3 DEF AspectAt
  <2>5. DOMAIN Aspects \subseteq Int
    BY TablesAssumption DEF TablesAssumption
  <2> QED
    BY <2>4, <2>5
<1>6. key \in [1..Len(a) -> Int]
  <2>1. \A k \in DOMAIN a : a[k] \in 1..n
    BY <1>2, <1>3
  <2> QED
    BY <1>3, <1>5, <2>1
<1>7. b = Sorted(a, key)
  BY DEF ByAspectOf, a, R
<1> HIDE DEF key, b
<1>8. b \in Seq(1..n) /\ Rearranges(b, a)
  BY <1>3, <1>6, <1>7, SortedRearranges
<1>9. b \in Seq(Nat)
  <2>1. \A k \in 1..Len(b) : b[k] \in Nat
    BY <1>1, <1>8
  <2>2. Len(b) \in Nat /\ b = [k \in 1..Len(b) |-> b[k]]
    BY <1>8
  <2>3. [k \in 1..Len(b) |-> b[k]] \in Seq(Nat)
    <3>1. [k \in 1..Len(b) |-> b[k]] \in [1..Len(b) -> Nat]
      BY <2>1
    <3> QED
      BY <2>2, <3>1
  <2> QED
    BY <2>2, <2>3
<1>10. Len(b) = Len(a)
  BY <1>8 DEF Rearranges
<1>11. ASSUME NEW i \in R PROVE \E k \in 1..Len(b) : b[k] = i
  <2>1. PICK j \in 1..Len(a) : a[j] = i
    BY <1>4
  <2>2. PICK k \in 1..Len(a) : b[k] = a[j]
    BY <1>8 DEF Rearranges
  <2> QED
    BY <1>10, <2>1, <2>2
<1> QED
  BY <1>9, <1>10, <1>11 DEF a, b, R

\* ... and the symbol index every row, or as many of its class as it may.
LEMMA LinkageServed ==
    ASSUME NEW L \in Seq(LinkageLine), SymbolLinkage(L, Classes, MaxLinkage) # Refused
    PROVE  LET symbols == SymbolLinkage(L, Classes, MaxLinkage) IN
           /\ AllLinked(L)
           /\ \A i \in DOMAIN L : \/ i \in ToSet(symbols[L[i].class])
                                  \/ Len(symbols[L[i].class]) = MaxLinkage
<1> DEFINE symbols == SymbolLinkage(L, Classes, MaxLinkage)
           most == MaxLinkage
           Cut(c) == LET l == Len(Ascending(RowsOf(L, c))) IN
                     SubSeq(ByAspectOf(L, c), 1, IF l < most THEN l ELSE most)
<1>1. /\ \A i \in DOMAIN L : LinkageRow(L[i], Classes)
      /\ symbols = [c \in Classes |-> Cut(c)]
  BY DEF SymbolLinkage, ByAspectOf, RowsOf, AspectAt
<1>2. AllLinked(L)
  <2>1. \A c \in Classes : c # ""
    BY DEF Classes
  <2> QED
    BY <1>1, <2>1 DEF LinkageRow, AllLinked
<1>3. ASSUME NEW i \in DOMAIN L
      PROVE  i \in ToSet(symbols[L[i].class]) \/ Len(symbols[L[i].class]) = most
  <2> DEFINE c == L[i].class
             b == ByAspectOf(L, c)
             l == Len(Ascending(RowsOf(L, c)))
  <2>1. symbols[c] = SubSeq(b, 1, IF l < most THEN l ELSE most)
    <3>1. c \in Classes
      BY <1>1 DEF LinkageRow
    <3> QED
      BY <1>1, <3>1
  <2>2. i \in RowsOf(L, c)
    BY DEF RowsOf
  <2> HIDE DEF symbols, c, b, l
  <2>3. b \in Seq(Nat) /\ Len(b) = l /\ \E k \in 1..Len(b) : b[k] = i
    BY <2>2, ByAspectHas DEF b, l
  <2>4. l \in Nat /\ most \in Nat
    BY <2>3, TablesAssumption DEF TablesAssumption
  <2>5. CASE l < most
    <3>1. symbols[c] = b
      BY <2>1, <2>3, <2>5
    <3> QED
      BY <2>3, <3>1 DEF ToSet, c
  <2>6. CASE ~(l < most)
    <3>1. symbols[c] = SubSeq(b, 1, most)
      BY <2>1, <2>6
    <3>2. Len(SubSeq(b, 1, most)) = most
      BY <2>3, <2>4, <2>6
    <3> QED
      BY <3>1, <3>2 DEF c
  <2> QED
    BY <2>5, <2>6
<1> QED
  BY <1>2, <1>3

\* The task index and the symbol index go by the same table: of a decomp ledger
\* that LedgerClasses takes every class has its task, unless its status is not one
\* of a task, and the task index refuses exactly the ledgers of more than MaxTasks
\* tasks; of a linkage table that neither refuses the tasks are the rows, and the
\* symbol index has every row but those of a class that has MaxLinkage others.
THEOREM TablesServed == Spec => []TablesServedByBoth
<1>1. Lines => TablesServedByBoth
  <2> SUFFICES ASSUME Lines PROVE TablesServedByBoth
    OBVIOUS
  <2>1. PICK L : L = lines
    OBVIOUS
  <2>2. ASSUME source = "decomp", LedgerClasses(L) # Refused
        PROVE  LET tasks == Index(<<DecompTasks(L)>>)
                   listed == {i \in DOMAIN L : L[i].status \in DOMAIN DecompStatuses}
               IN  IF Cardinality(listed) > MaxTasks THEN tasks = Refused
                   ELSE /\ tasks # Refused
                        /\ \A c \in LedgerClasses(L) :
                              \/ \E i \in DOMAIN tasks : /\ tasks[i].id = <<"decomp", c>>
                                                        /\ L[tasks[i].line].class = c
                              \/ \E i \in DOMAIN L : L[i].class = c /\ i \notin listed
    <3>1. L \in Seq(DecompLine)
      BY <2>1, <2>2 DEF Lines, ClassSources, DecompLine
    <3>2. {i \in DOMAIN L : L[i].status \in DOMAIN DecompStatuses} = DecompKnown(L)
      BY <3>1 DEF DecompKnown
    <3> QED
      BY <2>2, <3>1, <3>2, DecompServed DEF DecompClasses
  <2>3. ASSUME source = "linkage", Index(<<LinkageTasks(L)>>) # Refused,
               SymbolLinkage(L, Classes, MaxLinkage) # Refused
        PROVE  LET tasks == Index(<<LinkageTasks(L)>>)
                   symbols == SymbolLinkage(L, Classes, MaxLinkage)
               IN  /\ {tasks[i].line : i \in DOMAIN tasks} = DOMAIN L
                   /\ \A i \in DOMAIN L :
                         \/ i \in ToSet(symbols[L[i].class])
                         \/ Len(symbols[L[i].class]) = MaxLinkage
    <3>1. L \in Seq(LinkageLine)
      BY <2>1, <2>3 DEF Lines, ClassSources, LinkageLine
    <3>2. AllLinked(L)
      BY <2>3, <3>1, LinkageServed
    <3>3. {Index(<<LinkageTasks(L)>>)[i].line : i \in DOMAIN Index(<<LinkageTasks(L)>>)} = DOMAIN L
      BY <2>3, <3>1, <3>2, LinkageTasksServed
    <3> QED
      BY <2>3, <3>1, <3>3, LinkageServed
  <2> QED
    BY <2>1, <2>2, <2>3 DEF TablesServedByBoth
<1> QED
  BY <1>1, LinesInv, PTL

------------------------------------------------------------------------------
(***************************************************************************)
(* Search: what either engine finds matches when it is read again, and the *)
(* results in order are the files found, the best first.  Of a file that   *)
(* is plain both find the same.                                            *)
(***************************************************************************)

\* The lines of a corpus, and the lines of a file that match.
CorpusLine == LinesOf["corpus"]
FoundIn(L, f) == {i \in 1..Len(TextOf(L, f)) : Matches(TextOf(L, f)[i])}

\* The first m of s, or all of s.
LEMMA FirstOfSeq ==
    ASSUME NEW A, NEW s \in Seq(A), NEW m \in Nat
    PROVE  LET t == SubSeq(s, 1, IF Len(s) < m THEN Len(s) ELSE m) IN
           /\ t \in Seq(A)
           /\ Len(t) = IF Len(s) < m THEN Len(s) ELSE m
           /\ \A k \in 1..Len(t) : k \in 1..Len(s) /\ t[k] = s[k]
<1> DEFINE l == IF Len(s) < m THEN Len(s) ELSE m
           t == SubSeq(s, 1, l)
<1>1. l \in Nat /\ l <= Len(s) /\ Len(s) \in Nat
  OBVIOUS
<1> HIDE DEF l
<1>2. t \in Seq(A) /\ Len(t) = l /\ \A k \in 1..l : t[k] = s[k]
  <2>1. t = [k \in 1..l |-> s[k]]
    BY <1>1
  <2>2. \A k \in 1..l : s[k] \in A
    BY <1>1
  <2>3. t \in [1..l -> A]
    BY <2>1, <2>2
  <2> QED
    BY <1>1, <2>1, <2>3
<1>3. \A k \in 1..l : k \in 1..Len(s)
  BY <1>1
<1> QED
  BY <1>2, <1>3 DEF l

\* Every line of a file is a line of the corpus.
LEMMA TextIs ==
    ASSUME NEW L \in Seq(CorpusLine), NEW f
    PROVE  /\ TextOf(L, f) \in Seq(CorpusLine)
           /\ \A i \in 1..Len(TextOf(L, f)) :
                 \E j \in DOMAIN L : L[j].file = f /\ TextOf(L, f)[i] = L[j]
<1> DEFINE n == Len(L)
           S == {i \in DOMAIN L : L[i].file = f}
           T == TextOf(L, f)
<1>1. n \in Nat /\ DOMAIN L = 1..n /\ L \in [1..n -> CorpusLine]
  OBVIOUS
<1>2. S \in SUBSET (1..n) /\ \A j \in S : j \in DOMAIN L /\ L[j].file = f
  OBVIOUS
<1>3. T = Listed(L, S)
  BY DEF TextOf, At, Listed
<1> HIDE DEF n, S, T
<1>4. T \in Seq(CorpusLine)
  BY <1>1, <1>2, <1>3, ListedType
<1>5. Lists(T, L, S)
  BY <1>1, <1>2, <1>3, ListedMembers
<1>6. ASSUME NEW i \in 1..Len(T) PROVE \E j \in DOMAIN L : L[j].file = f /\ T[i] = L[j]
  <2>1. i \in 1..Cardinality(S)
    BY <1>4, <1>5 DEF Lists
  <2>2. Ascending(S)[i] \in S /\ T[i] = L[Ascending(S)[i]]
    BY <1>5, <2>1 DEF Lists
  <2> QED
    BY <1>2, <2>2
<1> QED
  BY <1>4, <1>6 DEF T

\* The first of some lines are those with fewer than MatchesPerFile before.
LEMMA FirstAre ==
    ASSUME NEW n \in Nat, NEW M \in SUBSET (1..n)
    PROVE  /\ FirstHits(M) \in Seq(M)
           /\ ToSet(FirstHits(M)) = {i \in M : Cardinality({j \in M : j < i}) < MatchesPerFile}
           /\ FirstHits(M) = <<>> <=> M = {}
<1> DEFINE a == Ascending(M)
           m == MatchesPerFile
           t == FirstHits(M)
<1>3. m \in Nat /\ m # 0
  BY FilesAssumption DEF FilesAssumption
<1>4. t = SubSeq(a, 1, IF Len(a) < m THEN Len(a) ELSE m)
  BY DEF FirstHits
<1> HIDE DEF m, t
<1>5. /\ a \in [1..Cardinality(M) -> M] /\ Len(a) = Cardinality(M)
      /\ DOMAIN a = 1..Cardinality(M) /\ Cardinality(M) \in Nat
  BY AscendingType, FiniteUpTo
<1>6. \A k \in 1..Cardinality(M) : a[k] \in M /\ RankIn(M, a[k]) = k - 1
  BY AllRanked DEF Ranked
<1>7. \A i \in M : \E k \in 1..Cardinality(M) : a[k] = i
  BY AscendingMembers
<1> HIDE DEF a
<1>8. a \in Seq(M)
  BY <1>5
<1>9. /\ t \in Seq(M) /\ Len(t) = IF Len(a) < m THEN Len(a) ELSE m
      /\ \A k \in 1..Len(t) : k \in 1..Len(a) /\ t[k] = a[k]
  BY <1>3, <1>4, <1>8, FirstOfSeq
<1>10. ASSUME NEW i \in M PROVE i \in ToSet(t) <=> RankIn(M, i) < m
  <2>1. PICK k \in 1..Len(a) : a[k] = i /\ RankIn(M, i) = k - 1
    BY <1>5, <1>6, <1>7
  <2>2. ASSUME RankIn(M, i) < m PROVE i \in ToSet(t)
    <3>1. k \in 1..Len(t)
      BY <1>3, <1>5, <1>9, <2>1, <2>2
    <3>2. t[k] = i /\ k \in DOMAIN t
      BY <1>9, <2>1, <3>1
    <3> QED
      BY <3>2 DEF ToSet
  <2>3. ASSUME i \in ToSet(t) PROVE RankIn(M, i) < m
    <3>1. PICK j \in 1..Len(t) : t[j] = i
      BY <1>9, <2>3 DEF ToSet
    <3>2. j \in 1..Len(a) /\ a[j] = i
      BY <1>9, <3>1
    <3>3. RankIn(M, i) = j - 1
      BY <1>5, <1>6, <3>2
    <3> QED
      BY <1>3, <1>5, <1>9, <3>1, <3>3
  <2> QED
    BY <2>2, <2>3
<1>11. ToSet(t) \subseteq M
  BY <1>9 DEF ToSet
<1>12. ToSet(t) = {i \in M : Cardinality({j \in M : j < i}) < m}
  BY <1>10, <1>11 DEF RankIn
<1>13. t = <<>> <=> M = {}
  <2>1. t = <<>> <=> Len(t) = 0
    BY <1>9
  <2>2. Len(t) = 0 <=> Cardinality(M) = 0
    BY <1>3, <1>5, <1>9
  <2>3. Cardinality(M) = 0 <=> M = {}
    BY FiniteUpTo, FS_EmptySet
  <2> QED
    BY <2>1, <2>2, <2>3
<1> QED
  BY <1>9, <1>12, <1>13 DEF t, m

\* What an engine found, by file: the lines of each that are to be read again.
MapOf(L, M) == \A f \in ToSet(Files) : M[f] \in Seq(FoundIn(L, f))

\* The files that are found, and the results before they are in order.
FilesAt(M) == {i \in DOMAIN Files : M[Files[i]] # <<>>}
FilesFound(M) == At(Files, FilesAt(M))
Result(M, f) == [file |-> f, lines |-> M[f]]
Results(M) == [i \in DOMAIN FilesFound(M) |-> Result(M, FilesFound(M)[i])]

\* What Python finds.
LEMMA PythonIs ==
    ASSUME NEW L \in Seq(CorpusLine), NEW f \in ToSet(Files)
    PROVE  PythonMap(L)[f] = FirstHits(FoundIn(L, f))
<1> DEFINE T == TextOf(L, f)
<1>1. T \in Seq(CorpusLine)
  BY TextIs
<1>2. PythonMap(L)[f] = FirstHits({i \in DOMAIN T : Matches(T[i])})
  BY DEF PythonMap
<1> HIDE DEF T
<1>3. DOMAIN T = 1..Len(T)
  BY <1>1
<1> QED
  BY <1>2, <1>3 DEF FoundIn, T

\* The lines of a file have numbers.
LEMMA FoundType ==
    ASSUME NEW L \in Seq(CorpusLine), NEW f
    PROVE  Len(TextOf(L, f)) \in Nat /\ FoundIn(L, f) \in SUBSET (1..Len(TextOf(L, f)))
<1>1. TextOf(L, f) \in Seq(CorpusLine)
  BY TextIs
<1> QED
  BY <1>1 DEF FoundIn

\* The first of them.
LEMMA FirstFound ==
    ASSUME NEW L \in Seq(CorpusLine), NEW f
    PROVE  /\ FirstHits(FoundIn(L, f)) \in Seq(FoundIn(L, f))
           /\ ToSet(FirstHits(FoundIn(L, f)))
                 = {i \in FoundIn(L, f) :
                       Cardinality({j \in FoundIn(L, f) : j < i}) < MatchesPerFile}
           /\ FirstHits(FoundIn(L, f)) = <<>> <=> FoundIn(L, f) = {}
<1> DEFINE n == Len(TextOf(L, f))
           M == FoundIn(L, f)
<1>1. n \in Nat /\ M \in SUBSET (1..n)
  BY FoundType
<1> HIDE DEF n, M
<1>2. /\ FirstHits(M) \in Seq(M)
      /\ ToSet(FirstHits(M)) = {i \in M : Cardinality({j \in M : j < i}) < MatchesPerFile}
      /\ FirstHits(M) = <<>> <=> M = {}
  BY <1>1, FirstAre
<1> QED
  BY <1>2 DEF M

\* Python finds lines that match.
LEMMA PythonFinds ==
    ASSUME NEW L \in Seq(CorpusLine)
    PROVE  MapOf(L, PythonMap(L))
<1>1. ASSUME NEW f \in ToSet(Files) PROVE PythonMap(L)[f] \in Seq(FoundIn(L, f))
  BY PythonIs, FirstFound
<1> QED
  BY <1>1 DEF MapOf

\* What ripgrep prints of a file, and the code reads from that.
PrintedIn(L, f) == {i \in DOMAIN TextOf(L, f) :
                       /\ Matches(TextOf(L, f)[i]) /\ TextOf(L, f)[i].kind # "python"
                       /\ \A j \in 1..i : TextOf(L, f)[j].kind # "nul"}
WholeIn(L, f, s) == At(s, {k \in DOMAIN s : Whole(TextOf(L, f)[s[k]])})

\* What the code reads from the output of ripgrep, if the search does not fail.
LEMMA RipgrepIs ==
    ASSUME NEW L, RipgrepMap(L) # Refused, NEW f \in ToSet(Files)
    PROVE  RipgrepMap(L)[f] = WholeIn(L, f, FirstHits(PrintedIn(L, f)))
  BY DEF RipgrepMap, Printed, PrintedIn, WholeIn

\* These lines match.
LEMMA RipgrepFinds ==
    ASSUME NEW L \in Seq(CorpusLine), RipgrepMap(L) # Refused
    PROVE  MapOf(L, RipgrepMap(L))
<1>1. ASSUME NEW f \in ToSet(Files) PROVE RipgrepMap(L)[f] \in Seq(FoundIn(L, f))
  <2> DEFINE n == Len(TextOf(L, f))
             P == PrintedIn(L, f)
             s == FirstHits(P)
             K == {k \in DOMAIN s : Whole(TextOf(L, f)[s[k]])}
  <2>1. n \in Nat /\ TextOf(L, f) \in Seq(CorpusLine)
    BY TextIs
  <2>2. P \subseteq FoundIn(L, f) /\ P \in SUBSET (1..n)
    BY <2>1 DEF PrintedIn, FoundIn
  <2>3. RipgrepMap(L)[f] = At(s, K)
    BY RipgrepIs DEF WholeIn
  <2> HIDE DEF n, P
  <2>4. s \in Seq(P)
    BY <2>1, <2>2, FirstAre
  <2> HIDE DEF s
  <2>5. Len(s) \in Nat /\ DOMAIN s = 1..Len(s) /\ s \in [1..Len(s) -> FoundIn(L, f)]
    <3>1. Len(s) \in Nat /\ DOMAIN s = 1..Len(s) /\ \A k \in 1..Len(s) : s[k] \in P
      BY <2>4
    <3>2. s = [k \in 1..Len(s) |-> s[k]]
      BY <2>4
    <3> QED
      BY <2>2, <3>1, <3>2
  <2>6. K \in SUBSET (1..Len(s))
    BY <2>5
  <2> HIDE DEF K
  <2>7. Listed(s, K) \in Seq(FoundIn(L, f))
    BY <2>5, <2>6, ListedType
  <2> QED
    BY <2>3, <2>7 DEF At, Listed
<1> QED
  BY <1>1 DEF MapOf

\* Of a plain file it is what Python finds.
LEMMA PlainIs ==
    ASSUME NEW L \in Seq(CorpusLine), RipgrepMap(L) # Refused, NEW f \in ToSet(Files), Plain(L, f)
    PROVE  RipgrepMap(L)[f] = PythonMap(L)[f]
<1> DEFINE T == TextOf(L, f)
           s == FirstHits(FoundIn(L, f))
<1>1. T \in Seq(CorpusLine) /\ \A i \in 1..Len(T) : T[i].kind \in {"both", "none"}
  BY TextIs DEF Plain
<1> HIDE DEF T
<1>2. DOMAIN T = 1..Len(T) /\ Len(T) \in Nat
  BY <1>1
<1>3. ASSUME NEW i \in 1..Len(T) PROVE \A j \in 1..i : T[j].kind # "nul"
  <2>1. \A j \in 1..i : j \in 1..Len(T)
    BY <1>2
  <2> QED
    BY <1>1, <2>1
<1>4. PrintedIn(L, f) = FoundIn(L, f)
  BY <1>1, <1>2, <1>3 DEF PrintedIn, FoundIn, T
<1>5. s \in Seq(FoundIn(L, f))
  BY FirstFound
<1>6. \A i \in FoundIn(L, f) : Whole(T[i])
  BY <1>1 DEF FoundIn, Whole, T
<1> HIDE DEF s
<1>7. {k \in DOMAIN s : Whole(T[s[k]])} = DOMAIN s
  <2>1. \A k \in DOMAIN s : s[k] \in FoundIn(L, f)
    BY <1>5
  <2> QED
    BY <1>6, <2>1
<1>8. WholeIn(L, f, s) = At(s, DOMAIN s)
  BY <1>7 DEF WholeIn, T
<1>9. At(s, DOMAIN s) = s
  BY <1>5, AtAll
<1>10. RipgrepMap(L)[f] = WholeIn(L, f, s)
  BY <1>4, RipgrepIs DEF s
<1> QED
  BY <1>8, <1>9, <1>10, PythonIs DEF s

\* The answer is the files found, as the lines found match when they are read again.
LEMMA AnswerIs ==
    ASSUME NEW L \in Seq(CorpusLine), NEW M, MapOf(L, M)
    PROVE  Answer(L, M) = Bounded(Results(M))
<1> DEFINE Rechecked(f) == At(M[f], {k \in DOMAIN M[f] : Matches(TextOf(L, f)[M[f][k]])})
           H == {i \in DOMAIN Files : Rechecked(Files[i]) # <<>>}
           hit == At(Files, H)
<1>2. ASSUME NEW f \in ToSet(Files) PROVE Rechecked(f) = M[f]
  <2> DEFINE t == M[f]
  <2>1. t \in Seq(FoundIn(L, f))
    BY DEF MapOf
  <2> HIDE DEF t
  <2>2. \A k \in DOMAIN t : t[k] \in FoundIn(L, f)
    BY <2>1
  <2>3. {k \in DOMAIN t : Matches(TextOf(L, f)[t[k]])} = DOMAIN t
    BY <2>2 DEF FoundIn
  <2>4. At(t, DOMAIN t) = t
    BY <2>1, AtAll
  <2> QED
    BY <2>3, <2>4 DEF t
<1>3. Answer(L, M) = Bounded([i \in DOMAIN hit |-> [file |-> hit[i], lines |-> Rechecked(hit[i])]])
  BY DEF Answer
<1> HIDE DEF Rechecked
<1>4. \A i \in DOMAIN Files : Files[i] \in ToSet(Files)
  BY DEF ToSet
<1>5. H = FilesAt(M)
  BY <1>2, <1>4 DEF FilesAt
<1>6. hit = FilesFound(M)
  BY <1>5 DEF FilesFound
<1>7. \A i \in DOMAIN hit : hit[i] \in ToSet(Files)
  <2>1. Len(Files) \in Nat /\ DOMAIN Files = 1..Len(Files)
    BY FilesAssumption DEF FilesAssumption
  <2>2. H \in SUBSET (1..Len(Files))
    BY <2>1
  <2>3. DOMAIN hit = DOMAIN Ascending(H) /\ \A i \in DOMAIN hit : hit[i] = Files[Ascending(H)[i]]
    BY DEF At
  <2>4. \A i \in DOMAIN Ascending(H) : Ascending(H)[i] \in H
    BY <2>1, <2>2, AscendingType
  <2> QED
    BY <1>4, <2>3, <2>4
<1> HIDE DEF hit, H
<1>8. [i \in DOMAIN hit |-> [file |-> hit[i], lines |-> Rechecked(hit[i])]] = Results(M)
  BY <1>2, <1>6, <1>7 DEF Results, Result
<1> QED
  BY <1>3, <1>8

\* g goes through F by key.
GoesBy(g, n, F, key) ==
    /\ n \in Nat /\ g \in [1..n -> F]
    /\ \A x \in F : key[x] \in Int /\ \E k \in 1..n : g[k] = x
    /\ \A j, k \in 1..n : j < k => key[g[j]] < key[g[k]]

\* In an order by key, an element has as many before it as its place says.
LEMMA RankOfPlace ==
    ASSUME NEW n, NEW F, NEW g, NEW key, GoesBy(g, n, F, key), NEW k \in 1..n
    PROVE  Cardinality({x \in F : key[x] < key[g[k]]}) = k - 1
<1> DEFINE X == {x \in F : key[x] < key[g[k]]}
           b == [j \in 1..k - 1 |-> g[j]]
<1>0. /\ n \in Nat /\ g \in [1..n -> F] /\ \A x \in F : key[x] \in Int
      /\ \A x \in F : \E j \in 1..n : g[j] = x
      /\ \A i, j \in 1..n : i < j => key[g[i]] < key[g[j]]
  BY DEF GoesBy
<1>1. IsFiniteSet(1..k - 1) /\ Cardinality(1..k - 1) = k - 1
  BY FS_Interval
<1>2. \A j \in 1..k - 1 : j \in 1..n /\ j < k
  BY <1>0
<1>3. \A j \in 1..n : g[j] \in F /\ key[g[j]] \in Int
  BY <1>0
<1>4. b \in [1..k - 1 -> X]
  BY <1>0, <1>2, <1>3
<1>5. \A i, j \in 1..k - 1 : b[i] = b[j] => i = j
  <2>1. ASSUME NEW i \in 1..k - 1, NEW j \in 1..k - 1, g[i] = g[j] PROVE i = j
    <3>1. ~(i < j) /\ ~(j < i)
      BY <1>0, <1>2, <1>3, <2>1
    <3> QED
      BY <3>1
  <2> QED
    BY <2>1
<1>6. \A x \in X : \E j \in 1..k - 1 : b[j] = x
  <2>1. ASSUME NEW x \in X PROVE \E j \in 1..k - 1 : b[j] = x
    <3>1. PICK j \in 1..n : g[j] = x
      BY <1>0
    <3>2. key[g[j]] < key[g[k]]
      BY <3>1
    <3>3. ~(k < j) /\ j # k
      BY <1>0, <1>3, <3>2
    <3>4. j \in 1..k - 1
      BY <1>0, <3>3
    <3> QED
      BY <3>1, <3>4
  <2> QED
    BY <2>1
<1> HIDE DEF X, b
<1>7. b \in Bijection(1..k - 1, X)
  BY <1>4, <1>5, <1>6 DEF Bijection, Injection, Surjection, IsInjective
<1>8. ExistsBijection(1..k - 1, X)
  BY <1>7 DEF ExistsBijection
<1> QED
  BY <1>1, <1>8, FS_Bijection DEF X

\* The files found.
Found(M) == {f \in ToSet(Files) : M[f] # <<>>}

\* Every file found is there once.
LEMMA FilesFoundAre ==
    ASSUME NEW M
    PROVE  /\ FilesFound(M) \in Seq(Found(M))
           /\ \A f \in Found(M) : \E k \in 1..Len(FilesFound(M)) : FilesFound(M)[k] = f
           /\ \A j, k \in 1..Len(FilesFound(M)) :
                 Rank[FilesFound(M)[j]] = Rank[FilesFound(M)[k]] => j = k
<1> DEFINE n == Len(Files)
           S == FilesAt(M)
           m == Cardinality(S)
           s == FilesFound(M)
           a == Ascending(S)
<1>1. /\ n \in Nat /\ DOMAIN Files = 1..n
      /\ \A i, j \in 1..n : Rank[Files[i]] = Rank[Files[j]] => i = j
  BY FilesAssumption DEF FilesAssumption
<1>2. S \in SUBSET (1..n)
  BY <1>1 DEF FilesAt
<1>3. s = Listed(Files, S)
  BY DEF FilesFound, At, Listed
<1>4. \A i \in S : Files[i] \in Found(M)
  BY DEF FilesAt, Found, ToSet
<1>5. \A f \in Found(M) : \E i \in S : Files[i] = f
  BY DEF FilesAt, Found, ToSet
<1> HIDE DEF n, S, s
<1>6. Lists(s, Files, S)
  BY <1>1, <1>2, <1>3, ListedMembers
<1>7. DOMAIN s = 1..m /\ m \in Nat /\ \A k \in 1..m : a[k] \in S /\ s[k] = Files[a[k]]
  BY <1>6 DEF Lists
<1>8. \A f \in Found(M) : \E k \in 1..m : s[k] = f
  <2>1. \A i \in S : \E k \in 1..m : s[k] = Files[i]
    BY <1>6 DEF Lists
  <2> QED
    BY <1>5, <2>1
<1>9. \A j, k \in 1..m : j < k => a[j] < a[k]
  BY <1>1, <1>2, AscendingMembers
<1> HIDE DEF m, a
<1>10. \A k \in 1..m : s[k] \in Found(M)
  BY <1>4, <1>7
<1>11. s = [k \in 1..m |-> s[k]]
  BY <1>3, <1>7 DEF Listed
<1>12. s \in [1..m -> Found(M)]
  BY <1>10, <1>11
<1>13. s \in Seq(Found(M)) /\ Len(s) = m
  BY <1>7, <1>12
<1>14. ASSUME NEW j \in 1..m, NEW k \in 1..m, Rank[s[j]] = Rank[s[k]] PROVE j = k
  <2>1. a[j] \in 1..n /\ a[k] \in 1..n /\ Rank[Files[a[j]]] = Rank[Files[a[k]]]
    BY <1>2, <1>7, <1>14
  <2>2. a[j] = a[k] /\ a[j] \in Nat /\ a[k] \in Nat
    BY <1>1, <2>1
  <2>3. ~(j < k) /\ ~(k < j)
    BY <1>9, <2>2
  <2> QED
    BY <2>3
<1> QED
  BY <1>8, <1>13, <1>14 DEF s

\* The files found are answered by rank, and no more than Limit.
LEMMA BoundedAre ==
    ASSUME NEW M
    PROVE  \E n, g : /\ GoesBy(g, n, Found(M), Rank)
                     /\ Bounded(Results(M)) =
                           [k \in 1..(IF n < Limit THEN n ELSE Limit) |-> Result(M, g[k])]
<1> DEFINE s == FilesFound(M)
           n == Len(s)
           A == {Result(M, f) : f \in Found(M)}
           r == Results(M)
           key == [i \in DOMAIN r |-> Rank[r[i].file]]
<1>1. /\ s \in Seq(Found(M))
      /\ \A f \in Found(M) : \E k \in 1..n : s[k] = f
      /\ \A j, k \in 1..n : Rank[s[j]] = Rank[s[k]] => j = k
  BY FilesFoundAre
<1>2. r = [i \in DOMAIN s |-> Result(M, s[i])]
  BY DEF Results
<1>3. \A f \in Found(M) : Rank[f] \in Int
  BY FilesAssumption DEF FilesAssumption, Found
<1>4. ByRank(r) = Sorted(r, key)
  BY DEF ByRank
<1>5. Bounded(r) = SubSeq(ByRank(r), 1, IF Len(r) < Limit THEN Len(r) ELSE Limit)
  BY DEF Bounded
<1> HIDE DEF s, r
<1>6. n \in Nat /\ DOMAIN s = 1..n /\ \A i \in 1..n : s[i] \in Found(M)
  BY <1>1
<1> HIDE DEF n
<1>7. r \in [1..n -> A]
  BY <1>2, <1>6
<1>8. r \in Seq(A) /\ Len(r) = n /\ DOMAIN r = 1..n
  BY <1>6, <1>7
<1>9. \A i \in 1..n : key[i] = Rank[s[i]]
  BY <1>2, <1>6, <1>8 DEF Result
<1>10. key \in [1..n -> Int]
  BY <1>3, <1>6, <1>8, <1>9
<1> HIDE DEF key, A
<1>11. PICK p : Sorts(p, r, key)
  BY <1>8, <1>10, SortedArranged
<1>12. /\ p \in [1..n -> 1..n]
       /\ Sorted(r, key) = [k \in 1..n |-> r[p[k]]]
       /\ \A i \in 1..n : \E k \in 1..n : p[k] = i
       /\ \A j, k \in 1..n : j < k => Smaller(key, p[j], p[k])
  BY <1>8, <1>11 DEF Sorts
<1> DEFINE g == [k \in 1..n |-> s[p[k]]]
           l == IF n < Limit THEN n ELSE Limit
<1>13. ASSUME NEW j \in 1..n, NEW k \in 1..n, j < k PROVE Rank[g[j]] < Rank[g[k]]
  <2>1. p[j] \in 1..n /\ p[k] \in 1..n /\ Smaller(key, p[j], p[k])
    BY <1>12, <1>13
  <2>2. ~(p[j] = p[k] /\ p[j] < p[k])
    BY <1>6, <2>1
  <2>3. \/ Rank[s[p[j]]] < Rank[s[p[k]]]
        \/ Rank[s[p[j]]] = Rank[s[p[k]]] /\ p[j] < p[k]
    BY <1>9, <2>1 DEF Smaller
  <2>4. Rank[s[p[j]]] < Rank[s[p[k]]]
    BY <1>1, <2>1, <2>2, <2>3
  <2> QED
    BY <2>4
<1>14. g \in [1..n -> Found(M)]
  BY <1>6, <1>12
<1>15. ASSUME NEW f \in Found(M) PROVE \E k \in 1..n : g[k] = f
  <2>1. PICK i \in 1..n : s[i] = f
    BY <1>1
  <2>2. PICK k \in 1..n : p[k] = i
    BY <1>12
  <2> QED
    BY <2>1, <2>2
<1>16. GoesBy(g, n, Found(M), Rank)
  BY <1>3, <1>6, <1>13, <1>14, <1>15 DEF GoesBy
<1>17. ByRank(r) = [k \in 1..n |-> Result(M, g[k])]
  BY <1>2, <1>4, <1>6, <1>12
<1>18. Limit \in Nat
  BY FilesAssumption DEF FilesAssumption
<1> HIDE DEF g
<1>19. l \in Nat /\ l <= n
  BY <1>6, <1>18
<1>20. Bounded(r) = [k \in 1..l |-> Result(M, g[k])]
  <2>1. Bounded(r) = SubSeq(ByRank(r), 1, l)
    BY <1>5, <1>8
  <2> HIDE DEF l
  <2>2. SubSeq(ByRank(r), 1, l) = [k \in 1..l |-> ByRank(r)[k]]
    BY <1>19
  <2>3. \A k \in 1..l : k \in 1..n
    BY <1>6, <1>19
  <2> QED
    BY <1>17, <2>1, <2>2, <2>3
<1> QED
  BY <1>16, <1>20 DEF r

\* They are the best ones, each with its first lines.
LEMMA BestAre ==
    ASSUME NEW L \in Seq(CorpusLine)
    PROVE  LET python == Bounded(Results(PythonMap(L))) IN
           /\ {[file |-> r.file, lines |-> ToSet(r.lines)] : r \in ToSet(python)} = Expected(L)
           /\ \A i, j \in DOMAIN python : i < j => Rank[python[i].file] < Rank[python[j].file]
<1> DEFINE P == PythonMap(L)
           python == Bounded(Results(P))
           M(f) == FoundIn(L, f)
           Shown(f) == {i \in M(f) : Cardinality({j \in M(f) : j < i}) < MatchesPerFile}
           Ahead(f) == {g \in ToSet(Files) : Rank[g] < Rank[f] /\ M(g) # {}}
           best == {f \in ToSet(Files) : M(f) # {} /\ Cardinality(Ahead(f)) < Limit}
<1>1. PICK n, g : /\ GoesBy(g, n, Found(P), Rank)
                  /\ python = [k \in 1..(IF n < Limit THEN n ELSE Limit) |-> Result(P, g[k])]
  BY BoundedAre
<1> HIDE DEF P
<1> DEFINE l == IF n < Limit THEN n ELSE Limit
<1> HIDE DEF python
<1>2. /\ n \in Nat /\ g \in [1..n -> Found(P)]
      /\ \A f \in Found(P) : \E k \in 1..n : g[k] = f
      /\ \A j, k \in 1..n : j < k => Rank[g[j]] < Rank[g[k]]
  BY <1>1 DEF GoesBy
<1>3. Limit \in Nat /\ \A f \in ToSet(Files) : Rank[f] \in Int
  BY FilesAssumption DEF FilesAssumption
<1>4. l \in Nat /\ \A k \in 1..l : k \in 1..n
  BY <1>2, <1>3
<1>a. ASSUME NEW f \in ToSet(Files)
      PROVE  (P[f] = <<>> <=> M(f) = {}) /\ ToSet(P[f]) = Shown(f)
  BY PythonIs, FirstFound DEF P
<1>5. Found(P) = {f \in ToSet(Files) : M(f) # {}}
  BY <1>a DEF Found
<1>6. \A f \in ToSet(Files) : ToSet(P[f]) = Shown(f)
  BY <1>a
<1>7. Expected(L) = {[file |-> f, lines |-> Shown(f)] : f \in best}
  <2>1. ASSUME NEW f PROVE DOMAIN TextOf(L, f) = 1..Len(TextOf(L, f))
    <3>1. TextOf(L, f) \in Seq(CorpusLine)
      BY TextIs
    <3> QED
      BY <3>1
  <2>2. ASSUME NEW f
        PROVE  {i \in DOMAIN TextOf(L, f) : Matches(TextOf(L, f)[i])} = M(f)
    BY <2>1 DEF FoundIn
  <2> QED
    BY <2>2 DEF Expected
<1> HIDE DEF M, Shown
<1>8. ASSUME NEW k \in 1..n PROVE g[k] \in best <=> k <= Limit
  <2>1. Cardinality({f \in Found(P) : Rank[f] < Rank[g[k]]}) = k - 1
    BY <1>1, RankOfPlace
  <2>2. Ahead(g[k]) = {f \in Found(P) : Rank[f] < Rank[g[k]]}
    BY <1>5
  <2>3. g[k] \in Found(P) /\ Cardinality(Ahead(g[k])) = k - 1
    BY <1>2, <2>1, <2>2
  <2> HIDE DEF Ahead
  <2>4. g[k] \in best <=> Cardinality(Ahead(g[k])) < Limit
    BY <1>5, <2>3
  <2> QED
    BY <1>3, <2>3, <2>4
<1>9. best \subseteq Found(P)
  BY <1>5
<1> HIDE DEF best
<1>10. best = {g[k] : k \in 1..l}
  <2>1. ASSUME NEW f \in best PROVE \E k \in 1..l : g[k] = f
    <3>1. PICK k \in 1..n : g[k] = f
      BY <1>2, <1>9
    <3>2. k <= Limit
      BY <1>8, <3>1
    <3>3. k \in 1..l
      BY <1>2, <1>3, <3>2
    <3> QED
      BY <3>1, <3>3
  <2>2. ASSUME NEW k \in 1..l PROVE g[k] \in best
    <3>1. k \in 1..n /\ k <= Limit
      BY <1>2, <1>3
    <3> QED
      BY <1>8, <3>1
  <2> QED
    BY <2>1, <2>2
<1>11. DOMAIN python = 1..l /\ \A k \in 1..l : python[k] = Result(P, g[k])
  BY <1>1
<1> HIDE DEF l
<1>12. \A k \in 1..l : g[k] \in ToSet(Files)
  BY <1>2, <1>4, <1>5
<1>13. {[file |-> r.file, lines |-> ToSet(r.lines)] : r \in ToSet(python)}
          = {[file |-> g[k], lines |-> Shown(g[k])] : k \in 1..l}
  <2>1. ToSet(python) = {Result(P, g[k]) : k \in 1..l}
    BY <1>11 DEF ToSet
  <2>2. \A k \in 1..l : /\ Result(P, g[k]).file = g[k]
                        /\ ToSet(Result(P, g[k]).lines) = Shown(g[k])
    BY <1>6, <1>12 DEF Result
  <2> QED
    BY <2>1, <2>2
<1>14. {[file |-> g[k], lines |-> Shown(g[k])] : k \in 1..l} = Expected(L)
  BY <1>7, <1>10
<1>15. ASSUME NEW i \in DOMAIN python, NEW j \in DOMAIN python, i < j
       PROVE  Rank[python[i].file] < Rank[python[j].file]
  <2>1. python[i].file = g[i] /\ python[j].file = g[j] /\ i \in 1..n /\ j \in 1..n
    BY <1>4, <1>11 DEF Result
  <2> QED
    BY <1>2, <1>15, <2>1
<1> QED
  BY <1>13, <1>14, <1>15 DEF python, P

\* The results are in the order of their rank.
LEMMA BoundedByRank ==
    ASSUME NEW M, NEW i \in DOMAIN Bounded(Results(M)), NEW j \in DOMAIN Bounded(Results(M)), i < j
    PROVE  Rank[Bounded(Results(M))[i].file] < Rank[Bounded(Results(M))[j].file]
<1> DEFINE b == Bounded(Results(M))
<1>1. PICK n, g : /\ GoesBy(g, n, Found(M), Rank)
                  /\ b = [k \in 1..(IF n < Limit THEN n ELSE Limit) |-> Result(M, g[k])]
  BY BoundedAre
<1> HIDE DEF b
<1>2. n \in Nat /\ Limit \in Nat /\ \A k, m \in 1..n : k < m => Rank[g[k]] < Rank[g[m]]
  BY <1>1, FilesAssumption DEF GoesBy
<1>3. i \in 1..n /\ j \in 1..n /\ b[i].file = g[i] /\ b[j].file = g[j]
  BY <1>1, <1>2 DEF b, Result
<1> QED
  BY <1>2, <1>3 DEF b

\* A file that is answered when more are found is answered when fewer are.
LEMMA FewerAhead ==
    ASSUME NEW M, NEW N, Found(M) \subseteq Found(N), NEW f \in Found(M), M[f] = N[f],
           Result(N, f) \in ToSet(Bounded(Results(N)))
    PROVE  Result(N, f) \in ToSet(Bounded(Results(M)))
<1> DEFINE Ahead(F) == {x \in F : Rank[x] < Rank[f]}
<1>0. Limit \in Nat /\ Len(Files) \in Nat /\ DOMAIN Files = 1..Len(Files)
  BY FilesAssumption
<1>1. PICK n, g : /\ GoesBy(g, n, Found(N), Rank)
                  /\ Bounded(Results(N)) =
                        [k \in 1..(IF n < Limit THEN n ELSE Limit) |-> Result(N, g[k])]
  BY BoundedAre
<1>2. PICK m, h : /\ GoesBy(h, m, Found(M), Rank)
                  /\ Bounded(Results(M)) =
                        [k \in 1..(IF m < Limit THEN m ELSE Limit) |-> Result(M, h[k])]
  BY BoundedAre
<1>3. n \in Nat /\ m \in Nat /\ \A x \in Found(M) : \E k \in 1..m : h[k] = x
  BY <1>1, <1>2 DEF GoesBy
<1>4. PICK k \in 1..n : k <= Limit /\ g[k] = f
  <2>1. PICK k \in 1..(IF n < Limit THEN n ELSE Limit) : Result(N, f) = Result(N, g[k])
    BY <1>1 DEF ToSet
  <2>2. g[k] = f
    BY <2>1 DEF Result
  <2> QED
    BY <1>0, <1>3, <2>1, <2>2
<1>5. PICK j \in 1..m : h[j] = f
  BY <1>3
<1>6. Cardinality(Ahead(Found(N))) = k - 1
  BY <1>1, <1>4, RankOfPlace
<1>7. Cardinality(Ahead(Found(M))) = j - 1
  BY <1>2, <1>5, RankOfPlace
<1>8. Cardinality(Ahead(Found(M))) <= Cardinality(Ahead(Found(N)))
  <2>1. IsFiniteSet(ToSet(Files))
    <3>1. \A x \in ToSet(Files) : \E i \in 1..Len(Files) : Files[i] = x
      BY <1>0 DEF ToSet
    <3>2. \A i \in 1..Len(Files) : Files[i] \in ToSet(Files)
      BY <1>0 DEF ToSet
    <3>3. Files = [i \in 1..Len(Files) |-> Files[i]]
      BY FilesAssumption
    <3>4. Files \in Surjection(1..Len(Files), ToSet(Files))
      BY <3>1, <3>2, <3>3 DEF Surjection
    <3>5. IsFiniteSet(1..Len(Files))
      BY <1>0, FS_Interval
    <3> QED
      BY <3>4, <3>5, FS_Surjection
  <2>2. Ahead(Found(N)) \subseteq ToSet(Files) /\ Ahead(Found(M)) \subseteq Ahead(Found(N))
    BY DEF Found
  <2> HIDE DEF Ahead
  <2>3. IsFiniteSet(Ahead(Found(N)))
    BY <2>1, <2>2, FS_Subset
  <2> QED
    BY <2>2, <2>3, FS_Subset
<1>9. j \in 1..(IF m < Limit THEN m ELSE Limit)
  BY <1>0, <1>3, <1>4, <1>5, <1>6, <1>7, <1>8
<1>10. Result(M, h[j]) = Result(N, f)
  BY <1>5 DEF Result
<1> HIDE DEF Ahead
<1> QED
  BY <1>2, <1>9, <1>10 DEF ToSet

\* With Python ContentSearch.search gives the best ranked files that match, Limit of them
\* at most and in order of rank, each with its first MatchesPerFile matches.
THEOREM PythonBest == Spec => []PythonFindsTheBest
<1>1. Lines => PythonFindsTheBest
  <2> SUFFICES ASSUME Lines, source = "corpus"
               PROVE  LET python == Answer(lines, PythonMap(lines)) IN
                      /\ {[file |-> r.file, lines |-> ToSet(r.lines)] : r \in ToSet(python)}
                            = Expected(lines)
                      /\ \A i, j \in DOMAIN python :
                            i < j => Rank[python[i].file] < Rank[python[j].file]
    BY DEF PythonFindsTheBest
  <2>1. lines \in Seq(CorpusLine)
    BY DEF Lines, ClassSources, CorpusLine
  <2>2. Answer(lines, PythonMap(lines)) = Bounded(Results(PythonMap(lines)))
    BY <2>1, PythonFinds, AnswerIs
  <2> QED
    BY <2>1, <2>2, BestAre
<1> QED
  BY <1>1, LinesInv, PTL

\* With ripgrep a search that does not fail has every file of Python's answer of which
\* ripgrep prints every match in one piece, with the same lines, however many matches
\* of other files are not printed or torn; and its results are in order of rank.
THEOREM RipgrepLoses == Spec => []RipgrepLosesLocally
<1>1. Lines => RipgrepLosesLocally
  <2> SUFFICES ASSUME Lines, source = "corpus", RipgrepMap(lines) # Refused
               PROVE  LET python == Answer(lines, PythonMap(lines))
                          ripgrep == Answer(lines, RipgrepMap(lines))
                      IN  /\ \A r \in ToSet(python) :
                                Plain(lines, r.file) => r \in ToSet(ripgrep)
                          /\ \A i, j \in DOMAIN ripgrep :
                                i < j => Rank[ripgrep[i].file] < Rank[ripgrep[j].file]
    BY DEF RipgrepLosesLocally
  <2> DEFINE N == PythonMap(lines)
             M == RipgrepMap(lines)
  <2>1. lines \in Seq(CorpusLine)
    BY DEF Lines, ClassSources, CorpusLine
  <2>2. /\ Answer(lines, N) = Bounded(Results(N)) /\ MapOf(lines, M)
        /\ Answer(lines, M) = Bounded(Results(M))
    BY <2>1, PythonFinds, RipgrepFinds, AnswerIs
  <2>3. ASSUME NEW f \in Found(M) PROVE f \in Found(N)
    <3>1. f \in ToSet(Files) /\ M[f] \in Seq(FoundIn(lines, f)) /\ M[f] # <<>>
      BY <2>2 DEF Found, MapOf
    <3>2. FoundIn(lines, f) # {}
      <4> HIDE DEF M
      <4> QED
        BY <3>1
    <3>3. N[f] # <<>>
      BY <2>1, <3>1, <3>2, PythonIs, FirstFound
    <3> QED
      BY <3>1, <3>3 DEF Found
  <2>4. ASSUME NEW r \in ToSet(Bounded(Results(N))), Plain(lines, r.file)
        PROVE  r \in ToSet(Bounded(Results(M)))
    <3>1. PICK n, g : /\ GoesBy(g, n, Found(N), Rank)
                      /\ Bounded(Results(N)) =
                            [k \in 1..(IF n < Limit THEN n ELSE Limit) |-> Result(N, g[k])]
      BY BoundedAre
    <3>2. PICK k \in 1..(IF n < Limit THEN n ELSE Limit) : r = Result(N, g[k])
      BY <2>4, <3>1 DEF ToSet
    <3> DEFINE f == g[k]
    <3>3. f \in Found(N)
      BY <3>1, <3>2, FilesAssumption DEF GoesBy
    <3>4. r = Result(N, f) /\ r.file = f
      BY <3>2 DEF Result
    <3> HIDE DEF f
    <3>5. f \in ToSet(Files) /\ N[f] # <<>> /\ M[f] = N[f]
      BY <2>1, <2>4, <3>3, <3>4, PlainIs DEF Found
    <3>6. f \in Found(M)
      BY <3>5 DEF Found
    <3> HIDE DEF M, N
    <3> QED
      BY <2>3, <2>4, <3>4, <3>5, <3>6, FewerAhead
  <2>5. \A i, j \in DOMAIN Bounded(Results(M)) :
           i < j => Rank[Bounded(Results(M))[i].file] < Rank[Bounded(Results(M))[j].file]
    BY BoundedByRank
  <2> QED
    BY <2>2, <2>4, <2>5
<1> QED
  BY <1>1, LinesInv, PTL

\* ContentSearch.search, with either engine.
THEOREM Searches == Spec => []SearchAnswers
<1>1. PythonFindsTheBest /\ RipgrepLosesLocally => SearchAnswers
  BY DEF SearchAnswers
<1> QED
  BY <1>1, PythonBest, RipgrepLoses, PTL

------------------------------------------------------------------------------
(***************************************************************************)
(* The exports: when some of the directories have been gone through, an    *)
(* entry in one of them is left exactly if it remains in the end, that is, *)
(* a kept file, a root, or a directory with a kept file below it.          *)
(***************************************************************************)

\* What every tree of paths is: there is one entry for a path, and with it the
\* directories above it.
IsTree(T) ==
    /\ IsFiniteSet(T)
    /\ \A e \in T : e.path \in Seq(STRING) /\ e.path # << >>
    /\ \A e, f \in T : e.path = f.path => e = f
    /\ \A e \in T : \A m \in 1..Len(e.path) - 1 :
          [path |-> SubSeq(e.path, 1, m), kind |-> "dir"] \in T

\* p is a directory above q.
Above(p, q) == Len(p) < Len(q) /\ \A i \in 1..Len(p) : p[i] = q[i]

\* What an exporter does in directory d: it keeps the files in K, and raises if it
\* meets one in bad.
Emptied(t, d, K, roots) ==
    Swept(t \ {e \in Children(t, d) : e.kind # "dir" /\ e \notin K}, d, roots)
VisitOf(s, d, K, bad, roots) ==
    IF s.raised \/ Children(s.tree, d) \cap bad # {} THEN [s EXCEPT !.raised = TRUE]
    ELSE [s EXCEPT !.tree = Emptied(@, d, K, roots)]

\* A directory that is left, and what is left after the directories in V.
Stays(K, roots, e) ==
    \/ Len(e.path) = 1 /\ Last(e.path) \in roots
    \/ \E f \in K : Above(e.path, f.path)
Remains(K, roots, e) == IF e.kind = "dir" THEN Stays(K, roots, e) ELSE e \in K
LeftAfter(T, K, roots, V) == {e \in T : Front(e.path) \in V => Remains(K, roots, e)}

\* The directory that a path is in.
LEMMA FrontIs ==
    ASSUME NEW p \in Seq(STRING), p # << >>
    PROVE  /\ Front(p) \in Seq(STRING) /\ Len(Front(p)) = Len(p) - 1 /\ Len(p) \in Nat \ {0}
           /\ \A i \in 1..Len(p) - 1 : Front(p)[i] = p[i]
<1>1. Len(p) \in Nat /\ Len(p) # 0
  OBVIOUS
<1>2. Len(p) - 1 \in Nat
  BY <1>1
<1>3. Front(p) = [i \in 1..Len(p) - 1 |-> p[i]]
  <2>1. Front(p) = SubSeq(p, 1, Len(p) - 1)
    BY DEF Front
  <2>2. SubSeq(p, 1, Len(p) - 1) = [i \in 1..Len(p) - 1 |-> p[i]]
    BY <1>1, <1>2
  <2> QED
    BY <2>1, <2>2
<1>4. [i \in 1..Len(p) - 1 |-> p[i]] \in [1..Len(p) - 1 -> STRING]
  BY <1>1
<1> QED
  BY <1>1, <1>2, <1>3, <1>4

\* A path is in the directory that it has one name more than.
LEMMA FrontOf ==
    ASSUME NEW p \in Seq(STRING), p # << >>, NEW d \in Seq(STRING),
           Len(p) = Len(d) + 1, \A i \in 1..Len(d) : d[i] = p[i]
    PROVE  Front(p) = d
<1>1. Len(d) \in Nat /\ Len(Front(p)) = Len(d) /\ Front(p) \in Seq(STRING)
  BY FrontIs
<1>2. \A i \in 1..Len(d) : Front(p)[i] = d[i]
  BY <1>1, FrontIs
<1> QED
  BY <1>1, <1>2

\* Something stays in a directory if and only if a file below it does.
LEMMA ChildStays ==
    ASSUME NEW T, IsTree(T), NEW K \in SUBSET T, \A f \in K : f.kind # "dir", NEW roots,
           NEW e \in T, e.kind = "dir"
    PROVE  (\E c \in T : Front(c.path) = e.path /\ Remains(K, roots, c))
              <=> \E f \in K : Above(e.path, f.path)
<1>0. /\ e.path \in Seq(STRING) /\ e.path # << >> /\ Len(e.path) \in Nat \ {0}
      /\ \A c \in T : c.path \in Seq(STRING) /\ c.path # << >> /\ Len(c.path) \in Nat \ {0}
  BY DEF IsTree
<1>1. ASSUME NEW c \in T, Front(c.path) = e.path, Remains(K, roots, c)
      PROVE  \E f \in K : Above(e.path, f.path)
  <2>1. Len(c.path) = Len(e.path) + 1 /\ \A i \in 1..Len(e.path) : e.path[i] = c.path[i]
    <3>1. c.path \in Seq(STRING) /\ c.path # << >> /\ Len(c.path) \in Nat
      BY <1>0
    <3>2. /\ Len(Front(c.path)) = Len(c.path) - 1
          /\ \A i \in 1..Len(Front(c.path)) : Front(c.path)[i] = c.path[i]
      BY <3>1, FrontIs
    <3>3. Front(c.path) = e.path
      BY <1>1
    <3> QED
      BY <3>1, <3>2, <3>3
  <2>2. CASE c.kind # "dir"
    BY <1>0, <1>1, <2>1, <2>2 DEF Above, Remains
  <2>3. CASE c.kind = "dir"
    <3>1. PICK f \in K : Above(c.path, f.path)
      BY <1>0, <1>1, <2>1, <2>3 DEF Remains, Stays
    <3>2. Len(f.path) \in Nat
      BY <1>0
    <3>3. Above(e.path, f.path)
      <4>1. Len(e.path) < Len(f.path)
        BY <1>0, <2>1, <3>1, <3>2 DEF Above
      <4>2. 1..Len(e.path) \subseteq 1..Len(c.path)
        BY <1>0, <2>1
      <4> QED
        BY <2>1, <3>1, <4>1, <4>2 DEF Above
    <3> QED
      BY <3>3
  <2> QED
    BY <2>2, <2>3
<1>2. ASSUME NEW f \in K, Above(e.path, f.path)
      PROVE  \E c \in T : Front(c.path) = e.path /\ Remains(K, roots, c)
  <2> DEFINE m == Len(e.path) + 1
  <2>0. m \in Nat /\ f.path \in Seq(STRING) /\ f.path # << >> /\ Len(f.path) \in Nat
    BY <1>0
  <2>1. CASE m = Len(f.path)
    <3>1. Front(f.path) = e.path
      BY <1>0, <1>2, <2>0, <2>1, FrontOf DEF Above
    <3> QED
      BY <3>1 DEF Remains
  <2>2. CASE m # Len(f.path)
    <3>1. m \in 1..Len(f.path) - 1
      BY <1>0, <1>2, <2>0, <2>2 DEF Above
    <3> DEFINE q == SubSeq(f.path, 1, m)
               c == [path |-> q, kind |-> "dir"]
    <3>2. c \in T
      BY <3>1 DEF IsTree
    <3>3. q \in Seq(STRING) /\ Len(q) = m /\ \A i \in 1..m : q[i] = f.path[i]
      BY <2>0, <3>1
    <3>4. c.path = q /\ c.kind = "dir"
      OBVIOUS
    <3> HIDE DEF q, c
    <3>5. q # << >> /\ \A i \in 1..Len(e.path) : e.path[i] = q[i]
      <4>1. 1..Len(e.path) \subseteq 1..m /\ m # 0
        BY <1>0
      <4> QED
        BY <1>2, <3>3, <4>1 DEF Above
    <3>6. Front(q) = e.path
      BY <1>0, <3>3, <3>5, FrontOf
    <3>7. Above(q, f.path)
      BY <2>0, <3>1, <3>3 DEF Above
    <3> QED
      BY <3>2, <3>4, <3>6, <3>7 DEF Remains, Stays
  <2> QED
    BY <2>1, <2>2
<1> QED
  BY <1>1, <1>2

\* Of the positive numbers, those greater than 1 are those other than 1.
LEMMA MoreThanOne == \A n \in Nat \ {0} : n > 1 <=> n # 1
OBVIOUS

\* What comes of directory d when those in V have been gone through.
VisitGives(T, K, bad, roots, V, d) ==
    /\ Children(LeftAfter(T, K, roots, V), d) \cap bad # {}
          <=> \E e \in bad : Front(e.path) = d
    /\ Emptied(LeftAfter(T, K, roots, V), d, K, roots) = LeftAfter(T, K, roots, V \cup {d})

\* One directory, when those in it have been gone through.
LEMMA VisitStep ==
    ASSUME NEW T, IsTree(T), NEW K \in SUBSET T, \A f \in K : f.kind # "dir",
           NEW bad \in SUBSET T, NEW roots, NEW V, NEW d, d \notin V,
           \A e \in T : e.kind = "dir" /\ Front(e.path) = d => e.path \in V
    PROVE  VisitGives(T, K, bad, roots, V, d)
<1> DEFINE t == LeftAfter(T, K, roots, V)
           u == t \ {e \in Children(t, d) : e.kind # "dir" /\ e \notin K}
           v == Swept(u, d, roots)
           Root(e) == Len(e.path) = 1 /\ Last(e.path) \in roots
<1>0. \A e \in T : e.path # << >> /\ e.path \in Seq(STRING) /\ Len(e.path) \in Nat \ {0}
  BY DEF IsTree
<1>1. \A e \in t : e \in T
  BY DEF LeftAfter
<1>2. \A e \in T : Front(e.path) = d => e \in t
  BY DEF LeftAfter
<1>3. ASSUME NEW e PROVE e \in Children(t, d) <=> e \in T /\ Front(e.path) = d
  BY <1>0, <1>1, <1>2 DEF Children
<1>4. Children(t, d) \cap bad # {} <=> \E e \in bad : Front(e.path) = d
  BY <1>3
<1>5. ASSUME NEW e
      PROVE  e \in u <=> e \in t /\ (Front(e.path) = d => e.kind = "dir" \/ e \in K)
  BY <1>1, <1>3
<1> HIDE DEF u
<1>6. ASSUME NEW e \in T, Front(e.path) = d, e.kind = "dir"
      PROVE  Children(u, e.path) = {} <=> ~\E f \in K : Above(e.path, f.path)
  <2>1. e.path \in V /\ e.path # d
    BY <1>6
  <2>2. ASSUME NEW c PROVE c \in Children(u, e.path) <=>
                              c \in T /\ Front(c.path) = e.path /\ Remains(K, roots, c)
    <3>1. c \in Children(u, e.path) <=> c \in u /\ c.path # << >> /\ Front(c.path) = e.path
      BY DEF Children
    <3>2. Front(c.path) = e.path => (c \in u <=> c \in t)
      BY <1>5, <2>1
    <3>3. Front(c.path) = e.path => (c \in t <=> c \in T /\ Remains(K, roots, c))
      BY <2>1 DEF LeftAfter
    <3> QED
      BY <1>0, <3>1, <3>2, <3>3
  <2>3. Children(u, e.path) = {} <=> ~\E c \in T : Front(c.path) = e.path /\ Remains(K, roots, c)
    BY <2>2
  <2> QED
    BY <1>6, <2>3, ChildStays
<1>7. ASSUME NEW e
      PROVE  e \in v <=> e \in u /\ (Front(e.path) = d /\ e.kind = "dir" => Stays(K, roots, e))
  <2>1. e \in v <=> e \in u /\ ~(/\ e \in Children(u, d)
                                 /\ e.kind = "dir" /\ Children(u, e.path) = {}
                                 /\ Len(e.path) > 1 \/ Last(e.path) \notin roots)
    BY DEF Swept
  <2>2. e \in u => (e \in Children(u, d) <=> Front(e.path) = d)
    BY <1>0, <1>1, <1>5 DEF Children
  <2>3. e \in u => e \in T /\ (Len(e.path) > 1 <=> Len(e.path) # 1)
    <3>1. e \in u => e \in T
      BY <1>1, <1>5
    <3>2. e \in T => (Len(e.path) > 1 <=> Len(e.path) # 1)
      BY <1>0, MoreThanOne
    <3> QED
      BY <3>1, <3>2
  <2> QED
    BY <1>6, <2>1, <2>2, <2>3 DEF Stays
<1>8. v = LeftAfter(T, K, roots, V \cup {d})
  <2>1. ASSUME NEW e PROVE e \in v <=> e \in LeftAfter(T, K, roots, V \cup {d})
    <3>1. e \in t <=> e \in T /\ (Front(e.path) \in V => Remains(K, roots, e))
      BY DEF LeftAfter
    <3>2. e \in v <=> e \in t /\ (Front(e.path) = d => Remains(K, roots, e))
      <4> HIDE DEF v, t
      <4> QED
        BY <1>5, <1>7 DEF Remains
    <3>3. e \in LeftAfter(T, K, roots, V \cup {d}) <=>
             e \in T /\ (Front(e.path) \in V \/ Front(e.path) = d => Remains(K, roots, e))
      BY DEF LeftAfter
    <3> HIDE DEF v, t
    <3> QED
      BY <3>1, <3>2, <3>3
  <2> HIDE DEF v
  <2> QED
    BY <2>1
<1>9. v = Emptied(t, d, K, roots)
  BY DEF Emptied, u
<1> HIDE DEF v, t
<1> QED
  BY <1>4, <1>8, <1>9 DEF t, VisitGives

\* The content root, and the directories of a tree.
DirsOf(T) == {<< >>} \cup Paths(Kind({"dir"}, T))

\* w goes through D, every directory once and after those in it.
Walks(w, D) ==
    /\ w \in Seq(D)
    /\ \A d \in D : \E k \in 1..Len(w) : w[k] = d
    /\ \A j, k \in 1..Len(w) : j < k => w[j] # w[k] /\ Len(w[j]) >= Len(w[k])

\* The directories are a finite set of paths, as BottomUp takes them.
LEMMA DirsAre ==
    ASSUME NEW T, IsTree(T)
    PROVE  IsFiniteSet(DirsOf(T)) /\ DirsOf(T) \subseteq Seq(STRING)
<1> DEFINE K == Kind({"dir"}, T)
           P == Paths(K)
           f == [e \in K |-> e.path]
<1>1. K \subseteq T
  BY DEF Kind
<1>2. IsFiniteSet(K)
  BY <1>1, FS_Subset DEF IsTree
<1>3. P = {e.path : e \in K}
  BY DEF Paths
<1> HIDE DEF K, P
<1>4. f \in Surjection(K, P)
  BY <1>3 DEF Surjection
<1>5. IsFiniteSet(P)
  BY <1>2, <1>4, FS_Surjection
<1>6. IsFiniteSet({<< >>})
  BY FS_Singleton
<1>7. IsFiniteSet({<< >>} \cup P)
  BY <1>5, <1>6, FS_Union
<1>8. P \subseteq Seq(STRING)
  BY <1>1, <1>3 DEF IsTree
<1>9. DirsOf(T) = {<< >>} \cup P
  BY DEF DirsOf, P, K
<1>10. << >> \in Seq(STRING)
  OBVIOUS
<1>11. IsFiniteSet(DirsOf(T))
  BY <1>7, <1>9
<1>12. DirsOf(T) \subseteq Seq(STRING)
  BY <1>8, <1>9, <1>10
<1> QED
  BY <1>11, <1>12

\* The order of os.walk.
LEMMA WalkIs ==
    ASSUME NEW T, IsTree(T)
    PROVE  Walks(WalkOrder(T), DirsOf(T))
<1> DEFINE D == DirsOf(T)
           s == SetToSeq(D)
           n == Cardinality(D)
           key == [i \in DOMAIN s |-> -Len(s[i])]
           w == WalkOrder(T)
<1>1. IsFiniteSet(D) /\ D \subseteq Seq(STRING)
  BY DirsAre
<1>2. w = Sorted(s, key)
  BY DEF WalkOrder, BottomUp, DirsOf
<1>3. s = CHOOSE g \in [1..Cardinality(D) -> D] : IsInjective(g)
  BY DEF SetToSeq
<1> HIDE DEF D, s, n, w
<1>4. n \in Nat /\ ExistsBijection(1..n, D)
  BY <1>1, FS_CardinalityType DEF n
<1>5. PICK g : g \in Bijection(1..n, D)
  BY <1>4 DEF ExistsBijection
<1>6. g \in [1..n -> D] /\ IsInjective(g)
  BY <1>5 DEF Bijection, Injection
<1>7. s \in [1..n -> D] /\ IsInjective(s)
  BY <1>3, <1>6 DEF n
<1>8. IsFiniteSet(1..n) /\ Cardinality(1..n) = n
  BY <1>4, FS_Interval
<1>9. s \in Surjection(1..n, D)
  <2>1. s \in Injection(1..n, D)
    BY <1>7 DEF Injection
  <2> QED
    BY <1>1, <1>8, <2>1, FS_Injection DEF n
<1>10. s \in Seq(D) /\ Len(s) = n /\ DOMAIN s = 1..n
  BY <1>4, <1>7
<1>11. key \in [1..n -> Int] /\ \A i \in 1..n : key[i] = -Len(s[i])
  <2>1. \A i \in 1..n : s[i] \in Seq(STRING)
    BY <1>1, <1>7
  <2>2. \A i \in 1..n : Len(s[i]) \in Nat
    BY <2>1
  <2>3. \A i \in 1..n : -Len(s[i]) \in Int
    BY <2>2
  <2> QED
    BY <1>10, <2>3
<1> HIDE DEF key
<1>12. PICK f : Sorts(f, s, key)
  BY <1>10, <1>11, SortedArranged
<1>13. /\ f \in [1..n -> 1..n] /\ w = [k \in 1..n |-> s[f[k]]]
       /\ \A i \in 1..n : \E k \in 1..n : f[k] = i
       /\ \A k, m \in 1..n : k < m => Smaller(key, f[k], f[m])
  BY <1>2, <1>10, <1>12 DEF Sorts
<1>14. w \in Seq(D) /\ Len(w) = n /\ \A k \in 1..n : w[k] = s[f[k]]
  <2>1. w \in [1..n -> D]
    BY <1>7, <1>13
  <2> QED
    BY <1>4, <1>13, <2>1
<1>15. ASSUME NEW d \in D PROVE \E k \in 1..n : w[k] = d
  <2>1. PICK i \in 1..n : s[i] = d
    BY <1>9 DEF Surjection
  <2> QED
    BY <1>13, <1>14, <2>1
<1>16. ASSUME NEW j \in 1..n, NEW k \in 1..n, j < k
       PROVE  w[j] # w[k] /\ Len(w[j]) >= Len(w[k])
  <2>1. f[j] \in 1..n /\ f[k] \in 1..n /\ Smaller(key, f[j], f[k])
    BY <1>13, <1>16
  <2>2. Len(s[f[j]]) \in Nat /\ Len(s[f[k]]) \in Nat
    BY <1>1, <1>7, <2>1
  <2>3. key[f[j]] = -Len(s[f[j]]) /\ key[f[k]] = -Len(s[f[k]])
    BY <1>11, <2>1
  <2>4. key[f[j]] <= key[f[k]] /\ f[j] # f[k]
    BY <1>11, <2>1 DEF Smaller
  <2>5. Len(s[f[j]]) >= Len(s[f[k]])
    BY <2>2, <2>3, <2>4
  <2>6. s[f[j]] # s[f[k]]
    BY <1>7, <1>10, <2>1, <2>4 DEF IsInjective
  <2> QED
    BY <1>14, <2>5, <2>6
<1> QED
  BY <1>14, <1>15, <1>16 DEF Walks, D, w

\* Every entry is in the content root or a directory of the tree.
LEMMA FrontInTree ==
    ASSUME NEW T, IsTree(T), NEW e \in T
    PROVE  Front(e.path) \in DirsOf(T)
<1>1. e.path \in Seq(STRING) /\ e.path # << >>
  BY DEF IsTree
<1>2. /\ Front(e.path) \in Seq(STRING) /\ Len(Front(e.path)) = Len(e.path) - 1
      /\ Len(e.path) \in Nat \ {0}
  BY <1>1, FrontIs
<1>3. CASE Len(e.path) = 1
  <2>1. Front(e.path) = << >>
    BY <1>2, <1>3
  <2> QED
    BY <2>1 DEF DirsOf
<1>4. CASE Len(e.path) # 1
  <2> DEFINE m == Len(e.path) - 1
             c == [path |-> SubSeq(e.path, 1, m), kind |-> "dir"]
  <2>0. \A n \in Nat \ {0} : n # 1 => n - 1 \in 1..n - 1
    OBVIOUS
  <2>1. m \in 1..Len(e.path) - 1
    BY <1>2, <1>4, <2>0
  <2>2. c \in T
    BY <2>1 DEF IsTree
  <2>3. c.path = Front(e.path) /\ c.kind = "dir"
    BY DEF Front
  <2> HIDE DEF c
  <2>4. c.path \in Paths(Kind({"dir"}, T))
    BY <2>2, <2>3 DEF Paths, Kind
  <2> QED
    BY <2>3, <2>4 DEF DirsOf
<1> QED
  BY <1>3, <1>4

\* The states of an export.
ExportStates(T) == [tree: SUBSET T, raised: BOOLEAN]

\* h goes through the directories in w.
Exports(h, w, T, K, bad, roots) ==
    /\ h \in [0..Len(w) -> ExportStates(T)]
    /\ h[0] = [tree |-> T, raised |-> FALSE]
    /\ \A k \in 1..Len(w) : h[k] = VisitOf(h[k - 1], w[k], K, bad, roots)

\* The state when the directories in V have been gone through.
ExportAfter(s, T, K, bad, roots, V) ==
    /\ s.raised <=> \E e \in bad : Front(e.path) \in V
    /\ ~s.raised => s.tree = LeftAfter(T, K, roots, V)

\* The next directory keeps the invariant.
LEMMA VisitAfter ==
    ASSUME NEW T, IsTree(T), NEW K \in SUBSET T, \A f \in K : f.kind # "dir",
           NEW bad \in SUBSET T, NEW roots, NEW V, NEW d, d \notin V,
           \A e \in T : e.kind = "dir" /\ Front(e.path) = d => e.path \in V,
           NEW s \in ExportStates(T), ExportAfter(s, T, K, bad, roots, V)
    PROVE  ExportAfter(VisitOf(s, d, K, bad, roots), T, K, bad, roots, V \cup {d})
<1> DEFINE v == VisitOf(s, d, K, bad, roots)
           Some(W) == \E e \in bad : Front(e.path) \in W
<1>1. Some(V \cup {d}) <=> Some(V) \/ \E e \in bad : Front(e.path) = d
  OBVIOUS
<1>2. s.raised <=> Some(V)
  BY DEF ExportAfter
<1>3. s = [tree |-> s.tree, raised |-> s.raised] /\ s.raised \in BOOLEAN
  BY DEF ExportStates
<1>4. CASE s.raised
  <2>1. v = [s EXCEPT !.raised = TRUE]
    BY <1>4 DEF VisitOf
  <2>2. v.raised
    BY <1>3, <2>1
  <2> HIDE DEF v
  <2>3. Some(V \cup {d})
    BY <1>1, <1>2, <1>4
  <2> QED
    BY <2>2, <2>3 DEF ExportAfter, v
<1>5. CASE ~s.raised
  <2>1. s.tree = LeftAfter(T, K, roots, V)
    BY <1>5 DEF ExportAfter
  <2>2. /\ Children(s.tree, d) \cap bad # {} <=> \E e \in bad : Front(e.path) = d
        /\ Emptied(s.tree, d, K, roots) = LeftAfter(T, K, roots, V \cup {d})
    <3> DEFINE t == LeftAfter(T, K, roots, V)
    <3>0. VisitGives(T, K, bad, roots, V, d)
      BY VisitStep
    <3>1. /\ Children(t, d) \cap bad # {} <=> \E e \in bad : Front(e.path) = d
          /\ Emptied(t, d, K, roots) = LeftAfter(T, K, roots, V \cup {d})
      BY <3>0 DEF VisitGives
    <3>2. s.tree = t
      BY <2>1
    <3> HIDE DEF t
    <3> QED
      BY <3>1, <3>2
  <2>3. CASE Children(s.tree, d) \cap bad # {}
    <3>1. v = [s EXCEPT !.raised = TRUE]
      BY <2>3 DEF VisitOf
    <3>2. v.raised
      BY <1>3, <3>1
    <3> HIDE DEF v
    <3>3. Some(V \cup {d})
      BY <1>1, <2>2, <2>3
    <3> QED
      BY <3>2, <3>3 DEF ExportAfter, v
  <2>4. CASE Children(s.tree, d) \cap bad = {}
    <3>1. v = [s EXCEPT !.tree = Emptied(s.tree, d, K, roots)]
      BY <1>5, <2>4 DEF VisitOf
    <3>2. v = [tree |-> Emptied(s.tree, d, K, roots), raised |-> FALSE]
      BY <1>3, <1>5, <3>1
    <3>3. ~v.raised /\ v.tree = LeftAfter(T, K, roots, V \cup {d})
      BY <2>2, <3>2
    <3> HIDE DEF v
    <3>4. ~Some(V \cup {d})
      BY <1>1, <1>2, <1>5, <2>2, <2>4
    <3> QED
      BY <3>3, <3>4 DEF ExportAfter, v
  <2> QED
    BY <2>3, <2>4
<1> QED
  BY <1>4, <1>5

\* When all have been gone through.
LEMMA ExportEnds ==
    ASSUME NEW T, IsTree(T), NEW K \in SUBSET T, \A f \in K : f.kind # "dir",
           NEW bad \in SUBSET T, NEW roots, NEW w, Walks(w, DirsOf(T)),
           NEW h, Exports(h, w, T, K, bad, roots)
    PROVE  /\ h[Len(w)].raised <=> bad # {}
           /\ ~h[Len(w)].raised => h[Len(w)].tree = {e \in T : Remains(K, roots, e)}
<1> DEFINE D == DirsOf(T)
           n == Len(w)
           V(k) == {w[j] : j \in 1..k}
           I == {k \in 0..n : ExportAfter(h[k], T, K, bad, roots, V(k))}
<1>0. /\ n \in Nat /\ D \subseteq Seq(STRING)
      /\ \A k \in 1..n : w[k] \in D
      /\ \A d \in D : \E k \in 1..n : w[k] = d
      /\ \A j, k \in 1..n : j < k => w[j] # w[k] /\ Len(w[j]) >= Len(w[k])
  BY DirsAre DEF Walks
<1> HIDE DEF D
<1>1. 0 \in I
  <2>1. V(0) = {} /\ 0 \in 0..n
    BY <1>0
  <2>2. h[0] = [tree |-> T, raised |-> FALSE]
    BY DEF Exports
  <2>3. h[0].tree = T /\ ~h[0].raised
    BY <2>2
  <2>4. LeftAfter(T, K, roots, {}) = T
    BY DEF LeftAfter
  <2>5. ExportAfter(h[0], T, K, bad, roots, {})
    BY <2>3, <2>4 DEF ExportAfter
  <2> QED
    BY <2>1, <2>5
<1>2. ASSUME NEW k \in 1..n, k - 1 \in I PROVE k \in I
  <2>1. k \in 0..n /\ k - 1 \in 0..n /\ ExportAfter(h[k - 1], T, K, bad, roots, V(k - 1))
    BY <1>0, <1>2
  <2>2. h[k] = VisitOf(h[k - 1], w[k], K, bad, roots) /\ h[k - 1] \in ExportStates(T)
    BY <2>1 DEF Exports
  <2>3. w[k] \notin V(k - 1)
    <3>1. \A j \in 1..k - 1 : j \in 1..n /\ j < k
      BY <1>0
    <3> QED
      BY <1>0, <3>1
  <2>4. V(k) = V(k - 1) \cup {w[k]}
    <3>1. 1..k = (1..k - 1) \cup {k}
      BY <1>0
    <3> QED
      BY <3>1
  <2>5. ASSUME NEW e \in T, e.kind = "dir", Front(e.path) = w[k] PROVE e.path \in V(k - 1)
    <3>1. e.path \in D
      BY <2>5 DEF D, DirsOf, Paths, Kind
    <3>2. PICK m \in 1..n : w[m] = e.path
      BY <1>0, <3>1
    <3>3. e.path \in Seq(STRING) /\ e.path # << >>
      BY DEF IsTree
    <3>4. Len(w[k]) = Len(w[m]) - 1 /\ Len(w[m]) \in Nat
      BY <2>5, <3>2, <3>3, FrontIs
    <3>5. m # k /\ ~(k < m)
      <4>1. m # k
        BY <3>4
      <4>2. ~(Len(w[k]) >= Len(w[m]))
        BY <3>4
      <4> QED
        BY <1>0, <4>1, <4>2
    <3>6. m \in 1..k - 1
      BY <1>0, <3>5
    <3> QED
      BY <3>2, <3>6
  <2> HIDE DEF V
  <2>6. ExportAfter(h[k], T, K, bad, roots, V(k - 1) \cup {w[k]})
    BY <2>1, <2>2, <2>3, <2>5, VisitAfter
  <2>7. ExportAfter(h[k], T, K, bad, roots, V(k))
    BY <2>4, <2>6
  <2> QED
    BY <2>1, <2>7
<1> HIDE DEF I
<1>3. 0..n \subseteq I
  BY <1>0, <1>1, <1>2, UpTo
<1>4. ExportAfter(h[n], T, K, bad, roots, V(n))
  <2>1. n \in I
    BY <1>0, <1>3
  <2> QED
    BY <2>1 DEF I
<1>5. V(n) = D
  BY <1>0
<1>6. \A e \in T : Front(e.path) \in D
  BY FrontInTree DEF D
<1>7. LeftAfter(T, K, roots, D) = {e \in T : Remains(K, roots, e)}
  BY <1>6 DEF LeftAfter
<1> QED
  BY <1>4, <1>5, <1>6, <1>7 DEF ExportAfter

------------------------------------------------------------------------------
(***************************************************************************)
(* The two exporters: what is left is what was meant, and the loaders      *)
(* refuse nothing of it.                                                   *)
(***************************************************************************)

\* The files that are kept, and those that make the export raise.
ArchiveKept(T) == {e \in T : e.kind # "dir" /\ IsAdmitted(e.path)}
ArchiveBad(T) == {e \in ArchiveKept(T) : e.kind \in Unfit}
GatewayKept(T) == {e \in T : e.kind # "dir" /\ IsGatewayAdmitted(e.path)}
GatewayBad(T) ==
    {e \in T : e.kind \in Unsafe} \cup {e \in GatewayKept(T) : e.kind \in Unfit \cup {"hardlink"}}
ExportStart(T) == [tree |-> T, raised |-> FALSE]

\* In a directory export_snapshot does what VisitOf says ...
LEMMA VisitIs ==
    ASSUME NEW T, NEW s \in ExportStates(T), NEW d
    PROVE  /\ Visit(s, d) = VisitOf(s, d, ArchiveKept(T), ArchiveBad(T), RootDirs)
           /\ Visit(s, d) \in ExportStates(T)
<1> DEFINE C == Children(s.tree, d)
           files == {e \in C : e.kind # "dir"}
           kept == {e \in files : IsAdmitted(e.path)}
           K == ArchiveKept(T)
           bad == ArchiveBad(T)
           v == Visit(s, d)
<1>1. s.tree \subseteq T /\ s = [tree |-> s.tree, raised |-> s.raised] /\ s.raised \in BOOLEAN
  BY DEF ExportStates
<1>2. C \subseteq s.tree
  BY DEF Children
<1> HIDE DEF C
<1>3. kept = files \cap K
  BY <1>1, <1>2 DEF ArchiveKept
<1>4. files \ kept = {e \in C : e.kind # "dir" /\ e \notin K}
  BY <1>3
<1>5. Kind(Unfit, kept) # {} <=> C \cap bad # {}
  BY <1>1, <1>2 DEF ArchiveBad, ArchiveKept, Kind, Unfit, Unsafe
<1>6. Swept(s.tree \ (files \ kept), d, RootDirs) = Emptied(s.tree, d, K, RootDirs)
  BY <1>4 DEF Emptied, C
<1>7. Swept(s.tree \ (files \ kept), d, RootDirs) \subseteq T
  BY <1>1 DEF Swept
<1>8. v = IF s.raised \/ Kind(Unfit, kept) # {} THEN [s EXCEPT !.raised = TRUE]
          ELSE [s EXCEPT !.tree = Swept(s.tree \ (files \ kept), d, RootDirs)]
  BY DEF Visit, C
<1>9. v = IF s.raised \/ C \cap bad # {} THEN [s EXCEPT !.raised = TRUE]
          ELSE [s EXCEPT !.tree = Swept(s.tree \ (files \ kept), d, RootDirs)]
  BY <1>5, <1>8
<1>10. VisitOf(s, d, K, bad, RootDirs) =
          IF s.raised \/ C \cap bad # {} THEN [s EXCEPT !.raised = TRUE]
          ELSE [s EXCEPT !.tree = Emptied(s.tree, d, K, RootDirs)]
  BY DEF VisitOf, C
<1> HIDE DEF v, K, bad, files, kept
<1>11. v = VisitOf(s, d, K, bad, RootDirs)
  BY <1>6, <1>9, <1>10
<1>12. v \in ExportStates(T)
  <2> DEFINE x == Swept(s.tree \ (files \ kept), d, RootDirs)
  <2>1. x \subseteq T
    BY <1>7
  <2>2. v = [s EXCEPT !.raised = TRUE] \/ v = [s EXCEPT !.tree = x]
    BY <1>9
  <2> HIDE DEF x
  <2> QED
    BY <1>1, <2>1, <2>2 DEF ExportStates
<1> QED
  BY <1>11, <1>12 DEF v, K, bad

\* ... and so does the gateway's.
LEMMA GatewayVisitIs ==
    ASSUME NEW T, NEW s \in ExportStates(T), NEW d
    PROVE  /\ GatewayVisit(s, d) = VisitOf(s, d, GatewayKept(T), GatewayBad(T), GatewayRootDirs)
           /\ GatewayVisit(s, d) \in ExportStates(T)
<1> DEFINE C == Children(s.tree, d)
           files == {e \in C : e.kind # "dir"}
           kept == {e \in files : IsGatewayAdmitted(e.path)}
           K == GatewayKept(T)
           bad == GatewayBad(T)
           v == GatewayVisit(s, d)
<1>1. s.tree \subseteq T /\ s = [tree |-> s.tree, raised |-> s.raised] /\ s.raised \in BOOLEAN
  BY DEF ExportStates
<1>2. C \subseteq s.tree
  BY DEF Children
<1> HIDE DEF C
<1>3. kept = files \cap K
  BY <1>1, <1>2 DEF GatewayKept
<1>4. files \ kept = {e \in C : e.kind # "dir" /\ e \notin K}
  BY <1>3
<1>5. (Kind(Unsafe, files) # {} \/ Kind(Unfit \cup {"hardlink"}, kept) # {}) <=> C \cap bad # {}
  BY <1>1, <1>2 DEF GatewayBad, GatewayKept, Kind, Unfit, Unsafe
<1>6. Swept(s.tree \ (files \ kept), d, GatewayRootDirs) = Emptied(s.tree, d, K, GatewayRootDirs)
  BY <1>4 DEF Emptied, C
<1>7. Swept(s.tree \ (files \ kept), d, GatewayRootDirs) \subseteq T
  BY <1>1 DEF Swept
<1>8. v = IF s.raised \/ (Kind(Unsafe, files) # {} \/ Kind(Unfit \cup {"hardlink"}, kept) # {}) THEN [s EXCEPT !.raised = TRUE]
          ELSE [s EXCEPT !.tree = Swept(s.tree \ (files \ kept), d, GatewayRootDirs)]
  BY DEF GatewayVisit, C
<1>9. v = IF s.raised \/ C \cap bad # {} THEN [s EXCEPT !.raised = TRUE]
          ELSE [s EXCEPT !.tree = Swept(s.tree \ (files \ kept), d, GatewayRootDirs)]
  BY <1>5, <1>8
<1>10. VisitOf(s, d, K, bad, GatewayRootDirs) =
          IF s.raised \/ C \cap bad # {} THEN [s EXCEPT !.raised = TRUE]
          ELSE [s EXCEPT !.tree = Emptied(s.tree, d, K, GatewayRootDirs)]
  BY DEF VisitOf, C
<1> HIDE DEF v, K, bad, files, kept
<1>11. v = VisitOf(s, d, K, bad, GatewayRootDirs)
  BY <1>6, <1>9, <1>10
<1>12. v \in ExportStates(T)
  <2> DEFINE x == Swept(s.tree \ (files \ kept), d, GatewayRootDirs)
  <2>1. x \subseteq T
    BY <1>7
  <2>2. v = [s EXCEPT !.raised = TRUE] \/ v = [s EXCEPT !.tree = x]
    BY <1>9
  <2> HIDE DEF x
  <2> QED
    BY <1>1, <2>1, <2>2 DEF ExportStates
<1> QED
  BY <1>11, <1>12 DEF v, K, bad

\* The states that export_snapshot goes through ...
LEMMA VisitRun ==
    ASSUME NEW T, NEW A, NEW s \in Seq(A)
    PROVE  \E h \in [0..Len(s) -> ExportStates(T)] :
              /\ h[0] = ExportStart(T)
              /\ \A k \in 1..Len(s) : h[k] = Visit(h[k - 1], s[k])
              /\ FoldLeft(Visit, ExportStart(T), s) = h[Len(s)]
<1> DEFINE n == Len(s)
           St == ExportStates(T)
           base == ExportStart(T)
           F == [p \in St \X A |-> Visit(p[1], p[2])]
           Is(g) == g = [U \in SUBSET DOMAIN s |->
                            IF U = {} THEN base ELSE Visit(g[U \ {Max(U)}], s[Max(U)])]
           fold == CHOOSE g : Is(g)
<1>0. n \in Nat /\ DOMAIN s = 1..n /\ \A i \in 1..n : s[i] \in A
  OBVIOUS
<1>1. F \in [St \X A -> St] /\ base \in St
  <2>1. base \in St
    BY DEF ExportStart, ExportStates
  <2> HIDE DEF St
  <2>2. \A p \in St \X A : Visit(p[1], p[2]) \in St
    BY VisitIs DEF St
  <2> QED
    BY <2>1, <2>2
<1>2. \A t \in St : \A l \in A : F[<<t, l>>] = Visit(t, l)
  OBVIOUS
<1> HIDE DEF F, St, base
<1>3. \A U \in SUBSET (1..n) : U # {} => s[Max(U)] \in A /\ U \ {Max(U)} \in SUBSET (1..n)
  BY <1>0, MaxIn
<1>4. Is(fold)
  <2>1. PICK g : Folds(g, St, F, base, s)
    BY <1>1, FoldExists
  <2>2. g \in [SUBSET (1..n) -> St]
    BY <2>1 DEF Folds
  <2>3. ASSUME NEW U \in SUBSET (1..n)
        PROVE  g[U] = IF U = {} THEN base ELSE Visit(g[U \ {Max(U)}], s[Max(U)])
    BY <1>2, <1>3, <2>1, <2>2 DEF Folds
  <2>4. Is(g)
    BY <1>0, <2>2, <2>3
  <2> QED
    BY <2>4
<1>5. FoldLeft(Visit, base, s) = fold[1..n]
  BY <1>0 DEF FoldLeft, MapThenFoldSet
<1> HIDE DEF fold
<1>6. fold[{}] = base
  BY <1>0, <1>4
<1>7. Unfolds(fold, St, F, base, s)
  <2>1. ASSUME NEW U \in SUBSET (1..n), U # {}, fold[U \ {Max(U)}] \in St
        PROVE  fold[U] = F[<<fold[U \ {Max(U)}], s[Max(U)]>>]
    <3>1. fold[U] = Visit(fold[U \ {Max(U)}], s[Max(U)])
      BY <1>0, <1>4, <2>1
    <3> QED
      BY <1>2, <1>3, <2>1, <3>1
  <2> QED
    BY <1>6, <2>1 DEF Unfolds
<1>8. PICK h : RunsThrough(h, fold, St, F, base, s)
  BY <1>1, <1>7, FoldRuns
<1> QED
  BY <1>0, <1>2, <1>5, <1>8 DEF RunsThrough, St, base

\* ... and those of the gateway's.
LEMMA GatewayVisitRun ==
    ASSUME NEW T, NEW A, NEW s \in Seq(A)
    PROVE  \E h \in [0..Len(s) -> ExportStates(T)] :
              /\ h[0] = ExportStart(T)
              /\ \A k \in 1..Len(s) : h[k] = GatewayVisit(h[k - 1], s[k])
              /\ FoldLeft(GatewayVisit, ExportStart(T), s) = h[Len(s)]
<1> DEFINE n == Len(s)
           St == ExportStates(T)
           base == ExportStart(T)
           F == [p \in St \X A |-> GatewayVisit(p[1], p[2])]
           Is(g) == g = [U \in SUBSET DOMAIN s |->
                            IF U = {} THEN base ELSE GatewayVisit(g[U \ {Max(U)}], s[Max(U)])]
           fold == CHOOSE g : Is(g)
<1>0. n \in Nat /\ DOMAIN s = 1..n /\ \A i \in 1..n : s[i] \in A
  OBVIOUS
<1>1. F \in [St \X A -> St] /\ base \in St
  <2>1. base \in St
    BY DEF ExportStart, ExportStates
  <2> HIDE DEF St
  <2>2. \A p \in St \X A : GatewayVisit(p[1], p[2]) \in St
    BY GatewayVisitIs DEF St
  <2> QED
    BY <2>1, <2>2
<1>2. \A t \in St : \A l \in A : F[<<t, l>>] = GatewayVisit(t, l)
  OBVIOUS
<1> HIDE DEF F, St, base
<1>3. \A U \in SUBSET (1..n) : U # {} => s[Max(U)] \in A /\ U \ {Max(U)} \in SUBSET (1..n)
  BY <1>0, MaxIn
<1>4. Is(fold)
  <2>1. PICK g : Folds(g, St, F, base, s)
    BY <1>1, FoldExists
  <2>2. g \in [SUBSET (1..n) -> St]
    BY <2>1 DEF Folds
  <2>3. ASSUME NEW U \in SUBSET (1..n)
        PROVE  g[U] = IF U = {} THEN base ELSE GatewayVisit(g[U \ {Max(U)}], s[Max(U)])
    BY <1>2, <1>3, <2>1, <2>2 DEF Folds
  <2>4. Is(g)
    BY <1>0, <2>2, <2>3
  <2> QED
    BY <2>4
<1>5. FoldLeft(GatewayVisit, base, s) = fold[1..n]
  BY <1>0 DEF FoldLeft, MapThenFoldSet
<1> HIDE DEF fold
<1>6. fold[{}] = base
  BY <1>0, <1>4
<1>7. Unfolds(fold, St, F, base, s)
  <2>1. ASSUME NEW U \in SUBSET (1..n), U # {}, fold[U \ {Max(U)}] \in St
        PROVE  fold[U] = F[<<fold[U \ {Max(U)}], s[Max(U)]>>]
    <3>1. fold[U] = GatewayVisit(fold[U \ {Max(U)}], s[Max(U)])
      BY <1>0, <1>4, <2>1
    <3> QED
      BY <1>2, <1>3, <2>1, <3>1
  <2> QED
    BY <1>6, <2>1 DEF Unfolds
<1>8. PICK h : RunsThrough(h, fold, St, F, base, s)
  BY <1>1, <1>7, FoldRuns
<1> QED
  BY <1>0, <1>2, <1>5, <1>8 DEF RunsThrough, St, base

\* What is left of a tree in the end.
LeftOf(T, K, roots) == {e \in T : Remains(K, roots, e)}

\* The approved roots are left.
LEMMA LeftRoots ==
    ASSUME NEW T, IsTree(T), NEW K \in SUBSET T, NEW files, NEW roots,
           \A e \in T : Len(e.path) = 1 /\ e.path[1] \in files /\ e.kind = "file" => e \in K
    PROVE  HasRoots(LeftOf(T, K, roots), files, roots, {"file"})
              <=> HasRoots(T, files, roots, {"file"})
<1> DEFINE left == LeftOf(T, K, roots)
<1>1. \A e \in left : e \in T
  BY DEF LeftOf
<1>2. ASSUME NEW f \in files, NEW e \in T, e.path = <<f>>, e.kind = "file" PROVE e \in left
  <2>1. Len(e.path) = 1 /\ e.path[1] = f
    BY <1>2
  <2> QED
    BY <1>2, <2>1 DEF LeftOf, Remains
<1>3. ASSUME NEW d \in roots, [path |-> <<d>>, kind |-> "dir"] \in T
      PROVE  [path |-> <<d>>, kind |-> "dir"] \in left
  <2> DEFINE e == [path |-> <<d>>, kind |-> "dir"]
  <2>1. e \in T /\ e.kind = "dir" /\ e.path = <<d>>
    BY <1>3
  <2> HIDE DEF e
  <2>2. Len(e.path) = 1 /\ Last(e.path) = d
    BY <2>1 DEF Last
  <2>3. e \in left
    BY <2>1, <2>2 DEF LeftOf, Remains, Stays
  <2> QED
    BY <2>3 DEF e
<1> HIDE DEF left
<1>4. HasRoots(left, files, roots, {"file"}) <=> HasRoots(T, files, roots, {"file"})
  BY <1>1, <1>2, <1>3 DEF HasRoots
<1> QED
  BY <1>4 DEF left

\* No file is counted twice, and none is left uncounted.
LEMMA LeftCounted ==
    ASSUME NEW T, IsTree(T), NEW K \in SUBSET T, \A f \in K : f.kind # "dir", NEW roots
    PROVE  /\ {e \in LeftOf(T, K, roots) : e.kind # "dir"} = K
           /\ Countable(Paths(K)) <=> Countable(K)
<1>1. ASSUME NEW e PROVE e \in {c \in LeftOf(T, K, roots) : c.kind # "dir"} <=> e \in K
  BY DEF LeftOf, Remains
<1> DEFINE P == Paths(K)
           f == [e \in K |-> e.path]
<1>2. P = {e.path : e \in K}
  BY DEF Paths
<1>3. IsFiniteSet(K)
  BY FS_Subset DEF IsTree
<1> HIDE DEF P
<1>4. f \in Bijection(K, P)
  <2>1. f \in [K -> P] /\ \A p \in P : \E e \in K : f[e] = p
    BY <1>2
  <2>2. \A a, b \in K : f[a] = f[b] => a = b
    BY DEF IsTree
  <2>3. IsInjective(f)
    BY <2>2 DEF IsInjective
  <2> HIDE DEF f
  <2> QED
    BY <2>1, <2>3 DEF Bijection, Injection, Surjection
<1>5. ExistsBijection(K, P)
  BY <1>4 DEF ExistsBijection
<1>6. Cardinality(P) = Cardinality(K)
  BY <1>3, <1>5, FS_Bijection
<1>7. P # {} <=> K # {}
  BY <1>2
<1>8. Countable(P) <=> Countable(K)
  BY <1>6, <1>7 DEF Countable
<1>9. {e \in LeftOf(T, K, roots) : e.kind # "dir"} = K
  BY <1>1
<1> QED
  BY <1>8, <1>9 DEF P

\* A directory above an admitted file.
LEMMA AdmittedAbove ==
    ASSUME NEW p \in Seq(STRING), p # << >>, NEW q \in Seq(STRING), Above(p, q), IsAdmitted(q)
    PROVE  Last(p) \notin Hidden /\ (Len(p) = 1 => p[1] \in RootDirs) /\ p # Vendored
<1>1. Len(p) \in Nat /\ Len(q) \in Nat /\ Len(p) # 0
  OBVIOUS
<1>2. Len(p) < Len(q) /\ \A i \in 1..Len(p) : p[i] = q[i]
  BY DEF Above
<1>3. Last(p) \notin Hidden
  <2>1. Len(p) \in 1..Len(p) /\ Len(p) \in 1..Len(q)
    BY <1>1, <1>2
  <2>2. q[Len(p)] \notin Hidden
    BY <2>1 DEF IsAdmitted
  <2> QED
    BY <1>2, <2>1, <2>2 DEF Last
<1>4. Len(p) = 1 => p[1] \in RootDirs
  <2>1. Len(q) # 1 /\ 1 \in 1..Len(p)
    BY <1>1, <1>2
  <2> QED
    BY <1>2, <2>1 DEF IsAdmitted
<1>5. p # Vendored
  <2>1. SubSeq(p, 1, Len(p)) = SubSeq(q, 1, Len(p))
    BY <1>1, <1>2
  <2>2. p # q
    BY <1>1, <1>2
  <2>3. IsStrictPrefix(p, q)
    BY <1>1, <1>2, <2>1, <2>2 DEF IsStrictPrefix, IsPrefix
  <2> QED
    BY <2>3 DEF IsAdmitted
<1> QED
  BY <1>3, <1>4, <1>5

\* The loader of the content finds nothing to refuse ...
LEMMA LeftScanned ==
    ASSUME NEW T, IsTree(T), \A e \in ArchiveKept(T) : e.kind = "file"
    PROVE  \A e \in LeftOf(T, ArchiveKept(T), RootDirs) : Scannable(e)
<1> DEFINE K == ArchiveKept(T)
<1>0. \A e \in T : e.path \in Seq(STRING) /\ e.path # << >> /\ Len(e.path) \in Nat \ {0}
  BY FrontIs DEF IsTree
<1>1. K \subseteq T /\ \A e \in K : e.kind # "dir" /\ IsAdmitted(e.path)
  BY DEF ArchiveKept
<1> HIDE DEF K
<1> SUFFICES ASSUME NEW e \in T, Remains(K, RootDirs, e) PROVE Scannable(e)
  BY DEF LeftOf, K
<1>2. CASE e.kind # "dir"
  <2>1. e \in K /\ e.kind = "file" /\ IsAdmitted(e.path)
    BY <1>1, <1>2 DEF Remains, K
  <2>2. Len(e.path) \in DOMAIN e.path
    BY <1>0
  <2>3. Last(e.path) \notin Hidden
    BY <2>1, <2>2 DEF IsAdmitted, Last
  <2> QED
    BY <1>2, <2>1, <2>3 DEF Scannable
<1>3. CASE e.kind = "dir"
  <2>1. Stays(K, RootDirs, e)
    BY <1>3 DEF Remains
  <2>2. CASE Len(e.path) = 1 /\ Last(e.path) \in RootDirs
    <3>1. Last(e.path) = e.path[1]
      BY <2>2 DEF Last
    <3>2. e.path = <<e.path[1]>>
      BY <1>0, <2>2
    <3>3. e.path # Vendored
      BY <2>2, <3>1, <3>2, RootsAssumption DEF RootsAssumption
    <3>4. Last(e.path) \notin Hidden
      BY <2>2, RootsAssumption DEF RootsAssumption
    <3> QED
      BY <1>3, <2>2, <3>1, <3>3, <3>4 DEF Scannable
  <2>3. CASE \E f \in K : Above(e.path, f.path)
    <3>1. PICK f \in K : Above(e.path, f.path)
      BY <2>3
    <3>2. Last(e.path) \notin Hidden /\ (Len(e.path) = 1 => e.path[1] \in RootDirs) /\ e.path # Vendored
      BY <1>0, <1>1, <3>1, AdmittedAbove
    <3> QED
      BY <1>3, <3>2 DEF Scannable
  <2> QED
    BY <2>1, <2>2, <2>3 DEF Stays
<1> QED
  BY <1>2, <1>3

\* ... and nor does the loader of the gateway repository.
LEMMA LeftGatewayScanned ==
    ASSUME NEW T, IsTree(T), \A e \in GatewayKept(T) : e.kind = "file"
    PROVE  \A e \in LeftOf(T, GatewayKept(T), GatewayRootDirs) : GatewayScannable(e)
<1> DEFINE K == GatewayKept(T)
<1>0. \A e \in T : e.path \in Seq(STRING) /\ e.path # << >> /\ Len(e.path) \in Nat \ {0}
  BY FrontIs DEF IsTree
<1>1. K \subseteq T /\ \A e \in K : e.kind # "dir" /\ IsGatewayAdmitted(e.path)
  BY DEF GatewayKept
<1> HIDE DEF K
<1> SUFFICES ASSUME NEW e \in T, Remains(K, GatewayRootDirs, e) PROVE GatewayScannable(e)
  BY DEF LeftOf, K
<1>2. CASE e.kind # "dir"
  <2>1. e \in K /\ e.kind = "file" /\ IsGatewayAdmitted(e.path)
    BY <1>1, <1>2 DEF Remains, K
  <2> QED
    BY <1>2, <2>1 DEF GatewayScannable
<1>3. CASE e.kind = "dir"
  <2>1. Stays(K, GatewayRootDirs, e)
    BY <1>3 DEF Remains
  <2>2. CASE Len(e.path) = 1 /\ Last(e.path) \in GatewayRootDirs
    <3>1. Last(e.path) = e.path[1]
      BY <2>2 DEF Last
    <3> QED
      BY <1>3, <2>2, <3>1 DEF GatewayScannable
  <2>3. CASE \E f \in K : Above(e.path, f.path)
    <3>1. PICK f \in K : Above(e.path, f.path)
      BY <2>3
    <3>2. IsGatewayAdmitted(f.path) /\ Len(f.path) \in Nat
      BY <1>0, <1>1
    <3>3. Len(e.path) = 1 => e.path[1] \in GatewayRootDirs
      <4>1. SUFFICES ASSUME Len(e.path) = 1 PROVE e.path[1] \in GatewayRootDirs
        OBVIOUS
      <4>2. Len(f.path) # 1 /\ e.path[1] = f.path[1]
        <5>1. Len(e.path) < Len(f.path) /\ \A i \in 1..Len(e.path) : e.path[i] = f.path[i]
          BY <3>1 DEF Above
        <5>2. \A n \in Nat : 1 < n => n # 1
          OBVIOUS
        <5>3. Len(f.path) # 1
          BY <3>2, <4>1, <5>1, <5>2
        <5>4. 1 \in 1..Len(e.path)
          BY <4>1
        <5> QED
          BY <5>1, <5>3, <5>4
      <4> QED
        BY <3>2, <4>2 DEF IsGatewayAdmitted
    <3> QED
      BY <1>3, <3>3 DEF GatewayScannable
  <2> QED
    BY <2>1, <2>2, <2>3 DEF Stays
<1> QED
  BY <1>2, <1>3

\* What the filter of the content leaves ...
LEMMA FilteredIs ==
    ASSUME NEW T, IsTree(T)
    PROVE  LET end == FoldLeft(Visit, ExportStart(T), WalkOrder(T)) IN
           /\ end \in ExportStates(T)
           /\ end.raised <=> ArchiveBad(T) # {}
           /\ ~end.raised => end.tree = LeftOf(T, ArchiveKept(T), RootDirs)
<1> DEFINE w == WalkOrder(T)
           K == ArchiveKept(T)
           bad == ArchiveBad(T)
<1>1. Walks(w, DirsOf(T)) /\ w \in Seq(DirsOf(T))
  BY WalkIs DEF Walks
<1>2. K \subseteq T /\ bad \subseteq T /\ \A f \in K : f.kind # "dir"
  BY DEF ArchiveKept, ArchiveBad
<1> HIDE DEF w, K, bad
<1>3. PICK h \in [0..Len(w) -> ExportStates(T)] :
         /\ h[0] = ExportStart(T)
         /\ \A k \in 1..Len(w) : h[k] = Visit(h[k - 1], w[k])
         /\ FoldLeft(Visit, ExportStart(T), w) = h[Len(w)]
  BY <1>1, VisitRun
<1>4. Len(w) \in Nat /\ \A k \in 1..Len(w) : k - 1 \in 0..Len(w)
  BY <1>1
<1>5. ASSUME NEW k \in 1..Len(w) PROVE h[k] = VisitOf(h[k - 1], w[k], K, bad, RootDirs)
  <2>1. h[k - 1] \in ExportStates(T)
    BY <1>3, <1>4
  <2> QED
    BY <1>3, <2>1, VisitIs DEF K, bad
<1>6. Exports(h, w, T, K, bad, RootDirs)
  BY <1>3, <1>5 DEF Exports, ExportStart
<1>7. /\ h[Len(w)].raised <=> bad # {}
      /\ ~h[Len(w)].raised => h[Len(w)].tree = {e \in T : Remains(K, RootDirs, e)}
  BY <1>1, <1>2, <1>6, ExportEnds
<1>8. h[Len(w)] \in ExportStates(T)
  BY <1>3, <1>4
<1> QED
  BY <1>3, <1>7, <1>8 DEF LeftOf, w, K, bad

\* ... and that of the gateway repository.
LEMMA GatewayFilteredIs ==
    ASSUME NEW T, IsTree(T)
    PROVE  LET end == FoldLeft(GatewayVisit, ExportStart(T), WalkOrder(T)) IN
           /\ end \in ExportStates(T)
           /\ end.raised <=> GatewayBad(T) # {}
           /\ ~end.raised => end.tree = LeftOf(T, GatewayKept(T), GatewayRootDirs)
<1> DEFINE w == WalkOrder(T)
           K == GatewayKept(T)
           bad == GatewayBad(T)
<1>1. Walks(w, DirsOf(T)) /\ w \in Seq(DirsOf(T))
  BY WalkIs DEF Walks
<1>2. K \subseteq T /\ bad \subseteq T /\ \A f \in K : f.kind # "dir"
  BY DEF GatewayKept, GatewayBad
<1> HIDE DEF w, K, bad
<1>3. PICK h \in [0..Len(w) -> ExportStates(T)] :
         /\ h[0] = ExportStart(T)
         /\ \A k \in 1..Len(w) : h[k] = GatewayVisit(h[k - 1], w[k])
         /\ FoldLeft(GatewayVisit, ExportStart(T), w) = h[Len(w)]
  BY <1>1, GatewayVisitRun
<1>4. Len(w) \in Nat /\ \A k \in 1..Len(w) : k - 1 \in 0..Len(w)
  BY <1>1
<1>5. ASSUME NEW k \in 1..Len(w) PROVE h[k] = VisitOf(h[k - 1], w[k], K, bad, GatewayRootDirs)
  <2>1. h[k - 1] \in ExportStates(T)
    BY <1>3, <1>4
  <2> QED
    BY <1>3, <2>1, GatewayVisitIs DEF K, bad
<1>6. Exports(h, w, T, K, bad, GatewayRootDirs)
  BY <1>3, <1>5 DEF Exports, ExportStart
<1>7. /\ h[Len(w)].raised <=> bad # {}
      /\ ~h[Len(w)].raised => h[Len(w)].tree = {e \in T : Remains(K, GatewayRootDirs, e)}
  BY <1>1, <1>2, <1>6, ExportEnds
<1>8. h[Len(w)] \in ExportStates(T)
  BY <1>3, <1>4
<1> QED
  BY <1>3, <1>7, <1>8 DEF LeftOf, w, K, bad

\* The export of any tree.
LEMMA ExportAgrees ==
    ASSUME NEW T, IsTree(T), \A e \in T : e.kind \in EntryKinds
    PROVE  Export(T) = ExportMeaning(T)
<1> DEFINE K == ArchiveKept(T)
           left == LeftOf(T, K, RootDirs)
           first == FoldLeft(Visit, ExportStart(T), WalkOrder(T))
           end == Filtered(T)
           Unfollowed == Kind(Unsafe \cup {"hardlink"}, T) # {}
           Roots(t) == HasRoots(t, RootFiles, RootDirs, {"file"})
<1>1. /\ first \in ExportStates(T)
      /\ first.raised <=> ArchiveBad(T) # {}
      /\ ~first.raised => first.tree = left
  BY FilteredIs
<1>2. end = [first EXCEPT !.raised = @ \/ Unfollowed \/ ~Roots(first.tree)]
  BY DEF Filtered, ExportStart
<1>3. Kind(Unfit, {e \in T : e.kind # "dir" /\ IsAdmitted(e.path)}) = ArchiveBad(T)
  BY DEF Kind, ArchiveBad, ArchiveKept
<1>4. Export(T) = IF ~end.raised /\ Inventory(end.tree) # Refused THEN Inventory(end.tree) ELSE Refused
  BY DEF Export, Validates
<1>5. ExportMeaning(T) = IF ~Unfollowed /\ ArchiveBad(T) = {} /\ Roots(T) /\ Countable(K)
                         THEN Paths(K) ELSE Refused
  BY <1>3 DEF ExportMeaning, ArchiveKept
<1>6. K \subseteq T /\ \A f \in K : f.kind # "dir" /\ IsAdmitted(f.path)
  BY DEF ArchiveKept
<1>7. Roots(left) <=> Roots(T)
  <2>1. ASSUME NEW e \in T, Len(e.path) = 1, e.path[1] \in RootFiles, e.kind = "file"
        PROVE  e \in K
    <3>1. e.path \in Seq(STRING)
      BY DEF IsTree
    <3>2. e.path = <<e.path[1]>> /\ DOMAIN e.path = {1}
      BY <2>1, <3>1
    <3>3. e.path \notin Excluded /\ e.path[1] \notin Hidden
      BY <2>1, <3>2, RootsAssumption DEF RootsAssumption
    <3>4. ~IsStrictPrefix(Vendored, e.path)
      <4>1. SUFFICES ASSUME IsStrictPrefix(Vendored, e.path) PROVE FALSE
        OBVIOUS
      <4>2. /\ Vendored \in Seq(STRING) /\ Vendored # << >> /\ Vendored # e.path
            /\ Len(Vendored) <= Len(e.path)
            /\ SubSeq(Vendored, 1, Len(Vendored)) = SubSeq(e.path, 1, Len(Vendored))
        BY <4>1, RootsAssumption DEF RootsAssumption, IsStrictPrefix, IsPrefix
      <4>3. Len(Vendored) \in Nat /\ Len(Vendored) # 0
        BY <4>2
      <4>4. Len(Vendored) = 1
        <5>1. \A n \in Nat : n # 0 /\ n <= 1 => n = 1
          OBVIOUS
        <5>2. Len(Vendored) <= 1
          BY <2>1, <4>2
        <5> QED
          BY <4>3, <5>1, <5>2
      <4>5. SubSeq(Vendored, 1, 1) = Vendored /\ SubSeq(e.path, 1, 1) = e.path
        BY <2>1, <3>1, <4>2, <4>4
      <4> QED
        BY <4>2, <4>4, <4>5
    <3>5. IsAdmitted(e.path)
      BY <2>1, <3>2, <3>3, <3>4 DEF IsAdmitted
    <3> QED
      BY <2>1, <3>5 DEF ArchiveKept
  <2> HIDE DEF K
  <2> QED
    BY <1>6, <2>1, LeftRoots
<1>8. {e \in left : e.kind # "dir"} = K /\ (Countable(Paths(K)) <=> Countable(K))
  BY <1>6, LeftCounted
<1> HIDE DEF first, end, Unfollowed, left, K
<1>9. /\ end.tree = first.tree
      /\ end.raised <=> first.raised \/ Unfollowed \/ ~Roots(first.tree)
  BY <1>1, <1>2 DEF ExportStates
<1>10. CASE Unfollowed \/ ArchiveBad(T) # {}
  BY <1>1, <1>4, <1>5, <1>9, <1>10
<1>11. CASE ~Unfollowed /\ ArchiveBad(T) = {}
  <2>1. end.tree = left /\ (end.raised <=> ~Roots(T))
    BY <1>1, <1>7, <1>9, <1>11
  <2>2. CASE ~Roots(T)
    BY <1>4, <1>5, <2>1, <2>2
  <2>3. CASE Roots(T)
    <3>1. \A e \in K : e.kind = "file"
      <4>1. ASSUME NEW e \in K PROVE e.kind = "file"
        <5>1. e \in T /\ e.kind \in EntryKinds /\ e.kind # "dir"
          BY <1>6
        <5>2. e.kind \notin Unsafe \cup {"hardlink"}
          BY <1>11, <5>1 DEF Unfollowed, Kind
        <5>3. e.kind \notin Unfit
          BY <1>11, <5>1 DEF ArchiveBad, K
        <5> QED
          BY <5>1, <5>2, <5>3 DEF EntryKinds, Unsafe, Unfit
      <4> QED
        BY <4>1
    <3>2. \A e \in left : Scannable(e)
      BY <3>1, LeftScanned DEF left, K
    <3>3. HasRoots(left, RootFiles, RootDirs, {"file", "large", "binary"})
      BY <1>7, <2>3 DEF HasRoots
    <3>4. Inventory(left) = IF Countable(Paths(K)) THEN Paths(K) ELSE Refused
      BY <1>8, <3>2, <3>3 DEF Inventory
    <3> QED
      BY <1>4, <1>5, <1>8, <1>11, <2>1, <2>3, <3>4
  <2> QED
    BY <2>2, <2>3
<1> QED
  BY <1>10, <1>11

\* And of any of the gateway repository.
LEMMA GatewayExportAgrees ==
    ASSUME NEW T, IsTree(T), \A e \in T : e.kind \in EntryKinds
    PROVE  GatewayExport(T) = GatewayExportMeaning(T)
<1> DEFINE K == GatewayKept(T)
           left == LeftOf(T, K, GatewayRootDirs)
           first == FoldLeft(GatewayVisit, ExportStart(T), WalkOrder(T))
           end == GatewayFiltered(T)
           Roots(t) == HasRoots(t, GatewayRootFiles, GatewayRootDirs, {"file"})
<1>1. /\ first \in ExportStates(T)
      /\ first.raised <=> GatewayBad(T) # {}
      /\ ~first.raised => first.tree = left
  BY GatewayFilteredIs
<1>2. end = [first EXCEPT !.raised = @ \/ ~Roots(first.tree)]
  BY DEF GatewayFiltered, ExportStart
<1>3. GatewayBad(T) = {} <=>
         /\ Kind(Unsafe, T) = {}
         /\ Kind(Unfit \cup {"hardlink"}, {e \in T : e.kind # "dir" /\ IsGatewayAdmitted(e.path)}) = {}
  BY DEF Kind, GatewayBad, GatewayKept
<1>4. GatewayExport(T) = IF ~end.raised /\ GatewayInventory(end.tree) # Refused
                         THEN GatewayInventory(end.tree) ELSE Refused
  BY DEF GatewayExport, GatewayValidates
<1>5. GatewayExportMeaning(T) = IF GatewayBad(T) = {} /\ Roots(T) /\ Countable(K)
                                THEN Paths(K) ELSE Refused
  BY <1>3 DEF GatewayExportMeaning, GatewayKept
<1>6. K \subseteq T /\ \A f \in K : f.kind # "dir"
  BY DEF GatewayKept
<1>7. Roots(left) <=> Roots(T)
  <2>1. \A e \in T : Len(e.path) = 1 /\ e.path[1] \in GatewayRootFiles /\ e.kind = "file" => e \in K
    BY DEF GatewayKept, IsGatewayAdmitted
  <2> HIDE DEF K
  <2> QED
    BY <1>6, <2>1, LeftRoots
<1>8. {e \in left : e.kind # "dir"} = K /\ (Countable(Paths(K)) <=> Countable(K))
  BY <1>6, LeftCounted
<1> HIDE DEF first, end, left, K
<1>9. /\ end.tree = first.tree
      /\ end.raised <=> first.raised \/ ~Roots(first.tree)
  BY <1>1, <1>2 DEF ExportStates
<1>10. CASE GatewayBad(T) # {}
  BY <1>1, <1>4, <1>5, <1>9, <1>10
<1>11. CASE GatewayBad(T) = {}
  <2>1. end.tree = left /\ (end.raised <=> ~Roots(T))
    BY <1>1, <1>7, <1>9, <1>11
  <2>2. CASE ~Roots(T)
    BY <1>4, <1>5, <2>1, <2>2
  <2>3. CASE Roots(T)
    <3>1. \A e \in K : e.kind = "file"
      <4>1. ASSUME NEW e \in K PROVE e.kind = "file"
        <5>1. e \in T /\ e.kind \in EntryKinds /\ e.kind # "dir"
          BY <1>6
        <5>2. e.kind \notin Unsafe /\ e.kind \notin Unfit \cup {"hardlink"}
          BY <1>11, <5>1 DEF GatewayBad, K
        <5> QED
          BY <5>1, <5>2 DEF EntryKinds, Unsafe, Unfit
      <4> QED
        BY <4>1
    <3>2. \A e \in left : GatewayScannable(e)
      BY <3>1, LeftGatewayScanned DEF left, K
    <3>3. HasRoots(left, GatewayRootFiles, GatewayRootDirs, {"file", "large", "binary"})
      BY <1>7, <2>3 DEF HasRoots
    <3>4. GatewayInventory(left) = IF Countable(Paths(K)) THEN Paths(K) ELSE Refused
      BY <1>8, <3>2, <3>3 DEF GatewayInventory
    <3> QED
      BY <1>4, <1>5, <1>8, <1>11, <2>1, <2>3, <3>4
  <2> QED
    BY <2>2, <2>3
<1> QED
  BY <1>10, <1>11

------------------------------------------------------------------------------
(***************************************************************************)
(* Every archive enumerated is a tree.                                     *)
(***************************************************************************)

\* The entries of an archive whose paths are in O.
EntriesOf(O) == [path: ToSet(O), kind: EntryKinds]
PlaceIn(O, p) == CHOOSE i \in DOMAIN O : O[i] = p

\* They come in the order of O, a directory before what is in it.
InOrder(L, O) ==
    /\ L \in Seq(EntriesOf(O))
    /\ \A i, j \in DOMAIN L : i < j => PlaceIn(O, L[i].path) < PlaceIn(O, L[j].path)
    /\ \A i \in DOMAIN L : \A m \in 1..Len(L[i].path) - 1 :
          [path |-> SubSeq(L[i].path, 1, m), kind |-> "dir"] \in ToSet(L)

\* One more entry.
LEMMA OneMoreEntry ==
    ASSUME NEW O \in Seq(Seq(STRING) \ {<< >>}), NEW L, InOrder(L, O), NEW e \in EntriesOf(O),
           L # << >> => PlaceIn(O, Last(L).path) < PlaceIn(O, e.path),
           Len(e.path) = 1 \/ [path |-> Front(e.path), kind |-> "dir"] \in ToSet(L)
    PROVE  InOrder(Append(L, e), O)
<1> DEFINE n == Len(L)
           M == Append(L, e)
           P(i) == PlaceIn(O, M[i].path)
<1>1. /\ L \in Seq(EntriesOf(O)) /\ n \in Nat
      /\ \A i, j \in 1..n : i < j => PlaceIn(O, L[i].path) < PlaceIn(O, L[j].path)
  BY DEF InOrder
<1>2. /\ M \in Seq(EntriesOf(O)) /\ DOMAIN M = 1..n + 1 /\ DOMAIN L = 1..n
      /\ \A i \in 1..n : M[i] = L[i]
      /\ M[n + 1] = e
  BY <1>1
<1> HIDE DEF M
<1>3. ASSUME NEW x \in EntriesOf(O)
      PROVE  PlaceIn(O, x.path) \in Nat /\ x.path \in Seq(STRING) /\ x.path # << >>
  <2>1. x.path \in ToSet(O)
    BY DEF EntriesOf
  <2>2. PICK i \in DOMAIN O : O[i] = x.path
    BY <2>1 DEF ToSet
  <2>3. DOMAIN O \subseteq Nat
    OBVIOUS
  <2>4. PlaceIn(O, x.path) \in DOMAIN O
    BY <2>2 DEF PlaceIn
  <2> QED
    BY <2>2, <2>3, <2>4
<1>4. ASSUME NEW i \in 1..n + 1, NEW j \in 1..n + 1, i < j PROVE P(i) < P(j)
  <2>1. i \in 1..n
    BY <1>1, <1>4
  <2>2. CASE j # n + 1
    <3>1. j \in 1..n
      BY <1>1, <2>2
    <3> QED
      BY <1>1, <1>2, <1>4, <2>1, <3>1
  <2>3. CASE j = n + 1
    <3>1. n \in 1..n /\ L # << >> /\ Last(L) = L[n]
      BY <1>1, <2>1 DEF Last
    <3>2. PlaceIn(O, L[n].path) < PlaceIn(O, e.path)
      BY <3>1
    <3>3. i = n \/ PlaceIn(O, L[i].path) < PlaceIn(O, L[n].path)
      BY <1>1, <2>1, <3>1
    <3>4. L[i] \in EntriesOf(O) /\ L[n] \in EntriesOf(O)
      BY <1>1, <2>1, <3>1
    <3>5. PlaceIn(O, L[i].path) \in Nat /\ PlaceIn(O, L[n].path) \in Nat /\ PlaceIn(O, e.path) \in Nat
      BY <1>3, <3>4
    <3>6. PlaceIn(O, L[i].path) < PlaceIn(O, e.path)
      BY <3>2, <3>3, <3>5
    <3> QED
      BY <1>2, <2>1, <2>3, <3>6
  <2> QED
    BY <2>2, <2>3
<1>5. ToSet(L) \subseteq ToSet(M)
  <2>1. \A i \in 1..n : i \in 1..n + 1
    BY <1>1
  <2> QED
    BY <1>2, <2>1 DEF ToSet
<1>6. ASSUME NEW i \in 1..n + 1, NEW m \in 1..Len(M[i].path) - 1
      PROVE  [path |-> SubSeq(M[i].path, 1, m), kind |-> "dir"] \in ToSet(M)
  <2>1. CASE i # n + 1
    <3>1. i \in 1..n /\ M[i] = L[i]
      BY <1>1, <1>2, <2>1
    <3> QED
      BY <1>2, <1>5, <1>6, <3>1 DEF InOrder
  <2>2. CASE i = n + 1
    <3> DEFINE p == e.path
               f == Front(p)
               c == [path |-> f, kind |-> "dir"]
    <3>1. M[i] = e /\ m \in 1..Len(p) - 1
      BY <1>2, <1>6, <2>2
    <3>2. p \in Seq(STRING) /\ p # << >>
      BY <1>3
    <3>3. /\ f \in Seq(STRING) /\ Len(f) = Len(p) - 1 /\ Len(p) \in Nat \ {0}
          /\ \A k \in 1..Len(p) - 1 : f[k] = p[k]
      BY <3>2, FrontIs
    <3>4. Len(p) # 1
      <4>1. 1..1 - 1 = {}
        OBVIOUS
      <4> QED
        BY <3>1, <4>1
    <3>5. c \in ToSet(L)
      BY <3>4
    <3>6. c.path = f
      OBVIOUS
    <3>7. f = SubSeq(p, 1, Len(p) - 1)
      BY DEF Front
    <3> HIDE DEF p, f, c
    <3>8. CASE m = Len(p) - 1
      BY <1>5, <3>1, <3>5, <3>7, <3>8 DEF c, p
    <3>9. CASE m # Len(p) - 1
      <4>1. m \in 1..Len(f) - 1 /\ m \in Nat
        BY <3>1, <3>3, <3>9
      <4>2. PICK x \in DOMAIN L : L[x] = c
        BY <3>5 DEF ToSet
      <4>3. [path |-> SubSeq(f, 1, m), kind |-> "dir"] \in ToSet(L)
        BY <3>6, <4>1, <4>2 DEF InOrder
      <4>4. SubSeq(f, 1, m) = SubSeq(p, 1, m)
        <5>1. \A k \in 1..m : k \in 1..Len(p) - 1
          BY <3>1, <3>3
        <5>2. m \in 1..Len(f) /\ m \in 1..Len(p)
          BY <3>1, <3>3
        <5>3. \A k \in 1..m : f[k] = p[k]
          BY <3>3, <5>1
        <5> QED
          BY <3>2, <3>3, <4>1, <5>2, <5>3 DEF p
      <4> QED
        BY <1>5, <3>1, <4>3, <4>4 DEF p
    <3> QED
      BY <3>8, <3>9
  <2> QED
    BY <2>1, <2>2
<1> QED
  BY <1>2, <1>4, <1>6 DEF InOrder, M

\* The entries of an archive are a tree.
LEMMA EntriesTree ==
    ASSUME NEW O \in Seq(Seq(STRING) \ {<< >>}), NEW L, InOrder(L, O)
    PROVE  IsTree(ToSet(L)) /\ \A e \in ToSet(L) : e.kind \in EntryKinds
<1> DEFINE n == Len(L)
           T == ToSet(L)
<1>1. /\ L \in Seq(EntriesOf(O)) /\ n \in Nat /\ DOMAIN L = 1..n
      /\ \A i, j \in 1..n : i < j => PlaceIn(O, L[i].path) < PlaceIn(O, L[j].path)
      /\ \A i \in 1..n : \A m \in 1..Len(L[i].path) - 1 :
            [path |-> SubSeq(L[i].path, 1, m), kind |-> "dir"] \in T
  BY DEF InOrder
<1>2. T = {L[i] : i \in 1..n} /\ T \subseteq EntriesOf(O)
  BY <1>1 DEF ToSet
<1> HIDE DEF T
<1>3. IsFiniteSet(T)
  <2>1. L \in [1..n -> T]
    BY <1>1, <1>2
  <2>2. \A t \in T : \E i \in 1..n : L[i] = t
    BY <1>2
  <2>3. L \in Surjection(1..n, T)
    BY <2>1, <2>2 DEF Surjection
  <2>4. IsFiniteSet(1..n)
    BY <1>1, FS_Interval
  <2> QED
    BY <2>3, <2>4, FS_Surjection
<1>4. ASSUME NEW e \in T
      PROVE  PlaceIn(O, e.path) \in Nat /\ e.path \in Seq(STRING) /\ e.path # << >> /\ e.kind \in EntryKinds
  <2>1. e.path \in ToSet(O) /\ e.kind \in EntryKinds
    BY <1>2 DEF EntriesOf
  <2>2. PICK i \in DOMAIN O : O[i] = e.path
    BY <2>1 DEF ToSet
  <2>3. DOMAIN O \subseteq Nat
    OBVIOUS
  <2>4. PlaceIn(O, e.path) \in DOMAIN O
    BY <2>2 DEF PlaceIn
  <2> QED
    BY <2>1, <2>2, <2>3, <2>4
<1>5. ASSUME NEW e \in T, NEW f \in T, e.path = f.path PROVE e = f
  <2>1. PICK i \in 1..n : L[i] = e
    BY <1>2
  <2>2. PICK j \in 1..n : L[j] = f
    BY <1>2
  <2>3. PlaceIn(O, L[i].path) = PlaceIn(O, L[j].path) /\ PlaceIn(O, L[i].path) \in Nat
    BY <1>4, <1>5, <2>1, <2>2
  <2>4. ~(i < j) /\ ~(j < i)
    BY <1>1, <2>3
  <2>5. i = j
    BY <1>1, <2>4
  <2> QED
    BY <2>1, <2>2, <2>5
<1>6. ASSUME NEW e \in T, NEW m \in 1..Len(e.path) - 1
      PROVE  [path |-> SubSeq(e.path, 1, m), kind |-> "dir"] \in T
  <2>1. PICK i \in 1..n : L[i] = e
    BY <1>2
  <2> QED
    BY <1>1, <2>1
<1> QED
  BY <1>3, <1>4, <1>5, <1>6 DEF IsTree, T

\* The invariant of the archives.
Archives ==
    /\ source = "archive" => InOrder(lines, TreePaths)
    /\ source = "gateway" => InOrder(lines, GatewayPaths)

\* The archives enumerated are trees, and their entries come in order.
LEMMA ArchivesInv == Spec => []Archives
<1>1. ASSUME NEW O PROVE InOrder(<< >>, O)
  BY DEF InOrder
<1>2. Init => Archives
  <2>1. "archive" \notin DOMAIN Opening /\ "gateway" \notin DOMAIN Opening
    BY OpeningAssumption DEF ClassSources
  <2> QED
    BY <1>1, <2>1 DEF Init, Archives
<1>3. Archives /\ [Next]_<<source, lines>> => Archives'
  <2> SUFFICES ASSUME Archives, [Next]_<<source, lines>> PROVE Archives'
    OBVIOUS
  <2>1. CASE UNCHANGED <<source, lines>>
    BY <2>1 DEF Archives
  <2>2. CASE Next
    <3>1. source' = source
      BY <2>2 DEF Next
    <3>2. PICK l \in LinesOf[source] : Admissible(l) /\ lines' = Append(lines, l)
      BY <2>2 DEF Next
    <3>3. CASE source = "archive"
      <4>1. l \in EntriesOf(TreePaths)
        BY <3>2, <3>3 DEF LinesOf, EntriesOf
      <4>2. /\ lines # << >> => PlaceIn(TreePaths, Last(lines).path) < PlaceIn(TreePaths, l.path)
            /\ Len(l.path) = 1 \/ [path |-> Front(l.path), kind |-> "dir"] \in ToSet(lines)
        BY <3>2, <3>3 DEF Admissible, PlaceIn, Tree
      <4>3. InOrder(Append(lines, l), TreePaths)
        BY <3>3, <4>1, <4>2, OneMoreEntry, PathsAssumption DEF PathsAssumption, Archives
      <4> QED
        BY <3>1, <3>2, <3>3, <4>3 DEF Archives
    <3>4. CASE source = "gateway"
      <4>1. l \in EntriesOf(GatewayPaths)
        BY <3>2, <3>4 DEF LinesOf, EntriesOf
      <4>2. /\ lines # << >> => PlaceIn(GatewayPaths, Last(lines).path) < PlaceIn(GatewayPaths, l.path)
            /\ Len(l.path) = 1 \/ [path |-> Front(l.path), kind |-> "dir"] \in ToSet(lines)
        BY <3>2, <3>4 DEF Admissible, PlaceIn, Tree
      <4>3. InOrder(Append(lines, l), GatewayPaths)
        BY <3>4, <4>1, <4>2, OneMoreEntry, PathsAssumption DEF PathsAssumption, Archives
      <4> QED
        BY <3>1, <3>2, <3>4, <4>3 DEF Archives
    <3>5. CASE source \notin {"archive", "gateway"}
      BY <3>1, <3>5 DEF Archives
    <3> QED
      BY <3>3, <3>4, <3>5
  <2> QED
    BY <2>1, <2>2
<1> QED
  BY <1>2, <1>3, PTL DEF Spec

\* export_snapshot and the gateway's export refuse an archive exactly if it has a
\* link or a special file, a file to keep that may not be kept, not all of the
\* approved roots, or no files or too many to keep; otherwise the manifest lists
\* the admitted files, all of them, and what is left passes the loader's scan.
THEOREM ExportKeeps == Spec => []ExportKeepsAdmitted
<1>1. Archives => ExportKeepsAdmitted
  <2> SUFFICES ASSUME Archives PROVE ExportKeepsAdmitted
    OBVIOUS
  <2>1. TreePaths \in Seq(Seq(STRING) \ {<< >>}) /\ GatewayPaths \in Seq(Seq(STRING) \ {<< >>})
    BY PathsAssumption DEF PathsAssumption
  <2>2. ASSUME source = "archive" PROVE Export(Tree) = ExportMeaning(Tree)
    <3>1. IsTree(Tree) /\ \A e \in Tree : e.kind \in EntryKinds
      BY <2>1, <2>2, EntriesTree DEF Archives, Tree
    <3> QED
      BY <3>1, ExportAgrees
  <2>3. ASSUME source = "gateway" PROVE GatewayExport(Tree) = GatewayExportMeaning(Tree)
    <3>1. IsTree(Tree) /\ \A e \in Tree : e.kind \in EntryKinds
      BY <2>1, <2>3, EntriesTree DEF Archives, Tree
    <3> QED
      BY <3>1, GatewayExportAgrees
  <2> QED
    BY <2>2, <2>3 DEF ExportKeepsAdmitted
<1> QED
  BY <1>1, ArchivesInv, PTL

==============================================================================
