------------------------------ MODULE Induction ------------------------------
(***************************************************************************)
(* Induction over numbers and finite sets, and sums over finite sets, for  *)
(* the proofs about folded amounts and newest rows.  A statement about all *)
(* numbers or all subsets is given as the SET of those it holds of, so     *)
(* that the lemmas are first order.                                        *)
(***************************************************************************)
EXTENDS Integers, FiniteSets, FiniteSetsExt, Functions, FiniteSetTheorems, SequenceTheorems,
        WellFoundedInduction, TLAPS

\* A non-empty set of subsets of a finite set has a smallest member.
LEMMA SmallestSubset ==
    \A S : IsFiniteSet(S) => \A T \in SUBSET SUBSET S :
        T # {} => \E A \in T : \A B \in T : B \subseteq A => B = A
<1> SUFFICES ASSUME NEW S, IsFiniteSet(S), NEW T \in SUBSET SUBSET S, T # {}
             PROVE  \E A \in T : \A B \in T : B \subseteq A => B = A
  OBVIOUS
<1>1. IsWellFoundedOn(StrictSubsetOrdering(S), FiniteSubsetsOf(S))
  BY FS_StrictSubsetOrderingWellFounded
<1>2. T \subseteq FiniteSubsetsOf(S)
  BY FS_Subset DEF FiniteSubsetsOf
<1>3. \E A \in T : \A B \in T : ~ (<<B, A>> \in StrictSubsetOrdering(S))
  BY <1>1, <1>2, WFMin
<1>4. ASSUME NEW A \in T, NEW B \in T, B \subseteq A, B # A
      PROVE  <<B, A>> \in StrictSubsetOrdering(S)
  BY <1>4 DEF StrictSubsetOrdering
<1> QED BY <1>3, <1>4

\* What holds of a set whenever it holds of its proper subsets holds of the whole set.
LEMMA SubsetInduction ==
    ASSUME NEW S, IsFiniteSet(S), NEW T,
           \A A \in SUBSET S : (\A B \in SUBSET A : B # A => B \in T) => A \in T
    PROVE  \A A \in SUBSET S : A \in T
<1>1. SUFFICES ASSUME (SUBSET S) \ T # {} PROVE FALSE
  OBVIOUS
<1> DEFINE D == (SUBSET S) \ T
<1>2. D \in SUBSET SUBSET S /\ D # {}
  BY <1>1
<1>3. \E A \in D : \A B \in D : B \subseteq A => B = A
  <2> HIDE DEF D
  <2> QED BY <1>2, SmallestSubset
<1>4. PICK A \in D : \A B \in D : B \subseteq A => B = A
  BY <1>3
<1>5. \A B \in SUBSET A : B # A => B \in T
  BY <1>4
<1> QED BY <1>4, <1>5

\* What holds of 0, and of i + 1 when it holds of i, holds up to n.
LEMMA PrefixInduction ==
    ASSUME NEW n \in Nat, NEW X, 0 \in X, \A i \in 0..n : i \in X /\ i < n => i + 1 \in X
    PROVE  \A i \in 0..n : i \in X
<1> DEFINE upTo(i) == 0..i
           T == {A \in SUBSET (0..n) : \A i \in 0..n : A = 0..i => i \in X}
<1>1. IsFiniteSet(0..n)
  BY FS_Interval
<1>2. ASSUME NEW A \in SUBSET (0..n), \A B \in SUBSET A : B # A => B \in T
      PROVE  A \in T
  <2> SUFFICES ASSUME NEW i \in 0..n, A = 0..i PROVE i \in X
    OBVIOUS
  <2>1. CASE i = 0
    BY <2>1
  <2>2. CASE i # 0
    <3>1. i - 1 \in 0..n /\ (i - 1) + 1 = i /\ i - 1 < n /\ i \in 0..i /\ i \notin 0..(i - 1)
      BY <2>2
    <3>2. 0..(i - 1) \in SUBSET A /\ 0..(i - 1) # A
      BY <3>1
    <3>3. 0..(i - 1) \in T
      BY <1>2, <3>2
    <3>4. i - 1 \in X
      BY <3>1, <3>3
    <3> QED BY <3>1, <3>4
  <2> QED BY <2>1, <2>2
<1>3. \A A \in SUBSET (0..n) : A \in T
  <2> HIDE DEF T
  <2> QED BY <1>1, <1>2, SubsetInduction
<1>4. ASSUME NEW i \in 0..n PROVE i \in X
  <2>1. 0..i \in SUBSET (0..n)
    OBVIOUS
  <2> QED BY <1>3, <2>1
<1> QED BY <1>4

\* A finite non-empty set of numbers has a largest member.
LEMMA LargestNumber ==
    ASSUME NEW X, IsFiniteSet(X), X # {}
    PROVE  X \subseteq Int => \E x \in X : \A y \in X : y <= x
<1> DEFINE T == {A \in SUBSET X : \E x \in X : A = {y \in X : y > x}}
<1>1. T \in SUBSET SUBSET X /\ T # {}
  <2>1. PICK x \in X : TRUE
    OBVIOUS
  <2>2. {y \in X : y > x} \in T
    BY <2>1
  <2> QED BY <2>2
<1>2. \E A \in T : \A B \in T : B \subseteq A => B = A
  <2> HIDE DEF T
  <2> QED BY <1>1, SmallestSubset
<1> HAVE X \subseteq Int
<1> PICK A \in T : \A B \in T : B \subseteq A => B = A
  BY <1>2
<1> PICK x \in X : A = {y \in X : y > x}
  OBVIOUS
<1>3. ASSUME NEW y \in X, y > x PROVE FALSE
  <2> DEFINE B == {z \in X : z > y}
  <2>1. (\A z \in X : z > y => z > x) /\ ~ (y > y)
    BY <1>3
  <2>2. B \subseteq A /\ y \in A /\ y \notin B
    BY <1>3, <2>1, Zenon
  <2>3. B \in T
    OBVIOUS
  <2> QED BY <2>2, <2>3
<1> QED BY <1>3

\* The values of a function on a finite set.
LEMMA FiniteValues ==
    ASSUME NEW f, NEW S, IsFiniteSet(S)
    PROVE  IsFiniteSet({f[x] : x \in S})
<1> DEFINE V == {f[x] : x \in S}
           g == [x \in S |-> f[x]]
<1>1. g \in Surjection(S, V)
  BY DEF Surjection
<1>2. \A U, W : \A h \in Surjection(U, W) : IsFiniteSet(U) => IsFiniteSet(W)
  BY FS_Surjection
<1>3. IsFiniteSet(V)
  <2> HIDE DEF V, g
  <2> QED BY <1>1, <1>2
<1> QED BY <1>3

\* So it has a smallest one.
LEMMA SmallestNumber ==
    ASSUME NEW X, IsFiniteSet(X), X # {}
    PROVE  X \subseteq Int => \E x \in X : \A y \in X : x <= y
<1> DEFINE f == [x \in X |-> -x]
           N == {f[x] : x \in X}
<1>1. IsFiniteSet(N) /\ N # {}
  <2>1. IsFiniteSet(N)
    <3> HIDE DEF f
    <3> QED BY FiniteValues
  <2> QED BY <2>1
<1> HAVE X \subseteq Int
<1>2. \E m \in N : \A k \in N : k <= m
  <2>1. N \subseteq Int
    OBVIOUS
  <2> HIDE DEF N
  <2> QED BY <1>1, <2>1, LargestNumber
<1>3. PICK x \in X : \A y \in X : -y <= -x
  BY <1>2
<1> QED BY <1>3

-----------------------------------------------------------------------------
(* Sums: SumFunctionOnSet of the community modules, a fold by choice. *)

Pick(s) == CHOOSE x \in s : TRUE

\* The fold over the subsets of S.
IsSum(g, f, S) ==
    g = [s \in SUBSET S |-> IF s = {} THEN 0 ELSE f[Pick(s)] + g[s \ {Pick(s)}]]

LEMMA PickIn == \A s : s # {} => Pick(s) \in s
BY DEF Pick

\* Two folds agree wherever both are defined.
LEMMA SumsAgree ==
    \A f, S : IsFiniteSet(S) => \A R \in SUBSET S : \A g, h :
        IsSum(g, f, S) /\ IsSum(h, f, R) => \A A \in SUBSET R : g[A] = h[A]
<1> TAKE f, S
<1> HAVE IsFiniteSet(S)
<1> TAKE R \in SUBSET S
<1> TAKE g, h
<1> HAVE IsSum(g, f, S) /\ IsSum(h, f, R)
<1> DEFINE T == {A \in SUBSET R : g[A] = h[A]}
<1>1. IsFiniteSet(R)
  BY FS_Subset
<1>2. ASSUME NEW A \in SUBSET R, \A B \in SUBSET A : B # A => B \in T
      PROVE  A \in T
  <2>1. /\ g[A] = IF A = {} THEN 0 ELSE f[Pick(A)] + g[A \ {Pick(A)}]
        /\ h[A] = IF A = {} THEN 0 ELSE f[Pick(A)] + h[A \ {Pick(A)}]
    BY DEF IsSum
  <2>2. CASE A = {}
    BY <2>1, <2>2
  <2>3. CASE A # {}
    <3>1. A \ {Pick(A)} \in SUBSET A /\ A \ {Pick(A)} # A
      BY <2>3, PickIn
    <3>2. A \ {Pick(A)} \in T
      BY <1>2, <3>1
    <3> QED BY <2>1, <2>3, <3>2
  <2> QED BY <2>2, <2>3
<1>3. \A A \in SUBSET R : A \in T
  <2> HIDE DEF T
  <2> QED BY <1>1, <1>2, SubsetInduction
<1> QED BY <1>3

\* There is such a fold.
LEMMA SumExists ==
    ASSUME NEW f, NEW S, IsFiniteSet(S)
    PROVE  \E g : IsSum(g, f, S)
<1> DEFINE T == {A \in SUBSET S : \E g : IsSum(g, f, A)}
<1>1. ASSUME NEW A \in SUBSET S, \A B \in SUBSET A : B # A => B \in T
      PROVE  A \in T
  <2> DEFINE G(B) == CHOOSE g : IsSum(g, f, B)
             over(B) == f[Pick(B)] + G(B \ {Pick(B)})[B \ {Pick(B)}]
             h == [B \in SUBSET A |-> IF B = {} THEN 0 ELSE over(B)]
  <2>1. \A B \in SUBSET A : B # A => IsSum(G(B), f, B)
    BY <1>1
  <2>2. ASSUME NEW B \in SUBSET A, B # {}
        PROVE  h[B \ {Pick(B)}] = G(B \ {Pick(B)})[B \ {Pick(B)}]
    <3> DEFINE C == B \ {Pick(B)}
    <3>1. C \in SUBSET A /\ C # A /\ C \in SUBSET C
      BY <2>2, PickIn
    <3>2. IsSum(G(C), f, C)
      BY <2>1, <3>1
    <3>3. G(C)[C] = IF C = {} THEN 0 ELSE f[Pick(C)] + G(C)[C \ {Pick(C)}]
      BY <3>1, <3>2 DEF IsSum
    <3>4. CASE C = {}
      BY <3>1, <3>3, <3>4
    <3>5. CASE C # {}
      <4> DEFINE D == C \ {Pick(C)}
      <4>1. D \in SUBSET A /\ D # A /\ D \in SUBSET C /\ D \in SUBSET D
        BY <3>1, <3>5, PickIn
      <4>2. IsSum(G(D), f, D) /\ IsFiniteSet(C)
        BY <2>1, <4>1, <3>1, FS_Subset
      <4>3. G(C)[D] = G(D)[D]
        <5>1. \A g1, g2 : IsSum(g1, f, C) /\ IsSum(g2, f, D) => g1[D] = g2[D]
          BY <4>1, <4>2, SumsAgree
        <5> HIDE DEF G, C, D
        <5> QED BY <4>2, <3>2, <5>1
      <4> QED BY <3>1, <3>3, <3>5, <4>3
    <3> QED BY <3>4, <3>5
  <2>3. IsSum(h, f, A)
    <3>1. \A B \in SUBSET A :
              over(B) = f[Pick(B)] + G(B \ {Pick(B)})[B \ {Pick(B)}]
      OBVIOUS
    <3>2. \A B \in SUBSET A :
              B # {} => over(B) = f[Pick(B)] + h[B \ {Pick(B)}]
      BY <2>2, <3>1
    <3>3. h = [B \in SUBSET A |-> IF B = {} THEN 0 ELSE over(B)]
      OBVIOUS
    <3> HIDE DEF over, h
    <3> QED BY <3>2, <3>3 DEF IsSum
  <2> QED BY <2>3
<1>2. \A A \in SUBSET S : A \in T
  <2> HIDE DEF T
  <2> QED BY <1>1, SubsetInduction
<1> QED BY <1>2

\* The sum of the community modules is such a fold.
LEMMA SumIsFold ==
    ASSUME NEW f, NEW S, IsFiniteSet(S)
    PROVE  \E g : IsSum(g, f, S) /\ SumFunctionOnSet(f, S) = g[S]
<1> DEFINE g == CHOOSE g : IsSum(g, f, S)
<1>1. IsSum(g, f, S)
  BY SumExists
<1>2. SumFunctionOnSet(f, S) = g[S]
  BY DEF SumFunctionOnSet, FoldFunctionOnSet, MapThenFoldSet, IsSum, Pick
<1> QED BY <1>1, <1>2

\* The sum over S and the sum over S without one member, in the order of the fold.
LEMMA SumPick ==
    \A f, S : IsFiniteSet(S) =>
        SumFunctionOnSet(f, S) =
            IF S = {} THEN 0 ELSE f[Pick(S)] + SumFunctionOnSet(f, S \ {Pick(S)})
<1> TAKE f, S
<1> HAVE IsFiniteSet(S)
<1> DEFINE R == S \ {Pick(S)}
<1>1. PICK g : IsSum(g, f, S) /\ SumFunctionOnSet(f, S) = g[S]
  BY SumIsFold
<1>2. IsFiniteSet(R) /\ R \in SUBSET S /\ R \in SUBSET R /\ S \in SUBSET S
  BY FS_Subset
<1>3. PICK h : IsSum(h, f, R) /\ SumFunctionOnSet(f, R) = h[R]
  BY <1>2, SumIsFold
<1>4. g[S] = IF S = {} THEN 0 ELSE f[Pick(S)] + g[R]
  BY <1>1, <1>2 DEF IsSum
<1>5. g[R] = h[R]
  BY <1>1, <1>2, <1>3, SumsAgree
<1> QED BY <1>1, <1>3, <1>4, <1>5

LEMMA SumEmpty == \A f : SumFunctionOnSet(f, {}) = 0
BY SumPick, FS_EmptySet

\* A sum stays in a set that is closed under addition.
LEMMA SumIn ==
    ASSUME NEW f, NEW S, IsFiniteSet(S), NEW X, 0 \in X, \A a, b \in X : a + b \in X,
           \A x \in S : f[x] \in X
    PROVE  SumFunctionOnSet(f, S) \in X
<1> DEFINE T == {A \in SUBSET S : SumFunctionOnSet(f, A) \in X}
<1>1. ASSUME NEW A \in SUBSET S, \A B \in SUBSET A : B # A => B \in T
      PROVE  A \in T
  <2>1. IsFiniteSet(A)
    BY FS_Subset
  <2>2. SumFunctionOnSet(f, A) =
            IF A = {} THEN 0 ELSE f[Pick(A)] + SumFunctionOnSet(f, A \ {Pick(A)})
    BY <2>1, SumPick
  <2>3. CASE A = {}
    BY <2>2, <2>3
  <2>4. CASE A # {}
    <3>1. Pick(A) \in A /\ A \ {Pick(A)} \in T
      BY <1>1, <2>4, PickIn
    <3> QED BY <2>2, <2>4, <3>1, Zenon
  <2> QED BY <2>3, <2>4
<1>2. \A A \in SUBSET S : A \in T
  <2> HIDE DEF T
  <2> QED BY <1>1, SubsetInduction
<1> QED BY <1>2

LEMMA SumInt ==
    ASSUME NEW f, NEW S, IsFiniteSet(S), \A x \in S : f[x] \in Int
    PROVE  SumFunctionOnSet(f, S) \in Int
<1>1. 0 \in Int /\ \A a, b \in Int : a + b \in Int
  OBVIOUS
<1> QED BY <1>1, SumIn, Zenon

LEMMA SumNat ==
    ASSUME NEW f, NEW S, IsFiniteSet(S), \A x \in S : f[x] \in Nat
    PROVE  SumFunctionOnSet(f, S) \in Nat
<1>1. 0 \in Nat /\ \A a, b \in Nat : a + b \in Nat
  OBVIOUS
<1> QED BY <1>1, SumIn, Zenon

\* Any member may be taken out first.
LEMMA SumRemove ==
    ASSUME NEW f, NEW S, IsFiniteSet(S), \A x \in S : f[x] \in Int, NEW x \in S
    PROVE  SumFunctionOnSet(f, S) = f[x] + SumFunctionOnSet(f, S \ {x})
<1> DEFINE Sum(A) == SumFunctionOnSet(f, A)
           T == {A \in SUBSET S : \A y \in A : Sum(A) = f[y] + Sum(A \ {y})}
<1>0. \A A \in SUBSET S : IsFiniteSet(A) /\ Sum(A) \in Int
  BY FS_Subset, SumInt
<1>1. ASSUME NEW A \in SUBSET S, \A B \in SUBSET A : B # A => B \in T
      PROVE  A \in T
  <2> SUFFICES ASSUME NEW y \in A PROVE Sum(A) = f[y] + Sum(A \ {y})
    OBVIOUS
  <2> DEFINE p == Pick(A)
  <2>1. p \in A /\ Sum(A) = f[p] + Sum(A \ {p})
    BY <1>0, SumPick, PickIn
  <2>2. CASE y = p
    BY <2>1, <2>2
  <2>3. CASE y # p
    <3>1. /\ A \ {p} \in SUBSET A /\ A \ {p} # A /\ y \in A \ {p}
          /\ A \ {y} \in SUBSET A /\ A \ {y} # A /\ p \in A \ {y}
          /\ (A \ {p}) \ {y} = (A \ {y}) \ {p}
          /\ (A \ {p}) \ {y} \in SUBSET S
      BY <2>1, <2>3
    <3>2. A \ {p} \in T /\ A \ {y} \in T
      BY <1>1, <3>1
    <3>3. /\ Sum(A \ {p}) = f[y] + Sum((A \ {p}) \ {y})
          /\ Sum(A \ {y}) = f[p] + Sum((A \ {y}) \ {p})
      BY <3>1, <3>2
    <3>4. f[p] \in Int /\ f[y] \in Int /\ Sum((A \ {p}) \ {y}) \in Int
      BY <1>0, <2>1, <3>1
    <3>5. /\ Sum(A) = f[p] + (f[y] + Sum((A \ {p}) \ {y}))
          /\ f[y] + Sum(A \ {y}) = f[y] + (f[p] + Sum((A \ {p}) \ {y}))
      BY <2>1, <3>1, <3>3
    <3>6. \A a, b, c \in Int : a + (b + c) = b + (a + c)
      OBVIOUS
    <3> HIDE DEF Sum, p
    <3> QED BY <3>4, <3>5, <3>6
  <2> QED BY <2>2, <2>3
<1>2. \A A \in SUBSET S : A \in T
  <2> HIDE DEF T
  <2> QED BY <1>1, SubsetInduction
<1> QED BY <1>2

\* A sum depends on the values summed alone.
LEMMA SumSame ==
    ASSUME NEW f, NEW g, NEW S, IsFiniteSet(S), \A x \in S : f[x] = g[x]
    PROVE  SumFunctionOnSet(f, S) = SumFunctionOnSet(g, S)
<1> DEFINE T == {A \in SUBSET S : SumFunctionOnSet(f, A) = SumFunctionOnSet(g, A)}
<1>1. ASSUME NEW A \in SUBSET S, \A B \in SUBSET A : B # A => B \in T
      PROVE  A \in T
  <2>1. IsFiniteSet(A)
    BY FS_Subset
  <2>2. CASE A = {}
    BY <2>2, SumEmpty
  <2>3. CASE A # {}
    <3>1. Pick(A) \in A /\ A \ {Pick(A)} \in T
      BY <1>1, <2>3, PickIn
    <3> QED BY <2>1, <2>3, <3>1, SumPick
  <2> QED BY <2>2, <2>3
<1>2. \A A \in SUBSET S : A \in T
  <2> HIDE DEF T
  <2> QED BY <1>1, SubsetInduction
<1> QED BY <1>2

\* A sum in which one value changes.
LEMMA SumUpdate ==
    ASSUME NEW f, NEW g, NEW S, IsFiniteSet(S), NEW x \in S,
           \A y \in S : f[y] \in Int /\ g[y] \in Int, \A y \in S : y # x => f[y] = g[y]
    PROVE  SumFunctionOnSet(g, S) = SumFunctionOnSet(f, S) - f[x] + g[x]
<1> DEFINE R == S \ {x}
<1>1. IsFiniteSet(R)
  BY FS_Subset
<1>2. SumFunctionOnSet(f, S) = f[x] + SumFunctionOnSet(f, R)
  BY SumRemove
<1>3. SumFunctionOnSet(g, S) = g[x] + SumFunctionOnSet(g, R)
  BY SumRemove
<1>4. SumFunctionOnSet(f, R) = SumFunctionOnSet(g, R)
  BY <1>1, SumSame
<1>5. SumFunctionOnSet(f, R) \in Int
  BY <1>1, SumInt
<1> QED BY <1>2, <1>3, <1>4, <1>5

\* A sum of sums is taken value by value.
LEMMA SumPlus ==
    ASSUME NEW f, NEW g, NEW h, NEW S, IsFiniteSet(S),
           \A x \in S : f[x] \in Int /\ g[x] \in Int /\ h[x] = f[x] + g[x]
    PROVE  SumFunctionOnSet(h, S) = SumFunctionOnSet(f, S) + SumFunctionOnSet(g, S)
<1> DEFINE T == {A \in SUBSET S : SumFunctionOnSet(h, A) =
                     SumFunctionOnSet(f, A) + SumFunctionOnSet(g, A)}
<1>1. ASSUME NEW A \in SUBSET S, \A B \in SUBSET A : B # A => B \in T
      PROVE  A \in T
  <2>1. CASE A = {}
    <3>1. /\ SumFunctionOnSet(h, A) = 0
          /\ SumFunctionOnSet(f, A) = 0 /\ SumFunctionOnSet(g, A) = 0
      BY <2>1, SumEmpty
    <3> QED BY <3>1
  <2>2. CASE A # {}
    <3>1. Pick(A) \in A /\ A \ {Pick(A)} \in T
      BY <1>1, <2>2, PickIn
    <3> DEFINE x == Pick(A)
               R == A \ {x}
               fR == SumFunctionOnSet(f, R)
               gR == SumFunctionOnSet(g, R)
    <3>2. IsFiniteSet(A) /\ IsFiniteSet(R)
      BY FS_Subset
    <3>3. /\ SumFunctionOnSet(f, A) = f[x] + fR
          /\ SumFunctionOnSet(g, A) = g[x] + gR
          /\ SumFunctionOnSet(h, A) = h[x] + SumFunctionOnSet(h, R)
      BY <2>2, <3>2, SumPick
    <3>4. f[x] \in Int /\ g[x] \in Int /\ h[x] = f[x] + g[x] /\ fR \in Int /\ gR \in Int
      BY <3>1, <3>2, SumInt
    <3>5. SumFunctionOnSet(h, R) = fR + gR
      BY <3>1
    <3> HIDE DEF x, R, fR, gR
    <3>6. SumFunctionOnSet(h, A) = (f[x] + fR) + (g[x] + gR)
      BY <3>3, <3>4, <3>5
    <3> QED BY <3>3, <3>6
  <2> QED BY <2>1, <2>2
<1>2. \A A \in SUBSET S : A \in T
  <2> HIDE DEF T
  <2> QED BY <1>1, SubsetInduction
<1> QED BY <1>2

\* Members of the value 0 may be left out.
LEMMA SumSupport ==
    ASSUME NEW f, NEW S, IsFiniteSet(S), \A x \in S : f[x] \in Int,
           NEW R \in SUBSET S, \A x \in S \ R : f[x] = 0
    PROVE  SumFunctionOnSet(f, R) = SumFunctionOnSet(f, S)
<1> DEFINE T == {A \in SUBSET S : SumFunctionOnSet(f, A \cap R) = SumFunctionOnSet(f, A)}
<1>1. ASSUME NEW A \in SUBSET S, \A B \in SUBSET A : B # A => B \in T
      PROVE  A \in T
  <2>1. CASE A \subseteq R
    <3>1. A \cap R = A
      BY <2>1
    <3> QED BY <3>1
  <2>2. CASE ~ (A \subseteq R)
    <3>1. PICK x \in A : x \notin R
      BY <2>2
    <3>2. A \ {x} \in T /\ (A \ {x}) \cap R = A \cap R
      BY <1>1, <3>1
    <3>3. IsFiniteSet(A) /\ IsFiniteSet(A \ {x})
      BY FS_Subset
    <3>4. /\ SumFunctionOnSet(f, A) = f[x] + SumFunctionOnSet(f, A \ {x})
          /\ SumFunctionOnSet(f, A \ {x}) \in Int /\ f[x] = 0
      BY <3>1, <3>3, SumRemove, SumInt
    <3>5. SumFunctionOnSet(f, A \cap R) = SumFunctionOnSet(f, A \ {x})
      BY <3>2
    <3>6. SumFunctionOnSet(f, A \cap R) = SumFunctionOnSet(f, A)
      <4> DEFINE a == SumFunctionOnSet(f, A \ {x})
      <4>1. \A k \in Int : 0 + k = k
        OBVIOUS
      <4> QED BY <3>4, <3>5, <4>1
    <3> QED BY <3>6
  <2> QED BY <2>1, <2>2
<1>2. S \in T
  <2> HIDE DEF T
  <2> QED BY <1>1, SubsetInduction
<1>3. S \cap R = R
  OBVIOUS
<1> QED BY <1>2, <1>3

\* The smaller and the larger of two numbers.
LEMMA MinOfTwo == \A x, y \in Int : Min({x, y}) = IF x <= y THEN x ELSE y
<1> TAKE x, y \in Int
<1> DEFINE m == IF x <= y THEN x ELSE y
<1>1. m \in {x, y} /\ \A z \in {x, y} : m <= z
  OBVIOUS
<1>2. \A k \in {x, y} : (\A z \in {x, y} : k <= z) => k = m
  OBVIOUS
<1>3. Min({x, y}) \in {x, y} /\ \A z \in {x, y} : Min({x, y}) <= z
  <2> HIDE DEF m
  <2> QED BY <1>1 DEF Min
<1> QED BY <1>2, <1>3

LEMMA MaxOfTwo == \A x, y \in Int : Max({x, y}) = IF x <= y THEN y ELSE x
<1> TAKE x, y \in Int
<1> DEFINE m == IF x <= y THEN y ELSE x
<1>1. m \in {x, y} /\ \A z \in {x, y} : m >= z
  OBVIOUS
<1>2. \A k \in {x, y} : (\A z \in {x, y} : k >= z) => k = m
  OBVIOUS
<1>3. Max({x, y}) \in {x, y} /\ \A z \in {x, y} : Max({x, y}) >= z
  <2> HIDE DEF m
  <2> QED BY <1>1 DEF Max
<1> QED BY <1>2, <1>3

-----------------------------------------------------------------------------
(* Rows that are appended. *)

LEMMA AppendFacts ==
    ASSUME NEW S, NEW s \in Seq(S), NEW x \in S
    PROVE  /\ Append(s, x) \in Seq(S)
           /\ DOMAIN Append(s, x) = 1..(Len(s) + 1) /\ DOMAIN s = 1..Len(s) /\ Len(s) \in Nat
           /\ \A i \in DOMAIN s : i \in DOMAIN Append(s, x) /\ Append(s, x)[i] = s[i]
           /\ \A i \in DOMAIN Append(s, x) : i \in DOMAIN s \/ Append(s, x)[i] = x
           /\ Len(s) + 1 \in DOMAIN Append(s, x) /\ Append(s, x)[Len(s) + 1] = x
OBVIOUS

\* A sequence, whatever it is made of.
IsRows(s) == s \in Seq({s[i] : i \in DOMAIN s})

LEMMA RowsAre ==
    ASSUME NEW s, NEW n \in Nat, DOMAIN s = 1..n, s = [i \in 1..n |-> s[i]]
    PROVE  IsRows(s)
<1> DEFINE B == {s[i] : i \in DOMAIN s}
<1>1. s \in [1..n -> B]
  OBVIOUS
<1>2. \A m \in Nat : s \in [1..m -> B] => s \in Seq(B)
  <2> HIDE DEF B
  <2> QED BY SeqDef, Zenon
<1> QED BY <1>1, <1>2 DEF IsRows

LEMMA RowsIndexed ==
    ASSUME NEW s, IsRows(s)
    PROVE  \E n \in Nat : DOMAIN s = 1..n /\ s = [i \in 1..n |-> s[i]]
<1> DEFINE B == {s[i] : i \in DOMAIN s}
<1>1. s \in Seq(B)
  BY DEF IsRows
<1>2. s \in [1..Len(s) -> B] /\ Len(s) \in Nat
  <2> HIDE DEF B
  <2> QED BY <1>1, LenProperties
<1> QED BY <1>2

LEMMA RowsAppend ==
    ASSUME NEW s, IsRows(s), NEW x
    PROVE  /\ IsRows(Append(s, x))
           /\ \A i \in DOMAIN Append(s, x) :
                 (i \in DOMAIN s /\ Append(s, x)[i] = s[i]) \/ Append(s, x)[i] = x
           /\ \A i \in DOMAIN s : i \in DOMAIN Append(s, x) /\ Append(s, x)[i] = s[i]
           /\ Len(s) + 1 \in DOMAIN Append(s, x) /\ Append(s, x)[Len(s) + 1] = x
<1> DEFINE A == {s[i] : i \in DOMAIN s} \cup {x}
           t == Append(s, x)
<1>1. s \in Seq(A)
  <2>1. s \in Seq({s[i] : i \in DOMAIN s})
    BY DEF IsRows
  <2> QED BY <2>1
<1>2. /\ t \in Seq(A) /\ DOMAIN t = 1..(Len(s) + 1) /\ DOMAIN s = 1..Len(s) /\ Len(s) \in Nat
      /\ \A i \in DOMAIN s : i \in DOMAIN t /\ t[i] = s[i]
      /\ \A i \in DOMAIN t : i \in DOMAIN s \/ t[i] = x
      /\ Len(s) + 1 \in DOMAIN t /\ t[Len(s) + 1] = x
  <2>1. x \in A
    OBVIOUS
  <2> HIDE DEF A
  <2> QED BY <1>1, <2>1, AppendFacts
<1>3. IsRows(t)
  <2> DEFINE B == {t[i] : i \in DOMAIN t}
  <2>1. t \in [1..Len(t) -> A \cup {x}] /\ Len(t) \in Nat
    <3> HIDE DEF t, A
    <3> QED BY <1>2, LenProperties
  <2>2. t \in [1..Len(t) -> B]
    <3> HIDE DEF t, A
    <3> QED BY <1>2, <2>1
  <2>3. t \in Seq(B)
    <3> DEFINE n == Len(t)
    <3>1. \A m \in Nat : t \in [1..m -> B] => t \in Seq(B)
      <4> HIDE DEF t, B
      <4> QED BY SeqDef, Zenon
    <3> HIDE DEF t, B
    <3> QED BY <2>1, <2>2, <3>1
  <2> QED BY <2>3 DEF IsRows
<1> QED BY <1>2, <1>3

=============================================================================
