----------------------------- MODULE SetLemmas -----------------------------
(***************************************************************************)
(* Facts about SumFunctionOnSet of the community modules, which adds up the *)
(* values of a function in an order nobody knows: that the order does not   *)
(* matter, and what follows; and about least elements and about counting.   *)
(* The inductions are over sets, by well-founded minimal elements.          *)
(***************************************************************************)
EXTENDS FiniteSetsExt, FiniteSetTheorems, TLAPS

\* Induction over the subsets of a finite set, for a set of them.
LEMMA SubsetInduction ==
    ASSUME NEW S, IsFiniteSet(S), NEW Good \in SUBSET (SUBSET S),
           {} \in Good,
           \A T \in SUBSET S : \A x \in T : T \ {x} \in Good => T \in Good
    PROVE  SUBSET S \subseteq Good
<1> DEFINE Bad == (SUBSET S) \ Good
<1> SUFFICES ASSUME Bad # {} PROVE FALSE
  OBVIOUS
<1>1. FiniteSubsetsOf(S) = SUBSET S
  BY FS_FiniteSubsetsOfFinite
<1>2. IsWellFoundedOn(StrictSubsetOrdering(S), SUBSET S)
  BY <1>1, FS_StrictSubsetOrderingWellFounded
<1>3. PICK T \in Bad : \A U \in Bad : <<U, T>> \notin StrictSubsetOrdering(S)
  <2>1. Bad \subseteq SUBSET S
    OBVIOUS
  <2> HIDE DEF Bad
  <2> QED BY <1>2, <2>1, WFMin
<1>4. PICK x \in T : TRUE
  BY <1>3
<1>5. <<T \ {x}, T>> \in StrictSubsetOrdering(S)
  BY <1>3, <1>4 DEF StrictSubsetOrdering
<1>6. T \ {x} \in Good
  BY <1>3, <1>5
<1> QED BY <1>3, <1>4, <1>6

\* What it is to be the sums of f over the subsets of S, in whatever order.
SumsOf(f, S) ==
    {h \in [SUBSET S -> Nat] :
        /\ h[{}] = 0
        /\ \A T \in SUBSET S : \A x \in T : h[T] = f[x] + h[T \ {x}]}

LEMMA SumsExist ==
    ASSUME NEW S, IsFiniteSet(S), NEW f, \A x \in S : f[x] \in Nat
    PROVE  SumsOf(f, S) # {}
<1> DEFINE Good == {T \in SUBSET S : SumsOf(f, T) # {}}
<1>1. {} \in Good
  <2>1. [T \in SUBSET {} |-> 0] \in SumsOf(f, {})
    BY DEF SumsOf
  <2> QED BY <2>1
<1>2. ASSUME NEW T \in SUBSET S, NEW x \in T, T \ {x} \in Good
      PROVE  T \in Good
  <2>1. PICK h \in SumsOf(f, T \ {x}) : TRUE
    BY <1>2
  <2> DEFINE g == [U \in SUBSET T |-> IF x \in U THEN f[x] + h[U \ {x}] ELSE h[U]]
  <2>2. \A U \in SUBSET T : /\ U \ {x} \in SUBSET (T \ {x})
                            /\ x \notin U => U \in SUBSET (T \ {x})
    OBVIOUS
  <2>3. /\ h \in [SUBSET (T \ {x}) -> Nat]
        /\ h[{}] = 0
        /\ \A U \in SUBSET (T \ {x}) : \A y \in U : h[U] = f[y] + h[U \ {y}]
    BY <2>1 DEF SumsOf
  <2>4. f[x] \in Nat
    OBVIOUS
  <2>5. g \in [SUBSET T -> Nat]
    BY <2>2, <2>3, <2>4
  <2>6. g[{}] = 0
    BY <2>3
  <2>7. ASSUME NEW U \in SUBSET T, NEW y \in U
        PROVE  g[U] = f[y] + g[U \ {y}]
    <3>1. U \ {y} \in SUBSET T
      OBVIOUS
    <3>2. CASE x \notin U
      BY <3>1, <3>2, <2>2, <2>3
    <3>3. CASE x = y
      BY <3>1, <3>3
    <3>4. CASE x \in U /\ x # y
      <4>1. g[U] = f[x] + h[U \ {x}]
        BY <3>4
      <4>2. g[U \ {y}] = f[x] + h[(U \ {y}) \ {x}]
        BY <3>1, <3>4
      <4>3. (U \ {x}) \ {y} = (U \ {y}) \ {x}
        OBVIOUS
      <4>4. h[U \ {x}] = f[y] + h[(U \ {y}) \ {x}]
        <5>1. h[U \ {x}] = f[y] + h[(U \ {x}) \ {y}]
          BY <2>2, <2>3, <3>4
        <5> QED BY ONLY <5>1, <4>3
      <4>5. f[y] \in Nat /\ h[(U \ {y}) \ {x}] \in Nat
        BY <2>2, <2>3, <3>1
      <4> HIDE DEF g
      <4> QED BY ONLY <4>1, <4>2, <4>4, <4>5, <2>4
    <3> QED BY <3>2, <3>3, <3>4
  <2>8. g \in SumsOf(f, T)
    BY <2>5, <2>6, <2>7 DEF SumsOf
  <2> QED BY <2>8
<1> HIDE DEF Good
<1>3. Good \in SUBSET (SUBSET S)
  BY DEF Good
<1>4. S \in Good
  BY <1>1, <1>2, <1>3, SubsetInduction
<1> QED BY <1>4 DEF Good

\* The equation that the fold solves.
AnyOf(T) == CHOOSE x \in T : TRUE

IsFold(f, S, g) ==
    g = [T \in SUBSET S |-> IF T = {} THEN 0 ELSE f[AnyOf(T)] + g[T \ {AnyOf(T)}]]

LEMMA FoldIsSum ==
    ASSUME NEW S, IsFiniteSet(S), NEW f, \A x \in S : f[x] \in Nat,
           NEW h \in SumsOf(f, S)
    PROVE  SumFunctionOnSet(f, S) = h[S]
<1> DEFINE it == CHOOSE g : IsFold(f, S, g)
<1>1. SumFunctionOnSet(f, S) = it[S]
  BY DEF SumFunctionOnSet, FoldFunctionOnSet, MapThenFoldSet, IsFold, AnyOf
<1>2. IsFold(f, S, h)
  <2>1. \A T \in SUBSET S : T # {} => AnyOf(T) \in T
    BY DEF AnyOf
  <2>2. \A T \in SUBSET S : h[T] = IF T = {} THEN 0 ELSE f[AnyOf(T)] + h[T \ {AnyOf(T)}]
    BY <2>1 DEF SumsOf
  <2>3. h \in [SUBSET S -> Nat]
    BY DEF SumsOf
  <2> QED BY <2>2, <2>3 DEF IsFold
<1>3. IsFold(f, S, it)
  BY <1>2
<1> HIDE DEF it
<1> DEFINE Good == {T \in SUBSET S : it[T] = h[T]}
<1>4. \A T \in SUBSET S : it[T] = IF T = {} THEN 0 ELSE f[AnyOf(T)] + it[T \ {AnyOf(T)}]
  BY <1>3 DEF IsFold
<1>5. \A T \in SUBSET S : h[T] = IF T = {} THEN 0 ELSE f[AnyOf(T)] + h[T \ {AnyOf(T)}]
  BY <1>2 DEF IsFold
<1> DEFINE Bad == (SUBSET S) \ Good
<1>6. Bad = {}
  <2> SUFFICES ASSUME Bad # {} PROVE FALSE
    OBVIOUS
  <2>1. IsWellFoundedOn(StrictSubsetOrdering(S), SUBSET S)
    BY FS_FiniteSubsetsOfFinite, FS_StrictSubsetOrderingWellFounded
  <2>2. PICK T \in Bad : \A U \in Bad : <<U, T>> \notin StrictSubsetOrdering(S)
    <3>1. Bad \subseteq SUBSET S
      OBVIOUS
    <3> HIDE DEF Bad
    <3> QED BY <2>1, <3>1, WFMin
  <2>3. CASE T = {}
    BY <2>2, <2>3, <1>4, <1>5
  <2>4. CASE T # {}
    <3>1. AnyOf(T) \in T
      BY <2>4 DEF AnyOf
    <3>2. <<T \ {AnyOf(T)}, T>> \in StrictSubsetOrdering(S)
      BY <2>2, <3>1 DEF StrictSubsetOrdering
    <3>3. it[T \ {AnyOf(T)}] = h[T \ {AnyOf(T)}]
      BY <2>2, <3>2
    <3> QED BY <2>2, <2>4, <3>3, <1>4, <1>5
  <2> QED BY <2>3, <2>4
<1> QED BY <1>1, <1>6

-----------------------------------------------------------------------------

\* A sum of naturals is a natural, the empty one is zero, and any element may
\* be taken out of it first.
LEMMA SumStep ==
    ASSUME NEW S, IsFiniteSet(S), NEW f, \A x \in S : f[x] \in Nat
    PROVE  /\ SumFunctionOnSet(f, {}) = 0
           /\ SumFunctionOnSet(f, S) \in Nat
           /\ \A x \in S : SumFunctionOnSet(f, S) = f[x] + SumFunctionOnSet(f, S \ {x})
<1>1. PICK h \in SumsOf(f, S) : TRUE
  BY SumsExist
<1>2. ASSUME NEW T \in SUBSET S
      PROVE  SumFunctionOnSet(f, T) = h[T]
  <2> DEFINE k == [U \in SUBSET T |-> h[U]]
  <2>1. IsFiniteSet(T)
    BY FS_Subset
  <2>2. \A U \in SUBSET T : U \in SUBSET S /\ \A x \in U : U \ {x} \in SUBSET T
    OBVIOUS
  <2>3. k \in SumsOf(f, T)
    BY <1>1, <2>2 DEF SumsOf
  <2>4. \A x \in T : f[x] \in Nat
    OBVIOUS
  <2>5. SumFunctionOnSet(f, T) = k[T]
    <3> HIDE DEF k
    <3> QED BY <2>1, <2>3, <2>4, FoldIsSum
  <2> QED BY <2>5
<1>3. /\ h[{}] = 0
      /\ h[S] \in Nat
      /\ \A x \in S : h[S] = f[x] + h[S \ {x}]
  BY <1>1 DEF SumsOf
<1>4. \A x \in S : S \ {x} \in SUBSET S
  OBVIOUS
<1> QED BY <1>2, <1>3, <1>4

\* A sum depends on nothing but what it adds.
LEMMA SumAgree ==
    ASSUME NEW S, IsFiniteSet(S), NEW f, NEW g, \A x \in S : f[x] \in Nat /\ g[x] = f[x]
    PROVE  SumFunctionOnSet(g, S) = SumFunctionOnSet(f, S)
<1>1. PICK h \in SumsOf(f, S) : TRUE
  BY SumsExist
<1>2. h \in SumsOf(g, S)
  BY <1>1 DEF SumsOf
<1>3. SumFunctionOnSet(f, S) = h[S]
  BY <1>1, FoldIsSum
<1>4. SumFunctionOnSet(g, S) = h[S]
  BY <1>2, FoldIsSum
<1> QED BY <1>3, <1>4

\* A set of naturals has a least element, and Min is it.
LEMMA MinLemma ==
    ASSUME NEW S \in SUBSET Nat, S # {}
    PROVE  Min(S) \in S /\ \A n \in S : Min(S) <= n
<1> DEFINE Below == {0..n : n \in S}
<1>1. Below \subseteq FiniteSubsetsOf(Nat)
  <2>1. ASSUME NEW n \in S
        PROVE  0..n \in SUBSET Nat /\ IsFiniteSet(0..n)
    BY FS_Interval
  <2> QED BY <2>1 DEF FiniteSubsetsOf
<1>2. Below # {}
  OBVIOUS
<1>3. PICK I \in Below : \A J \in Below : <<J, I>> \notin StrictSubsetOrdering(Nat)
  <2> HIDE DEF Below
  <2> QED BY <1>1, <1>2, FS_StrictSubsetOrderingWellFounded, WFMin
<1>4. PICK m \in S : I = 0..m
  OBVIOUS
<1>5. ASSUME NEW n \in S
      PROVE  m <= n
  <2> SUFFICES ASSUME n < m PROVE FALSE
    OBVIOUS
  <2>1. 0..n \in SUBSET Nat /\ 0..m \in SUBSET Nat
    OBVIOUS
  <2>2. 0..n \subseteq 0..m /\ m \in 0..m /\ m \notin 0..n
    OBVIOUS
  <2>3. <<0..n, 0..m>> \in StrictSubsetOrdering(Nat)
    BY <2>1, <2>2 DEF StrictSubsetOrdering
  <2> QED BY <2>3, <1>3, <1>4
<1> QED BY <1>5 DEF Min

\* Induction over the naturals, for a set of them.
LEMMA NatSetInduction ==
    ASSUME NEW Good, 0 \in Good, \A n \in Nat : n \in Good => n + 1 \in Good
    PROVE  Nat \subseteq Good
<1> DEFINE Bad == Nat \ Good
<1> SUFFICES ASSUME Bad # {} PROVE FALSE
  OBVIOUS
<1>1. Min(Bad) \in Bad /\ \A n \in Bad : Min(Bad) <= n
  <2>1. Bad \in SUBSET Nat
    OBVIOUS
  <2> HIDE DEF Bad
  <2> QED BY <2>1, MinLemma
<1> DEFINE m == Min(Bad)
<1> HIDE DEF m
<1>2. m \in Bad /\ \A n \in Bad : m <= n
  BY <1>1 DEF m
<1>3. m # 0 /\ m \in Nat
  BY <1>2
<1>4. m - 1 \in Nat /\ m - 1 \notin Bad
  BY <1>2, <1>3
<1> QED BY <1>2, <1>4
=============================================================================
