-------------------------------- MODULE Sums --------------------------------
(***************************************************************************)
(* Sums over finite sets (SumFunctionOnSet of the community modules): that *)
(* the recursion behind the library's definition has exactly one solution, *)
(* how a sum changes with one member, and how sums compare.  The proofs    *)
(* about money and shares rest on these.                                   *)
(***************************************************************************)
EXTENDS Integers, FiniteSetsExt, FiniteSetTheorems, WellFoundedInduction, TLAPS

\* f has a number for each member of S.
Numbers(f, S) == \A x \in S : f[x] \in Int

\* P contains every subset of S all of whose parts it contains.
Inductive(P, S) == \A T \in SUBSET S : (\A x \in T : T \ {x} \in P) => T \in P

\* Induction over the subsets of a finite set: a set of them that contains the empty one,
\* and each whose parts it contains, contains all.
LEMMA FiniteInduction ==
    ASSUME NEW S, IsFiniteSet(S), NEW P, Inductive(P, S)
    PROVE  SUBSET S \subseteq P
<1> DEFINE R == StrictSubsetOrdering(S)
           B == (SUBSET S) \ P
<1>1. IsWellFoundedOn(R, SUBSET S)
  <2>1. FiniteSubsetsOf(S) = SUBSET S
    BY FS_FiniteSubsetsOfFinite
  <2> QED BY <2>1, FS_StrictSubsetOrderingWellFounded
<1>2. SUFFICES ASSUME B # {} PROVE FALSE
  OBVIOUS
<1>3. PICK T \in B : \A U \in B : ~(<<U, T>> \in R)
  <2>1. B \subseteq SUBSET S
    OBVIOUS
  <2> HIDE DEF R, B
  <2> QED BY <1>1, <1>2, <2>1, WFMin
<1>4. ASSUME NEW x \in T PROVE T \ {x} \in P
  <2>1. <<T \ {x}, T>> \in R
    BY <1>3, <1>4 DEF StrictSubsetOrdering
  <2> QED BY <1>3, <2>1
<1> QED BY <1>3, <1>4 DEF Inductive

Pick1(T) == CHOOSE x \in T : TRUE
SumStep(f, g, T) == IF T = {} THEN 0 ELSE f[Pick1(T)] + g[T \ {Pick1(T)}]
IsSum(g, f, D) == g = [T \in D |-> SumStep(f, g, T)]

\* A sum over S is the value at S of a function on its subsets.
LEMMA SumUnfold ==
    ASSUME NEW f, NEW S
    PROVE  SumFunctionOnSet(f, S) = (CHOOSE g : IsSum(g, f, SUBSET S))[S]
BY DEF SumFunctionOnSet, FoldFunctionOnSet, MapThenFoldSet, IsSum, SumStep, Pick1

Upto(S, n) == {T \in SUBSET S : Cardinality(T) <= n}

\* Partial sums over the sets of at most n members extend to those of n + 1.
LEMMA SumGrows ==
    ASSUME NEW S, IsFiniteSet(S), NEW f, Numbers(f, S), NEW n \in Nat,
           NEW g \in [Upto(S, n) -> Int], IsSum(g, f, Upto(S, n))
    PROVE  \E h \in [Upto(S, n + 1) -> Int] : IsSum(h, f, Upto(S, n + 1))
<1> DEFINE h == [T \in Upto(S, n + 1) |-> SumStep(f, g, T)]
<1>1. \A T \in SUBSET S : IsFiniteSet(T) /\ Cardinality(T) \in Nat
  BY FS_Subset, FS_CardinalityType
<1>2. ASSUME NEW T \in Upto(S, n + 1), T # {}
      PROVE  Pick1(T) \in S /\ T \ {Pick1(T)} \in Upto(S, n)
  <2>1. T \in SUBSET S /\ Cardinality(T) <= n + 1 /\ Pick1(T) \in T
    BY <1>2 DEF Upto, Pick1
  <2>2. Cardinality(T \ {Pick1(T)}) = Cardinality(T) - 1
    BY <1>1, <2>1, FS_RemoveElement
  <2>3. Cardinality(T) \in Nat
    BY <1>1, <2>1
  <2> QED BY <2>1, <2>2, <2>3 DEF Upto
<1>3. \A T \in Upto(S, n + 1) : SumStep(f, g, T) \in Int
  BY <1>2 DEF SumStep, Numbers
<1>4. \A T \in Upto(S, n) : T \in Upto(S, n + 1) /\ g[T] = SumStep(f, g, T)
  BY <1>1 DEF IsSum, Upto
<1>5. ASSUME NEW T \in Upto(S, n + 1)
      PROVE  h[T] = SumStep(f, h, T)
  <2>1. CASE T = {}
    BY <2>1, <1>5 DEF SumStep
  <2>2. CASE T # {}
    <3>1. T \ {Pick1(T)} \in Upto(S, n)
      BY <1>2, <2>2, <1>5
    <3>2. h[T \ {Pick1(T)}] = g[T \ {Pick1(T)}]
      BY <3>1, <1>4
    <3> QED BY <3>2, <2>2, <1>5 DEF SumStep
  <2> QED BY <2>1, <2>2
<1>6. h \in [Upto(S, n + 1) -> Int]
  BY <1>3
<1>7. IsSum(h, f, Upto(S, n + 1))
  <2>1. h = [T \in Upto(S, n + 1) |-> h[T]]
    OBVIOUS
  <2> HIDE DEF h
  <2> QED BY <2>1, <1>5 DEF IsSum
<1> QED BY <1>6, <1>7

\* The recursion of a sum has a solution.
LEMMA SumExists ==
    ASSUME NEW S, IsFiniteSet(S), NEW f, Numbers(f, S)
    PROVE  \E g \in [SUBSET S -> Int] : IsSum(g, f, SUBSET S)
<1> DEFINE E(n) == \E g \in [Upto(S, n) -> Int] : IsSum(g, f, Upto(S, n))
           P == {T \in SUBSET S : E(Cardinality(T))}
<1>1. \A T \in SUBSET S : IsFiniteSet(T) /\ Cardinality(T) \in Nat
  BY FS_Subset, FS_CardinalityType
<1>2. ASSUME NEW T \in SUBSET S, \A x \in T : T \ {x} \in P
      PROVE  T \in P
  <2>1. CASE T = {}
    <3> DEFINE g == [U \in {{}} |-> 0]
    <3>1. Cardinality(T) = 0
      BY <2>1, FS_EmptySet
    <3>2. Upto(S, 0) = {{}}
      <4>1. \A U \in SUBSET S : Cardinality(U) <= 0 <=> U = {}
        BY <1>1, FS_EmptySet
      <4> QED BY <4>1 DEF Upto
    <3>3. g \in [Upto(S, 0) -> Int]
      BY <3>2
    <3>4. IsSum(g, f, Upto(S, 0))
      BY <3>2 DEF IsSum, SumStep
    <3>5. E(0)
      BY <3>3, <3>4
    <3> HIDE DEF E
    <3> QED BY <3>1, <3>5
  <2>2. CASE T # {}
    <3>1. PICK x \in T : TRUE
      BY <2>2
    <3>2. Cardinality(T \ {x}) = Cardinality(T) - 1 /\ Cardinality(T) - 1 \in Nat
      <4>1. IsFiniteSet(T) /\ IsFiniteSet(T \ {x}) /\ Cardinality(T \ {x}) \in Nat
        BY <1>1
      <4> QED BY <4>1, FS_RemoveElement
    <3>3. E(Cardinality(T) - 1)
      BY <1>2, <3>1, <3>2
    <3>4. E(Cardinality(T) - 1 + 1)
      BY <3>2, <3>3, SumGrows
    <3>5. Cardinality(T) - 1 + 1 = Cardinality(T)
      BY <1>1
    <3> HIDE DEF E
    <3> QED BY <3>4, <3>5
  <2> QED BY <2>1, <2>2
<1>3. S \in P
  <2> HIDE DEF P
  <2>1. Inductive(P, S)
    BY <1>2 DEF Inductive
  <2>2. SUBSET S \subseteq P
    BY <2>1, FiniteInduction
  <2> QED BY <2>2
<1>4. Upto(S, Cardinality(S)) = SUBSET S
  <2>1. \A T \in SUBSET S : Cardinality(T) <= Cardinality(S)
    BY FS_Subset
  <2> QED BY <2>1 DEF Upto
<1> QED BY <1>3, <1>4

\* Two such functions agree where both are defined.
LEMMA SumUnique ==
    ASSUME NEW S, IsFiniteSet(S), NEW U \in SUBSET S, NEW f, NEW g, NEW h,
           IsSum(g, f, SUBSET S), IsSum(h, f, SUBSET U)
    PROVE  g[U] = h[U]
<1> DEFINE P == {T \in SUBSET U : g[T] = h[T]}
<1>1. IsFiniteSet(U)
  BY FS_Subset
<1>2. ASSUME NEW T \in SUBSET U, \A x \in T : T \ {x} \in P
      PROVE  T \in P
  <2>1. g[T] = SumStep(f, g, T) /\ h[T] = SumStep(f, h, T)
    BY DEF IsSum
  <2>2. T # {} => Pick1(T) \in T
    BY DEF Pick1
  <2>3. T # {} => g[T \ {Pick1(T)}] = h[T \ {Pick1(T)}]
    BY <1>2, <2>2
  <2>4. g[T] = h[T]
    BY <2>1, <2>3 DEF SumStep
  <2> QED BY <2>4
<1>3. SUBSET U \subseteq P
  <2> HIDE DEF P
  <2>1. Inductive(P, U)
    BY <1>2 DEF Inductive
  <2> QED BY <1>1, <2>1, FiniteInduction
<1> QED BY <1>3

\* g gives the sum of f over each subset of S.
SumsTo(g, f, S) ==
    /\ g \in [SUBSET S -> Int] /\ IsSum(g, f, SUBSET S)
    /\ \A T \in SUBSET S : SumFunctionOnSet(f, T) = g[T]

\* The library's sum is that solution.
LEMMA SumValue ==
    ASSUME NEW S, IsFiniteSet(S), NEW f, Numbers(f, S)
    PROVE  \E g : SumsTo(g, f, S)
<1>1. PICK g \in [SUBSET S -> Int] : IsSum(g, f, SUBSET S)
  BY SumExists
<1>2. ASSUME NEW T \in SUBSET S PROVE SumFunctionOnSet(f, T) = g[T]
  <2> DEFINE h == CHOOSE h : IsSum(h, f, SUBSET T)
  <2>1. IsFiniteSet(T) /\ Numbers(f, T)
    BY FS_Subset DEF Numbers
  <2>2. \E h1 : IsSum(h1, f, SUBSET T)
    BY <2>1, SumExists
  <2>3. IsSum(h, f, SUBSET T)
    BY <2>2
  <2>4. SumFunctionOnSet(f, T) = h[T]
    BY SumUnfold
  <2> HIDE DEF h
  <2> QED BY <1>1, <2>3, <2>4, SumUnique
<1> QED BY <1>1, <1>2 DEF SumsTo

\* What a sum is: one member after the other, in any order.
LEMMA SumRemove ==
    ASSUME NEW S, IsFiniteSet(S), NEW f, Numbers(f, S)
    PROVE  /\ SumFunctionOnSet(f, {}) = 0
           /\ SumFunctionOnSet(f, S) \in Int
           /\ \A x \in S : /\ SumFunctionOnSet(f, S \ {x}) \in Int
                           /\ SumFunctionOnSet(f, S) = f[x] + SumFunctionOnSet(f, S \ {x})
<1>1. PICK g : SumsTo(g, f, S)
  BY SumValue
<1>2. \A T \in SUBSET S : g[T] \in Int /\ g[T] = SumStep(f, g, T) /\ (T # {} => Pick1(T) \in T)
  BY <1>1 DEF SumsTo, IsSum, Pick1
<1>3. g[{}] = 0
  BY <1>2 DEF SumStep
<1> DEFINE P == {T \in SUBSET S : \A x \in T : g[T] = f[x] + g[T \ {x}]}
<1>4. ASSUME NEW T \in SUBSET S, \A x \in T : T \ {x} \in P
      PROVE  T \in P
  <2> SUFFICES ASSUME NEW x \in T PROVE g[T] = f[x] + g[T \ {x}]
    OBVIOUS
  <2> DEFINE c == Pick1(T)
  <2>1. c \in T /\ g[T] = f[c] + g[T \ {c}]
    BY <1>2 DEF SumStep
  <2> HIDE DEF c
  <2>2. CASE x = c
    BY <2>1, <2>2
  <2>3. CASE x # c
    <3>1. g[T \ {c}] = f[x] + g[(T \ {c}) \ {x}]
      BY <1>4, <2>1, <2>3
    <3>2. g[T \ {x}] = f[c] + g[(T \ {x}) \ {c}]
      BY <1>4, <2>1, <2>3
    <3>3. (T \ {c}) \ {x} = (T \ {x}) \ {c}
      OBVIOUS
    <3>4. f[c] \in Int /\ f[x] \in Int /\ g[(T \ {x}) \ {c}] \in Int
      BY <1>2, <2>1 DEF Numbers
    <3> DEFINE d == g[(T \ {x}) \ {c}]
    <3>5. g[T \ {c}] = f[x] + d /\ g[T \ {x}] = f[c] + d /\ d \in Int
      BY <3>1, <3>2, <3>3, <3>4
    <3> HIDE DEF d
    <3> QED BY ONLY <2>1, <3>4, <3>5
  <2> QED BY <2>2, <2>3
<1>5. SUBSET S \subseteq P
  <2> HIDE DEF P
  <2>1. Inductive(P, S)
    BY <1>4 DEF Inductive
  <2> QED BY <2>1, FiniteInduction
<1>6. \A x \in S : g[S] = f[x] + g[S \ {x}]
  BY <1>5
<1>7. S \in SUBSET S /\ {} \in SUBSET S /\ \A x \in S : S \ {x} \in SUBSET S
  OBVIOUS
<1> HIDE DEF P
<1> QED BY ONLY <1>1, <1>2, <1>3, <1>6, <1>7 DEF SumsTo

\* A sum depends on the members only.
LEMMA SumSame ==
    ASSUME NEW S, IsFiniteSet(S), NEW f, NEW h, Numbers(f, S), \A x \in S : h[x] = f[x]
    PROVE  SumFunctionOnSet(h, S) = SumFunctionOnSet(f, S)
<1> DEFINE P == {T \in SUBSET S : SumFunctionOnSet(h, T) = SumFunctionOnSet(f, T)}
<1>1. ASSUME NEW T \in SUBSET S, \A x \in T : T \ {x} \in P
      PROVE  T \in P
  <2>1. IsFiniteSet(T) /\ Numbers(f, T) /\ Numbers(h, T)
    BY FS_Subset DEF Numbers
  <2>2. CASE T = {}
    <3>1. SumFunctionOnSet(h, T) = 0 /\ SumFunctionOnSet(f, T) = 0
      BY <2>1, <2>2, SumRemove
    <3> QED BY <3>1
  <2>3. CASE T # {}
    <3>1. PICK x \in T : TRUE
      BY <2>3
    <3>2. SumFunctionOnSet(h, T) = h[x] + SumFunctionOnSet(h, T \ {x})
      BY <2>1, <3>1, SumRemove
    <3>3. SumFunctionOnSet(f, T) = f[x] + SumFunctionOnSet(f, T \ {x})
      BY <2>1, <3>1, SumRemove
    <3> QED BY <1>1, <2>1, <3>1, <3>2, <3>3
  <2> QED BY <2>2, <2>3
<1>2. SUBSET S \subseteq P
  <2> HIDE DEF P
  <2>1. Inductive(P, S)
    BY <1>1 DEF Inductive
  <2> QED BY <2>1, FiniteInduction
<1> QED BY <1>2

\* A sum of naturals is a natural.
LEMMA SumNat ==
    ASSUME NEW S, IsFiniteSet(S), NEW f, \A x \in S : f[x] \in Nat
    PROVE  SumFunctionOnSet(f, S) \in Nat
<1> DEFINE P == {T \in SUBSET S : SumFunctionOnSet(f, T) \in Nat}
<1>1. ASSUME NEW T \in SUBSET S, \A x \in T : T \ {x} \in P
      PROVE  T \in P
  <2>1. IsFiniteSet(T) /\ Numbers(f, T)
    BY FS_Subset DEF Numbers
  <2>2. CASE T = {}
    <3>1. SumFunctionOnSet(f, T) = 0
      BY <2>1, <2>2, SumRemove
    <3> QED BY <3>1
  <2>3. CASE T # {}
    <3>1. PICK x \in T : TRUE
      BY <2>3
    <3>2. SumFunctionOnSet(f, T) = f[x] + SumFunctionOnSet(f, T \ {x})
      BY <2>1, <3>1, SumRemove
    <3> QED BY <1>1, <3>1, <3>2
  <2> QED BY <2>2, <2>3
<1>2. SUBSET S \subseteq P
  <2> HIDE DEF P
  <2>1. Inductive(P, S)
    BY <1>1 DEF Inductive
  <2> QED BY <2>1, FiniteInduction
<1> QED BY <1>2

\* From the numbers of S to those of T only x changes, comes or goes.
Moves(f, S, h, T, x) ==
    /\ IsFiniteSet(S) /\ Numbers(f, S)
    /\ IsFiniteSet(T) /\ Numbers(h, T)
    /\ S \ {x} = T \ {x} /\ \A y \in S \ {x} : h[y] = f[y]

\* Then their sum changes by what x does.
LEMMA SumMoves ==
    ASSUME NEW S, NEW T, NEW f, NEW h, NEW x, Moves(f, S, h, T, x)
    PROVE  /\ SumFunctionOnSet(f, S) \in Int
           /\ SumFunctionOnSet(h, T) =
                SumFunctionOnSet(f, S) - (IF x \in S THEN f[x] ELSE 0) + (IF x \in T THEN h[x] ELSE 0)
<1> DEFINE U == S \ {x}
           c == SumFunctionOnSet(f, U)
<1>1. IsFiniteSet(U) /\ Numbers(f, U) /\ IsFiniteSet(S) /\ Numbers(f, S) /\ IsFiniteSet(T) /\ Numbers(h, T)
  BY FS_Subset DEF Numbers, Moves
<1>2. T \ {x} = U /\ \A y \in U : h[y] = f[y]
  BY DEF Moves
<1>3. (x \in S \/ S = U) /\ (x \in T \/ T = U)
  BY <1>2
<1>4. x \in S => f[x] \in Int /\ SumFunctionOnSet(f, S) = f[x] + c
  BY <1>1, SumRemove DEF Numbers
<1>5. x \in T => h[x] \in Int /\ SumFunctionOnSet(h, T) = h[x] + SumFunctionOnSet(h, T \ {x})
  BY <1>1, SumRemove DEF Numbers
<1> HIDE DEF U
<1>6. SumFunctionOnSet(h, U) = c /\ c \in Int
  BY <1>1, <1>2, SumSame, SumRemove
<1>7. x \in T => SumFunctionOnSet(h, T) = h[x] + c
  BY <1>2, <1>5, <1>6
<1>8. CASE x \in S /\ x \in T
  BY <1>4, <1>5, <1>6, <1>7, <1>8
<1>9. CASE x \in S /\ x \notin T
  <2>1. SumFunctionOnSet(h, T) = c
    BY <1>3, <1>6, <1>9
  <2> QED BY <1>4, <1>6, <1>9, <2>1
<1>10. CASE x \notin S /\ x \in T
  <2>1. SumFunctionOnSet(f, S) = c
    BY <1>3, <1>10
  <2> QED BY <1>5, <1>6, <1>7, <1>10, <2>1
<1>11. CASE x \notin S /\ x \notin T
  <2>1. SumFunctionOnSet(f, S) = c /\ SumFunctionOnSet(h, T) = c
    BY <1>3, <1>6, <1>11
  <2> QED BY <1>6, <1>11, <2>1
<1> QED BY <1>8, <1>9, <1>10, <1>11

\* Sums compare like their members: f stays below g, and on B below g with c added.
Below(f, g, c, B, S) ==
    /\ Numbers(f, S) /\ Numbers(g, S) /\ Numbers(c, B) /\ B \subseteq S
    /\ \A x \in S \ B : f[x] <= g[x]
    /\ \A x \in B : f[x] <= g[x] + c[x]

\* f, member by member at most g, or g and c on B, has a sum of at most those of g and of c.
LEMMA SumBelow ==
    ASSUME NEW S, IsFiniteSet(S), NEW f, NEW g, NEW c, NEW B, Below(f, g, c, B, S)
    PROVE  SumFunctionOnSet(f, S) <= SumFunctionOnSet(g, S) + SumFunctionOnSet(c, B)
<1> DEFINE F(T) == SumFunctionOnSet(f, T)
           G(T) == SumFunctionOnSet(g, T)
           C(T) == SumFunctionOnSet(c, B \cap T)
           P == {T \in SUBSET S : F(T) <= G(T) + C(T)}
<1>1. ASSUME NEW T \in SUBSET S, \A x \in T : T \ {x} \in P
      PROVE  T \in P
  <2>1. IsFiniteSet(T) /\ Numbers(f, T) /\ Numbers(g, T)
    BY FS_Subset DEF Below, Numbers
  <2>2. IsFiniteSet(B \cap T) /\ Numbers(c, B \cap T)
    <3>1. B \cap T \in SUBSET S
      OBVIOUS
    <3> QED BY <3>1, FS_Subset DEF Below, Numbers
  <2>3. CASE T = {}
    <3>1. F({}) = 0 /\ G({}) = 0
      BY <2>1, <2>3, SumRemove
    <3>2. C(T) = 0
      <4>1. B \cap T = {}
        BY <2>3
      <4> QED BY <4>1, <2>2, SumRemove
    <3> QED BY <2>3, <3>1, <3>2
  <2>4. CASE T # {}
    <3>1. PICK x \in T : TRUE
      BY <2>4
    <3>2. f[x] \in Int /\ g[x] \in Int
      BY <2>1 DEF Numbers
    <3>3. F(T \ {x}) \in Int /\ F(T) = f[x] + F(T \ {x})
      BY <2>1, <3>1, SumRemove
    <3>4. G(T \ {x}) \in Int /\ G(T) = g[x] + G(T \ {x})
      BY <2>1, <3>1, SumRemove
    <3>5. F(T \ {x}) <= G(T \ {x}) + C(T \ {x})
      BY <1>1, <3>1
    <3>6. CASE x \in B
      <4>1. (B \cap T) \ {x} = B \cap (T \ {x}) /\ x \in B \cap T
        BY <3>1, <3>6
      <4>2. C(T \ {x}) \in Int /\ C(T) = c[x] + C(T \ {x}) /\ c[x] \in Int
        <5>1. \A y \in B \cap T : /\ SumFunctionOnSet(c, (B \cap T) \ {y}) \in Int
                                 /\ SumFunctionOnSet(c, B \cap T) = c[y] + SumFunctionOnSet(c, (B \cap T) \ {y})
          BY <2>2, SumRemove
        <5> QED BY <2>2, <4>1, <5>1 DEF Numbers
      <4>3. f[x] <= g[x] + c[x]
        BY <3>6 DEF Below
      <4> HIDE DEF F, G, C
      <4>4. F(T) <= G(T) + C(T)
        BY <3>2, <3>3, <3>4, <3>5, <4>2, <4>3
      <4> QED BY <4>4
    <3>7. CASE x \notin B
      <4>1. B \cap T = B \cap (T \ {x})
        BY <3>7
      <4>2. C(T) \in Int /\ C(T \ {x}) = C(T)
        BY <2>2, <4>1, SumRemove
      <4>3. f[x] <= g[x]
        BY <3>7 DEF Below
      <4> HIDE DEF F, G, C
      <4>4. F(T) <= G(T) + C(T)
        BY <3>2, <3>3, <3>4, <3>5, <4>2, <4>3
      <4> QED BY <4>4
    <3> QED BY <3>6, <3>7
  <2> QED BY <2>3, <2>4
<1>2. SUBSET S \subseteq P
  <2> HIDE DEF P
  <2>1. Inductive(P, S)
    BY <1>1 DEF Inductive
  <2> QED BY <2>1, FiniteInduction
<1>3. B \cap S = B
  BY DEF Below
<1> QED BY <1>2, <1>3

\* A sum over one member.
LEMMA SumOne ==
    ASSUME NEW f, NEW x, f[x] \in Int
    PROVE  SumFunctionOnSet(f, {x}) = f[x]
<1>1. IsFiniteSet({x}) /\ Numbers(f, {x})
  BY FS_Singleton DEF Numbers
<1>2. SumFunctionOnSet(f, {x}) = f[x] + SumFunctionOnSet(f, {x} \ {x})
  BY <1>1, SumRemove
<1>3. {x} \ {x} = {}
  OBVIOUS
<1>4. SumFunctionOnSet(f, {}) = 0
  BY <1>1, SumRemove
<1> QED BY <1>2, <1>3, <1>4

\* A sum of nothing.
LEMMA SumZero ==
    ASSUME NEW S, IsFiniteSet(S), NEW f, \A x \in S : f[x] = 0
    PROVE  SumFunctionOnSet(f, S) = 0
<1> DEFINE P == {T \in SUBSET S : SumFunctionOnSet(f, T) = 0}
<1>1. ASSUME NEW T \in SUBSET S, \A x \in T : T \ {x} \in P
      PROVE  T \in P
  <2>1. IsFiniteSet(T) /\ Numbers(f, T)
    BY FS_Subset DEF Numbers
  <2>2. CASE T = {}
    BY <2>1, <2>2, SumRemove
  <2>3. CASE T # {}
    <3>1. PICK x \in T : TRUE
      BY <2>3
    <3>2. SumFunctionOnSet(f, T) = f[x] + SumFunctionOnSet(f, T \ {x})
      BY <2>1, <3>1, SumRemove
    <3>3. SumFunctionOnSet(f, T \ {x}) = 0 /\ f[x] = 0
      BY <1>1, <3>1
    <3> QED BY <3>2, <3>3
  <2> QED BY <2>2, <2>3
<1>2. Inductive(P, S)
  BY <1>1 DEF Inductive
<1> HIDE DEF P
<1>3. S \in P
  BY <1>2, FiniteInduction
<1> QED BY <1>3 DEF P

\* A sum of ones counts.
LEMMA SumOnes ==
    ASSUME NEW S, IsFiniteSet(S), NEW f, \A x \in S : f[x] = 1
    PROVE  SumFunctionOnSet(f, S) = Cardinality(S)
<1> DEFINE P == {T \in SUBSET S : SumFunctionOnSet(f, T) = Cardinality(T)}
<1>1. ASSUME NEW T \in SUBSET S, \A x \in T : T \ {x} \in P
      PROVE  T \in P
  <2>1. IsFiniteSet(T) /\ Numbers(f, T)
    BY FS_Subset DEF Numbers
  <2>2. CASE T = {}
    BY <2>1, <2>2, SumRemove, FS_EmptySet
  <2>3. CASE T # {}
    <3>1. PICK x \in T : TRUE
      BY <2>3
    <3>2. SumFunctionOnSet(f, T) = f[x] + SumFunctionOnSet(f, T \ {x})
      BY <2>1, <3>1, SumRemove
    <3>3. SumFunctionOnSet(f, T \ {x}) = Cardinality(T \ {x}) /\ f[x] = 1
      BY <1>1, <3>1
    <3>4. Cardinality(T \ {x}) = Cardinality(T) - 1 /\ Cardinality(T) \in Nat
      BY <2>1, <3>1, FS_RemoveElement, FS_CardinalityType
    <3> QED BY <3>2, <3>3, <3>4
  <2> QED BY <2>2, <2>3
<1>2. Inductive(P, S)
  BY <1>1 DEF Inductive
<1> HIDE DEF P
<1>3. S \in P
  BY <1>2, FiniteInduction
<1> QED BY <1>3 DEF P

\* The library's minimum of a set of numbers is one of them, and none is smaller.
LEMMA MinLeast ==
    ASSUME NEW S, S \subseteq Nat, S # {}
    PROVE  Min(S) \in S /\ \A y \in S : Min(S) <= y
<1> DEFINE R == OpToRel(<, Nat)
           N == Nat
<1>1. IsWellFoundedOn(R, N) /\ S \subseteq N
  BY NatLessThanWellFounded
<1>2. \A x, y \in Nat : <<y, x>> \in R <=> y < x
  BY DEF OpToRel
<1> HIDE DEF R, N
<1>3. PICK m \in S : \A y \in S : ~(<<y, m>> \in R)
  BY <1>1, WFMin
<1>4. ASSUME NEW y \in S PROVE m <= y
  <2>1. ~(<<y, m>> \in R) /\ y \in Nat /\ m \in Nat
    BY <1>3
  <2>2. ~(y < m)
    BY <1>2, <2>1, Zenon
  <2> QED
    BY <2>1, <2>2
<1> QED
  BY <1>3, <1>4 DEF Min
=============================================================================
