----------------------------- MODULE SumTheorems -----------------------------
(***************************************************************************)
(* Sums over finite sets: what SumFunction and SumFunctionOnSet of the     *)
(* community modules compute, for every finite set, and what credits and   *)
(* debits do to the sum of all balances.                                   *)
(*                                                                         *)
(* Both are folds over the subsets of a set.  Induction on a finite set is *)
(* had from a library theorem without an operator parameter: the strict    *)
(* subset order is well-founded on the finite subsets, so any set of       *)
(* counterexamples has a minimal member.                                   *)
(***************************************************************************)
EXTENDS Ledger, Functions, FiniteSetTheorems, TLAPS

(* A set of subsets of a finite set has a member none of whose strict      *)
(* subsets is a member.                                                    *)
LEMMA MinimalSubset ==
  ASSUME NEW S, IsFiniteSet(S), NEW B \in SUBSET (SUBSET S), B # {}
  PROVE  \E T \in B : \A U \in SUBSET T : U # T => U \notin B
<1>1. FiniteSubsetsOf(S) = SUBSET S
  BY FS_FiniteSubsetsOfFinite
<1>2. IsWellFoundedOn(StrictSubsetOrdering(S), SUBSET S)
  BY <1>1, FS_StrictSubsetOrderingWellFounded
<1>3. PICK T \in B : \A U \in B : <<U, T>> \notin StrictSubsetOrdering(S)
  BY <1>2, WFMin
<1>4. ASSUME NEW U \in SUBSET T, U # T, U \in B  PROVE FALSE
  <2>1. <<U, T>> \in StrictSubsetOrdering(S)
    BY <1>4 DEF StrictSubsetOrdering
  <2>2. QED
    BY <1>3, <1>4, <2>1
<1>5. QED
  BY <1>4

-----------------------------------------------------------------------------
(* The recursive function behind the fold: the sum of f over each subset   *)
(* of S.                                                                   *)
First(T) == CHOOSE x \in T : TRUE

SumOf(g, f, T) == IF T = {} THEN 0 ELSE f[First(T)] + g[T \ {First(T)}]

IsSums(g, f, S) == g = [T \in SUBSET S |-> SumOf(g, f, T)]

Sums(f, S) == CHOOSE g : IsSums(g, f, S)

LEMMA FirstIn ==
  ASSUME NEW T, T # {}
  PROVE  First(T) \in T
BY DEF First

LEMMA SumIsLast ==
  ASSUME NEW f, NEW S
  PROVE  SumFunctionOnSet(f, S) = Sums(f, S)[S]
BY DEF SumFunctionOnSet, FoldFunctionOnSet, MapThenFoldSet, Sums, IsSums,
       SumOf, First

(* Two such functions agree wherever both are defined.                     *)
LEMMA SumsAgree ==
  ASSUME NEW f, NEW S, IsFiniteSet(S), NEW A \in SUBSET S, NEW C \in SUBSET S,
         NEW g, NEW h, IsSums(g, f, A), IsSums(h, f, C),
         NEW T \in SUBSET A, T \in SUBSET C
  PROVE  g[T] = h[T]
<1> DEFINE B == {U \in SUBSET S : U \subseteq A /\ U \subseteq C /\ g[U] # h[U]}
<1>1. SUFFICES B = {}
  OBVIOUS
<1>2. SUFFICES ASSUME B # {} PROVE FALSE
  OBVIOUS
<1>3. PICK U \in B : \A V \in SUBSET U : V # U => V \notin B
  <2>1. B \in SUBSET (SUBSET S)
    OBVIOUS
  <2> HIDE DEF B
  <2>2. QED
    BY <1>2, <2>1, MinimalSubset
<1>4. /\ g[U] = SumOf(g, f, U)
      /\ h[U] = SumOf(h, f, U)
  BY DEF IsSums
<1>5. CASE U = {}
  BY <1>3, <1>4, <1>5 DEF SumOf
<1>6. CASE U # {}
  <2>1. First(U) \in U
    BY <1>6, FirstIn
  <2>2. U \ {First(U)} \notin B
    BY <1>3, <2>1
  <2>3. g[U \ {First(U)}] = h[U \ {First(U)}]
    BY <2>2
  <2>4. QED
    BY <1>3, <1>4, <1>6, <2>3 DEF SumOf
<1>7. QED
  BY <1>5, <1>6

(* There is such a function for every finite set.                          *)
LEMMA SumsExist ==
  ASSUME NEW f, NEW S, IsFiniteSet(S)
  PROVE  IsSums(Sums(f, S), f, S)
<1> DEFINE B == {T \in SUBSET S : ~IsSums(Sums(f, T), f, T)}
<1>1. SUFFICES B = {}
  OBVIOUS
<1>2. SUFFICES ASSUME B # {} PROVE FALSE
  OBVIOUS
<1>3. PICK T \in B : \A U \in SUBSET T : U # T => U \notin B
  <2>1. B \in SUBSET (SUBSET S)
    OBVIOUS
  <2> HIDE DEF B
  <2>2. QED
    BY <1>2, <2>1, MinimalSubset
<1>4. ASSUME NEW U \in SUBSET T, U # T
      PROVE  /\ IsSums(Sums(f, U), f, U)
             /\ Sums(f, U)[U] = SumOf(Sums(f, U), f, U)
  <2>1. IsSums(Sums(f, U), f, U)
    BY <1>3, <1>4
  <2>2. QED
    BY <2>1 DEF IsSums
<1> DEFINE Last(U) == Sums(f, U)[U]
           x == First(T)
           G == [U \in SUBSET T |->
                   IF U # T THEN Last(U)
                   ELSE IF T = {} THEN 0 ELSE f[x] + Last(T \ {x})]
<1>5. ASSUME NEW U \in SUBSET T
      PROVE  G[U] = SumOf(G, f, U)
  <2>1. CASE U = {}
    BY <2>1, <1>4 DEF SumOf
  <2>2. CASE U # {}
    <3> DEFINE V == U \ {First(U)}
    <3>1. /\ First(U) \in U
          /\ V \in SUBSET T /\ V # T /\ V \in SUBSET U
      BY <2>2, FirstIn
    <3>2. G[V] = Last(V)
      BY <3>1
    <3>3. CASE U = T
      BY <2>2, <3>2, <3>3 DEF SumOf
    <3>4. CASE U # T
      <4>1. G[U] = f[First(U)] + Sums(f, U)[V]
        BY <1>4, <2>2, <3>4 DEF SumOf
      <4>2. Sums(f, U)[V] = Sums(f, V)[V]
        <5>1. IsSums(Sums(f, U), f, U) /\ IsSums(Sums(f, V), f, V)
          BY <1>4, <3>1, <3>4
        <5>2. U \in SUBSET S /\ V \in SUBSET S /\ V \in SUBSET V
          BY <3>1
        <5>3. QED
          BY <3>1, <5>1, <5>2, SumsAgree
      <4>3. QED
        BY <2>2, <3>2, <4>1, <4>2 DEF SumOf
    <3>5. QED
      BY <3>3, <3>4
  <2>3. QED
    BY <2>1, <2>2
<1>6. IsSums(G, f, T)
  <2>1. G = [U \in SUBSET T |-> G[U]]
    OBVIOUS
  <2> HIDE DEF G
  <2>2. [U \in SUBSET T |-> G[U]] = [U \in SUBSET T |-> SumOf(G, f, U)]
    BY <1>5
  <2>3. QED
    BY <2>1, <2>2 DEF IsSums
<1>7. IsSums(Sums(f, T), f, T)
  <2> HIDE DEF G
  <2>1. \E g : IsSums(g, f, T)
    BY <1>6
  <2>2. QED
    BY <2>1 DEF Sums
<1>8. QED
  BY <1>3, <1>7

(* The sum over a set is one of its terms plus the sum over the rest.      *)
LEMMA SumUnfolds ==
  ASSUME NEW f, NEW S, IsFiniteSet(S)
  PROVE  /\ S = {} => SumFunctionOnSet(f, S) = 0
         /\ S # {} => SumFunctionOnSet(f, S)
                        = f[First(S)] + SumFunctionOnSet(f, S \ {First(S)})
<1> DEFINE R == S \ {First(S)}
<1>1. R \in SUBSET S /\ R \in SUBSET R /\ S \in SUBSET S /\ IsFiniteSet(R)
  BY FS_RemoveElement
<1>2. IsSums(Sums(f, S), f, S) /\ IsSums(Sums(f, R), f, R)
  BY <1>1, SumsExist
<1>3. Sums(f, S)[R] = Sums(f, R)[R]
  BY <1>1, <1>2, SumsAgree
<1>4. Sums(f, S)[S] = SumOf(Sums(f, S), f, S)
  BY <1>2 DEF IsSums
<1>5. QED
  BY <1>3, <1>4, SumIsLast DEF SumOf

-----------------------------------------------------------------------------
(* A sum of integers is an integer, and may start with any of its terms.   *)
LEMMA SumType ==
  ASSUME NEW S, IsFiniteSet(S), NEW f, \A x \in S : f[x] \in Int
  PROVE  SumFunctionOnSet(f, S) \in Int
<1> DEFINE B == {T \in SUBSET S : SumFunctionOnSet(f, T) \notin Int}
<1>1. SUFFICES ASSUME B # {} PROVE FALSE
  OBVIOUS
<1>2. PICK T \in B : \A U \in SUBSET T : U # T => U \notin B
  <2>1. B \in SUBSET (SUBSET S)
    OBVIOUS
  <2> HIDE DEF B
  <2>2. QED
    BY <1>1, <2>1, MinimalSubset
<1>3. IsFiniteSet(T)
  BY FS_Subset
<1>4. CASE T = {}
  BY <1>3, <1>4, SumUnfolds
<1>5. CASE T # {}
  <2>1. First(T) \in T
    BY <1>5, FirstIn
  <2>2. SumFunctionOnSet(f, T \ {First(T)}) \in Int /\ f[First(T)] \in Int
    BY <1>2, <2>1
  <2>3. SumFunctionOnSet(f, T) \in Int
    BY <1>3, <1>5, <2>2, SumUnfolds
  <2>4. QED
    BY <2>3
<1>6. QED
  BY <1>4, <1>5

LEMMA SumTerm ==
  ASSUME NEW S, IsFiniteSet(S), NEW f, \A x \in S : f[x] \in Int,
         NEW x \in S
  PROVE  /\ SumFunctionOnSet(f, S) \in Int
         /\ SumFunctionOnSet(f, S \ {x}) \in Int
         /\ SumFunctionOnSet(f, S) = f[x] + SumFunctionOnSet(f, S \ {x})
<1> DEFINE Sum(T) == SumFunctionOnSet(f, T)
           B == {T \in SUBSET S : \E y \in T : Sum(T) # f[y] + Sum(T \ {y})}
<1>1. \A T \in SUBSET S : IsFiniteSet(T) /\ Sum(T) \in Int
  BY FS_Subset, SumType
<1>2. SUFFICES ASSUME B # {} PROVE FALSE
  BY <1>1
<1>3. PICK T \in B : \A U \in SUBSET T : U # T => U \notin B
  <2>1. B \in SUBSET (SUBSET S)
    OBVIOUS
  <2> HIDE DEF B
  <2>2. QED
    BY <1>2, <2>1, MinimalSubset
<1>4. PICK y \in T : Sum(T) # f[y] + Sum(T \ {y})
  OBVIOUS
<1> DEFINE z == First(T)
<1>5. z \in T /\ Sum(T) = f[z] + Sum(T \ {z})
  BY <1>1, <1>4, FirstIn, SumUnfolds
<1>6. y # z
  BY <1>4, <1>5
<1> DEFINE R == (T \ {y}) \ {z}
<1>7. Sum(T \ {z}) = f[y] + Sum(R)
  <2>1. T \ {z} \notin B
    BY <1>3, <1>5
  <2>2. y \in T \ {z} /\ (T \ {z}) \ {y} = R
    BY <1>4, <1>6
  <2>3. QED
    BY <2>1, <2>2
<1>8. Sum(T \ {y}) = f[z] + Sum(R)
  <2>1. T \ {y} \notin B
    BY <1>3, <1>4
  <2>2. z \in T \ {y}
    BY <1>5, <1>6
  <2>3. QED
    BY <2>1, <2>2
<1>9. Sum(R) \in Int /\ f[y] \in Int /\ f[z] \in Int
  BY <1>1, <1>4, <1>5
<1>10. QED
  <2> HIDE DEF Sum, z, R
  <2>1. QED
    BY <1>4, <1>5, <1>7, <1>8, <1>9

-----------------------------------------------------------------------------
(* Sums of two functions that are related term by term.                    *)
LEMMA SumsRelated ==
  ASSUME NEW S, IsFiniteSet(S), NEW f, NEW g, NEW h,
         \A x \in S : f[x] \in Int /\ g[x] \in Int /\ h[x] \in Int
  PROVE  /\ (\A x \in S : h[x] = f[x] + g[x]) =>
              SumFunctionOnSet(h, S)
                = SumFunctionOnSet(f, S) + SumFunctionOnSet(g, S)
         /\ (\A x \in S : f[x] <= g[x]) =>
              SumFunctionOnSet(f, S) <= SumFunctionOnSet(g, S)
         /\ (\A x \in S : f[x] = g[x]) =>
              SumFunctionOnSet(f, S) = SumFunctionOnSet(g, S)
<1> DEFINE F(T) == SumFunctionOnSet(f, T)
           G(T) == SumFunctionOnSet(g, T)
           H(T) == SumFunctionOnSet(h, T)
           Holds(T) ==
             /\ (\A x \in S : h[x] = f[x] + g[x]) => H(T) = F(T) + G(T)
             /\ (\A x \in S : f[x] <= g[x]) => F(T) <= G(T)
             /\ (\A x \in S : f[x] = g[x]) => F(T) = G(T)
           B == {T \in SUBSET S : ~Holds(T)}
<1>1. SUFFICES B = {}
  OBVIOUS
<1>2. SUFFICES ASSUME B # {} PROVE FALSE
  OBVIOUS
<1>3. PICK T \in B : \A U \in SUBSET T : U # T => U \notin B
  <2>1. B \in SUBSET (SUBSET S)
    OBVIOUS
  <2> HIDE DEF B
  <2>2. QED
    BY <1>2, <2>1, MinimalSubset
<1>4. IsFiniteSet(T)
  BY FS_Subset
<1>5. CASE T = {}
  <2>1. F(T) = 0 /\ G(T) = 0 /\ H(T) = 0
    BY <1>4, <1>5, SumUnfolds
  <2>2. Holds(T)
    BY <2>1
  <2>3. QED
    BY <2>2
<1>6. CASE T # {}
  <2> DEFINE x == First(T)
             R == T \ {x}
  <2>1. x \in T
    BY <1>6, FirstIn
  <2>2. Holds(R)
    BY <1>3, <2>1
  <2>3. /\ F(R) \in Int /\ F(T) = f[x] + F(R)
        /\ G(R) \in Int /\ G(T) = g[x] + G(R)
        /\ H(R) \in Int /\ H(T) = h[x] + H(R)
    <3>1. \A y \in T : f[y] \in Int /\ g[y] \in Int /\ h[y] \in Int
      OBVIOUS
    <3> HIDE DEF x
    <3>2. QED
      BY <1>4, <2>1, <3>1, SumTerm
  <2>4. f[x] \in Int /\ g[x] \in Int /\ h[x] \in Int /\ x \in S
    BY <2>1
  <2>5. Holds(T)
    <3> HIDE DEF F, G, H, x
    <3>1. QED
      BY <2>2, <2>3, <2>4
  <2>6. QED
    BY <2>5
<1>7. QED
  BY <1>5, <1>6

LEMMA SumEqual ==
  ASSUME NEW S, IsFiniteSet(S), NEW f, NEW g,
         \A x \in S : f[x] \in Int, \A x \in S : f[x] = g[x]
  PROVE  SumFunctionOnSet(f, S) = SumFunctionOnSet(g, S)
BY SumsRelated

LEMMA SumPlus ==
  ASSUME NEW S, IsFiniteSet(S), NEW f, NEW g, NEW h,
         \A x \in S : f[x] \in Int /\ g[x] \in Int,
         \A x \in S : h[x] = f[x] + g[x]
  PROVE  SumFunctionOnSet(h, S)
           = SumFunctionOnSet(f, S) + SumFunctionOnSet(g, S)
<1>1. \A x \in S : h[x] \in Int
  OBVIOUS
<1>2. QED
  BY <1>1, SumsRelated

LEMMA SumAtMost ==
  ASSUME NEW S, IsFiniteSet(S), NEW f, NEW g,
         \A x \in S : f[x] \in Int /\ g[x] \in Int,
         \A x \in S : f[x] <= g[x]
  PROVE  SumFunctionOnSet(f, S) <= SumFunctionOnSet(g, S)
BY SumsRelated

(* A function that is changed at one point.                                *)
LEMMA SumChange ==
  ASSUME NEW S, IsFiniteSet(S), NEW f, NEW g,
         \A x \in S : f[x] \in Int /\ g[x] \in Int,
         NEW y \in S, \A x \in S \ {y} : g[x] = f[x]
  PROVE  SumFunctionOnSet(g, S) = SumFunctionOnSet(f, S) + g[y] - f[y]
<1> DEFINE R == S \ {y}
<1>1. IsFiniteSet(R)
  BY FS_RemoveElement
<1>2. SumFunctionOnSet(f, R) = SumFunctionOnSet(g, R)
  <2>1. \A x \in R : f[x] \in Int /\ f[x] = g[x]
    OBVIOUS
  <2> HIDE DEF R
  <2>2. QED
    BY <1>1, <2>1, SumEqual
<1>3. /\ SumFunctionOnSet(f, R) \in Int
      /\ SumFunctionOnSet(f, S) = f[y] + SumFunctionOnSet(f, R)
      /\ SumFunctionOnSet(g, S) = g[y] + SumFunctionOnSet(g, R)
  BY SumTerm
<1>4. f[y] \in Int /\ g[y] \in Int
  OBVIOUS
<1>5. QED
  <2> HIDE DEF R
  <2>1. QED
    BY <1>2, <1>3, <1>4

(* The same amount a for the members of X and nothing for the others.      *)
LEMMA SumShares ==
  ASSUME NEW S, IsFiniteSet(S), NEW X \in SUBSET S, NEW a \in Int, NEW f,
         \A x \in S : f[x] = IF x \in X THEN a ELSE 0
  PROVE  SumFunctionOnSet(f, S) = a * Cardinality(X)
<1> DEFINE Count(T) == Cardinality(T \cap X)
           B == {T \in SUBSET S : SumFunctionOnSet(f, T) # a * Count(T)}
<1>1. SUFFICES B = {}
  <2>1. SumFunctionOnSet(f, S) = a * Count(S)
    BY <1>1
  <2>2. S \cap X = X
    OBVIOUS
  <2>3. QED
    BY <2>1, <2>2
<1>2. SUFFICES ASSUME B # {} PROVE FALSE
  OBVIOUS
<1>3. PICK T \in B : \A U \in SUBSET T : U # T => U \notin B
  <2>1. B \in SUBSET (SUBSET S)
    OBVIOUS
  <2> HIDE DEF B
  <2>2. QED
    BY <1>2, <2>1, MinimalSubset
<1>4. /\ IsFiniteSet(T) /\ IsFiniteSet(T \cap X)
      /\ \A x \in S : f[x] \in Int
  BY FS_Subset
<1>5. CASE T = {}
  <2>1. T \cap X = {}
    BY <1>5
  <2>2. SumFunctionOnSet(f, T) = 0 /\ Count(T) = 0
    BY <1>4, <1>5, <2>1, SumUnfolds, FS_EmptySet
  <2>3. QED
    BY <2>2
<1>6. CASE T # {}
  <2> DEFINE x == First(T)
             R == T \ {x}
             s == SumFunctionOnSet(f, R)
  <2>1. x \in T
    BY <1>6, FirstIn
  <2>2. s = a * Count(R)
    BY <1>3, <2>1
  <2>3. SumFunctionOnSet(f, T) = f[x] + s
    <3>1. \A y \in T : f[y] \in Int
      BY <1>4
    <3> HIDE DEF x
    <3>2. QED
      BY <1>4, <2>1, <3>1, SumTerm
  <2>4. /\ Count(R) = IF x \in X THEN Count(T) - 1 ELSE Count(T)
        /\ Count(T) \in Nat
    <3>1. R \cap X = (T \cap X) \ {x}
      OBVIOUS
    <3>2. x \in T \cap X <=> x \in X
      BY <2>1
    <3> HIDE DEF x, R
    <3>3. /\ Cardinality(T \cap X) \in Nat
          /\ Cardinality((T \cap X) \ {x})
               = IF x \in T \cap X THEN Cardinality(T \cap X) - 1
                 ELSE Cardinality(T \cap X)
      BY <1>4, FS_RemoveElement, FS_CardinalityType
    <3>4. QED
      BY <3>1, <3>2, <3>3
  <2>5. f[x] = IF x \in X THEN a ELSE 0
    BY <2>1
  <2>6. a * (Count(T) - 1) = a * Count(T) - a
    <3> HIDE DEF Count
    <3>1. QED
      BY <2>4
  <2>7. a * Count(T) \in Int
    <3> HIDE DEF Count
    <3>1. QED
      BY <2>4
  <2>8. SumFunctionOnSet(f, T) = a * Count(T)
    <3>1. CASE x \in X
      <4>1. s = a * Count(T) - a /\ f[x] = a
        BY <2>2, <2>4, <2>5, <2>6, <3>1
      <4> HIDE DEF s, x, Count
      <4>2. QED
        BY <2>3, <2>7, <4>1
    <3>2. CASE x \notin X
      <4>1. s = a * Count(T) /\ f[x] = 0
        BY <2>2, <2>4, <2>5, <3>2
      <4> HIDE DEF s, x, Count
      <4>2. QED
        BY <2>3, <2>7, <4>1
    <3>3. QED
      BY <3>1, <3>2
  <2>9. QED
    BY <2>8
<1>7. QED
  BY <1>5, <1>6

(* At most M for each of the members of X and nothing for the others.      *)
LEMMA SumOfFew ==
  ASSUME NEW S, IsFiniteSet(S), NEW X \in SUBSET S, NEW M \in Int, NEW f,
         \A x \in S : f[x] \in Int,
         \A x \in S : IF x \in X THEN f[x] <= M ELSE f[x] = 0
  PROVE  SumFunctionOnSet(f, S) <= M * Cardinality(X)
<1> DEFINE g == [x \in S |-> IF x \in X THEN M ELSE 0]
<1>1. \A x \in S : f[x] <= g[x] /\ g[x] \in Int
  OBVIOUS
<1>2. \A x \in S : g[x] = IF x \in X THEN M ELSE 0
  OBVIOUS
<1> HIDE DEF g
<1>3. SumFunctionOnSet(f, S) <= SumFunctionOnSet(g, S)
  BY <1>1, SumAtMost
<1>4. SumFunctionOnSet(g, S) = M * Cardinality(X)
  BY <1>2, SumShares
<1>5. QED
  BY <1>3, <1>4

LEMMA SumNotNegative ==
  ASSUME NEW S, IsFiniteSet(S), NEW f,
         \A x \in S : f[x] \in Int /\ f[x] >= 0
  PROVE  SumFunctionOnSet(f, S) >= 0
<1> DEFINE g == [x \in S |-> 0]
<1>1. \A x \in S : g[x] = IF x \in {} THEN 0 ELSE 0
  OBVIOUS
<1>2. \A x \in S : g[x] \in Int /\ g[x] <= f[x]
  OBVIOUS
<1> HIDE DEF g
<1>3. SumFunctionOnSet(g, S) = 0 * Cardinality({})
  BY <1>1, SumShares
<1>4. SumFunctionOnSet(g, S) = 0
  BY <1>3, FS_EmptySet
<1>5. SumFunctionOnSet(g, S) <= SumFunctionOnSet(f, S)
  BY <1>2, SumAtMost
<1>6. QED
  BY <1>4, <1>5

(* SumFunction sums over the domain.                                       *)
LEMMA SumOverDomain ==
  ASSUME NEW S, NEW f, DOMAIN f = S
  PROVE  SumFunction(f) = SumFunctionOnSet(f, S)
BY DEF SumFunction

LEMMA SumIsInt ==
  ASSUME NEW S, IsFiniteSet(S), NEW f \in [S -> Int]
  PROVE  SumFunction(f) \in Int
BY SumOverDomain, SumType

LEMMA SumOfZeros ==
  ASSUME NEW S, IsFiniteSet(S)
  PROVE  SumFunction([x \in S |-> 0]) = 0
<1> DEFINE g == [x \in S |-> 0]
<1>1. DOMAIN g = S /\ \A x \in S : g[x] = IF x \in {} THEN 0 ELSE 0
  OBVIOUS
<1> HIDE DEF g
<1>2. SumFunctionOnSet(g, S) = 0 * Cardinality({})
  BY <1>1, SumShares
<1>3. SumFunctionOnSet(g, S) = 0
  BY <1>2, FS_EmptySet
<1>4. SumFunction(g) = 0
  BY <1>1, <1>3, SumOverDomain
<1>5. QED
  BY <1>4 DEF g

(* A sum moves by what its function is changed by at one point.            *)
LEMMA SumMoves ==
  ASSUME NEW S, IsFiniteSet(S), NEW f \in [S -> Int], NEW y \in S, NEW v \in Int
  PROVE  /\ SumFunction(f) \in Int
         /\ SumFunction([f EXCEPT ![y] = v]) = SumFunction(f) + v - f[y]
<1> DEFINE g == [f EXCEPT ![y] = v]
<1>1. /\ DOMAIN f = S /\ DOMAIN g = S /\ g[y] = v
      /\ \A x \in S : f[x] \in Int /\ g[x] \in Int
      /\ \A x \in S \ {y} : g[x] = f[x]
  OBVIOUS
<1> HIDE DEF g
<1>2. SumFunctionOnSet(g, S) = SumFunctionOnSet(f, S) + g[y] - f[y]
  BY <1>1, SumChange
<1>3. SumFunctionOnSet(f, S) \in Int
  BY <1>1, SumType
<1>4. SumFunction(f) = SumFunctionOnSet(f, S)
      /\ SumFunction(g) = SumFunctionOnSet(g, S)
  BY <1>1, SumOverDomain
<1>5. QED
  BY <1>1, <1>2, <1>3, <1>4 DEF g

(* What one point loses and another gains is no change to the sum.         *)
LEMMA SumKept ==
  ASSUME NEW S, IsFiniteSet(S), NEW f \in [S -> Int], NEW g \in [S -> Int],
         NEW from \in S, NEW to \in S, from # to, NEW a \in Int,
         g[from] = f[from] - a, g[to] = f[to] + a,
         \A x \in S \ {from, to} : g[x] = f[x]
  PROVE  SumFunction(g) = SumFunction(f)
<1> DEFINE m == [f EXCEPT ![from] = f[from] - a]
<1>1. /\ m \in [S -> Int] /\ f[from] \in Int /\ f[to] \in Int
      /\ f[from] - a \in Int /\ f[to] + a \in Int
  OBVIOUS
<1>2. /\ SumFunction(f) \in Int
      /\ SumFunction(m) = SumFunction(f) + (f[from] - a) - f[from]
  BY <1>1, SumMoves
<1>3. m[to] = f[to] /\ g = [m EXCEPT ![to] = f[to] + a]
  OBVIOUS
<1> HIDE DEF m
<1> DEFINE v == f[to] + a
<1>a. v \in Int
  BY <1>1
<1> HIDE DEF v
<1>4. SumFunction([m EXCEPT ![to] = v]) = SumFunction(m) + v - m[to]
  BY <1>1, <1>a, SumMoves
<1>5. QED
  BY <1>1, <1>2, <1>3, <1>4 DEF v

(* A finite set of integers that is not empty has a largest member.        *)
LEMMA LargestExists ==
  ASSUME NEW S, IsFiniteSet(S), S # {}, S \subseteq Int
  PROVE  \E m \in S : \A x \in S : m >= x
<1> DEFINE B == {T \in SUBSET S : T # {} /\ ~\E m \in T : \A x \in T : m >= x}
<1>1. SUFFICES ASSUME B # {} PROVE FALSE
  OBVIOUS
<1>2. PICK T \in B : \A U \in SUBSET T : U # T => U \notin B
  <2>1. B \in SUBSET (SUBSET S)
    OBVIOUS
  <2> HIDE DEF B
  <2>2. QED
    BY <1>1, <2>1, MinimalSubset
<1>3. PICK y \in T : TRUE
  OBVIOUS
<1>4. T \ {y} # {}
  OBVIOUS
<1>5. PICK m \in T \ {y} : \A x \in T \ {y} : m >= x
  BY <1>2, <1>4
<1>6. m \in Int /\ y \in Int /\ \A x \in T : x \in Int
  BY <1>3
<1>7. \E k \in T : \A x \in T : k >= x
  <2>1. CASE m >= y
    BY <1>5, <2>1
  <2>2. CASE ~(m >= y)
    BY <1>3, <1>5, <1>6, <2>2
  <2>3. QED
    BY <2>1, <2>2
<1>8. QED
  BY <1>7

-----------------------------------------------------------------------------
(* The sum of all balances moves by what one of them is credited or        *)
(* debited.                                                                *)
LEMMA SumCredit ==
  ASSUME NEW b \in [Users -> Int], NEW u \in Users, NEW a \in Int
  PROVE  /\ Credit(b, u, a) \in [Users -> Int] /\ SumFunction(b) \in Int
         /\ SumFunction(Credit(b, u, a)) = SumFunction(b) + a
<1> DEFINE v == b[u] + a
<1>1. v \in Int /\ b[u] \in Int /\ Credit(b, u, a) = [b EXCEPT ![u] = v]
  BY DEF Credit
<1> HIDE DEF v
<1>2. /\ SumFunction(b) \in Int
      /\ SumFunction([b EXCEPT ![u] = v]) = SumFunction(b) + v - b[u]
  BY <1>1, UsersAssumption, SumMoves
<1>3. v - b[u] = a
  BY <1>1 DEF v
<1>4. QED
  BY <1>1, <1>2, <1>3

LEMMA SumDebit ==
  ASSUME NEW b \in [Users -> Int], NEW u \in Users, NEW a \in Int
  PROVE  /\ Debit(b, u, a) \in [Users -> Int] /\ SumFunction(b) \in Int
         /\ SumFunction(Debit(b, u, a)) = SumFunction(b) - a
<1> DEFINE c == -a
<1>0. b[u] \in Int /\ b[u] - a = b[u] + c
  OBVIOUS
<1>1. c \in Int
  OBVIOUS
<1>2. Debit(b, u, a) = Credit(b, u, c)
  <2>1. Debit(b, u, a) = [b EXCEPT ![u] = b[u] - a]
    BY DEF Debit
  <2>2. Credit(b, u, c) = [b EXCEPT ![u] = b[u] + c]
    BY DEF Credit
  <2> HIDE DEF c
  <2>3. QED
    BY <1>0, <2>1, <2>2
<1> HIDE DEF c
<1>3. /\ Credit(b, u, c) \in [Users -> Int] /\ SumFunction(b) \in Int
      /\ SumFunction(Credit(b, u, c)) = SumFunction(b) + c
  BY <1>1, SumCredit
<1>4. QED
  BY <1>1, <1>2, <1>3 DEF c

(* A payment from one user to another, or to the same one.                 *)
LEMMA SumMove ==
  ASSUME NEW b \in [Users -> Int], NEW from \in Users, NEW to \in Users,
         NEW a \in Int
  PROVE  /\ Move(b, from, to, a) \in [Users -> Int] /\ SumFunction(b) \in Int
         /\ SumFunction(Move(b, from, to, a)) = SumFunction(b)
<1> DEFINE c == Debit(b, from, a)
<1>1. /\ c \in [Users -> Int] /\ SumFunction(b) \in Int
      /\ SumFunction(c) = SumFunction(b) - a
  BY SumDebit
<1>2. Move(b, from, to, a) = Credit(c, to, a)
  BY DEF Move
<1> HIDE DEF c
<1>3. /\ Credit(c, to, a) \in [Users -> Int]
      /\ SumFunction(Credit(c, to, a)) = SumFunction(c) + a
  BY <1>1, SumCredit
<1>4. QED
  BY <1>1, <1>2, <1>3

-----------------------------------------------------------------------------
(* Claims: f[x] is what the request x under way may still take from a      *)
(* balance, M at most.  All the claims but one amount to the slack.        *)
Slack(S, M) == (Cardinality(S) - 1) * M

LEMMA SlackIsNat ==
  ASSUME NEW S, IsFiniteSet(S), S # {}, NEW M \in Nat
  PROVE  /\ Slack(S, M) \in Nat
         /\ \A x \in S : Slack(S, M) = M * Cardinality(S \ {x})
<1>1. Cardinality(S) \in Nat /\ Cardinality(S) # 0
  BY FS_CardinalityType, FS_EmptySet
<1>2. Cardinality(S) - 1 \in Nat
  BY <1>1
<1>3. \A x \in S : Cardinality(S \ {x}) = Cardinality(S) - 1
  BY FS_RemoveElement
<1> DEFINE n == Cardinality(S) - 1
<1>4. n \in Nat /\ Slack(S, M) = n * M /\ \A x \in S : Cardinality(S \ {x}) = n
  BY <1>2, <1>3 DEF Slack
<1> HIDE DEF n
<1>5. n * M \in Nat /\ n * M = M * n
  BY <1>4
<1>6. QED
  BY <1>4, <1>5

LEMMA OtherClaims ==
  ASSUME NEW S, IsFiniteSet(S), NEW M \in Nat, NEW x \in S,
         NEW f \in [S -> Int], \A y \in S : 0 <= f[y] /\ f[y] <= M
  PROVE  /\ SumFunction(f) \in Int /\ SumFunction(f) >= 0
         /\ SumFunction(f) <= f[x] + Slack(S, M)
<1> DEFINE g == [f EXCEPT ![x] = 0]
<1>1. /\ g \in [S -> Int] /\ f[x] \in Int /\ 0 \in Int
      /\ \A y \in S : IF y \in S \ {x} THEN g[y] <= M ELSE g[y] = 0
  OBVIOUS
<1> HIDE DEF g
<1>2. /\ SumFunction(f) \in Int
      /\ SumFunction(g) = SumFunction(f) + 0 - f[x]
  <2>1. \A v \in Int : /\ SumFunction(f) \in Int
                       /\ SumFunction([f EXCEPT ![x] = v]) = SumFunction(f) + v - f[x]
    BY SumMoves
  <2>2. g = [f EXCEPT ![x] = 0]
    BY DEF g
  <2>3. QED
    BY <1>1, <2>1, <2>2
<1>3. SumFunction(g) <= M * Cardinality(S \ {x})
  <2>1. \A y \in S : g[y] \in Int
    BY <1>1
  <2>2. SumFunctionOnSet(g, S) <= M * Cardinality(S \ {x})
    BY <1>1, <2>1, SumOfFew
  <2>3. QED
    BY <1>1, <2>2, SumOverDomain
<1>4. Slack(S, M) = M * Cardinality(S \ {x}) /\ Slack(S, M) \in Nat
  BY SlackIsNat
<1>5. SumFunction(f) >= 0
  BY SumNotNegative, SumOverDomain
<1>6. QED
  BY <1>1, <1>2, <1>3, <1>4, <1>5

(* A balance c covers the claims on it up to the slack, if every claim was *)
(* covered alone when it was made.                                         *)
CoversClaims(c, f, S, M) == c - SumFunction(f) >= -Slack(S, M)

LEMMA NoClaims ==
  ASSUME NEW S, IsFiniteSet(S), S # {}, NEW M \in Nat, NEW c \in Nat,
         NEW f \in [S -> Int], \A y \in S : f[y] = 0
  PROVE  CoversClaims(c, f, S, M)
<1>1. PICK x \in S : TRUE
  OBVIOUS
<1>2. /\ SumFunction(f) \in Int /\ SumFunction(f) <= f[x] + Slack(S, M)
      /\ Slack(S, M) \in Nat
  BY OtherClaims, SlackIsNat
<1>3. QED
  BY <1>2 DEF CoversClaims

LEMMA ClaimsCoverBalance ==
  ASSUME NEW S, IsFiniteSet(S), S # {}, NEW M \in Nat, NEW c \in Int,
         NEW f \in [S -> Int], \A y \in S : 0 <= f[y] /\ f[y] <= M,
         CoversClaims(c, f, S, M)
  PROVE  c >= -Slack(S, M)
<1>1. SumFunction(f) \in Int /\ SumFunction(f) >= 0 /\ Slack(S, M) \in Nat
  BY OtherClaims, SlackIsNat
<1>2. QED
  BY <1>1 DEF CoversClaims

(* A request that changes its claim leaves the claims covered if it takes  *)
(* no more than it gives up, or if the balance covers its new claim alone. *)
LEMMA ClaimsStayCovered ==
  ASSUME NEW S, IsFiniteSet(S), NEW M \in Nat, NEW x \in S,
         NEW f \in [S -> Int], NEW g \in [S -> Int],
         \A y \in S : 0 <= g[y] /\ g[y] <= M,
         \A y \in S \ {x} : g[y] = f[y],
         NEW c \in Int, NEW d \in Int, CoversClaims(c, f, S, M),
         d - c >= g[x] - f[x] \/ d >= g[x]
  PROVE  CoversClaims(d, g, S, M)
<1>1. SumFunction(g) \in Int /\ SumFunction(g) <= g[x] + Slack(S, M)
  BY OtherClaims
<1>2. SumFunction(f) \in Int /\ SumFunction(g) = SumFunction(f) + g[x] - f[x]
  <2>1. g = [f EXCEPT ![x] = g[x]] /\ g[x] \in Int
    OBVIOUS
  <2>2. QED
    BY <2>1, SumMoves
<1>3. Slack(S, M) \in Nat /\ f[x] \in Int /\ g[x] \in Int
  BY SlackIsNat
<1>4. CASE d >= g[x]
  BY <1>1, <1>3, <1>4 DEF CoversClaims
<1>5. CASE d - c >= g[x] - f[x]
  BY <1>2, <1>3, <1>5 DEF CoversClaims
<1>6. QED
  BY <1>4, <1>5

-----------------------------------------------------------------------------
(* The same balance seen from the rows that took from it: a claim that was *)
(* covered alone when it was made lacks since then no more than what n     *)
(* rows took, of at most M each.                                           *)
RowsCoverClaims(c, f, S, n, M) ==
  /\ n = 0 => c >= 0
  /\ n # 0 => c >= M - n * M
  /\ \A x \in S : f[x] # 0 => c >= f[x] - n * M

LEMMA RowsStayCovering ==
  ASSUME NEW S, NEW M \in Nat, NEW x \in S,
         NEW f \in [S -> Int], NEW g \in [S -> Int],
         \A y \in S : 0 <= f[y] /\ f[y] <= M,
         \A y \in S \ {x} : g[y] = f[y],
         NEW c \in Int, NEW d \in Int, NEW n \in Nat, NEW k,
         RowsCoverClaims(c, f, S, n, M),
         \/ k = n /\ d >= c /\ g[x] \in {0, f[x]}
         \/ k = n /\ d >= c /\ d >= g[x]
         \/ k = n + 1 /\ f[x] # 0 /\ d >= c - f[x] /\ g[x] = 0
  PROVE  RowsCoverClaims(d, g, S, k, M)
<1>1. /\ n = 0 => c >= 0
      /\ n # 0 => c >= M - n * M
      /\ \A y \in S : f[y] # 0 => c >= f[y] - n * M
  BY DEF RowsCoverClaims
<1>2. n * M \in Nat /\ (n + 1) * M = n * M + M
  OBVIOUS
<1>3. \A y \in S : f[y] \in Int /\ g[y] \in Int
  OBVIOUS
<1>4. SUFFICES /\ k = 0 => d >= 0
               /\ k # 0 => d >= M - k * M
               /\ \A y \in S : g[y] # 0 => d >= g[y] - k * M
  BY DEF RowsCoverClaims
<1>5. CASE k = n /\ d >= c /\ (g[x] \in {0, f[x]} \/ d >= g[x])
  <2>1. g[x] # 0 => d >= g[x] - n * M
    <3>1. CASE g[x] = f[x]
      BY <1>1, <1>2, <1>3, <1>5, <3>1
    <3>2. CASE d >= g[x]
      BY <1>2, <1>3, <3>2
    <3>3. QED
      BY <1>5, <3>1, <3>2
  <2>2. \A y \in S \ {x} : g[y] # 0 => d >= g[y] - n * M
    BY <1>1, <1>2, <1>3, <1>5
  <2>3. /\ n = 0 => d >= 0
        /\ n # 0 => d >= M - n * M
    BY <1>1, <1>2, <1>5
  <2>4. QED
    BY <1>5, <2>1, <2>2, <2>3
<1>6. CASE k = n + 1 /\ f[x] # 0 /\ d >= c - f[x] /\ g[x] = 0
  <2>1. k * M = n * M + M /\ k # 0
    BY <1>2, <1>6
  <2>2. d >= M - k * M
    BY <1>1, <1>2, <1>3, <1>6, <2>1
  <2>3. \A y \in S \ {x} : g[y] # 0 => d >= g[y] - k * M
    BY <1>1, <1>2, <1>3, <1>6, <2>1
  <2>4. QED
    BY <1>6, <2>1, <2>2, <2>3
<1>7. QED
  BY <1>5, <1>6

LEMMA RowsCoverBalance ==
  ASSUME NEW S, NEW M \in Nat, NEW c \in Int, NEW f, NEW n \in Nat,
         NEW k \in Nat \ {0}, n <= k, RowsCoverClaims(c, f, S, n, M)
  PROVE  c >= -((k - 1) * M)
<1>1. /\ n = 0 => c >= 0
      /\ n # 0 => c >= M - n * M
  BY DEF RowsCoverClaims
<1>2. k - 1 \in Nat /\ (k - 1) * M \in Nat
  OBVIOUS
<1>3. CASE n = 0
  BY <1>1, <1>2, <1>3
<1>4. CASE n # 0
  <2>1. PICK m \in Nat : n = m + 1
    BY <1>4
  <2>2. PICK e \in Nat : k - 1 = m + e
    <3>1. k - 1 - m \in Nat /\ k - 1 = m + (k - 1 - m)
      BY <2>1
    <3>2. QED
      BY <3>1
  <2>3. m * M \in Nat /\ e * M \in Nat
    BY <2>1, <2>2
  <2>4. n * M = m * M + M /\ (k - 1) * M = m * M + e * M
    BY <2>1, <2>2
  <2>5. QED
    BY <1>1, <1>2, <1>4, <2>3, <2>4
<1>5. QED
  BY <1>3, <1>4
=============================================================================
