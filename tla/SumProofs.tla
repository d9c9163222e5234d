------------------------------ MODULE SumProofs ------------------------------
(***************************************************************************)
(* What SumFunctionOnSet computes, for every function and every finite     *)
(* set: the facts about sums that the ledger and the amounts rest on.      *)
(*                                                                         *)
(* The sum is a fold, a function on the subsets of the set that is chosen  *)
(* by its own equation.  Instead of induction the proofs take a smallest   *)
(* subset for which a claim fails.                                         *)
(***************************************************************************)
EXTENDS Integers, Functions, FiniteSetTheorems, TLAPS

Sum(f, S) == SumFunctionOnSet(f, S)

\* The element that the fold takes first.
One(T) == CHOOSE y \in T : TRUE

\* The fold over the subsets of S.
IsFold(h, f, S) ==
  h = [T \in SUBSET S |-> IF T = {} THEN 0 ELSE f[One(T)] + h[T \ {One(T)}]]

LEMMA SumMeans ==
  ASSUME NEW f, NEW S
  PROVE  Sum(f, S) = (CHOOSE h : IsFold(h, f, S))[S]
  BY DEF Sum, SumFunctionOnSet, FoldFunctionOnSet, MapThenFoldSet, One, IsFold

LEMMA OneMember == ASSUME NEW T, T # {} PROVE One(T) \in T
  BY DEF One

\* Claims about the subsets of a finite set fail for a smallest one.
LEMMA SmallestSet ==
  ASSUME NEW S, IsFiniteSet(S), NEW B \in SUBSET (SUBSET S), B # {}
  PROVE  \E T \in B : \A U \in SUBSET T : U # T => U \notin B
<1>1. B \subseteq FiniteSubsetsOf(S)
  BY FS_FiniteSubsetsOfFinite
<1>2. PICK T \in B : \A U \in B : <<U, T>> \notin StrictSubsetOrdering(S)
  BY <1>1, FS_StrictSubsetOrderingWellFounded, WFMin
<1>3. \A U \in B : U \subseteq T => U = T
  BY <1>2 DEF StrictSubsetOrdering
<1>4. QED
  BY <1>3

-----------------------------------------------------------------------------
(***************************************************************************)
(* The equation has one solution.                                          *)
(***************************************************************************)

LEMMA FoldAt ==
  ASSUME NEW h, NEW f, NEW S, IsFold(h, f, S), NEW T \in SUBSET S
  PROVE  h[T] = IF T = {} THEN 0 ELSE f[One(T)] + h[T \ {One(T)}]
<1> DEFINE g == [U \in SUBSET S |-> IF U = {} THEN 0 ELSE f[One(U)] + h[U \ {One(U)}]]
<1>1. h = g
  BY DEF IsFold
<1>2. g[T] = IF T = {} THEN 0 ELSE f[One(T)] + h[T \ {One(T)}]
  OBVIOUS
<1>3. QED
  BY <1>1, <1>2

LEMMA FoldRestricts ==
  ASSUME NEW h, NEW f, NEW S, IsFold(h, f, S), NEW T \in SUBSET S
  PROVE  IsFold([U \in SUBSET T |-> h[U]], f, T)
<1> DEFINE g == [U \in SUBSET T |-> h[U]]
<1>1. ASSUME NEW U \in SUBSET T
      PROVE  g[U] = IF U = {} THEN 0 ELSE f[One(U)] + g[U \ {One(U)}]
  <2>1. g[U] = h[U] /\ g[U \ {One(U)}] = h[U \ {One(U)}]
    OBVIOUS
  <2>2. QED
    BY <2>1, FoldAt
<1>2. g = [U \in SUBSET T |-> IF U = {} THEN 0 ELSE f[One(U)] + g[U \ {One(U)}]]
  BY <1>1
<1>3. QED
  BY <1>2 DEF IsFold

LEMMA FoldUnique ==
  ASSUME NEW f, NEW S, IsFiniteSet(S), NEW g, IsFold(g, f, S), NEW h, IsFold(h, f, S)
  PROVE  \A T \in SUBSET S : g[T] = h[T]
<1> DEFINE B == {T \in SUBSET S : g[T] # h[T]}
<1> SUFFICES ASSUME B # {} PROVE FALSE
  OBVIOUS
<1>0. B \in SUBSET (SUBSET S)
  OBVIOUS
<1>1. PICK T \in B : \A U \in SUBSET T : U # T => U \notin B
  <2> HIDE DEF B
  <2>1. QED
    BY <1>0, SmallestSet
<1>2. g[T] # h[T] /\ T \in SUBSET S
  OBVIOUS
<1>3. T # {}
  BY <1>2, FoldAt
<1>4. T \ {One(T)} \notin B
  BY <1>1, <1>3, OneMember
<1>5. g[T \ {One(T)}] = h[T \ {One(T)}]
  BY <1>2, <1>4
<1>6. g[T] = f[One(T)] + g[T \ {One(T)}]
  BY <1>2, <1>3, FoldAt
<1>7. h[T] = f[One(T)] + h[T \ {One(T)}]
  BY <1>2, <1>3, FoldAt
<1>8. QED
  BY <1>2, <1>5, <1>6, <1>7

LEMMA FoldExists ==
  ASSUME NEW f, NEW S, IsFiniteSet(S)
  PROVE  \E h : IsFold(h, f, S)
<1> DEFINE B == {T \in SUBSET S : ~ \E h : IsFold(h, f, T)}
<1> SUFFICES ASSUME B # {} PROVE FALSE
  OBVIOUS
<1>0. B \in SUBSET (SUBSET S)
  OBVIOUS
<1>1. PICK T \in B : \A U \in SUBSET T : U # T => U \notin B
  <2> HIDE DEF B
  <2>1. QED
    BY <1>0, SmallestSet
<1>2. T \in SUBSET S /\ ~ \E h : IsFold(h, f, T)
  OBVIOUS
<1>3. \A U \in SUBSET T : U # T => \E h : IsFold(h, f, U)
  BY <1>1, <1>2
\* The solutions of the smaller sets, put together.
<1> DEFINE part(U) == CHOOSE h : IsFold(h, f, U)
           value(U) == IF U = T THEN IF T = {} THEN 0 ELSE f[One(T)] + part(T \ {One(T)})[T \ {One(T)}]
                                ELSE part(U)[U]
           whole == [U \in SUBSET T |-> value(U)]
<1>4. \A U \in SUBSET T : U # T => IsFold(part(U), f, U)
  BY <1>3
<1> HIDE DEF part
<1>5. ASSUME NEW U \in SUBSET T
      PROVE  whole[U] = IF U = {} THEN 0 ELSE f[One(U)] + whole[U \ {One(U)}]
  <2>1. CASE U = T
    <3>1. CASE T = {}
      BY <2>1, <3>1
    <3>2. CASE T # {}
      <4>1. T \ {One(T)} \in SUBSET T /\ T \ {One(T)} # T
        BY <3>2, OneMember
      <4>2. whole[T \ {One(T)}] = part(T \ {One(T)})[T \ {One(T)}]
        BY <4>1
      <4>3. whole[U] = f[One(T)] + part(T \ {One(T)})[T \ {One(T)}]
        BY <2>1, <3>2
      <4>4. QED
        BY <2>1, <3>2, <4>2, <4>3
    <3>3. QED
      BY <3>1, <3>2
  <2>2. CASE U # T
    <3>1. IsFold(part(U), f, U)
      BY <1>4, <2>2
    <3>2. whole[U] = part(U)[U]
      BY <2>2
    <3>3. CASE U = {}
      BY <3>1, <3>2, <3>3, FoldAt
    <3>4. CASE U # {}
      <4> DEFINE V == U \ {One(U)}
      <4>1. V \in SUBSET U /\ V \in SUBSET T /\ V # U /\ V # T
        BY <3>4, OneMember
      <4>2. IsFold(part(V), f, V)
        BY <1>4, <4>1
      <4>3. IsFold([W \in SUBSET V |-> part(U)[W]], f, V)
        BY <3>1, <4>1, FoldRestricts
      <4>4. IsFiniteSet(V)
        BY <1>2, <4>1, FS_Subset
      <4>5. part(V)[V] = part(U)[V]
        <5>1. part(V)[V] = [W \in SUBSET V |-> part(U)[W]][V]
          BY <4>2, <4>3, <4>4, FoldUnique
        <5>2. QED
          BY <5>1
      <4>6. whole[V] = part(V)[V]
        BY <4>1
      <4>7. part(U)[U] = f[One(U)] + part(U)[V]
        BY <3>1, <3>4, FoldAt
      <4>8. QED
        BY <3>2, <3>4, <4>5, <4>6, <4>7
    <3>5. QED
      BY <3>3, <3>4
  <2>3. QED
    BY <2>1, <2>2
<1>6. whole = [U \in SUBSET T |-> whole[U]]
  OBVIOUS
<1> HIDE DEF whole
<1>7. IsFold(whole, f, T)
  BY <1>5, <1>6 DEF IsFold
<1>8. QED
  BY <1>2, <1>7

\* The recursion of the sum, whichever set it began with.
LEMMA SumFolds ==
  ASSUME NEW f, NEW S, IsFiniteSet(S)
  PROVE  Sum(f, S) = IF S = {} THEN 0 ELSE f[One(S)] + Sum(f, S \ {One(S)})
<1> DEFINE h == CHOOSE g : IsFold(g, f, S)
           T == S \ {One(S)}
           u == CHOOSE g : IsFold(g, f, T)
<1>1. IsFold(h, f, S)
  BY FoldExists
<1>2. Sum(f, S) = h[S]
  BY SumMeans
<1>3. h[S] = IF S = {} THEN 0 ELSE f[One(S)] + h[T]
  BY <1>1, FoldAt
<1>4. IsFiniteSet(T)
  BY FS_Subset
<1>5. IsFold(u, f, T)
  BY <1>4, FoldExists
<1>6. IsFold([W \in SUBSET T |-> h[W]], f, T)
  BY <1>1, FoldRestricts
<1>7. u[T] = [W \in SUBSET T |-> h[W]][T]
  BY <1>4, <1>5, <1>6, FoldUnique
<1>8. Sum(f, T) = u[T]
  BY SumMeans
<1>9. QED
  BY <1>2, <1>3, <1>7, <1>8

-----------------------------------------------------------------------------
(***************************************************************************)
(* Sums of integers.                                                       *)
(***************************************************************************)

LEMMA SumEmpty == ASSUME NEW f PROVE Sum(f, {}) = 0
  BY SumFolds, FS_EmptySet

LEMMA SumInt ==
  ASSUME NEW f, NEW S, IsFiniteSet(S), \A x \in S : f[x] \in Int
  PROVE  Sum(f, S) \in Int
<1> DEFINE B == {T \in SUBSET S : Sum(f, T) \notin Int}
<1> SUFFICES ASSUME B # {} PROVE FALSE
  OBVIOUS
<1>0. B \in SUBSET (SUBSET S)
  OBVIOUS
<1>1. PICK T \in B : \A U \in SUBSET T : U # T => U \notin B
  <2> HIDE DEF B
  <2>1. QED
    BY <1>0, SmallestSet
<1>2. T \in SUBSET S /\ Sum(f, T) \notin Int /\ IsFiniteSet(T)
  BY FS_Subset
<1>3. T # {}
  BY <1>2, SumEmpty
<1>4. Sum(f, T) = f[One(T)] + Sum(f, T \ {One(T)})
  BY <1>2, <1>3, SumFolds
<1>5. One(T) \in T
  BY <1>3, OneMember
<1>6. T \ {One(T)} \notin B
  BY <1>1, <1>5
<1>7. Sum(f, T \ {One(T)}) \in Int /\ f[One(T)] \in Int
  BY <1>2, <1>5, <1>6
<1>8. QED
  BY <1>2, <1>4, <1>7

\* Any element may be taken first.
LEMMA SumSplit ==
  ASSUME NEW f, NEW S, IsFiniteSet(S), \A x \in S : f[x] \in Int, NEW e \in S
  PROVE  Sum(f, S) = f[e] + Sum(f, S \ {e})
<1> DEFINE B == {T \in SUBSET S : \E x \in T : Sum(f, T) # f[x] + Sum(f, T \ {x})}
<1> SUFFICES ASSUME B # {} PROVE FALSE
  <2>1. S \notin B
    OBVIOUS
  <2>2. QED
    BY <2>1
<1>0. B \in SUBSET (SUBSET S)
  OBVIOUS
<1>1. PICK T \in B : \A U \in SUBSET T : U # T => U \notin B
  <2> HIDE DEF B
  <2>1. QED
    BY <1>0, SmallestSet
<1>2. PICK x \in T : Sum(f, T) # f[x] + Sum(f, T \ {x})
  OBVIOUS
<1> DEFINE y == One(T)
<1>3. y \in T
  BY <1>2, OneMember
<1>4. IsFiniteSet(T) /\ T \in SUBSET S
  BY FS_Subset
<1>5. Sum(f, T) = f[y] + Sum(f, T \ {y})
  BY <1>3, <1>4, SumFolds
<1>6. x # y
  BY <1>2, <1>5
<1>7. Sum(f, T \ {y}) = f[x] + Sum(f, (T \ {y}) \ {x})
  <2>1. T \ {y} \notin B
    BY <1>1, <1>3
  <2>2. T \ {y} \in SUBSET S /\ x \in T \ {y}
    BY <1>4, <1>6
  <2>3. QED
    BY <2>1, <2>2
<1>8. Sum(f, T \ {x}) = f[y] + Sum(f, (T \ {x}) \ {y})
  <2>1. T \ {x} \notin B
    BY <1>1
  <2>2. T \ {x} \in SUBSET S /\ y \in T \ {x}
    BY <1>3, <1>4, <1>6
  <2>3. QED
    BY <2>1, <2>2
<1>9. (T \ {x}) \ {y} = (T \ {y}) \ {x}
  OBVIOUS
<1>10. IsFiniteSet((T \ {y}) \ {x})
  BY <1>4, FS_Subset
<1>11. Sum(f, (T \ {y}) \ {x}) \in Int /\ f[x] \in Int /\ f[y] \in Int
  BY <1>3, <1>4, <1>10, SumInt
<1> DEFINE rest == Sum(f, (T \ {y}) \ {x})
<1>12. Sum(f, T \ {x}) = f[y] + rest
  BY <1>8, <1>9
<1>13. Sum(f, T) = f[y] + (f[x] + rest)
  BY <1>5, <1>7
<1>14. rest \in Int
  BY <1>11
<1> HIDE DEF y, B, rest
<1>15. f[x] \in Int /\ f[y] \in Int
  BY <1>11
<1>16. f[y] + (f[x] + rest) = f[x] + (f[y] + rest)
  BY <1>14, <1>15
<1>17. QED
  BY <1>2, <1>12, <1>13, <1>16

LEMMA SumMonotone ==
  ASSUME NEW f, NEW g, NEW S, IsFiniteSet(S),
         \A x \in S : f[x] \in Int /\ g[x] \in Int /\ f[x] <= g[x]
  PROVE  Sum(f, S) <= Sum(g, S)
<1> DEFINE B == {T \in SUBSET S : ~(Sum(f, T) <= Sum(g, T))}
<1> SUFFICES ASSUME B # {} PROVE FALSE
  OBVIOUS
<1>0. B \in SUBSET (SUBSET S)
  OBVIOUS
<1>1. PICK T \in B : \A U \in SUBSET T : U # T => U \notin B
  <2> HIDE DEF B
  <2>1. QED
    BY <1>0, SmallestSet
<1>2. T \in SUBSET S /\ ~(Sum(f, T) <= Sum(g, T)) /\ IsFiniteSet(T)
  BY FS_Subset
<1>3. T # {}
  BY <1>2, SumEmpty
<1> DEFINE U == T \ {One(T)}
<1>4. One(T) \in T
  BY <1>3, OneMember
<1>5. Sum(f, T) = f[One(T)] + Sum(f, U) /\ Sum(g, T) = g[One(T)] + Sum(g, U)
  BY <1>2, <1>3, SumFolds
<1>6. Sum(f, U) <= Sum(g, U)
  BY <1>1, <1>2, <1>4
<1>7. IsFiniteSet(U)
  BY <1>2, FS_Subset
<1>8. Sum(f, U) \in Int /\ Sum(g, U) \in Int
  BY <1>2, <1>7, SumInt
<1>9. f[One(T)] \in Int /\ g[One(T)] \in Int /\ f[One(T)] <= g[One(T)]
  BY <1>2, <1>4
<1> HIDE DEF B, U
<1>10. QED
  BY <1>2, <1>5, <1>6, <1>8, <1>9

\* Only the values at the elements count.
LEMMA SumSame ==
  ASSUME NEW f, NEW g, NEW S, IsFiniteSet(S), \A x \in S : f[x] \in Int /\ f[x] = g[x]
  PROVE  Sum(f, S) = Sum(g, S)
<1>1. Sum(f, S) <= Sum(g, S) /\ Sum(g, S) <= Sum(f, S)
  BY SumMonotone
<1>2. Sum(f, S) \in Int /\ Sum(g, S) \in Int
  BY SumInt
<1>3. QED
  BY <1>1, <1>2

LEMMA SumZero ==
  ASSUME NEW f, NEW S, IsFiniteSet(S), \A x \in S : f[x] = 0
  PROVE  Sum(f, S) = 0
<1> DEFINE B == {T \in SUBSET S : Sum(f, T) # 0}
<1> SUFFICES ASSUME B # {} PROVE FALSE
  OBVIOUS
<1>0. B \in SUBSET (SUBSET S)
  OBVIOUS
<1>1. PICK T \in B : \A U \in SUBSET T : U # T => U \notin B
  <2> HIDE DEF B
  <2>1. QED
    BY <1>0, SmallestSet
<1>2. T \in SUBSET S /\ Sum(f, T) # 0 /\ IsFiniteSet(T)
  BY FS_Subset
<1>3. T # {}
  BY <1>2, SumEmpty
<1>4. One(T) \in T
  BY <1>3, OneMember
<1>5. Sum(f, T) = f[One(T)] + Sum(f, T \ {One(T)})
  BY <1>2, <1>3, SumFolds
<1>6. Sum(f, T \ {One(T)}) = 0
  BY <1>1, <1>2, <1>4
<1>7. QED
  BY <1>2, <1>4, <1>5, <1>6

LEMMA SumNat ==
  ASSUME NEW f, NEW S, IsFiniteSet(S), \A x \in S : f[x] \in Nat
  PROVE  /\ Sum(f, S) \in Nat
         /\ \A x \in S : f[x] <= Sum(f, S)
<1>1. \A T \in SUBSET S : IsFiniteSet(T) /\ Sum(f, T) \in Int
  BY FS_Subset, SumInt
<1> DEFINE zero == [x \in S |-> 0]
<1>2. ASSUME NEW T \in SUBSET S PROVE 0 <= Sum(f, T)
  <2>1. \A x \in T : zero[x] \in Int /\ f[x] \in Int /\ zero[x] <= f[x]
    OBVIOUS
  <2>2. Sum(zero, T) = 0
    BY <1>1, SumZero
  <2>3. Sum(zero, T) <= Sum(f, T)
    BY <1>1, <2>1, SumMonotone
  <2>4. QED
    BY <2>2, <2>3
<1>3. ASSUME NEW x \in S PROVE f[x] <= Sum(f, S)
  <2>1. Sum(f, S) = f[x] + Sum(f, S \ {x})
    BY SumSplit
  <2>2. 0 <= Sum(f, S \ {x}) /\ Sum(f, S \ {x}) \in Int
    BY <1>1, <1>2
  <2>3. QED
    BY <2>1, <2>2
<1>4. QED
  BY <1>1, <1>2, <1>3

\* A function that differs at one element.
LEMMA SumChanges ==
  ASSUME NEW f, NEW g, NEW S, IsFiniteSet(S), NEW e \in S,
         \A x \in S : f[x] \in Int /\ g[x] \in Int,
         \A x \in S \ {e} : f[x] = g[x]
  PROVE  Sum(g, S) = Sum(f, S) - f[e] + g[e]
<1>1. IsFiniteSet(S \ {e})
  BY FS_Subset
<1>2. Sum(f, S \ {e}) = Sum(g, S \ {e}) /\ Sum(f, S \ {e}) \in Int
  BY <1>1, SumSame, SumInt
<1>3. Sum(f, S) = f[e] + Sum(f, S \ {e}) /\ Sum(g, S) = g[e] + Sum(g, S \ {e})
  BY SumSplit
<1>4. QED
  BY <1>2, <1>3

\* Sums of two functions over one set.
LEMMA SumAdds ==
  ASSUME NEW f, NEW g, NEW h, NEW S, IsFiniteSet(S),
         \A x \in S : f[x] \in Int /\ g[x] \in Int /\ h[x] = f[x] + g[x]
  PROVE  Sum(h, S) = Sum(f, S) + Sum(g, S)
<1> DEFINE B == {T \in SUBSET S : Sum(h, T) # Sum(f, T) + Sum(g, T)}
<1> SUFFICES ASSUME B # {} PROVE FALSE
  OBVIOUS
<1>0. B \in SUBSET (SUBSET S)
  OBVIOUS
<1>1. PICK T \in B : \A U \in SUBSET T : U # T => U \notin B
  <2> HIDE DEF B
  <2>1. QED
    BY <1>0, SmallestSet
<1>2. T \in SUBSET S /\ Sum(h, T) # Sum(f, T) + Sum(g, T) /\ IsFiniteSet(T)
  BY FS_Subset
<1>3. T # {}
  <2> HIDE DEF B
  <2> SUFFICES ASSUME T = {} PROVE FALSE
    OBVIOUS
  <2>1. Sum(f, T) = 0 /\ Sum(g, T) = 0 /\ Sum(h, T) = 0
    BY SumEmpty
  <2>2. QED
    BY <1>2, <2>1
<1> DEFINE U == T \ {One(T)}
<1>4. One(T) \in T
  BY <1>3, OneMember
<1>5. /\ Sum(f, T) = f[One(T)] + Sum(f, U)
      /\ Sum(g, T) = g[One(T)] + Sum(g, U)
      /\ Sum(h, T) = h[One(T)] + Sum(h, U)
  BY <1>2, <1>3, SumFolds
<1>6. Sum(h, U) = Sum(f, U) + Sum(g, U)
  BY <1>1, <1>2, <1>4
<1>7. IsFiniteSet(U) /\ U \in SUBSET S
  BY <1>2, FS_Subset
<1>8. Sum(f, U) \in Int /\ Sum(g, U) \in Int
  BY <1>7, SumInt
<1>9. f[One(T)] \in Int /\ g[One(T)] \in Int /\ h[One(T)] = f[One(T)] + g[One(T)]
  BY <1>2, <1>4
<1> HIDE DEF B, U
<1>10. QED
  BY <1>2, <1>5, <1>6, <1>8, <1>9

\* A function that is f on T and zero elsewhere.
LEMMA SumMasked ==
  ASSUME NEW f, NEW g, NEW S, IsFiniteSet(S), NEW T \in SUBSET S,
         \A x \in T : f[x] \in Int /\ g[x] = f[x],
         \A x \in S \ T : g[x] = 0
  PROVE  Sum(g, S) = Sum(f, T)
<1> DEFINE B == {V \in SUBSET S : Sum(g, V) # Sum(f, V \cap T)}
<1> SUFFICES ASSUME B # {} PROVE FALSE
  <2>1. S \notin B
    OBVIOUS
  <2>2. S \cap T = T
    OBVIOUS
  <2>3. QED
    BY <2>1, <2>2
<1>0. B \in SUBSET (SUBSET S)
  OBVIOUS
<1>1. PICK V \in B : \A U \in SUBSET V : U # V => U \notin B
  <2> HIDE DEF B
  <2>1. QED
    BY <1>0, SmallestSet
<1>2. V \in SUBSET S /\ Sum(g, V) # Sum(f, V \cap T) /\ IsFiniteSet(V)
  BY FS_Subset
<1>3. V # {}
  <2>1. {} \cap T = {}
    OBVIOUS
  <2>2. QED
    BY <1>2, <2>1, SumEmpty
<1> DEFINE e == One(V)
           U == V \ {e}
<1>4. e \in V
  BY <1>3, OneMember
<1>5. Sum(g, V) = g[e] + Sum(g, U)
  BY <1>2, <1>3, SumFolds
<1>6. Sum(g, U) = Sum(f, U \cap T)
  BY <1>1, <1>2, <1>4
<1>7. IsFiniteSet(U) /\ IsFiniteSet(U \cap T) /\ IsFiniteSet(V \cap T)
  BY <1>2, FS_Subset
<1>8. Sum(f, U \cap T) \in Int
  BY <1>7, SumInt
<1>9. CASE e \in T
  <2>1. e \in V \cap T /\ (V \cap T) \ {e} = U \cap T
    BY <1>4, <1>9
  <2>2. Sum(f, V \cap T) = f[e] + Sum(f, U \cap T)
    <3>1. \A x \in V \cap T : f[x] \in Int
      OBVIOUS
    <3> HIDE DEF e, U
    <3>2. Sum(f, V \cap T) = f[e] + Sum(f, (V \cap T) \ {e})
      BY <1>7, <2>1, <3>1, SumSplit
    <3>3. QED
      BY <2>1, <3>2
  <2>3. g[e] = f[e]
    BY <1>9
  <2>4. QED
    BY <1>2, <1>5, <1>6, <2>2, <2>3
<1>10. CASE e \notin T
  <2>1. V \cap T = U \cap T
    BY <1>10
  <2>2. g[e] = 0
    BY <1>2, <1>4, <1>10
  <2>3. Sum(g, V) = Sum(g, U)
    BY <1>5, <1>6, <1>8, <2>2
  <2>4. QED
    BY <1>2, <1>6, <2>1, <2>3
<1>11. QED
  BY <1>9, <1>10

\* Two sets that have nothing in common.
LEMMA SumUnion ==
  ASSUME NEW f, NEW S, IsFiniteSet(S), \A x \in S : f[x] \in Int,
         NEW A \in SUBSET S, NEW C \in SUBSET S, A \cup C = S, A \cap C = {}
  PROVE  Sum(f, S) = Sum(f, A) + Sum(f, C)
<1> DEFINE a == [x \in S |-> IF x \in A THEN f[x] ELSE 0]
           c == [x \in S |-> IF x \in C THEN f[x] ELSE 0]
<1>1. Sum(a, S) = Sum(f, A)
  <2>1. (\A x \in A : f[x] \in Int /\ a[x] = f[x]) /\ \A x \in S \ A : a[x] = 0
    OBVIOUS
  <2> HIDE DEF a
  <2>2. QED
    BY <2>1, SumMasked
<1>2. Sum(c, S) = Sum(f, C)
  <2>1. (\A x \in C : f[x] \in Int /\ c[x] = f[x]) /\ \A x \in S \ C : c[x] = 0
    OBVIOUS
  <2> HIDE DEF c
  <2>2. QED
    BY <2>1, SumMasked
<1>3. \A x \in S : a[x] \in Int /\ c[x] \in Int /\ f[x] = a[x] + c[x]
  OBVIOUS
<1> HIDE DEF a, c
<1>4. Sum(f, S) = Sum(a, S) + Sum(c, S)
  BY <1>3, SumAdds
<1>5. QED
  BY <1>1, <1>2, <1>4

\* Rows and columns of a matrix, which is F by its rows and G by its columns.
Transpose(F, G, A, C) ==
  \A x \in A : \A y \in C : F[x][y] \in Int /\ G[y][x] = F[x][y]

RowSums(r, F, A, C) == \A x \in A : r[x] = Sum(F[x], C)

LEMMA SumExchange ==
  ASSUME NEW F, NEW G, NEW r, NEW c, NEW A, IsFiniteSet(A), NEW C, IsFiniteSet(C),
         Transpose(F, G, A, C), RowSums(r, F, A, C), RowSums(c, G, C, A)
  PROVE  Sum(r, A) = Sum(c, C)
<1> USE DEF Transpose, RowSums
<1> DEFINE part(T) == [y \in C |-> Sum(G[y], T)]
           B == {T \in SUBSET A : Sum(r, T) # Sum(part(T), C)}
<1>0. \A T \in SUBSET A : IsFiniteSet(T)
  BY FS_Subset
<1>1. ASSUME NEW T \in SUBSET A, NEW y \in C
      PROVE  Sum(G[y], T) \in Int
  <2>1. \A x \in T : G[y][x] \in Int
    OBVIOUS
  <2>2. QED
    BY <1>0, <2>1, SumInt
<1>2. \A x \in A : r[x] \in Int
  BY SumInt
<1>3. A \notin B
  <2> SUFFICES ASSUME B # {} PROVE FALSE
    OBVIOUS
  <2>0. B \in SUBSET (SUBSET A)
    OBVIOUS
  <2>1. PICK T \in B : \A U \in SUBSET T : U # T => U \notin B
    <3> HIDE DEF B
    <3>1. QED
      BY <2>0, SmallestSet
  <2>2. T \in SUBSET A /\ Sum(r, T) # Sum(part(T), C) /\ IsFiniteSet(T)
    BY <1>0
  <2>3. T # {}
    <3> SUFFICES ASSUME T = {} PROVE FALSE
      OBVIOUS
    <3>1. \A y \in C : part({})[y] = 0
      BY SumEmpty
    <3>2. Sum(part({}), C) = 0
      <4> HIDE DEF part
      <4>1. QED
        BY <3>1, SumZero
    <3>3. QED
      BY <2>2, <3>2, SumEmpty
  <2> DEFINE e == One(T)
             U == T \ {e}
  <2>4. e \in T /\ e \in A
    BY <2>2, <2>3, OneMember
  <2>5. Sum(r, T) = r[e] + Sum(r, U)
    BY <2>2, <2>3, SumFolds
  <2>6. Sum(r, U) = Sum(part(U), C)
    BY <2>1, <2>2, <2>4
  <2>7. \A y \in C : /\ F[e][y] \in Int /\ part(U)[y] \in Int
                     /\ part(T)[y] = F[e][y] + part(U)[y]
    <3> SUFFICES ASSUME NEW y \in C
                 PROVE  /\ F[e][y] \in Int /\ part(U)[y] \in Int
                        /\ part(T)[y] = F[e][y] + part(U)[y]
      OBVIOUS
    <3>1. Sum(G[y], T) = G[y][e] + Sum(G[y], U)
      BY <2>2, <2>3, SumFolds
    <3>2. G[y][e] = F[e][y]
      BY <2>4
    <3>3. QED
      BY <1>1, <2>2, <2>4, <3>1, <3>2
  <2>8. Sum(part(T), C) = Sum(F[e], C) + Sum(part(U), C)
    <3> HIDE DEF part, e, U
    <3>1. QED
      BY <2>7, SumAdds
  <2>9. QED
    BY <2>2, <2>4, <2>5, <2>6, <2>8
<1>4. Sum(part(A), C) = Sum(c, C)
  <2>1. \A y \in C : part(A)[y] \in Int /\ part(A)[y] = c[y]
    BY <1>1
  <2> HIDE DEF part
  <2>2. QED
    BY <2>1, SumSame
<1>5. QED
  BY <1>3, <1>4

\* Each element in the row of its class, and zero in the others.
LEMMA SumSpread ==
  ASSUME NEW f, NEW A, IsFiniteSet(A), \A x \in A : f[x] \in Int,
         NEW C, IsFiniteSet(C), NEW class \in [A -> C], NEW G, NEW c,
         \A y \in C : \A x \in A : G[y][x] = IF class[x] = y THEN f[x] ELSE 0,
         \A y \in C : c[y] = Sum(G[y], A)
  PROVE  Sum(c, C) = Sum(f, A)
<1> DEFINE F == [x \in A |-> [y \in C |-> G[y][x]]]
           r == [x \in A |-> Sum(F[x], C)]
<1>1. \A x \in A : \A y \in C : F[x][y] \in Int /\ G[y][x] = F[x][y]
  OBVIOUS
<1>2. \A x \in A : r[x] = f[x]
  <2> SUFFICES ASSUME NEW x \in A PROVE Sum(F[x], C) = f[x]
    OBVIOUS
  <2>1. class[x] \in C /\ F[x][class[x]] = f[x] /\ \A y \in C \ {class[x]} : F[x][y] = 0
    OBVIOUS
  <2>2. \A y \in C : F[x][y] \in Int
    BY <1>1
  <2> HIDE DEF F
  <2>3. Sum(F[x], C) = F[x][class[x]] + Sum(F[x], C \ {class[x]})
    BY <2>1, <2>2, SumSplit
  <2>4. Sum(F[x], C \ {class[x]}) = 0
    BY <2>1, FS_Subset, SumZero
  <2>5. QED
    BY <2>1, <2>3, <2>4
<1>3. \A x \in A : r[x] = Sum(F[x], C)
  OBVIOUS
<1> HIDE DEF F, r
<1>4. Transpose(F, G, A, C) /\ RowSums(r, F, A, C) /\ RowSums(c, G, C, A)
  BY <1>1, <1>3 DEF Transpose, RowSums
<1>5. Sum(r, A) = Sum(c, C)
  BY <1>4, SumExchange
<1>6. Sum(r, A) = Sum(f, A)
  BY <1>2, SumSame
<1>7. QED
  BY <1>5, <1>6

\* Elements by their class.
ClassSums(g, f, class, A, C) == \A y \in C : g[y] = Sum(f, {x \in A : class[x] = y})

LEMMA SumClasses ==
  ASSUME NEW f, NEW A, IsFiniteSet(A), \A x \in A : f[x] \in Int,
         NEW C, IsFiniteSet(C), NEW class \in [A -> C], NEW g,
         ClassSums(g, f, class, A, C)
  PROVE  Sum(g, C) = Sum(f, A)
<1> DEFINE G == [y \in C |-> [x \in A |-> IF class[x] = y THEN f[x] ELSE 0]]
           c == [y \in C |-> Sum(G[y], A)]
<1>1. \A y \in C : c[y] = g[y]
  <2> SUFFICES ASSUME NEW y \in C
               PROVE  Sum(G[y], A) = Sum(f, {x \in A : class[x] = y})
    BY DEF ClassSums
  <2> DEFINE m == G[y]
             T == {x \in A : class[x] = y}
  <2>1. \A x \in T : f[x] \in Int /\ m[x] = f[x]
    OBVIOUS
  <2>2. \A x \in A \ T : m[x] = 0
    OBVIOUS
  <2>3. T \in SUBSET A
    OBVIOUS
  <2> HIDE DEF m, T
  <2>4. Sum(m, A) = Sum(f, T)
    BY <2>1, <2>2, <2>3, SumMasked
  <2>5. QED
    BY <2>4 DEF m, T, ClassSums
<1>2. /\ \A y \in C : \A x \in A : G[y][x] = IF class[x] = y THEN f[x] ELSE 0
      /\ \A y \in C : c[y] = Sum(G[y], A)
  OBVIOUS
<1>3. \A y \in C : c[y] \in Int
  <2> SUFFICES ASSUME NEW y \in C PROVE Sum(G[y], A) \in Int
    OBVIOUS
  <2>1. \A x \in A : G[y][x] \in Int
    OBVIOUS
  <2> HIDE DEF G
  <2>2. QED
    BY <2>1, SumInt
<1> HIDE DEF G, c
<1>4. Sum(c, C) = Sum(f, A)
  BY <1>2, SumSpread
<1>5. Sum(c, C) = Sum(g, C)
  BY <1>1, <1>3, SumSame
<1>6. QED
  BY <1>4, <1>5
=============================================================================
