----------------------------- MODULE SumTheorems -----------------------------
(***************************************************************************)
(* Sums of natural numbers over a finite set: what SumFunctionOnSet of the *)
(* community modules computes.  The fold behind it is defined by recursion *)
(* over the set; a sum is also the number of units, which splits and joins *)
(* as sets do.                                                             *)
(***************************************************************************)
EXTENDS Integers, FiniteSets, Functions, FiniteSetTheorems, WellFoundedInduction, TLAPS

Some(s) == CHOOSE x \in s : TRUE

\* The equation of the fold, for the sum of fun over the subsets of S.
Adds(iter, fun, S) ==
    iter = [s \in SUBSET S |-> IF s = {} THEN 0 ELSE fun[Some(s)] + iter[s \ {Some(s)}]]

\* The units that are summed up: fun[x] of them for each x.
Units(fun, S) == UNION {{x} \X (1 .. fun[x]) : x \in S}

Natural(fun, S) == \A x \in S : fun[x] \in Nat

LEMMA UnitsOfOne ==
    ASSUME NEW x, NEW k \in Nat
    PROVE  IsFiniteSet({x} \X (1 .. k)) /\ Cardinality({x} \X (1 .. k)) = k
<1>1. IsFiniteSet(1 .. k) /\ Cardinality(1 .. k) = k
  BY FS_Interval
<1>2. IsFiniteSet({x}) /\ Cardinality({x}) = 1
  BY FS_Singleton
<1>3. IsFiniteSet({x} \X (1 .. k)) /\ Cardinality({x} \X (1 .. k)) = 1 * k
  BY <1>1, <1>2, FS_Product
<1> QED BY <1>3

LEMMA UnitsAreFinite ==
    ASSUME NEW fun, NEW S, IsFiniteSet(S), Natural(fun, S)
    PROVE  IsFiniteSet(Units(fun, S)) /\ Cardinality(Units(fun, S)) \in Nat
<1> DEFINE one == [x \in S |-> {x} \X (1 .. fun[x])]
           parts == {one[x] : x \in S}
<1>1. one \in Surjection(S, parts)
  BY DEF Surjection
<1>2. IsFiniteSet(parts)
  <2> HIDE DEF parts, one
  <2> QED BY <1>1, FS_Surjection
<1>3. ASSUME NEW x \in S PROVE IsFiniteSet(one[x])
  BY UnitsOfOne DEF Natural
<1>4. IsFiniteSet(UNION parts)
  <2>1. \A p \in parts : IsFiniteSet(p)
    BY <1>3
  <2> HIDE DEF parts
  <2> QED BY <1>2, <2>1, FS_UNION
<1>5. UNION parts = Units(fun, S)
  BY DEF Units
<1> QED BY <1>4, <1>5, FS_CardinalityType

\* The units of a set are those of an element and those of the rest.
LEMMA UnitsSplit ==
    ASSUME NEW fun, NEW S, IsFiniteSet(S), Natural(fun, S), NEW x \in S
    PROVE  Cardinality(Units(fun, S)) = fun[x] + Cardinality(Units(fun, S \ {x}))
<1> DEFINE here == {x} \X (1 .. fun[x])
           rest == Units(fun, S \ {x})
<1>1. IsFiniteSet(S \ {x}) /\ Natural(fun, S \ {x})
  BY FS_RemoveElement DEF Natural
<1>2. IsFiniteSet(rest) /\ Cardinality(rest) \in Nat
  BY <1>1, UnitsAreFinite
<1>3. IsFiniteSet(here) /\ Cardinality(here) = fun[x]
  BY UnitsOfOne DEF Natural
<1>4. Units(fun, S) = here \cup rest
  BY DEF Units
<1>5. here \cap rest = {}
  BY DEF Units
<1>6. Cardinality(here \cup rest) = Cardinality(here) + Cardinality(rest) - Cardinality({})
  <2> HIDE DEF here, rest
  <2> QED BY <1>2, <1>3, <1>5, FS_Union
<1> QED BY <1>2, <1>3, <1>4, <1>6, FS_EmptySet DEF Natural

\* Counting units satisfies the equation of the fold.
LEMMA CountingAdds ==
    ASSUME NEW fun, NEW S, IsFiniteSet(S), Natural(fun, S)
    PROVE  Adds([s \in SUBSET S |-> Cardinality(Units(fun, s))], fun, S)
<1> DEFINE count == [s \in SUBSET S |-> Cardinality(Units(fun, s))]
<1>1. ASSUME NEW s \in SUBSET S
      PROVE  count[s] = IF s = {} THEN 0 ELSE fun[Some(s)] + count[s \ {Some(s)}]
  <2>1. CASE s = {}
    <3>1. Units(fun, {}) = {}
      BY DEF Units
    <3> QED BY <2>1, <3>1, FS_EmptySet
  <2>2. CASE s # {}
    <3>1. Some(s) \in s
      BY <2>2 DEF Some
    <3>2. IsFiniteSet(s) /\ Natural(fun, s)
      BY FS_Subset DEF Natural
    <3>3. Cardinality(Units(fun, s)) = fun[Some(s)] + Cardinality(Units(fun, s \ {Some(s)}))
      BY <3>1, <3>2, UnitsSplit
    <3> QED BY <2>2, <3>3
  <2> QED BY <2>1, <2>2
<1> QED BY <1>1 DEF Adds

\* Nothing else does: of the sets where two solutions differ there would be a
\* least one, and they differ on a smaller one then.
LEMMA AddsOnlyOnce ==
    ASSUME NEW fun, NEW S, IsFiniteSet(S), Natural(fun, S), NEW f, NEW g, Adds(f, fun, S), Adds(g, fun, S)
    PROVE  f = g
<1> DEFINE Differ == {s \in SUBSET S : f[s] # g[s]}
           less == StrictSubsetOrdering(S)
<1>1. IsWellFoundedOn(less, SUBSET S)
  BY FS_StrictSubsetOrderingWellFounded, FS_FiniteSubsetsOfFinite
<1>2. SUFFICES ASSUME Differ # {} PROVE FALSE
  BY DEF Adds
<1>3. PICK s \in Differ : \A t \in Differ : <<t, s>> \notin less
  <2>1. Differ \subseteq SUBSET S
    OBVIOUS
  <2> HIDE DEF Differ, less
  <2> QED BY <1>1, <1>2, <2>1, WFMin
<1>4. CASE s = {}
  BY <1>3, <1>4 DEF Adds
<1>5. CASE s # {}
  <2> DEFINE t == s \ {Some(s)}
  <2>1. t \in SUBSET S /\ s \in SUBSET S /\ t # s
    BY <1>3, <1>5 DEF Some
  <2>2. <<t, s>> \in less
    BY <2>1 DEF StrictSubsetOrdering
  <2>3. f[t] = g[t]
    BY <1>3, <2>1, <2>2
  <2>4. f[s] = fun[Some(s)] + f[t] /\ g[s] = fun[Some(s)] + g[t]
    BY <1>5, <2>1 DEF Adds
  <2> QED BY <1>3, <2>3, <2>4
<1> QED BY <1>4, <1>5

\* A sum is the number of units.
LEMMA SumCounts ==
    ASSUME NEW fun, NEW S, IsFiniteSet(S), Natural(fun, S)
    PROVE  SumFunctionOnSet(fun, S) = Cardinality(Units(fun, S))
<1> DEFINE iter == CHOOSE iter : Adds(iter, fun, S)
           count == [s \in SUBSET S |-> Cardinality(Units(fun, s))]
<1>1. SumFunctionOnSet(fun, S) = iter[S]
  BY DEF SumFunctionOnSet, FoldFunctionOnSet, MapThenFoldSet, Adds, Some
<1>2. Adds(count, fun, S)
  BY CountingAdds
<1>3. Adds(iter, fun, S)
  BY <1>2
<1>4. iter = count
  <2> HIDE DEF iter, count
  <2> QED BY <1>2, <1>3, AddsOnlyOnce
<1> QED BY <1>1, <1>4

-----------------------------------------------------------------------------
(* The results. *)

\* A sum over a finite set is a natural number.
THEOREM SumType ==
    ASSUME NEW fun, NEW S, IsFiniteSet(S), \A x \in S : fun[x] \in Nat
    PROVE  SumFunctionOnSet(fun, S) \in Nat
BY SumCounts, UnitsAreFinite DEF Natural

\* It depends on the values on the set only.
THEOREM SumSame ==
    ASSUME NEW fun, NEW gun, NEW S, IsFiniteSet(S), \A x \in S : fun[x] \in Nat /\ gun[x] = fun[x]
    PROVE  SumFunctionOnSet(gun, S) = SumFunctionOnSet(fun, S)
<1>1. Natural(fun, S) /\ Natural(gun, S)
  BY DEF Natural
<1>2. Units(gun, S) = Units(fun, S)
  BY DEF Units
<1> QED BY <1>1, <1>2, SumCounts

\* Any element can be split off.
THEOREM SumSplit ==
    ASSUME NEW fun, NEW S, IsFiniteSet(S), \A x \in S : fun[x] \in Nat, NEW x \in S
    PROVE  SumFunctionOnSet(fun, S) = fun[x] + SumFunctionOnSet(fun, S \ {x})
<1>1. IsFiniteSet(S \ {x}) /\ Natural(fun, S) /\ Natural(fun, S \ {x})
  BY FS_RemoveElement DEF Natural
<1> QED BY <1>1, SumCounts, UnitsSplit

\* The sum over no element is 0.
THEOREM SumEmpty == ASSUME NEW fun PROVE SumFunctionOnSet(fun, {}) = 0
<1>1. Natural(fun, {}) /\ Units(fun, {}) = {}
  BY DEF Natural, Units
<1> QED BY <1>1, SumCounts, FS_EmptySet

\* Where one value changes by d, the sum changes by d.
THEOREM SumChange ==
    ASSUME NEW fun, NEW gun, NEW S, IsFiniteSet(S), \A y \in S : fun[y] \in Nat /\ gun[y] \in Nat,
           NEW x \in S, \A y \in S \ {x} : gun[y] = fun[y]
    PROVE  SumFunctionOnSet(gun, S) = SumFunctionOnSet(fun, S) - fun[x] + gun[x]
<1>1. IsFiniteSet(S \ {x})
  BY FS_RemoveElement
<1>2. SumFunctionOnSet(gun, S \ {x}) = SumFunctionOnSet(fun, S \ {x})
  BY <1>1, SumSame
<1>3. SumFunctionOnSet(fun, S) = fun[x] + SumFunctionOnSet(fun, S \ {x})
  BY SumSplit
<1>4. SumFunctionOnSet(gun, S) = gun[x] + SumFunctionOnSet(gun, S \ {x})
  BY SumSplit
<1>5. SumFunctionOnSet(fun, S \ {x}) \in Nat
  BY <1>1, SumType
<1> QED BY <1>2, <1>3, <1>4, <1>5

\* Where all values are 0, so is the sum.
THEOREM SumZero ==
    ASSUME NEW fun, NEW S, IsFiniteSet(S), \A x \in S : fun[x] = 0
    PROVE  SumFunctionOnSet(fun, S) = 0
<1>1. Natural(fun, S) /\ Units(fun, S) = {}
  BY DEF Natural, Units
<1> QED BY <1>1, SumCounts, FS_EmptySet
=============================================================================
