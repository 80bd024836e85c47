---------------------------- MODULE TotalsProofs ----------------------------
(***************************************************************************)
(* What changing a function at one point does to its total.  These lemmas  *)
(* carry the conservation proofs: a transfer changes a ledger at one or    *)
(* two points, and the proof needs the sums before and after.              *)
(***************************************************************************)
EXTENDS Totals, FiniteSetTheorems, TLAPS

\* An amount of n is n units, and finitely many.
LEMMA UnitsAtCount ==
    ASSUME NEW f, NEW x, f[x] \in Nat
    PROVE  IsFiniteSet(UnitsAt(f, x)) /\ Cardinality(UnitsAt(f, x)) = f[x]
<1>1. IsFiniteSet({x}) /\ Cardinality({x}) = 1
  BY FS_Singleton
<1>2. IsFiniteSet(1 .. f[x]) /\ Cardinality(1 .. f[x]) = f[x]
  BY FS_Interval
<1>3. /\ IsFiniteSet({x} \X (1 .. f[x]))
      /\ Cardinality({x} \X (1 .. f[x])) = 1 * f[x]
  BY <1>1, <1>2, FS_Product
<1> QED BY <1>3 DEF UnitsAt

\* A ledger over finitely many points keeps finitely many units, so its total
\* is a natural number.
LEMMA TotalType ==
    ASSUME NEW S, IsFiniteSet(S), NEW f \in [S -> Nat]
    PROVE  IsFiniteSet(Units(f)) /\ Total(f) \in Nat
<1> DEFINE N == {UnitsAt(f, x) : x \in S}
           g == [x \in S |-> UnitsAt(f, x)]
<1>1. g \in Surjection(S, N)
  BY DEF Surjection
<1>2. IsFiniteSet(N)
  BY <1>1, FS_Surjection
<1>3. \A T \in N : IsFiniteSet(T)
  BY UnitsAtCount
<1>4. IsFiniteSet(UNION N)
  <2> HIDE DEF N
  <2> QED BY <1>2, <1>3, FS_UNION
<1>5. IsFiniteSet(Units(f))
  BY <1>4 DEF Units
<1> QED BY <1>5, FS_CardinalityType DEF Total

\* Splitting off one point: the units at x and those everywhere else.
LEMMA TotalSplit ==
    ASSUME NEW S, IsFiniteSet(S), NEW f \in [S -> Nat], NEW x \in S
    PROVE  /\ IsFiniteSet(Units(f) \ UnitsAt(f, x))
           /\ Total(f) = Cardinality(Units(f) \ UnitsAt(f, x)) + f[x]
<1> DEFINE rest == Units(f) \ UnitsAt(f, x)
<1>1. IsFiniteSet(Units(f))
  BY TotalType
<1>2. IsFiniteSet(rest)
  BY <1>1, FS_Difference
<1>3. IsFiniteSet(UnitsAt(f, x)) /\ Cardinality(UnitsAt(f, x)) = f[x]
  BY UnitsAtCount
<1>4. UnitsAt(f, x) \subseteq Units(f)
  BY DEF Units
<1>5. Units(f) = rest \cup UnitsAt(f, x)
  BY <1>4
<1>6. rest \cap UnitsAt(f, x) = {}
  OBVIOUS
<1>7. Cardinality(rest \cup UnitsAt(f, x))
        = Cardinality(rest) + Cardinality(UnitsAt(f, x))
            - Cardinality(rest \cap UnitsAt(f, x))
  <2> HIDE DEF rest
  <2> QED BY <1>2, <1>3, FS_Union
<1>8. Cardinality(rest) \in Nat
  BY <1>2, FS_CardinalityType
<1>9. Total(f) = Cardinality(rest) + f[x]
  <2> HIDE DEF rest
  <2> QED BY <1>3, <1>5, <1>6, <1>7, <1>8, FS_EmptySet DEF Total
<1> QED BY <1>2, <1>9

\* Two ledgers that differ at x only have the same units away from x.
LEMMA SameElsewhere ==
    ASSUME NEW S, NEW f \in [S -> Nat], NEW g \in [S -> Nat], NEW x \in S,
           \A y \in S \ {x} : g[y] = f[y]
    PROVE  Units(g) \ UnitsAt(g, x) = Units(f) \ UnitsAt(f, x)
<1>2. \A y \in S \ {x} : UnitsAt(g, y) = UnitsAt(f, y)
  BY DEF UnitsAt
<1>3. \A h \in [S -> Nat] :
         Units(h) \ UnitsAt(h, x) = UNION {UnitsAt(h, y) : y \in S \ {x}}
  <2> SUFFICES ASSUME NEW h \in [S -> Nat], NEW u
               PROVE  u \in Units(h) \ UnitsAt(h, x)
                        <=> u \in UNION {UnitsAt(h, y) : y \in S \ {x}}
    OBVIOUS
  <2>1. u \in Units(h) <=> \E y \in S : u \in UnitsAt(h, y)
    BY DEF Units
  <2>2. \A y \in S \ {x} : u \in UnitsAt(h, y) => u \notin UnitsAt(h, x)
    BY DEF UnitsAt
  <2> QED BY <2>1, <2>2
<1>4. {UnitsAt(g, y) : y \in S \ {x}} = {UnitsAt(f, y) : y \in S \ {x}}
  BY <1>2
<1> QED BY <1>3, <1>4

\* Changing a ledger at one point changes its total by the difference there.
THEOREM TotalUpdate ==
    ASSUME NEW S, IsFiniteSet(S), NEW f \in [S -> Nat], NEW g \in [S -> Nat],
           NEW x \in S, \A y \in S \ {x} : g[y] = f[y]
    PROVE  Total(g) + f[x] = Total(f) + g[x]
<1> DEFINE rest == Units(f) \ UnitsAt(f, x)
<1>1. Units(g) \ UnitsAt(g, x) = rest
  BY SameElsewhere
<1>2. Total(f) = Cardinality(rest) + f[x]
  BY TotalSplit
<1>3. Total(g) = Cardinality(Units(g) \ UnitsAt(g, x)) + g[x]
  BY TotalSplit
<1>4. Cardinality(rest) \in Nat
  <2>1. IsFiniteSet(rest)
    BY TotalSplit
  <2> QED BY <2>1, FS_CardinalityType
<1> HIDE DEF rest
<1> QED BY <1>1, <1>2, <1>3, <1>4

\* A ledger that keeps nothing anywhere has total zero.
LEMMA TotalZero ==
    ASSUME NEW S, NEW f, f = [x \in S |-> 0]
    PROVE  Total(f) = 0
<1>1. Units(f) = {}
  BY DEF Units, UnitsAt
<1> QED BY <1>1, FS_EmptySet DEF Total
=============================================================================
