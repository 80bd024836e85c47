------------------------------- MODULE Totals -------------------------------
(***************************************************************************)
(* The sum of a function over its domain, as a cardinality.                *)
(*                                                                         *)
(* An amount of n wei (or tokens) kept at x is the set of n units          *)
(* <<x, 1>> ... <<x, n>>; what a ledger keeps in all is the number of the  *)
(* units it keeps.  Said this way the sum needs no recursion, so the       *)
(* lemmas of TotalsProofs follow from the theorems on finite sets.         *)
(***************************************************************************)
EXTENDS Naturals, FiniteSets

\* The units that f keeps at one point of its domain.
UnitsAt(f, x) == {x} \X (1 .. f[x])

\* All the units that f keeps.
Units(f) == UNION {UnitsAt(f, x) : x \in DOMAIN f}

\* The sum of f over its domain, for a finite domain and natural values.
Total(f) == Cardinality(Units(f))
=============================================================================
