--------------------------- MODULE AmountsProofs ---------------------------
(***************************************************************************)
(* How the total of a ledger changes.  These lemmas carry the solvency     *)
(* proofs: every handler changes one account of a ledger, or one account   *)
(* of several ledgers.                                                     *)
(***************************************************************************)
EXTENDS Amounts, FiniteSetTheorems, TLAPS

\* The units of a ledger with finitely many accounts are finitely many.
LEMMA UnitsFinite ==
  ASSUME NEW S, IsFiniteSet(S), NEW f \in [S -> Nat]
  PROVE  IsFiniteSet(Units(f))
<1> DEFINE Row == [x \in S |-> {x} \X (1 .. f[x])]
           Rows == {{x} \X (1 .. f[x]) : x \in S}
<1>1. IsFiniteSet(Rows)
  <2>1. Row \in Surjection(S, Rows)
    BY DEF Surjection
  <2>2. QED
    BY <2>1, FS_Surjection
<1>2. \A x \in S : IsFiniteSet({x} \X (1 .. f[x]))
  <2> TAKE x \in S
  <2>1. IsFiniteSet({x})
    BY FS_Singleton
  <2>2. IsFiniteSet(1 .. f[x])
    BY FS_Interval
  <2>3. QED
    BY <2>1, <2>2, FS_Product
<1>3. IsFiniteSet(UNION Rows)
  BY <1>1, <1>2, FS_UNION
<1>4. QED
  BY <1>3 DEF Units

\* The total of a ledger is a natural number.
LEMMA TotalType ==
  ASSUME NEW S, IsFiniteSet(S), NEW f \in [S -> Nat]
  PROVE  Total(f) \in Nat
BY UnitsFinite, FS_CardinalityType DEF Total

\* A unit belongs to an account of the ledger.
LEMMA UnitsMember ==
  ASSUME NEW S, NEW f \in [S -> Nat], NEW x, NEW i
  PROVE  <<x, i>> \in Units(f) <=> x \in S /\ i \in 1 .. f[x]
BY DEF Units

\* The number of units in one row is the amount of that account.
LEMMA RowCardinality ==
  ASSUME NEW x, NEW n \in Nat
  PROVE  /\ IsFiniteSet({x} \X (1 .. n))
         /\ Cardinality({x} \X (1 .. n)) = n
<1>1. IsFiniteSet({x}) /\ Cardinality({x}) = 1
  BY FS_Singleton
<1>2. IsFiniteSet(1 .. n) /\ Cardinality(1 .. n) = n
  BY FS_Interval
<1>3. Cardinality({x} \X (1 .. n)) = 1 * n
  BY <1>1, <1>2, FS_Product
<1>4. QED
  BY <1>1, <1>2, <1>3, FS_Product

\* Taking one account out of a ledger takes exactly its amount out of the total.
LEMMA TotalRemove ==
  ASSUME NEW S, IsFiniteSet(S), NEW f \in [S -> Nat], NEW x \in S
  PROVE  Total(f) = Total([y \in S \ {x} |-> f[y]]) + f[x]
<1> DEFINE h == [y \in S \ {x} |-> f[y]]
           row == {x} \X (1 .. f[x])
<1>1. h \in [S \ {x} -> Nat]
  OBVIOUS
<1>2. IsFiniteSet(S \ {x})
  BY FS_RemoveElement
<1>3. IsFiniteSet(Units(h))
  BY <1>1, <1>2, UnitsFinite
<1>4. IsFiniteSet(row) /\ Cardinality(row) = f[x]
  BY RowCardinality
<1>5. Units(f) = Units(h) \cup row
  BY DEF Units
<1>6. Units(h) \cap row = {}
  BY DEF Units
<1>7. Cardinality(Units(h) \cap row) = 0
  BY <1>6, FS_EmptySet
<1> HIDE DEF h, row
<1>8. Cardinality(Units(h)) \in Nat
  BY <1>3, FS_CardinalityType
<1>9. Cardinality(Units(f)) = Cardinality(Units(h)) + Cardinality(row) - 0
  BY <1>3, <1>4, <1>5, <1>7, FS_Union
<1>10. QED
  BY <1>4, <1>8, <1>9 DEF Total, h

\* Two ledgers that differ at one account only differ in total by that account.
LEMMA TotalChange ==
  ASSUME NEW S, IsFiniteSet(S), NEW f \in [S -> Nat], NEW g \in [S -> Nat],
         NEW x \in S, \A y \in S \ {x} : g[y] = f[y]
  PROVE  Total(g) = Total(f) - f[x] + g[x]
<1>1. [y \in S \ {x} |-> g[y]] = [y \in S \ {x} |-> f[y]]
  OBVIOUS
<1>2. Total(g) = Total([y \in S \ {x} |-> g[y]]) + g[x]
  BY TotalRemove
<1>3. Total(f) = Total([y \in S \ {x} |-> f[y]]) + f[x]
  BY TotalRemove
<1>4. [y \in S \ {x} |-> f[y]] \in [S \ {x} -> Nat] /\ IsFiniteSet(S \ {x})
  BY FS_RemoveElement
<1>5. Total([y \in S \ {x} |-> f[y]]) \in Nat
  BY <1>4, TotalType
<1>6. QED
  BY <1>1, <1>2, <1>3, <1>5

\* A ledger of zeros totals zero.
LEMMA TotalZero ==
  ASSUME NEW S, NEW f \in [S -> Nat], \A x \in S : f[x] = 0
  PROVE  Total(f) = 0
<1>1. Units(f) = {}
  BY DEF Units
<1>2. QED
  BY <1>1, FS_EmptySet DEF Total

\* No account holds more than the total.
LEMMA TotalAtLeast ==
  ASSUME NEW S, IsFiniteSet(S), NEW f \in [S -> Nat], NEW x \in S
  PROVE  f[x] <= Total(f)
<1>1. [y \in S \ {x} |-> f[y]] \in [S \ {x} -> Nat] /\ IsFiniteSet(S \ {x})
  BY FS_RemoveElement
<1>2. Total([y \in S \ {x} |-> f[y]]) \in Nat
  BY <1>1, TotalType
<1>3. QED
  BY <1>2, TotalRemove
\* Zeroing some accounts of a ledger takes the sum of their amounts out of it.
LEMMA TotalSplit ==
  ASSUME NEW S, IsFiniteSet(S), NEW T \in SUBSET S, NEW f \in [S -> Nat],
         NEW g \in [S -> Nat], NEW h \in [T -> Nat],
         \A x \in T : g[x] = 0 /\ h[x] = f[x],
         \A x \in S \ T : g[x] = f[x]
  PROVE  Total(f) = Total(g) + Total(h)
<1>1. IsFiniteSet(T)
  BY FS_Subset
<1>2. IsFiniteSet(Units(g)) /\ IsFiniteSet(Units(h))
  BY <1>1, UnitsFinite
<1>3. Units(f) = Units(g) \cup Units(h)
  BY DEF Units
<1>4. Units(g) \cap Units(h) = {}
  BY DEF Units
<1>5. Cardinality(Units(g) \cap Units(h)) = 0
  BY <1>4, FS_EmptySet
<1>6. Total(g) \in Nat /\ Total(h) \in Nat
  BY <1>1, TotalType
<1>7. Cardinality(Units(f)) = Cardinality(Units(g)) + Cardinality(Units(h)) - 0
  BY <1>2, <1>3, <1>5, FS_Union
<1>8. QED
  BY <1>6, <1>7 DEF Total

\* Accounts that hold nothing do not count.
LEMMA TotalExtend ==
  ASSUME NEW S, NEW T \in SUBSET S, NEW f \in [T -> Nat], NEW g \in [S -> Nat],
         \A x \in T : g[x] = f[x],
         \A x \in S \ T : g[x] = 0
  PROVE  Total(g) = Total(f)
<1>1. Units(g) = Units(f)
  BY DEF Units
<1>2. QED
  BY <1>1 DEF Total

\* A new account adds what it holds.
LEMMA TotalInsert ==
  ASSUME NEW S, IsFiniteSet(S), NEW f \in [S -> Nat], NEW x, x \notin S, NEW n \in Nat,
         NEW g \in [S \cup {x} -> Nat], g[x] = n, \A y \in S : g[y] = f[y]
  PROVE  Total(g) = Total(f) + n
<1> DEFINE T == S \cup {x}
<1>1. IsFiniteSet(T) /\ x \in T /\ T \ {x} = S /\ g \in [T -> Nat]
  BY FS_AddElement
<1>2. Total(g) = Total([y \in T \ {x} |-> g[y]]) + g[x]
  BY <1>1, TotalRemove
<1>3. [y \in S |-> g[y]] = f
  OBVIOUS
<1>4. QED
  BY <1>1, <1>2, <1>3

\* Part of a ledger totals no more than all of it.
LEMMA TotalWithin ==
  ASSUME NEW T, IsFiniteSet(T), NEW S \in SUBSET T, NEW f \in [S -> Nat], NEW g \in [T -> Nat],
         \A x \in S : f[x] = g[x]
  PROVE  Total(f) \in Nat /\ Total(g) \in Nat /\ Total(f) <= Total(g)
<1>1. IsFiniteSet(S) /\ IsFiniteSet(Units(g))
  BY UnitsFinite, FS_Subset
<1>2. Units(f) \subseteq Units(g)
  BY DEF Units
<1>3. Cardinality(Units(f)) <= Cardinality(Units(g))
  BY <1>1, <1>2, FS_Subset
<1> QED
  BY <1>1, <1>3, TotalType DEF Total

=============================================================================
