----------------------------- MODULE ProofBasics -----------------------------
(***************************************************************************)
(* What the proofs of several components need: induction, sums over finite *)
(* sets, and division.  The models add up balances, charges, reservations  *)
(* and dollars with FoldFunction; here is what such a sum is worth when    *)
(* one term is taken out, changed or added.                                *)
(*                                                                         *)
(* Induction is stated for sets: a property of a natural number or of the  *)
(* subsets of a finite set is the set of those that have it, and the least *)
(* or the smallest one outside it is what a proof refutes.                 *)
(***************************************************************************)
EXTENDS Integers, FiniteSets, Functions, FiniteSetTheorems, WellFoundedInduction, TLAPS

\* The sum of f[x] for x in S.
SumOver(f, S) == FoldFunction(+, 0, [x \in S |-> f[x]])

---------------------------------------------------------------------------
(* Induction. *)

\* A nonempty set of naturals has a least element.
LEMMA LeastNatural ==
    ASSUME NEW T, T \subseteq Nat, T # {}
    PROVE  \E x \in T : \A y \in T : x <= y
<1>1. PICK x \in T : \A y \in T : ~(<<y, x>> \in OpToRel(<, Nat))
  BY NatLessThanWellFounded, WFMin
<1>2. ASSUME NEW y \in T
      PROVE  x <= y
  <2>1. ~(y < x)
    BY <1>1 DEF OpToRel
  <2> QED
    BY <2>1
<1> QED
  BY <1>2

\* A set with 0 and with the successor of each of its members has every natural.
LEMMA NaturalInduction ==
    ASSUME NEW T, 0 \in T, \A n \in Nat : n \in T => n + 1 \in T
    PROVE  Nat \subseteq T
<1> SUFFICES ASSUME Nat \ T # {} PROVE FALSE
  OBVIOUS
<1>1. PICK x \in Nat \ T : \A y \in Nat \ T : x <= y
  BY LeastNatural
<1>2. x # 0 /\ x - 1 \in Nat
  BY <1>1
<1>3. x - 1 \in T
  BY <1>1, <1>2
<1> QED
  BY <1>1, <1>2, <1>3

\* A nonempty family of subsets of a finite set has a minimal one: the family has none
\* of its proper subsets.
LEMMA MinimalSubset ==
    ASSUME NEW S, IsFiniteSet(S), NEW F, F \subseteq SUBSET S, F # {}
    PROVE  \E T \in F : \A U \in SUBSET T : U # T => U \notin F
<1>1. PICK T \in F : \A U \in F : ~(<<U, T>> \in StrictSubsetOrdering(S))
  <2>1. F \subseteq FiniteSubsetsOf(S)
    BY FS_FiniteSubsetsOfFinite
  <2> QED
    BY <2>1, FS_StrictSubsetOrderingWellFounded, WFMin
<1>2. ASSUME NEW U \in SUBSET T, U # T, U \in F
      PROVE  FALSE
  BY <1>1, <1>2 DEF StrictSubsetOrdering
<1> QED
  BY <1>2

---------------------------------------------------------------------------
(* The table of partial sums a fold computes. *)

Pick(s) == CHOOSE x \in s : TRUE

IsTable(h, f, S) ==
    h = [s \in SUBSET S |-> IF s = {} THEN 0 ELSE f[Pick(s)] + h[s \ {Pick(s)}]]

LEMMA PickIn == \A s : s # {} => Pick(s) \in s
BY DEF Pick

\* Two tables agree on the sets both have.
LEMMA TableUnique ==
    ASSUME NEW f, NEW S, IsFiniteSet(S), NEW R, S \subseteq R,
           NEW g, IsTable(g, f, S), NEW h, IsTable(h, f, R)
    PROVE  \A s \in SUBSET S : g[s] = h[s]
<1> DEFINE F == {s \in SUBSET S : g[s] # h[s]}
<1> SUFFICES ASSUME F # {} PROVE FALSE
  OBVIOUS
<1>1. PICK T \in F : \A U \in SUBSET T : U # T => U \notin F
  <2>1. F \subseteq SUBSET S
    OBVIOUS
  <2> QED
    <3> HIDE DEF F
    <3> QED
      BY <2>1, MinimalSubset
<1>2. T # {} /\ Pick(T) \in T
  <2>1. g[{}] = 0 /\ h[{}] = 0
    BY DEF IsTable
  <2> QED
    BY <2>1, PickIn
<1>3. g[T \ {Pick(T)}] = h[T \ {Pick(T)}]
  BY <1>1, <1>2
<1>4. /\ g[T] = f[Pick(T)] + g[T \ {Pick(T)}]
      /\ h[T] = f[Pick(T)] + h[T \ {Pick(T)}]
  BY <1>2 DEF IsTable
<1> QED
  BY <1>3, <1>4

\* There is one, so the recursive function of the fold is what its equation says.
LEMMA TableExists ==
    ASSUME NEW f, NEW S, IsFiniteSet(S)
    PROVE  \E h : IsTable(h, f, S)
<1> DEFINE F == {T \in SUBSET S : ~ \E h : IsTable(h, f, T)}
<1> SUFFICES ASSUME F # {} PROVE FALSE
  OBVIOUS
<1>1. PICK T \in F : \A U \in SUBSET T : U # T => U \notin F
  <2>1. F \subseteq SUBSET S
    OBVIOUS
  <2> QED
    <3> HIDE DEF F
    <3> QED
      BY <2>1, MinimalSubset
<1> DEFINE tab(U) == CHOOSE h : IsTable(h, f, U)
<1> HIDE DEF F
<1>2. \A U \in SUBSET T : U # T => IsTable(tab(U), f, U)
  <2>1. \A U \in SUBSET T : U # T => \E h : IsTable(h, f, U)
    BY <1>1 DEF F
  <2> QED
    BY <2>1
<1>3. \A U \in SUBSET T : IsFiniteSet(U)
  BY FS_Subset DEF F
<1> DEFINE h == [s \in SUBSET T |->
                    IF s = {} THEN 0 ELSE f[Pick(s)] + tab(s \ {Pick(s)})[s \ {Pick(s)}]]
<1>4. ASSUME NEW s \in SUBSET T, s # {}
      PROVE  h[s \ {Pick(s)}] = tab(s \ {Pick(s)})[s \ {Pick(s)}]
  <2> DEFINE U == s \ {Pick(s)}
  <2>1. U \in SUBSET T /\ U # T
    BY <1>4, PickIn
  <2>2. IsTable(tab(U), f, U)
    BY <1>2, <2>1
  <2>3. CASE U = {}
    <3>1. tab(U)[U] = 0
      BY <2>2, <2>3 DEF IsTable
    <3> QED
      BY <2>1, <2>3, <3>1
  <2>4. CASE U # {}
    <3> DEFINE V == U \ {Pick(U)}
    <3>1. V \in SUBSET T /\ V # T /\ V \subseteq U /\ IsFiniteSet(V)
      BY <2>1, <1>3
    <3>2. IsTable(tab(V), f, V)
      BY <1>2, <3>1
    <3>3. \A x \in SUBSET V : tab(V)[x] = tab(U)[x]
      <4> HIDE DEF tab, U, V
      <4> QED
      BY <2>2, <3>1, <3>2, TableUnique
    <3>4. tab(V)[V] = tab(U)[V]
      BY <3>3
    <3>5. tab(U)[U] = f[Pick(U)] + tab(U)[V]
      <4> HIDE DEF tab
      <4> QED
      BY <2>2, <2>4 DEF IsTable
    <3>6. h[U] = f[Pick(U)] + tab(V)[V]
      <4> HIDE DEF tab
      <4> QED
      BY <2>1, <2>4
    <3> QED
      <4> HIDE DEF h, tab, V
      <4> QED
      BY <3>4, <3>5, <3>6
  <2> QED
    BY <2>3, <2>4
<1>5. IsTable(h, f, T)
  <2> HIDE DEF tab
  <2> QED
  BY <1>4 DEF IsTable
<1> QED
  BY <1>1, <1>5 DEF F

\* The sum of f over S is the table's last entry.
LEMMA SumIsTable ==
    ASSUME NEW f, NEW S, IsFiniteSet(S)
    PROVE  \E h : IsTable(h, f, S) /\ SumOver(f, S) = h[S]
<1> DEFINE g == [x \in S |-> f[x]]
<1>1. \E h : IsTable(h, g, S)
  BY TableExists
<1>2. SumOver(f, S) = (CHOOSE h : IsTable(h, g, S))[S]
  BY DEF SumOver, FoldFunction, FoldFunctionOnSet, MapThenFoldSet, IsTable, Pick
<1>3. PICK h : IsTable(h, g, S) /\ SumOver(f, S) = h[S]
  BY <1>1, <1>2
<1>4. \A s \in SUBSET S : s # {} => g[Pick(s)] = f[Pick(s)]
  BY PickIn
<1>5. IsTable(h, f, S)
  <2> HIDE DEF g
  <2> QED
  BY <1>3, <1>4 DEF IsTable
<1> QED
  BY <1>3, <1>5

---------------------------------------------------------------------------
(* The value of a sum. *)

LEMMA SumEmpty == \A f : SumOver(f, {}) = 0
<1> SUFFICES ASSUME NEW f PROVE SumOver(f, {}) = 0
  OBVIOUS
<1>1. PICK h : IsTable(h, f, {}) /\ SumOver(f, {}) = h[{}]
  BY SumIsTable, FS_EmptySet
<1> QED
  BY <1>1 DEF IsTable

\* The recursive equation of the fold.
LEMMA SumPick ==
    ASSUME NEW f, NEW S, IsFiniteSet(S), S # {}
    PROVE  SumOver(f, S) = f[Pick(S)] + SumOver(f, S \ {Pick(S)})
<1> DEFINE R == S \ {Pick(S)}
<1>1. PICK h : IsTable(h, f, S) /\ SumOver(f, S) = h[S]
  BY SumIsTable
<1>2. IsFiniteSet(R) /\ R \subseteq S
  BY FS_Subset
<1>3. PICK g : IsTable(g, f, R) /\ SumOver(f, R) = g[R]
  BY <1>2, SumIsTable
<1>4. g[R] = h[R]
  <2> HIDE DEF R
  <2>1. \A s \in SUBSET R : g[s] = h[s]
    BY <1>1, <1>2, <1>3, TableUnique
  <2> QED
    BY <2>1
<1>5. h[S] = f[Pick(S)] + h[R]
  BY <1>1 DEF IsTable
<1> QED
  BY <1>1, <1>3, <1>4, <1>5

\* Only the terms matter.
LEMMA SumSame ==
    ASSUME NEW f, NEW g, NEW S, \A x \in S : f[x] = g[x]
    PROVE  SumOver(f, S) = SumOver(g, S)
<1>1. [x \in S |-> f[x]] = [x \in S |-> g[x]]
  OBVIOUS
<1> QED
  BY <1>1 DEF SumOver

\* Integer terms sum to an integer, and natural terms to a natural.
LEMMA SumInt ==
    ASSUME NEW f, NEW S, IsFiniteSet(S), \A x \in S : f[x] \in Int
    PROVE  SumOver(f, S) \in Int
<1> DEFINE F == {T \in SUBSET S : SumOver(f, T) \notin Int}
<1> SUFFICES ASSUME F # {} PROVE FALSE
  OBVIOUS
<1>1. PICK T \in F : \A U \in SUBSET T : U # T => U \notin F
  <2>1. F \subseteq SUBSET S
    OBVIOUS
  <2> QED
    <3> HIDE DEF F
    <3> QED
      BY <2>1, MinimalSubset
<1>2. IsFiniteSet(T)
  BY FS_Subset
<1>3. T # {} /\ Pick(T) \in T
  BY SumEmpty, PickIn
<1>4. SumOver(f, T \ {Pick(T)}) \in Int
  BY <1>1, <1>3
<1>5. SumOver(f, T) = f[Pick(T)] + SumOver(f, T \ {Pick(T)})
  BY <1>2, <1>3, SumPick
<1> QED
  BY <1>3, <1>4, <1>5

\* A term can be taken out, whichever it is.
LEMMA SumTakeOut ==
    ASSUME NEW f, NEW S, IsFiniteSet(S), \A x \in S : f[x] \in Int, NEW y \in S
    PROVE  SumOver(f, S) = f[y] + SumOver(f, S \ {y})
<1> DEFINE F == {T \in SUBSET S : \E x \in T : SumOver(f, T) # f[x] + SumOver(f, T \ {x})}
<1> SUFFICES ASSUME F # {} PROVE FALSE
  OBVIOUS
<1>1. PICK T \in F : \A U \in SUBSET T : U # T => U \notin F
  <2>1. F \subseteq SUBSET S
    OBVIOUS
  <2> QED
    <3> HIDE DEF F
    <3> QED
      BY <2>1, MinimalSubset
<1>2. PICK x \in T : SumOver(f, T) # f[x] + SumOver(f, T \ {x})
  BY <1>1
<1> DEFINE p == Pick(T)
<1>3. p \in T /\ IsFiniteSet(T) /\ IsFiniteSet(T \ {x}) /\ T \subseteq S
  BY PickIn, FS_Subset
<1> HIDE DEF p
<1>4. SumOver(f, T) = f[p] + SumOver(f, T \ {p})
  BY <1>3, SumPick DEF p
<1>5. p # x
  BY <1>2, <1>4
<1>6. SumOver(f, T \ {p}) = f[x] + SumOver(f, (T \ {p}) \ {x})
  <2>1. T \ {p} \notin F /\ x \in T \ {p}
    BY <1>1, <1>3, <1>5
  <2> QED
    BY <2>1, <1>3
<1>7. SumOver(f, T \ {x}) = f[p] + SumOver(f, (T \ {x}) \ {p})
  <2>1. T \ {x} \notin F /\ p \in T \ {x}
    BY <1>1, <1>3, <1>5
  <2> QED
    BY <2>1, <1>3
<1>8. (T \ {x}) \ {p} = (T \ {p}) \ {x}
  OBVIOUS
<1>9. f[p] \in Int /\ f[x] \in Int /\ SumOver(f, (T \ {p}) \ {x}) \in Int
  <2>1. IsFiniteSet((T \ {p}) \ {x})
    BY <1>3, FS_Subset
  <2>2. \A z \in (T \ {p}) \ {x} : f[z] \in Int
    BY <1>3
  <2> QED
    BY <1>3, <2>1, <2>2, SumInt
<1> DEFINE rest == SumOver(f, (T \ {p}) \ {x})
<1>10. SumOver(f, T) = f[p] + (f[x] + rest) /\ SumOver(f, T \ {x}) = f[p] + rest
  BY <1>4, <1>6, <1>7, <1>8
<1>11. f[p] \in Int /\ f[x] \in Int /\ rest \in Int
  BY <1>9
<1> HIDE DEF rest
<1>12. f[p] + (f[x] + rest) = f[x] + (f[p] + rest)
  BY <1>11
<1> QED
  BY <1>2, <1>10, <1>12

---------------------------------------------------------------------------
(* How a sum changes. *)

\* An element joins the set.
LEMMA SumPut ==
    ASSUME NEW f, NEW S, IsFiniteSet(S), NEW y, y \notin S,
           \A x \in S \cup {y} : f[x] \in Int
    PROVE  SumOver(f, S \cup {y}) = f[y] + SumOver(f, S)
<1>1. IsFiniteSet(S \cup {y}) /\ (S \cup {y}) \ {y} = S
  BY FS_AddElement
<1> QED
  BY <1>1, SumTakeOut

\* One term changes.
LEMMA SumChange ==
    ASSUME NEW f, NEW g, NEW S, IsFiniteSet(S), NEW y \in S,
           \A x \in S : f[x] \in Int /\ g[x] \in Int,
           \A x \in S : x # y => g[x] = f[x]
    PROVE  SumOver(g, S) = SumOver(f, S) - f[y] + g[y]
<1> DEFINE R == S \ {y}
<1>1. IsFiniteSet(R)
  BY FS_Subset
<1>2. SumOver(f, S) = f[y] + SumOver(f, R) /\ SumOver(g, S) = g[y] + SumOver(g, R)
  BY SumTakeOut
<1>3. SumOver(g, R) = SumOver(f, R)
  BY SumSame
<1>4. SumOver(f, R) \in Int /\ f[y] \in Int /\ g[y] \in Int
  BY <1>1, SumInt
<1> QED
  BY <1>2, <1>3, <1>4

\* A sum of larger terms is larger.
LEMMA SumMonotone ==
    ASSUME NEW f, NEW g, NEW S, IsFiniteSet(S),
           \A x \in S : f[x] \in Int /\ g[x] \in Int /\ f[x] <= g[x]
    PROVE  SumOver(f, S) <= SumOver(g, S)
<1> DEFINE F == {T \in SUBSET S : ~(SumOver(f, T) <= SumOver(g, T))}
<1> SUFFICES ASSUME F # {} PROVE FALSE
  OBVIOUS
<1>1. PICK T \in F : \A U \in SUBSET T : U # T => U \notin F
  <2>1. F \subseteq SUBSET S
    OBVIOUS
  <2> QED
    <3> HIDE DEF F
    <3> QED
      BY <2>1, MinimalSubset
<1>2. IsFiniteSet(T) /\ T \subseteq S
  BY FS_Subset
<1>3. T # {} /\ Pick(T) \in T
  BY SumEmpty, PickIn
<1> DEFINE R == T \ {Pick(T)}
<1>4. SumOver(f, R) <= SumOver(g, R)
  BY <1>1, <1>3
<1>5. IsFiniteSet(R) /\ \A x \in R : f[x] \in Int /\ g[x] \in Int
  BY <1>2, FS_Subset
<1>6. SumOver(f, R) \in Int /\ SumOver(g, R) \in Int
  <2> HIDE DEF R
  <2> QED
    BY <1>5, SumInt
<1>7. SumOver(f, T) = f[Pick(T)] + SumOver(f, R) /\ SumOver(g, T) = g[Pick(T)] + SumOver(g, R)
  BY <1>2, <1>3, SumPick
<1>8. f[Pick(T)] \in Int /\ g[Pick(T)] \in Int /\ f[Pick(T)] <= g[Pick(T)]
  BY <1>2, <1>3
<1>9. SumOver(f, T) <= SumOver(g, T)
  <2> HIDE DEF R
  <2> QED
    BY <1>4, <1>6, <1>7, <1>8
<1> QED
  BY <1>1, <1>9

\* Zeros sum to zero.
LEMMA SumZero ==
    ASSUME NEW f, NEW S, IsFiniteSet(S), \A x \in S : f[x] = 0
    PROVE  SumOver(f, S) = 0
<1> DEFINE F == {T \in SUBSET S : SumOver(f, T) # 0}
<1> SUFFICES ASSUME F # {} PROVE FALSE
  OBVIOUS
<1>1. PICK T \in F : \A U \in SUBSET T : U # T => U \notin F
  <2>1. F \subseteq SUBSET S
    OBVIOUS
  <2> QED
    <3> HIDE DEF F
    <3> QED
      BY <2>1, MinimalSubset
<1>2. IsFiniteSet(T) /\ T \subseteq S
  BY FS_Subset
<1>3. T # {} /\ Pick(T) \in T
  BY SumEmpty, PickIn
<1>4. SumOver(f, T \ {Pick(T)}) = 0
  BY <1>1, <1>3
<1>5. SumOver(f, T) = f[Pick(T)] + SumOver(f, T \ {Pick(T)})
  BY <1>2, <1>3, SumPick
<1> QED
  BY <1>1, <1>2, <1>3, <1>4, <1>5

\* Natural terms sum to a natural.
LEMMA SumNat ==
    ASSUME NEW f, NEW S, IsFiniteSet(S), \A x \in S : f[x] \in Nat
    PROVE  SumOver(f, S) \in Nat
<1> DEFINE zero == [x \in S |-> 0]
<1>1. SumOver(zero, S) = 0
  BY SumZero
<1>2. SumOver(zero, S) <= SumOver(f, S)
  <2>1. \A x \in S : zero[x] \in Int /\ f[x] \in Int /\ zero[x] <= f[x]
    OBVIOUS
  <2> HIDE DEF zero
  <2> QED
    BY <2>1, SumMonotone
<1>3. SumOver(f, S) \in Int
  BY SumInt
<1> QED
  BY <1>1, <1>2, <1>3

\* One term of a sum of naturals is at most the sum.
LEMMA SumHasTerm ==
    ASSUME NEW f, NEW S, IsFiniteSet(S), \A x \in S : f[x] \in Nat, NEW y \in S
    PROVE  f[y] <= SumOver(f, S)
<1>1. SumOver(f, S) = f[y] + SumOver(f, S \ {y})
  BY SumTakeOut
<1>2. SumOver(f, S \ {y}) \in Nat
  BY FS_Subset, SumNat
<1> QED
  BY <1>1, <1>2

\* A sum can be split.
LEMMA SumUnion ==
    ASSUME NEW f, NEW S, IsFiniteSet(S), NEW R, IsFiniteSet(R), S \cap R = {},
           \A x \in S \cup R : f[x] \in Int
    PROVE  SumOver(f, S \cup R) = SumOver(f, S) + SumOver(f, R)
<1> DEFINE F == {T \in SUBSET R : SumOver(f, S \cup T) # SumOver(f, S) + SumOver(f, T)}
<1> SUFFICES ASSUME F # {} PROVE FALSE
  OBVIOUS
<1>1. PICK T \in F : \A U \in SUBSET T : U # T => U \notin F
  <2>1. F \subseteq SUBSET R
    OBVIOUS
  <2> QED
    <3> HIDE DEF F
    <3> QED
      BY <2>1, MinimalSubset
<1>2. SumOver(f, S) \in Int
  BY SumInt
<1>3. T # {}
  <2>1. S \cup {} = S
    OBVIOUS
  <2> QED
    BY <1>2, <2>1, SumEmpty
<1>4. PICK y : y \in T
  BY <1>3
<1> DEFINE U == T \ {y}
<1>5. /\ y \notin S \cup U /\ U \in SUBSET T /\ U # T
      /\ T = U \cup {y} /\ S \cup T = (S \cup U) \cup {y}
  BY <1>4
<1>6. SumOver(f, S \cup U) = SumOver(f, S) + SumOver(f, U)
  BY <1>1, <1>5
<1>7. IsFiniteSet(U) /\ IsFiniteSet(S \cup U)
  <2>1. IsFiniteSet(U)
    BY FS_Subset
  <2> HIDE DEF U
  <2> QED
    BY <2>1, FS_Union
<1>8. \A x \in (S \cup U) \cup {y} : f[x] \in Int
  BY <1>4
<1> HIDE DEF U
<1>9. SumOver(f, T) = f[y] + SumOver(f, U) /\ SumOver(f, S \cup T) = f[y] + SumOver(f, S \cup U)
  BY <1>5, <1>7, <1>8, SumPut, ZenonT(40)
<1>10. SumOver(f, U) \in Int /\ f[y] \in Int
  BY <1>7, <1>8, SumInt
<1> QED
  BY <1>1, <1>2, <1>6, <1>9, <1>10

\* Fewer natural terms sum to less.
LEMMA SumSubset ==
    ASSUME NEW f, NEW R, IsFiniteSet(R), \A x \in R : f[x] \in Nat, NEW S \in SUBSET R
    PROVE  SumOver(f, S) <= SumOver(f, R)
<1> DEFINE Q == R \ S
<1>1. IsFiniteSet(S) /\ IsFiniteSet(Q) /\ S \cap Q = {} /\ R = S \cup Q
  BY FS_Subset
<1> HIDE DEF Q
<1>2. SumOver(f, R) = SumOver(f, S) + SumOver(f, Q)
  BY <1>1, SumUnion
<1>3. SumOver(f, S) \in Nat /\ SumOver(f, Q) \in Nat
  BY <1>1, SumNat
<1> QED
  BY <1>2, <1>3

---------------------------------------------------------------------------
(* Division. *)

\* The quotient of a division brackets the dividend.
LEMMA Division ==
    ASSUME NEW a \in Nat, NEW d \in Nat, d > 0
    PROVE  /\ a \div d \in Nat
           /\ d * (a \div d) <= a
           /\ a < d * (a \div d) + d
BY SMT

\* Only the quotient brackets it.
LEMMA QuotientUnique ==
    ASSUME NEW a \in Nat, NEW d \in Nat, d > 0, NEW k \in Nat,
           k * d <= a, a < k * d + d
    PROVE  a \div d = k
<1> DEFINE q == a \div d
<1>1. q \in Nat /\ d * q <= a /\ a < d * q + d
  BY Division
<1> HIDE DEF q
<1>2. q = k
  BY <1>1, SMT
<1> QED
  BY <1>2 DEF q

\* A quotient is at most the dividend.
LEMMA QuotientBound ==
    ASSUME NEW a \in Nat, NEW d \in Nat, d > 0
    PROVE  a \div d <= a
<1>1. a \div d \in Nat /\ d * (a \div d) <= a
  BY Division
<1> DEFINE q == a \div d
<1> HIDE DEF q
<1>2. q \in Nat /\ d * q <= a => q <= a
  BY SMT
<1> QED
  BY <1>1, <1>2 DEF q

\* The multiple of d at or below a is in a's period, and is the only multiple there.
LEMMA GridPoint ==
    ASSUME NEW a \in Nat, NEW d \in Nat, d > 0, NEW k \in Nat
    PROVE  /\ (k * d) \div d = k
           /\ k * d <= a => k <= a \div d
           /\ k <= a \div d => k * d <= a
<1> DEFINE q == a \div d
<1>1. q \in Nat /\ d * q <= a /\ a < d * q + d
  BY Division
<1>2. (k * d) \div d = k
  <2>1. k * d \in Nat
    BY SMT
  <2> QED
    BY <2>1, QuotientUnique
<1> HIDE DEF q
<1>3. (k * d <= a => k <= q) /\ (k <= q => k * d <= a)
  BY <1>1, SMT
<1> QED
  BY <1>2, <1>3 DEF q
=============================================================================
