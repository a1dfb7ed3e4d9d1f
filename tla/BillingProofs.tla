---- MODULE BillingProofs ----
(***************************************************************************)
(* Proofs about billing, for every set of events, rules and requests, and  *)
(* for every number of them: what an invoice bills, in which period        *)
(* an event is billed, what a repeated draft keeps, and what is asked of   *)
(* the payment provider.                                                   *)
(*                                                                         *)
(* Sums of the numbers on invoices are proved about first. They take a     *)
(* function, which a lemma can have as a parameter, and facts about them   *)
(* follow by induction over the subsets of a finite set: the sets a fact   *)
(* holds of are themselves a set, and so no operator is needed for them.   *)
(***************************************************************************)
EXTENDS Billing, FiniteSetTheorems, WellFoundedInduction, TLAPS

----
(* Induction. *)

\* A set of natural numbers that is not empty has a least element.
LEMMA LeastNatural ==
  ASSUME NEW N \in SUBSET Nat, N # {}
  PROVE  \E m \in N : \A n \in N : m <= n
<1> DEFINE R == OpToRel(<, Nat)
<1>1. IsWellFoundedOn(R, Nat)
  BY NatLessThanWellFounded
<1>2. \A x, y \in Nat : y < x => <<y, x>> \in R
  BY DEF OpToRel
<1> HIDE DEF R
<1>3. PICK m \in N : \A n \in N : ~ (<<n, m>> \in R)
  BY <1>1, WFMin
<1>4. ASSUME NEW n \in N PROVE m <= n
  <2>1. n \in Nat /\ m \in Nat
    OBVIOUS
  <2>2. ~ (n < m)
    BY <1>2, <1>3, <2>1, Zenon
  <2>3. QED
    BY <2>1, <2>2
<1>5. QED
  BY <1>4

\* A fact that holds of each subset of a finite set if it holds of all smaller
\* ones holds of the set: a subset with the fewest elements that it did not
\* hold of would be a counterexample.
LEMMA SubsetInduction ==
  ASSUME NEW S, IsFiniteSet(S), NEW Fact \in SUBSET (SUBSET S),
         \A T \in SUBSET S : (\A U \in SUBSET T : U # T => U \in Fact) => T \in Fact
  PROVE  \A T \in SUBSET S : T \in Fact
<1> DEFINE Bad == (SUBSET S) \ Fact
           Sizes == {Cardinality(T) : T \in Bad}
<1>0. \A T \in SUBSET S : IsFiniteSet(T) /\ Cardinality(T) \in Nat
  BY FS_Subset, FS_CardinalityType
<1>1. SUFFICES ASSUME Bad # {} PROVE FALSE
  OBVIOUS
<1>2. Sizes \in SUBSET Nat /\ Sizes # {}
  BY <1>0, <1>1
<1>3. PICK m \in Sizes : \A n \in Sizes : m <= n
  BY <1>2, LeastNatural
<1>4. PICK T \in Bad : Cardinality(T) = m
  BY <1>3
<1>5. ASSUME NEW U \in SUBSET T, U # T PROVE U \in Fact
  <2>1. IsFiniteSet(T) /\ Cardinality(T) \in Nat /\ Cardinality(U) \in Nat
    BY <1>0
  <2>2. Cardinality(U) < Cardinality(T)
    BY <1>5, <2>1, FS_Subset
  <2>3. U \notin Bad
    BY <1>3, <1>4, <2>1, <2>2
  <2>4. QED
    BY <2>3
<1>6. QED
  BY <1>4, <1>5

----
(* Sums. *)

\* The element that a sum takes first.
Pick(S) == CHOOSE x \in S : TRUE

\* What the sums of f over the subsets of S satisfy.
IsSum(g, f, S) ==
  g = [s \in SUBSET S |-> IF s = {} THEN 0 ELSE f[Pick(s)] + g[s \ {Pick(s)}]]

\* A sum as the library defines it, by a recursive function.
LEMMA SumUnfolded ==
  ASSUME NEW f, NEW S
  PROVE  SumFunctionOnSet(f, S) = (CHOOSE g : IsSum(g, f, S))[S]
BY DEF SumFunctionOnSet, FoldFunctionOnSet, MapThenFoldSet, IsSum, Pick

\* Functions that satisfy it agree on the sets that both are defined for.
LEMMA SumUnique ==
  ASSUME NEW f, NEW S, NEW T, NEW g, NEW h, IsSum(g, f, S), IsSum(h, f, T),
         NEW U \in SUBSET (S \cap T), IsFiniteSet(U)
  PROVE  g[U] = h[U]
<1> DEFINE Same == {u \in SUBSET U : g[u] = h[u]}
<1>1. ASSUME NEW u \in SUBSET U, \A v \in SUBSET u : v # u => v \in Same
      PROVE  u \in Same
  <2>1. CASE u = {}
    BY <2>1 DEF IsSum
  <2>2. CASE u # {}
    <3>1. Pick(u) \in u
      BY <2>2 DEF Pick
    <3>2. g[u \ {Pick(u)}] = h[u \ {Pick(u)}]
      BY <1>1, <3>1
    <3>3. /\ g[u] = f[Pick(u)] + g[u \ {Pick(u)}]
          /\ h[u] = f[Pick(u)] + h[u \ {Pick(u)}]
      BY <2>2 DEF IsSum
    <3>4. QED
      BY <3>2, <3>3
  <2>3. QED
    BY <2>1, <2>2
<1>2. U \in Same
  <2> HIDE DEF Same
  <2>1. Same \in SUBSET (SUBSET U)
    BY DEF Same
  <2>2. QED
    BY <1>1, <2>1, SubsetInduction
<1>3. QED
  BY <1>2

\* The sums of the subsets of T, each by its own recursive function.
SumsOf(f, T) == [s \in SUBSET T |-> SumFunctionOnSet(f, s)]

\* They satisfy it, and so the recursive function exists.
LEMMA SumExists ==
  ASSUME NEW f, NEW S, IsFiniteSet(S)
  PROVE  IsSum(SumsOf(f, S), f, S)
<1> DEFINE Good == {T \in SUBSET S : IsSum(SumsOf(f, T), f, T)}
<1>1. ASSUME NEW T \in SUBSET S, \A U \in SUBSET T : U # T => U \in Good
      PROVE  T \in Good
  <2> DEFINE next(s) == IF s = {} THEN 0
                        ELSE f[Pick(s)] + SumFunctionOnSet(f, s \ {Pick(s)})
             h == [s \in SUBSET T |-> next(s)]
  <2>1. ASSUME NEW U \in SUBSET T, U # T
        PROVE  SumFunctionOnSet(f, U) = next(U)
    <3> DEFINE g == CHOOSE g : IsSum(g, f, U)
    <3>1. IsSum(SumsOf(f, U), f, U)
      BY <1>1, <2>1
    <3>2. IsSum(g, f, U)
      BY <3>1, Zenon
    <3>3. SumFunctionOnSet(f, U) = g[U]
      BY SumUnfolded
    <3>4. g[U] = SumsOf(f, U)[U]
      <4> HIDE DEF g
      <4>1. IsFiniteSet(U)
        BY FS_Subset
      <4>2. QED
        BY <3>1, <3>2, <4>1, SumUnique
    <3>5. SumsOf(f, U)[U] = IF U = {} THEN 0
                            ELSE f[Pick(U)] + SumsOf(f, U)[U \ {Pick(U)}]
      BY <3>1 DEF IsSum
    <3>6. SumsOf(f, U)[U \ {Pick(U)}] = SumFunctionOnSet(f, U \ {Pick(U)})
      BY DEF SumsOf
    <3>7. QED
      BY <3>3, <3>4, <3>5, <3>6
  <2>2. IsSum(h, f, T)
    <3>1. ASSUME NEW s \in SUBSET T, s # {}
          PROVE  h[s \ {Pick(s)}] = SumFunctionOnSet(f, s \ {Pick(s)})
      <4>1. Pick(s) \in s
        BY <3>1 DEF Pick
      <4>2. s \ {Pick(s)} \in SUBSET T /\ s \ {Pick(s)} # T
        BY <4>1
      <4>3. h[s \ {Pick(s)}] = next(s \ {Pick(s)})
        BY <4>2
      <4>4. QED
        BY <2>1, <4>2, <4>3
    <3>2. \A s \in SUBSET T :
            next(s) = IF s = {} THEN 0 ELSE f[Pick(s)] + h[s \ {Pick(s)}]
      BY <3>1
    <3> HIDE DEF next
    <3>3. QED
      BY <3>2 DEF IsSum
  <2>3. SumFunctionOnSet(f, T) = next(T)
    <3> DEFINE g == CHOOSE g : IsSum(g, f, T)
    <3> HIDE DEF h
    <3>1. IsSum(g, f, T)
      BY <2>2, Zenon
    <3>2. SumFunctionOnSet(f, T) = g[T]
      BY SumUnfolded
    <3>3. g[T] = h[T]
      <4> HIDE DEF g
      <4>1. IsFiniteSet(T)
        BY FS_Subset
      <4>2. QED
        BY <2>2, <3>1, <4>1, SumUnique
    <3>4. QED
      BY <3>2, <3>3 DEF h
  <2>4. \A s \in SUBSET T : SumFunctionOnSet(f, s) = next(s)
    BY <2>1, <2>3
  <2>5. SumsOf(f, T) = h
    BY <2>4 DEF SumsOf
  <2>6. QED
    BY <2>2, <2>5
<1>2. S \in Good
  <2>1. Good \in SUBSET (SUBSET S)
    OBVIOUS
  <2> HIDE DEF Good
  <2>2. QED
    BY <1>1, <2>1, SubsetInduction
<1>3. QED
  BY <1>2

\* The equation for a finite set itself.
LEMMA SumPick ==
  ASSUME NEW f, NEW S, IsFiniteSet(S)
  PROVE  SumFunctionOnSet(f, S) =
           IF S = {} THEN 0
           ELSE f[Pick(S)] + SumFunctionOnSet(f, S \ {Pick(S)})
<1>1. IsSum(SumsOf(f, S), f, S)
  BY SumExists
<1>2. SumsOf(f, S)[S] = IF S = {} THEN 0
                        ELSE f[Pick(S)] + SumsOf(f, S)[S \ {Pick(S)}]
  BY <1>1 DEF IsSum
<1>3. QED
  BY <1>2 DEF SumsOf

\* A sum over no elements is zero.
LEMMA SumEmpty == ASSUME NEW f PROVE SumFunctionOnSet(f, {}) = 0
<1>1. IsFiniteSet({})
  BY FS_EmptySet
<1>2. QED
  BY <1>1, SumPick

\* Sums of natural numbers are natural numbers.
LEMMA SumType ==
  ASSUME NEW f, NEW S, IsFiniteSet(S), \A x \in S : f[x] \in Nat
  PROVE  SumFunctionOnSet(f, S) \in Nat
<1> DEFINE Fact == {T \in SUBSET S : SumFunctionOnSet(f, T) \in Nat}
<1>1. ASSUME NEW T \in SUBSET S, \A U \in SUBSET T : U # T => U \in Fact
      PROVE  T \in Fact
  <2>1. IsFiniteSet(T)
    BY FS_Subset
  <2>2. CASE T = {}
    BY <2>2, SumEmpty
  <2>3. CASE T # {}
    <3>1. Pick(T) \in T
      BY <2>3 DEF Pick
    <3>2. T \ {Pick(T)} \in Fact /\ f[Pick(T)] \in Nat
      BY <1>1, <3>1
    <3>3. SumFunctionOnSet(f, T) = f[Pick(T)] + SumFunctionOnSet(f, T \ {Pick(T)})
      BY <2>1, <2>3, SumPick
    <3>4. QED
      BY <3>2, <3>3
  <2>4. QED
    BY <2>2, <2>3
<1>2. Fact \in SUBSET (SUBSET S)
  OBVIOUS
<1>3. S \in Fact
  <2> HIDE DEF Fact
  <2>1. QED
    BY <1>1, <1>2, SubsetInduction
<1>4. QED
  BY <1>3

\* Any element of a finite set may be taken first.
LEMMA SumRemove ==
  ASSUME NEW f, NEW S, IsFiniteSet(S), \A x \in S : f[x] \in Nat, NEW x \in S
  PROVE  SumFunctionOnSet(f, S) = f[x] + SumFunctionOnSet(f, S \ {x})
<1> DEFINE Sum(T) == SumFunctionOnSet(f, T)
           Fact == {T \in SUBSET S : \A y \in T : Sum(T) = f[y] + Sum(T \ {y})}
<1>0. \A T \in SUBSET S : IsFiniteSet(T) /\ Sum(T) \in Nat
  BY FS_Subset, SumType
<1>1. ASSUME NEW T \in SUBSET S, \A U \in SUBSET T : U # T => U \in Fact
      PROVE  T \in Fact
  <2>1. SUFFICES ASSUME NEW y \in T PROVE Sum(T) = f[y] + Sum(T \ {y})
    OBVIOUS
  <2> DEFINE z == Pick(T)
  <2>2. z \in T
    BY DEF Pick
  <2>3. Sum(T) = f[z] + Sum(T \ {z})
    BY <1>0, <2>1, SumPick
  <2>4. CASE z = y
    BY <2>3, <2>4
  <2>5. CASE z # y
    <3> HIDE DEF z
    <3>1. Sum(T \ {z}) = f[y] + Sum((T \ {z}) \ {y})
      <4>1. T \ {z} \in Fact /\ y \in T \ {z}
        BY <1>1, <2>2, <2>5
      <4>2. QED
        BY <4>1
    <3>2. Sum(T \ {y}) = f[z] + Sum((T \ {y}) \ {z})
      <4>1. T \ {y} \in Fact /\ z \in T \ {y}
        BY <1>1, <2>2, <2>5
      <4>2. QED
        BY <4>1
    <3>3. (T \ {y}) \ {z} = (T \ {z}) \ {y}
      OBVIOUS
    <3> DEFINE rest == Sum((T \ {z}) \ {y})
    <3>4. f[y] \in Nat /\ f[z] \in Nat /\ rest \in Nat
      BY <1>0, <2>2
    <3>5. Sum(T) = f[z] + (f[y] + rest)
      BY <2>3, <3>1
    <3>6. Sum(T \ {y}) = f[z] + rest
      BY <3>2, <3>3
    <3> HIDE DEF Sum, rest
    <3>7. QED
      BY <3>4, <3>5, <3>6
  <2>6. QED
    BY <2>4, <2>5
<1>2. Fact \in SUBSET (SUBSET S)
  OBVIOUS
<1>3. S \in Fact
  <2> HIDE DEF Fact
  <2>1. QED
    BY <1>1, <1>2, SubsetInduction
<1>4. QED
  BY <1>3

\* Functions that agree on a finite set have the same sum over it, and smaller
\* ones have no larger sum.
LEMMA SumCompare ==
  ASSUME NEW f, NEW g, NEW S, IsFiniteSet(S),
         \A x \in S : f[x] \in Nat /\ g[x] \in Nat /\ f[x] <= g[x]
  PROVE  /\ SumFunctionOnSet(f, S) <= SumFunctionOnSet(g, S)
         /\ (\A x \in S : f[x] = g[x]) =>
              SumFunctionOnSet(f, S) = SumFunctionOnSet(g, S)
<1> DEFINE F(T) == SumFunctionOnSet(f, T)
           G(T) == SumFunctionOnSet(g, T)
           Fact == {T \in SUBSET S : F(T) <= G(T)
                      /\ ((\A x \in T : f[x] = g[x]) => F(T) = G(T))}
<1>0. \A T \in SUBSET S : IsFiniteSet(T) /\ F(T) \in Nat /\ G(T) \in Nat
  BY FS_Subset, SumType
<1>1. ASSUME NEW T \in SUBSET S, \A U \in SUBSET T : U # T => U \in Fact
      PROVE  T \in Fact
  <2>1. CASE T = {}
    BY <2>1, SumEmpty
  <2>2. CASE T # {}
    <3> DEFINE z == Pick(T)
    <3>1. z \in T
      BY <2>2 DEF Pick
    <3>2. F(T) = f[z] + F(T \ {z}) /\ G(T) = g[z] + G(T \ {z})
      BY <1>0, <2>2, SumPick
    <3> HIDE DEF z
    <3>3. T \ {z} \in Fact /\ f[z] \in Nat /\ g[z] \in Nat /\ f[z] <= g[z]
      BY <1>1, <3>1
    <3>4. F(T \ {z}) \in Nat /\ G(T \ {z}) \in Nat
      BY <1>0
    <3>5. /\ F(T \ {z}) <= G(T \ {z})
          /\ (\A x \in T \ {z} : f[x] = g[x]) => F(T \ {z}) = G(T \ {z})
      BY <3>3
    <3> HIDE DEF F, G
    <3>6. F(T) <= G(T)
      BY <3>2, <3>3, <3>4, <3>5
    <3>7. ASSUME \A x \in T : f[x] = g[x] PROVE F(T) = G(T)
      BY <3>1, <3>2, <3>5, <3>7
    <3>8. QED
      BY <3>6, <3>7
  <2>3. QED
    BY <2>1, <2>2
<1>2. Fact \in SUBSET (SUBSET S)
  OBVIOUS
<1>3. S \in Fact
  <2> HIDE DEF Fact
  <2>1. QED
    BY <1>1, <1>2, SubsetInduction
<1>4. QED
  BY <1>3

\* The sum over two disjoint sets is that of the sums over each.
LEMMA SumUnion ==
  ASSUME NEW f, NEW S, NEW T, IsFiniteSet(S), IsFiniteSet(T), S \cap T = {},
         \A x \in S \cup T : f[x] \in Nat
  PROVE  SumFunctionOnSet(f, S \cup T)
           = SumFunctionOnSet(f, S) + SumFunctionOnSet(f, T)
<1> DEFINE Sum(R) == SumFunctionOnSet(f, R)
           Fact == {U \in SUBSET S : Sum(U \cup T) = Sum(U) + Sum(T)}
<1>0. \A U \in SUBSET S : IsFiniteSet(U) /\ IsFiniteSet(U \cup T)
                          /\ Sum(U) \in Nat /\ Sum(U \cup T) \in Nat
  <2>1. ASSUME NEW U \in SUBSET S
        PROVE  IsFiniteSet(U) /\ IsFiniteSet(U \cup T)
    BY FS_Subset, FS_Union
  <2>2. \A U \in SUBSET S : \A x \in U \cup T : f[x] \in Nat
    OBVIOUS
  <2>3. QED
    BY <2>1, <2>2, SumType
<1>1. ASSUME NEW U \in SUBSET S, \A V \in SUBSET U : V # U => V \in Fact
      PROVE  U \in Fact
  <2>1. CASE U = {}
    <3>1. Sum(U) = 0 /\ U \cup T = T /\ Sum(T) \in Nat
      BY <2>1, SumEmpty, SumType
    <3> HIDE DEF Sum
    <3>2. QED
      BY <3>1
  <2>2. CASE U # {}
    <3>1. PICK x \in U : TRUE
      BY <2>2
    <3>2. (U \cup T) \ {x} = (U \ {x}) \cup T
      BY <3>1
    <3>3. Sum(U \cup T) = f[x] + Sum((U \ {x}) \cup T)
      <4>1. x \in U \cup T /\ IsFiniteSet(U \cup T)
        BY <1>0, <3>1
      <4>2. \A y \in U \cup T : f[y] \in Nat
        OBVIOUS
      <4>3. Sum(U \cup T) = f[x] + Sum((U \cup T) \ {x})
        BY <4>1, <4>2, SumRemove
      <4>4. QED
        BY <3>2, <4>3
    <3>4. Sum(U) = f[x] + Sum(U \ {x})
      <4>1. IsFiniteSet(U) /\ \A y \in U : f[y] \in Nat
        BY <1>0
      <4>2. QED
        BY <3>1, <4>1, SumRemove
    <3>5. Sum((U \ {x}) \cup T) = Sum(U \ {x}) + Sum(T)
      BY <1>1, <3>1
    <3>6. f[x] \in Nat /\ Sum(U \ {x}) \in Nat /\ Sum(T) \in Nat
      BY <1>0, SumType
    <3> HIDE DEF Sum
    <3>7. QED
      BY <3>3, <3>4, <3>5, <3>6
  <2>3. QED
    BY <2>1, <2>2
<1>2. Fact \in SUBSET (SUBSET S)
  OBVIOUS
<1>3. S \in Fact
  <2> HIDE DEF Fact
  <2>1. QED
    BY <1>1, <1>2, SubsetInduction
<1>4. QED
  BY <1>3

\* Elements that add nothing may be left out of a sum.
LEMMA SumSupport ==
  ASSUME NEW f, NEW S, IsFiniteSet(S), NEW T \in SUBSET S,
         \A x \in S : f[x] \in Nat, \A x \in S \ T : f[x] = 0
  PROVE  SumFunctionOnSet(f, S) = SumFunctionOnSet(f, T)
<1> DEFINE Sum(R) == SumFunctionOnSet(f, R)
           D == S \ T
           Fact == {U \in SUBSET D : Sum(U) = 0}
<1>0. IsFiniteSet(T) /\ IsFiniteSet(D) /\ \A U \in SUBSET D : IsFiniteSet(U)
  BY FS_Subset
<1>1. ASSUME NEW U \in SUBSET D, \A V \in SUBSET U : V # U => V \in Fact
      PROVE  U \in Fact
  <2>1. CASE U = {}
    BY <2>1, SumEmpty
  <2>2. CASE U # {}
    <3>1. PICK x \in U : TRUE
      BY <2>2
    <3>2. Sum(U) = f[x] + Sum(U \ {x})
      BY <1>0, <3>1, SumRemove
    <3>3. Sum(U \ {x}) = 0 /\ f[x] = 0
      BY <1>1, <3>1
    <3>4. QED
      BY <3>2, <3>3
  <2>3. QED
    BY <2>1, <2>2
<1>2. Fact \in SUBSET (SUBSET D)
  OBVIOUS
<1>3. D \in Fact
  <2> HIDE DEF Fact, D
  <2>1. QED
    BY <1>0, <1>1, <1>2, SubsetInduction
<1>4. Sum(D) = 0
  BY <1>3
<1>5. S = D \cup T /\ D \cap T = {} /\ \A x \in D \cup T : f[x] \in Nat
  OBVIOUS
<1>6. Sum(D \cup T) = Sum(D) + Sum(T)
  <2> HIDE DEF D
  <2>1. QED
    BY <1>0, <1>5, SumUnion
<1>7. Sum(T) \in Nat
  BY <1>0, SumType
<1> HIDE DEF Sum, D
<1>8. Sum(S) = Sum(T)
  BY <1>4, <1>5, <1>6, <1>7
<1>9. QED
  BY <1>8 DEF Sum

\* The values of a function on a finite set are finitely many.
LEMMA ImageFinite ==
  ASSUME NEW k, NEW S, IsFiniteSet(S)
  PROVE  IsFiniteSet({k[x] : x \in S})
<1> DEFINE Fact == {T \in SUBSET S : IsFiniteSet({k[x] : x \in T})}
<1>1. ASSUME NEW T \in SUBSET S, \A U \in SUBSET T : U # T => U \in Fact
      PROVE  T \in Fact
  <2>1. CASE T = {}
    <3>1. {k[x] : x \in T} = {}
      BY <2>1
    <3>2. QED
      BY <3>1, FS_EmptySet
  <2>2. CASE T # {}
    <3>1. PICK y \in T : TRUE
      BY <2>2
    <3> DEFINE rest == {k[x] : x \in T \ {y}}
    <3>2. {k[x] : x \in T} = rest \cup {k[y]}
      BY <3>1
    <3>3. IsFiniteSet(rest)
      BY <1>1, <3>1
    <3>4. IsFiniteSet(rest \cup {k[y]})
      <4> HIDE DEF rest
      <4>1. QED
        BY <3>3, FS_AddElement
    <3>5. QED
      BY <3>2, <3>4
  <2>3. QED
    BY <2>1, <2>2
<1>2. Fact \in SUBSET (SUBSET S)
  OBVIOUS
<1>3. S \in Fact
  <2> HIDE DEF Fact
  <2>1. QED
    BY <1>1, <1>2, SubsetInduction
<1>4. QED
  BY <1>3

\* H is the set of the values that k has on S, part[g] the elements of S at
\* which it is g, and q[g] the sum of f over them.
Grouped(f, S, k, H, part, q) ==
  /\ \A g : g \in H <=> \E x \in S : k[x] = g
  /\ \A g \in H : \A x : x \in part[g] <=> x \in S /\ k[x] = g
  /\ \A g \in H : q[g] = SumFunctionOnSet(f, part[g])

\* The sums over the groups of a finite set add up to the sum over all of it.
LEMMA SumGroups ==
  ASSUME NEW f, NEW S, IsFiniteSet(S), \A x \in S : f[x] \in Nat,
         NEW k, NEW H, NEW part, NEW q, Grouped(f, S, k, H, part, q)
  PROVE  SumFunctionOnSet(q, H) = SumFunctionOnSet(f, S)
<1> USE DEF Grouped
<1> DEFINE In(G) == {x \in S : k[x] \in G}
           F(T) == SumFunctionOnSet(f, T)
           Q(G) == SumFunctionOnSet(q, G)
           Fact == {G \in SUBSET H : Q(G) = F(In(G))}
<1>0. IsFiniteSet(H) /\ \A T \in SUBSET S : IsFiniteSet(T) /\ F(T) \in Nat
  <2>1. H = {k[x] : x \in S}
    OBVIOUS
  <2>2. QED
    BY <2>1, FS_Subset, ImageFinite, SumType
<1>1. \A g \in H : q[g] \in Nat
  <2>1. \A g \in H : part[g] \in SUBSET S
    OBVIOUS
  <2>2. QED
    BY <1>0, <2>1
<1>2. ASSUME NEW G \in SUBSET H, \A U \in SUBSET G : U # G => U \in Fact
      PROVE  G \in Fact
  <2>1. CASE G = {}
    <3>1. In(G) = {}
      BY <2>1
    <3>2. QED
      BY <2>1, <3>1, SumEmpty
  <2>2. CASE G # {}
    <3>1. PICK g \in G : TRUE
      BY <2>2
    <3> DEFINE one == part[g]
    <3>2. IsFiniteSet(G)
      BY <1>0, FS_Subset
    <3>3. Q(G) = q[g] + Q(G \ {g})
      BY <1>1, <3>1, <3>2, SumRemove
    <3>4. Q(G \ {g}) = F(In(G \ {g}))
      BY <1>2, <3>1
    <3>5. q[g] = F(one)
      BY <3>1
    <3>6. F(In(G)) = F(one) + F(In(G \ {g}))
      <4>1. In(G) = one \cup In(G \ {g}) /\ one \cap In(G \ {g}) = {}
        BY <3>1
      <4>2. one \in SUBSET S /\ In(G \ {g}) \in SUBSET S
        OBVIOUS
      <4>3. \A x \in one \cup In(G \ {g}) : f[x] \in Nat
        OBVIOUS
      <4>4. IsFiniteSet(one) /\ IsFiniteSet(In(G \ {g}))
        BY <1>0, <4>2
      <4> DEFINE others == In(G \ {g})
      <4>5. F(one \cup others) = F(one) + F(others)
        <5> HIDE DEF one, others
        <5>1. QED
          BY <4>1, <4>3, <4>4, SumUnion DEF others
      <4>6. QED
        BY <4>1, <4>5
    <3>7. QED
      BY <3>3, <3>4, <3>5, <3>6
  <2>3. QED
    BY <2>1, <2>2
<1>3. Fact \in SUBSET (SUBSET H)
  OBVIOUS
<1>4. H \in Fact
  <2> HIDE DEF Fact
  <2>1. QED
    BY <1>0, <1>2, <1>3, SubsetInduction
<1>5. In(H) = S
  OBVIOUS
<1>6. QED
  BY <1>4, <1>5

----
(* Rating. *)

\* Among the rules that apply there is a best one, which is chosen: of the
\* most specific ones, one with the least id.
LEMMA RuleFound ==
  ASSUME NEW rules \in SUBSET Rules, NEW g, Applicable(g, rules) # {}
  PROVE  FindRule(g, rules) \in Applicable(g, rules) /\ FindRule(g, rules) \in Rules
<1> DEFINE A == Applicable(g, rules)
           fields == {"customer", "workspace", "tool"}
           most == Cardinality(fields)
<1>0. A \subseteq Rules
  BY DEF Applicable
<1>1. most \in Nat /\ \A p \in A : Specificity(p) \in Nat /\ Specificity(p) <= most
  <2>1. IsFiniteSet(fields)
    <3>1. IsFiniteSet({"customer"} \cup {"workspace"})
      BY FS_Singleton, FS_AddElement
    <3>2. IsFiniteSet(({"customer"} \cup {"workspace"}) \cup {"tool"})
      BY <3>1, FS_AddElement
    <3>3. fields = ({"customer"} \cup {"workspace"}) \cup {"tool"}
      OBVIOUS
    <3>4. QED
      BY <3>2, <3>3
  <2>2. ASSUME NEW p \in A
        PROVE  Specificity(p) \in Nat /\ Specificity(p) <= most
    <3> DEFINE own == {f \in fields : p[f] # None}
    <3>1. own \in SUBSET fields
      OBVIOUS
    <3> HIDE DEF own, fields
    <3>2. IsFiniteSet(own) /\ Cardinality(own) <= most
      BY <2>1, <3>1, FS_Subset
    <3>3. Cardinality(own) \in Nat
      BY <3>2, FS_CardinalityType
    <3>4. Specificity(p) = Cardinality(own)
      BY DEF Specificity, own, fields
    <3>5. QED
      BY <3>2, <3>3, <3>4
  <2> HIDE DEF fields, A
  <2>3. QED
    BY <2>1, <2>2, FS_CardinalityType
<1>2. PICK p \in A : \A q \in A : Specificity(q) <= Specificity(p)
  <2> DEFINE missing == {most - Specificity(p) : p \in A}
  <2> HIDE DEF most, A
  <2>1. missing \in SUBSET Nat /\ missing # {}
    BY <1>1 DEF A
  <2>2. PICK m \in missing : \A n \in missing : m <= n
    BY <2>1, LeastNatural
  <2>3. PICK p \in A : m = most - Specificity(p)
    BY <2>2
  <2>4. ASSUME NEW q \in A PROVE Specificity(q) <= Specificity(p)
    <3>1. m <= most - Specificity(q)
      BY <2>2
    <3>2. QED
      BY <1>1, <2>3, <3>1
  <2>5. QED
    BY <2>4
<1>3. PICK b \in A : /\ Specificity(b) = Specificity(p)
                     /\ \A q \in A : Specificity(q) = Specificity(p) => b.id <= q.id
  <2> DEFINE top == {q \in A : Specificity(q) = Specificity(p)}
             ids == {q.id : q \in top}
  <2> HIDE DEF A
  <2>1. ids \in SUBSET Nat /\ ids # {}
    BY <1>0, <1>2, BillingAssumption DEF PricingRule
  <2>2. PICK m \in ids : \A n \in ids : m <= n
    BY <2>1, LeastNatural
  <2>3. QED
    BY <2>2
<1>4. \A q \in A : Better(b, q)
  <2> HIDE DEF A, most
  <2>1. QED
    BY <1>1, <1>2, <1>3 DEF Better
<1>5. FindRule(g, rules) \in A
  BY <1>3, <1>4 DEF FindRule
<1>6. QED
  BY <1>0, <1>5

\* A line of an invoice.
InvoiceLine == [rule : Rules, quantity : Nat, billable : Nat, amount : Nat]

\* Amounts on a line are natural numbers.
LEMMA AmountType ==
  ASSUME NEW quantity \in Nat, NEW p \in Rules
  PROVE  /\ Billable(quantity, p) \in Nat
         /\ Larger(RoundUp(Billable(quantity, p) * p.cents), p.minimum) \in Nat
<1>1. p.cents \in Nat /\ p.included \in Nat /\ p.minimum \in Nat
  BY BillingAssumption DEF PricingRule
<1>2. Billable(quantity, p) \in Nat
  BY <1>1 DEF Billable, Larger
<1>3. \A h \in Nat : RoundUp(h) \in Nat
  BY DEF RoundUp
<1>4. \A b \in Nat : b * p.cents \in Nat
  BY <1>1
<1>5. QED
  BY <1>1, <1>2, <1>3, <1>4 DEF Larger

\* The events of a group have a quantity, and a rule gives it a line.
LEMMA LineType ==
  ASSUME NEW rows \in SUBSET Usage, IsFiniteSet(rows),
         NEW rules \in SUBSET Rules, NEW g, Applicable(g, rules) # {}
  PROVE  Quantity(rows, g) \in Nat /\ Line(rows, g, rules) \in InvoiceLine
<1>1. Quantity(rows, g) \in Nat
  <2> DEFINE f == [r \in rows |-> r.units]
             S == {r \in rows : Group(r) = g}
  <2>1. IsFiniteSet(S) /\ \A r \in S : f[r] \in Nat
    BY FS_Subset, BillingAssumption DEF UsageRow
  <2> HIDE DEF f, S
  <2>2. SumFunctionOnSet(f, S) \in Nat
    BY <2>1, SumType
  <2>3. QED
    BY <2>2 DEF Quantity, f, S
<1>2. FindRule(g, rules) \in Rules
  BY RuleFound
<1>3. QED
  BY <1>1, <1>2, AmountType DEF Line, InvoiceLine

----
(* Invoices. *)

\* What an invoice may be made from: finitely many events in its scope, and
\* rules by which they can be rated.
Making ==
  {m \in [draft : Drafts, rows : SUBSET Usage, rules : SUBSET Rules] :
     /\ IsFiniteSet(m.rows)
     /\ \A r \in m.rows : InScope(r, m.draft)
     /\ Ratable(m.draft, m.rows, m.rules)}

\* The invoices that can be made.
MadeInvoice == {Drafted(m.draft, m.rows, m.rules) : m \in Making}

\* A line of an invoice: the quantity is that of its group, and the amount
\* follows from the rule.
LineOf(inv, g) ==
  LET l == inv.lines[g]
  IN /\ l \in InvoiceLine
     /\ l.quantity = Quantity(inv.events, g)
     /\ l.billable = Billable(l.quantity, l.rule)
     /\ l.amount = Larger(RoundUp(l.billable * l.rule.cents), l.rule.minimum)

\* Whatever an invoice was made from, it has a line for each group of its
\* events, its total is that of the lines, and its events are in its scope.
LEMMA MadeFacts ==
  ASSUME NEW inv \in MadeInvoice
  PROVE  /\ inv.draft \in Drafts /\ inv.events \in SUBSET Usage
         /\ IsFiniteSet(inv.events)
         /\ \A r \in inv.events : InScope(r, inv.draft)
         /\ DOMAIN inv.lines = {Group(r) : r \in inv.events}
         /\ IsFiniteSet(DOMAIN inv.lines)
         /\ \A g \in DOMAIN inv.lines : LineOf(inv, g)
         /\ inv.total = SumFunction([g \in DOMAIN inv.lines |-> inv.lines[g].amount])
         /\ inv.draft.currency = None =>
              \A g, h \in DOMAIN inv.lines :
                inv.lines[g].rule.currency = inv.lines[h].rule.currency
<1>1. PICK m \in Making : inv = Drafted(m.draft, m.rows, m.rules)
  BY DEF MadeInvoice
<1> DEFINE d == m.draft  rows == m.rows  rules == m.rules
           groups == {Group(r) : r \in rows}
           lines == [g \in groups |-> Line(rows, g, rules)]
<1>2. /\ d \in Drafts /\ rows \in SUBSET Usage /\ rules \in SUBSET Rules
      /\ IsFiniteSet(rows) /\ (\A r \in rows : InScope(r, d))
      /\ Ratable(d, rows, rules)
  BY DEF Making
<1>3. inv = [draft |-> d, events |-> rows, lines |-> lines,
             total |-> SumFunction([g \in DOMAIN lines |-> lines[g].amount])]
  BY <1>1 DEF Drafted
<1> HIDE DEF d, rows, rules
<1>4. inv.draft = d /\ inv.events = rows /\ inv.lines = lines
      /\ inv.total = SumFunction([g \in DOMAIN lines |-> lines[g].amount])
  BY <1>3
<1>5. IsFiniteSet(groups)
  <2> DEFINE k == [r \in rows |-> Group(r)]
  <2>1. IsFiniteSet({k[r] : r \in rows})
    <3> HIDE DEF k
    <3>1. QED
      BY <1>2, ImageFinite
  <2>2. groups = {k[r] : r \in rows}
    OBVIOUS
  <2>3. QED
    BY <2>1, <2>2
<1>6. /\ \A g \in groups : Applicable(g, rules) # {}
      /\ d.currency = None =>
           \A g, h \in groups :
             FindRule(g, rules).currency = FindRule(h, rules).currency
  BY <1>2 DEF Ratable
<1>7. \A g \in groups : lines[g] = Line(rows, g, rules)
  OBVIOUS
<1>8. \A g \in groups : /\ Line(rows, g, rules) \in InvoiceLine
                        /\ Line(rows, g, rules).rule = FindRule(g, rules)
  BY <1>2, <1>6, LineType DEF Line
<1>9. \A g \in groups : LineOf(inv, g)
  <2>1. SUFFICES ASSUME NEW g \in groups PROVE LineOf(inv, g)
    OBVIOUS
  <2> DEFINE l == Line(rows, g, rules)
  <2>2. /\ l.quantity = Quantity(rows, g)
        /\ l.billable = Billable(l.quantity, l.rule)
        /\ l.amount = Larger(RoundUp(l.billable * l.rule.cents), l.rule.minimum)
    BY DEF Line
  <2>3. inv.lines[g] = l /\ inv.events = rows
    BY <1>4, <1>7
  <2> HIDE DEF l
  <2>4. QED
    BY <1>8, <2>2, <2>3 DEF LineOf, l
<1>10. \A g \in groups : inv.lines[g].rule = FindRule(g, rules)
  <2> HIDE DEF groups, lines
  <2>1. QED
    BY <1>4, <1>7, <1>8
<1>11. DOMAIN lines = groups
  OBVIOUS
<1> HIDE DEF groups, lines
<1>12. QED
  BY <1>2, <1>4, <1>5, <1>6, <1>9, <1>10, <1>11 DEF groups

\* null is no invoice.
LEMMA NoneUnmade == None \notin MadeInvoice
<1>1. ASSUME NEW m \in Making PROVE Drafted(m.draft, m.rows, m.rules) # None
  <2>1. /\ m.draft \in Drafts /\ m.rows \in SUBSET Usage
        /\ m.rules \in SUBSET Rules /\ Ratable(m.draft, m.rows, m.rules)
    BY DEF Making
  <2>2. QED
    BY <2>1, AbsentAssumption
<1>2. QED
  BY <1>1 DEF MadeInvoice

\* The lines of an invoice add up to the usage it was made from: each event is
\* in the quantity of one line.
LEMMA QuantitiesAddUp ==
  ASSUME NEW inv \in MadeInvoice
  PROVE  SumFunction([g \in DOMAIN inv.lines |-> inv.lines[g].quantity])
           = SumFunction([r \in inv.events |-> r.units])
<1> DEFINE rows == inv.events
           f == [r \in rows |-> r.units]
           k == [r \in rows |-> Group(r)]
           q == [g \in DOMAIN inv.lines |-> inv.lines[g].quantity]
<1>1. /\ IsFiniteSet(rows) /\ rows \in SUBSET Usage
      /\ DOMAIN inv.lines = {Group(r) : r \in rows}
      /\ \A g \in DOMAIN inv.lines : inv.lines[g].quantity = Quantity(rows, g)
  BY MadeFacts DEF LineOf
<1>2. \A r \in rows : f[r] \in Nat
  BY <1>1, BillingAssumption DEF UsageRow
<1> DEFINE part == [g \in DOMAIN inv.lines |-> {r \in rows : Group(r) = g}]
<1>3. \A g : g \in DOMAIN inv.lines <=> \E r \in rows : k[r] = g
  BY <1>1
<1>4. \A g \in DOMAIN inv.lines :
        \A r : r \in part[g] <=> r \in rows /\ k[r] = g
  OBVIOUS
<1>5. DOMAIN q = DOMAIN inv.lines /\ DOMAIN f = rows
  OBVIOUS
<1>6. \A g \in DOMAIN inv.lines : q[g] = SumFunctionOnSet(f, part[g])
  BY <1>1 DEF Quantity
<1> HIDE DEF f, k, q, rows, part
<1>7. Grouped(f, rows, k, DOMAIN inv.lines, part, q)
  BY <1>3, <1>4, <1>6 DEF Grouped
<1>8. SumFunctionOnSet(q, DOMAIN q) = SumFunctionOnSet(f, DOMAIN f)
  BY <1>1, <1>2, <1>5, <1>7, SumGroups
<1>9. QED
  BY <1>8 DEF SumFunction, f, q, rows

----
(* Drafts. *)

\* The handler of a draft.
DraftHandler ==
  [stage : {"unsent", "rating", "saving", "refused", "failed", "answered"},
   draft : Drafts \cup {None}, usage : SUBSET Usage,
   base : MadeInvoice \cup {None}, invoice : MadeInvoice \cup {None}]

\* A handler that has read the usage holds all that the ledger had of its
\* scope, and with it what the stored invoice had billed; the invoice that it
\* is about to write was made from that.
InHand(h) ==
  /\ h.draft \in Drafts
  /\ h.usage \subseteq ledger
  /\ \A r \in h.usage : InScope(r, h.draft)
  /\ h.base # None =>
       {r \in h.base.events : InScope(r, h.draft)} \subseteq h.usage
  /\ h.stage = "saving" =>
       /\ h.invoice \in MadeInvoice
       /\ h.invoice.draft = h.draft
       /\ h.invoice.events = h.usage

\* What the handlers of drafts maintain: the ledger is finite and only grows,
\* each stored invoice was made from events of it, under its own id, and so
\* are those in hand.
DraftInv ==
  /\ ledger \in SUBSET Usage /\ IsFiniteSet(ledger)
  /\ prices \in SUBSET Rules
  /\ invoices \in [Invoices -> MadeInvoice \cup {None}]
  /\ drafts \in [1..MaxDrafts -> DraftHandler]
  /\ \A i \in Stored : /\ invoices[i].draft.invoice = i
                       /\ invoices[i].events \subseteq ledger
  /\ \A n \in 1..MaxDrafts :
       drafts[n].stage \in {"rating", "saving"} => InHand(drafts[n])

\* Nothing is accepted, stored or sent in the beginning.
LEMMA DraftInit == Init => DraftInv
<1> SUFFICES ASSUME Init PROVE DraftInv
  OBVIOUS
<1>1. IsFiniteSet(ledger)
  BY FS_EmptySet DEF Init
<1>2. invoices \in [Invoices -> MadeInvoice \cup {None}] /\ Stored = {}
  BY DEF Init, Stored
<1> DEFINE h == [stage |-> "unsent", draft |-> None, usage |-> {},
                 base |-> None, invoice |-> None]
<1>3. h \in DraftHandler
  BY DEF DraftHandler
<1>4. drafts = [n \in 1..MaxDrafts |-> h]
  BY DEF Init
<1>5. h.stage = "unsent"
  OBVIOUS
<1> HIDE DEF h
<1>6. QED
  BY <1>1, <1>2, <1>3, <1>4, <1>5 DEF Init, DraftInv

\* A step of one handler that stores nothing.
LEMMA DraftMoves ==
  ASSUME DraftInv, NEW n \in 1..MaxDrafts, NEW h \in DraftHandler,
         h.stage \in {"rating", "saving"} => InHand(h),
         drafts' = [drafts EXCEPT ![n] = h],
         UNCHANGED <<ledger, prices, invoices>>
  PROVE  DraftInv'
<1> USE DEF DraftInv
<1>1. drafts' \in [1..MaxDrafts -> DraftHandler]
  OBVIOUS
<1>2. \A m \in 1..MaxDrafts : drafts'[m] = IF m = n THEN h ELSE drafts[m]
  OBVIOUS
<1>3. ASSUME NEW m \in 1..MaxDrafts, drafts'[m].stage \in {"rating", "saving"}
      PROVE  InHand(drafts[m])'
  BY <1>2, <1>3 DEF InHand
<1>4. Stored' = Stored
  BY DEF Stored
<1>5. QED
  BY <1>1, <1>3, <1>4

\* Steps that leave the handlers, the rules and the invoices alone, and take
\* nothing from the ledger.
LEMMA DraftKeeps ==
  ASSUME DraftInv, UNCHANGED <<invoices, drafts>>, prices' \in SUBSET Rules,
         ledger' \in SUBSET Usage, IsFiniteSet(ledger'), ledger \subseteq ledger'
  PROVE  DraftInv'
<1> USE DEF DraftInv
<1>1. Stored' = Stored
  BY DEF Stored
<1>2. ASSUME NEW n \in 1..MaxDrafts, drafts'[n].stage \in {"rating", "saving"}
      PROVE  InHand(drafts[n])'
  BY <1>2 DEF InHand
<1>3. QED
  BY <1>1, <1>2

\* BeginDraft: everything of the scope is read, also what the stored invoice
\* has billed.
LEMMA BeginDraftStep ==
  ASSUME DraftInv, NEW n \in 1..MaxDrafts, BeginDraft(n)
  PROVE  DraftInv'
<1> USE DEF DraftInv
<1>1. PICK d \in Drafts : drafts' = [drafts EXCEPT ![n] =
         IF ~ValidDraft(d)
         THEN [stage |-> "refused", draft |-> d, usage |-> {},
               base |-> None, invoice |-> None]
         ELSE [stage |-> "rating", draft |-> d,
               usage |-> {r \in ledger : InScope(r, d)},
               base |-> invoices[d.invoice], invoice |-> None]]
  BY DEF BeginDraft
<1>2. UNCHANGED <<ledger, prices, invoices>>
  BY DEF BeginDraft
<1>3. CASE ~ValidDraft(d)
  <2> DEFINE h == [stage |-> "refused", draft |-> d, usage |-> {},
                   base |-> None, invoice |-> None]
  <2>1. h \in DraftHandler /\ h.stage = "refused"
    BY DEF DraftHandler
  <2>2. drafts' = [drafts EXCEPT ![n] = h]
    BY <1>1, <1>3
  <2> HIDE DEF h
  <2>3. QED
    BY <1>2, <2>1, <2>2, DraftMoves
<1>4. CASE ValidDraft(d)
  <2> DEFINE rows == {r \in ledger : InScope(r, d)}
             h == [stage |-> "rating", draft |-> d, usage |-> rows,
                   base |-> invoices[d.invoice], invoice |-> None]
  <2>1. invoices[d.invoice] \in MadeInvoice \cup {None}
    BY DEF Invoices
  <2>2. h \in DraftHandler /\ h.stage = "rating"
    BY <2>1 DEF DraftHandler
  <2>3. invoices[d.invoice] # None => invoices[d.invoice].events \subseteq ledger
    BY DEF Stored, Invoices
  <2>4. InHand(h)
    BY <2>3 DEF InHand
  <2>5. drafts' = [drafts EXCEPT ![n] = h]
    BY <1>1, <1>4
  <2> HIDE DEF h
  <2>6. QED
    BY <1>2, <2>2, <2>4, <2>5, DraftMoves
<1>5. QED
  BY <1>3, <1>4

\* RateDraft: an invoice is only made if every group can be rated.
LEMMA RateDraftStep ==
  ASSUME DraftInv, NEW n \in 1..MaxDrafts, RateDraft(n)
  PROVE  DraftInv'
<1> USE DEF DraftInv
<1> DEFINE o == drafts[n]
           rules == ListedRules(o.draft)
           ratable == Ratable(o.draft, o.usage, rules)
           made == Drafted(o.draft, o.usage, rules)
           h == [o EXCEPT !.stage = IF ratable THEN "saving" ELSE "refused",
                          !.invoice = IF ratable THEN made ELSE None]
<1>1. drafts' = [drafts EXCEPT ![n] = h] /\ UNCHANGED <<ledger, prices, invoices>>
  BY DEF RateDraft
<1>2. InHand(o) /\ o \in DraftHandler
  BY DEF RateDraft
<1>3. ratable => made \in MadeInvoice /\ made.draft = o.draft /\ made.events = o.usage
  <2> DEFINE m == [draft |-> o.draft, rows |-> o.usage, rules |-> rules]
  <2>1. rules \in SUBSET Rules
    BY DEF ListedRules
  <2>2. IsFiniteSet(o.usage)
    BY <1>2, FS_Subset DEF InHand
  <2>3. o.usage \in SUBSET Usage /\ o.draft \in Drafts
    BY <1>2 DEF InHand
  <2>4. ratable => m \in Making
    <3> HIDE DEF o, rules
    <3>1. QED
      BY <1>2, <2>1, <2>2, <2>3 DEF Making, InHand
  <2>5. made = Drafted(m.draft, m.rows, m.rules)
    OBVIOUS
  <2>6. made.draft = o.draft /\ made.events = o.usage
    BY DEF Drafted
  <2> HIDE DEF m, made, ratable
  <2>7. QED
    BY <2>4, <2>5, <2>6 DEF MadeInvoice
<1> HIDE DEF o, rules, ratable, made
<1>4. /\ h.stage = IF ratable THEN "saving" ELSE "refused"
      /\ h.invoice = IF ratable THEN made ELSE None
      /\ h.draft = o.draft /\ h.usage = o.usage /\ h.base = o.base
  BY <1>2 DEF DraftHandler
<1>5. h \in DraftHandler
  BY <1>2, <1>3 DEF DraftHandler
<1> HIDE DEF h
<1>6. h.stage \in {"rating", "saving"} => InHand(h)
  BY <1>2, <1>3, <1>4 DEF InHand
<1>7. QED
  BY <1>1, <1>5, <1>6, DraftMoves

\* SaveDraft: the invoice in hand takes the place of the one under its id.
LEMMA SaveDraftStep ==
  ASSUME DraftInv, NEW n \in 1..MaxDrafts, SaveDraft(n)
  PROVE  /\ DraftInv'
         /\ drafts[n].invoice \in MadeInvoice
         /\ drafts[n].draft.invoice \in Invoices
         /\ invoices' = [invoices EXCEPT ![drafts[n].draft.invoice] =
                           drafts[n].invoice]
<1> USE DEF DraftInv
<1> DEFINE o == drafts[n]
           id == o.draft.invoice
           h == [o EXCEPT !.stage = "answered"]
<1>1. /\ InHand(o) /\ o.stage = "saving" /\ o \in DraftHandler
      /\ drafts' = [drafts EXCEPT ![n] = h]
      /\ invoices' = [invoices EXCEPT ![id] = o.invoice]
      /\ UNCHANGED <<ledger, prices>>
  BY DEF SaveDraft, Saved
<1>2. /\ o.invoice \in MadeInvoice /\ o.invoice.draft = o.draft
      /\ o.invoice.events = o.usage /\ o.usage \subseteq ledger
      /\ o.draft \in Drafts /\ id \in Invoices
  BY <1>1 DEF InHand, Invoices
<1>3. h \in DraftHandler /\ h.stage = "answered"
  BY <1>1 DEF DraftHandler
<1> HIDE DEF h, o
<1>4. /\ drafts' \in [1..MaxDrafts -> DraftHandler]
      /\ \A m \in 1..MaxDrafts : drafts'[m] = IF m = n THEN h ELSE drafts[m]
  BY <1>1, <1>3
<1>5. /\ invoices' \in [Invoices -> MadeInvoice \cup {None}]
      /\ \A i \in Invoices : invoices'[i] = IF i = id THEN o.invoice ELSE invoices[i]
  BY <1>1, <1>2
<1>6. \A i \in Stored' : /\ invoices'[i].draft.invoice = i
                         /\ invoices'[i].events \subseteq ledger'
  BY <1>1, <1>2, <1>5 DEF Stored
<1>7. ASSUME NEW m \in 1..MaxDrafts, drafts'[m].stage \in {"rating", "saving"}
      PROVE  InHand(drafts[m])'
  BY <1>1, <1>3, <1>4, <1>7 DEF InHand
<1>8. QED
  BY <1>1, <1>2, <1>4, <1>5, <1>6, <1>7 DEF o

\* The steps of the handlers of handoffs.
HandoffStep ==
  \E n \in 1..MaxHandoffs :
    BeginHandoff(n) \/ CreateCheckout(n) \/ SaveHandoff(n) \/ FailHandoff(n)

\* Every step keeps it.
LEMMA DraftStep == DraftInv /\ [Next]_vars => DraftInv'
<1> SUFFICES ASSUME DraftInv, [Next]_vars PROVE DraftInv'
  OBVIOUS
<1>1. ASSUME NEW r \in Usage, Accept(r) PROVE DraftInv'
  <2>1. IsFiniteSet(ledger \cup {r})
    BY FS_AddElement DEF DraftInv
  <2>2. QED
    BY <1>1, <2>1, DraftKeeps DEF Accept, DraftInv
<1>2. ASSUME NEW p \in Rules, SavePricingRule(p) PROVE DraftInv'
  BY <1>2, DraftKeeps DEF SavePricingRule, DraftInv
<1>3. ASSUME NEW n \in 1..MaxDrafts, FailDraft(n) PROVE DraftInv'
  <2> DEFINE h == [drafts[n] EXCEPT !.stage = "failed"]
  <2>1. h \in DraftHandler /\ h.stage = "failed"
    BY DEF DraftInv, DraftHandler
  <2>2. drafts' = [drafts EXCEPT ![n] = h] /\ UNCHANGED <<ledger, prices, invoices>>
    BY <1>3 DEF FailDraft
  <2> HIDE DEF h
  <2>3. QED
    BY <2>1, <2>2, DraftMoves
<1>4. ASSUME HandoffStep \/ UNCHANGED vars PROVE DraftInv'
  <2>1. UNCHANGED <<ledger, prices, invoices, drafts>>
    BY <1>4 DEF HandoffStep, BeginHandoff, CreateCheckout, SaveHandoff,
       FailHandoff, vars
  <2>2. QED
    BY <2>1, DraftKeeps DEF DraftInv
<1>5. QED
  BY <1>1, <1>2, <1>3, <1>4, BeginDraftStep, RateDraftStep, SaveDraftStep
     DEF Next, HandoffStep

\* Every stored invoice was made from events of the ledger in its scope.
THEOREM DraftInvariant == Spec => []DraftInv
BY DraftInit, DraftStep, PTL DEF Spec

\* An invoice leaves nothing out: its lines add up to all the usage it was made
\* from, and are in one currency unless the request names one.
THEOREM InvoicesAccount == Spec => []LinesAccountForUsage
<1>1. DraftInv => LinesAccountForUsage
  <2> SUFFICES ASSUME DraftInv, NEW i \in Stored
               PROVE  LET inv == invoices[i]
                      IN /\ SumFunction([g \in DOMAIN inv.lines |-> inv.lines[g].quantity])
                              = SumFunction([r \in inv.events |-> r.units])
                         /\ inv.draft.currency = None =>
                              \A g, h \in DOMAIN inv.lines :
                                inv.lines[g].rule.currency = inv.lines[h].rule.currency
    BY DEF LinesAccountForUsage
  <2> DEFINE inv == invoices[i]
  <2>1. inv \in MadeInvoice
    BY DEF DraftInv, Stored
  <2> HIDE DEF inv
  <2>2. SumFunction([g \in DOMAIN inv.lines |-> inv.lines[g].quantity])
          = SumFunction([r \in inv.events |-> r.units])
    BY <2>1, QuantitiesAddUp
  <2>3. inv.draft.currency = None =>
          \A g, h \in DOMAIN inv.lines :
            inv.lines[g].rule.currency = inv.lines[h].rule.currency
    BY <2>1, MadeFacts
  <2>4. QED
    BY <2>2, <2>3 DEF inv
<1>2. QED
  BY <1>1, DraftInvariant, PTL

\* No event is on two invoices whose periods are disjoint, however late it was
\* uploaded and however drafts interleave: each lies in the half-open period of
\* its invoice.
THEOREM OnePeriod == Spec => []BilledInOnePeriod
<1>1. DraftInv => BilledInOnePeriod
  <2> SUFFICES ASSUME DraftInv, NEW i \in Stored, NEW j \in Stored,
                      NEW r \in invoices[i].events \cap invoices[j].events
               PROVE  /\ invoices[i].draft.from < invoices[j].draft.to
                      /\ invoices[j].draft.from < invoices[i].draft.to
    BY DEF BilledInOnePeriod
  <2>1. invoices[i] \in MadeInvoice /\ invoices[j] \in MadeInvoice
    BY DEF DraftInv, Stored
  <2>2. /\ InScope(r, invoices[i].draft) /\ InScope(r, invoices[j].draft)
        /\ invoices[i].draft \in Drafts /\ invoices[j].draft \in Drafts
        /\ r \in Usage
    BY <2>1, MadeFacts
  <2>3. \A d \in Drafts : d.from \in Nat /\ d.to \in Nat
    BY BillingAssumption
  <2>4. r.at \in Nat
    BY <2>2, BillingAssumption DEF UsageRow
  <2>5. QED
    BY <2>2, <2>3, <2>4 DEF InScope
<1>2. QED
  BY <1>1, DraftInvariant, PTL

\* A repeated draft keeps what the stored invoice had billed of its scope,
\* unless another draft of that invoice was stored since it began: the ledger,
\* which it reads, had all of that.
THEOREM RedraftKeeps == Spec => RedraftKeepsUsage
<1> DEFINE Keeps ==
      \A n \in 1..MaxDrafts :
        LET d == drafts[n].draft
        IN /\ SaveDraft(n)
           /\ drafts[n].base # None /\ invoices[d.invoice] = drafts[n].base
           => {r \in invoices[d.invoice].events : InScope(r, d)}
                \subseteq invoices'[d.invoice].events
<1>1. DraftInv /\ [Next]_vars => [Keeps]_vars
  <2> SUFFICES ASSUME DraftInv, NEW n \in 1..MaxDrafts, SaveDraft(n),
                      drafts[n].base # None,
                      invoices[drafts[n].draft.invoice] = drafts[n].base
               PROVE  {r \in drafts[n].base.events : InScope(r, drafts[n].draft)}
                        \subseteq invoices'[drafts[n].draft.invoice].events
    OBVIOUS
  <2>1. InHand(drafts[n]) /\ drafts[n].stage = "saving"
    BY DEF DraftInv, SaveDraft
  <2>2. invoices'[drafts[n].draft.invoice] = drafts[n].invoice
    BY SaveDraftStep DEF DraftInv
  <2>3. QED
    BY <2>1, <2>2 DEF InHand
<1>2. QED
  BY <1>1, DraftInvariant, PTL DEF Spec, RedraftKeepsUsage

----
(* Handoffs. *)

Sessions == 1..MaxHandoffs

\* The handler of a handoff, and what it stores.
PaymentHandler ==
  [stage : {"unsent", "paying", "saving", "refused", "failed", "answered"},
   invoice : Invoices \cup {None},
   provider : {"manual", "dodo", "stripe"} \cup {None},
   read : MadeInvoice \cup {None}, checkout : Sessions \cup {None}]

Handoff ==
  [provider : Providers, checkout : Sessions \cup {None}, read : MadeInvoice]

HasSession(id, i) == \E c \in checkouts : c.id = id /\ c.invoice = i

\* What handler n knows, by its stage: an invoice that was stored is still
\* stored, and what is saved for another provider than "manual" has a session.
Knows(n, h) ==
  /\ h.checkout \in {n, None}
  /\ h.stage \in {"paying", "saving"} =>
       /\ h.invoice \in Stored /\ h.provider \in Providers
       /\ h.read \in MadeInvoice
  /\ h.stage = "saving" /\ h.provider # "manual" =>
       h.checkout = n /\ HasSession(n, h.invoice)

\* A session was created by the handler whose number it has, from the invoice
\* that handler had read.
Created(c) ==
  /\ c.id \in Sessions
  /\ payments[c.id].stage \in {"saving", "failed", "answered"}
  /\ c.invoice = payments[c.id].invoice
  /\ c.cart = Cart(payments[c.id].read)

\* A handoff on file names a stored invoice and, of another provider than
\* "manual", a session for it; it keeps what the handler of the session read.
OnFile(i, f) ==
  /\ i \in Stored
  /\ f.provider # "manual" => HasSession(f.checkout, i)
  /\ f.checkout # None =>
       /\ payments[f.checkout].stage # "unsent"
       /\ f.read = payments[f.checkout].read

\* What the handlers of handoffs maintain.
PayInv ==
  /\ payments \in [Sessions -> PaymentHandler]
  /\ handoffs \in [Invoices -> Handoff \cup {None}]
  /\ \A n \in Sessions : Knows(n, payments[n])
  /\ \A c \in checkouts : Created(c)
  /\ \A i \in Invoices : handoffs[i] # None => OnFile(i, handoffs[i])

\* There are no handoffs and no sessions in the beginning.
LEMMA PayInit == Init => PayInv
<1> SUFFICES ASSUME Init PROVE PayInv
  OBVIOUS
<1> DEFINE h == [stage |-> "unsent", invoice |-> None, provider |-> None,
                 read |-> None, checkout |-> None]
<1>1. h \in PaymentHandler
  BY DEF PaymentHandler
<1>2. h.stage = "unsent" /\ h.checkout = None
  OBVIOUS
<1>3. payments = [n \in Sessions |-> h]
  BY DEF Init, Sessions
<1> HIDE DEF h
<1>4. payments \in [Sessions -> PaymentHandler]
  BY <1>1, <1>3
<1>5. \A n \in Sessions : Knows(n, payments[n])
  BY <1>2, <1>3 DEF Knows
<1>6. QED
  BY <1>4, <1>5 DEF Init, PayInv

\* An invoice that is stored stays stored.
LEMMA StoredStays ==
  ASSUME DraftInv, [Next]_vars
  PROVE  Stored \subseteq Stored'
<1>1. ASSUME NEW n \in 1..MaxDrafts, SaveDraft(n) PROVE Stored \subseteq Stored'
  <2>1. /\ drafts[n].invoice \in MadeInvoice
        /\ invoices' = [invoices EXCEPT ![drafts[n].draft.invoice] =
                          drafts[n].invoice]
    BY <1>1, SaveDraftStep
  <2>2. QED
    BY <2>1, NoneUnmade DEF Stored, DraftInv
<1>2. CASE UNCHANGED invoices
  BY <1>2 DEF Stored
<1>3. QED
  BY <1>1, <1>2 DEF Next, vars, Accept, SavePricingRule, BeginDraft, RateDraft,
     FailDraft, BeginHandoff, CreateCheckout, SaveHandoff, FailHandoff

\* Steps that leave handoffs alone keep what is known of them.
LEMMA PayKeeps ==
  ASSUME PayInv, Stored \subseteq Stored', UNCHANGED <<payments, handoffs, checkouts>>
  PROVE  PayInv'
<1> USE DEF PayInv
<1>1. \A n \in Sessions : Knows(n, payments[n])'
  BY DEF Knows, HasSession
<1>2. \A c \in checkouts' : Created(c)'
  BY DEF Created
<1>3. \A i \in Invoices : handoffs'[i] # None => OnFile(i, handoffs[i])'
  BY DEF OnFile, HasSession
<1>4. QED
  BY <1>1, <1>2, <1>3

\* A step of one handler that stores no handoff: if it has a session, or had
\* one, it was under way before, and keeps the invoice that it read.
LEMMA PayMoves ==
  ASSUME PayInv, NEW n \in Sessions, NEW h \in PaymentHandler, Knows(n, h)',
         payments' = [payments EXCEPT ![n] = h], h.stage # "unsent",
         payments[n].stage # "unsent" =>
           h.invoice = payments[n].invoice /\ h.read = payments[n].read,
         payments[n].stage \in {"saving", "failed", "answered"} =>
           h.stage \in {"saving", "failed", "answered"},
         UNCHANGED <<invoices, handoffs>>, checkouts \subseteq checkouts',
         \A c \in checkouts' \ checkouts : Created(c)'
  PROVE  PayInv'
<1> USE DEF PayInv
<1>1. /\ payments' \in [Sessions -> PaymentHandler]
      /\ \A m \in Sessions : payments'[m] = IF m = n THEN h ELSE payments[m]
  OBVIOUS
<1>2. Stored' = Stored
  BY DEF Stored
<1>3. \A id, i : HasSession(id, i) => HasSession(id, i)'
  BY DEF HasSession
<1>4. ASSUME NEW m \in Sessions PROVE Knows(m, payments[m])'
  <2>1. CASE m = n
    BY <1>1, <2>1
  <2>2. CASE m # n
    <3>1. Knows(m, payments[m]) /\ payments'[m] = payments[m]
      BY <1>1, <2>2
    <3>2. QED
      BY <1>2, <1>3, <3>1 DEF Knows
  <2>3. QED
    BY <2>1, <2>2
<1>5. ASSUME NEW c \in checkouts' PROVE Created(c)'
  <2>1. CASE c \in checkouts
    <3>1. Created(c)
      BY <2>1
    <3>2. QED
      BY <1>1, <3>1 DEF Created
  <2>2. CASE c \notin checkouts
    BY <2>2
  <2>3. QED
    BY <2>1, <2>2
<1>6. ASSUME NEW i \in Invoices, handoffs'[i] # None
      PROVE  OnFile(i, handoffs[i])'
  <2>1. OnFile(i, handoffs[i]) /\ handoffs'[i] = handoffs[i]
        /\ handoffs[i] \in Handoff
    BY <1>6
  <2>2. handoffs[i].checkout # None => handoffs[i].checkout \in Sessions
    BY <2>1 DEF Handoff
  <2>3. QED
    BY <1>1, <1>2, <1>3, <2>1, <2>2 DEF OnFile
<1>7. QED
  BY <1>1, <1>4, <1>5, <1>6

\* BeginHandoff: only an invoice that is stored is handed over.
LEMMA BeginHandoffStep ==
  ASSUME DraftInv, PayInv, NEW n \in Sessions, BeginHandoff(n)
  PROVE  PayInv'
<1> USE DEF PayInv
<1>1. PICK i \in Invoices, provider \in {"manual", "dodo", "stripe"} :
         payments' = [payments EXCEPT ![n] =
           [stage |-> NextStage(invoices[i], provider), invoice |-> i,
            provider |-> provider, read |-> invoices[i], checkout |-> None]]
  BY DEF BeginHandoff
<1>2. PICK h : h = [stage |-> NextStage(invoices[i], provider), invoice |-> i,
                    provider |-> provider, read |-> invoices[i],
                    checkout |-> None]
  OBVIOUS
<1>3. /\ payments[n].stage = "unsent"
      /\ UNCHANGED <<invoices, handoffs, checkouts>>
      /\ payments' = [payments EXCEPT ![n] = h]
  BY <1>1, <1>2 DEF BeginHandoff
<1>4. /\ h.stage \in {"paying", "saving", "refused"}
      /\ h.stage # "refused" => provider \in Providers /\ invoices[i] # None
      /\ h.stage = "saving" => provider = "manual"
  BY <1>2 DEF NextStage
<1>5. h \in PaymentHandler
  BY <1>2, <1>4 DEF PaymentHandler, DraftInv
<1>6. h.stage # "refused" => i \in Stored' /\ invoices[i] \in MadeInvoice
  BY <1>3, <1>4 DEF Stored, DraftInv
<1>7. Knows(n, h)'
  BY <1>2, <1>4, <1>6 DEF Knows
<1>8. QED
  BY <1>3, <1>4, <1>5, <1>7, PayMoves

\* CreateCheckout: the session is the handler's, and no other has its number.
LEMMA CreateCheckoutStep ==
  ASSUME PayInv, NEW n \in Sessions, CreateCheckout(n)
  PROVE  PayInv'
<1> USE DEF PayInv
<1> DEFINE o == payments[n]
<1>1. PICK h : h = [o EXCEPT !.stage = "saving", !.checkout = n]
  OBVIOUS
<1>2. PICK c : c = [id |-> n, invoice |-> o.invoice, cart |-> Cart(o.read)]
  OBVIOUS
<1>3. /\ o.stage = "paying" /\ o \in PaymentHandler /\ Knows(n, o)
      /\ checkouts' = checkouts \cup {c}
      /\ payments' = [payments EXCEPT ![n] = h]
      /\ UNCHANGED <<invoices, handoffs>>
  BY <1>1, <1>2 DEF CreateCheckout
<1>4. /\ h \in PaymentHandler /\ h.stage = "saving" /\ h.checkout = n
      /\ h.invoice = o.invoice /\ h.read = o.read /\ h.provider = o.provider
  BY <1>1, <1>3 DEF PaymentHandler
<1>5. c.id = n /\ c.invoice = o.invoice /\ c.cart = Cart(o.read)
  BY <1>2
<1>6. HasSession(n, h.invoice)'
  BY <1>3, <1>4, <1>5 DEF HasSession
<1>7. Stored' = Stored
  BY <1>3 DEF Stored
<1>8. Knows(n, h)'
  BY <1>3, <1>4, <1>6, <1>7 DEF Knows
<1>9. payments'[n] = h
  BY <1>3
<1>10. Created(c)'
  BY <1>4, <1>5, <1>9 DEF Created
<1>11. QED
  BY <1>3, <1>4, <1>8, <1>10, PayMoves

\* A handler that ends, having failed or answered, keeps what it read.
LEMMA HandlerEnds ==
  ASSUME PayInv, NEW n \in Sessions, NEW stage \in {"failed", "answered"},
         payments[n].stage \in {"paying", "saving"},
         payments' = [payments EXCEPT ![n].stage = stage],
         UNCHANGED <<invoices, handoffs, checkouts>>
  PROVE  PayInv'
<1> USE DEF PayInv
<1>1. PICK h : h = [payments[n] EXCEPT !.stage = stage]
  OBVIOUS
<1>2. payments[n] \in PaymentHandler /\ Knows(n, payments[n])
  OBVIOUS
<1>3. /\ h \in PaymentHandler /\ h.stage = stage
      /\ h.invoice = payments[n].invoice /\ h.read = payments[n].read
      /\ h.checkout = payments[n].checkout
  BY <1>1, <1>2 DEF PaymentHandler
<1>4. payments' = [payments EXCEPT ![n] = h]
  BY <1>1
<1>5. Knows(n, h)'
  BY <1>2, <1>3 DEF Knows
<1>6. QED
  BY <1>3, <1>4, <1>5, PayMoves

\* SaveHandoff: what is put on file is what the handler knows.
LEMMA SaveHandoffStep ==
  ASSUME PayInv, NEW n \in Sessions, SaveHandoff(n)
  PROVE  PayInv'
<1> USE DEF PayInv
<1> DEFINE o == payments[n]
<1>1. PICK f : f = [provider |-> o.provider, checkout |-> o.checkout,
                    read |-> o.read]
  OBVIOUS
<1>2. PICK h : h = [o EXCEPT !.stage = "answered"]
  OBVIOUS
<1>3. /\ o.stage = "saving" /\ o \in PaymentHandler /\ Knows(n, o)
      /\ handoffs' = [handoffs EXCEPT ![o.invoice] = f]
      /\ payments' = [payments EXCEPT ![n] = h]
      /\ UNCHANGED <<invoices, checkouts>>
  BY <1>1, <1>2 DEF SaveHandoff
<1>4. /\ h \in PaymentHandler /\ h.stage = "answered"
      /\ h.invoice = o.invoice /\ h.read = o.read /\ h.checkout = o.checkout
  BY <1>2, <1>3 DEF PaymentHandler
<1>5. /\ o.invoice \in Stored /\ o.invoice \in Invoices /\ o.provider \in Providers
      /\ o.read \in MadeInvoice /\ o.checkout \in {n, None}
      /\ o.provider # "manual" => o.checkout = n /\ HasSession(n, o.invoice)
  BY <1>3 DEF Knows, Stored
<1>6. /\ f.provider = o.provider /\ f.checkout = o.checkout /\ f.read = o.read
      /\ f \in Handoff
  BY <1>1, <1>5 DEF Handoff
<1> HIDE DEF o
<1>7. /\ payments' \in [Sessions -> PaymentHandler]
      /\ \A m \in Sessions : payments'[m] = IF m = n THEN h ELSE payments[m]
  BY <1>3, <1>4
<1>8. /\ handoffs' \in [Invoices -> Handoff \cup {None}]
      /\ \A i \in Invoices : handoffs'[i] = IF i = o.invoice THEN f ELSE handoffs[i]
  BY <1>3, <1>5, <1>6
<1>9. Stored' = Stored /\ \A id, i : HasSession(id, i)' <=> HasSession(id, i)
  BY <1>3 DEF Stored, HasSession
<1>10. ASSUME NEW m \in Sessions PROVE Knows(m, payments[m])'
  BY <1>3, <1>4, <1>5, <1>7, <1>9 DEF Knows
<1>11. ASSUME NEW c \in checkouts' PROVE Created(c)'
  <2>1. Created(c)
    BY <1>3
  <2>2. QED
    BY <1>4, <1>7, <2>1 DEF Created, o
<1>12. ASSUME NEW i \in Invoices, handoffs'[i] # None
       PROVE  OnFile(i, handoffs[i])'
  <2>1. CASE i = o.invoice
    <3>1. handoffs'[i] = f
      BY <1>8, <2>1
    <3>2. f.checkout # None =>
            payments'[f.checkout] = h /\ h.stage # "unsent" /\ f.read = h.read
      BY <1>4, <1>5, <1>6, <1>7
    <3>3. QED
      BY <1>5, <1>6, <1>9, <2>1, <3>1, <3>2 DEF OnFile
  <2>2. CASE i # o.invoice
    <3>1. handoffs'[i] = handoffs[i] /\ OnFile(i, handoffs[i])
          /\ handoffs[i] \in Handoff
      BY <1>8, <1>12, <2>2
    <3>2. handoffs[i].checkout # None => handoffs[i].checkout \in Sessions
      BY <3>1 DEF Handoff
    <3>3. \A m \in Sessions : payments[m].stage # "unsent" =>
            payments'[m].stage # "unsent" /\ payments'[m].read = payments[m].read
      BY <1>4, <1>7 DEF o
    <3>4. QED
      BY <1>9, <3>1, <3>2, <3>3 DEF OnFile
  <2>3. QED
    BY <2>1, <2>2
<1>13. QED
  BY <1>7, <1>8, <1>10, <1>11, <1>12

\* Every step keeps what the handlers of handoffs maintain.
LEMMA PayStep == DraftInv /\ PayInv /\ [Next]_vars => PayInv'
<1> SUFFICES ASSUME DraftInv, PayInv, [Next]_vars PROVE PayInv'
  OBVIOUS
<1>1. ASSUME NEW n \in Sessions, FailHandoff(n) PROVE PayInv'
  BY <1>1, HandlerEnds DEF FailHandoff
<1>2. ASSUME HandoffStep PROVE PayInv'
  BY <1>1, <1>2, BeginHandoffStep, CreateCheckoutStep, SaveHandoffStep
     DEF HandoffStep, Sessions
<1>3. CASE UNCHANGED <<payments, handoffs, checkouts>>
  BY <1>3, StoredStays, PayKeeps
<1>4. QED
  BY <1>2, <1>3 DEF Next, HandoffStep, vars, Accept, SavePricingRule, BeginDraft,
     RateDraft, SaveDraft, FailDraft

\* Whatever is on file was handed over by a handler that had read a stored
\* invoice, and a session belongs to the handler that created it.
THEOREM PayInvariant == Spec => [](DraftInv /\ PayInv)
<1>1. Init => DraftInv /\ PayInv
  BY DraftInit, PayInit
<1>2. DraftInv /\ PayInv /\ [Next]_vars => DraftInv' /\ PayInv'
  BY DraftStep, PayStep
<1>3. QED
  BY <1>1, <1>2, PTL DEF Spec

\* Billing is type-correct, every event on a stored invoice is in the ledger,
\* and each handoff on file names a stored invoice and its session.
THEOREM BillingTypeCorrect == Spec => []TypeOK
<1>1. DraftInv /\ PayInv => TypeOK
  <2> SUFFICES ASSUME DraftInv, PayInv PROVE TypeOK
    OBVIOUS
  <2>1. \A n \in 1..MaxDrafts :
          drafts[n].stage \in
            {"unsent", "rating", "saving", "refused", "failed", "answered"}
    BY DEF DraftInv, DraftHandler
  <2>2. \A n \in 1..MaxHandoffs :
          payments[n].stage \in
            {"unsent", "paying", "saving", "refused", "failed", "answered"}
    BY DEF PayInv, PaymentHandler, Sessions
  <2>3. \A i \in Stored : /\ invoices[i].draft \in Drafts
                          /\ invoices[i].draft.invoice = i
                          /\ invoices[i].events \subseteq ledger
    BY MadeFacts DEF DraftInv, Stored
  <2>4. ASSUME NEW i \in Invoices, handoffs[i] # None
        PROVE  /\ i \in Stored /\ handoffs[i].provider \in Providers
               /\ handoffs[i].provider # "manual" =>
                    \E c \in checkouts : c.id = handoffs[i].checkout /\ c.invoice = i
    BY <2>4 DEF PayInv, OnFile, Handoff, HasSession
  <2>5. QED
    BY <2>1, <2>2, <2>3, <2>4 DEF TypeOK, DraftInv
<1>2. QED
  BY <1>1, PayInvariant, PTL

\* What is charged for a line by whole units is not less than its amount, and
\* is that amount if its units are whole.
LEMMA ChargedInFull ==
  ASSUME NEW b \in Nat, NEW c \in Nat, RoundUp(b * c) > 0
  PROVE  /\ Larger(1, RoundUp(b)) * c \in Nat
         /\ RoundUp(b * c) <= Larger(1, RoundUp(b)) * c
         /\ b % 2 = 0 => RoundUp(b * c) = Larger(1, RoundUp(b)) * c
<1>1. PICK k \in Nat : b = 2 * k \/ b = 2 * k + 1
  <2>1. b \div 2 \in Nat /\ (b = 2 * (b \div 2) \/ b = 2 * (b \div 2) + 1)
    OBVIOUS
  <2>2. QED
    BY <2>1
<1>2. k * c \in Nat
  OBVIOUS
<1>3. CASE b = 2 * k
  <2>1. b * c = 2 * (k * c)
    BY <1>3
  <2>2. RoundUp(b) = k
    BY <1>3 DEF RoundUp
  <2> DEFINE kc == k * c
  <2>3. kc \in Nat /\ b * c = 2 * kc
    BY <1>2, <2>1
  <2> HIDE DEF kc
  <2>4. RoundUp(b * c) = kc
    BY <2>3 DEF RoundUp
  <2>5. k # 0
    <3>1. 0 * c = 0
      OBVIOUS
    <3>2. QED
      BY <2>4, <3>1 DEF kc
  <2>6. Larger(1, RoundUp(b)) = k
    BY <2>2, <2>5 DEF Larger
  <2>7. QED
    BY <2>3, <2>4, <2>6 DEF kc
<1>4. CASE b = 2 * k + 1
  <2>1. b * c = 2 * (k * c) + c
    BY <1>4
  <2>2. RoundUp(b) = k + 1
    BY <1>4 DEF RoundUp
  <2>3. Larger(1, RoundUp(b)) = k + 1
    BY <2>2 DEF Larger
  <2>4. (k + 1) * c = k * c + c
    OBVIOUS
  <2> DEFINE kc == k * c
  <2>5. kc \in Nat /\ b * c = 2 * kc + c /\ (k + 1) * c = kc + c
    BY <1>2, <2>1, <2>4
  <2> HIDE DEF kc
  <2>6. RoundUp(b * c) <= kc + c
    BY <2>5 DEF RoundUp
  <2>7. b % 2 # 0
    BY <1>4
  <2>8. QED
    BY <2>3, <2>5, <2>6, <2>7
<1>5. QED
  BY <1>1, <1>3, <1>4

\* No line of the invoice is raised to a minimum charge.
NoMinimum(inv) ==
  \A g \in DOMAIN inv.lines :
    LET l == inv.lines[g]
    IN l.amount = RoundUp(l.billable * l.rule.cents)

\* All that the invoice charges for is whole calls.
WholeUnits(inv) == \A g \in DOMAIN inv.lines : inv.lines[g].billable % 2 = 0

\* The cart of such an invoice is worth its total, and not less with parts of
\* a call: lines that are not in it have no amount.
LEMMA CartPays ==
  ASSUME NEW inv \in MadeInvoice, NoMinimum(inv)
  PROVE  /\ CartValue(inv, Cart(inv)) >= inv.total
         /\ WholeUnits(inv) => CartValue(inv, Cart(inv)) = inv.total
<1> DEFINE S == DOMAIN inv.lines
           T == Payable(inv)
           f == [g \in S |-> inv.lines[g].amount]
           v == [g \in T |-> Cart(inv)[g].quantity * inv.lines[g].rule.cents]
<1>1. /\ IsFiniteSet(S) /\ inv.total = SumFunction(f)
      /\ \A g \in S : LineOf(inv, g)
  BY MadeFacts
<1>2. T \in SUBSET S /\ IsFiniteSet(T)
  BY <1>1, FS_Subset DEF Payable
<1>3. \A g \in S : f[g] \in Nat
  BY <1>1 DEF LineOf, InvoiceLine
<1>4. \A g \in S \ T : f[g] = 0
  BY <1>3 DEF Payable
<1>5. ASSUME NEW g \in T
      PROVE  /\ v[g] \in Nat /\ f[g] <= v[g]
             /\ inv.lines[g].billable % 2 = 0 => f[g] = v[g]
  <2> DEFINE l == inv.lines[g]
  <2>1. g \in S /\ l \in InvoiceLine /\ l.amount > 0
    BY <1>1, <1>2 DEF LineOf, Payable
  <2>2. l.amount = RoundUp(l.billable * l.rule.cents)
    BY <2>1 DEF NoMinimum
  <2>3. l.billable \in Nat /\ l.rule.cents \in Nat
    BY <2>1, BillingAssumption DEF InvoiceLine, PricingRule
  <2>4. Cart(inv)[g].quantity = Larger(1, RoundUp(l.billable))
    BY DEF Cart, CheckoutQuantity
  <2>5. v[g] = Larger(1, RoundUp(l.billable)) * l.rule.cents /\ f[g] = l.amount
    BY <2>1, <2>4
  <2> HIDE DEF v, f, l
  <2>6. QED
    BY <2>1, <2>2, <2>3, <2>5, ChargedInFull DEF l
<1>6. DOMAIN f = S /\ DOMAIN v = T
  OBVIOUS
<1>7. CartValue(inv, Cart(inv)) = SumFunctionOnSet(v, T)
  <2>1. DOMAIN Cart(inv) = T
    BY DEF Cart
  <2>2. CartValue(inv, Cart(inv)) = SumFunction(v)
    BY <2>1 DEF CartValue
  <2>3. QED
    BY <1>6, <2>2 DEF SumFunction
<1> HIDE DEF S, T, f, v
<1>8. inv.total = SumFunctionOnSet(f, S)
  BY <1>1, <1>6 DEF SumFunction
<1>9. inv.total = SumFunctionOnSet(f, T)
  BY <1>1, <1>2, <1>3, <1>4, <1>8, SumSupport
<1>10. \A g \in T : f[g] \in Nat /\ v[g] \in Nat /\ f[g] <= v[g]
  BY <1>2, <1>3, <1>5
<1>11. /\ SumFunctionOnSet(f, T) <= SumFunctionOnSet(v, T)
       /\ (\A g \in T : f[g] = v[g]) =>
            SumFunctionOnSet(f, T) = SumFunctionOnSet(v, T)
  BY <1>2, <1>10, SumCompare
<1>12. SumFunctionOnSet(f, T) \in Nat /\ SumFunctionOnSet(v, T) \in Nat
  BY <1>2, <1>10, SumType
<1>13. WholeUnits(inv) => \A g \in T : f[g] = v[g]
  BY <1>2, <1>5 DEF WholeUnits, S
<1>14. QED
  BY <1>7, <1>9, <1>11, <1>12, <1>13

\* What the checkout on file asks for is what the stored invoice bills, if that
\* is the invoice that was handed over: its cart was made from what the handler
\* of the handoff on file had read.
THEOREM PaidAsBilled == Spec => []PaidIsBilled
<1>1. DraftInv /\ PayInv => PaidIsBilled
  <2> SUFFICES ASSUME DraftInv, PayInv, NEW i \in Stored, NEW c \in checkouts,
                      handoffs[i] # None, handoffs[i].read = invoices[i],
                      c.id = handoffs[i].checkout, NoMinimum(invoices[i])
               PROVE  /\ CartValue(invoices[i], c.cart) >= invoices[i].total
                      /\ WholeUnits(invoices[i]) =>
                           CartValue(invoices[i], c.cart) = invoices[i].total
    BY DEF PaidIsBilled, NoMinimum, WholeUnits
  <2>1. i \in Invoices /\ invoices[i] \in MadeInvoice
    BY DEF DraftInv, Stored
  <2>2. Created(c) /\ OnFile(i, handoffs[i])
    BY <2>1 DEF PayInv
  <2>3. handoffs[i].checkout # None
    BY <2>2, AbsentAssumption DEF Created, Sessions
  <2>4. payments[c.id].read = invoices[i]
    BY <2>2, <2>3 DEF OnFile
  <2>5. c.cart = Cart(invoices[i])
    BY <2>2, <2>4 DEF Created
  <2>6. QED
    BY <2>1, <2>5, CartPays
<1>2. QED
  BY <1>1, PayInvariant, PTL

----
(* The ledger. *)

Table == INSTANCE UsageTable WITH rows <- ledger

\* The ledger that invoices are drafted from is the table that ingestion
\* promises: rows are added, one for a key, and billing takes none away.
THEOREM LedgerIsTable == Spec => Table!Spec
<1> DEFINE Keyed == Table!OneRowPerKey(ledger)
<1>1. Init => Keyed /\ Table!Init
  BY DEF Init, Table!OneRowPerKey, Table!Init
<1>2. Keyed /\ [Next]_vars => Keyed' /\ [Table!Accept]_(Table!vars)
  <2> SUFFICES ASSUME Keyed, [Next]_vars
               PROVE  Keyed' /\ [Table!Accept]_(Table!vars)
    OBVIOUS
  <2>1. ASSUME NEW r \in Usage, Accept(r) PROVE Keyed' /\ Table!Accept
    <3>1. ledger' = ledger \cup {r} /\ \A q \in ledger : q.key # r.key
      BY <2>1 DEF Accept
    <3>2. Keyed'
      BY <3>1 DEF Table!OneRowPerKey
    <3>3. QED
      BY <3>1, <3>2 DEF Table!Accept
  <2>2. CASE UNCHANGED ledger
    BY <2>2 DEF Table!vars
  <2>3. QED
    BY <2>1, <2>2 DEF Next, vars, SavePricingRule, BeginDraft, RateDraft,
       SaveDraft, FailDraft, BeginHandoff, CreateCheckout, SaveHandoff,
       FailHandoff
<1>3. QED
  BY <1>1, <1>2, PTL DEF Spec, Table!Spec

====
