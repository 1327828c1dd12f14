----------------------------- MODULE SumProofs -----------------------------
(***************************************************************************)
(* Sums over finite sets, as the folds of the community modules compute    *)
(* them: that the fold's recursion has a solution, so that a sum is a      *)
(* natural number which adds its terms one by one, and how it is bounded;  *)
(* and that InOrder lists each element of a finite set once, in order.     *)
(* The induction is on the number of terms, by the least counterexample.   *)
(***************************************************************************)
EXTENDS Integers, Sequences, Functions, FiniteSetsExt, Ordering, FiniteSetTheorems,
        WellFoundedInduction, TLAPS

Picked(s) == CHOOSE y \in s : TRUE
TermAnd(f, g, s) == IF s = {} THEN 0 ELSE f[Picked(s)] + g[s \ {Picked(s)}]

\* The partial sums a fold goes through, over the subsets of I.
Sums(f, I) == CHOOSE g : g = [s \in SUBSET I |-> TermAnd(f, g, s)]

Total(f, I) == Sums(f, I)[I]

\* Every non-empty set of naturals has a least element.
LEMMA LeastOf ==
    ASSUME NEW S, S \subseteq Nat, S # {}
    PROVE  \E low \in S : \A j \in S : low <= j
  <1>1. PICK low \in S : \A j \in S : ~(<<j, low>> \in OpToRel(<, Nat))
    BY WFMin, NatLessThanWellFounded
  <1>2. ASSUME NEW j \in S PROVE low <= j
    <2>1. ~(j < low)
      BY <1>1 DEF OpToRel
    <2> QED BY <2>1
  <1> QED BY <1>2

\* SumFunctionOnSet is the total of what the function gives the set.
LEMMA SumIsTotal ==
    ASSUME NEW f, NEW I
    PROVE  SumFunctionOnSet(f, I) = Total(f, I)
  BY DEF SumFunctionOnSet, FoldFunctionOnSet, MapThenFoldSet, Total, Sums, TermAnd, Picked

LEMMA PickedIsIn ==
    ASSUME NEW s, s # {}
    PROVE  Picked(s) \in s
  BY DEF Picked

\* One term less.
LEMMA WithoutPicked ==
    ASSUME NEW s, IsFiniteSet(s), s # {}
    PROVE  /\ IsFiniteSet(s \ {Picked(s)})
           /\ Cardinality(s) \in Nat \ {0}
           /\ Cardinality(s \ {Picked(s)}) = Cardinality(s) - 1
  <1>1. Picked(s) \in s
    BY PickedIsIn
  <1>2. Cardinality(s) \in Nat /\ Cardinality(s) # 0
    BY FS_CardinalityType, FS_EmptySet
  <1>3. IsFiniteSet(s \ {Picked(s)}) /\ Cardinality(s \ {Picked(s)}) = Cardinality(s) - 1
    BY <1>1, FS_RemoveElement
  <1> QED BY <1>2, <1>3

\* The partial sums of at most n terms.
UpTo(f, I, n, g) == g = [s \in SUBSET I |-> IF Cardinality(s) > n THEN 0 ELSE TermAnd(f, g, s)]

\* Partial sums of one term more, from those before.
LEMMA OneTermMore ==
    ASSUME NEW f, NEW I, IsFiniteSet(I), NEW n \in Nat, NEW h, UpTo(f, I, n, h)
    PROVE  \E g : UpTo(f, I, n + 1, g)
  <1> DEFINE g == [s \in SUBSET I |-> IF Cardinality(s) > n + 1 THEN 0 ELSE TermAnd(f, h, s)]
  <1>1. ASSUME NEW s \in SUBSET I, Cardinality(s) <= n + 1
        PROVE  TermAnd(f, h, s) = TermAnd(f, g, s)
    <2>1. CASE s = {}
      BY <2>1 DEF TermAnd
    <2>2. CASE s # {}
      <3> DEFINE r == s \ {Picked(s)}
      <3>1. IsFiniteSet(s) /\ r \in SUBSET I
        BY FS_Subset
      <3>2. Cardinality(s) \in Nat /\ Cardinality(r) = Cardinality(s) - 1
        BY <2>2, <3>1, WithoutPicked
      <3>3. ~(Cardinality(r) > n) /\ ~(Cardinality(r) > n + 1)
        BY <1>1, <3>2
      <3>4. h[r] = TermAnd(f, h, r)
        BY <3>1, <3>3 DEF UpTo
      <3>5. g[r] = TermAnd(f, h, r)
        BY <3>1, <3>3
      <3>6. h[s \ {Picked(s)}] = g[s \ {Picked(s)}]
        BY <3>4, <3>5
      <3> HIDE DEF g, r
      <3> QED BY <2>2, <3>6 DEF TermAnd
    <2> QED BY <2>1, <2>2
  <1>2. ASSUME NEW s \in SUBSET I
        PROVE  (IF Cardinality(s) > n + 1 THEN 0 ELSE TermAnd(f, h, s))
                 = (IF Cardinality(s) > n + 1 THEN 0 ELSE TermAnd(f, g, s))
    <2>1. Cardinality(s) \in Nat
      BY FS_Subset, FS_CardinalityType
    <2>2. CASE Cardinality(s) > n + 1
      BY <2>2
    <2>3. CASE ~(Cardinality(s) > n + 1)
      <3>1. Cardinality(s) <= n + 1
        BY <2>1, <2>3
      <3>2. TermAnd(f, h, s) = TermAnd(f, g, s)
        BY <1>1, <3>1
      <3> HIDE DEF g
      <3> QED BY <2>3, <3>2
    <2> QED BY <2>2, <2>3
  <1>3. UpTo(f, I, n + 1, g)
    BY <1>2 DEF UpTo
  <1> QED BY <1>3

\* The recursion of a fold over a finite set has a solution.
LEMMA SumsExist ==
    ASSUME NEW f, NEW I, IsFiniteSet(I)
    PROVE  \E g : g = [s \in SUBSET I |-> TermAnd(f, g, s)]
  <1> DEFINE Failing == {n \in Nat : ~\E g : UpTo(f, I, n, g)}
  <1>1. 0 \notin Failing
    <2> DEFINE g == [s \in SUBSET I |-> 0]
    <2>1. ASSUME NEW s \in SUBSET I
          PROVE  (IF Cardinality(s) > 0 THEN 0 ELSE TermAnd(f, g, s)) = 0
      <3>1. Cardinality(s) \in Nat /\ (Cardinality(s) = 0 => s = {})
        BY FS_Subset, FS_CardinalityType, FS_EmptySet
      <3> HIDE DEF g
      <3> QED BY <3>1 DEF TermAnd
    <2>2. UpTo(f, I, 0, g)
      BY <2>1 DEF UpTo
    <2> QED BY <2>2
  <1>2. Failing = {}
    <2>1. SUFFICES ASSUME Failing # {} PROVE FALSE
      OBVIOUS
    <2>2. PICK low \in Failing : \A j \in Failing : low <= j
      BY <2>1, LeastOf
    <2>3. low \in Nat /\ low # 0
      BY <1>1, <2>2
    <2>4. low - 1 \in Nat /\ low - 1 \notin Failing
      BY <2>2, <2>3
    <2>5. PICK h : UpTo(f, I, low - 1, h)
      BY <2>4
    <2>6. \E g : UpTo(f, I, (low - 1) + 1, g)
      BY <2>4, <2>5, OneTermMore
    <2>7. (low - 1) + 1 = low
      BY <2>3
    <2> QED BY <2>2, <2>6, <2>7
  <1>3. Cardinality(I) \in Nat
    BY FS_CardinalityType
  <1>4. PICK g : UpTo(f, I, Cardinality(I), g)
    BY <1>2, <1>3
  <1>5. \A s \in SUBSET I : ~(Cardinality(s) > Cardinality(I))
    BY <1>3, FS_Subset, FS_CardinalityType
  <1>6. g = [s \in SUBSET I |-> TermAnd(f, g, s)]
    BY <1>4, <1>5 DEF UpTo
  <1> QED BY <1>6

LEMMA SumsAre ==
    ASSUME NEW f, NEW I, IsFiniteSet(I), NEW s \in SUBSET I
    PROVE  Sums(f, I)[s] = TermAnd(f, Sums(f, I), s)
  <1>1. Sums(f, I) = [t \in SUBSET I |-> TermAnd(f, Sums(f, I), t)]
    BY SumsExist DEF Sums
  <1> HIDE DEF Sums
  <1> QED BY <1>1

\* A non-empty family of subsets of a finite set has a smallest member: what no
\* smallest member of a family can be, no member is.
LEMMA FewestTerms ==
    ASSUME NEW I, IsFiniteSet(I), NEW Bad, Bad \subseteq SUBSET I, Bad # {}
    PROVE  \E s \in Bad : \A r \in Bad : Cardinality(s) <= Cardinality(r)
  <1> DEFINE Sizes == {Cardinality(s) : s \in Bad}
  <1>1. Sizes \subseteq Nat /\ Sizes # {}
    BY FS_Subset, FS_CardinalityType
  <1>2. PICK low \in Sizes : \A j \in Sizes : low <= j
    BY <1>1, LeastOf
  <1> QED BY <1>2

\* A sum of naturals is a natural, and at most as many times the greatest term
\* as there are terms.
LEMMA SumsBounded ==
    ASSUME NEW f, NEW I, IsFiniteSet(I), NEW k \in Nat,
           \A i \in I : f[i] \in Nat /\ f[i] <= k,
           NEW s \in SUBSET I
    PROVE  Sums(f, I)[s] \in Nat /\ Sums(f, I)[s] <= k * Cardinality(s)
  <1> DEFINE Good(r) == Sums(f, I)[r] \in Nat /\ Sums(f, I)[r] <= k * Cardinality(r)
             Bad == {r \in SUBSET I : ~Good(r)}
  <1>1. SUFFICES ASSUME Bad # {} PROVE FALSE
    OBVIOUS
  <1>2. PICK r \in Bad : \A q \in Bad : Cardinality(r) <= Cardinality(q)
    BY <1>1, FewestTerms
  <1>3. Sums(f, I)[r] = TermAnd(f, Sums(f, I), r)
    BY SumsAre
  <1>4. r # {}
    <2>1. SUFFICES ASSUME r = {} PROVE Good(r)
      OBVIOUS
    <2>2. Cardinality(r) = 0 /\ Sums(f, I)[r] = 0
      BY <1>3, <2>1, FS_EmptySet DEF TermAnd
    <2> QED BY <2>2
  <1> DEFINE q == r \ {Picked(r)}
  <1>5. /\ IsFiniteSet(r) /\ q \in SUBSET I /\ Picked(r) \in I
        /\ Cardinality(r) \in Nat \ {0} /\ Cardinality(q) = Cardinality(r) - 1
    BY <1>4, FS_Subset, WithoutPicked, PickedIsIn
  <1>6. Good(q)
    <2>1. ~(Cardinality(r) <= Cardinality(q))
      BY <1>5
    <2> QED BY <1>2, <1>5, <2>1
  <1>7. Sums(f, I)[r] = f[Picked(r)] + Sums(f, I)[q]
    BY <1>3, <1>4 DEF TermAnd
  <1>8. Good(r)
    <2>1. PICK c \in Nat, a \in Nat, b \in Nat :
            c = Cardinality(q) /\ a = f[Picked(r)] /\ b = Sums(f, I)[q]
      BY <1>5, <1>6
    <2>2. Cardinality(r) = c + 1 /\ a <= k /\ b <= k * c
      BY <1>5, <1>6, <2>1
    <2>3. a + b \in Nat /\ k * (c + 1) = k * c + k
      BY <2>1
    <2>4. k * c \in Nat
      BY <2>1
    <2>5. a + b <= k * (c + 1)
      BY <2>1, <2>2, <2>3, <2>4
    <2> QED BY <1>7, <2>1, <2>2, <2>3, <2>5
  <1> QED BY <1>2, <1>8

LEMMA SumsNatural ==
    ASSUME NEW f, NEW I, IsFiniteSet(I), \A i \in I : f[i] \in Nat, NEW s \in SUBSET I
    PROVE  Sums(f, I)[s] \in Nat
  <1> DEFINE Bad == {r \in SUBSET I : Sums(f, I)[r] \notin Nat}
  <1>1. SUFFICES ASSUME Bad # {} PROVE FALSE
    OBVIOUS
  <1>2. PICK r \in Bad : \A q \in Bad : Cardinality(r) <= Cardinality(q)
    BY <1>1, FewestTerms
  <1>3. Sums(f, I)[r] = TermAnd(f, Sums(f, I), r)
    BY SumsAre
  <1>4. r # {}
    BY <1>2, <1>3 DEF TermAnd
  <1> DEFINE q == r \ {Picked(r)}
  <1>5. /\ IsFiniteSet(r) /\ q \in SUBSET I /\ Picked(r) \in I
        /\ Cardinality(r) \in Nat \ {0} /\ Cardinality(q) = Cardinality(r) - 1
    BY <1>4, FS_Subset, WithoutPicked, PickedIsIn
  <1>6. ~(Cardinality(r) <= Cardinality(q))
    BY <1>5
  <1>7. Sums(f, I)[q] \in Nat
    BY <1>2, <1>5, <1>6
  <1>8. Sums(f, I)[r] = f[Picked(r)] + Sums(f, I)[q]
    BY <1>3, <1>4 DEF TermAnd
  <1>9. Sums(f, I)[r] \in Nat
    BY <1>5, <1>7, <1>8
  <1> QED BY <1>2, <1>9

\* Any term may be taken first.
LEMMA SumsRemove ==
    ASSUME NEW f, NEW I, IsFiniteSet(I), \A i \in I : f[i] \in Nat,
           NEW s \in SUBSET I, NEW x \in s
    PROVE  Sums(f, I)[s] = f[x] + Sums(f, I)[s \ {x}]
  <1> DEFINE Good(r) == \A y \in r : Sums(f, I)[r] = f[y] + Sums(f, I)[r \ {y}]
             Bad == {r \in SUBSET I : ~Good(r)}
  <1>1. SUFFICES ASSUME Bad # {} PROVE FALSE
    OBVIOUS
  <1>2. PICK r \in Bad : \A q \in Bad : Cardinality(r) <= Cardinality(q)
    BY <1>1, FewestTerms
  <1>3. PICK y \in r : Sums(f, I)[r] # f[y] + Sums(f, I)[r \ {y}]
    BY <1>2
  <1> DEFINE p == Picked(r)
             q == r \ {p}
             w == r \ {y}
  <1>4. /\ IsFiniteSet(r) /\ q \in SUBSET I /\ w \in SUBSET I /\ p \in r /\ p \in I /\ y \in I
        /\ Cardinality(r) \in Nat \ {0} /\ Cardinality(q) = Cardinality(r) - 1
    BY <1>3, FS_Subset, WithoutPicked, PickedIsIn
  <1>5. Cardinality(w) = Cardinality(r) - 1
    BY <1>3, <1>4, FS_RemoveElement
  <1>6. Sums(f, I)[r] = f[p] + Sums(f, I)[q]
    BY <1>3, SumsAre DEF TermAnd
  <1>7. y # p
    BY <1>3, <1>6
  <1>8. Good(q) /\ Good(w)
    <2>1. ~(Cardinality(r) <= Cardinality(q)) /\ ~(Cardinality(r) <= Cardinality(w))
      BY <1>4, <1>5
    <2> QED BY <1>2, <1>4, <2>1
  <1>9. y \in q /\ p \in w /\ q \ {y} = w \ {p}
    BY <1>3, <1>4, <1>7
  <1>10. Sums(f, I)[q] = f[y] + Sums(f, I)[q \ {y}] /\ Sums(f, I)[w] = f[p] + Sums(f, I)[q \ {y}]
    BY <1>8, <1>9
  <1>11. Sums(f, I)[q \ {y}] \in Nat /\ f[y] \in Nat /\ f[p] \in Nat
    BY <1>4, SumsNatural
  <1>12. Sums(f, I)[r] = f[y] + Sums(f, I)[w]
    BY <1>6, <1>10, <1>11
  <1> QED BY <1>3, <1>12

\* Only the terms summed matter.
LEMMA SumsAgree ==
    ASSUME NEW f, NEW I, NEW g, NEW J, IsFiniteSet(I), IsFiniteSet(J),
           NEW s \in SUBSET I, s \subseteq J, \A i \in s : f[i] = g[i]
    PROVE  Sums(f, I)[s] = Sums(g, J)[s]
  <1> DEFINE Bad == {r \in SUBSET I : r \subseteq s /\ Sums(f, I)[r] # Sums(g, J)[r]}
  <1>1. SUFFICES ASSUME Bad # {} PROVE FALSE
    OBVIOUS
  <1>2. PICK r \in Bad : \A q \in Bad : Cardinality(r) <= Cardinality(q)
    BY <1>1, FewestTerms
  <1>3. Sums(f, I)[r] = TermAnd(f, Sums(f, I), r) /\ Sums(g, J)[r] = TermAnd(g, Sums(g, J), r)
    BY SumsAre
  <1>4. r # {}
    BY <1>2, <1>3 DEF TermAnd
  <1> DEFINE q == r \ {Picked(r)}
  <1>5. /\ IsFiniteSet(r) /\ q \in SUBSET I /\ Picked(r) \in s /\ q \subseteq s
        /\ Cardinality(r) \in Nat \ {0} /\ Cardinality(q) = Cardinality(r) - 1
    BY <1>2, <1>4, FS_Subset, WithoutPicked, PickedIsIn
  <1>6. ~(Cardinality(r) <= Cardinality(q))
    BY <1>5
  <1>7. Sums(f, I)[q] = Sums(g, J)[q] /\ f[Picked(r)] = g[Picked(r)]
    BY <1>2, <1>5, <1>6
  <1>8. Sums(f, I)[r] = Sums(g, J)[r]
    BY <1>3, <1>4, <1>7 DEF TermAnd
  <1> QED BY <1>2, <1>8

\* The total of naturals is a natural, bounded by their number times their bound.
LEMMA TotalNatural ==
    ASSUME NEW f, NEW I, IsFiniteSet(I), \A i \in I : f[i] \in Nat
    PROVE  Total(f, I) \in Nat
  BY SumsNatural DEF Total

LEMMA TotalBounded ==
    ASSUME NEW f, NEW I, IsFiniteSet(I), NEW k \in Nat,
           \A i \in I : f[i] \in Nat /\ f[i] <= k
    PROVE  Total(f, I) <= k * Cardinality(I)
  BY SumsBounded DEF Total

LEMMA TotalAgrees ==
    ASSUME NEW f, NEW g, NEW I, IsFiniteSet(I), \A i \in I : f[i] = g[i]
    PROVE  Total(f, I) = Total(g, I)
  BY SumsAgree DEF Total

\* The total of one set is what a term adds to the total of the rest.
LEMMA TotalRemove ==
    ASSUME NEW f, NEW I, IsFiniteSet(I), \A i \in I : f[i] \in Nat, NEW x \in I
    PROVE  Total(f, I) = f[x] + Total(f, I \ {x})
  <1>0. I \in SUBSET I
    OBVIOUS
  <1>1. Sums(f, I)[I] = f[x] + Sums(f, I)[I \ {x}]
    <2>1. ASSUME NEW s \in SUBSET I, NEW y \in s
          PROVE  Sums(f, I)[s] = f[y] + Sums(f, I)[s \ {y}]
      BY SumsRemove
    <2> QED BY <1>0, <2>1
  <1>2. IsFiniteSet(I \ {x}) /\ I \ {x} \in SUBSET I
    BY FS_Subset
  <1>3. Sums(f, I)[I \ {x}] = Sums(f, I \ {x})[I \ {x}]
    BY <1>2, SumsAgree
  <1>4. Total(f, I) = Sums(f, I)[I] /\ Total(f, I \ {x}) = Sums(f, I \ {x})[I \ {x}]
    BY DEF Total
  <1> QED BY <1>1, <1>3, <1>4

\* Changing one term changes the total by as much.
LEMMA TotalChanges ==
    ASSUME NEW f, NEW g, NEW I, IsFiniteSet(I), NEW x,
           \A i \in I : f[i] \in Nat /\ g[i] \in Nat,
           \A i \in I \ {x} : g[i] = f[i]
    PROVE  Total(g, I) = IF x \in I THEN Total(f, I) + g[x] - f[x] ELSE Total(f, I)
  <1>1. CASE x \in I
    <2>1. Total(f, I) = f[x] + Total(f, I \ {x}) /\ Total(g, I) = g[x] + Total(g, I \ {x})
      BY <1>1, TotalRemove
    <2>2. IsFiniteSet(I \ {x})
      BY FS_Subset
    <2>3. Total(f, I \ {x}) = Total(g, I \ {x})
      BY <2>2, TotalAgrees
    <2>4. Total(f, I \ {x}) \in Nat /\ f[x] \in Nat /\ g[x] \in Nat
      BY <1>1, <2>2, TotalNatural
    <2> QED BY <1>1, <2>1, <2>3, <2>4
  <1>2. CASE x \notin I
    BY <1>2, TotalAgrees
  <1> QED BY <1>1, <1>2

----------------------------------------------------------------------------
(* The order in which InOrder lists a set. *)

\* A list of the set S in order.
Ordered(q, S) ==
    /\ q \in [1..Cardinality(S) -> S]
    /\ \A m, n \in 1..Cardinality(S) : m < n => q[m] < q[n]

\* A finite set of naturals has a greatest element.
LEMMA GreatestOf ==
    ASSUME NEW S, S \subseteq Nat, IsFiniteSet(S), S # {}
    PROVE  \E high \in S : \A j \in S : j <= high
  <1> DEFINE Good == {n \in Nat : \E T \in SUBSET S : T # {} /\ Cardinality(T) = n
                                     /\ ~\E high \in T : \A j \in T : j <= high}
  <1> SUFFICES ASSUME Good # {} PROVE FALSE
    BY FS_CardinalityType
  <1>1. PICK low \in Good : \A n \in Good : low <= n
    BY LeastOf
  <1>2. PICK T \in SUBSET S : /\ T # {} /\ Cardinality(T) = low
                              /\ ~\E high \in T : \A j \in T : j <= high
    BY <1>1
  <1>3. PICK x : x \in T
    BY <1>2
  <1>4. IsFiniteSet(T) /\ T \ {x} \in SUBSET S
    BY FS_Subset
  <1>5. IsFiniteSet(T \ {x}) /\ Cardinality(T \ {x}) = low - 1 /\ low \in Nat /\ Cardinality(T \ {x}) \in Nat
    BY <1>2, <1>3, <1>4, FS_RemoveElement, FS_CardinalityType
  <1>6. low - 1 \notin Good
    BY <1>1, <1>5
  <1>7. CASE T \ {x} = {}
    BY <1>2, <1>3, <1>7
  <1>8. CASE T \ {x} # {}
    <2>1. PICK high \in T \ {x} : \A j \in T \ {x} : j <= high
      BY <1>4, <1>5, <1>6, <1>8
    <2>2. x \in Nat /\ high \in Nat
      BY <1>3, <2>1
    <2>3. CASE x <= high
      <3>1. \A j \in T : j <= high
        BY <2>1, <2>3
      <3> QED BY <1>2, <2>1, <3>1
    <2>4. CASE high <= x
      <3>1. \A j \in T : j \in Nat
        OBVIOUS
      <3>2. \A j \in T : j <= x
        BY <2>1, <2>2, <2>4, <3>1
      <3> QED BY <1>2, <1>3, <3>2
    <2> QED BY <2>2, <2>3, <2>4
  <1> QED BY <1>7, <1>8

\* Without its greatest element a set has one less; put last, it is in order.
LEMMA OneMore ==
    ASSUME NEW S, S \subseteq Nat, IsFiniteSet(S), NEW high \in S, \A j \in S : j <= high,
           NEW p, Ordered(p, S \ {high})
    PROVE  \E q : Ordered(q, S)
  <1> DEFINE c == Cardinality(S)
             q == [n \in 1..c |-> IF n = c THEN high ELSE p[n]]
  <1>1. c \in Nat /\ c # 0 /\ Cardinality(S \ {high}) = c - 1
    BY FS_CardinalityType, FS_RemoveElement, FS_EmptySet
  <1> HIDE DEF c
  <1>2. /\ p \in [1..(c - 1) -> S \ {high}]
        /\ \A m, n \in 1..(c - 1) : m < n => p[m] < p[n]
    BY <1>1 DEF Ordered
  <1>3. \A n \in 1..c : n # c => n \in 1..(c - 1)
    BY <1>1
  <1>4. q \in [1..c -> S]
    BY <1>2, <1>3
  <1>5. ASSUME NEW m \in 1..c, NEW n \in 1..c, m < n PROVE q[m] < q[n]
    <2>1. m # c /\ m \in 1..(c - 1)
      BY <1>1, <1>5
    <2>2. q[m] = p[m] /\ p[m] \in S /\ p[m] # high
      BY <1>2, <2>1
    <2>3. CASE n = c
      <3>1. q[n] = high
        BY <2>3
      <3>2. p[m] \in Nat /\ high \in Nat /\ p[m] <= high
        BY <2>2
      <3> QED BY <2>2, <3>1, <3>2
    <2>4. CASE n # c
      <3>1. n \in 1..(c - 1) /\ q[n] = p[n]
        BY <1>3, <2>4
      <3> QED BY <1>2, <1>5, <2>1, <2>2, <3>1
    <2> QED BY <2>3, <2>4
  <1>6. Ordered(q, S)
    BY <1>4, <1>5 DEF Ordered, c
  <1> QED BY <1>6

\* Every finite set of naturals can be listed in order.
LEMMA OrderExists ==
    ASSUME NEW S, S \subseteq Nat, IsFiniteSet(S)
    PROVE  \E q : Ordered(q, S)
  <1> DEFINE Failing == {n \in Nat : \E T \in SUBSET S : Cardinality(T) = n /\ ~\E q : Ordered(q, T)}
  <1> SUFFICES ASSUME Failing # {} PROVE FALSE
    BY FS_CardinalityType
  <1>1. PICK low \in Failing : \A n \in Failing : low <= n
    BY LeastOf
  <1>2. PICK T \in SUBSET S : Cardinality(T) = low /\ ~\E q : Ordered(q, T)
    BY <1>1
  <1>3. IsFiniteSet(T) /\ T \subseteq Nat /\ low \in Nat
    BY FS_Subset
  <1>4. CASE T = {}
    <2>1. Cardinality(T) = 0
      BY <1>4, FS_EmptySet
    <2>2. Ordered([n \in 1..0 |-> n], T)
      BY <1>4, <2>1 DEF Ordered
    <2> QED BY <1>2, <2>2
  <1>5. CASE T # {}
    <2>1. PICK high \in T : \A j \in T : j <= high
      BY <1>3, <1>5, GreatestOf
    <2>2. /\ Cardinality(T \ {high}) = low - 1 /\ Cardinality(T \ {high}) \in Nat
          /\ T \ {high} \in SUBSET S
      BY <1>2, <1>3, <2>1, FS_RemoveElement, FS_CardinalityType
    <2>3. low - 1 \notin Failing
      BY <1>1, <1>3, <2>2
    <2>4. PICK p : Ordered(p, T \ {high})
      BY <2>2, <2>3
    <2> QED BY <1>2, <1>3, <2>1, <2>4, OneMore
  <1> QED BY <1>4, <1>5

\* InOrder lists every element of the set once, in order.
LEMMA InOrderIs ==
    ASSUME NEW S, S \subseteq Nat, IsFiniteSet(S)
    PROVE  /\ Cardinality(S) \in Nat
           /\ InOrder(S) \in [1..Cardinality(S) -> S] /\ InOrder(S) \in Seq(S)
           /\ Len(InOrder(S)) = Cardinality(S)
           /\ \A m, n \in 1..Cardinality(S) : m < n => InOrder(S)[m] < InOrder(S)[n]
           /\ \A m, n \in 1..Cardinality(S) : InOrder(S)[m] = InOrder(S)[n] => m = n
           /\ \A x \in S : \E n \in 1..Cardinality(S) : InOrder(S)[n] = x
  <1>1. Ordered(InOrder(S), S)
    BY OrderExists DEF InOrder, Ordered
  <1>2. PICK q : q = InOrder(S)
    OBVIOUS
  <1>3. PICK c \in Nat : c = Cardinality(S)
    BY FS_CardinalityType
  <1>4. q \in [1..c -> S] /\ \A m, n \in 1..c : m < n => q[m] < q[n]
    BY <1>1, <1>2, <1>3 DEF Ordered
  <1>5. \A n \in 1..c : q[n] \in Nat
    BY <1>4
  <1>6. ASSUME NEW m \in 1..c, NEW n \in 1..c, q[m] = q[n] PROVE m = n
    BY <1>4, <1>5, <1>6
  <1>7. q \in Injection(1..c, S)
    BY <1>4, <1>6 DEF Injection, IsInjective
  <1>8. Cardinality(1..c) = c
    BY <1>3, FS_Interval
  <1>9. q \in Surjection(1..c, S)
    BY <1>3, <1>7, <1>8, FS_Injection
  <1>10. \A x \in S : \E n \in 1..c : q[n] = x
    BY <1>9 DEF Surjection
  <1>11. q \in Seq(S) /\ Len(q) = c
    BY <1>4
  <1> QED BY <1>2, <1>3, <1>4, <1>6, <1>10, <1>11
=============================================================================
