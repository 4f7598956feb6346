----------------------------- MODULE SumTheorems -----------------------------
(***************************************************************************)
(* What a sum over a finite set does when a term is taken out, added or    *)
(* changed: facts about SumFunctionOnSet of the community modules that the *)
(* proofs about money need.                                                *)
(***************************************************************************)
EXTENDS Integers, Functions, FiniteSetTheorems, WellFoundedInduction, TLAPS

-----------------------------------------------------------------------------
(* Induction over the subsets of a finite set *)

\* A family of subsets of a finite set has a smallest one.
LEMMA SmallestSet ==
    ASSUME NEW S, IsFiniteSet(S), NEW Bad \in SUBSET (SUBSET S), Bad # {}
    PROVE  \E T \in Bad : \A U \in Bad : U \subseteq T => U = T
<1>1. IsWellFoundedOn(StrictSubsetOrdering(S), SUBSET S)
  BY FS_StrictSubsetOrderingWellFounded, FS_FiniteSubsetsOfFinite
<1>2. PICK T \in Bad : \A U \in Bad : ~ (<<U, T>> \in StrictSubsetOrdering(S))
  BY <1>1, WFMin
<1>3. ASSUME NEW U \in Bad, U \subseteq T, U # T PROVE FALSE
  BY <1>2, <1>3 DEF StrictSubsetOrdering
<1> QED BY <1>2, <1>3

\* A set is good if each of its subsets is good as soon as the smaller ones are.
LEMMA StrongSubsetInduction ==
    ASSUME NEW S, IsFiniteSet(S), NEW Good,
           \A T \in SUBSET S : (\A U \in SUBSET T : U # T => U \in Good) => T \in Good
    PROVE  S \in Good
<1> DEFINE Bad == {T \in SUBSET S : T \notin Good}
<1>1. SUFFICES ASSUME S \notin Good PROVE FALSE
  OBVIOUS
<1>2. Bad # {} /\ Bad \in SUBSET (SUBSET S)
  BY <1>1
<1>3. PICK T \in Bad : \A U \in Bad : U \subseteq T => U = T
  <2> HIDE DEF Bad
  <2> QED BY <1>2, SmallestSet
<1>4. ASSUME NEW U \in SUBSET T, U # T PROVE U \in Good
  BY <1>3, <1>4
<1> QED BY <1>3, <1>4

\* A set is good if the empty set is and one more element does no harm.
LEMMA SubsetInduction ==
    ASSUME NEW S, IsFiniteSet(S), NEW Good, {} \in Good,
           \A T \in SUBSET S, x \in S : T \in Good /\ x \notin T => T \cup {x} \in Good
    PROVE  S \in Good
<1>1. ASSUME NEW T \in SUBSET S, \A U \in SUBSET T : U # T => U \in Good
      PROVE  T \in Good
  <2>1. CASE T = {}
    BY <2>1
  <2>2. CASE T # {}
    <3>1. PICK x \in T : TRUE
      BY <2>2
    <3>2. T \ {x} \in Good /\ x \notin T \ {x} /\ T \ {x} \in SUBSET S /\ x \in S
      BY <1>1, <3>1
    <3>3. (T \ {x}) \cup {x} = T
      BY <3>1
    <3> QED BY <3>2, <3>3
  <2> QED BY <2>1, <2>2
<1> QED BY <1>1, StrongSubsetInduction

-----------------------------------------------------------------------------
(* The recursive function behind the sum *)

\* A term of T and the sum of the others, as the fold takes them.
First(T) == CHOOSE x \in T : TRUE
Summed(f, sum, T) == IF T = {} THEN 0 ELSE f[First(T)] + sum[T \ {First(T)}]
Sums(f, S, sum) == sum = [T \in SUBSET S |-> Summed(f, sum, T)]

LEMMA SumIsFold ==
    ASSUME NEW f, NEW S
    PROVE  SumFunctionOnSet(f, S) = (CHOOSE sum : Sums(f, S, sum))[S]
BY Zenon DEF SumFunctionOnSet, FoldFunctionOnSet, MapThenFoldSet, Sums, Summed, First

\* Two such functions agree where both are defined.
LEMMA SumsUnique ==
    ASSUME NEW f, NEW S, NEW R, NEW s, NEW r, IsFiniteSet(S), IsFiniteSet(R),
           Sums(f, S, s), Sums(f, R, r), NEW T \in SUBSET S, T \in SUBSET R
    PROVE  s[T] = r[T]
<1> DEFINE Good == {U \in SUBSET T : s[U] = r[U]}
<1>1. ASSUME NEW V \in SUBSET T, \A U \in SUBSET V : U # V => U \in Good
      PROVE  V \in Good
  <2>1. s[V] = Summed(f, s, V) /\ r[V] = Summed(f, r, V)
    BY Zenon DEF Sums
  <2>2. CASE V = {}
    BY <2>1, <2>2 DEF Summed
  <2>3. CASE V # {}
    <3>1. First(V) \in V
      BY <2>3 DEF First
    <3>2. V \ {First(V)} \in Good
      BY <1>1, <3>1
    <3> QED BY <2>1, <2>3, <3>2 DEF Summed
  <2> QED BY <2>2, <2>3
<1>2. IsFiniteSet(T)
  BY FS_Subset
<1>3. T \in Good
  <2> HIDE DEF Good
  <2> QED BY <1>1, <1>2, StrongSubsetInduction
<1> QED BY <1>3

\* There is one.
LEMMA SumsExists ==
    ASSUME NEW f, NEW S, IsFiniteSet(S)
    PROVE  \E sum : Sums(f, S, sum)
<1> DEFINE Good == {T \in SUBSET S : \E sum : Sums(f, T, sum)}
<1>1. ASSUME NEW T \in SUBSET S, \A U \in SUBSET T : U # T => U \in Good
      PROVE  T \in Good
  <2> DEFINE one(U) == CHOOSE sum : Sums(f, U, sum)
  <2> DEFINE x == First(T)
  <2> DEFINE whole == [U \in SUBSET T |->
                IF U # T THEN one(U)[U]
                ELSE IF T = {} THEN 0 ELSE f[x] + one(T \ {x})[T \ {x}]]
  <2>1. ASSUME NEW U \in SUBSET T, U # T PROVE Sums(f, U, one(U))
    BY <1>1, <2>1
  <2>2. ASSUME NEW U \in SUBSET T, U # T, U # {}
        PROVE  one(U)[U] = f[First(U)] + one(U \ {First(U)})[U \ {First(U)}]
    <3> DEFINE V == U \ {First(U)}
    <3>1. First(U) \in U
      BY <2>2 DEF First
    <3>2. V \in SUBSET T /\ V # T /\ V \in SUBSET U
      BY <2>2, <3>1
    <3>3. Sums(f, U, one(U)) /\ Sums(f, V, one(V))
      BY <2>1, <2>2, <3>2
    <3>4. IsFiniteSet(U) /\ IsFiniteSet(V)
      BY FS_Subset, <3>2, IsFiniteSet(S)
    <3> HIDE DEF one
    <3>5. one(U)[V] = one(V)[V]
      BY <3>2, <3>3, <3>4, SumsUnique
    <3>6. one(U)[U] = Summed(f, one(U), U)
      BY Zenon, <3>3 DEF Sums
    <3> QED BY <2>2, <3>5, <3>6 DEF Summed
  <2>3. ASSUME NEW U \in SUBSET T, U # T, U = {} PROVE one(U)[U] = 0
    <3>1. Sums(f, U, one(U))
      BY <2>1, <2>3
    <3> HIDE DEF one
    <3>2. one(U)[U] = Summed(f, one(U), U)
      BY Zenon, <3>1 DEF Sums
    <3> QED BY <2>3, <3>2 DEF Summed
  <2>4. ASSUME NEW U \in SUBSET T PROVE whole[U] = Summed(f, whole, U)
    <3>1. U # {} => First(U) \in U
      BY DEF First
    <3> HIDE DEF one
    <3>2. U # {} => whole[U \ {First(U)}] = one(U \ {First(U)})[U \ {First(U)}]
      BY <3>1
    <3>3. CASE U = T
      BY <3>2, <3>3 DEF Summed
    <3>4. CASE U # T /\ U # {}
      <4>1. whole[U] = one(U)[U]
        BY <3>4
      <4> QED BY <2>2, <3>2, <3>4, <4>1 DEF Summed
    <3>5. CASE U # T /\ U = {}
      BY <2>3, <3>5 DEF Summed
    <3> QED BY <3>3, <3>4, <3>5
  <2>5. whole = [U \in SUBSET T |-> Summed(f, whole, U)]
    <3>1. whole = [U \in SUBSET T |-> whole[U]]
      OBVIOUS
    <3> HIDE DEF whole
    <3> QED BY <2>4, <3>1, Zenon
  <2>6. Sums(f, T, whole)
    <3> HIDE DEF whole
    <3> QED BY <2>5 DEF Sums
  <2> HIDE DEF whole
  <2> QED BY <2>6
<1>2. S \in Good
  <2> HIDE DEF Good
  <2> QED BY <1>1, StrongSubsetInduction
<1> QED BY <1>2

\* The sum of no terms, and the first term with the sum of the others.
LEMMA SumRecursion ==
    ASSUME NEW f, NEW S, IsFiniteSet(S)
    PROVE  SumFunctionOnSet(f, S) =
             IF S = {} THEN 0
             ELSE f[First(S)] + SumFunctionOnSet(f, S \ {First(S)})
<1> DEFINE one(U) == CHOOSE sum : Sums(f, U, sum)
<1> DEFINE V == S \ {First(S)}
<1>1. SumFunctionOnSet(f, S) = one(S)[S] /\ SumFunctionOnSet(f, V) = one(V)[V]
  BY SumIsFold
<1>2. IsFiniteSet(V)
  BY FS_RemoveElement
<1>3. Sums(f, S, one(S)) /\ Sums(f, V, one(V))
  BY <1>2, SumsExists
<1> HIDE DEF one
<1>4. one(S)[V] = one(V)[V]
  BY <1>2, <1>3, SumsUnique
<1>5. one(S)[S] = Summed(f, one(S), S)
  BY <1>3, Zenon DEF Sums
<1> QED BY <1>1, <1>4, <1>5 DEF Summed
-----------------------------------------------------------------------------
(* Sums of integers *)

\* A sum of integers is an integer.
LEMMA SumInt ==
    ASSUME NEW S, IsFiniteSet(S), NEW f, \A x \in S : f[x] \in Int
    PROVE  SumFunctionOnSet(f, S) \in Int
<1> DEFINE Good == {T \in SUBSET S : SumFunctionOnSet(f, T) \in Int}
<1>1. ASSUME NEW T \in SUBSET S, \A U \in SUBSET T : U # T => U \in Good
      PROVE  T \in Good
  <2>1. IsFiniteSet(T)
    BY FS_Subset
  <2>2. CASE T = {}
    BY <2>1, <2>2, SumRecursion
  <2>3. CASE T # {}
    <3>1. First(T) \in T
      BY <2>3 DEF First
    <3>2. T \ {First(T)} \in Good /\ f[First(T)] \in Int
      BY <1>1, <3>1
    <3> QED BY <2>1, <2>3, <3>2, SumRecursion
  <2> QED BY <2>2, <2>3
<1> HIDE DEF Good
<1>2. S \in Good
  BY <1>1, StrongSubsetInduction
<1> QED BY <1>2 DEF Good

\* Any term can be taken out first.
LEMMA SumTake ==
    ASSUME NEW S, IsFiniteSet(S), NEW f, \A x \in S : f[x] \in Int, NEW x \in S
    PROVE  SumFunctionOnSet(f, S) = f[x] + SumFunctionOnSet(f, S \ {x})
<1> DEFINE sum(T) == SumFunctionOnSet(f, T)
<1> DEFINE Good == {T \in SUBSET S : \A y \in T : sum(T) = f[y] + sum(T \ {y})}
<1>1. ASSUME NEW T \in SUBSET S, \A U \in SUBSET T : U # T => U \in Good,
             NEW y \in T
      PROVE  sum(T) = f[y] + sum(T \ {y})
  <2> DEFINE c == First(T)
  <2>1. c \in T
    BY DEF First
  <2>2. ASSUME NEW U \in SUBSET T PROVE IsFiniteSet(U) /\ sum(U) \in Int
    <3>1. IsFiniteSet(U) /\ \A z \in U : f[z] \in Int
      BY FS_Subset
    <3> QED BY <3>1, SumInt
  <2>3. sum(T) = f[c] + sum(T \ {c})
    BY <2>1, <2>2, SumRecursion
  <2>4. CASE y = c
    BY <2>3, <2>4
  <2>5. CASE y # c
    <3>1. T \ {c} \in Good /\ T \ {y} \in Good /\ y \in T \ {c} /\ c \in T \ {y}
      BY <1>1, <2>1, <2>5
    <3> HIDE DEF c, sum
    <3>2. sum(T \ {c}) = f[y] + sum((T \ {c}) \ {y})
      BY <3>1
    <3>3. sum(T \ {y}) = f[c] + sum((T \ {y}) \ {c})
      BY <3>1
    <3>4. (T \ {c}) \ {y} = (T \ {y}) \ {c}
      OBVIOUS
    <3> DEFINE s == sum((T \ {y}) \ {c})
    <3>5. f[c] \in Int /\ f[y] \in Int /\ s \in Int
      BY <2>1, <2>2
    <3>6. sum(T \ {c}) = f[y] + s /\ sum(T \ {y}) = f[c] + s
      BY <3>2, <3>3, <3>4, Zenon
    <3> HIDE DEF s
    <3> QED BY <2>3, <3>5, <3>6
  <2> QED BY <2>4, <2>5
<1>2. S \in Good
  <2> HIDE DEF sum
  <2>1. ASSUME NEW T \in SUBSET S, \A U \in SUBSET T : U # T => U \in Good
        PROVE  T \in Good
    BY <1>1, <2>1
  <2> HIDE DEF Good
  <2> QED BY <2>1, StrongSubsetInduction
<1> QED BY <1>2

\* A term is added.
LEMMA SumAdd ==
    ASSUME NEW S, IsFiniteSet(S), NEW x, x \notin S, NEW f,
           \A y \in S \cup {x} : f[y] \in Int
    PROVE  SumFunctionOnSet(f, S \cup {x}) = f[x] + SumFunctionOnSet(f, S)
<1>1. IsFiniteSet(S \cup {x}) /\ x \in S \cup {x} /\ (S \cup {x}) \ {x} = S
  BY FS_AddElement
<1> QED BY <1>1, SumTake

LEMMA SumEmpty == ASSUME NEW f PROVE SumFunctionOnSet(f, {}) = 0
BY SumRecursion, FS_EmptySet

\* One term changes.
LEMMA SumChange ==
    ASSUME NEW S, IsFiniteSet(S), NEW x \in S, NEW f, NEW g,
           \A y \in S : f[y] \in Int /\ g[y] \in Int,
           \A y \in S : y # x => g[y] = f[y]
    PROVE  SumFunctionOnSet(g, S) = SumFunctionOnSet(f, S) + g[x] - f[x]
<1> DEFINE fsum(T) == SumFunctionOnSet(f, T)
<1> DEFINE gsum(T) == SumFunctionOnSet(g, T)
<1> DEFINE Rest == S \ {x}
<1> DEFINE Good == {T \in SUBSET Rest : gsum(T) = fsum(T)}
<1>1. IsFiniteSet(Rest)
  BY FS_RemoveElement
<1>2. {} \in Good
  BY SumEmpty
<1>3. ASSUME NEW T \in SUBSET Rest, NEW y \in Rest, T \in Good, y \notin T
      PROVE  T \cup {y} \in Good
  <2>1. IsFiniteSet(T) /\ f[y] = g[y] /\ \A z \in T \cup {y} : f[z] \in Int /\ g[z] \in Int
    BY <1>1, FS_Subset
  <2>2. fsum(T \cup {y}) = f[y] + fsum(T) /\ gsum(T \cup {y}) = g[y] + gsum(T)
    BY <1>3, <2>1, SumAdd
  <2> HIDE DEF fsum, gsum
  <2> QED BY <1>3, <2>1, <2>2
<1>4. Rest \in Good
  <2> HIDE DEF Good, Rest
  <2> QED BY <1>1, <1>2, <1>3, SubsetInduction
<1>5. fsum(Rest) \in Int
  BY <1>1, SumInt
<1>6. fsum(S) = f[x] + fsum(Rest) /\ gsum(S) = g[x] + gsum(Rest)
  BY SumTake
<1> HIDE DEF fsum, gsum
<1> SUFFICES gsum(S) = fsum(S) + g[x] - f[x]
  BY DEF fsum, gsum
<1>7. f[x] \in Int /\ g[x] \in Int /\ gsum(Rest) = fsum(Rest)
  BY <1>4
<1> QED BY <1>5, <1>6, <1>7

\* The same terms have the same sum.
LEMMA SumSame ==
    ASSUME NEW S, IsFiniteSet(S), NEW f, NEW g,
           \A x \in S : f[x] \in Int /\ g[x] = f[x]
    PROVE  SumFunctionOnSet(g, S) = SumFunctionOnSet(f, S)
<1>1. CASE S = {}
  BY <1>1, SumEmpty
<1>2. CASE S # {}
  <2>1. PICK x \in S : TRUE
    BY <1>2
  <2>2. SumFunctionOnSet(g, S) = SumFunctionOnSet(f, S) + g[x] - f[x]
    BY SumChange
  <2>3. SumFunctionOnSet(f, S) \in Int
    BY SumInt
  <2> QED BY <2>1, <2>2, <2>3
<1> QED BY <1>1, <1>2

\* Terms that are zero add up to zero.
LEMMA SumZeros ==
    ASSUME NEW S, IsFiniteSet(S), NEW f, \A x \in S : f[x] = 0
    PROVE  SumFunctionOnSet(f, S) = 0
<1> DEFINE Good == {T \in SUBSET S : SumFunctionOnSet(f, T) = 0}
<1>1. {} \in Good
  BY SumEmpty
<1>2. ASSUME NEW T \in SUBSET S, NEW x \in S, T \in Good, x \notin T
      PROVE  T \cup {x} \in Good
  <2>1. IsFiniteSet(T) /\ f[x] = 0 /\ \A y \in T \cup {x} : f[y] \in Int
    BY FS_Subset
  <2>2. SumFunctionOnSet(f, T \cup {x}) = f[x] + SumFunctionOnSet(f, T)
    BY <1>2, <2>1, SumAdd
  <2> QED BY <1>2, <2>1, <2>2
<1>3. S \in Good
  <2> HIDE DEF Good
  <2> QED BY <1>1, <1>2, SubsetInduction
<1> QED BY <1>3

\* A sum over a set is the sum over a part of it and the sum over the rest.
LEMMA SumSplit ==
    ASSUME NEW S, IsFiniteSet(S), NEW f, \A x \in S : f[x] \in Int, NEW R \in SUBSET S
    PROVE  SumFunctionOnSet(f, S) = SumFunctionOnSet(f, R) + SumFunctionOnSet(f, S \ R)
<1> DEFINE sum(T) == SumFunctionOnSet(f, T)
<1> DEFINE Good == {T \in SUBSET S : sum(S) = sum(T) + sum(S \ T)}
<1>0. ASSUME NEW T \in SUBSET S
      PROVE  IsFiniteSet(T) /\ (\A x \in T : f[x] \in Int) /\ sum(T) \in Int
  <2>1. IsFiniteSet(T) /\ (\A x \in T : f[x] \in Int)
    BY FS_Subset
  <2> QED BY <2>1, SumInt
<1>1. {} \in Good
  <2>1. S \ {} = S /\ sum({}) = 0 /\ sum(S) \in Int
    BY SumEmpty, <1>0
  <2> HIDE DEF sum
  <2> QED BY <2>1
<1>2. ASSUME NEW T \in SUBSET S, NEW x \in S, T \in Good, x \notin T
      PROVE  T \cup {x} \in Good
  <2>1. sum(T \cup {x}) = f[x] + sum(T)
    <3>1. \A y \in T \cup {x} : f[y] \in Int
      OBVIOUS
    <3> QED BY <1>0, <1>2, <3>1, SumAdd
  <2>2. sum(S \ T) = f[x] + sum((S \ T) \ {x})
    <3>1. S \ T \in SUBSET S /\ x \in S \ T
      BY <1>2
    <3> QED BY <1>0, <3>1, SumTake
  <2>3. (S \ T) \ {x} = S \ (T \cup {x})
    OBVIOUS
  <2> DEFINE r == sum(S \ (T \cup {x}))
  <2>4. f[x] \in Int /\ sum(T) \in Int /\ r \in Int
    BY <1>0
  <2>5. sum(S \ T) = f[x] + r
    BY <2>2, <2>3, Zenon
  <2>6. sum(S) = sum(T) + sum(S \ T)
    BY <1>2
  <2>7. sum(S) = sum(T \cup {x}) + r
    <3> HIDE DEF sum, r
    <3> QED BY <2>1, <2>4, <2>5, <2>6
  <2> QED BY <2>7
<1>3. \A T \in SUBSET S : T \in Good
  <2> SUFFICES ASSUME NEW T \in SUBSET S PROVE T \in Good
    OBVIOUS
  <2>1. IsFiniteSet(T)
    BY <1>0
  <2> HIDE DEF Good
  <2> QED BY <1>1, <1>2, <2>1, SubsetInduction
<1> QED BY <1>3

\* A sum of natural numbers is natural, and zero only if every term is.
LEMMA SumNat ==
    ASSUME NEW S, IsFiniteSet(S), NEW f, \A x \in S : f[x] \in Nat
    PROVE  /\ SumFunctionOnSet(f, S) \in Nat
           /\ \A x \in S : f[x] <= SumFunctionOnSet(f, S)
<1> DEFINE Good == {T \in SUBSET S : SumFunctionOnSet(f, T) \in Nat}
<1>1. {} \in Good
  BY SumEmpty
<1>2. ASSUME NEW T \in SUBSET S, NEW x \in S, T \in Good, x \notin T
      PROVE  T \cup {x} \in Good
  <2>1. IsFiniteSet(T) /\ f[x] \in Nat /\ \A y \in T \cup {x} : f[y] \in Int
    BY FS_Subset
  <2>2. SumFunctionOnSet(f, T \cup {x}) = f[x] + SumFunctionOnSet(f, T)
    BY <1>2, <2>1, SumAdd
  <2> QED BY <1>2, <2>1, <2>2
<1>3. ASSUME NEW T \in SUBSET S PROVE T \in Good
  <2>1. IsFiniteSet(T)
    BY FS_Subset
  <2> HIDE DEF Good
  <2> QED BY <1>1, <1>2, <2>1, SubsetInduction
<1>4. ASSUME NEW x \in S PROVE f[x] <= SumFunctionOnSet(f, S)
  <2>1. SumFunctionOnSet(f, S) = f[x] + SumFunctionOnSet(f, S \ {x})
    BY SumTake
  <2>2. SumFunctionOnSet(f, S \ {x}) \in Nat
    BY <1>3
  <2> QED BY <2>1, <2>2
<1> QED BY <1>3, <1>4

\* Sums are added term by term.
LEMMA SumPlus ==
    ASSUME NEW S, IsFiniteSet(S), NEW f, NEW g, NEW h,
           \A x \in S : f[x] \in Int /\ g[x] \in Int /\ h[x] = f[x] + g[x]
    PROVE  SumFunctionOnSet(h, S) = SumFunctionOnSet(f, S) + SumFunctionOnSet(g, S)
<1> DEFINE fsum(T) == SumFunctionOnSet(f, T)
<1> DEFINE gsum(T) == SumFunctionOnSet(g, T)
<1> DEFINE hsum(T) == SumFunctionOnSet(h, T)
<1> DEFINE Good == {T \in SUBSET S : hsum(T) = fsum(T) + gsum(T)}
<1>1. {} \in Good
  BY SumEmpty
<1>2. ASSUME NEW T \in SUBSET S, NEW x \in S, T \in Good, x \notin T
      PROVE  T \cup {x} \in Good
  <2>1. IsFiniteSet(T) /\ \A y \in T \cup {x} : f[y] \in Int /\ g[y] \in Int /\ h[y] \in Int
    BY FS_Subset
  <2>2. /\ fsum(T \cup {x}) = f[x] + fsum(T)
        /\ gsum(T \cup {x}) = g[x] + gsum(T)
        /\ hsum(T \cup {x}) = h[x] + hsum(T)
    BY <1>2, <2>1, SumAdd
  <2>3. fsum(T) \in Int /\ gsum(T) \in Int
    BY <2>1, SumInt
  <2>4. f[x] \in Int /\ g[x] \in Int /\ h[x] = f[x] + g[x] /\ hsum(T) = fsum(T) + gsum(T)
    BY <1>2
  <2> HIDE DEF fsum, gsum, hsum
  <2> QED BY <2>2, <2>3, <2>4
<1>3. S \in Good
  <2> HIDE DEF Good
  <2> QED BY <1>1, <1>2, SubsetInduction
<1> QED BY <1>3
=============================================================================
