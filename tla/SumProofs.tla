------------------------------ MODULE SumProofs ------------------------------
EXTENDS Sums, FiniteSetTheorems, TLAPS

Any(S) == CHOOSE x \in S : TRUE

\* The equation of the library's recursive function.
Sums(f, S, g) ==
  g = [T \in SUBSET S |-> IF T = {} THEN 0 ELSE f[Any(T)] + g[T \ {Any(T)}]]

\* Induction over the subsets of a finite set, in terms of the set of those
\* for which a claim holds.
LEMMA SubsetInduction ==
  ASSUME NEW S, IsFiniteSet(S), NEW G,
         {} \in G,
         \A T \in SUBSET S : T # {} /\ (\A x \in T : T \ {x} \in G) => T \in G
  PROVE  SUBSET S \subseteq G
<1> DEFINE Bad == {T \in SUBSET S : T \notin G}
<1>1. SUFFICES ASSUME Bad # {} PROVE FALSE
  OBVIOUS
<1>2. PICK T \in Bad : \A U \in Bad : ~(U \subseteq T /\ U # T)
  <2>1. Bad \subseteq FiniteSubsetsOf(S)
    BY FS_Subset DEF FiniteSubsetsOf
  <2>2. \E T \in Bad : \A U \in Bad : ~(<<U, T>> \in StrictSubsetOrdering(S))
    BY <1>1, <2>1, FS_StrictSubsetOrderingWellFounded, WFMin
  <2> QED
    BY <2>2 DEF StrictSubsetOrdering
<1>3. T \in SUBSET S /\ T # {}
  OBVIOUS
<1>4. \A x \in T : T \ {x} \in G
  BY <1>2
<1> QED
  BY <1>3, <1>4

\* Induction over the natural numbers, likewise.
LEMMA NatSetInduction ==
  ASSUME NEW G, 0 \in G, \A n \in Nat : n \in G => n + 1 \in G
  PROVE  Nat \subseteq G
<1> DEFINE Bad == {n \in Nat : n \notin G}
<1>1. SUFFICES ASSUME Bad # {} PROVE FALSE
  OBVIOUS
<1>2. PICK n \in Bad : \A m \in Bad : ~(<<m, n>> \in OpToRel(<, Nat))
  <2>1. IsWellFoundedOn(OpToRel(<, Nat), Nat)
    BY NatLessThanWellFounded
  <2>2. Bad \subseteq Nat
    OBVIOUS
  <2> HIDE DEF Bad
  <2> QED
    BY <1>1, <2>1, <2>2, WFMin
<1>3. \A m \in Bad : ~(m < n)
  BY <1>2 DEF OpToRel
<1>4. n # 0 /\ n - 1 \in Nat /\ n - 1 \notin Bad
  BY <1>3
<1>5. (n - 1) + 1 \in G
  BY <1>4
<1> QED
  BY <1>5

\* The recursive function of the library exists.
LEMMA SumsExist ==
  ASSUME NEW S, IsFiniteSet(S), NEW f
  PROVE  \E g : Sums(f, S, g)
<1> DEFINE Upto(n) == {T \in SUBSET S : Cardinality(T) <= n}
           Body(g, T) == IF T = {} THEN 0 ELSE f[Any(T)] + g[T \ {Any(T)}]
           G == {n \in Nat : \E g : g = [T \in Upto(n) |-> Body(g, T)]}
<1>1. \A T \in SUBSET S : IsFiniteSet(T) /\ Cardinality(T) \in Nat
                          /\ Cardinality(T) <= Cardinality(S)
  BY FS_Subset, FS_CardinalityType
<1>2. \A T \in SUBSET S : T # {} =>
        /\ Any(T) \in T
        /\ T \ {Any(T)} \in SUBSET S
        /\ Cardinality(T \ {Any(T)}) = Cardinality(T) - 1
  BY <1>1, FS_RemoveElement DEF Any
<1>3. 0 \in G
  <2>1. \A T \in Upto(0) : T = {}
    BY <1>1, FS_EmptySet
  <2>2. [T \in Upto(0) |-> 0] = [T \in Upto(0) |-> Body([U \in Upto(0) |-> 0], T)]
    BY <2>1
  <2> QED
    BY <2>2
<1>4. ASSUME NEW n \in Nat, n \in G PROVE n + 1 \in G
  <2>1. PICK g : g = [T \in Upto(n) |-> Body(g, T)]
    BY <1>4
  <2> DEFINE h == [T \in Upto(n + 1) |-> Body(g, T)]
  <2>2. \A T \in Upto(n) : T \in Upto(n + 1) /\ h[T] = g[T]
    <3>1. ASSUME NEW T \in Upto(n) PROVE T \in Upto(n + 1) /\ h[T] = g[T]
      <4>1. T \in Upto(n + 1)
        BY <1>1
      <4>2. h[T] = Body(g, T)
        BY <4>1
      <4>3. g[T] = Body(g, T)
        <5> HIDE DEF Body, Upto
        <5> QED
          BY <2>1
      <4> QED
        BY <4>1, <4>2, <4>3
    <3> QED
      BY <3>1
  <2>3. \A T \in Upto(n + 1) : T # {} => T \ {Any(T)} \in Upto(n)
    BY <1>1, <1>2
  <2>4. \A T \in Upto(n + 1) : Body(h, T) = Body(g, T)
    <3> HIDE DEF h, Upto
    <3> QED
      BY <2>2, <2>3
  <2>5. h = [T \in Upto(n + 1) |-> Body(h, T)]
    <3> HIDE DEF Body
    <3>1. h = [T \in Upto(n + 1) |-> Body(g, T)]
      OBVIOUS
    <3> HIDE DEF h, Upto
    <3> QED
      BY <2>4, <3>1
  <2> HIDE DEF h, Body, Upto
  <2> QED
    BY <2>5
<1>5. Cardinality(S) \in G
  <2> HIDE DEF G
  <2> QED
    BY <1>1, <1>3, <1>4, NatSetInduction
<1>6. Upto(Cardinality(S)) = SUBSET S
  BY <1>1
<1>7. PICK g : g = [T \in Upto(Cardinality(S)) |-> Body(g, T)]
  BY <1>5
<1>8. g = [T \in SUBSET S |-> Body(g, T)]
  <2> HIDE DEF Body, Upto
  <2> QED
    BY <1>6, <1>7
<1> QED
  BY <1>8 DEF Sums

-----------------------------------------------------------------------------
\* Two such functions agree where the functions they sum do.
LEMMA SumsAgree ==
  ASSUME NEW S, IsFiniteSet(S), NEW T \in SUBSET S, NEW f, NEW h, NEW g, NEW k,
         Sums(f, S, g), Sums(h, T, k), \A x \in T : f[x] = h[x]
  PROVE  \A U \in SUBSET T : g[U] = k[U]
<1> DEFINE G == {U \in SUBSET T : g[U] = k[U]}
<1>1. IsFiniteSet(T)
  BY FS_Subset
<1>2. \A U \in SUBSET S : g[U] = IF U = {} THEN 0 ELSE f[Any(U)] + g[U \ {Any(U)}]
  BY DEF Sums
<1>3. \A U \in SUBSET T : k[U] = IF U = {} THEN 0 ELSE h[Any(U)] + k[U \ {Any(U)}]
  BY DEF Sums
<1>4. {} \in G
  BY <1>2, <1>3
<1>5. ASSUME NEW U \in SUBSET T, U # {}, \A x \in U : U \ {x} \in G
      PROVE  U \in G
  <2>1. Any(U) \in U
    BY <1>5 DEF Any
  <2>2. U \in SUBSET S /\ f[Any(U)] = h[Any(U)]
    BY <2>1
  <2>3. g[U \ {Any(U)}] = k[U \ {Any(U)}]
    BY <1>5, <2>1
  <2>4. g[U] = f[Any(U)] + g[U \ {Any(U)}]
    BY <1>2, <1>5, <2>2
  <2>5. k[U] = h[Any(U)] + k[U \ {Any(U)}]
    BY <1>3, <1>5
  <2> QED
    BY <2>2, <2>3, <2>4, <2>5
<1> HIDE DEF G
<1>6. SUBSET T \subseteq G
  BY <1>1, <1>4, <1>5, SubsetInduction
<1> QED
  BY <1>6 DEF G

\* A sum is the value of any such function.
LEMMA SumValue ==
  ASSUME NEW S, IsFiniteSet(S), NEW f, NEW g, Sums(f, S, g)
  PROVE  \A T \in SUBSET S : SumOver(f, T) = g[T]
<1> SUFFICES ASSUME NEW T \in SUBSET S PROVE SumOver(f, T) = g[T]
  OBVIOUS
<1> DEFINE k == CHOOSE j : Sums(f, T, j)
<1>1. Sums(f, T, k)
  BY FS_Subset, SumsExist
<1>2. SumOver(f, T) = k[T]
  BY DEF SumOver, MapThenSumSet, MapThenFoldSet, Sums, Any
<1> HIDE DEF k
<1>3. g[T] = k[T]
  BY <1>1, SumsAgree
<1> QED
  BY <1>2, <1>3

\* The sum over no element, and over one element more.
LEMMA SumUnfolds ==
  ASSUME NEW S, IsFiniteSet(S), NEW f
  PROVE  SumOver(f, S) =
           IF S = {} THEN 0 ELSE f[Any(S)] + SumOver(f, S \ {Any(S)})
<1>1. PICK g : Sums(f, S, g)
  BY SumsExist
<1>2. /\ SumOver(f, S) = g[S]
      /\ SumOver(f, S \ {Any(S)}) = g[S \ {Any(S)}]
  BY <1>1, SumValue
<1>3. g[S] = IF S = {} THEN 0 ELSE f[Any(S)] + g[S \ {Any(S)}]
  BY <1>1 DEF Sums
<1> QED
  BY <1>2, <1>3

LEMMA SumEmpty ==
  ASSUME NEW f
  PROVE  SumOver(f, {}) = 0
  BY SumUnfolds, FS_EmptySet

\* Only the values in the set count.
LEMMA SumSame ==
  ASSUME NEW S, IsFiniteSet(S), NEW f, NEW h, \A x \in S : f[x] = h[x]
  PROVE  SumOver(f, S) = SumOver(h, S)
<1>1. PICK g : Sums(f, S, g)
  BY SumsExist
<1>2. PICK k : Sums(h, S, k)
  BY SumsExist
<1>3. S \in SUBSET S
  OBVIOUS
<1>4. \A U \in SUBSET S : g[U] = k[U]
  BY <1>1, <1>2, <1>3, SumsAgree
<1> QED
  BY <1>1, <1>2, <1>3, <1>4, SumValue

\* A sum of integers is an integer.
LEMMA SumInt ==
  ASSUME NEW S, IsFiniteSet(S), NEW f, \A x \in S : f[x] \in Int
  PROVE  SumOver(f, S) \in Int
<1> DEFINE G == {T \in SUBSET S : SumOver(f, T) \in Int}
<1>1. {} \in G
  BY SumEmpty
<1>2. ASSUME NEW T \in SUBSET S, T # {}, \A x \in T : T \ {x} \in G
      PROVE  T \in G
  <2>1. Any(T) \in T
    BY <1>2 DEF Any
  <2>2. SumOver(f, T) = f[Any(T)] + SumOver(f, T \ {Any(T)})
    BY <1>2, FS_Subset, SumUnfolds
  <2> QED
    BY <1>2, <2>1, <2>2
<1> HIDE DEF G
<1>3. SUBSET S \subseteq G
  BY <1>1, <1>2, SubsetInduction
<1> QED
  BY <1>3 DEF G

\* Any element may be taken out first.
LEMMA SumRemove ==
  ASSUME NEW S, IsFiniteSet(S), NEW f, \A x \in S : f[x] \in Int, NEW y \in S
  PROVE  SumOver(f, S) = f[y] + SumOver(f, S \ {y})
<1> DEFINE G == {T \in SUBSET S :
                   \A x \in T : SumOver(f, T) = f[x] + SumOver(f, T \ {x})}
<1>1. {} \in G
  OBVIOUS
<1>2. ASSUME NEW T \in SUBSET S, T # {}, \A x \in T : T \ {x} \in G
      PROVE  T \in G
  <2> SUFFICES ASSUME NEW x \in T
               PROVE  SumOver(f, T) = f[x] + SumOver(f, T \ {x})
    OBVIOUS
  <2> DEFINE c == Any(T)
  <2>1. c \in T
    BY <1>2 DEF Any
  <2>2. SumOver(f, T) = f[c] + SumOver(f, T \ {c})
    BY <1>2, FS_Subset, SumUnfolds
  <2> HIDE DEF c
  <2>3. CASE x = c
    BY <2>2, <2>3
  <2>4. CASE x # c
    <3>1. SumOver(f, T \ {c}) = f[x] + SumOver(f, (T \ {c}) \ {x})
      BY <1>2, <2>1, <2>4
    <3>2. SumOver(f, T \ {x}) = f[c] + SumOver(f, (T \ {x}) \ {c})
      BY <1>2, <2>1, <2>4
    <3>3. (T \ {c}) \ {x} = (T \ {x}) \ {c}
      OBVIOUS
    <3>4. /\ f[x] \in Int /\ f[c] \in Int
          /\ SumOver(f, (T \ {c}) \ {x}) \in Int
      <4>1. IsFiniteSet((T \ {c}) \ {x})
        BY FS_Subset
      <4> QED
        BY <2>1, <4>1, SumInt
    <3>5. SumOver(f, T \ {x}) = f[c] + SumOver(f, (T \ {c}) \ {x})
      BY <3>2, <3>3
    <3> QED
      BY <2>2, <3>1, <3>4, <3>5
  <2> QED
    BY <2>3, <2>4
<1> HIDE DEF G
<1>3. SUBSET S \subseteq G
  BY <1>1, <1>2, SubsetInduction
<1> QED
  BY <1>3 DEF G

\* One element more, one term more.
LEMMA SumInsert ==
  ASSUME NEW S, IsFiniteSet(S), NEW y, y \notin S, NEW f,
         \A x \in S \cup {y} : f[x] \in Int
  PROVE  SumOver(f, S \cup {y}) = f[y] + SumOver(f, S)
<1>1. IsFiniteSet(S \cup {y}) /\ (S \cup {y}) \ {y} = S
  BY FS_AddElement
<1> QED
  BY <1>1, SumRemove

\* One element more, and nothing changes for the others.
LEMMA SumGrows ==
  ASSUME NEW S, IsFiniteSet(S), NEW y, y \notin S, NEW f, NEW h,
         \A x \in S : f[x] \in Int /\ h[x] = f[x], h[y] \in Int
  PROVE  /\ IsFiniteSet(S \cup {y})
         /\ SumOver(h, S \cup {y}) = SumOver(f, S) + h[y]
         /\ SumOver(f, S) \in Int
<1>1. SumOver(h, S \cup {y}) = h[y] + SumOver(h, S)
  BY SumInsert
<1>2. SumOver(h, S) = SumOver(f, S)
  BY SumSame
<1>3. SumOver(f, S) \in Int
  BY SumInt
<1> QED
  BY <1>1, <1>2, <1>3, FS_AddElement

\* A change of one term changes the sum by as much.
LEMMA SumChange ==
  ASSUME NEW S, IsFiniteSet(S), NEW y \in S, NEW f, NEW h,
         \A x \in S : f[x] \in Int /\ h[x] \in Int,
         \A x \in S \ {y} : h[x] = f[x]
  PROVE  SumOver(h, S) = SumOver(f, S) - f[y] + h[y]
<1>1. IsFiniteSet(S \ {y})
  BY FS_Subset
<1>2. SumOver(f, S) = f[y] + SumOver(f, S \ {y})
  BY SumRemove
<1>3. SumOver(h, S) = h[y] + SumOver(h, S \ {y})
  BY SumRemove
<1>4. SumOver(h, S \ {y}) = SumOver(f, S \ {y})
  BY <1>1, SumSame
<1>5. SumOver(f, S \ {y}) \in Int
  BY <1>1, SumInt
<1> QED
  BY <1>2, <1>3, <1>4, <1>5

\* The sum of sums.
LEMMA SumPlus ==
  ASSUME NEW S, IsFiniteSet(S), NEW f, NEW h, NEW k,
         \A x \in S : f[x] \in Int /\ h[x] \in Int /\ k[x] = f[x] + h[x]
  PROVE  SumOver(k, S) = SumOver(f, S) + SumOver(h, S)
<1> DEFINE G == {T \in SUBSET S : SumOver(k, T) = SumOver(f, T) + SumOver(h, T)}
<1>1. {} \in G
  BY SumEmpty
<1>2. ASSUME NEW T \in SUBSET S, T # {}, \A x \in T : T \ {x} \in G
      PROVE  T \in G
  <2>1. PICK c : c \in T
    BY <1>2
  <2>2. IsFiniteSet(T) /\ IsFiniteSet(T \ {c})
    BY FS_Subset
  <2>3. \A x \in T : f[x] \in Int /\ h[x] \in Int /\ k[x] \in Int /\ k[x] = f[x] + h[x]
    OBVIOUS
  <2>4. /\ SumOver(f, T) = f[c] + SumOver(f, T \ {c})
        /\ SumOver(h, T) = h[c] + SumOver(h, T \ {c})
        /\ SumOver(k, T) = k[c] + SumOver(k, T \ {c})
    BY <2>1, <2>2, <2>3, SumRemove
  <2>5. SumOver(f, T \ {c}) \in Int /\ SumOver(h, T \ {c}) \in Int
    BY <2>2, <2>3, SumInt
  <2>6. SumOver(k, T \ {c}) = SumOver(f, T \ {c}) + SumOver(h, T \ {c})
    BY <1>2, <2>1
  <2> QED
    BY <2>1, <2>3, <2>4, <2>5, <2>6
<1> HIDE DEF G
<1>3. SUBSET S \subseteq G
  BY <1>1, <1>2, SubsetInduction
<1> QED
  BY <1>3 DEF G

\* A sum of natural numbers is one, and at least each of them.
LEMMA SumNat ==
  ASSUME NEW S, IsFiniteSet(S), NEW f, \A x \in S : f[x] \in Nat
  PROVE  SumOver(f, S) \in Nat /\ \A x \in S : f[x] <= SumOver(f, S)
<1> DEFINE G == {T \in SUBSET S : SumOver(f, T) \in Nat}
<1>1. {} \in G
  BY SumEmpty
<1>2. ASSUME NEW T \in SUBSET S, T # {}, \A x \in T : T \ {x} \in G
      PROVE  T \in G
  <2>1. PICK c : c \in T
    BY <1>2
  <2>2. IsFiniteSet(T) /\ \A x \in T : f[x] \in Int
    BY FS_Subset
  <2>3. SumOver(f, T) = f[c] + SumOver(f, T \ {c})
    BY <2>1, <2>2, SumRemove
  <2> QED
    BY <1>2, <2>1, <2>3
<1> HIDE DEF G
<1>3. SUBSET S \subseteq G
  BY <1>1, <1>2, SubsetInduction
<1>4. ASSUME NEW x \in S PROVE f[x] <= SumOver(f, S)
  <2>1. SumOver(f, S) = f[x] + SumOver(f, S \ {x})
    BY SumRemove
  <2>2. SumOver(f, S \ {x}) \in Nat
    BY <1>3 DEF G
  <2> QED
    BY <2>1, <2>2
<1> QED
  BY <1>3, <1>4 DEF G

\* Terms that are zero may be left out of a sum.
LEMMA SumRestrict ==
  ASSUME NEW S, IsFiniteSet(S), NEW T \in SUBSET S, NEW f, \A x \in S : f[x] \in Int,
         \A x \in S \ T : f[x] = 0
  PROVE  SumOver(f, S) = SumOver(f, T)
<1> DEFINE G == {U \in SUBSET S : SumOver(f, U) = SumOver(f, U \cap T)}
<1>1. {} \in G
  OBVIOUS
<1>2. ASSUME NEW U \in SUBSET S, U # {}, \A x \in U : U \ {x} \in G
      PROVE  U \in G
  <2>1. PICK c : c \in U
    BY <1>2
  <2>2. IsFiniteSet(U) /\ IsFiniteSet(U \cap T)
    BY FS_Subset
  <2>3. SumOver(f, U) = f[c] + SumOver(f, U \ {c})
    BY <2>1, <2>2, SumRemove
  <2>4. SumOver(f, U \ {c}) = SumOver(f, (U \ {c}) \cap T)
    BY <1>2, <2>1
  <2>5. CASE c \in T
    <3>1. SumOver(f, U \cap T) = f[c] + SumOver(f, (U \cap T) \ {c})
      BY <2>1, <2>2, <2>5, SumRemove
    <3>2. (U \cap T) \ {c} = (U \ {c}) \cap T
      OBVIOUS
    <3> QED
      BY <2>3, <2>4, <3>1, <3>2
  <2>6. CASE c \notin T
    <3>1. f[c] = 0 /\ (U \ {c}) \cap T = U \cap T
      BY <2>1, <2>6
    <3>2. SumOver(f, U \cap T) \in Int
      BY <2>2, SumInt
    <3>3. SumOver(f, U \ {c}) = SumOver(f, U \cap T)
      BY <2>4, <3>1
    <3>4. SumOver(f, U) = SumOver(f, U \cap T)
      BY <2>3, <3>1, <3>2, <3>3
    <3> QED
      BY <3>4
  <2> QED
    BY <2>5, <2>6
<1> HIDE DEF G
<1>3. SUBSET S \subseteq G
  BY <1>1, <1>2, SubsetInduction
<1>4. SumOver(f, S) = SumOver(f, S \cap T)
  BY <1>3 DEF G
<1>5. S \cap T = T
  OBVIOUS
<1> QED
  BY <1>4, <1>5

\* The sum that counts: one for each element of a subset.
LEMMA SumCounts ==
  ASSUME NEW S, IsFiniteSet(S), NEW T \in SUBSET S, NEW f,
         \A x \in S : f[x] = IF x \in T THEN 1 ELSE 0
  PROVE  SumOver(f, S) = Cardinality(T)
<1> DEFINE G == {U \in SUBSET T : SumOver(f, U) = Cardinality(U)}
<1>1. {} \in G
  BY SumEmpty, FS_EmptySet
<1>2. ASSUME NEW U \in SUBSET T, U # {}, \A x \in U : U \ {x} \in G
      PROVE  U \in G
  <2>1. PICK c : c \in U
    BY <1>2
  <2>2. IsFiniteSet(U) /\ \A x \in U : f[x] = 1
    BY FS_Subset
  <2>3. SumOver(f, U) = f[c] + SumOver(f, U \ {c})
    BY <2>1, <2>2, SumRemove
  <2>4. SumOver(f, U \ {c}) = Cardinality(U \ {c})
    BY <1>2, <2>1
  <2>5. Cardinality(U \ {c}) = Cardinality(U) - 1 /\ Cardinality(U) \in Nat
    BY <2>1, <2>2, FS_RemoveElement, FS_CardinalityType
  <2> QED
    BY <2>1, <2>2, <2>3, <2>4, <2>5
<1> HIDE DEF G
<1>3. IsFiniteSet(T)
  BY FS_Subset
<1>4. SUBSET T \subseteq G
  BY <1>1, <1>2, <1>3, SubsetInduction
<1>5. SumOver(f, T) = Cardinality(T)
  BY <1>4 DEF G
<1>6. SumOver(f, S) = SumOver(f, T)
  BY SumRestrict
<1> QED
  BY <1>5, <1>6
=============================================================================
