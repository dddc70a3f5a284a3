------------------------------ MODULE SetSums ------------------------------
(***************************************************************************)
(* Sums of a function over a finite set: the fold of the community         *)
(* modules, with the facts the proofs about balances, spending and         *)
(* attempts need.  A fold is a recursive function on sets, and no          *)
(* induction theorem can be instantiated for it here; each lemma is proved *)
(* by taking a smallest subset that would contradict it (SmallestSet).     *)
(***************************************************************************)
EXTENDS FiniteSetsExt, FiniteSetTheorems, TLAPS

\* The sum of f over S, as the models take it.
SumOf(f, S) == SumFunctionOnSet(f, S)

\* The element a fold over s takes first.
First(s) == CHOOSE x \in s : TRUE

\* h gives the sum of f over every subset of S: the recursion of the fold.
Sums(f, S, h) ==
    h = [s \in SUBSET S |->
            IF s = {} THEN 0 ELSE f[First(s)] + h[s \ {First(s)}]]

\* A family of subsets of a finite set, unless empty, has a smallest member.
LEMMA SmallestSet ==
    ASSUME NEW S, IsFiniteSet(S), NEW B, B \subseteq SUBSET S, B # {}
    PROVE  \E X \in B : \A Y \in SUBSET X : Y # X => Y \notin B
  <1>1. FiniteSubsetsOf(S) = SUBSET S
    BY FS_FiniteSubsetsOfFinite
  <1>2. IsWellFoundedOn(StrictSubsetOrdering(S), SUBSET S)
    BY <1>1, FS_StrictSubsetOrderingWellFounded
  <1>3. \E X \in B : \A Y \in B : <<Y, X>> \notin StrictSubsetOrdering(S)
    BY <1>2, WFMin
  <1>4. ASSUME NEW X \in B, NEW Y \in SUBSET X, Y \in B, Y # X
        PROVE  <<Y, X>> \in StrictSubsetOrdering(S)
    BY <1>4 DEF StrictSubsetOrdering
  <1>5. QED
    BY <1>3, <1>4

\* A set of integers that is finite and not empty has a least element.
LEMMA LeastElement ==
    ASSUME NEW W, IsFiniteSet(W), W # {}, W \subseteq Int
    PROVE  \E f \in W : \A j \in W : f <= j
  <1> DEFINE upTo(k) == {j \in W : j <= k}
             B == {upTo(k) : k \in W}
  <1>1. B \subseteq SUBSET W /\ B # {}
    OBVIOUS
  <1>2. PICK X \in B : \A Y \in SUBSET X : Y # X => Y \notin B
    <2> HIDE DEF B
    <2>1. QED
      BY <1>1, SmallestSet
  <1>3. PICK f \in W : X = upTo(f)
    OBVIOUS
  <1>4. ASSUME NEW j \in W, j < f PROVE FALSE
    <2>1. f \in X /\ f \notin upTo(j)
      BY <1>3, <1>4
    <2>a. \A i \in W : i <= j => i <= f
      BY <1>4
    <2>b. upTo(j) \in SUBSET X
      BY <1>3, <2>a
    <2>2. upTo(j) \in B
      OBVIOUS
    <2>3. QED
      BY <1>2, <2>1, <2>b, <2>2
  <1>5. QED
    BY <1>4

\* The first element of a set is one of its elements.
LEMMA FirstOf == ASSUME NEW s, s # {} PROVE First(s) \in s
  BY DEF First

\* Two functions that follow the recursion agree wherever both are defined.
LEMMA SumsAgree ==
    ASSUME NEW f, NEW S, NEW T, NEW g, NEW h, IsFiniteSet(S),
           Sums(f, S, g), Sums(f, T, h)
    PROVE  \A U \in SUBSET S : U \in SUBSET T => g[U] = h[U]
  <1> DEFINE B == {U \in SUBSET S : U \in SUBSET T /\ g[U] # h[U]}
  <1> SUFFICES ASSUME B # {} PROVE FALSE
    OBVIOUS
  <1>a. B \subseteq SUBSET S
    OBVIOUS
  <1>1. PICK U \in B : \A V \in SUBSET U : V # U => V \notin B
    <2> HIDE DEF B
    <2>1. QED
      BY <1>a, SmallestSet
  <1>b. U \in SUBSET S /\ IsFiniteSet(U)
    BY <1>a, FS_Subset
  <1>2. /\ g[U] = IF U = {} THEN 0 ELSE f[First(U)] + g[U \ {First(U)}]
        /\ h[U] = IF U = {} THEN 0 ELSE f[First(U)] + h[U \ {First(U)}]
    BY DEF Sums
  <1>3. U # {}
    BY <1>2
  <1>4. U \ {First(U)} \notin B
    BY <1>1, <1>3, FirstOf
  <1>5. g[U \ {First(U)}] = h[U \ {First(U)}]
    BY <1>4
  <1>6. QED
    BY <1>2, <1>3, <1>5

\* On a finite set the recursion has a solution.
LEMMA SumsExist ==
    ASSUME NEW f, NEW S, IsFiniteSet(S)
    PROVE  \E h : Sums(f, S, h)
  <1> DEFINE B == {U \in SUBSET S : ~ \E h : Sums(f, U, h)}
  <1> SUFFICES ASSUME B # {} PROVE FALSE
    OBVIOUS
  <1>a. B \subseteq SUBSET S
    OBVIOUS
  <1>1. PICK U \in B : \A V \in SUBSET U : V # U => V \notin B
    <2> HIDE DEF B
    <2>1. QED
      BY <1>a, SmallestSet
  <1>b. U \in SUBSET S /\ IsFiniteSet(U)
    BY <1>a, FS_Subset
  <1>2. \A V \in SUBSET U : V # U => \E h : Sums(f, V, h)
    BY <1>1, <1>b
  <1> DEFINE of(V) == CHOOSE h : Sums(f, V, h)
             val(V) == of(V)[V]
             k == [s \in SUBSET U |-> IF s = {} THEN 0
                                      ELSE f[First(s)] + val(s \ {First(s)})]
  <1>3. \A V \in SUBSET U : V # U => Sums(f, V, of(V))
    BY <1>2
  <1>4. ASSUME NEW s \in SUBSET U, s # U PROVE k[s] = val(s)
    <2>1. val(s) = IF s = {} THEN 0 ELSE f[First(s)] + of(s)[s \ {First(s)}]
      <3>1. Sums(f, s, of(s))
        BY <1>3, <1>4
      <3> HIDE DEF of
      <3>2. QED
        BY <3>1 DEF Sums
    <2>2. CASE s # {}
      <3> DEFINE r == s \ {First(s)}
      <3>1. r \in SUBSET s /\ r \in SUBSET U /\ r # U
        BY <2>2, FirstOf
      <3>2. IsFiniteSet(s) /\ IsFiniteSet(r)
        BY <1>1, FS_Subset
      <3>3. Sums(f, s, of(s)) /\ Sums(f, r, of(r))
        BY <1>3, <1>4, <3>1
      <3> HIDE DEF of
      <3>4. of(s)[r] = of(r)[r]
        BY <3>1, <3>2, <3>3, SumsAgree
      <3>5. QED
        BY <2>1, <2>2, <3>4
    <2>3. QED
      BY <2>1, <2>2
  <1>5. \A s \in SUBSET U : s # {} => k[s \ {First(s)}] = val(s \ {First(s)})
    <2> HIDE DEF val, k
    <2> QED BY <1>4, FirstOf
  <1>6. Sums(f, U, k)
    <2>1. k = [s \in SUBSET U |-> IF s = {} THEN 0
                                  ELSE f[First(s)] + k[s \ {First(s)}]]
      <3> HIDE DEF val
      <3>1. \A s \in SUBSET U : k[s] = IF s = {} THEN 0
                                       ELSE f[First(s)] + k[s \ {First(s)}]
        <4> HIDE DEF k
        <4>1. \A s \in SUBSET U : k[s] = IF s = {} THEN 0
                                       ELSE f[First(s)] + val(s \ {First(s)})
           BY DEF k
        <4> QED BY <1>5, <4>1
      <3>2. DOMAIN k = SUBSET U /\ k = [s \in SUBSET U |-> k[s]]
        BY DEF k
      <3> HIDE DEF k
      <3> QED BY <3>1, <3>2
    <2> HIDE DEF k
    <2> QED BY <2>1 DEF Sums
  <1>7. QED
    BY <1>1, <1>6

\* The fold is that solution.
LEMMA SumOfSums ==
    ASSUME NEW f, NEW S, IsFiniteSet(S), NEW h, Sums(f, S, h)
    PROVE  SumOf(f, S) = h[S]
  <1> DEFINE it == CHOOSE i : Sums(f, S, i)
  <1>1. SumOf(f, S) = it[S]
    BY Zenon DEF SumOf, SumFunctionOnSet, FoldFunctionOnSet, MapThenFoldSet, Sums, First
  <1>2. Sums(f, S, it)
    BY SumsExist
  <1> HIDE DEF it
  <1>3. QED
    BY <1>1, <1>2, SumsAgree

\* Nothing adds up to zero.
LEMMA SumEmpty == ASSUME NEW f PROVE SumOf(f, {}) = 0
  <1>1. PICK h : Sums(f, {}, h)
    BY SumsExist, FS_EmptySet
  <1>2. h[{}] = 0
    BY <1>1 DEF Sums
  <1>3. QED
    BY <1>1, <1>2, SumOfSums, FS_EmptySet

\* The sum is the first element's value and the sum of the rest.
LEMMA SumFirst ==
    ASSUME NEW f, NEW S, IsFiniteSet(S), S # {}
    PROVE  SumOf(f, S) = f[First(S)] + SumOf(f, S \ {First(S)})
  <1> DEFINE r == S \ {First(S)}
  <1>1. PICK h : Sums(f, S, h)
    BY SumsExist
  <1>2. IsFiniteSet(r) /\ r \in SUBSET S /\ r \in SUBSET r
    BY FS_Subset
  <1>3. PICK g : Sums(f, r, g)
    BY <1>2, SumsExist
  <1>4. SumOf(f, S) = h[S] /\ SumOf(f, r) = g[r]
    BY <1>1, <1>2, <1>3, SumOfSums
  <1>5. h[r] = g[r]
    BY <1>1, <1>2, <1>3, SumsAgree
  <1>6. h[S] = f[First(S)] + h[r]
    BY <1>1 DEF Sums
  <1>7. QED
    BY <1>4, <1>5, <1>6

\* Sums of integers are integers.
LEMMA SumInt ==
    ASSUME NEW f, NEW S, IsFiniteSet(S), \A x \in S : f[x] \in Int
    PROVE  SumOf(f, S) \in Int
  <1> DEFINE B == {U \in SUBSET S : SumOf(f, U) \notin Int}
  <1> SUFFICES ASSUME B # {} PROVE FALSE
    OBVIOUS
  <1>a. B \subseteq SUBSET S
    OBVIOUS
  <1>1. PICK U \in B : \A V \in SUBSET U : V # U => V \notin B
    <2> HIDE DEF B
    <2>1. QED
      BY <1>a, SmallestSet
  <1>b. U \in SUBSET S /\ IsFiniteSet(U)
    BY <1>a, FS_Subset
  <1>2. U # {}
    <2>1. SumOf(f, {}) \in Int
      BY SumEmpty
    <2>2. QED
      BY <2>1
  <1>3. SumOf(f, U \ {First(U)}) \in Int /\ f[First(U)] \in Int
    BY <1>1, <1>b, <1>2, FirstOf
  <1>4. SumOf(f, U) = f[First(U)] + SumOf(f, U \ {First(U)})
    BY <1>b, <1>2, SumFirst
  <1>5. QED
    BY <1>1, <1>3, <1>4

\* Sums of natural numbers are natural numbers.
LEMMA SumNat ==
    ASSUME NEW f, NEW S, IsFiniteSet(S), \A x \in S : f[x] \in Nat
    PROVE  SumOf(f, S) \in Nat
  <1> DEFINE B == {U \in SUBSET S : SumOf(f, U) \notin Nat}
  <1> SUFFICES ASSUME B # {} PROVE FALSE
    OBVIOUS
  <1>a. B \subseteq SUBSET S
    OBVIOUS
  <1>1. PICK U \in B : \A V \in SUBSET U : V # U => V \notin B
    <2> HIDE DEF B
    <2>1. QED
      BY <1>a, SmallestSet
  <1>b. U \in SUBSET S /\ IsFiniteSet(U)
    BY <1>a, FS_Subset
  <1>2. U # {}
    <2>1. SumOf(f, {}) \in Nat
      BY SumEmpty
    <2>2. QED
      BY <2>1
  <1>3. SumOf(f, U \ {First(U)}) \in Nat /\ f[First(U)] \in Nat
    BY <1>1, <1>b, <1>2, FirstOf
  <1>4. SumOf(f, U) = f[First(U)] + SumOf(f, U \ {First(U)})
    BY <1>b, <1>2, SumFirst
  <1>5. QED
    BY <1>1, <1>3, <1>4

\* Two functions that agree on a set have the same sum over it.
LEMMA SumSame ==
    ASSUME NEW f, NEW g, NEW S, IsFiniteSet(S), \A x \in S : f[x] = g[x]
    PROVE  SumOf(f, S) = SumOf(g, S)
  <1> DEFINE B == {U \in SUBSET S : SumOf(f, U) # SumOf(g, U)}
  <1> SUFFICES ASSUME B # {} PROVE FALSE
    OBVIOUS
  <1>a. B \subseteq SUBSET S
    OBVIOUS
  <1>1. PICK U \in B : \A V \in SUBSET U : V # U => V \notin B
    <2> HIDE DEF B
    <2>1. QED
      BY <1>a, SmallestSet
  <1>b. U \in SUBSET S /\ IsFiniteSet(U)
    BY <1>a, FS_Subset
  <1>2. U # {}
    BY <1>1, SumEmpty
  <1>3. /\ SumOf(f, U \ {First(U)}) = SumOf(g, U \ {First(U)})
        /\ f[First(U)] = g[First(U)]
    BY <1>1, <1>b, <1>2, FirstOf
  <1>4. /\ SumOf(f, U) = f[First(U)] + SumOf(f, U \ {First(U)})
        /\ SumOf(g, U) = g[First(U)] + SumOf(g, U \ {First(U)})
    BY <1>b, <1>2, SumFirst
  <1>5. QED
    BY <1>1, <1>3, <1>4

\* Any element can be taken out of a sum, not only the first.
LEMMA SumTakeOut ==
    ASSUME NEW f, NEW S, IsFiniteSet(S), \A x \in S : f[x] \in Int
    PROVE  \A y \in S : SumOf(f, S) = f[y] + SumOf(f, S \ {y})
  <1> DEFINE Apart(U) == \A z \in U : SumOf(f, U) = f[z] + SumOf(f, U \ {z})
             B == {U \in SUBSET S : ~Apart(U)}
  <1> SUFFICES ASSUME B # {} PROVE FALSE
    OBVIOUS
  <1>a. B \subseteq SUBSET S
    OBVIOUS
  <1>1. PICK U \in B : \A V \in SUBSET U : V # U => V \notin B
    <2> HIDE DEF B
    <2>1. QED
      BY <1>a, SmallestSet
  <1>b. U \in SUBSET S /\ IsFiniteSet(U)
    BY <1>a, FS_Subset
  <1>2. PICK z \in U : SumOf(f, U) # f[z] + SumOf(f, U \ {z})
    OBVIOUS
  <1> DEFINE c == First(U)
  <1>3. U \in SUBSET S /\ c \in U /\ IsFiniteSet(U)
    BY <1>b, FirstOf
  <1>4. SumOf(f, U) = f[c] + SumOf(f, U \ {c})
    BY <1>3, SumFirst
  <1>5. c # z
    BY <1>2, <1>4
  <1>6. Apart(U \ {c}) /\ Apart(U \ {z})
    <2> HIDE DEF Apart
    <2> QED BY <1>1, <1>3
  <1>7. SumOf(f, U \ {c}) = f[z] + SumOf(f, (U \ {c}) \ {z})
    BY <1>3, <1>5, <1>6
  <1>8. SumOf(f, U \ {z}) = f[c] + SumOf(f, (U \ {z}) \ {c})
    BY <1>3, <1>5, <1>6
  <1>9. (U \ {c}) \ {z} = (U \ {z}) \ {c}
    OBVIOUS
  <1>10. SumOf(f, (U \ {c}) \ {z}) \in Int /\ f[c] \in Int /\ f[z] \in Int
    <2>1. IsFiniteSet((U \ {c}) \ {z})
      BY <1>3, FS_RemoveElement
    <2>2. QED
      BY <1>3, <2>1, SumInt
  <1> DEFINE rest == SumOf(f, (U \ {c}) \ {z})
  <1>11. /\ SumOf(f, U) = f[c] + (f[z] + rest)
         /\ SumOf(f, U \ {z}) = f[c] + rest
    BY <1>4, <1>7, <1>8, <1>9
  <1> HIDE DEF rest
  <1>12. rest \in Int /\ f[c] \in Int /\ f[z] \in Int
    BY <1>10 DEF rest
  <1>13. f[c] + (f[z] + rest) = f[z] + (f[c] + rest)
    BY <1>12
  <1>14. QED
    BY <1>2, <1>11, <1>13

\* One more element adds its value.
LEMMA SumAdd ==
    ASSUME NEW f, NEW S, IsFiniteSet(S), NEW y, y \notin S,
           \A x \in S \cup {y} : f[x] \in Int
    PROVE  SumOf(f, S \cup {y}) = f[y] + SumOf(f, S)
  <1>1. IsFiniteSet(S \cup {y})
    BY FS_AddElement
  <1>2. (S \cup {y}) \ {y} = S
    OBVIOUS
  <1>3. QED
    BY <1>1, <1>2, SumTakeOut

\* The change of one value changes the sum by as much.
LEMMA SumChange ==
    ASSUME NEW f, NEW g, NEW S, IsFiniteSet(S), NEW y \in S,
           \A x \in S : f[x] \in Int /\ g[x] \in Int,
           \A x \in S \ {y} : g[x] = f[x]
    PROVE  SumOf(g, S) = SumOf(f, S) + g[y] - f[y]
  <1>1. /\ SumOf(f, S) = f[y] + SumOf(f, S \ {y})
        /\ SumOf(g, S) = g[y] + SumOf(g, S \ {y})
    BY SumTakeOut
  <1>2. IsFiniteSet(S \ {y})
    BY FS_RemoveElement
  <1>3. SumOf(f, S \ {y}) = SumOf(g, S \ {y}) /\ SumOf(f, S \ {y}) \in Int
    BY <1>2, SumSame, SumInt
  <1>4. QED
    BY <1>1, <1>3

\* The sum over two disjoint sets.
LEMMA SumUnion ==
    ASSUME NEW f, NEW S, NEW T, IsFiniteSet(S), IsFiniteSet(T), S \cap T = {},
           \A x \in S \cup T : f[x] \in Int
    PROVE  SumOf(f, S \cup T) = SumOf(f, S) + SumOf(f, T)
  <1> DEFINE B == {U \in SUBSET S : SumOf(f, U \cup T) # SumOf(f, U) + SumOf(f, T)}
  <1> SUFFICES ASSUME B # {} PROVE FALSE
    OBVIOUS
  <1>a. B \subseteq SUBSET S
    OBVIOUS
  <1>1. PICK U \in B : \A V \in SUBSET U : V # U => V \notin B
    <2> HIDE DEF B
    <2>1. QED
      BY <1>a, SmallestSet
  <1>b. U \in SUBSET S /\ IsFiniteSet(U)
    BY <1>a, FS_Subset
  <1>c. SumOf(f, T) \in Int
    BY SumInt
  <1>2. U # {}
    <2>1. SumOf(f, {}) = 0 /\ {} \cup T = T
      BY SumEmpty
    <2>2. SumOf(f, {} \cup T) = SumOf(f, {}) + SumOf(f, T)
      BY <1>c, <2>1
    <2>3. {} \notin B
      BY <2>2
    <2>4. QED
      BY <1>1, <2>3
  <1> DEFINE c == First(U)
             V == U \ {c}
  <1>3. c \in U
    BY <1>2, FirstOf
  <1>4. SumOf(f, V \cup T) = SumOf(f, V) + SumOf(f, T)
    BY <1>1, <1>b, <1>3
  <1>5. SumOf(f, U) = f[c] + SumOf(f, V)
    BY <1>b, <1>2, SumFirst
  <1>6. SumOf(f, U \cup T) = f[c] + SumOf(f, V \cup T)
    <2>a. IsFiniteSet(V \cup T)
      BY <1>b, FS_Union, FS_RemoveElement
    <2>b. c \notin V \cup T
      BY <1>b, <1>3
    <2>c. U \cup T = (V \cup T) \cup {c}
      BY <1>3
    <2>1. IsFiniteSet(V \cup T) /\ c \notin V \cup T /\ U \cup T = (V \cup T) \cup {c}
      BY <2>a, <2>b, <2>c
    <2>2. \A x \in (V \cup T) \cup {c} : f[x] \in Int
      BY <1>b, <1>3
    <2> HIDE DEF V, c
    <2>3. QED
      BY <2>1, <2>2, SumAdd
  <1>7. SumOf(f, V) \in Int /\ f[c] \in Int
    BY <1>b, <1>3, SumInt, FS_RemoveElement
  <1>8. QED
    <2> HIDE DEF V, c
    <2>1. QED
      BY <1>1, <1>c, <1>4, <1>5, <1>6, <1>7

\* A greater set of natural numbers has no smaller sum.
LEMMA SumSubset ==
    ASSUME NEW f, NEW S, IsFiniteSet(S), NEW T \in SUBSET S, \A x \in S : f[x] \in Nat
    PROVE  SumOf(f, T) <= SumOf(f, S)
  <1> DEFINE rest == S \ T
  <1>1. IsFiniteSet(T) /\ IsFiniteSet(rest) /\ T \cap rest = {} /\ T \cup rest = S
    BY FS_Subset
  <1>2. SumOf(f, S) = SumOf(f, T) + SumOf(f, rest)
    BY <1>1, SumUnion
  <1>3. SumOf(f, T) \in Nat /\ SumOf(f, rest) \in Nat
    BY <1>1, SumNat
  <1>4. QED
    BY <1>2, <1>3

\* Zeros add up to zero.
LEMMA SumZeros ==
    ASSUME NEW f, NEW S, IsFiniteSet(S), \A x \in S : f[x] = 0
    PROVE  SumOf(f, S) = 0
  <1> DEFINE B == {U \in SUBSET S : SumOf(f, U) # 0}
  <1> SUFFICES ASSUME B # {} PROVE FALSE
    OBVIOUS
  <1>a. B \subseteq SUBSET S
    OBVIOUS
  <1>1. PICK U \in B : \A V \in SUBSET U : V # U => V \notin B
    <2> HIDE DEF B
    <2>1. QED
      BY <1>a, SmallestSet
  <1>b. U \in SUBSET S /\ IsFiniteSet(U)
    BY <1>a, FS_Subset
  <1>2. U # {}
    BY <1>1, SumEmpty
  <1>3. SumOf(f, U \ {First(U)}) = 0 /\ f[First(U)] = 0
    BY <1>1, <1>b, <1>2, FirstOf
  <1>4. SumOf(f, U) = f[First(U)] + SumOf(f, U \ {First(U)})
    BY <1>b, <1>2, SumFirst
  <1>5. QED
    BY <1>1, <1>3, <1>4

\* Ones add up to the number of elements.
LEMMA SumOnes ==
    ASSUME NEW f, NEW S, IsFiniteSet(S), \A x \in S : f[x] = 1
    PROVE  SumOf(f, S) = Cardinality(S)
  <1> DEFINE B == {U \in SUBSET S : SumOf(f, U) # Cardinality(U)}
  <1> SUFFICES ASSUME B # {} PROVE FALSE
    OBVIOUS
  <1>a. B \subseteq SUBSET S
    OBVIOUS
  <1>1. PICK U \in B : \A V \in SUBSET U : V # U => V \notin B
    <2> HIDE DEF B
    <2>1. QED
      BY <1>a, SmallestSet
  <1>b. U \in SUBSET S /\ IsFiniteSet(U)
    BY <1>a, FS_Subset
  <1>2. U # {}
    <2>1. SumOf(f, {}) = Cardinality({})
      BY SumEmpty, FS_EmptySet
    <2>2. QED
      BY <1>1, <2>1
  <1> DEFINE c == First(U)
  <1>3. c \in U
    BY <1>2, FirstOf
  <1>4. SumOf(f, U \ {c}) = Cardinality(U \ {c}) /\ f[c] = 1
    BY <1>1, <1>b, <1>3
  <1>5. SumOf(f, U) = f[c] + SumOf(f, U \ {c})
    BY <1>b, <1>2, SumFirst
  <1>6. Cardinality(U \ {c}) = Cardinality(U) - 1 /\ Cardinality(U) \in Nat
    BY <1>b, <1>3, FS_RemoveElement, FS_CardinalityType
  <1> HIDE DEF c
  <1>7. QED
    BY <1>1, <1>4, <1>5, <1>6

\* A sum over part of a set is a sum over the whole, of zeros elsewhere.
LEMMA SumOfPart ==
    ASSUME NEW f, NEW g, NEW S, IsFiniteSet(S), NEW T \in SUBSET S,
           \A x \in T : f[x] \in Int /\ g[x] = f[x],
           \A x \in S \ T : g[x] = 0
    PROVE  SumOf(f, T) = SumOf(g, S)
  <1> DEFINE rest == S \ T
  <1>1. IsFiniteSet(T) /\ IsFiniteSet(rest) /\ T \cap rest = {} /\ T \cup rest = S
    BY FS_Subset
  <1>2. SumOf(g, S) = SumOf(g, T) + SumOf(g, rest)
    <2>1. \A x \in T \cup rest : g[x] \in Int
      OBVIOUS
    <2> HIDE DEF rest
    <2>2. SumOf(g, T \cup rest) = SumOf(g, T) + SumOf(g, rest)
      BY <1>1, <2>1, SumUnion
    <2>3. QED
      BY <1>1, <2>2
  <1>3. SumOf(g, rest) = 0
    BY <1>1, SumZeros
  <1>4. SumOf(g, T) = SumOf(f, T) /\ SumOf(f, T) \in Int
    BY <1>1, SumSame, SumInt
  <1>5. QED
    BY <1>2, <1>3, <1>4

\* The sums of two functions add up to the sum of their pointwise sum.
LEMMA SumOfBoth ==
    ASSUME NEW f, NEW g, NEW h, NEW S, IsFiniteSet(S),
           \A x \in S : f[x] \in Int /\ g[x] \in Int /\ h[x] = f[x] + g[x]
    PROVE  SumOf(h, S) = SumOf(f, S) + SumOf(g, S)
  <1> DEFINE B == {U \in SUBSET S : SumOf(h, U) # SumOf(f, U) + SumOf(g, U)}
  <1> SUFFICES ASSUME B # {} PROVE FALSE
    OBVIOUS
  <1>a. B \subseteq SUBSET S
    OBVIOUS
  <1>1. PICK U \in B : \A V \in SUBSET U : V # U => V \notin B
    <2> HIDE DEF B
    <2>1. QED
      BY <1>a, SmallestSet
  <1>b. U \in SUBSET S /\ IsFiniteSet(U)
    BY <1>a, FS_Subset
  <1>2. U # {}
    <2>1. SumOf(h, {}) = SumOf(f, {}) + SumOf(g, {})
      BY SumEmpty
    <2>2. QED
      BY <1>1, <2>1
  <1> DEFINE c == First(U)
             V == U \ {c}
  <1>3. c \in U /\ c \in S
    BY <1>b, <1>2, FirstOf
  <1>4. SumOf(h, V) = SumOf(f, V) + SumOf(g, V)
    BY <1>1, <1>b, <1>3
  <1>5. /\ SumOf(f, U) = f[c] + SumOf(f, V)
        /\ SumOf(g, U) = g[c] + SumOf(g, V)
        /\ SumOf(h, U) = h[c] + SumOf(h, V)
    BY <1>b, <1>2, SumFirst
  <1>6. SumOf(f, V) \in Int /\ SumOf(g, V) \in Int
    BY <1>b, SumInt, FS_RemoveElement
  <1>7. f[c] \in Int /\ g[c] \in Int /\ h[c] = f[c] + g[c]
    BY <1>3
  <1>8. SumOf(h, U) = SumOf(f, U) + SumOf(g, U)
    <2> HIDE DEF V, c
    <2>1. QED
      BY <1>4, <1>5, <1>6, <1>7
  <1>9. QED
    BY <1>1, <1>8

=============================================================================
