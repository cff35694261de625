------------------------------ MODULE SumTheorems ------------------------------
(***************************************************************************)
(* What a sum over a finite set of indices satisfies: SumFunctionOnSet of  *)
(* the community modules is a fold, a recursive function chosen by its     *)
(* equation.  The induction is by minimal counterexample: the strict       *)
(* subsets of a finite set are well-founded, so a set of subsets that      *)
(* fail a fact has one whose own strict subsets all satisfy it.            *)
(***************************************************************************)
EXTENDS Integers, FiniteSets, FiniteSetsExt, FiniteSetTheorems, TLAPS

\* The equation of the fold: what a function g of the subsets of S returns for s.
Summed(f, g, s) ==
    IF s = {} THEN 0 ELSE f[CHOOSE x \in s : TRUE] + g[s \ {CHOOSE x \in s : TRUE}]

Sums(f, S, g) == g = [s \in SUBSET S |-> Summed(f, g, s)]

\* A sum is the value of the function that satisfies the equation.
LEMMA SumIsChosen ==
  ASSUME NEW f, NEW S
  PROVE  SumFunctionOnSet(f, S) = (CHOOSE g : Sums(f, S, g))[S]
BY DEF SumFunctionOnSet, FoldFunctionOnSet, MapThenFoldSet, Sums, Summed

\* A set of subsets of a finite set has a minimal one.
LEMMA Smallest ==
  ASSUME NEW S, IsFiniteSet(S), NEW T, T \subseteq SUBSET S, T # {}
  PROVE  \E U \in T : \A V \in T : ~(V \subseteq U /\ V # U)
<1>1. T \subseteq FiniteSubsetsOf(S)
  BY FS_Subset DEF FiniteSubsetsOf
<1>2. IsWellFoundedOn(StrictSubsetOrdering(S), FiniteSubsetsOf(S))
  BY FS_StrictSubsetOrderingWellFounded
<1>3. PICK U \in T : \A V \in T : ~(<<V, U>> \in StrictSubsetOrdering(S))
  BY <1>1, <1>2, WFMin
<1>4. \A V \in T : V \in SUBSET S
  OBVIOUS
<1>5. QED
  BY <1>3, <1>4 DEF StrictSubsetOrdering

\* A set of naturals has a least element.
LEMMA LeastOf ==
    ASSUME NEW n \in Nat, NEW S, S \subseteq 1..n, S # {}
    PROVE  \E k \in S : \A j \in S : k <= j
<1> DEFINE T == {1..k : k \in S}
<1>1. IsFiniteSet(1..n)
  BY FS_Interval
<1>2. T \subseteq SUBSET (1..n) /\ T # {}
  <2>1. \A k \in S : 1..k \subseteq 1..n
    OBVIOUS
  <2> QED
    BY <2>1
<1> HIDE DEF T
<1>5. \E U \in T : \A V \in T : ~(V \subseteq U /\ V # U)
  <2> DEFINE N == 1..n
  <2>1. IsFiniteSet(N) /\ T \subseteq SUBSET N /\ T # {}
    BY <1>1, <1>2
  <2> HIDE DEF N
  <2> QED
    BY <2>1, Smallest
<1>6. PICK U \in T : \A V \in T : ~(V \subseteq U /\ V # U)
  BY <1>5
<1>3. PICK k \in S : U = 1..k
  BY DEF T
<1>4. ASSUME NEW j \in S, j < k PROVE FALSE
  <2>1. 1..j \in T /\ k \in 1..k /\ k \notin 1..j
    BY <1>4 DEF T
  <2>2. 1..j \subseteq 1..k
    BY <1>4
  <2> QED
    BY <1>6, <1>3, <2>1, <2>2
<1> QED
  BY <1>4

\* A set of naturals has a greatest element, and Max chooses it.
LEMMA Greatest ==
    ASSUME NEW n \in Nat, NEW U, U \subseteq 1..n, U # {}
    PROVE  Max(U) \in U /\ \A j \in U : j <= Max(U)
<1> DEFINE B == {m \in 1..n : \A j \in U : j <= m}
<1>1. B \subseteq 1..n /\ n \in B
  <2>1. PICK j \in U : TRUE
    OBVIOUS
  <2>2. \A i \in U : i \in 1..n
    OBVIOUS
  <2>3. n \in 1..n
    BY <2>1, <2>2
  <2>4. \A i \in U : i <= n
    BY <2>2
  <2> QED
    BY <2>3, <2>4
<1>2. PICK m \in B : \A k \in B : m <= k
  <2> HIDE DEF B
  <2>1. B \subseteq 1..n /\ B # {}
    BY <1>1
  <2> QED
    BY <2>1, LeastOf
<1>3. m \in U
  <2> SUFFICES ASSUME m \notin U PROVE FALSE
    OBVIOUS
  <2>1. PICK j \in U : TRUE
    OBVIOUS
  <2>2. m \in 1..n /\ j <= m /\ j \in 1..n /\ j # m
    BY <2>1
  <2>3. m - 1 \in 1..n
    BY <2>2
  <2>4. \A i \in U : i <= m - 1
    <3> TAKE i \in U
    <3>1. i <= m /\ i # m /\ i \in 1..n
      OBVIOUS
    <3> QED
      BY <2>2, <3>1
  <2>5. m - 1 \in B
    BY <2>3, <2>4
  <2>6. ~(m <= m - 1)
    BY <2>2
  <2> QED
    BY <1>2, <2>5, <2>6
<1>4. \A j \in U : m >= j
  <2> TAKE j \in U
  <2>1. j <= m /\ j \in 1..n /\ m \in 1..n
    OBVIOUS
  <2> QED
    BY <2>1
<1>5. \E x \in U : \A y \in U : x >= y
  BY <1>3, <1>4
<1> HIDE DEF B
<1>6. Max(U) \in U /\ \A y \in U : Max(U) >= y
  BY <1>5 DEF Max
<1>7. \A j \in U : j \in 1..n
  OBVIOUS
<1> QED
  <2> SUFFICES ASSUME NEW j \in U PROVE j <= Max(U)
    BY <1>6
  <2> DEFINE x == Max(U)
  <2>1. x \in 1..n /\ j \in 1..n /\ x >= j
    BY <1>6, <1>7
  <2> HIDE DEF x
  <2>2. j <= x
    BY <2>1
  <2> QED
    BY <2>2 DEF x

\* Two solutions of the fold's recursion agree where both are defined.
LEMMA SumsUnique ==
  ASSUME NEW f, NEW S, NEW T, NEW g, NEW h, Sums(f, S, g), Sums(f, T, h),
         NEW U, U \subseteq S, U \subseteq T, IsFiniteSet(U)
  PROVE  g[U] = h[U]
<1> DEFINE W == {V \in SUBSET U : g[V] # h[V]}
<1>1. SUFFICES ASSUME W # {} PROVE FALSE
  OBVIOUS
<1>2. PICK V \in W : \A X \in W : ~(X \subseteq V /\ X # V)
  <2> HIDE DEF W
  <2>1. W \subseteq SUBSET U
    BY DEF W
  <2> QED
    BY <1>1, <2>1, Smallest
<1>3. V \in SUBSET U /\ V \in SUBSET S /\ V \in SUBSET T /\ g[V] # h[V]
  OBVIOUS
<1>4. g[V] = Summed(f, g, V) /\ h[V] = Summed(f, h, V)
  BY <1>3 DEF Sums
<1>5. CASE V = {}
  BY <1>3, <1>4, <1>5 DEF Summed
<1>6. CASE V # {}
  <2> DEFINE x == CHOOSE y \in V : TRUE
  <2>1. x \in V
    BY <1>6
  <2>2. V \ {x} \subseteq V /\ V \ {x} # V /\ V \ {x} \in SUBSET U
    BY <2>1, <1>3
  <2>3. g[V \ {x}] = h[V \ {x}]
    BY <2>2, <1>2
  <2>4. QED
    BY <2>3, <1>3, <1>4, <1>6 DEF Summed
<1>7. QED
  BY <1>5, <1>6

\* The recursion has a solution over every finite set.
LEMMA SumsExist ==
  ASSUME NEW f, NEW S, IsFiniteSet(S)
  PROVE  \E g : Sums(f, S, g)
<1> DEFINE W == {V \in SUBSET S : ~ \E g : Sums(f, V, g)}
<1>1. SUFFICES ASSUME W # {} PROVE FALSE
  OBVIOUS
<1>2. PICK V \in W : \A X \in W : ~(X \subseteq V /\ X # V)
  <2> HIDE DEF W
  <2>1. W \subseteq SUBSET S
    BY DEF W
  <2> QED
    BY <1>1, <2>1, Smallest
<1>3. V \in SUBSET S /\ IsFiniteSet(V) /\ ~ \E g : Sums(f, V, g)
  BY FS_Subset
<1> DEFINE H(U) == CHOOSE g : Sums(f, U, g)
           c(U) == CHOOSE x \in U : TRUE
           G == [U \in SUBSET V |-> IF U = {} THEN 0
                                    ELSE f[c(U)] + H(U \ {c(U)})[U \ {c(U)}]]
<1>4. ASSUME NEW U \in SUBSET V, U # V
      PROVE  Sums(f, U, H(U))
  <2>1. U \in SUBSET S /\ U \notin W
    BY <1>2, <1>3, <1>4
  <2>2. \E g : Sums(f, U, g)
    BY <2>1
  <2>3. QED
    BY <2>2
<1>5. ASSUME NEW U \in SUBSET V, U # {}
      PROVE  c(U) \in U /\ U \ {c(U)} \in SUBSET V /\ U \ {c(U)} # V
  BY <1>5
<1>6. ASSUME NEW U \in SUBSET V, U # V
      PROVE  H(U)[U] = G[U]
  <2>1. H(U)[U] = Summed(f, H(U), U)
    <3>1. Sums(f, U, H(U))
      BY <1>4, <1>6
    <3> HIDE DEF H
    <3>2. H(U) = [s \in SUBSET U |-> Summed(f, H(U), s)]
      BY <3>1 DEF Sums
    <3>3. U \in SUBSET U
      OBVIOUS
    <3>4. QED
      BY <3>2, <3>3
  <2>2. CASE U = {}
    BY <2>1, <2>2 DEF Summed
  <2>3. CASE U # {}
    <3>1. c(U) \in U /\ U \ {c(U)} \in SUBSET V /\ U \ {c(U)} # V
      BY <1>5, <2>3
    <3>2. Sums(f, U, H(U)) /\ Sums(f, U \ {c(U)}, H(U \ {c(U)}))
      BY <3>1, <1>4, <1>6
    <3>3. IsFiniteSet(U \ {c(U)})
      BY <1>3, FS_Subset, <3>1
    <3>4. H(U)[U \ {c(U)}] = H(U \ {c(U)})[U \ {c(U)}]
      <4> HIDE DEF H, c
      <4>1. U \ {c(U)} \subseteq U /\ U \ {c(U)} \subseteq U \ {c(U)}
        OBVIOUS
      <4> QED
        BY <3>2, <3>3, <4>1, SumsUnique
    <3>5. H(U)[U] = f[c(U)] + H(U)[U \ {c(U)}]
      <4> HIDE DEF H
      <4> QED
        BY <2>1, <2>3 DEF Summed
    <3>6. G[U] = f[c(U)] + H(U \ {c(U)})[U \ {c(U)}]
      <4> HIDE DEF H, c
      <4> QED
        BY <2>3
    <3>7. QED
      <4> HIDE DEF H, c, G
      <4> QED
        BY <3>4, <3>5, <3>6
  <2>4. QED
    BY <2>2, <2>3
<1>7. ASSUME NEW U \in SUBSET V
      PROVE  G[U] = Summed(f, G, U)
  <2>1. CASE U = {}
    <3> HIDE DEF H, c
    <3> QED
      BY <2>1 DEF Summed
  <2>2. CASE U # {}
    <3>1. c(U) \in U /\ U \ {c(U)} \in SUBSET V /\ U \ {c(U)} # V
      BY <1>5, <2>2
    <3>2. H(U \ {c(U)})[U \ {c(U)}] = G[U \ {c(U)}]
      BY <3>1, <1>6
    <3>3. G[U] = f[c(U)] + H(U \ {c(U)})[U \ {c(U)}]
      <4> HIDE DEF H, c
      <4> QED
        BY <2>2
    <3>4. Summed(f, G, U) = f[c(U)] + G[U \ {c(U)}]
      <4> HIDE DEF G
      <4> QED
        BY <2>2 DEF Summed
    <3>5. QED
      <4> HIDE DEF H, c, G
      <4> QED
        BY <3>2, <3>3, <3>4
  <2>3. QED
    BY <2>1, <2>2
<1>8. Sums(f, V, G)
  <2>1. G = [U \in SUBSET V |-> G[U]]
    <3> HIDE DEF H, c
    <3> QED
      OBVIOUS
  <2> HIDE DEF G
  <2>2. QED
    BY <2>1, <1>7 DEF Sums
<1>9. QED
  BY <1>3, <1>8

-----------------------------------------------------------------------------
(* What SumFunctionOnSet does for every finite set.                           *)

\* The equation of the fold holds of the sum itself.
LEMMA SumStep ==
  ASSUME NEW f, NEW S, IsFiniteSet(S)
  PROVE  SumFunctionOnSet(f, S) =
           IF S = {} THEN 0
           ELSE f[CHOOSE x \in S : TRUE] + SumFunctionOnSet(f, S \ {CHOOSE x \in S : TRUE})
<1> DEFINE c == CHOOSE x \in S : TRUE
           Fold(T) == CHOOSE g : Sums(f, T, g)
<1>1. Sums(f, S, Fold(S))
  BY SumsExist
<1>2. SumFunctionOnSet(f, S) = Fold(S)[S]
  BY SumIsChosen
<1>3. Fold(S)[S] = Summed(f, Fold(S), S)
  <2> HIDE DEF Fold
  <2>1. S \in SUBSET S
    OBVIOUS
  <2> QED
    BY <1>1, <2>1 DEF Sums
<1>4. CASE S = {}
  BY <1>2, <1>3, <1>4 DEF Summed
<1>5. CASE S # {}
  <2>1. c \in S /\ IsFiniteSet(S \ {c})
    BY <1>5, FS_Subset
  <2>2. Sums(f, S \ {c}, Fold(S \ {c}))
    BY <2>1, SumsExist
  <2>3. SumFunctionOnSet(f, S \ {c}) = Fold(S \ {c})[S \ {c}]
    BY SumIsChosen
  <2>4. Fold(S)[S \ {c}] = Fold(S \ {c})[S \ {c}]
    <3> HIDE DEF Fold, c
    <3>1. S \ {c} \subseteq S /\ S \ {c} \subseteq S \ {c}
      OBVIOUS
    <3> QED
      BY <1>1, <2>1, <2>2, <3>1, SumsUnique
  <2>5. Fold(S)[S] = f[c] + Fold(S)[S \ {c}]
    <3> HIDE DEF Fold
    <3> QED
      BY <1>3, <1>5 DEF Summed
  <2>6. QED
    <3> HIDE DEF Fold
    <3> QED
      BY <1>2, <1>5, <2>3, <2>4, <2>5
<1>6. QED
  BY <1>4, <1>5

\* The sum over no indices.
LEMMA SumEmpty == \A f : SumFunctionOnSet(f, {}) = 0
  BY SumStep, FS_EmptySet

\* A sum of integers is an integer.
LEMMA SumType ==
  ASSUME NEW f, NEW S, IsFiniteSet(S), \A x \in S : f[x] \in Int
  PROVE  SumFunctionOnSet(f, S) \in Int
<1> DEFINE W == {V \in SUBSET S : SumFunctionOnSet(f, V) \notin Int}
<1>1. SUFFICES ASSUME W # {} PROVE FALSE
  OBVIOUS
<1>2. PICK V \in W : \A X \in W : ~(X \subseteq V /\ X # V)
  <2> HIDE DEF W
  <2>1. W \subseteq SUBSET S
    BY DEF W
  <2> QED
    BY <1>1, <2>1, Smallest
<1>3. V \in SUBSET S /\ IsFiniteSet(V) /\ SumFunctionOnSet(f, V) \notin Int
  BY FS_Subset
<1>4. V # {}
  BY <1>3, SumEmpty
<1> DEFINE c == CHOOSE x \in V : TRUE
<1>5. c \in V /\ V \ {c} \in SUBSET S /\ V \ {c} \subseteq V /\ V \ {c} # V
  BY <1>3, <1>4
<1>6. SumFunctionOnSet(f, V \ {c}) \in Int
  BY <1>2, <1>5
<1>7. SumFunctionOnSet(f, V) = f[c] + SumFunctionOnSet(f, V \ {c})
  BY <1>3, <1>4, SumStep
<1>8. QED
  <2> HIDE DEF c
  <2> QED
    BY <1>3, <1>5, <1>6, <1>7

\* The order of a sum does not matter: any index can be taken out first.
LEMMA SumRemove ==
  ASSUME NEW f, NEW S, IsFiniteSet(S), \A x \in S : f[x] \in Int, NEW z \in S
  PROVE  SumFunctionOnSet(f, S) = f[z] + SumFunctionOnSet(f, S \ {z})
<1> DEFINE W == {V \in SUBSET S : \E y \in V :
                   SumFunctionOnSet(f, V) # f[y] + SumFunctionOnSet(f, V \ {y})}
<1>1. SUFFICES ASSUME W # {} PROVE FALSE
  <2> S \in SUBSET S
    OBVIOUS
  <2> QED
    OBVIOUS
<1>2. PICK V \in W : \A X \in W : ~(X \subseteq V /\ X # V)
  <2> HIDE DEF W
  <2>1. W \subseteq SUBSET S
    BY DEF W
  <2> QED
    BY <1>1, <2>1, Smallest
<1>3. V \in SUBSET S /\ IsFiniteSet(V)
  BY FS_Subset
<1>4. PICK y \in V : SumFunctionOnSet(f, V) # f[y] + SumFunctionOnSet(f, V \ {y})
  OBVIOUS
<1> DEFINE c == CHOOSE x \in V : TRUE
<1>5. c \in V
  OBVIOUS
<1>6. SumFunctionOnSet(f, V) = f[c] + SumFunctionOnSet(f, V \ {c})
  BY <1>3, <1>4, SumStep
<1> HIDE DEF c
<1>7. c # y
  BY <1>4, <1>6
<1>8. SumFunctionOnSet(f, V \ {c}) = f[y] + SumFunctionOnSet(f, (V \ {c}) \ {y})
  <2>1. V \ {c} \subseteq V /\ V \ {c} # V /\ V \ {c} \in SUBSET S /\ y \in V \ {c}
    BY <1>3, <1>5, <1>7
  <2>2. V \ {c} \notin W
    BY <1>2, <2>1
  <2>3. QED
    BY <2>1, <2>2
<1>9. SumFunctionOnSet(f, V \ {y}) = f[c] + SumFunctionOnSet(f, (V \ {y}) \ {c})
  <2>1. V \ {y} \subseteq V /\ V \ {y} # V /\ V \ {y} \in SUBSET S /\ c \in V \ {y}
    BY <1>3, <1>5, <1>7
  <2>2. V \ {y} \notin W
    BY <1>2, <2>1
  <2>3. QED
    BY <2>1, <2>2
<1>10. (V \ {c}) \ {y} = (V \ {y}) \ {c}
  OBVIOUS
<1>11. f[c] \in Int /\ f[y] \in Int /\ SumFunctionOnSet(f, (V \ {y}) \ {c}) \in Int
  <2>1. (V \ {y}) \ {c} \in SUBSET S
    BY <1>3
  <2>2. IsFiniteSet((V \ {y}) \ {c})
    BY <2>1, FS_Subset
  <2>3. QED
    BY <2>1, <2>2, <1>3, <1>5, SumType
<1> DEFINE rest == SumFunctionOnSet(f, (V \ {y}) \ {c})
<1>12. SumFunctionOnSet(f, V) = f[c] + (f[y] + rest)
  BY <1>6, <1>8, <1>10
<1>13. f[y] + SumFunctionOnSet(f, V \ {y}) = f[y] + (f[c] + rest)
  BY <1>9
<1> HIDE DEF rest
<1>14. f[c] + (f[y] + rest) = f[y] + (f[c] + rest)
  BY <1>11 DEF rest
<1>15. QED
  BY <1>4, <1>12, <1>13, <1>14

\* Equal summands make equal sums.
LEMMA SumSame ==
  ASSUME NEW f, NEW g, NEW S, IsFiniteSet(S), \A x \in S : f[x] = g[x]
  PROVE  SumFunctionOnSet(f, S) = SumFunctionOnSet(g, S)
<1> DEFINE W == {V \in SUBSET S : SumFunctionOnSet(f, V) # SumFunctionOnSet(g, V)}
<1>1. SUFFICES ASSUME W # {} PROVE FALSE
  <2> S \in SUBSET S
    OBVIOUS
  <2> QED
    OBVIOUS
<1>2. PICK V \in W : \A X \in W : ~(X \subseteq V /\ X # V)
  <2> HIDE DEF W
  <2>1. W \subseteq SUBSET S
    BY DEF W
  <2> QED
    BY <1>1, <2>1, Smallest
<1>3. V \in SUBSET S /\ IsFiniteSet(V) /\ SumFunctionOnSet(f, V) # SumFunctionOnSet(g, V)
  BY FS_Subset
<1>4. V # {}
  BY <1>3, SumEmpty
<1> DEFINE c == CHOOSE x \in V : TRUE
<1>5. c \in V /\ V \ {c} \in SUBSET S /\ V \ {c} \subseteq V /\ V \ {c} # V
  BY <1>3, <1>4
<1>6. SumFunctionOnSet(f, V \ {c}) = SumFunctionOnSet(g, V \ {c})
  BY <1>2, <1>5
<1>7. /\ SumFunctionOnSet(f, V) = f[c] + SumFunctionOnSet(f, V \ {c})
      /\ SumFunctionOnSet(g, V) = g[c] + SumFunctionOnSet(g, V \ {c})
  BY <1>3, <1>4, SumStep
<1>8. QED
  <2> HIDE DEF c
  <2> QED
    BY <1>3, <1>5, <1>6, <1>7

\* A sum of naturals is a natural number.
LEMMA SumNat ==
  ASSUME NEW f, NEW S, IsFiniteSet(S), \A x \in S : f[x] \in Nat
  PROVE  SumFunctionOnSet(f, S) \in Nat
<1> DEFINE W == {V \in SUBSET S : SumFunctionOnSet(f, V) \notin Nat}
<1>1. SUFFICES ASSUME W # {} PROVE FALSE
  <2> S \in SUBSET S
    OBVIOUS
  <2> QED
    OBVIOUS
<1>2. PICK V \in W : \A X \in W : ~(X \subseteq V /\ X # V)
  <2> HIDE DEF W
  <2>1. W \subseteq SUBSET S
    BY DEF W
  <2> QED
    BY <1>1, <2>1, Smallest
<1>3. V \in SUBSET S /\ IsFiniteSet(V) /\ SumFunctionOnSet(f, V) \notin Nat
  BY FS_Subset
<1>4. V # {}
  BY <1>3, SumEmpty
<1> DEFINE c == CHOOSE x \in V : TRUE
<1>5. c \in V /\ V \ {c} \in SUBSET S /\ V \ {c} \subseteq V /\ V \ {c} # V
  BY <1>3, <1>4
<1>6. SumFunctionOnSet(f, V \ {c}) \in Nat
  BY <1>2, <1>5
<1>7. SumFunctionOnSet(f, V) = f[c] + SumFunctionOnSet(f, V \ {c})
  BY <1>3, <1>4, SumStep
<1>8. QED
  <2> HIDE DEF c
  <2> QED
    BY <1>3, <1>5, <1>6, <1>7

\* One more index adds its summand.
LEMMA SumAdd ==
  ASSUME NEW f, NEW S, IsFiniteSet(S), NEW z, z \notin S,
         \A x \in S \cup {z} : f[x] \in Int
  PROVE  SumFunctionOnSet(f, S \cup {z}) = SumFunctionOnSet(f, S) + f[z]
<1>1. IsFiniteSet(S \cup {z}) /\ z \in S \cup {z}
  BY FS_AddElement
<1>2. SumFunctionOnSet(f, S \cup {z}) = f[z] + SumFunctionOnSet(f, (S \cup {z}) \ {z})
  BY <1>1, SumRemove
<1>3. (S \cup {z}) \ {z} = S
  OBVIOUS
<1>4. SumFunctionOnSet(f, S) \in Int /\ f[z] \in Int
  BY SumType
<1>5. SumFunctionOnSet(f, S \cup {z}) = f[z] + SumFunctionOnSet(f, S)
  BY <1>2, <1>3
<1>6. f[z] + SumFunctionOnSet(f, S) = SumFunctionOnSet(f, S) + f[z]
  BY <1>4
<1>7. QED
  BY <1>5, <1>6

\* A sum changes by what one of its summands changes.
LEMMA SumChange ==
  ASSUME NEW f, NEW g, NEW S, IsFiniteSet(S), NEW z \in S,
         \A x \in S : f[x] \in Int, g[z] \in Int, \A x \in S \ {z} : g[x] = f[x]
  PROVE  SumFunctionOnSet(g, S) = SumFunctionOnSet(f, S) - f[z] + g[z]
<1>1. SumFunctionOnSet(f, S) = f[z] + SumFunctionOnSet(f, S \ {z})
  BY SumRemove
<1>2. SumFunctionOnSet(g, S) = g[z] + SumFunctionOnSet(g, S \ {z})
  BY SumRemove
<1>3. IsFiniteSet(S \ {z})
  BY FS_Subset
<1>4. SumFunctionOnSet(g, S \ {z}) = SumFunctionOnSet(f, S \ {z})
  BY <1>3, SumSame
<1>5. SumFunctionOnSet(f, S \ {z}) \in Int /\ f[z] \in Int
  BY <1>3, SumType
<1>6. QED
  BY <1>1, <1>2, <1>4, <1>5

\* Indices whose summand is zero do not count.
LEMMA SumZeroes ==
  ASSUME NEW f, NEW S, IsFiniteSet(S), NEW T \in SUBSET S,
         \A x \in S : f[x] \in Int, \A x \in S \ T : f[x] = 0
  PROVE  SumFunctionOnSet(f, S) = SumFunctionOnSet(f, T)
<1> DEFINE W == {V \in SUBSET S : T \subseteq V
                                   /\ SumFunctionOnSet(f, V) # SumFunctionOnSet(f, T)}
<1>1. SUFFICES ASSUME W # {} PROVE FALSE
  <2> S \in SUBSET S
    OBVIOUS
  <2> QED
    OBVIOUS
<1>2. PICK V \in W : \A X \in W : ~(X \subseteq V /\ X # V)
  <2> HIDE DEF W
  <2>1. W \subseteq SUBSET S
    BY DEF W
  <2> QED
    BY <1>1, <2>1, Smallest
<1>3. /\ V \in SUBSET S /\ IsFiniteSet(V) /\ T \subseteq V
      /\ SumFunctionOnSet(f, V) # SumFunctionOnSet(f, T)
  BY FS_Subset
<1>4. PICK z \in V : z \notin T
  BY <1>3
<1>5. V \ {z} \in SUBSET S /\ V \ {z} \subseteq V /\ V \ {z} # V /\ T \subseteq V \ {z}
  BY <1>3, <1>4
<1>6. SumFunctionOnSet(f, V \ {z}) = SumFunctionOnSet(f, T)
  BY <1>2, <1>5
<1>7. SumFunctionOnSet(f, V) = f[z] + SumFunctionOnSet(f, V \ {z})
  BY <1>3, SumRemove
<1>8. IsFiniteSet(V \ {z}) /\ f[z] = 0
  BY <1>3, <1>4, FS_Subset
<1>9. SumFunctionOnSet(f, V \ {z}) \in Int
  BY <1>5, <1>8, SumType
<1>10. QED
  BY <1>3, <1>6, <1>7, <1>8, <1>9

\* A sum of sums: adding two functions adds their sums.
LEMMA SumPlus ==
  ASSUME NEW f, NEW g, NEW h, NEW S, IsFiniteSet(S),
         \A x \in S : f[x] \in Int /\ g[x] \in Int /\ h[x] = f[x] + g[x]
  PROVE  SumFunctionOnSet(h, S) = SumFunctionOnSet(f, S) + SumFunctionOnSet(g, S)
<1> DEFINE W == {V \in SUBSET S : SumFunctionOnSet(h, V)
                                    # SumFunctionOnSet(f, V) + SumFunctionOnSet(g, V)}
<1>1. SUFFICES ASSUME W # {} PROVE FALSE
  <2> S \in SUBSET S
    OBVIOUS
  <2> QED
    OBVIOUS
<1>2. PICK V \in W : \A X \in W : ~(X \subseteq V /\ X # V)
  <2> HIDE DEF W
  <2>1. W \subseteq SUBSET S
    BY DEF W
  <2> QED
    BY <1>1, <2>1, Smallest
<1>3. /\ V \in SUBSET S /\ IsFiniteSet(V)
      /\ SumFunctionOnSet(h, V) # SumFunctionOnSet(f, V) + SumFunctionOnSet(g, V)
  BY FS_Subset
<1>4. V # {}
  BY <1>3, SumEmpty
<1>5. PICK c \in V : TRUE
  BY <1>4
<1>6. V \ {c} \in SUBSET S /\ V \ {c} \subseteq V /\ V \ {c} # V /\ IsFiniteSet(V \ {c})
  BY <1>3, FS_Subset
<1>7. SumFunctionOnSet(h, V \ {c})
        = SumFunctionOnSet(f, V \ {c}) + SumFunctionOnSet(g, V \ {c})
  BY <1>2, <1>6
<1>8. \A x \in V : f[x] \in Int /\ g[x] \in Int /\ h[x] \in Int /\ h[x] = f[x] + g[x]
  BY <1>3
<1>9. /\ SumFunctionOnSet(f, V) = f[c] + SumFunctionOnSet(f, V \ {c})
      /\ SumFunctionOnSet(g, V) = g[c] + SumFunctionOnSet(g, V \ {c})
      /\ SumFunctionOnSet(h, V) = h[c] + SumFunctionOnSet(h, V \ {c})
  BY <1>3, <1>8, SumRemove
<1>10. /\ SumFunctionOnSet(f, V \ {c}) \in Int /\ SumFunctionOnSet(g, V \ {c}) \in Int
  BY <1>6, SumType
<1>11. h[c] = f[c] + g[c] /\ f[c] \in Int /\ g[c] \in Int
  BY <1>8
<1>12. QED
  BY <1>3, <1>7, <1>9, <1>10, <1>11

\* A larger sum of larger summands.
LEMMA SumMonotone ==
  ASSUME NEW f, NEW g, NEW S, IsFiniteSet(S),
         \A x \in S : f[x] \in Int /\ g[x] \in Int /\ f[x] <= g[x]
  PROVE  SumFunctionOnSet(f, S) <= SumFunctionOnSet(g, S)
<1> DEFINE d == [x \in S |-> g[x] - f[x]]
<1>1. \A x \in S : d[x] \in Nat /\ d[x] \in Int /\ g[x] = f[x] + d[x]
  OBVIOUS
<1> HIDE DEF d
<1>2. SumFunctionOnSet(g, S) = SumFunctionOnSet(f, S) + SumFunctionOnSet(d, S)
  BY <1>1, SumPlus
<1>3. SumFunctionOnSet(d, S) \in Nat
  BY <1>1, SumNat
<1>4. SumFunctionOnSet(f, S) \in Int
  BY SumType
<1>5. QED
  BY <1>2, <1>3, <1>4

\* A part of a sum of naturals is at most the whole.
LEMMA SumPart ==
  ASSUME NEW f, NEW S, IsFiniteSet(S), NEW T \in SUBSET S, \A x \in S : f[x] \in Nat
  PROVE  SumFunctionOnSet(f, T) <= SumFunctionOnSet(f, S)
<1> DEFINE g == [x \in S |-> IF x \in T THEN f[x] ELSE 0]
<1>1. \A x \in S : g[x] \in Int /\ f[x] \in Int /\ g[x] <= f[x]
  OBVIOUS
<1>2. (\A x \in S \ T : g[x] = 0) /\ (\A x \in T : g[x] = f[x])
  OBVIOUS
<1> HIDE DEF g
<1>3. SumFunctionOnSet(g, S) <= SumFunctionOnSet(f, S)
  BY <1>1, SumMonotone
<1>4. SumFunctionOnSet(g, S) = SumFunctionOnSet(g, T)
  BY <1>1, <1>2, SumZeroes
<1>5. SumFunctionOnSet(g, T) = SumFunctionOnSet(f, T)
  BY <1>2, FS_Subset, SumSame
<1>6. QED
  BY <1>3, <1>4, <1>5

\* A sum is the sum over a part and over the rest.
LEMMA SumSplit ==
  ASSUME NEW f, NEW S, IsFiniteSet(S), NEW T \in SUBSET S, \A x \in S : f[x] \in Int
  PROVE  SumFunctionOnSet(f, S) = SumFunctionOnSet(f, T) + SumFunctionOnSet(f, S \ T)
<1> DEFINE g == [x \in S |-> IF x \in T THEN f[x] ELSE 0]
           h == [x \in S |-> IF x \in T THEN 0 ELSE f[x]]
<1>1. \A x \in S : g[x] \in Int /\ h[x] \in Int /\ f[x] = g[x] + h[x]
  OBVIOUS
<1>2. (\A x \in S \ T : g[x] = 0) /\ (\A x \in T : g[x] = f[x])
  OBVIOUS
<1>3. (\A x \in S \ (S \ T) : h[x] = 0) /\ (\A x \in S \ T : h[x] = f[x])
  OBVIOUS
<1> HIDE DEF g, h
<1>4. SumFunctionOnSet(f, S) = SumFunctionOnSet(g, S) + SumFunctionOnSet(h, S)
  BY <1>1, SumPlus
<1>5. IsFiniteSet(T) /\ IsFiniteSet(S \ T) /\ S \ T \in SUBSET S
  BY FS_Subset
<1>6. SumFunctionOnSet(g, S) = SumFunctionOnSet(f, T)
  <2>1. SumFunctionOnSet(g, S) = SumFunctionOnSet(g, T)
    BY <1>1, <1>2, SumZeroes
  <2>2. SumFunctionOnSet(g, T) = SumFunctionOnSet(f, T)
    BY <1>2, <1>5, SumSame
  <2>3. QED
    BY <2>1, <2>2
<1>7. SumFunctionOnSet(h, S) = SumFunctionOnSet(f, S \ T)
  <2>1. SumFunctionOnSet(h, S) = SumFunctionOnSet(h, S \ T)
    BY <1>1, <1>3, <1>5, SumZeroes
  <2>2. SumFunctionOnSet(h, S \ T) = SumFunctionOnSet(f, S \ T)
    BY <1>3, <1>5, SumSame
  <2>3. QED
    BY <2>1, <2>2
<1>8. QED
  BY <1>4, <1>6, <1>7

\* A sum with one summand that is not zero.
LEMMA SumSingle ==
  ASSUME NEW f, NEW S, IsFiniteSet(S), NEW z \in S, f[z] \in Int,
         \A x \in S \ {z} : f[x] = 0
  PROVE  SumFunctionOnSet(f, S) = f[z]
<1>1. \A x \in S : f[x] \in Int
  OBVIOUS
<1>2. {z} \in SUBSET S /\ \A x \in S \ {z} : f[x] = 0
  OBVIOUS
<1>3. SumFunctionOnSet(f, S) = SumFunctionOnSet(f, {z})
  BY <1>1, <1>2, SumZeroes
<1>4. SumFunctionOnSet(f, {z}) = f[z] + SumFunctionOnSet(f, {z} \ {z})
  BY <1>2, FS_Subset, SumRemove
<1>5. SumFunctionOnSet(f, {z} \ {z}) = 0
  <2>1. {z} \ {z} = {}
    OBVIOUS
  <2> QED
    BY <2>1, SumEmpty
<1>6. QED
  BY <1>3, <1>4, <1>5

\* Summing group by group: g says which group an index is in, T what is in
\* a group, h what a group sums to.
LEMMA SumGroups ==
  ASSUME NEW f, NEW S, IsFiniteSet(S), \A x \in S : f[x] \in Int,
         NEW P, IsFiniteSet(P), NEW g, \A x \in S : g[x] \in P,
         NEW T, \A p \in P : T[p] \in SUBSET S /\ \A x \in S : x \in T[p] <=> g[x] = p,
         NEW h, \A p \in P : h[p] = SumFunctionOnSet(f, T[p])
  PROVE  SumFunctionOnSet(f, S) = SumFunctionOnSet(h, P)
<1> DEFINE In(V) == {x \in S : g[x] \in V}
           W == {V \in SUBSET P : SumFunctionOnSet(f, In(V)) # SumFunctionOnSet(h, V)}
<1>1. \A V \in SUBSET P : In(V) \in SUBSET S /\ IsFiniteSet(In(V))
  BY FS_Subset
<1>2. ASSUME W # {} PROVE FALSE
  <2>1. PICK V \in W : \A X \in W : ~(X \subseteq V /\ X # V)
    <3> HIDE DEF W
    <3>1. W \subseteq SUBSET P
      BY DEF W
    <3> QED
      BY <1>2, <3>1, Smallest
  <2>2. /\ V \in SUBSET P /\ IsFiniteSet(V)
        /\ SumFunctionOnSet(f, In(V)) # SumFunctionOnSet(h, V)
    BY FS_Subset
  <2>3. V # {}
    <3>1. In({}) = {}
      OBVIOUS
    <3> HIDE DEF In
    <3> QED
      BY <2>2, <3>1, SumEmpty
  <2>4. PICK c \in V : TRUE
    BY <2>3
  <2>5. V \ {c} \in SUBSET P /\ V \ {c} \subseteq V /\ V \ {c} # V
    BY <2>2
  <2>6. SumFunctionOnSet(f, In(V \ {c})) = SumFunctionOnSet(h, V \ {c})
    BY <2>1, <2>5
  <2> DEFINE C == {x \in S : g[x] = c}
  <2>7. C \in SUBSET In(V) /\ In(V) \ C = In(V \ {c})
    BY <2>2
  <2>8. \A x \in In(V) : f[x] \in Int
    OBVIOUS
  <2>9. h[c] = SumFunctionOnSet(f, C)
    <3>1. c \in P
      BY <2>2
    <3>2. T[c] = C
      BY <3>1
    <3> QED
      BY <3>1, <3>2
  <2> HIDE DEF In, C, W
  <2>10. SumFunctionOnSet(f, In(V)) = h[c] + SumFunctionOnSet(h, V \ {c})
    <3>1. IsFiniteSet(In(V))
      BY <1>1, <2>2
    <3>2. SumFunctionOnSet(f, In(V))
            = SumFunctionOnSet(f, C) + SumFunctionOnSet(f, In(V) \ C)
      BY <3>1, <2>7, <2>8, SumSplit
    <3> QED
      BY <3>2, <2>6, <2>7, <2>9
  <2>11. \A p \in V : h[p] \in Int
    <3> TAKE p \in V
    <3>1. p \in P /\ T[p] \in SUBSET S
      BY <2>2
    <3>2. IsFiniteSet(T[p]) /\ \A x \in T[p] : f[x] \in Int
      BY <3>1, FS_Subset
    <3>3. SumFunctionOnSet(f, T[p]) \in Int
      BY <3>2, SumType
    <3> QED
      BY <3>1, <3>3
  <2>12. SumFunctionOnSet(h, V) = h[c] + SumFunctionOnSet(h, V \ {c})
    BY <2>2, <2>11, SumRemove
  <2> QED
    BY <2>2, <2>10, <2>12
<1>3. SumFunctionOnSet(f, In(P)) = SumFunctionOnSet(h, P)
  BY <1>2
<1>4. In(P) = S
  OBVIOUS
<1> HIDE DEF In
<1>5. QED
  BY <1>3, <1>4
================================================================================
