------------------------------- MODULE Lemmas -------------------------------
(***************************************************************************)
(* Facts about the operators the models are built from, for all arguments: *)
(* numbers, sums over finite sets (module Functions) and the histories of  *)
(* module Checkpoints.                                                     *)
(***************************************************************************)
EXTENDS Checkpoints, FiniteSetTheorems, WellFoundedInduction, TLAPS

(* Numbers and sizes *)

\* A set of numbers has a least one.
LEMMA LeastNumber ==
    ASSUME NEW T, T \subseteq Nat, T # {}
    PROVE  \E x \in T : \A y \in T : x <= y
<1>1. PICK x \in T : \A y \in T : <<y, x>> \notin OpToRel(<, Nat)
  BY WFMin, NatLessThanWellFounded
<1>2. ASSUME NEW y \in T PROVE x <= y
  <2>1. x \in Nat /\ y \in Nat
    OBVIOUS
  <2>2. ~(y < x)
    BY <1>1, <2>1 DEF OpToRel
  <2>3. QED
    BY <2>1, <2>2
<1>3. QED
  BY <1>2

\* A bounded one has a greatest.
LEMMA GreatestNumber ==
    ASSUME NEW n \in Nat, NEW T, T \subseteq 1..n, T # {}
    PROVE  \E x \in T : \A y \in T : y <= x
<1> DEFINE D == {n - y : y \in T}
<1>1. D \subseteq Nat /\ D # {}
  <2>1. \A y \in T : n - y \in Nat
    OBVIOUS
  <2>2. PICK y \in T : TRUE
    OBVIOUS
  <2>3. n - y \in D
    OBVIOUS
  <2> QED
    BY <2>1, <2>3
<1>2. PICK d \in D : \A e \in D : d <= e
  BY <1>1, LeastNumber
<1>3. PICK x \in T : d = n - x
  OBVIOUS
<1>4. ASSUME NEW y \in T PROVE y <= x
  <2>1. n - y \in D
    OBVIOUS
  <2>2. x \in Nat /\ y \in Nat
    OBVIOUS
  <2> HIDE DEF D
  <2>3. n - x <= n - y
    BY <1>2, <1>3, <2>1
  <2> QED
    BY <2>2, <2>3
<1> QED
  BY <1>4

\* Induction, with a set for what is shown of every number.
LEMMA Induction == ASSUME NEW T, 0 \in T, \A n \in Nat : n \in T => n + 1 \in T PROVE Nat \subseteq T
<1> DEFINE U == Nat \ T
<1>1. ASSUME U # {} PROVE FALSE
  <2>1. PICK x \in U : \A y \in U : x <= y
    BY <1>1, LeastNumber
  <2>2. x # 0 /\ x \in Nat /\ x - 1 \in Nat
    BY <2>1
  <2>3. x - 1 \in T
    BY <2>1, <2>2
  <2>4. (x - 1) + 1 \in T
    BY <2>2, <2>3
  <2> QED
    BY <2>1, <2>2, <2>4
<1> QED
  BY <1>1

\* Among the finite sets of a family there is one with the fewest elements.
LEMMA SmallestSet ==
    ASSUME NEW F, F # {}, \A T \in F : IsFiniteSet(T)
    PROVE  \E T \in F : \A U \in F : Cardinality(T) <= Cardinality(U)
<1> DEFINE N == {Cardinality(T) : T \in F}
<1>1. N # {} /\ N \subseteq Nat
  BY FS_CardinalityType
<1>2. PICK n \in N : \A m \in N : n <= m
  BY <1>1, LeastNumber
<1> QED
  BY <1>2

\* A smaller set has fewer elements.
LEMMA RemoveOne ==
    ASSUME NEW T, IsFiniteSet(T), NEW x \in T
    PROVE  /\ IsFiniteSet(T \ {x})
           /\ Cardinality(T) \in Nat /\ Cardinality(T \ {x}) \in Nat
           /\ Cardinality(T \ {x}) < Cardinality(T)
<1>1. IsFiniteSet(T \ {x}) /\ Cardinality(T \ {x}) = Cardinality(T) - 1
  BY FS_RemoveElement
<1> QED
  BY <1>1, FS_CardinalityType

\* A finite set of numbers has a greatest.
LEMMA GreatestOfFinite ==
    ASSUME NEW S, IsFiniteSet(S), S \subseteq Nat, S # {}
    PROVE  \E x \in S : \A y \in S : x >= y
<1> DEFINE F == {T \in SUBSET S : T # {} /\ ~\E x \in T : \A y \in T : x >= y}
<1>1. SUFFICES ASSUME F # {} PROVE FALSE
  <2>1. S \notin F
    BY <1>1
  <2> QED
    BY <2>1
<1>2. \A T \in SUBSET S : IsFiniteSet(T)
  BY FS_Subset
<1>3. PICK T \in F : \A U \in F : Cardinality(T) <= Cardinality(U)
  <2>1. \A U \in F : IsFiniteSet(U)
    BY <1>2
  <2> HIDE DEF F
  <2> QED
    BY <1>1, <2>1, SmallestSet
<1>4. PICK x \in T : TRUE
  OBVIOUS
<1>5. T \ {x} \notin F
  <2>1. /\ Cardinality(T \ {x}) < Cardinality(T)
        /\ Cardinality(T \ {x}) \in Nat /\ Cardinality(T) \in Nat
    BY <1>2, RemoveOne
  <2> HIDE DEF F
  <2> QED
    BY <1>3, <2>1
<1>6. CASE T \ {x} = {}
  <2>1. \A y \in T : x >= y
    BY <1>6
  <2> QED
    BY <2>1
<1>7. CASE T \ {x} # {}
  <2>1. PICK z \in T \ {x} : \A y \in T \ {x} : z >= y
    BY <1>5, <1>7
  <2>2. x \in Nat /\ z \in Nat /\ T \subseteq Nat
    OBVIOUS
  <2>3. CASE z >= x
    <3>1. \A y \in T : z >= y
      BY <2>1, <2>3
    <3> QED
      BY <3>1
  <2>4. CASE x >= z
    <3>1. \A y \in T : x >= y
      BY <2>1, <2>2, <2>4
    <3> QED
      BY <3>1
  <2> QED
    BY <2>2, <2>3, <2>4
<1> QED
  BY <1>6, <1>7

Chosen(T) == CHOOSE x \in T : TRUE
IsSum(h, f, S) ==
    h = [s \in SUBSET S |-> IF s = {} THEN 0
                            ELSE f[Chosen(s)] + h[s \ {Chosen(s)}]]

LEMMA SumDef ==
    ASSUME NEW f, NEW S
    PROVE  SumFunctionOnSet(f, S) = (CHOOSE h : IsSum(h, f, S))[S]
BY Zenon DEF SumFunctionOnSet, FoldFunctionOnSet, MapThenFoldSet, IsSum, Chosen

LEMMA ChosenIn == \A T : T # {} => Chosen(T) \in T
BY DEF Chosen

\* There is one way only to sum up a set.
LEMMA SumsAgree ==
    ASSUME NEW f, NEW g, NEW S, IsFiniteSet(S), \A x \in S : f[x] = g[x],
           NEW A, S \subseteq A, NEW B, S \subseteq B,
           NEW h, IsSum(h, f, A), NEW k, IsSum(k, g, B)
    PROVE  h[S] = k[S]
<1> DEFINE F == {T \in SUBSET S : h[T] # k[T]}
<1>1. SUFFICES ASSUME F # {} PROVE FALSE
  BY S \in SUBSET S
<1>2. \A T \in SUBSET S : IsFiniteSet(T)
  BY FS_Subset
<1>3. PICK T \in F : \A U \in F : Cardinality(T) <= Cardinality(U)
  <2>1. \A U \in F : IsFiniteSet(U)
    BY <1>2
  <2> HIDE DEF F
  <2> QED
    BY <1>1, <2>1, SmallestSet
<1>4. T \in SUBSET A /\ T \in SUBSET B
  OBVIOUS
<1>5. h[T] = IF T = {} THEN 0 ELSE f[Chosen(T)] + h[T \ {Chosen(T)}]
  BY <1>4 DEF IsSum
<1>6. k[T] = IF T = {} THEN 0 ELSE g[Chosen(T)] + k[T \ {Chosen(T)}]
  BY <1>4 DEF IsSum
<1>7. T # {}
  BY <1>5, <1>6
<1>8. Chosen(T) \in T
  BY <1>7, ChosenIn
<1>9. h[T \ {Chosen(T)}] = k[T \ {Chosen(T)}]
  <2> DEFINE U == T \ {Chosen(T)}
  <2>1. Cardinality(U) < Cardinality(T) /\ Cardinality(U) \in Nat /\ Cardinality(T) \in Nat
    BY <1>2, <1>8, RemoveOne
  <2>2. U \notin F
    BY <1>3, <2>1
  <2> QED
    BY <2>2
<1> QED
  BY <1>5, <1>6, <1>7, <1>8, <1>9

\* The recursion of the fold has a solution, for every finite set.
LEMMA SumExists ==
    ASSUME NEW f, NEW S, IsFiniteSet(S)
    PROVE  \E h : IsSum(h, f, S)
<1> DEFINE F == {T \in SUBSET S : ~\E h : IsSum(h, f, T)}
           Sum(T) == SumFunctionOnSet(f, T)
<1>1. SUFFICES ASSUME F # {} PROVE FALSE
  BY S \in SUBSET S
<1>2. \A T \in SUBSET S : IsFiniteSet(T)
  BY FS_Subset
<1>3. PICK T \in F : \A U \in F : Cardinality(T) <= Cardinality(U)
  <2>1. \A U \in F : IsFiniteSet(U)
    BY <1>2
  <2> HIDE DEF F
  <2> QED
    BY <1>1, <2>1, SmallestSet
<1>4. ASSUME NEW U \in SUBSET T, U # T
      PROVE  IsSum(CHOOSE h : IsSum(h, f, U), f, U)
  <2>1. Cardinality(U) < Cardinality(T)
    <3>1. PICK x \in T : x \notin U
      BY <1>4
    <3>2. Cardinality(U) <= Cardinality(T \ {x}) /\ Cardinality(U) \in Nat
      <4>1. U \subseteq T \ {x} /\ IsFiniteSet(T \ {x})
        BY <1>2, <3>1
      <4> QED
        BY <4>1, FS_Subset, FS_CardinalityType
    <3>3. Cardinality(T \ {x}) < Cardinality(T)
      BY <1>2, RemoveOne
    <3> QED
      BY <1>2, <3>2, <3>3, FS_CardinalityType
  <2>2. U \in SUBSET S /\ Cardinality(U) \in Nat /\ Cardinality(T) \in Nat
    BY <1>2, FS_CardinalityType
  <2>3. U \notin F
    BY <1>3, <2>1, <2>2
  <2>4. \E h : IsSum(h, f, U)
    BY <2>2, <2>3
  <2> QED
    BY <2>4
<1>5. ASSUME NEW U \in SUBSET T, U # T
      PROVE  Sum(U) = IF U = {} THEN 0 ELSE f[Chosen(U)] + Sum(U \ {Chosen(U)})
  <2> DEFINE h == CHOOSE h : IsSum(h, f, U)
  <2>1. IsSum(h, f, U) /\ Sum(U) = h[U]
    BY <1>4, <1>5, SumDef
  <2> HIDE DEF h
  <2>2. h[U] = IF U = {} THEN 0 ELSE f[Chosen(U)] + h[U \ {Chosen(U)}]
    BY <2>1 DEF IsSum
  <2>3. CASE U = {}
    BY <2>1, <2>2, <2>3
  <2>4. CASE U # {}
    <3> DEFINE V == U \ {Chosen(U)}
               k == CHOOSE k : IsSum(k, f, V)
    <3>1. V \in SUBSET T /\ V # T /\ V \subseteq U /\ IsFiniteSet(V)
      BY <1>2, <1>5, <2>4, ChosenIn
    <3>2. IsSum(k, f, V) /\ Sum(V) = k[V]
      BY <1>4, <3>1, SumDef
    <3> HIDE DEF k
    <3>3. h[V] = k[V]
      BY <2>1, <3>1, <3>2, SumsAgree
    <3> QED
      BY <2>1, <2>2, <2>4, <3>2, <3>3
  <2> QED
    BY <2>3, <2>4
<1> DEFINE g == [U \in SUBSET T |-> IF U = {} THEN 0
                                   ELSE f[Chosen(U)] + Sum(U \ {Chosen(U)})]
<1>6. \A U \in SUBSET T : U # T => g[U] = Sum(U)
  BY <1>5
<1>7. \A U \in SUBSET T : U # {} => U \ {Chosen(U)} \in SUBSET T /\ U \ {Chosen(U)} # T
  BY ChosenIn
<1>8. g = [U \in SUBSET T |-> IF U = {} THEN 0
                              ELSE f[Chosen(U)] + g[U \ {Chosen(U)}]]
  <2> HIDE DEF Sum
  <2>1. \A U \in SUBSET T : U # {} => g[U \ {Chosen(U)}] = Sum(U \ {Chosen(U)})
    <3> HIDE DEF g
    <3> QED
      BY <1>6, <1>7
  <2> QED
    BY <2>1
<1>9. IsSum(g, f, T)
  BY <1>8 DEF IsSum
<1> QED
  BY <1>9

LEMMA SumRecursion ==
    ASSUME NEW f, NEW S, IsFiniteSet(S)
    PROVE  SumFunctionOnSet(f, S) =
             IF S = {} THEN 0
             ELSE f[Chosen(S)] + SumFunctionOnSet(f, S \ {Chosen(S)})
<1> DEFINE h == CHOOSE h : IsSum(h, f, S)
           V == S \ {Chosen(S)}
           k == CHOOSE k : IsSum(k, f, V)
<1>1. IsSum(h, f, S) /\ SumFunctionOnSet(f, S) = h[S]
  BY SumExists, SumDef
<1>2. V \subseteq S /\ IsFiniteSet(V)
  BY FS_Subset
<1>3. IsSum(k, f, V) /\ SumFunctionOnSet(f, V) = k[V]
  BY <1>2, SumExists, SumDef
<1>4. h[S] = IF S = {} THEN 0 ELSE f[Chosen(S)] + h[V]
  BY <1>1, S \in SUBSET S DEF IsSum
<1>5. h[V] = k[V]
  <2> HIDE DEF h, k, V
  <2> QED
    BY <1>1, <1>2, <1>3, SumsAgree
<1> QED
  BY <1>1, <1>3, <1>4, <1>5

LEMMA SumEmpty == \A f : SumFunctionOnSet(f, {}) = 0
BY SumRecursion, FS_EmptySet

LEMMA SumOfSame ==
    ASSUME NEW f, NEW g, NEW S, IsFiniteSet(S), \A x \in S : f[x] = g[x]
    PROVE  SumFunctionOnSet(f, S) = SumFunctionOnSet(g, S)
<1> DEFINE h == CHOOSE h : IsSum(h, f, S)
           k == CHOOSE k : IsSum(k, g, S)
<1>1. IsSum(h, f, S) /\ SumFunctionOnSet(f, S) = h[S]
  BY SumExists, SumDef
<1>2. IsSum(k, g, S) /\ SumFunctionOnSet(g, S) = k[S]
  BY SumExists, SumDef
<1> HIDE DEF h, k
<1> QED
  BY <1>1, <1>2, SumsAgree

LEMMA SumType ==
    ASSUME NEW f, NEW S, IsFiniteSet(S)
    PROVE  /\ (\A x \in S : f[x] \in Int) => SumFunctionOnSet(f, S) \in Int
           /\ (\A x \in S : f[x] \in Nat) => SumFunctionOnSet(f, S) \in Nat
<1> DEFINE Typed(T, N) == (\A x \in T : f[x] \in N) => SumFunctionOnSet(f, T) \in N
           F == {T \in SUBSET S : ~(Typed(T, Int) /\ Typed(T, Nat))}
<1>1. SUFFICES ASSUME F # {} PROVE FALSE
  BY S \in SUBSET S
<1>2. \A T \in SUBSET S : IsFiniteSet(T)
  BY FS_Subset
<1>3. PICK T \in F : \A U \in F : Cardinality(T) <= Cardinality(U)
  <2>1. \A U \in F : IsFiniteSet(U)
    BY <1>2
  <2> HIDE DEF F
  <2> QED
    BY <1>1, <2>1, SmallestSet
<1>4. SumFunctionOnSet(f, T) = IF T = {} THEN 0
                               ELSE f[Chosen(T)] + SumFunctionOnSet(f, T \ {Chosen(T)})
  BY <1>2, SumRecursion
<1>5. T # {}
  BY <1>4
<1> DEFINE U == T \ {Chosen(T)}
<1>6. Typed(U, Int) /\ Typed(U, Nat)
  <2>1. Cardinality(U) < Cardinality(T) /\ Cardinality(U) \in Nat /\ Cardinality(T) \in Nat
    BY <1>2, <1>5, ChosenIn, RemoveOne
  <2>2. U \notin F
    BY <1>3, <2>1
  <2> QED
    BY <2>2
<1>7. Chosen(T) \in T
  BY <1>5, ChosenIn
<1> QED
  BY <1>4, <1>5, <1>6, <1>7

\* It does not matter which element is taken out first.
LEMMA SumRemove ==
    ASSUME NEW f, NEW S, IsFiniteSet(S), \A x \in S : f[x] \in Int, NEW a \in S
    PROVE  SumFunctionOnSet(f, S) = f[a] + SumFunctionOnSet(f, S \ {a})
<1> DEFINE Sum(T) == SumFunctionOnSet(f, T)
           F == {T \in SUBSET S : \E x \in T : Sum(T) # f[x] + Sum(T \ {x})}
<1>1. SUFFICES ASSUME F # {} PROVE FALSE
  BY S \in SUBSET S
<1>2. \A T \in SUBSET S : IsFiniteSet(T) /\ Sum(T) \in Int
  BY FS_Subset, SumType
<1>3. PICK T \in F : \A U \in F : Cardinality(T) <= Cardinality(U)
  <2>1. \A U \in F : IsFiniteSet(U)
    BY <1>2
  <2> HIDE DEF F
  <2> QED
    BY <1>1, <2>1, SmallestSet
<1>4. PICK x \in T : Sum(T) # f[x] + Sum(T \ {x})
  OBVIOUS
<1> DEFINE y == Chosen(T)
<1>5. y \in T
  BY ChosenIn
<1>6. Sum(T) = f[y] + Sum(T \ {y})
  BY <1>2, SumRecursion
<1> HIDE DEF y
<1>7. x # y
  BY <1>4, <1>6
<1>8. ASSUME NEW z \in T, NEW w \in T, z # w
      PROVE  Sum(T \ {z}) = f[w] + Sum((T \ {z}) \ {w})
  <2>1. /\ Cardinality(T \ {z}) < Cardinality(T)
        /\ Cardinality(T \ {z}) \in Nat /\ Cardinality(T) \in Nat
    BY <1>2, RemoveOne
  <2>2. T \ {z} \notin F
    BY <1>3, <2>1
  <2> QED
    BY <1>8, <2>2
<1>9. Sum(T \ {y}) = f[x] + Sum((T \ {y}) \ {x})
  BY <1>5, <1>7, <1>8
<1>10. Sum(T \ {x}) = f[y] + Sum((T \ {x}) \ {y})
  BY <1>5, <1>7, <1>8
<1>11. (T \ {y}) \ {x} = (T \ {x}) \ {y}
  OBVIOUS
<1>12. PICK c \in Int : c = Sum((T \ {x}) \ {y})
  BY <1>2
<1>13. Sum(T) = f[y] + (f[x] + c) /\ Sum(T \ {x}) = f[y] + c
  BY <1>6, <1>9, <1>10, <1>11, <1>12
<1>14. f[x] \in Int /\ f[y] \in Int
  BY <1>5
<1>15. Sum(T) = f[x] + Sum(T \ {x})
  BY <1>13, <1>14
<1> QED
  BY <1>4, <1>15

LEMMA SumAdd ==
    ASSUME NEW f, NEW S, IsFiniteSet(S), NEW a, a \notin S,
           \A x \in S \union {a} : f[x] \in Int
    PROVE  /\ IsFiniteSet(S \union {a})
           /\ SumFunctionOnSet(f, S \union {a}) = SumFunctionOnSet(f, S) + f[a]
<1>1. IsFiniteSet(S \union {a})
  BY FS_AddElement
<1>2. (S \union {a}) \ {a} = S
  OBVIOUS
<1>3. SumFunctionOnSet(f, S) \in Int
  BY SumType
<1> QED
  BY <1>1, <1>2, <1>3, SumRemove

\* One value changes.
LEMMA SumUpdate ==
    ASSUME NEW f, NEW g, NEW S, IsFiniteSet(S), NEW a \in S,
           \A x \in S : f[x] \in Int /\ g[x] \in Int,
           \A x \in S \ {a} : g[x] = f[x]
    PROVE  SumFunctionOnSet(g, S) = SumFunctionOnSet(f, S) - f[a] + g[a]
<1>1. IsFiniteSet(S \ {a})
  BY FS_Subset
<1>2. SumFunctionOnSet(g, S \ {a}) = SumFunctionOnSet(f, S \ {a})
  BY <1>1, SumOfSame
<1>3. SumFunctionOnSet(f, S \ {a}) \in Int
  BY <1>1, SumType
<1> QED
  BY <1>2, <1>3, SumRemove

LEMMA SumMonotonic ==
    ASSUME NEW f, NEW g, NEW S, IsFiniteSet(S),
           \A x \in S : f[x] \in Int /\ g[x] \in Int /\ f[x] <= g[x]
    PROVE  SumFunctionOnSet(f, S) <= SumFunctionOnSet(g, S)
<1> DEFINE F == {T \in SUBSET S : ~(SumFunctionOnSet(f, T) <= SumFunctionOnSet(g, T))}
<1>1. SUFFICES ASSUME F # {} PROVE FALSE
  BY S \in SUBSET S
<1>2. \A T \in SUBSET S : /\ IsFiniteSet(T)
                          /\ SumFunctionOnSet(f, T) \in Int /\ SumFunctionOnSet(g, T) \in Int
  BY FS_Subset, SumType
<1>3. PICK T \in F : \A U \in F : Cardinality(T) <= Cardinality(U)
  <2>1. \A U \in F : IsFiniteSet(U)
    BY <1>2
  <2> HIDE DEF F
  <2> QED
    BY <1>1, <2>1, SmallestSet
<1>4. T # {}
  BY SumEmpty
<1>5. PICK x \in T : TRUE
  BY <1>4
<1>6. /\ SumFunctionOnSet(f, T) = f[x] + SumFunctionOnSet(f, T \ {x})
      /\ SumFunctionOnSet(g, T) = g[x] + SumFunctionOnSet(g, T \ {x})
  BY <1>2, SumRemove
<1>7. SumFunctionOnSet(f, T \ {x}) <= SumFunctionOnSet(g, T \ {x})
  <2>1. /\ Cardinality(T \ {x}) < Cardinality(T)
        /\ Cardinality(T \ {x}) \in Nat /\ Cardinality(T) \in Nat
    BY <1>2, RemoveOne
  <2>2. T \ {x} \notin F
    BY <1>3, <2>1
  <2> QED
    BY <2>2
<1>8. /\ SumFunctionOnSet(f, T \ {x}) \in Int /\ SumFunctionOnSet(g, T \ {x}) \in Int
      /\ f[x] \in Int /\ g[x] \in Int /\ f[x] <= g[x]
  BY <1>2
<1> QED
  BY <1>6, <1>7, <1>8

\* Disjoint parts add up.
LEMMA SumOfParts ==
    ASSUME NEW f, NEW S, IsFiniteSet(S), NEW T, IsFiniteSet(T), S \intersect T = {},
           \A x \in S \union T : f[x] \in Int
    PROVE  SumFunctionOnSet(f, S \union T)
             = SumFunctionOnSet(f, S) + SumFunctionOnSet(f, T)
<1> DEFINE Sum(U) == SumFunctionOnSet(f, U)
           F == {U \in SUBSET T : Sum(S \union U) # Sum(S) + Sum(U)}
<1>1. SUFFICES ASSUME F # {} PROVE FALSE
  BY T \in SUBSET T
<1>2. \A U \in SUBSET T : /\ IsFiniteSet(U) /\ Sum(U) \in Int
                          /\ IsFiniteSet(S \union U) /\ Sum(S \union U) \in Int
  BY FS_Subset, FS_Union, SumType
<1>3. PICK U \in F : \A V \in F : Cardinality(U) <= Cardinality(V)
  <2>1. \A V \in F : IsFiniteSet(V)
    BY <1>2
  <2> HIDE DEF F
  <2> QED
    BY <1>1, <2>1, SmallestSet
<1>4. Sum(S) \in Int
  BY SumType
<1>5. U # {}
  <2> SUFFICES ASSUME U = {} PROVE FALSE
    OBVIOUS
  <2>1. S \union U = S /\ Sum(U) = 0
    BY SumEmpty
  <2>2. Sum(S \union U) = Sum(S) + Sum(U)
    BY <1>4, <2>1
  <2> QED
    BY <2>2
<1>6. PICK x \in U : TRUE
  BY <1>5
<1>7. Sum(U) = f[x] + Sum(U \ {x})
  BY <1>2, SumRemove
<1>8. Sum(S \union U) = f[x] + Sum(S \union (U \ {x}))
  <2>1. (S \union U) \ {x} = S \union (U \ {x})
    OBVIOUS
  <2> QED
    BY <1>2, <2>1, SumRemove
<1>9. Sum(S \union (U \ {x})) = Sum(S) + Sum(U \ {x})
  <2>1. /\ Cardinality(U \ {x}) < Cardinality(U)
        /\ Cardinality(U \ {x}) \in Nat /\ Cardinality(U) \in Nat
    BY <1>2, RemoveOne
  <2>2. U \ {x} \notin F
    BY <1>3, <2>1
  <2> QED
    BY <2>2
<1>10. f[x] \in Int /\ Sum(U \ {x}) \in Int
  BY <1>2
<1> HIDE DEF Sum
<1> QED
  BY <1>4, <1>7, <1>8, <1>9, <1>10

\* A part of natural numbers is at most the whole.
LEMMA SumOfPart ==
    ASSUME NEW f, NEW S, IsFiniteSet(S), NEW T \in SUBSET S, \A x \in S : f[x] \in Nat
    PROVE  SumFunctionOnSet(f, T) <= SumFunctionOnSet(f, S)
<1>1. IsFiniteSet(T) /\ IsFiniteSet(S \ T) /\ T \union (S \ T) = S
  BY FS_Subset
<1>2. SumFunctionOnSet(f, S) = SumFunctionOnSet(f, T) + SumFunctionOnSet(f, S \ T)
  <2>1. T \intersect (S \ T) = {} /\ \A x \in T \union (S \ T) : f[x] \in Int
    OBVIOUS
  <2> QED
    BY <1>1, <2>1, SumOfParts
<1>3. SumFunctionOnSet(f, T) \in Nat /\ SumFunctionOnSet(f, S \ T) \in Nat
  BY <1>1, SumType
<1> QED
  BY <1>2, <1>3

\* Zeros do not count.
LEMMA SumOfZeros ==
    ASSUME NEW f, NEW S, IsFiniteSet(S), \A x \in S : f[x] = 0
    PROVE  SumFunctionOnSet(f, S) = 0
<1> DEFINE F == {T \in SUBSET S : SumFunctionOnSet(f, T) # 0}
<1>1. SUFFICES ASSUME F # {} PROVE FALSE
  BY S \in SUBSET S
<1>2. \A T \in SUBSET S : IsFiniteSet(T)
  BY FS_Subset
<1>3. PICK T \in F : \A U \in F : Cardinality(T) <= Cardinality(U)
  <2>1. \A U \in F : IsFiniteSet(U)
    BY <1>2
  <2> HIDE DEF F
  <2> QED
    BY <1>1, <2>1, SmallestSet
<1>4. T # {} /\ Chosen(T) \in T
  BY SumEmpty, ChosenIn
<1>5. SumFunctionOnSet(f, T) = 0 + SumFunctionOnSet(f, T \ {Chosen(T)})
  BY <1>2, <1>4, SumRecursion
<1>6. SumFunctionOnSet(f, T \ {Chosen(T)}) = 0
  <2>1. /\ Cardinality(T \ {Chosen(T)}) < Cardinality(T)
        /\ Cardinality(T \ {Chosen(T)}) \in Nat /\ Cardinality(T) \in Nat
    BY <1>2, <1>4, RemoveOne
  <2>2. T \ {Chosen(T)} \notin F
    BY <1>3, <2>1
  <2> QED
    BY <2>2
<1> QED
  BY <1>5, <1>6

\* The sum of a function that adds two others.
LEMMA SumPlus ==
    ASSUME NEW f, NEW g, NEW h, NEW S, IsFiniteSet(S),
           \A x \in S : f[x] \in Int /\ g[x] \in Int /\ h[x] = f[x] + g[x]
    PROVE  SumFunctionOnSet(h, S) = SumFunctionOnSet(f, S) + SumFunctionOnSet(g, S)
<1> DEFINE Plus(T) == SumFunctionOnSet(h, T) = SumFunctionOnSet(f, T) + SumFunctionOnSet(g, T)
           F == {T \in SUBSET S : ~Plus(T)}
<1>1. SUFFICES ASSUME F # {} PROVE FALSE
  BY S \in SUBSET S
<1>2. \A T \in SUBSET S : /\ IsFiniteSet(T)
                          /\ SumFunctionOnSet(f, T) \in Int /\ SumFunctionOnSet(g, T) \in Int
                          /\ SumFunctionOnSet(h, T) \in Int
  BY FS_Subset, SumType
<1>3. PICK T \in F : \A U \in F : Cardinality(T) <= Cardinality(U)
  <2>1. \A U \in F : IsFiniteSet(U)
    BY <1>2
  <2> HIDE DEF F
  <2> QED
    BY <1>1, <2>1, SmallestSet
<1>4. T # {}
  <2> SUFFICES ASSUME T = {} PROVE FALSE
    OBVIOUS
  <2>1. /\ SumFunctionOnSet(f, T) = 0 /\ SumFunctionOnSet(g, T) = 0
        /\ SumFunctionOnSet(h, T) = 0
    BY SumEmpty
  <2> QED
    BY <2>1
<1>5. PICK x \in T : TRUE
  BY <1>4
<1>6. /\ SumFunctionOnSet(f, T) = f[x] + SumFunctionOnSet(f, T \ {x})
      /\ SumFunctionOnSet(g, T) = g[x] + SumFunctionOnSet(g, T \ {x})
      /\ SumFunctionOnSet(h, T) = h[x] + SumFunctionOnSet(h, T \ {x})
  BY <1>2, SumRemove
<1>7. Plus(T \ {x})
  <2>1. /\ Cardinality(T \ {x}) < Cardinality(T)
        /\ Cardinality(T \ {x}) \in Nat /\ Cardinality(T) \in Nat
    BY <1>2, RemoveOne
  <2>2. T \ {x} \notin F
    BY <1>3, <2>1
  <2> QED
    BY <2>2
<1>8. /\ SumFunctionOnSet(f, T \ {x}) \in Int /\ SumFunctionOnSet(g, T \ {x}) \in Int
      /\ f[x] \in Int /\ g[x] \in Int /\ h[x] = f[x] + g[x]
  BY <1>2
<1>9. ~Plus(T)
  OBVIOUS
<1> QED
  BY <1>6, <1>7, <1>8, <1>9

\* A factor common to all terms is one of the sum.
LEMMA SumTimes ==
    ASSUME NEW f, NEW h, NEW k \in Int, NEW S, IsFiniteSet(S),
           \A x \in S : f[x] \in Int /\ h[x] = k * f[x]
    PROVE  SumFunctionOnSet(h, S) = k * SumFunctionOnSet(f, S)
<1> DEFINE Same(T) == SumFunctionOnSet(h, T) = k * SumFunctionOnSet(f, T)
           F == {T \in SUBSET S : ~Same(T)}
<1>1. SUFFICES ASSUME F # {} PROVE FALSE
  BY S \in SUBSET S
<1>2. \A T \in SUBSET S : IsFiniteSet(T)
  BY FS_Subset
<1>3. PICK T \in F : \A U \in F : Cardinality(T) <= Cardinality(U)
  <2>1. \A U \in F : IsFiniteSet(U)
    BY <1>2
  <2> HIDE DEF F
  <2> QED
    BY <1>1, <2>1, SmallestSet
<1>4. ~Same(T) /\ T \subseteq S /\ IsFiniteSet(T)
  BY <1>2
<1>5. T # {}
  <2> SUFFICES ASSUME T = {} PROVE FALSE
    OBVIOUS
  <2>1. SumFunctionOnSet(h, T) = 0 /\ SumFunctionOnSet(f, T) = 0
    BY SumEmpty
  <2> QED
    BY <1>4, <2>1
<1>6. PICK x \in T : TRUE
  BY <1>5
<1>7. IsFiniteSet(T \ {x}) /\ Same(T \ {x})
  <2>1. /\ Cardinality(T \ {x}) < Cardinality(T) /\ IsFiniteSet(T \ {x})
        /\ Cardinality(T \ {x}) \in Nat /\ Cardinality(T) \in Nat
    BY <1>4, RemoveOne
  <2>2. T \ {x} \notin F
    <3> HIDE DEF F
    <3> QED
      BY <1>3, <2>1
  <2> QED
    BY <1>4, <2>1, <2>2
<1>8. \A y \in S : h[y] \in Int
  OBVIOUS
<1>9. /\ SumFunctionOnSet(f, T) = f[x] + SumFunctionOnSet(f, T \ {x})
      /\ SumFunctionOnSet(h, T) = h[x] + SumFunctionOnSet(h, T \ {x})
  BY <1>4, <1>8, SumRemove
<1>10. SumFunctionOnSet(f, T \ {x}) \in Int
  BY <1>4, <1>7, SumType
<1>11. k * (f[x] + SumFunctionOnSet(f, T \ {x}))
          = k * f[x] + k * SumFunctionOnSet(f, T \ {x})
  <2>1. \A u, v \in Int : k * (u + v) = k * u + k * v
    OBVIOUS
  <2> QED
    BY <1>4, <1>10, <2>1
<1> QED
  BY <1>4, <1>7, <1>9, <1>11

\* Rows or columns first: the sum of a table is the same.
LEMMA SumSwap ==
    ASSUME NEW C, IsFiniteSet(C), NEW U, IsFiniteSet(U), NEW g,
           \A c \in C, u \in U : g[c][u] \in Int
    PROVE  SumFunctionOnSet([u \in U |-> SumFunctionOnSet([c \in C |-> g[c][u]], C)], U)
             = SumFunctionOnSet([c \in C |-> SumFunctionOnSet(g[c], U)], C)
<1> DEFINE Column(u) == [c \in C |-> g[c][u]]
           Rows == [c \in C |-> SumFunctionOnSet(g[c], U)]
           Upto(D) == [u \in U |-> SumFunctionOnSet(Column(u), D)]
           Same(D) == SumFunctionOnSet(Upto(D), U) = SumFunctionOnSet(Rows, D)
           F == {D \in SUBSET C : ~Same(D)}
<1>1. SUFFICES ASSUME F # {} PROVE FALSE
  BY C \in SUBSET C
<1>2. \A D \in SUBSET C : IsFiniteSet(D)
  BY FS_Subset
<1>3. PICK D \in F : \A E \in F : Cardinality(D) <= Cardinality(E)
  <2>1. \A E \in F : IsFiniteSet(E)
    BY <1>2
  <2> HIDE DEF F
  <2> QED
    BY <1>1, <2>1, SmallestSet
<1>4. ~Same(D) /\ D \subseteq C /\ IsFiniteSet(D)
  BY <1>2
<1>5. D # {}
  <2> SUFFICES ASSUME D = {} PROVE FALSE
    OBVIOUS
  <2>1. SumFunctionOnSet(Rows, D) = 0
    BY SumEmpty
  <2>2. \A u \in U : Upto(D)[u] = 0
    BY SumEmpty
  <2>3. SumFunctionOnSet(Upto(D), U) = 0
    <3> HIDE DEF Upto
    <3> QED
      BY <2>2, SumOfZeros
  <2> QED
    BY <1>4, <2>1, <2>3
<1>6. PICK x \in D : TRUE
  BY <1>5
<1> DEFINE E == D \ {x}
<1>7. IsFiniteSet(E) /\ E \subseteq C /\ Same(E)
  <2>1. /\ Cardinality(E) < Cardinality(D) /\ IsFiniteSet(E)
        /\ Cardinality(E) \in Nat /\ Cardinality(D) \in Nat
    BY <1>4, RemoveOne
  <2>2. E \notin F
    <3> HIDE DEF F, E
    <3> QED
      BY <1>3, <2>1
  <2> QED
    BY <1>4, <2>1, <2>2
<1>8. SumFunctionOnSet(Rows, D) = Rows[x] + SumFunctionOnSet(Rows, E)
  <2>1. \A c \in C : SumFunctionOnSet(g[c], U) \in Int
    BY SumType
  <2>2. \A c \in D : Rows[c] \in Int
    BY <1>4, <2>1
  <2> HIDE DEF Rows
  <2> QED
    BY <1>4, <2>2, SumRemove
<1>9. \A u \in U : /\ Upto(D)[u] = g[x][u] + Upto(E)[u]
                   /\ g[x][u] \in Int /\ Upto(E)[u] \in Int
  <2> SUFFICES ASSUME NEW u \in U
               PROVE  /\ SumFunctionOnSet(Column(u), D)
                            = g[x][u] + SumFunctionOnSet(Column(u), E)
                      /\ g[x][u] \in Int /\ SumFunctionOnSet(Column(u), E) \in Int
    OBVIOUS
  <2>1. Column(u)[x] = g[x][u] /\ \A c \in C : Column(u)[c] \in Int
    BY <1>4
  <2> HIDE DEF Column
  <2>2. SumFunctionOnSet(Column(u), D) = Column(u)[x] + SumFunctionOnSet(Column(u), E)
    BY <1>4, <2>1, SumRemove
  <2> QED
    BY <1>4, <1>7, <2>1, <2>2, SumType
<1> HIDE DEF Upto
<1>10. SumFunctionOnSet(Upto(D), U) = SumFunctionOnSet(g[x], U) + SumFunctionOnSet(Upto(E), U)
  <2> HIDE DEF E
  <2>1. PICK row, before, after : row = g[x] /\ before = Upto(E) /\ after = Upto(D)
    OBVIOUS
  <2>2. \A u \in U : row[u] \in Int /\ before[u] \in Int /\ after[u] = row[u] + before[u]
    BY <1>9, <2>1
  <2>3. SumFunctionOnSet(after, U) = SumFunctionOnSet(row, U) + SumFunctionOnSet(before, U)
    BY <2>2, SumPlus
  <2> QED
    BY <2>1, <2>3
<1>11. Rows[x] = SumFunctionOnSet(g[x], U)
  BY <1>4
<1> QED
  BY <1>4, <1>7, <1>8, <1>10, <1>11

-----------------------------------------------------------------------------
(* Histories *)

\* What membership in History gives.
LEMMA HistoryFacts ==
    ASSUME NEW cps \in History
    PROVE  /\ DOMAIN cps = 1..Len(cps) /\ Len(cps) \in Nat
           /\ \A j \in 1..Len(cps) : /\ cps[j] \in Checkpoint
                                     /\ cps[j].from \in Nat /\ cps[j].value \in Nat
           /\ Sorted(cps)
<1>1. cps \in Seq(Checkpoint) /\ Sorted(cps)
  BY DEF History
<1>2. /\ DOMAIN cps = 1..Len(cps) /\ Len(cps) \in Nat
      /\ \A j \in 1..Len(cps) : cps[j] \in Checkpoint
  BY <1>1
<1>3. \A c \in Checkpoint : c.from \in Nat /\ c.value \in Nat
  BY DEF Checkpoint
<1>4. QED
  BY <1>1, <1>2, <1>3

-----------------------------------------------------------------------------
\* The last checkpoint at a block is the one ValueAt reads.
LEMMA ValueOfLast ==
    ASSUME NEW cps \in History, NEW b \in Nat, NEW i, IsLastAt(cps, b, i)
    PROVE  ValueAt(cps, b) = cps[i].value
<1>1. /\ i \in DOMAIN cps /\ DOMAIN cps \subseteq Nat
      /\ \A j \in DOMAIN cps : cps[j].from <= b => j <= i
  BY HistoryFacts DEF IsLastAt
<1>2. \A j \in DOMAIN cps : IsLastAt(cps, b, j) => j = i
  BY <1>1 DEF IsLastAt
<1>3. (CHOOSE j \in DOMAIN cps : IsLastAt(cps, b, j)) = i
  BY <1>1, <1>2
<1>4. QED
  BY <1>1, <1>3 DEF ValueAt, IsLastAt

\* A checkpoint at b or before whose successor is later is the last at b.
LEMMA LastIsValue ==
    ASSUME NEW cps \in History, NEW b \in Nat, NEW i \in DOMAIN cps,
           cps[i].from <= b,
           i < Len(cps) => b < cps[i + 1].from
    PROVE  ValueAt(cps, b) = cps[i].value
<1>1. /\ DOMAIN cps = 1..Len(cps) /\ Len(cps) \in Nat
      /\ \A j \in DOMAIN cps : cps[j].from \in Nat
      /\ Sorted(cps)
  BY HistoryFacts
<1>2. ASSUME NEW j \in DOMAIN cps, cps[j].from <= b
      PROVE  j <= i
  <2>1. SUFFICES ASSUME i < j PROVE FALSE
    BY <1>1
  <2>2. i + 1 \in DOMAIN cps /\ b < cps[i + 1].from
    BY <2>1, <1>1
  <2>3. cps[i + 1].from <= cps[j].from
    <3>1. CASE i + 1 = j
      BY <3>1, <2>2, <1>1
    <3>2. CASE i + 1 < j
      BY <3>2, <2>2, <1>1 DEF Sorted
    <3>3. QED
      BY <3>1, <3>2, <2>1, <1>1
  <2>4. QED
    BY <2>2, <2>3, <1>2, <1>1
<1>3. IsLastAt(cps, b, i)
  BY <1>2 DEF IsLastAt
<1>4. QED
  BY <1>3, ValueOfLast

\* Before the first checkpoint there is nothing to find.
LEMMA NothingBeforeFirst ==
    ASSUME NEW cps \in History, NEW b \in Nat,
           Len(cps) > 0 => b < cps[1].from
    PROVE  ValueAt(cps, b) = 0
<1>1. SUFFICES ASSUME NEW i \in DOMAIN cps, cps[i].from <= b
               PROVE  FALSE
  BY DEF ValueAt
<1>2. /\ DOMAIN cps = 1..Len(cps) /\ Len(cps) \in Nat
      /\ \A j \in DOMAIN cps : cps[j].from \in Nat
      /\ Sorted(cps)
  BY HistoryFacts
<1>3. 1 \in DOMAIN cps /\ b < cps[1].from
  BY <1>1, <1>2
<1>4. cps[1].from <= cps[i].from
  BY <1>2, <1>3, <1>1 DEF Sorted
<1>5. QED
  BY <1>1, <1>2, <1>3, <1>4

\* When there is a checkpoint at b or before, there is a last one.
LEMMA LastExists ==
    ASSUME NEW cps \in History, NEW b \in Nat,
           NEW k \in DOMAIN cps, cps[k].from <= b
    PROVE  \E i \in DOMAIN cps : IsLastAt(cps, b, i)
<1> DEFINE T == {Len(cps) - i : i \in {j \in DOMAIN cps : cps[j].from <= b}}
<1>1. DOMAIN cps = 1..Len(cps) /\ Len(cps) \in Nat
  BY HistoryFacts
<1>2. T \subseteq Nat /\ T # {}
  BY <1>1
<1>3. PICK x \in T : \A y \in T : x <= y
  BY <1>2, LeastNumber
<1>4. PICK i \in DOMAIN cps : cps[i].from <= b /\ x = Len(cps) - i
  OBVIOUS
<1>5. ASSUME NEW j \in DOMAIN cps, cps[j].from <= b PROVE j <= i
  <2>1. Len(cps) - j \in T
    BY <1>5
  <2>2. x <= Len(cps) - j
    BY <2>1, <1>3
  <2>3. QED
    BY <2>2, <1>1, <1>4
<1>6. QED
  BY <1>4, <1>5 DEF IsLastAt

\* Values are numbers.
LEMMA ValueAtType ==
    ASSUME NEW cps \in History, NEW b \in Nat
    PROVE  ValueAt(cps, b) \in Nat
<1>1. CASE \E k \in DOMAIN cps : cps[k].from <= b
  <2>1. PICK i \in DOMAIN cps : IsLastAt(cps, b, i)
    BY <1>1, LastExists
  <2>2. cps[i].value \in Nat
    BY HistoryFacts
  <2>3. QED
    BY <2>1, <2>2, ValueOfLast
<1>2. CASE ~\E k \in DOMAIN cps : cps[k].from <= b
  BY <1>2 DEF ValueAt
<1>3. QED
  BY <1>1, <1>2

-----------------------------------------------------------------------------
\* No checkpoint of the history is later than now.
UpToNow(cps, now) == \A j \in DOMAIN cps : cps[j].from <= now

\* Until the next update the last value is the value.
LEMMA ValueStays ==
    ASSUME NEW cps \in History, NEW now \in Nat, UpToNow(cps, now),
           NEW later \in Nat, later >= now
    PROVE  ValueAt(cps, later) = ValueAt(cps, now)
<1>1. \A j \in DOMAIN cps : cps[j].from <= now /\ cps[j].from <= later
  BY HistoryFacts DEF UpToNow
<1>2. \A i : IsLastAt(cps, later, i) <=> IsLastAt(cps, now, i)
  BY <1>1 DEF IsLastAt
<1>3. CASE DOMAIN cps = {}
  BY <1>3 DEF ValueAt
<1>4. CASE DOMAIN cps # {}
  <2>1. PICK k \in DOMAIN cps : TRUE
    BY <1>4
  <2>2. PICK i \in DOMAIN cps : IsLastAt(cps, now, i)
    BY <1>1, <2>1, LastExists
  <2> QED
    BY <1>2, <2>2, ValueOfLast
<1> QED
  BY <1>3, <1>4

\* updateValueAtNow keeps the history in order, sets the value from now on,
\* and changes no earlier one.
LEMMA UpdatedHistory ==
    ASSUME NEW cps \in History, NEW now \in Nat, NEW v \in Nat,
           UpToNow(cps, now)
    PROVE  /\ Updated(cps, now, v) \in History
           /\ UpToNow(Updated(cps, now, v), now)
           /\ ValueAt(Updated(cps, now, v), now) = v
           /\ \A b \in Nat : b < now =>
                 ValueAt(Updated(cps, now, v), b) = ValueAt(cps, b)
<1> DEFINE new == Updated(cps, now, v)
           c == [from |-> now, value |-> v]
<1>1. /\ cps \in Seq(Checkpoint)
      /\ DOMAIN cps = 1..Len(cps) /\ Len(cps) \in Nat
      /\ \A j \in 1..Len(cps) : /\ cps[j] \in Checkpoint
                                /\ cps[j].from \in Nat /\ cps[j].value \in Nat
      /\ Sorted(cps)
  BY HistoryFacts DEF History
<1>2. c \in Checkpoint /\ c.from = now /\ c.value = v
  BY DEF Checkpoint
<1>3. CASE cps = <<>> \/ cps[Len(cps)].from < now
  <2>0. new = Append(cps, c)
    BY <1>3 DEF Updated
  <2> HIDE DEF new, c
  <2>1. /\ new \in Seq(Checkpoint)
        /\ Len(new) = Len(cps) + 1 /\ DOMAIN new = 1..(Len(cps) + 1)
        /\ \A j \in 1..Len(cps) : new[j] = cps[j]
        /\ new[Len(cps) + 1] = c
    BY <2>0, <1>1, <1>2
  <2>2. \A j \in 1..Len(cps) : cps[j].from < now
    <3>1. SUFFICES ASSUME NEW j \in 1..Len(cps) PROVE cps[j].from < now
      OBVIOUS
    <3>2. Len(cps) \in 1..Len(cps) /\ cps # <<>> /\ cps[Len(cps)].from < now
      BY <3>1, <1>1, <1>3
    <3>3. cps[j].from <= cps[Len(cps)].from
      BY <3>1, <3>2, <1>1 DEF Sorted
    <3>4. QED
      BY <3>2, <3>3, <3>1, <1>1
  <2>3. Sorted(new)
    BY <2>1, <2>2, <1>1, <1>2 DEF Sorted
  <2>4. new \in History
    BY <2>1, <2>3 DEF History
  <2>5. UpToNow(new, now)
    BY <2>1, <2>2, <1>1, <1>2 DEF UpToNow
  <2>6. ValueAt(new, now) = v
    <3>1. /\ Len(cps) + 1 \in DOMAIN new
          /\ new[Len(cps) + 1].from <= now
          /\ ~(Len(cps) + 1 < Len(new))
      BY <2>1, <1>1, <1>2
    <3>2. ValueAt(new, now) = new[Len(cps) + 1].value
      BY <3>1, <2>4, LastIsValue
    <3>3. QED
      BY <3>2, <2>1, <1>2
  <2>7. ASSUME NEW b \in Nat, b < now PROVE ValueAt(new, b) = ValueAt(cps, b)
    <3>1. CASE \E k \in DOMAIN cps : cps[k].from <= b
      <4>1. PICK i \in DOMAIN cps : IsLastAt(cps, b, i)
        BY <3>1, LastExists
      <4>2. IsLastAt(new, b, i)
        BY SMTT(30), <4>1, <2>1, <2>7, <1>1, <1>2 DEF IsLastAt
      <4>3. QED
        <5>1. ValueAt(new, b) = new[i].value
          BY <4>2, <2>4, ValueOfLast
        <5>2. ValueAt(cps, b) = cps[i].value
          BY <4>1, ValueOfLast
        <5>3. QED
          BY <5>1, <5>2, <2>1, <1>1
    <3>2. CASE ~\E k \in DOMAIN cps : cps[k].from <= b
      <4>1. ~\E k \in DOMAIN new : new[k].from <= b
        BY <3>2, <2>1, <2>7, <1>1, <1>2
      <4>2. QED
        BY <3>2, <4>1 DEF ValueAt
    <3>3. QED
      BY <3>1, <3>2
  <2>8. QED
    BY <2>4, <2>5, <2>6, <2>7 DEF new
<1>4. CASE ~(cps = <<>> \/ cps[Len(cps)].from < now)
  <2> DEFINE n == Len(cps)
  <2>1. n \in 1..n /\ cps[n].from = now
    BY <1>4, <1>1 DEF UpToNow
  <2>2. /\ new = [cps EXCEPT ![n].value = v]
        /\ DOMAIN new = DOMAIN cps
        /\ \A j \in 1..n : new[j].from = cps[j].from
        /\ \A j \in 1..n : j # n => new[j] = cps[j]
        /\ new[n].value = v
    BY <1>4, <1>1, <2>1 DEF Updated, Checkpoint
  <2>3. new \in Seq(Checkpoint) /\ Len(new) = n
    <3>1. [cps[n] EXCEPT !.value = v] \in Checkpoint
      BY <1>1, <2>1 DEF Checkpoint
    <3>2. new = [cps EXCEPT ![n] = [cps[n] EXCEPT !.value = v]]
      BY <2>1, <2>2
    <3>3. QED
      BY <3>1, <3>2, <2>1, <1>1
  <2>4. Sorted(new)
    BY <2>2, <1>1 DEF Sorted
  <2>5. new \in History
    BY <2>3, <2>4 DEF History
  <2>6. UpToNow(new, now)
    BY <2>2, <1>1 DEF UpToNow
  <2> HIDE DEF new, n
  <2>7. ValueAt(new, now) = v
    <3>1. n \in DOMAIN new /\ new[n].from <= now /\ ~(n < Len(new))
      BY <2>1, <2>2, <2>3, <1>1
    <3>2. ValueAt(new, now) = new[n].value
      BY <3>1, <2>5, LastIsValue
    <3>3. QED
      BY <3>2, <2>2
  <2>8. ASSUME NEW b \in Nat, b < now PROVE ValueAt(new, b) = ValueAt(cps, b)
    <3>1. CASE \E k \in DOMAIN cps : cps[k].from <= b
      <4>1. PICK i \in DOMAIN cps : IsLastAt(cps, b, i)
        BY <3>1, LastExists
      <4>2. IsLastAt(new, b, i) /\ i # n
        BY <4>1, <2>1, <2>2, <2>8, <1>1 DEF IsLastAt, n
      <4>3. QED
        <5>1. ValueAt(new, b) = new[i].value
          BY <4>2, <2>5, ValueOfLast
        <5>2. ValueAt(cps, b) = cps[i].value
          BY <4>1, ValueOfLast
        <5>3. QED
          BY <5>1, <5>2, <4>1, <4>2, <2>2, <1>1 DEF n
    <3>2. CASE ~\E k \in DOMAIN cps : cps[k].from <= b
      <4>1. ~\E k \in DOMAIN new : new[k].from <= b
        BY <3>2, <2>2, <1>1 DEF n
      <4>2. QED
        BY <3>2, <4>1 DEF ValueAt
    <3>3. QED
      BY <3>1, <3>2
  <2>9. QED
    BY <2>5, <2>6, <2>7, <2>8 DEF new
<1>5. QED
  BY <1>3, <1>4
=============================================================================
