-------------------------------- MODULE Sums --------------------------------
(***************************************************************************)
(* Lemmas about SumFunctionOnSet of the community modules, which Dispatch  *)
(* adds up a caller's payments with, RateLimit the attempts of a window    *)
(* and Reporting the usage of a bucket; then lemmas about induction and    *)
(* recursion up to a bound.                                                *)
(*                                                                         *)
(* The operator is a fold, so each lemma is an induction over the summed   *)
(* set.  An induction hypothesis that is an operator cannot be passed to   *)
(* the provers; the proofs therefore take the set C of the subsets for     *)
(* which the lemma fails and its smallest member, which exists because     *)
(* strict inclusion is well founded on the subsets of a finite set.        *)
(***************************************************************************)
EXTENDS Integers, FiniteSets, Functions, FiniteSetTheorems, TLAPS

\* The element that the fold takes first.
Chosen(s) == CHOOSE x \in s : TRUE

\* g is the recursive function with which the fold sums f over the subsets of T.
Sums(g, f, T) ==
    g = [s \in SUBSET T |-> IF s = {} THEN 0 ELSE f[Chosen(s)] + g[s \ {Chosen(s)}]]

\* The fold, with its parameters in place.
LEMMA SumDefinition ==
  ASSUME NEW f, NEW S
  PROVE  SumFunctionOnSet(f, S) = (CHOOSE g : Sums(g, f, S))[S]
  BY DEF SumFunctionOnSet, FoldFunctionOnSet, MapThenFoldSet, Sums, Chosen

\* Induction over the subsets of a finite set: a non-empty collection of them
\* has a member none of whose strict subsets belongs to it.
LEMMA SmallestSubset ==
  ASSUME NEW S, IsFiniteSet(S), NEW C \in SUBSET (SUBSET S), C # {}
  PROVE  \E T \in C : \A U \in C : U \subseteq T => U = T
<1>1. IsWellFoundedOn(StrictSubsetOrdering(S), SUBSET S)
  BY FS_StrictSubsetOrderingWellFounded, FS_FiniteSubsetsOfFinite
<1>2. PICK T \in C : \A U \in C : ~(<<U, T>> \in StrictSubsetOrdering(S))
  BY <1>1, WFMin
<1>3. ASSUME NEW U \in C, U \subseteq T PROVE U = T
  <2>1. U \in SUBSET S /\ T \in SUBSET S
    OBVIOUS
  <2>2. U # T => <<U, T>> \in StrictSubsetOrdering(S)
    BY <1>3, <2>1 DEF StrictSubsetOrdering
  <2> QED
    BY <1>2, <2>2
<1> QED
  BY <1>3

\* The element taken is one of the set.
LEMMA ChosenIn == \A s : s # {} => Chosen(s) \in s
  BY DEF Chosen

\* Two functions that sum f over subsets agree where both are defined.
LEMMA SumsAgree ==
  ASSUME NEW f, NEW T, NEW U, IsFiniteSet(T), U \subseteq T, NEW g, Sums(g, f, T), NEW h, Sums(h, f, U)
  PROVE  \A s \in SUBSET U : g[s] = h[s]
<1> DEFINE C == {s \in SUBSET U : g[s] # h[s]}
<1>1. SUFFICES ASSUME C # {} PROVE FALSE
  OBVIOUS
<1>2. IsFiniteSet(U)
  BY FS_Subset
<1>3. PICK s \in C : \A u \in C : u \subseteq s => u = s
  <2> HIDE DEF C
  <2>1. C \in SUBSET (SUBSET U)
    BY DEF C
  <2> QED
    BY <1>1, <1>2, <2>1, SmallestSubset
<1>4. s \in SUBSET U /\ s \in SUBSET T
  OBVIOUS
<1>5. /\ g[s] = IF s = {} THEN 0 ELSE f[Chosen(s)] + g[s \ {Chosen(s)}]
      /\ h[s] = IF s = {} THEN 0 ELSE f[Chosen(s)] + h[s \ {Chosen(s)}]
  BY <1>4 DEF Sums
<1>6. CASE s = {}
  BY <1>3, <1>5, <1>6
<1>7. CASE s # {}
  <2> DEFINE u == s \ {Chosen(s)}
  <2>1. u \in SUBSET U /\ u \subseteq s /\ u # s
    BY <1>4, <1>7, ChosenIn
  <2>2. g[u] = h[u]
    BY <1>3, <2>1
  <2> QED
    BY <1>3, <1>5, <1>7, <2>2
<1> QED
  BY <1>6, <1>7

\* For every finite set there is a function that sums f over its subsets.
LEMMA SumsExist ==
  ASSUME NEW f, NEW S, IsFiniteSet(S)
  PROVE  \E g : Sums(g, f, S)
<1> DEFINE C == {T \in SUBSET S : ~ \E g : Sums(g, f, T)}
<1>1. SUFFICES ASSUME C # {} PROVE FALSE
  OBVIOUS
<1>2. PICK T \in C : \A U \in C : U \subseteq T => U = T
  <2> HIDE DEF C
  <2>1. C \in SUBSET (SUBSET S)
    BY DEF C
  <2> QED
    BY <1>1, <2>1, SmallestSubset
<1>3. T \in SUBSET S /\ IsFiniteSet(T)
  BY FS_Subset
<1> DEFINE G(U) == CHOOSE g : Sums(g, f, U)
<1>4. ASSUME NEW U \in SUBSET T, U # T PROVE Sums(G(U), f, U)
  BY <1>2, <1>3, <1>4
<1> DEFINE V(U) == G(U)[U]
           g == [s \in SUBSET T |-> IF s = {} THEN 0 ELSE f[Chosen(s)] + V(s \ {Chosen(s)})]
<1>5. ASSUME NEW s \in SUBSET T, s # {}
      PROVE  V(s \ {Chosen(s)}) = g[s \ {Chosen(s)}]
  <2> DEFINE U == s \ {Chosen(s)}
  <2>1. U \in SUBSET T /\ U # T
    BY <1>5, ChosenIn
  <2>2. Sums(G(U), f, U) /\ IsFiniteSet(U)
    BY <1>3, <1>4, <2>1, FS_Subset
  <2>3. G(U)[U] = IF U = {} THEN 0 ELSE f[Chosen(U)] + G(U)[U \ {Chosen(U)}]
    <3> HIDE DEF U, G
    <3> QED
      BY <2>2 DEF Sums
  <2>4. g[U] = IF U = {} THEN 0 ELSE f[Chosen(U)] + V(U \ {Chosen(U)})
    BY <2>1
  <2>5. CASE U = {}
    BY <2>3, <2>4, <2>5
  <2>6. CASE U # {}
    <3> DEFINE W == U \ {Chosen(U)}
    <3>1. W \in SUBSET T /\ W # T /\ W \subseteq U
      BY <2>1, <2>6, ChosenIn
    <3>2. Sums(G(W), f, W)
      BY <1>4, <3>1
    <3>3. G(U)[W] = G(W)[W]
      <4> HIDE DEF U, W, G
      <4> QED
        BY <2>2, <3>1, <3>2, SumsAgree
    <3> QED
      BY <2>3, <2>4, <2>6, <3>3
  <2> QED
    BY <2>5, <2>6
<1>6. Sums(g, f, T)
  <2> HIDE DEF G
  <2>1. g = [s \in SUBSET T |-> IF s = {} THEN 0 ELSE f[Chosen(s)] + g[s \ {Chosen(s)}]]
    BY <1>5
  <2> HIDE DEF g
  <2> QED
    BY <2>1 DEF Sums
<1> QED
  BY <1>2, <1>6

\* The sum over the empty set, and over a set from which an element is chosen.
LEMMA SumUnfolds ==
  ASSUME NEW f, NEW S, IsFiniteSet(S)
  PROVE  SumFunctionOnSet(f, S) =
            IF S = {} THEN 0
            ELSE f[Chosen(S)] + SumFunctionOnSet(f, S \ {Chosen(S)})
<1> DEFINE G(T) == CHOOSE g : Sums(g, f, T)
<1>1. Sums(G(S), f, S)
  BY SumsExist
<1>2. SumFunctionOnSet(f, S) = IF S = {} THEN 0 ELSE f[Chosen(S)] + G(S)[S \ {Chosen(S)}]
  <2>1. SumFunctionOnSet(f, S) = G(S)[S]
    BY SumDefinition
  <2> HIDE DEF G
  <2> QED
    BY <1>1, <2>1 DEF Sums
<1>3. CASE S # {}
  <2> DEFINE U == S \ {Chosen(S)}
  <2>1. U \subseteq S /\ IsFiniteSet(U)
    BY FS_Subset
  <2>2. Sums(G(U), f, U)
    BY <2>1, SumsExist
  <2>3. G(S)[U] = G(U)[U]
    <3> HIDE DEF U, G
    <3> QED
      BY <1>1, <2>1, <2>2, SumsAgree
  <2>4. SumFunctionOnSet(f, U) = G(U)[U]
    BY SumDefinition
  <2> QED
    BY <1>2, <1>3, <2>3, <2>4
<1> QED
  BY <1>2, <1>3

\* A sum of integers is an integer, and any element may be taken out of it.
LEMMA SumTakesOut ==
  ASSUME NEW f, NEW S, IsFiniteSet(S), \A x \in S : f[x] \in Int
  PROVE  /\ SumFunctionOnSet(f, S) \in Int
         /\ \A x \in S : SumFunctionOnSet(f, S) = f[x] + SumFunctionOnSet(f, S \ {x})
<1> DEFINE Sum(T) == SumFunctionOnSet(f, T)
           Good(T) == Sum(T) \in Int /\ \A x \in T : Sum(T) = f[x] + Sum(T \ {x})
           C == {T \in SUBSET S : ~Good(T)}
<1>1. SUFFICES ASSUME C # {} PROVE FALSE
  OBVIOUS
<1>2. PICK T \in C : \A U \in C : U \subseteq T => U = T
  <2> HIDE DEF C
  <2>1. C \in SUBSET (SUBSET S)
    BY DEF C
  <2> QED
    BY <1>1, <2>1, SmallestSubset
<1>3. T \in SUBSET S /\ IsFiniteSet(T) /\ ~Good(T)
  BY FS_Subset
<1>4. ASSUME NEW x \in T PROVE Good(T \ {x})
  BY <1>2, <1>3
<1>5. Sum(T) = IF T = {} THEN 0 ELSE f[Chosen(T)] + Sum(T \ {Chosen(T)})
  BY <1>3, SumUnfolds
<1>6. CASE T = {}
  BY <1>3, <1>5, <1>6
<1>7. CASE T # {}
  <2> DEFINE p == Chosen(T)
  <2>1. p \in T /\ f[p] \in Int
    BY <1>3, <1>7, ChosenIn
  <2>2. Sum(T \ {p}) \in Int /\ Sum(T) = f[p] + Sum(T \ {p})
    BY <1>4, <1>5, <1>7, <2>1
  <2>3. ASSUME NEW x \in T, x # p PROVE Sum(T) = f[x] + Sum(T \ {x})
    <3>1. Sum(T \ {p}) = f[x] + Sum((T \ {p}) \ {x})
      <4>1. Good(T \ {p}) /\ x \in T \ {p}
        BY <1>4, <2>1, <2>3
      <4> HIDE DEF Sum
      <4> QED
        BY <4>1
    <3>2. Sum(T \ {x}) = f[p] + Sum((T \ {x}) \ {p})
      <4>1. Good(T \ {x}) /\ p \in T \ {x}
        BY <1>4, <2>1, <2>3
      <4> HIDE DEF Sum, p
      <4> QED
        BY <4>1
    <3>3. (T \ {p}) \ {x} = (T \ {x}) \ {p}
      OBVIOUS
    <3>4. f[x] \in Int /\ Sum((T \ {x}) \ {p}) \in Int
      <4>1. Good(T \ {x})
        BY <1>4
      <4>2. (T \ {x}) \ {p} \in SUBSET T /\ (T \ {x}) \ {p} # T
        BY <2>1
      <4>3. Good((T \ {x}) \ {p})
        BY <1>2, <1>3, <4>2
      <4> QED
        BY <1>3, <4>3
    <3> DEFINE a == Sum((T \ {x}) \ {p})
    <3>5. Sum(T \ {p}) = f[x] + a
      BY <3>1, <3>3
    <3>6. Sum(T) = f[p] + (f[x] + a)
      BY <2>2, <3>5
    <3>7. Sum(T \ {x}) = f[p] + a
      BY <3>2
    <3>8. f[x] + (f[p] + a) = f[p] + (f[x] + a)
      <4> HIDE DEF a, p
      <4> QED
        BY <2>1, <3>4 DEF a
    <3> QED
      BY <3>6, <3>7, <3>8
  <2>4. Sum(T) \in Int
    BY <2>1, <2>2
  <2>5. \A x \in T : Sum(T) = f[x] + Sum(T \ {x})
    BY <2>2, <2>3
  <2> QED
    BY <1>3, <2>4, <2>5
<1> QED
  BY <1>6, <1>7

\* The empty sum.
LEMMA SumOfNothing == \A f : SumFunctionOnSet(f, {}) = 0
  BY SumUnfolds, FS_EmptySet

\* A sum grows with its terms.
LEMMA SumGrows ==
  ASSUME NEW f, NEW g, NEW S, IsFiniteSet(S),
         \A x \in S : f[x] \in Int /\ g[x] \in Int /\ f[x] <= g[x]
  PROVE  SumFunctionOnSet(f, S) <= SumFunctionOnSet(g, S)
<1> DEFINE C == {T \in SUBSET S : ~(SumFunctionOnSet(f, T) <= SumFunctionOnSet(g, T))}
<1>1. SUFFICES ASSUME C # {} PROVE FALSE
  OBVIOUS
<1>2. PICK T \in C : \A U \in C : U \subseteq T => U = T
  <2> HIDE DEF C
  <2>1. C \in SUBSET (SUBSET S)
    BY DEF C
  <2> QED
    BY <1>1, <2>1, SmallestSubset
<1>3. T \in SUBSET S /\ IsFiniteSet(T)
  BY FS_Subset
<1>4. CASE T = {}
  BY <1>2, <1>4, SumOfNothing
<1>5. CASE T # {}
  <2>1. PICK x \in T : TRUE
    BY <1>5
  <2> DEFINE U == T \ {x}
             a == SumFunctionOnSet(f, U)
             b == SumFunctionOnSet(g, U)
  <2>2. U \in SUBSET S /\ U \subseteq T /\ U # T /\ IsFiniteSet(U)
    BY <1>3, <2>1, FS_Subset
  <2>3. a <= b
    BY <1>2, <2>2
  <2>4. a \in Int /\ b \in Int
    BY <2>2, SumTakesOut
  <2>5. SumFunctionOnSet(f, T) = f[x] + a /\ SumFunctionOnSet(g, T) = g[x] + b
    BY <1>3, <2>1, SumTakesOut
  <2>6. f[x] \in Int /\ g[x] \in Int /\ f[x] <= g[x]
    BY <1>3, <2>1
  <2> HIDE DEF U, a, b
  <2>7. f[x] + a <= g[x] + b
    BY <2>3, <2>4, <2>6
  <2> QED
    BY <1>2, <2>5, <2>7
<1> QED
  BY <1>4, <1>5

\* A sum depends on nothing but its terms.
LEMMA SumOfSameTerms ==
  ASSUME NEW f, NEW g, NEW S, IsFiniteSet(S), \A x \in S : f[x] \in Int /\ g[x] = f[x]
  PROVE  SumFunctionOnSet(g, S) = SumFunctionOnSet(f, S)
<1>1. /\ SumFunctionOnSet(f, S) <= SumFunctionOnSet(g, S)
      /\ SumFunctionOnSet(g, S) <= SumFunctionOnSet(f, S)
  BY SumGrows
<1>2. SumFunctionOnSet(f, S) \in Int /\ SumFunctionOnSet(g, S) \in Int
  BY SumTakesOut
<1> QED
  BY <1>1, <1>2

\* Nothing is added.
LEMMA SumOfZeros ==
  ASSUME NEW S, IsFiniteSet(S)
  PROVE  SumFunctionOnSet([x \in S |-> 0], S) = 0
<1> DEFINE f == [x \in S |-> 0]
           C == {T \in SUBSET S : SumFunctionOnSet(f, T) # 0}
<1>1. SUFFICES ASSUME C # {} PROVE FALSE
  OBVIOUS
<1>2. PICK T \in C : \A U \in C : U \subseteq T => U = T
  <2> HIDE DEF C
  <2>1. C \in SUBSET (SUBSET S)
    BY DEF C
  <2> QED
    BY <1>1, <2>1, SmallestSubset
<1>3. T \in SUBSET S /\ IsFiniteSet(T) /\ SumFunctionOnSet(f, T) # 0
  BY FS_Subset
<1>4. T # {}
  BY <1>3, SumOfNothing
<1>5. PICK x \in T : TRUE
  BY <1>4
<1>6. SumFunctionOnSet(f, T \ {x}) = 0
  BY <1>2, <1>3, <1>5
<1>7. SumFunctionOnSet(f, T) = f[x] + SumFunctionOnSet(f, T \ {x})
  <2>1. \A y \in T : f[y] \in Int
    BY <1>3
  <2> HIDE DEF f
  <2> QED
    BY <1>3, <1>5, <2>1, SumTakesOut
<1>8. f[x] = 0
  BY <1>3, <1>5
<1> QED
  BY <1>3, <1>6, <1>7, <1>8

\* When one term changes, the sum changes by the same amount.
LEMMA SumFollowsTerm ==
  ASSUME NEW f, NEW g, NEW S, IsFiniteSet(S), NEW x \in S,
         \A y \in S : f[y] \in Int /\ g[y] \in Int,
         \A y \in S \ {x} : g[y] = f[y]
  PROVE  SumFunctionOnSet(g, S) = SumFunctionOnSet(f, S) + (g[x] - f[x])
<1> DEFINE U == S \ {x}
           a == SumFunctionOnSet(f, U)
           b == SumFunctionOnSet(g, U)
<1>1. IsFiniteSet(U)
  BY FS_Subset
<1>2. a \in Int /\ b = a
  BY <1>1, SumTakesOut, SumOfSameTerms
<1>3. SumFunctionOnSet(f, S) = f[x] + a /\ SumFunctionOnSet(g, S) = g[x] + b
  BY SumTakesOut
<1>4. f[x] \in Int /\ g[x] \in Int
  OBVIOUS
<1> HIDE DEF U, a, b
<1>5. g[x] + a = (f[x] + a) + (g[x] - f[x])
  BY <1>2, <1>4
<1> QED
  BY <1>2, <1>3, <1>5

\* A sum of natural numbers is one.
LEMMA SumIsNatural ==
  ASSUME NEW f, NEW S, IsFiniteSet(S), \A x \in S : f[x] \in Nat
  PROVE  SumFunctionOnSet(f, S) \in Nat
<1> DEFINE zero == [x \in S |-> 0]
<1>1. \A x \in S : zero[x] \in Int /\ f[x] \in Int /\ zero[x] <= f[x]
  OBVIOUS
<1>2. SumFunctionOnSet(zero, S) = 0
  BY SumOfZeros
<1> HIDE DEF zero
<1>3. SumFunctionOnSet(zero, S) <= SumFunctionOnSet(f, S)
  BY <1>1, SumGrows
<1>4. SumFunctionOnSet(f, S) \in Int
  BY SumTakesOut
<1> QED
  BY <1>2, <1>3, <1>4

\* The sum over two disjoint sets is the sum of both.
LEMMA SumOfUnion ==
  ASSUME NEW f, NEW A, NEW B, IsFiniteSet(A), IsFiniteSet(B), A \cap B = {},
         \A x \in A \cup B : f[x] \in Int
  PROVE  SumFunctionOnSet(f, A \cup B) = SumFunctionOnSet(f, A) + SumFunctionOnSet(f, B)
<1> DEFINE C == {T \in SUBSET A : SumFunctionOnSet(f, T \cup B) #
                                  SumFunctionOnSet(f, T) + SumFunctionOnSet(f, B)}
<1>1. SUFFICES ASSUME C # {} PROVE FALSE
  OBVIOUS
<1>2. PICK T \in C : \A U \in C : U \subseteq T => U = T
  <2> HIDE DEF C
  <2>1. C \in SUBSET (SUBSET A)
    BY DEF C
  <2> QED
    BY <1>1, <2>1, SmallestSubset
<1>3. T \in SUBSET A /\ IsFiniteSet(T) /\ IsFiniteSet(T \cup B)
  BY FS_Subset, FS_Union
<1>4. SumFunctionOnSet(f, B) \in Int
  BY SumTakesOut
<1>5. CASE T = {}
  <2> DEFINE b == SumFunctionOnSet(f, B)
  <2>1. T \cup B = B /\ SumFunctionOnSet(f, T) = 0
    BY <1>5, SumOfNothing
  <2>2. b = 0 + b
    <3> HIDE DEF b
    <3> QED
      BY <1>4 DEF b
  <2>3. SumFunctionOnSet(f, T \cup B) = SumFunctionOnSet(f, T) + SumFunctionOnSet(f, B)
    BY <2>1, <2>2
  <2> QED
    BY <1>2, <2>3
<1>6. CASE T # {}
  <2>1. PICK x \in T : TRUE
    BY <1>6
  <2> DEFINE U == T \ {x}
             V == T \cup B
  <2>2. U \in SUBSET A /\ U \subseteq T /\ U # T /\ IsFiniteSet(U) /\ V \ {x} = U \cup B
    BY <1>3, <2>1, FS_Subset
  <2>3. SumFunctionOnSet(f, U \cup B) = SumFunctionOnSet(f, U) + SumFunctionOnSet(f, B)
    BY <1>2, <2>2
  <2>4. /\ \A y \in T : f[y] \in Int
        /\ \A y \in U : f[y] \in Int
        /\ \A y \in V : f[y] \in Int
        /\ f[x] \in Int
    BY <1>3, <2>1
  <2> HIDE DEF U, V, C
  <2>5. SumFunctionOnSet(f, V) = f[x] + SumFunctionOnSet(f, V \ {x})
    <3>1. x \in V /\ IsFiniteSet(V)
      BY <1>3, <2>1 DEF V
    <3> QED
      BY <2>4, <3>1, SumTakesOut
  <2>6. SumFunctionOnSet(f, T) = f[x] + SumFunctionOnSet(f, U)
    BY <1>3, <2>1, <2>4, SumTakesOut DEF U
  <2>7. SumFunctionOnSet(f, U) \in Int
    BY <2>2, <2>4, SumTakesOut
  <2> DEFINE a == SumFunctionOnSet(f, U)
             b == SumFunctionOnSet(f, B)
  <2>8. f[x] + (a + b) = (f[x] + a) + b
    <3>1. f[x] \in Int /\ a \in Int /\ b \in Int
      BY <1>4, <2>4, <2>7
    <3> HIDE DEF a, b
    <3> QED
      BY <3>1
  <2>9. SumFunctionOnSet(f, V) = SumFunctionOnSet(f, T) + SumFunctionOnSet(f, B)
    BY <2>2, <2>3, <2>5, <2>6, <2>8
  <2> QED
    BY <1>2, <2>9 DEF V, C
<1> QED
  BY <1>5, <1>6

\* The terms of two sums may be added one by one.
LEMMA SumAddsTerms ==
  ASSUME NEW f, NEW g, NEW h, NEW S, IsFiniteSet(S),
         \A x \in S : f[x] \in Int /\ g[x] \in Int /\ h[x] = f[x] + g[x]
  PROVE  SumFunctionOnSet(h, S) = SumFunctionOnSet(f, S) + SumFunctionOnSet(g, S)
<1> DEFINE C == {T \in SUBSET S : SumFunctionOnSet(h, T) #
                                  SumFunctionOnSet(f, T) + SumFunctionOnSet(g, T)}
<1>1. SUFFICES ASSUME C # {} PROVE FALSE
  OBVIOUS
<1>2. PICK T \in C : \A U \in C : U \subseteq T => U = T
  <2> HIDE DEF C
  <2>1. C \in SUBSET (SUBSET S)
    BY DEF C
  <2> QED
    BY <1>1, <2>1, SmallestSubset
<1>3. T \in SUBSET S /\ IsFiniteSet(T)
  BY FS_Subset
<1>4. CASE T = {}
  BY <1>2, <1>4, SumOfNothing
<1>5. CASE T # {}
  <2>1. PICK x \in T : TRUE
    BY <1>5
  <2> DEFINE U == T \ {x}
             a == SumFunctionOnSet(f, U)
             b == SumFunctionOnSet(g, U)
             c == SumFunctionOnSet(h, U)
  <2>2. U \in SUBSET S /\ U \subseteq T /\ U # T /\ IsFiniteSet(U)
    BY <1>3, <2>1, FS_Subset
  <2>3. c = a + b
    BY <1>2, <2>2
  <2>4. /\ \A y \in T : f[y] \in Int
        /\ \A y \in T : g[y] \in Int
        /\ \A y \in T : h[y] \in Int
        /\ h[x] = f[x] + g[x]
    BY <1>3, <2>1
  <2>5. a \in Int /\ b \in Int /\ f[x] \in Int /\ g[x] \in Int
    <3>1. /\ \A y \in U : f[y] \in Int
          /\ \A y \in U : g[y] \in Int
      BY <2>4
    <3> QED
      BY <2>1, <2>2, <2>4, <3>1, SumTakesOut
  <2>6. /\ SumFunctionOnSet(f, T) = f[x] + a
        /\ SumFunctionOnSet(g, T) = g[x] + b
        /\ SumFunctionOnSet(h, T) = h[x] + c
    BY <1>3, <2>1, <2>4, SumTakesOut
  <2> HIDE DEF U, a, b, c, C
  <2>7. SumFunctionOnSet(h, T) = SumFunctionOnSet(f, T) + SumFunctionOnSet(g, T)
    BY <2>3, <2>4, <2>5, <2>6
  <2> QED
    BY <1>2, <2>7 DEF C
<1> QED
  BY <1>4, <1>5

\* Grouping the terms by a class of their index changes nothing.
LEMMA SumByClass ==
  ASSUME NEW f, NEW S, IsFiniteSet(S), \A x \in S : f[x] \in Int,
         NEW class, NEW K, IsFiniteSet(K), \A x \in S : class[x] \in K
  PROVE  SumFunctionOnSet([k \in K |-> SumFunctionOnSet(f, {x \in S : class[x] = k})], K) =
            SumFunctionOnSet(f, S)
<1> DEFINE Of(T, k) == {x \in T : class[x] = k}
           G(T) == [k \in K |-> SumFunctionOnSet(f, Of(T, k))]
           C == {T \in SUBSET S : SumFunctionOnSet(G(T), K) # SumFunctionOnSet(f, T)}
<1>1. SUFFICES ASSUME C # {} PROVE FALSE
  OBVIOUS
<1>2. PICK T \in C : \A U \in C : U \subseteq T => U = T
  <2> HIDE DEF C
  <2>1. C \in SUBSET (SUBSET S)
    BY DEF C
  <2> QED
    BY <1>1, <2>1, SmallestSubset
<1>3. T \in SUBSET S /\ IsFiniteSet(T)
  BY FS_Subset
<1>4. CASE T = {}
  <2>1. G(T) = [k \in K |-> 0]
    <3>1. \A k \in K : Of(T, k) = {}
      BY <1>4
    <3> HIDE DEF Of
    <3> QED
      BY <3>1, SumOfNothing
  <2>2. SumFunctionOnSet(G(T), K) = 0
    BY <2>1, SumOfZeros
  <2>3. SumFunctionOnSet(f, T) = 0
    BY <1>4, SumOfNothing
  <2> QED
    BY <1>2, <2>2, <2>3
<1>5. CASE T # {}
  <2>1. PICK x \in T : TRUE
    BY <1>5
  <2> DEFINE U == T \ {x}
             c == class[x]
             g == G(U)
             h == G(T)
  <2>2. U \in SUBSET S /\ U \subseteq T /\ U # T /\ IsFiniteSet(U) /\ c \in K
    BY <1>3, <2>1, FS_Subset
  <2>3. SumFunctionOnSet(g, K) = SumFunctionOnSet(f, U)
    BY <1>2, <2>2
  <2>4. ASSUME NEW k \in K
        PROVE  IsFiniteSet(Of(T, k)) /\ IsFiniteSet(Of(U, k)) /\ g[k] \in Int /\ h[k] \in Int
    <3>1. IsFiniteSet(Of(T, k)) /\ IsFiniteSet(Of(U, k))
      BY <1>3, <2>2, FS_Subset
    <3>2. (\A y \in Of(T, k) : f[y] \in Int) /\ (\A y \in Of(U, k) : f[y] \in Int)
      BY <1>3
    <3>3. g[k] = SumFunctionOnSet(f, Of(U, k)) /\ h[k] = SumFunctionOnSet(f, Of(T, k))
      OBVIOUS
    <3> DEFINE A == Of(T, k)
               B == Of(U, k)
    <3>4. IsFiniteSet(A) /\ IsFiniteSet(B) /\ (\A y \in A : f[y] \in Int) /\ (\A y \in B : f[y] \in Int)
      BY <3>1, <3>2
    <3>5. SumFunctionOnSet(f, A) \in Int /\ SumFunctionOnSet(f, B) \in Int
      <4> HIDE DEF A, B
      <4> QED
        BY <3>4, SumTakesOut
    <3> QED
      BY <3>1, <3>3, <3>5
  <2>5. \A k \in K \ {c} : h[k] = g[k]
    <3>1. \A k \in K \ {c} : Of(T, k) = Of(U, k)
      OBVIOUS
    <3> HIDE DEF Of
    <3> QED
      BY <3>1
  <2>6. h[c] = f[x] + g[c]
    <3>1. /\ x \in Of(T, c) /\ Of(T, c) \ {x} = Of(U, c)
          /\ \A y \in Of(T, c) : f[y] \in Int
          /\ IsFiniteSet(Of(T, c))
      BY <1>3, <2>1, <2>2, <2>4
    <3>2. g[c] = SumFunctionOnSet(f, Of(U, c)) /\ h[c] = SumFunctionOnSet(f, Of(T, c))
      BY <2>2
    <3> DEFINE A == Of(T, c)
    <3>3. SumFunctionOnSet(f, A) = f[x] + SumFunctionOnSet(f, A \ {x})
      <4>1. x \in A /\ (\A y \in A : f[y] \in Int) /\ IsFiniteSet(A)
        BY <3>1
      <4> HIDE DEF A
      <4> QED
        BY <4>1, SumTakesOut
    <3> HIDE DEF Of, g, h
    <3> QED
      BY <3>1, <3>2, <3>3
  <2>7. SumFunctionOnSet(h, K) = SumFunctionOnSet(g, K) + (h[c] - g[c])
    <3>1. \A k \in K : g[k] \in Int /\ h[k] \in Int
      BY <2>4
    <3> HIDE DEF g, h, c
    <3> QED
      BY <2>2, <2>5, <3>1, SumFollowsTerm
  <2>8. /\ SumFunctionOnSet(f, T) = f[x] + SumFunctionOnSet(f, U)
        /\ SumFunctionOnSet(f, U) \in Int /\ f[x] \in Int
    <3>1. (\A y \in T : f[y] \in Int) /\ (\A y \in U : f[y] \in Int)
      BY <1>3
    <3> QED
      BY <1>3, <2>1, <2>2, <3>1, SumTakesOut
  <2>9. g[c] \in Int
    BY <2>2, <2>4
  <2> HIDE DEF g, U, c
  <2>10. SumFunctionOnSet(h, K) = SumFunctionOnSet(f, T)
    <3> HIDE DEF h
    <3> QED
      BY <2>3, <2>6, <2>7, <2>8, <2>9
  <2> QED
    BY <1>2, <2>10
<1> QED
  BY <1>4, <1>5

\* Counting is summing ones.
LEMMA SumCounts ==
  ASSUME NEW f, NEW S, IsFiniteSet(S), \A x \in S : f[x] \in {0, 1}
  PROVE  Cardinality({x \in S : f[x] = 1}) = SumFunctionOnSet(f, S)
<1> DEFINE Ones(T) == {x \in T : f[x] = 1}
           C == {T \in SUBSET S : Cardinality(Ones(T)) # SumFunctionOnSet(f, T)}
<1>1. SUFFICES ASSUME C # {} PROVE FALSE
  OBVIOUS
<1>2. PICK T \in C : \A U \in C : U \subseteq T => U = T
  <2> HIDE DEF C
  <2>1. C \in SUBSET (SUBSET S)
    BY DEF C
  <2> QED
    BY <1>1, <2>1, SmallestSubset
<1>3. T \in SUBSET S /\ IsFiniteSet(T)
  BY FS_Subset
<1>4. CASE T = {}
  <2>1. Ones(T) = {}
    BY <1>4
  <2> QED
    BY <1>2, <1>4, <2>1, SumOfNothing, FS_EmptySet
<1>5. CASE T # {}
  <2>1. PICK x \in T : TRUE
    BY <1>5
  <2> DEFINE U == T \ {x}
  <2>2. U \in SUBSET S /\ U \subseteq T /\ U # T /\ IsFiniteSet(U)
    BY <1>3, <2>1, FS_Subset
  <2>3. Cardinality(Ones(U)) = SumFunctionOnSet(f, U)
    BY <1>2, <2>2
  <2>4. (\A y \in T : f[y] \in Int) /\ (\A y \in U : f[y] \in Int) /\ f[x] \in {0, 1}
    BY <1>3, <2>1
  <2>5. /\ SumFunctionOnSet(f, T) = f[x] + SumFunctionOnSet(f, U)
        /\ SumFunctionOnSet(f, U) \in Int
    BY <1>3, <2>1, <2>2, <2>4, SumTakesOut
  <2>6. IsFiniteSet(Ones(T)) /\ IsFiniteSet(Ones(U))
    BY <1>3, <2>2, FS_Subset
  <2>7. CASE f[x] = 1
    <3>1. Ones(T) \ {x} = Ones(U) /\ x \in Ones(T)
      BY <2>1, <2>7
    <3>2. Cardinality(Ones(U)) = Cardinality(Ones(T)) - 1 /\ Cardinality(Ones(T)) \in Nat
      <4> HIDE DEF Ones
      <4> QED
        BY <2>6, <3>1, FS_RemoveElement, FS_CardinalityType
    <3> HIDE DEF Ones
    <3>3. Cardinality(Ones(T)) = SumFunctionOnSet(f, T)
      BY <2>3, <2>5, <2>7, <3>2
    <3> QED
      BY <1>2, <3>3
  <2>8. CASE f[x] = 0
    <3>1. Ones(T) = Ones(U)
      BY <2>8
    <3> HIDE DEF Ones
    <3>2. Cardinality(Ones(T)) = SumFunctionOnSet(f, T)
      BY <2>3, <2>5, <2>8, <3>1
    <3> QED
      BY <1>2, <3>2
  <2> QED
    BY <2>4, <2>7, <2>8
<1> QED
  BY <1>4, <1>5

\* A non-empty set of natural numbers has a least element.
LEMMA LeastNumber ==
  ASSUME NEW C \in SUBSET Nat, C # {}
  PROVE  \E n \in C : \A m \in C : n <= m
<1>1. PICK n \in C : \A m \in C : ~(<<m, n>> \in OpToRel(<, Nat))
  BY NatLessThanWellFounded, WFMin
<1>2. ASSUME NEW m \in C, ~(n <= m) PROVE FALSE
  <2>1. m \in Nat /\ n \in Nat /\ m < n
    BY <1>2
  <2>2. <<m, n>> \in OpToRel(<, Nat)
    BY <2>1 DEF OpToRel
  <2> QED
    BY <1>1, <2>2
<1> QED
  BY <1>2

\* Terms that all move up by one place sum to the same.
LEMMA SumShifts ==
  ASSUME NEW f, NEW g, NEW n \in Nat,
         \A i \in 0 .. n : f[i] \in Int, \A i \in 1 .. n + 1 : g[i] = f[i - 1]
  PROVE  SumFunctionOnSet(g, 1 .. n + 1) = SumFunctionOnSet(f, 0 .. n)
<1> DEFINE Same(k) == SumFunctionOnSet(g, 1 .. k) = SumFunctionOnSet(f, 0 .. k - 1)
           C == {k \in Nat : k <= n + 1 /\ ~Same(k)}
<1>1. SUFFICES ASSUME C # {} PROVE FALSE
  <2>1. C = {} => Same(n + 1)
    OBVIOUS
  <2>2. n + 1 - 1 = n
    OBVIOUS
  <2> QED
    BY <2>1, <2>2
<1>2. PICK k \in C : \A m \in C : k <= m
  <2> HIDE DEF C
  <2>1. C \in SUBSET Nat
    BY DEF C
  <2> QED
    BY <1>1, <2>1, LeastNumber
<1>3. k \in Nat /\ k <= n + 1 /\ ~Same(k)
  OBVIOUS
<1>4. CASE k = 0
  <2>1. 1 .. k = {} /\ 0 .. k - 1 = {}
    BY <1>4
  <2> QED
    BY <1>3, <2>1, SumOfNothing
<1>5. CASE k # 0
  <2>1. k - 1 \in Nat /\ k - 1 <= n + 1 /\ ~(k <= k - 1)
    BY <1>3, <1>5
  <2>2. Same(k - 1)
    BY <1>2, <2>1
  <2>3. (1 .. k) \ {k} = 1 .. k - 1 /\ (0 .. k - 1) \ {k - 1} = 0 .. (k - 1) - 1
    BY <1>3, <1>5
  <2>4. /\ \A i \in 1 .. k : g[i] \in Int
        /\ \A i \in 0 .. k - 1 : f[i] \in Int
        /\ k \in 1 .. k /\ k - 1 \in 0 .. k - 1 /\ g[k] = f[k - 1]
    BY <1>3, <1>5
  <2>5. IsFiniteSet(1 .. k) /\ IsFiniteSet(0 .. k - 1)
    BY <1>3, <2>1, FS_Interval
  <2> DEFINE A == 1 .. k
             B == 0 .. k - 1
  <2>6. SumFunctionOnSet(g, A) = g[k] + SumFunctionOnSet(g, A \ {k})
    <3>1. IsFiniteSet(A) /\ (\A i \in A : g[i] \in Int) /\ k \in A
      BY <2>4, <2>5
    <3> HIDE DEF A, C, Same
    <3> QED
      BY <3>1, SumTakesOut
  <2>7. SumFunctionOnSet(f, B) = f[k - 1] + SumFunctionOnSet(f, B \ {k - 1})
    <3>1. IsFiniteSet(B) /\ (\A i \in B : f[i] \in Int) /\ k - 1 \in B
      BY <2>4, <2>5
    <3> HIDE DEF B, C, Same
    <3> QED
      BY <3>1, SumTakesOut
  <2> QED
    BY <1>3, <2>2, <2>3, <2>4, <2>6, <2>7
<1> QED
  BY <1>4, <1>5

-----------------------------------------------------------------------------
(***************************************************************************)
(* Induction and recursion up to a bound, for the functions with which the *)
(* algorithms go through digits, bytes, prices and chunks.                 *)
(***************************************************************************)
\* Induction up to a bound, with a set in place of a predicate.
LEMMA UpTo ==
  ASSUME NEW n \in Nat, NEW G, 0 \in G, \A i \in 1 .. n : i - 1 \in G => i \in G
  PROVE  \A i \in 0 .. n : i \in G
<1> DEFINE C == {i \in 0 .. n : i \notin G}
<1>1. SUFFICES ASSUME C # {} PROVE FALSE
  OBVIOUS
<1>2. PICK i \in C : \A j \in C : i <= j
  <2> HIDE DEF C
  <2>1. C \in SUBSET Nat
    BY DEF C
  <2> QED BY <1>1, <2>1, LeastNumber
<1>3. i \in 1 .. n /\ i - 1 \in 0 .. n /\ ~(i <= i - 1)
  OBVIOUS
<1>4. i - 1 \in G
  BY <1>2, <1>3
<1> QED BY <1>2, <1>3, <1>4

\* The same where each number may rest on all that are smaller.
LEMMA UpToFromAll ==
  ASSUME NEW n \in Nat, NEW G, \A i \in 0 .. n : (\A j \in 0 .. i - 1 : j \in G) => i \in G
  PROVE  \A i \in 0 .. n : i \in G
<1> DEFINE C == {i \in 0 .. n : i \notin G}
<1>1. SUFFICES ASSUME C # {} PROVE FALSE
  OBVIOUS
<1>2. PICK i \in C : \A j \in C : i <= j
  <2> HIDE DEF C
  <2>1. C \in SUBSET Nat
    BY DEF C
  <2> QED BY <1>1, <2>1, LeastNumber
<1>3. \A j \in 0 .. i - 1 : j \in 0 .. n /\ ~(i <= j)
  OBVIOUS
<1>4. \A j \in 0 .. i - 1 : j \in G
  BY <1>2, <1>3
<1> QED BY <1>2, <1>4

\* f's value at each place is made of that at the place before: step is what a
\* recursive definition does there.
Steps(f, n, S, base, step) ==
    f \in [0 .. n -> S] /\ f[0] = base /\ \A i \in 1 .. n : f[i] = step[<<i, f[i - 1]>>]

\* A function can be defined step by step.
LEMMA StepByStep ==
  ASSUME NEW n \in Nat, NEW S, NEW base \in S, NEW step \in [(1 .. n) \X S -> S]
  PROVE  \E f : Steps(f, n, S, base, step)
<1> USE DEF Steps
<1> DEFINE Good(m) == \E f : Steps(f, m, S, base, step)
           G == {m \in 0 .. n : Good(m)}
<1>1. 0 \in G
  <2> DEFINE f == [i \in 0 .. 0 |-> base]
  <2>1. f \in [0 .. 0 -> S] /\ f[0] = base
    OBVIOUS
  <2>2. Steps(f, 0, S, base, step)
    BY <2>1
  <2> HIDE DEF f, Steps
  <2> QED BY <2>2
<1>2. ASSUME NEW m \in 1 .. n, m - 1 \in G PROVE m \in G
  <2>1. PICK g : Steps(g, m - 1, S, base, step)
    BY <1>2
  <2> DEFINE f == [i \in 0 .. m |-> IF i = m THEN step[<<m, g[m - 1]>>] ELSE g[i]]
  <2>2. g[m - 1] \in S /\ m \in 1 .. n
    BY <2>1
  <2>3. step[<<m, g[m - 1]>>] \in S
    BY <2>2
  <2>4. f \in [0 .. m -> S]
    BY <2>1, <2>3
  <2>5. \A i \in 0 .. m - 1 : f[i] = g[i]
    OBVIOUS
  <2>6. f[m] = step[<<m, g[m - 1]>>]
    OBVIOUS
  <2> HIDE DEF f
  <2>7. f[0] = base
    BY <2>1, <2>5
  <2>8. ASSUME NEW i \in 1 .. m PROVE f[i] = step[<<i, f[i - 1]>>]
    <3>1. i - 1 \in 0 .. m - 1 /\ f[i - 1] = g[i - 1]
      BY <2>5
    <3>2. CASE i = m
      BY <2>6, <3>1, <3>2
    <3>3. CASE i # m
      <4>1. i \in 1 .. m - 1 /\ i \in 0 .. m - 1
        BY <3>3
      <4>2. f[i] = g[i] /\ g[i] = step[<<i, g[i - 1]>>]
        BY <2>1, <2>5, <4>1
      <4> QED BY <3>1, <4>2
    <3> QED BY <3>2, <3>3
  <2>9. Good(m)
    BY <2>4, <2>7, <2>8
  <2> HIDE DEF Good
  <2> QED BY <2>9
<1>3. \A m \in 0 .. n : m \in G
  <2> HIDE DEF G
  <2> QED BY <1>1, <1>2, UpTo
<1> QED BY <1>3
=============================================================================
