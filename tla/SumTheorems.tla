----------------------------- MODULE SumTheorems -----------------------------
(***************************************************************************)
(* Facts about SumFunctionOnSet, the sum the model takes over levels of a  *)
(* book and over trade records.  The operator is a fold, hence a recursive *)
(* function over the subsets of its index set.  That this recursion has a  *)
(* solution and what the solution is take induction, which is stated here  *)
(* with sets instead of predicates: a set of naturals that has 0 and the   *)
(* successor of each of its members has them all.  The extrema of sets of  *)
(* integers and the common factor of a fraction are here for their users.  *)
(***************************************************************************)
EXTENDS Integers, FiniteSetsExt, Functions, FiniteSetTheorems, WellFoundedInduction, TLAPS

-----------------------------------------------------------------------------
(* Induction *)

(* A set of naturals has a least member. *)
LEMMA LeastNatural ==
    ASSUME NEW T \in SUBSET Nat, T # {}
    PROVE  \E x \in T : \A y \in T : x <= y
<1>1. IsWellFoundedOn(OpToRel(<, Nat), Nat)
  BY NatLessThanWellFounded
<1>2. PICK x \in T : \A y \in T : ~ (<<y, x>> \in OpToRel(<, Nat))
  BY <1>1, WFMin
<1>3. \A y \in T : ~(y < x)
  BY <1>2 DEF OpToRel
<1> QED BY <1>3

(* Induction over the naturals, for a set. *)
LEMMA NaturalsBySuccessor ==
    ASSUME NEW T, 0 \in T, \A n \in Nat : n \in T => n + 1 \in T
    PROVE  Nat \subseteq T
<1> SUFFICES ASSUME Nat \ T # {} PROVE FALSE
  OBVIOUS
<1>1. PICK x \in Nat \ T : \A y \in Nat \ T : x <= y
  BY LeastNatural
<1>2. x # 0 /\ x - 1 \in Nat
  BY <1>1
<1>3. x - 1 \in T
  BY <1>1, <1>2
<1> QED BY <1>1, <1>2, <1>3

(* Induction over a finite set, for a set of its subsets. *)
LEMMA SubsetsByAddition ==
    ASSUME NEW U, IsFiniteSet(U), NEW Q,
           {} \in Q,
           \A S \in SUBSET U : \A x \in U \ S : S \in Q => S \union {x} \in Q
    PROVE  SUBSET U \subseteq Q
<1> DEFINE T == {n \in Nat : \A S \in SUBSET U : Cardinality(S) = n => S \in Q}
<1>1. \A S \in SUBSET U : IsFiniteSet(S) /\ Cardinality(S) \in Nat
  BY FS_Subset, FS_CardinalityType
<1>2. 0 \in T
  BY <1>1, FS_EmptySet
<1>3. ASSUME NEW n \in Nat, n \in T
      PROVE  n + 1 \in T
  <2> SUFFICES ASSUME NEW S \in SUBSET U, Cardinality(S) = n + 1
               PROVE  S \in Q
    OBVIOUS
  <2>1. S # {}
    BY FS_EmptySet
  <2>2. PICK x \in S : TRUE
    BY <2>1
  <2>3. Cardinality(S \ {x}) = n
    <3>1. IsFiniteSet(S)
      BY <1>1
    <3>2. Cardinality(S \ {x}) = Cardinality(S) - 1
      BY <2>2, <3>1, FS_RemoveElement
    <3> QED BY <1>3, <3>2
  <2>4. S \ {x} \in Q
    BY <1>3, <2>3
  <2>5. (S \ {x}) \union {x} = S
    BY <2>2
  <2> QED BY <2>2, <2>4, <2>5
<1> HIDE DEF T
<1>4. Nat \subseteq T
  BY <1>2, <1>3, NaturalsBySuccessor
<1> QED BY <1>1, <1>4 DEF T

-----------------------------------------------------------------------------
(* Extrema *)

(* The minimum of a set of naturals. *)
LEMMA MinIsLeast ==
    ASSUME NEW S \in SUBSET Nat, S # {}
    PROVE  Min(S) \in S /\ \A y \in S : Min(S) <= y
BY LeastNatural DEF Min

(* The maximum of a finite set of naturals. *)
LEMMA MaxIsGreatest ==
    ASSUME NEW S \in SUBSET Nat, IsFiniteSet(S), S # {}
    PROVE  Max(S) \in S /\ \A y \in S : y <= Max(S)
<1> DEFINE Q == {V \in SUBSET S : V = {} \/ \E x \in V : \A y \in V : y <= x}
<1>1. {} \in Q
  OBVIOUS
<1>2. ASSUME NEW V \in SUBSET S, NEW x \in S \ V, V \in Q
      PROVE  V \union {x} \in Q
  <2>1. CASE V = {}
    BY <2>1
  <2>2. CASE V # {}
    <3>1. PICK m \in V : \A y \in V : y <= m
      BY <1>2, <2>2
    <3>2. CASE x <= m
      BY <3>1, <3>2
    <3>3. CASE m <= x
      BY <3>1, <3>3
    <3> QED BY <3>1, <3>2, <3>3
  <2> QED BY <2>1, <2>2
<1> HIDE DEF Q
<1>3. S \in Q
  BY <1>1, <1>2, SubsetsByAddition
<1>4. \E x \in S : \A y \in S : x >= y
  BY <1>3 DEF Q
<1>5. Max(S) \in S /\ \A y \in S : Max(S) >= y
  BY <1>4 DEF Max
<1> QED BY <1>5

(* The extrema of a pair. *)
LEMMA PairExtrema ==
    ASSUME NEW a \in Int, NEW b \in Int
    PROVE  /\ Max({a, b}) \in {a, b} /\ a <= Max({a, b}) /\ b <= Max({a, b})
           /\ Min({a, b}) \in {a, b} /\ Min({a, b}) <= a /\ Min({a, b}) <= b
<1>1. \E x \in {a, b} : \A y \in {a, b} : x >= y
  OBVIOUS
<1>2. \E x \in {a, b} : \A y \in {a, b} : x <= y
  OBVIOUS
<1>3. Max({a, b}) \in {a, b} /\ \A y \in {a, b} : Max({a, b}) >= y
  BY <1>1 DEF Max
<1>4. Min({a, b}) \in {a, b} /\ \A y \in {a, b} : Min({a, b}) <= y
  BY <1>2 DEF Min
<1> QED BY <1>3, <1>4

(* Dividing by the greatest common factor leaves nothing over. *)
LEMMA CommonFactor ==
    ASSUME NEW n \in Int, NEW d \in Nat \ {0}
    PROVE  LET c == Max({k \in 1..d : n % k = 0 /\ d % k = 0})
           IN  /\ c \in Nat \ {0} /\ n \div c \in Int /\ d \div c \in Nat \ {0}
               /\ n = c * (n \div c) /\ d = c * (d \div c)
<1> DEFINE divisors == {k \in 1..d : n % k = 0 /\ d % k = 0}
           c == Max(divisors)
<1>1. divisors \in SUBSET Nat /\ IsFiniteSet(divisors)
  <2>1. IsFiniteSet(1..d)
    BY FS_Interval
  <2> QED BY <2>1, FS_Subset
<1>2. 1 \in divisors
  OBVIOUS
<1>3. c \in divisors
  <2> HIDE DEF divisors
  <2> QED BY <1>1, <1>2, MaxIsGreatest
<1>4. c \in Nat \ {0} /\ n % c = 0 /\ d % c = 0
  BY <1>3
<1> HIDE DEF c
<1>5. n \div c \in Int /\ n = c * (n \div c)
  BY <1>4
<1>6. d \div c \in Int /\ d = c * (d \div c)
  BY <1>4
<1>7. d \div c \in Nat \ {0}
  <2> DEFINE e == d \div c
  <2>1. e \in Int /\ d = c * e /\ c \in Nat /\ c > 0 /\ d > 0
    BY <1>4, <1>6
  <2> HIDE DEF e
  <2>2. e > 0
    BY <2>1
  <2> QED BY <2>1, <2>2 DEF e
<1> QED BY <1>4, <1>5, <1>6, <1>7 DEF c

-----------------------------------------------------------------------------
(* The recursion of the fold *)

Chosen(s) == CHOOSE x \in s : TRUE

SumStep(f, g, s) == IF s = {} THEN 0 ELSE f[Chosen(s)] + g[s \ {Chosen(s)}]

Unfolds(f, U, g) == g = [s \in SUBSET U |-> SumStep(f, g, s)]

(* A chosen element is an element. *)
LEMMA ChosenMember ==
    ASSUME NEW s, s # {}
    PROVE  Chosen(s) \in s
BY DEF Chosen

(* The sum is the value at U of a chosen solution. *)
LEMMA SumIsChosen ==
    ASSUME NEW f, NEW U
    PROVE  SumFunctionOnSet(f, U) = (CHOOSE g : Unfolds(f, U, g))[U]
BY DEF SumFunctionOnSet, FoldFunctionOnSet, MapThenFoldSet, Unfolds, SumStep, Chosen

(* The recursion has a solution: it is built up by the size of the subset. *)
LEMMA SolutionExists ==
    ASSUME NEW f, NEW U, IsFiniteSet(U)
    PROVE  \E g : Unfolds(f, U, g)
<1> DEFINE Sized(n) == {s \in SUBSET U : Cardinality(s) <= n}
           Upto(n, g) == g = [s \in Sized(n) |-> SumStep(f, g, s)]
           T == {n \in Nat : \E g : Upto(n, g)}
<1>1. \A s \in SUBSET U : IsFiniteSet(s) /\ Cardinality(s) \in Nat
  BY FS_Subset, FS_CardinalityType
<1>2. \A s \in SUBSET U : s # {} =>
         /\ s \ {Chosen(s)} \in SUBSET U
         /\ Cardinality(s \ {Chosen(s)}) = Cardinality(s) - 1
  BY <1>1, ChosenMember, FS_RemoveElement
<1>3. \A s \in SUBSET U : s # {} => Cardinality(s) # 0
  BY <1>1, FS_EmptySet
<1>4. 0 \in T
  <2> DEFINE g == [s \in Sized(0) |-> 0]
  <2>1. \A s \in Sized(0) : s = {}
    BY <1>1, <1>3
  <2>2. \A s \in Sized(0) : SumStep(f, g, s) = 0
    BY <2>1 DEF SumStep
  <2>3. Upto(0, g)
    BY <2>2
  <2> QED BY <2>3
<1>5. ASSUME NEW n \in Nat, n \in T
      PROVE  n + 1 \in T
  <2>0. n + 1 \in Nat
    BY <1>5
  <2>1. PICK g : Upto(n, g)
    BY <1>5
  <2> DEFINE h == [s \in Sized(n + 1) |-> SumStep(f, g, s)]
  <2>2. \A s \in Sized(n) : s \in Sized(n + 1) /\ h[s] = g[s]
    BY <1>1, <2>1
  <2>3. ASSUME NEW s \in Sized(n + 1), s # {}
        PROVE  s \ {Chosen(s)} \in Sized(n)
    <3>1. /\ s \in SUBSET U /\ Cardinality(s) \in Nat /\ Cardinality(s) <= n + 1
          /\ s \ {Chosen(s)} \in SUBSET U
          /\ Cardinality(s \ {Chosen(s)}) = Cardinality(s) - 1
      BY <1>1, <1>2, <2>3
    <3> QED BY <1>5, <3>1
  <2> HIDE DEF Sized
  <2>4. \A s \in Sized(n + 1) : SumStep(f, g, s) = SumStep(f, h, s)
    BY <2>2, <2>3 DEF SumStep
  <2>5. h = [s \in Sized(n + 1) |-> SumStep(f, h, s)]
    BY <2>4
  <2> HIDE DEF h
  <2>6. Upto(n + 1, h)
    BY <2>5
  <2> QED BY <2>0, <2>6
<1> HIDE DEF T
<1>6. Cardinality(U) \in T
  BY <1>4, <1>5, NaturalsBySuccessor, FS_CardinalityType
<1>7. PICK g : Upto(Cardinality(U), g)
  BY <1>6 DEF T
<1>8. Sized(Cardinality(U)) = SUBSET U
  BY FS_Subset
<1> QED BY <1>7, <1>8 DEF Unfolds

(* Solutions for two index sets agree on the subsets of both. *)
LEMMA SolutionsAgree ==
    ASSUME NEW f, NEW U, IsFiniteSet(U), NEW V \in SUBSET U,
           NEW g, Unfolds(f, U, g), NEW h, Unfolds(f, V, h)
    PROVE  \A s \in SUBSET V : g[s] = h[s]
<1> DEFINE T == {n \in Nat : \A s \in SUBSET V : Cardinality(s) = n => g[s] = h[s]}
<1>1. \A s \in SUBSET V : s \in SUBSET U /\ IsFiniteSet(s) /\ Cardinality(s) \in Nat
  BY FS_Subset, FS_CardinalityType
<1>2. \A s \in SUBSET V : g[s] = SumStep(f, g, s) /\ h[s] = SumStep(f, h, s)
  BY <1>1 DEF Unfolds
<1>3. 0 \in T
  <2>1. \A s \in SUBSET V : Cardinality(s) = 0 => s = {}
    BY <1>1, FS_EmptySet
  <2>2. g[{}] = h[{}]
    BY <1>2 DEF SumStep
  <2> QED BY <2>1, <2>2
<1>4. ASSUME NEW n \in Nat, n \in T
      PROVE  n + 1 \in T
  <2> SUFFICES ASSUME NEW s \in SUBSET V, Cardinality(s) = n + 1
               PROVE  g[s] = h[s]
    OBVIOUS
  <2>1. s # {} /\ Chosen(s) \in s /\ IsFiniteSet(s)
    BY <1>1, FS_EmptySet, ChosenMember
  <2>2. Cardinality(s \ {Chosen(s)}) = Cardinality(s) - 1
    BY <2>1, FS_RemoveElement
  <2>3. g[s \ {Chosen(s)}] = h[s \ {Chosen(s)}]
    <3>1. Cardinality(s \ {Chosen(s)}) = n /\ s \ {Chosen(s)} \in SUBSET V
      BY <1>4, <2>2
    <3> QED BY <1>4, <3>1
  <2> QED BY <1>2, <2>1, <2>3 DEF SumStep
<1> HIDE DEF T
<1>5. Nat \subseteq T
  BY <1>3, <1>4, NaturalsBySuccessor
<1> QED BY <1>1, <1>5 DEF T

(* The equation the fold is defined by. *)
LEMMA SumEquation ==
    ASSUME NEW f, NEW S, IsFiniteSet(S)
    PROVE  /\ S = {} => SumFunctionOnSet(f, S) = 0
           /\ S # {} => /\ Chosen(S) \in S
                        /\ SumFunctionOnSet(f, S) =
                              f[Chosen(S)] + SumFunctionOnSet(f, S \ {Chosen(S)})
<1> DEFINE g == CHOOSE h : Unfolds(f, S, h)
<1>1. Unfolds(f, S, g)
  BY SolutionExists
<1>2. SumFunctionOnSet(f, S) = g[S]
  BY SumIsChosen
<1>3. g[S] = SumStep(f, g, S)
  BY <1>1 DEF Unfolds
<1>4. ASSUME S # {}
      PROVE  g[S \ {Chosen(S)}] = SumFunctionOnSet(f, S \ {Chosen(S)})
  <2> DEFINE V == S \ {Chosen(S)}
             k == CHOOSE h : Unfolds(f, V, h)
  <2>1. V \in SUBSET S /\ IsFiniteSet(V)
    BY FS_Subset
  <2>2. Unfolds(f, V, k)
    BY <2>1, SolutionExists
  <2>3. SumFunctionOnSet(f, V) = k[V]
    BY SumIsChosen
  <2> HIDE DEF V, k, g
  <2>4. g[V] = k[V]
    BY <1>1, <2>1, <2>2, SolutionsAgree
  <2> QED BY <2>3, <2>4 DEF V
<1> QED BY <1>2, <1>3, <1>4, ChosenMember DEF SumStep

-----------------------------------------------------------------------------
(* What the model uses of sums *)

(* The sum over no index is zero. *)
THEOREM SumEmpty ==
    ASSUME NEW f
    PROVE  SumFunctionOnSet(f, {}) = 0
BY SumEquation, FS_EmptySet

(* A finite sum of integers is an integer. *)
THEOREM SumType ==
    ASSUME NEW f, NEW S, IsFiniteSet(S), \A x \in S : f[x] \in Int
    PROVE  SumFunctionOnSet(f, S) \in Int
<1> DEFINE T == {n \in Nat : \A V \in SUBSET S : Cardinality(V) = n =>
                                SumFunctionOnSet(f, V) \in Int}
<1>1. \A V \in SUBSET S : IsFiniteSet(V) /\ Cardinality(V) \in Nat
  BY FS_Subset, FS_CardinalityType
<1>2. 0 \in T
  BY <1>1, FS_EmptySet, SumEmpty
<1>3. ASSUME NEW n \in Nat, n \in T
      PROVE  n + 1 \in T
  <2> SUFFICES ASSUME NEW V \in SUBSET S, Cardinality(V) = n + 1
               PROVE  SumFunctionOnSet(f, V) \in Int
    OBVIOUS
  <2>1. V # {} /\ IsFiniteSet(V)
    BY <1>1, FS_EmptySet
  <2>2. Chosen(V) \in V /\ Cardinality(V \ {Chosen(V)}) = Cardinality(V) - 1
    BY <2>1, ChosenMember, FS_RemoveElement
  <2>3. SumFunctionOnSet(f, V \ {Chosen(V)}) \in Int
    <3>1. Cardinality(V \ {Chosen(V)}) = n /\ V \ {Chosen(V)} \in SUBSET S
      BY <1>3, <2>2
    <3> QED BY <1>3, <3>1
  <2>4. f[Chosen(V)] \in Int
    BY <2>2
  <2>5. SumFunctionOnSet(f, V) = f[Chosen(V)] + SumFunctionOnSet(f, V \ {Chosen(V)})
    BY <2>1, SumEquation
  <2> QED BY <2>3, <2>4, <2>5
<1> HIDE DEF T
<1>4. Nat \subseteq T
  BY <1>2, <1>3, NaturalsBySuccessor
<1> QED BY <1>1, <1>4 DEF T

(* Any index may be taken out first. *)
THEOREM SumRemove ==
    ASSUME NEW f, NEW S, IsFiniteSet(S), \A x \in S : f[x] \in Int, NEW y \in S
    PROVE  SumFunctionOnSet(f, S) = f[y] + SumFunctionOnSet(f, S \ {y})
<1> DEFINE Sum(V) == SumFunctionOnSet(f, V)
           T == {n \in Nat : \A V \in SUBSET S : Cardinality(V) = n =>
                                \A x \in V : Sum(V) = f[x] + Sum(V \ {x})}
<1>1. \A V \in SUBSET S : IsFiniteSet(V) /\ Cardinality(V) \in Nat
  BY FS_Subset, FS_CardinalityType
<1>2. \A V \in SUBSET S : Sum(V) \in Int
  BY <1>1, SumType
<1>3. \A V \in SUBSET S : V # {} =>
         Chosen(V) \in V /\ Sum(V) = f[Chosen(V)] + Sum(V \ {Chosen(V)})
  BY <1>1, SumEquation
<1> HIDE DEF Sum
<1>4. 0 \in T
  BY <1>1, FS_EmptySet
<1>5. ASSUME NEW n \in Nat, n \in T
      PROVE  n + 1 \in T
  <2> SUFFICES ASSUME NEW V \in SUBSET S, Cardinality(V) = n + 1, NEW x \in V
               PROVE  Sum(V) = f[x] + Sum(V \ {x})
    OBVIOUS
  <2> DEFINE c == Chosen(V)
  <2>1. c \in V /\ Sum(V) = f[c] + Sum(V \ {c})
    BY <1>3
  <2> HIDE DEF c
  <2>2. CASE x = c
    BY <2>1, <2>2
  <2>3. CASE x # c
    <3>1. V \ {c} \in SUBSET S /\ V \ {x} \in SUBSET S /\ IsFiniteSet(V)
      BY <1>1
    <3>2. Cardinality(V \ {c}) = Cardinality(V) - 1 /\ Cardinality(V \ {x}) = Cardinality(V) - 1
      BY <2>1, <3>1, FS_RemoveElement
    <3>3. Cardinality(V \ {c}) = n /\ Cardinality(V \ {x}) = n
      BY <1>5, <3>2
    <3>4. Sum(V \ {c}) = f[x] + Sum((V \ {c}) \ {x})
      BY <1>5, <2>3, <3>1, <3>3
    <3>5. Sum(V \ {x}) = f[c] + Sum((V \ {x}) \ {c})
      BY <1>5, <2>1, <2>3, <3>1, <3>3
    <3>6. (V \ {c}) \ {x} = (V \ {x}) \ {c} /\ (V \ {c}) \ {x} \in SUBSET S
      OBVIOUS
    <3>7. f[x] \in Int /\ f[c] \in Int
      BY <2>1
    <3>8. Sum((V \ {c}) \ {x}) \in Int
      BY <1>2, <3>6
    <3> DEFINE rest == Sum((V \ {c}) \ {x})
    <3>9. Sum(V) = f[c] + (f[x] + rest) /\ Sum(V \ {x}) = f[c] + rest
      BY <2>1, <3>4, <3>5, <3>6, Zenon
    <3>10. f[c] + (f[x] + rest) = f[x] + (f[c] + rest)
      BY <3>7, <3>8
    <3> QED BY <3>9, <3>10, Zenon
  <2> QED BY <2>2, <2>3
<1> HIDE DEF T
<1>6. Nat \subseteq T
  BY <1>4, <1>5, NaturalsBySuccessor
<1> QED BY <1>1, <1>6 DEF T, Sum

(* A new index adds its value. *)
THEOREM SumAdd ==
    ASSUME NEW f, NEW S, IsFiniteSet(S), NEW y, y \notin S,
           \A x \in S \union {y} : f[x] \in Int
    PROVE  SumFunctionOnSet(f, S \union {y}) = SumFunctionOnSet(f, S) + f[y]
<1>1. IsFiniteSet(S \union {y}) /\ (S \union {y}) \ {y} = S
  BY FS_AddElement
<1>2. SumFunctionOnSet(f, S \union {y}) = f[y] + SumFunctionOnSet(f, (S \union {y}) \ {y})
  BY <1>1, SumRemove
<1>3. SumFunctionOnSet(f, S) \in Int /\ f[y] \in Int
  BY SumType
<1>4. SumFunctionOnSet(f, S) + f[y] = f[y] + SumFunctionOnSet(f, S)
  BY <1>3
<1> QED BY <1>1, <1>2, <1>4, Zenon

(* The sum depends on the values at the indices only. *)
THEOREM SumEqual ==
    ASSUME NEW f, NEW g, NEW S, IsFiniteSet(S),
           \A x \in S : f[x] \in Int /\ f[x] = g[x]
    PROVE  SumFunctionOnSet(f, S) = SumFunctionOnSet(g, S)
<1> DEFINE Q == {V \in SUBSET S : SumFunctionOnSet(f, V) = SumFunctionOnSet(g, V)}
<1>1. {} \in Q
  BY SumEmpty
<1>2. ASSUME NEW V \in SUBSET S, NEW x \in S \ V, V \in Q
      PROVE  V \union {x} \in Q
  <2>1. IsFiniteSet(V)
    BY FS_Subset
  <2>2. SumFunctionOnSet(f, V \union {x}) = SumFunctionOnSet(f, V) + f[x]
    BY <1>2, <2>1, SumAdd
  <2>3. SumFunctionOnSet(g, V \union {x}) = SumFunctionOnSet(g, V) + g[x]
    BY <1>2, <2>1, SumAdd
  <2> QED BY <1>2, <2>2, <2>3
<1> HIDE DEF Q
<1>3. SUBSET S \subseteq Q
  BY <1>1, <1>2, SubsetsByAddition
<1> QED BY <1>3 DEF Q

(* Sums over disjoint sets add up. *)
THEOREM SumDisjoint ==
    ASSUME NEW f, NEW S, NEW R, IsFiniteSet(S), IsFiniteSet(R), S \intersect R = {},
           \A x \in S \union R : f[x] \in Int
    PROVE  SumFunctionOnSet(f, S \union R) = SumFunctionOnSet(f, S) + SumFunctionOnSet(f, R)
<1> DEFINE Sum(V) == SumFunctionOnSet(f, V)
           Q == {V \in SUBSET R : Sum(S \union V) = Sum(S) + Sum(V)}
<1>1. \A V \in SUBSET R : IsFiniteSet(V) /\ IsFiniteSet(S \union V)
  BY FS_Subset, FS_Union
<1>2. Sum(S) \in Int /\ \A V \in SUBSET R : Sum(V) \in Int
  BY <1>1, SumType
<1>3. {} \in Q
  BY <1>2, SumEmpty
<1>4. ASSUME NEW V \in SUBSET R, NEW x \in R \ V, V \in Q
      PROVE  V \union {x} \in Q
  <2>1. Sum(V \union {x}) = Sum(V) + f[x]
    BY <1>1, SumAdd
  <2>2. Sum((S \union V) \union {x}) = Sum(S \union V) + f[x]
    BY <1>1, SumAdd
  <2>3. (S \union V) \union {x} = S \union (V \union {x}) /\ f[x] \in Int
    OBVIOUS
  <2> HIDE DEF Sum
  <2>4. Sum(S \union V) = Sum(S) + Sum(V)
    BY <1>4
  <2>5. (Sum(S) + Sum(V)) + f[x] = Sum(S) + (Sum(V) + f[x])
    BY <1>2, <2>3
  <2>6. Sum(S \union (V \union {x})) = Sum(S) + Sum(V \union {x})
    BY <2>1, <2>2, <2>3, <2>4, <2>5, Zenon
  <2> QED BY <1>4, <2>6
<1> HIDE DEF Q
<1>5. SUBSET R \subseteq Q
  BY <1>3, <1>4, SubsetsByAddition
<1> QED BY <1>5 DEF Q

(* Larger values make a larger sum. *)
THEOREM SumMonotonic ==
    ASSUME NEW f, NEW g, NEW S, IsFiniteSet(S),
           \A x \in S : f[x] \in Int /\ g[x] \in Int /\ f[x] <= g[x]
    PROVE  SumFunctionOnSet(f, S) <= SumFunctionOnSet(g, S)
<1> DEFINE F(V) == SumFunctionOnSet(f, V)
           G(V) == SumFunctionOnSet(g, V)
           Q == {V \in SUBSET S : F(V) <= G(V)}
<1>1. \A V \in SUBSET S : IsFiniteSet(V) /\ F(V) \in Int /\ G(V) \in Int
  BY FS_Subset, SumType
<1>2. {} \in Q
  BY SumEmpty
<1>3. ASSUME NEW V \in SUBSET S, NEW x \in S \ V, V \in Q
      PROVE  V \union {x} \in Q
  <2>1. F(V \union {x}) = F(V) + f[x] /\ G(V \union {x}) = G(V) + g[x]
    BY <1>1, SumAdd
  <2> HIDE DEF F, G
  <2>2. f[x] \in Int /\ g[x] \in Int /\ f[x] <= g[x]
    OBVIOUS
  <2>3. F(V) \in Int /\ G(V) \in Int /\ F(V) <= G(V)
    BY <1>1, <1>3
  <2> QED BY <2>1, <2>2, <2>3
<1> HIDE DEF Q
<1>4. SUBSET S \subseteq Q
  BY <1>2, <1>3, SubsetsByAddition
<1> QED BY <1>4 DEF Q

(* A common factor may be taken out. *)
THEOREM SumScaled ==
    ASSUME NEW f, NEW g, NEW S, IsFiniteSet(S), NEW c \in Int,
           \A x \in S : f[x] \in Int /\ g[x] = c * f[x]
    PROVE  SumFunctionOnSet(g, S) = c * SumFunctionOnSet(f, S)
<1> DEFINE F(V) == SumFunctionOnSet(f, V)
           G(V) == SumFunctionOnSet(g, V)
           Q == {V \in SUBSET S : G(V) = c * F(V)}
<1>0. \A x \in S : g[x] \in Int
  OBVIOUS
<1>1. \A V \in SUBSET S : IsFiniteSet(V) /\ F(V) \in Int
  BY FS_Subset, SumType
<1>2. {} \in Q
  BY SumEmpty
<1>3. ASSUME NEW V \in SUBSET S, NEW x \in S \ V, V \in Q
      PROVE  V \union {x} \in Q
  <2>1. F(V \union {x}) = F(V) + f[x] /\ G(V \union {x}) = G(V) + g[x]
    BY <1>0, <1>1, SumAdd
  <2> HIDE DEF F, G
  <2>2. f[x] \in Int /\ g[x] = c * f[x] /\ F(V) \in Int /\ G(V) = c * F(V)
    BY <1>1, <1>3
  <2>3. c * F(V) + c * f[x] = c * (F(V) + f[x])
    BY <2>2
  <2> QED BY <2>1, <2>2, <2>3
<1> HIDE DEF Q
<1>4. SUBSET S \subseteq Q
  BY <1>2, <1>3, SubsetsByAddition
<1> QED BY <1>4 DEF Q

(* A sum of naturals is a natural, and no less than any part of it. *)
THEOREM SumNatural ==
    ASSUME NEW f, NEW S, IsFiniteSet(S), \A x \in S : f[x] \in Nat
    PROVE  /\ SumFunctionOnSet(f, S) \in Nat
           /\ \A R \in SUBSET S : SumFunctionOnSet(f, R) <= SumFunctionOnSet(f, S)
<1> DEFINE Sum(V) == SumFunctionOnSet(f, V)
           Q == {V \in SUBSET S : Sum(V) \in Nat}
<1>1. {} \in Q
  BY SumEmpty
<1>2. ASSUME NEW V \in SUBSET S, NEW x \in S \ V, V \in Q
      PROVE  V \union {x} \in Q
  <2>1. IsFiniteSet(V)
    BY FS_Subset
  <2>2. Sum(V \union {x}) = Sum(V) + f[x]
    BY <2>1, SumAdd
  <2> QED BY <1>2, <2>2
<1>3. \A R \in SUBSET S : Sum(R) \in Nat
  <2> HIDE DEF Q
  <2>1. SUBSET S \subseteq Q
    BY <1>1, <1>2, SubsetsByAddition
  <2> QED BY <2>1 DEF Q
<1>4. ASSUME NEW R \in SUBSET S
      PROVE  Sum(R) <= Sum(S)
  <2> DEFINE rest == S \ R
  <2>1. IsFiniteSet(R) /\ IsFiniteSet(rest) /\ R \union rest = S /\ R \intersect rest = {}
    BY FS_Subset
  <2>2. rest \in SUBSET S /\ \A x \in R \union rest : f[x] \in Int
    BY <2>1
  <2> HIDE DEF rest
  <2>3. Sum(R \union rest) = Sum(R) + Sum(rest)
    BY <2>1, <2>2, SumDisjoint
  <2>4. Sum(S) = Sum(R) + Sum(rest)
    BY <2>1, <2>3
  <2>5. Sum(R) \in Nat /\ Sum(rest) \in Nat
    BY <1>3, <2>2
  <2> HIDE DEF Sum
  <2> QED BY <2>4, <2>5
<1> QED BY <1>3, <1>4

(* Where the value at one index changes, the sum changes by as much. *)
THEOREM SumChange ==
    ASSUME NEW f, NEW g, NEW S, IsFiniteSet(S), NEW y \in S,
           \A x \in S : f[x] \in Int /\ g[x] \in Int,
           \A x \in S \ {y} : g[x] = f[x]
    PROVE  SumFunctionOnSet(g, S) = SumFunctionOnSet(f, S) - f[y] + g[y]
<1> DEFINE R == S \ {y}
<1>1. IsFiniteSet(R) /\ \A x \in R : f[x] \in Int /\ f[x] = g[x]
  BY FS_Subset
<1>2. SumFunctionOnSet(f, S) = f[y] + SumFunctionOnSet(f, R)
  BY SumRemove
<1>3. SumFunctionOnSet(g, S) = g[y] + SumFunctionOnSet(g, R)
  BY SumRemove
<1> HIDE DEF R
<1>4. SumFunctionOnSet(f, R) = SumFunctionOnSet(g, R) /\ SumFunctionOnSet(f, R) \in Int
  BY <1>1, SumEqual, SumType
<1> QED BY <1>2, <1>3, <1>4

(* A sum of zeros is zero, *)
LEMMA SumOfZeros ==
    ASSUME NEW f, NEW S, IsFiniteSet(S), \A x \in S : f[x] = 0
    PROVE  SumFunctionOnSet(f, S) = 0
<1> DEFINE Q == {V \in SUBSET S : SumFunctionOnSet(f, V) = 0}
<1>1. {} \in Q
  BY SumEmpty
<1>2. ASSUME NEW V \in SUBSET S, NEW x \in S \ V, V \in Q
      PROVE  V \union {x} \in Q
  <2>1. IsFiniteSet(V)
    BY FS_Subset
  <2>2. SumFunctionOnSet(f, V \union {x}) = SumFunctionOnSet(f, V) + f[x]
    BY <2>1, SumAdd
  <2> QED BY <1>2, <2>2
<1> HIDE DEF Q
<1>3. SUBSET S \subseteq Q
  BY <1>1, <1>2, SubsetsByAddition
<1> QED BY <1>3 DEF Q

(* so indices of value zero may be left out. *)
THEOREM SumRelevant ==
    ASSUME NEW f, NEW S, IsFiniteSet(S), NEW R \in SUBSET S,
           \A x \in S : f[x] \in Int, \A x \in S \ R : f[x] = 0
    PROVE  SumFunctionOnSet(f, R) = SumFunctionOnSet(f, S)
<1> DEFINE Z == S \ R
<1>1. IsFiniteSet(R) /\ IsFiniteSet(Z) /\ R \union Z = S /\ R \intersect Z = {}
  BY FS_Subset
<1>2. \A x \in R \union Z : f[x] \in Int
  BY <1>1
<1>3. SumFunctionOnSet(f, Z) = 0
  BY <1>1, SumOfZeros
<1> HIDE DEF Z
<1>4. SumFunctionOnSet(f, R \union Z) = SumFunctionOnSet(f, R) + SumFunctionOnSet(f, Z)
  BY <1>1, <1>2, SumDisjoint
<1>5. SumFunctionOnSet(f, R) \in Int
  BY <1>1, SumType
<1>6. SumFunctionOnSet(f, R) + 0 = SumFunctionOnSet(f, R)
  BY <1>5
<1>7. SumFunctionOnSet(f, S) = SumFunctionOnSet(f, R) + 0
  BY <1>1, <1>3, <1>4, Zenon
<1> QED BY <1>6, <1>7

(* Two sums over the same indices add up index by index. *)
THEOREM SumPlus ==
    ASSUME NEW f, NEW g, NEW h, NEW S, IsFiniteSet(S),
           \A x \in S : f[x] \in Int /\ g[x] \in Int /\ h[x] = f[x] + g[x]
    PROVE  SumFunctionOnSet(h, S) = SumFunctionOnSet(f, S) + SumFunctionOnSet(g, S)
<1> DEFINE F(V) == SumFunctionOnSet(f, V)
           G(V) == SumFunctionOnSet(g, V)
           H(V) == SumFunctionOnSet(h, V)
           Q == {V \in SUBSET S : H(V) = F(V) + G(V)}
<1>0. \A x \in S : h[x] \in Int
  OBVIOUS
<1>1. \A V \in SUBSET S : IsFiniteSet(V) /\ F(V) \in Int /\ G(V) \in Int
  BY FS_Subset, SumType
<1>2. {} \in Q
  BY SumEmpty
<1>3. ASSUME NEW V \in SUBSET S, NEW x \in S \ V, V \in Q
      PROVE  V \union {x} \in Q
  <2>1. /\ F(V \union {x}) = F(V) + f[x] /\ G(V \union {x}) = G(V) + g[x]
        /\ H(V \union {x}) = H(V) + h[x]
    BY <1>0, <1>1, SumAdd
  <2> HIDE DEF F, G, H
  <2>2. /\ f[x] \in Int /\ g[x] \in Int /\ h[x] = f[x] + g[x]
        /\ F(V) \in Int /\ G(V) \in Int /\ H(V) = F(V) + G(V)
    BY <1>1, <1>3
  <2>3. (F(V) + G(V)) + (f[x] + g[x]) = (F(V) + f[x]) + (G(V) + g[x])
    BY <2>2
  <2> QED BY <2>1, <2>2, <2>3
<1> HIDE DEF Q
<1>4. SUBSET S \subseteq Q
  BY <1>2, <1>3, SubsetsByAddition
<1> QED BY <1>4 DEF Q
=============================================================================
