------------------------- MODULE SimpleAccount_proofs -------------------------
(***************************************************************************)
(* Machine-checked proofs about SimpleAccount, for every value of the      *)
(* constants.                                                              *)
(***************************************************************************)
EXTENDS SimpleAccount, SumTheorems

-----------------------------------------------------------------------------
(* Fractions *)

Fractions == Int \X (Nat \ {0})

(* A factor other than zero may be cancelled. *)
LEMMA Cancel ==
    ASSUME NEW x \in Int, NEW y \in Int, NEW z \in Int, z # 0, x * z = y * z
    PROVE  x = y
OBVIOUS

(* Frac divides numerator and denominator by a common factor. *)
LEMMA FracReduces ==
    ASSUME NEW n \in Int, NEW d \in Nat \ {0}
    PROVE  \E c \in Nat \ {0}, m \in Int, e \in Nat \ {0} :
              Frac(n, d) = <<m, e>> /\ n = c * m /\ d = c * e
<1> DEFINE c == Max({k \in 1..d : n % k = 0 /\ d % k = 0})
<1>1. /\ c \in Nat \ {0} /\ n \div c \in Int /\ d \div c \in Nat \ {0}
      /\ n = c * (n \div c) /\ d = c * (d \div c)
  BY CommonFactor
<1>2. Frac(n, d) = <<n \div c, d \div c>>
  BY DEF Frac
<1> HIDE DEF c
<1> QED BY <1>1, <1>2

(***************************************************************************)
(* Val(f, D) is the value of the fraction f in units of 1/D, if D serves   *)
(* f as a denominator.  Over a common denominator fractions add like       *)
(* integers, which is what every proof below turns sums of them into.      *)
(***************************************************************************)
IsVal(f, D, n) == n \in Int /\ f[1] * D = n * f[2]
Serves(D, f) == \E n \in Int : IsVal(f, D, n)
Val(f, D) == CHOOSE n \in Int : IsVal(f, D, n)

Denominators == Nat \ {0}

(* The value of a fraction is the one number that is its value. *)
LEMMA ValIs ==
    ASSUME NEW f \in Fractions, NEW D, NEW n, IsVal(f, D, n)
    PROVE  Serves(D, f) /\ Val(f, D) = n
<1>1. Val(f, D) \in Int /\ IsVal(f, D, Val(f, D))
  BY DEF Val, IsVal
<1>2. f[2] \in Int /\ f[2] # 0
  BY DEF Fractions
<1>3. Val(f, D) * f[2] = n * f[2]
  BY <1>1 DEF IsVal
<1> QED BY <1>1, <1>2, <1>3, Cancel DEF Serves, IsVal

(* Where a denominator serves there is a value. *)
LEMMA ServedVal ==
    ASSUME NEW f, NEW D, Serves(D, f)
    PROVE  Val(f, D) \in Int /\ IsVal(f, D, Val(f, D))
BY DEF Serves, Val, IsVal

(* A multiple of the fraction's own denominator serves. *)
LEMMA OwnDenominator ==
    ASSUME NEW f \in Fractions, NEW k \in Denominators
    PROVE  Serves(f[2] * k, f)
<1>1. f[1] \in Int /\ f[2] \in Int /\ k \in Int
  BY DEF Fractions, Denominators
<1>2. f[1] * (f[2] * k) = (f[1] * k) * f[2] /\ f[1] * k \in Int
  BY <1>1
<1> QED BY <1>2 DEF Serves, IsVal

(* So does a multiple of one that serves. *)
LEMMA ServesMultiple ==
    ASSUME NEW f \in Fractions, NEW D \in Denominators, NEW E \in Denominators, Serves(D, f)
    PROVE  Serves(D * E, f) /\ Serves(E * D, f)
<1>1. PICK n \in Int : f[1] * D = n * f[2]
  BY DEF Serves, IsVal
<1>2. f[1] \in Int /\ f[2] \in Int /\ D \in Int /\ E \in Int
  BY DEF Fractions, Denominators
<1>3. f[1] * (D * E) = (n * E) * f[2] /\ n * E \in Int /\ D * E = E * D
  <2>1. f[1] * (D * E) = (f[1] * D) * E
    BY <1>2
  <2>2. (n * f[2]) * E = (n * E) * f[2]
    BY <1>2
  <2> QED BY <1>1, <1>2, <2>1, <2>2
<1> QED BY <1>3 DEF Serves, IsVal

(* Fractions of one value are the same, and only they. *)
LEMMA SameIsEqualVal ==
    ASSUME NEW f \in Fractions, NEW g \in Fractions, NEW D \in Denominators,
           Serves(D, f), Serves(D, g)
    PROVE  Same(f, g) <=> Val(f, D) = Val(g, D)
<1> DEFINE n == Val(f, D)
           m == Val(g, D)
<1>1. n \in Int /\ m \in Int /\ f[1] * D = n * f[2] /\ g[1] * D = m * g[2]
  BY ServedVal DEF IsVal
<1>2. /\ f[1] \in Int /\ f[2] \in Int /\ g[1] \in Int /\ g[2] \in Int /\ D \in Int
      /\ D # 0 /\ f[2] # 0 /\ g[2] # 0 /\ f[2] * g[2] # 0
  BY DEF Fractions, Denominators
<1> HIDE DEF n, m
<1>3. (f[1] * g[2]) * D = n * (f[2] * g[2])
  <2>1. (f[1] * g[2]) * D = (f[1] * D) * g[2]
    BY <1>2
  <2>2. (n * f[2]) * g[2] = n * (f[2] * g[2])
    BY <1>1, <1>2
  <2> QED BY <1>1, <2>1, <2>2
<1>4. (g[1] * f[2]) * D = m * (f[2] * g[2])
  <2>1. (g[1] * f[2]) * D = (g[1] * D) * f[2]
    BY <1>2
  <2>2. (m * g[2]) * f[2] = m * (f[2] * g[2])
    BY <1>1, <1>2
  <2> QED BY <1>1, <2>1, <2>2
<1>5. ASSUME n = m
      PROVE  f[1] * g[2] = g[1] * f[2]
  <2>1. (f[1] * g[2]) * D = (g[1] * f[2]) * D
    BY <1>3, <1>4, <1>5
  <2>2. f[1] * g[2] \in Int /\ g[1] * f[2] \in Int
    BY <1>2
  <2> QED BY <1>2, <2>1, <2>2, Cancel
<1>6. ASSUME f[1] * g[2] = g[1] * f[2]
      PROVE  n = m
  <2>1. n * (f[2] * g[2]) = m * (f[2] * g[2]) /\ f[2] * g[2] \in Int
    BY <1>2, <1>3, <1>4, <1>6
  <2> QED BY <1>1, <1>2, <2>1, Cancel
<1> QED BY <1>5, <1>6 DEF Same, n, m

(* What serves a fraction serves every fraction that is the same. *)
LEMMA ServesSame ==
    ASSUME NEW f \in Fractions, NEW g \in Fractions, NEW D \in Denominators,
           Serves(D, f), Same(f, g)
    PROVE  Serves(D, g) /\ Val(g, D) = Val(f, D)
<1> DEFINE n == Val(f, D)
<1>1. n \in Int /\ f[1] * D = n * f[2]
  BY ServedVal DEF IsVal
<1> HIDE DEF n
<1>2. /\ f[1] \in Int /\ f[2] \in Int /\ g[1] \in Int /\ g[2] \in Int /\ D \in Int
      /\ f[2] # 0
  BY DEF Fractions, Denominators
<1>3. f[1] * g[2] = g[1] * f[2]
  BY DEF Same
<1>4. (g[1] * D) * f[2] = (n * g[2]) * f[2]
  <2>1. (g[1] * D) * f[2] = (g[1] * f[2]) * D
    BY <1>2
  <2>2. (f[1] * g[2]) * D = (f[1] * D) * g[2]
    BY <1>2
  <2>3. (n * f[2]) * g[2] = (n * g[2]) * f[2]
    BY <1>1, <1>2
  <2> QED BY <1>1, <1>3, <2>1, <2>2, <2>3
<1>5. g[1] * D = n * g[2]
  <2> DEFINE x == g[1] * D
             y == n * g[2]
             z == f[2]
  <2>1. x \in Int /\ y \in Int /\ z \in Int /\ z # 0 /\ x * z = y * z
    BY <1>1, <1>2, <1>4
  <2> HIDE DEF x, y, z
  <2>2. x = y
    BY <2>1, Cancel
  <2> QED BY <2>2 DEF x, y
<1> QED BY <1>1, <1>5, ValIs DEF IsVal, n

(* The value of a whole number. *)
LEMMA WholeVal ==
    ASSUME NEW n \in Int, NEW D \in Denominators
    PROVE  <<n, 1>> \in Fractions /\ Serves(D, <<n, 1>>) /\ Val(<<n, 1>>, D) = n * D
<1>1. <<n, 1>> \in Fractions /\ IsVal(<<n, 1>>, D, n * D)
  BY DEF Fractions, IsVal, Denominators
<1> QED BY <1>1, ValIs

(* Reducing a fraction leaves it the same. *)
LEMMA FracVal ==
    ASSUME NEW n \in Int, NEW d \in Nat \ {0}
    PROVE  Frac(n, d) \in Fractions /\ Same(Frac(n, d), <<n, d>>)
<1>1. PICK c \in Nat \ {0}, m \in Int, e \in Nat \ {0} :
         Frac(n, d) = <<m, e>> /\ n = c * m /\ d = c * e
  BY FracReduces
<1>2. m * (c * e) = (c * m) * e
  OBVIOUS
<1> QED BY <1>1, <1>2 DEF Fractions, Same

(* The sum of two fractions is one. *)
LEMMA PlusType ==
    ASSUME NEW f \in Fractions, NEW g \in Fractions
    PROVE  Plus(f, g) \in Fractions
<1> DEFINE n == f[1] * g[2] + g[1] * f[2]
           d == f[2] * g[2]
<1>1. n \in Int /\ d \in Nat \ {0}
  BY DEF Fractions
<1> HIDE DEF n, d
<1>2. Frac(n, d) \in Fractions
  BY <1>1, FracVal
<1> QED BY <1>2 DEF Plus, n, d

(* A multiple of a fraction is one. *)
LEMMA TimesType ==
    ASSUME NEW f \in Fractions, NEW k \in Int
    PROVE  Times(f, k) \in Fractions
<1> DEFINE n == f[1] * k
<1>1. n \in Int /\ f[2] \in Nat \ {0}
  BY DEF Fractions
<1> HIDE DEF n
<1>2. Frac(n, f[2]) \in Fractions
  BY <1>1, FracVal
<1> QED BY <1>2 DEF Times, n

(* The sum of two fractions has the sum of their values. *)
LEMMA PlusVal ==
    ASSUME NEW f \in Fractions, NEW g \in Fractions, NEW D \in Denominators,
           Serves(D, f), Serves(D, g)
    PROVE  /\ Plus(f, g) \in Fractions
           /\ Serves(D, Plus(f, g))
           /\ Val(Plus(f, g), D) = Val(f, D) + Val(g, D)
<1> DEFINE n == Val(f, D)
           m == Val(g, D)
           h == <<f[1] * g[2] + g[1] * f[2], f[2] * g[2]>>
<1>1. n \in Int /\ m \in Int /\ f[1] * D = n * f[2] /\ g[1] * D = m * g[2]
  BY ServedVal DEF IsVal
<1>2. /\ f[1] \in Int /\ f[2] \in Int /\ g[1] \in Int /\ g[2] \in Int /\ D \in Int
      /\ f[2] \in Nat \ {0} /\ g[2] \in Nat \ {0}
  BY DEF Fractions, Denominators
<1> HIDE DEF n, m
<1>3. h[1] \in Int /\ h[2] \in Nat \ {0} /\ h \in Fractions
  <2>1. f[2] * g[2] > 0 /\ f[2] * g[2] \in Int /\ f[1] * g[2] + g[1] * f[2] \in Int
    BY <1>2
  <2> QED BY <2>1 DEF Fractions
<1>4. IsVal(h, D, n + m)
  <2>1. h[1] * D = (f[1] * D) * g[2] + (g[1] * D) * f[2]
    BY <1>2
  <2>2. (n * f[2]) * g[2] + (m * g[2]) * f[2] = (n + m) * (f[2] * g[2])
    BY <1>1, <1>2
  <2>3. n + m \in Int
    BY <1>1
  <2> QED BY <1>1, <2>1, <2>2, <2>3 DEF IsVal
<1>5. Plus(f, g) \in Fractions /\ Same(h, Plus(f, g))
  <2>1. Frac(h[1], h[2]) \in Fractions /\ Same(Frac(h[1], h[2]), <<h[1], h[2]>>)
    BY <1>3, FracVal
  <2> QED BY <2>1 DEF Plus, Same
<1>6. Serves(D, h) /\ Val(h, D) = n + m
  BY <1>3, <1>4, ValIs
<1> HIDE DEF h
<1> QED BY <1>3, <1>5, <1>6, ServesSame DEF n, m

(* A multiple of a fraction has the multiple of its value. *)
LEMMA TimesVal ==
    ASSUME NEW f \in Fractions, NEW k \in Int, NEW D \in Denominators, Serves(D, f)
    PROVE  /\ Times(f, k) \in Fractions
           /\ Serves(D, Times(f, k))
           /\ Val(Times(f, k), D) = Val(f, D) * k
<1> DEFINE n == Val(f, D)
           h == <<f[1] * k, f[2]>>
<1>1. n \in Int /\ f[1] * D = n * f[2]
  BY ServedVal DEF IsVal
<1>2. f[1] \in Int /\ f[2] \in Nat \ {0} /\ D \in Int
  BY DEF Fractions, Denominators
<1> HIDE DEF n
<1>3. f[1] * k \in Int /\ h \in Fractions
  BY <1>2 DEF Fractions
<1>4. IsVal(h, D, n * k)
  <2>1. (f[1] * k) * D = (f[1] * D) * k
    BY <1>2
  <2>2. (n * f[2]) * k = (n * k) * f[2] /\ n * k \in Int
    BY <1>1, <1>2
  <2> QED BY <1>1, <2>1, <2>2 DEF IsVal
<1>5. Times(f, k) \in Fractions /\ Same(h, Times(f, k))
  <2>1. Frac(f[1] * k, f[2]) \in Fractions /\ Same(Frac(f[1] * k, f[2]), <<f[1] * k, f[2]>>)
    BY <1>2, <1>3, FracVal
  <2> QED BY <2>1 DEF Times, Same
<1>6. Serves(D, h) /\ Val(h, D) = n * k
  BY <1>3, <1>4, ValIs
<1> HIDE DEF h
<1> QED BY <1>3, <1>5, <1>6, ServesSame DEF n

(* Finitely many fractions have a common denominator, *)
LEMMA CommonDenominator ==
    ASSUME NEW f, NEW S, IsFiniteSet(S), \A x \in S : f[x] \in Fractions
    PROVE  \E D \in Denominators : \A x \in S : Serves(D, f[x])
<1> DEFINE Q == {V \in SUBSET S : \E D \in Denominators : \A x \in V : Serves(D, f[x])}
<1>1. {} \in Q
  <2>1. 1 \in Denominators
    BY DEF Denominators
  <2> QED BY <2>1
<1>2. ASSUME NEW V \in SUBSET S, NEW y \in S \ V, V \in Q
      PROVE  V \union {y} \in Q
  <2>1. PICK D \in Denominators : \A x \in V : Serves(D, f[x])
    BY <1>2
  <2>2. f[y][2] \in Denominators
    BY DEF Fractions, Denominators
  <2>3. D * f[y][2] \in Denominators
    BY <2>2 DEF Denominators
  <2>4. Serves(D * f[y][2], f[y])
    <3>1. D * f[y][2] = f[y][2] * D
      BY <2>2 DEF Denominators
    <3>2. Serves(f[y][2] * D, f[y])
      BY OwnDenominator
    <3> QED BY <3>1, <3>2
  <2>5. \A x \in V : Serves(D * f[y][2], f[x])
    BY <2>1, <2>2, ServesMultiple
  <2>6. \A x \in V \union {y} : Serves(D * f[y][2], f[x])
    BY <2>4, <2>5
  <2> QED BY <2>3, <2>6
<1> HIDE DEF Q
<1>3. S \in Q
  BY <1>1, <1>2, SubsetsByAddition
<1> QED BY <1>3 DEF Q

(* and any two finite families have one in common. *)
LEMMA JointDenominator ==
    ASSUME NEW f, NEW S, IsFiniteSet(S), \A x \in S : f[x] \in Fractions,
           NEW g, NEW R, IsFiniteSet(R), \A x \in R : g[x] \in Fractions
    PROVE  \E D \in Denominators :
              (\A x \in S : Serves(D, f[x])) /\ (\A x \in R : Serves(D, g[x]))
<1>1. PICK D \in Denominators : \A x \in S : Serves(D, f[x])
  BY CommonDenominator
<1>2. PICK E \in Denominators : \A x \in R : Serves(E, g[x])
  BY CommonDenominator
<1>3. D * E \in Denominators
  BY DEF Denominators
<1>4. (\A x \in S : Serves(D * E, f[x])) /\ (\A x \in R : Serves(D * E, g[x]))
  BY <1>1, <1>2, ServesMultiple
<1> QED BY <1>3, <1>4

-----------------------------------------------------------------------------
(* Sums of fractions *)

FracStep(f, g, s) ==
    IF s = {} THEN Zero ELSE Plus(f[Chosen(s)], g[s \ {Chosen(s)}])

AddsUp(f, U, g) == g = [s \in SUBSET U |-> FracStep(f, g, s)]

(* The sum is the value at U of a chosen solution of its recursion. *)
LEMMA SumOverIsChosen ==
    ASSUME NEW f, NEW U
    PROVE  SumOver(f, U) = (CHOOSE g : AddsUp(f, U, g))[U]
BY DEF SumOver, FoldFunctionOnSet, MapThenFoldSet, AddsUp, FracStep, Chosen

(* The recursion has a solution: it is built up by the size of the subset. *)
LEMMA FracSolutionExists ==
    ASSUME NEW f, NEW U, IsFiniteSet(U)
    PROVE  \E g : AddsUp(f, U, g)
<1> DEFINE Sized(n) == {s \in SUBSET U : Cardinality(s) <= n}
           Upto(n, g) == g = [s \in Sized(n) |-> FracStep(f, g, s)]
           T == {n \in Nat : \E g : Upto(n, g)}
<1>1. \A s \in SUBSET U : IsFiniteSet(s) /\ Cardinality(s) \in Nat
  BY FS_Subset, FS_CardinalityType
<1>2. \A s \in SUBSET U : s # {} =>
         /\ s \ {Chosen(s)} \in SUBSET U
         /\ Cardinality(s \ {Chosen(s)}) = Cardinality(s) - 1
  BY <1>1, ChosenMember, FS_RemoveElement
<1>3. \A s \in SUBSET U : s # {} => Cardinality(s) # 0
  BY <1>1, FS_EmptySet
<1>4. 0 \in T
  <2> DEFINE g == [s \in Sized(0) |-> Zero]
  <2>1. \A s \in Sized(0) : s = {}
    BY <1>1, <1>3
  <2>2. \A s \in Sized(0) : FracStep(f, g, s) = Zero
    BY <2>1 DEF FracStep
  <2>3. Upto(0, g)
    BY <2>2
  <2> QED BY <2>3
<1>5. ASSUME NEW n \in Nat, n \in T
      PROVE  n + 1 \in T
  <2>0. n + 1 \in Nat
    BY <1>5
  <2>1. PICK g : Upto(n, g)
    BY <1>5
  <2> DEFINE h == [s \in Sized(n + 1) |-> FracStep(f, g, s)]
  <2>2. \A s \in Sized(n) : s \in Sized(n + 1) /\ h[s] = g[s]
    BY <1>1, <2>1
  <2>3. ASSUME NEW s \in Sized(n + 1), s # {}
        PROVE  s \ {Chosen(s)} \in Sized(n)
    <3>1. /\ s \in SUBSET U /\ Cardinality(s) \in Nat /\ Cardinality(s) <= n + 1
          /\ s \ {Chosen(s)} \in SUBSET U
          /\ Cardinality(s \ {Chosen(s)}) = Cardinality(s) - 1
      BY <1>1, <1>2, <2>3
    <3> QED BY <1>5, <3>1
  <2> HIDE DEF Sized
  <2>4. \A s \in Sized(n + 1) : FracStep(f, g, s) = FracStep(f, h, s)
    BY <2>2, <2>3 DEF FracStep
  <2>5. h = [s \in Sized(n + 1) |-> FracStep(f, h, s)]
    BY <2>4
  <2> HIDE DEF h
  <2>6. Upto(n + 1, h)
    BY <2>5
  <2> QED BY <2>0, <2>6
<1> HIDE DEF T
<1>6. Cardinality(U) \in T
  BY <1>4, <1>5, NaturalsBySuccessor, FS_CardinalityType
<1>7. PICK g : Upto(Cardinality(U), g)
  BY <1>6 DEF T
<1>8. Sized(Cardinality(U)) = SUBSET U
  BY FS_Subset
<1> QED BY <1>7, <1>8 DEF AddsUp

Vals(f, D, S) == [x \in S |-> Val(f[x], D)]

(***************************************************************************)
(* A sum of fractions is a fraction, whose value is the sum of the values: *)
(* the order in which the fold takes them does not matter.                 *)
(***************************************************************************)
LEMMA SumOverVal ==
    ASSUME NEW f, NEW S, IsFiniteSet(S), NEW D \in Denominators,
           \A x \in S : f[x] \in Fractions /\ Serves(D, f[x])
    PROVE  /\ SumOver(f, S) \in Fractions
           /\ Serves(D, SumOver(f, S))
           /\ Val(SumOver(f, S), D) = SumFunctionOnSet(Vals(f, D, S), S)
<1> DEFINE g == CHOOSE h : AddsUp(f, S, h)
           v == Vals(f, D, S)
           Good(s) == /\ g[s] \in Fractions
                      /\ Serves(D, g[s])
                      /\ Val(g[s], D) = SumFunctionOnSet(v, s)
           T == {n \in Nat : \A s \in SUBSET S : Cardinality(s) = n => Good(s)}
<1>1. AddsUp(f, S, g) /\ SumOver(f, S) = g[S]
  BY FracSolutionExists, SumOverIsChosen
<1>2. \A s \in SUBSET S : IsFiniteSet(s) /\ Cardinality(s) \in Nat
  BY FS_Subset, FS_CardinalityType
<1>3. \A x \in S : v[x] = Val(f[x], D) /\ v[x] \in Int
  BY ServedVal DEF Vals
<1> HIDE DEF v
<1>4. g[{}] = Zero /\ \A s \in SUBSET S : s # {} => g[s] = Plus(f[Chosen(s)], g[s \ {Chosen(s)}])
  BY <1>1 DEF AddsUp, FracStep
<1> HIDE DEF g
<1>5. 0 \in T
  <2>1. Good({})
    <3>1. D \in Int /\ 0 * D = 0
      BY DEF Denominators
    <3>2. Zero \in Fractions /\ Serves(D, Zero) /\ Val(Zero, D) = 0
      BY <3>1, WholeVal DEF Zero
    <3> QED BY <1>4, <3>2, SumEmpty
  <2>2. \A s \in SUBSET S : Cardinality(s) = 0 => s = {}
    BY <1>2, FS_EmptySet
  <2> QED BY <2>1, <2>2
<1>6. ASSUME NEW n \in Nat, n \in T
      PROVE  n + 1 \in T
  <2> SUFFICES ASSUME NEW s \in SUBSET S, Cardinality(s) = n + 1
               PROVE  Good(s)
    OBVIOUS
  <2> DEFINE c == Chosen(s)
  <2>1. s # {} /\ c \in s /\ IsFiniteSet(s)
    BY <1>2, FS_EmptySet, ChosenMember
  <2>2. Cardinality(s \ {c}) = Cardinality(s) - 1 /\ s \ {c} \in SUBSET S
    BY <2>1, FS_RemoveElement
  <2>3. Good(s \ {c})
    <3>1. Cardinality(s \ {c}) = n
      BY <1>6, <2>2
    <3> QED BY <1>6, <2>2, <3>1
  <2>4. g[s] = Plus(f[c], g[s \ {c}])
    BY <1>4, <2>1
  <2>5. c \in S /\ \A x \in s : v[x] \in Int
    BY <1>3, <2>1
  <2> HIDE DEF c
  <2>6. SumFunctionOnSet(v, s) = v[c] + SumFunctionOnSet(v, s \ {c})
    BY <2>1, <2>5, SumRemove
  <2>7. /\ Plus(f[c], g[s \ {c}]) \in Fractions
        /\ Serves(D, Plus(f[c], g[s \ {c}]))
        /\ Val(Plus(f[c], g[s \ {c}]), D) = Val(f[c], D) + Val(g[s \ {c}], D)
    BY <2>3, <2>5, PlusVal
  <2> QED BY <1>3, <2>3, <2>4, <2>5, <2>6, <2>7
<1> HIDE DEF T
<1>7. Nat \subseteq T
  BY <1>5, <1>6, NaturalsBySuccessor
<1>8. Good(S)
  BY <1>2, <1>7 DEF T
<1> QED BY <1>1, <1>8 DEF v

-----------------------------------------------------------------------------
(* The account *)

Accounts ==
    [ cash : Int, qty : [Instruments -> Int], basis : [Instruments -> Fractions],
      mark : [Instruments -> Optional(Fractions)] ]

(* What a fill adds to the position. *)
Traded(side, qty) ==
    CASE side = "Buy"  -> qty
      [] side = "Sell" -> -qty
      [] OTHER         -> 0

(* The cost basis that a fill leaves behind. *)
BasisAfter(acct, f) ==
    CASE f.side = "Buy"  -> BuyBasis(acct, f.instrument, f)
      [] f.side = "Sell" -> SellBasis(acct, f.instrument, f)
      [] OTHER           -> acct.basis[f.instrument]

(* A fill price is a fraction, worth the notional for the whole quantity. *)
LEMMA FillPriceVal ==
    ASSUME NEW f, f.qty \in Quantity, f.notional \in Nat, NEW D \in Denominators
    PROVE  /\ FillPrice(f) \in Fractions
           /\ Serves(D, FillPrice(f)) => Val(FillPrice(f), D) * f.qty = f.notional * D
<1> DEFINE h == <<f.notional, f.qty>>
<1>1. h \in Fractions /\ FillPrice(f) \in Fractions /\ Same(FillPrice(f), h)
  <2>1. f.notional \in Int /\ f.qty \in Nat \ {0}
    BY DEF Quantity
  <2> QED BY <2>1, FracVal DEF FillPrice, Fractions
<1>2. ASSUME Serves(D, FillPrice(f))
      PROVE  Val(FillPrice(f), D) * f.qty = f.notional * D
  <2>1. Serves(D, h) /\ Val(h, D) = Val(FillPrice(f), D)
    <3> HIDE DEF h
    <3> QED BY <1>1, <1>2, ServesSame
  <2>2. IsVal(h, D, Val(h, D))
    BY <2>1, ServedVal
  <2> QED BY <2>1, <2>2 DEF IsVal
<1> QED BY <1>1, <1>2

(* An averaged basis is worth the old cost and the new one together. *)
LEMMA AveragedVal ==
    ASSUME NEW basis \in Fractions, NEW qty \in Nat, NEW f,
           f.qty \in Quantity, f.notional \in Nat, NEW D \in Denominators
    PROVE  /\ AveragedBasis(basis, qty, f) \in Fractions
           /\ Serves(D, basis) /\ Serves(D, AveragedBasis(basis, qty, f)) =>
                 Val(AveragedBasis(basis, qty, f), D) * (qty + f.qty)
                    = Val(basis, D) * qty + f.notional * D
<1> DEFINE n == basis[1] * qty + f.notional * basis[2]
           d == basis[2] * (qty + f.qty)
           g == AveragedBasis(basis, qty, f)
<1>1. /\ basis[1] \in Int /\ basis[2] \in Nat \ {0} /\ f.qty \in Nat \ {0}
      /\ f.notional \in Int /\ D \in Int
  BY DEF Fractions, Quantity, Denominators
<1>2. n \in Int /\ d \in Nat \ {0}
  <2>1. qty + f.qty > 0 /\ qty + f.qty \in Int
    BY <1>1
  <2>2. d \in Int /\ d > 0
    BY <1>1, <2>1
  <2> QED BY <1>1, <2>2
<1>3. g = Frac(n, d)
  BY DEF AveragedBasis
<1> HIDE DEF n, d, g
<1>4. g \in Fractions /\ Same(g, <<n, d>>)
  BY <1>2, <1>3, FracVal
<1>5. ASSUME Serves(D, basis), Serves(D, g)
      PROVE  Val(g, D) * (qty + f.qty) = Val(basis, D) * qty + f.notional * D
  <2> DEFINE b == Val(basis, D)
             v == Val(g, D)
             q == qty + f.qty
             z == basis[2]
  <2>1. b \in Int /\ basis[1] * D = b * z
    BY <1>5, ServedVal DEF IsVal
  <2>2. Serves(D, <<n, d>>) /\ Val(<<n, d>>, D) = v /\ <<n, d>> \in Fractions
    BY <1>2, <1>4, <1>5, ServesSame DEF Fractions
  <2>3. v \in Int /\ n * D = v * d
    BY <2>2, ServedVal DEF IsVal
  <2>4. q \in Int /\ z \in Int /\ z # 0
    BY <1>1
  <2>5. n = basis[1] * qty + f.notional * z /\ d = z * q
    BY DEF n, d
  <2> HIDE DEF b, v, q, z
  <2>6. (v * q) * z = (b * qty + f.notional * D) * z
    <3>1. n * D = (basis[1] * D) * qty + (f.notional * D) * z
      BY <1>1, <2>4, <2>5
    <3>2. (b * z) * qty + (f.notional * D) * z = (b * qty + f.notional * D) * z
      BY <1>1, <2>1, <2>4
    <3>3. v * (z * q) = (v * q) * z
      BY <2>3, <2>4
    <3> QED BY <2>1, <2>3, <2>5, <3>1, <3>2, <3>3
  <2>7. v * q \in Int /\ b * qty + f.notional * D \in Int
    BY <1>1, <2>1, <2>3, <2>4
  <2>8. v * q = b * qty + f.notional * D
    BY <2>4, <2>6, <2>7, Cancel
  <2> QED BY <2>8 DEF b, v, q
<1> QED BY <1>4, <1>5 DEF g

(* What is paid for a fill, in 1/10000; a sale is paid for by others. *)
Spent(f) ==
    CASE f.side = "Buy"  -> f.notional * MoneyScale
      [] f.side = "Sell" -> -(f.notional * MoneyScale)
      [] OTHER           -> 0

(* report_fill, field by field, and its type. *)
LEMMA ReportIs ==
    ASSUME NEW acct \in Accounts, NEW f \in Fill
    PROVE  LET i == f.instrument
               b == ReportFill(acct, i, f.side, f)
           IN  /\ b \in Accounts
               /\ b.cash = acct.cash - f.fee - Spent(f)
               /\ b.qty = [acct.qty EXCEPT ![i] = @ + Traded(f.side, f.qty)]
               /\ b.basis = [acct.basis EXCEPT ![i] = BasisAfter(acct, f)]
               /\ b.mark = [acct.mark EXCEPT ![i] = FillPrice(f)]
<1> DEFINE i == f.instrument
           b == ReportFill(acct, i, f.side, f)
<1>1. /\ i \in Instruments /\ f.qty \in Quantity /\ f.qty \in Int /\ f.notional \in Nat
      /\ f.fee \in Int /\ f.side \in Sides
      /\ MoneyScale \in Int /\ f.notional * MoneyScale \in Int
  BY DEF Fill, Quantity, MoneyScale
<1>2. acct.cash \in Int /\ acct.qty[i] \in Int /\ acct.basis[i] \in Fractions
  BY <1>1 DEF Accounts
<1>3. FillPrice(f) \in Fractions /\ Zero \in Fractions
  <2>1. 1 \in Denominators
    BY DEF Denominators
  <2> QED BY <1>1, <2>1, FillPriceVal DEF Zero, Fractions
<1>4. BuyBasis(acct, i, f) \in Fractions
  <2>1. acct.qty[i] > 0 => AveragedBasis(acct.basis[i], acct.qty[i], f) \in Fractions
    <3>1. 1 \in Denominators
      BY DEF Denominators
    <3> QED BY <1>1, <1>2, <3>1, AveragedVal
  <2>2. acct.qty[i] + f.qty = 0 \/ (acct.qty[i] + f.qty # 0 /\ acct.qty[i] <= 0) \/ acct.qty[i] > 0
    BY <1>1, <1>2
  <2> QED BY <1>1, <1>2, <1>3, <2>1, <2>2 DEF BuyBasis
<1>5. SellBasis(acct, i, f) \in Fractions
  BY <1>1, <1>2, <1>3 DEF SellBasis
<1>6. BasisAfter(acct, f) \in Fractions
  BY <1>2, <1>4, <1>5 DEF BasisAfter
<1>7. Traded(f.side, f.qty) \in Int
  BY <1>1 DEF Traded
<1> DEFINE money == f.notional * MoneyScale
           spent == Spent(f)
           qty == [acct.qty EXCEPT ![i] = @ + Traded(f.side, f.qty)]
           basis == [acct.basis EXCEPT ![i] = BasisAfter(acct, f)]
           mark == [acct.mark EXCEPT ![i] = FillPrice(f)]
           Moved == /\ b \in Accounts /\ b.cash = acct.cash - f.fee - spent
                    /\ b.qty = qty /\ b.basis = basis /\ b.mark = mark
<1>8. ASSUME f.side = "Buy"
      PROVE  Moved
  <2> DEFINE c == acct.cash - (money + f.fee)
             q == acct.qty[i] + f.qty
             bb == BuyBasis(acct, i, f)
             m == FillPrice(f)
  <2>1. spent = money /\ Traded(f.side, f.qty) = f.qty
        /\ BasisAfter(acct, f) = bb
    BY <1>8 DEF Traded, BasisAfter, Spent
  <2>2. b = [[acct EXCEPT !.cash = c, !.qty[i] = q, !.basis[i] = bb] EXCEPT !.mark[i] = m]
    BY <1>8 DEF ReportFill
  <2>3. c = acct.cash - f.fee - spent /\ q = acct.qty[i] + Traded(f.side, f.qty)
        /\ c \in Int /\ q \in Int
    <3> HIDE DEF i, spent, bb
    <3> QED BY <1>1, <1>2, <2>1 DEF money
  <2>4. bb \in Fractions /\ m \in Fractions
    BY <1>3, <1>4
  <2> HIDE DEF money, i, spent, b, c, q, bb, m
  <2>5. /\ b \in Accounts /\ b.cash = c
        /\ b.qty = [acct.qty EXCEPT ![i] = q]
        /\ b.basis = [acct.basis EXCEPT ![i] = bb]
        /\ b.mark = [acct.mark EXCEPT ![i] = m]
    BY <1>1, <2>2, <2>3, <2>4 DEF Accounts, Optional
  <2>6. b.mark = mark
    BY <2>5 DEF m
  <2> QED BY <2>1, <2>3, <2>5, <2>6
<1>9. ASSUME f.side = "Sell"
      PROVE  Moved
  <2> DEFINE c == acct.cash + (money - f.fee)
             q == acct.qty[i] - f.qty
             bb == SellBasis(acct, i, f)
             m == FillPrice(f)
  <2>1. spent = -money /\ Traded(f.side, f.qty) = -f.qty
        /\ BasisAfter(acct, f) = bb
    BY <1>9 DEF Traded, BasisAfter, Spent
  <2>2. b = [[acct EXCEPT !.cash = c, !.qty[i] = q, !.basis[i] = bb] EXCEPT !.mark[i] = m]
    BY <1>9 DEF ReportFill
  <2>3. c = acct.cash - f.fee - spent /\ q = acct.qty[i] + Traded(f.side, f.qty)
        /\ c \in Int /\ q \in Int
    <3> HIDE DEF i, spent, bb
    <3> QED BY <1>1, <1>2, <2>1 DEF money
  <2>4. bb \in Fractions /\ m \in Fractions
    BY <1>3, <1>5
  <2> HIDE DEF money, i, spent, b, c, q, bb, m
  <2>5. /\ b \in Accounts /\ b.cash = c
        /\ b.qty = [acct.qty EXCEPT ![i] = q]
        /\ b.basis = [acct.basis EXCEPT ![i] = bb]
        /\ b.mark = [acct.mark EXCEPT ![i] = m]
    BY <1>1, <2>2, <2>3, <2>4 DEF Accounts, Optional
  <2>6. b.mark = mark
    BY <2>5 DEF m
  <2> QED BY <2>1, <2>3, <2>5, <2>6
<1>10. ASSUME f.side = "Unknown"
       PROVE  Moved
  <2>1. spent = 0 /\ Traded(f.side, f.qty) = 0 /\ BasisAfter(acct, f) = acct.basis[i]
    BY <1>10 DEF Traded, BasisAfter, Spent
  <2>2. b = [[acct EXCEPT !.cash = @ - f.fee] EXCEPT !.mark[i] = FillPrice(f)]
    BY <1>10 DEF ReportFill
  <2>3. qty = acct.qty /\ basis = acct.basis
    BY <1>2, <2>1 DEF Accounts
  <2> HIDE DEF money, i, spent, b, qty, basis
  <2>4. acct.cash - f.fee = acct.cash - f.fee - spent /\ acct.cash - f.fee \in Int
    BY <1>1, <1>2, <2>1
  <2>5. b \in Accounts /\ b.cash = acct.cash - f.fee /\ b.qty = acct.qty
        /\ b.basis = acct.basis /\ b.mark = mark
    BY <1>1, <1>3, <2>2, <2>4 DEF Accounts, Optional
  <2> QED BY <2>3, <2>4, <2>5
<1> QED BY <1>1, <1>8, <1>9, <1>10 DEF Sides

(* update_mark_price, field by field. *)
LEMMA MarkIs ==
    ASSUME NEW acct \in Accounts, NEW i \in Instruments, NEW price \in Price
    PROVE  LET b == UpdateMark(acct, i, price)
           IN  /\ b \in Accounts
               /\ b.cash = acct.cash /\ b.qty = acct.qty /\ b.basis = acct.basis
               /\ b.mark = [acct.mark EXCEPT ![i] = WholePrice(price)]
<1>1. WholePrice(price) \in Fractions
  BY DEF WholePrice, Fractions, Price
<1> QED BY <1>1 DEF UpdateMark, Accounts, Optional

(* force_close, field by field. *)
LEMMA CloseIs ==
    ASSUME NEW acct \in Accounts, NEW i \in Instruments, NEW price \in Price
    PROVE  LET b == ForceClose(acct, i, price)
           IN  /\ b \in Accounts
               /\ b.cash = acct.cash + price * acct.qty[i] * MoneyScale
               /\ b.qty = [acct.qty EXCEPT ![i] = 0]
               /\ b.basis = acct.basis /\ b.mark = acct.mark
<1> DEFINE c == acct.cash + price * acct.qty[i] * MoneyScale
<1>1. c \in Int
  <2>1. acct.cash \in Int /\ price \in Int /\ acct.qty[i] \in Int /\ MoneyScale \in Int
    BY DEF Accounts, Price, MoneyScale
  <2> QED BY <2>1
<1> DEFINE b == ForceClose(acct, i, price)
<1>2. b = [acct EXCEPT !.cash = c, !.qty[i] = 0]
  BY DEF ForceClose
<1> HIDE DEF c, b
<1>3. /\ b.cash = c /\ b.qty = [acct.qty EXCEPT ![i] = 0]
      /\ b.basis = acct.basis /\ b.mark = acct.mark
  BY <1>2 DEF Accounts
<1>4. b \in Accounts
  <2> DEFINE q == [acct.qty EXCEPT ![i] = 0]
  <2>1. q \in [Instruments -> Int]
    BY DEF Accounts
  <2>2. b = [acct EXCEPT !.cash = c, !.qty = q]
    BY <1>2
  <2> HIDE DEF q
  <2> QED BY <1>1, <2>1, <2>2 DEF Accounts
<1> QED BY <1>3, <1>4 DEF c, b

-----------------------------------------------------------------------------
(* The state *)

(* A refused order moves nothing, an accepted one something. *)
Outcome(t) == IF t.rejected THEN t.qty = 0 /\ t.notional = 0 /\ t.fee = 0 ELSE t.qty > 0

TypeOK ==
    /\ account \in Accounts
    /\ records \in Seq(TradeRecord)
    /\ \A k \in DOMAIN records : Outcome(records[k])
    /\ calls \in Nat
    /\ realized \in Fractions
    /\ proceeds \in Int
    /\ resized \in BOOLEAN
    /\ oneSided \subseteq Instruments

(* The profit on what a trade closes is a fraction. *)
LEMMA ProfitType ==
    ASSUME account \in Accounts, NEW i \in Instruments, NEW closed \in Int,
           NEW price \in Fractions
    PROVE  Profit(i, closed, price) \in Fractions
<1>1. account.basis[i] \in Fractions
  BY DEF Accounts
<1>2. -1 \in Int /\ closed * MoneyScale \in Int
  BY DEF MoneyScale
<1>3. Plus(price, Times(account.basis[i], -1)) \in Fractions
  BY <1>1, <1>2, PlusType, TimesType
<1> QED BY <1>2, <1>3, TimesType DEF Profit

(* What is closed is the smaller of what is held and what is traded. *)
LEMMA ClosedIs ==
    ASSUME account \in Accounts, NEW i \in Instruments, NEW qty \in Quantity, NEW side \in Sides
    PROVE  LET q == account.qty[i]
               closed == ClosedQty(i, side, qty)
           IN  /\ closed \in Int
               /\ side = "Sell" => closed = IF q <= 0 THEN 0 ELSE IF q <= qty THEN q ELSE qty
               /\ side = "Buy"  => closed = IF q >= 0 THEN 0 ELSE IF -q <= qty THEN q ELSE -qty
               /\ side = "Unknown" => closed = 0
<1> DEFINE q == account.qty[i]
<1>1. q \in Int /\ qty \in Int /\ qty > 0 /\ -qty \in Int
  BY DEF Accounts, Quantity
<1> HIDE DEF q
<1>2. CASE side = "Sell"
  <2> DEFINE m == Min({q, qty})
             x == Max({0, m})
  <2>1. ClosedQty(i, side, qty) = x
    BY <1>2 DEF ClosedQty, q
  <2>2. m \in {q, qty} /\ m <= q /\ m <= qty
    BY <1>1, PairExtrema
  <2> HIDE DEF m
  <2>3. m \in Int
    BY <1>1, <2>2
  <2>4. x \in {0, m} /\ 0 <= x /\ m <= x
    BY <2>3, PairExtrema
  <2> HIDE DEF x
  <2>5. x \in Int /\ x = IF q <= 0 THEN 0 ELSE IF q <= qty THEN q ELSE qty
    BY <1>1, <2>2, <2>4
  <2> QED BY <1>2, <2>1, <2>5 DEF q
<1>3. CASE side = "Buy"
  <2> DEFINE m == Max({q, -qty})
             x == Min({0, m})
  <2>1. ClosedQty(i, side, qty) = x
    BY <1>3 DEF ClosedQty, q
  <2>2. m \in {q, -qty} /\ q <= m /\ -qty <= m
    BY <1>1, PairExtrema
  <2> HIDE DEF m
  <2>3. m \in Int
    BY <1>1, <2>2
  <2>4. x \in {0, m} /\ x <= 0 /\ x <= m
    BY <2>3, PairExtrema
  <2> HIDE DEF x
  <2>5. x \in Int /\ x = IF q >= 0 THEN 0 ELSE IF -q <= qty THEN q ELSE -qty
    BY <1>1, <2>2, <2>4
  <2> QED BY <1>3, <2>1, <2>5 DEF q
<1>4. CASE side = "Unknown"
  BY <1>4 DEF ClosedQty
<1> QED BY <1>2, <1>3, <1>4 DEF Sides

(* What a report of a fill does. *)
LEMMA ReportTypes ==
    ASSUME AccountAssumption, TypeOK, NEW f \in FillReports, Report(f)
    PROVE  /\ f \in Fill /\ f.instrument \in Instruments /\ f.side \in Sides
           /\ f.qty \in Quantity /\ f.notional \in Nat /\ f.fee \in Nat
           /\ account' \in Accounts /\ realized' \in Fractions /\ proceeds' \in Int
           /\ resized' \in BOOLEAN /\ oneSided' \subseteq Instruments
           /\ records' = Append(records, RecordOf(f, FALSE))
           /\ RecordOf(f, FALSE) \in TradeRecord /\ Outcome(RecordOf(f, FALSE))
           /\ FillPrice(f) \in Fractions
<1>1. /\ f \in Fill /\ f.instrument \in Instruments /\ f.side \in Sides
      /\ f.qty \in Quantity /\ f.notional \in Nat /\ f.fee \in Nat
  BY DEF AccountAssumption, Fill
<1>2. account' \in Accounts
  BY <1>1, ReportIs DEF Report, TypeOK
<1>3. FillPrice(f) \in Fractions
  <2>1. 1 \in Denominators
    BY DEF Denominators
  <2> QED BY <1>1, <2>1, FillPriceVal
<1>4. realized' \in Fractions
  <2>1. ClosedQty(f.instrument, f.side, f.qty) \in Int
    BY <1>1, ClosedIs DEF TypeOK
  <2>2. Profit(f.instrument, ClosedQty(f.instrument, f.side, f.qty), FillPrice(f)) \in Fractions
    BY <1>1, <1>3, <2>1, ProfitType DEF TypeOK
  <2> QED BY <2>2, PlusType DEF Report, TypeOK
<1>5. RecordOf(f, FALSE) \in TradeRecord /\ Outcome(RecordOf(f, FALSE))
  BY <1>1 DEF RecordOf, TradeRecord, Outcome, Quantity
<1>6. resized' \in BOOLEAN
  BY DEF Report, ResizesShort, TypeOK
<1>7. oneSided' \subseteq Instruments /\ proceeds' \in Int
  BY DEF Report, TypeOK
<1> QED BY <1>1, <1>2, <1>3, <1>4, <1>5, <1>6, <1>7 DEF Report

(* A record more. *)
LEMMA Recorded ==
    ASSUME TypeOK, NEW t \in TradeRecord, Outcome(t), records' = Append(records, t)
    PROVE  /\ records' \in Seq(TradeRecord)
           /\ \A k \in DOMAIN records' : Outcome(records'[k])
<1> DEFINE n == Len(records) + 1
<1>1. /\ records' \in Seq(TradeRecord) /\ DOMAIN records' = 1..n
      /\ records'[n] = t /\ \A k \in 1..Len(records) : records'[k] = records[k]
  BY DEF TypeOK
<1>2. \A k \in 1..Len(records) : Outcome(records[k])
  BY DEF TypeOK
<1>3. \A k \in 1..n : k = n \/ k \in 1..Len(records)
  BY DEF TypeOK
<1> QED BY <1>1, <1>2, <1>3

(* The state is well-typed at the start, *)
LEMMA TypeInit ==
    ASSUME AccountAssumption, Init
    PROVE  TypeOK
<1>1. Zero \in Fractions
  BY DEF Zero, Fractions
<1>2. account \in Accounts
  <2>1. StartingBalance * MoneyScale \in Int
    BY DEF AccountAssumption, MoneyScale
  <2> QED BY <1>1, <2>1 DEF Init, NewAccount, Accounts, Optional
<1>3. records \in Seq(TradeRecord) /\ DOMAIN records = {}
  BY DEF Init
<1>4. calls \in Nat /\ proceeds \in Int
  BY DEF Init
<1>5. realized \in Fractions /\ resized \in BOOLEAN /\ oneSided \subseteq Instruments
  BY <1>1, Zenon DEF Init
<1> QED BY <1>2, <1>3, <1>4, <1>5 DEF TypeOK

(* and every call keeps it so. *)
LEMMA TypeStep ==
    ASSUME AccountAssumption, TypeOK, [Next]_vars
    PROVE  TypeOK'
<1>1. ASSUME calls' = calls + 1, NEW f \in FillReports, Report(f)
      PROVE  TypeOK'
  <2>1. calls' \in Nat
    BY <1>1 DEF TypeOK
  <2> QED BY <1>1, <2>1, ReportTypes, Recorded DEF TypeOK
<1>2. ASSUME calls' = calls + 1, NEW f \in FillReports, Refuse(f)
      PROVE  TypeOK'
  <2>1. RecordOf(f, TRUE) \in TradeRecord /\ Outcome(RecordOf(f, TRUE))
    BY DEF RecordOf, TradeRecord, Outcome, AccountAssumption, Fill
  <2>2. records' \in Seq(TradeRecord) /\ \A k \in DOMAIN records' : Outcome(records'[k])
    BY <1>2, <2>1, Recorded DEF Refuse
  <2>3. calls' \in Nat
    BY <1>2 DEF TypeOK
  <2> QED BY <1>2, <2>2, <2>3 DEF Refuse, TypeOK
<1>3. ASSUME calls' = calls + 1, NEW i \in Instruments, NEW price \in Marks, Mark(i, price)
      PROVE  TypeOK'
  <2>1. account' \in Accounts
    BY <1>3, MarkIs DEF Mark, TypeOK, AccountAssumption
  <2> QED BY <1>3, <2>1 DEF Mark, TypeOK
<1>4. ASSUME calls' = calls + 1, NEW i \in Instruments, NEW price \in Marks, Close(i, price)
      PROVE  TypeOK'
  <2>1. price \in Price /\ account.qty[i] \in Int
    BY DEF AccountAssumption, TypeOK, Accounts
  <2>2. account' \in Accounts
    BY <1>4, <2>1, CloseIs DEF Close, TypeOK
  <2>3. realized' \in Fractions
    <3>1. WholePrice(price) \in Fractions
      BY <2>1 DEF WholePrice, Fractions, Price
    <3>2. Profit(i, account.qty[i], WholePrice(price)) \in Fractions
      BY <2>1, <3>1, ProfitType DEF TypeOK
    <3> QED BY <1>4, <3>2, PlusType DEF Close, TypeOK
  <2>4. proceeds' \in Int
    BY <1>4, <2>1 DEF Close, TypeOK, Price, MoneyScale
  <2> QED BY <1>4, <2>2, <2>3, <2>4 DEF Close, TypeOK
<1>5. CASE UNCHANGED vars
  BY <1>5 DEF vars, TypeOK
<1> QED BY <1>1, <1>2, <1>3, <1>4, <1>5 DEF Next

-----------------------------------------------------------------------------
(* The summary's sums *)

(* What a record is about are numbers. *)
LEMMA RecordTypes ==
    ASSUME NEW t \in TradeRecord
    PROVE  t.fee \in Int /\ t.notional \in Int
BY DEF TradeRecord

(* A record that is appended leaves the places of the others alone. *)
LEMMA AppendedTrade ==
    ASSUME NEW s \in Seq(TradeRecord), NEW t \in TradeRecord
    PROVE  /\ Append(s, t) \in Seq(TradeRecord)
           /\ Len(s) + 1 \notin DOMAIN s /\ IsFiniteSet(DOMAIN s)
           /\ Len(Append(s, t)) = Len(s) + 1
           /\ DOMAIN Append(s, t) = DOMAIN s \union {Len(s) + 1}
           /\ Append(s, t)[Len(s) + 1] = t
           /\ \A k \in DOMAIN s : Append(s, t)[k] = s[k] /\ s[k] \in TradeRecord
<1> DEFINE n == Len(s)
<1>1. n \in Nat /\ DOMAIN s = 1..n
  OBVIOUS
<1>2. IsFiniteSet(1..n)
  BY <1>1, FS_Interval
<1>3. DOMAIN Append(s, t) = 1..(n + 1) /\ Len(Append(s, t)) = n + 1
  OBVIOUS
<1>4. 1..(n + 1) = 1..n \union {n + 1} /\ n + 1 \notin 1..n
  BY <1>1
<1> QED BY <1>1, <1>2, <1>3, <1>4

(* The sums of the summary are integers. *)
LEMMA SumsAreIntegers ==
    ASSUME NEW s \in Seq(TradeRecord)
    PROVE  TotalFees(s) \in Int /\ TotalPnl(s) \in Int
<1>1. IsFiniteSet(DOMAIN s) /\ \A k \in DOMAIN s : s[k] \in TradeRecord
  <2>1. Len(s) \in Nat /\ DOMAIN s = 1..Len(s)
    OBVIOUS
  <2> QED BY <2>1, FS_Interval
<1>2. \A k \in DOMAIN s : Fees(s)[k] \in Int /\ Notionals(s)[k] \in Int
  BY <1>1 DEF Fees, Notionals, TradeRecord
<1>3. TotalFees(s) \in Int
  BY <1>1, <1>2, SumType DEF TotalFees
<1>4. \A side : NotionalOf(s, side) \in Int
  <2> TAKE side
  <2> DEFINE S == Accepted(s) \intersect OfSide(s, side)
  <2>1. S \subseteq DOMAIN s /\ IsFiniteSet(S)
    BY <1>1, FS_Subset DEF Accepted
  <2> HIDE DEF S
  <2>2. SumFunctionOnSet(Notionals(s), S) \in Int
    BY <1>2, <2>1, SumType
  <2> QED BY <2>2 DEF NotionalOf, S
<1>5. NotionalOf(s, "Sell") \in Int /\ NotionalOf(s, "Buy") \in Int /\ MoneyScale \in Int
  BY <1>4 DEF MoneyScale
<1> QED BY <1>3, <1>5 DEF TotalPnl

(* What a record adds to the fees, *)
LEMMA FeesGrow ==
    ASSUME NEW s \in Seq(TradeRecord), NEW t \in TradeRecord
    PROVE  TotalFees(s) \in Int /\ TotalFees(Append(s, t)) = TotalFees(s) + t.fee
<1> DEFINE S == DOMAIN s
           n == Len(s) + 1
           f == Fees(s)
           g == Fees(Append(s, t))
<1>1. /\ DOMAIN Append(s, t) = S \union {n} /\ IsFiniteSet(S) /\ n \notin S
      /\ Append(s, t)[n] = t /\ \A k \in S : Append(s, t)[k] = s[k] /\ s[k] \in TradeRecord
  BY AppendedTrade
<1>2. \A x \in S : f[x] \in Int /\ g[x] = f[x]
  <2> TAKE x \in S
  <2>1. f[x] = s[x].fee /\ g[x] = Append(s, t)[x].fee
    BY <1>1 DEF Fees
  <2> QED BY <1>1, <2>1, RecordTypes
<1>3. g[n] = t.fee /\ g[n] \in Int
  <2>1. g[n] = Append(s, t)[n].fee
    BY <1>1 DEF Fees
  <2> QED BY <1>1, <2>1, RecordTypes
<1>4. TotalFees(s) = SumFunctionOnSet(f, S) /\ TotalFees(Append(s, t)) = SumFunctionOnSet(g, S \union {n})
  BY <1>1 DEF TotalFees
<1> HIDE DEF S, n, f, g
<1>5. SumFunctionOnSet(f, S) \in Int /\ SumFunctionOnSet(f, S) = SumFunctionOnSet(g, S)
  BY <1>1, <1>2, SumType, SumEqual
<1>6. \A x \in S \union {n} : g[x] \in Int
  BY <1>2, <1>3
<1>7. SumFunctionOnSet(g, S \union {n}) = SumFunctionOnSet(g, S) + g[n]
  BY <1>1, <1>6, SumAdd
<1> QED BY <1>3, <1>4, <1>5, <1>7

(* and to the notional of its side. *)
LEMMA NotionalGrows ==
    ASSUME NEW s \in Seq(TradeRecord), NEW t \in TradeRecord, NEW side
    PROVE  /\ NotionalOf(s, side) \in Int
           /\ NotionalOf(Append(s, t), side) =
                 NotionalOf(s, side) + (IF ~t.rejected /\ t.side = side THEN t.notional ELSE 0)
<1> DEFINE S == Accepted(s) \intersect OfSide(s, side)
           R == Accepted(Append(s, t)) \intersect OfSide(Append(s, t), side)
           n == Len(s) + 1
           f == Notionals(s)
           g == Notionals(Append(s, t))
<1>1. /\ DOMAIN Append(s, t) = DOMAIN s \union {n} /\ IsFiniteSet(DOMAIN s) /\ n \notin DOMAIN s
      /\ Append(s, t)[n] = t
      /\ \A k \in DOMAIN s : Append(s, t)[k] = s[k] /\ s[k] \in TradeRecord
  BY AppendedTrade
<1>2. S \subseteq DOMAIN s /\ IsFiniteSet(S) /\ n \notin S
  BY <1>1, FS_Subset DEF Accepted
<1>3. \A x \in S : f[x] \in Int /\ g[x] = f[x]
  <2> TAKE x \in S
  <2>1. x \in DOMAIN s
    BY <1>2
  <2>2. f[x] = s[x].notional /\ g[x] = Append(s, t)[x].notional
    BY <1>1, <2>1 DEF Notionals
  <2> QED BY <1>1, <2>1, <2>2, RecordTypes
<1>4. g[n] = t.notional /\ g[n] \in Int
  <2>1. g[n] = Append(s, t)[n].notional
    BY <1>1 DEF Notionals
  <2> QED BY <1>1, <2>1, RecordTypes
<1>5. R = IF ~t.rejected /\ t.side = side THEN S \union {n} ELSE S
  BY <1>1 DEF Accepted, OfSide
<1>6. NotionalOf(s, side) = SumFunctionOnSet(f, S)
      /\ NotionalOf(Append(s, t), side) = SumFunctionOnSet(g, R)
  BY DEF NotionalOf
<1> HIDE DEF S, R, n, f, g
<1>7. /\ SumFunctionOnSet(f, S) \in Int
      /\ SumFunctionOnSet(g, S) = SumFunctionOnSet(f, S)
      /\ SumFunctionOnSet(g, S \union {n}) = SumFunctionOnSet(f, S) + g[n]
  <2>1. SumFunctionOnSet(f, S) \in Int /\ SumFunctionOnSet(f, S) = SumFunctionOnSet(g, S)
    BY <1>2, <1>3, SumType, SumEqual
  <2>2. \A x \in S \union {n} : g[x] \in Int
    BY <1>3, <1>4
  <2>3. SumFunctionOnSet(g, S \union {n}) = SumFunctionOnSet(g, S) + g[n]
    BY <1>2, <2>2, SumAdd
  <2> QED BY <2>1, <2>3
<1>8. SumFunctionOnSet(f, S) + 0 = SumFunctionOnSet(f, S)
  BY <1>7
<1> QED BY <1>4, <1>5, <1>6, <1>7, <1>8

(* What a record adds to the profit that the summary reports. *)
LEMMA PnlGrows ==
    ASSUME NEW s \in Seq(TradeRecord), NEW t \in TradeRecord
    PROVE  /\ TotalPnl(s) \in Int
           /\ TotalPnl(Append(s, t)) = TotalPnl(s) - t.fee +
                 (CASE t.rejected -> 0
                    [] ~t.rejected /\ t.side = "Sell" -> t.notional * MoneyScale
                    [] ~t.rejected /\ t.side = "Buy"  -> -(t.notional * MoneyScale)
                    [] OTHER -> 0)
<1> DEFINE a == NotionalOf(s, "Sell")
           b == NotionalOf(s, "Buy")
           a2 == NotionalOf(Append(s, t), "Sell")
           b2 == NotionalOf(Append(s, t), "Buy")
           x == TotalFees(s)
           y == TotalFees(Append(s, t))
           M == MoneyScale
           da == IF ~t.rejected /\ t.side = "Sell" THEN t.notional ELSE 0
           db == IF ~t.rejected /\ t.side = "Buy" THEN t.notional ELSE 0
           delta == CASE t.rejected -> 0
                      [] ~t.rejected /\ t.side = "Sell" -> t.notional * MoneyScale
                      [] ~t.rejected /\ t.side = "Buy"  -> -(t.notional * MoneyScale)
                      [] OTHER -> 0
<1>1. a \in Int /\ a2 = a + da
  BY NotionalGrows
<1>2. b \in Int /\ b2 = b + db
  BY NotionalGrows
<1>3. x \in Int /\ y = x + t.fee
  BY FeesGrow
<1>4. t.notional \in Int /\ t.fee \in Int /\ t.rejected \in BOOLEAN /\ M \in Int
  BY DEF TradeRecord, MoneyScale
<1>5. TotalPnl(s) = (a - b) * M - x /\ TotalPnl(Append(s, t)) = (a2 - b2) * M - y
  BY DEF TotalPnl
<1>6. da \in Int /\ db \in Int /\ delta \in Int /\ delta = da * M - db * M
  <2>1. "Buy" # "Sell" /\ 0 * M = 0 /\ t.notional * M \in Int
    BY <1>4
  <2>2. CASE t.rejected
    BY <1>4, <2>1, <2>2
  <2>3. CASE ~t.rejected /\ t.side = "Sell"
    BY <1>4, <2>1, <2>3
  <2>4. CASE ~t.rejected /\ t.side = "Buy"
    BY <1>4, <2>1, <2>4
  <2>5. CASE ~t.rejected /\ t.side # "Buy" /\ t.side # "Sell"
    BY <1>4, <2>1, <2>5
  <2> QED BY <1>4, <2>2, <2>3, <2>4, <2>5
<1> HIDE DEF a, b, a2, b2, x, y, M, da, db, delta
<1>7. (a2 - b2) * M - y = (a - b) * M - x - t.fee + delta
  BY <1>1, <1>2, <1>3, <1>4, <1>6
<1>8. (a - b) * M - x \in Int
  BY <1>1, <1>2, <1>3, <1>4
<1>9. TotalPnl(s) \in Int /\ TotalPnl(Append(s, t)) = TotalPnl(s) - t.fee + delta
  BY <1>5, <1>7, <1>8
<1> QED BY <1>9 DEF delta

(* Where nothing was completed there is no profit and there are no fees. *)
LEMMA NothingCompleted ==
    ASSUME TypeOK, Completed(records) = {}
    PROVE  TotalPnl(records) = 0 /\ TotalFees(records) = 0
<1>1. \A k \in DOMAIN records : records[k] \in TradeRecord /\ records[k].rejected
  BY DEF TypeOK, Completed, Accepted, Outcome
<1>2. IsFiniteSet(DOMAIN records)
  <2>1. Len(records) \in Nat /\ DOMAIN records = 1..Len(records)
    BY DEF TypeOK
  <2> QED BY <2>1, FS_Interval
<1>3. \A k \in DOMAIN records : Fees(records)[k] = 0 /\ Notionals(records)[k] = 0
  BY <1>1 DEF TypeOK, Outcome, Fees, Notionals
<1>4. TotalFees(records) = 0
  BY <1>2, <1>3, SumOfZeros DEF TotalFees
<1>5. \A side : NotionalOf(records, side) = 0
  <2> TAKE side
  <2> DEFINE S == Accepted(records) \intersect OfSide(records, side)
  <2>1. S \subseteq DOMAIN records /\ IsFiniteSet(S)
    BY <1>2, FS_Subset DEF Accepted
  <2> HIDE DEF S
  <2>2. SumFunctionOnSet(Notionals(records), S) = 0
    BY <1>3, <2>1, SumOfZeros
  <2> QED BY <2>2 DEF NotionalOf, S
<1>6. (0 - 0) * MoneyScale - 0 = 0
  BY DEF MoneyScale
<1> QED BY <1>4, <1>5, <1>6 DEF TotalPnl

-----------------------------------------------------------------------------
(* The cash account *)

(* Cash is the starting balance, the records' cash flow and the proceeds. *)
CashInv == account.cash = StartingBalance * MoneyScale + TotalPnl(records) + proceeds

(* A run starts with its starting balance and no flow, *)
LEMMA CashInit ==
    ASSUME AccountAssumption, Init
    PROVE  CashInv
<1>1. TypeOK
  BY TypeInit
<1>2. Completed(records) = {}
  BY DEF Init, Completed, Accepted
<1>3. TotalPnl(records) = 0
  BY <1>1, <1>2, NothingCompleted
<1>4. account.cash = StartingBalance * MoneyScale /\ proceeds = 0
  BY DEF Init, NewAccount
<1>5. StartingBalance * MoneyScale \in Int
  BY DEF AccountAssumption, MoneyScale
<1>6. StartingBalance * MoneyScale + 0 + 0 = StartingBalance * MoneyScale
  BY <1>5
<1> QED BY <1>3, <1>4, <1>6 DEF CashInv

(* and every call moves cash and flow alike. *)
LEMMA CashStep ==
    ASSUME AccountAssumption, TypeOK, CashInv, [Next]_vars
    PROVE  CashInv'
<1> DEFINE base == StartingBalance * MoneyScale
           pnl == TotalPnl(records)
           c == account.cash
<1>1. base \in Int /\ proceeds \in Int /\ c \in Int
  BY DEF AccountAssumption, MoneyScale, TypeOK, Accounts
<1>2. c = base + pnl + proceeds
  BY DEF CashInv
<1>3. pnl \in Int
  BY SumsAreIntegers DEF TypeOK
<1>4. ASSUME NEW f \in FillReports, Report(f)
      PROVE  CashInv'
  <2> DEFINE spent == Spent(f)
             c2 == account.cash'
             pnl2 == TotalPnl(records')
             t == RecordOf(f, FALSE)
  <2>1. /\ f \in Fill /\ f.side \in Sides /\ f.notional \in Nat /\ f.fee \in Nat
        /\ t \in TradeRecord /\ records' = Append(records, t)
    BY <1>4, ReportTypes
  <2>2. c2 = c - f.fee - spent /\ proceeds' = proceeds
    BY <1>4, <2>1, ReportIs DEF Report, TypeOK
  <2>3. t.fee = f.fee /\ ~t.rejected /\ t.side = f.side /\ t.notional = f.notional
    BY DEF RecordOf
  <2>4. spent \in Int
    BY <2>1 DEF Spent, MoneyScale
  <2>5. pnl2 = pnl - f.fee - spent
    <3> DEFINE flow == CASE t.rejected -> 0
                         [] ~t.rejected /\ t.side = "Sell" -> t.notional * MoneyScale
                         [] ~t.rejected /\ t.side = "Buy"  -> -(t.notional * MoneyScale)
                         [] OTHER -> 0
    <3>1. pnl2 = pnl - t.fee + flow
      BY <2>1, PnlGrows DEF TypeOK
    <3>2. flow = 0 - spent
      <4> DEFINE money == f.notional * MoneyScale
      <4>1. money \in Int /\ "Buy" # "Sell"
        BY <2>1 DEF MoneyScale
      <4>2. CASE f.side = "Buy"
        <5>1. flow = -money /\ spent = money
          BY <2>3, <4>1, <4>2 DEF Spent
        <5> HIDE DEF flow, spent, money
        <5> QED BY <4>1, <5>1
      <4>3. CASE f.side = "Sell"
        <5>1. flow = money /\ spent = -money
          BY <2>3, <4>1, <4>3 DEF Spent
        <5> HIDE DEF flow, spent, money
        <5> QED BY <4>1, <5>1
      <4>4. CASE f.side = "Unknown"
        <5>1. flow = 0 /\ spent = 0
          BY <2>3, <4>4 DEF Spent
        <5> HIDE DEF flow, spent, money
        <5> QED BY <5>1
      <4> QED BY <2>1, <4>2, <4>3, <4>4 DEF Sides
    <3> HIDE DEF flow, spent, pnl, pnl2, t
    <3> QED BY <1>3, <2>1, <2>3, <2>4, <3>1, <3>2
  <2> DEFINE fee == f.fee
  <2>6. fee \in Int
    BY <2>1
  <2> HIDE DEF c, c2, pnl, pnl2, base, spent
  <2>7. c2 = base + pnl2 + proceeds'
    <3>1. c2 = c - fee - spent /\ pnl2 = pnl - fee - spent /\ proceeds' = proceeds
      BY <2>2, <2>5
    <3> HIDE DEF fee
    <3> QED BY <1>1, <1>2, <1>3, <2>4, <2>6, <3>1
  <2> QED BY <2>7 DEF CashInv, c2, pnl2, base
<1>5. ASSUME NEW f \in FillReports, Refuse(f)
      PROVE  CashInv'
  <2> DEFINE t == RecordOf(f, TRUE)
             pnl2 == TotalPnl(Append(records, t))
  <2>1. t \in TradeRecord /\ t.rejected /\ t.fee = 0
    BY DEF RecordOf, TradeRecord, AccountAssumption, Fill
  <2>2. pnl2 = pnl - 0 + 0
    BY <2>1, PnlGrows DEF TypeOK
  <2> HIDE DEF pnl, pnl2
  <2>3. pnl2 = pnl
    BY <1>3, <2>2
  <2>4. records' = Append(records, t) /\ account' = account /\ proceeds' = proceeds
    BY <1>5 DEF Refuse
  <2> QED BY <1>2, <2>3, <2>4 DEF CashInv, pnl, pnl2
<1>6. ASSUME NEW i \in Instruments, NEW price \in Marks, Mark(i, price)
      PROVE  CashInv'
  <2>1. price \in Price
    BY DEF AccountAssumption
  <2>2. account'.cash = account.cash
    BY <1>6, <2>1, MarkIs DEF Mark, TypeOK
  <2> QED BY <1>6, <2>2 DEF Mark, CashInv
<1>7. ASSUME NEW i \in Instruments, NEW price \in Marks, Close(i, price)
      PROVE  CashInv'
  <2> DEFINE money == price * account.qty[i] * MoneyScale
  <2>1. price \in Price /\ account.qty[i] \in Int
    BY DEF AccountAssumption, TypeOK, Accounts
  <2>2. account'.cash = c + money /\ proceeds' = proceeds + money /\ records' = records
    <3>1. account' = ForceClose(account, i, price) /\ proceeds' = proceeds + money /\ records' = records
      BY <1>7 DEF Close
    <3>2. account \in Accounts
      BY DEF TypeOK
    <3>3. ForceClose(account, i, price).cash = c + money
      BY <2>1, <3>2, CloseIs
    <3> QED BY <3>1, <3>3
  <2>3. money \in Int
    BY <2>1 DEF Price, MoneyScale
  <2> HIDE DEF money, c, pnl, base
  <2>4. account'.cash = base + pnl + proceeds'
    BY <1>1, <1>2, <1>3, <2>2, <2>3
  <2> QED BY <2>2, <2>4 DEF CashInv, pnl, base
<1>8. CASE UNCHANGED vars
  BY <1>8 DEF vars, CashInv
<1> QED BY <1>4, <1>5, <1>6, <1>7, <1>8 DEF Next

-----------------------------------------------------------------------------
(* What an account is worth *)

(* What each position is worth over the denominator D. *)
Worth(acct, D) ==
    [i \in Instruments |-> Val(ValuationPrice(acct, i), D) * (acct.qty[i] * MoneyScale)]

(* A position is valued at a fraction. *)
LEMMA ValuationType ==
    ASSUME NEW acct \in Accounts, NEW i \in Instruments
    PROVE  ValuationPrice(acct, i) \in Fractions
BY DEF ValuationPrice, Accounts, Optional

(***************************************************************************)
(* Over a denominator that serves every valuation, equity is the cash and  *)
(* the worth of every position.                                            *)
(***************************************************************************)
LEMMA EquityVal ==
    ASSUME AccountAssumption, NEW acct \in Accounts, NEW D \in Denominators,
           \A i \in Instruments : Serves(D, ValuationPrice(acct, i))
    PROVE  /\ Equity(acct) \in Fractions
           /\ Serves(D, Equity(acct))
           /\ Val(Equity(acct), D) = acct.cash * D + SumFunctionOnSet(Worth(acct, D), Instruments)
           /\ \A i \in Instruments : Worth(acct, D)[i] \in Int
<1> DEFINE S == Positions(acct)
           v == Values(acct)
           w == Worth(acct, D)
<1>1. /\ acct.cash \in Int /\ MoneyScale \in Int /\ D \in Int
      /\ \A i \in Instruments : acct.qty[i] \in Int /\ acct.qty[i] * MoneyScale \in Int
  BY DEF Accounts, MoneyScale, Denominators
<1>2. ASSUME NEW i \in Instruments
      PROVE  /\ v[i] \in Fractions /\ Serves(D, v[i])
             /\ Val(v[i], D) = w[i] /\ w[i] \in Int
  <2> DEFINE p == ValuationPrice(acct, i)
             k == acct.qty[i] * MoneyScale
  <2>1. p \in Fractions /\ Serves(D, p) /\ k \in Int
    BY <1>1, ValuationType
  <2>2. v[i] = Times(p, k) /\ w[i] = Val(p, D) * k
    BY DEF Values, Worth
  <2>3. Val(p, D) \in Int
    BY <2>1, ServedVal
  <2> HIDE DEF p, k, v, w
  <2> QED BY <2>1, <2>2, <2>3, TimesVal
<1>3. IsFiniteSet(Instruments) /\ S \in SUBSET Instruments /\ IsFiniteSet(S)
  BY FS_Subset DEF AccountAssumption, Positions
<1>4. \A i \in Instruments \ S : w[i] = 0
  <2> TAKE i \in Instruments \ S
  <2>1. acct.qty[i] = 0 /\ i \in Instruments
    BY DEF Positions
  <2>2. ValuationPrice(acct, i) \in Fractions /\ Val(ValuationPrice(acct, i), D) \in Int
    BY <2>1, ServedVal, ValuationType
  <2>3. Val(ValuationPrice(acct, i), D) * (0 * MoneyScale) = 0
    BY <1>1, <2>2
  <2> QED BY <2>1, <2>3 DEF Worth
<1>5. /\ SumOver(v, S) \in Fractions /\ Serves(D, SumOver(v, S))
      /\ Val(SumOver(v, S), D) = SumFunctionOnSet(Vals(v, D, S), S)
  <2> HIDE DEF v, w, S
  <2> QED BY <1>2, <1>3, SumOverVal
<1> HIDE DEF v, w, S
<1>6. SumFunctionOnSet(Vals(v, D, S), S) = SumFunctionOnSet(w, Instruments)
  <2>1. \A i \in S : Vals(v, D, S)[i] \in Int /\ Vals(v, D, S)[i] = w[i]
    BY <1>2, <1>3 DEF Vals
  <2>2. SumFunctionOnSet(Vals(v, D, S), S) = SumFunctionOnSet(w, S)
    BY <1>3, <2>1, SumEqual
  <2>3. SumFunctionOnSet(w, S) = SumFunctionOnSet(w, Instruments)
    BY <1>2, <1>3, <1>4, SumRelevant
  <2> QED BY <2>2, <2>3
<1>7. /\ <<acct.cash, 1>> \in Fractions /\ Serves(D, <<acct.cash, 1>>)
      /\ Val(<<acct.cash, 1>>, D) = acct.cash * D
  BY <1>1, WholeVal
<1>8. /\ Plus(<<acct.cash, 1>>, SumOver(v, S)) \in Fractions
      /\ Serves(D, Plus(<<acct.cash, 1>>, SumOver(v, S)))
      /\ Val(Plus(<<acct.cash, 1>>, SumOver(v, S)), D)
           = Val(<<acct.cash, 1>>, D) + Val(SumOver(v, S), D)
  BY <1>5, <1>7, PlusVal
<1>9. Equity(acct) = Plus(<<acct.cash, 1>>, SumOver(v, S))
  BY DEF Equity, v, S
<1> QED BY <1>2, <1>5, <1>6, <1>7, <1>8, <1>9 DEF w

(* The account with one mark moved. *)
LEMMA RevaluedIs ==
    ASSUME AccountAssumption, NEW acct \in Accounts, NEW i \in Instruments, NEW p \in Fractions
    PROVE  LET b == [acct EXCEPT !.mark[i] = p]
           IN  /\ b \in Accounts /\ b.cash = acct.cash /\ b.qty = acct.qty
               /\ b.mark = [acct.mark EXCEPT ![i] = p] /\ b.basis = acct.basis
               /\ ValuationPrice(b, i) = p
               /\ \A j \in Instruments \ {i} : ValuationPrice(b, j) = ValuationPrice(acct, j)
<1> DEFINE b == [acct EXCEPT !.mark[i] = p]
<1>1. p # None
  BY DEF Fractions, AccountAssumption
<1>2. b \in Accounts
  BY DEF Accounts, Optional
<1>3. b.cash = acct.cash /\ b.qty = acct.qty /\ b.basis = acct.basis
      /\ b.mark = [acct.mark EXCEPT ![i] = p]
  BY DEF Accounts
<1> HIDE DEF b
<1>4. b.mark[i] = p /\ \A j \in Instruments \ {i} : b.mark[j] = acct.mark[j]
  BY <1>3 DEF Accounts
<1> QED BY <1>1, <1>2, <1>3, <1>4 DEF ValuationPrice, b

(* A fill is paid for at its price. *)
LEMMA SpentVal ==
    ASSUME NEW f \in Fill, NEW D \in Denominators, Serves(D, FillPrice(f))
    PROVE  Val(FillPrice(f), D) * (Traded(f.side, f.qty) * MoneyScale) = Spent(f) * D
<1> DEFINE P == Val(FillPrice(f), D)
           M == MoneyScale
           delta == Traded(f.side, f.qty)
           n == f.notional
           k == f.qty
           spent == Spent(f)
<1>1. /\ k \in Quantity /\ k \in Int /\ n \in Nat /\ n \in Int /\ f.side \in Sides
      /\ M \in Int /\ D \in Int /\ FillPrice(f) \in Fractions
  <2>1. f.qty \in Quantity /\ f.notional \in Nat /\ f.side \in Sides
    BY DEF Fill
  <2> QED BY <2>1, FillPriceVal DEF Quantity, MoneyScale, Denominators
<1>2. P \in Int
  BY <1>1, ServedVal
<1>3. (P * k) * M = (n * D) * M
  BY <1>1, FillPriceVal
<1>4. ASSUME f.side = "Buy"
      PROVE  P * (delta * M) = spent * D
  <2>1. delta = k /\ spent = n * M
    BY <1>4 DEF Traded, Spent
  <2> HIDE DEF n, k, P, M, spent, delta
  <2> QED BY <1>1, <1>2, <1>3, <2>1
<1>5. ASSUME f.side = "Sell"
      PROVE  P * (delta * M) = spent * D
  <2>1. delta = -k /\ spent = -(n * M)
    BY <1>5 DEF Traded, Spent
  <2> HIDE DEF n, k, P, M, spent, delta
  <2> QED BY <1>1, <1>2, <1>3, <2>1
<1>6. ASSUME f.side = "Unknown"
      PROVE  P * (delta * M) = spent * D
  <2>1. delta = 0 /\ spent = 0
    BY <1>6 DEF Traded, Spent
  <2> HIDE DEF P, M, spent, delta
  <2> QED BY <1>1, <1>2, <2>1
<1> QED BY <1>1, <1>4, <1>5, <1>6 DEF Sides

(* A fill costs what it is worth at its price, and the fee. *)
LEMMA ReportIsFair ==
    ASSUME AccountAssumption, NEW acct \in Accounts, NEW f \in Fill
    PROVE  Same(Plus(Equity(ReportFill(acct, f.instrument, f.side, f)), <<f.fee, 1>>),
                ValuedAt(acct, f.instrument, FillPrice(f)))
<1> DEFINE i == f.instrument
           p == FillPrice(f)
           a == [acct EXCEPT !.mark[i] = p]
           b == ReportFill(acct, i, f.side, f)
           delta == Traded(f.side, f.qty)
           prices == [j \in Instruments |-> ValuationPrice(a, j)]
<1>1. /\ i \in Instruments /\ f.qty \in Quantity /\ f.qty \in Int /\ f.notional \in Nat
      /\ f.fee \in Int /\ f.side \in Sides /\ MoneyScale \in Int
  BY DEF Fill, Quantity, MoneyScale
<1>2. p \in Fractions
  <2>1. 1 \in Denominators
    BY DEF Denominators
  <2> QED BY <1>1, <2>1, FillPriceVal
<1>3. /\ a \in Accounts /\ a.cash = acct.cash /\ a.qty = acct.qty /\ a.basis = acct.basis
      /\ a.mark = [acct.mark EXCEPT ![i] = p] /\ ValuationPrice(a, i) = p
  BY <1>1, <1>2, RevaluedIs
<1>4. /\ b \in Accounts /\ b.cash = acct.cash - f.fee - Spent(f)
      /\ b.qty = [acct.qty EXCEPT ![i] = @ + delta]
      /\ b.basis = [acct.basis EXCEPT ![i] = BasisAfter(acct, f)]
      /\ b.mark = [acct.mark EXCEPT ![i] = p]
  BY ReportIs
<1> HIDE DEF a, b, p, delta
<1>5. \A j \in Instruments : ValuationPrice(b, j) = ValuationPrice(a, j)
  <2>1. p # None
    BY <1>2 DEF Fractions, AccountAssumption
  <2>2. acct.basis \in [Instruments -> Fractions] /\ acct.mark \in [Instruments -> Optional(Fractions)]
    BY DEF Accounts
  <2> HIDE DEF i
  <2> TAKE j \in Instruments
  <2>3. CASE j = i
    <3>1. b.mark[i] = p /\ a.mark[i] = p
      BY <1>1, <1>3, <1>4, <2>2
    <3> QED BY <2>1, <2>3, <3>1 DEF ValuationPrice
  <2>4. CASE j # i
    <3>1. b.mark[j] = a.mark[j] /\ b.basis[j] = a.basis[j]
      BY <1>1, <1>3, <1>4, <2>2, <2>4
    <3> QED BY <3>1 DEF ValuationPrice
  <2> QED BY <2>3, <2>4
<1>6. IsFiniteSet(Instruments) /\ \A j \in Instruments : prices[j] \in Fractions
  BY <1>3, ValuationType DEF AccountAssumption
<1>7. PICK D \in Denominators : \A j \in Instruments : Serves(D, prices[j])
  <2> HIDE DEF prices
  <2> QED BY <1>6, CommonDenominator
<1>8. \A j \in Instruments : Serves(D, ValuationPrice(a, j)) /\ Serves(D, ValuationPrice(b, j))
  BY <1>5, <1>7
<1> HIDE DEF prices
<1> DEFINE x == Worth(a, D)
           y == Worth(b, D)
           P == Val(p, D)
           M == MoneyScale
           q == acct.qty[i]
           A == SumFunctionOnSet(x, Instruments)
           B == SumFunctionOnSet(y, Instruments)
<1>9. /\ Equity(a) \in Fractions /\ Serves(D, Equity(a)) /\ Val(Equity(a), D) = a.cash * D + A
      /\ \A j \in Instruments : x[j] \in Int
  BY <1>3, <1>8, EquityVal
<1>10. /\ Equity(b) \in Fractions /\ Serves(D, Equity(b)) /\ Val(Equity(b), D) = b.cash * D + B
       /\ \A j \in Instruments : y[j] \in Int
  BY <1>4, <1>8, EquityVal
<1>11. /\ P \in Int /\ D \in Int /\ D > 0 /\ q \in Int /\ M \in Int /\ delta \in Int
       /\ acct.cash \in Int /\ Spent(f) \in Int
  <2>1. P \in Int
    BY <1>1, <1>3, <1>8, ServedVal
  <2>2. q \in Int /\ acct.cash \in Int
    BY <1>1 DEF Accounts
  <2>3. delta \in Int /\ Spent(f) \in Int
    BY <1>1 DEF delta, Traded, Spent
  <2> QED BY <1>1, <2>1, <2>2, <2>3 DEF Denominators
<1>12. B = A - x[i] + y[i] /\ A \in Int
  <2>1. \A j \in Instruments \ {i} : y[j] = x[j]
    <3> TAKE j \in Instruments \ {i}
    <3>1. b.qty[j] = a.qty[j]
      BY <1>1, <1>3, <1>4 DEF Accounts
    <3> QED BY <1>5, <3>1 DEF Worth
  <2> HIDE DEF x, y, i
  <2>2. A \in Int
    BY <1>6, <1>9, SumType
  <2>3. B = A - x[i] + y[i]
    BY <1>1, <1>6, <1>9, <1>10, <2>1, SumChange
  <2> QED BY <2>2, <2>3
<1>13. x[i] = P * (q * M) /\ y[i] = P * ((q + delta) * M)
  <2>1. a.qty[i] = q /\ b.qty[i] = q + delta
    BY <1>1, <1>3, <1>4 DEF Accounts
  <2> QED BY <1>1, <1>3, <1>5, <2>1 DEF Worth
<1>14. P * (delta * M) = Spent(f) * D
  BY <1>1, <1>3, <1>8, SpentVal DEF p, delta
<1>15. /\ <<f.fee, 1>> \in Fractions /\ Serves(D, <<f.fee, 1>>) /\ Val(<<f.fee, 1>>, D) = f.fee * D
  BY <1>1, WholeVal
<1> DEFINE e == Plus(Equity(b), <<f.fee, 1>>)
<1>16. e \in Fractions /\ Serves(D, e) /\ Val(e, D) = Val(Equity(b), D) + Val(<<f.fee, 1>>, D)
  BY <1>10, <1>15, PlusVal
<1>17. Val(e, D) = Val(Equity(a), D)
  <2> DEFINE s == Spent(f)
             c == acct.cash
             fee == f.fee
  <2>1. Val(Equity(a), D) = c * D + A
    BY <1>3, <1>9
  <2>2. Val(e, D) = (c - fee - s) * D + B + fee * D
    BY <1>4, <1>10, <1>15, <1>16
  <2>3. B = A - P * (q * M) + P * ((q + delta) * M)
    BY <1>12, <1>13
  <2>4. P * (delta * M) = s * D
    BY <1>14
  <2>5. c \in Int /\ fee \in Int /\ s \in Int
    BY <1>1, <1>11
  <2> HIDE DEF A, B, P, M, q, s, c, fee
  <2>6. P * ((q + delta) * M) = P * (q * M) + P * (delta * M)
    BY <1>11
  <2>7. P * (q * M) \in Int
    BY <1>11
  <2> DEFINE pq == P * (q * M)
             pd == P * (delta * M)
  <2>8. B = A - pq + (pq + s * D) /\ pq \in Int
    BY <2>3, <2>4, <2>6, <2>7
  <2> HIDE DEF pq, pd
  <2>9. (c - fee - s) * D + B + fee * D = c * D + A
    BY <1>11, <1>12, <2>5, <2>8 DEF A
  <2> QED BY <2>1, <2>2, <2>9
<1> HIDE DEF e
<1>18. Same(e, Equity(a))
  BY <1>9, <1>16, <1>17, SameIsEqualVal
<1> QED BY <1>18 DEF e, b, a, p, ValuedAt

(* A forced close brings in what the position is worth at its price. *)
LEMMA CloseIsFair ==
    ASSUME AccountAssumption, NEW acct \in Accounts, NEW i \in Instruments, NEW price \in Price
    PROVE  Same(Equity(ForceClose(acct, i, price)), ValuedAt(acct, i, WholePrice(price)))
<1> DEFINE p == WholePrice(price)
           a == [acct EXCEPT !.mark[i] = p]
           b == ForceClose(acct, i, price)
           ap == [j \in Instruments |-> ValuationPrice(a, j)]
           bp == [j \in Instruments |-> ValuationPrice(b, j)]
<1>1. price \in Int /\ p \in Fractions
  BY DEF Price, WholePrice, Fractions
<1>2. /\ a \in Accounts /\ a.cash = acct.cash /\ a.qty = acct.qty /\ ValuationPrice(a, i) = p
      /\ \A j \in Instruments \ {i} : ValuationPrice(a, j) = ValuationPrice(acct, j)
  BY <1>1, RevaluedIs
<1>3. /\ b \in Accounts /\ b.cash = acct.cash + price * acct.qty[i] * MoneyScale
      /\ b.qty = [acct.qty EXCEPT ![i] = 0] /\ b.basis = acct.basis /\ b.mark = acct.mark
  BY CloseIs
<1> HIDE DEF a, b, p
<1>4. IsFiniteSet(Instruments)
  BY DEF AccountAssumption
<1>5. PICK D \in Denominators :
         (\A j \in Instruments : Serves(D, ap[j])) /\ (\A j \in Instruments : Serves(D, bp[j]))
  <2>1. \A j \in Instruments : ap[j] \in Fractions
    BY <1>2, ValuationType
  <2>2. \A j \in Instruments : bp[j] \in Fractions
    BY <1>3, ValuationType
  <2> HIDE DEF ap, bp
  <2> QED BY <1>4, <2>1, <2>2, JointDenominator
<1>6. \A j \in Instruments : Serves(D, ValuationPrice(a, j)) /\ Serves(D, ValuationPrice(b, j))
  BY <1>5
<1> HIDE DEF ap, bp
<1> DEFINE x == Worth(a, D)
           y == Worth(b, D)
           M == MoneyScale
           q == acct.qty[i]
           c == acct.cash
           A == SumFunctionOnSet(x, Instruments)
           B == SumFunctionOnSet(y, Instruments)
<1>7. /\ Equity(a) \in Fractions /\ Serves(D, Equity(a)) /\ Val(Equity(a), D) = c * D + A
      /\ \A j \in Instruments : x[j] \in Int
  BY <1>2, <1>6, EquityVal
<1>8. /\ Equity(b) \in Fractions /\ Serves(D, Equity(b)) /\ Val(Equity(b), D) = b.cash * D + B
      /\ \A j \in Instruments : y[j] \in Int
  BY <1>3, <1>6, EquityVal
<1>9. D \in Int /\ q \in Int /\ M \in Int /\ c \in Int
  BY DEF Accounts, Denominators, MoneyScale
<1>10. B = A - x[i] + y[i] /\ A \in Int
  <2>1. \A j \in Instruments \ {i} : y[j] = x[j]
    <3> TAKE j \in Instruments \ {i}
    <3>1. b.qty[j] = a.qty[j]
      BY <1>2, <1>3 DEF Accounts
    <3>2. ValuationPrice(b, j) = ValuationPrice(a, j)
      BY <1>2, <1>3 DEF ValuationPrice
    <3> QED BY <3>1, <3>2 DEF Worth
  <2> HIDE DEF x, y
  <2>2. A \in Int
    BY <1>4, <1>7, SumType
  <2>3. B = A - x[i] + y[i]
    BY <1>4, <1>7, <1>8, <2>1, SumChange
  <2> QED BY <2>2, <2>3
<1>11. x[i] = (price * D) * (q * M)
  <2>1. Val(p, D) = price * D
    BY <1>1, WholeVal DEF p, WholePrice
  <2> QED BY <1>2, <2>1 DEF Worth
<1>12. y[i] = 0
  <2>1. b.qty[i] = 0
    BY <1>3 DEF Accounts
  <2>2. Val(ValuationPrice(b, i), D) \in Int
    BY <1>3, <1>6, ServedVal, ValuationType
  <2>3. Val(ValuationPrice(b, i), D) * (0 * M) = 0
    BY <1>9, <2>2
  <2> QED BY <2>1, <2>3 DEF Worth
<1>13. Val(Equity(b), D) = Val(Equity(a), D)
  <2>1. Val(Equity(b), D) = (c + price * q * M) * D + B
    BY <1>3, <1>8
  <2> HIDE DEF A, B, M, q, c, x, y
  <2>2. (price * D) * (q * M) = (price * q * M) * D /\ price * q * M \in Int
    BY <1>1, <1>9
  <2> DEFINE m == price * q * M
  <2>3. B = A - m * D + 0 /\ m \in Int
    BY <1>10, <1>11, <1>12, <2>2
  <2> HIDE DEF m
  <2>4. (c + m) * D + B = c * D + A
    BY <1>9, <1>10, <2>3
  <2> QED BY <1>7, <2>1, <2>4 DEF m
<1>14. Same(Equity(b), Equity(a))
  BY <1>7, <1>8, <1>13, SameIsEqualVal
<1> QED BY <1>14 DEF b, a, p, ValuedAt

(***************************************************************************)
(* No call makes or loses money but by fees: a fill or a forced close at   *)
(* some price leaves the account worth what it was worth when valued at    *)
(* that price, less the fee.  (report_fill, force_close and equity,        *)
(* runner/account.rs)                                                      *)
(***************************************************************************)
THEOREM CallsAreFair ==
    ASSUME AccountAssumption
    PROVE  Spec => TradesAreFair
<1> DEFINE Fair ==
      /\ \A f \in FillReports : Report(f) =>
            Same(Plus(Equity(account'), <<f.fee, 1>>),
                 ValuedAt(account, f.instrument, FillPrice(f)))
      /\ \A i \in Instruments, price \in Marks : Close(i, price) =>
            Same(Equity(account'), ValuedAt(account, i, WholePrice(price)))
<1>1. ASSUME TypeOK
      PROVE  Fair
  <2>1. ASSUME NEW f \in FillReports, Report(f)
        PROVE  Same(Plus(Equity(account'), <<f.fee, 1>>),
                    ValuedAt(account, f.instrument, FillPrice(f)))
    <3>1. f \in Fill /\ account' = ReportFill(account, f.instrument, f.side, f)
      BY <2>1 DEF Report, AccountAssumption
    <3>2. account \in Accounts
      BY <1>1 DEF TypeOK
    <3> QED BY <3>1, <3>2, ReportIsFair
  <2>2. ASSUME NEW i \in Instruments, NEW price \in Marks, Close(i, price)
        PROVE  Same(Equity(account'), ValuedAt(account, i, WholePrice(price)))
    <3>1. price \in Price /\ account' = ForceClose(account, i, price)
      BY <2>2 DEF Close, AccountAssumption
    <3>2. account \in Accounts
      BY <1>1 DEF TypeOK
    <3> QED BY <3>1, <3>2, CloseIsFair
  <2> QED BY <2>1, <2>2
<1>2. Init => TypeOK
  BY TypeInit
<1>3. TypeOK /\ [Next]_vars => TypeOK'
  BY TypeStep
<1>4. Spec => []TypeOK
  BY <1>2, <1>3, PTL DEF Spec
<1>5. TypeOK => [Fair]_vars
  BY <1>1
<1>6. Spec => [][Fair]_vars
  BY <1>4, <1>5, PTL
<1> QED BY <1>6 DEF TradesAreFair

-----------------------------------------------------------------------------
(* What an account has cost *)

Costs(acct) == [i \in Instruments |-> Times(acct.basis[i], acct.qty[i] * MoneyScale)]

(* Cash and what was paid for everything held. *)
AtCost(acct) == Plus(<<acct.cash, 1>>, SumOver(Costs(acct), Instruments))

(* What each position has cost over the denominator D. *)
CostsOver(acct, D) ==
    [i \in Instruments |-> Val(acct.basis[i], D) * (acct.qty[i] * MoneyScale)]

(* Over a denominator that serves every basis, cost is cash and costs. *)
LEMMA AtCostVal ==
    ASSUME AccountAssumption, NEW acct \in Accounts, NEW D \in Denominators,
           \A i \in Instruments : Serves(D, acct.basis[i])
    PROVE  /\ AtCost(acct) \in Fractions
           /\ Serves(D, AtCost(acct))
           /\ Val(AtCost(acct), D) = acct.cash * D + SumFunctionOnSet(CostsOver(acct, D), Instruments)
           /\ \A i \in Instruments : CostsOver(acct, D)[i] \in Int
<1> DEFINE S == Instruments
           v == Costs(acct)
           w == CostsOver(acct, D)
<1>1. /\ acct.cash \in Int /\ MoneyScale \in Int /\ D \in Int
      /\ \A i \in Instruments : acct.qty[i] \in Int /\ acct.qty[i] * MoneyScale \in Int
  BY DEF Accounts, MoneyScale, Denominators
<1>2. ASSUME NEW i \in Instruments
      PROVE  /\ v[i] \in Fractions /\ Serves(D, v[i])
             /\ Val(v[i], D) = w[i] /\ w[i] \in Int
  <2> DEFINE p == acct.basis[i]
             k == acct.qty[i] * MoneyScale
  <2>1. p \in Fractions /\ Serves(D, p) /\ k \in Int
    BY <1>1 DEF Accounts
  <2>2. v[i] = Times(p, k) /\ w[i] = Val(p, D) * k
    BY DEF Costs, CostsOver
  <2>3. Val(p, D) \in Int
    BY <2>1, ServedVal
  <2> HIDE DEF p, k, v, w
  <2> QED BY <2>1, <2>2, <2>3, TimesVal
<1>3. IsFiniteSet(S)
  BY DEF AccountAssumption
<1>4. /\ SumOver(v, S) \in Fractions /\ Serves(D, SumOver(v, S))
      /\ Val(SumOver(v, S), D) = SumFunctionOnSet(Vals(v, D, S), S)
  <2>1. \A i \in S : v[i] \in Fractions /\ Serves(D, v[i])
    BY <1>2
  <2> HIDE DEF v, w, S
  <2> QED BY <1>3, <2>1, SumOverVal
<1>5. \A i \in S : Vals(v, D, S)[i] \in Int /\ Vals(v, D, S)[i] = w[i]
  BY <1>2 DEF Vals
<1> HIDE DEF v, w, S
<1>6. SumFunctionOnSet(Vals(v, D, S), S) = SumFunctionOnSet(w, S)
  BY <1>3, <1>5, SumEqual
<1>7. /\ <<acct.cash, 1>> \in Fractions /\ Serves(D, <<acct.cash, 1>>)
      /\ Val(<<acct.cash, 1>>, D) = acct.cash * D
  BY <1>1, WholeVal
<1>8. /\ Plus(<<acct.cash, 1>>, SumOver(v, S)) \in Fractions
      /\ Serves(D, Plus(<<acct.cash, 1>>, SumOver(v, S)))
      /\ Val(Plus(<<acct.cash, 1>>, SumOver(v, S)), D)
           = Val(<<acct.cash, 1>>, D) + Val(SumOver(v, S), D)
  BY <1>4, <1>7, PlusVal
<1>9. AtCost(acct) = Plus(<<acct.cash, 1>>, SumOver(v, S))
  BY DEF AtCost, v, S
<1> QED BY <1>2, <1>4, <1>6, <1>7, <1>8, <1>9 DEF w, S

(* The starting balance less fees, and what was realized. *)
Earned(base, fees, gain) == Plus(<<base - fees, 1>>, gain)

(* Its value. *)
LEMMA EarnedVal ==
    ASSUME NEW base \in Int, NEW fees \in Int, NEW gain \in Fractions,
           NEW D \in Denominators, Serves(D, gain)
    PROVE  /\ Earned(base, fees, gain) \in Fractions
           /\ Serves(D, Earned(base, fees, gain))
           /\ Val(Earned(base, fees, gain), D) = (base - fees) * D + Val(gain, D)
<1> DEFINE n == base - fees
<1>1. n \in Int
  OBVIOUS
<1> HIDE DEF n
<1>2. <<n, 1>> \in Fractions /\ Serves(D, <<n, 1>>) /\ Val(<<n, 1>>, D) = n * D
  BY <1>1, WholeVal
<1>3. /\ Plus(<<n, 1>>, gain) \in Fractions /\ Serves(D, Plus(<<n, 1>>, gain))
      /\ Val(Plus(<<n, 1>>, gain), D) = Val(<<n, 1>>, D) + Val(gain, D)
  BY <1>2, PlusVal
<1> QED BY <1>2, <1>3 DEF Earned, n

(* The value of a profit. *)
LEMMA ProfitVal ==
    ASSUME account \in Accounts, NEW i \in Instruments, NEW closed \in Int,
           NEW price \in Fractions, NEW D \in Denominators,
           Serves(D, price), Serves(D, account.basis[i])
    PROVE  /\ Profit(i, closed, price) \in Fractions
           /\ Serves(D, Profit(i, closed, price))
           /\ Val(Profit(i, closed, price), D)
                 = (Val(price, D) - Val(account.basis[i], D)) * (closed * MoneyScale)
<1> DEFINE f == account.basis[i]
           g == Times(f, -1)
           h == Plus(price, g)
           k == closed * MoneyScale
<1>1. f \in Fractions /\ -1 \in Int /\ k \in Int
  BY DEF Accounts, MoneyScale
<1>2. Val(f, D) \in Int /\ Val(price, D) \in Int
  BY ServedVal
<1>3. Profit(i, closed, price) = Times(h, k)
  BY DEF Profit
<1> HIDE DEF f, k
<1>4. g \in Fractions /\ Serves(D, g) /\ Val(g, D) = Val(f, D) * (-1)
  BY <1>1, TimesVal DEF f
<1> HIDE DEF g
<1>5. h \in Fractions /\ Serves(D, h) /\ Val(h, D) = Val(price, D) + Val(g, D)
  BY <1>4, PlusVal
<1> HIDE DEF h
<1>6. Times(h, k) \in Fractions /\ Serves(D, Times(h, k)) /\ Val(Times(h, k), D) = Val(h, D) * k
  BY <1>1, <1>5, TimesVal
<1>7. Val(h, D) = Val(price, D) - Val(f, D)
  BY <1>2, <1>4, <1>5 DEF f
<1> QED BY <1>3, <1>6, <1>7 DEF f, k

(***************************************************************************)
(* What a fill leaves held has cost what was held before, less the cost of *)
(* what it closed, and the fill price for the rest of it; except that the  *)
(* basis of a short position that is extended or cut is overwritten.       *)
(***************************************************************************)
LEMMA CostOfTheFill ==
    ASSUME account \in Accounts, NEW f \in Fill, NEW D \in Denominators,
           Serves(D, account.basis[f.instrument]), Serves(D, BasisAfter(account, f)),
           Serves(D, FillPrice(f)), ~ResizesShort(f.instrument, f.side, f.qty)
    PROVE  LET q == account.qty[f.instrument]
               closed == ClosedQty(f.instrument, f.side, f.qty)
               delta == Traded(f.side, f.qty)
               basis == Val(account.basis[f.instrument], D)
           IN  Val(BasisAfter(account, f), D) * (q + delta)
                  = basis * q - basis * closed + Val(FillPrice(f), D) * (delta + closed)
<1> DEFINE i == f.instrument
           q == account.qty[i]
           k == f.qty
           closed == ClosedQty(i, f.side, k)
           delta == Traded(f.side, k)
           b == Val(account.basis[i], D)
           b2 == Val(BasisAfter(account, f), D)
           P == Val(FillPrice(f), D)
           Goal == b2 * (q + delta) = b * q - b * closed + P * (delta + closed)
<1>1. /\ i \in Instruments /\ k \in Quantity /\ k \in Int /\ k > 0 /\ f.notional \in Nat
      /\ f.side \in Sides /\ q \in Int /\ account.basis[i] \in Fractions
  BY DEF Fill, Quantity, Accounts
<1>2. b \in Int /\ b2 \in Int /\ P \in Int
  BY ServedVal
<1>3. /\ closed \in Int
      /\ f.side = "Sell" => closed = IF q <= 0 THEN 0 ELSE IF q <= k THEN q ELSE k
      /\ f.side = "Buy"  => closed = IF q >= 0 THEN 0 ELSE IF -q <= k THEN q ELSE -k
      /\ f.side = "Unknown" => closed = 0
  BY <1>1, ClosedIs
<1>4. Val(Zero, D) = 0
  <2>1. D \in Int /\ 0 * D = 0
    BY DEF Denominators
  <2> QED BY <2>1, WholeVal DEF Zero
<1>5. ASSUME f.side = "Buy"
      PROVE  Goal
  <2>1. delta = k /\ BasisAfter(account, f) = BuyBasis(account, i, f)
    BY <1>5 DEF Traded, BasisAfter
  <2>2. ASSUME q > 0
        PROVE  Goal
    <3>1. closed = 0
      BY <1>1, <1>3, <1>5, <2>2
    <3>2. BasisAfter(account, f) = AveragedBasis(account.basis[i], q, f)
      BY <1>1, <2>1, <2>2 DEF BuyBasis
    <3>3. b2 * (q + k) = b * q + f.notional * D
      <4>1. q \in Nat
        BY <1>1, <2>2
      <4> QED BY <1>1, <3>2, <4>1, AveragedVal
    <3>4. P * k = f.notional * D
      BY <1>1, FillPriceVal
    <3> HIDE DEF b, b2, P, q, k, closed, delta
    <3>5. b2 * (q + k) = b * q + P * k
      BY <3>3, <3>4
    <3> QED BY <1>1, <1>2, <2>1, <3>1, <3>5
  <2>3. ASSUME q = 0
        PROVE  Goal
    <3>1. closed = 0
      BY <1>1, <1>3, <1>5, <2>3
    <3>2. BasisAfter(account, f) = FillPrice(f)
      BY <1>1, <2>1, <2>3 DEF BuyBasis
    <3>3. b2 = P
      BY <3>2
    <3> HIDE DEF b, b2, P, q, k, closed, delta
    <3> QED BY <1>1, <1>2, <2>1, <2>3, <3>1, <3>3
  <2>4. ASSUME q < 0
        PROVE  Goal
    <3>1. -q <= k
      BY <1>1, <1>5, <2>4 DEF ResizesShort
    <3>2. closed = q
      BY <1>1, <1>3, <1>5, <2>4, <3>1
    <3>3. q + k = 0 => BasisAfter(account, f) = Zero
      BY <1>1, <2>1, <2>4 DEF BuyBasis
    <3>4. q + k # 0 => BasisAfter(account, f) = FillPrice(f)
      BY <1>1, <2>1, <2>4 DEF BuyBasis
    <3>5. (q + k = 0 => b2 = 0) /\ (q + k # 0 => b2 = P)
      BY <1>4, <3>3, <3>4
    <3> HIDE DEF b, b2, P, q, k, closed, delta
    <3> QED BY <1>1, <1>2, <2>1, <3>2, <3>5
  <2> QED BY <1>1, <2>2, <2>3, <2>4
<1>6. ASSUME f.side = "Sell"
      PROVE  Goal
  <2>1. delta = -k /\ BasisAfter(account, f) = SellBasis(account, i, f)
    BY <1>6 DEF Traded, BasisAfter
  <2>2. q >= 0
    BY <1>1, <1>6 DEF ResizesShort
  <2>3. ASSUME k < q
        PROVE  Goal
    <3>1. closed = k
      BY <1>1, <1>3, <1>6, <2>3
    <3>2. BasisAfter(account, f) = account.basis[i]
      BY <1>1, <2>1, <2>3 DEF SellBasis
    <3>3. b2 = b
      BY <3>2
    <3> HIDE DEF b, b2, P, q, k, closed, delta
    <3> QED BY <1>1, <1>2, <2>1, <3>1, <3>3
  <2>4. ASSUME k = q
        PROVE  Goal
    <3>1. closed = q
      BY <1>1, <1>3, <1>6, <2>4
    <3>2. BasisAfter(account, f) = Zero
      BY <1>1, <2>1, <2>4 DEF SellBasis
    <3>3. b2 = 0
      BY <1>4, <3>2
    <3> HIDE DEF b, b2, P, q, k, closed, delta
    <3> QED BY <1>1, <1>2, <2>1, <2>4, <3>1, <3>3
  <2>5. ASSUME k > q
        PROVE  Goal
    <3>1. closed = q
      BY <1>1, <1>3, <1>6, <2>2, <2>5
    <3>2. BasisAfter(account, f) = FillPrice(f)
      BY <1>1, <2>1, <2>5 DEF SellBasis
    <3>3. b2 = P
      BY <3>2
    <3> HIDE DEF b, b2, P, q, k, closed, delta
    <3> QED BY <1>1, <1>2, <2>1, <3>1, <3>3
  <2> QED BY <1>1, <2>3, <2>4, <2>5
<1>7. ASSUME f.side = "Unknown"
      PROVE  Goal
  <2>1. delta = 0 /\ BasisAfter(account, f) = account.basis[i] /\ closed = 0
    BY <1>3, <1>7 DEF Traded, BasisAfter
  <2>2. b2 = b
    BY <2>1
  <2> HIDE DEF b, b2, P, q, k, closed, delta
  <2> QED BY <1>1, <1>2, <2>1, <2>2
<1> QED BY <1>1, <1>5, <1>6, <1>7 DEF Sides

(***************************************************************************)
(* Until a short position is resized, cash and what was paid for           *)
(* everything held are the starting balance, less fees, plus the profit    *)
(* realized.                                                               *)
(***************************************************************************)
CostInv ==
    ~resized =>
        Same(AtCost(account), Earned(StartingBalance * MoneyScale, TotalFees(records), realized))

(* An account at the start has cost its starting balance. *)
LEMMA CostInit ==
    ASSUME AccountAssumption, Init
    PROVE  CostInv
<1> DEFINE base == StartingBalance * MoneyScale
           w == CostsOver(account, 1)
<1>1. 1 \in Denominators /\ base \in Int
  BY DEF Denominators, AccountAssumption, MoneyScale
<1>2. account \in Accounts /\ IsFiniteSet(Instruments)
  BY TypeInit DEF TypeOK, AccountAssumption
<1>3. Zero \in Fractions /\ Serves(1, Zero) /\ Val(Zero, 1) = 0
  <2>1. <<0, 1>> \in Fractions /\ Serves(1, <<0, 1>>) /\ Val(<<0, 1>>, 1) = 0 * 1
    BY <1>1, WholeVal
  <2> QED BY <2>1 DEF Zero
<1>4. \A i \in Instruments : account.basis[i] = Zero /\ account.qty[i] = 0
  BY DEF Init, NewAccount
<1>5. account.cash = base /\ realized = Zero
  BY DEF Init, NewAccount
<1>6. TotalFees(records) = 0
  <2>1. Completed(records) = {}
    BY DEF Init, Completed, Accepted
  <2> QED BY <2>1, NothingCompleted, TypeInit
<1> HIDE DEF base
<1>7. /\ AtCost(account) \in Fractions /\ Serves(1, AtCost(account))
      /\ Val(AtCost(account), 1) = base * 1 + SumFunctionOnSet(w, Instruments)
  <2>1. \A i \in Instruments : Serves(1, account.basis[i])
    BY <1>3, <1>4
  <2> QED BY <1>1, <1>2, <1>5, <2>1, AtCostVal
<1>8. \A i \in Instruments : w[i] = 0
  <2>1. 0 * (0 * MoneyScale) = 0
    BY DEF MoneyScale
  <2> QED BY <1>3, <1>4, <2>1 DEF CostsOver
<1> HIDE DEF w
<1>9. SumFunctionOnSet(w, Instruments) = 0
  BY <1>2, <1>8, SumOfZeros
<1> DEFINE e == Earned(base, 0, Zero)
<1>10. e \in Fractions /\ Serves(1, e) /\ Val(e, 1) = (base - 0) * 1 + 0
  BY <1>1, <1>3, EarnedVal
<1> HIDE DEF e
<1>11. Val(e, 1) = Val(AtCost(account), 1)
  BY <1>1, <1>7, <1>9, <1>10
<1>12. Same(AtCost(account), e)
  BY <1>1, <1>7, <1>10, <1>11, SameIsEqualVal
<1> QED BY <1>5, <1>6, <1>12 DEF CostInv, e, base

(* A fill keeps cost and earnings in step. *)
LEMMA CostAfterReport ==
    ASSUME AccountAssumption, TypeOK, CostInv, NEW f \in FillReports, Report(f)
    PROVE  CostInv'
<1> SUFFICES ASSUME ~resized'
             PROVE  Same(AtCost(account'), Earned(StartingBalance * MoneyScale,
                                                  TotalFees(records'), realized'))
  BY DEF CostInv
<1> DEFINE i == f.instrument
           p == FillPrice(f)
           k == f.qty
           a == account
           b == account'
           closed == ClosedQty(i, f.side, k)
           delta == Traded(f.side, k)
           base == StartingBalance * MoneyScale
           fees == TotalFees(records)
           profit == Profit(i, closed, p)
           M == MoneyScale
<1>1. /\ f \in Fill /\ i \in Instruments /\ f.side \in Sides /\ k \in Quantity
      /\ f.notional \in Nat /\ f.fee \in Int /\ p \in Fractions /\ k \in Int
      /\ records' = Append(records, RecordOf(f, FALSE)) /\ RecordOf(f, FALSE) \in TradeRecord
      /\ a \in Accounts /\ b \in Accounts
  <2>1. /\ f \in Fill /\ f.instrument \in Instruments /\ f.side \in Sides /\ f.qty \in Quantity
        /\ f.notional \in Nat /\ f.fee \in Nat /\ FillPrice(f) \in Fractions
        /\ records' = Append(records, RecordOf(f, FALSE)) /\ RecordOf(f, FALSE) \in TradeRecord
        /\ account' \in Accounts
    BY ReportTypes
  <2>2. account \in Accounts
    BY DEF TypeOK
  <2>3. k \in Int /\ f.fee \in Int
    BY <2>1 DEF Quantity
  <2> QED BY <2>1, <2>2, <2>3
<1>2. ~resized /\ ~ResizesShort(i, f.side, k)
  BY DEF Report
<1>3. realized' = Plus(realized, profit) /\ realized \in Fractions
  BY DEF Report, TypeOK
<1>4. base \in Int /\ fees \in Int /\ TotalFees(records') = fees + f.fee
  <2>1. RecordOf(f, FALSE).fee = f.fee
    BY DEF RecordOf
  <2>2. TotalFees(records) \in Int /\ TotalFees(records') = TotalFees(records) + f.fee
    BY <1>1, <2>1, FeesGrow DEF TypeOK
  <2>3. base \in Int
    BY DEF AccountAssumption, MoneyScale
  <2> QED BY <2>2, <2>3
<1>5. /\ b.cash = a.cash - f.fee - Spent(f)
      /\ b.qty = [a.qty EXCEPT ![i] = @ + delta]
      /\ b.basis = [a.basis EXCEPT ![i] = BasisAfter(a, f)]
  BY <1>1, ReportIs DEF Report
<1>6. \A j \in Instruments : a.basis[j] \in Fractions /\ b.basis[j] \in Fractions
  BY <1>1 DEF Accounts
<1>7. b.basis[i] = BasisAfter(a, f) /\ BasisAfter(a, f) \in Fractions
  <2>1. i \in Instruments /\ DOMAIN a.basis = Instruments
    BY <1>1 DEF Accounts
  <2>2. b.basis[i] = BasisAfter(a, f)
    BY <1>5, <2>1
  <2> QED BY <1>6, <2>1, <2>2
<1>8. closed \in Int /\ delta \in Int /\ Spent(f) \in Int
  <2>1. account \in Accounts /\ k \in Quantity /\ f.side \in Sides /\ i \in Instruments
    BY <1>1 DEF TypeOK
  <2>2. closed \in Int
    BY <2>1, ClosedIs
  <2>3. f.notional \in Int /\ k \in Int
    BY <1>1
  <2>4. delta \in Int /\ Spent(f) \in Int
    BY <2>3 DEF Traded, Spent, MoneyScale
  <2> QED BY <2>2, <2>4
<1>9. IsFiniteSet(Instruments)
  BY DEF AccountAssumption
<1>10. PICK D \in Denominators :
          /\ \A j \in Instruments : Serves(D, a.basis[j]) /\ Serves(D, b.basis[j])
          /\ Serves(D, p) /\ Serves(D, realized)
  <2> DEFINE g == [x \in Instruments |-> a.basis[x]]
             h == [x \in 1..3 |-> IF x = 1 THEN BasisAfter(a, f)
                                  ELSE IF x = 2 THEN p ELSE realized]
  <2>1. \A x \in Instruments : g[x] \in Fractions
    BY <1>6
  <2>2. IsFiniteSet(1..3) /\ \A x \in 1..3 : h[x] \in Fractions
    <3>1. IsFiniteSet(1..3)
      <4> DEFINE n == 3
      <4>1. n \in Int
        OBVIOUS
      <4> HIDE DEF n
      <4>2. IsFiniteSet(1..n)
        BY <4>1, FS_Interval
      <4> QED BY <4>2 DEF n
    <3> QED BY <1>1, <1>3, <1>7, <3>1
  <2>3. h[1] = BasisAfter(a, f) /\ h[2] = p /\ h[3] = realized
    OBVIOUS
  <2>4. \A x \in Instruments : g[x] = a.basis[x]
    OBVIOUS
  <2> HIDE DEF g, h
  <2>5. PICK D \in Denominators :
           (\A x \in Instruments : Serves(D, g[x])) /\ (\A x \in 1..3 : Serves(D, h[x]))
    BY <1>9, <2>1, <2>2, JointDenominator
  <2>6. Serves(D, BasisAfter(a, f)) /\ Serves(D, p) /\ Serves(D, realized)
    BY <2>3, <2>5
  <2>7. ASSUME NEW j \in Instruments
        PROVE  Serves(D, a.basis[j]) /\ Serves(D, b.basis[j])
    <3>1. Serves(D, a.basis[j])
      BY <2>4, <2>5
    <3>2. j # i => b.basis[j] = a.basis[j]
      BY <1>1, <1>5 DEF Accounts
    <3> QED BY <1>7, <2>6, <3>1, <3>2
  <2> QED BY <2>6, <2>7
<1> DEFINE x == CostsOver(a, D)
           y == CostsOver(b, D)
           A == SumFunctionOnSet(x, Instruments)
           B == SumFunctionOnSet(y, Instruments)
           R == Val(realized, D)
           P == Val(p, D)
           v == Val(a.basis[i], D)
           v2 == Val(BasisAfter(a, f), D)
           q == a.qty[i]
<1>11. /\ AtCost(a) \in Fractions /\ Serves(D, AtCost(a)) /\ Val(AtCost(a), D) = a.cash * D + A
       /\ \A j \in Instruments : x[j] \in Int
  BY <1>1, <1>10, AtCostVal
<1>12. /\ AtCost(b) \in Fractions /\ Serves(D, AtCost(b)) /\ Val(AtCost(b), D) = b.cash * D + B
       /\ \A j \in Instruments : y[j] \in Int
  BY <1>1, <1>10, AtCostVal
<1> DEFINE e == Earned(base, fees, realized)
           e2 == Earned(base, fees + f.fee, realized')
<1>13. e \in Fractions /\ Serves(D, e) /\ Val(e, D) = (base - fees) * D + R
  <2> HIDE DEF base, fees
  <2> QED BY <1>3, <1>4, <1>10, EarnedVal
<1>14. /\ profit \in Fractions /\ Serves(D, profit)
       /\ Val(profit, D) = (P - v) * (closed * M)
  <2> HIDE DEF closed, p
  <2> QED BY <1>1, <1>8, <1>10, ProfitVal
<1>15. realized' \in Fractions /\ Serves(D, realized') /\ Val(realized', D) = R + Val(profit, D)
  <2> HIDE DEF profit
  <2> QED BY <1>3, <1>10, <1>14, PlusVal
<1>16. e2 \in Fractions /\ Serves(D, e2)
       /\ Val(e2, D) = (base - (fees + f.fee)) * D + Val(realized', D)
  <2> DEFINE z == fees + f.fee
  <2>1. z \in Int
    BY <1>1, <1>4
  <2> HIDE DEF z, base
  <2>2. Earned(base, z, realized') \in Fractions /\ Serves(D, Earned(base, z, realized'))
        /\ Val(Earned(base, z, realized'), D) = (base - z) * D + Val(realized', D)
    BY <1>4, <1>15, <2>1, EarnedVal
  <2> QED BY <2>2 DEF z
<1>17. Val(AtCost(a), D) = Val(e, D)
  <2>1. Same(AtCost(a), e)
    BY <1>2 DEF CostInv
  <2> HIDE DEF e
  <2> QED BY <1>11, <1>13, <2>1, SameIsEqualVal
<1>18. /\ P \in Int /\ v \in Int /\ v2 \in Int /\ R \in Int /\ D \in Int /\ M \in Int
       /\ q \in Int /\ a.cash \in Int
  <2>1. P \in Int /\ v \in Int /\ v2 \in Int /\ R \in Int
    BY <1>1, <1>7, <1>10, ServedVal
  <2> QED BY <1>1, <2>1 DEF Accounts, Denominators, MoneyScale
<1>19. B = A - x[i] + y[i] /\ A \in Int
  <2>1. \A j \in Instruments \ {i} : y[j] = x[j]
    <3> TAKE j \in Instruments \ {i}
    <3>1. b.qty[j] = a.qty[j] /\ b.basis[j] = a.basis[j]
      BY <1>1, <1>5 DEF Accounts
    <3> QED BY <3>1 DEF CostsOver
  <2> HIDE DEF x, y, i
  <2>2. A \in Int
    BY <1>9, <1>11, SumType
  <2>3. B = A - x[i] + y[i]
    BY <1>1, <1>9, <1>11, <1>12, <2>1, SumChange
  <2> QED BY <2>2, <2>3
<1>20. x[i] = v * (q * M) /\ y[i] = v2 * ((q + delta) * M)
  <2>1. b.qty[i] = q + delta
    BY <1>1, <1>5 DEF Accounts
  <2> QED BY <1>1, <1>7, <2>1 DEF CostsOver
<1>21. v2 * (q + delta) = v * q - v * closed + P * (delta + closed)
  <2>1. Serves(D, a.basis[i]) /\ Serves(D, BasisAfter(a, f)) /\ Serves(D, p)
    BY <1>1, <1>7, <1>10
  <2> QED BY <1>1, <1>2, <2>1, CostOfTheFill
<1>22. P * (delta * M) = Spent(f) * D
  BY <1>1, <1>10, SpentVal
<1>23. Val(AtCost(b), D) = Val(e2, D)
  <2> DEFINE s == Spent(f)
             c == a.cash
             fee == f.fee
  <2>1. Val(AtCost(b), D) = (c - fee - s) * D + B
    BY <1>5, <1>12
  <2>2. Val(e2, D) = (base - (fees + fee)) * D + (R + (P - v) * (closed * M))
    BY <1>14, <1>15, <1>16
  <2>3. c * D + A = (base - fees) * D + R
    BY <1>11, <1>13, <1>17
  <2>4. B = A - v * (q * M) + v2 * ((q + delta) * M)
    BY <1>19, <1>20
  <2>5. fee \in Int /\ s \in Int /\ c \in Int
    BY <1>1, <1>8, <1>18
  <2>6. P * (delta * M) = s * D
    BY <1>22
  <2> HIDE DEF A, B, P, M, q, s, c, fee, v, v2, R, base, fees, closed, delta
  <2>7. v2 * ((q + delta) * M) = v * (q * M) + (P - v) * (closed * M) + P * (delta * M)
    <3>1. v2 * ((q + delta) * M) = (v2 * (q + delta)) * M
      BY <1>8, <1>18
    <3>2. (v * q - v * closed + P * (delta + closed)) * M
             = v * (q * M) + (P - v) * (closed * M) + P * (delta * M)
      BY <1>8, <1>18
    <3> QED BY <1>21, <3>1, <3>2
  <2> DEFINE old == v * (q * M)
             gain == (P - v) * (closed * M)
  <2>8. old \in Int /\ gain \in Int
    BY <1>8, <1>18
  <2>9. B = A - old + (old + gain + s * D)
    BY <2>4, <2>6, <2>7
  <2> HIDE DEF old, gain
  <2>10. (c - fee - s) * D + B = (base - (fees + fee)) * D + (R + gain)
    <3> DEFINE cD == c * D
               feeD == fee * D
               sD == s * D
               baseD == (base - fees) * D
    <3>1. base - fees \in Int
      BY <1>4
    <3>2. /\ cD \in Int /\ feeD \in Int /\ sD \in Int /\ baseD \in Int
          /\ A \in Int /\ R \in Int
      BY <1>18, <1>19, <2>5, <3>1
    <3>3. (c - fee - s) * D = cD - feeD - sD
      BY <1>18, <2>5
    <3>4. (base - (fees + fee)) * D = baseD - feeD
      BY <1>4, <1>18, <2>5
    <3>5. cD + A = baseD + R /\ B = A - old + (old + gain + sD)
      BY <2>3, <2>9
    <3> HIDE DEF cD, feeD, sD, baseD
    <3> QED BY <2>8, <3>2, <3>3, <3>4, <3>5
  <2> QED BY <2>1, <2>2, <2>10 DEF gain
<1> HIDE DEF e, e2
<1>24. Same(AtCost(b), e2)
  BY <1>12, <1>16, <1>23, SameIsEqualVal
<1> QED BY <1>4, <1>24 DEF e2

(* So does a forced close, which realizes the whole position. *)
LEMMA CostAfterClose ==
    ASSUME AccountAssumption, TypeOK, CostInv, NEW i \in Instruments, NEW price \in Marks,
           Close(i, price)
    PROVE  CostInv'
<1> SUFFICES ASSUME ~resized'
             PROVE  Same(AtCost(account'), Earned(StartingBalance * MoneyScale,
                                                  TotalFees(records'), realized'))
  BY DEF CostInv
<1> DEFINE p == WholePrice(price)
           a == account
           b == account'
           base == StartingBalance * MoneyScale
           fees == TotalFees(records)
           M == MoneyScale
           q == a.qty[i]
           profit == Profit(i, q, p)
<1>1. /\ price \in Price /\ price \in Int /\ p \in Fractions
      /\ a \in Accounts /\ realized \in Fractions /\ q \in Int
  <2>1. price \in Price
    BY DEF AccountAssumption
  <2> QED BY <2>1 DEF Price, WholePrice, Fractions, TypeOK, Accounts
<1>2. /\ b \in Accounts /\ b.cash = a.cash + price * q * M
      /\ b.qty = [a.qty EXCEPT ![i] = 0] /\ b.basis = a.basis
  BY <1>1, CloseIs DEF Close
<1>3. ~resized /\ records' = records /\ realized' = Plus(realized, profit)
  BY DEF Close
<1>4. base \in Int /\ fees \in Int
  BY SumsAreIntegers DEF AccountAssumption, MoneyScale, TypeOK
<1>5. \A j \in Instruments : a.basis[j] \in Fractions
  BY <1>1 DEF Accounts
<1>6. IsFiniteSet(Instruments)
  BY DEF AccountAssumption
<1>7. PICK D \in Denominators :
         (\A j \in Instruments : Serves(D, a.basis[j])) /\ Serves(D, p) /\ Serves(D, realized)
  <2> DEFINE g == [x \in Instruments |-> a.basis[x]]
             h == [x \in {0} |-> realized]
  <2>1. (\A x \in Instruments : g[x] \in Fractions) /\ (\A x \in {0} : h[x] \in Fractions)
    BY <1>1, <1>5
  <2>2. IsFiniteSet({0})
    BY FS_Singleton
  <2>3. h[0] = realized /\ \A x \in Instruments : g[x] = a.basis[x]
    OBVIOUS
  <2> HIDE DEF g, h
  <2>4. PICK D \in Denominators :
           (\A x \in Instruments : Serves(D, g[x])) /\ (\A x \in {0} : Serves(D, h[x]))
    BY <1>6, <2>1, <2>2, JointDenominator
  <2>5. Serves(D, p)
    BY <1>1, WholeVal DEF p, WholePrice
  <2> QED BY <2>3, <2>4, <2>5
<1> DEFINE x == CostsOver(a, D)
           y == CostsOver(b, D)
           A == SumFunctionOnSet(x, Instruments)
           B == SumFunctionOnSet(y, Instruments)
           R == Val(realized, D)
           v == Val(a.basis[i], D)
<1>8. /\ AtCost(a) \in Fractions /\ Serves(D, AtCost(a)) /\ Val(AtCost(a), D) = a.cash * D + A
      /\ \A j \in Instruments : x[j] \in Int
  BY <1>1, <1>7, AtCostVal
<1>9. /\ AtCost(b) \in Fractions /\ Serves(D, AtCost(b)) /\ Val(AtCost(b), D) = b.cash * D + B
      /\ \A j \in Instruments : y[j] \in Int
  BY <1>2, <1>7, AtCostVal
<1> DEFINE e == Earned(base, fees, realized)
           e2 == Earned(base, fees, realized')
<1>10. e \in Fractions /\ Serves(D, e) /\ Val(e, D) = (base - fees) * D + R
  <2> HIDE DEF base, fees
  <2> QED BY <1>1, <1>4, <1>7, EarnedVal
<1>11. /\ profit \in Fractions /\ Serves(D, profit)
       /\ Val(profit, D) = (price * D - v) * (q * M)
  <2>1. Val(p, D) = price * D
    BY <1>1, WholeVal DEF p, WholePrice
  <2>2. /\ profit \in Fractions /\ Serves(D, profit)
        /\ Val(profit, D) = (Val(p, D) - v) * (q * M)
    <3> HIDE DEF p, q
    <3> QED BY <1>1, <1>7, ProfitVal
  <2> QED BY <2>1, <2>2
<1>12. realized' \in Fractions /\ Serves(D, realized') /\ Val(realized', D) = R + Val(profit, D)
  <2> HIDE DEF profit
  <2> QED BY <1>1, <1>3, <1>7, <1>11, PlusVal
<1>13. e2 \in Fractions /\ Serves(D, e2) /\ Val(e2, D) = (base - fees) * D + Val(realized', D)
  <2> HIDE DEF base, fees
  <2> QED BY <1>4, <1>12, EarnedVal
<1>14. Val(AtCost(a), D) = Val(e, D)
  <2>1. Same(AtCost(a), e)
    BY <1>3 DEF CostInv
  <2> HIDE DEF e
  <2> QED BY <1>8, <1>10, <2>1, SameIsEqualVal
<1>15. v \in Int /\ R \in Int /\ D \in Int /\ M \in Int /\ a.cash \in Int
  <2>1. v \in Int /\ R \in Int
    BY <1>7, ServedVal
  <2> QED BY <1>1, <2>1 DEF Accounts, Denominators, MoneyScale
<1>16. B = A - x[i] + y[i] /\ A \in Int
  <2>1. \A j \in Instruments \ {i} : y[j] = x[j]
    <3> TAKE j \in Instruments \ {i}
    <3>1. b.qty[j] = a.qty[j]
      BY <1>1, <1>2 DEF Accounts
    <3> QED BY <1>2, <3>1 DEF CostsOver
  <2> HIDE DEF x, y
  <2>2. A \in Int
    BY <1>6, <1>8, SumType
  <2>3. B = A - x[i] + y[i]
    BY <1>6, <1>8, <1>9, <2>1, SumChange
  <2> QED BY <2>2, <2>3
<1>17. x[i] = v * (q * M) /\ y[i] = 0
  <2>1. b.qty[i] = 0
    BY <1>1, <1>2 DEF Accounts
  <2>2. v * (0 * M) = 0
    BY <1>15
  <2> QED BY <1>2, <2>1, <2>2 DEF CostsOver
<1>18. Val(AtCost(b), D) = Val(e2, D)
  <2> DEFINE c == a.cash
             old == v * (q * M)
             m == price * q * M
  <2>1. Val(AtCost(b), D) = (c + m) * D + B
    BY <1>2, <1>9
  <2>2. Val(e2, D) = (base - fees) * D + (R + (price * D - v) * (q * M))
    BY <1>11, <1>12, <1>13
  <2>3. c * D + A = (base - fees) * D + R
    BY <1>8, <1>10, <1>14
  <2>4. (price * D - v) * (q * M) = m * D - old /\ old \in Int /\ m \in Int
    <3> HIDE DEF v, q, M
    <3> QED BY <1>1, <1>15
  <2>5. B = A - old + 0
    BY <1>16, <1>17
  <2>7. c \in Int
    BY <1>15
  <2> HIDE DEF A, B, c, old, m, R, base, fees, v, q, M
  <2>6. (c + m) * D + B = (base - fees) * D + (R + (m * D - old))
    <3>1. (c + m) * D = c * D + m * D /\ m * D \in Int /\ c * D \in Int
      BY <1>15, <2>4, <2>7
    <3>2. (base - fees) * D \in Int
      BY <1>4, <1>15
    <3> DEFINE cd == c * D
               md == m * D
               bd == (base - fees) * D
    <3>3. cd \in Int /\ md \in Int /\ bd \in Int /\ cd + A = bd + R
      BY <2>3, <3>1, <3>2
    <3> HIDE DEF cd, md, bd
    <3>4. cd + md + B = bd + (R + (md - old))
      BY <1>15, <1>16, <2>4, <2>5, <3>3
    <3> QED BY <3>1, <3>4 DEF cd, md, bd
  <2> QED BY <2>1, <2>2, <2>4, <2>6
<1> HIDE DEF e, e2
<1>19. Same(AtCost(b), e2)
  BY <1>9, <1>13, <1>18, SameIsEqualVal
<1> QED BY <1>3, <1>19 DEF e2

(* And so does every call. *)
LEMMA CostStep ==
    ASSUME AccountAssumption, TypeOK, CostInv, [Next]_vars
    PROVE  CostInv'
<1>1. ASSUME NEW f \in FillReports, Report(f)
      PROVE  CostInv'
  BY <1>1, CostAfterReport
<1>2. ASSUME NEW f \in FillReports, Refuse(f)
      PROVE  CostInv'
  <2> DEFINE t == RecordOf(f, TRUE)
  <2>1. t \in TradeRecord /\ t.fee = 0
    BY DEF RecordOf, TradeRecord, AccountAssumption, Fill
  <2>2. TotalFees(records) \in Int /\ TotalFees(Append(records, t)) = TotalFees(records) + 0
    BY <2>1, FeesGrow DEF TypeOK
  <2>3. TotalFees(Append(records, t)) = TotalFees(records)
    <3> DEFINE x == TotalFees(records)
               y == TotalFees(Append(records, t))
    <3>1. x \in Int /\ y = x + 0
      BY <2>2
    <3> HIDE DEF x, y
    <3>2. y = x
      BY <3>1
    <3> QED BY <3>2 DEF x, y
  <2>4. TotalFees(records') = TotalFees(records)
    BY <1>2, <2>3 DEF Refuse
  <2> QED BY <1>2, <2>4 DEF Refuse, CostInv
<1>3. ASSUME NEW i \in Instruments, NEW price \in Marks, Mark(i, price)
      PROVE  CostInv'
  <2>1. price \in Price /\ account \in Accounts
    BY DEF AccountAssumption, TypeOK
  <2>2. account'.cash = account.cash /\ account'.qty = account.qty /\ account'.basis = account.basis
    BY <1>3, <2>1, MarkIs DEF Mark
  <2>3. AtCost(account') = AtCost(account)
    BY <2>2 DEF AtCost, Costs
  <2> QED BY <1>3, <2>3 DEF Mark, CostInv
<1>4. ASSUME NEW i \in Instruments, NEW price \in Marks, Close(i, price)
      PROVE  CostInv'
  BY <1>4, CostAfterClose
<1>5. CASE UNCHANGED vars
  BY <1>5 DEF vars, CostInv
<1> QED BY <1>1, <1>2, <1>3, <1>4, <1>5 DEF Next

(* Over a denominator that serves all prices, what a position is worth is  *)
(* what it has cost and what positions() reports of it.                    *)
LEMMA UnrealizedVal ==
    ASSUME AccountAssumption, NEW acct \in Accounts, NEW D \in Denominators,
           \A i \in Instruments : Serves(D, acct.basis[i]) /\ Serves(D, ValuationPrice(acct, i))
    PROVE  LET u == SumOver(UnrealizedPnl(acct), Positions(acct))
           IN  /\ u \in Fractions /\ Serves(D, u)
               /\ SumFunctionOnSet(Worth(acct, D), Instruments)
                    = SumFunctionOnSet(CostsOver(acct, D), Instruments) + Val(u, D)
<1> DEFINE S == Positions(acct)
           g == UnrealizedPnl(acct)
           u == SumOver(g, S)
           w == Worth(acct, D)
           z == CostsOver(acct, D)
           d == [i \in Instruments |-> w[i] - z[i]]
<1>1. /\ MoneyScale \in Int
      /\ \A i \in Instruments : acct.qty[i] \in Int /\ acct.qty[i] * MoneyScale \in Int
  BY DEF Accounts, MoneyScale
<1>2. \A i \in Instruments : w[i] \in Int /\ z[i] \in Int
  BY EquityVal, AtCostVal
<1>3. ASSUME NEW i \in Instruments
      PROVE  g[i] \in Fractions /\ Serves(D, g[i]) /\ Val(g[i], D) = d[i]
  <2> DEFINE f == acct.basis[i]
             p == ValuationPrice(acct, i)
             h == Times(f, -1)
             s == Plus(p, h)
             k == acct.qty[i] * MoneyScale
  <2>1. f \in Fractions /\ p \in Fractions /\ -1 \in Int /\ k \in Int
    BY <1>1, ValuationType DEF Accounts
  <2>2. Val(f, D) \in Int /\ Val(p, D) \in Int /\ Serves(D, f) /\ Serves(D, p)
    BY ServedVal
  <2>3. g[i] = Times(s, k) /\ d[i] = Val(p, D) * k - Val(f, D) * k
    BY DEF UnrealizedPnl, Worth, CostsOver
  <2> HIDE DEF f, p, k, g, d
  <2>4. h \in Fractions /\ Serves(D, h) /\ Val(h, D) = Val(f, D) * (-1)
    BY <2>1, <2>2, TimesVal
  <2> HIDE DEF h
  <2>5. s \in Fractions /\ Serves(D, s) /\ Val(s, D) = Val(p, D) + Val(h, D)
    BY <2>1, <2>2, <2>4, PlusVal
  <2> HIDE DEF s
  <2>6. Times(s, k) \in Fractions /\ Serves(D, Times(s, k)) /\ Val(Times(s, k), D) = Val(s, D) * k
    BY <2>1, <2>5, TimesVal
  <2>7. Val(s, D) * k = Val(p, D) * k - Val(f, D) * k
    BY <2>1, <2>2, <2>4, <2>5
  <2> QED BY <2>3, <2>6, <2>7
<1>4. IsFiniteSet(Instruments) /\ S \in SUBSET Instruments /\ IsFiniteSet(S)
  BY FS_Subset DEF AccountAssumption, Positions
<1>5. \A i \in Instruments : d[i] \in Int
  BY <1>2
<1>6. \A i \in Instruments \ S : d[i] = 0
  <2> TAKE i \in Instruments \ S
  <2>1. acct.qty[i] = 0 /\ i \in Instruments
    BY DEF Positions
  <2>2. Val(ValuationPrice(acct, i), D) \in Int /\ Val(acct.basis[i], D) \in Int
    BY <2>1, ServedVal
  <2> DEFINE r == Val(ValuationPrice(acct, i), D)
             t == Val(acct.basis[i], D)
  <2>3. d[i] = r * (0 * MoneyScale) - t * (0 * MoneyScale)
    BY <2>1 DEF Worth, CostsOver
  <2> HIDE DEF r, t, d
  <2> QED BY <1>1, <2>2, <2>3 DEF r, t
<1>7. /\ u \in Fractions /\ Serves(D, u) /\ Val(u, D) = SumFunctionOnSet(Vals(g, D, S), S)
  <2>1. \A i \in S : g[i] \in Fractions /\ Serves(D, g[i])
    BY <1>3, <1>4
  <2> HIDE DEF g, S
  <2> QED BY <1>4, <2>1, SumOverVal
<1>8. \A i \in S : Vals(g, D, S)[i] \in Int /\ Vals(g, D, S)[i] = d[i]
  BY <1>3, <1>4, <1>5 DEF Vals
<1>9. \A i \in Instruments : w[i] = z[i] + d[i]
  BY <1>2
<1> HIDE DEF S, g, w, z, d
<1>10. SumFunctionOnSet(Vals(g, D, S), S) = SumFunctionOnSet(d, Instruments)
  <2>1. SumFunctionOnSet(Vals(g, D, S), S) = SumFunctionOnSet(d, S)
    BY <1>4, <1>8, SumEqual
  <2>2. SumFunctionOnSet(d, S) = SumFunctionOnSet(d, Instruments)
    BY <1>4, <1>5, <1>6, SumRelevant
  <2> QED BY <2>1, <2>2
<1>11. SumFunctionOnSet(w, Instruments)
         = SumFunctionOnSet(z, Instruments) + SumFunctionOnSet(d, Instruments)
  BY <1>2, <1>4, <1>5, <1>9, SumPlus
<1> QED BY <1>7, <1>10, <1>11 DEF S, g, w, z

(***************************************************************************)
(* The account's books balance: what it is worth is the starting balance,  *)
(* less fees, plus what was realized, plus what positions() reports as     *)
(* unrealized, as long as no short position was extended or partly         *)
(* covered.  (report_fill, force_close, equity and positions,              *)
(* runner/account.rs)                                                      *)
(***************************************************************************)
THEOREM TheBooksBalance ==
    ASSUME AccountAssumption
    PROVE  Spec => []BooksBalance
<1>1. ASSUME TypeOK, CostInv
      PROVE  BooksBalance
  <2> SUFFICES ASSUME ~resized
               PROVE  Same(Equity(account),
                           Plus(<<StartingBalance * MoneyScale - TotalFees(records), 1>>,
                                Plus(realized, SumOver(UnrealizedPnl(account), Positions(account)))))
    BY DEF BooksBalance
  <2> DEFINE a == account
             base == StartingBalance * MoneyScale
             fees == TotalFees(records)
             u == SumOver(UnrealizedPnl(a), Positions(a))
             e == Earned(base, fees, realized)
             gain == Plus(realized, u)
             total == Earned(base, fees, gain)
             prices == [i \in Instruments |-> ValuationPrice(a, i)]
             bases == [i \in Instruments |-> a.basis[i]]
  <2>1. a \in Accounts /\ realized \in Fractions /\ IsFiniteSet(Instruments)
    BY <1>1 DEF TypeOK, AccountAssumption
  <2>2. base \in Int /\ fees \in Int
    BY <1>1, SumsAreIntegers DEF AccountAssumption, MoneyScale, TypeOK
  <2>3. Same(AtCost(a), e)
    BY <1>1 DEF CostInv
  <2>4. PICK D1 \in Denominators : \A i \in Instruments :
           Serves(D1, ValuationPrice(a, i)) /\ Serves(D1, a.basis[i])
    <3>1. \A i \in Instruments : prices[i] \in Fractions /\ bases[i] \in Fractions
      BY <2>1, ValuationType DEF Accounts
    <3>2. \A i \in Instruments : prices[i] = ValuationPrice(a, i) /\ bases[i] = a.basis[i]
      OBVIOUS
    <3> HIDE DEF prices, bases
    <3>3. PICK D \in Denominators :
             (\A i \in Instruments : Serves(D, prices[i])) /\ (\A i \in Instruments : Serves(D, bases[i]))
      BY <2>1, <3>1, JointDenominator
    <3> QED BY <3>2, <3>3
  <2> DEFINE D == D1 * realized[2]
  <2>5. D \in Denominators /\ realized[2] \in Denominators
    BY <2>1 DEF Fractions, Denominators
  <2>6. Serves(D, realized)
    <3>1. D = realized[2] * D1
      BY <2>5 DEF Denominators
    <3>2. Serves(realized[2] * D1, realized)
      BY <2>1, OwnDenominator
    <3> QED BY <3>1, <3>2
  <2>7. \A i \in Instruments : Serves(D, ValuationPrice(a, i)) /\ Serves(D, a.basis[i])
    <3> TAKE i \in Instruments
    <3>1. ValuationPrice(a, i) \in Fractions /\ a.basis[i] \in Fractions
      BY <2>1, ValuationType DEF Accounts
    <3> QED BY <2>4, <2>5, <3>1, ServesMultiple
  <2> HIDE DEF D, prices, bases
  <2> DEFINE A == SumFunctionOnSet(CostsOver(a, D), Instruments)
             W == SumFunctionOnSet(Worth(a, D), Instruments)
             R == Val(realized, D)
             U == Val(u, D)
             c == a.cash
  <2>8. Equity(a) \in Fractions /\ Serves(D, Equity(a)) /\ Val(Equity(a), D) = c * D + W
    BY <2>1, <2>5, <2>7, EquityVal
  <2>9. AtCost(a) \in Fractions /\ Serves(D, AtCost(a)) /\ Val(AtCost(a), D) = c * D + A
        /\ \A i \in Instruments : CostsOver(a, D)[i] \in Int
    BY <2>1, <2>5, <2>7, AtCostVal
  <2>10. u \in Fractions /\ Serves(D, u) /\ W = A + U
    BY <2>1, <2>5, <2>7, UnrealizedVal
  <2>11. A \in Int /\ U \in Int /\ R \in Int /\ c \in Int /\ D \in Int
    <3>1. A \in Int
      BY <2>1, <2>9, SumType
    <3>2. U \in Int /\ R \in Int
      BY <2>6, <2>10, ServedVal
    <3> QED BY <2>1, <2>5, <3>1, <3>2 DEF Accounts, Denominators
  <2> HIDE DEF base, fees, u, A, W
  <2>12. e \in Fractions /\ Serves(D, e) /\ Val(e, D) = (base - fees) * D + R
    BY <2>1, <2>2, <2>5, <2>6, EarnedVal
  <2>13. gain \in Fractions /\ Serves(D, gain) /\ Val(gain, D) = R + U
    BY <2>1, <2>5, <2>6, <2>10, PlusVal
  <2> HIDE DEF gain
  <2>14. total \in Fractions /\ Serves(D, total) /\ Val(total, D) = (base - fees) * D + (R + U)
    <3>1. total \in Fractions /\ Serves(D, total) /\ Val(total, D) = (base - fees) * D + Val(gain, D)
      BY <2>2, <2>5, <2>13, EarnedVal
    <3> QED BY <2>13, <3>1
  <2> HIDE DEF e, total
  <2>15. c * D + A = (base - fees) * D + R
    BY <2>3, <2>5, <2>9, <2>12, SameIsEqualVal
  <2>16. c * D + W = (base - fees) * D + (R + U)
    <3> HIDE DEF c, R, U
    <3> QED BY <2>2, <2>10, <2>11, <2>15
  <2>17. Same(Equity(a), total)
    BY <2>5, <2>8, <2>14, <2>16, SameIsEqualVal
  <2> QED BY <2>17 DEF total, Earned, gain, u, base, fees
<1>2. Init => TypeOK /\ CostInv
  BY TypeInit, CostInit
<1>3. TypeOK /\ CostInv /\ [Next]_vars => TypeOK' /\ CostInv'
  BY TypeStep, CostStep
<1> QED BY <1>1, <1>2, <1>3, PTL DEF Spec

(***************************************************************************)
(* Once everything was sold or bought back, the profit that the summary    *)
(* adds up from the cash flows of the records is what was realized against *)
(* the account's cost bases, less the fees, unless a short was resized or  *)
(* a forced close brought money in.  (compute_metrics, metrics/lib.rs;     *)
(* report_fill and force_close, runner/account.rs)                         *)
(***************************************************************************)
THEOREM FlatPnlIsRealized ==
    ASSUME AccountAssumption
    PROVE  Spec => []PnlIsRealizedOnceFlat
<1>1. ASSUME TypeOK, CashInv, CostInv
      PROVE  PnlIsRealizedOnceFlat
  <2> SUFFICES ASSUME Positions(account) = {}, ~resized, proceeds = 0
               PROVE  Same(<<Metrics(records, account).totalPnl, 1>>,
                           Plus(<<-TotalFees(records), 1>>, realized))
    BY DEF PnlIsRealizedOnceFlat
  <2> DEFINE a == account
             base == StartingBalance * MoneyScale
             fees == TotalFees(records)
             pnl == TotalPnl(records)
             bases == [i \in Instruments |-> a.basis[i]]
             gain == [i \in {1} |-> realized]
  <2>1. a \in Accounts /\ realized \in Fractions /\ IsFiniteSet(Instruments)
    BY <1>1 DEF TypeOK, AccountAssumption
  <2>2. base \in Int /\ fees \in Int /\ pnl \in Int
    BY <1>1, SumsAreIntegers DEF AccountAssumption, MoneyScale, TypeOK
  <2>3. Metrics(records, a).totalPnl = pnl
    <3>1. Metrics(records, a).totalPnl = IF Completed(records) = {} THEN 0 ELSE pnl
      BY DEF Metrics
    <3>2. Completed(records) = {} => pnl = 0
      BY <1>1, NothingCompleted
    <3> QED BY <3>1, <3>2
  <2>4. a.cash = base + pnl
    <3> HIDE DEF base, pnl
    <3>1. a.cash = base + pnl + 0
      BY <1>1 DEF CashInv, base, pnl
    <3> QED BY <2>2, <3>1
  <2>5. Same(AtCost(a), Earned(base, fees, realized))
    BY <1>1 DEF CostInv
  <2>6. PICK D \in Denominators :
           (\A i \in Instruments : Serves(D, a.basis[i])) /\ Serves(D, realized)
    <3>1. \A i \in Instruments : bases[i] \in Fractions
      BY <2>1 DEF Accounts
    <3>2. IsFiniteSet({1}) /\ \A i \in {1} : gain[i] \in Fractions
      BY <2>1, FS_Singleton
    <3>3. (\A i \in Instruments : bases[i] = a.basis[i]) /\ gain[1] = realized
      OBVIOUS
    <3> HIDE DEF bases, gain
    <3>4. PICK D \in Denominators :
             (\A i \in Instruments : Serves(D, bases[i])) /\ (\A i \in {1} : Serves(D, gain[i]))
      BY <2>1, <3>1, <3>2, JointDenominator
    <3> QED BY <3>3, <3>4
  <2> HIDE DEF bases, gain
  <2> DEFINE w == CostsOver(a, D)
             R == Val(realized, D)
             e == Earned(base, fees, realized)
             f == Earned(0, fees, realized)
  <2>7. SumFunctionOnSet(w, Instruments) = 0
    <3>1. ASSUME NEW i \in Instruments
          PROVE  w[i] = 0
      <4>1. a.qty[i] = 0
        BY DEF Positions
      <4>2. Val(a.basis[i], D) \in Int
        BY <2>1, <2>6, ServedVal DEF Accounts
      <4> DEFINE v == Val(a.basis[i], D)
      <4>3. w[i] = v * (a.qty[i] * MoneyScale)
        BY DEF CostsOver
      <4> HIDE DEF v, w
      <4>4. v * (0 * MoneyScale) = 0
        BY <4>2 DEF v, MoneyScale
      <4> QED BY <4>1, <4>3, <4>4
    <3> HIDE DEF w
    <3> QED BY <2>1, <3>1, SumOfZeros
  <2>8. AtCost(a) \in Fractions /\ Serves(D, AtCost(a))
        /\ Val(AtCost(a), D) = a.cash * D + SumFunctionOnSet(w, Instruments)
    BY <2>1, <2>6, AtCostVal
  <2>9. e \in Fractions /\ Serves(D, e) /\ Val(e, D) = (base - fees) * D + R
    <3> HIDE DEF base, fees
    <3> QED BY <2>1, <2>2, <2>6, EarnedVal
  <2>10. f \in Fractions /\ Serves(D, f) /\ Val(f, D) = (0 - fees) * D + R
    <3> HIDE DEF base, fees
    <3> QED BY <2>1, <2>2, <2>6, EarnedVal
  <2>11. <<pnl, 1>> \in Fractions /\ Serves(D, <<pnl, 1>>) /\ Val(<<pnl, 1>>, D) = pnl * D
    <3> HIDE DEF pnl
    <3> QED BY <2>2, <2>6, WholeVal
  <2>12. R \in Int /\ D \in Int
    BY <2>1, <2>6, ServedVal DEF Denominators
  <2>13. f = Plus(<<-fees, 1>>, realized)
    <3> HIDE DEF fees
    <3>1. 0 - fees = -fees
      BY <2>2
    <3> QED BY <3>1 DEF Earned
  <2> HIDE DEF base, fees, pnl, w, R, e, f
  <2>14. Val(AtCost(a), D) = Val(e, D)
    BY <2>5, <2>6, <2>8, <2>9, SameIsEqualVal DEF e
  <2>15. pnl * D = (0 - fees) * D + R
    <3>1. (base + pnl) * D + 0 = (base - fees) * D + R
      BY <2>4, <2>7, <2>8, <2>9, <2>14
    <3> QED BY <2>2, <2>12, <3>1
  <2>16. Same(<<pnl, 1>>, f)
    BY <2>6, <2>10, <2>11, <2>15, SameIsEqualVal
  <2> QED BY <2>3, <2>13, <2>16 DEF fees, pnl
<1>2. Init => TypeOK /\ CashInv /\ CostInv
  BY TypeInit, CashInit, CostInit
<1>3. TypeOK /\ CashInv /\ CostInv /\ [Next]_vars => TypeOK' /\ CashInv' /\ CostInv'
  BY TypeStep, CashStep, CostStep
<1> QED BY <1>1, <1>2, <1>3, PTL DEF Spec

-----------------------------------------------------------------------------
(* The trip books *)

(* One step of the recursion of compute_win_rate. *)
TripStep(trades, i, g, k) ==
    CASE k = 0 -> NewTripBook
      [] k > 0 /\ k \in Completed(trades) /\ trades[k].instrument = i ->
             TakeTrade(g[k - 1], trades[k])
      [] OTHER -> g[k - 1]

(* g is the recursion's solution up to the n-th record. *)
TripsUpTo(trades, i, n, g) == g = [k \in 0..n |-> TripStep(trades, i, g, k)]

(* The book is the value at the last record of a chosen solution. *)
LEMMA TripBookIsChosen ==
    ASSUME NEW s, NEW i
    PROVE  TripBook(s, i) = (CHOOSE g : TripsUpTo(s, i, Len(s), g))[Len(s)]
BY DEF TripBook, TripsUpTo, TripStep

(* A solution obeys the recursion. *)
LEMMA TripsUnfold ==
    ASSUME NEW s, NEW i, NEW n, NEW g, TripsUpTo(s, i, n, g)
    PROVE  \A k \in 0..n : g[k] = TripStep(s, i, g, k)
<1> DEFINE S == 0..n
<1>1. g = [k \in S |-> TripStep(s, i, g, k)]
  BY DEF TripsUpTo
<1> HIDE DEF S
<1>2. \A k \in S : g[k] = TripStep(s, i, g, k)
  BY <1>1, Zenon
<1> QED BY <1>2 DEF S

(* There is a solution up to any record. *)
LEMMA TripsExist ==
    ASSUME NEW s, NEW i, NEW n \in Nat
    PROVE  \E g : TripsUpTo(s, i, n, g)
<1> DEFINE T == {m \in Nat : \E g : TripsUpTo(s, i, m, g)}
<1>1. 0 \in T
  <2> DEFINE g == [k \in 0..0 |-> NewTripBook]
  <2>1. \A k \in 0..0 : TripStep(s, i, g, k) = NewTripBook
    BY DEF TripStep
  <2>2. g = [k \in 0..0 |-> TripStep(s, i, g, k)]
    BY <2>1
  <2> QED BY <2>2 DEF TripsUpTo
<1>2. ASSUME NEW m \in Nat, m \in T
      PROVE  m + 1 \in T
  <2>1. PICK g : TripsUpTo(s, i, m, g)
    BY <1>2
  <2> DEFINE h == [k \in 0..(m + 1) |-> TripStep(s, i, g, k)]
  <2>2. \A k \in 0..m : k \in 0..(m + 1) /\ h[k] = g[k]
    BY <2>1 DEF TripsUpTo
  <2>3. \A k \in 0..(m + 1) : TripStep(s, i, g, k) = TripStep(s, i, h, k)
    <3> HIDE DEF h
    <3> TAKE k \in 0..(m + 1)
    <3>1. CASE k = 0
      BY <3>1 DEF TripStep
    <3>2. CASE k # 0
      <4>1. k - 1 \in 0..m
        BY <3>2
      <4>2. g[k - 1] = h[k - 1]
        BY <2>2, <4>1
      <4> QED BY <4>2 DEF TripStep
    <3> QED BY <3>1, <3>2
  <2>4. h = [k \in 0..(m + 1) |-> TripStep(s, i, h, k)]
    BY <2>3
  <2> HIDE DEF h
  <2>5. TripsUpTo(s, i, m + 1, h)
    BY <2>4 DEF TripsUpTo
  <2> QED BY <2>5
<1> HIDE DEF T
<1>3. n \in T
  BY <1>1, <1>2, NaturalsBySuccessor
<1> QED BY <1>3 DEF T

(* Records that are the same up to the n-th. *)
Alike(s, t, n) ==
    \A k \in 1..n : s[k] = t[k] /\ (k \in Completed(s) <=> k \in Completed(t))

(* Solutions for records that are alike up to the n-th agree up to it. *)
LEMMA TripsAgree ==
    ASSUME NEW s, NEW t, NEW i, NEW n \in Nat, NEW m \in Nat, n <= m, NEW g, NEW h,
           TripsUpTo(s, i, n, g), TripsUpTo(t, i, m, h), Alike(s, t, n)
    PROVE  \A k \in 0..n : g[k] = h[k]
<1> DEFINE T == {k \in Nat : k <= n => g[k] = h[k]}
<1>1. \A k \in 0..n : g[k] = TripStep(s, i, g, k) /\ h[k] = TripStep(t, i, h, k)
  <2>1. \A k \in 0..n : k \in 0..m
    OBVIOUS
  <2> QED BY <2>1, TripsUnfold
<1>2. 0 \in T
  BY <1>1 DEF TripStep
<1>3. ASSUME NEW k \in Nat, k \in T
      PROVE  k + 1 \in T
  <2> SUFFICES ASSUME k + 1 <= n
               PROVE  g[k + 1] = h[k + 1]
    OBVIOUS
  <2>1. g[k] = h[k] /\ k + 1 \in 1..n /\ (k + 1) - 1 = k
    BY <1>3
  <2>2. TripStep(s, i, g, k + 1) = TripStep(t, i, h, k + 1)
    BY <2>1 DEF TripStep, Alike
  <2> QED BY <1>1, <2>1, <2>2
<1> HIDE DEF T
<1>4. Nat \subseteq T
  BY <1>2, <1>3, NaturalsBySuccessor
<1> QED BY <1>4 DEF T

(* Before the first record the book is new. *)
LEMMA NoTrips ==
    ASSUME NEW i
    PROVE  TripBook(<<>>, i) = NewTripBook
<1> DEFINE g == CHOOSE h : TripsUpTo(<<>>, i, 0, h)
<1>1. TripsUpTo(<<>>, i, 0, g)
  BY TripsExist
<1>2. TripBook(<<>>, i) = g[0]
  <2>1. Len(<<>>) = 0
    OBVIOUS
  <2>2. TripBook(<<>>, i) = (CHOOSE h : TripsUpTo(<<>>, i, Len(<<>>), h))[Len(<<>>)]
    BY TripBookIsChosen
  <2> QED BY <2>1, <2>2
<1> HIDE DEF g
<1> QED BY <1>1, <1>2 DEF TripsUpTo, TripStep

(* A completed trade of the instrument is taken into the book. *)
LEMMA TripsGrow ==
    ASSUME NEW s \in Seq(TradeRecord), NEW t \in TradeRecord, NEW i
    PROVE  TripBook(Append(s, t), i) =
             IF ~t.rejected /\ t.qty > 0 /\ t.instrument = i
             THEN TakeTrade(TripBook(s, i), t)
             ELSE TripBook(s, i)
<1> DEFINE n == Len(s)
           r == Append(s, t)
           g == CHOOSE f : TripsUpTo(s, i, n, f)
           h == CHOOSE f : TripsUpTo(r, i, n + 1, f)
<1>1. n \in Nat /\ n + 1 \in Nat /\ Len(r) = n + 1
  OBVIOUS
<1>2. TripsUpTo(s, i, n, g) /\ TripsUpTo(r, i, n + 1, h)
  BY <1>1, TripsExist
<1>3. TripBook(s, i) = g[n]
  BY TripBookIsChosen
<1>4. TripBook(r, i) = h[n + 1]
  BY <1>1, TripBookIsChosen
<1>5. /\ \A k \in 1..n : s[k] = r[k] /\ (k \in Completed(s) <=> k \in Completed(r))
      /\ r[n + 1] = t /\ (n + 1 \in Completed(r) <=> ~t.rejected /\ t.qty > 0)
  <2>1. DOMAIN r = 1..(n + 1) /\ DOMAIN s = 1..n /\ r[n + 1] = t /\ \A k \in 1..n : r[k] = s[k]
    OBVIOUS
  <2> HIDE DEF r
  <2> QED BY <1>1, <2>1 DEF Completed, Accepted
<1> HIDE DEF g, h, r, n
<1>6. g[n] = h[n]
  <2>1. n <= n + 1 /\ n \in 0..n
    BY <1>1
  <2>2. \A k \in 0..n : g[k] = h[k]
    <3> DEFINE m == n + 1
    <3>1. m \in Nat /\ n <= m /\ TripsUpTo(r, i, m, h)
      BY <1>1, <1>2, <2>1
    <3>2. Alike(s, r, n)
      BY <1>5 DEF Alike
    <3> HIDE DEF m
    <3> QED BY <1>1, <1>2, <3>1, <3>2, TripsAgree
  <2> QED BY <2>1, <2>2
<1>7. h[n + 1] = TripStep(r, i, h, n + 1) /\ (n + 1) - 1 = n
  <2>1. n + 1 \in 0..(n + 1)
    BY <1>1
  <2> QED BY <1>1, <1>2, <2>1, TripsUnfold
<1>8. h[n + 1] = IF ~t.rejected /\ t.qty > 0 /\ t.instrument = i THEN TakeTrade(h[n], t) ELSE h[n]
  BY <1>1, <1>5, <1>7 DEF TripStep
<1> QED BY <1>3, <1>4, <1>6, <1>8 DEF r

TripBooks == [qty : Int, basis : Fractions, trips : Nat, wins : Nat]

(* A book counts no more wins than trips. *)
IsTripBook(b) == b \in TripBooks /\ b.wins <= b.trips

(* A purchase that leaves something held. *)
LEMMA BuyTripIs ==
    ASSUME NEW b, IsTripBook(b), NEW t \in TradeRecord, b.qty + t.qty > 0, NEW D \in Denominators
    PROVE  LET c == BuyTrip(b, t)
           IN  /\ c.qty = b.qty + t.qty /\ c.trips = b.trips /\ c.wins = b.wins
               /\ c.basis \in Fractions
               /\ Serves(D, b.basis) /\ Serves(D, c.basis) =>
                     Val(c.basis, D) * (b.qty + t.qty)
                        = (IF b.qty > 0 THEN Val(b.basis, D) * b.qty ELSE 0) + t.notional * D
<1> DEFINE old == IF b.qty > 0 THEN Times(b.basis, b.qty) ELSE Zero
           new == <<t.notional, 1>>
           cost == Plus(old, new)
           q == b.qty + t.qty
           v == TripBasis(b, t)
           h == <<cost[1], cost[2] * q>>
<1>1. /\ b.qty \in Int /\ b.basis \in Fractions /\ t.qty \in Int /\ t.notional \in Int
      /\ q \in Int /\ q > 0 /\ D \in Int
  BY DEF IsTripBook, TripBooks, TradeRecord, Denominators
<1>2. /\ BuyTrip(b, t).qty = q /\ BuyTrip(b, t).basis = v
      /\ BuyTrip(b, t).trips = b.trips /\ BuyTrip(b, t).wins = b.wins
  <2> HIDE DEF v
  <2> QED BY <1>1 DEF BuyTrip, IsTripBook, TripBooks, v
<1>3. old \in Fractions /\ new \in Fractions
  <2>1. Times(b.basis, b.qty) \in Fractions
    BY <1>1, TimesType
  <2>2. Zero \in Fractions /\ new \in Fractions
    BY <1>1 DEF Zero, Fractions
  <2> QED BY <2>1, <2>2
<1>4. cost \in Fractions
  <2> HIDE DEF old, new
  <2> QED BY <1>3, PlusType
<1>5. cost[1] \in Int /\ cost[2] * q \in Nat \ {0} /\ h \in Fractions
  <2>1. cost[1] \in Int /\ cost[2] \in Nat \ {0}
    BY <1>4 DEF Fractions
  <2> HIDE DEF cost, q
  <2>2. cost[2] * q \in Int /\ cost[2] * q > 0
    BY <1>1, <2>1
  <2> QED BY <2>1, <2>2 DEF Fractions
<1>6. v = Frac(cost[1], cost[2] * q)
  BY DEF TripBasis
<1> HIDE DEF v, cost, q
<1>7. v \in Fractions /\ Same(v, h)
  BY <1>5, <1>6, FracVal
<1>8. ASSUME Serves(D, b.basis), Serves(D, v)
      PROVE  Val(v, D) * q = (IF b.qty > 0 THEN Val(b.basis, D) * b.qty ELSE 0) + t.notional * D
  <2>1. Serves(D, old) /\ Val(old, D) = IF b.qty > 0 THEN Val(b.basis, D) * b.qty ELSE 0
    <3>1. CASE b.qty > 0
      BY <1>1, <1>8, <3>1, TimesVal
    <3>2. CASE ~(b.qty > 0)
      <4>1. 0 * D = 0
        BY <1>1
      <4> QED BY <3>2, <4>1, WholeVal DEF Zero
    <3> QED BY <3>1, <3>2
  <2>2. Serves(D, new) /\ Val(new, D) = t.notional * D
    BY <1>1, WholeVal
  <2> HIDE DEF old, new
  <2>3. Serves(D, cost) /\ Val(cost, D) = Val(old, D) + Val(new, D)
    BY <1>3, <2>1, <2>2, PlusVal DEF cost
  <2>4. Serves(D, h) /\ Val(h, D) = Val(v, D)
    <3> HIDE DEF h
    <3> QED BY <1>5, <1>7, <1>8, ServesSame
  <2>5. Val(v, D) \in Int /\ cost[1] * D = Val(v, D) * (cost[2] * q)
    BY <2>4, ServedVal DEF IsVal
  <2>6. Val(cost, D) \in Int /\ cost[1] * D = Val(cost, D) * cost[2]
    BY <2>3, ServedVal DEF IsVal
  <2>7. cost[2] \in Int /\ cost[2] # 0
    BY <1>4 DEF Fractions
  <2> DEFINE x == Val(v, D)
             y == Val(cost, D)
             z == cost[2]
  <2>8. x * q = y
    <3>1. x \in Int /\ y \in Int /\ z \in Int /\ z # 0 /\ q \in Int /\ x * (z * q) = y * z
      BY <1>1, <2>5, <2>6, <2>7
    <3> HIDE DEF x, y, z
    <3>2. (x * q) * z = y * z /\ x * q \in Int
      BY <3>1
    <3> QED BY <3>1, <3>2, Cancel
  <2> QED BY <2>1, <2>2, <2>3, <2>8
<1> QED BY <1>2, <1>7, <1>8 DEF q

(* A sale. *)
LEMMA SellTripIs ==
    ASSUME NEW b, IsTripBook(b), NEW t \in TradeRecord, t.qty > 0
    PROVE  LET c == SellTrip(b, t)
               closes == b.qty > 0 /\ t.qty <= b.qty
               won == closes /\ FillPrice(t)[1] * b.basis[2] > b.basis[1] * FillPrice(t)[2]
           IN  /\ c.qty = b.qty - t.qty /\ c.basis = b.basis
               /\ c.trips = b.trips + (IF closes THEN 1 ELSE 0)
               /\ c.wins = b.wins + (IF won THEN 1 ELSE 0)
BY DEF SellTrip, IsTripBook, TripBooks

(* A trade keeps a book a book. *)
LEMMA TakenBook ==
    ASSUME NEW b, IsTripBook(b), NEW t \in TradeRecord, t.qty > 0
    PROVE  IsTripBook(TakeTrade(b, t))
<1>1. /\ b.qty \in Int /\ b.basis \in Fractions /\ b.trips \in Nat /\ b.wins \in Nat
      /\ b.wins <= b.trips /\ t.qty \in Int /\ t.notional \in Int /\ b \in TripBooks
  BY DEF IsTripBook, TripBooks, TradeRecord
<1>2. ASSUME t.side = "Buy"
      PROVE  IsTripBook(TakeTrade(b, t))
  <2> DEFINE q == b.qty + t.qty
             v == IF q > 0 THEN TripBasis(b, t) ELSE b.basis
  <2>1. q \in Int
    BY <1>1
  <2>2. ASSUME q > 0
        PROVE  TripBasis(b, t) \in Fractions
    <3>1. 1 \in Denominators
      BY DEF Denominators
    <3>2. BuyTrip(b, t).basis \in Fractions
      BY <2>2, <3>1, BuyTripIs
    <3> QED BY <1>1, <2>2, <3>2 DEF BuyTrip, TripBooks
  <2>3. v \in Fractions
    BY <1>1, <2>2
  <2>4. TakeTrade(b, t) = [b EXCEPT !.qty = q, !.basis = v]
    BY <1>2 DEF TakeTrade, BuyTrip
  <2> HIDE DEF q, v
  <2> QED BY <1>1, <2>1, <2>3, <2>4 DEF IsTripBook, TripBooks
<1>3. ASSUME t.side = "Sell"
      PROVE  IsTripBook(TakeTrade(b, t))
  <2> DEFINE c == SellTrip(b, t)
             closes == b.qty > 0 /\ t.qty <= b.qty
             won == closes /\ FillPrice(t)[1] * b.basis[2] > b.basis[1] * FillPrice(t)[2]
             x == b.trips + (IF closes THEN 1 ELSE 0)
             y == b.wins + (IF won THEN 1 ELSE 0)
             q == b.qty - t.qty
  <2>1. TakeTrade(b, t) = [b EXCEPT !.qty = q, !.trips = x, !.wins = y]
    BY <1>3 DEF TakeTrade, SellTrip
  <2>2. x \in Nat /\ y \in Nat /\ y <= x /\ q \in Int
    <3>1. won => closes
      OBVIOUS
    <3> HIDE DEF won, closes
    <3> QED BY <1>1, <3>1
  <2> HIDE DEF q, x, y
  <2> QED BY <1>1, <2>1, <2>2 DEF IsTripBook, TripBooks
<1>4. CASE t.side = "Unknown"
  BY <1>4 DEF TakeTrade
<1> QED BY <1>2, <1>3, <1>4 DEF TradeRecord, Sides

(* A reported fill is taken into the book of its instrument alone, *)
LEMMA BookAfterReport ==
    ASSUME AccountAssumption, TypeOK, NEW f \in FillReports, Report(f), NEW i
    PROVE  TripBook(records', i) = IF i = f.instrument
                                   THEN TakeTrade(TripBook(records, i), RecordOf(f, FALSE))
                                   ELSE TripBook(records, i)
<1> DEFINE t == RecordOf(f, FALSE)
<1>1. t \in TradeRecord /\ records' = Append(records, t) /\ records \in Seq(TradeRecord)
  BY ReportTypes DEF TypeOK
<1>2. ~t.rejected /\ t.qty = f.qty /\ t.instrument = f.instrument /\ f.qty > 0
  <2>1. f.qty \in Quantity
    BY ReportTypes
  <2> QED BY <2>1 DEF RecordOf, Quantity
<1> HIDE DEF t
<1>3. TripBook(Append(records, t), i) =
         IF ~t.rejected /\ t.qty > 0 /\ t.instrument = i
         THEN TakeTrade(TripBook(records, i), t)
         ELSE TripBook(records, i)
  BY <1>1, TripsGrow
<1> QED BY <1>1, <1>2, <1>3 DEF t

(* and a refused one into none. *)
LEMMA BookAfterRefusal ==
    ASSUME AccountAssumption, TypeOK, NEW f \in FillReports, Refuse(f), NEW i
    PROVE  TripBook(records', i) = TripBook(records, i)
<1> DEFINE t == RecordOf(f, TRUE)
<1>1. t \in TradeRecord /\ records \in Seq(TradeRecord)
  BY DEF RecordOf, TradeRecord, AccountAssumption, Fill, TypeOK
<1>2. t.rejected /\ records' = Append(records, t)
  BY DEF RecordOf, Refuse
<1> HIDE DEF t
<1> QED BY <1>1, <1>2, TripsGrow

(* Every book is one, and no instrument is both short and one-sided. *)
BooksInv ==
    /\ \A i \in Instruments : IsTripBook(TripBook(records, i))
    /\ \A i \in oneSided : account.qty[i] >= 0

(* The books are new at the start, *)
LEMMA BooksInit ==
    ASSUME AccountAssumption, Init
    PROVE  BooksInv /\ TripsKnowTheBasis
<1>1. \A i : TripBook(records, i) = NewTripBook
  BY NoTrips DEF Init
<1>2. IsTripBook(NewTripBook)
  BY DEF IsTripBook, TripBooks, NewTripBook, Zero, Fractions
<1>3. \A i \in oneSided : account.qty[i] = 0
  BY DEF Init, NewAccount
<1>4. NewTripBook.qty = 0
  BY DEF NewTripBook
<1> QED BY <1>1, <1>2, <1>3, <1>4 DEF BooksInv, TripsKnowTheBasis

(***************************************************************************)
(* A fill moves the account's position and the book's alike, where neither *)
(* is short before or after it.                                            *)
(***************************************************************************)
LEMMA BookFollowsAccount ==
    ASSUME AccountAssumption, NEW acct \in Accounts, NEW f \in Fill,
           NEW b, IsTripBook(b), b.qty = acct.qty[f.instrument], b.qty >= 0,
           b.qty > 0 => Same(b.basis, acct.basis[f.instrument]),
           b.qty + Traded(f.side, f.qty) >= 0
    PROVE  LET c == TakeTrade(b, RecordOf(f, FALSE))
           IN  /\ c.qty = b.qty + Traded(f.side, f.qty)
               /\ c.qty > 0 => Same(c.basis, BasisAfter(acct, f))
<1> DEFINE t == RecordOf(f, FALSE)
           c == TakeTrade(b, t)
           q == b.qty
           k == f.qty
           basis == acct.basis[f.instrument]
           after == BasisAfter(acct, f)
<1>1. /\ f.side \in Sides /\ k \in Quantity /\ k \in Int /\ k > 0 /\ f.notional \in Nat
      /\ f.notional \in Int /\ f.instrument \in Instruments
  BY DEF Fill, Quantity
<1>2. /\ t \in TradeRecord /\ t.qty = k /\ t.notional = f.notional /\ t.side = f.side
  BY <1>1 DEF RecordOf, TradeRecord, Fill, Quantity
<1>3. q \in Int /\ q >= 0 /\ b.basis \in Fractions /\ basis \in Fractions
  BY <1>1 DEF IsTripBook, TripBooks, Accounts
<1> HIDE DEF t
<1>4. ASSUME f.side = "Buy"
      PROVE  c.qty = q + k /\ (c.qty > 0 => Same(c.basis, after))
  <2>1. c = BuyTrip(b, t)
    BY <1>2, <1>4 DEF TakeTrade
  <2>2. after = IF q > 0 THEN AveragedBasis(basis, q, f) ELSE FillPrice(f)
    BY <1>1, <1>3, <1>4 DEF BasisAfter, BuyBasis
  <2>3. b.qty + t.qty > 0 /\ 1 \in Denominators /\ q \in Nat
    BY <1>1, <1>2, <1>3 DEF Denominators
  <2>4. c.qty = q + k /\ c.basis \in Fractions
    BY <1>2, <2>1, <2>3, BuyTripIs
  <2>5. after \in Fractions
    <3>1. AveragedBasis(basis, q, f) \in Fractions /\ FillPrice(f) \in Fractions
      BY <1>1, <1>3, <2>3, AveragedVal, FillPriceVal
    <3> QED BY <2>2, <3>1
  <2> DEFINE g == [x \in 1..4 |-> IF x = 1 THEN b.basis ELSE IF x = 2 THEN basis
                                  ELSE IF x = 3 THEN c.basis ELSE after]
  <2> HIDE DEF c, after, q, k, basis
  <2>6. PICK D \in Denominators : /\ Serves(D, b.basis) /\ Serves(D, basis)
                                  /\ Serves(D, c.basis) /\ Serves(D, after)
    <3>1. IsFiniteSet(1..4)
      <4> DEFINE n == 4
      <4>1. n \in Int
        OBVIOUS
      <4> HIDE DEF n
      <4>2. IsFiniteSet(1..n)
        BY <4>1, FS_Interval
      <4> QED BY <4>2 DEF n
    <3>2. \A x \in 1..4 : g[x] \in Fractions
      BY <1>3, <2>4, <2>5
    <3>3. g[1] = b.basis /\ g[2] = basis /\ g[3] = c.basis /\ g[4] = after
      OBVIOUS
    <3> HIDE DEF g
    <3>4. PICK D \in Denominators : \A x \in 1..4 : Serves(D, g[x])
      BY <3>1, <3>2, CommonDenominator
    <3>5. Serves(D, g[1]) /\ Serves(D, g[2]) /\ Serves(D, g[3]) /\ Serves(D, g[4])
      BY <3>4
    <3> QED BY <3>3, <3>5
  <2>7. Val(c.basis, D) * (q + k) = (IF q > 0 THEN Val(b.basis, D) * q ELSE 0) + f.notional * D
    BY <1>2, <2>1, <2>3, <2>6, BuyTripIs DEF q, k
  <2>8. Val(after, D) * (q + k) = (IF q > 0 THEN Val(basis, D) * q ELSE 0) + f.notional * D
    <3>1. CASE q > 0
      BY <1>1, <1>3, <2>2, <2>3, <2>6, <3>1, AveragedVal DEF k
    <3>2. CASE q = 0
      <4>1. Val(after, D) * k = f.notional * D
        BY <1>1, <2>2, <2>6, <3>2, FillPriceVal DEF k
      <4>2. 0 + k = k /\ f.notional * D \in Int
        BY <1>1, <2>6 DEF Denominators
      <4>3. 0 + f.notional * D = f.notional * D
        BY <4>2
      <4> QED BY <3>2, <4>1, <4>2, <4>3
    <3> QED BY <1>3, <3>1, <3>2
  <2>9. q > 0 => Val(b.basis, D) = Val(basis, D)
    BY <1>3, <2>6, SameIsEqualVal DEF q, basis
  <2>10. Val(c.basis, D) = Val(after, D)
    <3>1. Val(c.basis, D) * (q + k) = Val(after, D) * (q + k)
      BY <2>7, <2>8, <2>9
    <3>2. Val(c.basis, D) \in Int /\ Val(after, D) \in Int /\ q + k \in Int /\ q + k # 0
      BY <1>1, <1>3, <2>6, ServedVal
    <3> DEFINE x == Val(c.basis, D)
               y == Val(after, D)
               z == q + k
    <3> HIDE DEF x, y, z
    <3>3. x = y
      BY <3>1, <3>2, Cancel DEF x, y, z
    <3> QED BY <3>3 DEF x, y
  <2> QED BY <2>4, <2>5, <2>6, <2>10, SameIsEqualVal
<1>5. ASSUME f.side = "Sell"
      PROVE  c.qty = q - k /\ (c.qty > 0 => Same(c.basis, after))
  <2>1. c = SellTrip(b, t)
    BY <1>2, <1>5 DEF TakeTrade
  <2>2. c.qty = q - k /\ c.basis = b.basis
    BY <1>1, <1>2, <2>1, SellTripIs
  <2>3. q - k > 0 => after = basis
    BY <1>1, <1>3, <1>5 DEF BasisAfter, SellBasis
  <2>4. q - k > 0 => q > 0
    BY <1>1, <1>3
  <2> QED BY <2>2, <2>3, <2>4
<1>6. ASSUME f.side = "Unknown"
      PROVE  c.qty = q /\ (c.qty > 0 => Same(c.basis, after))
  <2>1. c = b /\ after = basis
    BY <1>2, <1>6 DEF TakeTrade, BasisAfter
  <2> QED BY <2>1
<1>7. /\ f.side = "Buy" => Traded(f.side, k) = k
      /\ f.side = "Sell" => Traded(f.side, k) = -k /\ q - k = q + (-k)
      /\ f.side = "Unknown" => Traded(f.side, k) = 0 /\ q + 0 = q
  BY <1>1, <1>3 DEF Traded
<1> HIDE DEF c, after, q, k
<1>8. c.qty = q + Traded(f.side, k) /\ (c.qty > 0 => Same(c.basis, after))
  BY <1>1, <1>4, <1>5, <1>6, <1>7 DEF Sides
<1> QED BY <1>8 DEF c, after, q, k, t

(* Every call keeps books and account together. *)
LEMMA BooksStep ==
    ASSUME AccountAssumption, TypeOK, BooksInv, TripsKnowTheBasis, [Next]_vars
    PROVE  BooksInv' /\ TripsKnowTheBasis'
<1> DEFINE Known(i, rs, a) ==
             LET book == TripBook(rs, i)
             IN  book.qty = a.qty[i] /\ (book.qty > 0 => Same(book.basis, a.basis[i]))
<1>1. /\ account \in Accounts /\ \A i \in Instruments : account.qty[i] \in Int
      /\ oneSided \subseteq Instruments
  BY DEF TypeOK, Accounts
<1>2. /\ \A i \in Instruments : IsTripBook(TripBook(records, i))
      /\ \A i \in oneSided : account.qty[i] >= 0 /\ Known(i, records, account)
  BY DEF BooksInv, TripsKnowTheBasis
<1> SUFFICES /\ \A i \in Instruments : IsTripBook(TripBook(records', i))
             /\ \A i \in oneSided' : account'.qty[i] >= 0 /\ Known(i, records', account')
  BY DEF BooksInv, TripsKnowTheBasis
<1>3. ASSUME NEW f \in FillReports, Report(f)
      PROVE  /\ \A i \in Instruments : IsTripBook(TripBook(records', i))
             /\ \A i \in oneSided' : account'.qty[i] >= 0 /\ Known(i, records', account')
  <2> DEFINE i == f.instrument
             t == RecordOf(f, FALSE)
  <2>1. /\ f \in Fill /\ i \in Instruments /\ f.qty \in Quantity /\ t \in TradeRecord
        /\ f.side \in Sides
    BY <1>3, ReportTypes
  <2>2. t.qty > 0
    BY <2>1 DEF RecordOf, Quantity
  <2>3. /\ account'.qty = [account.qty EXCEPT ![i] = @ + Traded(f.side, f.qty)]
        /\ account'.basis = [account.basis EXCEPT ![i] = BasisAfter(account, f)]
    BY <1>1, <1>3, <2>1, ReportIs DEF Report
  <2>4. \A j : TripBook(records', j) =
               IF j = i THEN TakeTrade(TripBook(records, j), t) ELSE TripBook(records, j)
    BY <1>3, BookAfterReport
  <2>5. oneSided' = {j \in oneSided : account'.qty[j] >= 0}
    BY <1>3 DEF Report
  <2> HIDE DEF t, i
  <2>6. \A j \in Instruments : IsTripBook(TripBook(records', j))
    <3> TAKE j \in Instruments
    <3>1. IsTripBook(TripBook(records, j))
      BY <1>2
    <3>2. IsTripBook(TakeTrade(TripBook(records, j), t))
      BY <2>1, <2>2, <3>1, TakenBook
    <3> QED BY <2>4, <3>1, <3>2
  <2>7. ASSUME NEW j \in oneSided'
        PROVE  Known(j, records', account')
    <3>1. j \in oneSided /\ j \in Instruments /\ account'.qty[j] >= 0
      BY <1>1, <2>5, <2>7
    <3>2. CASE j # i
      <4>1. account'.qty[j] = account.qty[j] /\ account'.basis[j] = account.basis[j]
        BY <1>1, <2>1, <2>3, <3>1, <3>2 DEF Accounts
      <4>2. TripBook(records', j) = TripBook(records, j)
        BY <2>4, <3>2
      <4> QED BY <1>2, <3>1, <4>1, <4>2
    <3>3. CASE j = i
      <4> DEFINE b == TripBook(records, i)
                 c == TripBook(records', i)
      <4>1. /\ IsTripBook(b) /\ b.qty = account.qty[i] /\ b.qty >= 0
            /\ b.qty > 0 => Same(b.basis, account.basis[i])
        BY <1>2, <2>1, <3>1, <3>3
      <4>2. /\ account'.qty[i] = account.qty[i] + Traded(f.side, f.qty)
            /\ account'.basis[i] = BasisAfter(account, f)
        BY <1>1, <2>1, <2>3 DEF Accounts
      <4>3. c = TakeTrade(b, t)
        BY <2>4
      <4>4. b.qty + Traded(f.side, f.qty) >= 0
        BY <3>1, <3>3, <4>1, <4>2
      <4> HIDE DEF b, c
      <4>5. /\ c.qty = b.qty + Traded(f.side, f.qty)
            /\ c.qty > 0 => Same(c.basis, BasisAfter(account, f))
        BY <1>1, <2>1, <4>1, <4>3, <4>4, BookFollowsAccount DEF i, t
      <4> QED BY <3>3, <4>1, <4>2, <4>5 DEF c
    <3> QED BY <3>2, <3>3
  <2> QED BY <2>5, <2>6, <2>7
<1>4. ASSUME NEW f \in FillReports, Refuse(f)
      PROVE  /\ \A i \in Instruments : IsTripBook(TripBook(records', i))
             /\ \A i \in oneSided' : account'.qty[i] >= 0 /\ Known(i, records', account')
  <2>1. \A j : TripBook(records', j) = TripBook(records, j)
    BY <1>4, BookAfterRefusal
  <2>2. account' = account /\ oneSided' = oneSided
    BY <1>4 DEF Refuse
  <2> QED BY <1>2, <2>1, <2>2
<1>5. ASSUME NEW i \in Instruments, NEW price \in Marks, Mark(i, price)
      PROVE  /\ \A j \in Instruments : IsTripBook(TripBook(records', j))
             /\ \A j \in oneSided' : account'.qty[j] >= 0 /\ Known(j, records', account')
  <2>1. account'.qty = account.qty /\ account'.basis = account.basis
    <3>1. price \in Price /\ account' = UpdateMark(account, i, price)
      BY <1>5 DEF Mark, AccountAssumption
    <3>2. account \in Accounts
      BY <1>1
    <3>3. /\ UpdateMark(account, i, price).qty = account.qty
          /\ UpdateMark(account, i, price).basis = account.basis
      BY <3>1, <3>2, MarkIs
    <3> QED BY <3>1, <3>3
  <2>2. records' = records /\ oneSided' = oneSided
    BY <1>5 DEF Mark
  <2> QED BY <1>2, <2>1, <2>2
<1>6. ASSUME NEW i \in Instruments, NEW price \in Marks, Close(i, price)
      PROVE  /\ \A j \in Instruments : IsTripBook(TripBook(records', j))
             /\ \A j \in oneSided' : account'.qty[j] >= 0 /\ Known(j, records', account')
  <2>1. account'.qty = [account.qty EXCEPT ![i] = 0] /\ account'.basis = account.basis
    BY <1>1, <1>6, CloseIs DEF Close, AccountAssumption
  <2>2. records' = records
        /\ oneSided' = IF account.qty[i] = 0 THEN oneSided ELSE oneSided \ {i}
    BY <1>6 DEF Close
  <2>3. \A j \in oneSided' : j \in oneSided /\ account'.qty[j] = account.qty[j]
    BY <1>1, <2>1, <2>2 DEF Accounts
  <2> QED BY <1>2, <2>1, <2>2, <2>3
<1>7. ASSUME UNCHANGED vars
      PROVE  /\ \A j \in Instruments : IsTripBook(TripBook(records', j))
             /\ \A j \in oneSided' : account'.qty[j] >= 0 /\ Known(j, records', account')
  BY <1>2, <1>7 DEF vars
<1> QED BY <1>3, <1>4, <1>5, <1>6, <1>7 DEF Next

(***************************************************************************)
(* compute_win_rate keeps positions and cost bases of its own.  Of an      *)
(* instrument that was never short nor force-closed, they are those of     *)
(* the account, however it was bought and sold.  (compute_win_rate,        *)
(* metrics/lib.rs; report_fill, runner/account.rs)                         *)
(***************************************************************************)
THEOREM TripBooksAreTheAccounts ==
    ASSUME AccountAssumption
    PROVE  Spec => []TripsKnowTheBasis
<1>1. Init => TypeOK /\ BooksInv /\ TripsKnowTheBasis
  BY TypeInit, BooksInit
<1>2. TypeOK /\ BooksInv /\ TripsKnowTheBasis /\ [Next]_vars
         => TypeOK' /\ BooksInv' /\ TripsKnowTheBasis'
  BY TypeStep, BooksStep
<1> QED BY <1>1, <1>2, PTL DEF Spec

-----------------------------------------------------------------------------
(* The win rate *)

(* A positive factor keeps the order. *)
LEMMA Magnified ==
    ASSUME NEW x \in Int, NEW y \in Int, NEW z \in Int, z > 0
    PROVE  x * z > y * z <=> x > y
<1>1. ASSUME x > y
      PROVE  x * z > y * z
  <2>1. (x - y) * z > 0 /\ (x - y) * z = x * z - y * z
    BY <1>1
  <2>2. x * z \in Int /\ y * z \in Int
    OBVIOUS
  <2> QED BY <2>1, <2>2
<1>2. ASSUME x <= y
      PROVE  x * z <= y * z
  <2>1. (y - x) * z >= 0 /\ (y - x) * z = y * z - x * z
    BY <1>2
  <2>2. x * z \in Int /\ y * z \in Int
    OBVIOUS
  <2> QED BY <2>1, <2>2
<1> DEFINE a == x * z
           b == y * z
<1>3. a \in Int /\ b \in Int
  OBVIOUS
<1> HIDE DEF a, b
<1>4. (x > y => a > b) /\ (x <= y => a <= b)
  BY <1>1, <1>2 DEF a, b
<1>5. a > b <=> x > y
  BY <1>3, <1>4
<1> QED BY <1>5 DEF a, b

(* The larger of two fractions has the larger value. *)
LEMMA LargerVal ==
    ASSUME NEW f \in Fractions, NEW g \in Fractions, NEW D \in Denominators,
           Serves(D, f), Serves(D, g)
    PROVE  f[1] * g[2] > g[1] * f[2] <=> Val(f, D) > Val(g, D)
<1> DEFINE n == Val(f, D)
           m == Val(g, D)
           x == f[1] * g[2]
           y == g[1] * f[2]
           z == f[2] * g[2]
<1>1. n \in Int /\ m \in Int /\ f[1] * D = n * f[2] /\ g[1] * D = m * g[2]
  BY ServedVal DEF IsVal
<1>2. /\ f[1] \in Int /\ f[2] \in Int /\ g[1] \in Int /\ g[2] \in Int /\ D \in Int
      /\ D > 0 /\ f[2] > 0 /\ g[2] > 0
  BY DEF Fractions, Denominators
<1> HIDE DEF n, m
<1>3. x * D = n * z
  <2>1. (f[1] * g[2]) * D = (f[1] * D) * g[2]
    BY <1>2
  <2>2. (n * f[2]) * g[2] = n * (f[2] * g[2])
    BY <1>1, <1>2
  <2> QED BY <1>1, <2>1, <2>2
<1>4. y * D = m * z
  <2>1. (g[1] * f[2]) * D = (g[1] * D) * f[2]
    BY <1>2
  <2>2. (m * g[2]) * f[2] = m * (f[2] * g[2])
    BY <1>1, <1>2
  <2> QED BY <1>1, <2>1, <2>2
<1>5. x \in Int /\ y \in Int /\ z \in Int /\ z > 0
  BY <1>2
<1> HIDE DEF x, y, z
<1>6. x * D > y * D <=> x > y
  BY <1>2, <1>5, Magnified
<1>7. n * z > m * z <=> n > m
  BY <1>1, <1>5, Magnified
<1>8. x > y <=> n > m
  BY <1>3, <1>4, <1>6, <1>7
<1> QED BY <1>8 DEF x, y, n, m

(* A fraction has the sign of its numerator. *)
LEMMA SignVal ==
    ASSUME NEW f \in Fractions, NEW D \in Denominators, Serves(D, f)
    PROVE  /\ f[1] > 0 <=> Val(f, D) > 0
           /\ f[1] < 0 <=> Val(f, D) < 0
<1> DEFINE n == Val(f, D)
           x == f[1] * D
           y == n * f[2]
<1>1. /\ n \in Int /\ x = y /\ f[1] \in Int /\ f[2] \in Int /\ f[2] > 0 /\ D \in Int /\ D > 0
      /\ 0 \in Int
  BY ServedVal DEF IsVal, Fractions, Denominators
<1> HIDE DEF n
<1>2. 0 * D = 0 /\ 0 * f[2] = 0
  BY <1>1
<1>3. (f[1] * D > 0 * D <=> f[1] > 0) /\ (0 * D > f[1] * D <=> 0 > f[1])
  BY <1>1, Magnified
<1>4. (n * f[2] > 0 * f[2] <=> n > 0) /\ (0 * f[2] > n * f[2] <=> 0 > n)
  BY <1>1, Magnified
<1>5. x \in Int /\ y \in Int
  BY <1>1
<1>6. (x > 0 <=> f[1] > 0) /\ (0 > x <=> 0 > f[1]) /\ (y > 0 <=> n > 0) /\ (0 > y <=> 0 > n)
  BY <1>2, <1>3, <1>4
<1> HIDE DEF x, y
<1>7. (f[1] > 0 <=> n > 0) /\ (f[1] < 0 <=> n < 0)
  BY <1>1, <1>5, <1>6
<1> QED BY <1>7 DEF n

(* Two fractions serve a common denominator. *)
LEMMA PairDenominator ==
    ASSUME NEW f \in Fractions, NEW g \in Fractions
    PROVE  \E D \in Denominators : Serves(D, f) /\ Serves(D, g)
<1>1. f[2] \in Denominators /\ g[2] \in Denominators
  BY DEF Fractions, Denominators
<1>2. f[2] * g[2] \in Denominators /\ f[2] * g[2] = g[2] * f[2]
  BY <1>1 DEF Denominators
<1>3. Serves(f[2] * g[2], f) /\ Serves(g[2] * f[2], g)
  BY <1>1, OwnDenominator
<1> QED BY <1>2, <1>3

(* The sign of a sum. *)
LEMMA PlusSign ==
    ASSUME NEW f \in Fractions, NEW g \in Fractions
    PROVE  LET n == f[1]
               m == g[1]
               k == Plus(f, g)[1]
           IN  /\ n <= 0 /\ m <= 0 => k <= 0
               /\ n >= 0 /\ m >= 0 => k >= 0
               /\ n >= 0 /\ m > 0  => k > 0
               /\ n > 0  /\ m >= 0 => k > 0
<1>1. PICK D \in Denominators : Serves(D, f) /\ Serves(D, g)
  BY PairDenominator
<1> DEFINE h == Plus(f, g)
           x == Val(f, D)
           y == Val(g, D)
           z == Val(h, D)
<1>2. h \in Fractions /\ Serves(D, h) /\ z = x + y
  BY <1>1, PlusVal
<1>3. x \in Int /\ y \in Int
  BY <1>1, ServedVal
<1>4. f[1] \in Int /\ g[1] \in Int /\ h[1] \in Int
  BY <1>2 DEF Fractions
<1> HIDE DEF h
<1>5. /\ (f[1] > 0 <=> x > 0) /\ (f[1] < 0 <=> x < 0)
      /\ (g[1] > 0 <=> y > 0) /\ (g[1] < 0 <=> y < 0)
      /\ (h[1] > 0 <=> z > 0) /\ (h[1] < 0 <=> z < 0)
  BY <1>1, <1>2, SignVal
<1> DEFINE n == f[1]
           m == g[1]
           k == h[1]
<1> HIDE DEF x, y, z, n, m, k
<1>6. /\ n <= 0 /\ m <= 0 => k <= 0
      /\ n >= 0 /\ m >= 0 => k >= 0
      /\ n >= 0 /\ m > 0  => k > 0
      /\ n > 0  /\ m >= 0 => k > 0
  BY <1>2, <1>3, <1>4, <1>5 DEF n, m, k
<1> QED BY <1>6 DEF n, m, k, h

(***************************************************************************)
(* Of an instrument that is not short before or after it, a fill is a trip *)
(* exactly if it closes something, and a winning one if that was at a      *)
(* profit.                                                                 *)
(***************************************************************************)
LEMMA TripIsProfit ==
    ASSUME AccountAssumption, TypeOK, NEW f \in FillReports, Report(f),
           NEW b, IsTripBook(b), b.qty = account.qty[f.instrument], b.qty >= 0,
           b.qty > 0 => Same(b.basis, account.basis[f.instrument]),
           b.qty + Traded(f.side, f.qty) >= 0
    PROVE  \E dt \in {0, 1}, dw \in {0, 1} :
             LET c == TakeTrade(b, RecordOf(f, FALSE))
                 gain == Profit(f.instrument, ClosedQty(f.instrument, f.side, f.qty), FillPrice(f))
             IN  /\ c.trips = b.trips + dt /\ c.wins = b.wins + dw /\ dw <= dt
                 /\ gain \in Fractions
                 /\ dw = 1 => gain[1] > 0
                 /\ dw = 0 => gain[1] <= 0
                 /\ dt = 0 => gain[1] = 0
<1> DEFINE i == f.instrument
           t == RecordOf(f, FALSE)
           c == TakeTrade(b, t)
           p == FillPrice(f)
           k == f.qty
           q == b.qty
           closed == ClosedQty(i, f.side, k)
           gain == Profit(i, closed, p)
           basis == account.basis[i]
<1>1. /\ f \in Fill /\ i \in Instruments /\ f.side \in Sides /\ k \in Quantity
      /\ p \in Fractions /\ t \in TradeRecord
  BY ReportTypes
<1>2. k \in Int /\ k > 0 /\ account \in Accounts /\ basis \in Fractions
  BY <1>1 DEF Quantity, TypeOK, Accounts
<1>3. /\ q \in Int /\ q >= 0 /\ b.basis \in Fractions
      /\ b.trips \in Int /\ b.wins \in Int
  BY DEF IsTripBook, TripBooks
<1>4. /\ closed \in Int
      /\ f.side = "Sell" => closed = IF q <= 0 THEN 0 ELSE IF q <= k THEN q ELSE k
      /\ f.side = "Buy"  => closed = IF q >= 0 THEN 0 ELSE IF -q <= k THEN q ELSE -k
      /\ f.side = "Unknown" => closed = 0
  BY <1>1, <1>2, ClosedIs
<1>5. t.side = f.side /\ t.qty = k /\ FillPrice(t) = p
  BY DEF RecordOf, FillPrice
<1>6. PICK D \in Denominators : Serves(D, p) /\ Serves(D, basis)
  BY <1>1, <1>2, PairDenominator
<1> DEFINE P == Val(p, D)
           v == Val(basis, D)
           g == Val(gain, D)
<1>7. P \in Int /\ v \in Int /\ MoneyScale \in Int /\ MoneyScale > 0
  BY <1>6, ServedVal DEF MoneyScale
<1>8. gain \in Fractions /\ Serves(D, gain) /\ g = (P - v) * (closed * MoneyScale)
  <2> HIDE DEF closed, p, i
  <2> QED BY <1>1, <1>2, <1>4, <1>6, ProfitVal DEF i
<1>9. (gain[1] > 0 <=> g > 0) /\ (gain[1] < 0 <=> g < 0) /\ gain[1] \in Int /\ g \in Int
  <2>1. gain[1] \in Int /\ g \in Int
    BY <1>8, ServedVal DEF Fractions
  <2> HIDE DEF gain
  <2>2. (gain[1] > 0 <=> Val(gain, D) > 0) /\ (gain[1] < 0 <=> Val(gain, D) < 0)
    BY <1>8, SignVal
  <2> QED BY <2>1, <2>2
<1>10. ASSUME closed = 0, c.trips = b.trips, c.wins = b.wins
       PROVE  \E dt \in {0, 1}, dw \in {0, 1} :
                 /\ c.trips = b.trips + dt /\ c.wins = b.wins + dw /\ dw <= dt
                 /\ dw = 1 => gain[1] > 0
                 /\ dw = 0 => gain[1] <= 0
                 /\ dt = 0 => gain[1] = 0
  <2>1. g = 0
    <3> HIDE DEF g, P, v, closed
    <3>1. (P - v) * (0 * MoneyScale) = 0
      BY <1>7
    <3> QED BY <1>8, <1>10, <3>1
  <2> HIDE DEF g, gain, c
  <2>2. gain[1] = 0
    BY <1>9, <2>1
  <2>3. c.trips = b.trips + 0 /\ c.wins = b.wins + 0
    BY <1>3, <1>10
  <2> QED BY <2>2, <2>3
<1>11. ASSUME f.side = "Buy"
       PROVE  closed = 0 /\ c.trips = b.trips /\ c.wins = b.wins
  <2>1. c = BuyTrip(b, t)
    BY <1>5, <1>11 DEF TakeTrade
  <2>2. c.trips = b.trips /\ c.wins = b.wins
    BY <2>1 DEF BuyTrip, IsTripBook, TripBooks
  <2> QED BY <1>3, <1>4, <1>11, <2>2
<1>12. ASSUME f.side = "Unknown"
       PROVE  closed = 0 /\ c.trips = b.trips /\ c.wins = b.wins
  <2>1. c = b
    BY <1>5, <1>12 DEF TakeTrade
  <2> QED BY <1>4, <1>12, <2>1
<1>13. ASSUME f.side = "Sell"
       PROVE  \E dt \in {0, 1}, dw \in {0, 1} :
                 /\ c.trips = b.trips + dt /\ c.wins = b.wins + dw /\ dw <= dt
                 /\ dw = 1 => gain[1] > 0
                 /\ dw = 0 => gain[1] <= 0
                 /\ dt = 0 => gain[1] = 0
  <2> DEFINE won == p[1] * b.basis[2] > b.basis[1] * p[2]
             dw == IF won THEN 1 ELSE 0
  <2>1. Traded(f.side, k) = -k /\ q + (-k) >= 0
    BY <1>13 DEF Traded
  <2>2. q > 0 /\ k <= q /\ closed = k
    BY <1>2, <1>3, <1>4, <1>13, <2>1
  <2>3. c = SellTrip(b, t)
    BY <1>5, <1>13 DEF TakeTrade
  <2>4. c.trips = b.trips + 1 /\ c.wins = b.wins + dw
    <3> HIDE DEF c, p, t, k, q
    <3>1. t.qty > 0 /\ b.qty > 0 /\ t.qty <= b.qty
      BY <1>2, <1>5, <2>2 DEF q
    <3> QED BY <1>1, <1>5, <2>3, <3>1, SellTripIs
  <2>5. Serves(D, b.basis) /\ Val(b.basis, D) = v
    <3>1. Same(basis, b.basis)
      <4>1. Same(b.basis, basis)
        BY <2>2
      <4> QED BY <4>1 DEF Same
    <3> HIDE DEF basis
    <3> QED BY <1>2, <1>3, <1>6, <3>1, ServesSame
  <2>6. won <=> P > v
    <3> HIDE DEF p
    <3> QED BY <1>1, <1>3, <1>6, <2>5, LargerVal
  <2>7. (g > 0 <=> P > v) /\ (P <= v => g <= 0)
    <3> DEFINE z == closed * MoneyScale
               x == P - v
    <3>1. z \in Int /\ z > 0 /\ x \in Int /\ g = x * z
      <4>1. k * MoneyScale > 0 /\ k * MoneyScale \in Int
        BY <1>2, <1>7
      <4> QED BY <1>7, <1>8, <2>2, <4>1
    <3>2. (x > 0 <=> P > v) /\ (P <= v => x <= 0)
      BY <1>7
    <3> HIDE DEF x, z, P, v, g
    <3>3. 0 * z = 0 /\ (x * z > 0 * z <=> x > 0)
      BY <3>1, Magnified
    <3>4. g > 0 <=> x > 0
      BY <3>1, <3>3
    <3>5. P <= v => g <= 0
      BY <1>9, <3>1, <3>2, <3>4
    <3> QED BY <3>2, <3>4, <3>5
  <2> HIDE DEF c, gain, g, P, v, won
  <2>8. /\ dw \in {0, 1} /\ dw <= 1
        /\ dw = 1 => gain[1] > 0
        /\ dw = 0 => gain[1] <= 0
    BY <1>7, <1>9, <2>6, <2>7
  <2> HIDE DEF dw
  <2> QED BY <2>4, <2>8
<1>14. \E dt \in {0, 1}, dw \in {0, 1} :
          /\ c.trips = b.trips + dt /\ c.wins = b.wins + dw /\ dw <= dt
          /\ dw = 1 => gain[1] > 0
          /\ dw = 0 => gain[1] <= 0
          /\ dt = 0 => gain[1] = 0
  <2> HIDE DEF c, gain, closed
  <2> QED BY <1>1, <1>10, <1>11, <1>12, <1>13 DEF Sides
<1> QED BY <1>8, <1>14

(* The trips and wins counted over all instruments. *)
LEMMA CountsType ==
    ASSUME IsFiniteSet(Instruments), NEW s,
           \A i \in Instruments : IsTripBook(TripBook(s, i))
    PROVE  Trips(s) \in Nat /\ Wins(s) \in Nat /\ Wins(s) <= Trips(s)
<1> DEFINE f == [i \in Instruments |-> TripBook(s, i).trips]
           g == [i \in Instruments |-> TripBook(s, i).wins]
<1>1. \A i \in Instruments : f[i] \in Nat /\ g[i] \in Nat /\ g[i] <= f[i]
  BY DEF IsTripBook, TripBooks
<1>2. Trips(s) = SumFunctionOnSet(f, Instruments) /\ Wins(s) = SumFunctionOnSet(g, Instruments)
  BY DEF Trips, Wins
<1> HIDE DEF f, g
<1>3. SumFunctionOnSet(f, Instruments) \in Nat /\ SumFunctionOnSet(g, Instruments) \in Nat
  BY <1>1, SumNatural
<1>4. \A i \in Instruments : f[i] \in Int /\ g[i] \in Int /\ g[i] <= f[i]
  BY <1>1
<1>5. SumFunctionOnSet(g, Instruments) <= SumFunctionOnSet(f, Instruments)
  BY <1>4, SumMonotonic
<1> QED BY <1>2, <1>3, <1>5

(* Where one book changes, the counts change as that book's do. *)
LEMMA CountsChange ==
    ASSUME IsFiniteSet(Instruments), NEW s, NEW r, NEW j \in Instruments,
           \A i \in Instruments : IsTripBook(TripBook(s, i)) /\ IsTripBook(TripBook(r, i)),
           \A i \in Instruments \ {j} : TripBook(r, i) = TripBook(s, i),
           NEW dt \in Int, TripBook(r, j).trips = TripBook(s, j).trips + dt,
           NEW dw \in Int, TripBook(r, j).wins = TripBook(s, j).wins + dw
    PROVE  Trips(r) = Trips(s) + dt /\ Wins(r) = Wins(s) + dw
<1>1. Trips(r) = Trips(s) + dt
  <2> DEFINE f == [i \in Instruments |-> TripBook(s, i).trips]
             g == [i \in Instruments |-> TripBook(r, i).trips]
  <2>1. /\ \A i \in Instruments : f[i] \in Int /\ g[i] \in Int
        /\ \A i \in Instruments \ {j} : g[i] = f[i]
        /\ g[j] = f[j] + dt
    BY DEF IsTripBook, TripBooks
  <2>2. Trips(s) = SumFunctionOnSet(f, Instruments) /\ Trips(r) = SumFunctionOnSet(g, Instruments)
    BY DEF Trips
  <2> HIDE DEF f, g
  <2>3. SumFunctionOnSet(g, Instruments) = SumFunctionOnSet(f, Instruments) - f[j] + g[j]
    BY <2>1, SumChange
  <2>4. SumFunctionOnSet(f, Instruments) \in Int /\ f[j] \in Int
    BY <2>1, SumType
  <2> QED BY <2>1, <2>2, <2>3, <2>4
<1>2. Wins(r) = Wins(s) + dw
  <2> DEFINE f == [i \in Instruments |-> TripBook(s, i).wins]
             g == [i \in Instruments |-> TripBook(r, i).wins]
  <2>1. /\ \A i \in Instruments : f[i] \in Int /\ g[i] \in Int
        /\ \A i \in Instruments \ {j} : g[i] = f[i]
        /\ g[j] = f[j] + dw
    BY DEF IsTripBook, TripBooks
  <2>2. Wins(s) = SumFunctionOnSet(f, Instruments) /\ Wins(r) = SumFunctionOnSet(g, Instruments)
    BY DEF Wins
  <2> HIDE DEF f, g
  <2>3. SumFunctionOnSet(g, Instruments) = SumFunctionOnSet(f, Instruments) - f[j] + g[j]
    BY <2>1, SumChange
  <2>4. SumFunctionOnSet(f, Instruments) \in Int /\ f[j] \in Int
    BY <2>1, SumType
  <2> QED BY <2>1, <2>2, <2>3, <2>4
<1> QED BY <1>1, <1>2

(* Only a record of a fill is a completed one. *)
LEMMA CompletedGrows ==
    ASSUME NEW s \in Seq(TradeRecord), NEW t \in TradeRecord
    PROVE  Completed(Append(s, t)) =
               IF ~t.rejected /\ t.qty > 0 THEN Completed(s) \union {Len(s) + 1}
                                           ELSE Completed(s)
BY AppendedTrade DEF Completed, Accepted

(* What n trips of which w are won say of the sign of what was gained. *)
Tells(n, w, gained) ==
    /\ w = 0 => gained <= 0
    /\ w = n => gained >= 0
    /\ w = n /\ n > 0 => gained > 0

(***************************************************************************)
(* Trips are counted of completed trades only; and where nothing was ever  *)
(* short or force-closed, the wins tell the sign of the realized profit.   *)
(***************************************************************************)
WinInv ==
    /\ Completed(records) = {} => Trips(records) = 0
    /\ oneSided = Instruments => Tells(Trips(records), Wins(records), realized[1])

(* Nothing is counted and nothing gained at the start; *)
LEMMA WinInit ==
    ASSUME AccountAssumption, Init
    PROVE  WinInv
<1>1. IsFiniteSet(Instruments)
  BY DEF AccountAssumption
<1>2. \A i : TripBook(records, i) = NewTripBook
  BY NoTrips DEF Init
<1>3. Trips(records) = 0 /\ Wins(records) = 0
  <2> DEFINE f == [i \in Instruments |-> TripBook(records, i).trips]
             g == [i \in Instruments |-> TripBook(records, i).wins]
  <2>1. \A i \in Instruments : f[i] = 0 /\ g[i] = 0
    BY <1>2 DEF NewTripBook
  <2>2. Trips(records) = SumFunctionOnSet(f, Instruments)
        /\ Wins(records) = SumFunctionOnSet(g, Instruments)
    BY DEF Trips, Wins
  <2> HIDE DEF f, g
  <2> QED BY <1>1, <2>1, <2>2, SumOfZeros
<1>4. realized[1] = 0
  BY DEF Init, Zero
<1> QED BY <1>3, <1>4 DEF WinInv, Tells

(* a fill that is a trip adds its gain, *)
LEMMA WinAfterReport ==
    ASSUME AccountAssumption, TypeOK, BooksInv, TripsKnowTheBasis, WinInv,
           BooksInv', oneSided' = Instruments, NEW f \in FillReports, Report(f)
    PROVE  Tells(Trips(records'), Wins(records'), realized'[1])
<1> DEFINE i == f.instrument
           t == RecordOf(f, FALSE)
           b == TripBook(records, i)
           c == TripBook(records', i)
           gain == Profit(i, ClosedQty(i, f.side, f.qty), FillPrice(f))
<1>1. /\ f \in Fill /\ i \in Instruments /\ account \in Accounts /\ realized \in Fractions
      /\ IsFiniteSet(Instruments) /\ f.qty \in Quantity /\ f.side \in Sides
  BY ReportTypes DEF TypeOK, AccountAssumption
<1>2. oneSided = Instruments /\ \A j \in Instruments : account'.qty[j] >= 0
  BY DEF Report, TypeOK
<1>3. c = TakeTrade(b, t) /\ \A j \in Instruments \ {i} : TripBook(records', j) = TripBook(records, j)
  BY BookAfterReport
<1>4. /\ \A j \in Instruments : IsTripBook(TripBook(records, j)) /\ IsTripBook(TripBook(records', j))
      /\ b.qty = account.qty[i] /\ b.qty >= 0
      /\ b.qty > 0 => Same(b.basis, account.basis[i])
  BY <1>1, <1>2 DEF BooksInv, TripsKnowTheBasis
<1>5. b.qty + Traded(f.side, f.qty) >= 0
  <2>1. account'.qty = [account.qty EXCEPT ![i] = @ + Traded(f.side, f.qty)]
    BY <1>1, ReportIs DEF Report
  <2>2. account'.qty[i] = account.qty[i] + Traded(f.side, f.qty)
    BY <1>1, <2>1 DEF Accounts
  <2> QED BY <1>1, <1>2, <1>4, <2>2
<1>6. PICK dt \in {0, 1}, dw \in {0, 1} :
         /\ c.trips = b.trips + dt /\ c.wins = b.wins + dw /\ dw <= dt
         /\ gain \in Fractions
         /\ dw = 1 => gain[1] > 0
         /\ dw = 0 => gain[1] <= 0
         /\ dt = 0 => gain[1] = 0
  <2> HIDE DEF b
  <2>1. IsTripBook(b)
    BY <1>1, <1>4 DEF b
  <2>2. /\ b.qty = account.qty[f.instrument] /\ b.qty >= 0
        /\ b.qty > 0 => Same(b.basis, account.basis[f.instrument])
        /\ b.qty + Traded(f.side, f.qty) >= 0
    BY <1>4, <1>5
  <2>3. \E dt \in {0, 1}, dw \in {0, 1} :
          LET d == TakeTrade(b, RecordOf(f, FALSE))
              won == Profit(f.instrument, ClosedQty(f.instrument, f.side, f.qty), FillPrice(f))
          IN  /\ d.trips = b.trips + dt /\ d.wins = b.wins + dw /\ dw <= dt
              /\ won \in Fractions
              /\ dw = 1 => won[1] > 0
              /\ dw = 0 => won[1] <= 0
              /\ dt = 0 => won[1] = 0
    <3> HIDE DEF i, t, c, gain
    <3> QED BY <2>1, <2>2, TripIsProfit
  <2> QED BY <1>3, <2>3
<1>7. Trips(records') = Trips(records) + dt /\ Wins(records') = Wins(records) + dw
  <2>1. dt \in Int /\ dw \in Int
    OBVIOUS
  <2> HIDE DEF i
  <2> QED BY <1>1, <1>3, <1>4, <1>6, <2>1, CountsChange
<1>8. /\ Trips(records) \in Nat /\ Wins(records) \in Nat /\ Wins(records) <= Trips(records)
  BY <1>1, <1>4, CountsType
<1>9. Tells(Trips(records), Wins(records), realized[1])
  BY <1>2 DEF WinInv
<1>10. realized' = Plus(realized, gain)
  BY DEF Report
<1> DEFINE n == Trips(records)
           w == Wins(records)
           x == realized[1]
           y == gain[1]
           z == Plus(realized, gain)[1]
<1>11. x \in Int /\ y \in Int /\ z \in Int
  <2>1. Plus(realized, gain) \in Fractions
    BY <1>1, <1>6, PlusType
  <2> QED BY <1>1, <1>6, <2>1 DEF Fractions
<1>12. /\ x <= 0 /\ y <= 0 => z <= 0
       /\ x >= 0 /\ y >= 0 => z >= 0
       /\ x >= 0 /\ y > 0  => z > 0
       /\ x > 0  /\ y >= 0 => z > 0
  <2> HIDE DEF gain
  <2> QED BY <1>1, <1>6, PlusSign
<1>13. (dw = 1 => y > 0) /\ (dw = 0 => y <= 0) /\ (dt = 0 => y = 0) /\ dw <= dt
  BY <1>6
<1>14. n \in Nat /\ w \in Nat /\ w <= n /\ Tells(n, w, x)
  BY <1>8, <1>9
<1> HIDE DEF x, y, z, n, w
<1>15. Tells(n + dt, w + dw, z)
  <2>1. w + dw = 0 => w = 0 /\ dw = 0
    BY <1>14
  <2>2. w + dw = n + dt => w = n /\ dw = dt
    BY <1>13, <1>14
  <2>3. w + dw = 0 => z <= 0
    BY <1>12, <1>13, <1>14, <2>1 DEF Tells
  <2>4. ASSUME w + dw = n + dt
        PROVE  z >= 0 /\ (n + dt > 0 => z > 0)
    <3>1. w = n /\ dw = dt /\ x >= 0 /\ (n > 0 => x > 0)
      BY <1>14, <2>2, <2>4 DEF Tells
    <3>2. CASE dt = 0
      BY <1>11, <1>12, <1>13, <1>14, <3>1, <3>2
    <3>3. CASE dt = 1
      BY <1>11, <1>12, <1>13, <3>1, <3>3
    <3> QED BY <3>2, <3>3
  <2> QED BY <2>3, <2>4 DEF Tells
<1> QED BY <1>7, <1>10, <1>15 DEF n, w, z

(* and a forced close of nothing adds none. *)
LEMMA WinAfterClose ==
    ASSUME AccountAssumption, TypeOK, WinInv, oneSided' = Instruments,
           NEW i \in Instruments, NEW price \in Marks, Close(i, price)
    PROVE  Tells(Trips(records), Wins(records), realized'[1])
<1> DEFINE gain == Profit(i, account.qty[i], WholePrice(price))
<1>1. account.qty[i] = 0 /\ oneSided = Instruments
  BY DEF Close
<1>2. /\ realized \in Fractions /\ account \in Accounts /\ 0 \in Int
      /\ WholePrice(price) \in Fractions /\ account.basis[i] \in Fractions
  BY DEF TypeOK, Accounts, AccountAssumption, WholePrice, Fractions, Price
<1>3. PICK D \in Denominators : Serves(D, WholePrice(price)) /\ Serves(D, account.basis[i])
  BY <1>2, PairDenominator
<1>4. /\ gain \in Fractions /\ Serves(D, gain)
      /\ Val(gain, D) = (Val(WholePrice(price), D) - Val(account.basis[i], D)) * (0 * MoneyScale)
  <2> DEFINE p == WholePrice(price)
  <2>1. p \in Fractions /\ Serves(D, p)
    BY <1>2, <1>3
  <2> HIDE DEF p
  <2>2. LET g == Profit(i, 0, p)
        IN  /\ g \in Fractions /\ Serves(D, g)
            /\ Val(g, D) = (Val(p, D) - Val(account.basis[i], D)) * (0 * MoneyScale)
    BY <1>2, <1>3, <2>1, ProfitVal
  <2> QED BY <1>1, <2>2 DEF p
<1>5. Val(gain, D) = 0
  <2>1. Val(WholePrice(price), D) \in Int /\ Val(account.basis[i], D) \in Int
    BY <1>2, <1>3, ServedVal
  <2>2. 0 * MoneyScale = 0
    BY DEF MoneyScale
  <2> DEFINE x == Val(WholePrice(price), D) - Val(account.basis[i], D)
  <2>3. x \in Int
    BY <2>1
  <2> HIDE DEF x
  <2>4. x * 0 = 0
    BY <2>3
  <2> QED BY <1>4, <2>2, <2>4 DEF x
<1> DEFINE x == realized[1]
           y == gain[1]
           z == Plus(realized, gain)[1]
<1>6. x \in Int /\ y \in Int /\ z \in Int
  <2>1. Plus(realized, gain) \in Fractions
    BY <1>2, <1>4, PlusType
  <2> QED BY <1>2, <1>4, <2>1 DEF Fractions
<1>7. y = 0
  <2> HIDE DEF gain
  <2>1. (gain[1] > 0 <=> Val(gain, D) > 0) /\ (gain[1] < 0 <=> Val(gain, D) < 0)
    BY <1>4, SignVal
  <2> QED BY <1>5, <1>6, <2>1
<1>8. /\ x <= 0 /\ y <= 0 => z <= 0
      /\ x >= 0 /\ y >= 0 => z >= 0
      /\ x > 0  /\ y >= 0 => z > 0
  <2> HIDE DEF gain
  <2> QED BY <1>2, <1>4, PlusSign
<1>9. Tells(Trips(records), Wins(records), x)
  BY <1>1 DEF WinInv
<1>10. realized'[1] = z
  BY DEF Close
<1> HIDE DEF x, y, z
<1> QED BY <1>7, <1>8, <1>9, <1>10 DEF Tells

(* Every call keeps the wins telling. *)
LEMMA WinStep ==
    ASSUME AccountAssumption, TypeOK, BooksInv, TripsKnowTheBasis, WinInv, [Next]_vars
    PROVE  WinInv'
<1>1. ASSUME NEW f \in FillReports, Report(f)
      PROVE  WinInv'
  <2>1. BooksInv'
    BY BooksStep
  <2>2. Completed(records') # {}
    <3> DEFINE t == RecordOf(f, FALSE)
    <3>1. /\ t \in TradeRecord /\ records' = Append(records, t) /\ records \in Seq(TradeRecord)
          /\ f.qty \in Quantity
      BY <1>1, ReportTypes DEF TypeOK
    <3>2. ~t.rejected /\ t.qty > 0
      BY <3>1 DEF RecordOf, Quantity
    <3> HIDE DEF t
    <3>3. Completed(Append(records, t)) = Completed(records) \union {Len(records) + 1}
      BY <3>1, <3>2, CompletedGrows
    <3> QED BY <3>1, <3>3
  <2>3. oneSided' = Instruments => Tells(Trips(records'), Wins(records'), realized'[1])
    BY <1>1, <2>1, WinAfterReport
  <2> QED BY <2>2, <2>3 DEF WinInv
<1>2. ASSUME NEW f \in FillReports, Refuse(f)
      PROVE  WinInv'
  <2>1. \A i : TripBook(records', i) = TripBook(records, i)
    BY <1>2, BookAfterRefusal
  <2>2. Trips(records') = Trips(records) /\ Wins(records') = Wins(records)
    BY <2>1 DEF Trips, Wins
  <2>3. Completed(records') = Completed(records)
    <3> DEFINE t == RecordOf(f, TRUE)
    <3>1. t \in TradeRecord /\ records \in Seq(TradeRecord)
      BY DEF RecordOf, TradeRecord, AccountAssumption, Fill, TypeOK
    <3>2. t.rejected /\ records' = Append(records, t)
      BY <1>2 DEF RecordOf, Refuse
    <3> HIDE DEF t
    <3> QED BY <3>1, <3>2, CompletedGrows
  <2>4. oneSided' = oneSided /\ realized' = realized
    BY <1>2 DEF Refuse
  <2> QED BY <2>2, <2>3, <2>4 DEF WinInv
<1>3. ASSUME NEW i \in Instruments, NEW price \in Marks, Mark(i, price)
      PROVE  WinInv'
  BY <1>3 DEF Mark, WinInv
<1>4. ASSUME NEW i \in Instruments, NEW price \in Marks, Close(i, price)
      PROVE  WinInv'
  <2>1. records' = records
    BY <1>4 DEF Close
  <2>2. oneSided' = Instruments => Tells(Trips(records), Wins(records), realized'[1])
    BY <1>4, WinAfterClose
  <2> QED BY <2>1, <2>2 DEF WinInv
<1>5. CASE UNCHANGED vars
  BY <1>5 DEF vars, WinInv
<1> QED BY <1>1, <1>2, <1>3, <1>4, <1>5 DEF Next

(* The win rate as the summary gives it. *)
LEMMA WinRateTells ==
    ASSUME AccountAssumption, BooksInv, WinInv
    PROVE  WinRateIsHonest
<1> DEFINE n == Trips(records)
           w == Wins(records)
           rate == Metrics(records, account).winRate
           x == realized[1]
<1> SUFFICES ASSUME oneSided = Instruments
             PROVE  (rate = Zero => x <= 0) /\ (Same(rate, <<1, 1>>) => x > 0)
  BY DEF WinRateIsHonest
<1>1. n \in Nat /\ w \in Nat /\ w <= n
  BY CountsType DEF BooksInv, AccountAssumption
<1>2. Tells(n, w, x) /\ (Completed(records) = {} => n = 0)
  BY DEF WinInv
<1>3. rate = IF Completed(records) = {} \/ n = 0 THEN Zero ELSE Frac(w, n)
  BY DEF Metrics
<1> HIDE DEF n, w, rate, x
<1>4. CASE n = 0
  <2>1. rate = Zero /\ ~Same(Zero, <<1, 1>>)
    BY <1>3, <1>4 DEF Same, Zero
  <2>2. x <= 0
    BY <1>1, <1>2, <1>4 DEF Tells
  <2> QED BY <2>1, <2>2
<1>5. CASE n > 0
  <2>1. rate = Frac(w, n)
    BY <1>1, <1>2, <1>3, <1>5
  <2>2. w \in Int /\ n \in Nat \ {0}
    BY <1>1, <1>5
  <2>3. rate \in Fractions /\ Same(rate, <<w, n>>)
    BY <2>1, <2>2, FracVal
  <2>4. rate[1] * n = w * rate[2] /\ rate[1] \in Int /\ rate[2] \in Int /\ rate[2] > 0
    BY <2>3 DEF Same, Fractions
  <2>5. ASSUME rate = Zero
        PROVE  x <= 0
    <3>1. 0 * n = w * 1
      BY <2>4, <2>5 DEF Zero
    <3>2. w = 0
      BY <1>1, <3>1
    <3> QED BY <1>2, <3>2 DEF Tells
  <2>6. ASSUME Same(rate, <<1, 1>>)
        PROVE  x > 0
    <3> DEFINE r == rate[1]
               e == rate[2]
    <3>1. r * 1 = 1 * e
      BY <2>6 DEF Same
    <3>2. r = e
      BY <2>4, <3>1
    <3>3. e * n = w * e /\ e \in Int /\ e # 0
      BY <2>4, <3>2
    <3> HIDE DEF r, e
    <3>4. n * e = w * e
      BY <2>2, <3>3
    <3>5. n = w
      BY <2>2, <3>3, <3>4, Cancel
    <3> QED BY <1>2, <1>5, <3>5 DEF Tells
  <2> QED BY <2>5, <2>6
<1> QED BY <1>1, <1>4, <1>5

(***************************************************************************)
(* The win rate is honest where nothing was ever short or force-closed:    *)
(* with no winning trip nothing was gained on the positions, and if every  *)
(* trip won, something was.  (compute_win_rate and compute_metrics,        *)
(* metrics/lib.rs)                                                         *)
(***************************************************************************)
THEOREM WinsTellTheProfit ==
    ASSUME AccountAssumption
    PROVE  Spec => []WinRateIsHonest
<1>1. Init => TypeOK /\ BooksInv /\ TripsKnowTheBasis /\ WinInv
  BY TypeInit, BooksInit, WinInit
<1>2. TypeOK /\ BooksInv /\ TripsKnowTheBasis /\ WinInv /\ [Next]_vars
         => TypeOK' /\ BooksInv' /\ TripsKnowTheBasis' /\ WinInv'
  BY TypeStep, BooksStep, WinStep
<1>3. BooksInv /\ WinInv => WinRateIsHonest
  BY WinRateTells
<1> QED BY <1>1, <1>2, <1>3, PTL DEF Spec
=============================================================================
