----------------------------- MODULE Basics_proofs -----------------------------
(***************************************************************************)
(* The lemmas that the proofs of several components rest on.               *)
(*                                                                         *)
(* Sums.  What SumFunction and SumFunctionOnSet of the module Functions    *)
(* compute.  The services add up rows of a table (settlements of a title,  *)
(* reservations of a cell, receipts of an item).  Both operators are       *)
(* recursive functions on the subsets of an index set.  That such a        *)
(* function exists, and that the order in which it takes the elements does *)
(* not matter, is proved here by induction on cardinality; induction       *)
(* itself is stated for sets of numbers and of subsets.                    *)
(*                                                                         *)
(* Movements.  What the rules of StockRules guarantee of one movement, for *)
(* every set of products and locations and every capacity: the proofs of   *)
(* every component that moves stock start from it.                         *)
(***************************************************************************)
EXTENDS StockRules, Functions, FiniteSetTheorems, WellFoundedInduction, TLAPS

-----------------------------------------------------------------------------
(* Induction.                                                              *)

(* A set of natural numbers with 0 and the successor of each of its        *)
(* elements holds all of them: a least number outside would have a         *)
(* predecessor inside.                                                     *)
LEMMA NaturalsAreReached ==
    ASSUME NEW T \in SUBSET Nat, 0 \in T, \A n \in T : n + 1 \in T
    PROVE  T = Nat
  <1> DEFINE R == OpToRel(<, Nat)
             U == Nat \ T
  <1>1. \A x, y \in Nat : x < y => <<x, y>> \in R
    BY DEF OpToRel
  <1>2. IsWellFoundedOn(R, Nat)
    BY NatLessThanWellFounded
  <1> HIDE DEF R
  <1> SUFFICES ASSUME T # Nat PROVE FALSE
    OBVIOUS
  <1>3. PICK x \in U : \A y \in U : ~(<<y, x>> \in R)
    <2>1. U # {} /\ U \subseteq Nat
      OBVIOUS
    <2>2. QED
      BY <1>2, <2>1, WFMin
  <1>4. x - 1 \in Nat /\ x - 1 < x
    OBVIOUS
  <1>5. x - 1 \in T
    BY <1>1, <1>3, <1>4
  <1>6. (x - 1) + 1 \in T
    BY <1>5
  <1>7. QED
    BY <1>6

(* A set of subsets of a finite set S, with the empty set and each         *)
(* extension of its members by one element, holds S.                       *)
LEMMA SubsetsAreReached ==
    ASSUME NEW S, IsFiniteSet(S), NEW W \in SUBSET (SUBSET S), {} \in W,
           \A s \in W, x \in S : x \notin s => s \cup {x} \in W
    PROVE  S \in W
  <1> DEFINE T == {n \in Nat : \A s \in SUBSET S : Cardinality(s) = n => s \in W}
  <1>1. \A s \in SUBSET S : IsFiniteSet(s) /\ Cardinality(s) \in Nat
    BY FS_Subset, FS_CardinalityType
  <1>2. 0 \in T
    BY <1>1, FS_EmptySet
  <1>3. ASSUME NEW n \in T PROVE n + 1 \in T
    <2> SUFFICES ASSUME NEW s \in SUBSET S, Cardinality(s) = n + 1 PROVE s \in W
      OBVIOUS
    <2>1. s # {}
      BY FS_EmptySet
    <2>2. PICK x \in s : TRUE
      BY <2>1
    <2>3. Cardinality(s \ {x}) = n
      <3>1. Cardinality(s \ {x}) = Cardinality(s) - 1
        BY <1>1, FS_RemoveElement
      <3>2. QED
        BY <3>1
    <2>4. s \ {x} \in W
      BY <2>3
    <2>5. (s \ {x}) \cup {x} \in W
      BY <2>4
    <2>6. (s \ {x}) \cup {x} = s
      OBVIOUS
    <2>7. QED
      BY <2>5, <2>6
  <1>4. T = Nat
    <2> HIDE DEF T
    <2>1. T \in SUBSET Nat
      BY DEF T
    <2>2. QED
      BY <1>2, <1>3, <2>1, NaturalsAreReached
  <1>5. S \in SUBSET S /\ Cardinality(S) \in Nat
    BY <1>1
  <1>6. QED
    BY <1>4, <1>5

-----------------------------------------------------------------------------
(* Recursion.                                                              *)

(* g takes the empty set to base, and every other one to what G makes of   *)
(* an element chosen by ch and of the value of the rest.                   *)
Recurs(g, S, base, G, ch) ==
    \A s \in SUBSET S :
        g[s] = IF s = {} THEN base ELSE G[<<ch[s], g[s \ {ch[s]}]>>]

(* Such a function exists for every finite set.                            *)
LEMMA RecursionExists ==
    ASSUME NEW S, IsFiniteSet(S), NEW V, NEW base \in V, NEW G \in [S \X V -> V],
           NEW ch, \A s \in SUBSET S : s # {} => ch[s] \in s
    PROVE  \E g \in [SUBSET S -> V] : Recurs(g, S, base, G, ch)
  <1> DEFINE Small(n) == {s \in SUBSET S : Cardinality(s) <= n}
             Solves(g, n) ==
                 \A s \in Small(n) :
                    g[s] = IF s = {} THEN base ELSE G[<<ch[s], g[s \ {ch[s]}]>>]
             T == {n \in Nat : \E g \in [Small(n) -> V] : Solves(g, n)}
  <1>1. \A s \in SUBSET S : IsFiniteSet(s) /\ Cardinality(s) \in Nat
    BY FS_Subset, FS_CardinalityType
  <1>2. \A s \in SUBSET S : s # {} => /\ ch[s] \in S
                                      /\ s \ {ch[s]} \in SUBSET S
                                      /\ Cardinality(s \ {ch[s]}) = Cardinality(s) - 1
    BY <1>1, FS_RemoveElement
  <1>3. 0 \in T
    <2>1. \A s \in Small(0) : s = {}
      BY <1>1, FS_EmptySet
    <2>2. Solves([s \in Small(0) |-> base], 0)
      BY <2>1
    <2>3. [s \in Small(0) |-> base] \in [Small(0) -> V]
      OBVIOUS
    <2>4. QED
      BY <2>2, <2>3
  <1>4. ASSUME NEW n \in T PROVE n + 1 \in T
    <2>1. PICK g \in [Small(n) -> V] : Solves(g, n)
      OBVIOUS
    <2> DEFINE h == [s \in Small(n + 1) |->
                        IF s = {} THEN base ELSE G[<<ch[s], g[s \ {ch[s]}]>>]]
    <2>2. \A s \in Small(n + 1) : s # {} => s \ {ch[s]} \in Small(n)
      BY <1>1, <1>2
    <2>3. h \in [Small(n + 1) -> V]
      BY <1>2, <2>2
    <2>4. Small(n) \subseteq Small(n + 1)
      BY <1>1
    <2>5. \A s \in Small(n) : h[s] = g[s]
      BY <2>1, <2>4
    <2>6. Solves(h, n + 1)
      BY <2>2, <2>5
    <2>7. \E k \in [Small(n + 1) -> V] : Solves(k, n + 1)
      <3> HIDE DEF h, Small, Solves
      <3>1. QED
        BY <2>3, <2>6
    <2>8. n + 1 \in Nat
      OBVIOUS
    <2> HIDE DEF Small, Solves
    <2>9. QED
      BY <2>7, <2>8
  <1>5. T = Nat
    <2>1. T \in SUBSET Nat
      OBVIOUS
    <2> HIDE DEF T
    <2>2. QED
      BY <1>3, <1>4, <2>1, NaturalsAreReached
  <1>6. PICK g \in [Small(Cardinality(S)) -> V] : Solves(g, Cardinality(S))
    BY <1>1, <1>5
  <1>7. Small(Cardinality(S)) = SUBSET S
    BY FS_Subset
  <1>8. QED
    BY <1>6, <1>7 DEF Recurs

(* The function that SumFunctionOnSet unfolds, and its defining equation.  *)
Chosen(s) == CHOOSE x \in s : TRUE
Partial(fun, S) ==
    CHOOSE iter : iter = [s \in SUBSET S |->
        IF s = {} THEN 0 ELSE fun[Chosen(s)] + iter[s \ {Chosen(s)}]]
AddsUp(g, fun, S) ==
    /\ g \in [SUBSET S -> Int]
    /\ g[{}] = 0
    /\ \A s \in SUBSET S : s # {} => g[s] = fun[Chosen(s)] + g[s \ {Chosen(s)}]

LEMMA SumIsPartial ==
    ASSUME NEW fun, NEW S
    PROVE  SumFunctionOnSet(fun, S) = Partial(fun, S)[S]
  BY DEF SumFunctionOnSet, FoldFunctionOnSet, MapThenFoldSet, Partial, Chosen

LEMMA PartialAddsUp ==
    ASSUME NEW S, IsFiniteSet(S), NEW fun, \A x \in S : fun[x] \in Int
    PROVE  AddsUp(Partial(fun, S), fun, S)
  <1> DEFINE ch == [s \in SUBSET S |-> Chosen(s)]
             G == [e \in S \X Int |-> fun[e[1]] + e[2]]
             Body(g) == [s \in SUBSET S |->
                            IF s = {} THEN 0 ELSE fun[Chosen(s)] + g[s \ {Chosen(s)}]]
  <1>1. \A s \in SUBSET S : s # {} => Chosen(s) \in s
    BY DEF Chosen
  <1>2. G \in [S \X Int -> Int]
    OBVIOUS
  <1>3. \A s \in SUBSET S : s # {} => ch[s] \in s
    BY <1>1
  <1>4. PICK g \in [SUBSET S -> Int] : Recurs(g, S, 0, G, ch)
    <2> HIDE DEF ch, G
    <2>1. 0 \in Int
      OBVIOUS
    <2>2. QED
      BY <1>2, <1>3, <2>1, RecursionExists
  <1>5. \A s \in SUBSET S : s # {} =>
            g[s] = fun[Chosen(s)] + g[s \ {Chosen(s)}]
    BY <1>1, <1>4 DEF Recurs
  <1>6. g[{}] = 0
    BY <1>4 DEF Recurs
  <1>7. g = Body(g)
    BY <1>5, <1>6
  <1>8. Partial(fun, S) = Body(Partial(fun, S))
    BY <1>7 DEF Partial
  <1> DEFINE P == Partial(fun, S)
             T == {n \in Nat : \A s \in SUBSET S : Cardinality(s) = n => P[s] = g[s]}
  <1>9. /\ P[{}] = 0
        /\ \A s \in SUBSET S : s # {} => P[s] = fun[Chosen(s)] + P[s \ {Chosen(s)}]
        /\ P = [s \in SUBSET S |-> P[s]]
    BY <1>8
  <1> HIDE DEF P
  <1>10. \A s \in SUBSET S : IsFiniteSet(s) /\ Cardinality(s) \in Nat
    BY FS_Subset, FS_CardinalityType
  <1>11. 0 \in T
    BY <1>6, <1>9, <1>10, FS_EmptySet
  <1>12. ASSUME NEW n \in T PROVE n + 1 \in T
    <2> SUFFICES ASSUME NEW s \in SUBSET S, Cardinality(s) = n + 1 PROVE P[s] = g[s]
      OBVIOUS
    <2>1. s # {}
      <3>1. n + 1 # 0
        OBVIOUS
      <3> HIDE DEF T, ch, G, Body
      <3>2. QED
        BY <3>1, FS_EmptySet
    <2>2. Cardinality(s \ {Chosen(s)}) = n
      <3>1. Cardinality(s \ {Chosen(s)}) = Cardinality(s) - 1
        BY <1>1, <1>10, <2>1, FS_RemoveElement
      <3>2. QED
        BY <3>1
    <2>3. P[s \ {Chosen(s)}] = g[s \ {Chosen(s)}]
      BY <2>2
    <2>4. QED
      BY <1>5, <1>9, <2>1, <2>3
  <1>13. T = Nat
    <2>1. T \in SUBSET Nat
      OBVIOUS
    <2> HIDE DEF T
    <2>2. QED
      BY <1>11, <1>12, <2>1, NaturalsAreReached
  <1>14. \A s \in SUBSET S : P[s] = g[s]
    BY <1>10, <1>13
  <1>15. P \in [SUBSET S -> Int]
    BY <1>9, <1>14
  <1>16. QED
    BY <1>9, <1>15 DEF AddsUp, P
-----------------------------------------------------------------------------
(* The order of the elements does not matter.                              *)

(* What adds up does so from any element, not only from the chosen one.    *)
LEMMA AnyElementFirst ==
    ASSUME NEW S, IsFiniteSet(S), NEW fun, \A x \in S : fun[x] \in Int,
           NEW g, AddsUp(g, fun, S)
    PROVE  \A s \in SUBSET S, x \in S : x \in s => g[s] = fun[x] + g[s \ {x}]
  <1> DEFINE T == {n \in Nat : \A s \in SUBSET S, x \in S :
                      Cardinality(s) = n /\ x \in s => g[s] = fun[x] + g[s \ {x}]}
  <1>1. \A s \in SUBSET S : IsFiniteSet(s) /\ Cardinality(s) \in Nat
    BY FS_Subset, FS_CardinalityType
  <1>2. \A s \in SUBSET S : g[s] \in Int
    BY DEF AddsUp
  <1>3. 0 \in T
    BY <1>1, FS_EmptySet
  <1>4. ASSUME NEW n \in T PROVE n + 1 \in T
    <2> SUFFICES ASSUME NEW s \in SUBSET S, NEW x \in S, x \in s, Cardinality(s) = n + 1
                 PROVE  g[s] = fun[x] + g[s \ {x}]
      OBVIOUS
    <2> DEFINE c == Chosen(s)
    <2>1. c \in s
      BY DEF Chosen
    <2>2. g[s] = fun[c] + g[s \ {c}]
      BY <2>1 DEF AddsUp
    <2>3. CASE x = c
      BY <2>2, <2>3
    <2>4. CASE x # c
      <3> HIDE DEF c
      <3>1. /\ Cardinality(s \ {c}) = Cardinality(s) - 1
            /\ Cardinality(s \ {x}) = Cardinality(s) - 1
        BY <1>1, <2>1, FS_RemoveElement
      <3>2. Cardinality(s \ {c}) = n /\ Cardinality(s \ {x}) = n
        BY <3>1
      <3>3. g[s \ {c}] = fun[x] + g[(s \ {c}) \ {x}]
        BY <2>1, <2>4, <3>2
      <3>4. g[s \ {x}] = fun[c] + g[(s \ {x}) \ {c}]
        BY <2>1, <2>4, <3>2
      <3> DEFINE rest == g[(s \ {c}) \ {x}]
      <3>5. (s \ {x}) \ {c} = (s \ {c}) \ {x}
        OBVIOUS
      <3>6. fun[x] \in Int /\ fun[c] \in Int /\ rest \in Int
        BY <1>2, <2>1
      <3>7. g[s] = fun[c] + (fun[x] + rest) /\ g[s \ {x}] = fun[c] + rest
        BY <2>2, <3>3, <3>4, <3>5
      <3> HIDE DEF rest, T
      <3>8. QED
        BY <3>6, <3>7
    <2>5. QED
      BY <2>3, <2>4
  <1>5. T = Nat
    <2>1. T \in SUBSET Nat
      OBVIOUS
    <2> HIDE DEF T
    <2>2. QED
      BY <1>3, <1>4, <2>1, NaturalsAreReached
  <1>6. QED
    BY <1>1, <1>5

(* Two functions that add up the same values agree.                        *)
LEMMA SumsAgree ==
    ASSUME NEW S, IsFiniteSet(S), NEW U, IsFiniteSet(U), U \subseteq S,
           NEW f, \A x \in S : f[x] \in Int,
           NEW h, \A x \in U : h[x] = f[x],
           NEW g, AddsUp(g, f, S), NEW k, AddsUp(k, h, U)
    PROVE  g[U] = k[U]
  <1> DEFINE W == {s \in SUBSET U : g[s] = k[s]}
  <1>1. {} \in W
    BY DEF AddsUp
  <1>2. ASSUME NEW s \in W, NEW x \in U, x \notin s PROVE s \cup {x} \in W
    <2>1. (s \cup {x}) \ {x} = s
      BY <1>2
    <2>2. g[s \cup {x}] = f[x] + g[s]
      BY <2>1, AnyElementFirst
    <2>3. k[s \cup {x}] = h[x] + k[s]
      <3>1. \A y \in U : h[y] \in Int
        OBVIOUS
      <3>2. QED
        BY <2>1, <3>1, AnyElementFirst
    <2>4. QED
      BY <2>2, <2>3
  <1>3. U \in W
    <2>1. W \in SUBSET (SUBSET U)
      OBVIOUS
    <2> HIDE DEF W
    <2>2. QED
      BY <1>1, <1>2, <2>1, SubsetsAreReached
  <1>4. QED
    BY <1>3

-----------------------------------------------------------------------------
(* Sums over a set of indices.                                             *)

(* Nothing adds up to 0.                                                   *)
LEMMA SumOfNothing ==
    ASSUME NEW fun
    PROVE  SumFunctionOnSet(fun, {}) = 0
  BY SumIsPartial, PartialAddsUp, FS_EmptySet DEF AddsUp

(* The sum of integers is an integer.                                      *)
LEMMA SumIsInteger ==
    ASSUME NEW S, IsFiniteSet(S), NEW fun, \A x \in S : fun[x] \in Int
    PROVE  SumFunctionOnSet(fun, S) \in Int
  <1>1. Partial(fun, S) \in [SUBSET S -> Int]
    BY PartialAddsUp DEF AddsUp
  <1>2. Partial(fun, S)[S] \in Int
    BY <1>1
  <1>3. QED
    BY <1>2, SumIsPartial

(* One index more adds its value.                                          *)
LEMMA SumAddsElement ==
    ASSUME NEW S, IsFiniteSet(S), NEW x, x \notin S,
           NEW fun, \A y \in S \cup {x} : fun[y] \in Int
    PROVE  SumFunctionOnSet(fun, S \cup {x}) = fun[x] + SumFunctionOnSet(fun, S)
  <1> DEFINE U == S \cup {x}
             g == Partial(fun, U)
             k == Partial(fun, S)
  <1>1. IsFiniteSet(U)
    BY FS_AddElement
  <1>2. AddsUp(g, fun, U) /\ AddsUp(k, fun, S)
    BY <1>1, PartialAddsUp
  <1>3. g[U] = fun[x] + g[U \ {x}]
    <2> HIDE DEF g
    <2>1. U \in SUBSET U /\ x \in U
      OBVIOUS
    <2>2. QED
      BY <1>1, <1>2, <2>1, AnyElementFirst
  <1>4. U \ {x} = S
    OBVIOUS
  <1>5. g[S] = k[S]
    <2> HIDE DEF g, k
    <2>1. S \subseteq U /\ (\A y \in S : fun[y] = fun[y])
      OBVIOUS
    <2>2. QED
      BY <1>1, <1>2, <2>1, SumsAgree
  <1>6. QED
    BY <1>3, <1>4, <1>5, SumIsPartial

(* The sum depends on the values at the indices only.                      *)
LEMMA SumOfEqual ==
    ASSUME NEW S, IsFiniteSet(S), NEW f, NEW h,
           \A x \in S : f[x] \in Int /\ h[x] = f[x]
    PROVE  SumFunctionOnSet(h, S) = SumFunctionOnSet(f, S)
  <1>1. \A x \in S : h[x] \in Int
    OBVIOUS
  <1>2. AddsUp(Partial(f, S), f, S) /\ AddsUp(Partial(h, S), h, S)
    BY <1>1, PartialAddsUp
  <1>3. Partial(f, S)[S] = Partial(h, S)[S]
    BY <1>2, SumsAgree
  <1>4. QED
    BY <1>3, SumIsPartial

(* If one index changes its value, the sum changes by as much.             *)
LEMMA SumChangesWithOne ==
    ASSUME NEW S, IsFiniteSet(S), NEW x \in S,
           NEW f, \A y \in S : f[y] \in Int,
           NEW h, h[x] \in Int, \A y \in S \ {x} : h[y] = f[y]
    PROVE  SumFunctionOnSet(h, S) = (SumFunctionOnSet(f, S) - f[x]) + h[x]
  <1> DEFINE U == S \ {x}
  <1>1. IsFiniteSet(U) /\ x \notin U /\ U \cup {x} = S
    BY FS_RemoveElement
  <1>2. \A y \in U \cup {x} : f[y] \in Int /\ h[y] \in Int
    BY <1>1
  <1>3. SumFunctionOnSet(f, U \cup {x}) = f[x] + SumFunctionOnSet(f, U)
    BY <1>1, <1>2, SumAddsElement
  <1>4. SumFunctionOnSet(h, U \cup {x}) = h[x] + SumFunctionOnSet(h, U)
    BY <1>1, <1>2, SumAddsElement
  <1>5. SumFunctionOnSet(h, U) = SumFunctionOnSet(f, U)
    BY <1>1, SumOfEqual
  <1>6. SumFunctionOnSet(f, U) \in Int
    BY <1>1, SumIsInteger
  <1>7. /\ SumFunctionOnSet(f, S) = f[x] + SumFunctionOnSet(f, U)
        /\ SumFunctionOnSet(h, S) = h[x] + SumFunctionOnSet(f, U)
        /\ f[x] \in Int
    BY <1>1, <1>3, <1>4, <1>5
  <1> HIDE DEF U
  <1>8. QED
    BY <1>6, <1>7

(* The sum of natural numbers is one, and no less than any of them; it is  *)
(* 0 only if they all are.                                                 *)
LEMMA SumOfNaturals ==
    ASSUME NEW S, IsFiniteSet(S), NEW fun, \A x \in S : fun[x] \in Nat
    PROVE  /\ SumFunctionOnSet(fun, S) \in Nat
           /\ \A x \in S : fun[x] <= SumFunctionOnSet(fun, S)
           /\ SumFunctionOnSet(fun, S) = 0 <=> \A x \in S : fun[x] = 0
  <1> DEFINE Sound(s) ==
                 /\ SumFunctionOnSet(fun, s) \in Nat
                 /\ \A x \in s : fun[x] <= SumFunctionOnSet(fun, s)
                 /\ SumFunctionOnSet(fun, s) = 0 <=> \A x \in s : fun[x] = 0
             W == {s \in SUBSET S : Sound(s)}
  <1>1. {} \in W
    BY SumOfNothing
  <1>2. ASSUME NEW s \in W, NEW x \in S, x \notin s PROVE s \cup {x} \in W
    <2>1. SumFunctionOnSet(fun, s \cup {x}) = fun[x] + SumFunctionOnSet(fun, s)
      <3>1. IsFiniteSet(s)
        BY FS_Subset
      <3>2. \A y \in s \cup {x} : fun[y] \in Int
        OBVIOUS
      <3>3. QED
        BY <1>2, <3>1, <3>2, SumAddsElement
    <2>2. Sound(s)
      OBVIOUS
    <2>3. Sound(s \cup {x})
      BY <2>1, <2>2
    <2>4. QED
      BY <2>3
  <1>3. S \in W
    <2>1. W \in SUBSET (SUBSET S)
      OBVIOUS
    <2> HIDE DEF W
    <2>2. QED
      BY <1>1, <1>2, <2>1, SubsetsAreReached
  <1>4. QED
    BY <1>3

(* The sum of sums.                                                        *)
LEMMA SumOfTwo ==
    ASSUME NEW S, IsFiniteSet(S), NEW f, NEW g, NEW h,
           \A x \in S : f[x] \in Int /\ g[x] \in Int /\ h[x] = f[x] + g[x]
    PROVE  SumFunctionOnSet(h, S) = SumFunctionOnSet(f, S) + SumFunctionOnSet(g, S)
  <1> DEFINE Sound(s) ==
                 SumFunctionOnSet(h, s) = SumFunctionOnSet(f, s) + SumFunctionOnSet(g, s)
             W == {s \in SUBSET S : Sound(s)}
  <1>1. {} \in W
    BY SumOfNothing
  <1>2. ASSUME NEW s \in W, NEW x \in S, x \notin s PROVE s \cup {x} \in W
    <2>1. IsFiniteSet(s)
      BY FS_Subset
    <2>2. \A y \in s \cup {x} : f[y] \in Int /\ g[y] \in Int /\ h[y] \in Int
      OBVIOUS
    <2>3. /\ SumFunctionOnSet(f, s \cup {x}) = f[x] + SumFunctionOnSet(f, s)
          /\ SumFunctionOnSet(g, s \cup {x}) = g[x] + SumFunctionOnSet(g, s)
          /\ SumFunctionOnSet(h, s \cup {x}) = h[x] + SumFunctionOnSet(h, s)
      BY <1>2, <2>1, <2>2, SumAddsElement
    <2>4. SumFunctionOnSet(f, s) \in Int /\ SumFunctionOnSet(g, s) \in Int
      BY <2>1, SumIsInteger
    <2>5. Sound(s) /\ h[x] = f[x] + g[x] /\ f[x] \in Int /\ g[x] \in Int
      OBVIOUS
    <2>6. Sound(s \cup {x})
      BY <2>3, <2>4, <2>5
    <2>7. QED
      BY <2>6
  <1>3. S \in W
    <2>1. W \in SUBSET (SUBSET S)
      OBVIOUS
    <2> HIDE DEF W
    <2>2. QED
      BY <1>1, <1>2, <2>1, SubsetsAreReached
  <1>4. QED
    BY <1>3

(* Indices whose value is 0 may be left out.                               *)
LEMMA SumOverPart ==
    ASSUME NEW S, IsFiniteSet(S), NEW U \in SUBSET S,
           NEW f, \A x \in S : f[x] \in Int, \A x \in S \ U : f[x] = 0,
           NEW h, \A x \in U : h[x] = f[x]
    PROVE  SumFunctionOnSet(f, S) = SumFunctionOnSet(h, U)
  <1> DEFINE Sound(s) == SumFunctionOnSet(f, U \cup s) = SumFunctionOnSet(f, U)
             W == {s \in SUBSET (S \ U) : Sound(s)}
  <1>1. IsFiniteSet(U) /\ IsFiniteSet(S \ U)
    BY FS_Subset
  <1>2. {} \in W
    <2>1. U \cup {} = U
      OBVIOUS
    <2>2. QED
      BY <2>1, Zenon
  <1>3. ASSUME NEW s \in W, NEW x \in S \ U, x \notin s
        PROVE  s \cup {x} \in W
    <2>1. IsFiniteSet(U \cup s) /\ x \notin U \cup s /\ \A y \in (U \cup s) \cup {x} : f[y] \in Int
      BY <1>3, FS_Subset
    <2>2. SumFunctionOnSet(f, (U \cup s) \cup {x}) = f[x] + SumFunctionOnSet(f, U \cup s)
      <3> HIDE DEF W
      <3>1. QED
        BY <2>1, SumAddsElement
    <2>3. SumFunctionOnSet(f, U \cup s) \in Int
      BY <2>1, SumIsInteger
    <2>4. SumFunctionOnSet(f, (U \cup s) \cup {x}) = SumFunctionOnSet(f, U \cup s)
      BY <2>2, <2>3
    <2>5. (U \cup s) \cup {x} = U \cup (s \cup {x})
      OBVIOUS
    <2>6. SumFunctionOnSet(f, U \cup (s \cup {x})) = SumFunctionOnSet(f, U \cup s)
      BY <2>4, <2>5, Zenon
    <2>7. Sound(s) /\ s \cup {x} \in SUBSET (S \ U)
      OBVIOUS
    <2>8. QED
      BY <2>6, <2>7
  <1>4. S \ U \in W
    <2>1. W \in SUBSET (SUBSET (S \ U))
      OBVIOUS
    <2> HIDE DEF W
    <2>2. QED
      BY <1>1, <1>2, <1>3, <2>1, SubsetsAreReached
  <1>5. U \cup (S \ U) = S
    OBVIOUS
  <1>6. SumFunctionOnSet(f, S) = SumFunctionOnSet(f, U)
    BY <1>4, <1>5, Zenon
  <1>7. SumFunctionOnSet(h, U) = SumFunctionOnSet(f, U)
    BY <1>1, SumOfEqual
  <1>8. QED
    BY <1>6, <1>7

(* Smaller values have a smaller sum.                                      *)
LEMMA SumIsMonotone ==
    ASSUME NEW S, IsFiniteSet(S), NEW f, NEW g,
           \A x \in S : f[x] \in Int /\ g[x] \in Int /\ f[x] <= g[x]
    PROVE  SumFunctionOnSet(f, S) <= SumFunctionOnSet(g, S)
  <1> DEFINE d == [x \in S |-> g[x] - f[x]]
  <1>1. \A x \in S : d[x] \in Nat
    OBVIOUS
  <1>2. \A x \in S : f[x] \in Int /\ d[x] \in Int /\ g[x] = f[x] + d[x]
    OBVIOUS
  <1> HIDE DEF d
  <1>3. SumFunctionOnSet(g, S) = SumFunctionOnSet(f, S) + SumFunctionOnSet(d, S)
    BY <1>2, SumOfTwo
  <1>4. SumFunctionOnSet(d, S) \in Nat /\ SumFunctionOnSet(f, S) \in Int
    BY <1>1, SumOfNaturals, SumIsInteger
  <1>5. QED
    BY <1>3, <1>4

(* One row more at the end of a list of rows.                              *)
LEMMA SumAddsLast ==
    ASSUME NEW n \in Nat, NEW f, NEW h, h[n + 1] \in Int,
           \A i \in 1..n : f[i] \in Int /\ h[i] = f[i]
    PROVE  SumFunctionOnSet(h, 1..(n + 1)) = SumFunctionOnSet(f, 1..n) + h[n + 1]
  <1> DEFINE rows == 1..n
             last == n + 1
  <1>1. IsFiniteSet(rows)
    BY FS_Interval
  <1>2. rows \cup {last} = 1..last /\ last \notin rows
    OBVIOUS
  <1>3. (\A i \in rows : f[i] \in Int /\ h[i] = f[i]) /\ h[last] \in Int
    OBVIOUS
  <1> HIDE DEF rows, last
  <1>4. SumFunctionOnSet(h, rows \cup {last}) = h[last] + SumFunctionOnSet(h, rows)
    BY <1>1, <1>2, <1>3, SumAddsElement
  <1>5. SumFunctionOnSet(h, rows) = SumFunctionOnSet(f, rows)
    BY <1>1, <1>3, SumOfEqual
  <1>6. SumFunctionOnSet(f, rows) \in Int
    BY <1>1, <1>3, SumIsInteger
  <1>7. SumFunctionOnSet(h, 1..last) = SumFunctionOnSet(f, rows) + h[last]
    <2>1. SumFunctionOnSet(h, 1..last) = SumFunctionOnSet(h, rows \cup {last})
      BY <1>2, Zenon
    <2>2. QED
      BY <1>3, <1>4, <1>5, <1>6, <2>1
  <1>8. QED
    BY <1>7 DEF rows, last

-----------------------------------------------------------------------------
(* Movements.  What the constants of StockRules are is used from here on.  *)

USE WarehouseOfAssumption, NoLocationAssumption, CapacityAssumption

(* Every well-formed command names a product, a positive quantity and      *)
(* sides that are locations of the company or absent.                      *)
LEMMA CommandShape ==
    ASSUME NEW cmd \in Commands
    PROVE  /\ cmd.productId \in Products
           /\ cmd.quantity \in Quantities
           /\ cmd.source \in Locations \cup {NoLocation}
           /\ cmd.destination \in Locations \cup {NoLocation}
  BY DEF Commands, Incoming, Outgoing, Transfers, Command

(* Commands an operation builds for itself are well formed.                *)
LEMMA ExitIsCommand ==
    ASSUME NEW c \in Cells, NEW q \in Quantities
    PROVE  Command("EXIT", c[1], q, c[2], NoLocation) \in Commands
  BY DEF Commands, Outgoing, Cells

(* The same for the entry of a receipt.                                    *)
LEMMA EntryIsCommand ==
    ASSUME NEW c \in Cells, NEW q \in Quantities
    PROVE  Command("ENTRY", c[1], q, NoLocation, c[2]) \in Commands
  BY DEF Commands, Incoming, Cells

(* What leaves and what enters a cell are natural numbers.                 *)
LEMMA FlowType ==
    ASSUME NEW cmd \in Commands, NEW c \in Cells
    PROVE  Out(cmd, c) \in Nat /\ In(cmd, c) \in Nat
  BY CommandShape DEF Out, In, Quantities

(* A movement whose source passed the check leaves a cell with at least    *)
(* the reservations it had to respect, and never below zero.               *)
LEMMA SufficientLeaves ==
    ASSUME NEW b \in Balances, NEW res \in Amounts, NEW cmd \in Commands,
           NEW a \in Nat, Sufficient(b, res, cmd, a), NEW c \in Cells
    PROVE  /\ b[c] - Out(cmd, c) >= 0
           /\ Out(cmd, c) # 0 => b[c] - Out(cmd, c) >= res[c] - a
  <1>1. b[c] \in 0..Capacity /\ res[c] \in Nat
    BY DEF Balances, Amounts
  <1>2. CASE c = <<cmd.productId, cmd.source>>
    <2>1. cmd.source # NoLocation
      BY <1>2 DEF Cells
    <2>2. cmd.quantity \in Nat
      BY CommandShape DEF Quantities
    <2>3. QED
      BY <1>1, <1>2, <2>1, <2>2 DEF Sufficient, Out
  <1>3. CASE c # <<cmd.productId, cmd.source>>
    BY <1>1, <1>3 DEF Out
  <1>4. QED
    BY <1>2, <1>3

(* Balances stay within their column.                                      *)
LEMMA MovedType ==
    ASSUME NEW b \in Balances, NEW res \in Amounts, NEW cmd \in Commands,
           NEW a \in Nat, Sufficient(b, res, cmd, a), Fits(Moved(b, cmd))
    PROVE  Moved(b, cmd) \in Balances
  <1>1. ASSUME NEW c \in Cells PROVE (b[c] - Out(cmd, c)) + In(cmd, c) \in 0..Capacity
    <2>1. b[c] \in 0..Capacity
      BY DEF Balances
    <2>2. b[c] - Out(cmd, c) >= 0
      BY SufficientLeaves
    <2>3. (b[c] - Out(cmd, c)) + In(cmd, c) <= Capacity
      BY DEF Fits, Moved
    <2>4. QED
      BY <2>1, <2>2, <2>3, FlowType
  <1>2. QED
    BY <1>1 DEF Moved, Balances

(* A movement that consumes no reservation respects all of them.           *)
LEMMA MovedRespectsReservations ==
    ASSUME NEW b \in Balances, NEW res \in Amounts, NEW cmd \in Commands,
           Sufficient(b, res, cmd, 0), NEW c \in Cells, res[c] <= b[c]
    PROVE  res[c] <= Moved(b, cmd)[c]
  <1>1. b[c] \in 0..Capacity /\ res[c] \in Nat
    BY DEF Balances, Amounts
  <1>2. Out(cmd, c) \in Nat /\ In(cmd, c) \in Nat
    BY FlowType
  <1>3. Out(cmd, c) # 0 => b[c] - Out(cmd, c) >= res[c]
    BY SufficientLeaves, <1>1
  <1>4. Moved(b, cmd)[c] = (b[c] - Out(cmd, c)) + In(cmd, c)
    BY DEF Moved
  <1>5. QED
    BY <1>1, <1>2, <1>3, <1>4

(* The ledger stays integer.                                               *)
LEMMA LedgerType ==
    ASSUME NEW l \in [Cells -> Int], NEW cmd \in Commands
    PROVE  Moved(l, cmd) \in [Cells -> Int]
  <1>1. ASSUME NEW c \in Cells PROVE (l[c] - Out(cmd, c)) + In(cmd, c) \in Int
    BY FlowType
  <1>2. QED
    BY <1>1 DEF Moved

(* Amounts that never exceed the balances fit in the column as well.       *)
LEMMA WithinBalances ==
    ASSUME NEW f \in Amounts, NEW b \in Balances, \A d \in Cells : f[d] <= b[d]
    PROVE  f \in Balances
  <1>1. \A d \in Cells : f[d] \in 0..Capacity
    <2> TAKE d \in Cells
    <2>1. f[d] \in Nat /\ b[d] \in 0..Capacity /\ f[d] <= b[d]
      BY DEF Amounts, Balances
    <2>2. QED
      BY <2>1, CapacityAssumption
  <1>2. f = [d \in Cells |-> f[d]]
    BY DEF Amounts
  <1>3. QED
    BY <1>1, <1>2 DEF Balances

(* A cell of a movement lies in one of the movement's warehouses.          *)
LEMMA WarehouseOfEndpoint ==
    ASSUME NEW cmd, NEW l \in Locations, l = cmd.source \/ l = cmd.destination
    PROVE  WarehouseOf[l] \in WarehousesOf(cmd)
  <1>1. l \in Endpoints(cmd)
    BY NoLocationAssumption DEF Endpoints
  <1>2. QED
    BY <1>1 DEF WarehousesOf

(* A movement changes cells of its own warehouses only, and leaves a cell  *)
(* it takes from with what is reserved there.                              *)
LEMMA MovementIsLocal ==
    ASSUME NEW b \in Balances, NEW res \in Amounts, NEW cmd \in Commands,
           Sufficient(b, res, cmd, 0), NEW c \in Cells, Moved(b, cmd)[c] # b[c]
    PROVE  /\ WarehouseOf[c[2]] \in WarehousesOf(cmd)
           /\ Moved(b, cmd)[c] > b[c] \/ Moved(b, cmd)[c] >= res[c]
  <1>1. b[c] \in Nat /\ res[c] \in Nat /\ Moved(b, cmd)[c] = b[c] - Out(cmd, c) + In(cmd, c)
    BY DEF Balances, Amounts, Moved
  <1>2. Out(cmd, c) \in Nat /\ In(cmd, c) \in Nat
    BY FlowType
  <1>3. b[c] - Out(cmd, c) >= 0 /\ (Out(cmd, c) # 0 => b[c] - Out(cmd, c) >= res[c] - 0)
    BY SufficientLeaves
  <1>4. Moved(b, cmd)[c] > b[c] \/ Moved(b, cmd)[c] >= res[c]
    BY <1>1, <1>2, <1>3
  <1>5. c = <<cmd.productId, cmd.source>> \/ c = <<cmd.productId, cmd.destination>>
    BY <1>1 DEF Out, In
  <1>6. c[2] \in Locations /\ (c[2] = cmd.source \/ c[2] = cmd.destination)
    BY <1>5 DEF Cells
  <1>7. QED
    BY <1>4, <1>6, WarehouseOfEndpoint

(* An adjustment has one side, and so one warehouse.                       *)
LEMMA AdjustmentHasOneSide ==
    ASSUME NEW cmd \in Commands, cmd.type \in {"ADJUSTMENT_IN", "ADJUSTMENT_OUT"}
    PROVE  \E w \in Warehouses : WarehousesOf(cmd) = {w}
  <1>1. cmd \in Incoming \cup Outgoing
    BY DEF Commands, Transfers, Command
  <1>2. \E l \in Locations : Endpoints(cmd) = {l}
    <2>1. CASE cmd \in Incoming
      <3>1. cmd.source = NoLocation /\ cmd.destination \in Locations
        BY <2>1 DEF Incoming, Command
      <3>2. QED
        BY <3>1 DEF Endpoints
    <2>2. CASE cmd \in Outgoing
      <3>1. cmd.destination = NoLocation /\ cmd.source \in Locations
        BY <2>2 DEF Outgoing, Command
      <3>2. QED
        BY <3>1 DEF Endpoints
    <2>3. QED
      BY <1>1, <2>1, <2>2
  <1>3. QED
    BY <1>2 DEF WarehousesOf

(* The exit of one reservation row takes its quantity from its cell only.  *)
LEMMA ShipmentTakes ==
    ASSUME NEW b \in Balances, NEW res \in Amounts, NEW c \in Cells, NEW q \in Quantities,
           NEW cmd, cmd = Command("EXIT", c[1], q, c[2], NoLocation),
           Sufficient(b, res, cmd, q)
    PROVE  /\ Moved(b, cmd) \in Balances
           /\ b[c] - q >= 0 /\ b[c] - q >= res[c] - q
           /\ \A d \in Cells : Moved(b, cmd)[d] = IF d = c THEN b[d] - q ELSE b[d]
           /\ WarehousesOf(cmd) = {WarehouseOf[c[2]]}
  <1>1. /\ cmd.productId = c[1] /\ cmd.quantity = q
        /\ cmd.source = c[2] /\ cmd.destination = NoLocation
        /\ c = <<c[1], c[2]>> /\ c[2] \in Locations
    BY DEF Command, Cells
  <1>2. b[c] - q >= 0 /\ b[c] - q >= res[c] - q
    BY <1>1, NoLocationAssumption DEF Sufficient
  <1>3. \A d \in Cells : In(cmd, d) = 0 /\ Out(cmd, d) = IF d = c THEN q ELSE 0
    BY <1>1, NoLocationAssumption DEF In, Out, Cells
  <1>4. \A d \in Cells : b[d] \in 0..Capacity
    BY DEF Balances
  <1>5. \A d \in Cells : Moved(b, cmd)[d] = IF d = c THEN b[d] - q ELSE b[d]
    BY <1>3, <1>4 DEF Moved, Quantities
  <1>6. Moved(b, cmd) \in Balances
    <2>1. Moved(b, cmd) = [d \in Cells |-> Moved(b, cmd)[d]]
      BY DEF Moved
    <2>2. \A d \in Cells : Moved(b, cmd)[d] \in 0..Capacity
      BY <1>2, <1>4, <1>5 DEF Quantities
    <2>3. QED
      BY <2>1, <2>2 DEF Balances
  <1>7. Endpoints(cmd) = {c[2]}
    BY <1>1, NoLocationAssumption DEF Endpoints
  <1>8. QED
    BY <1>2, <1>5, <1>6, <1>7 DEF WarehousesOf
=============================================================================
