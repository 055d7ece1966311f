-------------------------- MODULE SalesFlow_proofs --------------------------
(***************************************************************************)
(* What SalesFlow guarantees for every set of orders, products, locations  *)
(* and clients: the greedy allocation is exact (AllocationFindsStock),     *)
(* reservations are those of RESERVED orders and can be shipped            *)
(* (ReservationsStaySound), an order leaves the warehouse once             *)
(* (OrdersShipOnce), late writes are refused (LateWritesChangeNothing) and *)
(* the contract of stock is kept (SalesFlowKeepsContract).                 *)
(***************************************************************************)
EXTENDS SalesFlow, Basics_proofs

-----------------------------------------------------------------------------
(* The allocation loop.                                                    *)

(* A turn of the loop of Allocation, and the value it starts from.         *)
Turn(o, p, acc, l) == IF WarehouseOf[l] = warehouse[o] THEN Take(p, acc, l) ELSE acc
Start(o, p) == [remaining |-> items[o][p], taken |-> [l \in Locations |-> 0]]

(* The function that FoldLeft unfolds: the value after the turns of a set. *)
After(o, p) ==
    CHOOSE iter : iter = [s \in SUBSET DOMAIN CodeOrder |->
        IF s = {} THEN Start(o, p)
        ELSE Turn(o, p, iter[s \ {Max(s)}], CodeOrder[Max(s)])]

LEMMA AllocationIsLoop ==
    ASSUME NEW o, NEW p
    PROVE  Allocation(o, p) = After(o, p)[DOMAIN CodeOrder]
  BY DEF Allocation, FoldLeft, MapThenFoldSet, After, Turn, Start

(* The largest of finitely many numbers.                                   *)
LEMMA LargestExists ==
    ASSUME NEW S \in SUBSET Int, IsFiniteSet(S), S # {}
    PROVE  Max(S) \in S /\ \A y \in S : y <= Max(S)
  <1> DEFINE W == {s \in SUBSET S : s = {} \/ \E m \in s : \A y \in s : y <= m}
  <1>1. {} \in W
    OBVIOUS
  <1>2. ASSUME NEW s \in W, NEW x \in S, x \notin s
        PROVE  s \cup {x} \in W
    <2>1. CASE s = {}
      BY <2>1
    <2>2. CASE s # {}
      <3>1. PICK m \in s : \A y \in s : y <= m
        BY <2>2
      <3>2. CASE m <= x
        <4>1. \A y \in s \cup {x} : y <= x
          BY <3>1, <3>2
        <4>2. QED
          BY <4>1
      <3>3. CASE ~(m <= x)
        <4>1. \A y \in s \cup {x} : y <= m
          BY <3>1, <3>3
        <4>2. QED
          BY <4>1
      <3>4. QED
        BY <3>2, <3>3
    <2>3. QED
      BY <2>1, <2>2
  <1>3. S \in W
    <2>1. W \in SUBSET (SUBSET S)
      OBVIOUS
    <2> HIDE DEF W
    <2>2. QED
      BY <1>1, <1>2, <2>1, SubsetsAreReached
  <1>4. PICK m \in S : \A y \in S : y <= m
    BY <1>3
  <1>5. \A y \in S : m >= y
    BY <1>4
  <1>6. Max(S) \in S /\ \A y \in S : Max(S) >= y
    BY <1>5 DEF Max
  <1>7. QED
    BY <1>6

LEMMA LastOfPrefix ==
    ASSUME NEW k \in Nat \ {0}
    PROVE  Max(1..k) = k /\ (1..k) \ {k} = 1..(k - 1)
  <1>1. IsFiniteSet(1..k) /\ 1..k # {} /\ 1..k \in SUBSET Int
    <2>1. 1 \in Int /\ k \in Int /\ k \in 1..k /\ 1..k \in SUBSET Int
      OBVIOUS
    <2>2. IsFiniteSet(1..k)
      BY <2>1, FS_Interval
    <2>3. QED
      BY <2>1, <2>2
  <1>2. Max(1..k) \in 1..k /\ \A y \in 1..k : y <= Max(1..k)
    BY <1>1, LargestExists
  <1>3. k \in 1..k
    OBVIOUS
  <1>4. Max(1..k) = k
    BY <1>2, <1>3
  <1>5. QED
    BY <1>4

-----------------------------------------------------------------------------
(* The turns, one by one.                                                  *)

Allocations == [remaining : Int, taken : [Locations -> Int]]

(* The order by code visits every location once.                           *)
LEMMA VisitsEachOnce ==
    /\ Cardinality(Locations) \in Nat
    /\ DOMAIN CodeOrder = 1..Cardinality(Locations)
    /\ \A i, j \in DOMAIN CodeOrder : CodeOrder[i] = CodeOrder[j] => i = j
  <1> DEFINE n == Cardinality(Locations)
  <1>1. n \in Nat
    BY FS_CardinalityType, SalesFiniteAssumption
  <1>2. IsFiniteSet(1..n) /\ Cardinality(1..n) = n
    BY <1>1, FS_Interval
  <1>3. CodeOrder \in Surjection(1..n, Locations)
    BY CodeOrderAssumption DEF Surjection
  <1>4. CodeOrder \in Injection(1..n, Locations)
    <2> HIDE DEF n
    <2>1. QED
      BY <1>2, <1>3, FS_SurjSameCardinalityImpliesInj, Zenon DEF n
  <1>5. QED
    BY <1>1, <1>4 DEF Injection, IsInjective

LEMMA AvailableType ==
    ASSUME TypeOK, NEW p \in Products, NEW l \in Locations
    PROVE  Available(p, l) \in Nat
  <1>1. <<p, l>> \in Cells /\ balance[<<p, l>>] \in Nat
    BY DEF TypeOK, Balances, Cells
  <1>2. \A o \in Orders : active[o][<<p, l>>] \in Nat
    BY <1>1 DEF TypeOK, Balances
  <1>3. SumFunction([o \in Orders |-> active[o][<<p, l>>]]) \in Nat
    <2> DEFINE f == [o \in Orders |-> active[o][<<p, l>>]]
    <2>1. \A o \in Orders : f[o] \in Nat
      BY <1>2
    <2>2. SumFunction(f) = SumFunctionOnSet(f, Orders)
      BY DEF SumFunction
    <2> HIDE DEF f
    <2>3. SumFunctionOnSet(f, Orders) \in Nat
      BY <2>1, SalesFiniteAssumption, SumOfNaturals
    <2>4. QED
      BY <2>2, <2>3 DEF f
  <1>4. reserved[<<p, l>>] \in Nat
    BY <1>1, <1>3 DEF reserved
  <1>5. QED
    BY <1>1, <1>4 DEF Available, PositivePart

LEMMA TurnType ==
    ASSUME TypeOK, NEW o \in Orders, NEW p \in Products, NEW acc \in Allocations,
           NEW l \in Locations
    PROVE  Turn(o, p, acc, l) \in Allocations
  BY AvailableType DEF Turn, Take, Smaller, Allocations

LEMMA StartType ==
    ASSUME TypeOK, NEW o \in Orders, NEW p \in Products
    PROVE  Start(o, p) \in Allocations /\ items[o][p] \in Nat
  <1>1. items[o][p] \in Nat
    BY ItemChoicesAssumption, CapacityAssumption DEF TypeOK, NoItems
  <1>2. QED
    BY <1>1 DEF Start, Allocations

(* FoldLeft takes the locations by code.                                   *)
LEMMA LoopTurns ==
    ASSUME TypeOK, NEW o \in Orders, NEW p \in Products
    PROVE  /\ After(o, p)[1..0] = Start(o, p)
           /\ \A k \in DOMAIN CodeOrder :
                After(o, p)[1..k] = Turn(o, p, After(o, p)[1..(k - 1)], CodeOrder[k])
  <1> DEFINE D == DOMAIN CodeOrder
             ch == [s \in SUBSET D |-> Max(s)]
             G == [e \in D \X Allocations |-> Turn(o, p, e[2], CodeOrder[e[1]])]
             Body(g) == [s \in SUBSET D |->
                            IF s = {} THEN Start(o, p)
                            ELSE Turn(o, p, g[s \ {Max(s)}], CodeOrder[Max(s)])]
             P == After(o, p)
  <1>1. IsFiniteSet(D) /\ D \in SUBSET Int /\ D = 1..Cardinality(Locations)
        /\ Cardinality(Locations) \in Nat /\ \A i \in D : CodeOrder[i] \in Locations
    <2>1. D = 1..Cardinality(Locations) /\ Cardinality(Locations) \in Nat
      BY VisitsEachOnce
    <2>2. IsFiniteSet(1..Cardinality(Locations))
      BY <2>1, FS_Interval
    <2>3. \A i \in D : CodeOrder[i] \in Locations
      BY CodeOrderAssumption
    <2>4. QED
      BY <2>1, <2>2, <2>3
  <1>2. \A s \in SUBSET D : s # {} => Max(s) \in s
    BY <1>1, LargestExists, FS_Subset
  <1>3. G \in [D \X Allocations -> Allocations]
    BY <1>1, TurnType
  <1>4. PICK g \in [SUBSET D -> Allocations] : Recurs(g, D, Start(o, p), G, ch)
    <2>1. \A s \in SUBSET D : s # {} => ch[s] \in s
      BY <1>2
    <2> HIDE DEF ch, G, D
    <2>2. QED
      BY <1>1, <1>3, <2>1, StartType, RecursionExists, Zenon
  <1>5. g = Body(g)
    <2>1. ASSUME NEW s \in SUBSET D
          PROVE  g[s] = Body(g)[s]
      <3>1. CASE s = {}
        BY <1>4, <3>1 DEF Recurs
      <3>2. CASE s # {}
        <4>1. Max(s) \in D /\ s \ {Max(s)} \in SUBSET D /\ ch[s] = Max(s)
          BY <1>2, <3>2
        <4>2. g[s] = G[<<Max(s), g[s \ {Max(s)}]>>]
          BY <1>4, <3>2, <4>1 DEF Recurs
        <4>3. QED
          BY <3>2, <4>1, <4>2
      <3>3. QED
        BY <3>1, <3>2
    <2>2. QED
      BY <2>1
  <1>6. P = Body(P)
    BY <1>5 DEF After
  <1> HIDE DEF P
  <1>7. \A s \in SUBSET D :
            P[s] = IF s = {} THEN Start(o, p)
                   ELSE Turn(o, p, P[s \ {Max(s)}], CodeOrder[Max(s)])
    BY <1>6
  <1>8. 1..0 = {} /\ 1..0 \in SUBSET D
    OBVIOUS
  <1>9. P[1..0] = Start(o, p)
    BY <1>7, <1>8, Zenon
  <1>10. ASSUME NEW k \in D
         PROVE  P[1..k] = Turn(o, p, P[1..(k - 1)], CodeOrder[k])
    <2>1. k \in Nat \ {0} /\ 1..k \in SUBSET D /\ 1..k # {}
      BY <1>1
    <2>2. Max(1..k) = k /\ (1..k) \ {k} = 1..(k - 1)
      BY <2>1, LastOfPrefix
    <2>3. P[1..k] = Turn(o, p, P[(1..k) \ {Max(1..k)}], CodeOrder[Max(1..k)])
      BY <1>7, <2>1, Zenon
    <2>4. QED
      BY <2>2, <2>3, Zenon
  <1>11. QED
    BY <1>9, <1>10 DEF P

-----------------------------------------------------------------------------
(* What the loop has done after the first k locations: what is taken and   *)
(* what is missing make up the item, nothing is taken that is not there,   *)
(* and as long as something is missing everything seen is taken.           *)
Progress(o, p, acc, k) ==
    /\ acc.remaining \in Nat /\ acc.taken \in [Locations -> Nat]
    /\ SumFunctionOnSet(acc.taken, Locations) + acc.remaining = items[o][p]
    /\ \A l \in Locations : acc.taken[l] <= Available(p, l)
    /\ \A l \in Locations : acc.taken[l] # 0 =>
            WarehouseOf[l] = warehouse[o] /\ \E i \in 1..k : CodeOrder[i] = l
    /\ acc.remaining > 0 =>
            \A i \in 1..k : WarehouseOf[CodeOrder[i]] = warehouse[o] =>
                acc.taken[CodeOrder[i]] = Available(p, CodeOrder[i])

LEMMA StartProgress ==
    ASSUME TypeOK, NEW o \in Orders, NEW p \in Products
    PROVE  Progress(o, p, Start(o, p), 0)
  <1> DEFINE none == [l \in Locations |-> 0]
  <1>1. Start(o, p).taken = none /\ Start(o, p).remaining = items[o][p] /\ items[o][p] \in Nat
    BY StartType DEF Start
  <1>2. none \in [Locations -> Nat] /\ \A l \in Locations : none[l] = 0 /\ none[l] \in Nat
    OBVIOUS
  <1> HIDE DEF none
  <1>3. SumFunctionOnSet(none, Locations) = 0
    BY <1>2, SalesFiniteAssumption, SumOfNaturals
  <1>4. \A l \in Locations : Available(p, l) \in Nat
    BY AvailableType
  <1>5. QED
    BY <1>1, <1>2, <1>3, <1>4 DEF Progress

LEMMA TurnProgress ==
    ASSUME TypeOK, NEW o \in Orders, NEW p \in Products, NEW k \in DOMAIN CodeOrder,
           NEW acc \in Allocations, Progress(o, p, acc, k - 1)
    PROVE  Progress(o, p, Turn(o, p, acc, CodeOrder[k]), k)
  <1> DEFINE l == CodeOrder[k]
             q == Smaller(Available(p, l), acc.remaining)
             more == [acc.taken EXCEPT ![l] = q]
             next == Turn(o, p, acc, l)
  <1>1. /\ l \in Locations /\ k \in Nat \ {0}
        /\ \A i \in 1..k : i \in 1..(k - 1) \/ i = k
        /\ \A i \in 1..(k - 1) : i \in 1..k /\ CodeOrder[i] # l /\ CodeOrder[i] \in Locations
        /\ k \in 1..k
    BY VisitsEachOnce, CodeOrderAssumption
  <1>2. /\ Available(p, l) \in Nat /\ acc.remaining \in Nat /\ acc.taken \in [Locations -> Nat]
        /\ SumFunctionOnSet(acc.taken, Locations) + acc.remaining = items[o][p]
        /\ items[o][p] \in Nat
    BY <1>1, AvailableType, StartType DEF Progress
  <1>3. CASE WarehouseOf[l] # warehouse[o]
    <2>1. next = acc
      BY <1>3 DEF Turn
    <2> HIDE DEF next, l, q, more
    <2>2. \A i \in 1..k : WarehouseOf[CodeOrder[i]] = warehouse[o] => i \in 1..(k - 1)
      BY <1>1, <1>3 DEF l
    <2>3. Progress(o, p, acc, k)
      BY <1>1, <2>2 DEF Progress
    <2>4. QED
      BY <2>1, <2>3 DEF next, l
  <1>4. CASE WarehouseOf[l] = warehouse[o]
    <2>1. next.remaining = acc.remaining - q /\ next.taken = more
      BY <1>4 DEF Turn, Take
    <2>2. /\ q \in Nat /\ q <= Available(p, l) /\ q <= acc.remaining
          /\ q = Available(p, l) \/ q = acc.remaining
      BY <1>2 DEF Smaller
    <2>3. acc.taken[l] = 0
      <3>1. acc.taken[l] # 0 => \E i \in 1..(k - 1) : CodeOrder[i] = l
        BY <1>1 DEF Progress
      <3>2. QED
        BY <1>1, <3>1
    <2>4. /\ more \in [Locations -> Nat] /\ more[l] = q
          /\ \A x \in Locations \ {l} : more[x] = acc.taken[x]
      BY <1>1, <1>2, <2>2
    <2> HIDE DEF next, l, q, more
    <2>5. SumFunctionOnSet(more, Locations) = (SumFunctionOnSet(acc.taken, Locations) - acc.taken[l]) + more[l]
      BY <1>1, <1>2, <2>2, <2>4, SalesFiniteAssumption, SumChangesWithOne
    <2>6. SumFunctionOnSet(acc.taken, Locations) \in Nat
      BY <1>2, SalesFiniteAssumption, SumOfNaturals
    <2>7. SumFunctionOnSet(more, Locations) + (acc.remaining - q) = items[o][p]
      BY <1>2, <2>2, <2>3, <2>4, <2>5, <2>6
    <2>8. \A x \in Locations : more[x] <= Available(p, x)
      BY <2>2, <2>4 DEF Progress
    <2>9. \A x \in Locations : more[x] # 0 =>
            WarehouseOf[x] = warehouse[o] /\ \E i \in 1..k : CodeOrder[i] = x
      <3> SUFFICES ASSUME NEW x \in Locations, more[x] # 0
                   PROVE  WarehouseOf[x] = warehouse[o] /\ \E i \in 1..k : CodeOrder[i] = x
        OBVIOUS
      <3>1. CASE x = l
        BY <1>1, <1>4, <3>1 DEF l
      <3>2. CASE x # l
        BY <1>1, <2>4, <3>2 DEF Progress
      <3>3. QED
        BY <3>1, <3>2
    <2>10. ASSUME acc.remaining - q > 0, NEW i \in 1..k, WarehouseOf[CodeOrder[i]] = warehouse[o]
           PROVE  more[CodeOrder[i]] = Available(p, CodeOrder[i])
      <3>1. q = Available(p, l) /\ acc.remaining > 0
        BY <1>2, <2>2, <2>10
      <3>2. CASE i = k
        BY <2>4, <3>1, <3>2 DEF l
      <3>3. CASE i \in 1..(k - 1)
        BY <1>1, <2>4, <2>10, <3>1, <3>3 DEF Progress
      <3>4. QED
        BY <1>1, <3>2, <3>3
    <2>11. Progress(o, p, next, k)
      <3>1. acc.remaining - q \in Nat
        BY <1>2, <2>2
      <3>2. QED
        BY <2>1, <2>4, <2>7, <2>8, <2>9, <2>10, <3>1 DEF Progress
    <2>12. QED
      BY <2>11 DEF next, l
  <1>5. QED
    BY <1>3, <1>4

(* The loop ends with all locations seen.                                  *)
LEMMA AllocationProgress ==
    ASSUME TypeOK, NEW o \in Orders, NEW p \in Products
    PROVE  Progress(o, p, Allocation(o, p), Cardinality(Locations))
  <1> DEFINE n == Cardinality(Locations)
             P == After(o, p)
             Good(k) == P[1..k] \in Allocations /\ Progress(o, p, P[1..k], k)
             T == {k \in Nat : k <= n => Good(k)}
  <1>1. n \in Nat /\ DOMAIN CodeOrder = 1..n /\ \A i \in 1..n : CodeOrder[i] \in Locations
    BY VisitsEachOnce, CodeOrderAssumption
  <1>2. /\ P[1..0] = Start(o, p)
        /\ \A k \in 1..n : P[1..k] = Turn(o, p, P[1..(k - 1)], CodeOrder[k])
    BY <1>1, LoopTurns
  <1> HIDE DEF P, n
  <1>3. Good(0)
    BY <1>2, StartType, StartProgress
  <1>4. ASSUME NEW k \in T PROVE k + 1 \in T
    <2> SUFFICES ASSUME k + 1 <= n PROVE Good(k + 1)
      OBVIOUS
    <2>1. k \in Nat /\ k + 1 \in 1..n /\ (k + 1) - 1 = k /\ Good(k)
      BY <1>1
    <2> DEFINE acc == P[1..k]
    <2>2. acc \in Allocations /\ Progress(o, p, acc, (k + 1) - 1)
      BY <2>1
    <2>3. P[1..(k + 1)] = Turn(o, p, acc, CodeOrder[k + 1])
      BY <1>2, <2>1
    <2> HIDE DEF acc, T, Good
    <2>4. Turn(o, p, acc, CodeOrder[k + 1]) \in Allocations
      BY <1>1, <2>1, <2>2, TurnType
    <2>5. Progress(o, p, Turn(o, p, acc, CodeOrder[k + 1]), k + 1)
      BY <1>1, <2>1, <2>2, TurnProgress
    <2>6. QED
      BY <2>3, <2>4, <2>5 DEF Good
  <1>5. T = Nat
    <2>1. T \in SUBSET Nat
      OBVIOUS
    <2>2. 0 \in T
      BY <1>3
    <2> HIDE DEF T
    <2>3. QED
      BY <1>4, <2>1, <2>2, NaturalsAreReached
  <1>6. Good(n)
    <2>1. n \in T /\ n <= n
      BY <1>1, <1>5
    <2> HIDE DEF Good
    <2>2. QED
      BY <2>1
  <1>7. Allocation(o, p) = P[1..n]
    BY <1>1, AllocationIsLoop, Zenon DEF P, n
  <1>8. QED
    BY <1>6, <1>7 DEF n

-----------------------------------------------------------------------------
(* Quantities.                                                             *)

USE WarehouseOfAssumption, NoLocationAssumption, CapacityAssumption

LEMMA ItemsType ==
    ASSUME NEW list \in ItemChoices \cup {NoItems}
    PROVE  /\ list \in [Products -> 0..Capacity]
           /\ list \in ItemChoices => \E p \in Products : list[p] > 0
  BY ItemChoicesAssumption DEF NoItems

LEMMA ReservedOf ==
    ASSUME TypeOK, NEW c \in Cells
    PROVE  /\ reserved[c] \in Nat
           /\ \A o \in Orders : active[o][c] \in 0..Capacity /\ active[o][c] <= reserved[c]
  <1> DEFINE f == [o \in Orders |-> active[o][c]]
  <1>1. \A o \in Orders : f[o] = active[o][c] /\ f[o] \in Nat /\ active[o][c] \in 0..Capacity
    BY DEF TypeOK, Balances
  <1>2. reserved[c] = SumFunctionOnSet(f, Orders)
    BY DEF reserved, SumFunction
  <1> HIDE DEF f
  <1>3. /\ SumFunctionOnSet(f, Orders) \in Nat
        /\ \A o \in Orders : f[o] <= SumFunctionOnSet(f, Orders)
    BY <1>1, SalesFiniteAssumption, SumOfNaturals
  <1>4. QED
    BY <1>1, <1>2, <1>3

LEMMA ReservedType ==
    ASSUME TypeOK
    PROVE  reserved \in Amounts
  <1>1. reserved = [c \in Cells |-> reserved[c]]
    BY DEF reserved
  <1>2. QED
    BY <1>1, ReservedOf DEF Amounts

(* If one order's rows change, the reserved quantity changes by as much.   *)
LEMMA ReservedChanges ==
    ASSUME TypeOK, NEW o \in Orders, NEW a \in Balances, active' = [active EXCEPT ![o] = a],
           NEW c \in Cells
    PROVE  reserved'[c] = (reserved[c] - active[o][c]) + a[c]
  <1> DEFINE f == [x \in Orders |-> active[x][c]]
             h == [x \in Orders |-> active'[x][c]]
  <1>1. /\ \A x \in Orders : f[x] = active[x][c] /\ f[x] \in Int
        /\ h[o] = a[c] /\ h[o] \in Int
        /\ \A x \in Orders \ {o} : h[x] = f[x]
    BY DEF TypeOK, Balances
  <1>2. reserved[c] = SumFunctionOnSet(f, Orders) /\ reserved'[c] = SumFunctionOnSet(h, Orders)
    BY DEF reserved, SumFunction
  <1> HIDE DEF f, h
  <1>3. SumFunctionOnSet(h, Orders) = (SumFunctionOnSet(f, Orders) - f[o]) + h[o]
    BY <1>1, SalesFiniteAssumption, SumChangesWithOne
  <1>4. QED
    BY <1>1, <1>2, <1>3

LEMMA ReservedStays ==
    ASSUME UNCHANGED active
    PROVE  UNCHANGED reserved
  BY DEF reserved

(* A location never offers more than what is there and not reserved.       *)
LEMMA AvailableIsFree ==
    ASSUME TypeOK, NEW p \in Products, NEW l \in Locations, Available(p, l) # 0
    PROVE  <<p, l>> \in Cells /\ Available(p, l) = balance[<<p, l>>] - reserved[<<p, l>>]
  BY DEF Available, PositivePart, Cells

(* The rows a successful allocation writes.                                *)
Rows(o) == [c \in Cells |-> Allocation(o, c[1]).taken[c[2]]]

LEMMA RowsAreAllocated ==
    ASSUME TypeOK, NEW o \in Orders, NEW c \in Cells
    PROVE  /\ Rows(o)[c] \in 0..Capacity
           /\ Rows(o)[c] > 0 =>
                /\ reserved[c] + Rows(o)[c] <= balance[c]
                /\ WarehouseOf[c[2]] = warehouse[o]
                /\ items[o][c[1]] > 0
                /\ {c[2], WarehouseOf[c[2]]} \cap inactive = {}
  <1> DEFINE p == c[1]
             l == c[2]
             acc == Allocation(o, p)
  <1>1. p \in Products /\ l \in Locations /\ c = <<p, l>> /\ Rows(o)[c] = acc.taken[l]
    BY DEF Cells, Rows
  <1>2. Progress(o, p, acc, Cardinality(Locations))
    BY <1>1, AllocationProgress
  <1> HIDE DEF acc, p, l
  <1>3. /\ acc.taken[l] \in Nat /\ acc.taken[l] <= Available(p, l)
        /\ acc.taken[l] # 0 => WarehouseOf[l] = warehouse[o]
    BY <1>1, <1>2 DEF Progress
  <1>4. Available(p, l) \in Nat
    BY <1>1, AvailableType
  <1>5. balance[c] \in 0..Capacity /\ reserved[c] \in Nat
    BY ReservedOf DEF TypeOK, Balances
  <1>6. Available(p, l) # 0 => /\ Available(p, l) = balance[c] - reserved[c]
                               /\ {l, WarehouseOf[l]} \cap inactive = {}
    BY <1>1, AvailableIsFree DEF Available
  <1>7. items[o][p] \in Nat /\ (acc.taken[l] # 0 => items[o][p] > 0)
    <2>1. acc.taken \in [Locations -> Nat] /\ acc.remaining \in Nat
          /\ SumFunctionOnSet(acc.taken, Locations) + acc.remaining = items[o][p]
      BY <1>2 DEF Progress
    <2>2. /\ SumFunctionOnSet(acc.taken, Locations) \in Nat
          /\ acc.taken[l] <= SumFunctionOnSet(acc.taken, Locations)
      BY <1>1, <2>1, SalesFiniteAssumption, SumOfNaturals
    <2>3. QED
      BY <1>3, <2>1, <2>2
  <1>8. QED
    BY <1>1, <1>3, <1>4, <1>5, <1>6, <1>7 DEF p, l

LEMMA RowsType ==
    ASSUME TypeOK, NEW o \in Orders
    PROVE  Rows(o) \in Balances
  <1>1. Rows(o) = [c \in Cells |-> Rows(o)[c]]
    BY DEF Rows
  <1>2. QED
    BY <1>1, RowsAreAllocated DEF Balances

(* Rows of an allocation that misses nothing add up to the item.           *)
LEMMA RowsAddUp ==
    ASSUME TypeOK, NEW o \in Orders, NEW p \in Products, Allocation(o, p).remaining = 0
    PROVE  /\ SumOverLocations(Rows(o), p) = items[o][p]
           /\ items[o][p] > 0 => \E c \in Cells : Rows(o)[c] # 0
  <1> DEFINE taken == Allocation(o, p).taken
             f == [l \in Locations |-> Rows(o)[<<p, l>>]]
  <1>1. /\ taken \in [Locations -> Nat]
        /\ SumFunctionOnSet(taken, Locations) + 0 = items[o][p]
    BY AllocationProgress DEF Progress
  <1>2. \A l \in Locations : <<p, l>> \in Cells /\ f[l] = taken[l] /\ f[l] = Rows(o)[<<p, l>>]
    BY DEF Rows, Cells
  <1>3. SumOverLocations(Rows(o), p) = SumFunctionOnSet(f, Locations)
    BY DEF SumOverLocations, SumFunction
  <1> HIDE DEF taken, f
  <1>4. \A l \in Locations : taken[l] \in Nat /\ taken[l] \in Int /\ f[l] = taken[l]
    <2>1. \A l \in Locations : taken[l] \in Nat
      BY <1>1
    <2>2. \A l \in Locations : f[l] = taken[l]
      BY <1>2, Zenon
    <2>3. QED
      BY <2>1, <2>2
  <1>5. SumFunctionOnSet(f, Locations) = SumFunctionOnSet(taken, Locations)
    BY <1>4, SalesFiniteAssumption, SumOfEqual
  <1>6. SumFunctionOnSet(taken, Locations) \in Nat
    BY <1>4, SalesFiniteAssumption, SumOfNaturals
  <1>7. SumFunctionOnSet(taken, Locations) = items[o][p]
    BY <1>1, <1>6
  <1>8. items[o][p] > 0 => \E c \in Cells : Rows(o)[c] # 0
    <2> SUFFICES ASSUME items[o][p] > 0 PROVE \E c \in Cells : Rows(o)[c] # 0
      OBVIOUS
    <2>1. SumFunctionOnSet(taken, Locations) # 0
      BY <1>6, <1>7
    <2>2. PICK l \in Locations : taken[l] # 0
      BY <1>4, <2>1, SalesFiniteAssumption, SumOfNaturals
    <2>3. <<p, l>> \in Cells /\ Rows(o)[<<p, l>>] # 0
      BY <1>2, <2>2, Zenon
    <2>4. QED
      BY <2>3
  <1>9. QED
    BY <1>3, <1>5, <1>7, <1>8

-----------------------------------------------------------------------------
(* The inductive invariant: an order that exists asks for something, its   *)
(* reservation rows are as its status says, and all rows are covered.      *)
ItemsAreAsked == \A o \in Orders : status[o] # "NONE" => items[o] \in ItemChoices
OrderSound(o) ==
    IF status[o] = "RESERVED"
      THEN /\ FullyReserved(o)
           /\ Allocated(o) \subseteq {c \in CellsOf(warehouse[o]) : items[o][c[1]] > 0}
      ELSE active[o] = NoAmount /\ reservedQuantity[o] = NoItems
Covered == \A c \in Cells : reserved[c] <= balance[c]
ReservationInvariant ==
    ItemsAreAsked /\ (\A o \in Orders : OrderSound(o)) /\ Covered

(* An order whose rows do not change stays as it is.                       *)
LEMMA OrderFrame ==
    ASSUME NEW o, OrderSound(o),
           status'[o] = status[o], warehouse'[o] = warehouse[o], items'[o] = items[o],
           reservedQuantity'[o] = reservedQuantity[o], active'[o] = active[o]
    PROVE  OrderSound(o)'
  BY DEF OrderSound, FullyReserved, SumOverLocations, ProductsOf, Allocated

LEMMA NoAmountType == NoAmount \in Balances /\ NoAmount \in Amounts
  BY DEF NoAmount, Balances, Amounts

LEMMA NoItemsType == NoItems \in [Products -> 0..Capacity]
  BY DEF NoItems

(* An order that gives up its rows leaves the others theirs.               *)
LEMMA ReleasedRows ==
    ASSUME TypeOK, ReservationInvariant, NEW o \in Orders,
           active' = [active EXCEPT ![o] = NoAmount],
           NEW c \in Cells
    PROVE  reserved'[c] = reserved[c] - active[o][c] /\ reserved'[c] <= reserved[c]
           /\ active[o][c] \in 0..Capacity /\ reserved'[c] \in Nat
  <1>1. reserved'[c] = (reserved[c] - active[o][c]) + NoAmount[c]
    BY NoAmountType, ReservedChanges
  <1>2. NoAmount[c] = 0
    BY DEF NoAmount
  <1>3. reserved[c] \in Nat /\ active[o][c] \in 0..Capacity /\ active[o][c] <= reserved[c]
    BY ReservedOf
  <1>4. QED
    BY <1>1, <1>2, <1>3

-----------------------------------------------------------------------------
(* The commercial part keeps the invariant.                                *)

(* Everything but orders, rows and stock may change freely.                *)
LEMMA RowsUnchanged ==
    ASSUME TypeOK, ReservationInvariant,
           UNCHANGED <<orderVars, reservationVars, balance>>
    PROVE  ReservationInvariant'
  <1>1. reserved' = reserved /\ balance' = balance
    BY ReservedStays DEF reservationVars
  <1>2. \A o \in Orders : OrderSound(o)'
    BY OrderFrame DEF ReservationInvariant, orderVars, reservationVars
  <1>3. QED
    BY <1>1, <1>2 DEF ReservationInvariant, ItemsAreAsked, Covered, orderVars

LEMMA CreateKeeps ==
    ASSUME TypeOK, ReservationInvariant, NEW o \in Orders, NEW w \in Warehouses,
           NEW itemList \in ItemChoices, create(o, w, itemList)
    PROVE  TypeOK' /\ ReservationInvariant'
  <1>1. TypeOK'
    BY DEF TypeOK, create, Statuses, reservationVars, stockVars, environmentVars
  <1>2. /\ status[o] = "NONE" /\ status'[o] = "DRAFT" /\ items'[o] = itemList
        /\ UNCHANGED <<reservedQuantity, active, balance>>
        /\ \A x \in Orders \ {o} : status'[x] = status[x] /\ items'[x] = items[x]
                                    /\ warehouse'[x] = warehouse[x]
    BY DEF TypeOK, create, reservationVars, stockVars
  <1>3. reserved' = reserved
    BY <1>2, ReservedStays
  <1>4. \A x \in Orders \ {o} : OrderSound(x)'
    BY <1>2, OrderFrame DEF ReservationInvariant
  <1>5. OrderSound(o)'
    BY <1>2 DEF ReservationInvariant, OrderSound
  <1>6. QED
    BY <1>1, <1>2, <1>3, <1>4, <1>5 DEF ReservationInvariant, ItemsAreAsked, Covered

LEMMA CancelKeeps ==
    ASSUME TypeOK, ReservationInvariant, NEW o \in Orders, cancel(o)
    PROVE  TypeOK' /\ ReservationInvariant'
  <1>1. TypeOK'
    BY NoAmountType, NoItemsType
       DEF TypeOK, cancel, Statuses, reservationVars, stockVars, environmentVars
  <1>2. /\ status[o] # "NONE" /\ status'[o] = "CANCELLED"
        /\ UNCHANGED <<warehouse, items, balance>>
        /\ \A x \in Orders \ {o} : status'[x] = status[x]
    BY DEF TypeOK, cancel, stockVars
  <1>3. CASE status[o] = "RESERVED"
    <2>1. /\ active' = [active EXCEPT ![o] = NoAmount]
          /\ reservedQuantity' = [reservedQuantity EXCEPT ![o] = NoItems]
      BY <1>3 DEF cancel
    <2>2. \A x \in Orders : OrderSound(x)'
      <3>1. \A x \in Orders \ {o} : OrderSound(x)'
        BY <1>2, <2>1, OrderFrame DEF TypeOK, ReservationInvariant
      <3>2. OrderSound(o)'
        BY <1>2, <2>1 DEF TypeOK, OrderSound
      <3>3. QED
        BY <3>1, <3>2
    <2>3. Covered'
      <3> SUFFICES ASSUME NEW c \in Cells PROVE reserved'[c] <= balance[c]
        BY <1>2 DEF Covered
      <3>1. reserved'[c] <= reserved[c] /\ reserved'[c] \in Nat
        BY <2>1, ReleasedRows
      <3>2. reserved[c] \in Nat /\ reserved[c] <= balance[c]
        BY ReservedOf DEF ReservationInvariant, Covered
      <3>3. balance[c] \in Nat
        BY DEF TypeOK, Balances
      <3>4. QED
        BY <3>1, <3>2, <3>3
    <2>4. QED
      BY <1>1, <1>2, <2>2, <2>3 DEF ReservationInvariant, ItemsAreAsked
  <1>4. CASE status[o] # "RESERVED"
    <2>1. UNCHANGED <<active, reservedQuantity>>
      BY <1>4 DEF cancel, reservationVars
    <2>2. reserved' = reserved
      BY <2>1, ReservedStays
    <2>3. \A x \in Orders \ {o} : OrderSound(x)'
      BY <1>2, <2>1, OrderFrame DEF ReservationInvariant
    <2>4. OrderSound(o)'
      BY <1>2, <1>4, <2>1 DEF ReservationInvariant, OrderSound
    <2>5. QED
      BY <1>1, <1>2, <2>2, <2>3, <2>4 DEF ReservationInvariant, ItemsAreAsked, Covered
  <1>5. QED
    BY <1>3, <1>4

LEMMA ClientKeeps ==
    ASSUME TypeOK, ReservationInvariant, NEW t \in Clients, ClientStep(t)
    PROVE  TypeOK' /\ ReservationInvariant'
  <1>1. ASSUME NEW o \in Orders, NEW w \in Warehouses, NEW itemList \in ItemChoices,
               BeginUpdate(t, o, w, itemList)
        PROVE  TypeOK' /\ ReservationInvariant'
    <2>1. UNCHANGED <<orderVars, reservationVars, stockVars, environmentVars>>
      BY <1>1 DEF BeginUpdate
    <2>2. request' \in [Clients -> RequestRecords \cup {NoRequest}]
      BY <1>1 DEF TypeOK, BeginUpdate, RequestRecords
    <2>3. QED
      BY <2>1, <2>2, RowsUnchanged DEF TypeOK, orderVars, reservationVars, stockVars, environmentVars
  <1>2. ASSUME NEW o \in Orders, BeginConfirm(t, o)
        PROVE  TypeOK' /\ ReservationInvariant'
    <2>1. UNCHANGED <<orderVars, reservationVars, stockVars, environmentVars>>
      BY <1>2 DEF BeginConfirm
    <2>2. items[o] \in ItemChoices /\ warehouse[o] \in Warehouses
      BY <1>2 DEF TypeOK, BeginConfirm, ReservationInvariant, ItemsAreAsked
    <2>3. request' \in [Clients -> RequestRecords \cup {NoRequest}]
      BY <1>2, <2>2 DEF TypeOK, BeginConfirm, RequestRecords
    <2>4. QED
      BY <2>1, <2>3, RowsUnchanged DEF TypeOK, orderVars, reservationVars, stockVars, environmentVars
  <1>3. CASE Rollback(t)
    <2>1. UNCHANGED <<orderVars, reservationVars, stockVars, environmentVars>>
      BY <1>3 DEF Rollback
    <2>2. request' \in [Clients -> RequestRecords \cup {NoRequest}]
      BY <1>3 DEF TypeOK, Rollback
    <2>3. QED
      BY <2>1, <2>2, RowsUnchanged DEF TypeOK, orderVars, reservationVars, stockVars, environmentVars
  <1>4. CASE CommitUpdate(t)
    <2>1. PICK r \in RequestRecords : r = request[t]
      BY <1>4 DEF TypeOK, CommitUpdate
    <2>2. /\ r.order \in Orders /\ r.warehouse \in Warehouses /\ r.items \in ItemChoices
          /\ status[r.order] = "DRAFT"
          /\ warehouse' = [warehouse EXCEPT ![r.order] = r.warehouse]
          /\ items' = [items EXCEPT ![r.order] = r.items]
          /\ reservedQuantity' = [reservedQuantity EXCEPT ![r.order] = NoItems]
          /\ request' = [request EXCEPT ![t] = NoRequest]
          /\ UNCHANGED <<status, active, balance, exits, inactive, underInventory>>
      BY <1>4, <2>1 DEF CommitUpdate, RequestRecords, stockVars, environmentVars
    <2>3. TypeOK'
      BY <2>2, NoItemsType DEF TypeOK
    <2>4. reserved' = reserved
      BY <2>2, ReservedStays
    <2>5. \A x \in Orders \ {r.order} : OrderSound(x)'
      BY <2>2, OrderFrame DEF TypeOK, ReservationInvariant
    <2>6. OrderSound(r.order)'
      BY <2>2 DEF TypeOK, ReservationInvariant, OrderSound
    <2>7. ItemsAreAsked'
      BY <2>2 DEF TypeOK, ReservationInvariant, ItemsAreAsked
    <2>8. QED
      BY <2>2, <2>3, <2>4, <2>5, <2>6, <2>7 DEF ReservationInvariant, Covered
  <1>5. CASE CommitConfirm(t)
    <2>1. PICK r \in RequestRecords : r = request[t]
      BY <1>5 DEF TypeOK, CommitConfirm
    <2>2. /\ r.order \in Orders
          /\ status[r.order] = "DRAFT"
          /\ status' = [status EXCEPT ![r.order] = "CONFIRMED"]
          /\ request' = [request EXCEPT ![t] = NoRequest]
          /\ UNCHANGED <<warehouse, items, reservedQuantity, active, balance, exits, inactive,
                         underInventory>>
      BY <1>5, <2>1 DEF CommitConfirm, RequestRecords, reservationVars, stockVars, environmentVars
    <2>3. TypeOK'
      BY <2>2 DEF TypeOK, Statuses
    <2>4. reserved' = reserved
      BY <2>2, ReservedStays
    <2>5. \A x \in Orders \ {r.order} : OrderSound(x)'
      BY <2>2, OrderFrame DEF TypeOK, ReservationInvariant
    <2>6. OrderSound(r.order)'
      BY <2>2 DEF TypeOK, ReservationInvariant, OrderSound
    <2>7. ItemsAreAsked'
      BY <2>2 DEF TypeOK, ReservationInvariant, ItemsAreAsked
    <2>8. QED
      BY <2>2, <2>3, <2>4, <2>5, <2>6, <2>7 DEF ReservationInvariant, Covered
  <1>6. QED
    BY <1>1, <1>2, <1>3, <1>4, <1>5 DEF ClientStep

-----------------------------------------------------------------------------
(* The physical part keeps the invariant.                                  *)

LEMMA ReserveKeeps ==
    ASSUME TypeOK, ReservationInvariant, NEW o \in Orders, reserve(o)
    PROVE  TypeOK' /\ ReservationInvariant'
  <1>1. /\ status[o] = "CONFIRMED" /\ \A p \in Products : Allocation(o, p).remaining = 0
        /\ active' = [active EXCEPT ![o] = Rows(o)]
        /\ reservedQuantity' = [reservedQuantity EXCEPT ![o] = items[o]]
        /\ status' = [status EXCEPT ![o] = "RESERVED"]
        /\ UNCHANGED <<warehouse, items, balance, exits, request, inactive, underInventory>>
    BY DEF reserve, Rows, stockVars, environmentVars
  <1>2. /\ items[o] \in ItemChoices /\ items[o] \in [Products -> 0..Capacity]
        /\ \E p \in Products : items[o][p] > 0
    BY <1>1, ItemsType DEF TypeOK, ReservationInvariant, ItemsAreAsked
  <1>3. Rows(o) \in Balances
    BY RowsType
  <1>4. TypeOK'
    BY <1>1, <1>2, <1>3 DEF TypeOK, Statuses
  <1>5. /\ status'[o] = "RESERVED" /\ active'[o] = Rows(o) /\ reservedQuantity'[o] = items[o]
        /\ items' = items /\ warehouse' = warehouse
        /\ \A x \in Orders \ {o} : /\ status'[x] = status[x] /\ active'[x] = active[x]
                                    /\ reservedQuantity'[x] = reservedQuantity[x]
    BY <1>1 DEF TypeOK
  <1>6. FullyReserved(o)'
    <2>1. Rows(o) # NoAmount
      <3>1. \E c \in Cells : Rows(o)[c] # 0
        BY <1>1, <1>2, RowsAddUp
      <3>2. QED
        BY <3>1 DEF NoAmount
    <2>2. \A p \in Products : SumOverLocations(Rows(o), p) = items[o][p]
      BY <1>1, RowsAddUp
    <2>3. \A p \in Products : SumOverLocations(active'[o], p) = items'[o][p]
      BY <1>5, <2>2
    <2>4. \A p \in Products : SumOverLocations(active[o], p)' = SumOverLocations(active'[o], p)
      BY DEF SumOverLocations
    <2>5. QED
      BY <1>5, <2>1, <2>3, <2>4 DEF FullyReserved, ProductsOf
  <1>7. Allocated(o)' \subseteq {c \in CellsOf(warehouse'[o]) : items'[o][c[1]] > 0}
    BY <1>5, RowsAreAllocated DEF Allocated, CellsOf
  <1>8. OrderSound(o)'
    BY <1>5, <1>6, <1>7 DEF OrderSound
  <1>9. \A x \in Orders \ {o} : OrderSound(x)'
    BY <1>5, OrderFrame DEF ReservationInvariant
  <1>10. ASSUME NEW c \in Cells PROVE reserved'[c] <= balance[c]
    <2>1. reserved'[c] = (reserved[c] - active[o][c]) + Rows(o)[c]
      BY <1>1, <1>3, ReservedChanges
    <2>2. active[o][c] = 0
      BY <1>1 DEF ReservationInvariant, OrderSound, NoAmount
    <2>3. /\ Rows(o)[c] \in 0..Capacity
          /\ Rows(o)[c] > 0 => reserved[c] + Rows(o)[c] <= balance[c]
      BY RowsAreAllocated
    <2>4. reserved[c] \in Nat /\ reserved[c] <= balance[c]
      BY ReservedOf DEF ReservationInvariant, Covered
    <2>5. balance[c] \in Nat
      BY DEF TypeOK, Balances
    <2>6. QED
      BY <2>1, <2>2, <2>3, <2>4, <2>5
  <1>11. QED
    BY <1>1, <1>2, <1>4, <1>5, <1>8, <1>9, <1>10 DEF ReservationInvariant, ItemsAreAsked, Covered

LEMMA ReleaseKeeps ==
    ASSUME TypeOK, ReservationInvariant, NEW o \in Orders, release(o)
    PROVE  TypeOK' /\ ReservationInvariant'
  <1>1. /\ status[o] = "RESERVED"
        /\ active' = [active EXCEPT ![o] = NoAmount]
        /\ reservedQuantity' = [reservedQuantity EXCEPT ![o] = NoItems]
        /\ status' = [status EXCEPT ![o] = "CONFIRMED"]
        /\ UNCHANGED <<warehouse, items, balance, exits, request, inactive, underInventory>>
    BY DEF release, stockVars, environmentVars
  <1>2. TypeOK'
    BY <1>1, NoAmountType, NoItemsType DEF TypeOK, Statuses
  <1>3. /\ status'[o] = "CONFIRMED" /\ active'[o] = NoAmount /\ reservedQuantity'[o] = NoItems
        /\ \A x \in Orders \ {o} : /\ status'[x] = status[x] /\ active'[x] = active[x]
                                    /\ reservedQuantity'[x] = reservedQuantity[x]
    BY <1>1 DEF TypeOK
  <1>4. \A x \in Orders \ {o} : OrderSound(x)'
    BY <1>1, <1>3, OrderFrame DEF ReservationInvariant
  <1>5. OrderSound(o)'
    BY <1>3 DEF OrderSound
  <1>6. ASSUME NEW c \in Cells PROVE reserved'[c] <= balance[c]
    <2>1. reserved'[c] <= reserved[c] /\ reserved'[c] \in Nat
      BY <1>1, ReleasedRows
    <2>2. reserved[c] \in Nat /\ reserved[c] <= balance[c]
      BY ReservedOf DEF ReservationInvariant, Covered
    <2>3. balance[c] \in Nat
      BY DEF TypeOK, Balances
    <2>4. QED
      BY <2>1, <2>2, <2>3
  <1>7. QED
    BY <1>1, <1>2, <1>3, <1>4, <1>5, <1>6 DEF ReservationInvariant, ItemsAreAsked, Covered

LEMMA ShipKeeps ==
    ASSUME TypeOK, ReservationInvariant, NEW o \in Orders, ship(o)
    PROVE  TypeOK' /\ ReservationInvariant'
  <1>1. /\ status[o] = "RESERVED"
        /\ balance' = [c \in Cells |-> balance[c] - active[o][c]]
        /\ exits' = [exits EXCEPT ![o] = [c \in Cells |-> @[c] + active[o][c]]]
        /\ active' = [active EXCEPT ![o] = NoAmount]
        /\ reservedQuantity' = [reservedQuantity EXCEPT ![o] = NoItems]
        /\ status' = [status EXCEPT ![o] = "SHIPPED"]
        /\ UNCHANGED <<warehouse, items, request, inactive, underInventory>>
    BY DEF ship, environmentVars
  <1>2. ASSUME NEW c \in Cells
        PROVE  /\ balance'[c] = balance[c] - active[o][c] /\ balance'[c] \in 0..Capacity
               /\ reserved'[c] <= balance'[c]
               /\ exits[o][c] + active[o][c] \in Nat
    <2>1. /\ reserved'[c] = reserved[c] - active[o][c] /\ active[o][c] \in 0..Capacity
      BY <1>1, ReleasedRows
    <2>2. reserved[c] \in Nat /\ active[o][c] <= reserved[c] /\ reserved[c] <= balance[c]
      BY ReservedOf DEF ReservationInvariant, Covered
    <2>3. balance[c] \in 0..Capacity /\ exits[o][c] \in Nat
      BY DEF TypeOK, Balances, Amounts
    <2>4. balance'[c] = balance[c] - active[o][c]
      BY <1>1
    <2>5. QED
      BY <2>1, <2>2, <2>3, <2>4
  <1>3. balance' \in Balances
    BY <1>1, <1>2 DEF Balances
  <1>4. exits' \in [Orders -> Amounts]
    <2> DEFINE new == [c \in Cells |-> exits[o][c] + active[o][c]]
    <2>1. new \in Amounts
      BY <1>2 DEF Amounts
    <2>2. exits' = [exits EXCEPT ![o] = new]
      BY <1>1
    <2> HIDE DEF new
    <2>3. QED
      BY <2>1, <2>2 DEF TypeOK
  <1>5. TypeOK'
    BY <1>1, <1>3, <1>4, NoAmountType, NoItemsType DEF TypeOK, Statuses
  <1>6. /\ status'[o] = "SHIPPED" /\ active'[o] = NoAmount /\ reservedQuantity'[o] = NoItems
        /\ \A x \in Orders \ {o} : /\ status'[x] = status[x] /\ active'[x] = active[x]
                                    /\ reservedQuantity'[x] = reservedQuantity[x]
    BY <1>1 DEF TypeOK
  <1>7. \A x \in Orders \ {o} : OrderSound(x)'
    BY <1>1, <1>6, OrderFrame DEF ReservationInvariant
  <1>8. OrderSound(o)'
    BY <1>6 DEF OrderSound
  <1>9. QED
    BY <1>1, <1>2, <1>5, <1>6, <1>7, <1>8 DEF ReservationInvariant, ItemsAreAsked, Covered

(* A movement or an adjustment respects the rows it does not own.          *)
LEMMA MovementKeeps ==
    ASSUME TypeOK, ReservationInvariant, NEW cmd \in Commands,
           Sufficient(balance, reserved, cmd, 0), Fits(Moved(balance, cmd)),
           balance' = Moved(balance, cmd),
           UNCHANGED <<orderVars, reservationVars, exits, request, inactive>>,
           underInventory' \in SUBSET Warehouses
    PROVE  TypeOK' /\ ReservationInvariant'
  <1>1. balance \in Balances /\ reserved \in Amounts /\ 0 \in Nat
    BY ReservedType DEF TypeOK
  <1>2. balance' \in Balances
    BY <1>1, MovedType
  <1>3. TypeOK'
    BY <1>2 DEF TypeOK, orderVars, reservationVars
  <1>4. reserved' = reserved
    BY ReservedStays DEF reservationVars
  <1>5. \A c \in Cells : reserved[c] <= balance'[c]
    BY <1>1, MovedRespectsReservations DEF ReservationInvariant, Covered
  <1>6. \A o \in Orders : OrderSound(o)'
    BY OrderFrame DEF ReservationInvariant, orderVars, reservationVars
  <1>7. QED
    BY <1>3, <1>4, <1>5, <1>6 DEF ReservationInvariant, ItemsAreAsked, Covered, orderVars

LEMMA OthersKeep ==
    ASSUME TypeOK, ReservationInvariant, OtherServices
    PROVE  TypeOK' /\ ReservationInvariant'
  <1>1. ASSUME NEW cmd \in Commands, Movement(cmd)
        PROVE  TypeOK' /\ ReservationInvariant'
    BY <1>1, MovementKeeps DEF TypeOK, Movement, environmentVars
  <1>2. ASSUME NEW cmd \in Commands, applyInventoryAdjustment(cmd)
        PROVE  TypeOK' /\ ReservationInvariant'
    BY <1>2, MovementKeeps DEF TypeOK, applyInventoryAdjustment
  <1>3. ASSUME NEW w \in Warehouses, StartCount(w) \/ CancelCount(w)
        PROVE  TypeOK' /\ ReservationInvariant'
    <2>1. UNCHANGED <<orderVars, reservationVars, stockVars, request, inactive>>
          /\ underInventory' \in SUBSET Warehouses
      BY <1>3 DEF TypeOK, StartCount, CancelCount
    <2>2. QED
      BY <2>1, RowsUnchanged DEF TypeOK, orderVars, reservationVars, stockVars
  <1>4. ASSUME NEW x \in Switchable, UpdateStatus(x)
        PROVE  TypeOK' /\ ReservationInvariant'
    <2>1. UNCHANGED <<orderVars, reservationVars, stockVars, request, underInventory>>
          /\ inactive' \in SUBSET Switchable
      BY <1>4 DEF TypeOK, UpdateStatus
    <2>2. QED
      BY <2>1, RowsUnchanged DEF TypeOK, orderVars, reservationVars, stockVars
  <1>5. QED
    BY <1>1, <1>2, <1>3, <1>4 DEF OtherServices

LEMMA StepKeeps ==
    ASSUME TypeOK, ReservationInvariant, [Next]_vars
    PROVE  TypeOK' /\ ReservationInvariant'
  <1>1. CASE UNCHANGED vars
    <2>1. UNCHANGED <<orderVars, reservationVars, stockVars, request, environmentVars>>
      BY <1>1 DEF vars
    <2>2. QED
      BY <2>1, RowsUnchanged
         DEF TypeOK, orderVars, reservationVars, stockVars, environmentVars
  <1>2. CASE \E o \in Orders : OrderStep(o)
    BY <1>2, CreateKeeps, CancelKeeps, ReserveKeeps, ReleaseKeeps, ShipKeeps DEF OrderStep
  <1>3. CASE \E t \in Clients : ClientStep(t)
    BY <1>3, ClientKeeps
  <1>4. CASE OtherServices
    BY <1>4, OthersKeep
  <1>5. QED
    BY <1>1, <1>2, <1>3, <1>4 DEF Next

(* Nothing is reserved of what no order has reserved.                      *)
LEMMA NothingReserved ==
    ASSUME active = [o \in Orders |-> NoAmount]
    PROVE  reserved = NoAmount
  <1>1. ASSUME NEW c \in Cells PROVE reserved[c] = 0
    <2> DEFINE f == [o \in Orders |-> active[o][c]]
    <2>1. \A o \in Orders : f[o] = 0 /\ f[o] \in Nat
      BY DEF NoAmount
    <2>2. reserved[c] = SumFunctionOnSet(f, Orders)
      BY DEF reserved, SumFunction
    <2> HIDE DEF f
    <2>3. QED
      BY <2>1, <2>2, SalesFiniteAssumption, SumOfNaturals
  <1>2. reserved = [c \in Cells |-> reserved[c]]
    BY DEF reserved
  <1>3. QED
    BY <1>1, <1>2 DEF NoAmount

LEMMA InitKeeps == Init => TypeOK /\ ReservationInvariant
  <1> SUFFICES ASSUME Init PROVE TypeOK /\ ReservationInvariant
    OBVIOUS
  <1>1. TypeOK
    <2>1. (CHOOSE w \in Warehouses : TRUE) \in Warehouses
      BY SalesWarehousesAssumption
    <2>2. warehouse \in [Orders -> Warehouses]
      BY <2>1 DEF Init
    <2>3. QED
      BY <2>2, NoAmountType, NoItemsType DEF Init, TypeOK, Statuses
  <1>2. reserved = NoAmount /\ balance = NoAmount
    BY NothingReserved DEF Init
  <1>3. Covered
    BY <1>2 DEF Covered, NoAmount
  <1>4. QED
    BY <1>1, <1>3 DEF Init, ReservationInvariant, ItemsAreAsked, OrderSound

(* Types hold, and with them the invariant of reservations: what is        *)
(* reserved is in full, in the order's warehouse and physically there.     *)
THEOREM ReservationsAreKept == Spec => [](TypeOK /\ ReservationInvariant)
  <1>1. (TypeOK /\ ReservationInvariant) /\ [Next]_vars
          => (TypeOK /\ ReservationInvariant)'
    BY StepKeeps
  <1>2. QED
    BY <1>1, InitKeeps, PTL DEF Spec

-----------------------------------------------------------------------------
(* What the invariant promises.                                            *)

(* A row of a RESERVED order passes every check of its shipment exit.      *)
LEMMA RowCanLeave ==
    ASSUME TypeOK, ReservationInvariant, NEW o \in Orders, status[o] = "RESERVED",
           warehouse[o] \notin underInventory \cup inactive,
           NEW c \in Allocated(o), c[2] \notin inactive
    PROVE  ExitAccepted(o, c)
  <1> DEFINE cmd == ShipmentExit(o, c)
  <1>1. c \in Cells /\ active[o][c] > 0 /\ WarehouseOf[c[2]] = warehouse[o]
    BY DEF Allocated, ReservationInvariant, OrderSound, CellsOf
  <1>2. c[1] \in Products /\ c[2] \in Locations /\ c = <<c[1], c[2]>>
    BY <1>1 DEF Cells
  <1>3. /\ cmd.source = c[2] /\ cmd.destination = NoLocation
        /\ cmd.productId = c[1] /\ cmd.quantity = active[o][c]
    BY DEF ShipmentExit, Command
  <1> HIDE DEF cmd
  <1>4. Endpoints(cmd) = {c[2]} /\ WarehousesOf(cmd) = {warehouse[o]}
    BY <1>1, <1>2, <1>3, NoLocationAssumption DEF Endpoints, WarehousesOf
  <1>5. EndpointsUsable(inactive, cmd) /\ Unlocked(underInventory, cmd)
    BY <1>4 DEF EndpointsUsable, Unlocked
  <1>6. Sufficient(balance, reserved, cmd, active[o][c])
    <2>1. active[o][c] \in 0..Capacity /\ reserved[c] \in Nat
          /\ active[o][c] <= reserved[c] /\ reserved[c] <= balance[c]
      BY <1>1, ReservedOf DEF ReservationInvariant, Covered
    <2>2. balance[c] \in Nat
      BY <1>1 DEF TypeOK, Balances
    <2>3. balance[c] - active[o][c] >= 0
          /\ balance[c] - active[o][c] >= reserved[c] - active[o][c]
      BY <2>1, <2>2
    <2>4. QED
      BY <1>2, <1>3, <2>3 DEF Sufficient
  <1>7. QED
    BY <1>5, <1>6 DEF ExitAccepted, cmd

LEMMA InvariantIsSound ==
    ASSUME TypeOK, ReservationInvariant
    PROVE  ReservationsAreSound
  <1>1. ReservedIsAllocated
    BY DEF ReservationInvariant, OrderSound, ReservedIsAllocated
  <1>2. ReservedIsShippable
    BY <1>1, RowCanLeave DEF ReservedIsAllocated, ReservedIsShippable
  <1>3. QED
    BY <1>1, <1>2 DEF ReservationsAreSound

(* ReservationsAreSound: reservations are those of RESERVED orders, in     *)
(* full, and ship never finds an inconsistency between rows and stock.     *)
THEOREM ReservationsStaySound == Spec => []ReservationsAreSound
  <1>1. TypeOK /\ ReservationInvariant => ReservationsAreSound
    BY InvariantIsSound
  <1>2. QED
    BY <1>1, ReservationsAreKept, PTL

(* The loop misses what the warehouse cannot give, and nothing else.       *)
LEMMA AllocationMissesTheRest ==
    ASSUME TypeOK, NEW o \in Orders, NEW p \in Products
    PROVE  LET inWarehouse == {l \in Locations : WarehouseOf[l] = warehouse[o]}
               total == SumFunction([l \in inWarehouse |-> Available(p, l)])
           IN  /\ Allocation(o, p).remaining = PositivePart(items[o][p] - total)
               /\ \A l \in inWarehouse : Allocation(o, p).taken[l] <= Available(p, l)
  <1> DEFINE W == {l \in Locations : WarehouseOf[l] = warehouse[o]}
             f == [l \in W |-> Available(p, l)]
             taken == Allocation(o, p).taken
             remaining == Allocation(o, p).remaining
             n == Cardinality(Locations)
  <1>1. /\ remaining \in Nat /\ taken \in [Locations -> Nat]
        /\ SumFunctionOnSet(taken, Locations) + remaining = items[o][p]
        /\ \A l \in Locations : taken[l] <= Available(p, l)
        /\ \A l \in Locations : taken[l] # 0 => WarehouseOf[l] = warehouse[o]
        /\ remaining > 0 =>
              \A i \in 1..n : WarehouseOf[CodeOrder[i]] = warehouse[o] =>
                  taken[CodeOrder[i]] = Available(p, CodeOrder[i])
    BY AllocationProgress DEF Progress
  <1>2. \A l \in W : f[l] = Available(p, l) /\ f[l] \in Nat
    BY AvailableType
  <1>3. W \in SUBSET Locations /\ IsFiniteSet(W) /\ items[o][p] \in Nat
    <2>1. W \in SUBSET Locations
      OBVIOUS
    <2>2. QED
      BY <2>1, SalesFiniteAssumption, FS_Subset, StartType
  <1>4. SumFunction(f) = SumFunctionOnSet(f, W)
    BY DEF SumFunction
  <1>5. remaining > 0 => \A l \in W : taken[l] = f[l]
    <2> SUFFICES ASSUME remaining > 0, NEW l \in W
                 PROVE  taken[l] = f[l]
      OBVIOUS
    <2>1. PICK i \in 1..n : CodeOrder[i] = l
      BY CodeOrderAssumption
    <2>2. QED
      BY <1>1, <2>1
  <1>6. \A l \in Locations \ W : taken[l] = 0
    BY <1>1
  <1> HIDE DEF W, f, taken, remaining, n
  <1>7. SumFunctionOnSet(taken, Locations) = SumFunctionOnSet(taken, W)
    <2>1. \A l \in Locations : taken[l] \in Int
      BY <1>1
    <2>2. QED
      BY <1>3, <1>6, <2>1, SalesFiniteAssumption, SumOverPart
  <1>8. \A l \in W : /\ taken[l] \in Int /\ f[l] \in Int /\ taken[l] <= f[l]
                     /\ taken[l] \in Nat /\ f[l] \in Nat
    BY <1>1, <1>2, <1>3
  <1>9. SumFunctionOnSet(taken, W) \in Nat /\ SumFunctionOnSet(f, W) \in Nat
    BY <1>3, <1>8, SumOfNaturals
  <1>10. SumFunctionOnSet(taken, W) <= SumFunctionOnSet(f, W)
    BY <1>3, <1>8, SumIsMonotone
  <1>11. remaining > 0 => SumFunctionOnSet(taken, W) = SumFunctionOnSet(f, W)
    <2> SUFFICES ASSUME remaining > 0
                 PROVE  SumFunctionOnSet(taken, W) = SumFunctionOnSet(f, W)
      OBVIOUS
    <2>1. \A l \in W : f[l] \in Int /\ taken[l] = f[l]
      BY <1>5, <1>8
    <2>2. QED
      BY <1>3, <2>1, SumOfEqual
  <1>12. remaining = PositivePart(items[o][p] - SumFunction(f))
    <2>1. remaining \in Nat /\ SumFunctionOnSet(taken, W) + remaining = items[o][p]
      BY <1>1, <1>7
    <2>2. QED
      BY <1>3, <1>4, <1>9, <1>10, <1>11, <2>1 DEF PositivePart
  <1>13. \A l \in W : taken[l] <= Available(p, l)
    BY <1>1, <1>3
  <1>14. QED
    BY <1>12, <1>13 DEF W, f, taken, remaining

(* AllocationIsExact: reserve refuses an order only if its warehouse's     *)
(* active locations together hold too little of an item.                   *)
THEOREM AllocationFindsStock == Spec => []AllocationIsExact
  <1>1. TypeOK => AllocationIsExact
    BY AllocationMissesTheRest DEF AllocationIsExact
  <1>2. QED
    BY <1>1, ReservationsAreKept, PTL

-----------------------------------------------------------------------------
(* An order is edited as a draft and moves along its path.                 *)

(* A step changes the content of an order only if it was a draft or new.   *)
DraftsEdited(o) ==
    status[o] \notin {"NONE", "DRAFT"} => warehouse'[o] = warehouse[o] /\ items'[o] = items[o]
Path(o) ==
    status'[o] # status[o] =>
      <<status[o], status'[o]>> \in
        {<<"NONE", "DRAFT">>, <<"DRAFT", "CONFIRMED">>, <<"CONFIRMED", "RESERVED">>,
         <<"RESERVED", "CONFIRMED">>, <<"RESERVED", "SHIPPED">>}
        \cup ({"DRAFT", "CONFIRMED", "RESERVED"} \X {"CANCELLED"})

LEMMA StepsKeepOrders ==
    ASSUME TypeOK, [Next]_vars, NEW x \in Orders
    PROVE  DraftsEdited(x) /\ Path(x)
  <1>1. CASE UNCHANGED orderVars
    BY <1>1 DEF orderVars, DraftsEdited, Path
  <1>2. ASSUME NEW o \in Orders, OrderStep(o)
        PROVE  DraftsEdited(x) /\ Path(x)
    <2>1. ASSUME NEW w \in Warehouses, NEW list \in ItemChoices, create(o, w, list)
          PROVE  DraftsEdited(x) /\ Path(x)
      BY <2>1 DEF TypeOK, create, DraftsEdited, Path
    <2>2. CASE cancel(o)
      BY <2>2 DEF TypeOK, cancel, DraftsEdited, Path
    <2>3. CASE reserve(o)
      BY <2>3 DEF TypeOK, reserve, DraftsEdited, Path
    <2>4. CASE release(o)
      BY <2>4 DEF TypeOK, release, DraftsEdited, Path
    <2>5. CASE ship(o)
      BY <2>5 DEF TypeOK, ship, DraftsEdited, Path
    <2>6. QED
      BY <1>2, <2>1, <2>2, <2>3, <2>4, <2>5 DEF OrderStep
  <1>3. ASSUME NEW t \in Clients, ClientStep(t)
        PROVE  DraftsEdited(x) /\ Path(x)
    <2>1. CASE CommitUpdate(t)
      BY <2>1 DEF TypeOK, CommitUpdate, DraftsEdited, Path
    <2>2. CASE CommitConfirm(t)
      BY <2>2 DEF TypeOK, CommitConfirm, DraftsEdited, Path
    <2>3. CASE UNCHANGED orderVars
      BY <1>1, <2>3
    <2>4. QED
      BY <1>3, <2>1, <2>2, <2>3 DEF ClientStep, BeginUpdate, BeginConfirm, Rollback
  <1>4. OtherServices => UNCHANGED orderVars
    BY DEF OtherServices, Movement, applyInventoryAdjustment, StartCount, CancelCount,
           UpdateStatus
  <1>5. QED
    BY <1>1, <1>2, <1>3, <1>4 DEF Next, vars

(* LateWritesAreRefused: however requests overlap, an order that is no     *)
(* draft keeps its content, and its status follows its path.               *)
THEOREM LateWritesChangeNothing == Spec => LateWritesAreRefused
  <1>1. TypeOK /\ [Next]_vars =>
          \A o \in Orders : status[o] \notin {"NONE", "DRAFT"} =>
              warehouse'[o] = warehouse[o] /\ items'[o] = items[o]
    BY StepsKeepOrders DEF DraftsEdited
  <1>2. TypeOK /\ [Next]_vars =>
          \A o \in Orders : status'[o] # status[o] =>
            <<status[o], status'[o]>> \in
              {<<"NONE", "DRAFT">>, <<"DRAFT", "CONFIRMED">>, <<"CONFIRMED", "RESERVED">>,
               <<"RESERVED", "CONFIRMED">>, <<"RESERVED", "SHIPPED">>}
              \cup ({"DRAFT", "CONFIRMED", "RESERVED"} \X {"CANCELLED"})
    BY StepsKeepOrders DEF Path
  <1>3. QED
    BY <1>1, <1>2, ReservationsAreKept, PTL
       DEF Spec, LateWritesAreRefused, OnlyDraftsAreEdited, StatusPath

-----------------------------------------------------------------------------
(* What left for an order.                                                 *)

LEMMA OrderStaysShipped ==
    ASSUME TypeOK, [Next]_vars, NEW x \in Orders, ~ship(x)
    PROVE  exits'[x] = exits[x] /\ (status'[x] = "SHIPPED" <=> status[x] = "SHIPPED")
  <1> DEFINE Goal == exits'[x] = exits[x] /\ (status'[x] = "SHIPPED" <=> status[x] = "SHIPPED")
  <1>1. CASE UNCHANGED <<status, exits>>
    BY <1>1
  <1>2. ASSUME NEW o \in Orders, OrderStep(o)
        PROVE  Goal
    <2>1. ASSUME NEW w \in Warehouses, NEW list \in ItemChoices, create(o, w, list)
          PROVE  Goal
      BY <2>1 DEF TypeOK, create, stockVars
    <2>2. CASE cancel(o)
      BY <2>2 DEF TypeOK, cancel, stockVars
    <2>3. CASE reserve(o)
      BY <2>3 DEF TypeOK, reserve, stockVars
    <2>4. CASE release(o)
      BY <2>4 DEF TypeOK, release, stockVars
    <2>5. CASE ship(o)
      <3>1. o # x
        BY <2>5
      <3>2. QED
        BY <2>5, <3>1 DEF TypeOK, ship
    <2>6. QED
      BY <1>2, <2>1, <2>2, <2>3, <2>4, <2>5 DEF OrderStep
  <1>3. ASSUME NEW t \in Clients, ClientStep(t)
        PROVE  Goal
    <2>1. CASE CommitConfirm(t)
      BY <2>1 DEF TypeOK, CommitConfirm, stockVars
    <2>2. CASE UNCHANGED <<status, exits>>
      BY <1>1, <2>2
    <2>3. QED
      BY <1>3, <2>1, <2>2
         DEF ClientStep, BeginUpdate, BeginConfirm, Rollback, CommitUpdate, stockVars, orderVars
  <1>4. OtherServices => UNCHANGED <<status, exits>>
    BY DEF OtherServices, Movement, applyInventoryAdjustment, StartCount, CancelCount,
           UpdateStatus, orderVars, stockVars
  <1>5. QED
    BY <1>1, <1>2, <1>3, <1>4 DEF Next, vars, orderVars, stockVars

(* The rows of a RESERVED order add up to what was ordered.                *)
LEMMA RowsAreTheOrder ==
    ASSUME TypeOK, ReservationInvariant, NEW o \in Orders, status[o] = "RESERVED",
           NEW p \in Products
    PROVE  SumOverLocations(active[o], p) = items[o][p]
  <1> DEFINE f == [l \in Locations |-> active[o][<<p, l>>]]
  <1>1. items[o][p] \in Nat
    BY StartType
  <1>2. SumOverLocations(active[o], p) = SumFunctionOnSet(f, Locations)
    BY DEF SumOverLocations, SumFunction
  <1>3. CASE items[o][p] > 0
    BY <1>3 DEF ReservationInvariant, OrderSound, FullyReserved, ProductsOf
  <1>4. CASE items[o][p] = 0
    <2>1. \A l \in Locations : f[l] = 0 /\ f[l] \in Nat
      <3> SUFFICES ASSUME NEW l \in Locations PROVE active[o][<<p, l>>] = 0
        OBVIOUS
      <3>1. <<p, l>> \in Cells /\ <<p, l>>[1] = p
        BY DEF Cells
      <3>2. <<p, l>> \notin Allocated(o)
        BY <1>4, <3>1 DEF ReservationInvariant, OrderSound
      <3>3. active[o][<<p, l>>] \in 0..Capacity
        BY <3>1 DEF TypeOK, Balances
      <3>4. QED
        BY <3>1, <3>2, <3>3 DEF Allocated
    <2> HIDE DEF f
    <2>2. SumFunctionOnSet(f, Locations) = 0
      BY <2>1, SalesFiniteAssumption, SumOfNaturals
    <2>3. QED
      BY <1>2, <1>4, <2>2
  <1>5. QED
    BY <1>1, <1>3, <1>4

LEMMA ShipmentAddsOrder ==
    ASSUME TypeOK, ReservationInvariant, NEW o \in Orders, ship(o), NEW p \in Products,
           SumOverLocations(exits[o], p) = 0
    PROVE  SumOverLocations(exits'[o], p) = items'[o][p] /\ status'[o] = "SHIPPED"
  <1> DEFINE f == [l \in Locations |-> exits[o][<<p, l>>]]
             g == [l \in Locations |-> active[o][<<p, l>>]]
             h == [l \in Locations |-> exits'[o][<<p, l>>]]
  <1>1. /\ status[o] = "RESERVED" /\ status'[o] = "SHIPPED" /\ items' = items
        /\ exits'[o] = [c \in Cells |-> exits[o][c] + active[o][c]]
    BY DEF ship, TypeOK
  <1>2. \A l \in Locations : f[l] \in Int /\ g[l] \in Int /\ h[l] = f[l] + g[l]
    <2> SUFFICES ASSUME NEW l \in Locations
                 PROVE  f[l] \in Int /\ g[l] \in Int /\ h[l] = f[l] + g[l]
      OBVIOUS
    <2>1. <<p, l>> \in Cells
      BY DEF Cells
    <2>2. exits[o][<<p, l>>] \in Nat /\ active[o][<<p, l>>] \in 0..Capacity
      BY <2>1 DEF TypeOK, Amounts, Balances
    <2>3. QED
      BY <1>1, <2>1, <2>2
  <1>3. /\ SumOverLocations(exits[o], p) = SumFunctionOnSet(f, Locations)
        /\ SumOverLocations(active[o], p) = SumFunctionOnSet(g, Locations)
        /\ SumOverLocations(exits'[o], p) = SumFunctionOnSet(h, Locations)
    BY DEF SumOverLocations, SumFunction
  <1> HIDE DEF f, g, h
  <1>4. SumFunctionOnSet(h, Locations) = SumFunctionOnSet(f, Locations) + SumFunctionOnSet(g, Locations)
    BY <1>2, SalesFiniteAssumption, SumOfTwo
  <1>5. SumOverLocations(active[o], p) = items[o][p] /\ items[o][p] \in Nat
    BY <1>1, RowsAreTheOrder, StartType
  <1>6. QED
    BY <1>1, <1>3, <1>4, <1>5

LEMMA StepShipsOnce ==
    ASSUME TypeOK, ReservationInvariant, ShippedOnce, [Next]_vars
    PROVE  ShippedOnce'
  <1> SUFFICES ASSUME NEW o \in Orders, NEW p \in Products
               PROVE  SumOverLocations(exits'[o], p)
                        = IF status'[o] = "SHIPPED" THEN items'[o][p] ELSE 0
    BY DEF ShippedOnce, SumOverLocations
  <1>1. SumOverLocations(exits[o], p) = IF status[o] = "SHIPPED" THEN items[o][p] ELSE 0
    BY DEF ShippedOnce
  <1>2. CASE ship(o)
    <2>1. status[o] = "RESERVED"
      BY <1>2 DEF ship
    <2>2. QED
      BY <1>1, <1>2, <2>1, ShipmentAddsOrder
  <1>3. CASE ~ship(o)
    <2>1. exits'[o] = exits[o] /\ (status'[o] = "SHIPPED" <=> status[o] = "SHIPPED")
      BY <1>3, OrderStaysShipped
    <2>2. status[o] = "SHIPPED" => items'[o] = items[o]
      BY StepsKeepOrders DEF DraftsEdited
    <2>3. QED
      BY <1>1, <2>1, <2>2
  <1>4. QED
    BY <1>2, <1>3

LEMMA NothingShipped == Init => ShippedOnce
  <1> SUFFICES ASSUME Init, NEW o \in Orders, NEW p \in Products
               PROVE  SumOverLocations(exits[o], p) = 0 /\ status[o] # "SHIPPED"
    BY DEF ShippedOnce
  <1> DEFINE f == [l \in Locations |-> exits[o][<<p, l>>]]
  <1>1. \A l \in Locations : f[l] = 0 /\ f[l] \in Nat
    BY DEF Init, NoAmount, Cells
  <1>2. SumOverLocations(exits[o], p) = SumFunctionOnSet(f, Locations)
    BY DEF SumOverLocations, SumFunction
  <1> HIDE DEF f
  <1>3. SumFunctionOnSet(f, Locations) = 0
    BY <1>1, SalesFiniteAssumption, SumOfNaturals
  <1>4. QED
    BY <1>2, <1>3 DEF Init

(* ShippedOnce: what left the warehouse for an order is what was ordered,  *)
(* once, and only for a SHIPPED order.                                     *)
THEOREM OrdersShipOnce == Spec => []ShippedOnce
  <1>1. TypeOK /\ ReservationInvariant /\ ShippedOnce /\ [Next]_vars => ShippedOnce'
    BY StepShipsOnce
  <1>2. QED
    BY <1>1, NothingShipped, ReservationsAreKept, PTL DEF Spec

-----------------------------------------------------------------------------
(* The contract of stock.                                                  *)

(* The instance of the contract speaks of the same cells and amounts.      *)
LEMMA SameContract ==
    /\ Contract!Cells = Cells /\ Contract!Balances = Balances
    /\ Contract!Amounts = Amounts /\ Contract!NoAmount = NoAmount
    /\ \A w : Contract!CellsOf(w) = CellsOf(w)
    /\ \A c : Contract!Open(c) <=> WarehouseOf[c[2]] \notin underInventory
  BY DEF Contract!Cells, Contract!Balances, Contract!Amounts, Contract!NoAmount,
         Contract!CellsOf, Contract!Open, Cells, Balances, Amounts, NoAmount, CellsOf

(* Reserved quantities fit in the column wherever the rows are covered.    *)
LEMMA ReservedFits ==
    ASSUME TypeOK, ReservationInvariant
    PROVE  reserved \in Balances
  BY ReservedType, WithinBalances DEF TypeOK, ReservationInvariant, Covered

LEMMA ReserveHolds ==
    ASSUME TypeOK, ReservationInvariant, reserved' \in Balances, NEW o \in Orders, reserve(o)
    PROVE  Contract!Hold
  <1>1. /\ status[o] = "CONFIRMED" /\ warehouse[o] \notin underInventory
        /\ active' = [active EXCEPT ![o] = Rows(o)]
        /\ UNCHANGED <<balance, underInventory>>
    BY DEF reserve, Rows, stockVars, environmentVars
  <1>2. ASSUME NEW c \in Cells, reserved'[c] # reserved[c]
        PROVE  /\ WarehouseOf[c[2]] \notin underInventory
               /\ reserved[c] < reserved'[c] /\ reserved'[c] <= balance[c]
    <2>1. reserved'[c] = (reserved[c] - active[o][c]) + Rows(o)[c]
      BY <1>1, RowsType, ReservedChanges
    <2>2. active[o][c] = 0
      BY <1>1 DEF ReservationInvariant, OrderSound, NoAmount
    <2>3. /\ Rows(o)[c] \in 0..Capacity
          /\ Rows(o)[c] > 0 => /\ reserved[c] + Rows(o)[c] <= balance[c]
                               /\ WarehouseOf[c[2]] = warehouse[o]
      BY RowsAreAllocated
    <2>4. reserved[c] \in Nat
      BY ReservedOf
    <2>5. reserved'[c] = reserved[c] + Rows(o)[c] /\ Rows(o)[c] > 0
      BY <1>2, <2>1, <2>2, <2>3, <2>4
    <2>6. QED
      BY <1>1, <2>3, <2>4, <2>5
  <1>3. QED
    BY <1>1, <1>2, SameContract DEF Contract!Hold

LEMMA RowsGivenUpAreFreed ==
    ASSUME TypeOK, ReservationInvariant, reserved' \in Balances, NEW o \in Orders,
           active' = [active EXCEPT ![o] = NoAmount], UNCHANGED <<balance, underInventory>>
    PROVE  Contract!Free
  BY ReleasedRows, SameContract DEF Contract!Free

LEMMA ShipmentShips ==
    ASSUME TypeOK, ReservationInvariant, TypeOK', reserved' \in Balances,
           NEW o \in Orders, ship(o)
    PROVE  Contract!Ship
  <1>1. /\ status[o] = "RESERVED" /\ warehouse[o] \notin underInventory
        /\ balance' = [c \in Cells |-> balance[c] - active[o][c]]
        /\ active' = [active EXCEPT ![o] = NoAmount]
        /\ UNCHANGED underInventory
    BY DEF ship, environmentVars
  <1>2. ASSUME NEW c \in Cells
        PROVE  \/ balance'[c] = balance[c] /\ reserved'[c] = reserved[c]
               \/ /\ WarehouseOf[c[2]] \notin underInventory /\ reserved'[c] < reserved[c]
                  /\ balance[c] - balance'[c] = reserved[c] - reserved'[c]
    <2>1. reserved'[c] = reserved[c] - active[o][c] /\ active[o][c] \in 0..Capacity
      BY <1>1, ReleasedRows
    <2>2. balance'[c] = balance[c] - active[o][c]
      BY <1>1
    <2>3. reserved[c] \in Nat /\ balance[c] \in Nat
      BY ReservedOf DEF TypeOK, Balances
    <2>4. active[o][c] > 0 => WarehouseOf[c[2]] \notin underInventory
      BY <1>1 DEF ReservationInvariant, OrderSound, Allocated, CellsOf
    <2>5. QED
      BY <2>1, <2>2, <2>3, <2>4
  <1>3. balance' \in Balances
    BY DEF TypeOK
  <1>4. QED
    BY <1>1, <1>2, <1>3, SameContract DEF Contract!Ship

LEMMA OrderStepImplements ==
    ASSUME TypeOK, ReservationInvariant, TypeOK', reserved' \in Balances,
           NEW o \in Orders, OrderStep(o)
    PROVE  Contract!Next \/ UNCHANGED Contract!vars
  <1>1. ASSUME NEW w \in Warehouses, NEW list \in ItemChoices, create(o, w, list)
        PROVE  UNCHANGED Contract!vars
    BY <1>1, ReservedStays DEF create, reservationVars, stockVars, environmentVars, Contract!vars
  <1>2. CASE cancel(o)
    <2>1. CASE status[o] = "RESERVED"
      <3>1. active' = [active EXCEPT ![o] = NoAmount] /\ UNCHANGED <<balance, underInventory>>
        BY <1>2, <2>1 DEF cancel, stockVars, environmentVars
      <3>2. QED
        BY <3>1, RowsGivenUpAreFreed DEF Contract!Next
    <2>2. CASE status[o] # "RESERVED"
      BY <1>2, <2>2, ReservedStays
         DEF cancel, reservationVars, stockVars, environmentVars, Contract!vars
    <2>3. QED
      BY <2>1, <2>2
  <1>3. CASE reserve(o)
    BY <1>3, ReserveHolds DEF Contract!Next
  <1>4. CASE release(o)
    <2>1. active' = [active EXCEPT ![o] = NoAmount] /\ UNCHANGED <<balance, underInventory>>
      BY <1>4 DEF release, stockVars, environmentVars
    <2>2. QED
      BY <2>1, RowsGivenUpAreFreed DEF Contract!Next
  <1>5. CASE ship(o)
    BY <1>5, ShipmentShips DEF Contract!Next
  <1>6. QED
    BY <1>1, <1>2, <1>3, <1>4, <1>5 DEF OrderStep

LEMMA MovementImplements ==
    ASSUME TypeOK, TypeOK', NEW cmd \in Commands, Movement(cmd)
    PROVE  Contract!Move
  <1>1. /\ balance \in Balances /\ balance' \in Balances /\ reserved \in Amounts
        /\ Unlocked(underInventory, cmd) /\ Sufficient(balance, reserved, cmd, 0)
        /\ balance' = Moved(balance, cmd) /\ UNCHANGED <<reserved, underInventory>>
    BY ReservedType, ReservedStays DEF TypeOK, Movement, reservationVars, environmentVars
  <1>2. ASSUME NEW c \in Cells, balance'[c] # balance[c]
        PROVE  /\ WarehouseOf[c[2]] \notin underInventory
               /\ balance'[c] > balance[c] \/ balance'[c] >= reserved[c]
    BY <1>1, <1>2, MovementIsLocal DEF Unlocked
  <1>3. QED
    BY <1>1, <1>2, SameContract DEF Contract!Move

LEMMA AdjustmentImplements ==
    ASSUME TypeOK, TypeOK', NEW cmd \in Commands, applyInventoryAdjustment(cmd)
    PROVE  \E w \in Warehouses : Contract!ApproveCount(w)
  <1>1. PICK w \in Warehouses : WarehousesOf(cmd) = {w}
    BY AdjustmentHasOneSide DEF applyInventoryAdjustment
  <1>2. /\ w \in underInventory /\ underInventory' = underInventory \ {w}
        /\ balance \in Balances /\ balance' \in Balances /\ reserved \in Amounts
        /\ UNCHANGED reserved
        /\ balance' = Moved(balance, cmd) /\ Sufficient(balance, reserved, cmd, 0)
    BY <1>1, ReservedType, ReservedStays DEF applyInventoryAdjustment, TypeOK, reservationVars
  <1>3. ASSUME NEW c \in Cells, balance'[c] # balance[c]
        PROVE  c \in CellsOf(w) /\ (balance'[c] > balance[c] \/ balance'[c] >= reserved[c])
    BY <1>1, <1>2, <1>3, MovementIsLocal DEF CellsOf
  <1>4. QED
    BY <1>2, <1>3, SameContract DEF Contract!ApproveCount

LEMMA OthersImplement ==
    ASSUME TypeOK, TypeOK', OtherServices
    PROVE  Contract!Next \/ UNCHANGED Contract!vars
  <1>1. ASSUME NEW cmd \in Commands, Movement(cmd) \/ applyInventoryAdjustment(cmd)
        PROVE  Contract!Next
    BY <1>1, MovementImplements, AdjustmentImplements DEF Contract!Next
  <1>2. ASSUME NEW w \in Warehouses, StartCount(w) \/ CancelCount(w)
        PROVE  Contract!Next
    <2>1. Contract!OpenCount(w) \/ Contract!CloseCount(w)
      BY <1>2, ReservedStays
         DEF StartCount, CancelCount, reservationVars, stockVars,
             Contract!OpenCount, Contract!CloseCount
    <2>2. QED
      BY <2>1 DEF Contract!Next
  <1>3. ASSUME NEW x \in Switchable, UpdateStatus(x)
        PROVE  UNCHANGED Contract!vars
    BY <1>3, ReservedStays DEF UpdateStatus, reservationVars, stockVars, Contract!vars
  <1>4. QED
    BY <1>1, <1>2, <1>3 DEF OtherServices

LEMMA StepImplements ==
    ASSUME TypeOK, ReservationInvariant, TypeOK', reserved' \in Balances, [Next]_vars
    PROVE  [Contract!Next]_(Contract!vars)
  <1>1. CASE UNCHANGED vars
    BY <1>1, ReservedStays
       DEF vars, reservationVars, stockVars, environmentVars, Contract!vars
  <1>2. ASSUME NEW t \in Clients, ClientStep(t)
        PROVE  UNCHANGED Contract!vars
    BY <1>2, ReservedStays
       DEF ClientStep, BeginUpdate, BeginConfirm, CommitUpdate, CommitConfirm, Rollback,
           reservationVars, stockVars, environmentVars, Contract!vars
  <1>3. QED
    BY <1>1, <1>2, OrderStepImplements, OthersImplement DEF Next

(* ImplementsContract: orders, reservations and shipments, beside the      *)
(* movements and counts of others, keep the contract of stock.             *)
THEOREM SalesFlowKeepsContract == Spec => ImplementsContract
  <1>1. Init => Contract!Init
    BY InitKeeps, NothingReserved, SameContract DEF Init, TypeOK, Contract!Init
  <1>2. TypeOK /\ ReservationInvariant => reserved \in Balances
    BY ReservedFits
  <1>3. TypeOK /\ ReservationInvariant /\ TypeOK' /\ (reserved \in Balances)' /\ [Next]_vars
          => [Contract!Next]_(Contract!vars)
    BY StepImplements
  <1>4. Spec => Contract!Spec
    BY <1>1, <1>2, <1>3, ReservationsAreKept, PTL DEF Spec, Contract!Spec
  <1>5. QED
    BY <1>4 DEF ImplementsContract
=============================================================================
