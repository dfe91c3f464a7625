------------------------------ MODULE StockProofs ------------------------------
(***************************************************************************)
(* What the operators of module Stock preserve, for all rows and all       *)
(* quantities, and how a sum over a finite set changes with one summand.   *)
(***************************************************************************)
EXTENDS Stock, Functions, FiniteSetTheorems, WellFoundedInduction, TLAPS

\* The row every handler writes, column by column.
LEMMA WithStockColumns ==
  ASSUME NEW row \in Row, NEW quantity \in Int, NEW reserved \in Int
  PROVE  /\ WithStock(row, quantity, reserved) \in Row
         /\ WithStock(row, quantity, reserved).quantity = quantity
         /\ WithStock(row, quantity, reserved).reserved = reserved
         /\ WithStock(row, quantity, reserved).available = quantity - reserved
         /\ WithStock(row, quantity, reserved).status = row.status
BY DEF Row, WithStock

\* Reserving what can be reserved keeps the counters of a row in agreement
\* (inventory.service.ts:206-215).
LEMMA ReserveKeepsBalance ==
  ASSUME NEW row \in Row, NEW n \in Nat, Balanced(row), CanReserve(row, n)
  PROVE  Reserve(row, n) \in Row /\ Balanced(Reserve(row, n))
BY DEF Row, Balanced, CanReserve, Reserve, WithStock

\* Releasing any quantity does (inventory.service.ts:269-273).
LEMMA ReleaseKeepsBalance ==
  ASSUME NEW row \in Row, NEW n \in Nat, Balanced(row)
  PROVE  Release(row, n) \in Row /\ Balanced(Release(row, n))
BY DEF Row, Balanced, Release, WithStock, AtLeastZero

\* Finalizing any quantity does (inventory.service.ts:321-330).
LEMMA FinalizeKeepsBalance ==
  ASSUME NEW row \in Row, NEW n \in Nat, Balanced(row)
  PROVE  Finalize(row, n) \in Row /\ Balanced(Finalize(row, n))
BY DEF Row, Balanced, Finalize, WithStock, AtLeastZero

\* Two lines of one product do to a row what one line of both quantities does,
\* in every handler: an order's lines may be modelled as a function from
\* products to quantities.  The second check of a reservation sees what the
\* first one left (inventory.service.ts:196-215, 256-273, 302-330).
THEOREM LinesAddUp ==
  ASSUME NEW row \in Row, NEW a \in Nat, NEW b \in Nat, Balanced(row)
  PROVE  /\ CanReserve(row, a) /\ CanReserve(Reserve(row, a), b) <=> CanReserve(row, a + b)
         /\ Reserve(Reserve(row, a), b) = Reserve(row, a + b)
         /\ Release(Release(row, a), b) = Release(row, a + b)
         /\ Finalize(Finalize(row, a), b) = Finalize(row, a + b)
<1>1. CanReserve(row, a) /\ CanReserve(Reserve(row, a), b) <=> CanReserve(row, a + b)
  BY DEF Row, Balanced, CanReserve, Exists, Reserve, WithStock
<1>2. Reserve(Reserve(row, a), b) = Reserve(row, a + b)
  BY DEF Row, Reserve, WithStock
<1>3. Release(Release(row, a), b) = Release(row, a + b)
  BY DEF Row, Release, WithStock, Balanced, AtLeastZero
<1>4. Finalize(Finalize(row, a), b) = Finalize(row, a + b)
  BY DEF Row, Finalize, WithStock, Balanced, AtLeastZero
<1> QED
  BY <1>1, <1>2, <1>3, <1>4
-------------------------------------------------------------------------------
(* The rows of a whole order.  A transaction handles each line once. *)


\* An order reserved as a whole leaves every row balanced, and so does one
\* released or finalized as a whole, whether or not it was reserved before.
LEMMA OrderKeepsBalance ==
  ASSUME NEW S, NEW stock \in [S -> Row], NEW cart,
         \A p \in S : Balanced(stock[p]),
         DOMAIN cart \subseteq S, \A p \in DOMAIN cart : cart[p] \in Nat
  PROVE  /\ CanReserveAll(stock, cart)
              => /\ ReserveAll(stock, cart) \in [S -> Row]
                 /\ \A p \in S : Balanced(ReserveAll(stock, cart)[p])
         /\ ReleaseAll(stock, cart) \in [S -> Row]
         /\ \A p \in S : Balanced(ReleaseAll(stock, cart)[p])
         /\ FinalizeAll(stock, cart) \in [S -> Row]
         /\ \A p \in S : Balanced(FinalizeAll(stock, cart)[p])
<1>1. CanReserveAll(stock, cart)
        => /\ ReserveAll(stock, cart) \in [S -> Row]
           /\ \A p \in S : Balanced(ReserveAll(stock, cart)[p])
  BY ReserveKeepsBalance DEF CanReserveAll, ReserveAll
<1>2. /\ ReleaseAll(stock, cart) \in [S -> Row]
      /\ \A p \in S : Balanced(ReleaseAll(stock, cart)[p])
  BY ReleaseKeepsBalance DEF ReleaseAll
<1>3. /\ FinalizeAll(stock, cart) \in [S -> Row]
      /\ \A p \in S : Balanced(FinalizeAll(stock, cart)[p])
  BY FinalizeKeepsBalance DEF FinalizeAll
<1> QED
  BY <1>1, <1>2, <1>3
-------------------------------------------------------------------------------
(* Sums over a finite set.  SumFunctionOnSet chooses the elements one after  *)
(* the other; that the recursion has a solution, and what it is, is shown by *)
(* looking at a smallest set for which it would fail.                        *)

\* A set of numbers has a least one.
LEMMA LeastNumber ==
  ASSUME NEW T, T \subseteq Nat, T # {}
  PROVE  \E i \in T : \A j \in T : i <= j
<1> DEFINE Less == {ss \in Nat \X Nat : ss[1] < ss[2]}
<1>1. IsWellFoundedOn(Less, Nat)
  BY NatLessThanWellFounded DEF OpToRel
<1> HIDE DEF Less
<1>2. PICK i \in T : \A j \in T : <<j, i>> \notin Less
  BY <1>1, WFMin
<1>3. ASSUME NEW j \in T PROVE i <= j
  <2>1. i \in Nat /\ j \in Nat /\ <<j, i>> \notin Less
    BY <1>2
  <2>2. j < i => <<j, i>> \in Less
    BY <2>1 DEF Less
  <2> QED
    BY <2>1, <2>2
<1> QED
  BY <1>3

\* The recursion behind SumFunctionOnSet, as far as the sets of Sets go.
SumsUp(g, f, Sets) ==
  g = [s \in Sets |-> IF s = {} THEN 0
                      ELSE LET x == CHOOSE x \in s : TRUE IN f[x] + g[s \ {x}]]

\* SumFunctionOnSet takes the solution over all subsets.
LEMMA SumIsFold ==
  ASSUME NEW f, NEW S
  PROVE  SumFunctionOnSet(f, S) = (CHOOSE g : SumsUp(g, f, SUBSET S))[S]
BY Zenon DEF SumFunctionOnSet, FoldFunctionOnSet, MapThenFoldSet, SumsUp

\* Among sets of elements of a finite set there is a smallest one.
LEMMA SmallestSet ==
  ASSUME NEW S, IsFiniteSet(S), NEW B, B \subseteq SUBSET S, B # {}
  PROVE  \E s \in B : \A t \in B : Cardinality(s) <= Cardinality(t)
<1> DEFINE Sizes == {Cardinality(s) : s \in B}
<1>1. Sizes \subseteq Nat
  BY FS_Subset, FS_CardinalityType
<1>2. Sizes # {}
  OBVIOUS
<1>3. PICK n \in Sizes : \A m \in Sizes : n <= m
  BY <1>1, <1>2, LeastNumber
<1> QED
  BY <1>3

\* The subsets that have at most n elements.
UpTo(S, n) == {s \in SUBSET S : Cardinality(s) <= n}

\* Without the element that is chosen, a set is smaller by one.
LEMMA Smaller ==
  ASSUME NEW S, IsFiniteSet(S), NEW s \in SUBSET S, s # {}
  PROVE  \E x \in s : /\ x = (CHOOSE y \in s : TRUE)
                      /\ s \ {x} \in SUBSET S
                      /\ Cardinality(s) \in Nat /\ Cardinality(s \ {x}) \in Nat
                      /\ Cardinality(s) = Cardinality(s \ {x}) + 1
<1> DEFINE x == CHOOSE y \in s : TRUE
<1>1. x \in s
  OBVIOUS
<1>2. IsFiniteSet(s)
  BY FS_Subset
<1>3. IsFiniteSet(s \ {x}) /\ Cardinality(s \ {x}) = Cardinality(s) - 1
  BY <1>1, <1>2, FS_RemoveElement
<1>4. Cardinality(s) \in Nat /\ Cardinality(s \ {x}) \in Nat
  BY <1>2, <1>3, FS_CardinalityType
<1>5. s \ {x} \in SUBSET S
  OBVIOUS
<1> HIDE DEF x
<1>6. Cardinality(s) = Cardinality(s \ {x}) + 1
  BY <1>3, <1>4
<1> QED
  BY <1>1, <1>4, <1>5, <1>6 DEF x

\* A sum over the sets of at most n elements gives one over those of n + 1.
LEMMA SumExtends ==
  ASSUME NEW S, IsFiniteSet(S), NEW f \in [S -> Nat], NEW n \in Nat,
         NEW g \in [UpTo(S, n) -> Nat], SumsUp(g, f, UpTo(S, n))
  PROVE  \E h \in [UpTo(S, n + 1) -> Nat] : SumsUp(h, f, UpTo(S, n + 1))
<1> DEFINE h == [s \in UpTo(S, n + 1) |->
                   IF s = {} THEN 0 ELSE LET x == CHOOSE x \in s : TRUE IN f[x] + g[s \ {x}]]
<1>1. ASSUME NEW s \in UpTo(S, n + 1), s # {}
      PROVE  \E x \in s : /\ x = (CHOOSE y \in s : TRUE)
                          /\ s \ {x} \in UpTo(S, n)
                          /\ s \ {x} \in UpTo(S, n + 1)
                          /\ f[x] \in Nat
  <2>1. PICK x \in s : /\ x = (CHOOSE y \in s : TRUE)
                       /\ s \ {x} \in SUBSET S
                       /\ Cardinality(s) \in Nat /\ Cardinality(s \ {x}) \in Nat
                       /\ Cardinality(s) = Cardinality(s \ {x}) + 1
    BY <1>1, Smaller DEF UpTo
  <2>2. Cardinality(s) <= n + 1
    BY DEF UpTo
  <2>3. x \in S
    BY DEF UpTo
  <2>4. Cardinality(s \ {x}) <= n /\ Cardinality(s \ {x}) <= n + 1
    BY <2>1, <2>2
  <2>5. s \ {x} \in UpTo(S, n) /\ s \ {x} \in UpTo(S, n + 1)
    BY <2>1, <2>4, Zenon DEF UpTo
  <2>6. f[x] \in Nat
    BY <2>3
  <2> QED
    BY <2>1, <2>5, <2>6, Zenon
<1>2. ASSUME NEW s \in UpTo(S, n + 1) PROVE h[s] \in Nat
  <2>1. CASE s = {}
    BY <2>1
  <2>2. CASE s # {}
    <3>1. PICK x \in s : x = (CHOOSE y \in s : TRUE) /\ s \ {x} \in UpTo(S, n) /\ f[x] \in Nat
      BY <1>1, <2>2, Zenon
    <3>2. h[s] = f[x] + g[s \ {x}]
      BY <2>2, <3>1, Zenon
    <3> HIDE DEF h
    <3> QED
      BY <3>1, <3>2
  <2> QED
    BY <2>1, <2>2
<1>3. ASSUME NEW s \in UpTo(S, n) PROVE s \in UpTo(S, n + 1) /\ h[s] = g[s]
  <2>1. Cardinality(s) \in Nat /\ Cardinality(s) <= n
    BY FS_Subset, FS_CardinalityType DEF UpTo
  <2>2. s \in UpTo(S, n + 1)
    BY <2>1 DEF UpTo
  <2> QED
    BY <2>2, Zenon DEF SumsUp
<1>4. ASSUME NEW s \in UpTo(S, n + 1), s # {}
      PROVE  LET x == CHOOSE x \in s : TRUE IN f[x] + g[s \ {x}] = f[x] + h[s \ {x}]
  <2>1. PICK x \in s : x = (CHOOSE y \in s : TRUE) /\ s \ {x} \in UpTo(S, n)
    BY <1>1, <1>4, Zenon
  <2>2. h[s \ {x}] = g[s \ {x}]
    BY <1>3, <2>1, Zenon
  <2> HIDE DEF h
  <2> QED
    BY <2>1, <2>2, Zenon
<1>5. h = [s \in UpTo(S, n + 1) |->
             IF s = {} THEN 0 ELSE LET x == CHOOSE x \in s : TRUE IN f[x] + h[s \ {x}]]
  BY <1>4, Zenon
<1>6. h \in [UpTo(S, n + 1) -> Nat]
  BY <1>2
<1> HIDE DEF h
<1> QED
  BY <1>5, <1>6, Zenon DEF SumsUp

\* So there is one over all subsets of a finite set.
LEMMA SumExists ==
  ASSUME NEW S, IsFiniteSet(S), NEW f \in [S -> Nat]
  PROVE  \E g \in [SUBSET S -> Nat] : SumsUp(g, f, SUBSET S)
<1> DEFINE Bad == {n \in Nat : ~\E g \in [UpTo(S, n) -> Nat] : SumsUp(g, f, UpTo(S, n))}
<1>1. 0 \notin Bad
  <2> DEFINE g == [s \in UpTo(S, 0) |-> 0]
  <2>1. ASSUME NEW s \in UpTo(S, 0) PROVE s = {}
    <3>1. IsFiniteSet(s) /\ Cardinality(s) \in Nat /\ Cardinality(s) <= 0
      BY FS_Subset, FS_CardinalityType DEF UpTo
    <3>2. Cardinality(s) = 0
      BY <3>1
    <3> QED
      BY <3>1, <3>2, FS_EmptySet
  <2>2. g = [s \in UpTo(S, 0) |->
             IF s = {} THEN 0 ELSE LET x == CHOOSE x \in s : TRUE IN f[x] + g[s \ {x}]]
    BY <2>1, Zenon
  <2>3. g \in [UpTo(S, 0) -> Nat]
    OBVIOUS
  <2> HIDE DEF g
  <2>4. SumsUp(g, f, UpTo(S, 0))
    BY <2>2, Zenon DEF SumsUp
  <2> QED
    BY <2>3, <2>4
<1>2. Bad = {}
  <2>1. SUFFICES ASSUME Bad # {} PROVE FALSE
    OBVIOUS
  <2>2. PICK m \in Bad : \A j \in Bad : m <= j
    BY <2>1, LeastNumber
  <2>3. m \in Nat /\ m # 0 /\ m - 1 \in Nat /\ (m - 1) + 1 = m /\ ~(m <= m - 1)
    BY <1>1
  <2>4. m - 1 \notin Bad
    BY <2>2, <2>3
  <2>5. PICK g \in [UpTo(S, m - 1) -> Nat] : SumsUp(g, f, UpTo(S, m - 1))
    BY <2>3, <2>4
  <2>6. \E h \in [UpTo(S, (m - 1) + 1) -> Nat] : SumsUp(h, f, UpTo(S, (m - 1) + 1))
    BY <2>3, <2>5, SumExtends
  <2> QED
    BY <2>3, <2>6
<1>3. Cardinality(S) \in Nat
  BY FS_CardinalityType
<1>4. UpTo(S, Cardinality(S)) = SUBSET S
  BY FS_Subset DEF UpTo
<1>5. Cardinality(S) \notin Bad
  BY <1>2
<1>6. PICK g \in [UpTo(S, Cardinality(S)) -> Nat] : SumsUp(g, f, UpTo(S, Cardinality(S)))
  BY <1>3, <1>5, Zenon
<1> QED
  BY <1>4, <1>6, Zenon

\* The same recursion, element by element.
AddsUp(g, f, S) ==
  \A s \in SUBSET S :
    g[s] = IF s = {} THEN 0 ELSE LET x == CHOOSE x \in s : TRUE IN f[x] + g[s \ {x}]

\* The sum is the value of a function over the subsets that adds up.
LEMMA SumStep ==
  ASSUME NEW S, IsFiniteSet(S), NEW f \in [S -> Nat]
  PROVE  \E g \in [SUBSET S -> Nat] :
           SumFunctionOnSet(f, S) = g[S] /\ AddsUp(g, f, S)
<1>1. PICK k \in [SUBSET S -> Nat] : SumsUp(k, f, SUBSET S)
  BY SumExists
<1> DEFINE g == CHOOSE g : SumsUp(g, f, SUBSET S)
<1>2. SumsUp(g, f, SUBSET S)
  BY <1>1, Zenon
<1>3. SumFunctionOnSet(f, S) = g[S]
  BY SumIsFold
<1> HIDE DEF g
<1>4. AddsUp(g, f, S)
  BY <1>2, Zenon DEF SumsUp, AddsUp
<1>5. DOMAIN g = SUBSET S
  BY <1>2, Zenon DEF SumsUp
<1>6. g = [s \in SUBSET S |-> g[s]]
  BY <1>2, Zenon DEF SumsUp
<1>7. \A s \in SUBSET S : g[s] \in Nat
  <2> DEFINE Bad == {s \in SUBSET S : g[s] \notin Nat}
  <2>0. Bad \subseteq SUBSET S
    BY Zenon
  <2>1. SUFFICES ASSUME Bad # {} PROVE FALSE
    BY Zenon
  <2> HIDE DEF Bad
  <2>2. PICK s \in Bad : \A t \in Bad : Cardinality(s) <= Cardinality(t)
    BY <2>1, <2>0, SmallestSet
  <2>3. s \in SUBSET S /\ g[s] \notin Nat
    BY Zenon DEF Bad
  <2>4. s # {}
    <3>1. g[{}] = 0
      BY <1>4, Zenon DEF AddsUp
    <3>2. g[{}] \in Nat
      BY <3>1
    <3> QED
      BY <2>3, <3>2, Zenon
  <2>5. PICK x \in s : /\ x = (CHOOSE y \in s : TRUE)
                       /\ s \ {x} \in SUBSET S
                       /\ Cardinality(s) \in Nat /\ Cardinality(s \ {x}) \in Nat
                       /\ Cardinality(s) = Cardinality(s \ {x}) + 1
    BY <2>3, <2>4, Smaller
  <2>6. ~(Cardinality(s) <= Cardinality(s \ {x}))
    BY <2>5
  <2>7. g[s \ {x}] \in Nat
    BY <2>2, <2>5, <2>6, Zenon DEF Bad
  <2>8. g[s] = f[x] + g[s \ {x}]
    BY <1>4, <2>3, <2>4, <2>5, Zenon DEF AddsUp
  <2>9. f[x] \in Nat
    BY <2>3
  <2> QED
    BY <2>3, <2>7, <2>8, <2>9
<1>8. g \in [SUBSET S -> Nat]
  BY <1>6, <1>7
<1> QED
  BY <1>3, <1>4, <1>8, Zenon

\* A sum is a natural number; changing one value changes it by as much.
LEMMA SumChanges ==
  ASSUME NEW S, IsFiniteSet(S), NEW f \in [S -> Nat], NEW a \in S, NEW v \in Nat
  PROVE  /\ SumFunctionOnSet(f, S) \in Nat
         /\ SumFunctionOnSet([f EXCEPT ![a] = v], S) \in Nat
         /\ SumFunctionOnSet([f EXCEPT ![a] = v], S) + f[a] = SumFunctionOnSet(f, S) + v
<1> DEFINE e == [f EXCEPT ![a] = v]
<1>1. e \in [S -> Nat] /\ e[a] = v /\ \A x \in S : x # a => e[x] = f[x]
  OBVIOUS
<1> HIDE DEF e
<1>2. PICK g \in [SUBSET S -> Nat] :
           SumFunctionOnSet(f, S) = g[S] /\ AddsUp(g, f, S)
  BY SumStep, Zenon
<1>3. PICK k \in [SUBSET S -> Nat] :
           SumFunctionOnSet(e, S) = k[S] /\ AddsUp(k, e, S)
  BY <1>1, SumStep, Zenon
<1> DEFINE Right(s) == k[s] + (IF a \in s THEN f[a] ELSE 0) = g[s] + (IF a \in s THEN v ELSE 0)
<1>4. \A s \in SUBSET S : Right(s)
  <2> DEFINE Bad == {s \in SUBSET S : ~Right(s)}
  <2>0. Bad \subseteq SUBSET S
    BY Zenon
  <2>1. SUFFICES ASSUME Bad # {} PROVE FALSE
    BY Zenon
  <2> HIDE DEF Bad
  <2>2. PICK s \in Bad : \A t \in Bad : Cardinality(s) <= Cardinality(t)
    BY <2>1, <2>0, SmallestSet
  <2>3. s \in SUBSET S /\ ~Right(s)
    BY Zenon DEF Bad
  <2>4. s # {}
    <3>1. SUFFICES ASSUME s = {} PROVE FALSE
      OBVIOUS
    <3>2. k[s] = 0 /\ g[s] = 0 /\ a \notin s
      BY <1>2, <1>3, <2>3, <3>1, Zenon DEF AddsUp
    <3> QED
      BY <2>3, <3>2
  <2>5. PICK x \in s : /\ x = (CHOOSE y \in s : TRUE)
                       /\ s \ {x} \in SUBSET S
                       /\ Cardinality(s) \in Nat /\ Cardinality(s \ {x}) \in Nat
                       /\ Cardinality(s) = Cardinality(s \ {x}) + 1
    BY <2>3, <2>4, Smaller
  <2>6. ~(Cardinality(s) <= Cardinality(s \ {x}))
    BY <2>5
  <2>7. Right(s \ {x})
    BY <2>2, <2>5, <2>6, Zenon DEF Bad
  <2>8. g[s] = f[x] + g[s \ {x}]
    BY <1>2, <2>3, <2>4, <2>5, Zenon DEF AddsUp
  <2>9. k[s] = e[x] + k[s \ {x}]
    BY <1>3, <2>3, <2>4, <2>5, Zenon DEF AddsUp
  <2>10. f[x] \in Nat /\ e[x] \in Nat /\ f[a] \in Nat /\ g[s \ {x}] \in Nat /\ k[s \ {x}] \in Nat
    BY <1>1, <2>3, <2>5
  <2>11. CASE x = a
    <3>1. a \in s /\ a \notin s \ {x}
      BY <2>11
    <3> QED
      BY <1>1, <2>3, <2>7, <2>8, <2>9, <2>10, <2>11, <3>1
  <2>12. CASE x # a
    <3>1. a \in s <=> a \in s \ {x}
      BY <2>12
    <3>2. e[x] = f[x]
      BY <1>1, <2>3, <2>12
    <3> QED
      BY <2>3, <2>7, <2>8, <2>9, <2>10, <3>1, <3>2
  <2> QED
    BY <2>11, <2>12
<1>5. Right(S)
  BY <1>4, Zenon
<1>6. g[S] \in Nat /\ k[S] \in Nat
  OBVIOUS
<1> QED
  BY <1>2, <1>3, <1>5, <1>6 DEF e

LEMMA SumOfZeros ==
  ASSUME NEW S, IsFiniteSet(S), NEW f \in [S -> Nat], \A x \in S : f[x] = 0
  PROVE  SumFunctionOnSet(f, S) = 0
<1>1. PICK g \in [SUBSET S -> Nat] :
           SumFunctionOnSet(f, S) = g[S] /\ AddsUp(g, f, S)
  BY SumStep, Zenon
<1> DEFINE Bad == {s \in SUBSET S : g[s] # 0}
<1>0. Bad \subseteq SUBSET S
  BY Zenon
<1>2. SUFFICES ASSUME Bad # {} PROVE FALSE
  BY <1>1, Zenon DEF AddsUp
<1> HIDE DEF Bad
<1>3. PICK s \in Bad : \A t \in Bad : Cardinality(s) <= Cardinality(t)
  BY <1>2, <1>0, SmallestSet
<1>4. s \in SUBSET S /\ g[s] # 0
  BY Zenon DEF Bad
<1>5. s # {}
  <2>1. g[{}] = 0
    BY <1>1, Zenon DEF AddsUp
  <2> QED
    BY <1>4, <2>1
<1>6. PICK x \in s : /\ x = (CHOOSE y \in s : TRUE)
                     /\ s \ {x} \in SUBSET S
                     /\ Cardinality(s) \in Nat /\ Cardinality(s \ {x}) \in Nat
                     /\ Cardinality(s) = Cardinality(s \ {x}) + 1
  BY <1>4, <1>5, Smaller
<1>7. ~(Cardinality(s) <= Cardinality(s \ {x}))
  BY <1>6
<1>8. g[s \ {x}] = 0
  BY <1>3, <1>6, <1>7, Zenon DEF Bad
<1>9. g[s] = f[x] + g[s \ {x}]
  BY <1>1, <1>4, <1>5, <1>6, Zenon DEF AddsUp
<1>10. f[x] = 0
  BY <1>4
<1> QED
  BY <1>4, <1>8, <1>9, <1>10
===============================================================================
