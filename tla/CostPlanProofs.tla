--------------------------- MODULE CostPlanProofs ---------------------------
(***************************************************************************)
(* Proofs about CostPlan: what a plan prices, that nothing asked for is    *)
(* silently free, and why the order in which Go iterates over its maps     *)
(* cannot matter.  The first part is about Cost alone: sums over maps.     *)
(***************************************************************************)
EXTENDS CostPlan, FiniteSetTheorems, WellFoundedInduction, TLAPS

(* The totals a sum goes through. *)
Totals == Costs \cup {Mismatch}

LEMMA TotalType ==
    ASSUME NEW t \in Totals
    PROVE  /\ t = [amount |-> t.amount, currency |-> t.currency]
           /\ t.amount \in Int
           /\ t.currency = NoCurrency <=> t \in {Zero, Mismatch}
           /\ t # Mismatch /\ t # Zero => t.amount \in Nat \ {0} /\ t.currency \in Currencies
  BY CurrencyAssumption DEF Totals, Costs, Zero, Mismatch

(* Cost.Add stays within the totals. *)
LEMMA AddType ==
    ASSUME NEW t \in Totals, NEW a \in Costs
    PROVE  Add(t, a) \in Totals
<1>1. a \in Totals BY DEF Totals
<1>2. CASE t = Mismatch \/ a = Zero BY <1>2 DEF Add
<1>3. CASE t # Mismatch /\ a # Zero
  <2>1. a # Mismatch BY DEF Costs, Zero, Mismatch
  <2>2. a.amount \in Nat \ {0} /\ a.currency \in Currencies BY <1>1, <1>3, <2>1, TotalType
  <2>3. t.amount \in Nat BY <1>3, TotalType DEF Zero
  <2>4. Add(t, a) = Mismatch \/ Add(t, a) = [amount |-> t.amount + a.amount, currency |-> a.currency]
    BY <1>3 DEF Add
  <2>5. t.amount + a.amount \in Nat \ {0} BY <2>2, <2>3
  <2> QED BY <2>2, <2>4, <2>5 DEF Totals, Costs
<1> QED BY <1>2, <1>3

(* What Add makes of a total and a cost that is not zero. *)
LEMMA AddNonZero ==
    ASSUME NEW t \in Totals, NEW a \in Costs, a # Zero
    PROVE  Add(t, a) = IF t # Mismatch /\ (t = Zero \/ t.currency = a.currency)
                       THEN [amount |-> t.amount + a.amount, currency |-> a.currency]
                       ELSE Mismatch
<1>1. a \in Totals /\ a # Mismatch BY DEF Totals, Costs, Zero, Mismatch
<1>2. a.currency # NoCurrency BY <1>1, TotalType
<1>3. CASE t = Mismatch BY <1>3 DEF Add
<1>4. CASE t # Mismatch
  <2>1. t.currency = NoCurrency <=> t = Zero BY <1>4, TotalType
  <2> QED BY <1>2, <1>4, <2>1 DEF Add
<1> QED BY <1>3, <1>4

(* Two costs may be added to a total in either order: the sum, or the     *)
(* mismatch of currencies, is the same, whatever zeros and errors there   *)
(* are among them.  Iterations over a map differ by such exchanges.       *)
THEOREM AddCommutes ==
    ASSUME NEW t \in Totals, NEW a \in Costs, NEW b \in Costs
    PROVE  Add(Add(t, a), b) = Add(Add(t, b), a)
<1>1. Add(t, a) \in Totals /\ Add(t, b) \in Totals BY AddType
<1>2. CASE a = Zero \/ b = Zero BY <1>2 DEF Add
<1>3. CASE a # Zero /\ b # Zero
  <2>1. a \in Totals /\ b \in Totals /\ a # Mismatch /\ b # Mismatch
    BY DEF Totals, Costs, Zero, Mismatch
  <2>2. /\ a.amount \in Nat \ {0} /\ a.currency \in Currencies
        /\ b.amount \in Nat \ {0} /\ b.currency \in Currencies
    BY <1>3, <2>1, TotalType
  <2>3. CASE t = Mismatch BY <1>1, <1>3, <2>3, AddNonZero
  <2>4. CASE t # Mismatch /\ (t = Zero \/ t.currency = a.currency) /\ a.currency = b.currency
    <3>1. t.amount \in Nat BY <2>4, TotalType DEF Zero
    <3>2. /\ Add(t, a) = [amount |-> t.amount + a.amount, currency |-> a.currency]
          /\ Add(t, b) = [amount |-> t.amount + b.amount, currency |-> a.currency]
      BY <1>3, <2>4, AddNonZero
    <3>3. Add(t, a) \notin {Zero, Mismatch} /\ Add(t, b) \notin {Zero, Mismatch}
      BY <2>2, <3>1, <3>2 DEF Zero, Mismatch
    <3>4. Add(Add(t, a), b) = [amount |-> (t.amount + a.amount) + b.amount, currency |-> a.currency]
      BY <1>1, <1>3, <2>4, <3>2, <3>3, AddNonZero
    <3>5. Add(Add(t, b), a) = [amount |-> (t.amount + b.amount) + a.amount, currency |-> a.currency]
      BY <1>1, <1>3, <2>4, <3>2, <3>3, AddNonZero
    <3> QED BY <2>2, <3>1, <3>4, <3>5
  <2>5. CASE t # Mismatch /\ ~(t = Zero \/ t.currency = a.currency)
    <3>1. Add(t, a) = Mismatch BY <1>3, <2>5, AddNonZero
    <3>2. Add(Add(t, a), b) = Mismatch BY <1>1, <1>3, <3>1, AddNonZero
    <3>3. Add(t, b) = Mismatch \/ (Add(t, b).currency = t.currency /\ Add(t, b) # Zero)
      BY <1>3, <2>2, <2>5, AddNonZero, TotalType DEF Zero
    <3> QED BY <1>1, <1>3, <2>5, <3>2, <3>3, AddNonZero
  <2>6. CASE t # Mismatch /\ (t = Zero \/ t.currency = a.currency) /\ a.currency # b.currency
    <3>1. Add(t, a) = [amount |-> t.amount + a.amount, currency |-> a.currency]
      BY <1>3, <2>6, AddNonZero
    <3>2. t.amount \in Nat BY <2>6, TotalType DEF Zero
    <3>3. Add(t, a) # Zero /\ Add(t, a).currency = a.currency BY <2>2, <3>1, <3>2 DEF Zero
    <3>4. Add(Add(t, a), b) = Mismatch BY <1>1, <1>3, <2>6, <3>3, AddNonZero
    <3>5. CASE t = Zero
      <4>1. Add(t, b) = [amount |-> t.amount + b.amount, currency |-> b.currency]
        BY <1>3, <2>6, <3>5, AddNonZero
      <4>2. Add(t, b) # Zero /\ Add(t, b).currency = b.currency BY <2>2, <3>2, <4>1 DEF Zero
      <4> QED BY <1>1, <1>3, <2>6, <3>4, <4>2, AddNonZero
    <3>6. CASE t # Zero
      <4>1. Add(t, b) = Mismatch BY <1>3, <2>6, <3>6, AddNonZero
      <4> QED BY <1>1, <1>3, <3>4, <4>1, AddNonZero
    <3> QED BY <3>5, <3>6
  <2> QED BY <2>3, <2>4, <2>5, <2>6
<1> QED BY <1>2, <1>3

-----------------------------------------------------------------------------
(* The loop over a map.  AddTo is Add, but for the error of a cost. *)
LEMMA AddToType ==
    ASSUME NEW costs, NEW k, costs[k] \in Totals, NEW t \in Totals
    PROVE  AddTo(costs, t, k) \in Totals
<1>1. CASE costs[k] = Mismatch BY <1>1 DEF AddTo, Totals
<1>2. CASE costs[k] # Mismatch
  <2>1. costs[k] \in Costs BY <1>2 DEF Totals
  <2> QED BY <1>2, <2>1, AddType DEF AddTo
<1> QED BY <1>1, <1>2

LEMMA AddToCommutes ==
    ASSUME NEW costs, NEW a, NEW b, costs[a] \in Totals, costs[b] \in Totals, NEW t \in Totals
    PROVE  AddTo(costs, AddTo(costs, t, a), b) = AddTo(costs, AddTo(costs, t, b), a)
<1>1. \A x : Add(Mismatch, x) = Mismatch BY DEF Add
<1>2. CASE costs[a] = Mismatch \/ costs[b] = Mismatch BY <1>1, <1>2 DEF AddTo
<1>3. CASE costs[a] # Mismatch /\ costs[b] # Mismatch
  <2>1. costs[a] \in Costs /\ costs[b] \in Costs BY <1>3 DEF Totals
  <2> QED BY <1>3, <2>1, AddCommutes DEF AddTo
<1> QED BY <1>2, <1>3

LEMMA ZeroAdds ==
    ASSUME NEW costs, NEW k, costs[k] = Zero, NEW t
    PROVE  AddTo(costs, t, k) = t
  BY DEF AddTo, Add, Zero, Mismatch

-----------------------------------------------------------------------------
(* Induction, by the least number of a set. *)
LEMMA Least ==
    ASSUME NEW T, T \subseteq Nat, T # {}
    PROVE  \E x \in T : x \in Nat /\ \A y \in T : x <= y
<1>1. PICK x \in T : \A y \in T : ~(<<y, x>> \in OpToRel(<, Nat))
  BY WFMin, NatLessThanWellFounded
<1>2. \A y \in T : ~(y < x) BY <1>1 DEF OpToRel
<1> QED BY <1>2

LEMMA MaxIs ==
    ASSUME NEW k \in Nat, NEW T, T \subseteq 1..k, T # {}
    PROVE  /\ Max(T) \in T /\ Max(T) \in 1..k
           /\ \A j \in T : j <= Max(T)
<1> DEFINE D == {d \in 0..k : k - d \in T}
<1>1. D \subseteq Nat OBVIOUS
<1>2. \A i \in T : k - i \in 0..k /\ k - (k - i) = i OBVIOUS
<1>3. \A i \in T : k - i \in D BY <1>2
<1>4. D # {} BY <1>3
<1>5. PICK d \in D : \A x \in D : d <= x BY ONLY <1>1, <1>4, Least
<1>6. k - d \in T /\ d \in 0..k OBVIOUS
<1>7. \A j \in T : d <= k - j BY <1>3, <1>5
<1>8. \A j \in T : k - d >= j BY <1>6, <1>7
<1>9. Max(T) \in T /\ \A j \in T : Max(T) >= j BY <1>6, <1>8 DEF Max
<1> QED BY <1>9

-----------------------------------------------------------------------------
(***************************************************************************)
(* Total is a recursive function on the sets of positions of the order:    *)
(* `f` has its values for those up to n.                                   *)
(***************************************************************************)
Folding(f, costs, order, n) ==
    \A x \in SUBSET (1..n) :
        f[x] = IF x = {} THEN Zero ELSE AddTo(costs, f[x \ {Max(x)}], order[Max(x)])

LEMMA WithoutMax ==
    ASSUME NEW n \in Nat, NEW x \in SUBSET (1..(n + 1)), x # {}
    PROVE  x \ {Max(x)} \in SUBSET (1..n) /\ Max(x) \in 1..(n + 1)
<1>1. Max(x) \in x /\ Max(x) \in 1..(n + 1) /\ \A j \in x : j <= Max(x)
  <2>1. n + 1 \in Nat /\ x \subseteq 1..(n + 1) OBVIOUS
  <2> QED BY ONLY <2>1, x # {}, MaxIs
<1>2. \A j \in x \ {Max(x)} : j \in 1..n BY <1>1
<1> QED BY <1>1, <1>2

LEMMA FoldingExists ==
    ASSUME NEW costs, NEW order, NEW n \in Nat
    PROVE  \E f : f = [x \in SUBSET (1..n) |-> f[x]] /\ Folding(f, costs, order, n)
<1> DEFINE Good(m) == \E f : f = [x \in SUBSET (1..m) |-> f[x]] /\ Folding(f, costs, order, m)
           Bad     == {m \in Nat : ~Good(m)}
<1>1. SUFFICES ASSUME Bad # {} PROVE FALSE OBVIOUS
<1>2. PICK m \in Bad : m \in Nat /\ \A k \in Bad : m <= k
  <2>1. Bad \subseteq Nat OBVIOUS
  <2> QED BY ONLY <1>1, <2>1, Least
<1>3. m \in Nat /\ ~Good(m) OBVIOUS
<1>4. CASE m = 0
  <2> DEFINE g == [x \in SUBSET (1..m) |-> Zero]
  <2>1. \A x \in SUBSET (1..m) : x = {} BY <1>4
  <2>2. Folding(g, costs, order, m) BY <2>1 DEF Folding
  <2>3. g = [x \in SUBSET (1..m) |-> g[x]] OBVIOUS
  <2> QED BY <1>3, <2>2, <2>3
<1>5. CASE m # 0
  <2>1. PICK k \in Nat : m = k + 1
    <3>1. m - 1 \in Nat /\ m = (m - 1) + 1 BY <1>3, <1>5
    <3> QED BY <3>1
  <2>2. Good(k)
    <3>1. ~(m <= k) BY <2>1
    <3>2. k \notin Bad BY ONLY <1>2, <3>1
    <3> QED BY <3>2
  <2>3. PICK f : Folding(f, costs, order, k) BY <2>2
  <2> DEFINE g == [x \in SUBSET (1..m) |->
                     IF x = {} THEN Zero ELSE AddTo(costs, f[x \ {Max(x)}], order[Max(x)])]
  <2>4. \A x \in SUBSET (1..k) : x \in SUBSET (1..m) BY <2>1
  <2>5. \A x \in SUBSET (1..k) : g[x] = f[x] BY <2>3, <2>4 DEF Folding
  <2>6. ASSUME NEW x \in SUBSET (1..m)
        PROVE  g[x] = IF x = {} THEN Zero ELSE AddTo(costs, g[x \ {Max(x)}], order[Max(x)])
    <3>1. x # {} => x \ {Max(x)} \in SUBSET (1..k) BY <2>1, WithoutMax
    <3>2. g[x] = IF x = {} THEN Zero ELSE AddTo(costs, f[x \ {Max(x)}], order[Max(x)]) OBVIOUS
    <3> HIDE DEF g
    <3> QED BY <2>5, <3>1, <3>2
  <2>7. g = [x \in SUBSET (1..m) |-> g[x]] OBVIOUS
  <2> HIDE DEF g
  <2>8. Folding(g, costs, order, m) BY <2>6 DEF Folding
  <2> QED BY <1>3, <2>7, <2>8
<1> QED BY <1>4, <1>5

(* Two loops that meet the same costs go through the same totals. *)
LEMMA FoldingSame ==
    ASSUME NEW n \in Nat, NEW f, NEW costs, NEW order, Folding(f, costs, order, n),
           NEW g, NEW costs2, NEW order2, Folding(g, costs2, order2, n),
           \A i \in 1..n : costs[order[i]] = costs2[order2[i]]
    PROVE  \A x \in SUBSET (1..n) : f[x] = g[x]
<1> DEFINE Bad == {m \in 0..n : \E x \in SUBSET (1..m) : f[x] # g[x]}
<1>1. SUFFICES ASSUME Bad # {} PROVE FALSE
  <2>1. n \in 0..n OBVIOUS
  <2> QED BY <2>1
<1>2. PICK m \in Bad : m \in Nat /\ \A k \in Bad : m <= k
  <2>1. Bad \subseteq Nat OBVIOUS
  <2> QED BY ONLY <1>1, <2>1, Least
<1>3. PICK x \in SUBSET (1..m) : f[x] # g[x] /\ m \in 0..n OBVIOUS
<1>4. x \in SUBSET (1..n) BY <1>2, <1>3
<1>5. x # {} BY <1>3, <1>4 DEF Folding
<1>6. m # 0
  <2>1. 1..0 = {} OBVIOUS
  <2> QED BY <1>3, <1>5, <2>1
<1>7. PICK k \in 0..n : m = k + 1 /\ k \in Nat
  <2>1. m - 1 \in 0..n /\ m = (m - 1) + 1 /\ m - 1 \in Nat BY <1>2, <1>3, <1>6
  <2> QED BY <2>1
<1>8. x \ {Max(x)} \in SUBSET (1..k) /\ Max(x) \in 1..m BY <1>3, <1>5, <1>7, WithoutMax
<1>9. f[x \ {Max(x)}] = g[x \ {Max(x)}]
  <2>1. k \notin Bad
    <3>1. ~(m <= k) BY <1>7
    <3> QED BY ONLY <1>2, <3>1
  <2> QED BY <1>7, <1>8, <2>1
<1>10. Max(x) \in 1..n BY <1>2, <1>3, <1>8
<1>11. \A t : AddTo(costs, t, order[Max(x)]) = AddTo(costs2, t, order2[Max(x)]) BY <1>10 DEF AddTo
<1>12. f[x] = AddTo(costs, f[x \ {Max(x)}], order[Max(x)]) BY <1>4, <1>5 DEF Folding
<1>13. g[x] = AddTo(costs2, g[x \ {Max(x)}], order2[Max(x)]) BY <1>4, <1>5 DEF Folding
<1> QED BY ONLY <1>3, <1>9, <1>11, <1>12, <1>13

LEMMA TotalFolds ==
    ASSUME NEW costs, NEW order, NEW n \in Nat, DOMAIN order = 1..n
    PROVE  \E f : Folding(f, costs, order, n) /\ Total(costs, order) = f[1..n]
<1> DEFINE D(g) == [x \in SUBSET (1..n) |->
                      IF x = {} THEN Zero ELSE AddTo(costs, g[x \ {Max(x)}], order[Max(x)])]
           fold == CHOOSE g : g = D(g)
<1>1. PICK f : f = [x \in SUBSET (1..n) |-> f[x]] /\ Folding(f, costs, order, n) BY FoldingExists
<1>2. f = D(f) BY <1>1 DEF Folding
<1>3. fold = D(fold) BY <1>2
<1>4. Total(costs, order) = fold[1..n] BY DEF Total, FoldLeft, MapThenFoldSet
<1> HIDE DEF fold
<1>5. Folding(fold, costs, order, n) BY <1>3 DEF Folding
<1> QED BY <1>4, <1>5

LEMMA TotalSame ==
    ASSUME NEW n \in Nat,
           NEW costs, NEW order, DOMAIN order = 1..n,
           NEW costs2, NEW order2, DOMAIN order2 = 1..n,
           \A i \in 1..n : costs[order[i]] = costs2[order2[i]]
    PROVE  Total(costs, order) = Total(costs2, order2)
<1>1. PICK f : Folding(f, costs, order, n) /\ Total(costs, order) = f[1..n] BY TotalFolds
<1>2. PICK g : Folding(g, costs2, order2, n) /\ Total(costs2, order2) = g[1..n] BY TotalFolds
<1>3. \A x \in SUBSET (1..n) : f[x] = g[x] BY <1>1, <1>2, FoldingSame
<1>4. f[1..n] = g[1..n] BY <1>3
<1> QED BY <1>1, <1>2, <1>4

LEMMA TotalEmpty ==
    ASSUME NEW costs, NEW order, DOMAIN order = {}
    PROVE  Total(costs, order) = Zero
<1>1. DOMAIN order = 1..0 /\ 0 \in Nat OBVIOUS
<1>2. PICK f : Folding(f, costs, order, 0) /\ Total(costs, order) = f[1..0] BY <1>1, TotalFolds
<1>3. 1..0 = {} /\ {} \in SUBSET (1..0) OBVIOUS
<1> QED BY <1>2, <1>3 DEF Folding

(* The last key is added to the total of the keys before. *)
LEMMA TotalNext ==
    ASSUME NEW n \in Nat, NEW costs, NEW order, DOMAIN order = 1..(n + 1),
           NEW front, DOMAIN front = 1..n, \A i \in 1..n : front[i] = order[i]
    PROVE  Total(costs, order) = AddTo(costs, Total(costs, front), order[n + 1])
<1>1. n + 1 \in Nat OBVIOUS
<1>2. PICK f : Folding(f, costs, order, n + 1) /\ Total(costs, order) = f[1..(n + 1)]
  BY <1>1, TotalFolds
<1>4. PICK g : Folding(g, costs, front, n) /\ Total(costs, front) = g[1..n] BY TotalFolds
<1>6. Folding(f, costs, order, n)
  <2>1. \A x \in SUBSET (1..n) : x \in SUBSET (1..(n + 1)) OBVIOUS
  <2> QED BY <1>2, <2>1 DEF Folding
<1>7. f[1..n] = g[1..n]
  <2>1. \A i \in 1..n : costs[order[i]] = costs[front[i]] OBVIOUS
  <2>2. \A x \in SUBSET (1..n) : f[x] = g[x] BY <1>4, <1>6, <2>1, FoldingSame
  <2> QED BY <2>2
<1> DEFINE x == 1..(n + 1)
<1>8. x # {} /\ x \in SUBSET (1..(n + 1)) OBVIOUS
<1>9. Max(x) = n + 1 /\ x \ {Max(x)} = 1..n
  <2>1. Max(x) \in x /\ \A j \in x : j <= Max(x) BY <1>1, <1>8, MaxIs
  <2>2. n + 1 \in x OBVIOUS
  <2>3. Max(x) = n + 1 BY <2>1, <2>2
  <2>4. x \ {n + 1} = 1..n OBVIOUS
  <2> QED BY <2>3, <2>4
<1>10. f[x] = AddTo(costs, f[x \ {Max(x)}], order[Max(x)]) BY <1>2, <1>8 DEF Folding
<1> QED BY <1>2, <1>4, <1>7, <1>9, <1>10

-----------------------------------------------------------------------------
(* The orders of a set of keys. *)
LEMMA OrderType ==
    ASSUME NEW D, IsFiniteSet(D), NEW order \in SetToSeqs(D)
    PROVE  /\ Cardinality(D) \in Nat /\ DOMAIN order = 1..Cardinality(D)
           /\ \A i \in 1..Cardinality(D) : order[i] \in D
           /\ \A i, j \in 1..Cardinality(D) : i # j => order[i] # order[j]
  BY FS_CardinalityType DEF SetToSeqs

LEMMA OrderIs ==
    ASSUME NEW D, NEW order \in [1..Cardinality(D) -> D],
           \A i, j \in 1..Cardinality(D) : i # j => order[i] # order[j]
    PROVE  order \in SetToSeqs(D)
  BY DEF SetToSeqs

LEMMA OrderExists ==
    ASSUME NEW D, IsFiniteSet(D)
    PROVE  \E order : order \in SetToSeqs(D)
<1>1. PICK f : f \in Bijection(1..Cardinality(D), D) BY FS_CardinalityType DEF ExistsBijection
<1>2. /\ f \in [1..Cardinality(D) -> D]
      /\ \A i, j \in 1..Cardinality(D) : i # j => f[i] # f[j]
  BY <1>1 DEF Bijection, Injection, IsInjective
<1> QED BY <1>2, OrderIs

(* The values of a list are finitely many. *)
LEMMA FiniteRange ==
    ASSUME NEW n \in Nat, NEW T, NEW f \in [1..n -> T], T = {f[i] : i \in 1..n}
    PROVE  IsFiniteSet(T)
<1>1. f \in Surjection(1..n, T) BY DEF Surjection
<1>2. IsFiniteSet(1..n)
  <2>1. 1 \in Int /\ n \in Int OBVIOUS
  <2> QED BY <2>1, FS_Interval
<1> QED BY <1>1, <1>2, FS_Surjection

(* An order without its last key, and one with a key more. *)
LEMMA OrderFront ==
    ASSUME NEW D, IsFiniteSet(D), NEW order \in SetToSeqs(D), NEW n \in Nat, Cardinality(D) = n + 1
    PROVE  /\ order[n + 1] \in D
           /\ IsFiniteSet(D \ {order[n + 1]}) /\ Cardinality(D \ {order[n + 1]}) = n
           /\ [i \in 1..n |-> order[i]] \in SetToSeqs(D \ {order[n + 1]})
<1> DEFINE k     == order[n + 1]
           front == [i \in 1..n |-> order[i]]
<1>1. /\ \A i \in 1..(n + 1) : order[i] \in D
      /\ \A i, j \in 1..(n + 1) : i # j => order[i] # order[j]
  BY OrderType
<1>2. k \in D BY <1>1
<1>3. IsFiniteSet(D \ {k}) /\ Cardinality(D \ {k}) = n
  <2>1. IsFiniteSet(D \ {k}) /\ Cardinality(D \ {k}) = Cardinality(D) - 1 BY <1>2, FS_RemoveElement
  <2>2. (n + 1) - 1 = n OBVIOUS
  <2> QED BY <2>1, <2>2
<1>4. \A i \in 1..n : front[i] \in D \ {k} /\ i \in 1..(n + 1) BY <1>1
<1>5. \A i, j \in 1..n : i # j => front[i] # front[j] BY <1>1, <1>4
<1>6. front \in [1..n -> D \ {k}] BY <1>4
<1> HIDE DEF front, k
<1>7. front \in SetToSeqs(D \ {k}) BY <1>3, <1>5, <1>6, OrderIs
<1> QED BY <1>2, <1>3, <1>7 DEF front, k

Extends(more, order, n, k) ==
    /\ DOMAIN more = 1..(n + 1) /\ more[n + 1] = k
    /\ \A i \in 1..n : order[i] = more[i]

LEMMA OrderMore ==
    ASSUME NEW D, IsFiniteSet(D), NEW order \in SetToSeqs(D), NEW k, k \notin D
    PROVE  \E more \in SetToSeqs(D \cup {k}) : Extends(more, order, Cardinality(D), k)
<1> DEFINE n    == Cardinality(D)
           more == [i \in 1..(n + 1) |-> IF i = n + 1 THEN k ELSE order[i]]
<1>1. n \in Nat /\ Cardinality(D \cup {k}) = n + 1 /\ IsFiniteSet(D \cup {k})
  BY FS_CardinalityType, FS_AddElement
<1>2. /\ \A i \in 1..n : order[i] \in D
      /\ \A i, j \in 1..n : i # j => order[i] # order[j]
  BY OrderType
<1> HIDE DEF n
<1>3. \A i \in 1..(n + 1) : i = n + 1 \/ i \in 1..n BY <1>1
<1>4. more \in [1..(n + 1) -> D \cup {k}] BY <1>2, <1>3
<1>5. more[n + 1] = k /\ \A i \in 1..n : more[i] = order[i] BY <1>1
<1>6. \A i, j \in 1..(n + 1) : i # j => more[i] # more[j] BY <1>2, <1>3, <1>5
<1>7. DOMAIN more = 1..(n + 1) OBVIOUS
<1> HIDE DEF more
<1>8. more \in SetToSeqs(D \cup {k}) BY <1>1, <1>4, <1>6, OrderIs
<1> QED BY <1>1, <1>5, <1>7, <1>8 DEF n, Extends

-----------------------------------------------------------------------------
LEMMA SumType ==
    ASSUME NEW n \in Nat, NEW costs, NEW order, DOMAIN order = 1..n,
           \A i \in 1..n : costs[order[i]] \in Totals
    PROVE  Total(costs, order) \in Totals
<1> DEFINE Good(m) == \A o : DOMAIN o = 1..m /\ (\A i \in 1..m : costs[o[i]] \in Totals)
                                => Total(costs, o) \in Totals
           Bad     == {m \in Nat : ~Good(m)}
<1>1. SUFFICES ASSUME Bad # {} PROVE FALSE
  <2>1. n \in Nat /\ ~(n \in Bad) OBVIOUS
  <2> QED BY <2>1
<1>2. PICK m \in Bad : m \in Nat /\ \A k \in Bad : m <= k
  <2>1. Bad \subseteq Nat OBVIOUS
  <2> QED BY ONLY <1>1, <2>1, Least
<1>3. PICK o : DOMAIN o = 1..m /\ (\A i \in 1..m : costs[o[i]] \in Totals) /\ Total(costs, o) \notin Totals
  OBVIOUS
<1>4. m # 0
  <2>1. SUFFICES ASSUME m = 0 PROVE FALSE OBVIOUS
  <2>2. DOMAIN o = {} BY <1>3, <2>1
  <2> QED BY <1>3, <2>2, TotalEmpty DEF Totals, Costs
<1>5. PICK k \in Nat : m = k + 1
  <2>1. m - 1 \in Nat /\ m = (m - 1) + 1 BY <1>2, <1>4
  <2> QED BY <2>1
<1>6. Good(k)
  <2>1. ~(m <= k) BY <1>5
  <2>2. k \notin Bad BY ONLY <1>2, <2>1
  <2> QED BY <2>2
<1> DEFINE front == [i \in 1..k |-> o[i]]
<1>7. \A i \in 1..k : i \in 1..m BY <1>5
<1>8. Total(costs, front) \in Totals BY <1>3, <1>6, <1>7
<1>9. DOMAIN o = 1..(k + 1) /\ DOMAIN front = 1..k /\ \A i \in 1..k : front[i] = o[i] BY <1>3, <1>5
<1> HIDE DEF front
<1>10. Total(costs, o) = AddTo(costs, Total(costs, front), o[k + 1]) BY <1>9, TotalNext
<1>11. k + 1 \in 1..m BY <1>5
<1>12. costs[o[k + 1]] \in Totals BY <1>3, <1>11
<1>13. AddTo(costs, Total(costs, front), o[k + 1]) \in Totals BY <1>8, <1>12, AddToType
<1> QED BY <1>3, <1>10, <1>13

(* An order of a set, and its last key set apart. *)
EndsIn(costs, D, order, n, k) ==
    /\ IsFiniteSet(D \ {k}) /\ Cardinality(D \ {k}) = n
    /\ \E front \in SetToSeqs(D \ {k}) : Total(costs, order) = AddTo(costs, Total(costs, front), k)

LEMMA TotalLast ==
    ASSUME NEW costs, NEW D, IsFiniteSet(D), NEW order \in SetToSeqs(D),
           NEW n \in Nat, Cardinality(D) = n + 1
    PROVE  \E k \in D : EndsIn(costs, D, order, n, k)
<1> DEFINE k     == order[n + 1]
           front == [i \in 1..n |-> order[i]]
<1>1. /\ k \in D /\ IsFiniteSet(D \ {k}) /\ Cardinality(D \ {k}) = n
      /\ front \in SetToSeqs(D \ {k})
  BY OrderFront
<1>2. DOMAIN order = 1..(n + 1) BY OrderType
<1>3. DOMAIN front = 1..n /\ \A i \in 1..n : front[i] = order[i] OBVIOUS
<1> HIDE DEF front
<1>4. Total(costs, order) = AddTo(costs, Total(costs, front), k) BY ONLY <1>2, <1>3, n \in Nat, TotalNext DEF k
<1> QED BY <1>1, <1>4 DEF EndsIn

(* A key may be put last. *)
LEMMA TotalMore ==
    ASSUME NEW costs, NEW D, IsFiniteSet(D), NEW order \in SetToSeqs(D), NEW k, k \notin D
    PROVE  \E more \in SetToSeqs(D \cup {k}) : Total(costs, more) = AddTo(costs, Total(costs, order), k)
<1> DEFINE n == Cardinality(D)
<1>1. n \in Nat BY FS_CardinalityType
<1>2. PICK more \in SetToSeqs(D \cup {k}) : Extends(more, order, n, k) BY OrderMore
<1>3. DOMAIN order = 1..n BY OrderType
<1> HIDE DEF n
<1>4. Total(costs, more) = AddTo(costs, Total(costs, order), more[n + 1])
  BY <1>1, <1>2, <1>3, TotalNext DEF Extends
<1> QED BY <1>2, <1>4 DEF Extends

LEMMA OrderSum ==
    ASSUME NEW costs, NEW D, IsFiniteSet(D), \A k \in D : costs[k] \in Totals, NEW order \in SetToSeqs(D)
    PROVE  Total(costs, order) \in Totals
  BY OrderType, SumType

(* Whatever the order, the total is the same. *)
LEMMA OneTotal ==
    ASSUME NEW costs, NEW R, IsFiniteSet(R), \A k \in R : costs[k] \in Totals,
           NEW order \in SetToSeqs(R), NEW other \in SetToSeqs(R)
    PROVE  Total(costs, order) = Total(costs, other)
<1> DEFINE Same(D) == \A o, p \in SetToSeqs(D) : Total(costs, o) = Total(costs, p)
           Bad     == {n \in Nat : \E D \in SUBSET R : IsFiniteSet(D) /\ Cardinality(D) = n /\ ~Same(D)}
<1>1. SUFFICES ASSUME Bad # {} PROVE FALSE
  <2>1. Cardinality(R) \in Nat /\ R \in SUBSET R BY FS_CardinalityType
  <2>2. Same(R) BY <2>1
  <2> QED BY <2>2
<1>2. PICK m \in Bad : m \in Nat /\ \A k \in Bad : m <= k
  <2>1. Bad \subseteq Nat OBVIOUS
  <2> QED BY ONLY <1>1, <2>1, Least
<1>3. PICK D \in SUBSET R : IsFiniteSet(D) /\ Cardinality(D) = m /\ ~Same(D) OBVIOUS
<1>4. PICK o \in SetToSeqs(D), p \in SetToSeqs(D) : Total(costs, o) # Total(costs, p) BY <1>3
<1>5. m # 0
  <2>1. SUFFICES ASSUME m = 0 PROVE FALSE OBVIOUS
  <2>2. 1..0 = {} OBVIOUS
  <2>3. DOMAIN o = {} /\ DOMAIN p = {} BY <1>3, <2>1, <2>2, OrderType
  <2> QED BY <1>4, <2>3, TotalEmpty
<1>6. PICK n \in Nat : m = n + 1
  <2>1. m - 1 \in Nat /\ m = (m - 1) + 1 BY <1>2, <1>5
  <2> QED BY <2>1
<1>7. ASSUME NEW E \in SUBSET R, IsFiniteSet(E), Cardinality(E) = n
      PROVE  Same(E)
  <2>1. ~(m <= n) BY <1>6
  <2>2. n \notin Bad BY ONLY <1>2, <2>1
  <2> QED BY <1>7, <2>2
<1> HIDE DEF Bad
<1>8. PICK a \in D : EndsIn(costs, D, o, n, a) BY <1>3, <1>6, TotalLast
<1>9. PICK b \in D : EndsIn(costs, D, p, n, b) BY <1>3, <1>6, TotalLast
<1>10. Same(D \ {a}) /\ Same(D \ {b}) BY <1>7, <1>8, <1>9 DEF EndsIn
<1>11. PICK oa \in SetToSeqs(D \ {a}) : Total(costs, o) = AddTo(costs, Total(costs, oa), a) BY <1>8 DEF EndsIn
<1>12. PICK pb \in SetToSeqs(D \ {b}) : Total(costs, p) = AddTo(costs, Total(costs, pb), b) BY <1>9 DEF EndsIn
<1>13. CASE a = b
  <2>1. Total(costs, oa) = Total(costs, pb) BY <1>10, <1>13
  <2> QED BY <1>4, <1>11, <1>12, <1>13, <2>1
<1>14. CASE a # b
  <2> DEFINE E == D \ {a, b}
  <2>1. E \cup {b} = D \ {a} /\ E \cup {a} = D \ {b} /\ b \notin E /\ a \notin E BY <1>8, <1>9, <1>14
  <2>2. IsFiniteSet(E) BY <1>3, FS_Subset
  <2>3. PICK q : q \in SetToSeqs(E) BY <2>2, OrderExists
  <2>4. \A k \in E : costs[k] \in Totals OBVIOUS
  <2> HIDE DEF E
  <2>5. PICK qb \in SetToSeqs(D \ {a}) : Total(costs, qb) = AddTo(costs, Total(costs, q), b)
    BY <2>1, <2>2, <2>3, TotalMore
  <2>6. PICK qa \in SetToSeqs(D \ {b}) : Total(costs, qa) = AddTo(costs, Total(costs, q), a)
    BY <2>1, <2>2, <2>3, TotalMore
  <2>7. Total(costs, oa) = Total(costs, qb) /\ Total(costs, pb) = Total(costs, qa) BY <1>10
  <2>8. PICK t : t = Total(costs, q) OBVIOUS
  <2>9. t \in Totals BY <2>2, <2>3, <2>4, <2>8, OrderSum
  <2>10. costs[a] \in Totals /\ costs[b] \in Totals BY <1>8, <1>9
  <2>11. AddTo(costs, AddTo(costs, t, b), a) = AddTo(costs, AddTo(costs, t, a), b)
    BY <2>9, <2>10, AddToCommutes
  <2> QED BY ONLY <1>4, <1>11, <1>12, <2>5, <2>6, <2>7, <2>8, <2>11
<1> QED BY <1>13, <1>14

(* Keys whose cost is zero may be left out. *)
LEMMA ZerosDropped ==
    ASSUME NEW costs, NEW R, IsFiniteSet(R), \A k \in R : costs[k] \in Totals,
           NEW Z, \A k \in R : k \notin Z => costs[k] = Zero,
           NEW order \in SetToSeqs(R), NEW other \in SetToSeqs(R \cap Z)
    PROVE  Total(costs, order) = Total(costs, other)
<1> DEFINE Same(D) == \A o \in SetToSeqs(D), p \in SetToSeqs(D \cap Z) : Total(costs, o) = Total(costs, p)
           Bad     == {n \in Nat : \E D \in SUBSET R : IsFiniteSet(D) /\ Cardinality(D) = n /\ ~Same(D)}
<1>1. SUFFICES ASSUME Bad # {} PROVE FALSE
  <2>1. Cardinality(R) \in Nat /\ R \in SUBSET R BY FS_CardinalityType
  <2>2. Same(R) BY <2>1
  <2> QED BY <2>2
<1>2. PICK m \in Bad : m \in Nat /\ \A k \in Bad : m <= k
  <2>1. Bad \subseteq Nat OBVIOUS
  <2> QED BY ONLY <1>1, <2>1, Least
<1>3. PICK D \in SUBSET R : IsFiniteSet(D) /\ Cardinality(D) = m /\ ~Same(D) OBVIOUS
<1>4. PICK o \in SetToSeqs(D), p \in SetToSeqs(D \cap Z) : Total(costs, o) # Total(costs, p) BY <1>3
<1>5. CASE D \cap Z = D
  <2>1. \A k \in D : costs[k] \in Totals OBVIOUS
  <2>2. p \in SetToSeqs(D) BY <1>5
  <2> QED BY <1>3, <1>4, <2>1, <2>2, OneTotal
<1>6. CASE D \cap Z # D
  <2>1. PICK k \in D : k \notin Z BY <1>6
  <2>2. IsFiniteSet(D \ {k}) /\ Cardinality(D \ {k}) = m - 1 /\ m \in Nat \ {0}
    <3>1. IsFiniteSet(D \ {k}) /\ Cardinality(D \ {k}) = Cardinality(D) - 1 /\ Cardinality(D \ {k}) \in Nat
      BY <1>3, FS_RemoveElement, FS_CardinalityType
    <3> QED BY <1>2, <1>3, <3>1
  <2>3. Same(D \ {k})
    <3>1. m - 1 \in Nat /\ ~(m <= m - 1) BY <2>2
    <3>2. m - 1 \notin Bad BY ONLY <1>2, <3>1
    <3> QED BY <2>2, <3>1, <3>2
  <2>4. PICK q : q \in SetToSeqs(D \ {k}) BY <2>2, OrderExists
  <2>5. k \notin D \ {k} /\ (D \ {k}) \cup {k} = D /\ (D \ {k}) \cap Z = D \cap Z BY <2>1
  <2>6. PICK qk \in SetToSeqs(D) : Total(costs, qk) = AddTo(costs, Total(costs, q), k)
    BY <2>2, <2>4, <2>5, TotalMore
  <2>7. costs[k] = Zero BY <2>1
  <2>8. Total(costs, qk) = Total(costs, q) BY <2>6, <2>7, ZeroAdds
  <2>9. Total(costs, q) = Total(costs, p) BY <2>3, <2>4, <2>5
  <2>10. \A x \in D : costs[x] \in Totals OBVIOUS
  <2>11. Total(costs, o) = Total(costs, qk) BY <1>3, <2>10, OneTotal
  <2> QED BY <1>4, <2>8, <2>9, <2>11
<1> QED BY <1>5, <1>6

(* The loop over a map of costs has one sum. *)
LEMMA OneSum ==
    ASSUME NEW costs, IsFiniteSet(DOMAIN costs), \A k \in DOMAIN costs : costs[k] \in Totals
    PROVE  \E t \in Totals : Sums(costs) = {t}
<1>1. PICK order : order \in SetToSeqs(DOMAIN costs) BY OrderExists
<1>2. Total(costs, order) \in Totals BY <1>1, OrderSum
<1>3. \A other \in SetToSeqs(DOMAIN costs) : Total(costs, other) = Total(costs, order) BY <1>1, OneTotal
<1>4. Sums(costs) = {Total(costs, order)} BY <1>1, <1>3 DEF Sums
<1> QED BY <1>2, <1>4

(* Two maps of costs that differ in zeros only have the same sums. *)
LEMMA SameSums ==
    ASSUME NEW costs, IsFiniteSet(DOMAIN costs), \A k \in DOMAIN costs : costs[k] \in Totals,
           NEW costs2, IsFiniteSet(DOMAIN costs2), \A k \in DOMAIN costs2 : costs2[k] \in Totals,
           \A k \in DOMAIN costs : (k \in DOMAIN costs2 /\ costs[k] = costs2[k]) \/ costs[k] = Zero,
           \A k \in DOMAIN costs2 : (k \in DOMAIN costs /\ costs[k] = costs2[k]) \/ costs2[k] = Zero
    PROVE  Sums(costs) = Sums(costs2)
<1> DEFINE A == DOMAIN costs B == DOMAIN costs2 D == A \cap B
<1>1. IsFiniteSet(D) BY FS_Subset
<1>2. PICK o : o \in SetToSeqs(A) BY OrderExists
<1>3. PICK p : p \in SetToSeqs(B) BY OrderExists
<1>4. PICK q : q \in SetToSeqs(D) BY <1>1, OrderExists
<1>5. Total(costs, o) = Total(costs, q)
  <2>1. \A k \in A : k \notin B => costs[k] = Zero OBVIOUS
  <2> QED BY <1>2, <1>4, <2>1, ZerosDropped
<1>6. Total(costs2, p) = Total(costs2, q)
  <2>1. \A k \in B : k \notin A => costs2[k] = Zero OBVIOUS
  <2>2. D = B \cap A OBVIOUS
  <2> QED BY <1>3, <1>4, <2>1, <2>2, ZerosDropped
<1>7. Total(costs, q) = Total(costs2, q)
  <2>1. \A k \in D : costs[k] = costs2[k] OBVIOUS
  <2> HIDE DEF D
  <2>2. PICK n \in Nat : DOMAIN q = 1..n /\ \A i \in 1..n : q[i] \in D BY <1>1, <1>4, OrderType
  <2>3. \A i \in 1..n : costs[q[i]] = costs2[q[i]] BY <2>1, <2>2
  <2> QED BY <2>2, <2>3, TotalSame
<1>8. PICK t \in Totals : Sums(costs) = {t} BY OneSum
<1>9. PICK u \in Totals : Sums(costs2) = {u} BY OneSum
<1>10. Total(costs, o) \in Sums(costs) /\ Total(costs2, p) \in Sums(costs2) BY <1>2, <1>3 DEF Sums
<1> QED BY <1>5, <1>6, <1>7, <1>8, <1>9, <1>10

-----------------------------------------------------------------------------
(* The queries of a request: addresses are distinct, and so are the labels *)
(* of the components of each.                                              *)
LEMMA QueryType ==
    ASSUME request \in Requests, NEW p \in Phases
    PROVE  /\ Len(request[p]) \in Nat
           /\ request[p] = <<>> <=> Len(request[p]) = 0
           /\ \A i \in 1..Len(request[p]) :
                 /\ request[p][i].address \in Addresses
                 /\ Len(request[p][i].components) \in Nat
                 /\ request[p][i].components = <<>> <=> Len(request[p][i].components) = 0
                 /\ \A j \in 1..Len(request[p][i].components) :
                       LET comp == request[p][i].components[j]
                       IN  /\ comp.label \in Labels /\ comp.filter \in Filters
                           /\ comp.hourly \in Nat /\ comp.monthly \in Nat
                 /\ \A j \in 1..Len(request[p]) :
                       request[p][i].address = request[p][j].address => i = j
                 /\ \A j, k \in 1..Len(request[p][i].components) :
                       request[p][i].components[j].label = request[p][i].components[k].label => j = k
<1> DEFINE Asks == [label : Labels, filter : Filters, hourly : Nat, monthly : Nat]
<1>1. request \in [prior : Seq(Queries), planned : Seq(Queries)] BY RequestsAssumption
<1>2. request[p] \in Seq(Queries) /\ request[p] \in {request.prior, request.planned} BY <1>1 DEF Phases
<1>3. /\ Len(request[p]) \in Nat
      /\ request[p] = <<>> <=> Len(request[p]) = 0
      /\ \A i \in 1..Len(request[p]) : request[p][i] \in Queries
  BY <1>2
<1>4. ASSUME NEW q \in Queries
      PROVE  /\ q.address \in Addresses
             /\ q.components \in Seq(Asks)
  BY DEF Queries
<1>5. ASSUME NEW s \in Seq(Asks)
      PROVE  /\ Len(s) \in Nat /\ (s = <<>> <=> Len(s) = 0)
             /\ \A j \in 1..Len(s) : /\ s[j].label \in Labels /\ s[j].filter \in Filters
                                     /\ s[j].hourly \in Nat /\ s[j].monthly \in Nat
  <2> HIDE DEF Asks
  <2>1. Len(s) \in Nat /\ (s = <<>> <=> Len(s) = 0) /\ \A j \in 1..Len(s) : s[j] \in Asks OBVIOUS
  <2> QED BY <2>1 DEF Asks
<1>6. \A i \in 1..Len(request[p]) :
         /\ \A j \in 1..Len(request[p]) : request[p][i].address = request[p][j].address => i = j
         /\ \A j, k \in 1..Len(request[p][i].components) :
               request[p][i].components[j].label = request[p][i].components[k].label => j = k
  BY <1>2, RequestsAssumption
<1> HIDE DEF Asks
<1> QED BY <1>3, <1>4, <1>5, <1>6

(* Asking the key that was put, or another one. *)
LEMMA PutKey ==
    ASSUME NEW map, NEW k, NEW v
    PROVE  /\ DOMAIN Put(map, k, v) = DOMAIN map \cup {k}
           /\ Put(map, k, v)[k] = v
           /\ \A x \in DOMAIN map : x # k => Put(map, k, v)[x] = map[x]
  BY DEF Put

(* What Rate makes of a price. *)
LEMMA RateType ==
    ASSUME NEW comp, comp.hourly \in Nat, comp.monthly \in Nat, NEW first \in Prices
    PROVE  Rate(comp, first) \in Components /\ ~Rate(comp, first).error
<1>1. first.amount \in Nat /\ first.currency \in Currencies
      /\ first = [amount |-> first.amount, currency |-> first.currency]
  BY AmountsAssumption DEF Prices
<1>2. NewMonthly(first) \in [amount : Nat, currency : Currencies \cup {NoCurrency}]
  BY <1>1 DEF NewMonthly
<1>3. NewHourly(first) \in [amount : Nat, currency : Currencies \cup {NoCurrency}]
  <2>1. NewHourly(first) = [amount |-> first.amount * HoursPerMonth, currency |-> first.currency]
    BY <1>1 DEF NewHourly
  <2>2. first.amount * HoursPerMonth \in Nat BY <1>1 DEF HoursPerMonth
  <2> QED BY <1>1, <2>1, <2>2
<1> QED BY <1>2, <1>3 DEF Rate, Components

LEMMA UnpricedType == Unpriced \in Components /\ Unpriced.error
  BY DEF Unpriced, Components, Zero

-----------------------------------------------------------------------------
(* The place NewState is at. *)
LEMMA Place ==
    ASSUME TypeOK, HeldIsKnown, phase \in Phases, step # "resource"
    PROVE  /\ r \in 1..Len(List) /\ c \in 1..Len(List[r].components)
           /\ Component = request[phase][r].components[c]
           /\ Component.label \in Labels /\ Component.filter \in Filters
           /\ Component.hourly \in Nat /\ Component.monthly \in Nat
<1>1. r \in 1..Len(List) /\ c \in 1..Len(List[r].components) BY DEF HeldIsKnown, TypeOK
<1>2. request \in Requests BY DEF TypeOK
<1> QED BY <1>1, <1>2, QueryType DEF List, Component

LEMMA TypeSame ==
    ASSUME TypeOK, UNCHANGED <<request, states, phase, r, c>>,
           match' \in [Filters -> Products \cup {NoProduct}],
           price' \in [Products -> Prices \cup {NoPrice}],
           found' \in Products \cup {NoProduct}, ingestions' \in 0..MaxIngestions,
           step' \in {"resource", "product", "price"}, step = "resource" <=> step' = "resource"
    PROVE  TypeOK'
  BY DEF TypeOK, List

(* A state of which one component changes keeps its type. *)
LEMMA PutComponent ==
    ASSUME NEW state, IsState(state), NEW a \in DOMAIN state.resources, ~state.resources[a].skipped,
           NEW l \in Labels, NEW answer \in Components, answer.error => answer = Unpriced
    PROVE  IsState([state EXCEPT !.resources[a].components = Put(@, l, answer)])
<1> DEFINE res == state.resources[a]
           new == [skipped |-> res.skipped, components |-> Put(res.components, l, answer)]
           s   == [state EXCEPT !.resources[a].components = Put(@, l, answer)]
<1>1. IsResource(res) BY DEF IsState
<1>2. state = [nil |-> state.nil, resources |-> state.resources] BY DEF IsState
<1>3. res = [skipped |-> res.skipped, components |-> res.components] BY <1>1 DEF IsResource
<1>4. s = [nil |-> state.nil, resources |-> [state.resources EXCEPT ![a] = new]]
  BY <1>2, <1>3
<1> HIDE DEF s
<1>5. IsResource(new)
  <2> DEFINE comps == Put(res.components, l, answer)
  <2> HIDE DEF res
  <2>1. /\ DOMAIN comps = DOMAIN res.components \cup {l}
        /\ comps[l] = answer
        /\ \A x \in DOMAIN res.components : x # l => comps[x] = res.components[x]
    BY DEF Put
  <2> HIDE DEF comps
  <2>2. new = [skipped |-> res.skipped, components |-> comps] BY DEF comps
  <2>3. ~res.skipped BY DEF res
  <2> HIDE DEF new
  <2> QED BY <1>1, <2>1, <2>2, <2>3 DEF IsResource
<1> HIDE DEF new
<1>6. /\ DOMAIN s.resources = DOMAIN state.resources
      /\ \A x \in DOMAIN state.resources : s.resources[x] = IF x = a THEN new ELSE state.resources[x]
  BY <1>4
<1> QED BY <1>4, <1>5, <1>6 DEF IsState, s

(* Going on to the next component, or to the next query. *)
LEMMA NextComponent ==
    ASSUME TypeOK, HeldIsKnown, phase \in Phases, step # "resource", NEW answer, AddComponent(answer)
    PROVE  /\ r' \in 1..(Len(List) + 1) /\ step' \in {"resource", "product"}
           /\ step' # "resource" => r' = r /\ c' \in 1..Len(List[r].components)
           /\ \/ r' = r /\ step' = "product" /\ c' = c + 1 /\ c < Len(List[r].components)
              \/ r' = r + 1 /\ step' = "resource" /\ c' = 1 /\ c = Len(List[r].components)
<1>1. r \in 1..Len(List) /\ c \in 1..Len(List[r].components) BY Place
<1>2. request \in Requests BY DEF TypeOK
<1>3. Len(List) \in Nat /\ Len(List[r].components) \in Nat BY <1>1, <1>2, QueryType DEF List
<1> DEFINE n == Len(List)
           m == Len(List[r].components)
<1>4. IF c < m THEN r' = r /\ step' = "product" /\ c' = c + 1
      ELSE r' = r + 1 /\ step' = "resource" /\ c' = 1
  BY DEF AddComponent
<1>5. r \in 1..n /\ c \in 1..m /\ n \in Nat /\ m \in Nat BY <1>1, <1>3
<1> HIDE DEF n, m
<1>6. CASE c < m
  <2>1. r \in 1..(n + 1) /\ c + 1 \in 1..m BY <1>5, <1>6
  <2>2. r' = r /\ step' = "product" /\ c' = c + 1 BY <1>4, <1>6
  <2>3. r' \in 1..(Len(List) + 1) /\ c' \in 1..Len(List[r].components) BY <2>1, <2>2 DEF n, m
  <2>4. c < Len(List[r].components) BY <1>6 DEF m
  <2> QED BY <2>2, <2>3, <2>4
<1>7. CASE ~(c < m)
  <2>1. c = m BY <1>5, <1>7
  <2>2. r + 1 \in 1..(n + 1) BY <1>5
  <2> QED BY <1>4, <1>7, <2>1, <2>2 DEF n, m
<1> QED BY <1>6, <1>7

(* The resource the component is added to. *)
LEMMA CurrentResource ==
    ASSUME TypeOK, HeldIsKnown, StatesFollow, phase \in Phases, step # "resource"
    PROVE  /\ r \in Begun(phase)
           /\ List[r].address \in DOMAIN states[phase].resources
           /\ ~states[phase].resources[List[r].address].skipped
<1>1. r \in 1..Len(List) /\ c \in 1..Len(List[r].components) BY Place
<1>2. request \in Requests BY DEF TypeOK
<1>3. r \in Begun(phase) BY <1>1 DEF Begun, List
<1>4. List[r].components # <<>> BY <1>1, <1>2, QueryType DEF List
<1> QED BY <1>3, <1>4 DEF StatesFollow, Follows, List

LEMMA TypeAdd ==
    ASSUME TypeOK, HeldIsKnown, StatesFollow, phase \in Phases, step # "resource",
           NEW answer \in Components, answer.error => answer = Unpriced, AddComponent(answer),
           UNCHANGED <<request, tables, phase>>, found' = NoProduct
    PROVE  TypeOK'
<1>1. /\ List[r].address \in DOMAIN states[phase].resources
      /\ ~states[phase].resources[List[r].address].skipped
  BY CurrentResource
<1>2. Component.label \in Labels BY Place
<1>3. states = [p \in Phases |-> states[p]] /\ \A p \in Phases : IsState(states[p]) BY DEF TypeOK
<1> DEFINE new == [states[phase] EXCEPT !.resources[List[r].address].components =
                       Put(@, Component.label, answer)]
<1>4. IsState(new) BY <1>1, <1>2, <1>3, PutComponent
<1>5. states' = [states EXCEPT ![phase] = new] BY <1>3 DEF AddComponent
<1> HIDE DEF new
<1>6. states' = [p \in Phases |-> states'[p]] /\ \A p \in Phases : IsState(states'[p])
  BY <1>3, <1>4, <1>5
<1>7. UNCHANGED <<match, price, held, ingestions>> /\ List' = List BY DEF tables, List
<1>8. /\ r' \in 1..(Len(List) + 1) /\ step' \in {"resource", "product"}
      /\ step' # "resource" => r' = r /\ c' \in 1..Len(List[r].components)
  BY NextComponent
<1> HIDE DEF AddComponent
<1> QED BY <1>6, <1>7, <1>8 DEF TypeOK


LEMMA TypeEnsure ==
    ASSUME TypeOK, HeldIsKnown, EnsureResource
    PROVE  TypeOK'
<1>1. /\ phase \in Phases /\ step = "resource" /\ r \in 1..Len(List)
      /\ UNCHANGED <<request, match, price, held, ingestions, phase, found>>
      /\ request \in Requests /\ Len(List) \in Nat
  <2>1. request \in Requests /\ r \in 1..(Len(List) + 1) /\ phase \in Phases BY DEF EnsureResource, TypeOK
  <2>2. Len(List) \in Nat BY <2>1, QueryType DEF List
  <2> QED BY <2>1, <2>2 DEF EnsureResource, tables
<1> DEFINE a   == List[r].address
           old == states[phase].resources
           new == [nil |-> FALSE,
                   resources |-> IF a \in DOMAIN old THEN old
                                 ELSE Put(old, a, [skipped |-> List[r].components = <<>>, components |-> NilMap])]
<1>2. states = [p \in Phases |-> states[p]] /\ \A p \in Phases : IsState(states[p]) BY DEF TypeOK
<1>3. IsState(new)
  <2>1. a \in Addresses BY <1>1, QueryType DEF List
  <2>2. IsState(states[phase]) BY <1>1, <1>2
  <2> HIDE DEF a, old
  <2> DEFINE made == [skipped |-> List[r].components = <<>>, components |-> NilMap]
  <2>3. IsResource(made)
    <3>1. (List[r].components = <<>>) \in BOOLEAN OBVIOUS
    <3>2. DOMAIN NilMap = {} BY DEF NilMap
    <3> QED BY <3>1, <3>2 DEF IsResource
  <2> HIDE DEF made
  <2>4. DOMAIN old \subseteq Addresses /\ \A x \in DOMAIN old : IsResource(old[x])
    BY <2>2 DEF IsState, old
  <2> DEFINE more == Put(old, a, made)
  <2>5. DOMAIN more = DOMAIN old \cup {a} /\ \A x \in DOMAIN more : more[x] = IF x = a THEN made ELSE old[x]
    BY DEF Put
  <2> HIDE DEF more
  <2>6. DOMAIN more \subseteq Addresses /\ \A x \in DOMAIN more : IsResource(more[x])
    BY <2>1, <2>3, <2>4, <2>5
  <2>7. new = [nil |-> FALSE, resources |-> IF a \in DOMAIN old THEN old ELSE more] BY DEF more, made
  <2> HIDE DEF new
  <2> QED BY <2>4, <2>6, <2>7 DEF IsState
<1>4. states' = [states EXCEPT ![phase] = new] BY <1>1, <1>2 DEF EnsureResource
<1> HIDE DEF new
<1>5. states' = [p \in Phases |-> states'[p]] /\ \A p \in Phases : IsState(states'[p])
  BY <1>2, <1>3, <1>4
<1>6. List' = List BY <1>1 DEF List
<1>7. /\ r' \in 1..(Len(List) + 1) /\ step' \in {"resource", "product"}
      /\ step' # "resource" => r' = r /\ c' \in 1..Len(List[r].components)
  <2>1. r + 1 \in 1..(Len(List) + 1) /\ r \in 1..(Len(List) + 1) BY <1>1
  <2>2. List[r].components # <<>> => 1 \in 1..Len(List[r].components)
    <3>1. Len(List[r].components) \in Nat /\ (List[r].components = <<>> <=> Len(List[r].components) = 0)
      BY <1>1, QueryType DEF List
    <3> QED BY <3>1
  <2> QED BY <1>1, <2>1, <2>2 DEF EnsureResource
<1> QED BY <1>1, <1>5, <1>6, <1>7 DEF TypeOK

LEMMA TypeGo ==
    ASSUME TypeOK, NEW p, Go(p), p \in Phases \cup {"done", "failed"},
           UNCHANGED <<request, tables, found, states>>
    PROVE  TypeOK'
<1>1. request \in Requests BY DEF TypeOK
<1>2. p \in Phases => Len(request[p]) \in Nat BY <1>1, QueryType
<1>3. p \in Phases => 1 \in 1..(Len(request[p]) + 1) BY <1>2
<1> QED BY <1>3 DEF TypeOK, Go, tables, List

LEMMA TypeIngest ==
    ASSUME TypeOK, Ingest
    PROVE  /\ TypeOK'
           /\ match' \in [Filters -> Products \cup {NoProduct}]
           /\ price' \in [Products -> Prices \cup {NoPrice}]
<1>1. UNCHANGED <<request, phase, step, r, c, found, states>> /\ List' = List BY DEF Ingest, List
<1>2. match' \in [Filters -> Products \cup {NoProduct}] BY DEF Ingest, TypeOK
<1>3. price' \in [Products -> Prices \cup {NoPrice}] BY DEF Ingest, TypeOK
<1>4. ingestions' \in 0..MaxIngestions BY MaxIngestionsAssumption DEF Ingest, TypeOK
<1> QED BY <1>1, <1>2, <1>3, <1>4 DEF TypeOK

LEMMA FindType ==
    ASSUME TypeOK, HeldIsKnown, FindPrice
    PROVE  /\ Rate(Component, price[found]) \in Components /\ ~Rate(Component, price[found]).error
           /\ IsAnswer(Component, Rate(Component, price[found]))
<1>1. phase \in Phases /\ step = "price" /\ price[found] # NoPrice BY DEF FindPrice
<1>2. PICK m \in held.match : found = m[Component.filter] BY <1>1 DEF HeldIsKnown
<1>3. found # NoProduct /\ found \in Products BY <1>1 DEF HeldIsKnown, TypeOK
<1>4. price \in held.price /\ price[found] \in Prices BY <1>1, <1>3 DEF HeldIsKnown, TypeOK
<1>5. Component.hourly \in Nat /\ Component.monthly \in Nat BY <1>1, Place
<1>6. IsAnswer(Component, Rate(Component, price[found])) BY <1>1, <1>2, <1>3, <1>4 DEF IsAnswer
<1> QED BY <1>4, <1>5, <1>6, RateType


-----------------------------------------------------------------------------
(* What the tables held. *)
LEMMA HeldStep ==
    ASSUME TypeOK, HeldIsKnown, Next \/ UNCHANGED vars
    PROVE  HeldIsKnown'
<1>1. CASE Ingest
  <2>1. /\ match' \in [Filters -> Products \cup {NoProduct}]
        /\ price' \in [Products -> Prices \cup {NoPrice}]
    BY <1>1, TypeIngest
  <2>2. UNCHANGED <<request, phase, step, r, c, found>> BY <1>1 DEF Ingest
  <2>3. List' = List /\ Component' = Component BY <2>2 DEF List, Component
  <2>4. held'.match = held.match \cup {match'} /\ held'.price = held.price \cup {price'}
    BY <1>1 DEF Ingest
  <2>5. ingestions' # 0
    <3>1. ingestions \in Nat /\ ingestions' = ingestions + 1 BY <1>1 DEF Ingest, TypeOK
    <3> QED BY <3>1
  <2> QED BY <2>1, <2>2, <2>3, <2>4, <2>5 DEF HeldIsKnown
<1>2. CASE ~Ingest
  <2>1. UNCHANGED <<request, match, price, held, ingestions>>
    BY <1>2 DEF Next, NoQueries, EnsureResource, FindProduct, FindNothing, FindPrice, StateMade, Finished,
       tables, vars
  <2>2. phase' \in Phases /\ step' # "resource" => r' \in 1..Len(List')
    <3>1. CASE NoQueries \/ StateMade BY <3>1 DEF NoQueries, StateMade, Go
    <3>2. CASE EnsureResource
      <4>1. step' # "resource" => r' = r BY <3>2 DEF EnsureResource
      <4>2. phase' = phase /\ List' = List BY <2>1, <3>2 DEF EnsureResource, List
      <4>3. phase \in Phases /\ r <= Len(List) /\ r \in 1..(Len(List) + 1) BY <3>2 DEF EnsureResource, TypeOK
      <4>4. request \in Requests /\ Len(List) \in Nat BY <4>3, QueryType DEF TypeOK, List
      <4>5. r \in 1..Len(List) BY <4>3, <4>4
      <4> QED BY <4>1, <4>2, <4>5
    <3>3. CASE FindProduct BY <2>1, <3>3 DEF FindProduct, HeldIsKnown, List
    <3>4. CASE FindNothing \/ FindPrice
      <4>1. PICK answer : AddComponent(answer) BY <3>4 DEF FindNothing, FindPrice
      <4>2. phase \in Phases /\ step # "resource" /\ phase' = phase BY <3>4 DEF FindNothing, FindPrice
      <4>3. step' # "resource" => r' = r BY <4>1, <4>2, NextComponent
      <4> QED BY <2>1, <4>2, <4>3 DEF HeldIsKnown, List
    <3>5. CASE UNCHANGED vars BY <2>1, <3>5 DEF HeldIsKnown, List, vars
    <3> QED BY <1>2, <3>1, <3>2, <3>3, <3>4, <3>5 DEF Next, Finished
  <2>3. phase' \in Phases /\ step' = "price" =>
           found' # NoProduct /\ \E m \in held'.match : found' = m[Component'.filter]
    <3>1. CASE FindProduct
      <4>1. found' = match[Component.filter] /\ found' # NoProduct BY <3>1 DEF FindProduct
      <4>2. Component' = Component BY <2>1, <3>1 DEF FindProduct, Component, List
      <4>3. match \in held.match BY DEF HeldIsKnown
      <4> QED BY <2>1, <4>1, <4>2, <4>3
    <3>2. CASE UNCHANGED vars
      <4>1. Component' = Component BY <3>2 DEF vars, Component, List
      <4> QED BY <2>1, <3>2, <4>1 DEF HeldIsKnown, vars
    <3>3. CASE NoQueries \/ StateMade \/ EnsureResource \/ FindNothing \/ FindPrice
      <4>1. step' # "price"
        BY <3>3 DEF NoQueries, StateMade, EnsureResource, FindNothing, FindPrice, AddComponent, Go
      <4> QED BY <4>1
    <3> QED BY <1>2, <3>1, <3>2, <3>3 DEF Next, Finished
  <2> QED BY <2>1, <2>2, <2>3 DEF HeldIsKnown
<1> QED BY <1>1, <1>2

(* No answer is lost when the tables hold more. *)
LEMMA AnswerStays ==
    ASSUME held.match \subseteq held'.match, held.price \subseteq held'.price,
           NEW component, NEW answer, IsAnswer(component, answer)
    PROVE  IsAnswer(component, answer)'
  BY DEF IsAnswer

(* A query of which the resource stays as it is. *)
LEMMA FollowsSame ==
    ASSUME NEW p, NEW i, Follows(p, i), request' = request, Asked(p, i)' = Asked(p, i),
           states'[p].resources[request[p][i].address] = states[p].resources[request[p][i].address],
           held.match \subseteq held'.match, held.price \subseteq held'.price
    PROVE  Follows(p, i)'
<1> DEFINE q   == request[p][i]
           res == states[p].resources[q.address]
<1>1. /\ res.skipped <=> q.components = <<>>
      /\ DOMAIN res.components = {q.components[j].label : j \in Asked(p, i)}
      /\ \A j \in Asked(p, i) : IsAnswer(q.components[j], res.components[q.components[j].label])
  BY DEF Follows
<1>2. \A component, answer : IsAnswer(component, answer) => IsAnswer(component, answer)' BY AnswerStays
<1>3. PICK a, comps : a = request[p][i] /\ comps = res.components OBVIOUS
<1>4. \A j \in Asked(p, i) : IsAnswer(a.components[j], comps[a.components[j].label])'
  BY <1>1, <1>2, <1>3
<1>5. request'[p][i] = a BY <1>3
<1>6. states'[p].resources[a.address].components = comps BY <1>3
<1>7. states'[p].resources[a.address].skipped <=> a.components = <<>> BY <1>1, <1>3
<1>8. DOMAIN comps = {a.components[j].label : j \in Asked(p, i)'} BY <1>1, <1>3
<1>9. \A j \in Asked(p, i)' : IsAnswer(a.components[j], comps[a.components[j].label])'
  BY <1>4
<1> QED BY ONLY <1>5, <1>6, <1>7, <1>8, <1>9 DEF Follows

(* A step that neither begins a query nor prices a component. *)
LEMMA FollowSame ==
    ASSUME StatesFollow, UNCHANGED <<request, states>>,
           held.match \subseteq held'.match, held.price \subseteq held'.price,
           \A p \in Phases : Begun(p)' = Begun(p) /\ \A i \in Begun(p) : Asked(p, i)' = Asked(p, i)
    PROVE  StatesFollow'
<1>1. ASSUME NEW p \in Phases, NEW i \in Begun(p) PROVE Follows(p, i)'
  BY <1>1, FollowsSame DEF StatesFollow
<1> QED BY <1>1 DEF StatesFollow


LEMMA FollowGo ==
    ASSUME TypeOK, StatesFollow, NoQueries \/ StateMade
    PROVE  StatesFollow'
<1>1. /\ UNCHANGED <<request, states, held>> /\ request \in Requests /\ phase \in Phases
      /\ phase' = IF phase = "prior" THEN "planned" ELSE phase'
      /\ phase = "planned" => phase' \in {"done", "failed"}
      /\ step' = "resource" /\ r' = 1
      /\ request[phase] = <<>> \/ r = Len(request[phase]) + 1
  BY DEF NoQueries, StateMade, Go, tables, TypeOK, List, Phases
<1>2. ASSUME NEW p \in Phases
      PROVE  Begun(p)' = Begun(p) /\ \A i \in Begun(p) : Asked(p, i)' = Asked(p, i)
  <2>1. Len(request[p]) \in Nat /\ (request[p] = <<>> <=> Len(request[p]) = 0) BY <1>1, QueryType
  <2>2. CASE p = phase
    <3>1. Over(p)' BY <1>1, <2>2 DEF Over, Phases
    <3>2. \A i \in 1..Len(request[p]) : i < r BY <1>1, <2>1, <2>2
    <3>3. Begun(p)' = 1..Len(request[p]) BY <1>1, <3>1 DEF Begun
    <3>4. Begun(p) = 1..Len(request[p]) BY <2>2, <3>2 DEF Begun
    <3>5. \A i \in Begun(p) : Asked(p, i)' = Asked(p, i) BY <1>1, <3>1, <3>2, <3>4 DEF Asked
    <3> QED BY <3>3, <3>4, <3>5
  <2>3. CASE p = "prior" /\ phase = "planned"
    <3>1. Over(p) /\ Over(p)' BY <1>1, <2>3 DEF Over
    <3> QED BY <1>1, <3>1 DEF Begun, Asked
  <2>4. CASE p = "planned" /\ phase = "prior"
    <3>1. ~Over(p) /\ ~Over(p)' /\ phase # p BY <1>1, <2>4 DEF Over
    <3>2. \A i \in 1..Len(request[p]) : ~(i < 1) BY <2>1
    <3>3. Begun(p) = {} BY <3>1 DEF Begun
    <3>4. Begun(p)' = {} BY <1>1, <3>1, <3>2 DEF Begun
    <3> QED BY <3>3, <3>4
  <2> QED BY <1>1, <2>2, <2>3, <2>4 DEF Phases
<1> QED BY <1>1, <1>2, FollowSame

(* What the steps within a state leave alone. *)
LEMMA OtherQueries ==
    ASSUME request \in Requests, phase \in Phases, phase' = phase, request' = request,
           r \in 1..Len(List), NEW p \in Phases
    PROVE  p # phase => Begun(p)' = Begun(p) /\ \A i \in Begun(p) : Asked(p, i)' = Asked(p, i)
<1> SUFFICES ASSUME p # phase
             PROVE  Begun(p)' = Begun(p) /\ \A i \in Begun(p) : Asked(p, i)' = Asked(p, i)
  OBVIOUS
<1>1. Over(p)' = Over(p) BY DEF Over
<1>2. Begun(p)' = Begun(p) BY <1>1 DEF Begun
<1>3. \A i \in Begun(p) : Over(p) BY DEF Begun
<1> QED BY <1>1, <1>2, <1>3 DEF Asked

LEMMA FollowEnsure ==
    ASSUME TypeOK, StatesFollow, EnsureResource
    PROVE  StatesFollow'
<1> PICK p \in Phases : p = phase BY DEF EnsureResource
<1> DEFINE n   == Len(request[p])
           q   == request[p][r]
           old == states[p].resources
           new == Put(old, q.address, [skipped |-> q.components = <<>>, components |-> NilMap])
<1>1. /\ step = "resource" /\ request \in Requests
      /\ UNCHANGED <<request, held, phase>> /\ r <= n /\ r \in 1..(n + 1)
      /\ IF q.components = <<>> THEN r' = r + 1 /\ step' = "resource" ELSE step' = "product" /\ r' = r
      /\ c' = 1
  BY DEF EnsureResource, TypeOK, tables, List
<1>2. n \in Nat /\ r \in 1..n /\ r \in Nat BY <1>1, QueryType
<1>3. DOMAIN old = {request[p][i].address : i \in Begun(p)} BY DEF StatesFollow
<1>4. Begun(p) = {i \in 1..n : i < r} /\ ~Over(p) /\ ~Over(p)'
  BY <1>1 DEF Begun, Over, Phases
<1>5. ASSUME NEW i \in Begun(p) PROVE i \in 1..n /\ i < r /\ i # r /\ request[p][i].address # q.address
  <2>1. i \in 1..n /\ i < r BY <1>4
  <2>2. i # r BY <1>2, <2>1
  <2> QED BY <1>1, <1>2, <2>1, <2>2, QueryType
<1>6. q.address \notin DOMAIN old BY <1>3, <1>5
<1>7. states' = [states EXCEPT ![p] = [nil |-> FALSE, resources |-> new]]
  BY <1>6 DEF EnsureResource, List
<1>8. states = [x \in Phases |-> states[x]] BY DEF TypeOK
<1> HIDE DEF new
<1>9. /\ states'[p].resources = new
      /\ \A x \in Phases : x # p => states'[x] = states[x]
  BY <1>7, <1>8
<1>10. /\ DOMAIN new = DOMAIN old \cup {q.address}
       /\ new[q.address] = [skipped |-> q.components = <<>>, components |-> NilMap]
       /\ \A a \in DOMAIN old : a # q.address => new[a] = old[a]
  BY DEF new, Put
<1>11. Begun(p)' = Begun(p) \cup {r}
  <2>1. \A i \in 1..n : i < r + 1 <=> i < r \/ i = r BY <1>2
  <2>2. CASE q.components = <<>> BY <1>1, <1>2, <1>4, <2>1, <2>2 DEF Begun
  <2>3. CASE q.components # <<>> BY <1>1, <1>2, <1>4, <2>1, <2>3 DEF Begun
  <2> QED BY <2>2, <2>3
<1>12. ASSUME NEW i \in Begun(p) PROVE Follows(p, i)'
  <2>1. i \in 1..n /\ i < r /\ i < r' BY <1>1, <1>2, <1>5
  <2>2. Asked(p, i)' = Asked(p, i) BY <1>1, <2>1 DEF Asked
  <2>3. request[p][i].address \in DOMAIN old BY <1>3
  <2>4. states'[p].resources[request[p][i].address] = states[p].resources[request[p][i].address]
    BY <1>5, <1>9, <1>10, <2>3
  <2>5. Follows(p, i) BY DEF StatesFollow
  <2> QED BY <1>1, <2>2, <2>4, <2>5, FollowsSame
<1>13. ASSUME NEW i, i = r PROVE Follows(p, i)'
  <2>1. Asked(p, i)' = {}
    <3>1. /\ Len(q.components) \in Nat
          /\ q.components = <<>> <=> Len(q.components) = 0
      BY <1>1, <1>2, QueryType
    <3>2. \A j \in 1..Len(q.components) : ~(j < 1) BY <3>1
    <3>3. CASE q.components = <<>>
      <4>1. \A j \in 1..Len(q.components) : FALSE BY <3>1, <3>3
      <4> QED BY <1>1, <1>13, <4>1 DEF Asked
    <3>4. CASE q.components # <<>>
      <4>1. ~(i < r') BY <1>1, <1>2, <1>13, <3>4
      <4> QED BY <1>1, <1>4, <1>13, <3>2, <4>1 DEF Asked
    <3> QED BY <3>3, <3>4
  <2>2. DOMAIN NilMap = {} BY DEF NilMap
  <2>3. states'[p].resources[q.address] = [skipped |-> q.components = <<>>, components |-> NilMap]
    BY <1>9, <1>10
  <2> PICK a, res : a = q /\ res = states'[p].resources[q.address] OBVIOUS
  <2>4. request'[p][i] = a /\ states'[p].resources[a.address] = res BY <1>1, <1>13
  <2>5. (res.skipped <=> a.components = <<>>) /\ DOMAIN res.components = {}
    <3>1. res = [skipped |-> a.components = <<>>, components |-> NilMap] BY <2>3
    <3>2. res.components = NilMap BY <3>1
    <3>3. res.skipped = (a.components = <<>>) BY <3>1
    <3>4. res.skipped <=> a.components = <<>> BY <3>3
    <3> QED BY <2>2, <3>2, <3>4
  <2> QED BY <2>1, <2>4, <2>5 DEF Follows
<1>14. ASSUME NEW x \in Phases, x # p
       PROVE  /\ DOMAIN states'[x].resources = {request'[x][i].address : i \in Begun(x)'}
              /\ \A i \in Begun(x)' : Follows(x, i)'
  <2>1. Begun(x)' = Begun(x) /\ \A i \in Begun(x) : Asked(x, i)' = Asked(x, i)
    BY <1>1, <1>2, <1>14, OtherQueries DEF List
  <2>2. ASSUME NEW i \in Begun(x) PROVE Follows(x, i)'
    <3>1. Follows(x, i) /\ Asked(x, i)' = Asked(x, i) BY <2>1 DEF StatesFollow
    <3>2. states'[x].resources[request[x][i].address] = states[x].resources[request[x][i].address]
      BY <1>9, <1>14
    <3> QED BY <1>1, <3>1, <3>2, FollowsSame
  <2>3. states'[x] = states[x] /\ request' = request BY <1>1, <1>9, <1>14
  <2> QED BY <2>1, <2>2, <2>3 DEF StatesFollow
<1>15. /\ DOMAIN states'[p].resources = {request'[p][i].address : i \in Begun(p)'}
       /\ \A i \in Begun(p)' : Follows(p, i)'
  <2>1. DOMAIN states'[p].resources = {request[p][i].address : i \in Begun(p) \cup {r}}
    BY <1>3, <1>9, <1>10
  <2>2. \A i \in Begun(p) \cup {r} : Follows(p, i)' 
    <3>1. ASSUME NEW i, i = r PROVE Follows(p, i)' BY <1>13, <3>1
    <3> QED BY <1>12, <3>1
  <2> QED BY <1>1, <1>11, <2>1, <2>2
<1> QED BY <1>14, <1>15 DEF StatesFollow


LEMMA FollowAdd ==
    ASSUME TypeOK, HeldIsKnown, StatesFollow, phase \in Phases, step # "resource",
           NEW answer, AddComponent(answer), IsAnswer(Component, answer),
           UNCHANGED <<request, tables, phase>>
    PROVE  StatesFollow'
<1> PICK p \in Phases : p = phase OBVIOUS
<1> DEFINE n    == Len(request[p])
           q    == request[p][r]
           m    == Len(q.components)
           comp == q.components[c]
           old  == states[p].resources
           new  == Put(old[q.address].components, comp.label, answer)
<1>1. /\ request \in Requests /\ UNCHANGED <<request, match, price, held, ingestions, phase>>
      /\ r \in 1..n /\ c \in 1..m /\ comp = Component
      /\ n \in Nat /\ m \in Nat /\ r \in Nat /\ c \in Nat
  <2>1. request \in Requests /\ r \in 1..n /\ c \in 1..m /\ comp = Component BY Place DEF TypeOK, List
  <2>2. n \in Nat /\ m \in Nat BY <2>1, QueryType
  <2> QED BY <2>1, <2>2 DEF tables
<1>2. \/ r' = r /\ step' = "product" /\ c' = c + 1 /\ c < m
      \/ r' = r + 1 /\ step' = "resource" /\ c' = 1 /\ c = m
  BY NextComponent DEF List
<1>3. r \in Begun(p) /\ q.address \in DOMAIN old BY CurrentResource DEF List
<1>4. DOMAIN old = {request[p][i].address : i \in Begun(p)} BY DEF StatesFollow
<1>5. states = [x \in Phases |-> states[x]] /\ IsState(states[p]) BY DEF TypeOK
<1>6. states' = [states EXCEPT ![p].resources[q.address].components = Put(@, comp.label, answer)]
  BY <1>1 DEF AddComponent, List
<1>7. /\ DOMAIN states'[p].resources = DOMAIN old
      /\ states'[p].resources[q.address].components = new
      /\ states'[p].resources[q.address].skipped = old[q.address].skipped
      /\ \A a \in DOMAIN old : a # q.address => states'[p].resources[a] = old[a]
      /\ \A x \in Phases : x # p => states'[x] = states[x]
  <2>1. states[p] = [nil |-> states[p].nil, resources |-> old] BY <1>5 DEF IsState
  <2>2. old[q.address] = [skipped |-> old[q.address].skipped, components |-> old[q.address].components]
    BY <1>3, <1>5 DEF IsState, IsResource
  <2> HIDE DEF q, comp
  <2> QED BY <1>3, <1>5, <1>6, <2>1, <2>2
<1>8. ~Over(p) /\ ~Over(p)' BY <1>1 DEF Over, Phases
<1>9. Begun(p) = {i \in 1..n : i <= r} /\ Begun(p)' = Begun(p)
  <2>1. \A i \in 1..n : i <= r <=> i < r \/ i = r BY <1>1
  <2>2. \A i \in 1..n : i <= r <=> i < r + 1 BY <1>1
  <2>3. Begun(p) = {i \in 1..n : i <= r} BY <1>8, <2>1 DEF Begun
  <2>4. CASE r' = r /\ step' = "product" BY <1>1, <1>8, <2>1, <2>3, <2>4 DEF Begun
  <2>5. CASE r' = r + 1 /\ step' = "resource" BY <1>1, <1>8, <2>1, <2>2, <2>3, <2>5 DEF Begun
  <2> QED BY <1>2, <2>3, <2>4, <2>5
<1>10. ASSUME NEW i \in Begun(p), i # r PROVE Follows(p, i)'
  <2>1. i \in 1..n /\ i < r BY <1>1, <1>9, <1>10
  <2>2. i < r' BY <1>1, <1>2, <2>1
  <2>3. Asked(p, i)' = Asked(p, i) BY <1>1, <2>1, <2>2 DEF Asked
  <2>4. request[p][i].address \in DOMAIN old BY <1>4
  <2>5. request[p][i].address # q.address BY <1>1, <1>10, <2>1, QueryType
  <2>6. states'[p].resources[request[p][i].address] = states[p].resources[request[p][i].address]
    BY <1>7, <2>4, <2>5
  <2>7. Follows(p, i) BY DEF StatesFollow
  <2> QED BY <1>1, <2>3, <2>6, <2>7, FollowsSame
<1>11. ASSUME NEW i, i = r PROVE Follows(p, i)'
  <2>1. Asked(p, i) = {j \in 1..m : j < c} BY <1>1, <1>8, <1>11 DEF Asked
  <2>2. Asked(p, i)' = Asked(p, i) \cup {c}
    <3>1. \A j \in 1..m : j < c + 1 <=> j < c \/ j = c BY <1>1
    <3>2. CASE r' = r /\ c' = c + 1 BY <1>1, <1>8, <1>11, <2>1, <3>1, <3>2 DEF Asked
    <3>3. CASE r' = r + 1 /\ c = m
      <4>1. r < r' BY <1>1, <3>3
      <4>2. \A j \in 1..m : j < c \/ j = c BY <1>1, <3>3
      <4> QED BY <1>1, <1>11, <2>1, <4>1, <4>2 DEF Asked
    <3> QED BY <1>2, <3>2, <3>3
  <2>3. Follows(p, r) /\ Asked(p, i) = Asked(p, r) BY <1>3, <1>11 DEF StatesFollow
  <2> DEFINE comps == old[q.address].components
  <2>4. /\ old[q.address].skipped <=> q.components = <<>>
        /\ DOMAIN comps = {q.components[j].label : j \in Asked(p, r)}
        /\ \A j \in Asked(p, r) : IsAnswer(q.components[j], comps[q.components[j].label])
    BY <2>3 DEF Follows
  <2>5. DOMAIN new = DOMAIN comps \cup {comp.label} /\ new[comp.label] = answer
        /\ \A x \in DOMAIN comps : x # comp.label => new[x] = comps[x]
    BY DEF Put
  <2>6. DOMAIN new = {q.components[j].label : j \in Asked(p, i)'}
    <3> PICK after : after = Asked(p, i)' OBVIOUS
    <3>1. after = Asked(p, r) \cup {c} BY <2>2, <2>3
    <3>2. DOMAIN new = {q.components[j].label : j \in Asked(p, r)} \cup {q.components[c].label}
      BY <2>4, <2>5
    <3> HIDE DEF new, q
    <3>3. DOMAIN new = {q.components[j].label : j \in after} BY <3>1, <3>2
    <3> QED BY <3>3
  <2>7. ASSUME NEW j \in Asked(p, i)' PROVE IsAnswer(q.components[j], new[q.components[j].label])
    <3>1. CASE j = c BY <1>1, <2>5, <3>1
    <3>2. CASE j # c
      <4>1. j \in Asked(p, i) /\ j \in 1..m BY <2>1, <2>2, <3>2
      <4>2. q.components[j].label # comp.label BY <1>1, <3>2, <4>1, QueryType
      <4>3. q.components[j].label \in DOMAIN comps BY <2>3, <2>4, <4>1
      <4>4. new[q.components[j].label] = comps[q.components[j].label] BY <2>5, <4>2, <4>3
      <4> QED BY <2>3, <2>4, <4>1, <4>4
    <3> QED BY <3>1, <3>2
  <2> HIDE DEF new
  <2> PICK a, made : a = q /\ made = new OBVIOUS
  <2>8. \A j \in Asked(p, i)' : IsAnswer(a.components[j], made[a.components[j].label])'
    <3>1. \A component, x : IsAnswer(component, x) => IsAnswer(component, x)' BY <1>1, AnswerStays
    <3> QED BY <2>7, <3>1
  <2>9. request'[p][i] = a BY <1>1, <1>11
  <2>10. /\ states'[p].resources[a.address].components = made
         /\ states'[p].resources[a.address].skipped <=> a.components = <<>>
    BY <1>7, <2>4
  <2>11. DOMAIN made = {a.components[j].label : j \in Asked(p, i)'} BY <2>6
  <2> QED BY ONLY <2>8, <2>9, <2>10, <2>11 DEF Follows
<1>12. ASSUME NEW x \in Phases, x # p
       PROVE  /\ DOMAIN states'[x].resources = {request'[x][i].address : i \in Begun(x)'}
              /\ \A i \in Begun(x)' : Follows(x, i)'
  <2>1. Begun(x)' = Begun(x) /\ \A i \in Begun(x) : Asked(x, i)' = Asked(x, i)
    BY <1>1, <1>12, OtherQueries DEF List
  <2>2. ASSUME NEW i \in Begun(x) PROVE Follows(x, i)'
    <3>1. Follows(x, i) /\ Asked(x, i)' = Asked(x, i) BY <2>1 DEF StatesFollow
    <3>2. states'[x].resources[request[x][i].address] = states[x].resources[request[x][i].address]
      BY <1>7, <1>12
    <3> QED BY <1>1, <3>1, <3>2, FollowsSame
  <2>3. states'[x] = states[x] /\ request' = request BY <1>1, <1>7, <1>12
  <2>4. DOMAIN states[x].resources = {request[x][i].address : i \in Begun(x)} BY DEF StatesFollow
  <2>5. DOMAIN states'[x].resources = {request'[x][i].address : i \in Begun(x)'}
    BY ONLY <2>1, <2>3, <2>4
  <2>6. \A i \in Begun(x)' : Follows(x, i)' BY ONLY <2>1, <2>2
  <2> QED BY ONLY <2>5, <2>6, Zenon
<1>13. /\ DOMAIN states'[p].resources = {request'[p][i].address : i \in Begun(p)'}
       /\ \A i \in Begun(p)' : Follows(p, i)'
  <2>1. \A i \in Begun(p) : Follows(p, i)' BY <1>10, <1>11
  <2>2. request' = request /\ Begun(p)' = Begun(p) BY <1>1, <1>9
  <2>3. DOMAIN states'[p].resources = {request[p][i].address : i \in Begun(p)} BY <1>4, <1>7
  <2>4. DOMAIN states'[p].resources = {request'[p][i].address : i \in Begun(p)'}
    BY ONLY <2>2, <2>3
  <2>5. \A i \in Begun(p)' : Follows(p, i)' BY ONLY <2>1, <2>2
  <2> QED BY ONLY <2>4, <2>5, Zenon
<1> QED BY <1>12, <1>13 DEF StatesFollow

LEMMA FollowRest ==
    ASSUME TypeOK, HeldIsKnown, StatesFollow, FindProduct \/ Ingest \/ UNCHANGED vars
    PROVE  StatesFollow'
<1>1. /\ UNCHANGED <<request, states, phase, r, c>>
      /\ held.match \subseteq held'.match /\ held.price \subseteq held'.price
      /\ step' = "resource" <=> step = "resource"
  BY DEF FindProduct, Ingest, vars, tables
<1>2. ASSUME NEW p \in Phases
      PROVE  Begun(p)' = Begun(p) /\ \A i \in Begun(p) : Asked(p, i)' = Asked(p, i)
  <2>1. Over(p)' = Over(p) BY <1>1 DEF Over
  <2>2. Begun(p)' = Begun(p) BY <1>1, <2>1 DEF Begun
  <2>3. \A i : Asked(p, i)' = Asked(p, i) BY <1>1, <2>1 DEF Asked
  <2> QED BY <2>2, <2>3
<1> QED BY <1>1, <1>2, FollowSame


-----------------------------------------------------------------------------
LEMMA InvInit == Init => IInv
<1> SUFFICES ASSUME Init PROVE IInv OBVIOUS
<1>1. /\ request \in Requests /\ phase = "prior" /\ step = "resource" /\ r = 1
      /\ held = [match |-> {match}, price |-> {price}]
      /\ match \in [Filters -> Products \cup {NoProduct}]
      /\ price \in [Products -> Prices \cup {NoPrice}]
      /\ states = [p \in Phases |-> Nil]
  BY DEF Init
<1>2. \A p \in Phases : Len(request[p]) \in Nat BY <1>1, QueryType
<1>3. DOMAIN NilMap = {} BY DEF NilMap
<1>4. IsState(Nil) BY <1>3 DEF Nil, IsState
<1>5. TypeOK
  <2>1. r \in 1..(Len(List) + 1) BY <1>1, <1>2 DEF List, Phases
  <2>2. 0 \in 0..MaxIngestions BY MaxIngestionsAssumption
  <2>3. states = [p \in Phases |-> states[p]] /\ \A p \in Phases : IsState(states[p])
    <3>1. \A p \in Phases : states[p] = Nil BY <1>1
    <3> QED BY <1>1, <1>4, <3>1
  <2>4. found = NoProduct /\ ingestions = 0 BY DEF Init
  <2>5. phase \in Phases BY <1>1 DEF Phases
  <2> QED BY <1>1, <2>1, <2>2, <2>3, <2>4, <2>5 DEF TypeOK
<1>6. HeldIsKnown BY <1>1 DEF HeldIsKnown
<1>7. StatesFollow
  <2>1. ASSUME NEW p \in Phases PROVE Begun(p) = {}
    <3>1. ~Over(p) BY <1>1 DEF Over
    <3>2. \A i \in 1..Len(request[p]) : ~(i < 1) BY <1>2
    <3> QED BY <1>1, <3>1, <3>2 DEF Begun
  <2>2. \A p \in Phases : DOMAIN states[p].resources = {} BY <1>1, <1>3 DEF Nil
  <2> QED BY <2>1, <2>2 DEF StatesFollow
<1> QED BY <1>5, <1>6, <1>7 DEF IInv

LEMMA InvStep == IInv /\ [Next]_vars => IInv'
<1> SUFFICES ASSUME TypeOK, HeldIsKnown, StatesFollow, [Next]_vars
             PROVE  TypeOK' /\ HeldIsKnown' /\ StatesFollow'
  BY DEF IInv
<1>1. HeldIsKnown' BY HeldStep
<1>2. CASE NoQueries \/ StateMade
  <2>1. UNCHANGED <<request, tables, found, states>> BY <1>2 DEF NoQueries, StateMade
  <2>2. PICK p \in Phases \cup {"done", "failed"} : Go(p) BY <1>2 DEF NoQueries, StateMade, Phases
  <2>3. TypeOK' BY <2>1, <2>2, TypeGo
  <2> QED BY <1>1, <1>2, <2>3, FollowGo
<1>3. CASE EnsureResource BY <1>1, <1>3, TypeEnsure, FollowEnsure
<1>4. CASE FindNothing
  <2>1. /\ phase \in Phases /\ step # "resource" /\ AddComponent(Unpriced)
        /\ UNCHANGED <<request, tables, phase>> /\ found' = NoProduct
    BY <1>4 DEF FindNothing
  <2>2. IsAnswer(Component, Unpriced) BY DEF IsAnswer
  <2>3. TypeOK' BY <2>1, UnpricedType, TypeAdd
  <2>4. StatesFollow' BY <2>1, <2>2, FollowAdd
  <2> QED BY <1>1, <2>3, <2>4
<1>5. CASE FindPrice
  <2> DEFINE answer == Rate(Component, price[found])
  <2>1. /\ phase \in Phases /\ step # "resource" /\ AddComponent(answer)
        /\ UNCHANGED <<request, tables, phase>> /\ found' = NoProduct
    BY <1>5 DEF FindPrice
  <2>2. answer \in Components /\ ~answer.error /\ IsAnswer(Component, answer) BY <1>5, FindType
  <2> HIDE DEF answer
  <2>3. TypeOK' BY <2>1, <2>2, TypeAdd
  <2>4. StatesFollow' BY <2>1, <2>2, FollowAdd
  <2> QED BY <1>1, <2>3, <2>4
<1>6. CASE FindProduct
  <2>1. /\ UNCHANGED <<request, match, price, held, ingestions, states, phase, r, c>> /\ phase \in Phases
        /\ step' = "price" /\ step = "product" /\ found' = match[Component.filter]
    BY <1>6 DEF FindProduct, tables
  <2>2. found' \in Products \cup {NoProduct}
    <3>1. Component.filter \in Filters BY <2>1, Place
    <3> QED BY <2>1, <3>1 DEF TypeOK
  <2>3. TypeOK' BY <2>1, <2>2, TypeSame DEF TypeOK
  <2> QED BY <1>1, <1>6, <2>3, FollowRest
<1>7. CASE Ingest BY <1>1, <1>7, TypeIngest, FollowRest
<1>8. CASE UNCHANGED vars
  <2>1. TypeOK' BY <1>8 DEF TypeOK, vars, tables, List
  <2> QED BY <1>1, <1>8, <2>1, FollowRest
<1> QED BY <1>2, <1>3, <1>4, <1>5, <1>6, <1>7, <1>8 DEF Next, Finished

LEMMA InvHolds == Spec => []IInv
  BY InvInit, InvStep, PTL DEF Spec

(* Each variable has its type: NewState is always at a component that      *)
(* exists, and a state holds resources of which no skipped one has a       *)
(* component and no component with an error has a cost.                    *)
THEOREM TypeCorrect == Spec => []TypeOK
<1>1. IInv => TypeOK BY DEF IInv
<1> QED BY <1>1, InvHolds, PTL

-----------------------------------------------------------------------------
(* The plan that is made. *)

(* What an answer costs: nothing and it has the error, or what a price the *)
(* tables held costs per month.                                            *)
LEMMA AnswerCost ==
    ASSUME HeldIsKnown, NEW comp, comp.hourly \in Nat, comp.monthly \in Nat, comp.filter \in Filters,
           NEW answer, IsAnswer(comp, answer), ~answer.error
    PROVE  \E m \in held.match, x \in held.price :
              LET cost     == x[m[comp.filter]]
                  perMonth == IF comp.monthly # 0 THEN comp.monthly ELSE comp.hourly * HoursPerMonth
              IN  /\ m[comp.filter] # NoProduct /\ cost # NoPrice
                  /\ ComponentCost(answer) = IF cost.amount * perMonth = 0 THEN Zero
                                             ELSE [cost EXCEPT !.amount = @ * perMonth]
<1>1. answer # Unpriced BY UnpricedType
<1>2. PICK m \in held.match, x \in held.price :
         /\ m[comp.filter] # NoProduct /\ x[m[comp.filter]] # NoPrice
         /\ answer = Rate(comp, x[m[comp.filter]])
  BY <1>1 DEF IsAnswer
<1> DEFINE cost     == x[m[comp.filter]]
           perMonth == IF comp.monthly # 0 THEN comp.monthly ELSE comp.hourly * HoursPerMonth
<1>3. cost \in Prices BY <1>2 DEF HeldIsKnown
<1>4. cost.amount \in Nat /\ cost = [amount |-> cost.amount, currency |-> cost.currency]
  BY <1>3, AmountsAssumption DEF Prices
<1>5. answer = Rate(comp, cost) BY <1>2
<1> HIDE DEF cost
<1>6. ComponentCost(answer) = IF cost.amount * perMonth = 0 THEN Zero
                              ELSE [cost EXCEPT !.amount = @ * perMonth]
  <2> DEFINE a == cost.amount
             cur == cost.currency
  <2> HIDE DEF a, cur
  <2>1. a \in Nat /\ cost = [amount |-> a, currency |-> cur] BY <1>4 DEF a, cur
  <2>2. CASE comp.monthly # 0
    <3>1. answer.rate = [amount |-> a, currency |-> cur] /\ answer.quantity = comp.monthly
      BY <1>5, <2>1, <2>2 DEF Rate, NewMonthly
    <3>2. a * comp.monthly = 0 <=> a = 0 \/ comp.monthly = 0 BY <2>1
    <3>3. perMonth = comp.monthly BY <2>2
    <3> HIDE DEF perMonth
    <3> QED BY <2>1, <3>1, <3>2, <3>3 DEF ComponentCost, MulDecimal
  <2>3. CASE comp.monthly = 0
    <3>1. answer.rate = [amount |-> a * HoursPerMonth, currency |-> cur] /\ answer.quantity = comp.hourly
      BY <1>5, <2>1, <2>3 DEF Rate, NewHourly
    <3>2. (a * HoursPerMonth) * comp.hourly = a * (comp.hourly * HoursPerMonth)
      BY <2>1 DEF HoursPerMonth
    <3>3. perMonth = comp.hourly * HoursPerMonth BY <2>3
    <3>4. a * HoursPerMonth = 0 \/ comp.hourly = 0 <=> a * perMonth = 0
      <4>1. a * HoursPerMonth \in Nat BY <2>1 DEF HoursPerMonth
      <4>2. (a * HoursPerMonth) * comp.hourly = 0 <=> a * HoursPerMonth = 0 \/ comp.hourly = 0
        BY ONLY <4>1, comp.hourly \in Nat
      <4> QED BY <3>2, <3>3, <4>2
    <3> HIDE DEF perMonth
    <3> QED BY <2>1, <3>1, <3>2, <3>3, <3>4 DEF ComponentCost, MulDecimal
  <2> QED BY <2>2, <2>3
<1> QED BY <1>2, <1>6 DEF cost


(* What is known of the component `j` of the query `i` when the plan is done. *)
LEMMA Done ==
    ASSUME IInv, phase = "done", NEW p \in Phases, NEW i \in 1..Len(request[p])
    PROVE  LET q    == request[p][i]
               diff == ResourceDifferences[q.address]
           IN  /\ q.components = <<>> => q.address \in SkippedAddresses
               /\ q.components # <<>> =>
                     /\ diff = [x \in Phases |-> diff[x]]
                     /\ DOMAIN diff[p] = {q.components[j].label : j \in 1..Len(q.components)}
                     /\ \A j \in 1..Len(q.components) :
                           IsAnswer(q.components[j], diff[p][q.components[j].label])
<1> DEFINE q   == request[p][i]
           res == states[p].resources[q.address]
<1>1. TypeOK /\ StatesFollow BY DEF IInv
<1>2. i \in Begun(p) /\ Asked(p, i) = 1..Len(q.components) BY DEF Begun, Asked, Over
<1>3. q.address \in DOMAIN states[p].resources /\ Follows(p, i) BY <1>1, <1>2 DEF StatesFollow
<1>4. /\ res.skipped <=> q.components = <<>>
      /\ DOMAIN res.components = {q.components[j].label : j \in 1..Len(q.components)}
      /\ \A j \in 1..Len(q.components) : IsAnswer(q.components[j], res.components[q.components[j].label])
  BY <1>2, <1>3 DEF Follows
<1>5. ASSUME q.components = <<>> PROVE q.address \in SkippedAddresses
  BY <1>3, <1>4, <1>5 DEF SkippedAddresses, Skipped, Unskipped, Phases
<1>6. ASSUME q.components # <<>>
      PROVE  /\ ResourceDifferences[q.address] = [x \in Phases |-> ResourceDifferences[q.address][x]]
             /\ ResourceDifferences[q.address][p] = res.components
  <2> DEFINE a == q.address
  <2>1. a \in Unskipped(states[p]) BY <1>3, <1>4, <1>6 DEF Unskipped
  <2>2. a \in Unskipped(states["prior"]) \cup Unskipped(states["planned"]) BY <2>1 DEF Phases
  <2> HIDE DEF q
  <2>3. ResourceDifferences[a] = [x \in Phases |-> IF a \in Unskipped(states[x])
                                    THEN states[x].resources[a].components ELSE NilMap]
    BY <2>2 DEF ResourceDifferences
  <2> QED BY <2>1, <2>3
<1> QED BY <1>4, <1>5, <1>6

(* Nothing asked for is silently free: every component of a plan that is   *)
(* done is either priced, hourly or monthly as it was asked for, with what *)
(* the tables held meanwhile, or reported among the errors.                *)
THEOREM Reported == Spec => []PricedOrReported
<1>1. IInv => PricedOrReported
  <2> SUFFICES ASSUME IInv, phase = "done", NEW p \in Phases, NEW i \in 1..Len(request[p])
               PROVE  LET q == request[p][i]
                      IN  /\ q.components = <<>> => q.address \in SkippedAddresses
                          /\ \A j \in 1..Len(q.components) :
                               LET comp == q.components[j]
                                   diff == ResourceDifferences[q.address]
                                   perMonth == IF comp.monthly # 0 THEN comp.monthly
                                               ELSE comp.hourly * HoursPerMonth
                               IN  \/ comp.label \in DiffErrors(diff)
                                   \/ \E m \in held.match, x \in held.price :
                                        LET cost == x[m[comp.filter]]
                                        IN  /\ m[comp.filter] # NoProduct /\ cost # NoPrice
                                            /\ ComponentCost(diff[p][comp.label]) =
                                                 IF cost.amount * perMonth = 0 THEN Zero
                                                 ELSE [cost EXCEPT !.amount = @ * perMonth]
    BY DEF PricedOrReported
  <2> DEFINE q    == request[p][i]
             diff == ResourceDifferences[q.address]
  <2>1. request \in Requests /\ HeldIsKnown BY DEF IInv, TypeOK
  <2>2. ASSUME NEW j \in 1..Len(q.components), q.components[j].label \notin DiffErrors(diff)
        PROVE  /\ IsAnswer(q.components[j], diff[p][q.components[j].label])
               /\ ~diff[p][q.components[j].label].error
    <3>1. q.components # <<>> BY <2>1, QueryType
    <3>2. /\ DOMAIN diff[p] = {q.components[x].label : x \in 1..Len(q.components)}
          /\ \A x \in 1..Len(q.components) : IsAnswer(q.components[x], diff[p][q.components[x].label])
      BY <3>1, Done
    <3> HIDE DEF diff
    <3>3. q.components[j].label \in DOMAIN diff[p] BY <3>2
    <3>4. q.components[j].label \in DOMAIN diff["prior"] \cup DOMAIN diff["planned"] BY <3>3 DEF Phases
    <3> QED BY <2>2, <3>2, <3>3, <3>4 DEF DiffErrors
  <2>3. ASSUME NEW j \in 1..Len(q.components)
        PROVE  /\ q.components[j].filter \in Filters
               /\ q.components[j].hourly \in Nat /\ q.components[j].monthly \in Nat
    BY <2>1, QueryType
  <2>4. q.components = <<>> => q.address \in SkippedAddresses BY Done
  <2> HIDE DEF diff
  <2>5. ASSUME NEW j \in 1..Len(q.components), q.components[j].label \notin DiffErrors(diff)
        PROVE  \E m \in held.match, x \in held.price :
                  LET comp == q.components[j]
                      cost == x[m[comp.filter]]
                      perMonth == IF comp.monthly # 0 THEN comp.monthly ELSE comp.hourly * HoursPerMonth
                  IN  /\ m[comp.filter] # NoProduct /\ cost # NoPrice
                      /\ ComponentCost(diff[p][comp.label]) =
                           IF cost.amount * perMonth = 0 THEN Zero
                           ELSE [cost EXCEPT !.amount = @ * perMonth]
    <3> DEFINE comp   == q.components[j]
               answer == diff[p][comp.label]
    <3>1. /\ comp.hourly \in Nat /\ comp.monthly \in Nat /\ comp.filter \in Filters
          /\ IsAnswer(comp, answer) /\ ~answer.error
      BY <2>2, <2>3, <2>5
    <3> HIDE DEF comp, answer
    <3>2. \E m \in held.match, x \in held.price :
             LET cost     == x[m[comp.filter]]
                 perMonth == IF comp.monthly # 0 THEN comp.monthly ELSE comp.hourly * HoursPerMonth
             IN  /\ m[comp.filter] # NoProduct /\ cost # NoPrice
                 /\ ComponentCost(answer) = IF cost.amount * perMonth = 0 THEN Zero
                                            ELSE [cost EXCEPT !.amount = @ * perMonth]
      BY <2>1, <3>1, AnswerCost
    <3> QED BY <3>2 DEF comp, answer
  <2> QED BY <2>4, <2>5 DEF diff
<1> QED BY <1>1, InvHolds, PTL


(* What a plan does not change costs the same before and after, unless the *)
(* tables changed meanwhile or the difference has an error.                *)
THEOREM Unchanged == Spec => []UnchangedCostsTheSame
<1>1. IInv => UnchangedCostsTheSame
  <2> SUFFICES ASSUME IInv, phase = "done", ingestions = 0,
                      NEW i \in 1..Len(request.prior), NEW k \in 1..Len(request.planned),
                      request.prior[i] = request.planned[k], request.prior[i].components # <<>>,
                      DiffErrors(ResourceDifferences[request.prior[i].address]) = {}
               PROVE  LET diff == ResourceDifferences[request.prior[i].address]
                      IN  DiffCosts(diff, "prior") = DiffCosts(diff, "planned")
    BY DEF UnchangedCostsTheSame
  <2> DEFINE q    == request.prior[i]
             diff == ResourceDifferences[q.address]
  <2>1. held.match = {match} /\ held.price = {price} BY DEF IInv, HeldIsKnown
  <2>2. /\ "prior" \in Phases /\ "planned" \in Phases
        /\ request.prior = request["prior"] /\ request.planned = request["planned"]
    BY DEF Phases
  <2>3. /\ DOMAIN diff["prior"] = {q.components[j].label : j \in 1..Len(q.components)}
        /\ \A j \in 1..Len(q.components) : IsAnswer(q.components[j], diff["prior"][q.components[j].label])
    BY <2>2, Done
  <2>4. /\ DOMAIN diff["planned"] = {q.components[j].label : j \in 1..Len(q.components)}
        /\ \A j \in 1..Len(q.components) : IsAnswer(q.components[j], diff["planned"][q.components[j].label])
    <3> DEFINE other == request["planned"][k]
    <3>1. k \in 1..Len(request["planned"]) /\ other = q /\ q.components # <<>> BY <2>2
    <3>2. LET d == ResourceDifferences[other.address]
          IN  other.components # <<>> =>
                 /\ DOMAIN d["planned"] = {other.components[j].label : j \in 1..Len(other.components)}
                 /\ \A j \in 1..Len(other.components) :
                       IsAnswer(other.components[j], d["planned"][other.components[j].label])
      BY <2>2, <3>1, Done
    <3> HIDE DEF other, q
    <3> QED BY <3>1, <3>2
  <2>5. DiffErrors(diff) = {} OBVIOUS
  <2> HIDE DEF diff, q
  <2>6. ASSUME NEW l \in DOMAIN diff["prior"] PROVE diff["prior"][l] = diff["planned"][l]
    <3>1. PICK j \in 1..Len(q.components) : l = q.components[j].label BY <2>3
    <3>2. ~diff["prior"][l].error /\ ~diff["planned"][l].error BY <2>2, <2>3, <2>4, <2>5 DEF DiffErrors
    <3>3. diff["prior"][l] # Unpriced /\ diff["planned"][l] # Unpriced BY <3>2, UnpricedType
    <3>4. IsAnswer(q.components[j], diff["prior"][l]) /\ IsAnswer(q.components[j], diff["planned"][l])
      BY <2>3, <2>4, <3>1
    <3> QED BY <2>1, <3>3, <3>4 DEF IsAnswer
  <2>7. ComponentCosts(diff["prior"]) = ComponentCosts(diff["planned"])
    BY <2>3, <2>4, <2>6 DEF ComponentCosts
  <2> QED BY <2>7 DEF DiffCosts, diff, q
<1> QED BY <1>1, InvHolds, PTL

-----------------------------------------------------------------------------
(* The sums of the plan that is made. *)

(* What costs in a state that is done. *)
LEMMA DoneCosts ==
    ASSUME IInv, phase = "done", NEW p \in Phases
    PROVE  /\ IsFiniteSet(DOMAIN states[p].resources)
           /\ \A a \in DOMAIN states[p].resources :
                 LET res == states[p].resources[a]
                 IN  /\ IsFiniteSet(DOMAIN res.components)
                     /\ \A l \in DOMAIN res.components : ComponentCost(res.components[l]) \in Totals
                     /\ res.skipped => DOMAIN res.components = {}
<1>1. TypeOK /\ StatesFollow /\ HeldIsKnown BY DEF IInv
<1>2. request \in Requests /\ IsState(states[p]) BY <1>1 DEF TypeOK
<1>3. Begun(p) = 1..Len(request[p])
      /\ \A i \in 1..Len(request[p]) : Asked(p, i) = 1..Len(request[p][i].components)
  BY DEF Begun, Asked, Over
<1>4. /\ DOMAIN states[p].resources = {request[p][i].address : i \in 1..Len(request[p])}
      /\ \A i \in 1..Len(request[p]) : Follows(p, i)
  BY <1>1, <1>3 DEF StatesFollow
<1>5. IsFiniteSet(DOMAIN states[p].resources)
  <2>1. PICK n \in Nat : n = Len(request[p]) BY <1>2, QueryType
  <2>2. PICK f : f = [i \in 1..n |-> request[p][i].address] OBVIOUS
  <2>3. PICK T : T = DOMAIN states[p].resources OBVIOUS
  <2>4. T = {f[i] : i \in 1..n} /\ f \in [1..n -> T] BY <1>4, <2>1, <2>2, <2>3
  <2>5. IsFiniteSet(T) BY <2>4, FiniteRange
  <2> QED BY <2>3, <2>5
<1>6. ASSUME NEW a \in DOMAIN states[p].resources
      PROVE  LET res == states[p].resources[a]
             IN  /\ IsFiniteSet(DOMAIN res.components)
                 /\ \A l \in DOMAIN res.components : ComponentCost(res.components[l]) \in Totals
                 /\ res.skipped => DOMAIN res.components = {}
  <2> DEFINE res == states[p].resources[a]
  <2>1. PICK i \in 1..Len(request[p]) : a = request[p][i].address BY <1>4
  <2>2. PICK q : q = request[p][i] OBVIOUS
  <2>3. /\ Len(q.components) \in Nat
        /\ \A j \in 1..Len(q.components) :
              /\ q.components[j].filter \in Filters
              /\ q.components[j].hourly \in Nat /\ q.components[j].monthly \in Nat
    BY <1>2, <2>2, QueryType
  <2>4. /\ DOMAIN res.components = {q.components[j].label : j \in 1..Len(q.components)}
        /\ \A j \in 1..Len(q.components) : IsAnswer(q.components[j], res.components[q.components[j].label])
    <3>1. Follows(p, i) BY <1>4, <2>1
    <3>2. Asked(p, i) = 1..Len(q.components) BY <1>3, <2>1, <2>2
    <3> HIDE DEF res
    <3>3. PICK asked : asked = Asked(p, i) OBVIOUS
    <3>4. res = states[p].resources[q.address] BY <2>1, <2>2 DEF res
    <3>5. /\ DOMAIN res.components = {q.components[j].label : j \in asked}
          /\ \A j \in asked : IsAnswer(q.components[j], res.components[q.components[j].label])
      BY ONLY <2>2, <3>1, <3>3, <3>4 DEF Follows
    <3> QED BY ONLY <3>2, <3>3, <3>5, Zenon
  <2>5. IsResource(res) BY <1>2 DEF IsState
  <2> HIDE DEF res
  <2>6. IsFiniteSet(DOMAIN res.components)
    <3>1. PICK n \in Nat : n = Len(q.components) BY <2>3
    <3>2. PICK f : f = [j \in 1..n |-> q.components[j].label] OBVIOUS
    <3>3. PICK T : T = DOMAIN res.components OBVIOUS
    <3>4. T = {f[j] : j \in 1..n} /\ f \in [1..n -> T] BY <2>4, <3>1, <3>2, <3>3
    <3>5. IsFiniteSet(T) BY <3>4, FiniteRange
    <3> QED BY <3>3, <3>5
  <2>7. ASSUME NEW l \in DOMAIN res.components PROVE ComponentCost(res.components[l]) \in Totals
    <3>1. PICK j \in 1..Len(q.components) : l = q.components[j].label BY <2>4
    <3>2. PICK comp : comp = q.components[j] OBVIOUS
    <3>3. PICK answer : answer = res.components[l] OBVIOUS
    <3>4. IsAnswer(comp, answer) BY <2>4, <3>1, <3>2, <3>3
    <3>5. comp.hourly \in Nat /\ comp.monthly \in Nat /\ comp.filter \in Filters BY <2>3, <3>2
    <3>6. CASE answer = Unpriced
      <4>1. ComponentCost(answer) = Zero BY <3>6 DEF ComponentCost, Unpriced, Zero
      <4> QED BY <3>3, <4>1 DEF Totals, Costs
    <3>7. CASE answer # Unpriced
      <4>1. ~answer.error BY <2>5, <3>3, <3>7 DEF IsResource
      <4>2. PICK m \in held.match, x \in held.price :
              LET cost     == x[m[comp.filter]]
                  perMonth == IF comp.monthly # 0 THEN comp.monthly ELSE comp.hourly * HoursPerMonth
              IN  /\ m[comp.filter] # NoProduct /\ cost # NoPrice
                  /\ ComponentCost(answer) = IF cost.amount * perMonth = 0 THEN Zero
                                             ELSE [cost EXCEPT !.amount = @ * perMonth]
        BY <1>1, <3>4, <3>5, <4>1, AnswerCost
      <4>3. PICK cost : cost = x[m[comp.filter]] OBVIOUS
      <4>4. cost \in Prices BY <1>1, <3>5, <4>2, <4>3 DEF HeldIsKnown
      <4>5. PICK perMonth \in Nat :
              perMonth = IF comp.monthly # 0 THEN comp.monthly ELSE comp.hourly * HoursPerMonth
        BY <3>5 DEF HoursPerMonth
      <4>6. ComponentCost(answer) = IF cost.amount * perMonth = 0 THEN Zero
                                    ELSE [cost EXCEPT !.amount = @ * perMonth]
        BY <4>2, <4>3, <4>5
      <4>7. cost.amount \in Nat /\ cost.currency \in Currencies
            /\ cost = [amount |-> cost.amount, currency |-> cost.currency]
        BY <4>4, AmountsAssumption DEF Prices
      <4>8. PICK n : n = cost.amount * perMonth OBVIOUS
      <4>9. n \in Nat BY <4>7, <4>8
      <4>10. [cost EXCEPT !.amount = @ * perMonth] = [amount |-> n, currency |-> cost.currency]
        BY <4>7, <4>8
      <4>11. ComponentCost(answer) = IF n = 0 THEN Zero ELSE [amount |-> n, currency |-> cost.currency]
        BY <4>6, <4>8, <4>10
      <4> QED BY <3>3, <4>7, <4>9, <4>11 DEF Totals, Costs
    <3> QED BY <3>6, <3>7
  <2>8. res.skipped => DOMAIN res.components = {} BY <2>5 DEF IsResource
  <2> QED BY <2>6, <2>7, <2>8 DEF res
<1> QED BY <1>5, <1>6

(* A resource that is done has one cost, and one without components none. *)
LEMMA OneCost ==
    ASSUME NEW comps, IsFiniteSet(DOMAIN comps), \A l \in DOMAIN comps : ComponentCost(comps[l]) \in Totals
    PROVE  /\ \E t \in Totals : Sums(ComponentCosts(comps)) = {t}
           /\ DOMAIN comps = {} => Sums(ComponentCosts(comps)) = {Zero}
<1>1. PICK costs : costs = ComponentCosts(comps) OBVIOUS
<1>2. DOMAIN costs = DOMAIN comps /\ \A l \in DOMAIN costs : costs[l] \in Totals
  BY <1>1 DEF ComponentCosts
<1>3. IsFiniteSet(DOMAIN costs) BY <1>2
<1>4. PICK t \in Totals : Sums(costs) = {t} BY <1>2, <1>3, OneSum
<1>5. ASSUME DOMAIN costs = {} PROVE t = Zero
  <2>1. PICK order : order \in SetToSeqs(DOMAIN costs) BY <1>3, OrderExists
  <2>2. Total(costs, order) = t BY <1>4, <2>1 DEF Sums
  <2>3. DOMAIN order = 1..0 BY <1>3, <1>5, <2>1, OrderType, FS_EmptySet
  <2>4. 1..0 = {} OBVIOUS
  <2> QED BY <2>2, <2>3, <2>4, TotalEmpty
<1> QED BY <1>1, <1>2, <1>4, <1>5

(* The cost of a state is the one sum of the one cost of each resource. *)
LEMMA StateSum ==
    ASSUME IInv, phase = "done", NEW p \in Phases
    PROVE  \E costs : /\ DOMAIN costs = DOMAIN states[p].resources
                      /\ \A a \in DOMAIN costs :
                            /\ costs[a] \in Totals
                            /\ ResourceCosts(states[p].resources[a]) = {costs[a]}
                      /\ StateCosts(states[p]) = Sums(costs)
<1>1. PICK res : res = states[p].resources OBVIOUS
<1>2. \A a \in DOMAIN res : \E t \in Totals : ResourceCosts(res[a]) = {t}
  BY <1>1, DoneCosts, OneCost DEF ResourceCosts
<1> DEFINE cost == [a \in DOMAIN res |-> CHOOSE t \in Totals : ResourceCosts(res[a]) = {t}]
           All  == UNION {ResourceCosts(res[a]) : a \in DOMAIN res}
<1>3. \A a \in DOMAIN res : cost[a] \in Totals /\ ResourceCosts(res[a]) = {cost[a]} BY <1>2
<1>4. cost = [a \in DOMAIN res |-> cost[a]] /\ DOMAIN cost = DOMAIN res OBVIOUS
<1> HIDE DEF cost
<1>5. \A a \in DOMAIN res : cost[a] \in All BY <1>3
<1>6. cost \in [DOMAIN res -> All] BY <1>4, <1>5
<1>7. {f \in [DOMAIN res -> All] : \A a \in DOMAIN res : f[a] \in ResourceCosts(res[a])} = {cost}
  <2>1. ASSUME NEW f \in [DOMAIN res -> All], \A a \in DOMAIN res : f[a] \in ResourceCosts(res[a])
        PROVE  f = cost
    <3>1. \A a \in DOMAIN res : f[a] = cost[a] BY <1>3, <2>1
    <3> HIDE DEF All
    <3> QED BY <1>4, <3>1
  <2>2. \A a \in DOMAIN res : cost[a] \in ResourceCosts(res[a]) BY <1>3
  <2> HIDE DEF All
  <2> QED BY <1>6, <2>1, <2>2
<1>8. StateCosts(states[p]) = Sums(cost)
  <2>1. StateCosts(states[p]) = UNION {Sums(costs) : costs \in {cost}} BY <1>1, <1>7 DEF StateCosts
  <2> QED BY <2>1
<1> QED BY <1>1, <1>3, <1>4, <1>8

(* The cost of a state does not depend on the order in which Go iterates  *)
(* over the maps of resources and of components: two runs over the same   *)
(* state give the same amount, or both the mismatch of currencies.        *)
THEOREM Irrelevant == Spec => []OrderIsIrrelevant
<1>1. IInv => OrderIsIrrelevant
  <2> SUFFICES ASSUME IInv, phase = "done", NEW p \in Phases,
                      NEW x \in StateCosts(states[p]), NEW y \in StateCosts(states[p])
               PROVE  x = y
    BY DEF OrderIsIrrelevant
  <2>1. PICK costs : /\ DOMAIN costs = DOMAIN states[p].resources
                     /\ \A a \in DOMAIN costs : costs[a] \in Totals
                     /\ StateCosts(states[p]) = Sums(costs)
    BY StateSum
  <2>2. IsFiniteSet(DOMAIN costs) BY <2>1, DoneCosts
  <2>3. PICK t \in Totals : Sums(costs) = {t} BY <2>1, <2>2, OneSum
  <2> QED BY <2>1, <2>3
<1> QED BY <1>1, InvHolds, PTL

(* The differences of a plan add up to the costs of its two states: the   *)
(* merge by address neither loses a resource nor counts one twice, and    *)
(* the resources that are skipped or of one state only are free there.    *)
THEOREM AddUp == Spec => []DifferencesAddUp
<1>1. IInv => DifferencesAddUp
  <2> SUFFICES ASSUME IInv, phase = "done", NEW p \in Phases
               PROVE  LET diffs == ResourceDifferences
                      IN  Sums([a \in DOMAIN diffs |-> CHOOSE x \in DiffCosts(diffs[a], p) : TRUE])
                            = StateCosts(states[p])
    BY DEF DifferencesAddUp
  <2> DEFINE diffs == ResourceDifferences
             sides == [a \in DOMAIN diffs |-> CHOOSE x \in DiffCosts(diffs[a], p) : TRUE]
  <2>1. PICK costs : /\ DOMAIN costs = DOMAIN states[p].resources
                     /\ \A a \in DOMAIN costs :
                           /\ costs[a] \in Totals
                           /\ ResourceCosts(states[p].resources[a]) = {costs[a]}
                     /\ StateCosts(states[p]) = Sums(costs)
    BY StateSum
  <2>2. /\ DOMAIN diffs = Unskipped(states["prior"]) \cup Unskipped(states["planned"])
        /\ \A a \in DOMAIN diffs : diffs[a][p] = IF a \in Unskipped(states[p])
                                                 THEN states[p].resources[a].components ELSE NilMap
    BY DEF ResourceDifferences
  <2>3. /\ Unskipped(states[p]) \subseteq DOMAIN diffs
        /\ \A a \in Unskipped(states[p]) : a \in DOMAIN costs
    BY <2>1, <2>2 DEF Unskipped, Phases
  <2>4. IsFiniteSet(DOMAIN diffs)
    <3>1. /\ IsFiniteSet(DOMAIN states["prior"].resources)
          /\ IsFiniteSet(DOMAIN states["planned"].resources)
      BY DoneCosts DEF Phases
    <3>2. IsFiniteSet(DOMAIN states["prior"].resources \cup DOMAIN states["planned"].resources)
      BY <3>1, FS_Union
    <3>3. DOMAIN diffs \subseteq DOMAIN states["prior"].resources \cup DOMAIN states["planned"].resources
      BY <2>2 DEF Unskipped
    <3> QED BY <3>2, <3>3, FS_Subset
  <2> HIDE DEF diffs
  <2>5. ASSUME NEW a \in DOMAIN diffs
        PROVE  IF a \in Unskipped(states[p]) THEN sides[a] = costs[a] ELSE sides[a] = Zero
    <3>1. sides[a] = CHOOSE x \in Sums(ComponentCosts(diffs[a][p])) : TRUE BY DEF DiffCosts
    <3>2. CASE a \in Unskipped(states[p])
      <4>1. diffs[a][p] = states[p].resources[a].components BY <2>2, <3>2
      <4>2. Sums(ComponentCosts(diffs[a][p])) = {costs[a]} BY <2>1, <2>3, <3>2, <4>1 DEF ResourceCosts
      <4> QED BY <3>1, <3>2, <4>2
    <3>3. CASE a \notin Unskipped(states[p])
      <4>1. diffs[a][p] = NilMap BY <2>2, <3>3
      <4>2. DOMAIN NilMap = {} /\ IsFiniteSet({}) BY FS_EmptySet DEF NilMap
      <4>3. Sums(ComponentCosts(NilMap)) = {Zero} BY <4>2, OneCost
      <4> QED BY <3>1, <3>3, <4>1, <4>3
    <3> QED BY <3>2, <3>3
  <2>6. DOMAIN sides = DOMAIN diffs OBVIOUS
  <2> HIDE DEF sides
  <2>7. \A a \in DOMAIN sides : sides[a] \in Totals
    <3>1. Zero \in Totals BY DEF Totals, Costs
    <3> QED BY <2>1, <2>3, <2>5, <2>6, <3>1
  <2>8. \A a \in DOMAIN sides : (a \in DOMAIN costs /\ sides[a] = costs[a]) \/ sides[a] = Zero
    BY <2>3, <2>5, <2>6
  <2>9. \A a \in DOMAIN costs : (a \in DOMAIN sides /\ costs[a] = sides[a]) \/ costs[a] = Zero
    <3>1. SUFFICES ASSUME NEW a \in DOMAIN costs, a \notin Unskipped(states[p]) PROVE costs[a] = Zero
      BY <2>3, <2>5, <2>6
    <3>2. states[p].resources[a].skipped BY <2>1, <3>1 DEF Unskipped
    <3>3. ResourceCosts(states[p].resources[a]) = {Zero}
      BY <2>1, <3>2, DoneCosts, OneCost DEF ResourceCosts
    <3> QED BY <2>1, <3>3
  <2>10. IsFiniteSet(DOMAIN costs) /\ IsFiniteSet(DOMAIN sides) BY <2>1, <2>4, <2>6, DoneCosts
  <2>11. Sums(sides) = Sums(costs) BY <2>1, <2>7, <2>8, <2>9, <2>10, SameSums
  <2> QED BY <2>1, <2>11 DEF sides, diffs
<1> QED BY <1>1, InvHolds, PTL

=============================================================================
