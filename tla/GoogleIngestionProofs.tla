------------------------ MODULE GoogleIngestionProofs ------------------------
(***************************************************************************)
(* Proofs about GoogleIngestion, for every pair of lists, every channel    *)
(* capacity and every set of currencies and machine families.              *)
(***************************************************************************)
EXTENDS GoogleIngestion, SequenceTheorems, FiniteSetTheorems, WellFoundedInduction, TLAPS

(***************************************************************************)
(* FlattenSeq.  It is a recursive function; what it does to a sequence     *)
(* with one element more follows from the least number for which it would  *)
(* not do it.                                                              *)
(***************************************************************************)
LEMMA LeastNumber ==
    ASSUME NEW T, T \subseteq Nat, T # {}
    PROVE  \E x \in T : \A y \in T : x <= y
<1>1. PICK x \in T : \A y \in T : ~(<<y, x>> \in OpToRel(<, Nat))
  BY WFMin, NatLessThanWellFounded
<1>2. \A y \in T : ~(y < x) BY <1>1 DEF OpToRel
<1> QED BY <1>2

(* f are the sequences a flattening of the first n goes through. *)
Flattens(f, seqs, n) ==
    \A i \in 1..n : f[i] = IF i = 1 THEN seqs[i] ELSE f[i - 1] \o seqs[i]

LEMMA FlattenExists ==
    ASSUME NEW S, NEW seqs \in Seq(Seq(S)), NEW n \in 0..Len(seqs)
    PROVE  \E f \in [1..n -> Seq(S)] : Flattens(f, seqs, n)
<1> DEFINE Good(m) == \E f \in [1..m -> Seq(S)] : Flattens(f, seqs, m)
           Bad     == {m \in 0..Len(seqs) : ~Good(m)}
<1>1. SUFFICES ASSUME Bad # {} PROVE FALSE OBVIOUS
<1>2. PICK m \in Bad : \A k \in Bad : m <= k
  <2>1. Bad \subseteq Nat OBVIOUS
  <2> QED BY ONLY <1>1, <2>1, LeastNumber
<1>3. m \in 0..Len(seqs) /\ ~Good(m) OBVIOUS
<1>4. Len(seqs) \in Nat OBVIOUS
<1>5. CASE m = 0
  <2>1. 1..m = {} BY <1>5
  <2> DEFINE empty == [i \in 1..m |-> <<>>]
  <2>2. empty \in [1..m -> Seq(S)] OBVIOUS
  <2>3. Flattens(empty, seqs, m) BY <2>1 DEF Flattens
  <2> QED BY <1>3, <2>2, <2>3
<1>6. CASE m # 0
  <2>1. m - 1 \in 0..Len(seqs) /\ Good(m - 1)
    <3>1. m - 1 \in 0..Len(seqs) /\ ~(m <= m - 1) BY <1>3, <1>4, <1>6
    <3>2. m - 1 \notin Bad BY ONLY <1>2, <3>1
    <3> QED BY <3>1, <3>2
  <2>2. PICK f \in [1..(m - 1) -> Seq(S)] : Flattens(f, seqs, m - 1) BY <2>1
  <2> DEFINE last == IF m = 1 THEN seqs[m] ELSE f[m - 1] \o seqs[m]
             g    == [i \in 1..m |-> IF i = m THEN last ELSE f[i]]
  <2>3. m \in 1..Len(seqs) /\ seqs[m] \in Seq(S) BY <1>3, <1>4, <1>6
  <2>4. m # 1 => f[m - 1] \in Seq(S) BY <1>4, <2>3
  <2>5. last \in Seq(S) BY <2>3, <2>4, ConcatProperties
  <2> HIDE DEF last
  <2>6. \A i \in 1..m : i # m => i \in 1..(m - 1) /\ f[i] \in Seq(S) BY <1>4, <2>3
  <2>7. g \in [1..m -> Seq(S)] BY <2>5, <2>6
  <2>8. \A i \in 1..m : g[i] = IF i = 1 THEN seqs[i] ELSE g[i - 1] \o seqs[i]
    <3>1. TAKE i \in 1..m
    <3>2. CASE i = m
      <4>1. g[i] = last BY <3>2
      <4>2. i # 1 => g[i - 1] = f[m - 1] BY <1>4, <2>3, <3>2
      <4> QED BY <3>2, <4>1, <4>2 DEF last
    <3>3. CASE i # m
      <4>1. i \in 1..(m - 1) /\ g[i] = f[i] BY <2>6, <3>3
      <4>2. i # 1 => i - 1 \in 1..m /\ i - 1 # m /\ g[i - 1] = f[i - 1] BY <1>4, <2>3
      <4> QED BY <2>2, <4>1, <4>2 DEF Flattens
    <3> QED BY <3>2, <3>3
  <2>9. Flattens(g, seqs, m) BY <2>8 DEF Flattens
  <2> QED BY <1>3, <2>7, <2>9
<1> QED BY <1>5, <1>6

LEMMA FlattenFunction ==
    ASSUME NEW S, NEW seqs \in Seq(Seq(S))
    PROVE  \E f : /\ f = [i \in 1..Len(seqs) |-> f[i]]
                  /\ \A i \in 1..Len(seqs) : f[i] \in Seq(S)
                  /\ Flattens(f, seqs, Len(seqs))
<1>1. Len(seqs) \in 0..Len(seqs) OBVIOUS
<1>2. PICK f \in [1..Len(seqs) -> Seq(S)] : Flattens(f, seqs, Len(seqs)) BY <1>1, FlattenExists
<1>3. f = [i \in 1..Len(seqs) |-> f[i]] /\ \A i \in 1..Len(seqs) : f[i] \in Seq(S) OBVIOUS
<1> QED BY <1>2, <1>3

LEMMA FlattenUnique ==
    ASSUME NEW seqs, NEW n \in Nat, NEW f, NEW g, Flattens(f, seqs, n), Flattens(g, seqs, n)
    PROVE  \A i \in 1..n : f[i] = g[i]
<1> DEFINE Bad == {i \in 1..n : f[i] # g[i]}
<1>1. SUFFICES ASSUME Bad # {} PROVE FALSE OBVIOUS
<1>2. PICK i \in Bad : \A k \in Bad : i <= k
  <2>1. Bad \subseteq Nat OBVIOUS
  <2> QED BY ONLY <1>1, <2>1, LeastNumber
<1>3. i \in 1..n /\ f[i] # g[i] OBVIOUS
<1>4. CASE i = 1 BY <1>3, <1>4 DEF Flattens
<1>5. CASE i # 1
  <2>1. i - 1 \in 1..n /\ i - 1 \notin Bad BY <1>2, <1>3, <1>5
  <2>2. f[i - 1] = g[i - 1] BY <2>1
  <2>3. f[i] = f[i - 1] \o seqs[i] BY <1>3, <1>5 DEF Flattens
  <2>4. g[i] = g[i - 1] \o seqs[i] BY <1>3, <1>5 DEF Flattens
  <2> QED BY ONLY <1>3, <2>2, <2>3, <2>4
<1> QED BY <1>4, <1>5

LEMMA FlattenIs ==
    ASSUME NEW seqs, Len(seqs) \in Nat \ {0},
           NEW f, f = [i \in 1..Len(seqs) |-> f[i]], Flattens(f, seqs, Len(seqs))
    PROVE  FlattenSeq(seqs) = f[Len(seqs)]
<1> DEFINE n    == Len(seqs)
           D(g) == [i \in 1..n |-> IF i = 1 THEN seqs[i] ELSE g[i - 1] \o seqs[i]]
           c    == CHOOSE g : g = D(g)
<1>1. f = D(f) BY DEF Flattens
<1>2. c = D(c) BY <1>1
<1>3. FlattenSeq(seqs) = c[n] BY DEF FlattenSeq
<1> HIDE DEF c
<1>4. Flattens(c, seqs, n) BY <1>2 DEF Flattens
<1>5. c[n] = f[n] BY <1>4, FlattenUnique
<1> QED BY <1>3, <1>5

LEMMA FlattenEmpty == FlattenSeq(<<>>) = <<>>
  BY DEF FlattenSeq

(* Flattening a sequence and flattening the one with another element. *)
LEMMA FlattenNext ==
    ASSUME NEW S, NEW seqs \in Seq(Seq(S)), NEW more \in Seq(Seq(S)),
           Len(more) = Len(seqs) + 1, \A i \in 1..Len(seqs) : seqs[i] = more[i]
    PROVE  /\ FlattenSeq(seqs) \in Seq(S)
           /\ FlattenSeq(more) = FlattenSeq(seqs) \o more[Len(more)]
<1>1. Len(seqs) \in Nat /\ Len(more) \in Nat \ {0} /\ Len(more) \in 1..Len(more) OBVIOUS
<1>2. PICK f : /\ f = [i \in 1..Len(seqs) |-> f[i]]
               /\ \A i \in 1..Len(seqs) : f[i] \in Seq(S)
               /\ Flattens(f, seqs, Len(seqs))
  BY FlattenFunction
<1>3. PICK g : /\ g = [i \in 1..Len(more) |-> g[i]]
               /\ Flattens(g, more, Len(more))
  BY FlattenFunction
<1>4. \A i \in 1..Len(seqs) : f[i] = g[i]
  <2>1. \A i \in 1..Len(seqs) : i \in 1..Len(more) OBVIOUS
  <2>2. Flattens(g, seqs, Len(seqs)) BY <1>3, <2>1 DEF Flattens
  <2>3. Len(seqs) \in Nat /\ Flattens(f, seqs, Len(seqs)) BY <1>1, <1>2
  <2> QED BY ONLY <2>2, <2>3, FlattenUnique
<1>5. FlattenSeq(more) = g[Len(more)] BY <1>1, <1>3, FlattenIs
<1>6. more[Len(more)] \in Seq(S) BY <1>1
<1>7. CASE Len(seqs) = 0
  <2>1. seqs = <<>> BY <1>7
  <2>2. FlattenSeq(seqs) = <<>> BY <2>1, FlattenEmpty
  <2>3. Len(more) = 1 /\ g[1] = more[1] BY <1>3, <1>7 DEF Flattens
  <2> QED BY <1>5, <1>6, <2>2, <2>3, ConcatEmptySeq
<1>8. CASE Len(seqs) # 0
  <2>1. FlattenSeq(seqs) = f[Len(seqs)] BY <1>1, <1>2, <1>8, FlattenIs
  <2>2. Len(seqs) \in 1..Len(seqs) /\ Len(more) # 1 /\ Len(more) - 1 = Len(seqs) BY <1>1, <1>8
  <2>3. g[Len(more)] = g[Len(seqs)] \o more[Len(more)] BY <1>1, <1>3, <2>2 DEF Flattens
  <2>4. f[Len(seqs)] = g[Len(seqs)] BY <1>4, <2>2
  <2>5. f[Len(seqs)] \in Seq(S) BY <1>2, <2>2
  <2> QED BY ONLY <1>5, <2>1, <2>3, <2>4, <2>5
<1> QED BY <1>7, <1>8

LEMMA FlattenType ==
    ASSUME NEW S, NEW seqs \in Seq(Seq(S))
    PROVE  FlattenSeq(seqs) \in Seq(S)
<1> DEFINE more == Append(seqs, <<>>)
<1>1. more \in Seq(Seq(S)) /\ Len(more) = Len(seqs) + 1 OBVIOUS
<1>2. \A i \in 1..Len(seqs) : seqs[i] = more[i] OBVIOUS
<1> HIDE DEF more
<1> QED BY <1>1, <1>2, FlattenNext

(* Prefixes, element by element. *)
LEMMA PrefixIs ==
    ASSUME NEW S, NEW s \in Seq(S), NEW t \in Seq(S)
    PROVE  IsPrefix(s, t) <=> Len(s) <= Len(t) /\ \A i \in 1..Len(s) : s[i] = t[i]
<1> DEFINE n == Len(s)
           a == SubSeq(s, 1, n)
           b == SubSeq(t, 1, n)
<1>1. n \in Nat /\ Len(t) \in Nat /\ 1 \in Int OBVIOUS
<1>2. \A i \in 1..n : s[i] \in S OBVIOUS
<1>3. /\ a \in Seq(S) /\ Len(a) = n
      /\ \A i \in 1..n : a[i] = s[i]
  BY <1>1, <1>2, SubSeqProperties
<1>4. ASSUME n <= Len(t)
      PROVE  /\ b \in Seq(S) /\ Len(b) = n
             /\ \A i \in 1..n : b[i] = t[i]
  <2>1. \A i \in 1..n : t[i] \in S BY <1>1, <1>4
  <2> QED BY <1>1, <2>1, SubSeqProperties
<1>5. ASSUME n <= Len(t), \A i \in 1..n : s[i] = t[i] PROVE a = b
  <2>1. Len(a) = Len(b) /\ \A i \in 1..Len(a) : a[i] = b[i] BY <1>3, <1>4, <1>5
  <2> QED BY <1>3, <1>4, <1>5, <2>1, SeqEqual
<1>6. ASSUME n <= Len(t), a = b PROVE \A i \in 1..n : s[i] = t[i]
  BY <1>3, <1>4, <1>6
<1>7. IsPrefix(s, t) <=> n <= Len(t) /\ a = b BY DEF IsPrefix
<1> QED BY <1>5, <1>6, <1>7

LEMMA PrefixConcat ==
    ASSUME NEW S, NEW s \in Seq(S), NEW t \in Seq(S), NEW u \in Seq(S), IsPrefix(s, t)
    PROVE  IsPrefix(s, t \o u)
<1>1. Len(s) \in Nat /\ Len(t) \in Nat /\ Len(u) \in Nat OBVIOUS
<1>2. /\ t \o u \in Seq(S) /\ Len(t \o u) = Len(t) + Len(u)
      /\ \A i \in 1..Len(t) : (t \o u)[i] = t[i]
  BY <1>1, ConcatProperties
<1>3. Len(s) <= Len(t) /\ \A i \in 1..Len(s) : s[i] = t[i] BY PrefixIs
<1>4. Len(s) <= Len(t \o u) /\ \A i \in 1..Len(s) : s[i] = (t \o u)[i] BY <1>1, <1>2, <1>3
<1> QED BY <1>2, <1>4, PrefixIs

-----------------------------------------------------------------------------
(* The lists, the prices known and the rows made of them. *)
Known == [MachineFamilies \X {"CPU", "RAM"} -> Prices \cup {NoPrice}]

LEMMA ListType ==
    ASSUME NEW l \in Lists
    PROVE  /\ l.skus \in Seq(SKUs) /\ Len(l.skus) \in Nat
           /\ l.machineTypes \in Seq(MachineTypes) /\ Len(l.machineTypes) \in Nat
<1>1. l.skus \in Seq(SKUs) /\ l.machineTypes \in Seq(MachineTypes) BY ListsAssumption
<1> QED BY <1>1, LenProperties

LEMMA RowsOfType == ASSUME NEW sku \in SKUs PROVE RowsOf(sku) \in Seq(Rows)
<1> DEFINE row == [kind |-> "sku", id |-> sku.id, price |-> PriceOf(sku)]
           n   == Cardinality(OurRegions(sku))
<1>1. PriceOf(sku) \in Prices BY DEF SKUs, PriceOf, Prices
<1>2. row \in Rows BY <1>1 DEF SKUs, Rows
<1>3. n \in Nat
  <2>1. sku.regions \in Seq({"global", "ours", "other"}) BY DEF SKUs
  <2>2. DOMAIN sku.regions = 1..Len(sku.regions) /\ Len(sku.regions) \in Nat BY <2>1, LenProperties
  <2>3. IsFiniteSet(1..Len(sku.regions)) BY <2>2, FS_Interval
  <2>4. OurRegions(sku) \subseteq 1..Len(sku.regions) BY <2>2 DEF OurRegions
  <2> QED BY <2>3, <2>4, FS_Subset, FS_CardinalityType
<1>4. [k \in 1..n |-> row] \in Seq(Rows) BY <1>2, <1>3
<1>5. <<>> \in Seq(Rows) OBVIOUS
<1> HIDE DEF row, n
<1>6. RowsOf(sku) \in {<<>>, [k \in 1..n |-> row]} BY DEF RowsOf, row, n
<1> QED BY <1>4, <1>5, <1>6

LEMMA RememberType ==
    ASSUME NEW sku \in SKUs, NEW known \in Known
    PROVE  Remember(sku, known) \in Known
<1>1. PriceOf(sku) \in Prices BY DEF SKUs, PriceOf, Prices
<1> QED BY <1>1 DEF Remember, Known

LEMMA MachineRowsType ==
    ASSUME NEW mt \in MachineTypes, NEW known \in Known
    PROVE  /\ MachineRowsOf(mt, known) \in Seq(Rows)
           /\ \A j \in 1..Len(MachineRowsOf(mt, known)) : MachineRowsOf(mt, known)[j].kind = "machine"
<1>1. CASE ~(Priceable(mt, known) /\ mt.kept)
  <2>1. MachineRowsOf(mt, known) = <<>> BY <1>1 DEF MachineRowsOf
  <2> QED BY <2>1
<1>2. CASE Priceable(mt, known) /\ mt.kept
  <2> DEFINE rp == known[<<mt.family, "RAM">>]
             cp == known[<<mt.family, "CPU">>]
  <2>1. mt.family \in MachineFamilies /\ mt.guestCpus \in Nat /\ mt.memoryMb \in Nat /\ mt.id \in Nat
    BY <1>2 DEF Priceable, MachineTypes
  <2>2. rp \in Prices \cup {NoPrice} /\ cp \in Prices \cup {NoPrice} BY <2>1 DEF Known
  <2>3. rp # NoPrice /\ cp # NoPrice BY <1>2 DEF Priceable, NoPrice
  <2>4. rp \in Prices /\ cp \in Prices BY <2>2, <2>3
  <2> HIDE DEF rp, cp
  <2>5. \A a, b \in Nat : a * b \in Nat /\ a + b \in Nat OBVIOUS
  <2>6. mt.memoryMb \div 1000 \in Nat BY <2>1
  <2>7. RamPrice(mt, rp) \in Prices
    <3>1. rp.value * (mt.memoryMb \div 1000) \in Nat BY <2>4, <2>5, <2>6 DEF Prices
    <3> QED BY <2>4, <3>1 DEF RamPrice, Prices
  <2>8. CpuPrice(mt, cp) \in Prices BY <2>1, <2>4, <2>5 DEF CpuPrice, Prices
  <2>9. AddPrice(RamPrice(mt, rp), CpuPrice(mt, cp)) \in Prices
    BY <2>5, <2>7, <2>8 DEF AddPrice, Prices
  <2>10. MachineRow(mt, known) \in Rows /\ MachineRow(mt, known).kind = "machine"
    BY <2>1, <2>9 DEF MachineRow, Rows, rp, cp
  <2>11. MachineRowsOf(mt, known) = <<MachineRow(mt, known)>> BY <1>2 DEF MachineRowsOf
  <2> QED BY <2>10, <2>11
<1> QED BY <1>1, <1>2

(* Flattening the first elements of a sequence, one after the other. *)
UpTo(e, k) == [i \in 1..k |-> e[i]]

LEMMA FlattenUpTo ==
    ASSUME NEW S, NEW n \in Nat, NEW e \in [1..n -> Seq(S)], NEW k \in 0..n
    PROVE  /\ FlattenSeq(UpTo(e, k)) \in Seq(S)
           /\ k = 0 => FlattenSeq(UpTo(e, k)) = <<>>
           /\ k < n => FlattenSeq(UpTo(e, k + 1))
                         = FlattenSeq(UpTo(e, k)) \o e[k + 1]
<1>1. ASSUME NEW m \in 0..n
      PROVE  UpTo(e, m) \in Seq(Seq(S)) /\ Len(UpTo(e, m)) = m /\ \A i \in 1..m : UpTo(e, m)[i] = e[i]
  <2>1. \A i \in 1..m : e[i] \in Seq(S) OBVIOUS
  <2>2. m \in Nat OBVIOUS
  <2> QED BY <2>1, <2>2 DEF UpTo
<1>2. FlattenSeq(UpTo(e, k)) \in Seq(S) BY <1>1, FlattenType
<1>3. ASSUME k = 0 PROVE FlattenSeq(UpTo(e, k)) = <<>>
  <2>1. UpTo(e, k) = <<>> BY <1>3 DEF UpTo
    <2> QED BY <2>1, FlattenEmpty
<1>4. ASSUME k < n PROVE FlattenSeq(UpTo(e, k + 1)) = FlattenSeq(UpTo(e, k)) \o e[k + 1]
  <2>1. k + 1 \in 0..n /\ k + 1 \in 1..(k + 1) /\ \A i \in 1..k : i \in 1..(k + 1) BY <1>4
  <2>2. /\ UpTo(e, k) \in Seq(Seq(S)) /\ UpTo(e, k + 1) \in Seq(Seq(S))
        /\ Len(UpTo(e, k)) = k /\ Len(UpTo(e, k + 1)) = k + 1
        /\ UpTo(e, k + 1)[k + 1] = e[k + 1]
        /\ \A i \in 1..k : UpTo(e, k)[i] = UpTo(e, k + 1)[i]
    BY <1>1, <2>1
  <2>3. /\ Len(UpTo(e, k + 1)) = Len(UpTo(e, k)) + 1
        /\ \A i \in 1..Len(UpTo(e, k)) : UpTo(e, k)[i] = UpTo(e, k + 1)[i]
    BY <2>2
  <2>4. FlattenSeq(UpTo(e, k + 1)) = FlattenSeq(UpTo(e, k)) \o UpTo(e, k + 1)[Len(UpTo(e, k + 1))]
    BY ONLY <2>2, <2>3, FlattenNext
  <2> QED BY <2>2, <2>4
<1> QED BY <1>2, <1>3, <1>4

LEMMA GreatestNumber ==
    ASSUME NEW k \in Nat, NEW T, T \subseteq 1..k, T # {}
    PROVE  \E i \in T : \A j \in T : j <= i
<1> DEFINE D == {d \in 0..k : k - d \in T}
<1>1. D \subseteq Nat OBVIOUS
<1>2. \A i \in T : k - i \in 0..k /\ k - (k - i) = i OBVIOUS
<1>3. \A i \in T : k - i \in D BY <1>2
<1>4. D # {} BY <1>3
<1>5. PICK d \in D : \A x \in D : d <= x BY ONLY <1>1, <1>4, LeastNumber
<1>6. k - d \in T /\ d \in 0..k OBVIOUS
<1>7. \A j \in T : d <= k - j BY <1>3, <1>5
<1>8. \A j \in T : j <= k - d BY <1>6, <1>7
<1> QED BY <1>6, <1>8

(* One SKU more. *)
LEMMA SKURowsNext ==
    ASSUME list \in Lists, NEW k \in 0..Len(list.skus)
    PROVE  /\ SKURows(k) \in Seq(Rows)
           /\ k = 0 => SKURows(k) = <<>>
           /\ k < Len(list.skus) => SKURows(k + 1) = SKURows(k) \o RowsOf(list.skus[k + 1])
<1> DEFINE n == Len(list.skus)
           e == [i \in 1..n |-> RowsOf(list.skus[i])]
<1>1. n \in Nat BY ListType
<1>2. e \in [1..n -> Seq(Rows)] BY ListType, RowsOfType
<1>3. ASSUME NEW m \in 0..n PROVE SKURows(m) = FlattenSeq(UpTo(e, m))
  <2>1. \A i \in 1..m : e[i] = RowsOf(list.skus[i]) BY <1>1
  <2> QED BY <2>1 DEF SKURows, UpTo
<1>4. k < n => k + 1 \in 0..n /\ e[k + 1] = RowsOf(list.skus[k + 1]) BY <1>1
<1> HIDE DEF e
<1>5. SKURows(k) = FlattenSeq(UpTo(e, k)) BY <1>3
<1>6. k < n => SKURows(k + 1) = FlattenSeq(UpTo(e, k + 1)) BY <1>3, <1>4
<1>7. /\ FlattenSeq(UpTo(e, k)) \in Seq(Rows)
      /\ k = 0 => FlattenSeq(UpTo(e, k)) = <<>>
      /\ k < n => FlattenSeq(UpTo(e, k + 1)) = FlattenSeq(UpTo(e, k)) \o e[k + 1]
  <2>1. n \in Nat /\ k \in 0..n /\ e \in [1..n -> Seq(Rows)] BY <1>1, <1>2
  <2> HIDE DEF n
  <2> QED BY ONLY <2>1, FlattenUpTo
<1> QED BY <1>4, <1>5, <1>6, <1>7

(* The prices known after one SKU more, and what they are at the end. *)
LEMMA PricesNext ==
    ASSUME list \in Lists, NEW k \in 0..Len(list.skus)
    PROVE  /\ PricesAfter(k) \in Known
           /\ k = 0 => PricesAfter(k) = [fg \in MachineFamilies \X {"CPU", "RAM"} |-> NoPrice]
           /\ k < Len(list.skus) => PricesAfter(k + 1) = Remember(list.skus[k + 1], PricesAfter(k))
<1> DEFINE n          == Len(list.skus)
           Keys       == MachineFamilies \X {"CPU", "RAM"}
           G(m, fg)   == {i \in 1..m : Gives(list.skus[i], fg[1], fg[2])}
           Newest(P)  == CHOOSE i \in P : \A j \in P : j <= i
           P(m, fg)   == IF G(m, fg) = {} THEN NoPrice ELSE PriceOf(list.skus[Newest(G(m, fg))])
<1>1. n \in Nat /\ \A i \in 1..n : list.skus[i] \in SKUs BY ListType
<1>2. \A m : PricesAfter(m) = [fg \in Keys |-> P(m, fg)] BY DEF PricesAfter
<1>3. ASSUME NEW m \in 0..n, NEW fg \in Keys, G(m, fg) # {}
      PROVE  Newest(G(m, fg)) \in G(m, fg)
  <2>1. \E i \in G(m, fg) : \A j \in G(m, fg) : j <= i
    <3>1. m \in Nat /\ G(m, fg) \subseteq 1..m BY <1>1
    <3> QED BY ONLY <1>3, <3>1, GreatestNumber
  <2> QED BY <2>1
<1>4. ASSUME NEW fg \in Keys PROVE P(k, fg) \in Prices \cup {NoPrice}
  <2>1. CASE G(k, fg) = {} BY <2>1
  <2>2. CASE G(k, fg) # {}
    <3>1. Newest(G(k, fg)) \in 1..n
      <4>1. k \in 0..n /\ \A i \in 1..k : i \in 1..n BY <1>1
      <4>2. Newest(G(k, fg)) \in G(k, fg) BY <1>3, <2>2, <4>1
      <4>3. Newest(G(k, fg)) \in 1..k BY <4>2
      <4> QED BY ONLY <4>1, <4>3
    <3>2. list.skus[Newest(G(k, fg))] \in SKUs BY <1>1, <3>1
    <3> HIDE DEF Newest
    <3> QED BY <2>2, <3>2 DEF SKUs, PriceOf, Prices
  <2> QED BY <2>1, <2>2
<1>5. PricesAfter(k) \in Known
  <2> HIDE DEF P
  <2> QED BY <1>2, <1>4 DEF Known
<1>6. ASSUME k = 0 PROVE PricesAfter(k) = [fg \in Keys |-> NoPrice]
  <2>1. \A fg \in Keys : G(k, fg) = {} BY <1>6
  <2>2. \A fg \in Keys : P(k, fg) = NoPrice BY <2>1
  <2> HIDE DEF P
  <2> QED BY <1>2, <2>2
<1>7. ASSUME k < n PROVE PricesAfter(k + 1) = Remember(list.skus[k + 1], PricesAfter(k))
  <2> DEFINE sku == list.skus[k + 1]
             R   == Remember(sku, PricesAfter(k))
  <2>1. sku \in SKUs /\ k \in Nat /\ k + 1 \in 1..(k + 1) /\ k + 1 \in 0..n BY <1>1, <1>7
  <2>2. R \in Known BY <1>5, <2>1, RememberType
  <2>3. ASSUME NEW fg \in Keys PROVE P(k + 1, fg) = R[fg]
    <3>1. fg = <<fg[1], fg[2]>> /\ fg[1] \in MachineFamilies /\ fg[2] \in {"CPU", "RAM"} OBVIOUS
    <3>2. PricesAfter(k)[fg] = P(k, fg) BY <1>2
    <3>3. CASE Gives(sku, fg[1], fg[2])
      <4>1. k + 1 \in G(k + 1, fg) BY <2>1, <3>3
      <4>2. Newest(G(k + 1, fg)) = k + 1
        <5>1. \A j \in G(k + 1, fg) : j <= k + 1 BY <2>1
        <5>2. \A i \in G(k + 1, fg) : (\A j \in G(k + 1, fg) : j <= i) => i = k + 1
          BY <2>1, <4>1
        <5> HIDE DEF G
        <5> QED BY <4>1, <5>1, <5>2
      <4>3. P(k + 1, fg) = PriceOf(sku) BY <4>1, <4>2
      <4>4. R = [PricesAfter(k) EXCEPT ![fg] = PriceOf(sku)]
        BY <3>1, <3>3, UnknownAssumption DEF Remember, Gives
      <4>5. R[fg] = PriceOf(sku) BY <1>5, <4>4 DEF Known
      <4> QED BY <4>3, <4>5
    <3>4. CASE ~Gives(sku, fg[1], fg[2])
      <4>1. G(k + 1, fg) = G(k, fg)
        <5>1. \A i : i \in 1..(k + 1) <=> i \in 1..k \/ i = k + 1 BY <2>1
        <5> QED BY <3>4, <5>1
      <4>2. P(k + 1, fg) = P(k, fg)
        <5> HIDE DEF G, Newest
        <5> QED BY <4>1
      <4>3. R[fg] = PricesAfter(k)[fg]
        <5>1. ASSUME sku.pricing = "rated", OurRegions(sku) # {}
              PROVE  <<sku.family, sku.group>> # fg
          BY <3>1, <3>4, <5>1 DEF Gives
        <5> HIDE DEF sku
        <5> QED BY <1>5, <5>1 DEF Remember, Known
      <4> QED BY <3>2, <4>2, <4>3
    <3> QED BY <3>3, <3>4
  <2>4. PricesAfter(k + 1) = [fg \in Keys |-> P(k + 1, fg)] BY <1>2
  <2> HIDE DEF P, R
  <2> QED BY <2>2, <2>3, <2>4 DEF Known, R
<1> QED BY <1>5, <1>6, <1>7

(* One machine type more, at the final prices. *)
LEMMA MachineRowsNext ==
    ASSUME list \in Lists, NEW k \in 0..Len(list.machineTypes)
    PROVE  /\ MachineRows(k) \in Seq(Rows)
           /\ k = 0 => MachineRows(k) = <<>>
           /\ k < Len(list.machineTypes) =>
                 MachineRows(k + 1) = MachineRows(k) \o MachineRowsOf(list.machineTypes[k + 1], FinalPrices)
<1> DEFINE n == Len(list.machineTypes)
           e == [i \in 1..n |-> MachineRowsOf(list.machineTypes[i], FinalPrices)]
<1>1. n \in Nat /\ \A i \in 1..n : list.machineTypes[i] \in MachineTypes BY ListType
<1>2. FinalPrices \in Known
  <2>1. Len(list.skus) \in 0..Len(list.skus) BY ListType
  <2> QED BY <2>1, PricesNext DEF FinalPrices
<1>3. e \in [1..n -> Seq(Rows)] BY <1>1, <1>2, MachineRowsType
<1>4. ASSUME NEW m \in 0..n PROVE MachineRows(m) = FlattenSeq(UpTo(e, m))
  <2>1. \A i \in 1..m : e[i] = MachineRowsOf(list.machineTypes[i], FinalPrices) BY <1>1
  <2> QED BY <2>1 DEF MachineRows, UpTo
<1>5. k < n => k + 1 \in 0..n /\ e[k + 1] = MachineRowsOf(list.machineTypes[k + 1], FinalPrices) BY <1>1
<1> HIDE DEF e
<1>6. MachineRows(k) = FlattenSeq(UpTo(e, k)) BY <1>4
<1>7. k < n => MachineRows(k + 1) = FlattenSeq(UpTo(e, k + 1)) BY <1>4, <1>5
<1>8. /\ FlattenSeq(UpTo(e, k)) \in Seq(Rows)
      /\ k = 0 => FlattenSeq(UpTo(e, k)) = <<>>
      /\ k < n => FlattenSeq(UpTo(e, k + 1)) = FlattenSeq(UpTo(e, k)) \o e[k + 1]
  <2>1. n \in Nat /\ k \in 0..n /\ e \in [1..n -> Seq(Rows)] BY <1>1, <1>3
  <2> HIDE DEF n
  <2> QED BY ONLY <2>1, FlattenUpTo
<1> QED BY <1>5, <1>6, <1>7, <1>8

(* The rows of the first SKUs are a prefix of those of all. *)
LEMMA SKURowsPrefix ==
    ASSUME list \in Lists, NEW k \in 0..Len(list.skus)
    PROVE  IsPrefix(SKURows(k), WholeSKUs)
<1> DEFINE n   == Len(list.skus)
           Bad == {m \in k..n : ~IsPrefix(SKURows(k), SKURows(m))}
<1>1. n \in Nat /\ k \in Nat /\ k <= n BY ListType
<1>2. \A m \in 0..n : SKURows(m) \in Seq(Rows) BY SKURowsNext
<1>3. SUFFICES ASSUME Bad # {} PROVE FALSE
  <2>1. n \in k..n BY <1>1
  <2> QED BY <2>1 DEF WholeSKUs
<1>4. PICK m \in Bad : \A x \in Bad : m <= x
  <2>1. Bad \subseteq Nat BY <1>1
  <2> QED BY ONLY <1>3, <2>1, LeastNumber
<1>5. m \in k..n /\ m \in 0..n /\ ~IsPrefix(SKURows(k), SKURows(m)) BY <1>1
<1>6. CASE m = k
  <2>1. IsPrefix(SKURows(k), SKURows(k)) BY <1>1, <1>2, PrefixIs
  <2> QED BY <1>5, <1>6, <2>1
<1>7. CASE m # k
  <2>1. m - 1 \in k..n /\ m - 1 \in 0..n /\ m - 1 < n /\ (m - 1) + 1 = m /\ ~(m <= m - 1) /\ m \in 1..n
    BY <1>1, <1>5, <1>7
  <2>2. IsPrefix(SKURows(k), SKURows(m - 1)) BY <1>4, <2>1
  <2>3. RowsOf(list.skus[m]) \in Seq(Rows) BY <2>1, ListType, RowsOfType
  <2>4. SKURows(m) = SKURows(m - 1) \o RowsOf(list.skus[m])
    <3> DEFINE l == m - 1
    <3>1. l \in 0..n /\ l < n /\ l + 1 = m BY <2>1
    <3> HIDE DEF l
    <3>2. SKURows(l + 1) = SKURows(l) \o RowsOf(list.skus[l + 1]) BY <3>1, SKURowsNext
    <3> QED BY <3>1, <3>2 DEF l
  <2>5. IsPrefix(SKURows(k), SKURows(m)) BY <1>2, <2>1, <2>2, <2>3, <2>4, PrefixConcat
  <2> QED BY <1>5, <2>5
<1> QED BY <1>6, <1>7

-----------------------------------------------------------------------------
(* What depends on the lists alone. *)
LEMMA SameLists ==
    ASSUME list' = list
    PROVE  /\ \A k : /\ SKURows(k)' = SKURows(k)
                      /\ MachineRows(k)' = MachineRows(k)
                      /\ PricesAfter(k)' = PricesAfter(k)
           /\ WholeSKUs' = WholeSKUs /\ FinalPrices' = FinalPrices
  BY DEF SKURows, MachineRows, PricesAfter, WholeSKUs, FinalPrices

LEMMA Numbers ==
    ASSUME TypeOK
    PROVE  /\ list \in Lists
           /\ Len(list.skus) \in Nat /\ Len(list.machineTypes) \in Nat /\ Len(Source) \in Nat
           /\ Len(fetched) \in Nat /\ sent \in Nat
<1>1. list \in Lists BY DEF TypeOK
<1>2. Len(list.skus) \in Nat /\ Len(list.machineTypes) \in Nat BY <1>1, ListType
<1>3. Len(Source) \in Nat BY <1>2 DEF Source
<1> QED BY <1>1, <1>2, <1>3 DEF TypeOK

LEMMA FetchLeaves ==
    ASSUME Fetch
    PROVE  UNCHANGED <<list, ctxDone, fetching, ipc, outbox, familyPrices, results, closed,
                       stored, result, Source, Made>>
<1>1. UNCHANGED <<list, ctxDone, fetching, ingestVars, resultsVars, consumerVars>>
  BY DEF Fetch, FetchNext, FetchEnds, FetchFails, CloseFetched, FetcherFrame
<1> QED BY <1>1 DEF ingestVars, resultsVars, consumerVars, Source, Made

LEMMA TypeFetch == ASSUME TypeOK, Fetch PROVE TypeOK'
<1>1. UNCHANGED <<list, ctxDone, fetching, ipc, outbox, familyPrices, results, closed, stored, result, Source>>
  BY FetchLeaves
<1> USE DEF Fetch, FetchNext, FetchEnds, FetchFails, CloseFetched, fetchedVars
<1>2. /\ sent' \in 0..Len(Source)
      /\ fetched' \in Seq(1..Len(Source)) /\ Len(fetched') <= FetchSize
  <2>1. CASE FetchNext
    <3>1. sent + 1 \in 1..Len(Source) /\ sent + 1 \in 0..Len(Source) BY <2>1, Numbers DEF TypeOK
    <3>2. fetched \in Seq(1..Len(Source)) /\ Len(fetched) < FetchSize BY <2>1 DEF TypeOK
    <3> QED BY <2>1, <3>1, <3>2, SizesAssumption
  <2>2. CASE ~FetchNext BY <2>2 DEF TypeOK
  <2> QED BY <2>1, <2>2
<1>3. fpc' \in {"fetch", "exit", "ended"} /\ ingErr' \in BOOLEAN BY DEF TypeOK
<1>4. fetchedClosed' \in BOOLEAN BY DEF TypeOK
<1>5. fetchedClosed' <=> fpc' = "ended" BY DEF TypeOK
<1> HIDE DEF Fetch, FetchNext, FetchEnds, FetchFails, CloseFetched, fetchedVars
<1> QED BY <1>1, <1>2, <1>3, <1>4, <1>5 DEF TypeOK

(* A step of Ingest leaves the list and the consumer alone. *)
LEMMA IngestLeaves ==
    ASSUME Ingest
    PROVE  UNCHANGED <<list, ctxDone, stored, result>>
  BY DEF Ingest, TakeSKU, NoticeDone, StartMachineTypes, TakeMachineType, Mismatch, MachineTypesEnd,
         SendRow, CloseResults, IngestFrame, consumerVars

(* The entry Ingest receives. *)
LEMMA NextTaken ==
    ASSUME TypeOK, FetchedInOrder, fetched # <<>>
    PROVE  /\ Taken \in Nat /\ Taken < Len(Source)
           /\ Taken + 1 \in 1..Len(Source)
           /\ Head(fetched) = Taken + 1
           /\ Tail(fetched) \in Seq(1..Len(Source)) /\ Len(Tail(fetched)) <= FetchSize
           /\ sent - Len(Tail(fetched)) = Taken + 1
           /\ \A k \in 1..Len(Tail(fetched)) : Tail(fetched)[k] = (Taken + 1) + k
<1>1. /\ fetched \in Seq(1..Len(Source)) /\ Len(fetched) \in Nat /\ Len(fetched) # 0
      /\ Len(fetched) <= FetchSize /\ sent \in Nat /\ sent <= Len(Source) /\ Len(Source) \in Nat
  BY Numbers DEF TypeOK
<1>2. /\ Tail(fetched) \in Seq(1..Len(Source)) /\ Len(Tail(fetched)) = Len(fetched) - 1
      /\ \A k \in 1..Len(Tail(fetched)) : Tail(fetched)[k] = fetched[k + 1]
  BY <1>1, HeadTailProperties
<1>3. Head(fetched) = fetched[1] BY <1>1
<1>4. Taken \in Nat /\ \A k \in 1..Len(fetched) : fetched[k] = Taken + k
  BY <1>1 DEF FetchedInOrder, Taken
<1>5. sent = Taken + Len(fetched) BY <1>1 DEF Taken
<1> HIDE DEF Taken
<1>6. Head(fetched) = Taken + 1 BY <1>1, <1>3, <1>4
<1>7. Taken < Len(Source) /\ Taken + 1 \in 1..Len(Source) BY <1>1, <1>4, <1>5
<1>8. sent - Len(Tail(fetched)) = Taken + 1 BY <1>1, <1>2, <1>4, <1>5
<1>9. \A k \in 1..Len(Tail(fetched)) : k + 1 \in 1..Len(fetched) BY <1>1, <1>2
<1>10. \A k \in 1..Len(Tail(fetched)) : Tail(fetched)[k] = (Taken + 1) + k
  BY <1>2, <1>4, <1>9
<1>11. Len(Tail(fetched)) <= FetchSize BY <1>1, <1>2, SizesAssumption
<1> QED BY <1>2, <1>4, <1>6, <1>7, <1>8, <1>10, <1>11

(* What it makes of that entry. *)
LEMMA NextSKU ==
    ASSUME TypeOK, FetchedInOrder, TakeSKU
    PROVE  /\ Taken \in 0..Len(list.skus) /\ Taken < Len(list.skus)
           /\ list.skus[Taken + 1] \in SKUs
           /\ outbox' = RowsOf(list.skus[Taken + 1]) /\ outbox' \in Seq(Rows)
           /\ familyPrices' = Remember(list.skus[Taken + 1], familyPrices)
<1>1. Source = list.skus /\ fetched # <<>> BY DEF TakeSKU, Source
<1>2. Head(fetched) = Taken + 1 /\ Taken + 1 \in 1..Len(list.skus) /\ Taken \in Nat /\ Taken < Len(list.skus)
  BY <1>1, NextTaken
<1>3. list.skus[Taken + 1] \in SKUs BY <1>2, Numbers, ListType
<1> HIDE DEF Taken
<1>4. outbox' = RowsOf(list.skus[Taken + 1]) /\ familyPrices' = Remember(list.skus[Taken + 1], familyPrices)
  BY <1>2 DEF TakeSKU, Deliver
<1>5. outbox' \in Seq(Rows) BY <1>3, <1>4, RowsOfType
<1>6. Taken \in 0..Len(list.skus) BY <1>2, Numbers
<1> QED BY <1>2, <1>3, <1>4, <1>5, <1>6

LEMMA NextMachineType ==
    ASSUME TypeOK, FetchedInOrder, TakeMachineType
    PROVE  /\ Taken \in 0..Len(list.machineTypes) /\ Taken < Len(list.machineTypes)
           /\ outbox' = MachineRowsOf(list.machineTypes[Taken + 1], familyPrices) /\ outbox' \in Seq(Rows)
           /\ \A j \in 1..Len(outbox') : outbox'[j].kind = "machine"
<1>1. Source = list.machineTypes /\ fetched # <<>> BY DEF TakeMachineType, Source
<1>2. Head(fetched) = Taken + 1 /\ Taken + 1 \in 1..Len(list.machineTypes) /\ Taken \in Nat
      /\ Taken < Len(list.machineTypes)
  BY <1>1, NextTaken
<1>3. list.machineTypes[Taken + 1] \in MachineTypes BY <1>2, Numbers, ListType
<1> HIDE DEF Taken
<1>4. outbox' = MachineRowsOf(list.machineTypes[Taken + 1], familyPrices)
  BY <1>2 DEF TakeMachineType, Deliver
<1>5. familyPrices \in Known BY DEF TypeOK, Known
<1>6. outbox' \in Seq(Rows) /\ \A j \in 1..Len(outbox') : outbox'[j].kind = "machine"
  BY <1>3, <1>4, <1>5, MachineRowsType
<1>7. Taken \in 0..Len(list.machineTypes) BY <1>2, Numbers
<1> QED BY <1>2, <1>4, <1>6, <1>7

LEMMA DeliverType ==
    ASSUME NEW rows \in Seq(Rows), Deliver(rows)
    PROVE  /\ outbox' \in Seq(Rows) /\ ipc' \in {"receive", "send"}
           /\ ipc' = "send" <=> outbox' # <<>>
  BY DEF Deliver

LEMMA TypeIngest == ASSUME TypeOK, FetchedInOrder, Ingest PROVE TypeOK'
<1>1. UNCHANGED <<list, ctxDone, stored, result>> BY IngestLeaves
<1>2. CASE TakeSKU
  <2>1. UNCHANGED <<ingErr, fetching, fpc, sent, fetchedClosed, results, closed, Source>>
    BY <1>1, <1>2 DEF TakeSKU, fetcherVars, resultsVars, Source
  <2>2. fetched # <<>> /\ fetched' = Tail(fetched) /\ ipc = "receive" BY <1>2 DEF TakeSKU
  <2>3. familyPrices' \in Known
    <3>1. familyPrices \in Known BY DEF TypeOK, Known
    <3> QED BY <1>2, <3>1, NextSKU, RememberType
  <2>4. Deliver(outbox') /\ outbox' \in Seq(Rows)
    <3>1. Deliver(outbox') BY <1>2 DEF TakeSKU, Deliver
    <3> QED BY <1>2, <3>1, NextSKU
  <2>5. /\ ipc' \in {"receive", "send"}
        /\ ipc' = "send" <=> outbox' # <<>>
    BY <2>4, DeliverType
  <2>6. fetched' \in Seq(1..Len(Source)) /\ Len(fetched') <= FetchSize BY <2>2, NextTaken
  <2> QED BY <1>1, <2>1, <2>2, <2>3, <2>4, <2>5, <2>6 DEF TypeOK, Known
<1>3. CASE TakeMachineType
  <2>1. UNCHANGED <<ingErr, fetching, fpc, sent, fetchedClosed, familyPrices, results, closed, Source>>
    BY <1>1, <1>3 DEF TakeMachineType, fetcherVars, resultsVars, Source
  <2>2. fetched # <<>> /\ fetched' = Tail(fetched) /\ ipc = "receive" BY <1>3 DEF TakeMachineType
  <2>3. Deliver(outbox') /\ outbox' \in Seq(Rows)
    <3>1. Deliver(outbox') BY <1>3 DEF TakeMachineType, Deliver
    <3> QED BY <1>3, <3>1, NextMachineType
  <2>4. /\ ipc' \in {"receive", "send"}
        /\ ipc' = "send" <=> outbox' # <<>>
    BY <2>3, DeliverType
  <2>5. fetched' \in Seq(1..Len(Source)) /\ Len(fetched') <= FetchSize BY <2>2, NextTaken
  <2> QED BY <1>1, <2>1, <2>2, <2>3, <2>4, <2>5 DEF TypeOK
<1>4. CASE NoticeDone \/ Mismatch
  <2>1. UNCHANGED <<fetching, fpc, sent, fetchedClosed, outbox, familyPrices, results, closed, Source>>
    BY <1>1, <1>4 DEF NoticeDone, Mismatch, fetcherVars, resultsVars, Source
  <2>2. /\ fetched # <<>> /\ fetched' = Tail(fetched)
        /\ ipc = "receive" /\ ipc' = "exit" /\ ingErr' = TRUE
    BY <1>4 DEF NoticeDone, Mismatch
  <2>3. fetched' \in Seq(1..Len(Source)) /\ Len(fetched') <= FetchSize BY <2>2, NextTaken
  <2> QED BY <1>1, <2>1, <2>2, <2>3 DEF TypeOK
<1>5. CASE StartMachineTypes
  <2>1. UNCHANGED <<ingErr, ipc, outbox, familyPrices, results, closed, fetched>>
    BY <1>5 DEF StartMachineTypes, ingestVars, resultsVars
  <2>2. /\ fetching' = "machines" /\ fpc' = "fetch" /\ sent' = 0 /\ fetchedClosed' = FALSE
        /\ fetched = <<>>
    BY <1>5 DEF StartMachineTypes
  <2>3. fetched' \in Seq(1..Len(Source')) /\ Len(fetched') <= FetchSize
    BY <2>1, <2>2, SizesAssumption
  <2>4. sent' \in 0..Len(Source')
    <3>1. Source' = list.machineTypes BY <1>1, <2>2 DEF Source
    <3> QED BY <2>2, <3>1, Numbers
  <2> QED BY <1>1, <2>1, <2>2, <2>3, <2>4 DEF TypeOK
<1>6. CASE MachineTypesEnd
  <2>1. /\ UNCHANGED <<ingErr, fetching, fpc, sent, fetched, fetchedClosed, outbox, familyPrices,
                       results, closed, Source>>
        /\ ipc = "receive" /\ ipc' = "exit"
    BY <1>1, <1>6 DEF MachineTypesEnd, fetcherVars, fetchedVars, resultsVars, Source
  <2> QED BY <1>1, <2>1 DEF TypeOK
<1>7. CASE SendRow
  <2>1. UNCHANGED <<ingErr, fetching, fpc, sent, fetched, fetchedClosed, familyPrices, closed, Source>>
    BY <1>1, <1>7 DEF SendRow, fetcherVars, fetchedVars, Source
  <2>2. /\ ipc = "send" /\ Len(results) < ChSize
        /\ results' = Append(results, Head(outbox)) /\ Deliver(Tail(outbox))
    BY <1>7 DEF SendRow
  <2>3. outbox \in Seq(Rows) /\ outbox # <<>> /\ results \in Seq(Rows) BY <2>2 DEF TypeOK
  <2>4. Head(outbox) \in Rows /\ Tail(outbox) \in Seq(Rows) BY <2>3, HeadTailProperties
  <2>5. results' \in Seq(Rows) /\ Len(results') <= ChSize BY <2>2, <2>3, <2>4, SizesAssumption
  <2>6. /\ outbox' \in Seq(Rows) /\ ipc' \in {"receive", "send"}
        /\ ipc' = "send" <=> outbox' # <<>>
    BY <2>2, <2>4, DeliverType
  <2> QED BY <1>1, <2>1, <2>2, <2>5, <2>6 DEF TypeOK
<1>8. CASE CloseResults
  <2>1. /\ UNCHANGED <<ingErr, fetching, fpc, sent, fetched, fetchedClosed, outbox, familyPrices,
                       results, Source>>
        /\ ipc = "exit" /\ ipc' = "ended" /\ closed' = TRUE
    BY <1>1, <1>8 DEF CloseResults, fetcherVars, fetchedVars, Source
  <2> QED BY <1>1, <2>1 DEF TypeOK
<1> QED BY <1>2, <1>3, <1>4, <1>5, <1>6, <1>7, <1>8 DEF Ingest

(* The steps of IngestPricing, and a cancelled context. *)
LEMMA ConsumeLeaves ==
    ASSUME Consume \/ Cancel \/ UNCHANGED vars
    PROVE  UNCHANGED <<list, ingErr, fetching, fpc, sent, fetched, fetchedClosed, ipc, outbox,
                       familyPrices, closed, Source>>
<1>1. UNCHANGED <<list, ingErr, fetcherVars, fetchedVars, ingestVars, closed>>
  BY DEF Consume, Store, RangeEnds, Cancel, ConsumerFrame, vars, resultsVars
<1> QED BY <1>1 DEF fetcherVars, fetchedVars, ingestVars, Source

LEMMA TypeConsume == ASSUME TypeOK, Consume \/ Cancel \/ UNCHANGED vars PROVE TypeOK'
<1>1. UNCHANGED <<list, ingErr, fetching, fpc, sent, fetched, fetchedClosed, ipc, outbox,
                  familyPrices, closed, Source>>
  BY ConsumeLeaves
<1>2. results \in Seq(Rows) /\ Len(results) <= ChSize /\ stored \in Seq(Rows) BY DEF TypeOK
<1>3. /\ results' \in Seq(Rows) /\ Len(results') <= ChSize
      /\ stored' \in Seq(Rows)
  <2>1. CASE Store
    <3>1. results # <<>> /\ results' = Tail(results) BY <2>1 DEF Store
    <3>2. /\ Head(results) \in Rows /\ Tail(results) \in Seq(Rows)
          /\ Len(Tail(results)) = Len(results) - 1 /\ Len(results) \in Nat
      BY <1>2, <3>1, HeadTailProperties, LenProperties
    <3>3. stored' \in {stored, Append(stored, Head(results))} BY <2>1 DEF Store
    <3>4. stored' \in Seq(Rows) BY <1>2, <3>2, <3>3
    <3>5. Len(results') <= ChSize BY <1>2, <3>1, <3>2, SizesAssumption
    <3> QED BY <3>1, <3>2, <3>4, <3>5
  <2>2. CASE ~Store
    <3>1. UNCHANGED <<results, stored>> BY <2>2 DEF Consume, RangeEnds, Cancel, vars, resultsVars, consumerVars
    <3> QED BY <1>2, <3>1
  <2> QED BY <2>1, <2>2
<1>4. result' \in {"none", "ok", "failed"} /\ ctxDone' \in BOOLEAN
  BY DEF Consume, Store, RangeEnds, Cancel, vars, consumerVars, TypeOK
<1> QED BY <1>1, <1>3, <1>4 DEF TypeOK

LEMMA TypeInit == Init => TypeOK
<1> SUFFICES ASSUME Init PROVE TypeOK OBVIOUS
<1>1. list \in Lists /\ Source = list.skus /\ Len(list.skus) \in Nat BY ListType DEF Init, Source
<1>2. /\ fetched = <<>> /\ results = <<>> /\ stored = <<>> /\ outbox = <<>> /\ sent = 0
  BY DEF Init
<1>3. /\ fetched \in Seq(1..Len(Source)) /\ Len(fetched) <= FetchSize
      /\ results \in Seq(Rows) /\ Len(results) <= ChSize
      /\ stored \in Seq(Rows) /\ outbox \in Seq(Rows)
  BY <1>2, SizesAssumption
<1>4. sent \in 0..Len(Source) BY <1>1, <1>2
<1> QED BY <1>1, <1>2, <1>3, <1>4 DEF Init, TypeOK

-----------------------------------------------------------------------------
(* The channel of the fetchers. *)
LEMMA FetchedAfterFetch == ASSUME TypeOK, FetchedInOrder, Fetch PROVE FetchedInOrder' /\ Taken' = Taken
<1>1. CASE FetchNext
  <2>1. fetched' = Append(fetched, sent + 1) /\ sent' = sent + 1 BY <1>1 DEF FetchNext
  <2>2. fetched \in Seq(1..Len(Source)) /\ Len(fetched) \in Nat /\ sent \in Nat BY Numbers DEF TypeOK
  <2>3. /\ Len(fetched') = Len(fetched) + 1
        /\ fetched'[Len(fetched) + 1] = sent + 1
        /\ \A k \in 1..Len(fetched) : fetched'[k] = fetched[k]
    BY <2>1, <2>2
  <2>4. Taken' = Taken BY <2>1, <2>2, <2>3 DEF Taken
  <2>5. \A k \in 1..Len(fetched') : fetched'[k] = Taken + k
    BY <2>1, <2>2, <2>3 DEF FetchedInOrder, Taken
  <2> QED BY <2>4, <2>5 DEF FetchedInOrder
<1>2. CASE ~FetchNext
  <2>1. UNCHANGED <<fetched, sent>> BY <1>2 DEF Fetch, FetchEnds, FetchFails, CloseFetched, fetchedVars
  <2>2. Taken' = Taken BY <2>1 DEF Taken
  <2> QED BY <2>1, <2>2 DEF FetchedInOrder
<1> QED BY <1>1, <1>2

LEMMA FetchedAfterTake ==
    ASSUME TypeOK, FetchedInOrder, fetched # <<>>, fetched' = Tail(fetched), sent' = sent
    PROVE  FetchedInOrder' /\ Taken' = Taken + 1
<1>1. Taken' = Taken + 1 BY NextTaken DEF Taken
<1>2. Taken \in Nat /\ \A k \in 1..Len(fetched') : fetched'[k] = (Taken + 1) + k BY NextTaken
<1> HIDE DEF Taken
<1>3. 0 <= Taken' BY <1>1, <1>2
<1> QED BY <1>1, <1>2, <1>3 DEF FetchedInOrder

LEMMA FetchedAfterIngest == ASSUME TypeOK, FetchedInOrder, Ingest PROVE FetchedInOrder'
<1>1. CASE TakeSKU \/ TakeMachineType \/ NoticeDone \/ Mismatch
  <2>1. fetched # <<>> /\ fetched' = Tail(fetched) /\ sent' = sent
    BY <1>1 DEF TakeSKU, TakeMachineType, NoticeDone, Mismatch, fetcherVars
  <2> QED BY <2>1, FetchedAfterTake
<1>2. CASE StartMachineTypes
  <2>1. fetched' = <<>> /\ sent' = 0 BY <1>2 DEF StartMachineTypes
  <2>2. Len(fetched') = 0 BY <2>1
  <2>3. Taken' = 0 - 0 BY <2>1, <2>2 DEF Taken
  <2>4. 0 <= 0 - 0 OBVIOUS
  <2> QED BY <2>2, <2>3, <2>4 DEF FetchedInOrder
<1>3. CASE MachineTypesEnd \/ SendRow \/ CloseResults
  <2>1. UNCHANGED <<fetched, sent>>
    BY <1>3 DEF MachineTypesEnd, SendRow, CloseResults, fetcherVars, fetchedVars
  <2> QED BY <2>1 DEF FetchedInOrder, Taken
<1> QED BY <1>1, <1>2, <1>3 DEF Ingest

-----------------------------------------------------------------------------
(* The rows made.  Moving the first of a queue to the end of the one before *)
(* changes nothing.                                                         *)
LEMMA MoveRow ==
    ASSUME NEW S, NEW s \in Seq(S), NEW t \in Seq(S), t # <<>>
    PROVE  Append(s, Head(t)) \o Tail(t) = s \o t
<1> DEFINE l == Append(s, Head(t)) \o Tail(t)
           r == s \o t
<1>1. /\ Head(t) \in S /\ Head(t) = t[1] /\ Tail(t) \in Seq(S) /\ Len(Tail(t)) = Len(t) - 1
      /\ \A i \in 1..Len(Tail(t)) : Tail(t)[i] = t[i + 1]
  BY HeadTailProperties
<1>2. Len(s) \in Nat /\ Len(t) \in Nat \ {0} OBVIOUS
<1>3. /\ Append(s, Head(t)) \in Seq(S) /\ Len(Append(s, Head(t))) = Len(s) + 1
      /\ \A i \in 1..Len(s) : Append(s, Head(t))[i] = s[i]
      /\ Append(s, Head(t))[Len(s) + 1] = t[1]
  BY <1>1, <1>2
<1>4. /\ l \in Seq(S) /\ Len(l) = Len(s) + Len(t)
      /\ \A i \in 1..Len(l) : l[i] = IF i <= Len(s) + 1 THEN Append(s, Head(t))[i]
                                      ELSE Tail(t)[i - (Len(s) + 1)]
  BY <1>1, <1>2, <1>3, ConcatProperties
<1>5. /\ r \in Seq(S) /\ Len(r) = Len(s) + Len(t)
      /\ \A i \in 1..Len(r) : r[i] = IF i <= Len(s) THEN s[i] ELSE t[i - Len(s)]
  BY <1>2, ConcatProperties
<1> HIDE DEF l, r
<1>6. ASSUME NEW i \in 1..Len(l) PROVE l[i] = r[i]
  <2>1. i \in Nat /\ 1 <= i /\ i <= Len(s) + Len(t) /\ i \in 1..Len(r) BY <1>2, <1>4, <1>5
  <2>2. CASE i <= Len(s) BY <1>2, <1>3, <1>4, <1>5, <2>1, <2>2
  <2>3. CASE i = Len(s) + 1
    <3>1. r[i] = t[1] BY <1>2, <1>5, <2>1, <2>3
    <3>2. l[i] = t[1] BY <1>2, <1>3, <1>4, <2>1, <2>3
    <3> QED BY <3>1, <3>2
  <2>4. CASE i > Len(s) + 1
    <3>1. i - (Len(s) + 1) \in 1..Len(Tail(t)) /\ (i - (Len(s) + 1)) + 1 = i - Len(s)
      BY <1>1, <1>2, <2>1, <2>4
    <3>2. l[i] = Tail(t)[i - (Len(s) + 1)] BY <1>2, <1>4, <2>1, <2>4
    <3>3. r[i] = t[i - Len(s)] BY <1>2, <1>5, <2>1, <2>4
    <3>4. Tail(t)[i - (Len(s) + 1)] = t[(i - (Len(s) + 1)) + 1] BY <1>1, <3>1
    <3> QED BY <3>1, <3>2, <3>3, <3>4
  <2> QED BY <1>2, <2>1, <2>2, <2>3, <2>4
<1> QED BY <1>4, <1>5, <1>6, SeqEqual DEF l, r

LEMMA MadeType ==
    ASSUME TypeOK
    PROVE  /\ stored \in Seq(Rows) /\ results \in Seq(Rows) /\ outbox \in Seq(Rows)
           /\ Made \in Seq(Rows) /\ Len(Made) \in Nat
           /\ Made = stored \o (results \o outbox)
<1>1. stored \in Seq(Rows) /\ results \in Seq(Rows) /\ outbox \in Seq(Rows) BY DEF TypeOK
<1>2. stored \o results \in Seq(Rows) BY <1>1, ConcatProperties
<1>3. Made \in Seq(Rows) BY <1>1, <1>2, ConcatProperties DEF Made
<1>4. Made = stored \o (results \o outbox) BY <1>1, ConcatAssociative DEF Made
<1> QED BY <1>1, <1>3, <1>4, LenProperties

LEMMA MadeAfterSend == ASSUME TypeOK, SendRow PROVE Made' = Made
<1>1. /\ results' = Append(results, Head(outbox)) /\ outbox' = Tail(outbox) /\ stored' = stored
      /\ outbox # <<>>
  BY IngestLeaves DEF SendRow, Deliver, TypeOK, Ingest
<1>2. stored \in Seq(Rows) /\ results \in Seq(Rows) /\ outbox \in Seq(Rows) BY MadeType
<1>3. Head(outbox) \in Rows /\ Tail(outbox) \in Seq(Rows) BY <1>1, <1>2, HeadTailProperties
<1>4. results' \in Seq(Rows) /\ outbox' \in Seq(Rows) BY <1>1, <1>2, <1>3
<1>5. Made' = stored \o (results' \o outbox')
  <2>1. Made' = (stored \o results') \o outbox' BY <1>1 DEF Made
  <2>2. (stored \o results') \o outbox' = stored \o (results' \o outbox')
    BY ONLY <1>2, <1>4, SMTT(30)
  <2> QED BY <2>1, <2>2
<1>6. results' \o outbox' = results \o outbox BY <1>1, <1>2, MoveRow
<1> QED BY <1>5, <1>6, MadeType

LEMMA MadeAfterStore == ASSUME TypeOK, Store, result' # "failed" PROVE Made' = Made
<1>1. /\ results # <<>> /\ results' = Tail(results) /\ outbox' = outbox
      /\ stored' = Append(stored, Head(results))
  BY ConsumeLeaves DEF Store, Consume
<1>2. stored \in Seq(Rows) /\ results \in Seq(Rows) BY MadeType
<1>3. stored' \o results' = stored \o results BY <1>1, <1>2, MoveRow
<1> QED BY <1>1, <1>3 DEF Made

(* Rows are made when nothing is left to be sent. *)
LEMMA MadeAfterTake ==
    ASSUME TypeOK, outbox = <<>>, outbox' \in Seq(Rows), UNCHANGED <<stored, results>>
    PROVE  Made' = Made \o outbox'
<1>1. stored \o results \in Seq(Rows) BY MadeType, ConcatProperties
<1>2. Made = stored \o results BY <1>1, ConcatEmptySeq DEF Made
<1> QED BY <1>2 DEF Made

(* The step that turns an entry into rows appends them; no other one makes *)
(* or loses a row.                                                         *)
LEMMA MadeAfterIngest ==
    ASSUME TypeOK, FetchedInOrder, Ingest
    PROVE  IF TakeSKU \/ TakeMachineType THEN Made' = Made \o outbox' ELSE Made' = Made
<1>1. CASE TakeSKU \/ TakeMachineType
  <2>1. outbox' \in Seq(Rows) BY <1>1, NextSKU, NextMachineType
  <2>2. outbox = <<>> /\ UNCHANGED <<stored, results>>
    BY <1>1, IngestLeaves DEF TakeSKU, TakeMachineType, resultsVars, TypeOK
  <2> QED BY <1>1, <2>1, <2>2, MadeAfterTake
<1>2. CASE ~(TakeSKU \/ TakeMachineType) /\ SendRow BY <1>2, MadeAfterSend
<1>3. CASE ~(TakeSKU \/ TakeMachineType) /\ ~SendRow
  <2>1. UNCHANGED <<stored, results, outbox>>
    BY <1>3, IngestLeaves DEF Ingest, NoticeDone, StartMachineTypes, Mismatch, MachineTypesEnd, CloseResults,
       resultsVars, ingestVars
  <2> QED BY <1>3, <2>1 DEF Made
<1> QED BY <1>1, <1>2, <1>3

LEMMA OrderIngest ==
    ASSUME TypeOK, FetchedInOrder, MadeInOrder, Ingest
    PROVE  MadeInOrder'
<1>1. SUFFICES ASSUME result' # "failed"
               PROVE  \E k \in 0..Len(list'.skus) :
                         /\ IsPrefix(SKURows(k)', Made')
                         /\ \A j \in (Len(SKURows(k)') + 1)..Len(Made') : Made'[j].kind = "machine"
                         /\ fetching' = "skus" =>
                               Made' = SKURows(k)' /\ (ipc' \in {"receive", "send"} => k = Taken')
  BY DEF MadeInOrder
<1>2. list' = list /\ result # "failed" /\ list \in Lists BY <1>1, IngestLeaves, Numbers
<1>3. PICK k \in 0..Len(list.skus) :
         /\ IsPrefix(SKURows(k), Made)
         /\ \A j \in (Len(SKURows(k)) + 1)..Len(Made) : Made[j].kind = "machine"
         /\ fetching = "skus" => Made = SKURows(k) /\ (ipc \in {"receive", "send"} => k = Taken)
  BY <1>2 DEF MadeInOrder
<1>4. \A x : SKURows(x)' = SKURows(x) BY <1>2, SameLists
<1>5. CASE TakeSKU
  <2>1. fetching = "skus" /\ ipc = "receive" BY <1>5 DEF TakeSKU
  <2>2. k = Taken /\ k < Len(list.skus) /\ Made = SKURows(k) BY <1>3, <1>5, <2>1, NextSKU
  <2>3. k + 1 \in 0..Len(list.skus) BY <2>2, Numbers
  <2>4. Taken' = k + 1
    <3>1. fetched # <<>> /\ fetched' = Tail(fetched) /\ sent' = sent BY <1>5 DEF TakeSKU, fetcherVars
    <3> QED BY <2>2, <3>1, FetchedAfterTake
  <2>5. Made' = SKURows(k + 1)
    <3>1. Made' = Made \o outbox' BY <1>5, MadeAfterIngest
    <3>2. outbox' = RowsOf(list.skus[k + 1]) BY <1>5, <2>2, NextSKU
    <3> QED BY <1>2, <2>2, <3>1, <3>2, SKURowsNext
  <2>6. SKURows(k + 1) \in Seq(Rows) /\ Len(SKURows(k + 1)) \in Nat
    BY <1>2, <2>3, SKURowsNext, LenProperties
  <2>7. IsPrefix(SKURows(k + 1), Made') BY <2>5, <2>6, PrefixIs
  <2>8. \A j \in (Len(SKURows(k + 1)) + 1)..Len(Made') : Made'[j].kind = "machine" BY <2>5, <2>6
  <2> QED BY <1>2, <1>4, <2>3, <2>4, <2>5, <2>7, <2>8
<1>6. CASE TakeMachineType
  <2>1. fetching' = "machines" BY <1>6 DEF TakeMachineType, fetcherVars
  <2>2. Made' = Made \o outbox' BY <1>6, MadeAfterIngest
  <2>3. outbox' \in Seq(Rows) /\ \A j \in 1..Len(outbox') : outbox'[j].kind = "machine"
    BY <1>6, NextMachineType
  <2>4. Made \in Seq(Rows) /\ SKURows(k) \in Seq(Rows) BY <1>2, MadeType, SKURowsNext
  <2>5. IsPrefix(SKURows(k), Made') BY <1>3, <2>2, <2>3, <2>4, PrefixConcat
  <2>6. ASSUME NEW j \in (Len(SKURows(k)) + 1)..Len(Made') PROVE Made'[j].kind = "machine"
    <3>1. /\ Len(Made') = Len(Made) + Len(outbox')
          /\ \A i \in 1..Len(Made) + Len(outbox') :
                Made'[i] = IF i <= Len(Made) THEN Made[i] ELSE outbox'[i - Len(Made)]
      BY <2>2, <2>3, <2>4, ConcatProperties
    <3>2. Len(Made) \in Nat /\ Len(outbox') \in Nat /\ Len(SKURows(k)) \in Nat BY <2>3, <2>4, LenProperties
    <3>3. j \in Nat /\ j \in 1..Len(Made) + Len(outbox') BY <3>1, <3>2
    <3>4. CASE j <= Len(Made)
      <4>1. j \in (Len(SKURows(k)) + 1)..Len(Made) BY <3>2, <3>4
      <4> QED BY <1>3, <3>1, <3>3, <3>4, <4>1
    <3>5. CASE ~(j <= Len(Made))
      <4>1. j - Len(Made) \in 1..Len(outbox') BY <3>2, <3>3, <3>5
      <4> QED BY <2>3, <3>1, <3>3, <3>5, <4>1
    <3> QED BY <3>4, <3>5
  <2> QED BY <1>2, <1>4, <2>1, <2>5, <2>6
<1>7. CASE ~TakeSKU /\ ~TakeMachineType
  <2>1. Made' = Made BY <1>7, MadeAfterIngest
  <2>2. fetching' = "skus" => fetching = "skus"
    BY <1>7 DEF Ingest, NoticeDone, StartMachineTypes, Mismatch, MachineTypesEnd, SendRow, CloseResults, fetcherVars
  <2>3. ASSUME fetching' = "skus", ipc' \in {"receive", "send"}
        PROVE  ipc \in {"receive", "send"} /\ Taken' = Taken
    <3>1. SendRow \/ StartMachineTypes
      BY <1>7, <2>3 DEF Ingest, NoticeDone, Mismatch, MachineTypesEnd, CloseResults
    <3>2. SendRow BY <2>3, <3>1 DEF StartMachineTypes
    <3>3. ipc = "send" /\ UNCHANGED <<sent, fetched>> BY <3>2 DEF SendRow, fetcherVars, fetchedVars
    <3> QED BY <3>3 DEF Taken
  <2>4. fetching' = "skus" => Made' = SKURows(k) /\ (ipc' \in {"receive", "send"} => k = Taken')
    BY <1>3, <2>1, <2>2, <2>3
  <2> QED BY <1>2, <1>3, <1>4, <2>1, <2>4
<1> QED BY <1>5, <1>6, <1>7

LEMMA ToDate ==
    ASSUME list' = list, NEW t, Taken' = t
    PROVE  /\ PricesToDate' = IF fetching' = "skus" THEN PricesAfter(t) ELSE FinalPrices
           /\ RowsToDate'   = IF fetching' = "skus" THEN SKURows(t) ELSE WholeSKUs \o MachineRows(t)
<1>1. PricesToDate' = IF fetching' = "skus" THEN PricesAfter(t) ELSE FinalPrices
  BY DEF PricesToDate, PricesAfter, FinalPrices
<1>2. RowsToDate' = IF fetching' = "skus" THEN SKURows(t) ELSE WholeSKUs \o MachineRows(t)
  BY DEF RowsToDate, SKURows, MachineRows, WholeSKUs, FinalPrices, PricesAfter
<1> QED BY <1>1, <1>2

LEMMA WholeIngest ==
    ASSUME TypeOK, FetchedInOrder, MadeIsWhole, EndsAreKnown, Ingest
    PROVE  MadeIsWhole'
<1> DEFINE n == Len(list.skus)
<1>1. list' = list /\ result' = result /\ list \in Lists /\ n \in 0..n BY IngestLeaves, Numbers
<1>2. SUFFICES ASSUME ~ingErr'
               PROVE  familyPrices' = PricesToDate' /\ (result # "failed" => Made' = RowsToDate')
  BY <1>1 DEF MadeIsWhole
<1>3. WholeSKUs \in Seq(Rows) /\ WholeSKUs = SKURows(n) /\ FinalPrices = PricesAfter(n)
  BY <1>1, SKURowsNext DEF WholeSKUs, FinalPrices
<1>5. ~ingErr /\ ~NoticeDone /\ ~Mismatch
  BY <1>2 DEF Ingest, TakeSKU, NoticeDone, StartMachineTypes, TakeMachineType, Mismatch, MachineTypesEnd,
              SendRow, CloseResults
<1>6. /\ familyPrices = IF fetching = "skus" THEN PricesAfter(Taken) ELSE FinalPrices
      /\ result # "failed" => Made = IF fetching = "skus" THEN SKURows(Taken)
                                     ELSE WholeSKUs \o MachineRows(Taken)
  BY <1>5 DEF MadeIsWhole, PricesToDate, RowsToDate, FinalPrices
<1>7. CASE TakeSKU
  <2>1. fetching = "skus" /\ fetching' = "skus" BY <1>7 DEF TakeSKU, fetcherVars
  <2>2. /\ Taken \in 0..n /\ Taken < n
        /\ outbox' = RowsOf(list.skus[Taken + 1])
        /\ familyPrices' = Remember(list.skus[Taken + 1], familyPrices)
    BY <1>7, NextSKU
  <2>3. Taken' = Taken + 1
    <3>1. fetched # <<>> /\ fetched' = Tail(fetched) /\ sent' = sent BY <1>7 DEF TakeSKU, fetcherVars
    <3> QED BY <3>1, FetchedAfterTake
  <2>4. Made' = Made \o outbox' BY <1>7, MadeAfterIngest
  <2> HIDE DEF Taken
  <2>5. familyPrices' = PricesAfter(Taken + 1) BY <1>1, <1>6, <2>1, <2>2, PricesNext
  <2>6. result # "failed" => Made' = SKURows(Taken + 1) BY <1>1, <1>6, <2>1, <2>2, <2>4, SKURowsNext
  <2>7. familyPrices' = PricesToDate' BY <1>1, <2>1, <2>3, <2>5, ToDate
  <2>8. result # "failed" => Made' = RowsToDate' BY <1>1, <2>1, <2>3, <2>6, ToDate
  <2> QED BY <2>7, <2>8
<1>8. CASE TakeMachineType
  <2>1. fetching = "machines" /\ fetching' = "machines" /\ familyPrices' = familyPrices
    BY <1>8 DEF TakeMachineType, fetcherVars
  <2>2. /\ Taken \in 0..Len(list.machineTypes) /\ Taken < Len(list.machineTypes)
        /\ outbox' = MachineRowsOf(list.machineTypes[Taken + 1], familyPrices) /\ outbox' \in Seq(Rows)
    BY <1>8, NextMachineType
  <2>3. Taken' = Taken + 1
    <3>1. fetched # <<>> /\ fetched' = Tail(fetched) /\ sent' = sent BY <1>8 DEF TakeMachineType, fetcherVars
    <3> QED BY <3>1, FetchedAfterTake
  <2>4. Made' = Made \o outbox' BY <1>8, MadeAfterIngest
  <2> HIDE DEF Taken
  <2>5. familyPrices = FinalPrices BY <1>6, <2>1
  <2>6. MachineRows(Taken) \in Seq(Rows) /\ MachineRows(Taken + 1) = MachineRows(Taken) \o outbox'
    BY <1>1, <2>2, <2>5, MachineRowsNext
  <2>7. ASSUME result # "failed" PROVE Made' = WholeSKUs \o MachineRows(Taken + 1)
    <3>1. Made' = (WholeSKUs \o MachineRows(Taken)) \o outbox' BY <1>6, <2>1, <2>4, <2>7
    <3>2. (WholeSKUs \o MachineRows(Taken)) \o outbox' = WholeSKUs \o (MachineRows(Taken) \o outbox')
      <4>1. WholeSKUs \in Seq(Rows) /\ MachineRows(Taken) \in Seq(Rows) /\ outbox' \in Seq(Rows)
        BY <1>3, <2>2, <2>6
      <4> QED BY ONLY <4>1, ConcatAssociative
    <3> QED BY <2>6, <3>1, <3>2
  <2>8. familyPrices' = PricesToDate' BY <1>1, <2>1, <2>3, <2>5, ToDate
  <2>9. result # "failed" => Made' = RowsToDate' BY <1>1, <2>1, <2>3, <2>7, ToDate
  <2> QED BY <2>8, <2>9
<1>9. CASE StartMachineTypes
  <2>1. /\ fetching = "skus" /\ fetching' = "machines" /\ familyPrices' = familyPrices
        /\ fetched = <<>> /\ fetched' = <<>> /\ fpc = "ended" /\ sent' = 0
    BY <1>9 DEF StartMachineTypes, ingestVars, TypeOK
  <2>2. sent = n BY <1>5, <2>1 DEF EndsAreKnown, Source
  <2>3. Taken = n /\ Taken' = 0
    <3>1. Len(fetched) = 0 /\ Len(fetched') = 0 BY <2>1
    <3>2. Taken = n - 0 /\ Taken' = 0 - 0 BY <2>1, <2>2, <3>1 DEF Taken
    <3> QED BY <3>2, Numbers
  <2>4. Made' = Made BY <1>9, MadeAfterIngest DEF StartMachineTypes, TakeSKU, TakeMachineType
  <2> HIDE DEF Taken
  <2>5. MachineRows(0) = <<>>
    <3>1. 0 \in 0..Len(list.machineTypes) BY Numbers
    <3> QED BY <1>1, <3>1, MachineRowsNext
  <2>6. WholeSKUs \o MachineRows(0) = WholeSKUs BY <1>3, <2>5, ConcatEmptySeq
  <2>7. familyPrices' = PricesToDate' BY <1>1, <1>3, <1>6, <2>1, <2>3, ToDate
  <2>8. result # "failed" => Made' = RowsToDate' BY <1>1, <1>3, <1>6, <2>1, <2>3, <2>4, <2>6, ToDate
  <2> QED BY <2>7, <2>8
<1>10. CASE MachineTypesEnd \/ SendRow \/ CloseResults
  <2>1. UNCHANGED <<fetching, sent, fetched, familyPrices>>
    BY <1>10 DEF MachineTypesEnd, SendRow, CloseResults, fetcherVars, fetchedVars
  <2>2. Taken' = Taken BY <2>1 DEF Taken
  <2>3. Made' = Made
    BY <1>10, MadeAfterIngest DEF MachineTypesEnd, SendRow, CloseResults, TakeSKU, TakeMachineType
  <2> HIDE DEF Taken
  <2>4. familyPrices' = PricesToDate' BY <1>1, <1>6, <2>1, <2>2, ToDate
  <2>5. RowsToDate' = IF fetching = "skus" THEN SKURows(Taken) ELSE WholeSKUs \o MachineRows(Taken)
    BY <1>1, <2>1, <2>2, ToDate
  <2>6. result # "failed" => Made' = RowsToDate' BY ONLY <1>6, <2>3, <2>5
  <2> QED BY <2>4, <2>6
<1> QED BY <1>5, <1>7, <1>8, <1>9, <1>10 DEF Ingest

(* The fetchers make nothing, and IngestPricing only moves rows. *)
LEMMA OrderFetch ==
    ASSUME TypeOK, FetchedInOrder, MadeInOrder, Fetch
    PROVE  MadeInOrder'
<1>1. UNCHANGED <<list, fetching, ipc, result, Made>> BY FetchLeaves
<1>2. Taken' = Taken BY FetchedAfterFetch
<1>3. \A x : SKURows(x)' = SKURows(x) BY <1>1, SameLists
<1> HIDE DEF Made, Taken
<1> QED BY <1>1, <1>2, <1>3 DEF MadeInOrder

LEMMA WholeFetch ==
    ASSUME TypeOK, FetchedInOrder, MadeIsWhole, Fetch
    PROVE  MadeIsWhole'
<1>1. UNCHANGED <<list, fetching, familyPrices, result, Made>> BY FetchLeaves
<1>2. Taken' = Taken BY FetchedAfterFetch
<1>3. ingErr => ingErr' BY DEF Fetch, FetchNext, FetchEnds, FetchFails, CloseFetched
<1> HIDE DEF Made, Taken
<1>4. PricesToDate' = PricesToDate /\ RowsToDate' = RowsToDate
  BY <1>1, <1>2, ToDate DEF PricesToDate, RowsToDate, FinalPrices
<1> QED BY <1>1, <1>3, <1>4 DEF MadeIsWhole

LEMMA MadeAfterConsume ==
    ASSUME TypeOK, Consume \/ Cancel \/ UNCHANGED vars, result' # "failed"
    PROVE  Made' = Made /\ result # "failed"
<1>1. CASE Store BY <1>1, MadeAfterStore DEF Store
<1>2. CASE ~Store
  <2>1. UNCHANGED <<results, stored>> BY <1>2 DEF Consume, RangeEnds, Cancel, vars, resultsVars, consumerVars
  <2>2. outbox' = outbox BY ConsumeLeaves
  <2>3. result # "failed" BY <1>2 DEF Consume, RangeEnds, Cancel, vars, consumerVars
  <2> QED BY <2>1, <2>2, <2>3 DEF Made
<1> QED BY <1>1, <1>2

LEMMA OrderConsume ==
    ASSUME TypeOK, MadeInOrder, Consume \/ Cancel \/ UNCHANGED vars
    PROVE  MadeInOrder'
<1>1. UNCHANGED <<list, fetching, ipc, sent, fetched>> BY ConsumeLeaves
<1>2. Taken' = Taken BY <1>1 DEF Taken
<1>3. \A x : SKURows(x)' = SKURows(x) BY <1>1, SameLists
<1>4. result' # "failed" => Made' = Made /\ result # "failed" BY MadeAfterConsume
<1> HIDE DEF Made, Taken
<1> QED BY <1>1, <1>2, <1>3, <1>4 DEF MadeInOrder

LEMMA WholeConsume ==
    ASSUME TypeOK, MadeIsWhole, Consume \/ Cancel \/ UNCHANGED vars
    PROVE  MadeIsWhole'
<1>1. UNCHANGED <<list, ingErr, fetching, familyPrices, sent, fetched>> BY ConsumeLeaves
<1>2. Taken' = Taken BY <1>1 DEF Taken
<1>3. result' # "failed" => Made' = Made /\ result # "failed" BY MadeAfterConsume
<1> HIDE DEF Made, Taken
<1>4. PricesToDate' = PricesToDate /\ RowsToDate' = RowsToDate
  BY <1>1, <1>2, ToDate DEF PricesToDate, RowsToDate, FinalPrices
<1> QED BY <1>1, <1>3, <1>4 DEF MadeIsWhole

-----------------------------------------------------------------------------
(* The ends of the goroutines. *)
LEMMA EndsFetch == ASSUME TypeOK, EndsAreKnown, Fetch PROVE EndsAreKnown'
<1>1. UNCHANGED <<fetching, ipc, results, closed, result, Source>> BY FetchLeaves
<1> USE DEF Fetch, FetchNext, FetchEnds, FetchFails, CloseFetched
<1>2. fpc # "ended" /\ (ingErr => ingErr') OBVIOUS
<1>3. fpc' \in {"exit", "ended"} => ingErr' \/ sent' = Len(Source) BY DEF EndsAreKnown
<1> HIDE DEF Fetch, FetchNext, FetchEnds, FetchFails, CloseFetched
<1>4. ipc \in {"exit", "ended"} => ingErr BY <1>2 DEF EndsAreKnown
<1>5. result # "ok" BY <1>4 DEF EndsAreKnown, TypeOK
<1> QED BY <1>1, <1>2, <1>3, <1>4, <1>5 DEF EndsAreKnown

LEMMA EndsIngest == ASSUME TypeOK, EndsAreKnown, Ingest PROVE EndsAreKnown'
<1>1. result' = result BY IngestLeaves
<1>2. ipc # "ended" /\ (ingErr => ingErr')
  BY DEF Ingest, TakeSKU, NoticeDone, StartMachineTypes, TakeMachineType, Mismatch, MachineTypesEnd,
         SendRow, CloseResults
<1>3. result # "ok" BY <1>2 DEF EndsAreKnown, TypeOK
<1>4. fpc' \in {"exit", "ended"} => ingErr' \/ sent' = Len(Source')
  <2>1. CASE StartMachineTypes BY <2>1 DEF StartMachineTypes
  <2>2. CASE ~StartMachineTypes
    <3>1. UNCHANGED <<list, fetching, fpc, sent>>
      BY <2>2, IngestLeaves DEF Ingest, TakeSKU, NoticeDone, TakeMachineType, Mismatch, MachineTypesEnd,
         SendRow, CloseResults, fetcherVars
    <3>2. Source' = Source BY <3>1 DEF Source
    <3> QED BY <1>2, <3>1, <3>2 DEF EndsAreKnown
  <2> QED BY <2>1, <2>2
<1>5. ipc' \in {"exit", "ended"} =>
         ingErr' \/ (fetching' = "machines" /\ fpc' = "ended" /\ fetched' = <<>>)
  <2>1. CASE TakeSKU \/ TakeMachineType \/ SendRow
    BY <2>1 DEF TakeSKU, TakeMachineType, SendRow, Deliver
  <2>2. CASE NoticeDone \/ Mismatch BY <2>2 DEF NoticeDone, Mismatch
  <2>3. CASE StartMachineTypes BY <2>3 DEF StartMachineTypes, ingestVars
  <2>4. CASE MachineTypesEnd
    <3>1. fetching' = "machines" /\ fetched' = <<>> /\ fetchedClosed /\ fpc' = fpc
      BY <2>4 DEF MachineTypesEnd, fetcherVars, fetchedVars
    <3> QED BY <3>1 DEF TypeOK
  <2>5. CASE CloseResults
    <3>1. ipc = "exit" /\ UNCHANGED <<ingErr, fetching, fpc, fetched>>
      BY <2>5 DEF CloseResults, fetcherVars, fetchedVars
    <3> QED BY <3>1 DEF EndsAreKnown
  <2> QED BY <2>1, <2>2, <2>3, <2>4, <2>5 DEF Ingest
<1> QED BY <1>1, <1>3, <1>4, <1>5 DEF EndsAreKnown

LEMMA EndsConsume ==
    ASSUME TypeOK, EndsAreKnown, Consume \/ Cancel \/ UNCHANGED vars
    PROVE  EndsAreKnown'
<1>1. UNCHANGED <<ingErr, fetching, fpc, sent, fetched, ipc, closed, Source>> BY ConsumeLeaves
<1>2. result' = "ok" => closed /\ ~ingErr /\ results' = <<>>
  BY DEF EndsAreKnown, Consume, Store, RangeEnds, Cancel, vars, resultsVars, consumerVars
<1> QED BY <1>1, <1>2 DEF EndsAreKnown

-----------------------------------------------------------------------------
(* What is stored, of what was made. *)
LEMMA StoredOfMade == TypeOK /\ MadeInOrder /\ result # "failed" => StoredInOrder
<1> SUFFICES ASSUME TypeOK, MadeInOrder, result # "failed" PROVE StoredInOrder OBVIOUS
<1>1. list \in Lists BY Numbers
<1>2. PICK k \in 0..Len(list.skus) :
         /\ IsPrefix(SKURows(k), Made)
         /\ \A j \in (Len(SKURows(k)) + 1)..Len(Made) : Made[j].kind = "machine"
  BY DEF MadeInOrder
<1> DEFINE a == SKURows(k)
           w == WholeSKUs
<1>3. a \in Seq(Rows) /\ w \in Seq(Rows)
  <2>1. Len(list.skus) \in 0..Len(list.skus) BY Numbers
  <2> QED BY <1>1, <2>1, SKURowsNext DEF WholeSKUs
<1>4. IsPrefix(a, w) BY <1>1, SKURowsPrefix
<1>5. stored \in Seq(Rows) /\ Made \in Seq(Rows) BY MadeType
<1>6. /\ Len(stored) <= Len(Made)
      /\ \A i \in 1..Len(stored) : Made[i] = stored[i]
  <2>1. results \o outbox \in Seq(Rows) /\ Made = stored \o (results \o outbox)
    BY MadeType, ConcatProperties
  <2> HIDE DEF Made
  <2>2. Len(results \o outbox) \in Nat BY <2>1, LenProperties
  <2> QED BY <1>5, <2>1, <2>2, ConcatProperties
<1> HIDE DEF Made, a, w
<1>7. /\ Len(a) <= Len(Made) /\ \A i \in 1..Len(a) : a[i] = Made[i]
      /\ Len(a) <= Len(w) /\ \A i \in 1..Len(a) : a[i] = w[i]
  <2>1. IsPrefix(a, Made) BY <1>2 DEF a
  <2> QED BY <1>3, <1>4, <1>5, <2>1, PrefixIs
<1>8. Len(a) \in Nat /\ Len(w) \in Nat /\ Len(stored) \in Nat /\ Len(Made) \in Nat
  BY <1>3, <1>5, LenProperties
<1>9. PICK n \in 0..Len(stored) : /\ n <= Len(a)
                                  /\ n = Len(a) \/ n = Len(stored)
  <2>1. CASE Len(a) <= Len(stored) BY <1>8, <2>1
  <2>2. CASE ~(Len(a) <= Len(stored)) BY <1>8, <2>2
  <2> QED BY <2>1, <2>2
<1>10. n \in Nat /\ n <= Len(stored) BY <1>8, <1>9
<1>11. IsPrefix(SubSeq(stored, 1, n), w)
  <2> DEFINE b == SubSeq(stored, 1, n)
  <2>1. b \in Seq(Rows) /\ Len(b) = n /\ \A i \in 1..n : b[i] = stored[i]
    <3>1. \A i \in 1..n : stored[i] \in Rows BY <1>5, <1>8, <1>10
    <3>2. 1 \in Int /\ n \in Int BY <1>10
    <3>3. \A i \in 1..n : i \in 1..Len(stored) BY <1>8, <1>10
    <3> QED BY <1>5, <1>10, <3>1, <3>2, <3>3, SubSeqProperties
  <2>2. ASSUME NEW i \in 1..n PROVE b[i] = w[i]
    <3>1. i \in 1..Len(stored) /\ i \in 1..Len(a) BY <1>8, <1>9, <1>10
    <3> QED BY <1>6, <1>7, <2>1, <3>1
  <2>3. n <= Len(w) BY <1>7, <1>8, <1>9, <1>10
  <2> HIDE DEF b
  <2>4. IsPrefix(b, w) BY <1>3, <2>1, <2>2, <2>3, PrefixIs
  <2> QED BY <2>4 DEF b
<1>12. ASSUME NEW j \in (n + 1)..Len(stored) PROVE stored[j].kind = "machine"
  <2>1. n = Len(a) /\ j \in 1..Len(stored) /\ j \in (Len(a) + 1)..Len(Made)
    BY <1>6, <1>8, <1>9, <1>10
  <2>2. Made[j].kind = "machine" BY <1>2, <2>1 DEF a
  <2> QED BY <1>6, <2>1, <2>2
<1> QED BY <1>9, <1>11, <1>12 DEF StoredInOrder, w

LEMMA StoredAfterFailure ==
    ASSUME TypeOK, [Next]_vars, result' = "failed"
    PROVE  UNCHANGED <<list, stored>>
<1>1. CASE Fetch BY <1>1, FetchLeaves
<1>2. CASE Ingest BY <1>2, IngestLeaves
<1>3. CASE Consume \/ Cancel \/ UNCHANGED vars
  <2>1. list' = list BY <1>3, ConsumeLeaves
  <2>2. stored' = stored BY <1>3 DEF Consume, Store, RangeEnds, Cancel, vars, consumerVars
  <2> QED BY <2>1, <2>2
<1> QED BY <1>1, <1>2, <1>3 DEF Next, Finished

-----------------------------------------------------------------------------
LEMMA InvInit == Init => IInv
<1> SUFFICES ASSUME Init PROVE IInv OBVIOUS
<1>1. TypeOK /\ list \in Lists BY TypeInit DEF Init
<1>2. /\ sent = 0 /\ fetched = <<>> /\ stored = <<>> /\ results = <<>> /\ outbox = <<>>
      /\ fetching = "skus" /\ fpc = "fetch" /\ ipc = "receive" /\ result = "none"
      /\ familyPrices = [f \in MachineFamilies \X {"CPU", "RAM"} |-> NoPrice]
  BY DEF Init
<1>3. 0 \in 0..Len(list.skus) BY <1>1, Numbers
<1>4. Taken = 0 /\ Len(fetched) = 0
  <2>1. Len(fetched) = 0 BY <1>2
  <2>2. Taken = 0 - 0 BY <1>2, <2>1 DEF Taken
  <2> QED BY <2>1, <2>2
<1>5. Made = <<>>
  <2>1. <<>> \in Seq(Rows) OBVIOUS
  <2>2. <<>> \o <<>> = <<>> BY <2>1, ConcatEmptySeq
  <2>3. Made = (<<>> \o <<>>) \o <<>> BY <1>2 DEF Made
  <2> QED BY <2>2, <2>3
<1>6. SKURows(0) = <<>> /\ PricesAfter(0) = familyPrices BY <1>1, <1>2, <1>3, SKURowsNext, PricesNext
<1> HIDE DEF Made, Taken
<1>7. FetchedInOrder BY <1>4 DEF FetchedInOrder
<1>8. MadeInOrder
  <2>1. <<>> \in Seq(Rows) /\ Len(<<>>) = 0 OBVIOUS
  <2>2. IsPrefix(SKURows(0), Made)
    <3>1. IsPrefix(<<>>, <<>>)
      <4>1. Len(<<>>) <= Len(<<>>) /\ \A i \in 1..Len(<<>>) : (<<>>)[i] = (<<>>)[i] OBVIOUS
      <4> QED BY ONLY <2>1, <4>1, PrefixIs
    <3> QED BY <1>5, <1>6, <3>1
  <2>3. \A j \in (Len(SKURows(0)) + 1)..Len(Made) : Made[j].kind = "machine" BY <1>5, <1>6, <2>1
  <2> QED BY <1>3, <1>4, <1>5, <1>6, <2>2, <2>3 DEF MadeInOrder
<1>9. MadeIsWhole
  <2>1. PricesToDate = PricesAfter(0) /\ RowsToDate = SKURows(0)
    BY <1>2, <1>4 DEF PricesToDate, RowsToDate
  <2> QED BY <1>5, <1>6, <2>1 DEF MadeIsWhole
<1>10. EndsAreKnown BY <1>2 DEF EndsAreKnown
<1>11. StoredInOrder BY <1>1, <1>2, <1>8, StoredOfMade
<1> QED BY <1>1, <1>7, <1>8, <1>9, <1>10, <1>11 DEF IInv

LEMMA InvStep == IInv /\ [Next]_vars => IInv'
<1> SUFFICES ASSUME IInv, [Next]_vars PROVE IInv' OBVIOUS
<1>1. TypeOK /\ FetchedInOrder /\ MadeInOrder /\ MadeIsWhole /\ EndsAreKnown /\ StoredInOrder
  BY DEF IInv
<1>2. TypeOK' /\ FetchedInOrder' /\ MadeInOrder' /\ MadeIsWhole' /\ EndsAreKnown'
  <2>1. CASE Fetch BY <1>1, <2>1, TypeFetch, FetchedAfterFetch, OrderFetch, WholeFetch, EndsFetch
  <2>2. CASE Ingest BY <1>1, <2>2, TypeIngest, FetchedAfterIngest, OrderIngest, WholeIngest, EndsIngest
  <2>3. CASE Consume \/ Cancel \/ UNCHANGED vars
    <3>1. UNCHANGED <<sent, fetched>> BY <2>3, ConsumeLeaves
    <3>2. FetchedInOrder' BY <1>1, <3>1 DEF FetchedInOrder, Taken
    <3> QED BY <1>1, <2>3, <3>2, TypeConsume, OrderConsume, WholeConsume, EndsConsume
  <2> QED BY <2>1, <2>2, <2>3 DEF Next, Finished
<1>3. StoredInOrder'
  <2>1. CASE result' # "failed"
    <3>1. (TypeOK /\ MadeInOrder /\ result # "failed" => StoredInOrder)' BY StoredOfMade, PTL
    <3> QED BY <1>2, <2>1, <3>1
  <2>2. CASE result' = "failed"
    <3>1. UNCHANGED <<list, stored>> BY <1>1, <2>2, StoredAfterFailure
    <3>2. WholeSKUs' = WholeSKUs BY <3>1, SameLists
    <3> QED BY <1>1, <3>1, <3>2 DEF StoredInOrder
  <2> QED BY <2>1, <2>2
<1> QED BY <1>2, <1>3 DEF IInv

LEMMA InvHolds == Spec => []IInv
  BY InvInit, InvStep, PTL DEF Spec

-----------------------------------------------------------------------------
(* Each variable has its type: the channels keep to their capacities, and  *)
(* the one of a fetcher is closed exactly once it has ended, the one of    *)
(* Ingest once Ingest has.                                                 *)
THEOREM TypeCorrect == Spec => []TypeOK
<1>1. IInv => TypeOK BY DEF IInv
<1> QED BY <1>1, InvHolds, PTL

(* Ingest reports success only when the whole of both lists is stored, and *)
(* each machine type at the prices the whole list of SKUs gives.           *)
THEOREM Whole == Spec => []SuccessIsWhole
<1>1. IInv => SuccessIsWhole
  <2> SUFFICES ASSUME IInv, result = "ok" PROVE stored = WholeSKUs \o WholeMachines
    BY DEF SuccessIsWhole
  <2>1. TypeOK /\ MadeIsWhole /\ EndsAreKnown BY DEF IInv
  <2>2. closed /\ ~ingErr /\ results = <<>> BY <2>1 DEF EndsAreKnown
  <2>3. ipc = "ended" BY <2>1, <2>2 DEF TypeOK
  <2>4. fetching = "machines" /\ fpc = "ended" /\ fetched = <<>> BY <2>1, <2>2, <2>3 DEF EndsAreKnown
  <2>5. sent = Len(list.machineTypes) BY <2>1, <2>2, <2>4 DEF EndsAreKnown, Source
  <2>6. Taken = Len(list.machineTypes)
    <3>1. Len(fetched) = 0 BY <2>4
    <3>2. Taken = Len(list.machineTypes) - 0 BY <2>5, <3>1 DEF Taken
    <3> QED BY <2>1, <3>2, Numbers
  <2>7. outbox = <<>> BY <2>1, <2>3 DEF TypeOK
  <2>8. Made = stored
    <3>1. stored \in Seq(Rows) BY <2>1 DEF TypeOK
    <3>2. Made = (stored \o <<>>) \o <<>> BY <2>2, <2>7 DEF Made
    <3> QED BY <3>1, <3>2, ConcatEmptySeq
  <2> HIDE DEF Made, Taken
  <2>9. Made = RowsToDate BY <2>1, <2>2 DEF MadeIsWhole
  <2> QED BY <2>4, <2>6, <2>8, <2>9 DEF RowsToDate, WholeMachines
<1> QED BY <1>1, InvHolds, PTL

(* However the run ends, what is stored are SKUs in the order of the list, *)
(* none of them left out, and then machine types.                          *)
THEOREM Order == Spec => []StoredInOrder
<1>1. IInv => StoredInOrder BY DEF IInv
<1> QED BY <1>1, InvHolds, PTL

(* Once Ingest has reported success no goroutine is left that could still  *)
(* set ing.err.                                                            *)
THEOREM NoLateError == Spec => []NoErrorAfterSuccess
<1>1. IInv => NoErrorAfterSuccess BY DEF IInv, EndsAreKnown, NoErrorAfterSuccess
<1> QED BY <1>1, InvHolds, PTL
=============================================================================
