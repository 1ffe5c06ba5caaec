------------------------- MODULE IngestPricingProofs -------------------------
(***************************************************************************)
(* Facts about IngestPricing that hold whatever Ingester feeds it: its     *)
(* steps keep the types of the tables and of its variables, take the rows  *)
(* out of the channel in the order they went in, give every product an id  *)
(* of its own, and write only prices of the list, under a product of their *)
(* SKU.  The modules about the Ingesters cite them.                        *)
(***************************************************************************)
EXTENDS IngestPricing, SequenceTheorems, TLAPS

LEMMA NType == ASSUME feed \in Feeds PROVE N \in Nat
  BY FeedsAssumption DEF N

(* A row of the current feed is a row. *)
LEMMA RowInFeed ==
    ASSUME feed \in Feeds, NEW i \in 1..N
    PROVE  Row(i) \in Rows /\ Key(i) \in ProductKeys
<1>1. feed.rows \in Seq(Rows) BY FeedsAssumption
<1>2. Row(i) \in Rows BY <1>1 DEF Row, N
<1> QED BY <1>2 DEF Key, ProductKeys, Rows

(* The row a product statement inserts or updates. *)
LEMMA HitIsARow ==
    ASSUME NEW k \in ProductKeys
    PROVE  /\ Hit(k) \in ProductKeys
           /\ InProducts(nextID) => products[Hit(k)].id = nextID /\ nextID # 0
           /\ ~InProducts(nextID) => Hit(k) = k
<1>1. CASE InProducts(nextID)
  <2>1. \E l \in ProductKeys : products[l].id = nextID BY <1>1 DEF InProducts
  <2> QED BY <1>1, <2>1 DEF Hit, InProducts
<1>2. CASE ~InProducts(nextID) BY <1>2 DEF Hit
<1> QED BY <1>1, <1>2

(* The statements keep the types of the tables. *)
LEMMA UpsertProductType ==
    ASSUME StoreTypeOK, NEW k \in ProductKeys, NEW f \in Families, NEW a \in Attributes,
           UpsertProductRow(k, f, a)
    PROVE  StoreTypeOK' /\ products'[Hit(k)].id \in 1..MaxID
<1> DEFINE R == [id : 0..MaxID, family : Families \cup {Missing},
                 attributes : Attributes \cup {Missing}]
           hit == Hit(k)
           new == IF products[hit].id = 0 THEN [id |-> nextID, family |-> f, attributes |-> a]
                  ELSE [products[hit] EXCEPT !.attributes = a]
<1>1. hit \in ProductKeys BY HitIsARow
<1>2. products' = [products EXCEPT ![hit] = new] BY DEF UpsertProductRow
<1> HIDE DEF hit
<1>3. products[hit] \in R BY <1>1 DEF StoreTypeOK
<1>4. nextID \in 1..MaxID BY DEF StoreTypeOK
<1>5. new \in R /\ new.id \in 1..MaxID
  <2>1. CASE products[hit].id = 0 BY <2>1, <1>4, MaxIDAssumption
  <2>2. CASE products[hit].id # 0 BY <2>2, <1>3, MaxIDAssumption
  <2> QED BY <2>1, <2>2
<1>6. products' \in [ProductKeys -> R] /\ products'[hit] = new BY <1>1, <1>2, <1>5 DEF StoreTypeOK
<1>7. nextID' \in 1..MaxID BY <1>4, MaxIDAssumption DEF UpsertProductRow, NextID
<1> QED BY <1>5, <1>6, <1>7 DEF StoreTypeOK, UpsertProductRow, hit

LEMMA UpsertPriceType ==
    ASSUME StoreTypeOK, NEW id, NEW h, NEW v \in Values, UpsertPriceRow(id, h, v)
    PROVE  StoreTypeOK'
  BY DEF StoreTypeOK, UpsertPriceRow

(* IngestPricing starts, and every step of it keeps the types. *)
LEMMA ConsumerInitType ==
    ASSUME feed \in Feeds, StoreInit, ConsumerInit, ctxDone = FALSE
    PROVE  ConsumerTypeOK
<1>1. N \in Nat BY NType
<1>2. StoreTypeOK BY MaxIDAssumption DEF StoreInit, StoreTypeOK, NoProduct
<1>3. results = <<>> /\ results \in Seq(1..N) /\ Len(results) = 0 BY DEF ConsumerInit
<1>4. ctxDone \in BOOLEAN /\ closed \in BOOLEAN /\ ingErr \in BOOLEAN BY DEF ConsumerInit
<1>5. /\ cpc = "receive" /\ item \in 0..N /\ itemID \in 0..MaxID
      /\ cache \in [SKUs -> 0..MaxID] /\ result = "none" /\ done \subseteq 1..N
  BY <1>1, MaxIDAssumption DEF ConsumerInit
<1> QED BY <1>2, <1>3, <1>4, <1>5, ChSizeAssumption DEF ConsumerTypeOK

LEMMA ConsumerRestartType ==
    ASSUME StoreTypeOK, UNCHANGED storeVars, feed' \in Feeds, ConsumerInit', ctxDone' = FALSE
    PROVE  ConsumerTypeOK'
<1>1. N' \in Nat BY FeedsAssumption DEF N
<1>2. StoreTypeOK' BY DEF StoreTypeOK, storeVars
<1>3. results' = <<>> /\ results' \in Seq(1..N') /\ Len(results') = 0 BY DEF ConsumerInit
<1>4. ctxDone' \in BOOLEAN /\ closed' \in BOOLEAN /\ ingErr' \in BOOLEAN BY DEF ConsumerInit
<1>5. /\ cpc' = "receive" /\ item' \in 0..N' /\ itemID' \in 0..MaxID
      /\ cache' \in [SKUs -> 0..MaxID] /\ result' = "none" /\ done' \subseteq 1..N'
  BY <1>1, MaxIDAssumption DEF ConsumerInit
<1> QED BY <1>2, <1>3, <1>4, <1>5, ChSizeAssumption DEF ConsumerTypeOK

LEMMA ConsumeType == ASSUME ConsumerTypeOK, Consume PROVE ConsumerTypeOK'
<1> USE DEF ConsumerTypeOK
<1>1. N \in Nat /\ feed \in Feeds BY NType
<1>2. UNCHANGED feed /\ N' = N
  BY DEF Consume, ReceiveRow, UpsertProduct, FailProduct, UpsertPrice, FailPrice, RangeEnds, N
<1>3. CASE ReceiveRow
  <2>1. Head(results) \in 1..N /\ Tail(results) \in Seq(1..N) /\ Len(Tail(results)) <= ChSize
    BY <1>1, <1>3, ChSizeAssumption DEF ReceiveRow
  <2>2. item' \in 1..N /\ Row(item').sku \in SKUs
    BY <1>1, <1>3, <2>1, RowInFeed DEF ReceiveRow, Rows
  <2>3. itemID' \in 0..MaxID BY <1>3, <2>2, <1>2 DEF ReceiveRow
  <2> QED BY <1>1, <1>2, <1>3, <2>1, <2>2, <2>3 DEF ReceiveRow, StoreTypeOK, storeVars
<1>4. CASE cpc = "product" /\ UpsertProductRow(Key(item), Row(item).family, Row(item).attributes)
  <2>1. item \in 1..N BY <1>1, <1>4
  <2>2. Row(item) \in Rows /\ Key(item) \in ProductKeys BY <1>1, <2>1, RowInFeed
  <2>3. StoreTypeOK' /\ products'[Hit(Key(item))].id \in 1..MaxID
    BY <1>4, <2>2, UpsertProductType DEF Rows
  <2>4. CASE UpsertProduct
    BY <1>1, <1>2, <2>1, <2>2, <2>3, <2>4, MaxIDAssumption DEF UpsertProduct, channelVars, Rows
  <2>5. CASE FailProduct BY <1>1, <1>2, <2>1, <2>3, <2>5 DEF FailProduct, Return, channelVars
  <2> QED BY <1>4, <2>4, <2>5 DEF Consume, ReceiveRow, UpsertPrice, FailPrice, RangeEnds
<1>5. CASE UNCHANGED storeVars /\ (FailProduct \/ FailPrice \/ RangeEnds)
  BY <1>1, <1>2, <1>5 DEF FailProduct, FailPrice, RangeEnds, Return, channelVars, StoreTypeOK, storeVars
<1>6. CASE cpc = "price" /\ UpsertPriceRow(itemID, Row(item).hash, Row(item).value)
  <2>1. item \in 1..N BY <1>1, <1>6
  <2>2. Row(item) \in Rows BY <1>1, <2>1, RowInFeed
  <2>3. StoreTypeOK' BY <1>6, <2>2, UpsertPriceType DEF Rows
  <2>4. CASE UpsertPrice
    BY <1>1, <1>2, <2>1, <2>3, <2>4, MaxIDAssumption DEF UpsertPrice, channelVars
  <2>5. CASE FailPrice BY <1>1, <1>2, <2>1, <2>3, <2>5 DEF FailPrice, Return, channelVars
  <2> QED BY <1>6, <2>4, <2>5 DEF Consume, ReceiveRow, UpsertProduct, FailProduct, RangeEnds
<1> QED
  BY <1>3, <1>4, <1>5, <1>6 DEF Consume, UpsertProduct, FailProduct, UpsertPrice, FailPrice, RangeEnds

(* What others do leaves the types of IngestPricing alone. *)
LEMMA ConsumerSameType ==
    ASSUME ConsumerTypeOK, UNCHANGED <<storeVars, feed, consumerVars>>,
           ctxDone' \in BOOLEAN, closed' \in BOOLEAN, ingErr' \in BOOLEAN,
           results' \in Seq(1..N), Len(results') <= ChSize
    PROVE  ConsumerTypeOK'
<1>1. StoreTypeOK' BY DEF ConsumerTypeOK, StoreTypeOK, storeVars
<1>2. N' = N BY DEF N
<1> QED BY <1>1, <1>2 DEF ConsumerTypeOK, consumerVars

-----------------------------------------------------------------------------
(* What the operations of a channel do to the rows it holds. *)
LEMMA QueuedAfterSend ==
    ASSUME ConsumerTypeOK, NEW i, results' = Append(results, i)
    PROVE  /\ Queued' = Queued \cup {i}
           /\ Len(results') = Len(results) + 1
           /\ results'[Len(results) + 1] = i
           /\ \A k \in 1..Len(results) : results'[k] = results[k]
<1>1. results \in Seq(1..N) /\ Len(results) \in Nat BY DEF ConsumerTypeOK
<1>2. /\ Len(results') = Len(results) + 1
      /\ results'[Len(results) + 1] = i
      /\ \A k \in 1..Len(results) : results'[k] = results[k]
  BY <1>1
<1>3. 1..Len(results') = 1..Len(results) \cup {Len(results) + 1} BY <1>1, <1>2
<1> QED BY <1>1, <1>2, <1>3 DEF Queued

LEMMA QueuedAfterReceive ==
    ASSUME ConsumerTypeOK, results # <<>>, results' = Tail(results)
    PROVE  /\ Head(results) = results[1] /\ 1 \in 1..Len(results)
           /\ Queued = Queued' \cup {Head(results)}
           /\ Len(results') = Len(results) - 1
           /\ \A k \in 1..Len(results') : k + 1 \in 1..Len(results) /\ results'[k] = results[k + 1]
<1>1. results \in Seq(1..N) /\ Len(results) \in Nat /\ Len(results) # 0 BY DEF ConsumerTypeOK
<1>2. Head(results) = results[1] /\ 1 \in 1..Len(results) BY <1>1
<1>3. Len(results') = Len(results) - 1 BY <1>1
<1>4. \A k \in 1..Len(results') : k + 1 \in 1..Len(results) /\ results'[k] = results[k + 1]
  BY <1>1, <1>3
<1>5. Queued \subseteq Queued' \cup {Head(results)}
  <2>1. SUFFICES ASSUME NEW k \in 1..Len(results) PROVE results[k] \in Queued' \cup {Head(results)}
    BY DEF Queued
  <2>2. CASE k = 1 BY <1>2, <2>2
  <2>3. CASE k # 1
    <3>1. k - 1 \in 1..Len(results') /\ (k - 1) + 1 = k BY <1>1, <1>3, <2>3
    <3>2. results'[k - 1] = results[k] BY <1>4, <3>1
    <3> QED BY <3>1, <3>2 DEF Queued
  <2> QED BY <2>2, <2>3
<1>6. Queued' \cup {Head(results)} \subseteq Queued BY <1>2, <1>4 DEF Queued
<1> QED BY <1>2, <1>3, <1>4, <1>5, <1>6

(* Positions are numbers. *)
LEMMA ConsumerNumbers ==
    ASSUME ConsumerTypeOK
    PROVE  /\ N \in Nat /\ feed \in Feeds /\ Len(results) \in Nat /\ item \in Nat
           /\ done \subseteq Nat /\ InHand \subseteq Nat /\ Queued \subseteq Nat
           /\ Passed \subseteq 1..N /\ Kept \subseteq Nat
           /\ \A k \in 1..Len(results) : results[k] \in Nat
<1>1. N \in Nat BY NType DEF ConsumerTypeOK
<1>2. results \in Seq(1..N) /\ item \in 0..N BY DEF ConsumerTypeOK
<1>3. \A k \in 1..Len(results) : results[k] \in 1..N BY <1>2, ElementOfSeq
<1>4. Queued \subseteq 1..N BY <1>1, <1>3 DEF Queued
<1>5. InHand \subseteq 1..N BY <1>1, <1>2 DEF InHand
<1> QED BY <1>1, <1>2, <1>3, <1>4, <1>5 DEF ConsumerTypeOK, Kept, Passed

(* A row that is sent after all others comes last. *)
LEMMA SendInOrder ==
    ASSUME ConsumerTypeOK, PassedInOrder, NEW i \in 1..N, \A j \in Passed : j < i, Row(i).kept,
           results' = Append(results, i), UNCHANGED <<feed, done, item>>
    PROVE  PassedInOrder' /\ Passed' = Passed \cup {i}
<1>1. InHand' = InHand /\ \A j : Row(j)' = Row(j) BY DEF InHand, Row
<1>2. /\ Queued' = Queued \cup {i}
      /\ Len(results') = Len(results) + 1
      /\ results'[Len(results) + 1] = i
      /\ \A k \in 1..Len(results) : results'[k] = results[k]
  BY QueuedAfterSend
<1>3. \A k \in 1..Len(results) : results[k] \in Queued BY DEF Queued
<1>4. \A k, l \in 1..Len(results') : k < l => results'[k] < results'[l]
  <2>1. SUFFICES ASSUME NEW k \in 1..Len(results'), NEW l \in 1..Len(results'), k < l
                 PROVE  results'[k] < results'[l]
    OBVIOUS
  <2>2. k \in 1..Len(results) BY <1>2, <2>1, ConsumerNumbers
  <2>3. CASE l \in 1..Len(results) BY <1>2, <2>1, <2>2, <2>3 DEF PassedInOrder
  <2>4. CASE l = Len(results) + 1 BY <1>2, <1>3, <2>2, <2>4 DEF Passed
  <2> QED BY <1>2, <2>3, <2>4, ConsumerNumbers
<1>5. Passed' = Passed \cup {i} BY <1>1, <1>2 DEF Passed
<1>6. PassedInOrder' BY <1>1, <1>2, <1>4, <1>5 DEF PassedInOrder, Passed, Row
<1> QED BY <1>5, <1>6

(* IngestPricing takes the rows as they come, and loses none. *)
LEMMA ConsumeInOrder ==
    ASSUME ConsumerTypeOK, PassedInOrder, ResultIsKnown, Consume
    PROVE  PassedInOrder' /\ Passed' = Passed
<1>1. UNCHANGED feed /\ \A i : Row(i)' = Row(i)
  BY DEF Consume, ReceiveRow, UpsertProduct, FailProduct, UpsertPrice, FailPrice, RangeEnds, Row
<1>2. CASE ReceiveRow
  <2>1. /\ results # <<>> /\ results' = Tail(results) /\ item' = Head(results)
        /\ done' = done /\ item = 0
    BY <1>2 DEF ReceiveRow, ResultIsKnown
  <2>2. /\ Head(results) = results[1] /\ 1 \in 1..Len(results)
        /\ Queued = Queued' \cup {Head(results)}
        /\ Len(results') = Len(results) - 1
        /\ \A k \in 1..Len(results') : k + 1 \in 1..Len(results) /\ results'[k] = results[k + 1]
    BY <2>1, QueuedAfterReceive
  <2>3. Head(results) \in 1..N BY <2>2, ElementOfSeq DEF ConsumerTypeOK
  <2>4. InHand' = {Head(results)} /\ InHand = {} BY <2>1, <2>3 DEF InHand
  <2>5. \A j \in Queued' : Head(results) < j
    <3>1. SUFFICES ASSUME NEW k \in 1..Len(results') PROVE results[1] < results'[k]
      BY <2>2 DEF Queued
    <3>2. k + 1 \in 1..Len(results) /\ results'[k] = results[k + 1] /\ 1 < k + 1 BY <2>2, ConsumerNumbers
    <3> QED BY <2>2, <3>2 DEF PassedInOrder
  <2>6. \A k, l \in 1..Len(results') : k < l => results'[k] < results'[l]
    <3>1. SUFFICES ASSUME NEW k \in 1..Len(results'), NEW l \in 1..Len(results'), k < l
                   PROVE  results'[k] < results'[l]
      OBVIOUS
    <3>2. k + 1 < l + 1 BY <2>2, <3>1, ConsumerNumbers
    <3> QED BY <2>2, <3>2 DEF PassedInOrder
  <2>7. Passed' = Passed BY <2>1, <2>2, <2>4 DEF Passed
  <2>8. PassedInOrder' BY <1>1, <2>1, <2>2, <2>4, <2>5, <2>6, <2>7 DEF PassedInOrder, Row
  <2> QED BY <2>7, <2>8
<1>3. CASE UpsertPrice
  <2>1. /\ results' = results /\ done' = done \cup {item} /\ item' = 0 /\ item # 0
    BY <1>3 DEF UpsertPrice, channelVars, ConsumerTypeOK
  <2>2. Queued' = Queued /\ InHand = {item} /\ InHand' = {} BY <2>1 DEF Queued, InHand
  <2>3. Passed' = Passed BY <2>1, <2>2 DEF Passed
  <2>4. PassedInOrder' BY <1>1, <2>1, <2>2, <2>3 DEF PassedInOrder, Row
  <2> QED BY <2>3, <2>4
<1>4. CASE UpsertProduct \/ FailProduct \/ FailPrice \/ RangeEnds
  <2>1. UNCHANGED <<results, done, item>>
    BY <1>4 DEF UpsertProduct, FailProduct, FailPrice, RangeEnds, channelVars
  <2>2. Queued' = Queued /\ InHand' = InHand BY <2>1 DEF Queued, InHand
  <2>3. Passed' = Passed BY <2>1, <2>2 DEF Passed
  <2>4. PassedInOrder' BY <1>1, <2>1, <2>2, <2>3 DEF PassedInOrder, Row
  <2> QED BY <2>3, <2>4
<1> QED BY <1>2, <1>3, <1>4 DEF Consume

(* What nobody sends to or takes from stays in order. *)
LEMMA SameOrder ==
    ASSUME PassedInOrder, UNCHANGED <<feed, results, done, item>>
    PROVE  PassedInOrder' /\ Passed' = Passed
<1>1. Queued' = Queued /\ InHand' = InHand BY DEF Queued, InHand
<1>2. Passed' = Passed BY <1>1 DEF Passed
<1> QED BY <1>1, <1>2 DEF PassedInOrder, Row

(* An ingestion begins with nothing passed on. *)
LEMMA ConsumerInitOrder == ASSUME ConsumerInit PROVE PassedInOrder /\ ResultIsKnown /\ Passed = {}
<1>1. /\ results = <<>> /\ item = 0 /\ done = {} /\ cpc = "receive" /\ result = "none"
  BY DEF ConsumerInit
<1>2. Queued = {} /\ InHand = {} /\ 1..Len(results) = {} BY <1>1 DEF Queued, InHand
<1>3. Passed = {} BY <1>1, <1>2 DEF Passed
<1> QED BY <1>1, <1>2, <1>3 DEF PassedInOrder, ResultIsKnown

LEMMA ConsumerRestartOrder ==
    ASSUME ConsumerInit' PROVE PassedInOrder' /\ ResultIsKnown' /\ Passed' = {}
<1>1. /\ results' = <<>> /\ item' = 0 /\ done' = {} /\ cpc' = "receive" /\ result' = "none"
  BY DEF ConsumerInit
<1>2. Queued' = {} /\ InHand' = {} /\ 1..Len(results') = {} BY <1>1 DEF Queued, InHand
<1>3. Passed' = {} BY <1>1, <1>2 DEF Passed
<1> QED BY <1>1, <1>2, <1>3 DEF PassedInOrder, ResultIsKnown

(* The end of IngestPricing. *)
LEMMA ConsumeResult == ASSUME ResultIsKnown, Consume PROVE ResultIsKnown'
<1>1. cpc' = "receive" => item' = 0
  BY DEF Consume, ReceiveRow, UpsertProduct, FailProduct, UpsertPrice, FailPrice, RangeEnds, Return
<1>2. (cpc' = "returned") <=> (result' # "none")
  BY DEF Consume, ReceiveRow, UpsertProduct, FailProduct, UpsertPrice, FailPrice, RangeEnds,
         Return, ResultIsKnown
<1>3. result' = "ok" => closed' /\ ~ingErr' /\ results' = <<>> /\ item' = 0
  BY DEF Consume, ReceiveRow, UpsertProduct, FailProduct, UpsertPrice, FailPrice, RangeEnds,
         Return, ResultIsKnown, channelVars
<1> QED BY <1>1, <1>2, <1>3 DEF ResultIsKnown

-----------------------------------------------------------------------------
(* The SKU of a row has one location, if the list gives it one. *)
LEMMA RowLocated ==
    ASSUME feed \in Feeds, OneLocation(feed), NEW i \in 1..N
    PROVE  \A j \in 1..N : Row(i).sku = Row(j).sku => Key(i) = Key(j)
  BY DEF OneLocation, Row, N, Key

(* The product statement gives a new product an id no other product has,   *)
(* and leaves every id that is there alone; while there are ids left, the  *)
(* row it hits is the product's own.                                       *)
LEMMA ProductIDs ==
    ASSUME StoreTypeOK, IDsAreUnique, NEW k \in ProductKeys, NEW f, NEW a, UpsertProductRow(k, f, a)
    PROVE  /\ IDsAreUnique'
           /\ \A l \in ProductKeys : products[l].id # 0 => products'[l].id = products[l].id
           /\ \A l \in ProductKeys \ {k} : products'[l].id = products[l].id
           /\ products'[k].id = products[k].id \/ (products'[k].id = nextID /\ ~InProducts(nextID))
           /\ products'[Hit(k)].id # 0
           /\ IDsLeft => Hit(k) = k
           /\ IDsLeft' => IDsLeft
           /\ UNCHANGED prices
<1> DEFINE hit == Hit(k)
<1>1. /\ hit \in ProductKeys
      /\ InProducts(nextID) => products[hit].id = nextID
      /\ ~InProducts(nextID) => hit = k
  BY HitIsARow
<1>2. /\ nextID \in 1..MaxID /\ MaxID \in Nat
      /\ \A l \in ProductKeys : products[l].id \in 0..MaxID
  BY MaxIDAssumption DEF StoreTypeOK
<1>3. /\ \A l \in ProductKeys \ {hit} : products'[l].id = products[l].id
      /\ products'[hit].id = IF products[hit].id = 0 THEN nextID ELSE products[hit].id
      /\ UNCHANGED prices
  BY <1>1 DEF StoreTypeOK, UpsertProductRow
<1>4. nextID' = IF nextID < MaxID THEN nextID + 1 ELSE nextID BY DEF UpsertProductRow, NextID
<1>5. InProducts(nextID) <=> \E l \in ProductKeys : products[l].id = nextID BY <1>2 DEF InProducts
<1>6. IDsLeft <=> \A l \in ProductKeys : products[l].id # MaxID
  BY MaxIDAssumption DEF IDsLeft, InProducts
<1>7. IDsLeft' <=> \A l \in ProductKeys : products'[l].id # MaxID
  BY MaxIDAssumption DEF IDsLeft, InProducts
<1>8. /\ \A l \in ProductKeys : products[l].id < nextID \/ nextID = MaxID
      /\ \A l, m \in ProductKeys : products[l].id = products[m].id /\ l # m => products[l].id = 0
  BY DEF IDsAreUnique
<1> HIDE DEF hit
<1>9. products'[hit].id # 0 BY <1>2, <1>3
<1>10. \A l \in ProductKeys : products[l].id # 0 => products'[l].id = products[l].id BY <1>3
<1>11. \A l \in ProductKeys : products'[l].id = products[l].id
                               \/ (l = k /\ products'[l].id = nextID /\ ~InProducts(nextID))
  BY <1>1, <1>2, <1>3
<1>12. IDsLeft => hit = k
  <2> SUFFICES ASSUME InProducts(nextID) PROVE ~IDsLeft BY <1>1
  <2>1. products[hit].id = nextID BY <1>1
  <2>2. nextID = MaxID BY <1>1, <1>2, <1>8, <2>1
  <2> QED BY <1>1, <1>6, <2>1, <2>2
<1>13. IDsLeft' => IDsLeft
  <2>1. \A l \in ProductKeys : products[l].id = MaxID => products'[l].id = MaxID
    BY <1>10, MaxIDAssumption
  <2> QED BY <1>6, <1>7, <2>1
<1>14. \A l \in ProductKeys : products'[l].id < nextID' \/ nextID' = MaxID
  BY <1>2, <1>4, <1>8, <1>11
<1>15. \A l, m \in ProductKeys : products'[l].id = products'[m].id /\ l # m => products'[l].id = 0
  BY <1>2, <1>5, <1>8, <1>11
<1>16. IDsAreUnique' BY <1>14, <1>15 DEF IDsAreUnique
<1> QED BY <1>3, <1>9, <1>10, <1>11, <1>12, <1>13, <1>16 DEF hit

(* Ids stay unique. *)
LEMMA UniqueSame ==
    ASSUME IDsAreUnique, UNCHANGED storeVars PROVE IDsAreUnique'
  BY DEF IDsAreUnique, storeVars

LEMMA UniqueConsume == ASSUME ConsumerTypeOK, IDsAreUnique, Consume PROVE IDsAreUnique'
<1>1. CASE UNCHANGED <<products, nextID>> BY <1>1 DEF IDsAreUnique
<1>2. CASE cpc = "product" /\ UpsertProductRow(Key(item), Row(item).family, Row(item).attributes)
  <2>1. StoreTypeOK /\ Key(item) \in ProductKeys BY <1>2, RowInFeed DEF ConsumerTypeOK
  <2> QED BY <1>2, <2>1, ProductIDs
<1> QED
  BY <1>1, <1>2 DEF Consume, ReceiveRow, UpsertProduct, FailProduct, UpsertPrice, FailPrice, RangeEnds,
     UpsertPriceRow, storeVars

(* A product keeps the id it has, and ids that are used up stay so. *)
LEMMA ConsumeKeepsProducts ==
    ASSUME ConsumerTypeOK, IDsAreUnique, Consume
    PROVE  /\ ProductsStay
           /\ IDsLeft' => IDsLeft
           /\ \A id \in 1..MaxID : InProducts(id) => InProducts(id)'
           /\ \A sku \in SKUs, id \in 1..MaxID :
                 HasSKU(id, sku) => \E place \in Locations : products'[<<sku, place>>].id = id
<1>1. ProductsStay /\ (IDsLeft' => IDsLeft)
  <2>1. CASE UNCHANGED products BY <2>1 DEF ProductsStay, IDsLeft, InProducts
  <2>2. CASE cpc = "product" /\ UpsertProductRow(Key(item), Row(item).family, Row(item).attributes)
    <3>1. StoreTypeOK /\ Key(item) \in ProductKeys BY <2>2, RowInFeed DEF ConsumerTypeOK
    <3> QED BY <2>2, <3>1, ProductIDs DEF ProductsStay
  <2> QED
    BY <2>1, <2>2 DEF Consume, ReceiveRow, UpsertProduct, FailProduct, UpsertPrice, FailPrice, RangeEnds,
       UpsertPriceRow, storeVars
<1>2. ASSUME NEW sku \in SKUs, NEW id \in 1..MaxID, HasSKU(id, sku)
      PROVE  \E place \in Locations : products'[<<sku, place>>].id = id
  <2>1. PICK place \in Locations : products[<<sku, place>>].id = id BY <1>2 DEF HasSKU
  <2>2. <<sku, place>> \in ProductKeys /\ id # 0 BY MaxIDAssumption DEF ProductKeys
  <2>3. products'[<<sku, place>>].id = id BY <1>1, <2>1, <2>2 DEF ProductsStay
  <2> QED BY <2>3
<1>3. \A id \in 1..MaxID : InProducts(id) => InProducts(id)' BY <1>1 DEF ProductsStay, InProducts
<1> QED BY <1>1, <1>2, <1>3

(* A price is filed under an id a product has. *)
LEMMA UnusedSame ==
    ASSUME PricesHaveProducts, UNCHANGED storeVars PROVE PricesHaveProducts'
  BY DEF PricesHaveProducts, InProducts, storeVars

LEMMA UnusedConsume ==
    ASSUME ConsumerTypeOK, IDsAreUnique, PricesHaveProducts, Consume
    PROVE  PricesHaveProducts'
<1> SUFFICES ASSUME NEW id \in 1..MaxID, NEW h \in Hashes, prices'[<<id, h>>] # Missing
             PROVE  InProducts(id)'
  BY DEF PricesHaveProducts
<1>1. CASE prices'[<<id, h>>] = prices[<<id, h>>] BY <1>1, ConsumeKeepsProducts DEF PricesHaveProducts
<1>2. CASE UpsertPriceRow(itemID, Row(item).hash, Row(item).value) /\ prices'[<<id, h>>] # prices[<<id, h>>]
  <2>1. prices' = [prices EXCEPT ![<<itemID, Row(item).hash>>] = Row(item).value] /\ InProducts(itemID)
    BY <1>2 DEF UpsertPriceRow
  <2>2. <<id, h>> \in PriceKeys /\ prices \in [PriceKeys -> Values \cup {Missing}]
    BY DEF PriceKeys, ConsumerTypeOK, StoreTypeOK
  <2>3. id = itemID BY <1>2, <2>1, <2>2
  <2> QED BY <2>1, <2>3, ConsumeKeepsProducts
<1> QED
  BY <1>1, <1>2 DEF Consume, ReceiveRow, UpsertProduct, FailProduct, UpsertPrice, FailPrice, RangeEnds,
     UpsertProductRow, storeVars

(* Steps that leave the tables and the consumer alone. *)
LEMMA StoreSame ==
    ASSUME StoreIsKnown, UNCHANGED <<storeVars, feed, consumerVars>>
    PROVE  StoreIsKnown'
<1>1. N' = N /\ \A i : Row(i)' = Row(i) /\ Key(i)' = Key(i) BY DEF N, Row, Key, consumerVars
<1>2. \A i : Stored(i)' <=> Stored(i) BY <1>1 DEF Stored, storeVars, Row, Key
<1>3. \A i : LastOf(i, done)' <=> LastOf(i, done) BY <1>1 DEF LastOf, SamePrice, consumerVars, Row
<1>4. IDsLeft' <=> IDsLeft BY DEF IDsLeft, InProducts, storeVars
<1> QED BY <1>1, <1>2, <1>3, <1>4 DEF StoreIsKnown, IDIsOfRow, CacheIsCoherent, StoreFollowsFeed, storeVars, consumerVars, Key, Row

LEMMA StoreConsume ==
    ASSUME ConsumerTypeOK, PassedInOrder, ResultIsKnown, IDsAreUnique, OneLocation(feed), StoreIsKnown, Consume
    PROVE  StoreIsKnown'
<1>0. CASE ~IDsLeft' BY <1>0 DEF StoreIsKnown, IDIsOfRow, CacheIsCoherent, StoreFollowsFeed
<1> SUFFICES ASSUME IDsLeft' PROVE StoreIsKnown' BY <1>0
<1>11. IDsLeft BY ConsumeKeepsProducts
<1> USE <1>11
<1>1. feed' = feed /\ feed \in Feeds /\ StoreTypeOK /\ N \in Nat
  BY NType DEF ConsumerTypeOK, Consume, ReceiveRow, UpsertProduct, FailProduct,
         UpsertPrice, FailPrice, RangeEnds
<1>2. N' = N /\ \A i : Row(i)' = Row(i) /\ Key(i)' = Key(i) BY <1>1 DEF N, Row, Key
<1>3. \A i \in 1..N : Row(i) \in Rows /\ Key(i) \in ProductKeys BY <1>1, RowInFeed
<1>4. \A i, j \in 1..N : Row(i).sku = Row(j).sku <=> Key(i) = Key(j) BY <1>1, RowLocated DEF Key
<1>5. cpc \in {"product", "price"} => item \in 1..N BY <1>1 DEF ConsumerTypeOK
<1>6. done \subseteq 1..N BY DEF ConsumerTypeOK
<1>7. CASE ReceiveRow
  <2>1. /\ UNCHANGED <<storeVars, cache, result, done>>
        /\ item' = Head(results) /\ itemID' = cache[Row(item').sku]
        /\ cpc' = IF itemID' = 0 THEN "product" ELSE "price"
    BY <1>7 DEF ReceiveRow
  <2>2. item' \in 1..N
    BY <1>1, <1>7, <2>1, ElementOfSeq, QueuedAfterReceive DEF ReceiveRow, ConsumerTypeOK
  <2>3. cpc' = "price" => itemID' # 0 /\ itemID' = products[Key(item')].id
    BY <1>2, <2>1, <2>2 DEF StoreIsKnown, CacheIsCoherent, Row
  <2>4. IDIsOfRow' BY <1>1, <2>1, <2>3 DEF StoreIsKnown, IDIsOfRow, storeVars, Key, Row
  <2>5. \A i : (Stored(i)' <=> Stored(i)) /\ (LastOf(i, done)' <=> LastOf(i, done))
    BY <1>1, <2>1 DEF Stored, LastOf, SamePrice, storeVars, Key, Row
  <2> QED BY <1>2, <2>1, <2>4, <2>5 DEF StoreIsKnown, CacheIsCoherent, StoreFollowsFeed, storeVars
<1>8. CASE cpc = "product" /\ UpsertProductRow(Key(item), Row(item).family, Row(item).attributes)
  <2>1. /\ \A l \in ProductKeys : products[l].id # 0 => products'[l].id = products[l].id
        /\ products'[Key(item)].id # 0 /\ Hit(Key(item)) = Key(item)
        /\ UNCHANGED prices
    BY <1>1, <1>3, <1>5, <1>8, ProductIDs
  <2>2. \A i \in 1..N : cache[Row(i).sku] # 0 => products'[Key(i)].id = cache[Row(i).sku]
    BY <1>3, <2>1 DEF StoreIsKnown, CacheIsCoherent
  <2>3. \A i \in 1..N : Stored(i) => Stored(i)' BY <1>2, <1>3, <2>1 DEF Stored, Row, Key
  <2>4. done' = done /\ \A i : LastOf(i, done)' <=> LastOf(i, done)
    BY <1>1, <1>8 DEF Consume, ReceiveRow, UpsertProduct, FailProduct, UpsertPrice, FailPrice,
         RangeEnds, LastOf, SamePrice, Row
  <2>5. CASE UpsertProduct
    <3>1. /\ itemID' = products'[Key(item)].id /\ item' = item /\ result' = result
          /\ cache' = [cache EXCEPT ![Row(item).sku] = itemID']
      BY <2>1, <2>5 DEF UpsertProduct
    <3>2. \A i \in 1..N : cache'[Row(i).sku] =
                           IF Row(i).sku = Row(item).sku THEN itemID' ELSE cache[Row(i).sku]
      BY <1>3, <3>1 DEF Rows, ConsumerTypeOK
    <3>3. CacheIsCoherent' BY <1>2, <1>4, <1>5, <1>8, <2>2, <3>1, <3>2 DEF CacheIsCoherent
    <3>4. IDIsOfRow' BY <1>2, <2>1, <3>1 DEF IDIsOfRow, Key, Row
    <3>5. StoreFollowsFeed' BY <1>6, <2>3, <2>4, <3>1 DEF StoreIsKnown, StoreFollowsFeed
    <3> QED BY <3>3, <3>4, <3>5 DEF StoreIsKnown
  <2>6. CASE FailProduct
    <3>1. cache' = cache /\ result' = "failed" /\ cpc' = "returned" BY <2>6 DEF FailProduct, Return
    <3>2. CacheIsCoherent' BY <1>2, <2>2, <3>1 DEF CacheIsCoherent
    <3> QED BY <2>1, <3>1, <3>2 DEF StoreIsKnown, IDIsOfRow, StoreFollowsFeed
  <2> QED BY <1>8, <2>5, <2>6 DEF Consume, ReceiveRow, UpsertPrice, FailPrice, RangeEnds
<1>9. CASE cpc = "price" /\ UpsertPriceRow(itemID, Row(item).hash, Row(item).value)
  <2>1. /\ UNCHANGED <<products, nextID>>
        /\ prices' = [prices EXCEPT ![<<itemID, Row(item).hash>>] = Row(item).value]
    BY <1>9 DEF UpsertPriceRow
  <2>2. itemID # 0 /\ itemID = products[Key(item)].id BY <1>9 DEF StoreIsKnown, IDIsOfRow
  <2>3. cache' = cache
    BY <1>9 DEF Consume, ReceiveRow, UpsertProduct, FailProduct, UpsertPrice, FailPrice, RangeEnds
  <2>4. CacheIsCoherent' BY <1>2, <2>1, <2>3 DEF StoreIsKnown, CacheIsCoherent
  <2>5. CASE UpsertPrice
    <3>1. done' = done \cup {item} /\ cpc' = "receive" /\ result' = result BY <2>5 DEF UpsertPrice
    <3>2. IDIsOfRow' BY <2>1, <3>1 DEF StoreIsKnown, IDIsOfRow
    <3>3. StoreFollowsFeed'
      <4>1. SUFFICES ASSUME result # "failed", NEW i \in done', LastOf(i, done)'
                     PROVE  Stored(i)'
        BY <3>1 DEF StoreFollowsFeed
      <4>2. i \in 1..N /\ item \in 1..N BY <1>5, <1>6, <1>9, <3>1
      <4>3. prices \in [PriceKeys -> Values \cup {Missing}] /\ itemID \in 1..MaxID
        BY <2>2, MaxIDAssumption DEF ConsumerTypeOK, StoreTypeOK
      <4>4. Row(item).hash \in Hashes /\ Row(i).hash \in Hashes BY <1>3, <4>2 DEF Rows
      <4>5. CASE i = item
        <5>1. <<itemID, Row(item).hash>> \in PriceKeys BY <4>3, <4>4 DEF PriceKeys
        <5>2. prices'[<<itemID, Row(item).hash>>] = Row(item).value BY <2>1, <4>3, <5>1
        <5> QED BY <1>2, <2>1, <2>2, <4>5, <5>2 DEF Stored, Key, Row
      <4>6. CASE i # item
        <5>1. i \in done BY <3>1, <4>6
        <5>2. i < item BY <1>9, <4>2, <5>1 DEF PassedInOrder, InHand
        <5>3. \A j \in done \cup {item} : SamePrice(i, j) => j <= i
          BY <1>1, <3>1, <4>1 DEF LastOf, SamePrice, Row
        <5>4. ~SamePrice(i, item) BY <4>2, <5>2, <5>3
        <5>5. Stored(i) BY <4>1, <5>1, <5>3 DEF StoreIsKnown, StoreFollowsFeed, LastOf
        <5>6. products[Key(i)].id # itemID \/ Row(i).hash # Row(item).hash
          BY <1>3, <1>4, <2>2, <4>2, <5>4 DEF SamePrice, IDsAreUnique
        <5>7. products[Key(i)].id \in 1..MaxID
          <6>1. products[Key(i)].id \in 0..MaxID BY <1>1, <1>3, <4>2 DEF StoreTypeOK
          <6> QED BY <5>5, <6>1, MaxIDAssumption DEF Stored
        <5>8. <<products[Key(i)].id, Row(i).hash>> \in PriceKeys BY <4>4, <5>7 DEF PriceKeys
        <5>9. prices'[<<products[Key(i)].id, Row(i).hash>>] = prices[<<products[Key(i)].id, Row(i).hash>>]
          BY <2>1, <4>3, <5>6, <5>8
        <5> QED BY <1>2, <2>1, <5>5, <5>9 DEF Stored, Key, Row
      <4> QED BY <4>5, <4>6
    <3> QED BY <2>4, <3>2, <3>3 DEF StoreIsKnown
  <2>6. CASE FailPrice
    <3>1. result' = "failed" /\ cpc' = "returned" BY <2>6 DEF FailPrice, Return
    <3> QED BY <2>1, <2>4, <3>1 DEF StoreIsKnown, IDIsOfRow, StoreFollowsFeed
  <2> QED BY <1>9, <2>5, <2>6 DEF Consume, ReceiveRow, UpsertProduct, FailProduct, RangeEnds
<1>10. CASE UNCHANGED storeVars /\ (FailProduct \/ FailPrice \/ RangeEnds)
  <2>1. /\ UNCHANGED <<products, prices, nextID, cache, done, item, itemID>> /\ cpc' = "returned"
        /\ result' = "failed" \/ result # "failed"
    BY <1>10 DEF FailProduct, FailPrice, RangeEnds, Return, storeVars, ResultIsKnown
  <2>2. \A i : (Stored(i)' <=> Stored(i)) /\ (LastOf(i, done)' <=> LastOf(i, done))
    BY <1>1, <2>1 DEF Stored, LastOf, SamePrice, Key, Row
  <2>3. IDIsOfRow' /\ CacheIsCoherent' BY <1>2, <2>1 DEF StoreIsKnown, IDIsOfRow, CacheIsCoherent
  <2> QED BY <2>1, <2>2, <2>3 DEF StoreIsKnown, StoreFollowsFeed
<1> QED
  BY <1>7, <1>8, <1>9, <1>10 DEF Consume, UpsertProduct, FailProduct, UpsertPrice, FailPrice, RangeEnds

(* Giving a product its row enters no price. *)
LEMMA ProductKeepsBook ==
    ASSUME ConsumerTypeOK, IDsAreUnique, PricesHaveProducts, cpc = "product",
           UpsertProductRow(Key(item), Row(item).family, Row(item).attributes)
    PROVE  BookOf' = BookOf
<1>1. StoreTypeOK /\ feed \in Feeds BY DEF ConsumerTypeOK
<1>2. item \in 1..N BY <1>1 DEF ConsumerTypeOK
<1>3. Key(item) \in ProductKeys BY <1>1, <1>2, RowInFeed
<1>4. /\ \A k \in ProductKeys : products[k].id # 0 => products'[k].id = products[k].id
      /\ \A k \in ProductKeys : products'[k].id = products[k].id
                                 \/ (products'[k].id = nextID /\ ~InProducts(nextID))
      /\ UNCHANGED prices
  BY <1>1, <1>3, ProductIDs
<1>5. nextID \in 1..MaxID /\ nextID # 0 BY <1>1, MaxIDAssumption DEF StoreTypeOK
<1>6. ~InProducts(nextID) => \A h \in Hashes : prices[<<nextID, h>>] = Missing
  BY <1>5 DEF PricesHaveProducts
<1>7. ASSUME NEW e \in ProductKeys \X Hashes
      PROVE  (IF products'[e[1]].id = 0 THEN Missing ELSE prices'[<<products'[e[1]].id, e[2]>>])
               = (IF products[e[1]].id = 0 THEN Missing ELSE prices[<<products[e[1]].id, e[2]>>])
  <2>1. e[1] \in ProductKeys /\ e[2] \in Hashes OBVIOUS
  <2> QED BY <1>4, <1>5, <1>6, <2>1
<1> QED BY <1>7 DEF BookOf

(* Giving a price its row enters the price of the row in hand, under its   *)
(* own product while there are ids left.                                   *)
LEMMA PriceEntersBook ==
    ASSUME ConsumerTypeOK, IDsAreUnique, IDIsOfRow, cpc = "price",
           UpsertPriceRow(itemID, Row(item).hash, Row(item).value)
    PROVE  \E p \in ProductKeys :
              /\ IDsLeft => p = Key(item)
              /\ BookOf' = [BookOf EXCEPT ![<<p, Row(item).hash>>] = Row(item).value]
<1>1. StoreTypeOK /\ feed \in Feeds BY DEF ConsumerTypeOK
<1>2. item \in 1..N BY <1>1 DEF ConsumerTypeOK
<1>3. Key(item) \in ProductKeys /\ Row(item).hash \in Hashes BY <1>1, <1>2, RowInFeed DEF Rows
<1>4. /\ UNCHANGED products /\ InProducts(itemID)
      /\ prices' = [prices EXCEPT ![<<itemID, Row(item).hash>>] = Row(item).value]
  BY DEF UpsertPriceRow
<1>5. PICK p \in ProductKeys : itemID = products[p].id /\ itemID # 0 BY <1>4 DEF InProducts
<1>6. \A k \in ProductKeys : products[k].id = itemID <=> k = p BY <1>5 DEF IDsAreUnique
<1>7. IDsLeft => p = Key(item) BY <1>3, <1>6 DEF IDIsOfRow
<1>8. \A k \in ProductKeys : products[k].id \in 0..MaxID BY <1>1 DEF StoreTypeOK
<1>9. ASSUME NEW e \in ProductKeys \X Hashes
      PROVE  (IF products'[e[1]].id = 0 THEN Missing ELSE prices'[<<products'[e[1]].id, e[2]>>])
               = IF e = <<p, Row(item).hash>> THEN Row(item).value
                 ELSE IF products[e[1]].id = 0 THEN Missing ELSE prices[<<products[e[1]].id, e[2]>>]
  <2>1. e[1] \in ProductKeys /\ e[2] \in Hashes /\ e = <<e[1], e[2]>> OBVIOUS
  <2>2. CASE products[e[1]].id = 0 BY <1>4, <1>5, <2>1, <2>2
  <2>3. CASE products[e[1]].id # 0
    <3>1. <<products[e[1]].id, e[2]>> \in PriceKeys
      BY <1>8, <2>1, <2>3, MaxIDAssumption DEF PriceKeys
    <3>2. prices'[<<products[e[1]].id, e[2]>>] =
            IF <<products[e[1]].id, e[2]>> = <<itemID, Row(item).hash>> THEN Row(item).value
            ELSE prices[<<products[e[1]].id, e[2]>>]
      BY <1>1, <1>4, <3>1 DEF StoreTypeOK
    <3> QED BY <1>4, <1>6, <2>1, <2>3, <3>2
  <2> QED BY <2>2, <2>3
<1>10. BookOf' = [BookOf EXCEPT ![<<p, Row(item).hash>>] = Row(item).value] BY <1>3, <1>9 DEF BookOf
<1> QED BY <1>7, <1>10

(* Whatever the locations, an id in hand or remembered is of its SKU. *)
LEMMA SKUSame ==
    ASSUME IDsAreOfSKU, UNCHANGED <<storeVars, feed, consumerVars>>
    PROVE  IDsAreOfSKU'
  BY DEF IDsAreOfSKU, IDsLeft, InProducts, HasSKU, storeVars, consumerVars, Row

LEMMA SKUConsume ==
    ASSUME ConsumerTypeOK, IDsAreUnique, IDsAreOfSKU, Consume
    PROVE  IDsAreOfSKU'
<1> SUFFICES ASSUME IDsLeft' PROVE IDsAreOfSKU' BY DEF IDsAreOfSKU
<1>0. IDsLeft BY ConsumeKeepsProducts
<1> USE <1>0
<1> DEFINE Has(id, sku) == \E place \in Locations : products'[<<sku, place>>].id = id
<1>1. /\ feed \in Feeds /\ feed' = feed /\ \A i : Row(i)' = Row(i)
      /\ \A sku \in SKUs : cache[sku] \in 0..MaxID
  BY DEF ConsumerTypeOK, Consume, ReceiveRow, UpsertProduct, FailProduct, UpsertPrice, FailPrice, RangeEnds, Row
<1>2. \A sku \in SKUs, id \in 1..MaxID : HasSKU(id, sku) => Has(id, sku)
  BY ConsumeKeepsProducts
<1>3. ASSUME NEW sku \in SKUs, cache[sku] # 0 PROVE Has(cache[sku], sku)
  <2>1. cache[sku] \in 1..MaxID BY <1>1, <1>3, MaxIDAssumption
  <2>2. HasSKU(cache[sku], sku) BY <1>3 DEF IDsAreOfSKU
  <2> QED BY ONLY <1>2, <2>1, <2>2
<1>4. CASE ReceiveRow
  <2>1. item' \in 1..N
    <3>1. item' = Head(results) /\ results' = Tail(results) /\ results # <<>>
      BY <1>4 DEF ReceiveRow
    <3>2. results \in Seq(1..N) BY DEF ConsumerTypeOK
    <3>3. Head(results) = results[1] /\ 1 \in 1..Len(results) BY <3>1, QueuedAfterReceive
    <3> QED BY ONLY <3>1, <3>2, <3>3, ElementOfSeq
  <2>2. Row(item').sku \in SKUs BY <1>1, <2>1, RowInFeed DEF Rows
  <2>3. /\ itemID' = cache[Row(item').sku] /\ cache' = cache
        /\ cpc' = "price" => itemID' # 0
    BY <1>1, <1>4 DEF ReceiveRow
  <2>4. cpc' = "price" => itemID' # 0 /\ Has(itemID', Row(item').sku) BY <1>3, <2>2, <2>3
  <2> QED BY <1>1, <1>3, <2>3, <2>4 DEF IDsAreOfSKU, HasSKU, Row
<1>5. CASE UpsertProduct
  <2>1. item \in 1..N /\ StoreTypeOK BY <1>5 DEF UpsertProduct, ConsumerTypeOK
  <2>2. Row(item) \in Rows /\ Key(item) \in ProductKeys BY <1>1, <2>1, RowInFeed
  <2>3. Row(item).sku \in SKUs /\ Row(item).location \in Locations BY <2>2 DEF Rows
  <2>4. products'[Key(item)].id # 0 /\ Hit(Key(item)) = Key(item)
    BY <1>5, <2>1, <2>2, ProductIDs DEF UpsertProduct
  <2>5. /\ itemID' = products'[Key(item)].id /\ item' = item
        /\ cache' = [cache EXCEPT ![Row(item).sku] = itemID']
    BY <1>5, <2>4 DEF UpsertProduct
  <2>6. Has(itemID', Row(item).sku) BY <2>3, <2>5 DEF Key
  <2>7. \A sku \in SKUs : cache'[sku] = IF sku = Row(item).sku THEN itemID' ELSE cache[sku]
    BY <2>5 DEF ConsumerTypeOK
  <2>8. \A sku \in SKUs : cache'[sku] # 0 => Has(cache'[sku], sku) BY <1>3, <2>6, <2>7
  <2> QED BY <1>1, <2>4, <2>5, <2>6, <2>8 DEF IDsAreOfSKU, HasSKU, Row
<1>6. CASE FailProduct \/ UpsertPrice \/ FailPrice \/ RangeEnds
  <2>1. cache' = cache /\ cpc' # "price"
    BY <1>6 DEF FailProduct, UpsertPrice, FailPrice, RangeEnds, Return
  <2> QED BY <1>3, <2>1 DEF IDsAreOfSKU, HasSKU
<1> QED BY <1>4, <1>5, <1>6 DEF Consume

(* Only the price of the row in hand changes, under the id in hand. *)
LEMMA ConsumeWrites ==
    ASSUME ConsumerTypeOK, PassedInOrder, Consume,
           NEW id \in 1..MaxID, NEW h \in Hashes, Changes(id, h)
    PROVE  cpc = "price" /\ item \in Kept /\ id = itemID /\ Gives(item, id, h)
<1>1. cpc = "price" /\ UpsertPriceRow(itemID, Row(item).hash, Row(item).value)
  BY DEF Consume, ReceiveRow, UpsertProduct, FailProduct, UpsertPrice, FailPrice, RangeEnds,
         UpsertProductRow, Changes, storeVars
<1>2. /\ <<id, h>> \in PriceKeys /\ prices \in [PriceKeys -> Values \cup {Missing}]
      /\ prices' = [prices EXCEPT ![<<itemID, Row(item).hash>>] = Row(item).value]
  BY <1>1 DEF UpsertPriceRow, PriceKeys, ConsumerTypeOK, StoreTypeOK
<1>3. <<id, h>> = <<itemID, Row(item).hash>> /\ prices'[<<id, h>>] = Row(item).value
  BY <1>2 DEF Changes
<1>4. item \in 1..N /\ item \in InHand BY <1>1 DEF ConsumerTypeOK, InHand
<1>5. item \in Kept BY <1>4 DEF PassedInOrder, Passed, Kept
<1> QED BY <1>1, <1>3, <1>5 DEF Gives

LEMMA ConsumeWritesFromFeed ==
    ASSUME ConsumerTypeOK, PassedInOrder, IDsAreUnique, IDIsOfRow, Consume
    PROVE  WriteIsFromFeed
<1>1. ASSUME NEW id \in 1..MaxID, NEW h \in Hashes, Changes(id, h)
      PROVE  \E i \in Kept : Gives(i, id, h) /\ (IDsLeft => products[Key(i)].id = id)
  <2>1. cpc = "price" /\ item \in Kept /\ id = itemID /\ Gives(item, id, h) BY <1>1, ConsumeWrites
  <2>2. IDsLeft => products[Key(item)].id = id BY <2>1 DEF IDIsOfRow
  <2> QED BY <2>1, <2>2
<1> QED BY <1>1, ConsumeKeepsProducts DEF WriteIsFromFeed

LEMMA ConsumeWritesOfSKU ==
    ASSUME ConsumerTypeOK, PassedInOrder, IDsAreUnique, IDsAreOfSKU, Consume
    PROVE  WriteIsOfTheSKU
<1>1. ASSUME NEW id \in 1..MaxID, NEW h \in Hashes, Changes(id, h)
      PROVE  \E i \in Kept : Gives(i, id, h) /\ (IDsLeft => HasSKU(id, Row(i).sku))
  <2>1. cpc = "price" /\ item \in Kept /\ id = itemID /\ Gives(item, id, h) BY <1>1, ConsumeWrites
  <2>2. IDsLeft => HasSKU(id, Row(item).sku) BY <2>1 DEF IDsAreOfSKU
  <2> QED BY <2>1, <2>2
<1> QED BY <1>1, ConsumeKeepsProducts DEF WriteIsOfTheSKU

(* Who leaves the tables alone writes nothing. *)
LEMMA NoWrites ==
    ASSUME UNCHANGED storeVars
    PROVE  WriteIsFromFeed /\ WriteIsOfTheSKU
  BY DEF WriteIsFromFeed, WriteIsOfTheSKU, Changes, ProductsStay, storeVars

(* An ingestion begins with no ids but those of the tables, which are      *)
(* empty at first.                                                         *)
LEMMA StoreStarts == ASSUME StoreInit PROVE IDsAreUnique /\ PricesHaveProducts
  BY MaxIDAssumption DEF StoreInit, NoProduct, IDsAreUnique, PricesHaveProducts, PriceKeys

LEMMA StoreKnownAtStart ==
    ASSUME feed \in Feeds, ConsumerInit
    PROVE  StoreIsKnown /\ IDsAreOfSKU
<1>1. cpc = "receive" /\ cache = [s \in SKUs |-> 0] /\ done = {} BY DEF ConsumerInit
<1>2. \A i \in 1..N : Row(i).sku \in SKUs BY RowInFeed DEF Rows
<1> QED BY <1>1, <1>2 DEF StoreIsKnown, IDIsOfRow, CacheIsCoherent, StoreFollowsFeed, IDsAreOfSKU

LEMMA StoreKnownAtRestart ==
    ASSUME feed' \in Feeds, ConsumerInit'
    PROVE  StoreIsKnown' /\ IDsAreOfSKU'
<1>1. cpc' = "receive" /\ cache' = [s \in SKUs |-> 0] /\ done' = {} BY DEF ConsumerInit
<1>2. feed'.rows \in Seq(Rows) BY FeedsAssumption
<1>3. \A i \in 1..N' : Row(i)' \in Rows BY <1>2 DEF N, Row
<1>4. \A i \in 1..N' : Row(i)'.sku \in SKUs BY <1>3 DEF Rows
<1> QED BY <1>1, <1>4 DEF StoreIsKnown, IDIsOfRow, CacheIsCoherent, StoreFollowsFeed, IDsAreOfSKU
=============================================================================
