---------------------------- MODULE IngestPricing ----------------------------
(***************************************************************************)
(* IngestPricing: the consumer of an Ingester.  It ranges over the channel *)
(* the Ingester returned, upserts each product once (skuProductID remembers*)
(* the id) and each price, and asks the Ingester for its error at the end. *)
(*                                                                         *)
(* A price.WithProduct is known by the position of its row in the feed:    *)
(* that is the identity of the pointer the channel carries.                *)
(***************************************************************************)
EXTENDS PricingStore, Sequences, FiniteSets

CONSTANTS Feeds,      \* the price lists a provider may publish
          ChSize      \* capacity of the results channel (8 in the code)

(***************************************************************************)
(* A row as newPriceWithProduct reads it: "short" has fewer fields than    *)
(* there are column labels, "badPrice" an unparsable price; `kept` is the  *)
(* verdict of the ingestion filter; `iso` says whether the currency is one *)
(* currency.ParseISO accepts.                                              *)
(***************************************************************************)
Rows == [parses : {"good", "badPrice", "short"}, kept : BOOLEAN, iso : BOOLEAN,
         sku : SKUs, location : Locations, family : Families,
         attributes : Attributes, hash : Hashes, value : Values]

ASSUME ChSizeAssumption == ChSize \in Nat \ {0}
ASSUME FeedsAssumption  == \A f \in Feeds : f.rows \in Seq(Rows)

VARIABLES
    feed,       \* what the provider publishes during this run
    ctxDone,    \* the context IngestPricing derived is cancelled
    results,    \* the channel: positions in the feed, first sent first
    closed,     \* ... and whether it is closed
    ingErr,     \* Ingester.err is set
    cpc,        \* where IngestPricing is
    item,       \* the row it handles, 0 for none
    itemID,     \* pp.Product.ID
    cache,      \* skuProductID, 0 for no entry
    result,     \* what it returned
    done        \* history: the rows whose price upsert was acknowledged

consumerVars == <<cpc, item, itemID, cache, result, done>>
channelVars  == <<results, closed, ingErr>>

N == Len(feed.rows)
Row(i) == feed.rows[i]
Key(i) == <<Row(i).sku, Row(i).location>>

ConsumerTypeOK ==
    /\ StoreTypeOK
    /\ feed \in Feeds
    /\ ctxDone \in BOOLEAN /\ closed \in BOOLEAN /\ ingErr \in BOOLEAN
    /\ results \in Seq(1..N) /\ Len(results) <= ChSize
    /\ cpc \in {"receive", "product", "price", "returned"}
    /\ item \in 0..N
    /\ cpc \in {"product", "price"} => item # 0
    /\ itemID \in 0..MaxID
    /\ cache \in [SKUs -> 0..MaxID]
    /\ result \in {"none", "ok", "failed"}
    /\ done \subseteq 1..N

ConsumerInit ==
    /\ results = <<>> /\ closed = FALSE /\ ingErr = FALSE
    /\ cpc = "receive"
    /\ item = 0 /\ itemID = 0
    /\ cache = [s \in SKUs |-> 0]
    /\ result = "none"
    /\ done = {}

-----------------------------------------------------------------------------
(* Mutation: no deferred cancel. *)
ReturnWithoutCancel(r) ==
    /\ cpc' = "returned"
    /\ result' = r
    /\ UNCHANGED ctxDone

(* IngestPricing returns: the deferred cancel ends the derived context. *)
Return(r) ==
    /\ cpc' = "returned"
    /\ result' = r
    /\ ctxDone' = TRUE

(* Mutation: the first entry of skuProductID is used, whatever the SKU. *)
ReceiveAnyRow ==
    /\ cpc = "receive"
    /\ results # <<>>
    /\ item' = Head(results)
    /\ results' = Tail(results)
    /\ \E s \in SKUs : itemID' = cache[s] /\ (cache[s] # 0 \/ cache = [t \in SKUs |-> 0])
    /\ cpc' = IF itemID' = 0 THEN "product" ELSE "price"
    /\ UNCHANGED <<storeVars, feed, ctxDone, closed, ingErr, cache, result, done>>

(* The next iteration of the range loop, up to the choice of upsert. *)
ReceiveRow ==
    /\ cpc = "receive"
    /\ results # <<>>
    /\ item' = Head(results)
    /\ results' = Tail(results)
    /\ itemID' = cache[Row(item').sku]
    /\ cpc' = IF itemID' = 0 THEN "product" ELSE "price"
    /\ UNCHANGED <<storeVars, feed, ctxDone, closed, ingErr, cache, result, done>>

(* Products().Upsert succeeds, and its id is remembered.  A cancellation    *)
(* may come while the statement is under way, which then fails or succeeds. *)
UpsertProduct ==
    /\ cpc = "product"
    /\ UpsertProductRow(Key(item), Row(item).family, Row(item).attributes)
    /\ itemID' = products'[Hit(Key(item))].id
    /\ cache' = [cache EXCEPT ![Row(item).sku] = itemID']
    /\ cpc' = "price"
    /\ UNCHANGED <<feed, ctxDone, channelVars, item, result, done>>

(* Products().Upsert returns an error: the statement did not run, or it *)
(* ran and its answer was lost.                                         *)
FailProduct ==
    /\ cpc = "product"
    /\ \/ UNCHANGED storeVars
       \/ UpsertProductRow(Key(item), Row(item).family, Row(item).attributes)
    /\ Return("failed")
    /\ UNCHANGED <<feed, channelVars, item, itemID, cache, done>>

(* Prices().Upsert succeeds. *)
UpsertPrice ==
    /\ cpc = "price"
    /\ Row(item).iso
    /\ UpsertPriceRow(itemID, Row(item).hash, Row(item).value)
    /\ done' = done \cup {item}
    /\ cpc' = "receive"
    /\ item' = 0
    /\ itemID' = 0
    /\ UNCHANGED <<feed, ctxDone, channelVars, cache, result>>

(* Prices().Upsert returns an error: the currency is unknown, the        *)
(* statement did not run, or it ran and its answer was lost.             *)
FailPrice ==
    /\ cpc = "price"
    /\ \/ UNCHANGED storeVars
       \/ Row(item).iso /\ UpsertPriceRow(itemID, Row(item).hash, Row(item).value)
    /\ Return("failed")
    /\ UNCHANGED <<feed, channelVars, item, itemID, cache, done>>

(* The channel is closed and drained: Ingester.Err() decides the result. *)
RangeEnds ==
    /\ cpc = "receive"
    /\ results = <<>> /\ closed
    /\ Return(IF ingErr THEN "failed" ELSE "ok")
    /\ UNCHANGED <<storeVars, feed, channelVars, item, itemID, cache, done>>

(* A step of IngestPricing. *)
Consume ==
    ReceiveRow \/ UpsertProduct \/ FailProduct \/ UpsertPrice \/ FailPrice \/ RangeEnds

(* The caller's context is cancelled, or its deadline passes. *)
CancelContext ==
    /\ ~ctxDone
    /\ ctxDone' = TRUE
    /\ UNCHANGED <<storeVars, feed, channelVars, consumerVars>>
-----------------------------------------------------------------------------
(* The row `i` of the feed is in the tables: the product it names has its *)
(* price under its hash.                                                  *)
Stored(i) == LET id == products[Key(i)].id
             IN id # 0 /\ prices[<<id, Row(i).hash>>] = Row(i).value

SamePrice(i, j) == Row(i).sku = Row(j).sku /\ Row(i).hash = Row(j).hash
LastOf(i, S)    == \A j \in S : SamePrice(i, j) => j <= i
Kept            == {i \in 1..N : Row(i).kept}

(* Rows are stored in feed order, none skipped: what was acknowledged is  *)
(* a prefix of the rows the filter keeps, however the run ends.           *)
StoredInOrder ==
    /\ done \subseteq Kept
    /\ \A i \in done, j \in Kept : j < i => j \in done

(* As long as no upsert failed, the tables hold for each price the last   *)
(* acknowledged row that gives it, filed under the product the row names  *)
(* - whatever earlier runs, finished, failed or killed, had left behind,  *)
(* unless they used up the ids.                                           *)
StoreFollowsFeed ==
    result # "failed" /\ IDsLeft => \A i \in done : LastOf(i, done) => Stored(i)

(* The id skuProductID remembers is the id of the product's row.          *)
CacheIsCoherent ==
    IDsLeft => \A i \in 1..N : cache[Row(i).sku] # 0 => products[Key(i)].id = cache[Row(i).sku]

(* A product keeps its id. *)
ProductsStay == \A k \in ProductKeys : products[k].id # 0 => products'[k].id = products[k].id

HasSKU(id, sku) == \E place \in Locations : products[<<sku, place>>].id = id

(* The price of this product and hash becomes what a row says. *)
Changes(id, h)  == prices'[<<id, h>>] # prices[<<id, h>>]
Gives(i, id, h) == Row(i).hash = h /\ Row(i).value = prices'[<<id, h>>]

(* A price changes only to what the filter kept of the current price list *)
(* says - of that very product, while there are ids left -, and a product *)
(* never changes its id.                                                  *)
WriteIsFromFeed ==
    /\ \A id \in 1..MaxID, h \in Hashes :
          Changes(id, h) => \E i \in Kept : Gives(i, id, h) /\ (IDsLeft => products[Key(i)].id = id)
    /\ ProductsStay

WritesAreFromFeed == [][WriteIsFromFeed]_storeVars

(* What is left of it where a list may give one SKU in several locations, *)
(* which skuProductID does not tell apart: the product whose price changes *)
(* has the SKU of the row that gives it, while there are ids left.         *)
WriteIsOfTheSKU ==
    /\ \A id \in 1..MaxID, h \in Hashes :
          Changes(id, h) => \E i \in Kept : Gives(i, id, h) /\ (IDsLeft => HasSKU(id, Row(i).sku))
    /\ ProductsStay

WritesAreOfTheSKU == [][WriteIsOfTheSKU]_storeVars

(***************************************************************************)
(* Why StoredInOrder holds: the rows that went into the channel are        *)
(* acknowledged, in hand or still queued, each of these after the one      *)
(* before, and in feed order.                                              *)
(***************************************************************************)
Queued == {results[k] : k \in 1..Len(results)}
InHand == {i \in {item} : i # 0}
Passed == done \cup InHand \cup Queued

PassedInOrder ==
    /\ \A i \in done, j \in InHand \cup Queued : i < j
    /\ \A i \in InHand, j \in Queued : i < j
    /\ \A k, l \in 1..Len(results) : k < l => results[k] < results[l]
    /\ \A i \in Passed : Row(i).kept

(***************************************************************************)
(* Why the others hold.  Every product has an id of its own, below the     *)
(* next one until that is the largest, and prices only where there is a    *)
(* product.  Where a SKU has one location, the id in hand and those        *)
(* remembered are the products' of their rows; where it has several, a     *)
(* product's of the same SKU.                                              *)
(***************************************************************************)
IDsAreUnique ==
    /\ \A k \in ProductKeys : products[k].id < nextID \/ nextID = MaxID
    /\ \A k, l \in ProductKeys : products[k].id = products[l].id /\ k # l => products[k].id = 0

PricesHaveProducts ==
    \A id \in 1..MaxID, h \in Hashes : prices[<<id, h>>] # Missing => InProducts(id)

OneLocation(f) ==
    \A i, j \in 1..Len(f.rows) :
        f.rows[i].sku = f.rows[j].sku => f.rows[i].location = f.rows[j].location

IDIsOfRow == cpc = "price" /\ IDsLeft => itemID # 0 /\ itemID = products[Key(item)].id

StoreIsKnown == IDIsOfRow /\ CacheIsCoherent /\ StoreFollowsFeed

IDsAreOfSKU == IDsLeft =>
    /\ cpc = "price" => itemID # 0 /\ HasSKU(itemID, Row(item).sku)
    /\ \A sku \in SKUs : cache[sku] # 0 => HasSKU(cache[sku], sku)

(* What the end of IngestPricing says of the channel. *)
ResultIsKnown ==
    /\ cpc = "receive" => item = 0
    /\ (cpc = "returned") <=> (result # "none")
    /\ result = "ok" => closed /\ ~ingErr /\ results = <<>> /\ item = 0

(***************************************************************************)
(* The book of prices the tables amount to, and the part of a price list   *)
(* that is to be entered: the state of PriceBook, which an ingestion       *)
(* implements.                                                             *)
(***************************************************************************)
BookOf == [e \in ProductKeys \X Hashes |->
             LET id == products[e[1]].id
             IN IF id = 0 THEN Missing ELSE prices[<<id, e[2]>>]]

KeptRows(f)   == {i \in DOMAIN f.rows : f.rows[i].kept}
NthKept(f, n) == CHOOSE i \in KeptRows(f) : Cardinality({j \in KeptRows(f) : j <= i}) = n
Entry(row)    == [key |-> <<row.sku, row.location>>, hash |-> row.hash, value |-> row.value]
Entries(f)    == [n \in 1..Cardinality(KeptRows(f)) |-> Entry(f.rows[NthKept(f, n)])]

BookStatus(dead) == IF dead \/ result = "failed" THEN "stopped"
                    ELSE IF result = "ok" THEN "ok" ELSE "running"
=============================================================================
