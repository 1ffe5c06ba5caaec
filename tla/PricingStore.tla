---------------------------- MODULE PricingStore ----------------------------
(***************************************************************************)
(* The two MySQL tables of terracost: pricing_products, unique by          *)
(* (provider, sku, location), and pricing_product_prices, unique by        *)
(* (product_id, hash) with a foreign key to its product.                   *)
(*                                                                         *)
(* One provider is modelled, so a product's key is (sku, location).  Its   *)
(* columns service and family are written together, by the INSERT only,    *)
(* and are one component, family.  A price's columns currency, price, unit *)
(* and attributes are written together and are one component, its value.   *)
(***************************************************************************)
EXTENDS Integers

CONSTANTS SKUs, Locations, Families, Attributes, Hashes, Values,
          Missing,        \* stands in the columns of a row that is not there
          MaxID           \* largest id of pricing_products (INT UNSIGNED)

ASSUME MissingAssumption == Missing \notin Values \cup Families \cup Attributes
ASSUME MaxIDAssumption == MaxID \in Nat \ {0}

VARIABLES products,   \* pricing_products, by its unique key
          prices,     \* pricing_product_prices, by its unique key
          nextID      \* AUTO_INCREMENT of pricing_products

storeVars == <<products, prices, nextID>>

ProductKeys == SKUs \X Locations
PriceKeys   == (1..MaxID) \X Hashes
NoProduct   == [id |-> 0, family |-> Missing, attributes |-> Missing]

StoreTypeOK ==
    /\ products \in [ProductKeys -> [id : 0..MaxID,
                                     family : Families \cup {Missing},
                                     attributes : Attributes \cup {Missing}]]
    /\ prices \in [PriceKeys -> Values \cup {Missing}]
    /\ nextID \in 1..MaxID

StoreInit ==
    /\ products = [k \in ProductKeys |-> NoProduct]
    /\ prices = [k \in PriceKeys |-> Missing]
    /\ nextID = 1

InProducts(id) == id # 0 /\ \E k \in ProductKeys : products[k].id = id

(* AUTO_INCREMENT stays at the largest id once it is there.                *)
NextID == IF nextID < MaxID THEN nextID + 1 ELSE nextID

(* No product has the largest id.                                          *)
IDsLeft == ~InProducts(MaxID)

-----------------------------------------------------------------------------
(***************************************************************************)
(* The row an INSERT of `key` inserts or is a duplicate of.  The primary   *)
(* key is looked at first, and the id it is given is taken only once all   *)
(* ids are: the row is then that of the largest id, whatever its product.  *)
(***************************************************************************)
Hit(key) == IF InProducts(nextID) THEN CHOOSE k \in ProductKeys : products[k].id = nextID ELSE key

(* Mutation: every column is replaced, and the row takes the new id. *)
ReplaceProductRow(key, family, attributes) ==
    /\ products' = [products EXCEPT ![Hit(key)] =
                      [id |-> nextID, family |-> family, attributes |-> attributes]]
    /\ nextID' = NextID
    /\ UNCHANGED prices

(***************************************************************************)
(* INSERT INTO pricing_products ... ON DUPLICATE KEY UPDATE.  A duplicate  *)
(* keeps its id, service and family; only its attributes are replaced.     *)
(* InnoDB takes a value of AUTO_INCREMENT before it looks for a duplicate, *)
(* so every statement uses one up, and the statement never fails for want  *)
(* of one: LAST_INSERT_ID is the id of the row it hit.                     *)
(***************************************************************************)
UpsertProductRow(key, family, attributes) ==
    /\ products' = [products EXCEPT ![Hit(key)] =
                      IF @.id = 0
                      THEN [id |-> nextID, family |-> family, attributes |-> attributes]
                      ELSE [@ EXCEPT !.attributes = attributes]]
    /\ nextID' = NextID
    /\ UNCHANGED prices

(* Mutation: INSERT IGNORE. *)
InsertPriceRow(id, hash, value) ==
    /\ InProducts(id)
    /\ prices' = IF prices[<<id, hash>>] = Missing
                 THEN [prices EXCEPT ![<<id, hash>>] = value] ELSE prices
    /\ UNCHANGED <<products, nextID>>

(***************************************************************************)
(* INSERT INTO pricing_product_prices ... ON DUPLICATE KEY UPDATE: the     *)
(* product has to exist (foreign key); a duplicate is overwritten whole.   *)
(***************************************************************************)
UpsertPriceRow(id, hash, value) ==
    /\ InProducts(id)
    /\ prices' = [prices EXCEPT ![<<id, hash>>] = value]
    /\ UNCHANGED <<products, nextID>>
=============================================================================
