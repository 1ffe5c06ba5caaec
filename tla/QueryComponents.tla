--------------------------- MODULE QueryComponents ---------------------------
(***************************************************************************)
(* What the estimators of the providers are written with: the values of a  *)
(* resource decoded into the struct of its type, and the components that   *)
(* ask for prices.                                                         *)
(*                                                                         *)
(* A struct is a record that starts as its zero value.  A component has a  *)
(* name, a quantity per hour or per month, the product and the price it    *)
(* asks for, and whether it comes from the usage.  Details, units that are *)
(* only printed and the provider's key, the same in all the products of an *)
(* estimator, are left out.  Quantities are integers.                      *)
(***************************************************************************)
EXTENDS Integers, Sequences, FiniteSets, TLC

CONSTANT Undecodable    \* values that do not decode into the struct

Nothing == [x \in {} |-> x]
Unfiltered == "*"                     \* a filter that is nil

(* mapstructure's Decode into the zero value of a struct: what the values  *)
(* do not have stays zero.                                                 *)
Decode(zero, values) == [f \in DOMAIN zero |-> IF f \in DOMAIN values THEN values[f] ELSE zero[f]]

(* The first of a list of blocks; the zero value where there is none.      *)
FirstBlock(zero, blocks) == IF blocks = <<>> THEN zero ELSE Decode(zero, blocks[1])

Default(x, missing, default) == IF x = missing THEN default ELSE x
Positive(n, default) == IF n > 0 THEN n ELSE default

(* The values of a resource of which only the usage counts.                *)
UsageValues == [tc_usage |-> Nothing]

(* A look-up in a map, and the zero value where there is no such key.      *)
LookUp(map, key, zero) == IF key \in DOMAIN map THEN map[key] ELSE zero

(* An append under a condition. *)
Where(condition, component) == IF condition THEN <<component>> ELSE <<>>

-----------------------------------------------------------------------------
(* Component, product.Filter, price.Filter and their attribute filters.    *)
Is(text)   == [is |-> text]
Like(text) == [like |-> text]

Product(service, family, location, attributes) ==
    [service |-> service, family |-> family, location |-> location, attributes |-> attributes]

Hourly(name, quantity, product, price) ==
    [name |-> name, period |-> "hour", quantity |-> quantity, usage |-> FALSE,
     product |-> product, price |-> price]

Monthly(name, quantity, product, price) ==
    [Hourly(name, quantity, product, price) EXCEPT !.period = "month"]

(* A component with Usage: true. *)
OfUsage(component) == [component EXCEPT !.usage = TRUE]

Price(unit, attributes) == [unit |-> unit, attributes |-> attributes]
NoPriceFilter   == Price(Unfiltered, Nothing)
OnDemand        == "TermType" :> Is("OnDemand")
StartingAt(n)   == "StartingRange" :> Is(n)

-----------------------------------------------------------------------------
(* strings.Split(text, separator)[0], HasPrefix, HasSuffix and Contains.   *)
Before(text, separator) ==
    LET cuts == {i \in 1..Len(text) : SubSeq(text, i, i) = separator}
    IN  IF cuts = {} THEN text
        ELSE SubSeq(text, 1, (CHOOSE i \in cuts : \A j \in cuts : i =< j) - 1)

HasPrefix(text, prefix) ==
    Len(text) >= Len(prefix) /\ SubSeq(text, 1, Len(prefix)) = prefix

HasSuffix(text, suffix) ==
    Len(text) >= Len(suffix) /\ SubSeq(text, Len(text) - Len(suffix) + 1, Len(text)) = suffix

Contains(text, part) ==
    \E i \in 0..(Len(text) - Len(part)) : SubSeq(text, i + 1, i + Len(part)) = part
=============================================================================
