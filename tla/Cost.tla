-------------------------------- MODULE Cost --------------------------------
(***************************************************************************)
(* Costs and how they are added up.  A Cost is a monthly amount with its   *)
(* currency; Zero has none.  Go iterates over its maps in any order, so    *)
(* the sum of a map of costs is a set: what each order of its keys gives.  *)
(***************************************************************************)
EXTENDS Integers, SequencesExt

CONSTANT Currencies

HoursPerMonth == 730
NoCurrency    == ""

ASSUME CurrencyAssumption == NoCurrency \notin Currencies

Zero     == [amount |-> 0, currency |-> NoCurrency]
Mismatch == [amount |-> -1, currency |-> NoCurrency]   \* the error of a sum

(* What prices and quantities give: Zero, or an amount in a currency. *)
Costs == {Zero} \cup [amount : Nat \ {0}, currency : Currencies]

NewMonthly(price) == price
NewHourly(price)  == [price EXCEPT !.amount = @ * HoursPerMonth]

MulDecimal(c, d) == [c EXCEPT !.amount = @ * d]

(* Mutation: a zero cost is added as any other. *)
AddAlways(c, c2) ==
    LET currency == IF c.currency = NoCurrency THEN c2.currency ELSE c.currency
    IN  IF c = Mismatch \/ currency # c2.currency THEN Mismatch
        ELSE [amount |-> c.amount + c2.amount, currency |-> currency]

(* Cost.Add: zero changes nothing, and a sum takes the first currency it  *)
(* meets.  The loops that add end at the first error.                     *)
Add(c, c2) ==
    LET currency == IF c.currency = NoCurrency THEN c2.currency ELSE c.currency
    IN  IF c = Mismatch \/ c2 = Zero THEN c
        ELSE IF currency # c2.currency THEN Mismatch
        ELSE [amount |-> c.amount + c2.amount, currency |-> currency]

(* The loop over a map of costs, in the order in which it meets the keys; *)
(* the error of a cost is the error of the sum.                           *)
AddTo(costs, total, k) == IF costs[k] = Mismatch THEN Mismatch ELSE Add(total, costs[k])

Total(costs, order) == FoldLeft(LAMBDA total, k : AddTo(costs, total, k), Zero, order)

(* The sums of the map `costs`. *)
Sums(costs) == {Total(costs, order) : order \in SetToSeqs(DOMAIN costs)}
=============================================================================
