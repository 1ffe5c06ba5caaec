------------------------------ MODULE CostPlan ------------------------------
(***************************************************************************)
(* EstimateTerraformPlan from the queries on: NewState prices the queries  *)
(* of the prior state, then those of the planned one, component by         *)
(* component with two calls to the backend each, while ingestions change   *)
(* the tables between any two calls; then the two states are a Plan.       *)
(*                                                                         *)
(* A Filter stands for the product and price filters of a component; the   *)
(* tables answer with the rows they have, of which NewState takes the      *)
(* first: `match` and `price` are the first rows.                          *)
(***************************************************************************)
EXTENDS Cost

CONSTANTS Addresses, Labels, Filters, Products,
          Amounts,        \* the amounts of prices
          Requests,       \* the queries of prior and planned states
          NoProduct,      \* no row of pricing_products matches
          MaxIngestions   \* bound on the changes of the tables

ASSUME AmountsAssumption == Amounts \subseteq Nat
ASSUME MaxIngestionsAssumption == MaxIngestions \in Nat

Prices  == [amount : Amounts, currency : Currencies]
Queries == [address : Addresses,
            components : Seq([label : Labels, filter : Filters, hourly : Nat, monthly : Nat])]

(* An address identifies a resource: no list of queries names one twice.  *)
(* No resource has two components of one name (ComponentsAreDistinct of   *)
(* module Estimators).                                                    *)
ASSUME RequestsAssumption ==
    /\ Requests \subseteq [prior : Seq(Queries), planned : Seq(Queries)]
    /\ \A q \in Requests : \A list \in {q.prior, q.planned} : \A i \in 1..Len(list) :
          /\ \A j \in 1..Len(list) : list[i].address = list[j].address => i = j
          /\ \A j, k \in 1..Len(list[i].components) :
                list[i].components[j].label = list[i].components[k].label => j = k

NoPrice == [amount |-> -1, currency |-> NoCurrency]

VARIABLES
    request,     \* the queries
    match,       \* the first product each filter finds
    price,       \* the first price of each product
    held,        \* history: the matches and prices of the tables so far
    ingestions,  \* changes of the tables so far
    phase,       \* the state being priced: "prior", "planned", "done" or "failed"
    step,        \* the next call: "resource", "product" or "price"
    r, c,        \* the query and the component NewState is at
    found,       \* prods[0]
    states       \* the states priced: phase |-> Resources, by address

tables == <<match, price, held, ingestions>>
vars == <<request, tables, phase, step, r, c, found, states>>

Phases == {"prior", "planned"}

(* Maps that have nothing in them yet, and a State that was not made. *)
NilMap == [k \in {} |-> k]
Nil    == [nil |-> TRUE, resources |-> NilMap]

List      == request[phase]
Component == List[r].components[c]
Unpriced  == [rate |-> Zero, quantity |-> 0, error |-> TRUE]

(* The map with `v` at the key `k`. *)
Put(map, k, v) == [x \in DOMAIN map \cup {k} |-> IF x = k THEN v ELSE map[x]]

Components == [rate : [amount : Nat, currency : Currencies \cup {NoCurrency}],
               quantity : Nat, error : BOOLEAN]

(* A Resource and a State: maps of some of the labels and addresses.  No  *)
(* skipped one has components, and one with an error has nothing else.    *)
IsResource(res) ==
    /\ res = [skipped |-> res.skipped, components |-> res.components]
    /\ res.skipped \in BOOLEAN
    /\ DOMAIN res.components \subseteq Labels
    /\ \A l \in DOMAIN res.components :
          /\ res.components[l] \in Components
          /\ ~res.skipped /\ (res.components[l].error => res.components[l] = Unpriced)

IsState(state) ==
    /\ state = [nil |-> state.nil, resources |-> state.resources]
    /\ state.nil \in BOOLEAN
    /\ DOMAIN state.resources \subseteq Addresses
    /\ \A a \in DOMAIN state.resources : IsResource(state.resources[a])

TypeOK ==
    /\ request \in Requests
    /\ match \in [Filters -> Products \cup {NoProduct}]
    /\ price \in [Products -> Prices \cup {NoPrice}]
    /\ found \in Products \cup {NoProduct}
    /\ ingestions \in 0..MaxIngestions
    /\ phase \in Phases \cup {"done", "failed"}
    /\ step \in {"resource", "product", "price"}
    /\ phase \in Phases => r \in 1..(Len(List) + 1)
    /\ phase \in Phases /\ step # "resource" => c \in 1..Len(List[r].components)
    /\ states = [p \in Phases |-> states[p]]
    /\ \A p \in Phases : IsState(states[p])

Init ==
    /\ request \in Requests
    /\ match \in [Filters -> Products \cup {NoProduct}]
    /\ price \in [Products -> Prices \cup {NoPrice}]
    /\ held = [match |-> {match}, price |-> {price}]
    /\ ingestions = 0
    /\ phase = "prior" /\ step = "resource" /\ r = 1 /\ c = 1 /\ found = NoProduct
    /\ states = [p \in Phases |-> Nil]

-----------------------------------------------------------------------------
Go(p) == phase' = p /\ step' = "resource" /\ r' = 1 /\ c' = 1

(* NewState of no queries is ErrNoQueries: EstimateTerraformPlan goes on  *)
(* without a prior state, and fails without a planned one.                *)
NoQueries ==
    /\ phase \in Phases
    /\ List = <<>>
    /\ Go(IF phase = "prior" THEN "planned" ELSE "failed")
    /\ UNCHANGED <<request, tables, found, states>>

(* ensureResource: one without components is skipped. *)
EnsureResource ==
    /\ phase \in Phases
    /\ step = "resource"
    /\ r <= Len(List)
    /\ LET skipped == List[r].components = <<>>
           new     == [skipped |-> skipped, components |-> NilMap]
       IN  /\ states' = [states EXCEPT ![phase] =
                [nil |-> FALSE,
                 resources |-> IF List[r].address \in DOMAIN @.resources THEN @.resources
                               ELSE Put(@.resources, List[r].address, new)]]
           /\ IF skipped THEN r' = r + 1 /\ UNCHANGED step
                         ELSE step' = "product" /\ UNCHANGED r
    /\ c' = 1
    /\ UNCHANGED <<request, tables, phase, found>>

(* Mutation: one component too many. *)
AddComponentOneMore(component) ==
    /\ states' = [states EXCEPT ![phase].resources[List[r].address].components =
                     Put(@, Component.label, component)]
    /\ IF c <= Len(List[r].components)
       THEN c' = c + 1 /\ step' = "product" /\ UNCHANGED r
       ELSE c' = 1 /\ r' = r + 1 /\ step' = "resource"

(* addComponent, and on to the next component. *)
AddComponent(component) ==
    /\ states' = [states EXCEPT ![phase].resources[List[r].address].components =
                     Put(@, Component.label, component)]
    /\ IF c < Len(List[r].components)
       THEN c' = c + 1 /\ step' = "product" /\ UNCHANGED r
       ELSE c' = 1 /\ r' = r + 1 /\ step' = "resource"

(* Products().Filter finds the product. *)
FindProduct ==
    /\ phase \in Phases
    /\ step = "product"
    /\ match[Component.filter] # NoProduct
    /\ found' = match[Component.filter]
    /\ step' = "price"
    /\ UNCHANGED <<request, tables, phase, r, c, states>>

(* A call of the backend fails, or finds nothing: the component has the error. *)
FindNothing ==
    /\ phase \in Phases
    /\ step \in {"product", "price"}
    /\ AddComponent(Unpriced)
    /\ found' = NoProduct
    /\ UNCHANGED <<request, tables, phase>>

(* Mutation: the hourly price is the rate. *)
RateUnscaled(component, first) ==
    IF component.monthly # 0
    THEN [rate |-> NewMonthly(first), quantity |-> component.monthly, error |-> FALSE]
    ELSE [rate |-> NewMonthly(first), quantity |-> component.hourly, error |-> FALSE]

(* The quantity per month, or else the one per hour. *)
Rate(component, first) ==
    IF component.monthly # 0
    THEN [rate |-> NewMonthly(first), quantity |-> component.monthly, error |-> FALSE]
    ELSE [rate |-> NewHourly(first), quantity |-> component.hourly, error |-> FALSE]

(* Prices().Filter finds the price. *)
FindPrice ==
    /\ phase \in Phases
    /\ step = "price"
    /\ price[found] # NoPrice
    /\ AddComponent(Rate(Component, price[found]))
    /\ found' = NoProduct
    /\ UNCHANGED <<request, tables, phase>>

(* The last query is priced. *)
StateMade ==
    /\ phase \in Phases
    /\ step = "resource"
    /\ r = Len(List) + 1 /\ List # <<>>
    /\ Go(IF phase = "prior" THEN "planned" ELSE "done")
    /\ UNCHANGED <<request, tables, found, states>>

(* An ingestion changes what a filter finds first, or the first price of a *)
(* product; no price is ever removed.                                      *)
Ingest ==
    /\ phase \in Phases
    /\ ingestions < MaxIngestions
    /\ ingestions' = ingestions + 1
    /\ \/ \E k \in Filters, p \in Products \cup {NoProduct} :
             match' = [match EXCEPT ![k] = p] /\ UNCHANGED price
       \/ \E p \in Products, new \in Prices :
             price' = [price EXCEPT ![p] = new] /\ UNCHANGED match
    /\ held' = [match |-> held.match \cup {match'}, price |-> held.price \cup {price'}]
    /\ UNCHANGED <<request, phase, step, r, c, found, states>>

Finished == phase \in {"done", "failed"} /\ UNCHANGED vars

Next ==
    \/ NoQueries \/ EnsureResource \/ FindProduct \/ FindNothing \/ FindPrice \/ StateMade
    \/ Ingest \/ Finished

Spec == Init /\ [][Next]_vars

-----------------------------------------------------------------------------
(* Component.Cost, and the costs of what a map of components adds up to. *)
ComponentCost(comp) ==
    IF comp.rate.amount = 0 \/ comp.quantity = 0 THEN Zero
    ELSE MulDecimal(comp.rate, comp.quantity)

ComponentCosts(comps) == [l \in DOMAIN comps |-> ComponentCost(comps[l])]

(* Resource.Cost, in any order of its components. *)
ResourceCosts(res) == Sums(ComponentCosts(res.components))

(* State.Cost, in any order of resources and of their components. *)
StateCosts(state) ==
    LET res == state.resources
    IN  UNION {Sums(costs) : costs \in
                 {f \in [DOMAIN res -> UNION {ResourceCosts(res[a]) : a \in DOMAIN res}] :
                     \A a \in DOMAIN res : f[a] \in ResourceCosts(res[a])}}

Unskipped(state) == {a \in DOMAIN state.resources : ~state.resources[a].skipped}
Skipped(state)   == DOMAIN state.resources \ Unskipped(state)

(* Mutation: a resource of both states keeps its prior side only. *)
MergePriorFirst ==
    LET prior == states["prior"] planned == states["planned"]
    IN  [a \in Unskipped(prior) \cup Unskipped(planned) |->
            [p \in Phases |-> IF (p = "planned" /\ a \in Unskipped(prior)) \/ a \notin Unskipped(states[p])
                              THEN NilMap ELSE states[p].resources[a].components]]

(* ResourceDifferences: by address, the components of each state.  A       *)
(* component that one state has and the other has not is nil there.        *)
ResourceDifferences ==
    [a \in Unskipped(states["prior"]) \cup Unskipped(states["planned"]) |->
        [p \in Phases |-> IF a \in Unskipped(states[p])
                          THEN states[p].resources[a].components ELSE NilMap]]

SkippedAddresses == Skipped(states["prior"]) \cup Skipped(states["planned"])

(* ResourceDiff.PriorCost and PlannedCost. *)
DiffCosts(diff, p) == Sums(ComponentCosts(diff[p]))

(* Mutation: only the prior side is looked at. *)
DiffErrorsPrior(diff) == {l \in DOMAIN diff["prior"] : diff["prior"][l].error}

(* ResourceDiff.Errors: the prior error hides the planned one. *)
DiffErrors(diff) == {l \in DOMAIN diff["prior"] \cup DOMAIN diff["planned"] :
                       \E p \in Phases : l \in DOMAIN diff[p] /\ diff[p][l].error}

-----------------------------------------------------------------------------
(* The cost of a state, or that it has none because currencies differ, is *)
(* the same in whatever order Go iterates over the maps.                  *)
OrderIsIrrelevant ==
    phase = "done" => \A p \in Phases : \A x, y \in StateCosts(states[p]) : x = y

(* The differences of the resources add up to the costs of the plan, in   *)
(* the prior state and in the planned one: none is lost or counted twice. *)
DifferencesAddUp ==
    phase = "done" => \A p \in Phases :
        LET diffs == ResourceDifferences
        IN  Sums([a \in DOMAIN diffs |-> CHOOSE x \in DiffCosts(diffs[a], p) : TRUE])
              = StateCosts(states[p])

(* Nothing asked for is silently free: each component of each query is    *)
(* either in its state with a price the tables held meanwhile, hourly or  *)
(* monthly as it was asked for, or among the errors of its difference.    *)
PricedOrReported ==
    phase = "done" => \A p \in Phases : \A i \in 1..Len(request[p]) :
        LET q == request[p][i]
        IN  /\ q.components = <<>> => q.address \in SkippedAddresses
            /\ \A j \in 1..Len(q.components) :
                 LET comp == q.components[j]
                     diff == ResourceDifferences[q.address]
                     perMonth == IF comp.monthly # 0 THEN comp.monthly
                                 ELSE comp.hourly * HoursPerMonth
                 IN  \/ comp.label \in DiffErrors(diff)
                     \/ \E m \in held.match, x \in held.price :
                          LET cost == x[m[comp.filter]]
                          IN  /\ m[comp.filter] # NoProduct /\ cost # NoPrice
                              /\ ComponentCost(diff[p][comp.label]) =
                                   IF cost.amount * perMonth = 0 THEN Zero
                                   ELSE [cost EXCEPT !.amount = @ * perMonth]

(* If the tables were left alone, what a plan does not change costs the   *)
(* same before and after, or the difference has an error.                 *)
UnchangedCostsTheSame ==
    phase = "done" /\ ingestions = 0 =>
        \A i \in 1..Len(request.prior), j \in 1..Len(request.planned) :
            LET q == request.prior[i]
            IN  q = request.planned[j] /\ q.components # <<>> =>
                   LET diff == ResourceDifferences[q.address]
                   IN  DiffErrors(diff) # {} \/ DiffCosts(diff, "prior") = DiffCosts(diff, "planned")

(***************************************************************************)
(* Why these hold.  A state has the resources of the queries begun, each   *)
(* with the components priced so far, and each of these has the error or a *)
(* price that the tables held since the beginning.                         *)
(***************************************************************************)
Over(p)   == phase \in {"done", "failed"} \/ (p = "prior" /\ phase = "planned")
Begun(p)  == {i \in 1..Len(request[p]) :
                Over(p) \/ (phase = p /\ (i < r \/ (i = r /\ step # "resource")))}
Asked(p, i) == {j \in 1..Len(request[p][i].components) : Over(p) \/ i < r \/ j < c}

IsAnswer(component, answer) ==
    \/ answer = Unpriced
    \/ \E m \in held.match, x \in held.price :
          LET first == m[component.filter]
          IN  first # NoProduct /\ x[first] # NoPrice /\ answer = Rate(component, x[first])

HeldIsKnown ==
    /\ held.match \subseteq [Filters -> Products \cup {NoProduct}] /\ match \in held.match
    /\ held.price \subseteq [Products -> Prices \cup {NoPrice}] /\ price \in held.price
    /\ ingestions = 0 => held.match = {match} /\ held.price = {price}
    /\ phase \in Phases /\ step # "resource" => r \in 1..Len(List)
    /\ phase \in Phases /\ step = "price" =>
          found # NoProduct /\ \E m \in held.match : found = m[Component.filter]

Follows(p, i) ==
    LET q   == request[p][i]
        res == states[p].resources[q.address]
    IN  /\ res.skipped <=> q.components = <<>>
        /\ DOMAIN res.components = {q.components[j].label : j \in Asked(p, i)}
        /\ \A j \in Asked(p, i) : IsAnswer(q.components[j], res.components[q.components[j].label])

StatesFollow ==
    \A p \in Phases :
        /\ DOMAIN states[p].resources = {request[p][i].address : i \in Begun(p)}
        /\ \A i \in Begun(p) : Follows(p, i)

IInv == TypeOK /\ HeldIsKnown /\ StatesFollow
=============================================================================
