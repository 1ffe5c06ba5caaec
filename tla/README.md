# terracost: specifications, model checks and proofs

terracost estimates what a Terraform plan, a Terraform directory or a
Terragrunt stack costs per month. It has two halves that share one database:

* **ingestion** downloads the price lists of AWS, Azure or Google and stores
  products and prices in MySQL;
* **estimation** turns Terraform into queries (this resource needs these
  components, in these quantities, of the product that matches this filter),
  prices the queries from the database and adds the costs up.

This directory has TLA+ specifications of both halves, TLC configurations that
check them on small instances, and proofs, checked by TLAPS, of what matters
most of the ingestions, of the queries of plans and of HCL, of EstimateHCL and of the
costs of a plan, for instances of any size.
`PROJECT.json` lists the runs, the theorems, the hazards of the code and the
lines each definition stands for.

To check: `tlc -config <cfg> <module>` and `tlapm <module>` in this directory.

## 1. The system

| Component | State | Operations | Interacts with | Hard part | Correct when |
|---|---|---|---|---|---|
| `ingestion.go` | map SKU → product id | range over a channel, upsert product once, upsert each price, ask for the error | an `Ingester` by channel, the backend by calls | failures at every call, end of channel means end of list or failure, cancellation | success means the whole list is stored; prices are filed under their product |
| `aws/ingester.go` | error, channel, CSV position | download, read labels, read, parse, filter, send; report progress | HTTP, the consumer, the caller's progress channel | two goroutines and their ends | everything kept is sent once and in order; both goroutines end |
| `azurerm/ingester.go` | error, two channels | fetch pages, convert, send | HTTP, the consumer | status and link errors that are not looked at, two goroutines, one context | as above |
| `google/ingester.go` | error, three channels, map of machine prices | fetch SKUs, fetch machine types, price machines from SKUs, send | Google API, the consumer | error written by several goroutines, prices that depend on what came before | as above; a machine costs its CPUs and its memory |
| `mysql/` | two tables, unique keys, foreign key, AUTO_INCREMENT | upsert, filter, delete with keep | everyone above and below | repeated and concurrent statements, lost answers | one row per key, with what was written last |
| `cost/` | states: resources and components | `NewState`, costs, differences, skipped addresses, errors | the backend, two calls per component | tables that change meanwhile, iteration order, missing prices, currencies | nothing lost, counted twice or silently free |
| `estimation.go` | temporary directory, channel of the run, plans | `EstimateTerraformPlan`, `EstimateHCL` | all of estimation, Terragrunt in a goroutine | cancellation against a run at work, one module failing | one plan per module, after a successful run; cancellation ends the call |
| `terraform/plan.go` | providers, resources | read a plan, find providers, extract prior and planned queries | providers, usage | prior resources that the configuration no longer has, merging of values | one query per managed resource of each state |
| `terraform/hcl.go` | evaluation context, resources, providers | evaluate, expand `count` and `for_each`, resolve references, recurse into modules | HCL library, providers, usage | a context changed in place, resolution in map order | one query per instance, whatever the order |
| providers and estimators (`*/terraform_provider.go`, `*/terraform/*.go`) | none | components of a resource | the resources it refers to | quantities, regions and defaults | the right products in the right quantities |
| `usage/`, regions, CSV fields | constant tables | look-ups | estimators, ingesters | - | - |

The hazards of each are in `PROJECT.json`, at their lines. Many bite at the
boundaries: a channel's end against its error, a SKU against the (SKU,
location) of the unique key, a call to the tables against the next one.

## 2. The modules

```
ingestion
  PriceBook (abstract)
     ^ implemented by
  PricingStore <- IngestPricing <- AwsIngestion    <- MCAwsIngestion
                        ^-------- AzureIngestion   <- MCAzureIngestion
                                  GoogleIngestion  <- MCGoogleIngestion
estimation
  PlanQueries   <- MCPlanQueries          HCLQueries <- MCHCLQueries
  QueryComponents <- AwsCompute <- AwsDatabases <- AwsServices --\
         ^---------- AzureCompute <- AzureServices --------------- Estimators <- MCEstimators
  EstimateHCL   <- MCEstimateHCL
  Cost <- CostPlan <- MCCostPlan
proofs, each about the module it is named after
  IngestPricingProofs <- AwsIngestionProofs, AzureIngestionProofs
  GoogleIngestionProofs, EstimateHCLProofs, PlanQueriesProofs, HCLQueriesProofs
  CostPlanProofs, about Cost and CostPlan
```

An estimation goes through `PlanQueries` or `HCLQueries` (which resources, with
which values and which provider), `Estimators` (which components and filters a
resource asks for) and `CostPlan` (what the components cost). The modules meet
in queries, of which each has what its properties tell apart: in `PlanQueries`
and `HCLQueries` the components of a resource are the values they are made
from, in `Estimators` the quantities and filters, in `CostPlan` a filter is a
model value.

**PricingStore** has the two tables as functions from their unique keys, and
the two upserts. An upsert of a product that exists changes its attributes
only, never its service or family, and takes a value of AUTO_INCREMENT all the
same, as InnoDB does. Once the largest id is taken (`IDsLeft` is false) the
statement does not fail: it is a duplicate of the row that has this id, whatever
its product, and updates and returns that one (`Hit`).

**IngestPricing** is the consumer, `IngestPricing` of `ingestion.go`: the range
loop (`ReceiveRow`), an upsert of a product or of a price that succeeds, or one
that fails before or after the statement took effect, the end of the loop, and
the deferred `cancel`. A `price.WithProduct` is the position of its row in the
price list, the identity of the pointer the code passes.

**AwsIngestion** puts the goroutine of `aws.Ingester.Ingest` and the one that
reports progress beside it. A price list is a sequence of rows, with what makes
the code branch: whether a row parses, is kept by the filter, has a currency
that `currency.ParseISO` knows. Every network call may fail, the context may be
cancelled and the process killed at any step; the tables stay, and the caller
starts again with a new `Ingester` and a list that may have changed. A
goroutine of an earlier run that still waits shares nothing with the new one
and is not followed further.

**PriceBook** is what an ingestion promises, whatever the provider: a map from
product and hash to price takes over the entries of the list one at a time and
in order; a run may stop anywhere, with the next entry written or not, and
succeeds only at the end of the list. `UseUpIDs` gives the last id away, and from
then on an entry may be filed under any product. AwsIngestion implements it:
`ImplementsPriceBook`, with the map that joins the two tables (`BookOf`), the
number of acknowledged rows and the verdict of the run.

**AzureIngestion** has the two goroutines of `azurerm.Ingester` before
IngestPricing: `fetchPrices` asks for a page, sends its items on one channel,
and follows the link to the next; `Ingest` converts items and sends rows on
another. How the server cuts a list into pages is its choice at each request, as
is an error page in JSON, whose status the code does not look at. A link to the
next page is good, bad or missing.

**GoogleIngestion** has the goroutine of `google.Ingester.Ingest` with the two
fetchers it ranges over, first the SKUs, then the machine types. `Remember` is
the map of prices per family, `MachineRow` the price of a machine put together
from it, with the memory divided by 1000 as an integer, and `AddPrice` is
`price.Price.Add`. ing.err has three writers, as in the code. Its consumer is
shorter than IngestPricing: what is stored is a sequence, or a step fails.

**PlanQueries** is `terraform/plan.go`: `ExtractProviders`, the walk over the
configuration (`ConfigureModule`, in any order), then over the modules of the
planned or the prior state (`ExtractModule`), the merge of values, and one
query per resource of the module (`QueryResource`, in any order). An address is a
path of module calls, a name and an index, and `Clean` takes the indexes away,
as the regular expression does. A `provider_config_key` is the sequence of its
parts, of which the code takes the last (`ProviderKey`), so that a provider
configured in a child module is looked up as the root's of that name. An
expression is of the kinds the code branches on.

**HCLQueries** is `extractHCLModule`: a stack of frames, one per call on the way,
each expanding its resources (`ExpandResource`), then replacing references and
querying (`QueryResource`), then calling its children (`CallChild`), every time
in any order a map can be walked. The evaluation context, the map of providers
and the resources are shared and changed in place as in the code. What the HCL
library evaluates is `Eval` of an expression of a few kinds. `ConfigsAssumption` says
what the loader guarantees: a module is there if and only if another one calls it, and
the resources of a module have names of their own. The arguments of a call are
constants (null is one), variables and elements of `for_each`: a reference to a resource
cannot be evaluated there and is left out by the code, and a list made of variables is
not modelled. Going through them (`Argument`), the code puts the value of an argument in
the caller's context when a later one uses its name (`UseArgument`), and panics if that
name is no variable's; it looks at the attribute `providers` in the same way, and panics
if a provider passed there has no alias (`ProvidersPanic`; `AliasKeys` are the keys that
have one; that an argument is named like an alias is not modelled). A variable without
a default, or given as null, is null. An element of `for_each` is a map, a scalar, null
or something that cannot be converted: `EachOf` is what `each.value` becomes, a scalar
a map of its key, and `Convertible` the elements that have an instance. A value inside a
list is a string, and a null there has no type. `VariablesAssumption` and
`AttributesAssumption` say that defaults are constants, null among them, or maps of
constants, and that a module's attributes are there, and `IndexAssumption` that the mark
of an address without an index is not a number. `HandedDown` is what Terraform
means by an inherited or passed provider: a chain of names, one per call on the way.

**QueryComponents** has filters and components, and how the values of a resource
are decoded into a struct. **AwsCompute**, **AwsDatabases**, **AwsServices**,
**AzureCompute** and **AzureServices** (which has Google's one estimator as well)
are the estimators: for each resource type the record of its decoded values,
the constructor (`New...`) with its defaults and what it takes from the
resources it refers to, and the components, with names, quantities and filters.
Texts appear where a filter is made of them; a size such as `Standard_D2s_v3`
is the sequence of its parts. **Estimators** dispatches on provider and type,
gives a resource its usage and queries the resources of a module in any order,
and has the minimal filters of the ingesters beside the queries they must serve.

**EstimateHCL** is the function of that name: the look for a Terragrunt file,
the plain path, the copy to a temporary directory, the goroutine that runs the
stack, the `select`, the loop over modules, and the panics the code has. The
deferred calls (`Deferred`) run on every return and on every panic of the caller's
own goroutine; a panic of the goroutine of the run ends the process as it is. What Terragrunt and the HCL extraction find out
about a module is its verdict.

**Cost** and **CostPlan** are the arithmetic of costs and
`EstimateTerraformPlan` from the queries on. A filter stands for the product
and price filters of a component. The tables are what each filter finds first
and each product's first price, and change between any two calls (`Ingest`).
A map has no order: a sum over a map is the *set* of results over all orders of
its keys, and the properties say when that set is a singleton.

## 3. What the runs show

| Run | Bounds | Shows |
|---|---|---|
| `AwsIngestion` | 3 SKUs, 2 prices each, lists of up to 4 rows, channel of 1, 2 runs, 3 ids; 57 thousand states | `SuccessIsComplete`, `StoredInOrder`, `StoreFollowsFeed`, `WritesAreFromFeed`, `IngestionEnds`, `ReportEnds`, `ImplementsPriceBook` |
| `AwsProducerLeak` | the same | violates `ProducerEnds`: see findings |
| `AzureIngestion` | 5 lists of up to 6 items, one with a SKU in two locations, in pages of any size, channels of 2 and 1, 2 runs, ids that suffice; 81 thousand states | `NothingDecodedIsLost`, `StoredInOrder`, `WritesAreOfTheSKU`, `GoroutinesEnd` |
| `GoogleIngestion` | 4 pairs of lists of up to 3 SKUs and 2 machine types; 2 thousand states | `SuccessIsWhole`, `StoredInOrder`, `NoErrorAfterSuccess`, `IngestionEnds` |
| `PlanQueries` | 12 plans with a root and child modules, called once or with an index, one with providers of its own, each resource new, kept, changed or removed; 747 states | `QueriesMatchState`, `ValuesOfTheState`, `ReferencesResolve` |
| `PlanPanics` | the same | violates `NeverPanics`: see findings |
| `HCLQueries` | 8 trees of up to 6 modules and 3 levels; 6 thousand states | `InstancesMatchConfiguration`, `ProvidersAreHandedDown`, `ValuesAreOwn`, `ReferencesAreFollowed` |
| `Estimators` | every resource type at each value its code branches on, up to 3 resources that refer to each other; 30 thousand states | `ComponentsAreDistinct`, `GroupsScale`, `SizesAreCovered` |
| `MinimalFilter` | the same | violates `UsedPricesAreIngested`: see findings |
| `EstimateHCL` | stacks of every pair of verdicts, every plain directory | `OnePlanPerModule`, `ModulesAreSettled`, `TmpdirIsRemoved`, `CancelEndsWait` |
| `EstimateHCLCancelled` | the same | violates `CancelIsAnError`: see findings |
| `CostPlan` | 2 resources of up to 2 components, 2 filters and products, 2 currencies, one change of the tables; 806 thousand states | `OrderIsIrrelevant`, `DifferencesAddUp`, `PricedOrReported`, `UnchangedCostsTheSame` |

Each passing run but `Estimators`, whose values have no one type, checks its module's `TypeOK` as well.

*Why the bounds are enough.* A channel of 1 is full after one row, so that
every interleaving of a waiting sender with a returning consumer occurs; the
theorems hold for any capacity. The price lists have a row that overwrites
another across a row of another product, a row the filter drops, a product
whose family changes between runs, and each way a list can be bad in its
middle. With 3 ids, a second run can use up AUTO_INCREMENT before the first row
of a product, which then is misfiled; the 4 ids of the Azure run never run out.
Two modules suffice for
one to fail before or after another, as a module's estimate depends on no other.
Two components in each of two resources and two currencies are the least that
lets an order of addition matter twice, inside a resource and across them.

Azure's lists are cut into every sequence of pages, and six items are enough to
fill both channels and both goroutines' hands once the consumer has returned.
Google's have a family whose core is priced twice, a machine below a GiB, prices
in two currencies and SKUs of other regions. The plans have modules, resources
and blocks that only the prior or only the planned state has, and a child module
with a provider of the name of one of the root and another the root has not. The
modules of HCLQueries are called once, counted and nested, a resource comes before or
after the one it refers to, `for_each` goes over elements of each kind, a call gives a
variable as null that its module has a default for, and arguments cross, or panic. The
estimators are functions: what matters is that each branch and each side of each
limit is taken, in the values, the usages and the references, a reference to
nothing among them.

*Fairness.* In AwsIngestion each goroutine takes a step whenever it can (weak
fairness of `Produce`, `ConsumerStep`, `ProgressEnds` once the body has come to
its end or the context is done): the Go runtime schedules goroutines, calls to
the network and the database return with an answer or an error, and the caller
reads its progress channel. Nothing makes anybody cancel, die or start again.
In AzureIngestion and GoogleIngestion it is the same for the fetcher, the
goroutine of `Ingest` and the consumer. `GoroutinesEnd` leaves out what
`AwsProducerLeak` shows of AWS, a goroutine before a full channel nobody reads.
In EstimateHCL only the caller's own steps are fair; `stack.Run` may take for
ever, which is why `CancelEndsWait` is worth stating. The other modules are
sequential and have safety properties only.

### Findings

* *The AWS producer is left waiting.* `results <- pp` (aws/ingester.go:156) is
  not in a `select` with the context. Once `IngestPricing` returned on a failed
  upsert, a full channel is read by nobody, and the goroutine and its
  connection stay. The comment at aws/ingester.go:72 says it sends "for the
  duration of the context". (Run `AwsProducerLeak`.)
* *A cancelled EstimateHCL may end the process.* The deferred `close(tgRun)`
  (estimation.go:239) runs when the wait is cancelled, and the goroutine then
  sends on the closed channel (line 245), where estimation.go:227 wants "to
  surface their context.Cause". (Run `EstimateHCLCancelled`.)

* *The extraction of prior queries may panic.* Nested blocks are merged by
  position (terraform/plan.go:224); a plan that adds a block has fewer of them
  in its prior state, and one that adds the first tags has null for them
  there, which is not the map that line 212 asserts. terraform/plan.go:62 says that the function "extracts a
  query.Resource slice". (Run `PlanPanics`.)
* *The minimal filter drops prices that are used.* Of EC2 it skips the families
  `CPU Credits` and `IP Address` (aws/filter.go:69), for which instances and
  addresses ask; aws/filter.go:16 says it skips those "that would never be
  used". (Run `MinimalFilter`.)

Other panics the models have, without a claim in the documentation to hold them
against: a CSV row shorter than the labels (aws/ingester.go:145), a module path
that does not exist (estimation.go:113), a Terragrunt configuration that cannot
be read (estimation.go:299), a provider that is not under its type
(terraform/hcl.go:292), a call with `providers = { x = aws }`, a provider without an
alias, whose second part is looked for (terraform/hcl.go:352), and an argument of
a call that uses `resource.name` or `each.value` when another argument, evaluated
before, is called `name` or `value` (terraform/hcl.go:353).

What else the models show, and no sentence of the repository denies. Each is a
parenthesis or a precondition of the property it limits:

* ingestion: an upsert never updates the service or the family of a product,
  whatever its comments promise (mysql/product.go:105), and no property claims that
  they stay. Once the ids of products are used up, the prices of a new product are
  filed under the product of the largest id, without an error: `StoreFollowsFeed`,
  `WritesAreFromFeed` and ImplementsPriceBook have `IDsLeft` as a premise, and
  without it TLC finds them violated.
* Azure: `skuProductID` (ingestion.go:29) has no location in its key, so that a SKU in two
  locations of one list has one product, with the prices of both.
* plan: a resource the plan removes has no prior query, as its configuration is
  gone (plan.go:186); lists and maps of constants in the configuration replace
  those of the prior state (208-220); references in a counted module do not
  resolve. A resource of a child module that configures its own provider gets the
  root's provider of that name, in the root's region, or none and no query if the
  root has no such name (132-136); the region of a provider that refers to anything
  at all by `x.name` is the plan's variable `name` (278-292).
* HCL: a reference in the root module gets the prefix "." and never resolves; all
  references in one expression become the first (801); `for_each` over nothing
  makes one instance (131), and an element that cannot be converted, an empty list
  for one, makes none (159-175); `each.value` of a scalar is an object with its key
  (168), which an attribute then has in place of the scalar; a for-expression that
  makes no map panics (126), which is not modelled; a variable that a call gives as
  null, or that has no default in the caller, overrides the child's default (372);
  the count of a call is read in the context of the child, and given to it as a
  variable `count`; the count of a module is not applied to the modules
  below it, and a count of 0 does not stop them; a module's `for_each` is not
  looked at; lists lose their plain strings once references are replaced, and a
  second instance loses the references as well (266-288); arguments that cross
  overwrite the caller's variables (345-372).
* estimators: the root volume of a group is counted once, whatever the size of
  the group (instance.go:151); what leaves a bucket, between 10240 and 153600 GB,
  is counted with a first tier of 51200 (s3_bucket.go:95, 100); the backups of
  FSx are those of the capacity, whatever the usage says; HDD throughput of Lustre
  has the default of SSD; a storage account that names no kind has shares without
  cost; the guard about V1 accounts is about all others (storage_share.go:148); a
  reference to a resource that is not there is priced with its zero values.

## 4. What is proved

The constants are any sets and numbers that satisfy the assumptions the modules
name; TLC evaluates these assumptions on each run. What follows are the theorems of
the `...Proofs` modules. Each has `TypeCorrect`, the type invariant, besides.

**AwsIngestionProofs**, for any SKUs, locations, hashes, price lists, capacity of
the channel, number of ids and number of runs:

* `Success`: `IngestPricing` returns nil only if every row the filter keeps was
  stored and every row parsed;
* `Prefix`: what was stored of a list is a prefix of what the filter keeps;
* `LastWriteWins`: unless an upsert failed or the ids are used up, the tables have
  the last stored row of each price, over whatever earlier runs left there;
* `CacheCoherence`: while ids are left, those remembered are those of the products' rows;
* `Writes`: a step writes only prices of the current list, while ids are left under
  their own product, and never changes a product's id;
* `Refinement`: AwsIngestion implements PriceBook.

None of these is inductive as it stands. The inductive invariant `IInv` adds
where each row is: the rows read so far and kept are stored, in hand or in the
channel, none missing (`PipelineIsFull`) and in feed order (`PipelineInOrder`);
a closed channel without an error means that the file was read to its end
(`EndIsKnown`); ids are unique and smaller than the next one, unless that is the
largest (`IDsAreUnique`), what has prices is a product (`PricesHaveProducts`), and the id
in hand is the row's while ids are left (`IDIsOfRow` of `StoreIsKnown`). Success then follows because on return with nil the
channel is empty, nothing is in hand and the file is at its end, so that what
was kept can only be stored. `StoreFollowsFeed` needs the ids, since a write under
one product's id must leave the prices of the others alone, and the order of
the pipeline, since the row just stored is the last one of its price. The
proofs go component by component (`Pipeline`, `EndIsKnown`, store), each with a
lemma for the steps of the producer and one for those of the consumer. What holds
of the store whoever feeds it - ids, tables, the prices a step may write - is in
IngestPricingProofs (`UniqueConsume`, `StoreConsume`, `ConsumeWrites` and their
neighbours), for both AWS and Azure.

The refinement uses all of it. A step of the producer, a read, or an upsert of a
product is a stutter of the book (`BookOf` joins the tables by id, so it takes
`PricesHaveProducts` that a new row of products has no prices yet), or `UseUpIDs` if it
takes the last id; an acknowledged upsert
of a price is `Write` of the entry `written + 1`, which takes a lemma on the n-th kept
row of a feed: the stored rows are the first ones kept, and the row in hand is the next.
A failed upsert is `Stop` with or without its effect, a crash is `Stop`, a new run is
`Restart`, and a return with nil is `Succeed`, because everything was stored. With no
id left, `Write` and `Stop` enter the price under whatever product the id in hand is of:
that there is one is the foreign key's.

`LocationAssumption` is the one assumption about the world: an AWS offer file
is the list of one service in one region, and a SKU in it is one product. The
code needs it, because `skuProductID` has no location in its key and the table
has.

**AzureIngestionProofs**, for any lists, cuts into pages and capacities of the two
channels:

* `NothingLost`: a success has stored every item that was decoded and is kept;
* `Prefix`: what was stored of a list is a prefix of what is kept of it;
* `WritesOfSKU`: a step writes only prices of the current list, while ids are left under
  a product of their own SKU, and never changes a product's id;
* `LastWriteWins`: where the current list has each SKU in one location and ids are left,
  the tables have the last stored row of each price, and the remembered ids are the
  products'.

The argument for the first two is that of AWS over a longer
pipeline: what was decoded and converts is stored, with the consumer, in the second
channel, with the converter, in the first channel or in the page, none missing
(`Converted`) and in order (`ItemsInOrder`), and either channel is closed only
after its sender has nothing left (`ChannelsAreKnown`). What both need of the
consumer is in IngestPricingProofs (`ConsumerTypeStep` and its neighbours).

The other two rest on `TablesAreKnown`: ids are unique and those remembered are of
the SKU while ids are left (`IDsAreOfSKU`), and of the row as well if a SKU has one location. The premise
of `LastWriteWins` is not an assumption here, as it is of AWS: Azure's list
covers a region with its zones and `Global`, and a SKU may have prices in two of
them. Then the second location's product is never made, and its prices are
filed under the first's - `WritesAreOfTheSKU` is what still holds, and TLC finds
`StoreFollowsFeed` violated without the premise. Azure does not implement PriceBook:
a bad link or an error page ends a list early, and the run succeeds nonetheless.

**GoogleIngestionProofs**, for any lists of SKUs and machine types:

* `Whole`: a success has the rows of every SKU and the price of every machine type
  that all of the SKUs together allow to be priced;
* `Order`: what was stored is a prefix of these rows, at any moment;
* `NoLateError`: once IngestPricing has looked for an error and found none, no
  goroutine that is still at work writes one.

`IInv` says that what was made so far is what the SKUs and machine types taken so
far give (`MadeInOrder`, `MadeIsWhole`), in a feed that is fetched in order
(`FetchedInOrder`), with the prices per family those of the SKUs taken
(`PricesToDate`), and what a closed channel means for ing.err (`EndsAreKnown`). That
a row list grows by the rows of one more SKU is a fact about `FlattenSeq`, a fold: it
is proved by looking at the least length at which it fails, as the natural numbers
are well-founded, since induction principles that take a predicate are of no use
to these provers.

**EstimateHCLProofs**, for any stack: `OnePlan`, `Settled` and `TmpdirRemoved`, which
says that the temporary directory is gone once the call has returned or its own goroutine
panicked, unless the run is still at work in it.
`PlansFollowModules` is the strengthening that matters (the plans so far are those
of the modules so far, in order); `ChannelIsKnown` says who may still send to or
close the channel of the run, which decides who removes the directory last.

**CostPlanProofs** begins with the arithmetic of Cost. It proves `AddCommutes`: two costs added to any total in either order
give the same total or fail in both, for all amounts and currencies. From this, and
by the least number of keys for which it fails, `OneTotal`: all orders of a finite
set of keys have one total, errors of costs included. A minimal counterexample has
two orders with different last keys; put the one's last key before the other's and
exchange them. `ZerosDropped` leaves out the keys that cost nothing.

Then, for any requests, tables, ingestions meanwhile and amounts:

* `Reported`: every component asked for is priced with what the tables held
  meanwhile, in the quantity asked for, or is among the errors;
* `Unchanged`: what a plan does not change costs the same before and after, or has
  an error, if the tables were left alone;
* `Irrelevant`: the cost of a state is the same in every order Go may walk its maps;
* `AddUp`: the differences by address add up to the costs of the two states.

`IInv` has that a state follows its queries (`StatesFollow`): it has the addresses of
the queries begun, each with the labels of the components priced so far, each an
answer of tables that were held at some time (`HeldIsKnown`). `RequestsAssumption`
says that no query list names an address twice, which is what PlanQueries and
HCLQueries are about, and that no resource has two components of one name, which is
`ComponentsAreDistinct`, checked of every estimator; with two of one name `Reported`
would be false, as the second replaces the first. `Irrelevant` and `AddUp` are
`OneTotal` and `ZerosDropped` twice over, for the components of a resource and for the
resources of a state; that rates have a currency unless they are zero
comes from `StatesFollow`.

**PlanQueriesProofs**, for any plans, and any order of maps and modules:

* `QueriesMatch`: the queries of a state are, one to one, its managed resources that
  are still configured with a key whose last part is that of a known provider of the root
  module, each with that provider;
* `ValuesAreOfTheState`: a query keeps what its own state says, and refers only to
  queries of its own module and state;
* `ReferencesAreResolved`: a reference in a child module called without an index, to a
  resource with neither `count` nor `for_each`, finds exactly the values that the query
  of the resource it names is made from.

`IInv` has that a configured module's resources are all known by the time no module is
left to be walked (`ConfiguredSoFar`: every configured module is under one still to
be walked, or its resources are known; a module on the way to another is in the plan, by
`ChildOnTheWay`), that the resources of a module at hand are the merged values of
its state (`ExtractedSoFar`), and that the queries so far are those of the modules begun
but for the resources still to be queried (`QueriedSoFar`), each of one address. The
count is by a bijection. `PlansAssumption` says what Terraform guarantees of a plan
file: modules are called by modules, names and addresses are distinct. Without it
`QueriesMatchState` is false, as the second of two resources with one address replaces
the first.

**HCLQueriesProofs**, for any tree of modules, any nesting of its calls and any order of
resources, elements, instances and child modules:

* `MatchesConfiguration`: once all is done there is one query for each instance of each
  resource whose provider is known, and no other, in every module whose count is a
  constant;
* `HandsProvidersDown`: a resource is priced with the provider that the calls on the way
  to its module hand down;
* `ValuesOwn`: a query has what its own module, call and element of `for_each` say,
  unless arguments on the way cross, although the context is shared and changed in place:
  a variable given as null is null whatever its default, and `each.value` of a scalar is
  that scalar under its key;
* `FollowsReferences`: in a module that is called once, a reference to a plain attribute
  of an only instance has become that attribute, in whatever order the two came.

`IInv` has that the stack is the path to the module at hand (`StackIsPath`: a call on it
is not made again by the frame it comes from), that the providers of every frame on it
are those handed down to its module and its count the one configured
(`FramesAreCalled`), that the addresses entered are the instances of the resources gone
through (`EnteredSoFar`), and that the queries made are, each once, those of all modules
but the one at hand and the ones that wait to be called (`EachOnce`, `QueriedSoFar`). A
module waits if it is under a call some frame still has to make (`Waits`): calling a child takes
that child alone off the waiting ones, as its own children are under its frame then;
returning changes nothing, as the frame has no call left. That a chain of names to a
child is one to its caller, prolonged or passed on, is `HandedDownNext`; that an order
of the elements of `for_each` has them all is `OrderOfElements`. The
count of queries is by a bijection.

The last two theorems rest on a second invariant, `VInv`, inductive beside `IInv`. A
module on the stack has the variables that the calls on the way give it, until it makes
a call whose arguments cross (`VariablesAreOwn`). The values of the resources gone through
are their own, and each reference in them is as it was evaluated or replaced by what it
names (`ExpandedSoFar`): the resource it names may have been queried before,
which changed its values too, but never a plain one (`FollowFinds`). A list of one
reference is as it was evaluated until an instance that shares it is queried, which is why
the theorem speaks of an only instance there (`OnlyInstance`). What a loop over the
arguments of a call or the calls on a path makes is a recursive function; that it has a
value at each step, and what it keeps, is by the least number of steps at which it would
not (`Least`, `Inductively`).

Only model-checked:

* everything temporal but the refinement (`IngestionEnds`, `ReportEnds`,
  `GoroutinesEnd`, `CancelEndsWait`): liveness under fairness is out of the prover's
  reach;
* Estimators: the names of components are texts put together, whose parts these provers
  cannot tell apart, the values are of no one type, and the sums go over lists of
  components and constant tables; TLC evaluates every one of them.

## 5. What is not modelled, and the plan

Not modelled:

* HTTP, CSV, JSON, HCL and SQL parsing, Terragrunt and git: the models have what
  these answer, or fail to answer, as choices.
* The evaluation of HCL expressions, locals and functions, and the installation of
  modules by HCL's library; expressions are of the kinds `convertCtyValue` tells
  apart.
* Constant tables: services, zones, regions' names, CSV fields and the default
  usages. Small ones stand for them.
* Options of the ingesters, the request filters they build, logging, mocks, tests,
  examples, `DeleteByProductWithKeep` and `FindByVendorAndSKU`, which nothing calls,
  and the copies of region look-ups in azurerm/terraform/provider.go.
* The details and display units of components.

Left of the plan:

1. IngestAndEstimate: an ingestion and an estimation over the same tables, with the
   price a filter finds first when hashes change.
2. A composition of PlanQueries or HCLQueries with Estimators and CostPlan, over one
   resource type.
