--------------------------- MODULE GoogleIngestion ---------------------------
(***************************************************************************)
(* The Google Ingester.  A goroutine fetches the SKUs page by page; Ingest *)
(* turns them into products with prices and remembers the price of a core  *)
(* and of a GiB of each machine family.  Once the SKUs are over a second   *)
(* goroutine fetches the machine types, whose prices Ingest puts together  *)
(* from those it remembers.  All of them share ing.err.                    *)
(*                                                                         *)
(* IngestPricing (module IngestPricing) is here what the Ingester sees of  *)
(* it: a reader of the channel that may stop at any row.                   *)
(***************************************************************************)
EXTENDS Integers, Sequences, SequencesExt

CONSTANTS Lists,        \* what Google may publish: SKUs and machine types
          Currencies,
          MachineFamilies,
          Unknown,      \* the family of a name that is not one of them
          FetchSize,    \* capacity of the channels of the fetchers (100)
          ChSize        \* capacity of the results channel

ASSUME SizesAssumption == FetchSize \in Nat \ {0} /\ ChSize \in Nat \ {0}
ASSUME UnknownAssumption == Unknown \notin MachineFamilies

(***************************************************************************)
(* A SKU: `pricing` is "none" without a pricing expression, "noRates" with *)
(* one that has no rate; `family` is the first word of its description and *)
(* `kept` the verdict of the ingestion filter.                             *)
(***************************************************************************)
SKUs == [id : Nat, pricing : {"none", "noRates", "rated"},
         regions : Seq({"global", "ours", "other"}),
         group : {"CPU", "RAM", "other"}, family : MachineFamilies \cup {Unknown},
         unit : {"GiBy.h", "h"}, currency : Currencies, value : Nat, kept : BOOLEAN]

MachineTypes == [id : Nat, family : MachineFamilies \cup {Unknown},
                 guestCpus : Nat, memoryMb : Nat, kept : BOOLEAN]

ASSUME ListsAssumption ==
    \A l \in Lists : l.skus \in Seq(SKUs) /\ l.machineTypes \in Seq(MachineTypes)

VARIABLES
    list,           \* what Google publishes during the run
    ctxDone,        \* the context of Ingest is cancelled
    ingErr,         \* ing.err is set
    fetching,       \* what the current fetcher fetches
    fpc, sent,      \* where it is, and how much of the list it has sent
    fetched,        \* its channel: positions in the list
    fetchedClosed,
    ipc,            \* where the goroutine of Ingest is
    outbox,         \* what it has to send before it receives again
    familyPrices,   \* machinteTypePrices
    results, closed,
    stored,         \* history: what IngestPricing stored
    result          \* what IngestPricing returned

fetcherVars  == <<fetching, fpc, sent>>
fetchedVars  == <<fetched, fetchedClosed>>
ingestVars   == <<ipc, outbox, familyPrices>>
resultsVars  == <<results, closed>>
consumerVars == <<stored, result>>
vars == <<list, ctxDone, ingErr, fetcherVars, fetchedVars, ingestVars, resultsVars, consumerVars>>

Source == IF fetching = "skus" THEN list.skus ELSE list.machineTypes

Prices == [unit : {"GiBy.h", "h"}, currency : Currencies, value : Nat]
NoPrice == [unit |-> "none", currency |-> Unknown, value |-> 0]
Rows    == [kind : {"sku", "machine"}, id : Nat, price : Prices]

TypeOK ==
    /\ list \in Lists
    /\ ctxDone \in BOOLEAN /\ ingErr \in BOOLEAN
    /\ fetching \in {"skus", "machines"}
    /\ fpc \in {"fetch", "exit", "ended"}
    /\ sent \in 0..Len(Source)
    /\ fetched \in Seq(1..Len(Source)) /\ Len(fetched) <= FetchSize
    /\ fetchedClosed \in BOOLEAN /\ (fetchedClosed <=> fpc = "ended")
    /\ ipc \in {"receive", "send", "exit", "ended"}
    /\ (ipc = "send") <=> (outbox # <<>>)
    /\ outbox \in Seq(Rows)
    /\ familyPrices \in [MachineFamilies \X {"CPU", "RAM"} -> Prices \cup {NoPrice}]
    /\ results \in Seq(Rows) /\ Len(results) <= ChSize
    /\ closed \in BOOLEAN /\ (closed <=> ipc = "ended")
    /\ stored \in Seq(Rows)
    /\ result \in {"none", "ok", "failed"}

Init ==
    /\ list \in Lists
    /\ ctxDone = FALSE /\ ingErr = FALSE
    /\ fetching = "skus" /\ fpc = "fetch" /\ sent = 0
    /\ fetched = <<>> /\ fetchedClosed = FALSE
    /\ ipc = "receive" /\ outbox = <<>>
    /\ familyPrices = [f \in MachineFamilies \X {"CPU", "RAM"} |-> NoPrice]
    /\ results = <<>> /\ closed = FALSE
    /\ stored = <<>> /\ result = "none"

-----------------------------------------------------------------------------
(* Prices of SKUs and of machine types. *)
PriceOf(sku) == [unit |-> sku.unit, currency |-> sku.currency, value |-> sku.value]

(* The entries of a SKU's regions that are the ingester's, or "global". *)
OurRegions(sku) == {k \in DOMAIN sku.regions : sku.regions[k] # "other"}

RowsOf(sku) ==
    IF sku.pricing # "rated" \/ ~sku.kept THEN <<>>
    ELSE [k \in 1..Cardinality(OurRegions(sku)) |->
            [kind |-> "sku", id |-> sku.id, price |-> PriceOf(sku)]]

(* The price of a family is remembered before the filter is asked. *)
Remember(sku, known) ==
    IF /\ sku.pricing = "rated" /\ OurRegions(sku) # {}
       /\ sku.group \in {"CPU", "RAM"} /\ sku.family # Unknown
    THEN [known EXCEPT ![<<sku.family, sku.group>>] = PriceOf(sku)]
    ELSE known

(* price.Price.Add *)
CanAdd(p, q) == p.unit = q.unit /\ p.currency = q.currency
AddPrice(p, q) == [p EXCEPT !.value = @ + q.value]

RamPrice(mt, rp) == [unit |-> "h", currency |-> rp.currency,
                     value |-> rp.value * (mt.memoryMb \div 1000)]
CpuPrice(mt, cp) == [cp EXCEPT !.value = @ * mt.guestCpus]

(* A machine type of which both prices are known, the one of RAM by GiBy.h. *)
Priceable(mt, known) ==
    /\ mt.family # Unknown
    /\ known[<<mt.family, "RAM">>].unit = "GiBy.h"
    /\ known[<<mt.family, "CPU">>] # NoPrice

MachineRow(mt, known) ==
    [kind |-> "machine", id |-> mt.id,
     price |-> AddPrice(RamPrice(mt, known[<<mt.family, "RAM">>]),
                        CpuPrice(mt, known[<<mt.family, "CPU">>]))]

MachineRowsOf(mt, known) ==
    IF Priceable(mt, known) /\ mt.kept THEN <<MachineRow(mt, known)>> ELSE <<>>

Addable(mt, known) == CanAdd(RamPrice(mt, known[<<mt.family, "RAM">>]),
                             CpuPrice(mt, known[<<mt.family, "CPU">>]))

-----------------------------------------------------------------------------
(* fetchSKUs and fetchMachineTypes. *)
FetcherFrame ==
    UNCHANGED <<list, ctxDone, fetching, ingestVars, resultsVars, consumerVars>>

(* results <- sku, results <- mt *)
FetchNext ==
    /\ fpc = "fetch"
    /\ sent < Len(Source)
    /\ Len(fetched) < FetchSize
    /\ fetched' = Append(fetched, sent + 1)
    /\ sent' = sent + 1
    /\ UNCHANGED <<fpc, fetchedClosed, ingErr>>
    /\ FetcherFrame

FetchEnds ==
    /\ fpc = "fetch"
    /\ sent = Len(Source)
    /\ fpc' = "exit"
    /\ UNCHANGED <<sent, fetchedVars, ingErr>>
    /\ FetcherFrame

(* Mutation: the error of Pages is dropped. *)
FetchStops ==
    /\ fpc = "fetch"
    /\ fpc' = "exit"
    /\ UNCHANGED <<sent, fetchedVars, ingErr>>
    /\ FetcherFrame

(* The first page or a later one cannot be fetched, or the context is done. *)
FetchFails ==
    /\ fpc = "fetch"
    /\ ingErr' = TRUE
    /\ fpc' = "exit"
    /\ UNCHANGED <<sent, fetchedVars>>
    /\ FetcherFrame

(* The deferred close. *)
CloseFetched ==
    /\ fpc = "exit"
    /\ fetchedClosed' = TRUE
    /\ fpc' = "ended"
    /\ UNCHANGED <<sent, fetched, ingErr>>
    /\ FetcherFrame

Fetch == FetchNext \/ FetchEnds \/ FetchFails \/ CloseFetched

-----------------------------------------------------------------------------
(* The goroutine of Ingest. *)
IngestFrame == UNCHANGED <<list, ctxDone, consumerVars>>

Deliver(rows) ==
    /\ outbox' = rows
    /\ ipc' = IF rows = <<>> THEN "receive" ELSE "send"

(* A SKU is received and, unless the context is done, sent for each of its *)
(* regions that is ours.                                                   *)
TakeSKU ==
    /\ ipc = "receive" /\ fetching = "skus"
    /\ fetched # <<>>
    /\ ~ctxDone
    /\ LET sku == list.skus[Head(fetched)]
       IN /\ familyPrices' = Remember(sku, familyPrices)
          /\ Deliver(RowsOf(sku))
    /\ fetched' = Tail(fetched)
    /\ UNCHANGED <<ingErr, fetcherVars, fetchedClosed, resultsVars>>
    /\ IngestFrame

(* Mutation: ing.err is left to the fetcher. *)
NoticeDoneQuietly ==
    /\ ipc = "receive" /\ fetching = "skus"
    /\ fetched # <<>>
    /\ ctxDone
    /\ ipc' = "exit"
    /\ fetched' = Tail(fetched)
    /\ UNCHANGED <<ingErr, fetcherVars, fetchedClosed, outbox, familyPrices, resultsVars>>
    /\ IngestFrame

(* ... the context is done: Ingest returns and leaves the fetcher to it. *)
NoticeDone ==
    /\ ipc = "receive" /\ fetching = "skus"
    /\ fetched # <<>>
    /\ ctxDone
    /\ ingErr' = TRUE
    /\ ipc' = "exit"
    /\ fetched' = Tail(fetched)
    /\ UNCHANGED <<fetcherVars, fetchedClosed, outbox, familyPrices, resultsVars>>
    /\ IngestFrame

(* Mutation: the channel of the SKUs, closed by now, is used again. *)
StartOnClosedChannel ==
    /\ ipc = "receive" /\ fetching = "skus"
    /\ fetched = <<>> /\ fetchedClosed
    /\ fetching' = "machines" /\ fpc' = "fetch" /\ sent' = 0
    /\ UNCHANGED <<ingErr, fetchedVars, ingestVars, resultsVars>>
    /\ IngestFrame

(* The SKUs are over, all of them or not: fetchMachineTypes is started. *)
StartMachineTypes ==
    /\ ipc = "receive" /\ fetching = "skus"
    /\ fetched = <<>> /\ fetchedClosed
    /\ fetching' = "machines" /\ fpc' = "fetch" /\ sent' = 0
    /\ fetchedClosed' = FALSE
    /\ UNCHANGED <<ingErr, fetched, ingestVars, resultsVars>>
    /\ IngestFrame

(* A machine type is priced and sent, or left out.  Nothing looks at the   *)
(* context.                                                                *)
TakeMachineType ==
    /\ ipc = "receive" /\ fetching = "machines"
    /\ fetched # <<>>
    /\ LET mt == list.machineTypes[Head(fetched)]
       IN /\ Priceable(mt, familyPrices) => Addable(mt, familyPrices)
          /\ Deliver(MachineRowsOf(mt, familyPrices))
    /\ fetched' = Tail(fetched)
    /\ UNCHANGED <<ingErr, fetcherVars, fetchedClosed, familyPrices, resultsVars>>
    /\ IngestFrame

(* Mutation: the channel stays open on this path. *)
MismatchWithoutClose ==
    /\ ipc = "receive" /\ fetching = "machines"
    /\ fetched # <<>>
    /\ LET mt == list.machineTypes[Head(fetched)]
       IN Priceable(mt, familyPrices) /\ ~Addable(mt, familyPrices)
    /\ ingErr' = TRUE
    /\ ipc' = "receive"
    /\ fetched' = fetched
    /\ UNCHANGED <<fetcherVars, fetchedClosed, outbox, familyPrices, resultsVars>>
    /\ IngestFrame

(* The prices of its RAM and cores are in two currencies or units. *)
Mismatch ==
    /\ ipc = "receive" /\ fetching = "machines"
    /\ fetched # <<>>
    /\ LET mt == list.machineTypes[Head(fetched)]
       IN Priceable(mt, familyPrices) /\ ~Addable(mt, familyPrices)
    /\ ingErr' = TRUE
    /\ ipc' = "exit"
    /\ fetched' = Tail(fetched)
    /\ UNCHANGED <<fetcherVars, fetchedClosed, outbox, familyPrices, resultsVars>>
    /\ IngestFrame

MachineTypesEnd ==
    /\ ipc = "receive" /\ fetching = "machines"
    /\ fetched = <<>> /\ fetchedClosed
    /\ ipc' = "exit"
    /\ UNCHANGED <<ingErr, fetcherVars, fetchedVars, outbox, familyPrices, resultsVars>>
    /\ IngestFrame

(* Mutation: a row that would have to wait is dropped. *)
SendOrDrop ==
    /\ ipc = "send"
    /\ results' = IF Len(results) < ChSize THEN Append(results, Head(outbox)) ELSE results
    /\ Deliver(Tail(outbox))
    /\ UNCHANGED <<ingErr, fetcherVars, fetchedVars, familyPrices, closed>>
    /\ IngestFrame

(* results <- pwp *)
SendRow ==
    /\ ipc = "send"
    /\ Len(results) < ChSize
    /\ results' = Append(results, Head(outbox))
    /\ Deliver(Tail(outbox))
    /\ UNCHANGED <<ingErr, fetcherVars, fetchedVars, familyPrices, closed>>
    /\ IngestFrame

CloseResults ==
    /\ ipc = "exit"
    /\ closed' = TRUE
    /\ ipc' = "ended"
    /\ UNCHANGED <<ingErr, fetcherVars, fetchedVars, outbox, familyPrices, results>>
    /\ IngestFrame

Ingest ==
    \/ TakeSKU \/ NoticeDone \/ StartMachineTypes \/ TakeMachineType
    \/ Mismatch \/ MachineTypesEnd \/ SendRow \/ CloseResults

-----------------------------------------------------------------------------
ConsumerFrame == UNCHANGED <<list, ingErr, fetcherVars, fetchedVars, ingestVars, closed>>

(* A price is received and stored, or IngestPricing fails on it; returning *)
(* ends the context.                                                       *)
Store ==
    /\ result = "none"
    /\ results # <<>>
    /\ results' = Tail(results)
    /\ \/ stored' = Append(stored, Head(results)) /\ UNCHANGED <<result, ctxDone>>
       \/ result' = "failed" /\ ctxDone' = TRUE /\ UNCHANGED stored
    /\ ConsumerFrame

RangeEnds ==
    /\ result = "none"
    /\ results = <<>> /\ closed
    /\ result' = IF ingErr THEN "failed" ELSE "ok"
    /\ ctxDone' = TRUE
    /\ UNCHANGED <<results, stored>>
    /\ ConsumerFrame

Consume == Store \/ RangeEnds

Cancel ==
    /\ ~ctxDone
    /\ ctxDone' = TRUE
    /\ UNCHANGED <<results, consumerVars>>
    /\ ConsumerFrame

(* IngestPricing has returned; a goroutine may still wait to send. *)
Finished == result # "none" /\ UNCHANGED vars

Next == Fetch \/ Ingest \/ Consume \/ Cancel \/ Finished

(* The goroutines are scheduled and the calls they make return. *)
Spec == Init /\ [][Next]_vars /\ WF_vars(Fetch) /\ WF_vars(Ingest) /\ WF_vars(Consume)

-----------------------------------------------------------------------------
(* The price of a group of a family that the first n SKUs stand for: that  *)
(* of the last one of the region that gives it.                            *)
Gives(sku, f, g) == /\ sku.pricing = "rated" /\ sku.family = f /\ sku.group = g
                    /\ OurRegions(sku) # {}

PricesAfter(n) == [fg \in MachineFamilies \X {"CPU", "RAM"} |->
    LET givers == {i \in 1..n : Gives(list.skus[i], fg[1], fg[2])}
    IN IF givers = {} THEN NoPrice
       ELSE PriceOf(list.skus[CHOOSE i \in givers : \A j \in givers : j <= i])]

FinalPrices == PricesAfter(Len(list.skus))

(* The rows of the first n SKUs and, at the final prices, machine types. *)
SKURows(n)     == FlattenSeq([i \in 1..n |-> RowsOf(list.skus[i])])
MachineRows(n) == FlattenSeq([i \in 1..n |-> MachineRowsOf(list.machineTypes[i], FinalPrices)])

WholeSKUs     == SKURows(Len(list.skus))
WholeMachines == MachineRows(Len(list.machineTypes))

(* Success means the whole of both lists, each machine type at the price   *)
(* the whole list of SKUs gives it, and never one put together from the    *)
(* pages before an error.                                                  *)
SuccessIsWhole == result = "ok" => stored = WholeSKUs \o WholeMachines

(* However the run ends, SKUs are stored in the order of the list, none    *)
(* left out, and machine types after them.                                 *)
StoredInOrder ==
    \E n \in 0..Len(stored) :
        /\ IsPrefix(SubSeq(stored, 1, n), WholeSKUs)
        /\ \A k \in (n + 1)..Len(stored) : stored[k].kind = "machine"

(* No error comes after IngestPricing asked for it: ing.err has three      *)
(* writers, of which a fetcher may outlive Ingest and its channel.         *)
NoErrorAfterSuccess == result = "ok" => ~ingErr

(***************************************************************************)
(* Why these hold.  Ingest has taken the first Taken entries of the list   *)
(* being fetched; the others sent wait in the channel.  What it made of    *)
(* them is stored, in the channel of results or still to be sent: the rows *)
(* of the first SKUs, then of machine types.  Unless there was an error    *)
(* nothing is missing, neither a row nor a remembered price.               *)
(***************************************************************************)
Taken == sent - Len(fetched)
Made  == stored \o results \o outbox

FetchedInOrder ==
    /\ 0 <= Taken
    /\ \A k \in 1..Len(fetched) : fetched[k] = Taken + k

MadeInOrder ==
    result # "failed" =>
        \E k \in 0..Len(list.skus) :
            /\ IsPrefix(SKURows(k), Made)
            /\ \A j \in (Len(SKURows(k)) + 1)..Len(Made) : Made[j].kind = "machine"
            /\ fetching = "skus" => Made = SKURows(k) /\ (ipc \in {"receive", "send"} => k = Taken)

PricesToDate == IF fetching = "skus" THEN PricesAfter(Taken) ELSE FinalPrices
RowsToDate   == IF fetching = "skus" THEN SKURows(Taken) ELSE WholeSKUs \o MachineRows(Taken)

MadeIsWhole ==
    ~ingErr => familyPrices = PricesToDate /\ (result # "failed" => Made = RowsToDate)

EndsAreKnown ==
    /\ fpc \in {"exit", "ended"} => ingErr \/ sent = Len(Source)
    /\ ipc \in {"exit", "ended"} =>
          ingErr \/ (fetching = "machines" /\ fpc = "ended" /\ fetched = <<>>)
    /\ result = "ok" => closed /\ ~ingErr /\ results = <<>>

IInv == TypeOK /\ FetchedInOrder /\ MadeInOrder /\ MadeIsWhole /\ EndsAreKnown /\ StoredInOrder

(* IngestPricing returns in the end, whatever fails. *)
IngestionEnds == <>(result # "none")
=============================================================================
