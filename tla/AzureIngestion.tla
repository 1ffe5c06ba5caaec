--------------------------- MODULE AzureIngestion ---------------------------
(***************************************************************************)
(* IngestPricing with the Azure Ingester: one goroutine requests the pages *)
(* of the price list and sends their items, a second one turns items into  *)
(* products and prices, applies the filter and sends them to IngestPricing.*)
(* Which rows make up a page, and whether the server answers with a page,  *)
(* an error in JSON or a link nobody can follow, is the server's choice.   *)
(***************************************************************************)
EXTENDS IngestPricing

CONSTANTS PagesSize,  \* capacity of the channel of fetchPrices (100 in the code)
          MaxRuns     \* bound on the runs of a behaviour

ASSUME PagesSizeAssumption == PagesSize \in Nat \ {0}
ASSUME MaxRunsAssumption   == MaxRuns \in Nat \ {0}

VARIABLES
    fpc,        \* where the goroutine of fetchPrices is
    decoded,    \* rows of the list in the pages decoded so far
    sent,       \* ... and those of them it has sent
    link,       \* NextPageLink of the page in hand
    pages,      \* its channel: positions in the feed
    pagesClosed,
    qpc,        \* where the goroutine of Ingest is
    held,       \* the row it wants to send, 0 for none
    crashed,    \* the process is dead
    runs        \* runs started so far

fetcherVars   == <<fpc, decoded, sent, link>>
pagesVars     == <<pages, pagesClosed>>
converterVars == <<qpc, held>>
vars == <<storeVars, feed, ctxDone, channelVars, consumerVars,
          fetcherVars, pagesVars, converterVars, crashed, runs>>

TypeOK ==
    /\ ConsumerTypeOK
    /\ fpc \in {"request", "items", "exit", "ended"}
    /\ decoded \in 0..N /\ sent \in 0..decoded
    /\ link \in {"none", "good", "bad"}
    /\ pages \in Seq(1..N) /\ Len(pages) <= PagesSize
    /\ pagesClosed \in BOOLEAN
    /\ qpc \in {"receive", "send", "ended"}
    /\ held \in 0..N /\ (qpc = "send" <=> held # 0)
    /\ crashed \in BOOLEAN
    /\ runs \in 1..MaxRuns

Init ==
    /\ StoreInit
    /\ feed \in Feeds
    /\ ConsumerInit
    /\ ctxDone = FALSE
    /\ fpc = "request" /\ decoded = 0 /\ sent = 0 /\ link = "none"
    /\ pages = <<>> /\ pagesClosed = FALSE
    /\ qpc = "receive" /\ held = 0
    /\ crashed = FALSE
    /\ runs = 1

-----------------------------------------------------------------------------
(* fetchPrices touches only its own variables, its channel and ing.err. *)
FetcherFrame ==
    /\ ~crashed
    /\ UNCHANGED <<storeVars, feed, ctxDone, results, closed, consumerVars,
                   converterVars, crashed, runs>>

Page(last) == (decoded + 1)..last

(* A page is requested, answered and decoded.  The last one has no link;   *)
(* that of any other may be one http.NewRequest rejects.                   *)
FetchPage ==
    /\ fpc = "request"
    /\ ~ctxDone
    /\ \E last \in decoded..N :
          /\ decoded' = last
          /\ \A i \in Page(last) : Row(i).parses = "good"
          /\ IF last = N THEN link' = "none" ELSE last > decoded /\ link' \in {"good", "bad"}
    /\ fpc' = "items"
    /\ UNCHANGED <<sent, pagesVars, ingErr>>
    /\ FetcherFrame

(* An error document in JSON decodes to a page without items and link: its *)
(* status is not looked at.                                                *)
FetchErrorPage ==
    /\ fpc = "request"
    /\ ~ctxDone
    /\ link' = "none"
    /\ fpc' = "items"
    /\ UNCHANGED <<decoded, sent, pagesVars, ingErr>>
    /\ FetcherFrame

(* Mutation: the error is dropped. *)
FetchFailsSilently ==
    /\ fpc = "request"
    /\ fpc' = "exit"
    /\ UNCHANGED <<decoded, sent, link, pagesVars, ingErr>>
    /\ FetcherFrame

(* No request, no connection, no JSON, an item that does not decode, or the *)
(* context is done.                                                         *)
FetchFails ==
    /\ fpc = "request"
    /\ ingErr' = TRUE
    /\ fpc' = "exit"
    /\ UNCHANGED <<decoded, sent, link, pagesVars>>
    /\ FetcherFrame

(* results <- rp *)
SendItem ==
    /\ fpc = "items"
    /\ sent < decoded
    /\ Len(pages) < PagesSize
    /\ pages' = Append(pages, sent + 1)
    /\ sent' = sent + 1
    /\ UNCHANGED <<fpc, decoded, link, pagesClosed, ingErr>>
    /\ FetcherFrame

(* The link is followed; without one, or with one that makes no request,   *)
(* req is nil and the loop ends.                                           *)
NextPage ==
    /\ fpc = "items"
    /\ sent = decoded
    /\ fpc' = IF link = "good" THEN "request" ELSE "exit"
    /\ UNCHANGED <<decoded, sent, link, pagesVars, ingErr>>
    /\ FetcherFrame

(* Mutation: the channel stays open. *)
EndWithoutClose ==
    /\ fpc = "exit"
    /\ fpc' = "ended"
    /\ UNCHANGED <<decoded, sent, link, pagesVars, ingErr>>
    /\ FetcherFrame

(* The deferred close of the channel of fetchPrices. *)
ClosePages ==
    /\ fpc = "exit"
    /\ pagesClosed' = TRUE
    /\ fpc' = "ended"
    /\ UNCHANGED <<decoded, sent, link, pages, ingErr>>
    /\ FetcherFrame

Fetch ==
    \/ FetchPage \/ FetchErrorPage \/ FetchFails \/ SendItem \/ NextPage \/ ClosePages

-----------------------------------------------------------------------------
(* The goroutine of Ingest touches the two channels. *)
ConverterFrame ==
    /\ ~crashed
    /\ UNCHANGED <<storeVars, feed, ctxDone, ingErr, consumerVars,
                   fetcherVars, pagesClosed, crashed, runs>>

(* Mutation: a goroutine for each item, which may overtake one another. *)
ConvertAny ==
    /\ qpc = "receive"
    /\ \E k \in 1..Len(pages) :
          /\ pages' = SubSeq(pages, 1, k - 1) \o SubSeq(pages, k + 1, Len(pages))
          /\ IF Row(pages[k]).kept THEN qpc' = "send" /\ held' = pages[k]
                                   ELSE UNCHANGED converterVars
    /\ UNCHANGED <<results, closed>>
    /\ ConverterFrame

(* An item is received and converted; the filter keeps it or not. *)
Convert ==
    /\ qpc = "receive"
    /\ pages # <<>>
    /\ pages' = Tail(pages)
    /\ IF Row(Head(pages)).kept THEN qpc' = "send" /\ held' = Head(pages)
                                ELSE UNCHANGED converterVars
    /\ UNCHANGED <<results, closed>>
    /\ ConverterFrame

(* Mutation: the row is sent again. *)
SendAndKeep ==
    /\ qpc = "send"
    /\ Len(results) < ChSize
    /\ results' = Append(results, held)
    /\ qpc' = "receive"
    /\ UNCHANGED <<closed, pages, held>>
    /\ ConverterFrame

(* results <- pwp *)
SendRow ==
    /\ qpc = "send"
    /\ Len(results) < ChSize
    /\ results' = Append(results, held)
    /\ qpc' = "receive"
    /\ held' = 0
    /\ UNCHANGED <<closed, pages>>
    /\ ConverterFrame

(* The channel of fetchPrices is closed and drained: the deferred close. *)
CloseResults ==
    /\ qpc = "receive"
    /\ pages = <<>> /\ pagesClosed
    /\ closed' = TRUE
    /\ qpc' = "ended"
    /\ UNCHANGED <<results, held, pages>>
    /\ ConverterFrame

Ingest == Convert \/ SendRow \/ CloseResults

-----------------------------------------------------------------------------
ConsumerFrame ==
    ~crashed /\ UNCHANGED <<fetcherVars, pagesVars, converterVars, crashed, runs>>

ConsumerStep == Consume /\ ConsumerFrame

Cancel == CancelContext /\ ConsumerFrame

(* The process is killed; only the tables survive. *)
Crash ==
    /\ ~crashed
    /\ result = "none"
    /\ crashed' = TRUE
    /\ UNCHANGED <<storeVars, feed, ctxDone, channelVars, consumerVars,
                   fetcherVars, pagesVars, converterVars, runs>>

(* The next run of IngestPricing, with a new Ingester. *)
StartRun ==
    /\ crashed \/ result # "none"
    /\ runs < MaxRuns
    /\ runs' = runs + 1
    /\ feed' \in Feeds
    /\ results' = <<>> /\ closed' = FALSE /\ ingErr' = FALSE
    /\ cpc' = "receive" /\ item' = 0 /\ itemID' = 0
    /\ cache' = [s \in SKUs |-> 0]
    /\ result' = "none" /\ done' = {}
    /\ ctxDone' = FALSE
    /\ fpc' = "request" /\ decoded' = 0 /\ sent' = 0 /\ link' = "none"
    /\ pages' = <<>> /\ pagesClosed' = FALSE
    /\ qpc' = "receive" /\ held' = 0
    /\ crashed' = FALSE
    /\ UNCHANGED storeVars

(* Nothing is left to do after the last run: its goroutines have ended, or *)
(* wait to send.                                                           *)
Finished ==
    /\ crashed \/ result # "none"
    /\ runs = MaxRuns
    /\ UNCHANGED vars

Next == Fetch \/ Ingest \/ ConsumerStep \/ Cancel \/ Crash \/ StartRun \/ Finished

(* The goroutines are scheduled, and the calls they make return. *)
Fairness == WF_vars(Fetch) /\ WF_vars(Ingest) /\ WF_vars(ConsumerStep)

Spec == Init /\ [][Next]_vars /\ Fairness

-----------------------------------------------------------------------------
(* A successful run stored every row the filter keeps of every page that   *)
(* was decoded, and stopped asking only where the server gave no link, or  *)
(* a bad one: no item is lost between the two goroutines, no broken        *)
(* connection or page that is no JSON is taken for the end of the list.    *)
NothingDecodedIsLost ==
    result = "ok" => /\ {i \in Kept : i <= decoded} \subseteq done
                     /\ link # "good"
                     /\ fpc = "ended"

(***************************************************************************)
(* Why these hold.  The second goroutine has taken the first Converted     *)
(* items of the list: of those the filter keeps, one may be in its hand    *)
(* and all others went on, in order; the items after them wait in the      *)
(* channel, none left out.  Channels close at the end of their goroutine.  *)
(***************************************************************************)
Converted == sent - Len(pages)

ItemsInOrder ==
    /\ PassedInOrder
    /\ 0 <= Converted
    /\ \A k \in 1..Len(pages) : pages[k] = Converted + k
    /\ \A i \in Passed : i <= Converted /\ (held # 0 => i < held)
    /\ held # 0 => held <= Converted /\ Row(held).kept
    /\ \A i \in Kept : i <= Converted => i \in Passed \cup {held}

ChannelsAreKnown ==
    /\ closed <=> qpc = "ended"
    /\ pagesClosed <=> fpc = "ended"
    /\ qpc = "ended" => pages = <<>> /\ pagesClosed
    /\ fpc = "request" => sent = decoded
    /\ fpc \in {"exit", "ended"} => ingErr \/ (sent = decoded /\ link # "good")
    /\ ResultIsKnown

(* A list has the region, its zones and "Global": whether it gives a SKU in *)
(* one of them only is up to Azure.                                         *)
TablesAreKnown == IDsAreUnique /\ IDsAreOfSKU /\ (OneLocation(feed) => StoreIsKnown)

IInv == TypeOK /\ ItemsInOrder /\ ChannelsAreKnown /\ TablesAreKnown

(* A run that ends, ends: once IngestPricing has returned, both goroutines *)
(* end too, unless the second one waits on a channel that is full.         *)
GoroutinesEnd ==
    \A r \in 1..MaxRuns : (runs = r /\ cpc = "returned") ~>
        \/ fpc = "ended" /\ qpc = "ended"
        \/ qpc = "send" /\ Len(results) = ChSize
        \/ crashed \/ runs # r
=============================================================================
