---------------------------- MODULE AwsIngestion ----------------------------
(***************************************************************************)
(* IngestPricing with the AWS Ingester: one goroutine downloads an offer   *)
(* file and sends its prices, another reports the progress of the download *)
(* to the caller's channel, IngestPricing stores what it receives.  A run  *)
(* may fail or the process die at any step; the tables survive, and the    *)
(* next run starts with a fresh Ingester and whatever AWS publishes then.  *)
(***************************************************************************)
EXTENDS IngestPricing

CONSTANT MaxRuns      \* bound on the runs of a behaviour

ASSUME MaxRunsAssumption == MaxRuns \in Nat \ {0}

(***************************************************************************)
(* Every row of a SKU of one price list names the same location: an offer  *)
(* file is the list of one service in one region.                          *)
(***************************************************************************)
ASSUME LocationAssumption == \A f \in Feeds : OneLocation(f)

VARIABLES
    ppc,        \* where the goroutine of Ingest is
    next,       \* the next row the CSV reader yields
    progress,   \* progressCh: not wanted, unused, reporting or closed
    crashed,    \* the process is dead
    runs        \* runs started so far

producerVars == <<ppc, next, progress>>
vars == <<storeVars, feed, ctxDone, channelVars, consumerVars, producerVars, crashed, runs>>

TypeOK ==
    /\ ConsumerTypeOK
    /\ ppc \in {"download", "labels", "check", "read", "send", "exit", "ended"}
    /\ next \in 1..(N + 1)
    /\ ppc = "send" => next <= N
    /\ progress \in {"unwanted", "unused", "reporting", "closed"}
    /\ crashed \in BOOLEAN
    /\ runs \in 1..MaxRuns

RunInit ==
    /\ ConsumerInit
    /\ ctxDone = FALSE
    /\ ppc = "download" /\ next = 1
    /\ crashed = FALSE

Init ==
    /\ StoreInit
    /\ feed \in Feeds
    /\ RunInit
    /\ progress \in {"unwanted", "unused"}
    /\ runs = 1

-----------------------------------------------------------------------------
(* A step of the goroutine of Ingest leaves the rest of a living process alone. *)
ProducerFrame ==
    ~crashed /\ UNCHANGED <<storeVars, feed, ctxDone, consumerVars, crashed, runs>>

(* Mutation: the error is dropped. *)
DropError ==
    /\ ppc' = "exit"
    /\ UNCHANGED <<results, closed, ingErr, next>>

(* Mutation: the channel is not closed on this path. *)
FailWithoutClose ==
    /\ ingErr' = TRUE
    /\ ppc' = "ended"
    /\ UNCHANGED <<results, closed, next>>

(* `ing.err = err; return`: the deferred close is still to come. *)
FailIngest ==
    /\ ingErr' = TRUE
    /\ ppc' = "exit"
    /\ UNCHANGED <<results, closed, next>>

(* download: the request is answered, whatever its status. *)
Download ==
    /\ ppc = "download"
    /\ ~ctxDone
    /\ ppc' = "labels"
    /\ progress' = IF progress = "unused" THEN "reporting" ELSE progress
    /\ UNCHANGED <<next, channelVars>>
    /\ ProducerFrame

(* download: no connection, or the context is done. *)
DownloadFails ==
    /\ ppc = "download"
    /\ FailIngest
    /\ UNCHANGED progress
    /\ ProducerFrame

(* The first row of more than two fields has the column labels.  A body *)
(* without one, such as an error page, ends in io.EOF, which is kept.   *)
ReadLabels ==
    /\ ppc = "labels"
    /\ feed.labels
    /\ ppc' = "check"
    /\ UNCHANGED <<next, progress, channelVars>>
    /\ ProducerFrame

NoLabels ==
    /\ ppc = "labels"
    /\ ~feed.labels
    /\ FailIngest
    /\ UNCHANGED progress
    /\ ProducerFrame

(* The select at the head of the loop. *)
CheckContext ==
    /\ ppc = "check"
    /\ IF ctxDone THEN FailIngest
                  ELSE ppc' = "read" /\ UNCHANGED <<next, channelVars>>
    /\ UNCHANGED progress
    /\ ProducerFrame

(* A row is read and parsed; if the filter keeps it, it is to be sent. *)
ReadRow ==
    /\ ppc = "read"
    /\ next <= N
    /\ Row(next).parses = "good"
    /\ IF Row(next).kept THEN ppc' = "send" /\ next' = next
                         ELSE ppc' = "check" /\ next' = next + 1
    /\ UNCHANGED <<progress, channelVars>>
    /\ ProducerFrame

(* A price does not parse. *)
ParseFails ==
    /\ ppc = "read"
    /\ next <= N
    /\ Row(next).parses = "badPrice"
    /\ FailIngest
    /\ UNCHANGED progress
    /\ ProducerFrame

(* The connection breaks, or the reader of the body sees the context end. *)
ReadFails ==
    /\ ppc \in {"labels", "read"}
    /\ FailIngest
    /\ UNCHANGED progress
    /\ ProducerFrame

(* io.EOF in the loop is no error. *)
EndOfFile ==
    /\ ppc = "read"
    /\ next = N + 1
    /\ ppc' = "exit"
    /\ UNCHANGED <<next, progress, channelVars>>
    /\ ProducerFrame

(* Mutation: a send that does not wait drops the row. *)
SendOrDrop ==
    /\ ppc = "send"
    /\ results' = IF Len(results) < ChSize THEN Append(results, next) ELSE results
    /\ next' = next + 1
    /\ ppc' = "check"
    /\ UNCHANGED <<closed, ingErr, progress>>
    /\ ProducerFrame

(* Mutation: the row is sent again before the next one is read. *)
SendTwice ==
    /\ ppc = "send"
    /\ results' = Append(results, next)
    /\ next' \in {next, next + 1}
    /\ ppc' = "check"
    /\ UNCHANGED <<closed, ingErr, progress>>
    /\ ProducerFrame

(* results <- pp.  Nothing but a receive frees a sender that waits. *)
SendRow ==
    /\ ppc = "send"
    /\ Len(results) < ChSize
    /\ results' = Append(results, next)
    /\ next' = next + 1
    /\ ppc' = "check"
    /\ UNCHANGED <<closed, ingErr, progress>>
    /\ ProducerFrame

(* The deferred close of the body and of the channel. *)
CloseResults ==
    /\ ppc = "exit"
    /\ closed' = TRUE
    /\ ppc' = "ended"
    /\ UNCHANGED <<results, ingErr, next, progress>>
    /\ ProducerFrame

(* row[index] of a row with fewer fields than labels: an index out of    *)
(* range that nothing recovers, in a goroutine of its own.               *)
ShortRowPanics ==
    /\ ppc = "read"
    /\ next <= N
    /\ Row(next).parses = "short"
    /\ ~crashed
    /\ crashed' = TRUE
    /\ UNCHANGED <<storeVars, feed, ctxDone, channelVars, consumerVars, producerVars, runs>>

Produce ==
    \/ Download \/ DownloadFails \/ ReadLabels \/ NoLabels \/ CheckContext
    \/ ReadRow \/ ParseFails \/ ReadFails \/ EndOfFile \/ SendRow
    \/ CloseResults \/ ShortRowPanics

(* The ticker's channel closes once the body is read to its end or the    *)
(* context is done, and the goroutine then closes progressCh.  The CSV    *)
(* reader reads ahead, so that the end may come before the last row does. *)
BodyEnds == ctxDone \/ next = N + 1

ProgressEnds ==
    /\ ~crashed
    /\ progress = "reporting"
    /\ progress' = "closed"
    /\ UNCHANGED <<storeVars, feed, ctxDone, channelVars, consumerVars, ppc, next, crashed, runs>>

-----------------------------------------------------------------------------
(* ... and so do the steps of IngestPricing and of its caller. *)
ConsumerFrame == ~crashed /\ UNCHANGED <<producerVars, crashed, runs>>

ConsumerStep == Consume /\ ConsumerFrame

Cancel == CancelContext /\ ConsumerFrame

(* The process is killed; only the tables survive. *)
Crash ==
    /\ ~crashed
    /\ result = "none"
    /\ crashed' = TRUE
    /\ UNCHANGED <<storeVars, feed, ctxDone, channelVars, consumerVars, producerVars, runs>>

(* The caller runs IngestPricing again, with a new Ingester.  A goroutine *)
(* of the old run has nothing in common with the new one.                 *)
StartRun ==
    /\ crashed \/ result # "none"
    /\ runs < MaxRuns
    /\ runs' = runs + 1
    /\ feed' \in Feeds
    /\ results' = <<>> /\ closed' = FALSE /\ ingErr' = FALSE
    /\ cpc' = "receive" /\ item' = 0 /\ itemID' = 0
    /\ cache' = [s \in SKUs |-> 0]
    /\ result' = "none" /\ done' = {}
    /\ ctxDone' = FALSE
    /\ ppc' = "download" /\ next' = 1
    /\ progress' \in {"unwanted", "unused"}
    /\ crashed' = FALSE
    /\ UNCHANGED storeVars

(* Nothing more happens after the last run. *)
Finished ==
    /\ crashed \/ result # "none"
    /\ runs = MaxRuns
    /\ UNCHANGED vars

Next ==
    \/ Produce \/ ConsumerStep \/ ProgressEnds \/ Cancel
    \/ Crash \/ StartRun \/ Finished

(***************************************************************************)
(* The goroutines are scheduled, and every network and database call they  *)
(* make returns in the end; the caller reads progressCh.  Nobody has to    *)
(* cancel, kill or restart a run.                                          *)
(***************************************************************************)
Fairness ==
    /\ WF_vars(Produce)
    /\ WF_vars(ConsumerStep)
    /\ WF_vars(ProgressEnds /\ BodyEnds)

Spec == Init /\ [][Next]_vars /\ Fairness

-----------------------------------------------------------------------------
(* IngestPricing returns nil only if every row of the price list that the *)
(* filter keeps is stored (ingestion.go: a closed channel is the end of   *)
(* the list only if Ingester.Err says so): no failed download, parse or   *)
(* upsert and no cancellation on the way is taken for the end.            *)
SuccessIsComplete ==
    result = "ok" => Kept \subseteq done /\ \A i \in 1..N : Row(i).parses = "good"

Book == INSTANCE PriceBook WITH
    Products <- ProductKeys, PriceHashes <- Hashes, NoPrice <- Missing,
    Lists <- {Entries(f) : f \in Feeds}, book <- BookOf, list <- Entries(feed),
    written <- Cardinality(done), status <- BookStatus(crashed), idsLeft <- IDsLeft

(* Ingestion implements PriceBook: whatever upserts, ids, channels and       *)
(* goroutines it takes, the prices by product and hash change one entry of   *)
(* the list at a time, in order, and success means that all were entered -   *)
(* under their own products until the ids are used up.                       *)
ImplementsPriceBook == Book!Spec

(***************************************************************************)
(* Why these hold.  The rows read so far are acknowledged, in hand or in   *)
(* the channel, in feed order (PipelineInOrder, PipelineIsFull); the end   *)
(* of the channel means the end of the file unless the error says not      *)
(* (EndIsKnown); what is said of ids and tables is in IngestPricing.       *)
(***************************************************************************)
PipelineInOrder ==
    /\ PassedInOrder
    /\ \A i \in Passed : i < next
    /\ ppc = "send" => Row(next).kept

PipelineIsFull ==
    \A i \in Kept : i < next => i \in Passed

EndIsKnown ==
    /\ \A i \in 1..N : i < next => Row(i).parses = "good"
    /\ ppc = "send" => Row(next).parses = "good"
    /\ closed <=> ppc = "ended"
    /\ ppc \in {"exit", "ended"} => ingErr \/ next = N + 1
    /\ ResultIsKnown

IInv ==
    /\ TypeOK /\ PipelineInOrder /\ PipelineIsFull /\ EndIsKnown
    /\ IDsAreUnique /\ PricesHaveProducts /\ StoreIsKnown

(* IngestPricing returns, unless the process dies: a producer that fails  *)
(* still closes the channel, and a full channel is always drained.        *)
IngestionEnds == (cpc # "returned") ~> (cpc = "returned" \/ crashed)

(* Once the download is under way, the goroutine that reports progress    *)
(* closes progressCh: the deferred cancel of IngestPricing ends it even   *)
(* when the body is abandoned half read.                                  *)
ReportEnds ==
    \A r \in 1..MaxRuns : (runs = r /\ progress = "reporting")
                              ~> (progress = "closed" \/ crashed \/ runs # r)

(* aws/ingester.go:72 - "for the duration of the context, sends the       *)
(* results": when the context is over, so is the goroutine of Ingest.     *)
ProducerEnds == ctxDone ~> (ppc = "ended" \/ crashed)
=============================================================================
