------------------------- MODULE AwsIngestionProofs -------------------------
(***************************************************************************)
(* Proofs about AwsIngestion, for every price list, channel capacity and   *)
(* number of runs.                                                         *)
(***************************************************************************)
EXTENDS AwsIngestion, IngestPricingProofs, FiniteSetTheorems

(* Every variable keeps its type. *)
LEMMA TypeInit == Init => TypeOK
<1> SUFFICES ASSUME Init PROVE TypeOK OBVIOUS
<1>1. N \in Nat BY NType DEF Init
<1>2. ConsumerTypeOK BY ConsumerInitType DEF Init, RunInit
<1>3. next \in 1..(N + 1) /\ runs \in 1..MaxRuns BY <1>1, MaxRunsAssumption DEF Init, RunInit
<1> QED BY <1>2, <1>3 DEF Init, RunInit, TypeOK

LEMMA TypeProduce == ASSUME TypeOK, Produce PROVE TypeOK'
<1>1. N \in Nat /\ feed \in Feeds BY NType DEF TypeOK, ConsumerTypeOK
<1>2. UNCHANGED <<storeVars, feed, ctxDone, consumerVars, runs>> /\ N' = N
  BY DEF Produce, Download, DownloadFails, ReadLabels, NoLabels, CheckContext, ReadRow, ParseFails,
         ReadFails, EndOfFile, SendRow, CloseResults, ShortRowPanics, ProducerFrame, N
<1>4. results' \in Seq(1..N) /\ Len(results') <= ChSize
  <2>1. CASE SendRow
    BY <1>1, <2>1, ChSizeAssumption DEF SendRow, TypeOK, ConsumerTypeOK
  <2>2. CASE ~SendRow
    BY <2>2 DEF Produce, Download, DownloadFails, ReadLabels, NoLabels, CheckContext, ReadRow,
         ParseFails, ReadFails, EndOfFile, CloseResults, ShortRowPanics, FailIngest, channelVars,
         TypeOK, ConsumerTypeOK
  <2> QED BY <2>1, <2>2
<1>5. ctxDone' \in BOOLEAN /\ closed' \in BOOLEAN /\ ingErr' \in BOOLEAN /\ crashed' \in BOOLEAN
  BY DEF Produce, Download, DownloadFails, ReadLabels, NoLabels, CheckContext, ReadRow,
         ParseFails, ReadFails, EndOfFile, SendRow, CloseResults, ShortRowPanics, FailIngest, channelVars,
         ProducerFrame, TypeOK, ConsumerTypeOK
<1>6. /\ ppc' \in {"download", "labels", "check", "read", "send", "exit", "ended"}
      /\ next' \in 1..(N + 1)
      /\ ppc' = "send" => next' <= N
  BY <1>1 DEF Produce, Download, DownloadFails, ReadLabels, NoLabels, CheckContext, ReadRow,
         ParseFails, ReadFails, EndOfFile, SendRow, CloseResults, ShortRowPanics, FailIngest,
         producerVars, TypeOK
<1>7. progress' \in {"unwanted", "unused", "reporting", "closed"}
  BY DEF Produce, Download, DownloadFails, ReadLabels, NoLabels, CheckContext, ReadRow,
         ParseFails, ReadFails, EndOfFile, SendRow, CloseResults, ShortRowPanics, producerVars, TypeOK
<1>8. ConsumerTypeOK' BY <1>2, <1>4, <1>5, ConsumerSameType DEF TypeOK
<1> QED BY <1>2, <1>5, <1>6, <1>7, <1>8 DEF TypeOK

LEMMA TypeStep == TypeOK /\ [Next]_vars => TypeOK'
<1> SUFFICES ASSUME TypeOK, [Next]_vars PROVE TypeOK' OBVIOUS
<1>1. CASE Produce BY <1>1, TypeProduce
<1>2. CASE ConsumerStep
  <2>1. ConsumerTypeOK' BY <1>2, ConsumeType DEF ConsumerStep, TypeOK
  <2>2. UNCHANGED <<feed, ppc, next, progress, crashed, runs>> /\ N' = N
    BY <1>2 DEF ConsumerStep, ConsumerFrame, producerVars, Consume, ReceiveRow, UpsertProduct, FailProduct,
           UpsertPrice, FailPrice, RangeEnds, N
  <2> QED BY <2>1, <2>2 DEF TypeOK
<1>3. CASE StartRun
  <2>1. feed' \in Feeds /\ N' \in Nat BY <1>3, FeedsAssumption DEF StartRun, N
  <2>2. ConsumerTypeOK'
    BY <1>3, ConsumerRestartType DEF StartRun, ConsumerInit, TypeOK, ConsumerTypeOK
  <2>3. runs' \in 1..MaxRuns BY <1>3, MaxRunsAssumption DEF StartRun, TypeOK
  <2>4. next' \in 1..(N' + 1)
    <3>1. next' = 1 BY <1>3 DEF StartRun
    <3> QED BY <2>1, <3>1 DEF N
  <2> QED BY <1>3, <2>2, <2>3, <2>4 DEF StartRun, TypeOK
<1>4. CASE ProgressEnds \/ Cancel \/ Crash \/ UNCHANGED vars
  <2>1. UNCHANGED <<storeVars, feed, channelVars, consumerVars, ppc, next, runs>>
    BY <1>4 DEF ProgressEnds, Cancel, CancelContext, ConsumerFrame, Crash, vars, producerVars
  <2>2. ctxDone' \in BOOLEAN /\ crashed' \in BOOLEAN
    BY <1>4 DEF ProgressEnds, Cancel, CancelContext, ConsumerFrame, Crash, vars, producerVars, TypeOK, ConsumerTypeOK
  <2>3. progress' \in {"unwanted", "unused", "reporting", "closed"}
    BY <1>4 DEF ProgressEnds, Cancel, CancelContext, ConsumerFrame, Crash, vars, producerVars, TypeOK
  <2>4. ConsumerTypeOK'
    BY <2>1, <2>2, ConsumerSameType DEF TypeOK, ConsumerTypeOK, channelVars
  <2> QED BY <2>1, <2>2, <2>3, <2>4 DEF TypeOK, N
<1> QED BY <1>1, <1>2, <1>3, <1>4 DEF Next, Finished

(* Every reachable state is well typed: ids stay within their column,    *)
(* the channel within its capacity, the reader within its file.          *)
THEOREM TypeCorrect == Spec => []TypeOK
  BY TypeInit, TypeStep, PTL DEF Spec

-----------------------------------------------------------------------------

Pipeline == PipelineInOrder /\ PipelineIsFull

LEMMA Numbers ==
    ASSUME TypeOK
    PROVE  /\ N \in Nat /\ next \in Nat /\ feed \in Feeds /\ Passed \subseteq 1..N
           /\ Kept \subseteq Nat /\ done \subseteq Nat
  BY ConsumerNumbers DEF TypeOK

(* A producer that does not send leaves the pipeline as it is. *)
LEMMA PipelineSame ==
    ASSUME TypeOK, Pipeline, UNCHANGED <<feed, results, next, done, item>>,
           ppc' = "send" => ppc = "send" \/ Row(next).kept
    PROVE  Pipeline'
<1>1. PassedInOrder' /\ Passed' = Passed BY SameOrder DEF Pipeline, PipelineInOrder
<1>2. Kept' = Kept /\ \A i : Row(i)' = Row(i) BY DEF Kept, Row, N
<1> QED BY <1>1, <1>2 DEF Pipeline, PipelineInOrder, PipelineIsFull, Row

LEMMA PipelineProduce == ASSUME TypeOK, Pipeline, Produce PROVE Pipeline'
<1>1. UNCHANGED <<feed, done, item>>
  BY DEF Produce, Download, DownloadFails, ReadLabels, NoLabels, CheckContext, ReadRow, ParseFails,
         ReadFails, EndOfFile, SendRow, CloseResults, ShortRowPanics, ProducerFrame, consumerVars
<1>2. Kept' = Kept /\ \A i : Row(i)' = Row(i) BY <1>1 DEF Kept, Row, N
<1>3. CASE ReadRow /\ ~Row(next).kept
  <2>1. results' = results /\ next' = next + 1 /\ ppc' = "check"
    BY <1>3 DEF ReadRow, channelVars
  <2>2. PassedInOrder' /\ Passed' = Passed BY <1>1, <2>1, SameOrder DEF Pipeline, PipelineInOrder
  <2>3. \A i \in Passed : i < next' BY <2>1, Numbers DEF Pipeline, PipelineInOrder
  <2>4. PipelineInOrder' BY <2>1, <2>2, <2>3 DEF PipelineInOrder
  <2>5. \A i \in Kept : i < next' => i < next BY <1>3, <2>1, Numbers DEF Kept
  <2> QED BY <1>2, <2>2, <2>4, <2>5 DEF Pipeline, PipelineIsFull
<1>4. CASE SendRow
  <2>1. results' = Append(results, next) /\ next' = next + 1 /\ ppc = "send" /\ ppc' = "check"
    BY <1>4 DEF SendRow
  <2>2. next \in 1..N BY <2>1, Numbers DEF TypeOK
  <2>3. PassedInOrder' /\ Passed' = Passed \cup {next}
    BY <1>1, <2>1, <2>2, SendInOrder DEF TypeOK, Pipeline, PipelineInOrder
  <2>4. \A i \in Passed' : i < next' BY <2>1, <2>3, Numbers DEF Pipeline, PipelineInOrder
  <2>5. PipelineInOrder' BY <2>1, <2>3, <2>4 DEF PipelineInOrder
  <2>6. \A i \in Kept : i < next' => i < next \/ i = next BY <2>1, Numbers
  <2> QED BY <1>2, <2>3, <2>5, <2>6 DEF Pipeline, PipelineIsFull
<1>5. CASE ~SendRow /\ ~(ReadRow /\ ~Row(next).kept)
  <2>1. UNCHANGED <<results, next>> /\ (ppc' = "send" => ppc = "send" \/ Row(next).kept)
    BY <1>5 DEF Produce, Download, DownloadFails, ReadLabels, NoLabels, CheckContext, ReadRow, ParseFails,
         ReadFails, EndOfFile, CloseResults, ShortRowPanics, FailIngest, channelVars, producerVars
  <2> QED BY <1>1, <2>1, PipelineSame
<1> QED BY <1>3, <1>4, <1>5

LEMMA PipelineConsume == ASSUME TypeOK, Pipeline, EndIsKnown, ConsumerStep PROVE Pipeline'
<1>1. UNCHANGED <<feed, ppc, next>>
  BY DEF ConsumerStep, ConsumerFrame, Consume, ReceiveRow, UpsertProduct, FailProduct, UpsertPrice, FailPrice,
         RangeEnds, producerVars
<1>2. Kept' = Kept /\ \A i : Row(i)' = Row(i) BY <1>1 DEF Kept, Row, N
<1>3. PassedInOrder' /\ Passed' = Passed
  BY ConsumeInOrder DEF TypeOK, Pipeline, PipelineInOrder, EndIsKnown, ConsumerStep
<1> QED BY <1>1, <1>2, <1>3 DEF Pipeline, PipelineInOrder, PipelineIsFull, Row

-----------------------------------------------------------------------------
LEMMA EndProduce == ASSUME TypeOK, EndIsKnown, Produce PROVE EndIsKnown'
<1>1. UNCHANGED <<feed, cpc, item, result>>
  BY DEF Produce, Download, DownloadFails, ReadLabels, NoLabels, CheckContext, ReadRow, ParseFails,
         ReadFails, EndOfFile, SendRow, CloseResults, ShortRowPanics, ProducerFrame, consumerVars
<1>2. N' = N /\ \A i : Row(i)' = Row(i) BY <1>1 DEF N, Row
<1>3. \A i \in 1..N : i < next' => Row(i).parses = "good"
  <2>1. next' = next \/ (next' = next + 1 /\ Row(next).parses = "good")
    BY DEF Produce, Download, DownloadFails, ReadLabels, NoLabels, CheckContext, ReadRow, ParseFails,
         ReadFails, EndOfFile, SendRow, CloseResults, ShortRowPanics, FailIngest, producerVars, EndIsKnown
  <2> QED BY <2>1, Numbers DEF EndIsKnown
<1>4. ppc' = "send" => Row(next').parses = "good"
  BY DEF Produce, Download, DownloadFails, ReadLabels, NoLabels, CheckContext, ReadRow, ParseFails,
         ReadFails, EndOfFile, SendRow, CloseResults, ShortRowPanics, FailIngest, producerVars, EndIsKnown
<1>5. closed' <=> ppc' = "ended"
  BY DEF Produce, Download, DownloadFails, ReadLabels, NoLabels, CheckContext, ReadRow, ParseFails,
         ReadFails, EndOfFile, SendRow, CloseResults, ShortRowPanics, FailIngest, channelVars,
         producerVars, EndIsKnown
<1>6. ppc' \in {"exit", "ended"} => ingErr' \/ next' = N + 1
  BY DEF Produce, Download, DownloadFails, ReadLabels, NoLabels, CheckContext, ReadRow, ParseFails,
         ReadFails, EndOfFile, SendRow, CloseResults, ShortRowPanics, FailIngest, channelVars,
         producerVars, EndIsKnown
<1>7. closed => UNCHANGED <<closed, ingErr, results>>
  BY DEF Produce, Download, DownloadFails, ReadLabels, NoLabels, CheckContext, ReadRow, ParseFails,
         ReadFails, EndOfFile, SendRow, CloseResults, ShortRowPanics, FailIngest, channelVars,
         producerVars, EndIsKnown
<1>8. ResultIsKnown' BY <1>1, <1>7 DEF EndIsKnown, ResultIsKnown
<1> QED BY <1>1, <1>2, <1>3, <1>4, <1>5, <1>6, <1>8 DEF EndIsKnown

LEMMA EndConsume == ASSUME TypeOK, EndIsKnown, ConsumerStep PROVE EndIsKnown'
<1>1. UNCHANGED <<feed, ppc, next, closed, ingErr>>
  BY DEF ConsumerStep, ConsumerFrame, Consume, ReceiveRow, UpsertProduct, FailProduct, UpsertPrice, FailPrice,
         RangeEnds, producerVars, channelVars
<1>2. N' = N /\ \A i : Row(i)' = Row(i) BY <1>1 DEF N, Row
<1>3. ResultIsKnown' BY ConsumeResult DEF EndIsKnown, ConsumerStep
<1> QED BY <1>1, <1>2, <1>3 DEF EndIsKnown

-----------------------------------------------------------------------------
(* The inductive invariant. *)
LEMMA InvInit == Init => IInv
<1> SUFFICES ASSUME Init PROVE IInv OBVIOUS
<1>1. TypeOK BY TypeInit
<1>2. /\ results = <<>> /\ item = 0 /\ done = {} /\ next = 1 /\ ppc = "download" /\ ~closed
      /\ cpc = "receive" /\ result = "none" /\ cache = [t \in SKUs |-> 0]
  BY DEF Init, RunInit, ConsumerInit
<1>3. PassedInOrder /\ ResultIsKnown /\ Passed = {} BY ConsumerInitOrder DEF Init, RunInit
<1>4. PipelineInOrder BY <1>2, <1>3 DEF PipelineInOrder
<1>5. N \in Nat /\ \A i \in 1..N : ~(i < next) BY <1>1, <1>2, Numbers
<1>6. PipelineIsFull BY <1>5 DEF PipelineIsFull, Kept
<1>7. EndIsKnown BY <1>2, <1>3, <1>5 DEF EndIsKnown
<1>8. IDsAreUnique /\ PricesHaveProducts BY StoreStarts DEF Init
<1>9. StoreIsKnown BY StoreKnownAtStart DEF Init, RunInit
<1> QED BY <1>1, <1>4, <1>6, <1>7, <1>8, <1>9 DEF IInv

LEMMA InvStartRun == ASSUME IInv, TypeOK', StartRun PROVE IInv'
<1>1. /\ results' = <<>> /\ item' = 0 /\ done' = {} /\ next' = 1 /\ ppc' = "download" /\ ~closed'
      /\ cpc' = "receive" /\ result' = "none" /\ cache' = [t \in SKUs |-> 0] /\ UNCHANGED storeVars
      /\ feed' \in Feeds
  BY DEF StartRun
<1>2. PassedInOrder' /\ ResultIsKnown' /\ Passed' = {}
  <2>1. ConsumerInit' BY DEF StartRun, ConsumerInit
  <2> QED BY <2>1, ConsumerRestartOrder
<1>3. PipelineInOrder' BY <1>1, <1>2 DEF PipelineInOrder
<1>4. \A i \in 1..N' : ~(i < next')
  <2>1. feed'.rows \in Seq(Rows) BY <1>1, FeedsAssumption
  <2> QED BY <1>1, <2>1 DEF N
<1>5. PipelineIsFull' BY <1>4 DEF PipelineIsFull, Kept
<1>6. EndIsKnown' BY <1>1, <1>2, <1>4 DEF EndIsKnown
<1>7. IDsAreUnique' /\ PricesHaveProducts' BY <1>1, UniqueSame, UnusedSame DEF IInv
<1>8. StoreIsKnown'
  <2>1. ConsumerInit' BY DEF StartRun, ConsumerInit
  <2> QED BY <1>1, <2>1, StoreKnownAtRestart
<1> QED BY <1>3, <1>5, <1>6, <1>7, <1>8 DEF IInv

LEMMA InvStep == IInv /\ [Next]_vars => IInv'
<1> SUFFICES ASSUME IInv, [Next]_vars PROVE IInv' OBVIOUS
<1>1. TypeOK /\ TypeOK' BY TypeStep DEF IInv
<1>2. Pipeline /\ EndIsKnown /\ IDsAreUnique /\ PricesHaveProducts /\ StoreIsKnown BY DEF IInv, Pipeline
<1>3. CASE Produce
  <2>1. UNCHANGED <<storeVars, feed, consumerVars>>
    BY <1>3 DEF Produce, Download, DownloadFails, ReadLabels, NoLabels, CheckContext, ReadRow, ParseFails,
         ReadFails, EndOfFile, SendRow, CloseResults, ShortRowPanics, ProducerFrame
  <2>2. StoreIsKnown' /\ IDsAreUnique' /\ PricesHaveProducts' BY <1>2, <2>1, StoreSame, UniqueSame, UnusedSame
  <2>3. Pipeline' /\ EndIsKnown' BY <1>1, <1>2, <1>3, PipelineProduce, EndProduce
  <2> QED BY <1>1, <2>2, <2>3 DEF IInv, Pipeline
<1>4. CASE ConsumerStep
  <2>1. Pipeline' /\ EndIsKnown' BY <1>1, <1>2, <1>4, PipelineConsume, EndConsume
  <2>2. ConsumerTypeOK /\ PassedInOrder /\ ResultIsKnown /\ OneLocation(feed) /\ Consume
    BY <1>1, <1>2, <1>4, LocationAssumption
    DEF TypeOK, ConsumerTypeOK, Pipeline, PipelineInOrder, EndIsKnown, ConsumerStep
  <2>3. StoreIsKnown' /\ IDsAreUnique' /\ PricesHaveProducts'
    BY <1>2, <2>2, StoreConsume, UniqueConsume, UnusedConsume
  <2> QED BY <1>1, <2>1, <2>3 DEF IInv, Pipeline
<1>5. CASE StartRun BY <1>1, <1>5, InvStartRun
<1>6. CASE ProgressEnds \/ Cancel \/ Crash \/ UNCHANGED vars
  <2>1. UNCHANGED <<storeVars, feed, channelVars, consumerVars, ppc, next>>
    BY <1>6 DEF ProgressEnds, Cancel, CancelContext, ConsumerFrame, Crash, vars, producerVars
  <2>2. StoreIsKnown' /\ IDsAreUnique' /\ PricesHaveProducts' BY <1>2, <2>1, StoreSame, UniqueSame, UnusedSame
  <2>3. UNCHANGED <<results, closed, ingErr, done, item, cpc, result>>
    BY <2>1 DEF channelVars, consumerVars
  <2>4. Pipeline' BY <1>1, <1>2, <2>1, <2>3, PipelineSame
  <2>5. EndIsKnown' BY <1>2, <2>1, <2>3 DEF EndIsKnown, ResultIsKnown, N, Row
  <2> QED BY <1>1, <2>2, <2>4, <2>5 DEF IInv, Pipeline
<1> QED BY <1>3, <1>4, <1>5, <1>6 DEF Next, Finished

LEMMA InvHolds == Spec => []IInv
  BY InvInit, InvStep, PTL DEF Spec

LEMMA SuccessOfInv == IInv => SuccessIsComplete
<1> SUFFICES ASSUME IInv, result = "ok"
             PROVE  Kept \subseteq done /\ \A i \in 1..N : Row(i).parses = "good"
  BY DEF SuccessIsComplete
<1>1. TypeOK /\ EndIsKnown /\ PipelineIsFull BY DEF IInv
<1>2. next = N + 1 /\ results = <<>> /\ item = 0 BY <1>1 DEF EndIsKnown, ResultIsKnown
<1>3. Queued = {} /\ InHand = {} BY <1>2 DEF Queued, InHand
<1>4. \A i \in 1..N : i < next BY <1>1, <1>2, Numbers
<1> QED BY <1>1, <1>3, <1>4 DEF PipelineIsFull, EndIsKnown, Kept, Passed

(* A successful run has stored every row its filter keeps.               *)
THEOREM Success == Spec => []SuccessIsComplete
  BY SuccessOfInv, InvHolds, PTL

(* Whatever ends a run, what it acknowledged is a prefix of the kept rows. *)
THEOREM Prefix == Spec => []StoredInOrder
<1>1. IInv => StoredInOrder
  <2> SUFFICES ASSUME IInv PROVE StoredInOrder OBVIOUS
  <2>1. TypeOK /\ PipelineInOrder /\ PipelineIsFull BY DEF IInv
  <2>2. done \subseteq Kept BY <2>1 DEF PipelineInOrder, PassedInOrder, Passed, Kept, TypeOK, ConsumerTypeOK
  <2>3. ASSUME NEW i \in done, NEW j \in Kept, j < i PROVE j \in done
    <3>1. i < next /\ j < next BY <2>1, <2>3, Numbers DEF PipelineInOrder, Passed
    <3>2. j \in done \cup InHand \cup Queued BY <2>1, <3>1 DEF PipelineIsFull, Passed
    <3>3. j \notin InHand \cup Queued BY <2>1, <2>3, Numbers DEF PipelineInOrder, PassedInOrder
    <3> QED BY <3>2, <3>3
  <2> QED BY <2>2, <2>3 DEF StoredInOrder
<1> QED BY <1>1, InvHolds, PTL

(* The tables hold the last acknowledged row of each price of the run,    *)
(* as long as the ids of products are not used up.                        *)
THEOREM LastWriteWins == Spec => []StoreFollowsFeed
<1>1. IInv => StoreFollowsFeed BY DEF IInv, StoreIsKnown
<1> QED BY <1>1, InvHolds, PTL

(* skuProductID holds no id that is not the product's while ids are left.  *)
THEOREM CacheCoherence == Spec => []CacheIsCoherent
<1>1. IInv => CacheIsCoherent BY DEF IInv, StoreIsKnown
<1> QED BY <1>1, InvHolds, PTL

(* Prices change only to what the current price list says - of the product *)
(* they belong to, while ids are left -, and ids of products never change. *)
THEOREM Writes == Spec => WritesAreFromFeed
<1>1. IInv /\ [Next]_vars => [WriteIsFromFeed]_storeVars
  <2> SUFFICES ASSUME IInv, [Next]_vars PROVE WriteIsFromFeed OBVIOUS
  <2>1. ConsumerTypeOK /\ PassedInOrder /\ IDsAreUnique /\ IDIsOfRow
    BY DEF IInv, TypeOK, PipelineInOrder, StoreIsKnown
  <2>2. CASE ConsumerStep BY <2>1, <2>2, ConsumeWritesFromFeed DEF ConsumerStep
  <2>3. CASE ~ConsumerStep
    <3>1. UNCHANGED storeVars
      BY <2>3 DEF Next, Produce, Download, DownloadFails, ReadLabels, NoLabels, CheckContext,
         ReadRow, ParseFails, ReadFails, EndOfFile, SendRow, CloseResults, ShortRowPanics, ProducerFrame,
         ProgressEnds, Cancel, CancelContext, Crash, StartRun, Finished, vars
    <3> QED BY <3>1, NoWrites
  <2> QED BY <2>2, <2>3
<1> QED BY <1>1, InvHolds, PTL DEF Spec, WritesAreFromFeed

-----------------------------------------------------------------------------
(* Ingestion implements PriceBook.  The book changes with the price table; *)
(* the entry written is the one the row in hand stands for, because done   *)
(* is the set of the kept rows before it.                                  *)

LEMMA KeptIsFinite ==
    ASSUME feed \in Feeds
    PROVE  /\ Kept = KeptRows(feed) /\ IsFiniteSet(Kept)
           /\ \A S \in SUBSET Kept : IsFiniteSet(S) /\ Cardinality(S) \in Nat
           /\ DOMAIN Entries(feed) = 1..Cardinality(Kept)
           /\ Len(Entries(feed)) = Cardinality(Kept)
           /\ \A n \in 1..Cardinality(Kept) : Entries(feed)[n] = Entry(feed.rows[NthKept(feed, n)])
<1>1. N \in Nat /\ feed.rows \in Seq(Rows) BY NType, FeedsAssumption
<1>2. DOMAIN feed.rows = 1..N BY <1>1 DEF N
<1>3. Kept = KeptRows(feed) BY <1>2 DEF Kept, KeptRows, Row
<1>4. IsFiniteSet(1..N) BY <1>1, FS_Interval
<1>5. IsFiniteSet(Kept) BY <1>4, FS_Subset DEF Kept
<1>6. \A S \in SUBSET Kept : IsFiniteSet(S) /\ Cardinality(S) \in Nat
  BY <1>5, FS_Subset, FS_CardinalityType
<1>7. Cardinality(Kept) \in Nat BY <1>5, FS_CardinalityType
<1>8. Len(Entries(feed)) = Cardinality(Kept) BY <1>3, <1>7 DEF Entries
<1> QED BY <1>3, <1>5, <1>6, <1>8 DEF Entries

(* The rows before a kept one number one less than its place in the list. *)
LEMMA PlaceInList ==
    ASSUME feed \in Feeds, NEW i \in Kept, NEW S, S = {j \in Kept : j < i}
    PROVE  /\ Cardinality(S) + 1 \in 1..Cardinality(Kept)
           /\ Entries(feed)[Cardinality(S) + 1] = Entry(Row(i))
<1> DEFINE UpTo(k) == {j \in Kept : j <= k}
<1>1. /\ Kept = KeptRows(feed) /\ IsFiniteSet(Kept)
      /\ \A T \in SUBSET Kept : IsFiniteSet(T) /\ Cardinality(T) \in Nat
  BY KeptIsFinite
<1>2. Kept \subseteq Int BY DEF Kept
<1>3. UpTo(i) = S \cup {i} /\ i \notin S /\ S \subseteq Kept
  <2>1. \A j \in Kept : (j <= i <=> j < i \/ j = i) /\ ~(i < i) BY <1>2
  <2> QED BY ONLY <2>1, i \in Kept, S = {j \in Kept : j < i}
<1>4. Cardinality(UpTo(i)) = Cardinality(S) + 1
  <2>1. IsFiniteSet(S) BY <1>1, <1>3
  <2>2. Cardinality(S \cup {i}) = IF i \in S THEN Cardinality(S) ELSE Cardinality(S) + 1
    BY ONLY <2>1, FS_AddElement
  <2> HIDE DEF UpTo
  <2> QED BY ONLY <1>3, <2>2
<1>5. Cardinality(UpTo(i)) <= Cardinality(Kept) /\ Cardinality(UpTo(i)) >= 1
  BY <1>1, <1>3, <1>4, FS_Subset
<1>6. \A k \in Kept : Cardinality(UpTo(k)) = Cardinality(UpTo(i)) => k = i
  <2>1. SUFFICES ASSUME NEW k \in Kept, Cardinality(UpTo(k)) = Cardinality(UpTo(i)), k # i
                 PROVE  FALSE
    OBVIOUS
  <2>2. CASE k < i
    <3>1. (\A j \in Kept : j <= k => j <= i) /\ i <= i /\ ~(i <= k) BY <1>2, <2>2
    <3>2. UpTo(k) \subseteq UpTo(i) /\ i \in UpTo(i) /\ i \notin UpTo(k) BY ONLY <3>1, i \in Kept
    <3>3. IsFiniteSet(UpTo(i)) BY <1>1
    <3> QED BY <2>1, <3>2, <3>3, FS_Subset
  <2>3. CASE i < k
    <3>1. (\A j \in Kept : j <= i => j <= k) /\ k <= k /\ ~(k <= i) BY <1>2, <2>3
    <3>2. UpTo(i) \subseteq UpTo(k) /\ k \in UpTo(k) /\ k \notin UpTo(i) BY ONLY <3>1, k \in Kept
    <3>3. IsFiniteSet(UpTo(k)) BY <1>1
    <3> QED BY <2>1, <3>2, <3>3, FS_Subset
  <2> QED BY <1>2, <2>1, <2>2, <2>3
<1>7. NthKept(feed, Cardinality(UpTo(i))) = i
  <2>1. NthKept(feed, Cardinality(UpTo(i)))
           = CHOOSE k \in Kept : Cardinality(UpTo(k)) = Cardinality(UpTo(i))
    BY <1>1 DEF NthKept
  <2> HIDE DEF UpTo
  <2> QED BY <1>6, <2>1
<1>8. Cardinality(S) + 1 \in 1..Cardinality(Kept) BY <1>1, <1>3, <1>4, <1>5
<1> QED BY <1>4, <1>7, <1>8, KeptIsFinite DEF Row

(* The row in hand stands for the next entry of the list. *)
LEMMA NextEntry ==
    ASSUME IInv, cpc \in {"product", "price"}
    PROVE  /\ item \in Kept /\ item \notin done /\ done \subseteq Kept
           /\ Cardinality(done) < Len(Entries(feed))
           /\ Cardinality(done) \in Nat
           /\ Entries(feed)[Cardinality(done) + 1] = Entry(Row(item))
           /\ Cardinality(done \cup {item}) = Cardinality(done) + 1
<1>1. TypeOK /\ PipelineInOrder /\ PipelineIsFull /\ feed \in Feeds BY DEF IInv, TypeOK, ConsumerTypeOK
<1>2. item \in InHand /\ item # 0 /\ item \in Nat BY <1>1 DEF InHand, TypeOK, ConsumerTypeOK
<1>3. \A i \in Passed : i \in Kept /\ i < next
  BY <1>1, Numbers DEF PipelineInOrder, PassedInOrder, Kept
<1>4. item \in Kept /\ item < next /\ done \subseteq Kept BY <1>2, <1>3 DEF Passed
<1>5. \A i \in done : i < item BY <1>1, <1>2 DEF PipelineInOrder, PassedInOrder
<1>6. done = {j \in Kept : j < item}
  <2>1. ASSUME NEW j \in Kept, j < item PROVE j \in done
    <3>1. j < next BY <1>1, <1>4, <2>1, Numbers
    <3>2. j \in Passed BY <1>1, <3>1 DEF PipelineIsFull
    <3>3. j \notin Queued BY <1>1, <1>2, <2>1, Numbers DEF PipelineInOrder, PassedInOrder
    <3>4. j \notin InHand BY <1>1, <1>2, <2>1, Numbers DEF InHand
    <3> QED BY <3>2, <3>3, <3>4 DEF Passed
  <2> QED BY <1>4, <1>5, <2>1
<1>7. item \notin done BY <1>2, <1>5
<1>8. /\ Cardinality(done) + 1 \in 1..Cardinality(Kept)
      /\ Entries(feed)[Cardinality(done) + 1] = Entry(Row(item))
  BY <1>1, <1>4, <1>6, PlaceInList
<1>9. IsFiniteSet(done) /\ Cardinality(done) \in Nat /\ Len(Entries(feed)) = Cardinality(Kept)
  BY <1>1, <1>4, KeptIsFinite
<1>10. Cardinality(Kept) \in Nat BY <1>1, KeptIsFinite
<1>11. Cardinality(done \cup {item}) = Cardinality(done) + 1 BY <1>7, <1>9, FS_AddElement
<1> QED BY <1>4, <1>7, <1>8, <1>9, <1>10, <1>11

LEMMA NextIsEntered ==
    ASSUME IInv, cpc \in {"product", "price"},
           NEW p \in ProductKeys, IDsLeft => p = Key(item),
           BookOf' = [BookOf EXCEPT ![<<p, Row(item).hash>>] = Row(item).value]
    PROVE  Book!Enter(Cardinality(done) + 1)
<1> DEFINE e == Entries(feed)[Cardinality(done) + 1]
<1>1. e = Entry(Row(item)) BY NextEntry
<1>2. e.key = Key(item) /\ e.hash = Row(item).hash /\ e.value = Row(item).value
  BY <1>1 DEF Entry, Key
<1> HIDE DEF e
<1>3. IDsLeft => p = e.key BY <1>2
<1>4. BookOf' = [BookOf EXCEPT ![<<p, e.hash>>] = e.value] BY <1>2
<1> QED BY <1>3, <1>4, Zenon DEF Book!Enter, e

LEMMA BooleanIDs == (IDsLeft' <=> IDsLeft) => UNCHANGED IDsLeft
  BY DEF IDsLeft

(* Each step of an ingestion is a step of the book, or none. *)
LEMMA StepsOfTheBook == IInv /\ IInv' /\ [Next]_vars => [Book!Next]_Book!bookVars
<1> SUFFICES ASSUME IInv, IInv', [Next]_vars PROVE [Book!Next]_Book!bookVars OBVIOUS
<1> USE DEF Book!bookVars
<1>1. /\ TypeOK /\ EndIsKnown /\ ResultIsKnown /\ feed \in Feeds
      /\ ConsumerTypeOK /\ IDsAreUnique /\ PricesHaveProducts /\ IDIsOfRow
  BY DEF IInv, EndIsKnown, TypeOK, ConsumerTypeOK, StoreIsKnown
<1>2. CASE UNCHANGED <<storeVars, feed, consumerVars>> /\ UNCHANGED crashed
  <2>1. UNCHANGED <<BookOf, Entries(feed), Cardinality(done), BookStatus(crashed), IDsLeft>>
    BY <1>2 DEF storeVars, consumerVars, BookOf, BookStatus, Entries, KeptRows, NthKept, Entry,
       IDsLeft, InProducts
  <2> QED BY <2>1
<1>3. CASE UNCHANGED <<storeVars, feed, consumerVars>> /\ ~crashed /\ crashed'
           /\ (result = "none" \/ ppc # "ended")
  <2>1. /\ UNCHANGED <<BookOf, Entries(feed), Cardinality(done), IDsLeft>>
        /\ BookStatus(crashed)' = "stopped"
    BY <1>3 DEF storeVars, consumerVars, BookOf, BookStatus, Entries, KeptRows, NthKept, Entry,
       IDsLeft, InProducts
  <2>2. result # "ok" BY <1>1, <1>3 DEF EndIsKnown, ResultIsKnown
  <2>3. BookStatus(crashed) \in {"running", "stopped"} BY <1>3, <2>2 DEF BookStatus
  <2> QED BY <2>1, <2>3 DEF Book!Next, Book!Stop
<1>4. CASE ConsumerStep
  <2>1. UNCHANGED <<feed, Entries(feed), crashed>> /\ ~crashed /\ result = "none"
    BY <1>1, <1>4 DEF ConsumerStep, ConsumerFrame, Consume, ReceiveRow, UpsertProduct, FailProduct, UpsertPrice,
           FailPrice, RangeEnds, ResultIsKnown, Entries, KeptRows, NthKept, Entry
  <2>2. BookStatus(crashed) = "running" BY <2>1 DEF BookStatus
  <2>3. CASE ReceiveRow
    <3>1. UNCHANGED <<BookOf, Cardinality(done), BookStatus(crashed), IDsLeft>>
      BY <2>1, <2>3 DEF ReceiveRow, storeVars, BookOf, BookStatus, IDsLeft, InProducts
    <3> QED BY <2>1, <3>1
  <2>4. CASE UpsertProduct
    <3>1. UNCHANGED <<Cardinality(done), BookStatus(crashed)>>
      BY <2>1, <2>4 DEF UpsertProduct, BookStatus
    <3>2. BookOf' = BookOf BY <1>1, <2>4, ProductKeepsBook DEF UpsertProduct
    <3>3. IDsLeft' => IDsLeft BY <1>1, <2>4, ConsumeKeepsProducts DEF Consume
    <3> QED BY <2>1, <2>2, <3>1, <3>2, <3>3, BooleanIDs DEF Book!Next, Book!UseUpIDs
  <2>5. CASE UpsertPrice
    <3>1. UNCHANGED <<BookStatus(crashed), IDsLeft>> /\ done' = done \cup {item} /\ cpc = "price"
      BY <2>1, <2>5 DEF UpsertPrice, UpsertPriceRow, BookStatus, IDsLeft, InProducts
    <3>2. Book!Enter(Cardinality(done) + 1)
      BY <1>1, <2>5, PriceEntersBook, NextIsEntered DEF UpsertPrice
    <3>3. Cardinality(done) < Len(Entries(feed)) /\ Cardinality(done)' = Cardinality(done) + 1
      BY <3>1, NextEntry
    <3> QED BY <2>1, <2>2, <3>1, <3>2, <3>3 DEF Book!Next, Book!Write
  <2>6. CASE (FailProduct \/ FailPrice \/ RangeEnds) /\ result' = "failed"
    <3>1. UNCHANGED Cardinality(done) /\ BookStatus(crashed)' = "stopped"
      BY <2>1, <2>6 DEF FailProduct, FailPrice, RangeEnds, BookStatus
    <3>2. CASE UNCHANGED <<BookOf, IDsLeft>> BY <2>1, <2>2, <3>1, <3>2 DEF Book!Next, Book!Stop
    <3>3. CASE UNCHANGED storeVars
      <4>1. UNCHANGED <<BookOf, IDsLeft>> BY <3>3 DEF storeVars, BookOf, IDsLeft, InProducts
      <4> QED BY <3>2, <4>1
    <3>4. CASE cpc = "product" /\ UpsertProductRow(Key(item), Row(item).family, Row(item).attributes)
      <4>1. UNCHANGED BookOf BY <1>1, <3>4, ProductKeepsBook
      <4>2. IDsLeft' => IDsLeft BY <1>1, <2>6, ConsumeKeepsProducts DEF Consume
      <4>3. CASE IDsLeft' <=> IDsLeft BY <3>2, <4>1, <4>3, BooleanIDs
      <4>4. CASE IDsLeft /\ ~IDsLeft'
        BY <2>1, <2>2, <3>1, <4>1, <4>4 DEF Book!Next, Book!UseUpIDs
      <4> QED BY <4>2, <4>3, <4>4
    <3>5. CASE cpc = "price" /\ UpsertPriceRow(itemID, Row(item).hash, Row(item).value)
      <4>1. Book!Enter(Cardinality(done) + 1) BY <1>1, <3>5, PriceEntersBook, NextIsEntered
      <4>2. Cardinality(done) < Len(Entries(feed)) BY <3>5, NextEntry
      <4>3. UNCHANGED IDsLeft BY <3>5 DEF UpsertPriceRow, IDsLeft, InProducts
      <4> QED BY <2>1, <2>2, <3>1, <4>1, <4>2, <4>3 DEF Book!Next, Book!Stop
    <3> QED BY <2>6, <3>3, <3>4, <3>5 DEF FailProduct, FailPrice, RangeEnds
  <2>7. CASE RangeEnds /\ result' = "ok"
    <3>1. UNCHANGED <<BookOf, Cardinality(done), done, IDsLeft>> /\ BookStatus(crashed)' = "ok"
      BY <2>1, <2>7 DEF RangeEnds, BookStatus, storeVars, BookOf, IDsLeft, InProducts
    <3>2. done = Kept
      <4>1. (IInv => SuccessIsComplete)' BY SuccessOfInv, PTL
      <4>2. Kept' \subseteq done' BY <2>7, <4>1 DEF SuccessIsComplete
      <4>3. Kept' = Kept BY <2>1 DEF Kept, N, Row
      <4>4. \A i \in done : i \in Kept
        BY <1>1, Numbers DEF IInv, PipelineInOrder, PassedInOrder, Passed, Kept
      <4> QED BY <3>1, <4>2, <4>3, <4>4
    <3>3. Cardinality(done) = Len(Entries(feed)) BY <1>1, <3>2, KeptIsFinite
    <3> QED BY <2>1, <2>2, <3>1, <3>3 DEF Book!Next, Book!Succeed
  <2>8. FailProduct \/ FailPrice => result' = "failed" BY DEF FailProduct, FailPrice, Return
  <2>9. RangeEnds => result' \in {"failed", "ok"} BY DEF RangeEnds, Return
  <2> QED BY <1>4, <2>3, <2>4, <2>5, <2>6, <2>7, <2>8, <2>9 DEF ConsumerStep, Consume
<1>5. CASE StartRun
  <2>1. /\ UNCHANGED <<BookOf, IDsLeft>> /\ feed' \in Feeds /\ done' = {}
        /\ BookStatus(crashed)' = "running"
    BY <1>5 DEF StartRun, storeVars, BookOf, BookStatus, IDsLeft, InProducts
  <2>2. Cardinality(done)' = 0 BY <2>1, FS_EmptySet
  <2>3. BookStatus(crashed) # "running" BY <1>1, <1>5 DEF StartRun, BookStatus, TypeOK, ConsumerTypeOK
  <2>4. Entries(feed)' \in {Entries(f) : f \in Feeds}
    <3>1. Entries(feed)' = Entries(feed') BY DEF Entries, KeptRows, NthKept, Entry
    <3> QED BY <2>1, <3>1
  <2> QED BY <2>1, <2>2, <2>3, <2>4 DEF Book!Next, Book!Restart
<1>6. CASE Produce
  <2>1. UNCHANGED <<storeVars, feed, consumerVars>> /\ ~crashed
    BY <1>6 DEF Produce, Download, DownloadFails, ReadLabels, NoLabels, CheckContext, ReadRow, ParseFails,
         ReadFails, EndOfFile, SendRow, CloseResults, ShortRowPanics, ProducerFrame
  <2>2. UNCHANGED crashed \/ (crashed' /\ ppc # "ended")
    BY <1>6 DEF Produce, Download, DownloadFails, ReadLabels, NoLabels, CheckContext, ReadRow, ParseFails,
         ReadFails, EndOfFile, SendRow, CloseResults, ShortRowPanics, ProducerFrame
  <2> QED BY <1>2, <1>3, <2>1, <2>2
<1>7. CASE Crash BY <1>3, <1>7 DEF Crash
<1>8. CASE ProgressEnds \/ Cancel \/ Finished \/ UNCHANGED vars
  BY <1>2, <1>8 DEF ProgressEnds, Cancel, CancelContext, ConsumerFrame, Finished, vars
<1> QED BY <1>4, <1>5, <1>6, <1>7, <1>8 DEF Next

(* Whatever upserts, ids, channels and goroutines it takes, an ingestion   *)
(* enters the prices of its list into the book one at a time, in order,    *)
(* under their own products until the ids are used up, and reports success *)
(* only when all of them are there.                                        *)
THEOREM Refinement == Spec => ImplementsPriceBook
<1>1. Init => Book!Init
  <2> SUFFICES ASSUME Init PROVE Book!Init OBVIOUS
  <2>1. BookOf = [e \in ProductKeys \X Hashes |-> Missing]
    <3>1. \A k \in ProductKeys : products[k].id = 0 BY DEF Init, StoreInit, NoProduct
    <3>2. \A e \in ProductKeys \X Hashes : e[1] \in ProductKeys OBVIOUS
    <3> QED BY <3>1, <3>2 DEF BookOf
  <2>2. Cardinality(done) = 0 BY FS_EmptySet DEF Init, RunInit, ConsumerInit
  <2>3. BookStatus(crashed) = "running" BY DEF Init, RunInit, ConsumerInit, BookStatus
  <2>4. IDsLeft = TRUE BY MaxIDAssumption DEF Init, StoreInit, NoProduct, IDsLeft, InProducts
  <2> QED BY <2>1, <2>2, <2>3, <2>4 DEF Book!Init, Init
<1> QED BY <1>1, StepsOfTheBook, InvHolds, PTL DEF Spec, ImplementsPriceBook, Book!Spec
=============================================================================
