------------------------ MODULE AzureIngestionProofs ------------------------
(***************************************************************************)
(* Proofs about AzureIngestion, for every price list, way to cut it into   *)
(* pages, channel capacity and number of runs.                             *)
(***************************************************************************)
EXTENDS AzureIngestion, IngestPricingProofs

LEMMA Numbers ==
    ASSUME TypeOK
    PROVE  /\ N \in Nat /\ feed \in Feeds /\ Passed \subseteq 1..N /\ Kept \subseteq 1..N
           /\ decoded \in Nat /\ sent \in Nat /\ decoded <= N /\ sent <= decoded
           /\ held \in Nat /\ Len(pages) \in Nat /\ done \subseteq Nat
<1>1. N \in Nat BY NType DEF TypeOK, ConsumerTypeOK
<1> QED BY <1>1, ConsumerNumbers DEF TypeOK, Kept

(* What the steps of each goroutine leave alone. *)
LEMMA FetchFrame ==
    ASSUME Fetch
    PROVE  /\ UNCHANGED <<storeVars, feed, ctxDone, results, closed, consumerVars, qpc, held, crashed, runs>>
           /\ UNCHANGED <<done, item, cpc, result, N, Kept, Passed>>
           /\ \A i : Row(i)' = Row(i)
<1>1. UNCHANGED <<storeVars, feed, ctxDone, results, closed, consumerVars, qpc, held, crashed, runs>>
  BY DEF Fetch, FetchPage, FetchErrorPage, FetchFails, SendItem, NextPage, ClosePages, FetcherFrame, converterVars
<1>2. UNCHANGED <<done, item, cpc, result>> BY <1>1 DEF consumerVars
<1> QED BY <1>1, <1>2 DEF N, Kept, Row, Passed, Queued, InHand

LEMMA IngestFrame ==
    ASSUME Ingest
    PROVE  /\ UNCHANGED <<storeVars, feed, ctxDone, ingErr, consumerVars, fpc, decoded, sent, link,
                          pagesClosed, crashed, runs>>
           /\ UNCHANGED <<done, item, cpc, result, N, Kept>>
           /\ \A i : Row(i)' = Row(i)
<1>1. UNCHANGED <<storeVars, feed, ctxDone, ingErr, consumerVars, fpc, decoded, sent, link,
                  pagesClosed, crashed, runs>>
  BY DEF Ingest, Convert, SendRow, CloseResults, ConverterFrame, fetcherVars
<1> QED BY <1>1 DEF consumerVars, N, Kept, Row

LEMMA ConsumerLeaves ==
    ASSUME ConsumerStep
    PROVE  /\ UNCHANGED <<feed, closed, ingErr, fpc, decoded, sent, link, pages, pagesClosed, qpc, held, crashed, runs>>
           /\ UNCHANGED <<N, Kept, Converted>>
           /\ \A i : Row(i)' = Row(i)
<1>1. UNCHANGED <<feed, closed, ingErr, fpc, decoded, sent, link, pages, pagesClosed, qpc, held, crashed, runs>>
  BY DEF ConsumerStep, ConsumerFrame, Consume, ReceiveRow, UpsertProduct, FailProduct, UpsertPrice, FailPrice,
         RangeEnds, fetcherVars, pagesVars, converterVars, channelVars
<1> QED BY <1>1 DEF N, Kept, Row, Converted

-----------------------------------------------------------------------------
(* Every variable keeps its type. *)
LEMMA TypeInit == Init => TypeOK
<1> SUFFICES ASSUME Init PROVE TypeOK OBVIOUS
<1>1. N \in Nat BY NType DEF Init
<1>2. ConsumerTypeOK BY ConsumerInitType DEF Init
<1>3. pages = <<>> /\ pages \in Seq(1..N) /\ Len(pages) = 0 BY DEF Init
<1>4. decoded \in 0..N /\ sent \in 0..decoded /\ held \in 0..N BY <1>1 DEF Init
<1>5. runs \in 1..MaxRuns /\ Len(pages) <= PagesSize
  BY <1>3, MaxRunsAssumption, PagesSizeAssumption DEF Init
<1> QED BY <1>2, <1>3, <1>4, <1>5 DEF Init, TypeOK

LEMMA TypeFetch == ASSUME TypeOK, ItemsInOrder, Fetch PROVE TypeOK'
<1> USE DEF Fetch, FetchPage, FetchErrorPage, FetchFails, SendItem, NextPage, ClosePages, pagesVars
<1>1. N' = N /\ UNCHANGED <<qpc, held, crashed, runs>> BY FetchFrame
<1>2. ConsumerTypeOK'
  <2>1. UNCHANGED <<storeVars, feed, consumerVars, ctxDone, closed, results>> BY FetchFrame
  <2>2. ingErr' \in BOOLEAN BY DEF TypeOK, ConsumerTypeOK
  <2> QED BY <2>1, <2>2, ConsumerSameType DEF TypeOK, ConsumerTypeOK
<1>3. fpc' \in {"request", "items", "exit", "ended"} /\ pagesClosed' \in BOOLEAN
  BY DEF TypeOK
<1>4. link' \in {"none", "good", "bad"} BY DEF TypeOK
<1>5. decoded' \in 0..N /\ sent' \in 0..decoded'
  <2>1. CASE FetchPage
    <3>1. PICK last \in decoded..N : decoded' = last BY <2>1
    <3> QED BY <2>1, <3>1, Numbers
  <2>2. CASE SendItem BY <2>2, Numbers
  <2>3. CASE ~FetchPage /\ ~SendItem BY <2>3 DEF TypeOK
  <2> QED BY <2>1, <2>2, <2>3
<1>6. pages' \in Seq(1..N) /\ Len(pages') <= PagesSize
  <2>1. CASE SendItem
    <3>1. sent + 1 \in 1..N BY <2>1, Numbers
    <3>2. pages \in Seq(1..N) /\ Len(pages) < PagesSize BY <2>1 DEF TypeOK
    <3> QED BY <2>1, <3>1, <3>2, PagesSizeAssumption
  <2>2. CASE ~SendItem BY <2>2 DEF TypeOK
  <2> QED BY <2>1, <2>2
<1> HIDE DEF Fetch, FetchPage, FetchErrorPage, FetchFails, SendItem, NextPage, ClosePages, pagesVars
<1> QED BY <1>1, <1>2, <1>3, <1>4, <1>5, <1>6 DEF TypeOK

LEMMA TypeIngest == ASSUME TypeOK, Ingest PROVE TypeOK'
<1> USE DEF Ingest, Convert, SendRow, CloseResults, converterVars
<1>1. N' = N /\ UNCHANGED <<fpc, decoded, sent, link, pagesClosed, crashed, runs>> BY IngestFrame
<1>2. N \in Nat BY Numbers
<1>3. results' \in Seq(1..N) /\ Len(results') <= ChSize
  <2>1. CASE SendRow
    <3>1. held \in 1..N BY <2>1, <1>2 DEF TypeOK
    <3>2. results \in Seq(1..N) /\ Len(results) < ChSize BY <2>1 DEF TypeOK, ConsumerTypeOK
    <3> QED BY <2>1, <3>1, <3>2, ChSizeAssumption
  <2>2. CASE ~SendRow BY <2>2 DEF TypeOK, ConsumerTypeOK
  <2> QED BY <2>1, <2>2
<1>4. ConsumerTypeOK'
  <2>1. UNCHANGED <<storeVars, feed, consumerVars, ctxDone, ingErr>> BY IngestFrame
  <2>2. closed' \in BOOLEAN BY DEF TypeOK, ConsumerTypeOK
  <2> QED BY <1>3, <2>1, <2>2, ConsumerSameType DEF TypeOK, ConsumerTypeOK
<1>5. pages \in Seq(1..N) /\ Len(pages) <= PagesSize /\ Len(pages) \in Nat BY DEF TypeOK
<1>6. ASSUME pages # <<>>
      PROVE  Head(pages) \in 1..N /\ Tail(pages) \in Seq(1..N) /\ Len(Tail(pages)) <= PagesSize
  <2>1. Head(pages) \in 1..N /\ Tail(pages) \in Seq(1..N) /\ Len(Tail(pages)) = Len(pages) - 1
    BY <1>5, <1>6, HeadTailProperties
  <2> QED BY ONLY <1>5, <2>1, PagesSizeAssumption
<1>7. pages' \in Seq(1..N) /\ Len(pages') <= PagesSize BY <1>5, <1>6
<1>8. /\ qpc' \in {"receive", "send", "ended"}
      /\ held' \in 0..N /\ (qpc' = "send" <=> held' # 0)
  <2>1. CASE Convert
    <3>1. Head(pages) \in 0..N /\ Head(pages) # 0 BY <2>1, <1>2, <1>6
    <3> QED BY <2>1, <3>1 DEF TypeOK
  <2>2. CASE SendRow \/ CloseResults BY <2>2, <1>2 DEF TypeOK
  <2> QED BY <2>1, <2>2
<1> HIDE DEF Ingest, Convert, SendRow, CloseResults, converterVars
<1> QED BY <1>1, <1>4, <1>7, <1>8 DEF TypeOK

LEMMA TypeConsume == ASSUME TypeOK, ConsumerStep PROVE TypeOK'
<1>1. ConsumerTypeOK' BY ConsumeType DEF TypeOK, ConsumerStep
<1> QED BY <1>1, ConsumerLeaves DEF TypeOK

LEMMA StartRunInit == ASSUME StartRun PROVE ConsumerInit' /\ feed' \in Feeds
  BY DEF StartRun, ConsumerInit

LEMMA TypeStartRun == ASSUME TypeOK, StartRun PROVE TypeOK'
<1>1. N' \in Nat BY StartRunInit, FeedsAssumption DEF N
<1>2. ConsumerTypeOK' BY StartRunInit, ConsumerRestartType DEF StartRun, TypeOK, ConsumerTypeOK
<1>3. pages' = <<>> /\ pages' \in Seq(1..N') /\ Len(pages') = 0 BY DEF StartRun
<1>4. decoded' \in 0..N' /\ sent' \in 0..decoded' /\ held' \in 0..N'
  <2>1. decoded' = 0 /\ sent' = 0 /\ held' = 0 BY DEF StartRun
  <2> QED BY <1>1, <2>1 DEF N
<1>5. runs' \in 1..MaxRuns /\ Len(pages') <= PagesSize
  BY <1>3, MaxRunsAssumption, PagesSizeAssumption DEF StartRun, TypeOK
<1> QED BY <1>2, <1>3, <1>4, <1>5 DEF StartRun, TypeOK

LEMMA TypeOthers == ASSUME TypeOK, Cancel \/ Crash \/ UNCHANGED vars PROVE TypeOK'
<1>1. UNCHANGED <<storeVars, feed, channelVars, consumerVars, fetcherVars, pagesVars, converterVars, runs>>
  BY DEF Cancel, CancelContext, ConsumerFrame, Crash, vars
<1>2. ctxDone' \in BOOLEAN /\ crashed' \in BOOLEAN
  BY DEF Cancel, CancelContext, ConsumerFrame, Crash, vars, TypeOK, ConsumerTypeOK
<1>3. ConsumerTypeOK' BY <1>1, <1>2, ConsumerSameType DEF TypeOK, ConsumerTypeOK, channelVars
<1> QED BY <1>1, <1>2, <1>3 DEF TypeOK, N, fetcherVars, pagesVars, converterVars

-----------------------------------------------------------------------------
(* The items stay in order, between the goroutines as in the channels. *)
LEMMA OrderFetch == ASSUME TypeOK, ItemsInOrder, Fetch PROVE ItemsInOrder'
<1>1. PassedInOrder' BY FetchFrame, SameOrder DEF ItemsInOrder
<1>2. CASE SendItem
  <2>1. pages' = Append(pages, sent + 1) /\ sent' = sent + 1 BY <1>2 DEF SendItem
  <2>2. pages \in Seq(1..N) /\ Len(pages) \in Nat /\ sent \in Nat BY Numbers DEF TypeOK
  <2>3. /\ Len(pages') = Len(pages) + 1
        /\ pages'[Len(pages) + 1] = sent + 1
        /\ \A k \in 1..Len(pages) : pages'[k] = pages[k]
    BY <2>1, <2>2
  <2>4. Converted' = Converted BY <2>1, <2>2, <2>3 DEF Converted
  <2>5. \A k \in 1..Len(pages') : pages'[k] = Converted + k
    BY <2>1, <2>2, <2>3 DEF ItemsInOrder, Converted
  <2> QED BY <1>1, <2>4, <2>5, FetchFrame DEF ItemsInOrder
<1>3. CASE ~SendItem
  <2>1. UNCHANGED <<pages, sent>>
    BY <1>3 DEF Fetch, FetchPage, FetchErrorPage, FetchFails, NextPage, ClosePages, pagesVars
  <2>2. Converted' = Converted BY <2>1 DEF Converted
  <2> QED BY <1>1, <2>1, <2>2, FetchFrame DEF ItemsInOrder
<1> QED BY <1>2, <1>3

LEMMA OrderIngest == ASSUME TypeOK, ItemsInOrder, Ingest PROVE ItemsInOrder'
<1>1. CASE Convert
  <2>1. /\ pages # <<>> /\ pages' = Tail(pages) /\ UNCHANGED <<results, sent>> /\ held = 0
        /\ IF Row(Head(pages)).kept THEN held' = Head(pages) ELSE held' = held
    BY <1>1, IngestFrame DEF Convert, converterVars, TypeOK
  <2>2. pages \in Seq(1..N) /\ Len(pages) \in Nat /\ Len(pages) # 0 BY <2>1, Numbers DEF TypeOK
  <2>3. /\ Head(pages) = pages[1] /\ 1 \in 1..Len(pages)
        /\ Len(pages') = Len(pages) - 1
        /\ \A k \in 1..Len(pages') : k + 1 \in 1..Len(pages) /\ pages'[k] = pages[k + 1]
    BY <2>1, <2>2
  <2>4. Converted' = Converted + 1 /\ Converted \in Nat BY <2>1, <2>3, Numbers DEF Converted, ItemsInOrder
  <2>5. Head(pages) = Converted' BY <2>3, <2>4 DEF ItemsInOrder
  <2>6. \A k \in 1..Len(pages') : pages'[k] = Converted' + k BY <2>2, <2>3, <2>4 DEF ItemsInOrder
  <2>7. PassedInOrder' /\ Passed' = Passed BY <2>1, IngestFrame, SameOrder DEF ItemsInOrder
  <2>8. \A i \in Passed : i <= Converted' /\ i < Converted'
    BY <2>4, Numbers DEF ItemsInOrder
  <2>9. held' # 0 => held' = Converted' /\ Row(held').kept BY <2>1, <2>5
  <2>10. \A i \in Kept : i <= Converted' => i \in Passed \cup {held'}
    <3>1. SUFFICES ASSUME NEW i \in Kept, i <= Converted' PROVE i \in Passed \cup {held'}
      OBVIOUS
    <3>2. i \in Nat /\ i # 0 /\ Row(i).kept BY Numbers DEF Kept
    <3>3. CASE i <= Converted BY <2>1, <3>2, <3>3 DEF ItemsInOrder
    <3>4. CASE i = Converted' BY <2>1, <2>5, <3>2, <3>4
    <3> QED BY <2>4, <3>1, <3>2, <3>3, <3>4
  <2> QED BY <2>4, <2>6, <2>7, <2>8, <2>9, <2>10, IngestFrame DEF ItemsInOrder
<1>2. CASE SendRow
  <2>1. /\ results' = Append(results, held) /\ held' = 0 /\ held # 0 /\ UNCHANGED <<pages, sent>>
    BY <1>2, IngestFrame DEF SendRow, TypeOK
  <2>2. held \in 1..N BY <2>1, Numbers DEF TypeOK
  <2>3. PassedInOrder' /\ Passed' = Passed \cup {held}
    BY <2>1, <2>2, IngestFrame, SendInOrder DEF ItemsInOrder, TypeOK
  <2>4. Converted' = Converted BY <2>1 DEF Converted
  <2> QED BY <2>1, <2>3, <2>4, IngestFrame DEF ItemsInOrder
<1>3. CASE CloseResults
  <2>1. UNCHANGED <<results, pages, held, sent>> BY <1>3, IngestFrame DEF CloseResults
  <2>2. PassedInOrder' /\ Passed' = Passed BY <2>1, IngestFrame, SameOrder DEF ItemsInOrder
  <2>3. Converted' = Converted BY <2>1 DEF Converted
  <2> QED BY <2>1, <2>2, <2>3, IngestFrame DEF ItemsInOrder
<1> QED BY <1>1, <1>2, <1>3 DEF Ingest

LEMMA OrderConsume ==
    ASSUME TypeOK, ItemsInOrder, ChannelsAreKnown, ConsumerStep
    PROVE  ItemsInOrder'
<1>1. PassedInOrder' /\ Passed' = Passed
  BY ConsumeInOrder DEF TypeOK, ItemsInOrder, ChannelsAreKnown, ConsumerStep
<1> QED BY <1>1, ConsumerLeaves DEF ItemsInOrder

-----------------------------------------------------------------------------
(* What the end of a channel, of a goroutine and of a run says. *)
LEMMA EndFetch == ASSUME TypeOK, ChannelsAreKnown, Fetch PROVE ChannelsAreKnown'
<1>1. UNCHANGED <<closed, qpc, cpc, result, item, results>> BY FetchFrame
<1> USE DEF Fetch, FetchPage, FetchErrorPage, FetchFails, SendItem, NextPage, ClosePages, pagesVars
<1>2. pagesClosed' <=> fpc' = "ended" BY DEF ChannelsAreKnown
<1>3. fpc # "ended" BY DEF ChannelsAreKnown
<1>4. qpc # "ended" /\ ~closed /\ result # "ok" BY <1>3 DEF ChannelsAreKnown, ResultIsKnown
<1>5. fpc' = "request" => sent' = decoded' BY DEF ChannelsAreKnown
<1>6. fpc' \in {"exit", "ended"} => ingErr' \/ (sent' = decoded' /\ link' # "good")
  BY DEF ChannelsAreKnown
<1> HIDE DEF Fetch, FetchPage, FetchErrorPage, FetchFails, SendItem, NextPage, ClosePages, pagesVars
<1>7. ResultIsKnown' BY <1>1, <1>4 DEF ChannelsAreKnown, ResultIsKnown
<1> QED BY <1>1, <1>2, <1>4, <1>5, <1>6, <1>7 DEF ChannelsAreKnown

LEMMA EndIngest == ASSUME TypeOK, ChannelsAreKnown, Ingest PROVE ChannelsAreKnown'
<1>1. UNCHANGED <<fpc, decoded, sent, link, pagesClosed, ingErr, cpc, result, item>> BY IngestFrame
<1> USE DEF Ingest, Convert, SendRow, CloseResults, converterVars
<1>2. qpc # "ended" BY DEF TypeOK
<1>3. ~closed /\ result # "ok" BY <1>2 DEF ChannelsAreKnown, ResultIsKnown
<1>4. closed' <=> qpc' = "ended" BY <1>2 DEF ChannelsAreKnown
<1>5. qpc' = "ended" => pages' = <<>> /\ pagesClosed' BY <1>1, <1>2
<1> HIDE DEF Ingest, Convert, SendRow, CloseResults, converterVars
<1>6. ResultIsKnown' BY <1>1, <1>3 DEF ChannelsAreKnown, ResultIsKnown
<1> QED BY <1>1, <1>4, <1>5, <1>6 DEF ChannelsAreKnown

LEMMA EndConsume == ASSUME ChannelsAreKnown, ConsumerStep PROVE ChannelsAreKnown'
<1>1. ResultIsKnown' BY ConsumeResult DEF ChannelsAreKnown, ConsumerStep
<1> QED BY <1>1, ConsumerLeaves DEF ChannelsAreKnown

-----------------------------------------------------------------------------
(* What is known of the tables, and of the ids in hand and remembered.     *)
LEMMA TablesSame ==
    ASSUME TablesAreKnown, UNCHANGED <<storeVars, feed, consumerVars>>
    PROVE  TablesAreKnown'
<1>1. OneLocation(feed)' <=> OneLocation(feed) BY DEF OneLocation
<1> QED BY <1>1, UniqueSame, SKUSame, StoreSame DEF TablesAreKnown

LEMMA TablesConsume ==
    ASSUME ConsumerTypeOK, PassedInOrder, ResultIsKnown, TablesAreKnown, Consume
    PROVE  TablesAreKnown'
<1>1. feed' = feed
  BY DEF Consume, ReceiveRow, UpsertProduct, FailProduct, UpsertPrice, FailPrice, RangeEnds
<1>2. OneLocation(feed)' <=> OneLocation(feed) BY <1>1 DEF OneLocation
<1> QED BY <1>2, UniqueConsume, SKUConsume, StoreConsume DEF TablesAreKnown

-----------------------------------------------------------------------------
(* The inductive invariant. *)
LEMMA InvInit == Init => IInv
<1> SUFFICES ASSUME Init PROVE IInv OBVIOUS
<1>1. TypeOK BY TypeInit
<1>2. PassedInOrder /\ ResultIsKnown /\ Passed = {} BY ConsumerInitOrder DEF Init
<1>3. Converted = 0 /\ Len(pages) = 0 /\ held = 0
  <2>1. pages = <<>> /\ sent = 0 /\ held = 0 BY DEF Init
  <2>2. Len(pages) = 0 BY <2>1
  <2>3. Converted = 0 - 0 BY <2>1, <2>2 DEF Converted
  <2>4. 0 - 0 = 0 OBVIOUS
  <2> QED BY <2>1, <2>2, <2>3, <2>4
<1>4. \A i \in Kept : ~(i <= Converted) BY <1>1, <1>3, Numbers
<1>5. ItemsInOrder BY <1>2, <1>3, <1>4 DEF ItemsInOrder
<1>6. ChannelsAreKnown BY <1>2 DEF Init, ConsumerInit, ChannelsAreKnown
<1>7. IDsAreUnique /\ StoreIsKnown /\ IDsAreOfSKU BY StoreStarts, StoreKnownAtStart DEF Init
<1> QED BY <1>1, <1>5, <1>6, <1>7 DEF IInv, TablesAreKnown

LEMMA InvStartRun == ASSUME IDsAreUnique, TypeOK', StartRun PROVE IInv'
<1>1. PassedInOrder' /\ ResultIsKnown' /\ Passed' = {} BY StartRunInit, ConsumerRestartOrder
<1>2. Converted' = 0 /\ Len(pages') = 0 /\ held' = 0
  <2>1. pages' = <<>> /\ sent' = 0 /\ held' = 0 BY DEF StartRun
  <2>2. Len(pages') = 0 BY <2>1
  <2>3. Converted' = 0 - 0 BY <2>1, <2>2 DEF Converted
  <2>4. 0 - 0 = 0 OBVIOUS
  <2> QED BY <2>1, <2>2, <2>3, <2>4
<1>3. \A i \in Kept' : ~(i <= Converted')
  <2>1. Kept' \subseteq 1..N' BY DEF Kept
  <2> QED BY <1>2, <2>1
<1>4. ItemsInOrder' BY <1>1, <1>2, <1>3 DEF ItemsInOrder
<1>5. ChannelsAreKnown' BY <1>1 DEF StartRun, ChannelsAreKnown
<1>6. IDsAreUnique' BY UniqueSame DEF StartRun
<1>7. StoreIsKnown' /\ IDsAreOfSKU' BY StartRunInit, StoreKnownAtRestart
<1> QED BY <1>4, <1>5, <1>6, <1>7 DEF IInv, TablesAreKnown

LEMMA InvOthers == ASSUME IInv, Cancel \/ Crash \/ UNCHANGED vars PROVE IInv'
<1>1. TypeOK' BY TypeOthers DEF IInv
<1>2. UNCHANGED <<feed, channelVars, consumerVars, fetcherVars, pagesVars, converterVars>>
  BY DEF Cancel, CancelContext, ConsumerFrame, Crash, vars
<1>3. UNCHANGED <<results, done, item, closed, ingErr, cpc, result, fpc, decoded, sent, link, pages,
                  pagesClosed, qpc, held>>
  BY <1>2 DEF channelVars, consumerVars, fetcherVars, pagesVars, converterVars
<1>4. PassedInOrder' /\ Passed' = Passed BY <1>2, <1>3, SameOrder DEF IInv, ItemsInOrder
<1>5. UNCHANGED <<Kept, Converted>> /\ \A i : Row(i)' = Row(i) BY <1>2, <1>3 DEF Kept, Converted, Row, N
<1>6. ItemsInOrder' BY <1>3, <1>4, <1>5 DEF IInv, ItemsInOrder
<1>7. ChannelsAreKnown' BY <1>3 DEF IInv, ChannelsAreKnown, ResultIsKnown
<1>8. UNCHANGED <<storeVars, feed, consumerVars>> BY DEF Cancel, CancelContext, ConsumerFrame, Crash, vars
<1> QED BY <1>1, <1>6, <1>7, <1>8, TablesSame DEF IInv, TablesAreKnown

LEMMA InvStep == IInv /\ [Next]_vars => IInv'
<1> SUFFICES ASSUME IInv, [Next]_vars PROVE IInv' OBVIOUS
<1>1. /\ TypeOK /\ ItemsInOrder /\ ChannelsAreKnown /\ TablesAreKnown
      /\ ConsumerTypeOK /\ PassedInOrder /\ ResultIsKnown
  BY DEF IInv, TablesAreKnown, TypeOK, ItemsInOrder, ChannelsAreKnown
<1>2. CASE Fetch
  <2>1. TablesAreKnown' BY <1>1, <1>2, FetchFrame, TablesSame
  <2> QED BY <1>1, <1>2, <2>1, TypeFetch, OrderFetch, EndFetch DEF IInv, TablesAreKnown
<1>3. CASE Ingest
  <2>1. TablesAreKnown' BY <1>1, <1>3, IngestFrame, TablesSame
  <2> QED BY <1>1, <1>3, <2>1, TypeIngest, OrderIngest, EndIngest DEF IInv, TablesAreKnown
<1>4. CASE ConsumerStep
  <2>1. TablesAreKnown' BY <1>1, <1>4, TablesConsume DEF ConsumerStep
  <2> QED BY <1>1, <1>4, <2>1, TypeConsume, OrderConsume, EndConsume DEF IInv, TablesAreKnown
<1>5. CASE StartRun BY <1>1, <1>5, TypeStartRun, InvStartRun DEF TablesAreKnown
<1>6. CASE Cancel \/ Crash \/ UNCHANGED vars BY <1>6, InvOthers
<1> QED BY <1>2, <1>3, <1>4, <1>5, <1>6 DEF Next, Finished

LEMMA InvHolds == Spec => []IInv
  BY InvInit, InvStep, PTL DEF Spec

(* Every reachable state is well typed: both channels stay within their    *)
(* capacity, and the two goroutines within the list.                       *)
THEOREM TypeCorrect == Spec => []TypeOK
<1>1. IInv => TypeOK BY DEF IInv
<1> QED BY <1>1, InvHolds, PTL

(* azurerm/ingester.go:105-170: a successful run stored every kept row of  *)
(* every page that was decoded, however they were cut, and stopped asking  *)
(* only where there was no link, or a bad one.                             *)
THEOREM NothingLost == Spec => []NothingDecodedIsLost
<1>1. IInv => NothingDecodedIsLost
  <2> SUFFICES ASSUME IInv, result = "ok"
               PROVE  /\ {i \in Kept : i <= decoded} \subseteq done
                      /\ link # "good" /\ fpc = "ended"
    BY DEF NothingDecodedIsLost
  <2>1. TypeOK /\ ItemsInOrder /\ ChannelsAreKnown BY DEF IInv
  <2>2. /\ qpc = "ended" /\ fpc = "ended" /\ ~ingErr /\ pages = <<>>
        /\ results = <<>> /\ item = 0 /\ held = 0
    BY <2>1 DEF ChannelsAreKnown, ResultIsKnown, TypeOK
  <2>3. sent = decoded /\ link # "good" BY <2>1, <2>2 DEF ChannelsAreKnown
  <2>4. Converted = decoded BY <2>1, <2>2, <2>3, Numbers DEF Converted
  <2>5. Queued = {} /\ InHand = {} BY <2>2 DEF Queued, InHand
  <2>6. \A i \in Kept : i # 0 BY <2>1, Numbers
  <2> QED BY <2>1, <2>2, <2>3, <2>4, <2>5, <2>6 DEF ItemsInOrder, Passed
<1> QED BY <1>1, InvHolds, PTL

(* ingestion.go:30-45: whatever ends a run, and wherever, what it stored   *)
(* is a prefix of the rows the filter keeps.                               *)
THEOREM Prefix == Spec => []StoredInOrder
<1>1. IInv => StoredInOrder
  <2> SUFFICES ASSUME IInv PROVE StoredInOrder OBVIOUS
  <2>1. TypeOK /\ ItemsInOrder BY DEF IInv
  <2>2. done \subseteq Kept BY <2>1, Numbers DEF ItemsInOrder, PassedInOrder, Passed, Kept
  <2>3. ASSUME NEW i \in done, NEW j \in Kept, j < i PROVE j \in done
    <3>1. i \in Passed /\ i \in Nat /\ j \in Nat BY <2>1, Numbers DEF Passed
    <3>2. i <= Converted /\ j <= Converted /\ (held # 0 => j < held)
      BY <2>1, <2>3, <3>1, Numbers DEF ItemsInOrder, Converted
    <3>3. j \in Passed BY <2>1, <3>1, <3>2, Numbers DEF ItemsInOrder
    <3>4. j \notin InHand \cup Queued
      BY <2>1, <2>3, <3>1, ConsumerNumbers DEF ItemsInOrder, PassedInOrder, TypeOK
    <3> QED BY <3>3, <3>4 DEF Passed
  <2> QED BY <2>2, <2>3 DEF StoredInOrder
<1> QED BY <1>1, InvHolds, PTL

(* ingestion.go:30-45, mysql/: prices change only to what the current list *)
(* says, of a product of the row's SKU while ids are left, wherever it is  *)
(* sold, and ids of products never change.                                 *)
THEOREM WritesOfSKU == Spec => WritesAreOfTheSKU
<1>1. IInv /\ [Next]_vars => [WriteIsOfTheSKU]_storeVars
  <2> SUFFICES ASSUME IInv, [Next]_vars PROVE WriteIsOfTheSKU OBVIOUS
  <2>1. ConsumerTypeOK /\ PassedInOrder /\ IDsAreUnique /\ IDsAreOfSKU
    BY DEF IInv, TypeOK, ItemsInOrder, TablesAreKnown
  <2>2. CASE ConsumerStep BY <2>1, <2>2, ConsumeWritesOfSKU DEF ConsumerStep
  <2>3. CASE Fetch BY <2>3, FetchFrame, NoWrites
  <2>4. CASE Ingest BY <2>4, IngestFrame, NoWrites
  <2>5. CASE Cancel \/ Crash \/ StartRun \/ UNCHANGED vars
    <3>1. UNCHANGED storeVars BY <2>5 DEF Cancel, CancelContext, Crash, StartRun, vars
    <3> QED BY <3>1, NoWrites
  <2> QED BY <2>2, <2>3, <2>4, <2>5 DEF Next, Finished
<1> QED BY <1>1, InvHolds, PTL DEF Spec, WritesAreOfTheSKU

(* ingestion.go:31-40: in a run whose list sells a SKU in one place, the   *)
(* tables hold the last acknowledged row of each price, under the product  *)
(* the row names, and skuProductID has that product's id, as long as the   *)
(* ids of products are not used up.                                        *)
THEOREM LastWriteWins ==
    Spec => [](OneLocation(feed) => StoreFollowsFeed /\ CacheIsCoherent)
<1>1. IInv => (OneLocation(feed) => StoreFollowsFeed /\ CacheIsCoherent) BY DEF IInv, TablesAreKnown, StoreIsKnown
<1> QED BY <1>1, InvHolds, PTL
=============================================================================
