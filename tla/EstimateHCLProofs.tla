-------------------------- MODULE EstimateHCLProofs --------------------------
(***************************************************************************)
(* Proofs about EstimateHCL, for every set of stacks, of any number of     *)
(* modules.                                                                *)
(***************************************************************************)
EXTENDS EstimateHCL, TLAPS

(* The modules of a stack are a sequence of verdicts. *)
LEMMA ModulesType == ASSUME stack \in Stacks PROVE Modules \in Seq(Verdicts) /\ Len(Modules) \in Nat
<1>1. stack.modules \in Seq(Verdicts) BY StacksAssumption
<1> QED BY <1>1 DEF Modules

LEMMA Initially == Init => IInv
<1> SUFFICES ASSUME Init PROVE IInv OBVIOUS
<1>1. Modules \in Seq(Verdicts) /\ Len(Modules) \in Nat BY ModulesType DEF Init
<1>2. costs = <<>> /\ Len(costs) = 0 /\ costs \in Seq({"skipped", "priced"}) BY DEF Init
<1>3. TypeOK
  <2>1. tgRun \in {<<>>, <<TRUE>>, <<FALSE>>} BY Zenon DEF Init
  <2>2. \A k \in 1..Len(costs) : costs[k] \in {"skipped", "priced"} BY <1>2
  <2>3. /\ forced \in BOOLEAN /\ ctxDone \in BOOLEAN
        /\ runFails \in BOOLEAN /\ closed \in BOOLEAN /\ tmpdir \in BOOLEAN
    BY Zenon DEF Init
  <2>4. Len(costs) <= Len(Modules) BY <1>1, <1>2
  <2>5. /\ pc = "walk" /\ result = "none" /\ gpc = "off" /\ stack \in Stacks BY DEF Init
  <2> QED BY <2>1, <2>2, <2>3, <2>4, <2>5 DEF TypeOK
<1>4. ChannelIsKnown BY DEF Init, ChannelIsKnown
<1>5. PlansFollowModules BY <1>1, <1>2 DEF Init, PlansFollowModules
<1>6. OnePlanPerModule /\ ModulesAreSettled /\ TmpdirIsRemoved
  BY DEF Init, OnePlanPerModule, ModulesAreSettled, TmpdirIsRemoved
<1> QED BY <1>3, <1>4, <1>5, <1>6 DEF IInv

(* Returning an error keeps the invariant, wherever the call is. *)
LEMMA ReturnKeeps ==
    ASSUME IInv, NEW r \in {"failed", "cancelled"}, Return(r),
           UNCHANGED <<stack, forced, ctxDone, costs, gpc, runFails>>,
           tgRun' = tgRun \/ tgRun' = <<>>
    PROVE  IInv'
<1>1. UNCHANGED Modules BY DEF Modules
<1>2. TypeOK' BY <1>1 DEF IInv, TypeOK, Return, Deferred
<1>3. ChannelIsKnown' BY DEF IInv, ChannelIsKnown, TypeOK, Return, Deferred
<1>4. PlansFollowModules' BY <1>1 DEF IInv, PlansFollowModules, Return
<1>5. OnePlanPerModule' /\ ModulesAreSettled' /\ TmpdirIsRemoved'
  BY DEF OnePlanPerModule, ModulesAreSettled, TmpdirIsRemoved, Return, Deferred
<1> QED BY <1>2, <1>3, <1>4, <1>5 DEF IInv

(* So does the panic of the call. *)
LEMMA PanicKeeps ==
    ASSUME IInv, Panic, pc \in {"walk", "modules"}, UNCHANGED <<stack, forced, ctxDone, runVars>>
    PROVE  IInv'
<1>1. UNCHANGED <<Modules, gpc, runFails, tgRun, costs, result>>
  BY DEF Modules, runVars, Panic
<1>2. TypeOK' BY <1>1 DEF IInv, TypeOK, Panic, Deferred
<1>3. ChannelIsKnown' BY <1>1 DEF IInv, ChannelIsKnown, ModulesAreSettled, Panic, Deferred
<1>4. PlansFollowModules' BY <1>1 DEF IInv, PlansFollowModules, Panic
<1>5. OnePlanPerModule' BY <1>1 DEF IInv, OnePlanPerModule
<1>6. ModulesAreSettled' /\ TmpdirIsRemoved' BY DEF ModulesAreSettled, TmpdirIsRemoved, Panic, Deferred
<1> QED BY <1>2, <1>3, <1>4, <1>5, <1>6 DEF IInv

(* So does going on from one part of the call to the next. *)
LEMMA GotoKeeps ==
    ASSUME IInv, NEW place, Goto(place), UNCHANGED <<stack, forced, ctxDone, runFails>>,
           pc \in {"walk", "copy", "find", "wait"},
           \/ place \in {"plain", "copy"} /\ UNCHANGED <<tmpdir, gpc, tgRun>> /\ pc = "walk"
           \/ place = "find" /\ tmpdir' = TRUE /\ UNCHANGED <<gpc, tgRun>> /\ pc = "copy"
           \/ place = "wait" /\ gpc' = "running" /\ UNCHANGED <<tmpdir, tgRun>> /\ pc = "find"
           \/ /\ place = "modules" /\ tgRun' = <<>> /\ UNCHANGED <<tmpdir, gpc>>
              /\ pc = "wait" /\ ~runFails /\ gpc = "ended"
    PROVE  IInv'
<1>1. UNCHANGED <<Modules, costs, closed, result>> /\ pc' = place BY DEF Modules, Goto
<1>2. costs = <<>> /\ Len(costs) = 0 BY DEF IInv, PlansFollowModules
<1>3. TypeOK'
  <2>1. (tgRun \in {<<>>, <<TRUE>>, <<FALSE>>})' BY Zenon DEF IInv, TypeOK
  <2>2. pc' \in {"plain", "copy", "find", "wait", "modules"} BY <1>1
  <2>3. gpc' \in {gpc, "running"} OBVIOUS
  <2>4. tmpdir' \in {tmpdir, TRUE} OBVIOUS
  <2>5. (forced \in BOOLEAN /\ ctxDone \in BOOLEAN /\ runFails \in BOOLEAN
         /\ closed \in BOOLEAN /\ tmpdir \in BOOLEAN)'
    BY <1>1, <2>4, Zenon DEF IInv, TypeOK
  <2>6. (pc \in {"walk", "plain", "copy", "find", "wait", "modules", "returned", "panicked"})'
    BY ONLY <2>2
  <2>7. (gpc \in {"off", "running", "sending", "ended"})' BY <2>3, Zenon DEF IInv, TypeOK
  <2>8. (stack \in Stacks /\ result \in {"none", "ok", "failed", "cancelled"})'
    BY <1>1, Zenon DEF IInv, TypeOK
  <2>9. (Len(costs) <= Len(Modules)
         /\ \A k \in 1..Len(costs) : costs[k] \in {"skipped", "priced"})'
    BY <1>1, Zenon DEF IInv, TypeOK
  <2> QED BY ONLY <2>1, <2>5, <2>6, <2>7, <2>8, <2>9, Zenon DEF TypeOK
<1>4. ChannelIsKnown' BY <1>1 DEF IInv, ChannelIsKnown, TypeOK
<1>5. PlansFollowModules' BY <1>1, <1>2 DEF IInv, PlansFollowModules
<1>6. OnePlanPerModule' BY <1>1, <1>2 DEF IInv, OnePlanPerModule, PlansFollowModules
<1>7. ModulesAreSettled' /\ TmpdirIsRemoved'
  BY <1>1 DEF IInv, ModulesAreSettled, TmpdirIsRemoved, ChannelIsKnown
<1> QED BY <1>3, <1>4, <1>5, <1>6, <1>7 DEF IInv

(* The steps of EstimateHCL itself. *)
LEMMA CallerSteps == IInv /\ Caller => IInv'
<1> SUFFICES ASSUME IInv, Caller PROVE IInv' OBVIOUS
<1>1. Modules \in Seq(Verdicts) /\ Len(Modules) \in Nat BY ModulesType DEF IInv, TypeOK
<1>2. UNCHANGED <<stack, Modules, forced, ctxDone, runFails>>
  BY DEF Caller, Walk, EstimatePlain, CopyToTmp, FindStack, WaitCancelled, WaitRun,
         EstimateModule, ModulesEnd, Modules, runVars
<1>3. CASE Walk
  <2>1. UNCHANGED <<gpc, tgRun, runVars>> /\ pc = "walk" BY <1>3 DEF Walk, runVars
  <2>2. CASE \E place \in {"plain", "copy"} : Goto(place) /\ UNCHANGED tmpdir
    BY <1>2, <2>1, <2>2, GotoKeeps
  <2>3. CASE Panic BY <1>2, <2>1, <2>3, PanicKeeps
  <2>4. CASE Return("failed") /\ UNCHANGED costs BY <1>2, <2>1, <2>4, ReturnKeeps
  <2> QED BY <1>3, <2>2, <2>3, <2>4 DEF Walk
<1>4. CASE EstimatePlain
  <2>1. UNCHANGED <<gpc, tgRun>> /\ pc = "plain" BY <1>4 DEF EstimatePlain, runVars
  <2>2. CASE Modules # <<>> /\ costs' = <<"priced">> /\ Return("ok")
    <3>1. Len(Modules) >= 1 BY <1>1, <2>2
    <3>2. costs' \in Seq({"skipped", "priced"}) /\ Len(costs') = 1 /\ costs'[1] = "priced" BY <2>2
    <3>3. gpc' = "off" /\ pc' = "returned" /\ tmpdir' = FALSE /\ result' = "ok" /\ closed' = FALSE
      BY <2>1, <2>2 DEF IInv, ChannelIsKnown, Return, Deferred
    <3>4. TypeOK'
      <4>1. (\A k \in 1..Len(costs) : costs[k] \in {"skipped", "priced"})' BY <3>2
      <4> QED BY <1>2, <2>1, <3>1, <3>2, <3>3, <4>1 DEF IInv, TypeOK
    <3>5. ChannelIsKnown' BY <1>2, <2>1, <3>3 DEF IInv, ChannelIsKnown
    <3>6. PlansFollowModules' BY <1>2, <3>1, <3>2, <3>3 DEF PlansFollowModules
    <3>7. OnePlanPerModule' /\ ModulesAreSettled' /\ TmpdirIsRemoved'
      BY <3>3 DEF OnePlanPerModule, ModulesAreSettled, TmpdirIsRemoved
    <3> QED BY <3>4, <3>5, <3>6, <3>7 DEF IInv
  <2>3. CASE UNCHANGED costs /\ Return("failed") BY <1>2, <2>1, <2>3, ReturnKeeps
  <2> QED BY <1>4, <2>2, <2>3 DEF EstimatePlain
<1>5. CASE CopyToTmp
  <2>1. UNCHANGED <<gpc, tgRun>> /\ pc = "copy" BY <1>5 DEF CopyToTmp, runVars
  <2>2. CASE Goto("find") /\ tmpdir' = TRUE BY <1>2, <2>1, <2>2, GotoKeeps
  <2>3. CASE Return("failed") /\ UNCHANGED costs BY <1>2, <2>1, <2>3, ReturnKeeps
  <2> QED BY <1>5, <2>2, <2>3 DEF CopyToTmp
<1>6. CASE FindStack
  <2>1. UNCHANGED tgRun /\ pc = "find" BY <1>6 DEF FindStack
  <2>2. CASE Goto("wait") /\ gpc' = "running" /\ UNCHANGED tmpdir BY <1>2, <2>1, <2>2, GotoKeeps
  <2>3. CASE (\E r \in {"failed", "cancelled"} : Return(r)) /\ UNCHANGED <<costs, gpc>>
    BY <1>2, <2>1, <2>3, ReturnKeeps
  <2> QED BY <1>6, <2>2, <2>3 DEF FindStack
<1>7. CASE WaitCancelled
  BY <1>2, <1>7, ReturnKeeps DEF WaitCancelled, runVars
<1>8. CASE WaitRun
  <2>1. /\ tgRun # <<>> /\ tgRun' = <<>> /\ UNCHANGED gpc /\ pc = "wait"
        /\ tgRun = <<runFails>> /\ gpc = "ended"
    BY <1>8 DEF WaitRun, IInv, ChannelIsKnown
  <2>2. CASE Return("failed") /\ UNCHANGED costs BY <1>2, <2>1, <2>2, ReturnKeeps
  <2>3. CASE ~Head(tgRun) /\ Goto("modules") /\ UNCHANGED tmpdir
    <3>1. \A x : Head(<<x>>) = x OBVIOUS
    <3>2. ~runFails BY ONLY <2>1, <2>3, <3>1, Zenon
    <3> QED BY <1>2, <2>1, <2>3, <3>2, GotoKeeps
  <2> QED BY <1>8, <2>2, <2>3 DEF WaitRun
<1>9. CASE EstimateModule
  <2> DEFINE verdict == Modules[Len(costs) + 1]
  <2>1. UNCHANGED <<gpc, tgRun, runVars>> /\ pc = "modules" BY <1>9 DEF EstimateModule, runVars
  <2>2. CASE verdict \in {"excluded", "unknownProvider", "priced"} /\ AddPlan(verdict)
    <3> DEFINE plan == IF verdict = "priced" THEN "priced" ELSE "skipped"
    <3>1. costs' = Append(costs, plan) /\ UNCHANGED <<pc, result, closed, tmpdir>> BY <2>2 DEF AddPlan
    <3>2. costs \in Seq({"skipped", "priced"}) /\ plan \in {"skipped", "priced"}
      BY DEF IInv, PlansFollowModules
    <3>3. (plan = "priced") <=> (Modules[Len(costs) + 1] = "priced") OBVIOUS
    <3> HIDE DEF plan
    <3>4. /\ costs' \in Seq({"skipped", "priced"}) /\ Len(costs') = Len(costs) + 1
          /\ \A k \in 1..Len(costs) : costs'[k] = costs[k]
          /\ costs'[Len(costs) + 1] = plan
      BY <3>1, <3>2
    <3>5. \A k \in 1..Len(costs') : k \in 1..Len(costs) \/ k = Len(costs) + 1 BY <3>2, <3>4
    <3>6. gpc = "ended" /\ result = "none"
      BY <2>1 DEF IInv, TypeOK, ModulesAreSettled, PlansFollowModules
    <3>7. \A k \in 1..Len(costs') : (costs'[k] = "priced") <=> (Modules[k] = "priced")
      BY <3>3, <3>4, <3>5, <3>6 DEF IInv, PlansFollowModules
    <3>8. Len(costs') <= Len(Modules) BY <1>1, <1>9, <3>2, <3>4 DEF EstimateModule
    <3>9. TypeOK'
      <4>1. (\A k \in 1..Len(costs) : costs[k] \in {"skipped", "priced"})' BY <3>4
      <4>2. (/\ stack \in Stacks /\ forced \in BOOLEAN /\ ctxDone \in BOOLEAN
             /\ runFails \in BOOLEAN /\ closed \in BOOLEAN /\ tmpdir \in BOOLEAN)'
        BY <1>2, <2>1, <3>1, Zenon DEF IInv, TypeOK
      <4>3. (/\ pc \in {"walk", "plain", "copy", "find", "wait", "modules", "returned", "panicked"}
             /\ result \in {"none", "ok", "failed", "cancelled"}
             /\ gpc \in {"off", "running", "sending", "ended"}
             /\ tgRun \in {<<>>, <<TRUE>>, <<FALSE>>})'
        BY <1>2, <2>1, <3>1, Zenon DEF IInv, TypeOK
      <4>4. (Len(costs) <= Len(Modules))' BY <1>2, <3>8
      <4> QED BY ONLY <4>1, <4>2, <4>3, <4>4, Zenon DEF TypeOK
    <3>10. ChannelIsKnown' BY <1>2, <2>1, <3>1 DEF IInv, ChannelIsKnown
    <3>11. PlansFollowModules' BY <1>2, <2>1, <3>1, <3>4, <3>7, <3>8 DEF IInv, PlansFollowModules
    <3>12. OnePlanPerModule' BY <3>1, <3>6 DEF OnePlanPerModule
    <3>13. ModulesAreSettled' /\ TmpdirIsRemoved'
      BY <1>2, <2>1, <3>1 DEF IInv, ModulesAreSettled, TmpdirIsRemoved
    <3> QED BY <3>9, <3>10, <3>11, <3>12, <3>13 DEF IInv
  <2>3. CASE Return("failed") /\ UNCHANGED costs BY <1>2, <2>1, <2>3, ReturnKeeps
  <2>4. CASE Panic BY <1>2, <2>1, <2>4, PanicKeeps
  <2> QED BY <1>9, <2>2, <2>3, <2>4 DEF EstimateModule
<1>10. CASE ModulesEnd
  <2>1. /\ UNCHANGED <<gpc, tgRun, costs>> /\ Len(costs) = Len(Modules)
        /\ pc' = "returned" /\ result' = "ok" /\ closed' = (gpc # "off") /\ tmpdir' = FALSE
    BY <1>10 DEF ModulesEnd, runVars, Return, Deferred
  <2>2. TypeOK'
    <3>1. (/\ pc \in {"walk", "plain", "copy", "find", "wait", "modules", "returned", "panicked"}
           /\ result \in {"none", "ok", "failed", "cancelled"})'
      BY ONLY <2>1
    <3>2. (closed \in BOOLEAN /\ tmpdir \in BOOLEAN)' BY ONLY <2>1
    <3> QED BY <1>2, <2>1, <3>1, <3>2, Zenon DEF IInv, TypeOK
  <2>3. ChannelIsKnown' BY <1>2, <2>1 DEF IInv, ChannelIsKnown
  <2>4. PlansFollowModules' BY <1>2, <2>1 DEF IInv, PlansFollowModules
  <2>5. OnePlanPerModule' /\ ModulesAreSettled' /\ TmpdirIsRemoved'
    BY <1>2, <2>1 DEF IInv, PlansFollowModules, OnePlanPerModule, ModulesAreSettled, TmpdirIsRemoved
  <2> QED BY <2>2, <2>3, <2>4, <2>5 DEF IInv
<1> QED BY <1>3, <1>4, <1>5, <1>6, <1>7, <1>8, <1>9, <1>10 DEF Caller

(* A step of the run, or a cancellation, leaves the types as they are. *)
LEMMA RunType ==
    ASSUME TypeOK, UNCHANGED <<stack, Modules, costs, result, forced, closed, pc>>,
           gpc' \in {gpc, "sending", "ended"}, tgRun' \in {<<>>, <<TRUE>>, <<FALSE>>},
           ctxDone' \in BOOLEAN, runFails' \in BOOLEAN, tmpdir' \in BOOLEAN
    PROVE  TypeOK'
<1>1. (forced \in BOOLEAN /\ closed \in BOOLEAN)' BY Zenon DEF TypeOK
<1>2. (stack \in Stacks /\ Len(costs) <= Len(Modules)
       /\ \A k \in 1..Len(costs) : costs[k] \in {"skipped", "priced"})' BY Zenon DEF TypeOK
<1>3. (/\ pc \in {"walk", "plain", "copy", "find", "wait", "modules", "returned", "panicked"}
       /\ result \in {"none", "ok", "failed", "cancelled"}
       /\ gpc \in {"off", "running", "sending", "ended"})' BY Zenon DEF TypeOK
<1> QED BY <1>1, <1>2, <1>3, Zenon DEF TypeOK

(* The steps of the goroutine that runs the stack, and the others. *)
LEMMA RunSteps ==
    IInv /\ (RunDownloads \/ RunReturns \/ SendRun \/ Cancel \/ UNCHANGED vars) => IInv'
<1> SUFFICES ASSUME IInv, RunDownloads \/ RunReturns \/ SendRun \/ Cancel \/ UNCHANGED vars
             PROVE  IInv'
  OBVIOUS
<1>1. UNCHANGED <<stack, Modules, costs, result, forced, closed>>
  BY DEF RunDownloads, RunReturns, SendRun, Cancel, vars, callerVars, Modules
<1>2. PlansFollowModules'
  <2>1. pc' \in {pc, "panicked"} /\ (gpc' # "off" => gpc # "off")
    BY DEF RunDownloads, RunReturns, SendRun, Cancel, vars, callerVars, runVars
  <2> QED BY <1>1, <2>1 DEF IInv, PlansFollowModules
<1>3. OnePlanPerModule'
  <2>1. gpc' # "off" => gpc # "off" BY DEF RunDownloads, RunReturns, SendRun, Cancel, vars, runVars
  <2> QED BY <1>1, <2>1 DEF IInv, OnePlanPerModule
<1>4. CASE RunDownloads
  <2>1. UNCHANGED <<pc, gpc, runFails, tgRun, ctxDone>> /\ tmpdir' = TRUE /\ gpc = "running"
    BY <1>4 DEF RunDownloads, callerVars, runVars
  <2>2. TypeOK'
    <3>1. TypeOK /\ tgRun' \in {<<>>, <<TRUE>>, <<FALSE>>} BY <2>1, Zenon DEF IInv, TypeOK
    <3>2. ctxDone' \in BOOLEAN /\ runFails' \in BOOLEAN /\ tmpdir' \in BOOLEAN
      BY <2>1, <3>1, Zenon DEF TypeOK
    <3> QED BY <1>1, <2>1, <3>1, <3>2, RunType
  <2>3. ChannelIsKnown' BY <1>1, <2>1 DEF IInv, ChannelIsKnown
  <2>4. ModulesAreSettled' /\ TmpdirIsRemoved' BY <2>1 DEF IInv, ModulesAreSettled, TmpdirIsRemoved
  <2> QED BY <1>2, <1>3, <2>2, <2>3, <2>4 DEF IInv
<1>5. CASE RunReturns
  <2>1. UNCHANGED <<pc, tgRun, tmpdir, ctxDone>> /\ gpc = "running" /\ gpc' = "sending" /\ runFails' \in BOOLEAN
    BY <1>5 DEF RunReturns, callerVars
  <2>2. TypeOK'
    <3>1. TypeOK /\ tgRun' \in {<<>>, <<TRUE>>, <<FALSE>>} BY <2>1, Zenon DEF IInv, TypeOK
    <3>2. ctxDone' \in BOOLEAN /\ runFails' \in BOOLEAN /\ tmpdir' \in BOOLEAN
      BY <2>1, <3>1, Zenon DEF TypeOK
    <3> QED BY <1>1, <2>1, <3>1, <3>2, RunType
  <2>3. ChannelIsKnown' BY <1>1, <2>1 DEF IInv, ChannelIsKnown
  <2>4. ModulesAreSettled' /\ TmpdirIsRemoved' BY <2>1 DEF IInv, ModulesAreSettled, TmpdirIsRemoved
  <2> QED BY <1>2, <1>3, <2>2, <2>3, <2>4 DEF IInv
<1>6. CASE SendRun
  <2>1. UNCHANGED <<runFails, tmpdir, ctxDone>> /\ gpc = "sending" /\ gpc' = "ended"
    BY <1>6 DEF SendRun
  <2>2. CASE closed /\ pc' = "panicked" /\ UNCHANGED tgRun
    <3>1. TypeOK' BY <1>1, <2>1, <2>2 DEF IInv, TypeOK
    <3>2. ChannelIsKnown' BY <1>1, <2>1, <2>2 DEF IInv, ChannelIsKnown
    <3>3. result' # "none" BY <1>1, <2>1, <2>2 DEF IInv, TypeOK, ChannelIsKnown
    <3>4. ModulesAreSettled' /\ TmpdirIsRemoved' BY <2>2, <3>3 DEF ModulesAreSettled, TmpdirIsRemoved
    <3> QED BY <1>2, <1>3, <3>1, <3>2, <3>4 DEF IInv
  <2>3. CASE ~closed /\ tgRun' = <<runFails>> /\ UNCHANGED pc
    <3>1. pc # "returned" /\ pc # "modules" /\ ~(pc = "panicked" /\ result = "none")
      BY <2>1, <2>3 DEF IInv, ChannelIsKnown, ModulesAreSettled
    <3>2. runFails = TRUE \/ runFails = FALSE BY DEF IInv, TypeOK
    <3>3. tgRun' \in {<<>>, <<TRUE>>, <<FALSE>>} BY ONLY <2>3, <3>2, Zenon
    <3>4. TypeOK' BY <1>1, <2>1, <2>3, <3>3 DEF IInv, TypeOK
    <3>5. ChannelIsKnown' BY <1>1, <2>1, <2>3, <3>1 DEF IInv, ChannelIsKnown
    <3>6. ModulesAreSettled' /\ TmpdirIsRemoved' BY <1>1, <2>3, <3>1 DEF ModulesAreSettled, TmpdirIsRemoved
    <3> QED BY <1>2, <1>3, <3>4, <3>5, <3>6 DEF IInv
  <2> QED BY <1>6, <2>2, <2>3 DEF SendRun
<1>7. CASE Cancel \/ UNCHANGED vars
  <2>1. UNCHANGED <<pc, gpc, runFails, tgRun, tmpdir>> /\ ctxDone' \in BOOLEAN
    BY <1>7 DEF Cancel, vars, callerVars, runVars, IInv, TypeOK
  <2>2. TypeOK'
    <3>1. TypeOK /\ tgRun' \in {<<>>, <<TRUE>>, <<FALSE>>} BY <2>1, Zenon DEF IInv, TypeOK
    <3>2. ctxDone' \in BOOLEAN /\ runFails' \in BOOLEAN /\ tmpdir' \in BOOLEAN
      BY <2>1, <3>1, Zenon DEF TypeOK
    <3> QED BY <1>1, <2>1, <3>1, <3>2, RunType
  <2>3. ChannelIsKnown' BY <1>1, <2>1 DEF IInv, ChannelIsKnown
  <2>4. ModulesAreSettled' /\ TmpdirIsRemoved' BY <1>1, <2>1 DEF IInv, ModulesAreSettled, TmpdirIsRemoved
  <2> QED BY <1>2, <1>3, <2>2, <2>3, <2>4 DEF IInv
<1> QED BY <1>4, <1>5, <1>6, <1>7

(* The inductive invariant holds in every state. *)
LEMMA Invariance == Spec => []IInv
<1>1. IInv /\ [Next]_vars => IInv'
  BY CallerSteps, RunSteps DEF Next, Finished
<1> QED BY Initially, <1>1, PTL DEF Spec

(* Every variable of EstimateHCL and of its goroutine keeps its type. *)
THEOREM TypeCorrect == Spec => []TypeOK
<1>1. IInv => TypeOK BY DEF IInv
<1> QED BY Invariance, <1>1, PTL

(* estimation.go:292-363: a successful Terragrunt estimate has one plan    *)
(* for each module of the stack, in order, the skipped ones without costs. *)
THEOREM OnePlan == Spec => []OnePlanPerModule
<1>1. IInv => OnePlanPerModule BY DEF IInv
<1> QED BY Invariance, <1>1, PTL

(* estimation.go:247-270: the modules are read only after a run that       *)
(* succeeded, from a directory that is there.                              *)
THEOREM Settled == Spec => []ModulesAreSettled
<1>1. IInv => ModulesAreSettled BY DEF IInv
<1> QED BY Invariance, <1>1, PTL

(* estimation.go:152: the temporary directory goes with the call, whether  *)
(* it returns or panics, unless the run is still at work in it.            *)
THEOREM TmpdirRemoved == Spec => []TmpdirIsRemoved
<1>1. IInv => TmpdirIsRemoved BY DEF IInv
<1> QED BY Invariance, <1>1, PTL
=============================================================================
