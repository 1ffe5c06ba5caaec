----------------------------- MODULE EstimateHCL -----------------------------
(***************************************************************************)
(* EstimateHCL: a plain Terraform directory is estimated in place; a       *)
(* Terragrunt one is copied to a temporary directory, where a goroutine    *)
(* runs the stack (it downloads the modules' sources) while the caller     *)
(* waits for it or for its context, and then estimates module by module.   *)
(*                                                                         *)
(* A module is what the calls made for it answer: it has a verdict of      *)
(* VERDICTS, in the order the code can find it out.                        *)
(***************************************************************************)
EXTENDS Integers, Sequences

CONSTANT Stacks       \* the directories EstimateHCL may be given

Verdicts == {"excluded",        \* its exclude block prevents the run
             "badSource",       \* no source URL, or the sources are not there
             "badConfig",       \* ReadTerragruntConfig fails and returns nil
             "unknownProvider", \* ErrNoKnownProvider
             "badHCL",          \* any other error of ExtractQueriesFromHCL
             "noState",         \* NewState fails: no queries, or the backend
             "priced"}

ASSUME StacksAssumption ==
    Stacks \subseteq [exists : BOOLEAN, terragrunt : BOOLEAN, modules : Seq(Verdicts)]

VARIABLES
    stack,      \* what is at modulePath
    forced,     \* ftg: Terragrunt is run without looking for its file
    ctxDone,    \* the caller's context is done
    pc,         \* where EstimateHCL is
    costs,      \* the plans so far, by what made them
    result,     \* what it returned
    gpc,        \* where the goroutine that runs the stack is
    runFails,   \* what stack.Run returned: an error?
    tgRun,      \* the channel between them, of capacity 1
    closed,     \* ... and whether it is closed
    tmpdir      \* whether the temporary directory exists

callerVars == <<pc, costs, result>>
runVars    == <<gpc, runFails, tgRun>>
vars == <<stack, forced, ctxDone, callerVars, runVars, closed, tmpdir>>

Modules == stack.modules

TypeOK ==
    /\ stack \in Stacks
    /\ forced \in BOOLEAN /\ ctxDone \in BOOLEAN
    /\ runFails \in BOOLEAN /\ closed \in BOOLEAN /\ tmpdir \in BOOLEAN
    /\ pc \in {"walk", "plain", "copy", "find", "wait", "modules", "returned", "panicked"}
    /\ Len(costs) <= Len(Modules)
    /\ \A k \in 1..Len(costs) : costs[k] \in {"skipped", "priced"}
    /\ result \in {"none", "ok", "failed", "cancelled"}
    /\ gpc \in {"off", "running", "sending", "ended"}
    /\ tgRun \in {<<>>, <<TRUE>>, <<FALSE>>}

Init ==
    /\ stack \in Stacks
    /\ forced \in BOOLEAN
    /\ ctxDone = FALSE
    /\ pc = "walk" /\ costs = <<>> /\ result = "none"
    /\ gpc = "off" /\ runFails = FALSE /\ tgRun = <<>>
    /\ closed = FALSE /\ tmpdir = FALSE

-----------------------------------------------------------------------------
(* Mutation: the temporary directory stays. *)
DeferredClose ==
    /\ closed' = (gpc # "off")
    /\ UNCHANGED tmpdir

(* The deferred calls, which run when EstimateHCL returns and when it      *)
(* panics: tgRun is closed, if it was made, and the temporary directory is *)
(* removed.                                                                *)
Deferred ==
    /\ closed' = (gpc # "off")
    /\ tmpdir' = FALSE

(* A panic of the caller's goroutine, that nothing recovers: the process  *)
(* ends once the deferred calls are done.                                 *)
Panic == pc' = "panicked" /\ Deferred /\ UNCHANGED <<costs, result>>

Return(r) == pc' = "returned" /\ result' = r /\ Deferred

Goto(place) == pc' = place /\ UNCHANGED <<costs, result, closed>>

(* modulePath may not be relative to stackPath.  Unless Terragrunt is     *)
(* forced, its file is looked for at the top of modulePath.  For a path   *)
(* that is not there, afero.Walk calls back with a nil FileInfo, which    *)
(* the callback dereferences.                                             *)
Walk ==
    /\ pc = "walk"
    /\ \/ forced /\ Goto("copy") /\ UNCHANGED tmpdir
       \/ ~forced /\ stack.exists
          /\ Goto(IF stack.terragrunt THEN "copy" ELSE "plain") /\ UNCHANGED tmpdir
       \/ ~forced /\ ~stack.exists /\ Panic
       \/ Return("failed") /\ UNCHANGED costs
    /\ UNCHANGED <<stack, forced, ctxDone, runVars>>

(* ExtractQueriesFromHCL and NewState on the directory itself: here an    *)
(* unknown provider is an error as any other.                             *)
EstimatePlain ==
    /\ pc = "plain"
    /\ IF Modules # <<>> /\ Head(Modules) = "priced"
       THEN costs' = <<"priced">> /\ Return("ok")
       ELSE UNCHANGED costs /\ Return("failed")
    /\ UNCHANGED <<stack, forced, ctxDone, runVars>>

(* MkdirTemp, FromAferoToOS, the Terragrunt options and git.PlainInit;    *)
(* any of them may fail, the first one before there is a directory.       *)
CopyToTmp ==
    /\ pc = "copy"
    /\ \/ stack.exists /\ Goto("find") /\ tmpdir' = TRUE
       \/ Return("failed") /\ UNCHANGED costs
    /\ UNCHANGED <<stack, forced, ctxDone, runVars>>

(* FindStackInSubfolders, then the channel is made and the goroutine that *)
(* runs the stack is started.                                             *)
FindStack ==
    /\ pc = "find"
    /\ \/ Goto("wait") /\ gpc' = "running" /\ UNCHANGED tmpdir
       \/ Return(IF ctxDone THEN "cancelled" ELSE "failed") /\ UNCHANGED <<costs, gpc>>
    /\ UNCHANGED <<stack, forced, ctxDone, runFails, tgRun>>

(* Mutation: the context is looked at when the run is over. *)
WaitBoth ==
    /\ pc = "wait"
    /\ ctxDone /\ tgRun # <<>>
    /\ Return("cancelled")
    /\ UNCHANGED <<stack, forced, ctxDone, runVars, costs>>

(* The select: context.Cause(ctx) is returned. *)
WaitCancelled ==
    /\ pc = "wait"
    /\ ctxDone
    /\ Return("cancelled")
    /\ UNCHANGED <<stack, forced, ctxDone, runVars, costs>>

(* Mutation: an error of stack.Run is not looked at. *)
WaitRunOnly ==
    /\ pc = "wait"
    /\ tgRun # <<>>
    /\ tgRun' = <<>>
    /\ Goto("modules") /\ UNCHANGED tmpdir
    /\ UNCHANGED <<stack, forced, ctxDone, gpc, runFails>>

(* The select: stack.Run has returned. *)
WaitRun ==
    /\ pc = "wait"
    /\ tgRun # <<>>
    /\ tgRun' = <<>>
    /\ IF Head(tgRun) THEN Return("failed") /\ UNCHANGED costs
                      ELSE Goto("modules") /\ UNCHANGED tmpdir
    /\ UNCHANGED <<stack, forced, ctxDone, gpc, runFails>>

(* Mutation: an excluded module is estimated. *)
PlanAll(verdict) ==
    /\ costs' = Append(costs, IF verdict = "unknownProvider" THEN "skipped" ELSE "priced")
    /\ UNCHANGED <<pc, result, closed, tmpdir>>

(* Mutation: without the `continue`, a skipped module has a second plan. *)
PlanTwice(verdict) ==
    /\ costs' = IF verdict = "priced" THEN Append(costs, "priced")
                ELSE costs \o <<"skipped", "priced">>
    /\ UNCHANGED <<pc, result, closed, tmpdir>>

(* cost.NewPlan(modAddr, nil, planned), with no state if it is skipped. *)
AddPlan(verdict) ==
    /\ costs' = Append(costs, IF verdict = "priced" THEN "priced" ELSE "skipped")
    /\ UNCHANGED <<pc, result, closed, tmpdir>>

(* One iteration over stack.Modules().  The error of ReadTerragruntConfig *)
(* is dropped, and tgc.Inputs is read through the nil pointer it left.    *)
EstimateModule ==
    /\ pc = "modules"
    /\ Len(costs) < Len(Modules)
    /\ LET verdict == Modules[Len(costs) + 1]
       IN  \/ verdict \in {"excluded", "unknownProvider", "priced"} /\ AddPlan(verdict)
           \/ verdict \in {"badSource", "badHCL", "noState"} /\ Return("failed") /\ UNCHANGED costs
           \/ verdict = "badConfig" /\ Panic
    /\ UNCHANGED <<stack, forced, ctxDone, runVars>>

ModulesEnd ==
    /\ pc = "modules"
    /\ Len(costs) = Len(Modules)
    /\ Return("ok")
    /\ UNCHANGED <<stack, forced, ctxDone, runVars, costs>>

Caller ==
    \/ Walk \/ EstimatePlain \/ CopyToTmp \/ FindStack \/ WaitCancelled \/ WaitRun
    \/ EstimateModule \/ ModulesEnd

-----------------------------------------------------------------------------
(* stack.Run makes directories under the temporary one. *)
RunDownloads ==
    /\ gpc = "running"
    /\ tmpdir' = TRUE
    /\ UNCHANGED <<stack, forced, ctxDone, callerVars, runVars, closed>>

(* stack.Run returns, with an error or without. *)
RunReturns ==
    /\ gpc = "running"
    /\ gpc' = "sending"
    /\ runFails' \in BOOLEAN
    /\ UNCHANGED <<stack, forced, ctxDone, callerVars, tgRun, closed, tmpdir>>

(* tgRun <- localErr: a send on a closed channel panics, in a goroutine    *)
(* that has nothing deferred.                                             *)
SendRun ==
    /\ gpc = "sending"
    /\ gpc' = "ended"
    /\ IF closed THEN pc' = "panicked" /\ UNCHANGED tgRun
                 ELSE tgRun' = <<runFails>> /\ UNCHANGED pc
    /\ UNCHANGED <<stack, forced, ctxDone, costs, result, runFails, closed, tmpdir>>

Cancel ==
    /\ ~ctxDone
    /\ ctxDone' = TRUE
    /\ UNCHANGED <<stack, forced, callerVars, runVars, closed, tmpdir>>

Finished == pc \in {"returned", "panicked"} /\ UNCHANGED vars

Next == Caller \/ RunDownloads \/ RunReturns \/ SendRun \/ Cancel \/ Finished

(* EstimateHCL is scheduled, and what it calls itself returns.  Nothing    *)
(* is assumed of stack.Run, which may download for ever.                   *)
Spec == Init /\ [][Next]_vars /\ WF_vars(Caller)

-----------------------------------------------------------------------------
(* A successful Terragrunt estimate has one plan for each module, in the  *)
(* order of the stack; skipped modules have a plan too.                   *)
OnePlanPerModule ==
    result = "ok" /\ gpc # "off" =>
        /\ Len(costs) = Len(Modules)
        /\ \A k \in 1..Len(costs) : (costs[k] = "priced") <=> (Modules[k] = "priced")

(* The modules are read only once the run that downloads them is over and *)
(* was successful, from a directory that is there.                        *)
ModulesAreSettled ==
    pc = "modules" => gpc = "ended" /\ ~runFails /\ tmpdir

(* The temporary directory goes with the call that made it, whether it    *)
(* returns or panics, unless the run is still at work in it.  (A panic    *)
(* with a result is the run's own, after the call returned.)              *)
TmpdirIsRemoved ==
    (pc = "returned" \/ (pc = "panicked" /\ result = "none")) /\ gpc \in {"off", "ended"}
        => ~tmpdir

(* The channel is made with the goroutine, and closed with the call: what  *)
(* is in it is what the run returned.                                     *)
ChannelIsKnown ==
    /\ pc \in {"walk", "plain", "copy", "find"} => gpc = "off"
    /\ pc \in {"find", "wait"} => tmpdir
    /\ pc \notin {"returned", "panicked"} => ~closed
    /\ pc = "returned" => closed = (gpc # "off") /\ result # "none"
    /\ pc = "panicked" /\ result = "none" => gpc \in {"off", "ended"}
    /\ tgRun # <<>> => gpc = "ended" /\ tgRun = <<runFails>>

(* The plans so far are those of the first modules of the stack.          *)
PlansFollowModules ==
    /\ costs \in Seq({"skipped", "priced"}) /\ Len(costs) <= Len(Modules)
    /\ costs # <<>> => pc \in {"modules", "returned", "panicked"}
    /\ result # "none" => pc \in {"returned", "panicked"}
    /\ gpc # "off" => \A k \in 1..Len(costs) : (costs[k] = "priced") <=> (Modules[k] = "priced")

(* The inductive invariant.                                                *)
IInv ==
    TypeOK /\ ChannelIsKnown /\ PlansFollowModules
    /\ OnePlanPerModule /\ ModulesAreSettled /\ TmpdirIsRemoved

(* The caller's cancellation ends the wait, whatever stack.Run does.      *)
CancelEndsWait == (pc = "wait" /\ ctxDone) ~> (pc # "wait")

(* estimation.go:227 - "when the caller cancels we want to surface their  *)
(* context.Cause verbatim": the caller gets that error, so its process is *)
(* not ended by the goroutine the call leaves behind.                     *)
CancelIsAnError == result = "cancelled" => pc # "panicked"
=============================================================================
