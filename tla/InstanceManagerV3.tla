------------------------- MODULE InstanceManagerV3 -------------------------
(***************************************************************************)
(* WorkflowInstanceManagerV3 (pkg/core/engine/instance_manager_v3.go): the *)
(* actor that runs one batch workflow instance.  InstanceLifecycle gives   *)
(* the status, the control loop and the users; this module adds what the   *)
(* actor schedules: the main tasks of the DAG, the pools of subtasks that  *)
(* job functions and SUCCESS handlers add while the instance runs, and the *)
(* inbox through which the executor's callbacks and those goroutines reach *)
(* the actor.                                                              *)
(*                                                                         *)
(* The actor holds mu while it handles a message, while it submits and     *)
(* while it checks for the end.  Handling a message touches nothing that   *)
(* is not under mu and is one step.  submit() hands tasks to running       *)
(* goroutines between its iterations: each iteration is a step.  checkDone *)
(* decides in one step and, when all is over, goes on through the steps of *)
(* InstanceLifecycle that store, publish and cancel.                       *)
(***************************************************************************)
EXTENDS InstanceLifecycle, SubTaskPool, FiniteSets, SequencesExt


CONSTANTS
  Main,           \* the tasks of the workflow's DAG
  Sub,            \* the tasks that may be added while the instance runs
  None,           \* no value
  Deps,           \* [Main -> SUBSET Main], what each task depends on
  Template,       \* the main tasks marked as templates
  HasHandler,     \* the tasks with a registered SUCCESS handler
  JobBatch,       \* [Task -> Seq(Sub)], what a task's job function adds
  HandlerBatch,   \* [Task -> Seq(Sub)], what its SUCCESS handler adds
  MayLackParams,  \* the tasks for which prepareTaskParams may fail
  MaxConc,        \* the workflow's MaxConcurrentTask
  InboxCap        \* capacity of the inbox (4096 in the code)

Task == Main \cup Sub

\* Job functions and handlers run in goroutines of their own and add their
\* batch, all of it with one AtomicAddSubTasks call, under their own task.
Caller == {"job", "handler"} \X Task
Batch(c) == IF c[1] = "job" THEN JobBatch[c[2]] ELSE HandlerBatch[c[2]]

ASSUME V3Assumption ==
  /\ IsFiniteSet(Main) /\ Main \cap Sub = {} /\ None \notin Task
  /\ Deps \in [Main -> SUBSET Main]
  /\ Template \subseteq Main
  /\ HasHandler \subseteq Task
  /\ JobBatch \in [Task -> Seq(Sub)]
  /\ HandlerBatch \in [Task -> Seq(Sub)]
  /\ MayLackParams \subseteq Task
  /\ MaxConc \in Nat \ {0}
  /\ InboxCap \in Nat \ {0}

\* Every added task is a new object with an ID of its own.
ASSUME FreshSubTasks ==
  \A c, d \in Caller : \A i \in 1 .. Len(Batch(c)), j \in 1 .. Len(Batch(d)) :
    Batch(c)[i] = Batch(d)[j] => c = d /\ i = j

\* Workflow.Validate refuses a cyclic graph.
ASSUME AcyclicDeps ==
  \A S \in SUBSET Main : S # {} => \E t \in S : Deps[t] \cap S = {}

VARIABLES
  apc,            \* where actorLoop is
  selfSend,       \* a template whose done() the actor itself is sending
  inbox,          \* messages for the actor
  pendingDeps, readyMain, mainSubmitted, mainDone, running,
  subToParent,    \* None until the subtask is accepted
  pools,          \* subTaskPools; a pool exists once its ID is active
  activePoolIDs, rrIdx,
  templateHandlerInFlight,
  taskStatus,     \* Task.SetStatus, as the actor calls it
  contextData,    \* None, or the succeeded subtasks its result aggregates
  totalTasks, successTasks, failedTasks, runningTasks,
  call,           \* AtomicAddSubTasks as each job and handler sees it
  exec,           \* tasks the executor holds and has not reported yet
  execDown        \* Executor.Shutdown was called

countVars == <<totalTasks, successTasks, failedTasks, runningTasks>>
dagVars   == <<pendingDeps, readyMain, mainDone>>
poolVars  == <<pools, activePoolIDs, rrIdx, subToParent>>
workVars  == <<call, exec, execDown>>
schedVars == <<apc, selfSend, inbox, dagVars, mainSubmitted, running,
               poolVars, templateHandlerInFlight, taskStatus, contextData,
               countVars, workVars>>
v3Vars == <<lcVars, schedVars>>

Children(t) == {c \in Main : t \in Deps[c]}
Parents == {activePoolIDs[i] : i \in 1 .. Len(activePoolIDs)}
SubTasks(p) == {p.tasks[i] : i \in 1 .. Len(p.tasks)}

AddMsg(c)        == [type |-> "add", from |-> c]
ResultMsg(t, ok) == [type |-> "result", task |-> t, ok |-> ok]
DoneMsg(t)       == [type |-> "handlerDone", task |-> t]
Msg == [type: {"add"}, from: Caller]
         \cup [type: {"result"}, task: Task, ok: BOOLEAN]
         \cup [type: {"handlerDone"}, task: Main]

\* The actor holds mu between two of its steps.
ActorHoldsLock == apc = "submit" \/ selfSend # None \/ Finishing

-----------------------------------------------------------------------------
V3Init ==
  /\ LCInit
  /\ apc = "select" /\ selfSend = None
  /\ inbox = <<>>
  /\ pendingDeps = [t \in Main |-> Cardinality(Deps[t])]
  /\ readyMain \in SetToSeqs({t \in Main : Deps[t] = {}})
  /\ mainSubmitted = {} /\ mainDone = {} /\ running = {}
  /\ subToParent = [s \in Sub |-> None]
  /\ pools = [t \in Task |-> newSubTaskPool]
  /\ activePoolIDs = <<>> /\ rrIdx = 0
  /\ templateHandlerInFlight = {}
  /\ taskStatus = [t \in Task |-> "PENDING"]
  /\ contextData = [t \in Task |-> None]
  /\ totalTasks = Cardinality(Main)
  /\ successTasks = 0 /\ failedTasks = 0 /\ runningTasks = 0
  /\ call = [c \in Caller |-> "idle"]
  /\ exec = {} /\ execDown = FALSE

-----------------------------------------------------------------------------
(* Completing a main task.                                                 *)

\* Mutant: a child is ready with one dependency left.
ReleaseEarly(t) ==
  /\ mainDone' = mainDone \cup {t}
  /\ pendingDeps' = [c \in Main |-> IF c \in Children(t)
                                    THEN pendingDeps[c] - 1
                                    ELSE pendingDeps[c]]
  /\ \E order \in SetToSeqs({c \in Children(t) :
                               /\ pendingDeps'[c] <= 1
                               /\ c \notin mainSubmitted \cup mainDone'}) :
        readyMain' = readyMain \o order

\* completeMainTaskAndReleaseChildren past its guard.  Children are visited in
\* the order of a Go map, so those that become ready come in any order.
Release(t) ==
  /\ mainDone' = mainDone \cup {t}
  /\ pendingDeps' = [c \in Main |-> IF c \in Children(t)
                                    THEN pendingDeps[c] - 1
                                    ELSE pendingDeps[c]]
  /\ \E order \in SetToSeqs({c \in Children(t) :
                               /\ pendingDeps'[c] <= 0
                               /\ c \notin mainSubmitted \cup mainDone'}) :
        readyMain' = readyMain \o order

completeMain(t) == IF t \in mainDone THEN UNCHANGED dagVars ELSE Release(t)

\* Mutant: the aggregate is built before the last result is in.
tryCompleteStale(t, p, context) ==
  IF p.allDone
  THEN /\ contextData' = [context EXCEPT
            ![t] = {s \in SubTasks(p) : taskStatus[s] = "SUCCESS"}]
       /\ completeMain(t)
  ELSE contextData' = context /\ UNCHANGED dagVars

\* tryCompleteTemplateTask: aggregate what succeeded, then release.
tryComplete(t, p, context) ==
  IF p.allDone
  THEN /\ contextData' = [context EXCEPT
            ![t] = {s \in SubTasks(p) : taskStatus'[s] = "SUCCESS"}]
       /\ completeMain(t)
  ELSE contextData' = context /\ UNCHANGED dagVars

-----------------------------------------------------------------------------
(* handleMsg.                                                              *)

\* addSubTasksMsg: the pool is created on the first batch of its parent.
handleAdd(c) ==
  LET parent == c[2]
      batch == Batch(c)
      Added == {batch[i] : i \in 1 .. Len(batch)} IN
  /\ activePoolIDs' = IF parent \in Parents THEN activePoolIDs
                                            ELSE Append(activePoolIDs, parent)
  /\ subToParent' = [s \in Sub |-> IF s \in Added THEN parent
                                                  ELSE subToParent[s]]
  /\ pools' = [pools EXCEPT ![parent] = addTasks(@, batch)]
  /\ totalTasks' = totalTasks + Len(batch)
  \* The reply channel is buffered: the caller's AtomicAddSubTasks returns.
  /\ call' = [call EXCEPT ![c] = IF @ = "wait" THEN "ready" ELSE @]
  /\ UNCHANGED <<selfSend, dagVars, mainSubmitted, running, rrIdx,
                 templateHandlerInFlight, taskStatus, contextData,
                 successTasks, failedTasks, runningTasks>>

\* executeStatusHandlerAsync starts a goroutine for a registered handler.
startHandler(t) ==
  call' = IF t \in HasHandler
          THEN [call EXCEPT ![<<"handler", t>>] =
                  IF Batch(<<"handler", t>>) = <<>> THEN "ready" ELSE "add"]
          ELSE call

\* onResult with an error, ps being the pools at that moment.  A main task
\* also marks its direct children as done and counts each of them as failed.
onFailure(t, ps) ==
  /\ taskStatus' = [taskStatus EXCEPT ![t] = "FAILED"]
  /\ IF t \in Sub
     THEN /\ failedTasks' = failedTasks + 1
          /\ pools' = [ps EXCEPT ![subToParent[t]] = taskFailed(@)]
          /\ UNCHANGED mainDone
     ELSE /\ failedTasks' = failedTasks + 1 + Cardinality(Children(t))
          /\ mainDone' = mainDone \cup {t} \cup Children(t)
          /\ pools' = ps
  /\ UNCHANGED <<pendingDeps, contextData, successTasks>>

onSubTaskSuccess(t) ==
  LET parent == subToParent[t]
      p == taskCompleted(pools[parent]) IN
  /\ pools' = [pools EXCEPT ![parent] = p]
  /\ tryComplete(parent, p, [contextData EXCEPT ![t] = {}])
  /\ UNCHANGED <<selfSend, templateHandlerInFlight>>

\* A template is done only when its handler is.  Without a handler the actor
\* itself sends templateHandlerDoneMsg to its inbox, still holding mu.
onTemplateSuccess(t) ==
  /\ templateHandlerInFlight' = templateHandlerInFlight \cup {t}
  /\ selfSend' = IF t \in HasHandler THEN None ELSE t
  /\ contextData' = [contextData EXCEPT ![t] = {}]
  /\ UNCHANGED <<pools, dagVars>>

onMainSuccess(t) ==
  /\ Release(t)
  /\ contextData' = [contextData EXCEPT ![t] = {}]
  /\ UNCHANGED <<pools, selfSend, templateHandlerInFlight>>

\* onResult: the result of a task that is not running is ignored.
onResult(t, ok) ==
  IF t \notin running
  THEN UNCHANGED <<selfSend, dagVars, running, pools, templateHandlerInFlight,
                   taskStatus, contextData, countVars, call>>
  ELSE /\ running' = running \ {t}
       /\ runningTasks' = runningTasks - 1
       /\ UNCHANGED totalTasks
       /\ IF ok
          THEN /\ taskStatus' = [taskStatus EXCEPT ![t] = "SUCCESS"]
               /\ successTasks' = successTasks + 1
               /\ CASE t \in Sub      -> onSubTaskSuccess(t)
                    [] t \in Template -> onTemplateSuccess(t)
                    [] OTHER          -> onMainSuccess(t)
               /\ startHandler(t)
               /\ UNCHANGED failedTasks
          ELSE /\ onFailure(t, pools)
               /\ UNCHANGED <<readyMain, selfSend, templateHandlerInFlight,
                               call>>

\* Mutant: the pool never learns that the job is done.
handleTemplateDoneUnmarked(t) ==
  /\ templateHandlerInFlight' = templateHandlerInFlight \ {t}
  /\ IF t \in Parents THEN UNCHANGED dagVars ELSE completeMain(t)
  /\ UNCHANGED <<pools, taskStatus, contextData>>

\* onTemplateHandlerDone.
handleTemplateDone(t) ==
  /\ templateHandlerInFlight' = templateHandlerInFlight \ {t}
  /\ IF t \in Parents
     THEN LET p == markJobDone(pools[t]) IN
          /\ pools' = [pools EXCEPT ![t] = p]
          /\ UNCHANGED taskStatus
          /\ tryComplete(t, p, contextData)
     ELSE /\ completeMain(t)
          /\ UNCHANGED <<pools, taskStatus, contextData>>

-----------------------------------------------------------------------------
(* actorLoop.  Its select takes any ready branch.                          *)

ActorIdle == actor = "on" /\ apc = "select" /\ selfSend = None

ActorRecv ==
  /\ ActorIdle
  /\ inbox # <<>>
  /\ inbox' = Tail(inbox)
  /\ LET m == Head(inbox) IN
     \/ /\ m.type = "add"
        /\ handleAdd(m.from)
     \/ /\ m.type = "result"
        /\ onResult(m.task, m.ok)
        /\ UNCHANGED <<mainSubmitted, activePoolIDs, rrIdx, subToParent>>
     \/ /\ m.type = "handlerDone"
        /\ handleTemplateDone(m.task)
        /\ UNCHANGED <<selfSend, mainSubmitted, running, activePoolIDs, rrIdx,
                       subToParent, countVars, call>>
  /\ UNCHANGED <<lcVars, apc, exec, execDown>>

\* The done() of a template without handler: it waits while the inbox is full.
ActorSelfSend ==
  /\ selfSend # None
  /\ \/ /\ Len(inbox) < InboxCap
        /\ inbox' = Append(inbox, DoneMsg(selfSend))
     \/ /\ ctxDone
        /\ UNCHANGED inbox
  /\ selfSend' = None
  /\ UNCHANGED <<lcVars, apc, dagVars, mainSubmitted, running, poolVars,
                 templateHandlerInFlight, taskStatus, contextData, countVars,
                 workVars>>

\* The ticker fires: submit() reads paused before it takes mu.
ActorTick ==
  /\ ActorIdle
  /\ apc' = IF paused THEN "check" ELSE "tick"
  /\ UNCHANGED <<lcVars, inbox, selfSend, dagVars, mainSubmitted, running,
                 poolVars, templateHandlerInFlight, taskStatus, contextData,
                 countVars, workVars>>

\* The positions of activePoolIDs from rrIdx on whose pool has a task ready.
ReadyOffsets ==
  {i \in 0 .. Len(activePoolIDs) - 1 :
     hasReady(pools[activePoolIDs[((rrIdx + i) % Len(activePoolIDs)) + 1]])}

\* pick: main tasks first, then the pools in turn.  ps and rr are the pools
\* and the index afterwards.
PickedMain(t) == readyMain # <<>> /\ t = Head(readyMain)
PickedSub(t, parent, rr) ==
  /\ readyMain = <<>>
  /\ ReadyOffsets # {}
  /\ LET first == CHOOSE i \in ReadyOffsets : \A j \in ReadyOffsets : i <= j
         idx == (rrIdx + first) % Len(activePoolIDs) IN
     /\ parent = activePoolIDs[idx + 1]
     /\ t = nextTask(pools[parent])
     /\ rr = (idx + 1) % Len(activePoolIDs)

\* What becomes of a picked task.  Executor.SubmitTask takes it...
Accepted(t, ps) ==
  /\ ~execDown
  /\ running' = running \cup {t}
  /\ runningTasks' = runningTasks + 1
  /\ exec' = exec \cup {t}
  /\ call' = [call EXCEPT ![<<"job", t>>] =
                IF Batch(<<"job", t>>) = <<>> THEN "ready" ELSE "add"]
  /\ pools' = ps
  /\ UNCHANGED <<pendingDeps, mainDone, taskStatus, contextData, successTasks,
                 failedTasks>>

\* Mutant: a task without its parameters keeps the slot.
LacksParamsKeepsSlot(t, ps) ==
  /\ t \in MayLackParams
  /\ onFailure(t, ps)
  /\ runningTasks' = runningTasks + 1
  /\ UNCHANGED <<running, exec, call>>

\* ...or prepareTaskParams fails and onResult runs at once...
LacksParams(t, ps) ==
  /\ t \in MayLackParams
  /\ onFailure(t, ps)
  /\ UNCHANGED <<running, runningTasks, exec, call>>

\* ...or SubmitTask refuses it.  Only the manager's own counters are put back.
Refused(ps) ==
  /\ execDown
  /\ failedTasks' = failedTasks + 1
  /\ pools' = ps
  /\ UNCHANGED <<pendingDeps, mainDone, running, taskStatus, contextData,
                 successTasks, runningTasks, exec, call>>

\* One iteration of submit's loop.
ActorSubmit ==
  /\ apc \in {"tick", "submit"}
  /\ runningTasks < MaxConc
  /\ \E t \in Task :
       /\ \/ /\ PickedMain(t)
             /\ readyMain' = Tail(readyMain)
             /\ UNCHANGED rrIdx
             /\ Accepted(t, pools) \/ LacksParams(t, pools) \/ Refused(pools)
          \/ \E parent \in Task, rr \in 0 .. Len(activePoolIDs) :
               LET ps == [pools EXCEPT ![parent] = addRunning(next(@))] IN
               /\ PickedSub(t, parent, rr)
               /\ rrIdx' = rr
               /\ UNCHANGED readyMain
               /\ Accepted(t, ps) \/ LacksParams(t, ps) \/ Refused(ps)
       /\ mainSubmitted' = mainSubmitted \cup {t}
  /\ apc' = "submit"
  /\ UNCHANGED <<lcVars, inbox, selfSend, subToParent, activePoolIDs,
                 templateHandlerInFlight, totalTasks, execDown>>

ActorSubmitEnd ==
  /\ apc \in {"tick", "submit"}
  /\ runningTasks >= MaxConc \/ (readyMain = <<>> /\ ReadyOffsets = {})
  /\ apc' = "check"
  /\ UNCHANGED <<lcVars, inbox, selfSend, dagVars, mainSubmitted, running,
                 poolVars, templateHandlerInFlight, taskStatus, contextData,
                 countVars, workVars>>

\* Mutant: the end does not wait for template handlers.
NothingLeftButHandlers ==
  /\ running = {} /\ readyMain = <<>>
  /\ \A t \in Parents : /\ pools[t].runningCount = 0
                        /\ ~hasReady(pools[t])
                        /\ pools[t].allDone

\* checkDone.
NothingLeft ==
  /\ running = {} /\ readyMain = <<>> /\ templateHandlerInFlight = {}
  /\ \A t \in Parents : /\ pools[t].runningCount = 0
                        /\ ~hasReady(pools[t])
                        /\ pools[t].allDone

\* Mutant: checkDone does not look whether the instance is paused.
ActorCheckDoneWhenPaused ==
  /\ apc = "check"
  /\ apc' = "select"
  /\ IF NothingLeft
     THEN /\ status' = IF failedTasks > 0 THEN "Failed" ELSE "Success"
          /\ actor' = "persist"
          /\ UNCHANGED <<dbStatus, paused, ctxDone, statusChan, controlVars,
                         userVars>>
     ELSE UNCHANGED lcVars
  /\ UNCHANGED <<inbox, selfSend, dagVars, mainSubmitted, running, poolVars,
                 templateHandlerInFlight, taskStatus, contextData, countVars,
                 workVars>>

ActorCheckDone ==
  /\ apc = "check"
  /\ apc' = "select"
  /\ IF NothingLeft /\ status # "Paused"
     THEN FinishSet(IF failedTasks > 0 THEN "Failed" ELSE "Success")
     ELSE UNCHANGED lcVars
  /\ UNCHANGED <<inbox, selfSend, dagVars, mainSubmitted, running, poolVars,
                 templateHandlerInFlight, taskStatus, contextData, countVars,
                 workVars>>

\* What checkDone does once the outcome is set.
ActorFinish == FinishStep /\ UNCHANGED schedVars

ActorReturn ==
  /\ ActorIdle
  /\ ActorExit
  /\ UNCHANGED schedVars

-----------------------------------------------------------------------------
(* Goroutines of job functions and handlers.                               *)

quietVars == <<lcVars, apc, selfSend, dagVars, mainSubmitted, running,
               poolVars, templateHandlerInFlight, taskStatus, contextData,
               countVars, execDown>>

\* Mutant: the send does not wait for room.
CallAddUnbounded(c) ==
  /\ call[c] = "add"
  /\ inbox' = Append(inbox, AddMsg(c))
  /\ call' = [call EXCEPT ![c] = "wait"]
  /\ UNCHANGED <<quietVars, exec>>

\* AtomicAddSubTasks: put the batch in the inbox, then wait for the reply.
CallAdd(c) ==
  /\ call[c] = "add"
  /\ Len(inbox) < InboxCap
  /\ inbox' = Append(inbox, AddMsg(c))
  /\ call' = [call EXCEPT ![c] = "wait"]
  /\ UNCHANGED <<quietVars, exec>>

\* Either select may also return because the instance's context is done.
CallRefused(c) ==
  /\ call[c] \in {"add", "wait"}
  /\ ctxDone
  /\ call' = [call EXCEPT ![c] = "ready"]
  /\ UNCHANGED <<quietVars, inbox, exec>>

\* Mutant: a result that finds the inbox full is dropped.
TaskEndMayDrop(t, ok) ==
  /\ t \in exec
  /\ exec' = exec \ {t}
  /\ ok => call[<<"job", t>>] = "ready"
  /\ inbox' = IF Len(inbox) < InboxCap THEN Append(inbox, ResultMsg(t, ok))
                                       ELSE inbox
  /\ UNCHANGED <<quietVars, call>>

\* The executor's OnComplete or OnError: the result enters the inbox, or is
\* dropped once the context is done.  A job succeeds only after its own calls
\* returned; it may fail before, or time out and go on as a goroutine nobody
\* waits for.
TaskEnd(t, ok) ==
  /\ t \in exec
  /\ exec' = exec \ {t}
  /\ IF ok THEN call[<<"job", t>>] = "ready" /\ UNCHANGED call
     ELSE \/ UNCHANGED call
          \/ /\ call[<<"job", t>>] = "add"
             /\ call' = [call EXCEPT ![<<"job", t>>] = "ready"]
  /\ \/ /\ Len(inbox) < InboxCap
        /\ inbox' = Append(inbox, ResultMsg(t, ok))
     \/ ctxDone /\ UNCHANGED inbox
  /\ UNCHANGED quietVars

\* The goroutine of a template's handler ends with done().
HandlerEnd(t) ==
  /\ t \in Template
  /\ call[<<"handler", t>>] = "ready"
  /\ call' = [call EXCEPT ![<<"handler", t>>] = "over"]
  /\ \/ /\ Len(inbox) < InboxCap
        /\ inbox' = Append(inbox, DoneMsg(t))
     \/ ctxDone /\ UNCHANGED inbox
  /\ UNCHANGED <<quietVars, exec>>

\* Engine.Stop shuts the executor down after the instances' Shutdown.
ExecShutdown ==
  /\ ctxDone
  /\ ~execDown
  /\ execDown' = TRUE
  /\ UNCHANGED <<lcVars, apc, inbox, selfSend, dagVars, mainSubmitted, running,
                 poolVars, templateHandlerInFlight, taskStatus, contextData,
                 countVars, call, exec>>

-----------------------------------------------------------------------------
ActorStep ==
  \/ ActorRecv
  \/ ActorSelfSend
  \/ ActorTick
  \/ ActorSubmit
  \/ ActorSubmitEnd
  \/ ActorCheckDone
  \/ ActorFinish
  \/ ActorReturn

WorkerStep ==
  \/ \E c \in Caller : CallAdd(c) \/ CallRefused(c)
  \/ \E t \in Task, ok \in BOOLEAN : TaskEnd(t, ok)
  \/ \E t \in Task : HandlerEnd(t)
  \/ ExecShutdown

\* controlLoop and GetStatus wait for mu while the actor holds it.
LifecycleStep ==
  /\ \/ StartManager
     \/ \E sig \in {"Pause", "Resume"} : SendPauseOrResume(sig)
     \/ CheckTerminate /\ ~ActorHoldsLock
     \/ SendTerminate
     \/ StopSendsTerminate
     \/ Shutdown
     \/ ControlReceive
     \/ ControlSetStatus /\ ~ActorHoldsLock
     \/ ControlPersist
     \/ ControlPublish
     \/ ControlCancel
     \/ ControlExit
  /\ UNCHANGED schedVars

V3Next == ActorStep \/ WorkerStep \/ LifecycleStep

V3Spec == V3Init /\ [][V3Next]_v3Vars

\* Fairness.  Goroutines run; a Go select picks at random among its ready
\* branches, and waiting senders are served in order; sync.Mutex hands itself
\* over to a waiter that starves.  Job functions and handlers are assumed to
\* return, or a job to time out; users and Engine.Stop owe nothing.
V3Fairness ==
  /\ WF_v3Vars(StartManager /\ UNCHANGED schedVars)
  /\ SF_v3Vars(ActorRecv)
  /\ SF_v3Vars(ActorTick)
  /\ WF_v3Vars(ActorSelfSend)
  /\ WF_v3Vars(ActorSubmit)
  /\ WF_v3Vars(ActorSubmitEnd)
  /\ WF_v3Vars(ActorCheckDone)
  /\ WF_v3Vars(ActorFinish)
  /\ SF_v3Vars(ControlReceive /\ UNCHANGED schedVars)
  /\ SF_v3Vars(ControlSetStatus /\ ~ActorHoldsLock /\ UNCHANGED schedVars)
  /\ WF_v3Vars(/\ ControlPersist \/ ControlPublish \/ ControlCancel
             /\ UNCHANGED schedVars)
  /\ \A c \in {x \in Caller : Batch(x) # <<>>} : SF_v3Vars(CallAdd(c))
  /\ \A t \in Task : SF_v3Vars(\E ok \in BOOLEAN : TaskEnd(t, ok))
  /\ \A t \in Template \cap HasHandler : SF_v3Vars(HandlerEnd(t))

V3FairSpec == V3Spec /\ V3Fairness

-----------------------------------------------------------------------------
(* Properties.                                                             *)

SchedTypeOK ==
  /\ apc \in {"select", "tick", "submit", "check"}
  /\ selfSend \in Template \cup {None}
  /\ inbox \in Seq(Msg) /\ Len(inbox) <= InboxCap
  /\ pendingDeps \in [Main -> Int]
  /\ readyMain \in Seq(Main)
  /\ mainSubmitted \subseteq Task /\ mainDone \subseteq Main
  /\ running \subseteq Task
  /\ subToParent \in [Sub -> Task \cup {None}]
  /\ pools \in [Task -> Pool(Sub)]
  /\ activePoolIDs \in Seq(Task) /\ rrIdx \in Nat
  /\ templateHandlerInFlight \subseteq Template
  /\ taskStatus \in [Task -> {"PENDING", "SUCCESS", "FAILED"}]
  /\ contextData \in [Task -> {None} \cup SUBSET Sub]
  /\ totalTasks \in Nat /\ successTasks \in Nat /\ failedTasks \in Nat
  /\ runningTasks \in Int
  /\ call \in [Caller -> {"idle", "add", "wait", "ready", "over"}]
  /\ exec \subseteq Task /\ execDown \in BOOLEAN

V3TypeOK == LCTypeOK /\ SchedTypeOK

Succeeded == {t \in Task : taskStatus[t] = "SUCCESS"}
SubTasksOf(t) == {s \in Sub : subToParent[s] = t}

\* A main task that was picked for submission has only dependencies that are
\* done and succeeded, although failures mark tasks done that never ran and
\* pendingDeps is only a counter.
DependenciesRespected ==
  \A t \in mainSubmitted \cap Main : Deps[t] \subseteq mainDone \cap Succeeded

\* What hangs on a template is picked only after every subtask accepted under
\* it was processed, and finds exactly the subtasks that succeeded in the
\* template's aggregated result.
TemplateBarrier ==
  \A t \in mainSubmitted \cap Main : \A d \in Deps[t] \cap Template \cap Parents :
    /\ pools[d].completed + pools[d].failed = Cardinality(SubTasksOf(d))
    /\ contextData[d] = SubTasksOf(d) \cap Succeeded

\* Both: the scheduler picks nothing too early.
PickedWhenReady == DependenciesRespected /\ TemplateBarrier

\* The manager implements DagExecution: nothing starts before what it depends
\* on is complete, templates wait for their subtasks, Success is earned.
PhaseOf(t) ==
  IF t \notin mainSubmitted THEN "waiting"
  ELSE IF taskStatus[t] = "FAILED" THEN "failed"
  ELSE IF taskStatus[t] = "PENDING" THEN "started"
  ELSE IF t \in Sub \/ t \in mainDone THEN "complete" ELSE "expanding"

Dag == INSTANCE DagExecution WITH
         phase   <- [t \in Task |-> PhaseOf(t)],
         under   <- subToParent,
         success <- (status = "Success")

ImplementsDag == Dag!Spec

\* Every slot of MaxConcurrentTask in use belongs to one running task.
SlotsAccounted ==
  /\ runningTasks = Cardinality(running)
  /\ runningTasks <= MaxConc

\* While the instance lives, a running task is held by the executor or its one
\* result waits in the inbox: no result is lost, none comes twice.
NoResultLost ==
  ~ctxDone =>
    \A t \in Task :
      LET waiting == {i \in 1 .. Len(inbox) :
                        inbox[i].type = "result" /\ inbox[i].task = t} IN
      /\ t \in running <=> t \in exec \/ waiting # {}
      /\ t \in exec => waiting = {}
      /\ Cardinality(waiting) <= 1

\* A pool's counters describe the subtasks they stand for, until the executor
\* is shut down: SubmitTask's refusal leaves runningCount too high.
PoolsAccounted ==
  \A t \in Parents :
    LET p == pools[t] IN
    /\ p.total = Len(p.tasks) /\ SubTasks(p) = SubTasksOf(t)
    /\ p.cursor = p.runningCount + p.completed + p.failed
    /\ ~execDown => p.runningCount = Cardinality(running \cap SubTasksOf(t))
    /\ p.completed = Cardinality(SubTasksOf(t) \cap Succeeded)

\* Both: submit never counts a slot or a subtask that nothing will give back.
AccountsBalance == SlotsAccounted /\ PoolsAccounted

\* checkDone calls an instance a Success only when every main task and every
\* accepted subtask succeeded; its progress is then 100%.
SuccessIsEarned ==
  [][status' = "Success" /\ status # "Success" =>
       /\ Main \cup {s \in Sub : subToParent[s] # None} \subseteq Succeeded
       /\ successTasks = totalTasks /\ failedTasks = 0]_v3Vars

\* Nor does a Success accept subtasks afterwards that nobody will run, when
\* only templates add subtasks.
NoSubTaskAfterSuccess ==
  [][status = "Success" => subToParent' = subToParent]_v3Vars

\* Both: Success, once checkDone says it, is true and stays true.
SuccessIsSound == SuccessIsEarned /\ NoSubTaskAfterSuccess

\* A pool of a parent that is not a template, or of a template whose own task
\* did not succeed, never gets its jobDone: checkDone waits for ever.
AbandonedPool ==
  \E t \in Parents : t \notin Template \/ taskStatus[t] = "FAILED"

\* An instance that nobody leaves paused ends, whatever fails, unless a pool is
\* abandoned.
EndsUnlessAbandoned == <>(ctxDone \/ AbandonedPool) \/ <>[](status = "Paused")

=============================================================================
