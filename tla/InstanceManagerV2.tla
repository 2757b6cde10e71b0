--------------------------- MODULE InstanceManagerV2 ---------------------------
(***************************************************************************)
(* WorkflowInstanceManagerV2 (pkg/core/engine/instance_manager_v2.go): one *)
(* batch workflow instance run level by level, by goroutines that share    *)
(* state and talk through channels:                                        *)
(*                                                                         *)
(*   submission --> executor callbacks --> taskStatusChan --> observer     *)
(*       ^                  |                                   |          *)
(*   level queue      addSubTaskChan                     queueUpdateChan   *)
(*       ^                  v                                   v          *)
(*       +-------------- queue manager <------------------------+          *)
(*                                                                         *)
(* The queue manager is the only one to change the level, the trackers and *)
(* processedNodes on the way of an event, so handling one event or one     *)
(* batch is a step.  So is everything a callback does before it sends.     *)
(* The observer's batch is the tail of taskStatusChan: events go on in     *)
(* order, one at a time.  statusUpdateChan is in InstanceLifecycle.        *)
(***************************************************************************)
EXTENDS Dag, LeveledTaskQueue, SagaCoordinator, SequencesExt

CONSTANTS
  Main,           \* the tasks of the workflow's DAG
  Sub,            \* the tasks that may be added while the instance runs
  None,           \* no value
  Deps,           \* [Task -> SUBSET Main], GetDependencies
  Template,       \* the main tasks marked as templates
  JobBatch,       \* [Task -> Seq(Sub)], what a task's job function adds
  HandlerBatch,   \* [Task -> Seq(Sub)], what its SUCCESS handler adds
  RetryCount,     \* [Task -> Nat]
  Compensable,    \* the tasks with a compensation function
  MayLackParams,  \* the tasks for which validateAndMapParams may fail
  MayBeRefused,   \* the tasks that the executor may refuse
  MaxConc,        \* MaxConcurrentTask
  EventCap,       \* capacity of the event channels (100 or more in the code)
  StatsCap,       \* capacity of taskStatsChan (the same in the code)
  Breakpoints,    \* {{}}, or the completed tasks of the breakpoints restored
  Signals,        \* the control signals that users send
  MaxSignals      \* bound on their number

Task == Main \cup Sub
Caller == {"job", "handler"} \X Task
Batch(c) == ToSet(IF c[1] = "job" THEN JobBatch[c[2]] ELSE HandlerBatch[c[2]])

ASSUME V2Assumption ==
  /\ IsFiniteSet(Task) /\ Main # {} /\ Main \cap Sub = {}
  /\ None \notin Task \cup Nat \cup [task: Task, ok: BOOLEAN] \cup {"Success", "Failed"}
  /\ Deps \in [Task -> SUBSET Main] /\ ~Cyclic(Main, Deps)
  /\ Template \subseteq Main /\ Compensable \subseteq Task
  /\ JobBatch \in [Task -> Seq(Sub)] /\ HandlerBatch \in [Task -> Seq(Sub)]
  /\ \A c, d \in Caller : c # d => Batch(c) \cap Batch(d) = {}
  /\ RetryCount \in [Task -> Nat]
  /\ MaxConc \in Nat \ {0} /\ EventCap \in Nat \ {0} /\ StatsCap \in Nat
  /\ Breakpoints \subseteq SUBSET Main
  /\ Signals \subseteq {"Pause", "Resume", "Terminate"} /\ MaxSignals \in Nat

VARIABLES
  q,               \* taskQueue and the template counters
  processedNodes, errorKey, taskStatus, retryCount,
  originalLevel,   \* None until the task is queued for the first time
  decremented,     \* templates whose count was taken back
  pendingSubTasks, \* per parent, subtasks waiting for it
  parentOf,        \* per subtask, None until its batch is handled
  tracker,         \* per parent, [ids, completed, ok]
  contextData,     \* per task: None, or the subtask results it aggregates
  wfTasks,         \* the subtasks that are in the workflow
  taskStatusChan, held, queueUpdateChan, addSubTaskChan,
  statsWaiting,    \* task_added updates in taskStatsChan
  statsTorn,       \* the stats goroutine is between two counters
  checkSkipped,    \* the last completion check found torn counters
  totalTasks, finishedTasks,
  toSubmit,        \* taskSubmissionChan and the batch
  exec,            \* per task, where its job and its callback are
  saga, compensating, compensated,
  qpc,             \* where queueManagerGoroutine is
  finalStatus,     \* None until it has decided
  status, stored, taskRow,
  controlChan, cpc, breakpoint, ctxDone, signals

handledVars == <<processedNodes, errorKey, taskStatus, retryCount, originalLevel,
                 decremented, pendingSubTasks, parentOf, tracker, contextData>>
queueVars == <<q, handledVars>>
chanVars  == <<taskStatusChan, held, queueUpdateChan, addSubTaskChan>>
statsVars == <<statsWaiting, statsTorn, totalTasks, finishedTasks>>
sagaVars  == <<saga, compensating, compensated>>
rowVars   == <<status, stored, taskRow>>
ctlVars   == <<controlChan, cpc, breakpoint, ctxDone, signals>>
v2Vars == <<queueVars, wfTasks, chanVars, statsVars, checkSkipped, toSubmit, exec,
            sagaVars, qpc, finalStatus, rowVars, ctlVars>>

SagaEnabled == Compensable \cap Main # {}

-----------------------------------------------------------------------------
(* Start and RestoreFromBreakpoint.                                        *)

\* The queue is filled with every task, the completed ones too.
initTaskQueue == NewQueue(TopologicalSort(Main, Deps), Template)

\* A restored manager counts each task twice, once when it restores and once
\* when it starts; StatsCap is all that taskStatsChan holds.
StatsAfterRestore(done) ==
  Min({StatsCap, Cardinality(Main) * (IF done = {} THEN 1 ELSE 2)})

V2Init ==
  \E done \in Breakpoints :
    /\ q = initTaskQueue
    /\ processedNodes = done
    /\ errorKey = {} /\ decremented = {}
    /\ taskStatus = [t \in Task |-> "PENDING"]
    /\ retryCount = [t \in Task |-> 0]
    /\ originalLevel = [t \in Task |-> IF t \in Main
                          THEN CHOOSE l \in DOMAIN q.queues : t \in q.queues[l]
                          ELSE None]
    /\ pendingSubTasks = [t \in Task |-> {}]
    /\ parentOf = [s \in Sub |-> None]
    /\ tracker = [t \in Task |-> [ids |-> {}, completed |-> 0, ok |-> {}]]
    /\ contextData = [t \in Task |-> IF t \in done THEN {} ELSE None]
    /\ wfTasks = {}
    /\ taskStatusChan = <<>> /\ held = None
    /\ queueUpdateChan = <<>> /\ addSubTaskChan = <<>>
    /\ statsWaiting = StatsAfterRestore(done)
    /\ statsTorn = FALSE /\ checkSkipped = FALSE
    /\ totalTasks = 0 /\ finishedTasks = Cardinality(done)
    /\ toSubmit = {}
    /\ exec = [t \in Task |-> "none"]
    /\ saga = NewSaga /\ compensating = {} /\ compensated = <<>>
    /\ qpc = "select" /\ finalStatus = None
    /\ status = "Running" /\ stored = "Running"
    /\ taskRow = [t \in Main |-> "PENDING"]
    /\ controlChan = <<>> /\ cpc = "select" /\ breakpoint = None
    /\ ctxDone = FALSE /\ signals = 0

-----------------------------------------------------------------------------
(* Levels.                                                                 *)

\* allSubTasksCompleted, for the trackers tr of parents of the level.
allSubTasksCompleted(l, tr) ==
  \A t \in Task : originalLevel[t] = l =>
                    tr[t].completed >= Cardinality(tr[t].ids)

\* Mutant: a level is over although a template has not added its subtasks.
canAdvanceUntold(p, tr) ==
  /\ IsLevelComplete(p, p.level)
  /\ allSubTasksCompleted(p.level, tr)
  /\ p.level <= MaxLevelOf(p)

canAdvanceLevel(p, tr) ==
  /\ IsLevelComplete(p, p.level)
  /\ p.templates <= 0
  /\ allSubTasksCompleted(p.level, tr)
  /\ p.level <= MaxLevelOf(p)

tryAdvanceLevel(p, tr) == IF canAdvanceLevel(p, tr) THEN AdvanceLevel(p) ELSE p

\* The loop of checkAllTasksCompleted.
AdvanceAll(p, tr) ==
  LET pass[i \in 0 .. MaxLevelOf(p)] ==
        IF i = 0 THEN p ELSE tryAdvanceLevel(pass[i - 1], tr)
  IN  pass[MaxLevelOf(p)]

-----------------------------------------------------------------------------
(* handleTaskCompletion.  An event is [task, ok].                          *)

\* decrementTemplateTaskCount: once per parent.
decrementTemplateTaskCount(p, parent) ==
  IF parent \in Template \ decremented /\ p.templates > 0
  THEN [p EXCEPT !.templates = @ - 1,
                 !.counts = [l \in DOMAIN @ |-> IF l = p.level
                                   THEN p.templates - 1 ELSE @[l]]]
  ELSE p

\* A batch S enters the current level of p.
Enqueue(p, parent, S) ==
  /\ q' = decrementTemplateTaskCount(AddTasks(p, p.level, S), parent)
  /\ originalLevel' = [t \in Task |-> IF t \in S THEN p.level ELSE originalLevel[t]]
  /\ decremented' = decremented \cup (Template \cap {parent})

\* Mutant: a failed subtask is not counted as completed.
countSubTaskIfOk(s, ok, ctx) ==
  LET p == parentOf[s]
      tr == [tracker[p] EXCEPT !.completed = @ + (IF ok THEN 1 ELSE 0),
                               !.ok = @ \cup (IF ok THEN {s} ELSE {})] IN
  /\ tracker' = [tracker EXCEPT ![p] = tr]
  /\ contextData' = IF tr.completed >= Cardinality(tr.ids)
                    THEN [ctx EXCEPT ![p] = tr.ok] ELSE ctx

\* handleSubTaskCompletion and handleSubTaskFailure.
countSubTask(s, ok, ctx) ==
  LET p == parentOf[s]
      tr == [tracker[p] EXCEPT !.completed = @ + 1,
                               !.ok = @ \cup (IF ok THEN {s} ELSE {})] IN
  /\ tracker' = [tracker EXCEPT ![p] = tr]
  \* aggregateSubTaskResults once all are in.
  /\ contextData' = IF tr.completed >= Cardinality(tr.ids)
                    THEN [ctx EXCEPT ![p] = tr.ok] ELSE ctx

\* handleTaskSuccess; a template also queues the subtasks that wait for it.
handleTaskSuccess(t, p) ==
  IF t \in processedNodes
  THEN /\ q' = p
       /\ UNCHANGED <<processedNodes, errorKey, taskStatus, retryCount,
                      originalLevel, decremented, pendingSubTasks, parentOf,
                      tracker, contextData, sagaVars>>
  ELSE /\ processedNodes' = processedNodes \cup {t}
       /\ LET ctx == [contextData EXCEPT ![t] = {}] IN
          IF t \in Sub THEN countSubTask(t, TRUE, ctx)
                       ELSE contextData' = ctx /\ UNCHANGED tracker
       /\ IF t \in Template /\ pendingSubTasks[t] # {}
          THEN /\ Enqueue(p, t, pendingSubTasks[t])
               /\ pendingSubTasks' = [pendingSubTasks EXCEPT ![t] = {}]
          ELSE /\ q' = p
               /\ UNCHANGED <<originalLevel, decremented, pendingSubTasks>>
       /\ UNCHANGED <<errorKey, taskStatus, retryCount, parentOf, sagaVars>>

\* The failed attempt goes back to its level.
RetryTask(t, p) ==
  /\ retryCount[t] < RetryCount[t]
  /\ q' = AddTasks(p, IF originalLevel[t] <= p.level THEN originalLevel[t]
                                                     ELSE p.level, {t})
  /\ taskStatus' = [taskStatus EXCEPT ![t] = "PENDING"]
  /\ retryCount' = [retryCount EXCEPT ![t] = @ + 1]
  /\ UNCHANGED <<processedNodes, errorKey, tracker, contextData, sagaVars>>

RecordFailed(t) ==
  /\ saga' = IF SagaEnabled
             THEN MarkStep(AddStep(saga, t, "Failed", t \in Compensable), t, "Failed")
             ELSE saga
  /\ UNCHANGED <<compensating, compensated>>

\* The task has failed for good.  A template gives back its count for the
\* level, but templateTaskCount keeps it.
FailTask(t, p) ==
  /\ retryCount[t] >= RetryCount[t]
  /\ LET p2 == RemoveTask(p, p.level, t) IN
     q' = IF t \in Template THEN [p2 EXCEPT !.counts[p.level] = @ - 1] ELSE p2
  /\ errorKey' = errorKey \cup {t}
  /\ taskStatus' = [taskStatus EXCEPT ![t] = "FAILED"]
  /\ processedNodes' = processedNodes \cup {t}
  /\ RecordFailed(t)
  /\ IF t \in Sub THEN countSubTask(t, FALSE, contextData)
                  ELSE UNCHANGED <<tracker, contextData>>
  /\ UNCHANGED retryCount

handleTaskFailure(t, p) ==
  /\ RetryTask(t, p) \/ FailTask(t, p)
  /\ UNCHANGED <<originalLevel, decremented, pendingSubTasks, parentOf>>

handleTaskCompletion(e) ==
  LET p == TaskCompleted(q, originalLevel[e.task]) IN
  IF e.ok THEN handleTaskSuccess(e.task, p) ELSE handleTaskFailure(e.task, p)

-----------------------------------------------------------------------------
(* queueManagerGoroutine.                                                  *)

QueueEvent ==
  /\ qpc = "select" /\ queueUpdateChan # <<>>
  /\ queueUpdateChan' = Tail(queueUpdateChan)
  /\ handleTaskCompletion(Head(queueUpdateChan))
  /\ qpc' = "check"
  /\ UNCHANGED <<wfTasks, taskStatusChan, held, addSubTaskChan, statsVars,
                 checkSkipped, toSubmit, exec, finalStatus, rowVars, ctlVars>>

\* After an event: tryAdvanceLevel, the rest of taskStatsChan, and the check,
\* which gives up when the counters do not add up.
QueueCheck ==
  /\ qpc = "check"
  /\ totalTasks' = totalTasks + statsWaiting
  /\ statsWaiting' = 0
  /\ checkSkipped' = statsTorn
  /\ LET p == tryAdvanceLevel(q, tracker)
         over == ~statsTorn /\ finishedTasks >= totalTasks' /\ totalTasks' > 0 IN
     /\ q' = IF over THEN AdvanceAll(p, tracker) ELSE p
     /\ qpc' = IF over /\ IsAllTasksCompleted(q') THEN "decide" ELSE "select"
  /\ UNCHANGED <<handledVars, wfTasks, chanVars, statsTorn, finishedTasks,
                 toSubmit, exec, sagaVars, finalStatus, rowVars, ctlVars>>

\* handleAtomicAddSubTasks.  A template's batch may be queued before the event
\* of the template itself is handled, if its status says that it succeeded.
\* tryBatchAddSubTasks comes to nothing: it asks for more than failed here.
QueueAdd ==
  /\ qpc = "select" /\ addSubTaskChan # <<>>
  /\ addSubTaskChan' = Tail(addSubTaskChan)
  /\ LET from == Head(addSubTaskChan)
         parent == from[2]
         S == Batch(from)
         depsProcessed ==
           /\ \/ parent \in processedNodes
              \/ parent \in Template /\ taskStatus[parent] = "SUCCESS"
           /\ \A s \in S : Deps[s] \subseteq processedNodes IN
     /\ parentOf' = [s \in Sub |-> IF s \in S THEN parent ELSE parentOf[s]]
     /\ tracker' = [tracker EXCEPT ![parent].ids = @ \cup S]
     /\ statsWaiting' = Min({StatsCap, statsWaiting + Cardinality(S)})
     /\ IF depsProcessed
        THEN Enqueue(q, parent, S) /\ UNCHANGED pendingSubTasks
        ELSE /\ pendingSubTasks' = [pendingSubTasks EXCEPT ![parent] = @ \cup S]
             /\ UNCHANGED <<q, originalLevel, decremented>>
  /\ qpc' = "advance"
  /\ UNCHANGED <<processedNodes, errorKey, taskStatus, retryCount, contextData,
                 wfTasks, taskStatusChan, held, queueUpdateChan, statsTorn,
                 totalTasks, finishedTasks, checkSkipped, toSubmit, exec,
                 sagaVars, finalStatus, rowVars, ctlVars>>

\* After a batch the level may advance, but nothing checks for the end.
QueueAdvance ==
  /\ qpc = "advance"
  /\ q' = tryAdvanceLevel(q, tracker)
  /\ qpc' = "select"
  /\ UNCHANGED <<handledVars, wfTasks, chanVars, statsVars, checkSkipped,
                 toSubmit, exec, sagaVars, finalStatus, rowVars, ctlVars>>

\* Once the context is done it may leave, and then handles what is left in
\* queueUpdateChan.
QueueDrain ==
  /\ ctxDone /\ qpc \in {"select", "drain"}
  /\ IF queueUpdateChan = <<>>
     THEN /\ qpc' = "returned"
          /\ UNCHANGED <<queueVars, queueUpdateChan, sagaVars>>
     ELSE /\ qpc' = "drain"
          /\ queueUpdateChan' = Tail(queueUpdateChan)
          /\ handleTaskCompletion(Head(queueUpdateChan))
  /\ UNCHANGED <<wfTasks, taskStatusChan, held, addSubTaskChan, statsVars,
                 checkSkipped, toSubmit, exec, finalStatus, rowVars, ctlVars>>

\* Mutant: only the tasks of the workflow's DAG count.
HasFailedMain == \E t \in Main : taskStatus[t] = "FAILED" \/ t \in errorKey

\* hasFailedTask: in the workflow or among the tasks added at run time.
HasFailed == \E t \in Main \cup wfTasks \cup {s \in Sub : parentOf[s] # None} :
               taskStatus[t] = "FAILED" \/ t \in errorKey

\* The end: the status, and the transaction's commit or compensation...
QueueDecide ==
  /\ qpc = "decide"
  /\ finalStatus' = IF HasFailed THEN "Failed" ELSE "Success"
  /\ status' = finalStatus'
  /\ CASE ~SagaEnabled -> UNCHANGED <<saga, compensating>>
       [] SagaEnabled /\ HasFailed  -> /\ saga' = Compensate(saga)
                                       /\ compensating' = ToCompensate(saga)
       [] SagaEnabled /\ ~HasFailed -> /\ saga' = Commit(saga)
                                       /\ UNCHANGED compensating
  /\ qpc' = "save"
  /\ UNCHANGED <<queueVars, wfTasks, chanVars, statsVars, checkSkipped, toSubmit,
                 exec, compensated, stored, taskRow, ctlVars>>

\* saveAllTaskStatuses: the rows of subtasks are not written.
SaveTaskRows == taskRow' = [t \in Main |-> taskStatus[t]]

\* ...the task rows, the instance's row.  Nobody cancels the context.
QueueSave ==
  /\ \/ /\ qpc = "save" /\ qpc' = "store"
        /\ SaveTaskRows
        /\ UNCHANGED stored
     \/ /\ qpc = "store" /\ qpc' = "returned"
        /\ stored' = finalStatus
        /\ UNCHANGED taskRow
  /\ UNCHANGED <<queueVars, wfTasks, chanVars, statsVars, checkSkipped, toSubmit,
                 exec, sagaVars, finalStatus, status, ctlVars>>

\* A compensation that Compensate started runs in its own time.
CompensationRuns ==
  /\ \E i \in compensating : /\ compensating' = compensating \ {i}
                             /\ compensated' = Append(compensated, i)
  /\ UNCHANGED <<queueVars, wfTasks, chanVars, statsVars, checkSkipped, toSubmit,
                 exec, saga, qpc, finalStatus, rowVars, ctlVars>>

-----------------------------------------------------------------------------
(* taskStatsChan.  Besides the queue manager a goroutine of its own takes  *)
(* the updates and raises one counter after the other.                     *)

QueueStats ==
  /\ qpc = "select" /\ statsWaiting > 0
  /\ statsWaiting' = statsWaiting - 1
  /\ totalTasks' = totalTasks + 1
  /\ UNCHANGED <<queueVars, wfTasks, chanVars, statsTorn, finishedTasks,
                 checkSkipped, toSubmit, exec, sagaVars, qpc, finalStatus,
                 rowVars, ctlVars>>

StatsStep ==
  /\ \/ /\ ~statsTorn /\ ~ctxDone /\ statsWaiting > 0
        /\ statsWaiting' = statsWaiting - 1
        /\ totalTasks' = totalTasks + 1
        /\ statsTorn' = TRUE
     \/ /\ statsTorn
        /\ statsTorn' = FALSE
        /\ UNCHANGED <<statsWaiting, totalTasks>>
  /\ UNCHANGED <<queueVars, wfTasks, chanVars, finishedTasks, checkSkipped,
                 toSubmit, exec, sagaVars, qpc, finalStatus, rowVars, ctlVars>>

-----------------------------------------------------------------------------
(* taskObserverGoroutine.                                                  *)

\* processBatch counts the event, a failed attempt as a failed task...
ObserverTake ==
  /\ held = None /\ taskStatusChan # <<>>
  /\ held' = Head(taskStatusChan)
  /\ taskStatusChan' = Tail(taskStatusChan)
  /\ finishedTasks' = finishedTasks + 1
  /\ UNCHANGED <<queueVars, wfTasks, queueUpdateChan, addSubTaskChan,
                 statsWaiting, statsTorn, totalTasks, checkSkipped, toSubmit,
                 exec, sagaVars, qpc, finalStatus, rowVars, ctlVars>>

\* ...and hands it on, or gives up once the context is done.
ObserverSend ==
  /\ held # None
  /\ held' = None
  /\ \/ /\ Len(queueUpdateChan) < EventCap
        /\ queueUpdateChan' = Append(queueUpdateChan, held)
     \/ /\ ctxDone
        /\ UNCHANGED queueUpdateChan
  /\ UNCHANGED <<queueVars, wfTasks, taskStatusChan, addSubTaskChan, statsVars,
                 checkSkipped, toSubmit, exec, sagaVars, qpc, finalStatus,
                 rowVars, ctlVars>>

-----------------------------------------------------------------------------
(* taskSubmissionGoroutine.                                                *)

\* fetchTasksFromQueue: up to MaxConc tasks, however many are running.  A
\* level's queue is a map, so they come in any order.
Fetch ==
  /\ ~ctxDone
  /\ q.level <= MaxLevelOf(q)
  /\ LET waiting == q.queues[q.level] IN
     /\ waiting # {}
     /\ \E S \in kSubset(Min({MaxConc, Cardinality(waiting)}), waiting) :
          /\ q' = PopTasks(q, q.level, S)
          /\ toSubmit' = toSubmit \cup S
  /\ UNCHANGED <<handledVars, wfTasks, chanVars, statsVars, checkSkipped, exec,
                 sagaVars, qpc, finalStatus, rowVars, ctlVars>>

\* checkDependencyFailed: an error that a retry has made good counts too.
DependencyFailed(t) ==
  \E d \in Deps[t] : taskStatus[d] = "FAILED" \/ d \in errorKey

MarkFailed(t) ==
  /\ taskStatus' = [taskStatus EXCEPT ![t] = "FAILED"]
  /\ processedNodes' = processedNodes \cup {t}
  /\ errorKey' = errorKey \cup {t}

\* A task whose dependency failed is reported as failed, if there is room.
Skip(t) ==
  /\ DependencyFailed(t)
  /\ MarkFailed(t)
  /\ taskStatusChan' = IF Len(taskStatusChan) < EventCap
                       THEN Append(taskStatusChan, [task |-> t, ok |-> FALSE])
                       ELSE taskStatusChan
  /\ UNCHANGED <<q, retryCount, exec>>

\* A task without its parameters is dropped: nobody is told.
Drop(t) ==
  /\ ~DependencyFailed(t) /\ t \in MayLackParams
  /\ UNCHANGED <<q, processedNodes, errorKey, taskStatus, retryCount, exec,
                 taskStatusChan>>

Submit(t) ==
  /\ ~DependencyFailed(t)
  /\ taskStatus' = [taskStatus EXCEPT ![t] = "PENDING"]
  /\ exec' = [exec EXCEPT ![t] = "job"]
  /\ UNCHANGED <<q, processedNodes, errorKey, retryCount, taskStatusChan>>

\* SubmitTask refuses the task: it goes back to the queue, or fails without an
\* event; either way it stays counted as running.
Refuse(t) ==
  /\ ~DependencyFailed(t) /\ t \in MayBeRefused
  /\ \/ /\ retryCount[t] < RetryCount[t]
        /\ retryCount' = [retryCount EXCEPT ![t] = @ + 1]
        /\ q' = AddTasks(q, q.level, {t})
        /\ taskStatus' = [taskStatus EXCEPT ![t] = "PENDING"]
        /\ UNCHANGED <<processedNodes, errorKey>>
     \/ /\ retryCount[t] >= RetryCount[t]
        /\ MarkFailed(t)
        /\ LET p == RemoveTask(q, q.level, t) IN
           q' = IF t \in Template THEN [p EXCEPT !.counts[p.level] = @ - 1] ELSE p
        /\ UNCHANGED retryCount
  /\ UNCHANGED <<exec, taskStatusChan>>

\* One task of submitBatch.
SubmitNext ==
  /\ \E t \in toSubmit :
       /\ toSubmit' = toSubmit \ {t}
       /\ Skip(t) \/ Drop(t) \/ Submit(t) \/ Refuse(t)
  /\ UNCHANGED <<originalLevel, decremented, pendingSubTasks, parentOf, tracker,
                 contextData, wfTasks, held, queueUpdateChan, addSubTaskChan,
                 statsVars, checkSkipped, sagaVars, qpc, finalStatus, rowVars,
                 ctlVars>>

-----------------------------------------------------------------------------
(* A task in the executor: its job, then the callback, in one goroutine.   *)
(* exec goes from "job" (or "jobAdded") to "handler" (or "handlerAdded")   *)
(* or "failed", and back to "none" when the event is sent.                 *)

Adding(c) == exec[c[2]] = c[1] /\ Batch(c) # {}
Added(c) == IF c[1] = "job" THEN "jobAdded" ELSE "handlerAdded"

\* AtomicAddSubTasks: into the workflow, then a send that gives up after five
\* seconds or with the context, and takes the subtasks out again.  The second
\* attempt of a job finds the names in use.
AddSubTasks(c) ==
  /\ Adding(c)
  /\ exec' = [exec EXCEPT ![c[2]] = Added(c)]
  /\ \/ /\ Batch(c) \cap wfTasks = {}
        /\ Len(addSubTaskChan) < EventCap
        /\ wfTasks' = wfTasks \cup Batch(c)
        /\ addSubTaskChan' = Append(addSubTaskChan, c)
     \/ /\ \/ Batch(c) \cap wfTasks # {}
           \/ Len(addSubTaskChan) = EventCap
           \/ ctxDone
        /\ UNCHANGED <<wfTasks, addSubTaskChan>>
  /\ UNCHANGED <<queueVars, taskStatusChan, held, queueUpdateChan, statsVars,
                 checkSkipped, toSubmit, sagaVars, qpc, finalStatus, rowVars,
                 ctlVars>>

\* The executor calls OnComplete.  A task that a breakpoint calls completed
\* ends here, without an event.
JobSucceeds(t) ==
  /\ exec[t] \in {"job", "jobAdded"} /\ ~Adding(<<"job", t>>)
  /\ IF t \in processedNodes
     THEN exec' = [exec EXCEPT ![t] = "none"] /\ UNCHANGED taskStatus
     ELSE /\ exec' = [exec EXCEPT ![t] = "handler"]
          /\ taskStatus' = [taskStatus EXCEPT ![t] = "SUCCESS"]
  /\ UNCHANGED <<q, processedNodes, errorKey, retryCount, originalLevel,
                 decremented, pendingSubTasks, parentOf, tracker, contextData,
                 wfTasks, chanVars, statsVars, checkSkipped, toSubmit, sagaVars,
                 qpc, finalStatus, rowVars, ctlVars>>

\* OnError: at any point of the job, or after a timeout.
JobFails(t) ==
  /\ exec[t] \in {"job", "jobAdded"}
  /\ exec' = [exec EXCEPT ![t] = "failed"]
  /\ taskStatus' = [taskStatus EXCEPT ![t] = "FAILED"]
  /\ errorKey' = errorKey \cup {t}
  /\ RecordFailed(t)
  /\ UNCHANGED <<q, processedNodes, retryCount, originalLevel, decremented,
                 pendingSubTasks, parentOf, tracker, contextData, wfTasks,
                 chanVars, statsVars, checkSkipped, toSubmit, qpc, finalStatus,
                 rowVars, ctlVars>>

RecordSuccess(t) ==
  saga' = IF SagaEnabled /\ t \in Compensable
          THEN MarkStep(AddStep(saga, t, "Success", TRUE), t, "Success") ELSE saga

\* An event waits for room, or is given up with the context.
Report(e) ==
  \/ /\ Len(taskStatusChan) < EventCap
     /\ taskStatusChan' = Append(taskStatusChan, e)
  \/ /\ ctxDone
     /\ UNCHANGED taskStatusChan

\* The last step of both callbacks.
CallbackSends(t) ==
  /\ exec[t] \in {"handler", "handlerAdded", "failed"}
  /\ ~Adding(<<"handler", t>>)
  /\ exec' = [exec EXCEPT ![t] = "none"]
  /\ IF exec[t] = "failed" THEN UNCHANGED saga ELSE RecordSuccess(t)
  /\ Report([task |-> t, ok |-> exec[t] # "failed"])
  /\ UNCHANGED <<queueVars, wfTasks, held, queueUpdateChan, addSubTaskChan,
                 statsVars, checkSkipped, toSubmit, compensating, compensated,
                 qpc, finalStatus, rowVars, ctlVars>>

-----------------------------------------------------------------------------
(* controlSignalGoroutine.                                                 *)

SendSignal ==
  /\ signals < MaxSignals
  /\ signals' = signals + 1
  /\ \E s \in Signals : controlChan' = Append(controlChan, s)
  /\ UNCHANGED <<queueVars, wfTasks, chanVars, statsVars, checkSkipped, toSubmit,
                 exec, sagaVars, qpc, finalStatus, rowVars, cpc, breakpoint,
                 ctxDone>>

\* handlePause, handleResume and handleTerminate set the status...
ControlReceive ==
  /\ cpc = "select" /\ controlChan # <<>>
  /\ controlChan' = Tail(controlChan)
  /\ cpc' = Head(controlChan)
  /\ status' = CASE cpc' = "Pause" -> "Paused" [] cpc' = "Resume" -> "Running"
                 [] cpc' = "Terminate" -> "Terminated"
  /\ UNCHANGED <<queueVars, wfTasks, chanVars, statsVars, checkSkipped, toSubmit,
                 exec, sagaVars, qpc, finalStatus, stored, taskRow, breakpoint,
                 ctxDone, signals>>

\* What is processed at some time while the queue goes on.
CreateBreakpoint == processedNodes

\* ...then store.  A pause stops nothing; a termination cancels the context.
ControlStore ==
  /\ cpc \in {"Pause", "Resume", "Terminate"}
  /\ cpc' = "select"
  /\ stored' = CASE cpc = "Pause" -> "Paused" [] cpc = "Resume" -> "Running"
                 [] cpc = "Terminate" -> "Terminated"
  /\ IF cpc = "Resume" THEN UNCHANGED taskRow ELSE SaveTaskRows
  /\ breakpoint' = IF cpc = "Pause" THEN CreateBreakpoint ELSE breakpoint
  /\ ctxDone' = (ctxDone \/ cpc = "Terminate")
  /\ UNCHANGED <<queueVars, wfTasks, chanVars, statsVars, checkSkipped, toSubmit,
                 exec, sagaVars, qpc, finalStatus, status, controlChan, signals>>

ControlExit ==
  /\ cpc = "select" /\ ctxDone
  /\ cpc' = "returned"
  /\ UNCHANGED <<queueVars, wfTasks, chanVars, statsVars, checkSkipped, toSubmit,
                 exec, sagaVars, qpc, finalStatus, rowVars, controlChan,
                 breakpoint, ctxDone, signals>>

-----------------------------------------------------------------------------
QueueStep == QueueEvent \/ QueueCheck \/ QueueAdvance \/ QueueDrain
               \/ QueueDecide \/ QueueSave

V2Next ==
  \/ QueueStep \/ QueueAdd \/ QueueStats \/ StatsStep
  \/ CompensationRuns
  \/ ObserverTake \/ ObserverSend
  \/ Fetch \/ SubmitNext
  \/ \E c \in Caller : AddSubTasks(c)
  \/ \E t \in Task : JobSucceeds(t) \/ JobFails(t) \/ CallbackSends(t)
  \/ SendSignal \/ ControlReceive \/ ControlStore \/ ControlExit

V2Spec == V2Init /\ [][V2Next]_v2Vars

\* Goroutines run; a select that is entered again and again takes each of its
\* ready branches in the end; jobs and compensations end.  With the context
\* done the observer and the submission may be gone.  Users promise nothing.
V2Fairness ==
  /\ WF_v2Vars(QueueStep) /\ SF_v2Vars(QueueAdd)
  /\ WF_v2Vars(StatsStep) /\ WF_v2Vars(CompensationRuns)
  /\ WF_v2Vars(~ctxDone /\ ObserverTake) /\ WF_v2Vars(ObserverSend)
  /\ WF_v2Vars(Fetch) /\ WF_v2Vars(~ctxDone /\ SubmitNext)
  /\ \A c \in Caller : WF_v2Vars(AddSubTasks(c))
  /\ \A t \in Task : WF_v2Vars(JobSucceeds(t) \/ JobFails(t) \/ CallbackSends(t))
  /\ WF_v2Vars(ControlReceive \/ ControlStore \/ ControlExit)

V2FairSpec == V2Spec /\ V2Fairness
-----------------------------------------------------------------------------
(* Properties.                                                             *)

Event == [task: Task, ok: BOOLEAN]
Stage == {"none", "job", "jobAdded", "handler", "handlerAdded", "failed"}

\* Types, and the bounds of the channels.
V2TypeOK ==
  /\ q.level \in 1 .. MaxLevelOf(q) + 1
  /\ \A l \in DOMAIN q.queues : q.queues[l] \subseteq Task /\ q.running[l] \in Int
  /\ processedNodes \subseteq Task /\ errorKey \subseteq Task
  /\ taskStatus \in [Task -> {"PENDING", "SUCCESS", "FAILED"}]
  /\ \A t \in Task : retryCount[t] \in 0 .. RetryCount[t]
  /\ contextData \in [Task -> {None} \cup SUBSET Sub]
  /\ wfTasks \subseteq Sub
  /\ Len(taskStatusChan) <= EventCap /\ Len(queueUpdateChan) <= EventCap
  /\ Len(addSubTaskChan) <= EventCap /\ held \in Event \cup {None}
  /\ statsWaiting \in Nat /\ totalTasks \in Nat /\ finishedTasks \in Nat
  /\ toSubmit \subseteq Task /\ exec \in [Task -> Stage]
  /\ saga.state \in SagaState
  /\ status \in {"Running", "Paused", "Terminated", "Success", "Failed"}

\* What was popped at a level and whose event is not handled yet.
InChan(ch, t) == \E i \in DOMAIN ch : ch[i].task = t
Outstanding(l) ==
  {t \in Task : /\ originalLevel[t] = l
                /\ \/ t \in toSubmit \/ exec[t] # "none"
                   \/ InChan(taskStatusChan, t) \/ InChan(queueUpdateChan, t)
                   \/ held # None /\ held.task = t}

\* runningCounts, raised by the submission and lowered by the queue manager on
\* the other side of the executor and two channels, never misses a task that
\* is under way, be it retried, skipped or refused: the level cannot advance
\* under it.
RunningNeverTooLow ==
  \A l \in DOMAIN q.queues : q.running[l] >= Cardinality(Outstanding(l))

\* templateTaskCount, lowered by a batch, a late success or not at all, is the
\* number of templates of the level whose subtasks are still to come.
TemplateCountExact ==
  q.level <= MaxLevelOf(q) =>
    q.templates = Cardinality({t \in Template \ decremented :
                                 originalLevel[t] = q.level})

\* Types, and both counters that keep a level from advancing.
V2Inv == V2TypeOK /\ RunningNeverTooLow /\ TemplateCountExact

\* A subtask that waits for more than its parent stays pending when its batch
\* comes after the level is left: no later event looks at it.
HeldBack(s) == /\ s \in pendingSubTasks[parentOf[s]]
               /\ \E u \in Sub : parentOf[u] = parentOf[s] /\ Deps[u] # {}

\* An instance that ends as Success ran every task, and every subtask that is
\* not held back, to success, and its task rows say so.
SuccessIsWhole ==
  finalStatus = "Success" =>
    /\ \A t \in Main \cup {s \in wfTasks : parentOf[s] # None /\ ~HeldBack(s)} :
         taskStatus[t] = "SUCCESS"
    /\ stored = "Success" => \A t \in Main : taskRow[t] = "SUCCESS"

\* A failed instance compensates exactly the tasks that succeeded and can be
\* compensated, although a retry leaves several steps of the same task; a
\* successful one commits.
Compensated == {saga.steps[i].task : i \in compensating \cup ToSet(compensated)}
FailureCompensates ==
  SagaEnabled /\ finalStatus # None =>
    IF finalStatus = "Success" THEN saga.state = "Committed" /\ Compensated = {}
    ELSE Compensated = {t \in Compensable : taskStatus[t] = "SUCCESS"}

\* Both: the final status, the task rows and the transaction tell one story.
OutcomeIsWhole == SuccessIsWhole /\ FailureCompensates

\* The manager implements LevelExecution, when a template adds one batch and
\* subtasks wait for their parent alone.
Levels == TopologicalSort(Main, Deps)
LevelRun == INSTANCE LevelExecution WITH
  level <- q.level, finished <- processedNodes, under <- parentOf,
  LevelOf <- [t \in Main |-> CHOOSE l \in DOMAIN Levels : t \in Levels[l]],
  LastLevel <- Len(Levels)
ImplementsLevels == LevelRun!Spec

\* The tasks of which no event will tell, for all four reasons there are: the
\* parameters were missing, the executor refused, a breakpoint had it as
\* completed, the event of a skipped task found the channel full.
Unreported(t) ==
  \/ t \in MayLackParams \ processedNodes
  \/ t \in MayBeRefused /\ (t \in errorKey \/ retryCount[t] > 0)
  \/ t \in processedNodes /\ taskStatus[t] = "PENDING"
  \/ DependencyFailed(t)

\* The states from which the code has no way on: a level that counts such a
\* task as running, a template that failed or added nothing, subtasks of a
\* parent that is no template, a last check that met torn counters.
Stuck ==
  \/ \E t \in Main : /\ Unreported(t)
                     /\ LET l == originalLevel[t] IN
                        q.running[l] > Cardinality(Outstanding(l))
  \/ \E t \in Template \ decremented : t \in processedNodes
  \/ \E t \in Task \ Template : pendingSubTasks[t] # {}
  \/ checkSkipped

\* Otherwise an instance ends, whatever fails and however often.  Every one
\* of the exceptions leaves it Running for ever.
EndsUnlessStuck == <>(qpc = "returned" \/ Stuck)

\* A termination reaches every goroutine that a send could hold up.
TerminationStopsAll ==
  ctxDone ~> /\ qpc = "returned" /\ cpc = "returned"
             /\ \A t \in Task : exec[t] = "none"

\* Both: no goroutine of the instance is left behind.
V2Ends == EndsUnlessStuck /\ TerminationStopsAll
=============================================================================
