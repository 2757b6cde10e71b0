--------------------------- MODULE InstanceManagerV1 ---------------------------
(***************************************************************************)
(* WorkflowInstanceManager (pkg/core/engine/instance_manager.go), the      *)
(* oldest batch manager.  A submission loop polls a set of ready tasks;    *)
(* the executor's callbacks, in goroutines of their own, fill it.  Nothing *)
(* but the set is locked: processedNodes, contextData and the statuses are *)
(* read and written in between.  Both the loop and the control goroutine   *)
(* take signals from the one channel, and a Resume starts one more loop.   *)
(*                                                                         *)
(* A run is one execution of a task: its job, then the callback, in steps  *)
(* that other goroutines may come between.  A task may have several runs,  *)
(* so runs[t] counts those in every stage.                                 *)
(***************************************************************************)
EXTENDS Integers, SequencesExt

CONSTANTS
  Main,           \* the tasks of the workflow's DAG
  Sub,            \* the tasks that may be added while the instance runs
  Deps,           \* [Task -> SUBSET Main], GetDependencies
  Needs,          \* [Task -> SUBSET Main], whose results give required params
  Template,       \* the main tasks marked as templates
  JobBatch,       \* [Task -> Seq(Sub)], what a task's job function adds
  HandlerBatch,   \* [Task -> Seq(Sub)], what its SUCCESS handler adds
  Tolerance,      \* SubTaskErrorTolerance, in percent
  MayBeRefused,   \* the tasks that the executor may refuse
  Breakpoints,    \* {{}}, or the completed tasks of the breakpoints restored
  MaxLoops,       \* bound on the submission loops
  MaxRecoveries,  \* [BOOLEAN -> Nat], bound on the tasks that recoverPendingTasks
                  \* brings back, in a fresh and in a restored instance
  Signals,        \* the control signals that users send
  MaxSignals      \* [BOOLEAN -> Nat], bound on their number, likewise

Task == Main \cup Sub
Loop == 1 .. MaxLoops
Batch(t) == ToSet(JobBatch[t]) \cup ToSet(HandlerBatch[t])

\* The stages of a run.  "marked" is past processedNodes, "told" is past the
\* children; what is left is the result, or the instance's failure.
Stage == {"job", "jobAdded", "marked", "handlerAdded", "told",
          "failed", "failedTold"}

ASSUME V1Assumption ==
  /\ IsFiniteSet(Task) /\ Main \cap Sub = {}
  /\ Deps \in [Task -> SUBSET Main] /\ Needs \in [Task -> SUBSET Main]
  /\ \A t \in Task : Needs[t] \subseteq Deps[t]
  /\ Template \subseteq Main /\ Tolerance \in 0 .. 100
  /\ JobBatch \in [Task -> Seq(Sub)] /\ HandlerBatch \in [Task -> Seq(Sub)]
  /\ \A t, u \in Task : t # u => Batch(t) \cap Batch(u) = {}
  /\ MayBeRefused \subseteq Task /\ Breakpoints \subseteq SUBSET Main
  /\ MaxLoops \in Nat \ {0}
  /\ MaxRecoveries \in [BOOLEAN -> Nat] /\ MaxSignals \in [BOOLEAN -> Nat]
  /\ Signals \subseteq {"Pause", "Resume", "Terminate"}

VARIABLES
  ready,           \* readyTasksSet
  processedNodes, errorKey, taskStatus,
  results,         \* the tasks whose result is in contextData
  parents,         \* [Task -> SUBSET Task], the edges of the DAG
  wfTasks,         \* the tasks of the workflow
  stats,           \* parentSubTaskStats
  runs,            \* [Task -> [Stage -> Nat]]
  loop,            \* [Loop -> [pc, batch]]
  recovered,       \* how many tasks recoverPendingTasks has brought back
  restored,        \* the instance comes from a breakpoint
  status, stored,  \* the instance's status and its row
  taskRow,         \* the rows of the main tasks
  controlChan, cpc, ctxDone, signals

taskVars == <<ready, processedNodes, errorKey, taskStatus, results, stats>>
dagVars  == <<parents, wfTasks>>
loopVars == <<loop, recovered>>
ctlVars  == <<controlChan, cpc, ctxDone, signals>>
rowVars  == <<status, stored, taskRow>>
v1Vars == <<taskVars, dagVars, runs, loopVars, restored, rowVars, ctlVars>>

-----------------------------------------------------------------------------
(* NewWorkflowInstanceManager and Start, with or without a breakpoint.     *)

\* Only roots are made ready.
initReadyTasksSet(done) == {t \in Main \ done : Deps[t] = {}}

\* The rest of the ready set is left to recoverPendingTasks.
RestoreFromBreakpoint(done) ==
  /\ processedNodes = done /\ results = done
  /\ restored = (done # {})
  /\ ready = initReadyTasksSet(done)

V1Init ==
  \E done \in Breakpoints :
    /\ RestoreFromBreakpoint(done)
    /\ errorKey = {}
    /\ taskStatus = [t \in Task |-> "PENDING"]
    /\ parents = [t \in Task |-> IF t \in Main THEN Deps[t] ELSE {}]
    /\ wfTasks = Main
    /\ stats = [t \in Task |-> [total |-> 0, completed |-> 0, success |-> 0]]
    /\ runs = [t \in Task |-> [g \in Stage |-> 0]]
    /\ loop = [i \in Loop |-> [pc |-> IF i = 1 THEN "top" ELSE "unborn",
                               batch |-> {}]]
    /\ recovered = 0
    /\ status = "Running" /\ stored = "Running"
    /\ taskRow = [t \in Main |-> IF t \in done THEN "SUCCESS" ELSE "PENDING"]
    /\ controlChan = <<>> /\ cpc = "select" /\ ctxDone = FALSE /\ signals = 0

Children(t) == {u \in Task : t \in parents[u]}

\* A run of t goes from stage g to stage h.
Move(t, g, h) ==
  /\ runs[t][g] > 0
  /\ runs' = [runs EXCEPT ![t][g] = @ - 1, ![t][h] = @ + 1]

End(t, g) ==
  /\ runs[t][g] > 0
  /\ runs' = [runs EXCEPT ![t][g] = @ - 1]

-----------------------------------------------------------------------------
(* The ready set.                                                          *)

\* checkAndAddToReady for every child of t.  It may bring back a child that
\* was submitted and taken out of the set already.
NewlyReady(t, rdy, processed) ==
  {c \in Children(t) \ rdy : parents[c] \subseteq processed}

ParentOf(t) == CHOOSE p \in parents[t] : TRUE

\* checkParentTaskStatus settles the parent of t when, with the statistics st,
\* all its subtasks are in; but only a parent that was submitted again is
\* without a final status at that time.
ParentSettled(t, st) ==
  /\ t \in Sub
  /\ LET p == ParentOf(t) IN
     /\ taskStatus[p] \notin {"SUCCESS", "FAILED"}
     /\ st[p].total > 0 /\ st[p].completed >= st[p].total

ParentStatus(t, st) ==
  LET p == ParentOf(t) IN
  IF ~ParentSettled(t, st) THEN taskStatus
  ELSE [taskStatus EXCEPT ![p] =
          IF 100 * (st[p].total - st[p].success) <= Tolerance * st[p].total
          THEN "SUCCESS" ELSE "FAILED"]

\* Mutant: only a success is counted as completed.
CountedIfOk(t, ok) ==
  IF t \in Sub
  THEN [stats EXCEPT ![ParentOf(t)].completed = @ + (IF ok THEN 1 ELSE 0),
                     ![ParentOf(t)].success = @ + 1]
  ELSE stats

\* updateParentSubTaskStats.
Counted(t, ok) ==
  IF t \in Sub
  THEN [stats EXCEPT ![ParentOf(t)].completed = @ + 1,
                     ![ParentOf(t)].success = @ + (IF ok THEN 1 ELSE 0)]
  ELSE stats

\* t leaves the ready set and its children may enter it.
Told(t, rdy, processed) == LET r == rdy \ {t} IN r \cup NewlyReady(t, r, processed)

\* onTaskCompleted, which tells the children of a settled parent too.
TaskCompleted(t, ok) ==
  /\ stats' = Counted(t, ok)
  /\ taskStatus' = ParentStatus(t, stats')
  /\ ready' = LET r == Told(t, ready, processedNodes) IN
              IF ParentSettled(t, stats') THEN Told(ParentOf(t), r, processedNodes)
                                          ELSE r

-----------------------------------------------------------------------------
(* taskSubmissionGoroutine.                                                *)

At(i, pc) == loop[i].pc = pc
Goto(i, pc) == loop' = [loop EXCEPT ![i].pc = pc]

\* Mutant: a task is available before the results it needs are there.
AvailableUnchecked == ready \ processedNodes

\* getAvailableTasks: required params come from results in contextData.
Available == {t \in ready \ processedNodes : Needs[t] \subseteq results}

\* Mutant: processed subtasks are not counted, the workflow's are.
isAllMainTasksCompleted ==
  /\ Cardinality(processedNodes \cap Main) >= Cardinality(wfTasks)
  /\ ready \subseteq processedNodes

isAllTasksCompleted ==
  /\ Cardinality(processedNodes) >= Cardinality(wfTasks)
  /\ ready \subseteq processedNodes

\* A signal that the loop takes is not handled: Resume is lost, and a Pause or
\* a Terminate ends the loop and nothing else.
LoopTakesSignal(i) ==
  /\ At(i, "top") /\ ~ctxDone /\ controlChan # <<>>
  /\ controlChan' = Tail(controlChan)
  /\ Goto(i, IF Head(controlChan) = "Resume" THEN "top" ELSE "returned")
  /\ UNCHANGED <<taskVars, dagVars, runs, recovered, restored, rowVars, cpc,
                 ctxDone, signals>>

LoopPoll(i) ==
  /\ At(i, "top")
  /\ ctxDone \/ controlChan = <<>>
  /\ loop' = [loop EXCEPT ![i] =
               IF ctxDone THEN [pc |-> "returned", batch |-> {}]
               ELSE [pc |-> IF Available = {} THEN "idle" ELSE "work",
                     batch |-> Available]]
  /\ UNCHANGED <<taskVars, dagVars, runs, recovered, restored, rowVars, ctlVars>>

\* recoverPendingTasks: a row is Pending while the task runs, so that a running
\* task comes back too.  The rows it looks at are those of main tasks.
Recoverable ==
  {t \in Main \ (ready \cup processedNodes) :
     taskRow[t] = "PENDING" /\ Deps[t] \subseteq processedNodes}

\* Half a second later: up to MaxRecoveries[restored] tasks are brought back in all.
LoopIdle(i) ==
  /\ At(i, "idle")
  /\ \E R \in SUBSET Recoverable :
       /\ IF Available # {} \/ isAllTasksCompleted THEN R = {}
          ELSE \/ R = Recoverable
               \/ recovered + Cardinality(R) = MaxRecoveries[restored]
       /\ recovered + Cardinality(R) <= MaxRecoveries[restored]
       /\ ready' = ready \cup R
       /\ recovered' = recovered + Cardinality(R)
  /\ Goto(i, IF \E t \in ready' \ processedNodes : Needs[t] \subseteq results
             THEN "top" ELSE "check")
  /\ UNCHANGED <<processedNodes, errorKey, taskStatus, results, stats, dagVars,
                 runs, restored, rowVars, ctlVars>>

\* The end is always a Success, whatever failed.
LoopCheck(i) ==
  /\ At(i, "check")
  /\ IF isAllTasksCompleted
     THEN Goto(i, "save") /\ status' = "Success"
     ELSE Goto(i, "top") /\ UNCHANGED status
  /\ UNCHANGED <<taskVars, dagVars, runs, recovered, restored, stored, taskRow,
                 ctlVars>>

\* saveAllTaskStatuses leaves subtasks out.
SaveTaskRows == taskRow' = [t \in Main |-> taskStatus[t]]

LoopSave(i) ==
  /\ At(i, "save") /\ Goto(i, "returned")
  /\ SaveTaskRows
  /\ stored' = "Success"
  /\ UNCHANGED <<taskVars, dagVars, runs, recovered, restored, status, ctlVars>>

-----------------------------------------------------------------------------
(* One task of the batch.                                                  *)

Done(i, t) == loop' = [loop EXCEPT ![i].batch = @ \ {t}]

ForgetProcessed(i, t) ==
  /\ t \in processedNodes
  /\ ready' = ready \ {t}
  /\ UNCHANGED <<processedNodes, errorKey, taskStatus, stats, runs>>

FailedDependency(t) ==
  \E d \in Deps[t] : taskStatus[d] = "FAILED" \/ d \in errorKey

\* Mutant: the children are told before the task is marked.
EndWithoutRunToldFirst(t, st) ==
  /\ processedNodes' = processedNodes \cup {t}
  /\ taskStatus' = [ParentStatus(t, stats) EXCEPT ![t] = st]
  /\ ready' = Told(t, ready, processedNodes)
  /\ UNCHANGED <<stats, runs>>

\* Without a run the children are told at once.
EndWithoutRun(t, st) ==
  /\ processedNodes' = processedNodes \cup {t}
  /\ taskStatus' = [ParentStatus(t, stats) EXCEPT ![t] = st]
  /\ ready' = Told(t, ready, processedNodes')
  /\ UNCHANGED <<stats, runs>>

Skip(i, t) ==
  /\ t \notin processedNodes /\ FailedDependency(t)
  /\ errorKey' = errorKey \cup {t}
  /\ EndWithoutRun(t, "FAILED")

\* A template's job function is not run.
CompleteTemplate(i, t) ==
  /\ t \in Template \ processedNodes /\ ~FailedDependency(t)
  /\ EndWithoutRun(t, "SUCCESS")
  /\ UNCHANGED errorKey

Submit(i, t) ==
  /\ t \notin processedNodes \cup Template /\ ~FailedDependency(t)
  /\ taskStatus' = [taskStatus EXCEPT ![t] = "PENDING"]
  /\ \/ /\ runs' = [runs EXCEPT ![t]["job"] = @ + 1]
        /\ ready' = ready \ {t}
     \/ /\ t \in MayBeRefused
        /\ ready' = ready \cup {t}
        /\ UNCHANGED runs
  /\ UNCHANGED <<processedNodes, errorKey, stats>>

LoopWork(i) ==
  /\ At(i, "work")
  /\ IF loop[i].batch = {}
     THEN Goto(i, "top") /\ UNCHANGED <<taskVars, runs>>
     ELSE \E t \in loop[i].batch :
            /\ Done(i, t)
            /\ \/ ForgetProcessed(i, t) \/ Skip(i, t)
               \/ CompleteTemplate(i, t) \/ Submit(i, t)
            /\ UNCHANGED results
  /\ UNCHANGED <<dagVars, recovered, restored, rowVars, ctlVars>>

-----------------------------------------------------------------------------
(* A run.                                                                  *)

Adding(t, g) == ~(IF g = "job" THEN JobBatch[t] = <<>> ELSE HandlerBatch[t] = <<>>)

\* What AddSubTask does for one subtask, and AtomicAddSubTasks for several.  The
\* children of the parent do not come to depend on the subtasks: the DAG keeps
\* the old edges and only the workflow's record of them is changed.
AddSubTask(t, S) ==
  /\ wfTasks' = wfTasks \cup S
  /\ parents' = [u \in Task |-> IF u \in S THEN {t} ELSE parents[u]]
  /\ stats' = [stats EXCEPT ![t].total = @ + Cardinality(S)]
  /\ ready' = IF /\ t \in processedNodes
                 /\ \A s \in S : Deps[s] \subseteq processedNodes
              THEN ready \cup S ELSE ready

\* Nothing is added twice: names are in use.
AddSubTasks(t, g) ==
  /\ g \in {"job", "marked"} /\ Adding(t, g)
  /\ Move(t, g, IF g = "job" THEN "jobAdded" ELSE "handlerAdded")
  /\ LET S == ToSet(IF g = "job" THEN JobBatch[t] ELSE HandlerBatch[t]) IN
     IF S \cap wfTasks # {}
     THEN UNCHANGED <<wfTasks, parents, stats, ready>>
     ELSE AddSubTask(t, S)
  /\ UNCHANGED <<processedNodes, errorKey, taskStatus, results, loopVars, restored,
                 rowVars, ctlVars>>

\* The complete handler: first the status and processedNodes...
RunSucceeds(t, g) ==
  /\ g = "jobAdded" \/ (g = "job" /\ ~Adding(t, "job"))
  /\ Move(t, g, "marked")
  /\ taskStatus' = [taskStatus EXCEPT ![t] = "SUCCESS"]
  /\ processedNodes' = processedNodes \cup {t}
  /\ UNCHANGED <<ready, errorKey, results, stats, dagVars, loopVars, restored,
                 rowVars, ctlVars>>

\* ...then the status handlers, and then the children...
RunTells(t, g) ==
  /\ \/ g = "handlerAdded" /\ Move(t, g, "told") /\ TaskCompleted(t, TRUE)
     \/ g = "marked" /\ ~Adding(t, g) /\ Move(t, g, "told") /\ TaskCompleted(t, TRUE)
     \/ g = "failed" /\ Move(t, g, "failedTold") /\ TaskCompleted(t, FALSE)
  /\ UNCHANGED <<processedNodes, errorKey, results, dagVars, loopVars, restored,
                 rowVars, ctlVars>>

\* ...and last the result.
RunEnds(t) ==
  /\ End(t, "told")
  /\ results' = results \cup {t}
  /\ UNCHANGED <<ready, processedNodes, errorKey, taskStatus, stats, dagVars,
                 loopVars, restored, rowVars, ctlVars>>

\* The error handler.
RunFails(t, g) ==
  /\ g \in {"job", "jobAdded"}
  /\ Move(t, g, "failed")
  /\ errorKey' = errorKey \cup {t}
  /\ taskStatus' = [taskStatus EXCEPT ![t] = "FAILED"]
  /\ processedNodes' = processedNodes \cup {t}
  /\ UNCHANGED <<ready, results, stats, dagVars, loopVars, restored, rowVars, ctlVars>>

\* The instance is Failed, and the loops go on.  How a row may lag behind the
\* status is in InstanceLifecycle.
RunFailsInstance(t) ==
  /\ End(t, "failedTold")
  /\ status' = "Failed"
  /\ stored' = "Failed"
  /\ SaveTaskRows
  /\ UNCHANGED <<taskVars, dagVars, loopVars, restored, ctlVars>>

-----------------------------------------------------------------------------
(* controlSignalGoroutine, when a loop has not taken the signal.           *)

SendSignal ==
  /\ signals < MaxSignals[restored]
  /\ signals' = signals + 1
  /\ \E s \in Signals : controlChan' = Append(controlChan, s)
  /\ UNCHANGED <<taskVars, dagVars, runs, loopVars, restored, rowVars, cpc, ctxDone>>

StatusOf(s) == CASE s = "Pause" -> "Paused" [] s = "Resume" -> "Running"
                 [] s = "Terminate" -> "Terminated"

ControlReceive ==
  /\ cpc = "select" /\ controlChan # <<>>
  /\ controlChan' = Tail(controlChan)
  /\ cpc' = Head(controlChan)
  /\ status' = StatusOf(cpc')
  /\ UNCHANGED <<taskVars, dagVars, runs, loopVars, restored, stored, taskRow,
                 ctxDone, signals>>

\* A Resume starts a loop, whether or not another one still runs.
ControlStore ==
  /\ cpc \in {"Pause", "Resume", "Terminate"}
  /\ cpc' = "select"
  /\ stored' = StatusOf(cpc)
  /\ IF cpc = "Resume" THEN UNCHANGED taskRow ELSE SaveTaskRows
  /\ IF cpc = "Resume"
     THEN \E i \in Loop : At(i, "unborn") /\ Goto(i, "top")
     ELSE UNCHANGED loop
  /\ ctxDone' = (ctxDone \/ cpc = "Terminate")
  /\ UNCHANGED <<taskVars, dagVars, runs, recovered, restored, status, controlChan,
                 signals>>

ControlExit ==
  /\ cpc = "select" /\ ctxDone
  /\ cpc' = "returned"
  /\ UNCHANGED <<taskVars, dagVars, runs, loopVars, restored, rowVars, controlChan,
                 ctxDone, signals>>

-----------------------------------------------------------------------------
LoopStep(i) ==
  LoopTakesSignal(i) \/ LoopPoll(i) \/ LoopIdle(i)
    \/ LoopCheck(i) \/ LoopSave(i) \/ LoopWork(i)

RunStep(t) ==
  \/ \E g \in Stage : AddSubTasks(t, g) \/ RunSucceeds(t, g) \/ RunTells(t, g)
                        \/ RunFails(t, g)
  \/ RunEnds(t) \/ RunFailsInstance(t)

V1Next ==
  \/ \E i \in Loop : LoopStep(i)
  \/ \E t \in Task : RunStep(t)
  \/ SendSignal \/ ControlReceive \/ ControlStore \/ ControlExit

V1Spec == V1Init /\ [][V1Next]_v1Vars

\* Goroutines run, and jobs end.  The two receivers of a signal may each lose
\* it to the other.  The executor does not refuse a task for ever.
V1Fairness ==
  /\ \A i \in Loop : WF_v1Vars(LoopStep(i))
  /\ \A t \in Task : WF_v1Vars(RunStep(t))
  /\ \A t \in MayBeRefused, i \in Loop :
       SF_v1Vars(LoopWork(i) /\ runs'[t]["job"] > runs[t]["job"])
  /\ WF_v1Vars(ControlReceive \/ ControlStore \/ ControlExit)

V1FairSpec == V1Spec /\ V1Fairness
-----------------------------------------------------------------------------
(* Properties.                                                             *)

RunsIn(t, G) == \E g \in G : runs[t][g] > 0

\* Types.
V1TypeOK ==
  /\ ready \cup processedNodes \cup errorKey \cup results \subseteq Task
  /\ taskStatus \in [Task -> {"PENDING", "SUCCESS", "FAILED"}]
  /\ wfTasks \subseteq Task /\ parents \in [Task -> SUBSET Task]
  /\ \A t \in Task, g \in Stage : runs[t][g] \in Nat
  /\ \A i \in Loop : loop[i].batch \subseteq Task
  /\ recovered \in 0 .. MaxRecoveries[restored]
  /\ status \in {"Running", "Paused", "Terminated", "Success", "Failed"}

\* However often a task is submitted, by two callbacks, two loops or the
\* recovery, every dependency has succeeded before, and the results that give
\* it its required parameters are stored, although a dependency counts as
\* processed long before that.  (A subtask waits for its parent alone in the
\* graph: it would not wait for dependencies of its own.)
RunsAfterSuccess ==
  \A t \in Task : RunsIn(t, {"job", "jobAdded"}) =>
    /\ Needs[t] \subseteq results
    /\ \A d \in Deps[t] : \/ d \in Template /\ taskStatus[d] = "SUCCESS"
                          \/ d \in results
                          \/ RunsIn(d, {"marked", "handlerAdded", "told"})

\* The callbacks of two parents of a task race to make it ready, with no lock
\* around the mark and the check: a task whose parents are all processed is
\* never forgotten, as long as no run of a parent is left that will tell its
\* children.  (After a breakpoint it is left to the recovery.)
NoWakeupLost ==
  restored \/
    \A t \in wfTasks \ processedNodes : parents[t] \subseteq processedNodes =>
      \/ t \in ready \/ \E i \in Loop : t \in loop[i].batch
      \/ RunsIn(t, {"job", "jobAdded"})
      \/ \E p \in parents[t] : RunsIn(p, Stage \ {"job", "told", "failedTold"})

\* The statistics of a parent count every subtask it has, and every one that
\* is processed and has told its parent, once or more often.
StatsCover ==
  \A p \in Task :
    LET S == {s \in Sub : p \in parents[s]} IN
    /\ stats[p].total = Cardinality(S)
    /\ stats[p].success <= stats[p].completed
    /\ stats[p].completed >=
         Cardinality({s \in (S \cap processedNodes) \ errorKey :
                        ~RunsIn(s, {"marked", "handlerAdded"})})

\* Types and statistics.
V1Inv == V1TypeOK /\ StatsCover

\* A task whose required result will never be there keeps the loop polling:
\* its dependency failed, and the check of parameters comes before the one
\* that would skip it.
Starved ==
  \E t \in ready \ processedNodes :
    \E d \in Needs[t] : d \in processedNodes \ results /\ d \in errorKey \cup Template

\* Otherwise the instance ends, whatever fails, unless a signal ended the loop.
EndsUnlessStarved ==
  <>(\/ stored # "Running" \/ Starved
     \/ \A i \in Loop : loop[i].pc \in {"unborn", "returned"})

\* A termination that was handled ends every loop and the control goroutine.
TerminationEndsLoops ==
  ctxDone ~> /\ cpc = "returned"
             /\ \A i \in Loop : loop[i].pc \in {"unborn", "returned"}

\* Both: no submission loop is left behind.
V1Ends == EndsUnlessStarved /\ TerminationEndsLoops
=============================================================================
