---------------------------- MODULE EngineRecovery ----------------------------
(***************************************************************************)
(* The engine around its instance managers: submissions by users and by    *)
(* the cron scheduler, restoring what an earlier process left unfinished,  *)
(* control requests, Stop and crashes, over the stored workflows.  What a  *)
(* manager does inside (InstanceManagerV3, InstanceLifecycle) is reduced   *)
(* to its signals, its status, and the tasks it has run.                   *)
(***************************************************************************)
EXTENDS WorkflowStorage, Naturals, Sequences

CONSTANTS
  Caller,       \* goroutines that call SubmitWorkflow: users' and the scheduler's
  UserWf,       \* ids of workflows users build...
  CopyWf,       \* ...and of the copies the scheduler makes
  TasksOf,      \* [UserWf -> the tasks it is built with]
  None,
  MaxInstances, MaxManagers,  \* bounds: instances ever, managers in a process
  MaxLives,     \* bound: processes
  MaxArrivals,  \* bound: requests by clients and, counted twice, submissions
  ControlCap    \* capacity of controlSignalChan

Wf == UserWf \cup CopyWf
Task == DOMAIN DepsOf
Instance == 1 .. MaxInstances
Manager == 1 .. MaxManagers
Final == {"Success", "Failed", "Terminated"}
Statuses == {"Ready", "Running", "Paused"} \cup Final

\* What the engine keeps of a manager.
ManagerRecord ==
  [instance: Instance, tasks: SUBSET Task, status: Statuses,
   loop: {"none", "on", "off"}, cancelled: BOOLEAN,
   signals: Seq({"Pause", "Resume", "Terminate"})]

ASSUME EngineAssumption ==
  /\ \A w \in UserWf : TasksOf[w] \subseteq Task
  /\ None \notin Manager \cup ManagerRecord
  /\ MaxInstances \in Nat /\ MaxManagers \in Nat /\ MaxLives \in Nat
  /\ MaxArrivals \in Nat /\ ControlCap \in Nat \ {0}

VARIABLES
  store,     \* which repositories the engine is built with; never changes
  db,        \* the database: all that survives a process
  phase,     \* how far Start or Stop is, or "down" when there is no process
  running,   \* the engine's flag
  todo,      \* instances Start has still to restore: [running, paused]
  mgr,       \* [Manager -> a manager of this process, or None]
  managers,  \* [Instance -> its entry in the engine's map, or None]
  stopping,  \* the managers Stop copied from the map
  entries,   \* [ids -> tasks]: workflows registered with the scheduler
  ticking,   \* the scheduler runs
  call,      \* [Caller -> its call of SubmitWorkflow or RegisterWorkflow]
  hist       \* bounds and history, read by no code

engineVars == <<store, db, phase, running, todo, mgr, managers, stopping,
                entries, ticking, call, hist>>

NoCall == [pc |-> "idle"]

NoHistory ==
  [used     |-> {},     \* workflow ids that are taken
   want     |-> <<>>,   \* [instances submitted so far -> their tasks]
   ran      |-> [i \in Instance |-> {}],  \* tasks its managers had run at a Success
   early    |-> {},     \* instances launched while Start was about to list
   late     |-> {},     \* instances whose manager took a signal after the end
   lost     |-> {},     \* unfinished instances whose workflow was not to be had
   restored |-> {},     \* instances that got a manager from the database
   moved    |-> {},     \* tasks whose definition went over to another workflow
   lives    |-> 1,
   arrivals |-> 0]

EngineInit ==
  /\ store \in Stores
  /\ db = EmptyDatabase
  /\ phase = "down"
  /\ running = FALSE
  /\ todo = [running |-> {}, paused |-> {}]
  /\ mgr = [m \in Manager |-> None]
  /\ managers = [i \in Instance |-> None]
  /\ stopping = {}
  /\ entries = <<>>
  /\ ticking = FALSE
  /\ call = [c \in Caller |-> NoCall]
  /\ hist = NoHistory

-----------------------------------------------------------------------------
(* Managers.                                                               *)

\* A new manager for instance i, not started.
NewManager(i, tasks, status) ==
  [instance |-> i, tasks |-> tasks, status |-> status,
   loop |-> "none", cancelled |-> FALSE, signals |-> <<>>]

Started(manager) == [manager EXCEPT !.status = "Running", !.loop = "on"]

FreeManager == {m \in Manager : mgr[m] = None /\ \A k \in 1 .. m - 1 : mgr[k] # None}

Persist(d, m, status) == UpdateWorkflowInstanceStatus(d, mgr[m].instance, status)

\* checkDone and the submissions go on until the context is cancelled, and
\* the executor takes tasks until Stop has shut it down.
Works(m) ==
  /\ mgr[m] # None /\ mgr[m].loop = "on" /\ ~mgr[m].cancelled
  /\ mgr[m].status # "Paused"
  /\ phase # "stopped"

\* What runs in between is InstanceManagerV3's: a Success needs every task, and
\* a failure of one takes those after it along.
Finish(m, outcome) ==
  /\ Works(m)
  /\ outcome = "Failed" => mgr[m].tasks # {}
  /\ mgr' = [mgr EXCEPT ![m].status = outcome, ![m].cancelled = TRUE]
  /\ db' = Persist(db, m, outcome)
  /\ hist' = IF outcome = "Success"
             THEN [hist EXCEPT !.ran[mgr[m].instance] = @ \cup mgr[m].tasks] ELSE hist
  /\ UNCHANGED <<store, phase, running, todo, managers, stopping, entries,
                 ticking, call>>

StatusAfter(signal) ==
  IF signal = "Pause" THEN "Paused" ELSE IF signal = "Resume" THEN "Running" ELSE "Terminated"

\* controlLoop may still take a signal when the context is cancelled.
HandleSignal(m) ==
  /\ mgr[m] # None /\ mgr[m].loop = "on" /\ mgr[m].signals # <<>>
  /\ LET signal == Head(mgr[m].signals) IN
     /\ mgr' = [mgr EXCEPT
          ![m].signals = IF signal = "Terminate" THEN <<>> ELSE Tail(@),
          ![m].status = StatusAfter(signal),
          ![m].cancelled = @ \/ signal = "Terminate",
          ![m].loop = IF signal = "Terminate" THEN "off" ELSE @]
     /\ db' = Persist(db, m, StatusAfter(signal))
  /\ hist' = IF mgr[m].cancelled
             THEN [hist EXCEPT !.late = @ \cup {mgr[m].instance}] ELSE hist
  /\ UNCHANGED <<store, phase, running, todo, managers, stopping, entries,
                 ticking, call>>

\* Nobody reads the channel from then on, and what is in it is forgotten.
LoopsExit(m) ==
  /\ mgr[m] # None /\ mgr[m].loop = "on" /\ mgr[m].cancelled
  /\ mgr' = [mgr EXCEPT ![m].loop = "off", ![m].signals = <<>>]
  /\ UNCHANGED <<store, db, phase, running, todo, managers, stopping, entries,
                 ticking, call, hist>>

-----------------------------------------------------------------------------
(* Start.                                                                  *)

\* Mutant: Start does not look at running.
StartTwice ==
  /\ phase \in {"down", "up"}
  /\ running' = TRUE
  /\ phase' = "listing"
  /\ UNCHANGED <<store, db, todo, mgr, managers, stopping, entries, ticking,
                 call, hist>>

\* From here on submissions are taken.
StartBegin ==
  /\ phase \in {"down", "up"}
  /\ ~running
  /\ running' = TRUE
  /\ phase' = "listing"
  /\ UNCHANGED <<store, db, todo, mgr, managers, stopping, entries, ticking,
                 call, hist>>

WithStatus(status) == {i \in DOMAIN db.instance : db.instance[i].status = status}

\* ListWorkflows and the instances of each; the separate repositories list by
\* the status alone.
HasListing(i) == store = "repos" \/ db.instance[i].workflow \in DOMAIN db.definition

\* Mutant: only the instances that were running are restored.
ListRunningOnly ==
  /\ phase = "listing"
  /\ phase' = "restoring"
  /\ todo' = [running |-> {i \in WithStatus("Running") : HasListing(i)},
              paused  |-> {}]
  /\ hist' = [hist EXCEPT !.lost = @ \cup
       {i \in WithStatus("Running") \cup WithStatus("Paused") : ~HasListing(i)}]
  /\ UNCHANGED <<store, db, running, mgr, managers, stopping, entries, ticking, call>>

ListUnfinished ==
  /\ phase = "listing"
  /\ phase' = "restoring"
  /\ todo' = [running |-> {i \in WithStatus("Running") : HasListing(i)},
              paused  |-> {i \in WithStatus("Paused") : HasListing(i)}]
  /\ hist' = [hist EXCEPT !.lost = @ \cup
       {i \in WithStatus("Running") \cup WithStatus("Paused") : ~HasListing(i)}]
  /\ UNCHANGED <<store, db, running, mgr, managers, stopping, entries, ticking, call>>

\* What the database gives for the instance's workflow: the separate
\* repositories load it without its tasks.
WorkflowIsThere(i) ==
  LET w == db.instance[i].workflow IN
  IF store = "repos" THEN w \in DOMAIN db.definition ELSE IsLoadable(db, w)

LoadedTasks(i) ==
  IF store = "repos" THEN {} ELSE StoredTasks(db, db.instance[i].workflow)

\* Mutant: a restored manager is not started.
RestoreUnstarted(i, autoStart) ==
  /\ i \in DOMAIN db.instance /\ WorkflowIsThere(i)
  /\ \E m \in FreeManager :
       /\ mgr' = [mgr EXCEPT ![m] = NewManager(i, LoadedTasks(i), db.instance[i].status)]
       /\ managers' = [managers EXCEPT ![i] = m]
  /\ UNCHANGED db
  /\ hist' = [hist EXCEPT !.restored = @ \cup {i}]

\* The breakpoint, if there is one, holds no task that was done: a restored
\* manager begins again.
RestoreInstance(i, autoStart) ==
  /\ i \in DOMAIN db.instance /\ WorkflowIsThere(i)
  /\ \E m \in FreeManager :
       LET manager == NewManager(i, LoadedTasks(i), db.instance[i].status) IN
       /\ mgr' = [mgr EXCEPT ![m] = IF autoStart THEN Started(manager) ELSE manager]
       /\ managers' = [managers EXCEPT ![i] = m]
  /\ db' = IF autoStart THEN UpdateWorkflowInstanceStatus(db, i, "Running") ELSE db
  /\ hist' = [hist EXCEPT !.restored = @ \cup {i}]

\* An error is logged and the next instance tried.
CannotRestore(i) ==
  /\ ~(i \in DOMAIN db.instance /\ WorkflowIsThere(i))
  /\ hist' = [hist EXCEPT !.lost = @ \cup {i}]
  /\ UNCHANGED <<db, mgr, managers>>

RestoreRunning(i) ==
  /\ phase = "restoring" /\ i \in todo.running
  /\ RestoreInstance(i, TRUE) \/ CannotRestore(i)
  /\ todo' = [todo EXCEPT !.running = @ \ {i}]
  /\ UNCHANGED <<store, phase, running, stopping, entries, ticking, call>>

RestorePaused(i) ==
  /\ phase = "restoring" /\ todo.running = {} /\ i \in todo.paused
  /\ RestoreInstance(i, FALSE) \/ CannotRestore(i)
  /\ todo' = [todo EXCEPT !.paused = @ \ {i}]
  /\ UNCHANGED <<store, phase, running, stopping, entries, ticking, call>>

\* The scheduler starts with no entry: nothing registers the workflows that
\* are stored with a cron expression.
StartEnd ==
  /\ phase = "restoring" /\ todo.running = {} /\ todo.paused = {}
  /\ phase' = "up"
  /\ ticking' = TRUE
  /\ UNCHANGED <<store, db, running, todo, mgr, managers, stopping, entries,
                 call, hist>>

-----------------------------------------------------------------------------
(* Submissions.                                                            *)

Weight(kind) == IF kind = "submit" THEN 2 ELSE 1

Begin(c, kind, w, tasks, cron) ==
  /\ call[c].pc = "idle"
  /\ running
  /\ Cardinality(DOMAIN hist.want) < MaxInstances
  /\ hist.arrivals + Weight(kind) <= MaxArrivals
  /\ hist' = [hist EXCEPT !.arrivals = @ + Weight(kind), !.used = @ \cup {w}]
  /\ call' = [call EXCEPT ![c] =
       [pc |-> "save", kind |-> kind, wf |-> w, tasks |-> tasks, cron |-> cron,
        instance |-> None, manager |-> None]]
  /\ UNCHANGED <<store, db, phase, running, todo, mgr, managers, stopping,
                 entries, ticking>>

\* A user builds a workflow, with a new id, and submits or registers it.  Of
\* those with and without a schedule one kind each is taken (a bound).
SubmitBuilt(c, kind, w) ==
  /\ w \in UserWf \ hist.used
  /\ Begin(c, kind, w, TasksOf[w], kind = "submit")

\* The HTTP API executes a stored workflow.
ExecuteStored(c, w) ==
  /\ store # "repos" /\ IsLoadable(db, w)
  /\ Begin(c, "submit", w, StoredTasks(db, w), db.definition[w].cron)

\* What AddTask makes of the tasks, taken in the order of a Go map: a task that
\* comes before one it depends on is refused, and left out of the copy.
Copies(tasks) ==
  {S \in SUBSET tasks : /\ \A t \in tasks : DepsOf[t] = {} => t \in S
                        /\ \A t \in S : DepsOf[t] \subseteq S}

TriggerWorkflow(c, w, copy) ==
  /\ ticking
  /\ w \in DOMAIN entries
  /\ copy \in CopyWf \ hist.used /\ NameOf[copy] = NameOf[w]
  /\ \E S \in Copies(entries[w]) : Begin(c, "submit", copy, S, TRUE)

\* A new instance row with the next id.
NextInstance == Cardinality(DOMAIN hist.want) + 1

Moved(w, tasks) ==
  {t \in tasks \cap DOMAIN db.taskDefinition : db.taskDefinition[t] # w}

Return(c) == call' = [call EXCEPT ![c] = NoCall]

\* aggregateRepo.SaveWorkflow, by SubmitWorkflow and by RegisterWorkflow.
SaveAggregate(c) ==
  LET w == call[c].wf  tasks == call[c].tasks IN
  /\ call[c].pc = "save" /\ store # "repos"
  /\ \/ /\ SaveIsRefused(store, db, w, tasks)
        /\ Return(c)
        /\ UNCHANGED <<db, hist>>
     \/ /\ ~SaveIsRefused(store, db, w, tasks)
        /\ db' = SaveWorkflow(store, db, w, tasks, call[c].cron)
        /\ hist' = [hist EXCEPT !.moved = @ \cup Moved(w, tasks)]
        /\ IF call[c].kind = "register" THEN Return(c)
           ELSE call' = [call EXCEPT ![c].pc = "start"]
  /\ UNCHANGED <<store, phase, running, todo, mgr, managers, stopping, entries,
                 ticking>>

StartAggregate(c) ==
  LET w == call[c].wf  tasks == call[c].tasks IN
  /\ call[c].pc = "start" /\ store # "repos"
  /\ \/ /\ StartIsRefused(store, db, w)
        /\ Return(c)
        /\ UNCHANGED <<db, hist>>
     \/ /\ ~StartIsRefused(store, db, w)
        /\ NextInstance \in Instance
        /\ db' = StartWorkflow(store, db, NextInstance, w, tasks)
        /\ hist' = [hist EXCEPT !.want = Put(@, {NextInstance}, tasks)]
        /\ call' = [call EXCEPT ![c].pc = "manage", ![c].instance = NextInstance]
  /\ UNCHANGED <<store, phase, running, todo, mgr, managers, stopping, entries,
                 ticking>>

\* The separate repositories: the instance first...
SaveSeparate(c) ==
  /\ call[c].pc = "save" /\ store = "repos"
  /\ IF call[c].kind = "register"
     THEN /\ db' = SaveWithTasks(db, None, call[c].wf, {}, call[c].cron)
          /\ Return(c)
          /\ UNCHANGED hist
     ELSE /\ NextInstance \in Instance
          /\ db' = SaveInstance(db, NextInstance, call[c].wf)
          /\ hist' = [hist EXCEPT !.want = Put(@, {NextInstance}, call[c].tasks)]
          /\ call' = [call EXCEPT ![c].pc = "start", ![c].instance = NextInstance]
  /\ UNCHANGED <<store, phase, running, todo, mgr, managers, stopping, entries,
                 ticking>>

\* ...then the workflow, in another transaction.
StartSeparate(c) ==
  /\ call[c].pc = "start" /\ store = "repos"
  /\ db' = SaveWithTasks(db, call[c].instance, call[c].wf, call[c].tasks, call[c].cron)
  /\ call' = [call EXCEPT ![c].pc = "manage"]
  /\ UNCHANGED <<store, phase, running, todo, mgr, managers, stopping, entries,
                 ticking, hist>>

Manage(c) ==
  /\ call[c].pc = "manage"
  /\ \E m \in FreeManager :
       /\ mgr' = [mgr EXCEPT ![m] = NewManager(call[c].instance, call[c].tasks, "Ready")]
       /\ managers' = [managers EXCEPT ![call[c].instance] = m]
       /\ call' = [call EXCEPT ![c].pc = "launch", ![c].manager = m]
  /\ UNCHANGED <<store, db, phase, running, todo, stopping, entries, ticking, hist>>

\* manager.Start, which nothing of Stop's holds back.
Launch(c) ==
  /\ call[c].pc = "launch"
  /\ mgr' = [mgr EXCEPT ![call[c].manager] = Started(@)]
  /\ db' = UpdateWorkflowInstanceStatus(db, call[c].instance, "Running")
  /\ hist' = IF phase = "listing"
             THEN [hist EXCEPT !.early = @ \cup {call[c].instance}] ELSE hist
  /\ IF call[c].cron THEN call' = [call EXCEPT ![c].pc = "schedule"] ELSE Return(c)
  /\ UNCHANGED <<store, phase, running, todo, managers, stopping, entries, ticking>>

\* cronScheduler.RegisterWorkflow: once for an id, and a copy has its own.
Schedule(c) ==
  /\ call[c].pc = "schedule"
  /\ entries' = Put(entries, {call[c].wf} \ DOMAIN entries, call[c].tasks)
  /\ Return(c)
  /\ UNCHANGED <<store, db, phase, running, todo, mgr, managers, stopping,
                 ticking, hist>>

Unregister(w) ==
  /\ phase # "down" /\ w \in DOMAIN entries /\ hist.arrivals < MaxArrivals
  /\ entries' = Without(entries, {w})
  /\ hist' = [hist EXCEPT !.arrivals = @ + 1]
  /\ UNCHANGED <<store, db, phase, running, todo, mgr, managers, stopping,
                 ticking, call>>

-----------------------------------------------------------------------------
(* Requests: they do not look at running.                                  *)

Requested == /\ phase # "down"
             /\ hist.arrivals < MaxArrivals
             /\ hist' = [hist EXCEPT !.arrivals = @ + 1]

\* A signal to a manager whose loops have ended has no effect, and is left out.
SendSignal(i, signal) ==
  /\ Requested
  /\ managers[i] # None /\ mgr[managers[i]].loop # "off"
  /\ Len(mgr[managers[i]].signals) < ControlCap
  /\ signal = "Terminate" => mgr[managers[i]].status \notin Final
  /\ mgr' = [mgr EXCEPT ![managers[i]].signals = Append(@, signal)]
  /\ UNCHANGED <<store, db, phase, running, todo, managers, stopping, entries,
                 ticking, call>>

\* An instance that is stored as Paused gets a manager that nobody starts.
ResumeUnmanaged(i) ==
  /\ phase # "down" /\ hist.arrivals < MaxArrivals
  /\ managers[i] = None /\ i \in WithStatus("Paused") /\ WorkflowIsThere(i)
  /\ \E m \in FreeManager :
       /\ mgr' = [mgr EXCEPT ![m] =
            [NewManager(i, LoadedTasks(i), "Paused") EXCEPT !.signals = <<"Resume">>]]
       /\ managers' = [managers EXCEPT ![i] = m]
  /\ hist' = [hist EXCEPT !.arrivals = @ + 1, !.restored = @ \cup {i}]
  /\ UNCHANGED <<store, db, phase, running, todo, stopping, entries, ticking, call>>

\* With an aggregate repository the answer is the same, but nothing is stored.
TerminateUnmanaged(i) ==
  /\ Requested
  /\ managers[i] = None /\ i \in DOMAIN db.instance /\ db.instance[i].status \notin Final
  /\ db' = IF store = "repos"
           THEN UpdateWorkflowInstanceStatus(db, i, "Terminated") ELSE db
  /\ UNCHANGED <<store, phase, running, todo, mgr, managers, stopping, entries,
                 ticking, call>>

\* The HTTP API deletes a workflow and all its instances; their managers go on.
DeleteStored(w) ==
  /\ Requested
  /\ store # "repos" /\ w \in DOMAIN db.definition
  /\ db' = DeleteWorkflow(store, db, w)
  /\ UNCHANGED <<store, phase, running, todo, mgr, managers, stopping, entries,
                 ticking, call>>

-----------------------------------------------------------------------------
(* The end of a process.                                                   *)

\* Stop: a signal to every manager in the map whose channel has room...
StopBegin ==
  /\ phase = "up" /\ hist.lives < MaxLives
  /\ running' = FALSE
  /\ ticking' = FALSE
  /\ stopping' = {managers[i] : i \in Instance} \ {None}
  /\ mgr' = [m \in Manager |->
       IF m \in stopping' /\ mgr[m].loop # "off" /\ Len(mgr[m].signals) < ControlCap
       THEN [mgr[m] EXCEPT !.signals = Append(@, "Terminate")] ELSE mgr[m]]
  /\ phase' = "signalled"
  /\ UNCHANGED <<store, db, todo, managers, entries, call, hist>>

\* ...then Shutdown of each, one after the other...
StopShutdown(m) ==
  /\ phase = "signalled" /\ m \in stopping /\ ~mgr[m].cancelled
  /\ mgr' = [mgr EXCEPT ![m].cancelled = TRUE]
  /\ UNCHANGED <<store, db, phase, running, todo, managers, stopping, entries,
                 ticking, call, hist>>

\* ...and, when their loops have ended, what is left Running is stored as
\* Paused, in the separate repository only, and the maps are emptied.
StopEnd ==
  /\ phase = "signalled"
  /\ \A m \in stopping : mgr[m].cancelled /\ mgr[m].loop # "on"
  /\ LET left == {mgr[m].instance : m \in {k \in stopping : mgr[k].status = "Running"}} IN
     db' = IF store # "repos" THEN db
           ELSE [db EXCEPT !.instance = [i \in DOMAIN @ |->
                   IF i \in left THEN [@[i] EXCEPT !.status = "Paused"] ELSE @[i]]]
  /\ managers' = [i \in Instance |-> None]
  /\ phase' = "stopped"
  /\ UNCHANGED <<store, running, todo, mgr, stopping, entries, ticking, call, hist>>

EndOfProcess ==
  /\ hist.lives < MaxLives
  /\ phase' = "down"
  /\ running' = FALSE /\ ticking' = FALSE
  /\ todo' = [running |-> {}, paused |-> {}]
  /\ mgr' = [m \in Manager |-> None]
  /\ managers' = [i \in Instance |-> None]
  /\ stopping' = {} /\ entries' = <<>>
  /\ call' = [c \in Caller |-> NoCall]
  /\ hist' = [hist EXCEPT !.lives = @ + 1, !.early = {}]
  /\ UNCHANGED <<store, db>>

Crash == phase \notin {"down", "stopped"} /\ EndOfProcess
Exit == phase = "stopped" /\ EndOfProcess

-----------------------------------------------------------------------------
Managing(m) ==
  \/ \E outcome \in {"Success", "Failed"} : Finish(m, outcome)
  \/ HandleSignal(m)
  \/ LoopsExit(m)

Starting ==
  \/ StartBegin
  \/ ListUnfinished
  \/ \E i \in Instance : RestoreRunning(i) \/ RestorePaused(i)
  \/ StartEnd

Calling(c) ==
  \/ SaveAggregate(c) \/ StartAggregate(c)
  \/ SaveSeparate(c) \/ StartSeparate(c)
  \/ Manage(c) \/ Launch(c) \/ Schedule(c)

Arriving ==
  \/ \E c \in Caller, kind \in {"submit", "register"}, w \in UserWf : SubmitBuilt(c, kind, w)
  \/ \E c \in Caller, w \in Wf : ExecuteStored(c, w)
  \/ \E c \in Caller, w \in Wf, copy \in CopyWf : TriggerWorkflow(c, w, copy)
  \/ \E w \in Wf : Unregister(w) \/ DeleteStored(w)
  \/ \E i \in Instance, signal \in {"Pause", "Resume", "Terminate"} : SendSignal(i, signal)
  \/ \E i \in Instance : ResumeUnmanaged(i) \/ TerminateUnmanaged(i)

Stopping ==
  \/ \E m \in Manager : StopShutdown(m)
  \/ StopEnd
  \/ Exit

EngineNext ==
  \/ \E m \in Manager : Managing(m)
  \/ Starting
  \/ \E c \in Caller : Calling(c)
  \/ Arriving
  \/ StopBegin
  \/ Stopping
  \/ Crash

\* Goroutines are scheduled, jobs end, and a process that is gone is started
\* again; no request has to come, and no process has to end.  (The bounds leave
\* a goroutine finitely many steps, so it need not be fair to each of them.)
EngineFairness ==
  /\ \A m \in Manager : WF_engineVars(Managing(m))
  /\ \A c \in Caller : WF_engineVars(Calling(c))
  /\ WF_engineVars(Starting)
  /\ WF_engineVars(Stopping)

EngineSpec == EngineInit /\ [][EngineNext]_engineVars /\ EngineFairness

-----------------------------------------------------------------------------
(* Properties.                                                             *)

\* The state has its types, and in the database no row of a task is left
\* behind by the deletion of its workflow (workflow_aggregate_repo.go, whose
\* SQLite has its foreign keys off); under MySQL's keys a definition of a task
\* has its workflow too.
StorageInv ==
  /\ phase \in {"down", "listing", "restoring", "up", "signalled", "stopped"}
  /\ \A i \in Instance : managers[i] # None => mgr[managers[i]].instance = i
  /\ store # "repos" => TaskRowsHaveInstances(db)
  /\ store = "mysql" => DefinitionsHaveWorkflows(db)

\* restoreUnfinishedInstances leaves nobody out: once Start has returned, every
\* instance the database has as Running or Paused has a manager, unless its
\* workflow could not be listed or loaded.
UnfinishedIsManaged ==
  phase = "up" => \A i \in WithStatus("Running") \cup WithStatus("Paused") :
                    managers[i] # None \/ i \in hist.lost

\* An instance is stored as Success only when the jobs of all tasks it was
\* submitted with were run, in this life or an earlier one, unless a workflow
\* of the same name has taken its tasks' definitions, or a restore through the
\* separate repositories, which loads no tasks, went before.
SuccessRanItsTasks ==
  \A i \in WithStatus("Success") :
    \/ hist.want[i] \subseteq hist.ran[i]
    \/ hist.want[i] \cap hist.moved # {}
    \/ store = "repos" /\ i \in hist.restored

\* No two managers of an instance run at once, unless it was submitted between
\* Start's setting of running and its listing.
OneManagerRuns ==
  \A m, k \in {n \in Manager : mgr[n] # None /\ mgr[n].loop = "on" /\ ~mgr[n].cancelled} :
    mgr[m].instance = mgr[k].instance => m = k \/ mgr[m].instance \in hist.early

\* Crashes and restarts notwithstanding, an instance stored as Running does not
\* stay so, unless its workflow was not to be had at a restart or its manager
\* took a signal after the end.
RunningSettles ==
  \A i \in Instance :
    i \in WithStatus("Running") ~> \/ i \notin WithStatus("Running")
                                  \/ i \in hist.lost \cup hist.late

\* README.md:27 promises that a restarted system takes up what is unfinished:
\* here, if a workflow of the instance's name is still stored.
UnfinishedIsRestored ==
  phase = "up" => \A i \in WithStatus("Running") \cup WithStatus("Paused") :
    RowOf(db, db.instance[i].workflow) \in DOMAIN db.definition => managers[i] # None

=============================================================================
