----------------------- MODULE EngineRecovery_proofs ------------------------
(***************************************************************************)
(* Proofs about the engine: what is stored holds together, a restart       *)
(* leaves no unfinished instance out, a Success ran its tasks, and one     *)
(* manager of an instance runs at a time.                                  *)
(*                                                                         *)
(* EIInv is inductive.  One manager runs because a call that has its       *)
(* instance and has not started it is the only one, and nobody restores    *)
(* that instance (CallInv); a Success ran its tasks, crashes included,     *)
(* because a call, an instance and a definition of the same id have the    *)
(* same tasks, but for those another workflow has taken (CarriedInv).      *)
(***************************************************************************)
EXTENDS EngineRecovery, FiniteSetTheorems, SequenceTheorems, TLAPS

-----------------------------------------------------------------------------
(* The inductive invariant.                                                *)

\* What a call is, once it has begun.
CallSet ==
  [pc: {"save", "start", "manage", "launch", "schedule"}, kind: {"submit", "register"},
   wf: Wf, tasks: SUBSET Task, cron: BOOLEAN, instance: Instance \cup {None},
   manager: Manager \cup {None}]

\* What Start lists.
Unfinished == WithStatus("Running") \cup WithStatus("Paused")

\* The tables, and who refers to whom.
DbOK ==
  /\ db = [definition |-> db.definition, taskDefinition |-> db.taskDefinition,
           instance |-> db.instance, taskInstance |-> db.taskInstance]
  /\ DOMAIN db.definition \subseteq hist.used
  /\ \A w \in DOMAIN db.definition : db.definition[w] \in [cron: BOOLEAN]
  /\ DOMAIN db.taskDefinition \subseteq Task
  /\ \A t \in DOMAIN db.taskDefinition : db.taskDefinition[t] \in hist.used
  /\ DOMAIN db.instance \subseteq DOMAIN hist.want
  /\ \A i \in DOMAIN db.instance : /\ db.instance[i] \in [workflow: Wf, status: Statuses]
                                   /\ db.instance[i].workflow \in hist.used
  /\ store # "repos" => TaskRowsHaveInstances(db)
  /\ store = "mysql" => DefinitionsHaveWorkflows(db)

\* Instances are numbered in turn.
HistOK ==
  /\ hist = [used |-> hist.used, want |-> hist.want, ran |-> hist.ran, early |-> hist.early,
             late |-> hist.late, lost |-> hist.lost, restored |-> hist.restored,
             moved |-> hist.moved, lives |-> hist.lives, arrivals |-> hist.arrivals]
  /\ hist.used \subseteq Wf
  /\ \E n \in 0 .. MaxInstances : DOMAIN hist.want = 1 .. n
  /\ \A i \in DOMAIN hist.want : hist.want[i] \subseteq Task
  /\ hist.ran \in [Instance -> SUBSET Task]

ManagersOK ==
  /\ mgr \in [Manager -> ManagerRecord \cup {None}] /\ managers \in [Instance -> Manager \cup {None}]
  /\ stopping \subseteq Manager
  /\ \A m \in Manager : mgr[m] # None => mgr[m].instance \in DOMAIN hist.want

EngineOK ==
  /\ store \in Stores
  /\ phase \in {"down", "listing", "restoring", "up", "signalled", "stopped"}
  /\ running <=> phase \in {"listing", "restoring", "up"}
  /\ todo = [running |-> todo.running, paused |-> todo.paused]
  /\ todo.running \subseteq DOMAIN hist.want /\ todo.paused \subseteq DOMAIN hist.want
  /\ \A w \in DOMAIN entries : entries[w] \subseteq Task

CallsOK ==
  /\ call \in [Caller -> CallSet \cup {NoCall}]
  /\ \A c \in Caller : call[c] # NoCall => call[c].wf \in hist.used

\* Types.
ETypes == DbOK /\ HistOK /\ ManagersOK /\ EngineOK /\ CallsOK

\* Who has what manager.
LinkInv ==
  /\ \A i \in Instance : managers[i] # None =>
       mgr[managers[i]] # None /\ mgr[managers[i]].instance = i
  /\ phase # "stopped" => \A m \in Manager : mgr[m] # None => managers[mgr[m].instance] # None
  /\ \A m \in stopping : mgr[m] # None
  /\ phase = "down" => /\ \A m \in Manager : mgr[m] = None
                       /\ \A c \in Caller : call[c] = NoCall

\* A call that has its instance, and one that has not launched it yet.
HasInstance(c) == call[c].pc \in {"manage", "launch", "schedule"} \/ (call[c].pc = "start" /\ store = "repos")
Waits(c) == HasInstance(c) /\ call[c].pc # "schedule"

CallInv ==
  /\ \A c \in Caller : HasInstance(c) =>
       call[c].instance \in DOMAIN hist.want /\ hist.want[call[c].instance] = call[c].tasks
  /\ \A c, d \in Caller : HasInstance(c) /\ HasInstance(d) /\ call[c].instance = call[d].instance => c = d
  /\ \A c \in Caller : Waits(c) =>
       /\ call[c].instance \notin Unfinished \cup todo.running \cup todo.paused
       /\ \A m \in Manager : mgr[m] # None /\ mgr[m].instance = call[c].instance =>
            mgr[m].loop = "none" /\ mgr[m].status = "Ready"
  /\ \A c \in Caller : call[c].pc = "launch" =>
       call[c].manager \in Manager /\ mgr[call[c].manager] # None /\ mgr[call[c].manager].instance = call[c].instance

\* What Start restores.
RestoreInv ==
  /\ phase # "restoring" => todo.running = {} /\ todo.paused = {}
  /\ phase \in {"restoring", "up"} =>
       \A i \in Unfinished : managers[i] # None \/ i \in hist.lost \cup todo.running \cup todo.paused
  /\ \A m \in Manager :
       mgr[m] # None /\ mgr[m].loop = "on" /\ (phase = "listing" \/ mgr[m].instance \in todo.running) =>
        mgr[m].instance \in hist.early
  /\ \A m, k \in Manager :
       mgr[m] # None /\ mgr[k] # None /\ mgr[m].loop = "on" /\ mgr[k].loop = "on" /\ mgr[m].instance = mgr[k].instance
         => m = k \/ mgr[m].instance \in hist.early

\* The tasks of a workflow, wherever they are.
Carried(w) ==
  {call[c].tasks : c \in {d \in Caller : call[d].pc \in {"save", "start"} /\ call[d].wf = w}}
  \cup {hist.want[i] : i \in {j \in DOMAIN db.instance : db.instance[j].workflow = w}}
  \cup {StoredTasks(db, v) : v \in {w} \cap DOMAIN db.definition}
Same(S, T) == S \ hist.moved = T \ hist.moved

\* A workflow's tasks are the same wherever they are, but for those that moved.
CarriedInv == store # "repos" => \A w \in Wf : \A S, T \in Carried(w) : Same(S, T)

\* The separate repositories load no tasks.
Excused(i) == store = "repos" /\ i \in hist.restored

\* A manager has its instance's tasks, and a Success ran them.
TasksInv ==
  /\ \A m \in Manager : mgr[m] # None =>
       hist.want[mgr[m].instance] \ hist.moved \subseteq mgr[m].tasks \/ Excused(mgr[m].instance)
  /\ \A i \in WithStatus("Success") : hist.want[i] \ hist.moved \subseteq hist.ran[i] \/ Excused(i)

\* The inductive invariant.
EIInv == ETypes /\ LinkInv /\ CallInv /\ RestoreInv /\ CarriedInv /\ TasksInv

\* Parts of the transactions, named.
InstancesOf(d, w) == {i \in DOMAIN d.instance : d.instance[i].workflow = w}
CronRow(cron) == [cron |-> cron]
ReadyRow(w) == [workflow |-> w, status |-> "Ready"]
RowsOf(d, gone) == {t \in DOMAIN d.taskInstance : d.taskInstance[t] \in gone}

\* A workflow is saved in a row of its own id or in one that is there.
LEMMA RowFacts ==
  ASSUME NEW d, NEW w
  PROVE  RowOf(d, w) = w \/ RowOf(d, w) \in DOMAIN d.definition
<1>1. PICK S : S = {v \in DOMAIN d.definition : NameOf[v] = NameOf[w]}
  OBVIOUS
<1>2. S # {} => (CHOOSE v \in S : TRUE) \in S
  OBVIOUS
<1>3. RowOf(d, w) = IF S = {} THEN w ELSE CHOOSE v \in S : TRUE
  BY <1>1 DEF RowOf
<1> QED
  BY <1>1, <1>2, <1>3

\* A database, and one that differs in the statuses only.
Tables(d) ==
  d = [definition |-> d.definition, taskDefinition |-> d.taskDefinition,
       instance |-> d.instance, taskInstance |-> d.taskInstance]
InstanceRow == [workflow: Wf, status: Statuses]
SameButStatus(d, e) ==
  /\ e.definition = d.definition /\ e.taskDefinition = d.taskDefinition
  /\ e.taskInstance = d.taskInstance /\ DOMAIN e.instance = DOMAIN d.instance
  /\ \A i \in DOMAIN d.instance : /\ e.instance[i] \in InstanceRow
                                  /\ e.instance[i].workflow = d.instance[i].workflow
StatusOf(d, i) == d.instance[i].status

\* An update of a status changes that status and nothing else.
LEMMA UpdateFacts ==
  ASSUME NEW d, Tables(d), \A i \in DOMAIN d.instance : d.instance[i] \in InstanceRow,
         NEW i, NEW s \in Statuses
  PROVE  /\ Tables(UpdateWorkflowInstanceStatus(d, i, s))
         /\ SameButStatus(d, UpdateWorkflowInstanceStatus(d, i, s))
         /\ \A j \in DOMAIN d.instance :
              StatusOf(UpdateWorkflowInstanceStatus(d, i, s), j) = IF j = i THEN s ELSE StatusOf(d, j)
<1>1. CASE i \notin DOMAIN d.instance
  BY <1>1 DEF UpdateWorkflowInstanceStatus, SameButStatus, StatusOf
<1>2. CASE i \in DOMAIN d.instance
  <2>1. PICK r \in InstanceRow : r = [d.instance[i] EXCEPT !.status = s]
    BY <1>2 DEF InstanceRow
  <2>2. r.status = s /\ r.workflow = d.instance[i].workflow
    BY <1>2, <2>1 DEF InstanceRow
  <2>3. PICK T : T = [d.instance EXCEPT ![i] = r]
    OBVIOUS
  <2>4. UpdateWorkflowInstanceStatus(d, i, s) = [d EXCEPT !.instance = T]
    BY <1>2, <2>1, <2>3 DEF UpdateWorkflowInstanceStatus
  <2>5. /\ [d EXCEPT !.instance = T].instance = T
        /\ [d EXCEPT !.instance = T].definition = d.definition
        /\ [d EXCEPT !.instance = T].taskDefinition = d.taskDefinition
        /\ [d EXCEPT !.instance = T].taskInstance = d.taskInstance
        /\ Tables([d EXCEPT !.instance = T])
    BY DEF Tables
  <2>6. /\ DOMAIN T = DOMAIN d.instance
        /\ \A j \in DOMAIN d.instance : T[j] = IF j = i THEN r ELSE d.instance[j]
    BY <2>3
  <2> QED
    BY <1>2, <2>2, <2>4, <2>5, <2>6 DEF SameButStatus, StatusOf
<1> QED
  BY <1>1, <1>2

-----------------------------------------------------------------------------
(* What a step writes down.                                                *)

\* The history's fields.
HistForm(h) ==
  h = [used |-> h.used, want |-> h.want, ran |-> h.ran, early |-> h.early,
       late |-> h.late, lost |-> h.lost, restored |-> h.restored,
       moved |-> h.moved, lives |-> h.lives, arrivals |-> h.arrivals]

\* An instance gets the next number, and its tasks are written down.
Submits(c) ==
  /\ call[c].pc = (IF store = "repos" THEN "save" ELSE "start") /\ call[c] # NoCall
  /\ NextInstance \in Instance
  /\ hist' = [hist EXCEPT !.want = Put(hist.want, {NextInstance}, call[c].tasks)]

\* The next instance has no number that was given out.
LEMMA SubmitFacts ==
  ASSUME ETypes
  PROVE  \E n \in 0 .. MaxInstances : /\ DOMAIN hist.want = 1 .. n /\ NextInstance = n + 1
                                      /\ NextInstance \notin DOMAIN hist.want
<1>1. PICK n \in 0 .. MaxInstances : DOMAIN hist.want = 1 .. n
  BY DEF ETypes, HistOK
<1>2. n \in Nat
  BY EngineAssumption
<1>3. Cardinality(1 .. n) = n
  <2>1. 1 \in Int /\ n \in Int
    BY <1>2
  <2>2. Cardinality(1 .. n) = IF 1 > n THEN 0 ELSE n - 1 + 1
    BY ONLY <2>1, FS_Interval
  <2> QED
    BY <1>2, <2>2
<1> QED
  BY <1>1, <1>2, <1>3 DEF NextInstance

\* A call that is not idle has its record.
LEMMA CallFacts ==
  ASSUME ETypes, NEW c \in Caller, call[c].pc # "idle"
  PROVE  call[c] \in CallSet /\ call[c] # NoCall
BY DEF ETypes, CallsOK, NoCall, CallSet

\* What stays and what grows.
HistGrowth ==
  /\ HistForm(hist')
  /\ hist.used \subseteq hist'.used /\ hist'.used \subseteq Wf
  /\ hist'.want = hist.want \/ \E c \in Caller : Submits(c)
  /\ hist'.ran \in [Instance -> SUBSET Task]
  /\ \A i \in Instance : hist.ran[i] \subseteq hist'.ran[i]
  /\ hist.moved \subseteq hist'.moved /\ hist.restored \subseteq hist'.restored
  /\ hist.lost \subseteq hist'.lost
  /\ hist.early \subseteq hist'.early \/ Crash \/ Exit

EngineCases ==
  \/ \E m \in Manager : Finish(m, "Success") \/ Finish(m, "Failed") \/ HandleSignal(m)
  \/ \E m \in Manager : LoopsExit(m) \/ StopShutdown(m)
  \/ StartBegin \/ StartEnd \/ ListUnfinished \/ StopBegin \/ StopEnd \/ Crash \/ Exit
  \/ \E i \in Instance : RestoreRunning(i) \/ RestorePaused(i)
  \/ \E c \in Caller : SaveAggregate(c) \/ StartAggregate(c) \/ SaveSeparate(c) \/ StartSeparate(c)
  \/ \E c \in Caller : Manage(c) \/ Launch(c) \/ Schedule(c)
  \/ \E c \in Caller, kind \in {"submit", "register"}, w \in UserWf : SubmitBuilt(c, kind, w)
  \/ \E c \in Caller, w \in Wf : ExecuteStored(c, w)
  \/ \E c \in Caller, w \in Wf, copy \in CopyWf : TriggerWorkflow(c, w, copy)
  \/ \E w \in Wf : Unregister(w) \/ DeleteStored(w)
  \/ \E i \in Instance, signal \in {"Pause", "Resume", "Terminate"} : SendSignal(i, signal)
  \/ \E i \in Instance : ResumeUnmanaged(i) \/ TerminateUnmanaged(i)
  \/ UNCHANGED engineVars

\* The actions a step may be.
LEMMA CasesFacts == ASSUME [EngineNext]_engineVars PROVE EngineCases
BY DEF EngineNext, EngineCases, Managing, Starting, Calling, Arriving, Stopping

\* The calls of SubmitWorkflow and RegisterWorkflow that begin.
BeginSteps ==
  \/ \E c \in Caller, kind \in {"submit", "register"}, w \in UserWf : SubmitBuilt(c, kind, w)
  \/ \E c \in Caller, w \in Wf : ExecuteStored(c, w)
  \/ \E c \in Caller, w \in Wf, copy \in CopyWf : TriggerWorkflow(c, w, copy)

\* A call begins, for a new workflow or for one that is stored.
Begins(c, kind, w, tasks, cron) ==
  /\ c \in Caller /\ kind \in {"submit", "register"} /\ w \in Wf /\ tasks \subseteq Task
  /\ cron \in BOOLEAN /\ Begin(c, kind, w, tasks, cron)
  /\ \/ w \notin hist.used
     \/ store # "repos" /\ w \in DOMAIN db.definition /\ tasks = StoredTasks(db, w)

\* Each of them is a Begins.
LEMMA BeginFacts ==
  ASSUME ETypes, BeginSteps
  PROVE  \E c, kind, w, tasks, cron : Begins(c, kind, w, tasks, cron)
<1>1. ASSUME NEW c \in Caller, NEW kind \in {"submit", "register"}, NEW w \in UserWf, SubmitBuilt(c, kind, w)
      PROVE  Begins(c, kind, w, TasksOf[w], kind = "submit")
  BY <1>1, EngineAssumption DEF SubmitBuilt, Begins, Wf
<1>2. ASSUME NEW c \in Caller, NEW w \in Wf, ExecuteStored(c, w)
      PROVE  Begins(c, "submit", w, StoredTasks(db, w), db.definition[w].cron)
  <2>1. w \in DOMAIN db.definition /\ db.definition[w] \in [cron: BOOLEAN]
    BY <1>2 DEF ExecuteStored, IsLoadable, ETypes, DbOK
  <2>2. StoredTasks(db, w) \subseteq Task
    BY DEF StoredTasks, ETypes, DbOK
  <2> QED
    BY <1>2, <2>1, <2>2 DEF ExecuteStored, Begins
<1>3. ASSUME NEW c \in Caller, NEW w \in Wf, NEW copy \in CopyWf, TriggerWorkflow(c, w, copy)
      PROVE  \E S : Begins(c, "submit", copy, S, TRUE)
  <2>1. PICK S \in Copies(entries[w]) : Begin(c, "submit", copy, S, TRUE)
    BY <1>3 DEF TriggerWorkflow
  <2>2. S \subseteq Task
    BY <1>3, <2>1 DEF TriggerWorkflow, Copies, ETypes, EngineOK
  <2> QED
    BY <1>3, <2>1, <2>2 DEF TriggerWorkflow, Begins, Wf
<1> QED
  BY <1>1, <1>2, <1>3 DEF BeginSteps

\* The history only grows, but for what is forgotten with a process.
LEMMA HistGrows ==
  ASSUME ETypes, [EngineNext]_engineVars
  PROVE  HistGrowth
<1>0. HistForm(hist) /\ hist.used \subseteq Wf /\ hist.ran \in [Instance -> SUBSET Task]
  BY DEF ETypes, HistOK, HistForm
<1>1. CASE hist' = hist
  BY <1>0, <1>1 DEF HistGrowth
<1>2. ASSUME NEW m \in Manager, Finish(m, "Success") PROVE HistGrowth
  <2>1. PICK r \in ManagerRecord : r = mgr[m]
    BY <1>2 DEF Finish, Works, ETypes, ManagersOK
  <2>2. PICK X : X = [hist.ran EXCEPT ![r.instance] = hist.ran[r.instance] \cup r.tasks]
    OBVIOUS
  <2>3. hist' = [hist EXCEPT !.ran = X]
    BY <1>2, <2>1, <2>2 DEF Finish
  <2>4. X \in [Instance -> SUBSET Task] /\ \A i \in Instance : hist.ran[i] \subseteq X[i]
    BY <1>0, <2>1, <2>2 DEF ManagerRecord
  <2> QED
    BY <1>0, <2>3, <2>4 DEF HistGrowth, HistForm
<1>3. ASSUME NEW m \in Manager, HandleSignal(m) PROVE HistGrowth
  <2>1. hist' = hist \/ \E X : hist' = [hist EXCEPT !.late = X]
    BY <1>3 DEF HandleSignal
  <2> QED
    BY <1>0, <2>1 DEF HistGrowth, HistForm
<1>4. CASE ListUnfinished
  <2>1. \E X : hist.lost \subseteq X /\ hist' = [hist EXCEPT !.lost = X]
    BY <1>4 DEF ListUnfinished
  <2> QED
    BY <1>0, <2>1 DEF HistGrowth, HistForm
<1>5. ASSUME NEW i \in Instance, RestoreRunning(i) \/ RestorePaused(i) PROVE HistGrowth
  <2>1. \/ hist' = [hist EXCEPT !.lost = hist.lost \cup {i}]
        \/ hist' = [hist EXCEPT !.restored = hist.restored \cup {i}]
    BY <1>5 DEF RestoreRunning, RestorePaused, RestoreInstance, CannotRestore
  <2> QED
    BY <1>0, <2>1 DEF HistGrowth, HistForm
<1>6. CASE BeginSteps
  <2>1. PICK c, kind, w, tasks, cron : Begins(c, kind, w, tasks, cron)
    BY <1>6, BeginFacts
  <2>2. PICK n : hist' = [hist EXCEPT !.arrivals = n, !.used = hist.used \cup {w}]
    BY <2>1 DEF Begins, Begin
  <2> QED
    BY <1>0, <2>1, <2>2 DEF HistGrowth, HistForm, Begins
<1>7. ASSUME NEW c \in Caller, SaveAggregate(c) PROVE HistGrowth
  <2>1. hist' = hist \/ \E X : hist.moved \subseteq X /\ hist' = [hist EXCEPT !.moved = X]
    BY <1>7 DEF SaveAggregate
  <2> QED
    BY <1>0, <2>1 DEF HistGrowth, HistForm
<1>8. ASSUME NEW c \in Caller, StartAggregate(c) \/ SaveSeparate(c) PROVE HistGrowth
  <2>0. call[c] # NoCall
    BY <1>8 DEF StartAggregate, SaveSeparate, NoCall
  <2>1. hist' = hist \/ Submits(c)
    BY <1>8, <2>0 DEF StartAggregate, SaveSeparate, Submits
  <2>2. CASE Submits(c)
    <3>1. PICK X : hist' = [hist EXCEPT !.want = X]
      BY <2>2 DEF Submits
    <3> QED
      BY <1>0, <2>2, <3>1 DEF HistGrowth, HistForm
  <2> QED
    BY <1>1, <2>1, <2>2
<1>9. ASSUME NEW c \in Caller, Launch(c) PROVE HistGrowth
  <2>1. hist' = hist \/ hist' = [hist EXCEPT !.early = hist.early \cup {call[c].instance}]
    BY <1>9 DEF Launch
  <2> QED
    BY <1>0, <2>1 DEF HistGrowth, HistForm
<1>10. ASSUME \/ \E w \in Wf : Unregister(w) \/ DeleteStored(w)
              \/ \E i \in Instance, signal \in {"Pause", "Resume", "Terminate"} : SendSignal(i, signal)
              \/ \E i \in Instance : TerminateUnmanaged(i)
       PROVE  HistGrowth
  <2>1. hist' = [hist EXCEPT !.arrivals = hist.arrivals + 1]
    BY <1>10 DEF Unregister, DeleteStored, SendSignal, TerminateUnmanaged, Requested
  <2> QED
    BY <1>0, <2>1 DEF HistGrowth, HistForm
<1>11. ASSUME NEW i \in Instance, ResumeUnmanaged(i) PROVE HistGrowth
  <2>1. hist' = [hist EXCEPT !.arrivals = hist.arrivals + 1, !.restored = hist.restored \cup {i}]
    BY <1>11 DEF ResumeUnmanaged
  <2> QED
    BY <1>0, <2>1 DEF HistGrowth, HistForm
<1>12. CASE Crash \/ Exit
  <2>1. hist' = [hist EXCEPT !.lives = hist.lives + 1, !.early = {}]
    BY <1>12 DEF Crash, Exit, EndOfProcess
  <2> QED
    BY <1>0, <1>12, <2>1 DEF HistGrowth, HistForm
<1>13. ASSUME NEW m \in Manager, Finish(m, "Failed") \/ LoopsExit(m) \/ StopShutdown(m) PROVE hist' = hist
  BY <1>13 DEF Finish, LoopsExit, StopShutdown
<1>14. CASE StartBegin \/ StartEnd \/ StopBegin \/ StopEnd \/ UNCHANGED engineVars
  BY <1>1, <1>14 DEF StartBegin, StartEnd, StopBegin, StopEnd, engineVars
<1>15. ASSUME NEW c \in Caller, StartSeparate(c) \/ Manage(c) \/ Schedule(c) PROVE hist' = hist
  BY <1>15 DEF StartSeparate, Manage, Schedule
<1>16. EngineCases
  BY CasesFacts
<1> QED
  BY <1>1, <1>2, <1>3, <1>4, <1>5, <1>6, <1>7, <1>8, <1>9, <1>10, <1>11, <1>12, <1>13, <1>14,
     <1>15, <1>16 DEF EngineCases, BeginSteps

\* The history keeps its types, and what an instance was submitted with.
LEMMA HistTypes ==
  ASSUME ETypes, [EngineNext]_engineVars
  PROVE  /\ HistOK' /\ DOMAIN hist.want \subseteq DOMAIN hist'.want
         /\ \A i \in DOMAIN hist.want : hist'.want[i] = hist.want[i]
<1>0. HistGrowth
  BY HistGrows
<1>1. CASE hist'.want = hist.want
  BY <1>0, <1>1 DEF HistGrowth, HistForm, ETypes, HistOK
<1>2. ASSUME NEW c \in Caller, Submits(c)
      PROVE  /\ HistOK' /\ DOMAIN hist.want \subseteq DOMAIN hist'.want
             /\ \A i \in DOMAIN hist.want : hist'.want[i] = hist.want[i]
  <2>1. PICK n \in 0 .. MaxInstances : /\ DOMAIN hist.want = 1 .. n /\ NextInstance = n + 1
                                       /\ NextInstance \notin DOMAIN hist.want
    BY SubmitFacts
  <2>2. hist'.want = Put(hist.want, {NextInstance}, call[c].tasks)
    BY <1>2 DEF Submits, ETypes, HistOK
  <2>3. /\ DOMAIN hist'.want = {NextInstance} \cup DOMAIN hist.want
        /\ hist'.want[NextInstance] = call[c].tasks
        /\ \A i \in DOMAIN hist.want : hist'.want[i] = hist.want[i]
    <3>1. DOMAIN hist'.want = {NextInstance} \cup DOMAIN hist.want
      BY <2>2 DEF Put
    <3>2. hist'.want[NextInstance] = call[c].tasks
      BY <2>2 DEF Put
    <3>3. \A i \in DOMAIN hist.want : hist'.want[i] = hist.want[i]
      BY <2>1, <2>2 DEF Put
    <3> QED
      BY ONLY <3>1, <3>2, <3>3
  <2>4. call[c].tasks \subseteq Task
    BY <1>2 DEF Submits, ETypes, CallsOK, CallSet
  <2>5. n + 1 \in 0 .. MaxInstances /\ DOMAIN hist'.want = 1 .. n + 1
    <3>1. n \in Nat /\ n + 1 \in Instance /\ MaxInstances \in Nat
      BY <1>2, <2>1, EngineAssumption DEF Submits
    <3> QED
      BY <2>1, <2>3, <3>1 DEF Instance
  <2>6. \A i \in DOMAIN hist'.want : hist'.want[i] \subseteq Task
    BY <2>3, <2>4 DEF ETypes, HistOK
  <2> QED
    BY <1>0, <2>3, <2>5, <2>6 DEF HistGrowth, HistForm, HistOK
<1> QED
  BY <1>0, <1>1, <1>2 DEF HistGrowth

-----------------------------------------------------------------------------
(* Statuses.                                                               *)

\* A step that changes statuses only.
SameRows == Tables(db') /\ SameButStatus(db, db')
\* The instances' statuses: i's is set, where it is stored.
Sets(i, s) ==
  /\ SameRows /\ s \in Statuses
  /\ \A j \in DOMAIN db.instance : StatusOf(db', j) = IF j = i THEN s ELSE StatusOf(db, j)

\* The database's tables.
LEMMA DbFacts ==
  ASSUME ETypes
  PROVE  Tables(db) /\ (\A i \in DOMAIN db.instance : db.instance[i] \in InstanceRow)
BY DEF ETypes, DbOK, Tables, InstanceRow

\* An update is a Sets.
LEMMA SetsFacts ==
  ASSUME ETypes, NEW i, NEW s \in Statuses, db' = UpdateWorkflowInstanceStatus(db, i, s)
  PROVE  Sets(i, s)
BY DbFacts, UpdateFacts DEF Sets, SameRows

\* Nothing is set.
LEMMA SameFacts ==
  ASSUME ETypes, db' = db
  PROVE  SameRows /\ \A j \in DOMAIN db.instance : StatusOf(db', j) = StatusOf(db, j)
BY DbFacts DEF SameRows, SameButStatus

\* A manager of this process, with its types.
LEMMA ManagerFacts ==
  ASSUME ETypes, NEW m \in Manager, mgr[m] # None
  PROVE  mgr[m] \in ManagerRecord /\ mgr[m].instance \in DOMAIN hist.want
BY DEF ETypes, ManagersOK

\* The steps that set a status, one by one.
LEMMA FinishSets ==
  ASSUME ETypes, NEW m \in Manager, NEW outcome \in {"Success", "Failed"}, Finish(m, outcome)
  PROVE  Sets(mgr[m].instance, outcome)
BY SetsFacts DEF Finish, Persist, Statuses, Final

\* What a channel holds.
LEMMA SignalFacts ==
  ASSUME ETypes, NEW m \in Manager, HandleSignal(m)
  PROVE  Head(mgr[m].signals) \in {"Pause", "Resume", "Terminate"}
         /\ Tail(mgr[m].signals) \in Seq({"Pause", "Resume", "Terminate"})
BY ManagerFacts DEF HandleSignal, ManagerRecord

\* A signal sets a status that is not Success.
LEMMA SignalSets ==
  ASSUME ETypes, NEW m \in Manager, HandleSignal(m)
  PROVE  \E s \in {"Paused", "Running", "Terminated"} : Sets(mgr[m].instance, s)
<1>1. PICK s \in {"Paused", "Running", "Terminated"} : s = StatusAfter(Head(mgr[m].signals))
  BY SignalFacts DEF StatusAfter
<1>2. db' = UpdateWorkflowInstanceStatus(db, mgr[m].instance, s)
  BY <1>1 DEF HandleSignal, Persist
<1> QED
  BY <1>2, SetsFacts DEF Statuses, Final

\* A manager that is restored and started.
LEMMA RestoreSets ==
  ASSUME ETypes, NEW i \in Instance, RestoreInstance(i, TRUE)
  PROVE  Sets(i, "Running")
BY SetsFacts DEF RestoreInstance, Statuses

\* A manager that is started for a call.
LEMMA LaunchSets ==
  ASSUME ETypes, NEW c \in Caller, Launch(c)
  PROVE  Sets(call[c].instance, "Running")
BY SetsFacts DEF Launch, Statuses

\* A termination without a manager.
LEMMA TerminateSets ==
  ASSUME ETypes, NEW i \in Instance, TerminateUnmanaged(i)
  PROVE  db' = db \/ Sets(i, "Terminated")
BY SetsFacts DEF TerminateUnmanaged, Statuses, Final

\* Stop sets the status of what is left running.
LEMMA StopEndFacts ==
  ASSUME ETypes, StopEnd
  PROVE  /\ SameRows
         /\ \A j \in DOMAIN db.instance :
              \/ StatusOf(db', j) = StatusOf(db, j)
              \/ /\ StatusOf(db', j) = "Paused"
                 /\ \E m \in stopping : mgr[m].status = "Running" /\ mgr[m].instance = j
<1>1. CASE db' = db
  BY <1>1, SameFacts
<1>2. CASE db' # db
  <2>1. PICK left \in {{mgr[m].instance : m \in {k \in stopping : mgr[k].status = "Running"}}} :
               db' = [db EXCEPT !.instance = [i \in DOMAIN db.instance |->
                   IF i \in left THEN [db.instance[i] EXCEPT !.status = "Paused"] ELSE db.instance[i]]]
    BY <1>2 DEF StopEnd
  <2>2. PICK T : T = [i \in DOMAIN db.instance |->
                   IF i \in left THEN [db.instance[i] EXCEPT !.status = "Paused"] ELSE db.instance[i]]
    OBVIOUS
  <2>3. db' = [db EXCEPT !.instance = T]
    BY <2>1, <2>2
  <2>4. /\ db'.instance = T /\ db'.definition = db.definition
        /\ db'.taskDefinition = db.taskDefinition /\ db'.taskInstance = db.taskInstance
        /\ Tables(db')
    BY <2>3, DbFacts DEF Tables
  <2>5. \A i \in DOMAIN db.instance :
          /\ T[i] \in InstanceRow /\ T[i].workflow = db.instance[i].workflow
          /\ T[i].status = db.instance[i].status \/ (T[i].status = "Paused" /\ i \in left)
    BY <2>2, DbFacts DEF InstanceRow, Statuses
  <2>6. DOMAIN T = DOMAIN db.instance
    BY <2>2
  <2> QED
    BY <2>4, <2>5, <2>6 DEF SameRows, SameButStatus, StatusOf
<1> QED
  BY <1>1, <1>2

-----------------------------------------------------------------------------
(* Transactions.                                                           *)

\* What a transaction makes of database d: e.
SaveForm(d, e, w, tasks, cron) ==
  /\ Tables(e) /\ e.definition = Put(d.definition, {RowOf(d, w)}, CronRow(cron))
  /\ e.taskDefinition = Put(Without(d.taskDefinition, StoredTasks(d, w)), tasks, w)
  /\ e.instance = d.instance /\ e.taskInstance = d.taskInstance
InstanceForm(d, e, i, w) ==
  /\ Tables(e) /\ e.definition = d.definition /\ e.taskDefinition = d.taskDefinition
  /\ e.instance = Put(d.instance, {i}, ReadyRow(w))
TasksForm(d, e, w, cron) ==
  /\ Tables(e) /\ e.definition = Put(d.definition, {w}, CronRow(cron))
  /\ e.taskDefinition = d.taskDefinition /\ e.instance = d.instance
DeleteForm(d, e, w) ==
  /\ Tables(e) /\ e.definition = Without(d.definition, {w})
  /\ e.taskDefinition = Without(d.taskDefinition, StoredTasks(d, w))
  /\ e.instance = Without(d.instance, InstancesOf(d, w))
  /\ e.taskInstance = Without(d.taskInstance, RowsOf(d, InstancesOf(d, w)))
NewTaskRows(d, e, i) ==
  \A t \in DOMAIN e.taskInstance :
    e.taskInstance[t] = i \/ (t \in DOMAIN d.taskInstance /\ e.taskInstance[t] = d.taskInstance[t])

\* SaveWorkflow, field by field.
LEMMA SaveShape ==
  ASSUME NEW d, Tables(d), NEW s, NEW w, NEW tasks, NEW cron
  PROVE  SaveForm(d, SaveWorkflow(s, d, w, tasks, cron), w, tasks, cron)
<1>1. PICK A, B :
        /\ A = Put(d.definition, {RowOf(d, w)}, CronRow(cron))
        /\ B = Put(Without(d.taskDefinition, StoredTasks(d, w)), tasks, w)
  OBVIOUS
<1>2. PICK e : e = [d EXCEPT !.definition = A, !.taskDefinition = B]
  OBVIOUS
<1>3. SaveWorkflow(s, d, w, tasks, cron) = e
  BY <1>1, <1>2 DEF CronRow, SaveWorkflow, TaskDefinitionsSaved, StoredTasks
<1>4. SaveForm(d, e, w, tasks, cron)
  BY <1>1, <1>2 DEF Tables, SaveForm
<1> QED
  BY <1>3, <1>4

\* StartWorkflow.
LEMMA StartShape ==
  ASSUME NEW d, Tables(d), NEW s, NEW i, NEW w, NEW tasks
  PROVE  /\ InstanceForm(d, StartWorkflow(s, d, i, w, tasks), i, w)
         /\ NewTaskRows(d, StartWorkflow(s, d, i, w, tasks), i)
<1>1. PICK S : S = IF s = "mysql" THEN tasks \ DOMAIN d.taskInstance ELSE tasks
  OBVIOUS
<1>2. PICK A, B : A = Put(d.instance, {i}, ReadyRow(w)) /\ B = Put(d.taskInstance, S, i)
  OBVIOUS
<1>3. PICK e : e = [d EXCEPT !.instance = A, !.taskInstance = B]
  OBVIOUS
<1>4. B = IF s = "mysql" THEN TaskRowsStay(d.taskInstance, tasks, i)
          ELSE TaskRowsGoOver(d.taskInstance, tasks, i)
  BY <1>1, <1>2 DEF TaskRowsStay, TaskRowsGoOver
<1>5. StartWorkflow(s, d, i, w, tasks) = e
  BY <1>2, <1>3, <1>4 DEF ReadyRow, StartWorkflow
<1>6. InstanceForm(d, e, i, w) /\ e.taskInstance = B
  BY <1>2, <1>3 DEF Tables, InstanceForm
<1>7. NewTaskRows(d, e, i)
  BY <1>2, <1>6 DEF NewTaskRows, Put
<1> QED
  BY <1>5, <1>6, <1>7

\* SaveInstance.
LEMMA SaveInstanceShape ==
  ASSUME NEW d, Tables(d), NEW i, NEW w
  PROVE  InstanceForm(d, SaveInstance(d, i, w), i, w)
<1>1. PICK A : A = Put(d.instance, {i}, ReadyRow(w))
  OBVIOUS
<1>2. PICK e : e = [d EXCEPT !.instance = A]
  OBVIOUS
<1>3. SaveInstance(d, i, w) = e
  BY <1>1, <1>2 DEF ReadyRow, SaveInstance
<1>4. InstanceForm(d, e, i, w)
  BY <1>1, <1>2 DEF Tables, InstanceForm
<1> QED
  BY <1>3, <1>4

\* SaveWithTasks.
LEMMA SaveTasksShape ==
  ASSUME NEW d, Tables(d), NEW i, NEW w, NEW tasks, NEW cron
  PROVE  TasksForm(d, SaveWithTasks(d, i, w, tasks, cron), w, cron)
<1>1. PICK A, B : A = Put(d.definition, {w}, CronRow(cron)) /\ B = Put(d.taskInstance, tasks, i)
  OBVIOUS
<1>2. PICK e : e = [d EXCEPT !.definition = A, !.taskInstance = B]
  OBVIOUS
<1>3. SaveWithTasks(d, i, w, tasks, cron) = e
  BY <1>1, <1>2 DEF CronRow, SaveWithTasks
<1>4. TasksForm(d, e, w, cron)
  BY <1>1, <1>2 DEF Tables, TasksForm
<1> QED
  BY <1>3, <1>4

\* DeleteWorkflow.
LEMMA DeleteShape ==
  ASSUME NEW d, Tables(d), NEW s, NEW w
  PROVE  DeleteForm(d, DeleteWorkflow(s, d, w), w)
<1>1. PICK A, B, C, D :
        /\ A = Without(d.definition, {w}) /\ B = Without(d.taskDefinition, StoredTasks(d, w))
        /\ C = Without(d.instance, InstancesOf(d, w))
        /\ D = Without(d.taskInstance, RowsOf(d, InstancesOf(d, w)))
  OBVIOUS
<1>2. PICK e : e = [d EXCEPT !.definition = A, !.taskDefinition = B, !.instance = C, !.taskInstance = D]
  OBVIOUS
<1>3. DeleteWorkflow(s, d, w) = e
  BY <1>1, <1>2 DEF DeleteWorkflow, InstancesOf, RowsOf
<1>4. DeleteForm(d, e, w)
  BY <1>1, <1>2 DEF Tables, DeleteForm
<1> QED
  BY <1>3, <1>4

-----------------------------------------------------------------------------
(* What each step does to the database.                                    *)

\* The steps that add or delete rows.
AggregateSaved(c) ==
  /\ call[c].pc = "save" /\ store # "repos"
  /\ ~SaveIsRefused(store, db, call[c].wf, call[c].tasks)
  /\ db' = SaveWorkflow(store, db, call[c].wf, call[c].tasks, call[c].cron)
  /\ hist' = [hist EXCEPT !.moved = hist.moved \cup Moved(call[c].wf, call[c].tasks)]
AggregateStarted(c) ==
  /\ call[c].pc = "start" /\ store # "repos" /\ Submits(c)
  /\ db' = StartWorkflow(store, db, NextInstance, call[c].wf, call[c].tasks)
InstanceSaved(c) ==
  /\ call[c].pc = "save" /\ store = "repos" /\ Submits(c)
  /\ db' = SaveInstance(db, NextInstance, call[c].wf)
TasksSaved(c) ==
  /\ call[c].pc \in {"save", "start"} /\ store = "repos" /\ hist' = hist
  /\ \E i, tasks : db' = SaveWithTasks(db, i, call[c].wf, tasks, call[c].cron)
Deleted(w) ==
  /\ store # "repos" /\ w \in DOMAIN db.definition
  /\ db' = DeleteWorkflow(store, db, w)
  /\ hist' = [hist EXCEPT !.arrivals = hist.arrivals + 1]

RowSteps ==
  \/ \E c \in Caller : AggregateSaved(c) \/ AggregateStarted(c) \/ InstanceSaved(c) \/ TasksSaved(c)
  \/ \E w \in Wf : Deleted(w)

\* The steps that change statuses.
StatusSteps ==
  \/ \E m \in Manager : Finish(m, "Success") \/ Finish(m, "Failed") \/ HandleSignal(m)
  \/ \E i \in Instance : RestoreRunning(i) /\ RestoreInstance(i, TRUE)
  \/ \E c \in Caller : Launch(c)
  \/ \E i \in Instance : TerminateUnmanaged(i)
  \/ StopEnd

\* The steps that change the database.
LEMMA DbCases ==
  ASSUME ETypes, [EngineNext]_engineVars
  PROVE  store' = store /\ (db' = db \/ StatusSteps \/ RowSteps)
<1>1. ASSUME NEW m \in Manager, LoopsExit(m) \/ StopShutdown(m) PROVE store' = store /\ db' = db
  BY <1>1 DEF LoopsExit, StopShutdown
<1>2. CASE StartBegin \/ StartEnd \/ ListUnfinished \/ StopBegin \/ Crash \/ Exit \/ UNCHANGED engineVars
  BY <1>2 DEF StartBegin, StartEnd, ListUnfinished, StopBegin, Crash, Exit, EndOfProcess, engineVars
<1>3. ASSUME NEW i \in Instance, RestoreRunning(i) \/ RestorePaused(i)
      PROVE  store' = store /\ (db' = db \/ StatusSteps)
  <2>1. store' = store /\ ((RestoreRunning(i) /\ RestoreInstance(i, TRUE)) \/ db' = db)
    BY <1>3 DEF RestoreRunning, RestorePaused, RestoreInstance, CannotRestore
  <2> QED
    BY <2>1 DEF StatusSteps
<1>4. ASSUME NEW c \in Caller, SaveAggregate(c) PROVE store' = store /\ (db' = db \/ AggregateSaved(c))
  BY <1>4 DEF SaveAggregate, AggregateSaved
<1>5. ASSUME NEW c \in Caller, StartAggregate(c) PROVE store' = store /\ (db' = db \/ AggregateStarted(c))
  BY <1>5 DEF StartAggregate, AggregateStarted, Submits, NoCall
<1>6. ASSUME NEW c \in Caller, SaveSeparate(c) PROVE store' = store /\ (TasksSaved(c) \/ InstanceSaved(c))
  BY <1>6 DEF SaveSeparate, TasksSaved, InstanceSaved, Submits, NoCall
<1>7. ASSUME NEW c \in Caller, StartSeparate(c) PROVE store' = store /\ TasksSaved(c)
  BY <1>7 DEF StartSeparate, TasksSaved
<1>8. ASSUME NEW c \in Caller, Manage(c) \/ Schedule(c) PROVE store' = store /\ db' = db
  BY <1>8 DEF Manage, Schedule
<1>9. CASE BeginSteps
  <2>1. PICK c, kind, w, tasks, cron : Begins(c, kind, w, tasks, cron)
    BY <1>9, BeginFacts
  <2> QED
    BY <2>1 DEF Begins, Begin
<1>10. ASSUME NEW w \in Wf, Unregister(w) \/ DeleteStored(w) PROVE store' = store /\ (db' = db \/ Deleted(w))
  BY <1>10 DEF Unregister, DeleteStored, Deleted, Requested
<1>11. ASSUME \/ \E i \in Instance, signal \in {"Pause", "Resume", "Terminate"} : SendSignal(i, signal)
              \/ \E i \in Instance : ResumeUnmanaged(i)
       PROVE  store' = store /\ db' = db
  BY <1>11 DEF SendSignal, ResumeUnmanaged
<1>12. ASSUME \/ \E m \in Manager : Finish(m, "Success") \/ Finish(m, "Failed") \/ HandleSignal(m)
              \/ \E c \in Caller : Launch(c)
              \/ \E i \in Instance : TerminateUnmanaged(i)
              \/ StopEnd
       PROVE  store' = store /\ StatusSteps
  <2>1. StatusSteps
    BY <1>12 DEF StatusSteps
  <2>2. store' = store
    BY <1>12 DEF Finish, HandleSignal, Launch, TerminateUnmanaged, StopEnd
  <2> QED
    BY <2>1, <2>2
<1>13. EngineCases
  BY CasesFacts
<1> QED
  BY <1>1, <1>2, <1>3, <1>4, <1>5, <1>6, <1>7, <1>8, <1>9, <1>10, <1>11, <1>12, <1>13
     DEF EngineCases, BeginSteps, RowSteps

\* What can become of a status that is set.
StatusMoves(j) ==
  \/ \E m \in Manager :
       /\ mgr[m] # None /\ mgr[m].loop = "on" /\ mgr[m].instance = j
       /\ \/ Finish(m, "Success") /\ StatusOf(db', j) = "Success"
          \/ StatusOf(db', j) \in {"Failed", "Paused", "Running", "Terminated"}
  \/ RestoreRunning(j) /\ RestoreInstance(j, TRUE) /\ StatusOf(db', j) = "Running"
  \/ \E c \in Caller : Launch(c) /\ call[c].instance = j /\ StatusOf(db', j) = "Running"
  \/ StatusOf(db', j) = "Terminated"
  \/ /\ StopEnd /\ StatusOf(db', j) = "Paused"
     /\ \E m \in stopping : mgr[m].status = "Running" /\ mgr[m].instance = j

\* The rows stay, and what becomes of their statuses.
LEMMA StatusFacts ==
  ASSUME ETypes, StatusSteps
  PROVE  SameRows /\ \A j \in DOMAIN db.instance : StatusOf(db', j) = StatusOf(db, j) \/ StatusMoves(j)
<1>1. ASSUME NEW m \in Manager, Finish(m, "Success") PROVE SameRows /\ \A j \in DOMAIN db.instance : StatusOf(db', j) = StatusOf(db, j) \/ StatusMoves(j)
  BY <1>1, FinishSets DEF Sets, StatusMoves, Finish, Works
<1>2. ASSUME NEW m \in Manager, Finish(m, "Failed") PROVE SameRows /\ \A j \in DOMAIN db.instance : StatusOf(db', j) = StatusOf(db, j) \/ StatusMoves(j)
  BY <1>2, FinishSets DEF Sets, StatusMoves, Finish, Works
<1>3. ASSUME NEW m \in Manager, HandleSignal(m) PROVE SameRows /\ \A j \in DOMAIN db.instance : StatusOf(db', j) = StatusOf(db, j) \/ StatusMoves(j)
  BY <1>3, SignalSets DEF Sets, StatusMoves, HandleSignal
<1>4. ASSUME NEW i \in Instance, RestoreRunning(i), RestoreInstance(i, TRUE) PROVE SameRows /\ \A j \in DOMAIN db.instance : StatusOf(db', j) = StatusOf(db, j) \/ StatusMoves(j)
  BY <1>4, RestoreSets DEF Sets, StatusMoves
<1>5. ASSUME NEW c \in Caller, Launch(c) PROVE SameRows /\ \A j \in DOMAIN db.instance : StatusOf(db', j) = StatusOf(db, j) \/ StatusMoves(j)
  BY <1>5, LaunchSets DEF Sets, StatusMoves
<1>6. ASSUME NEW i \in Instance, TerminateUnmanaged(i) PROVE SameRows /\ \A j \in DOMAIN db.instance : StatusOf(db', j) = StatusOf(db, j) \/ StatusMoves(j)
  BY <1>6, TerminateSets, SameFacts DEF Sets, StatusMoves
<1>7. CASE StopEnd
  BY <1>7, StopEndFacts DEF StatusMoves
<1> QED
  BY <1>1, <1>2, <1>3, <1>4, <1>5, <1>6, <1>7 DEF StatusSteps

\* What a database must be, for a history.
RowsOK(d, h) ==
  /\ Tables(d)
  /\ DOMAIN d.definition \subseteq h.used
  /\ \A w \in DOMAIN d.definition : d.definition[w] \in [cron: BOOLEAN]
  /\ DOMAIN d.taskDefinition \subseteq Task
  /\ \A t \in DOMAIN d.taskDefinition : d.taskDefinition[t] \in h.used
  /\ DOMAIN d.instance \subseteq DOMAIN h.want
  /\ \A i \in DOMAIN d.instance : d.instance[i] \in InstanceRow /\ d.instance[i].workflow \in h.used
KeysOK(s, d) ==
  /\ s # "repos" => TaskRowsHaveInstances(d)
  /\ s = "mysql" => DefinitionsHaveWorkflows(d)

\* The parts are DbOK.
LEMMA DbOKParts == DbOK <=> RowsOK(db, hist) /\ KeysOK(store, db)
BY DEF DbOK, RowsOK, KeysOK, Tables, InstanceRow

\* The same after a step.
LEMMA DbOKPartsNext == DbOK' <=> RowsOK(db', hist') /\ KeysOK(store', db')
BY DEF DbOK, RowsOK, KeysOK, Tables, InstanceRow, TaskRowsHaveInstances, DefinitionsHaveWorkflows, Statuses, Final

\* A longer history does no harm.
LEMMA RowsGrow ==
  ASSUME NEW d, NEW h, NEW k, RowsOK(d, h), h.used \subseteq k.used, DOMAIN h.want \subseteq DOMAIN k.want
  PROVE  RowsOK(d, k)
BY DEF RowsOK

\* A change of statuses leaves the rows and the keys right.
LEMMA StatusKeepsRows ==
  ASSUME NEW d, NEW e, NEW h, NEW s, RowsOK(d, h), KeysOK(s, d), Tables(e), SameButStatus(d, e)
  PROVE  RowsOK(e, h) /\ KeysOK(s, e)
<1>1. RowsOK(e, h)
  BY DEF RowsOK, SameButStatus
<1>2. KeysOK(s, e)
  BY DEF KeysOK, SameButStatus, TaskRowsHaveInstances, DefinitionsHaveWorkflows
<1> QED
  BY <1>1, <1>2

\* So does SaveWorkflow: with foreign keys a workflow that would go to the row of
\* another id has no tasks, or is refused.
LEMMA SaveKeepsRows ==
  ASSUME NEW d, NEW e, NEW h, NEW s, NEW w \in h.used, NEW tasks \in SUBSET Task, NEW cron \in BOOLEAN,
         RowsOK(d, h), KeysOK(s, d), ~SaveIsRefused(s, d, w, tasks), SaveForm(d, e, w, tasks, cron)
  PROVE  RowsOK(e, h) /\ KeysOK(s, e)
<1>2. PICK r, X : r = RowOf(d, w) /\ X = Without(d.taskDefinition, StoredTasks(d, w))
  OBVIOUS
<1>3. /\ Tables(e) /\ e.definition = Put(d.definition, {r}, CronRow(cron))
      /\ e.taskDefinition = Put(X, tasks, w)
      /\ e.instance = d.instance /\ e.taskInstance = d.taskInstance
  BY <1>2 DEF SaveForm
<1>4. /\ DOMAIN e.definition = {r} \cup DOMAIN d.definition
      /\ \A v \in DOMAIN e.definition : e.definition[v] = CronRow(cron) \/ (v \in DOMAIN d.definition /\ e.definition[v] = d.definition[v])
  BY <1>3 DEF Put
<1>5. /\ DOMAIN X \subseteq DOMAIN d.taskDefinition /\ \A t \in DOMAIN X : X[t] = d.taskDefinition[t] /\ X[t] # w
  BY <1>2 DEF Without, StoredTasks
<1>6. /\ DOMAIN e.taskDefinition = tasks \cup DOMAIN X
      /\ \A t \in tasks : e.taskDefinition[t] = w
      /\ \A t \in DOMAIN X \ tasks : e.taskDefinition[t] = X[t]
  BY <1>3 DEF Put
<1>7. r \in h.used
  BY <1>2, RowFacts DEF RowsOK
<1>8. RowsOK(e, h)
  <2>1. DOMAIN e.definition \subseteq h.used /\ \A v \in DOMAIN e.definition : e.definition[v] \in [cron: BOOLEAN]
    BY <1>4, <1>7 DEF RowsOK, CronRow
  <2>2. DOMAIN e.taskDefinition \subseteq Task
    BY <1>5, <1>6 DEF RowsOK
  <2>3. \A t \in DOMAIN e.taskDefinition : e.taskDefinition[t] \in h.used
    BY <1>5, <1>6 DEF RowsOK
  <2> QED
    BY <1>3, <2>1, <2>2, <2>3 DEF RowsOK
<1>9. s = "mysql" => DefinitionsHaveWorkflows(e)
  <2>1. SUFFICES ASSUME s = "mysql", NEW t \in DOMAIN e.taskDefinition
                 PROVE  e.taskDefinition[t] \in DOMAIN e.definition
    BY DEF DefinitionsHaveWorkflows
  <2>2. CASE t \in tasks
    <3>1. RowOf(d, w) = w
      BY <2>1, <2>2 DEF SaveIsRefused, ForeignKeys
    <3> QED
      BY <1>2, <1>4, <1>6, <2>2, <3>1
  <2>3. CASE t \notin tasks
    <3>1. t \in DOMAIN d.taskDefinition /\ e.taskDefinition[t] = d.taskDefinition[t]
      BY <1>5, <1>6, <2>3
    <3> QED
      BY <1>4, <2>1, <3>1 DEF KeysOK, DefinitionsHaveWorkflows
  <2> QED
    BY <2>2, <2>3
<1>10. s # "repos" => TaskRowsHaveInstances(e)
  BY <1>3 DEF KeysOK, TaskRowsHaveInstances
<1> QED
  BY <1>8, <1>9, <1>10 DEF KeysOK

\* A row of a new instance.
LEMMA NewRow ==
  ASSUME NEW d, NEW e, NEW h, NEW k, NEW i \in DOMAIN k.want, NEW w \in Wf, w \in h.used,
         h.used \subseteq k.used, DOMAIN h.want \subseteq DOMAIN k.want,
         RowsOK(d, h), InstanceForm(d, e, i, w)
  PROVE  RowsOK(e, k)
<1>1. DOMAIN e.instance = {i} \cup DOMAIN d.instance
  BY DEF Put, InstanceForm
<1>2. e.instance[i] = ReadyRow(w)
  BY DEF Put, InstanceForm
<1>3. \A j \in DOMAIN d.instance : j # i => e.instance[j] = d.instance[j]
  BY DEF Put, InstanceForm
<1>4. ReadyRow(w) \in InstanceRow /\ ReadyRow(w).workflow = w
  BY DEF InstanceRow, Statuses, ReadyRow
<1>5. \A j \in DOMAIN e.instance : e.instance[j] \in InstanceRow /\ e.instance[j].workflow \in k.used
  <2>1. e.instance[i] \in InstanceRow /\ e.instance[i].workflow \in k.used
    BY <1>2, <1>4
  <2>2. \A j \in DOMAIN d.instance : d.instance[j] \in InstanceRow /\ d.instance[j].workflow \in k.used
    BY DEF RowsOK
  <2> QED
    BY <1>1, <1>3, <2>1, <2>2
<1>6. DOMAIN e.instance \subseteq DOMAIN k.want
  BY <1>1 DEF RowsOK
<1> QED
  BY <1>5, <1>6 DEF RowsOK, InstanceForm

\* So does SaveWithTasks.
LEMMA TasksKeepRows ==
  ASSUME NEW d, NEW e, NEW h, NEW w \in h.used, NEW cron \in BOOLEAN, RowsOK(d, h), TasksForm(d, e, w, cron)
  PROVE  RowsOK(e, h)
<1>1. /\ DOMAIN e.definition = {w} \cup DOMAIN d.definition
      /\ \A v \in DOMAIN e.definition : e.definition[v] = CronRow(cron) \/ (v \in DOMAIN d.definition /\ e.definition[v] = d.definition[v])
  BY DEF TasksForm, Put
<1>2. DOMAIN e.definition \subseteq h.used /\ \A v \in DOMAIN e.definition : e.definition[v] \in [cron: BOOLEAN]
  BY <1>1 DEF RowsOK, CronRow
<1> QED
  BY <1>2 DEF RowsOK, TasksForm

\* So does DeleteWorkflow: the rows of the tasks go with their instances.
LEMMA DeleteKeepsRows ==
  ASSUME NEW d, NEW e, NEW h, NEW s, NEW w, RowsOK(d, h), KeysOK(s, d), DeleteForm(d, e, w)
  PROVE  RowsOK(e, h) /\ KeysOK(s, e)
<1>2. PICK gone : gone = InstancesOf(d, w)
  OBVIOUS
<1>3. /\ Tables(e) /\ e.definition = Without(d.definition, {w})
      /\ e.taskDefinition = Without(d.taskDefinition, StoredTasks(d, w))
      /\ e.instance = Without(d.instance, gone)
      /\ e.taskInstance = Without(d.taskInstance, RowsOf(d, gone))
  BY <1>2 DEF DeleteForm
<1>4. DOMAIN e.definition = DOMAIN d.definition \ {w} /\ \A v \in DOMAIN e.definition : e.definition[v] = d.definition[v]
  BY <1>3 DEF Without
<1>5. /\ DOMAIN e.taskDefinition = DOMAIN d.taskDefinition \ StoredTasks(d, w)
      /\ \A t \in DOMAIN e.taskDefinition : e.taskDefinition[t] = d.taskDefinition[t]
  BY <1>3 DEF Without
<1>6. DOMAIN e.instance = DOMAIN d.instance \ gone /\ \A i \in DOMAIN e.instance : e.instance[i] = d.instance[i]
  BY <1>3 DEF Without
<1>7. /\ DOMAIN e.taskInstance = DOMAIN d.taskInstance \ RowsOf(d, gone)
      /\ \A t \in DOMAIN e.taskInstance : e.taskInstance[t] = d.taskInstance[t]
  BY <1>3 DEF Without
<1>8. RowsOK(e, h)
  BY <1>3, <1>4, <1>5, <1>6 DEF RowsOK
<1>9. s = "mysql" => DefinitionsHaveWorkflows(e)
  BY <1>4, <1>5 DEF KeysOK, DefinitionsHaveWorkflows, StoredTasks
<1>10. s # "repos" => TaskRowsHaveInstances(e)
  BY <1>6, <1>7 DEF KeysOK, TaskRowsHaveInstances, RowsOf
<1> QED
  BY <1>8, <1>9, <1>10 DEF KeysOK

\* Where a row of an instance comes from.
RowFrom(j) ==
  \/ /\ j \in DOMAIN db.instance /\ db'.instance[j].workflow = db.instance[j].workflow
     /\ StatusOf(db', j) = StatusOf(db, j) \/ StatusMoves(j)
  \/ /\ j = NextInstance /\ StatusOf(db', j) = "Ready"
     /\ \E c \in Caller : Submits(c) /\ db'.instance[j].workflow = call[c].wf

DbStep == DbOK' /\ \A j \in DOMAIN db'.instance : RowFrom(j)

\* What of the history the database depends on.
LEMMA HistParts ==
  ASSUME ETypes, [EngineNext]_engineVars
  PROVE  hist.used \subseteq hist'.used /\ DOMAIN hist.want \subseteq DOMAIN hist'.want
BY HistGrows, HistTypes DEF HistGrowth

\* A new instance is written down with the tasks of its call.
LEMMA SubmitsWant ==
  ASSUME ETypes, NEW c \in Caller, Submits(c)
  PROVE  /\ NextInstance \in DOMAIN hist'.want /\ NextInstance \in Instance
         /\ hist'.want[NextInstance] = call[c].tasks
         /\ call[c] \in CallSet /\ call[c].wf \in hist.used
<1>1. hist'.want = Put(hist.want, {NextInstance}, call[c].tasks)
  BY DEF Submits, ETypes, HistOK
<1>2. call[c] \in CallSet /\ call[c].wf \in hist.used
  BY DEF Submits, ETypes, CallsOK
<1>3. NextInstance \in DOMAIN hist'.want
  BY <1>1 DEF Put
<1>4. hist'.want[NextInstance] = call[c].tasks
  BY <1>1 DEF Put
<1> QED
  BY <1>2, <1>3, <1>4 DEF Submits

\* A step that adds a row of an instance.
LEMMA InstanceSteps ==
  ASSUME ETypes, [EngineNext]_engineVars, store' = store, NEW c \in Caller, Submits(c),
         InstanceForm(db, db', NextInstance, call[c].wf), KeysOK(store, db')
  PROVE  DbStep
<1>1. RowsOK(db, hist)
  BY DbOKParts DEF ETypes
<1>2. PICK n, w : n = NextInstance /\ w = call[c].wf
  OBVIOUS
<1>3. n \in DOMAIN hist'.want /\ w \in Wf /\ w \in hist.used
  BY <1>2, SubmitsWant DEF CallSet
<1>4. n \notin DOMAIN db.instance
  BY <1>1, <1>2, SubmitFacts DEF RowsOK
<1>5. InstanceForm(db, db', n, w)
  BY <1>2
<1>6. /\ RowsOK(db', hist') /\ DOMAIN db'.instance = {n} \cup DOMAIN db.instance
      /\ db'.instance[n] = ReadyRow(w)
      /\ \A j \in DOMAIN db.instance : j # n => db'.instance[j] = db.instance[j]
  <2>1. RowsOK(db', hist')
    BY <1>1, <1>3, <1>5, NewRow, HistParts
  <2>2. DOMAIN db'.instance = {n} \cup DOMAIN db.instance /\ db'.instance[n] = ReadyRow(w)
    BY <1>5 DEF InstanceForm, Put
  <2>3. \A j \in DOMAIN db.instance : j # n => db'.instance[j] = db.instance[j]
    BY <1>5 DEF InstanceForm, Put
  <2> QED
    BY <2>1, <2>2, <2>3
<1>7. DbOK'
  BY <1>6, DbOKPartsNext
<1>8. RowFrom(n)
  BY <1>2, <1>6 DEF RowFrom, StatusOf, ReadyRow
<1>9. \A j \in DOMAIN db.instance : RowFrom(j)
  BY <1>4, <1>6 DEF RowFrom, StatusOf
<1> QED
  BY <1>6, <1>7, <1>8, <1>9 DEF DbStep

\* The database keeps its types and its keys.
LEMMA DbTypes ==
  ASSUME ETypes, [EngineNext]_engineVars
  PROVE  DbStep /\ store' = store
<1>0. store' = store /\ (db' = db \/ StatusSteps \/ RowSteps)
  BY DbCases
<1>1. RowsOK(db, hist) /\ KeysOK(store, db) /\ Tables(db)
  BY DbOKParts DEF ETypes, RowsOK
<1>2. CASE db' = db \/ StatusSteps
  <2>1. SameRows /\ \A j \in DOMAIN db.instance : StatusOf(db', j) = StatusOf(db, j) \/ StatusMoves(j)
    BY <1>2, SameFacts, StatusFacts
  <2>2. RowsOK(db', hist) /\ KeysOK(store, db')
    BY <1>1, <2>1, StatusKeepsRows DEF SameRows
  <2>3. RowsOK(db', hist')
    BY <2>2, HistParts, RowsGrow
  <2>4. DbOK'
    BY <1>0, <2>2, <2>3, DbOKPartsNext
  <2>5. \A j \in DOMAIN db'.instance : RowFrom(j)
    BY <2>1 DEF SameRows, SameButStatus, RowFrom
  <2> QED
    BY <1>0, <2>4, <2>5 DEF DbStep
<1>3. ASSUME NEW c \in Caller, AggregateSaved(c) PROVE DbStep
  <2>1. call[c] \in CallSet /\ call[c].wf \in hist.used
    BY <1>3, CallFacts DEF AggregateSaved, ETypes, CallsOK
  <2>2. PICK w \in hist.used, tasks \in SUBSET Task, cron \in BOOLEAN :
          w = call[c].wf /\ tasks = call[c].tasks /\ cron = call[c].cron
    BY <2>1 DEF CallSet
  <2>3. SaveForm(db, db', w, tasks, cron) /\ ~SaveIsRefused(store, db, w, tasks)
    BY <1>1, <1>3, <2>2, SaveShape DEF AggregateSaved
  <2>4. RowsOK(db', hist) /\ KeysOK(store, db')
    BY <1>1, <2>3, SaveKeepsRows
  <2>5. DbOK'
    BY <1>0, <2>4, HistParts, RowsGrow, DbOKPartsNext
  <2>6. db'.instance = db.instance
    BY <2>3 DEF SaveForm
  <2> QED
    BY <2>5, <2>6 DEF DbStep, RowFrom, StatusOf
<1>4. ASSUME NEW c \in Caller, AggregateStarted(c) PROVE DbStep
  <2>1. InstanceForm(db, db', NextInstance, call[c].wf) /\ NewTaskRows(db, db', NextInstance)
    BY <1>1, <1>4, StartShape DEF AggregateStarted
  <2>2. DOMAIN db'.instance = {NextInstance} \cup DOMAIN db.instance
    BY <2>1 DEF InstanceForm, Put
  <2>3. KeysOK(store, db')
    <3>1. TaskRowsHaveInstances(db')
      BY <1>1, <1>4, <2>1, <2>2 DEF AggregateStarted, KeysOK, TaskRowsHaveInstances, NewTaskRows
    <3>2. store = "mysql" => DefinitionsHaveWorkflows(db')
      BY <1>1, <2>1 DEF KeysOK, DefinitionsHaveWorkflows, InstanceForm
    <3> QED
      BY <3>1, <3>2 DEF KeysOK
  <2> QED
    BY <1>0, <1>4, <2>1, <2>3, InstanceSteps DEF AggregateStarted
<1>5. ASSUME NEW c \in Caller, InstanceSaved(c) PROVE DbStep
  <2>1. InstanceForm(db, db', NextInstance, call[c].wf)
    BY <1>1, <1>5, SaveInstanceShape DEF InstanceSaved
  <2>2. KeysOK(store, db')
    BY <1>5 DEF InstanceSaved, KeysOK
  <2> QED
    BY <1>0, <1>5, <2>1, <2>2, InstanceSteps DEF InstanceSaved
<1>6. ASSUME NEW c \in Caller, TasksSaved(c) PROVE DbStep
  <2>1. call[c] \in CallSet /\ call[c].wf \in hist.used
    BY <1>6, CallFacts DEF TasksSaved, ETypes, CallsOK
  <2>2. PICK w \in hist.used, cron \in BOOLEAN : w = call[c].wf /\ cron = call[c].cron
    BY <2>1 DEF CallSet
  <2>3. TasksForm(db, db', w, cron)
    BY <1>1, <1>6, <2>2, SaveTasksShape DEF TasksSaved
  <2>4. RowsOK(db', hist)
    BY <1>1, <2>3, TasksKeepRows
  <2>5. DbOK'
    BY <1>0, <1>6, <2>4, HistParts, RowsGrow, DbOKPartsNext DEF KeysOK, TasksSaved
  <2>6. db'.instance = db.instance
    BY <2>3 DEF TasksForm
  <2> QED
    BY <2>5, <2>6 DEF DbStep, RowFrom, StatusOf
<1>7. ASSUME NEW w \in Wf, Deleted(w) PROVE DbStep
  <2>1. DeleteForm(db, db', w)
    BY <1>1, <1>7, DeleteShape DEF Deleted
  <2>2. RowsOK(db', hist) /\ KeysOK(store, db')
    BY <1>1, <2>1, DeleteKeepsRows
  <2>3. DbOK'
    BY <1>0, <2>2, HistParts, RowsGrow, DbOKPartsNext
  <2>4. \A j \in DOMAIN db'.instance : j \in DOMAIN db.instance /\ db'.instance[j] = db.instance[j]
    BY <2>1 DEF DeleteForm, Without
  <2> QED
    BY <2>3, <2>4 DEF DbStep, RowFrom, StatusOf
<1> QED
  BY <1>0, <1>2, <1>3, <1>4, <1>5, <1>6, <1>7 DEF RowSteps

-----------------------------------------------------------------------------
(* Calls.                                                                  *)

\* Where a call comes from.
CallMoves(c) ==
  \/ AggregateSaved(c) /\ call'[c].pc = "start"
  \/ /\ Submits(c) /\ call'[c].instance = NextInstance
     /\ call'[c].pc = (IF store = "repos" THEN "start" ELSE "manage")
     /\ \A d \in Caller : d # c => call'[d] = call[d]
     /\ mgr' = mgr /\ todo' = todo /\ managers' = managers
  \/ /\ call[c].pc = "start" /\ store = "repos" /\ call'[c].pc = "manage"
     /\ call'[c].instance = call[c].instance
  \/ Manage(c) /\ call'[c].pc = "launch" /\ call'[c].instance = call[c].instance
  \/ Launch(c) /\ call'[c].pc = "schedule" /\ call'[c].instance = call[c].instance
CallFrom(c) ==
  \/ call'[c] = NoCall
  \/ call'[c] = call[c]
  \/ \E kind, w, tasks, cron : /\ Begins(c, kind, w, tasks, cron) /\ call'[c].pc = "save"
                               /\ call'[c].wf = w /\ call'[c].tasks = tasks
  \/ call'[c].wf = call[c].wf /\ call'[c].tasks = call[c].tasks /\ CallMoves(c)
CallStep == CallsOK' /\ \A c \in Caller : CallFrom(c)

\* The parts are CallsOK.
LEMMA CallsOKParts == CallsOK' <=> /\ call' \in [Caller -> CallSet \cup {NoCall}]
                                   /\ \A c \in Caller : call'[c] # NoCall => call'[c].wf \in hist'.used
BY DEF CallsOK, CallSet, NoCall

\* The calls stay.
LEMMA SameCalls ==
  ASSUME ETypes, [EngineNext]_engineVars, call' = call
  PROVE  CallStep
BY HistParts, CallsOKParts DEF ETypes, CallsOK, CallStep, CallFrom

\* One call changes.
LEMMA OneCall ==
  ASSUME ETypes, [EngineNext]_engineVars, NEW c \in Caller, NEW r,
         call' = [call EXCEPT ![c] = r], r = NoCall \/ (r \in CallSet /\ r.wf \in hist'.used), CallFrom(c)
  PROVE  CallStep
<1>1. call \in [Caller -> CallSet \cup {NoCall}] /\ \A d \in Caller : call[d] # NoCall => call[d].wf \in hist'.used
  BY HistParts DEF ETypes, CallsOK
<1>2. call' \in [Caller -> CallSet \cup {NoCall}]
  BY <1>1
<1>3. \A d \in Caller : call'[d] # NoCall => call'[d].wf \in hist'.used
  BY <1>1
<1>4. \A d \in Caller : CallFrom(d)
  <2>1. \A d \in Caller : d # c => call'[d] = call[d]
    BY <1>1
  <2> QED
    BY <2>1 DEF CallFrom
<1> QED
  BY <1>2, <1>3, <1>4, CallsOKParts DEF CallStep

\* A call returns.
LEMMA Returned ==
  ASSUME ETypes, [EngineNext]_engineVars, NEW c \in Caller, Return(c)
  PROVE  CallStep
<1>1. call' = [call EXCEPT ![c] = NoCall]
  BY DEF Return
<1>2. call'[c] = NoCall
  BY <1>1 DEF ETypes, CallsOK
<1>3. CallFrom(c)
  BY <1>2 DEF CallFrom
<1> QED
  BY <1>1, <1>3, OneCall

\* A call that goes on: its workflow and its tasks stay.
LEMMA GoesOn ==
  ASSUME ETypes, [EngineNext]_engineVars, NEW c \in Caller, call[c].pc # "idle",
         NEW r \in CallSet, r.wf = call[c].wf, r.tasks = call[c].tasks,
         call' = [call EXCEPT ![c] = r], CallMoves(c)
  PROVE  CallStep
<1>1. call[c].wf \in hist'.used
  BY CallFacts, HistParts DEF ETypes, CallsOK
<1>2. call'[c] = r
  BY DEF ETypes, CallsOK
<1>3. CallFrom(c)
  BY <1>2 DEF CallFrom
<1> QED
  BY <1>1, <1>3, OneCall

\* The calls keep their types.
LEMMA CallTypes ==
  ASSUME ETypes, [EngineNext]_engineVars
  PROVE  CallStep
<1>0. call \in [Caller -> CallSet \cup {NoCall}]
  BY DEF ETypes, CallsOK
<1>1. CASE call' = call
  BY <1>1, SameCalls
<1>2. ASSUME NEW c \in Caller, Return(c) PROVE CallStep
  BY <1>2, Returned
<1>3. CASE BeginSteps
  <2>1. PICK c, kind, w, tasks, cron : Begins(c, kind, w, tasks, cron)
    BY <1>3, BeginFacts
  <2>2. PICK r : r = [pc |-> "save", kind |-> kind, wf |-> w, tasks |-> tasks, cron |-> cron,
                      instance |-> None, manager |-> None]
    OBVIOUS
  <2>3. call' = [call EXCEPT ![c] = r] /\ c \in Caller
    BY <2>1, <2>2 DEF Begins, Begin
  <2>4. r \in CallSet /\ r.pc = "save" /\ r.wf = w /\ r.tasks = tasks
    BY <2>1, <2>2 DEF Begins, CallSet
  <2>5. w \in hist'.used
    <3>1. PICK n : hist' = [hist EXCEPT !.arrivals = n, !.used = hist.used \cup {w}]
      BY <2>1 DEF Begins, Begin
    <3> QED
      BY <3>1 DEF ETypes, HistOK
  <2>6. call'[c] = r
    BY <1>0, <2>3
  <2>7. CallFrom(c)
    BY <2>1, <2>4, <2>6 DEF CallFrom
  <2> QED
    BY <2>3, <2>4, <2>5, <2>7, OneCall
<1>4. ASSUME NEW c \in Caller, SaveAggregate(c) PROVE CallStep
  <2>1. Return(c) \/ (AggregateSaved(c) /\ call' = [call EXCEPT ![c].pc = "start"])
    BY <1>4 DEF SaveAggregate, AggregateSaved
  <2>2. ASSUME AggregateSaved(c), call' = [call EXCEPT ![c].pc = "start"] PROVE CallStep
    <3>1. call[c] \in CallSet /\ call[c].pc # "idle"
      BY <2>2, CallFacts DEF AggregateSaved
    <3>2. PICK r : r = [call[c] EXCEPT !.pc = "start"]
      OBVIOUS
    <3>3. r \in CallSet /\ r.wf = call[c].wf /\ r.tasks = call[c].tasks /\ r.pc = "start"
      BY <3>1, <3>2 DEF CallSet
    <3>4. call' = [call EXCEPT ![c] = r] /\ call'[c] = r
      BY <1>0, <2>2, <3>2
    <3>5. CallMoves(c)
      BY <2>2, <3>3, <3>4 DEF CallMoves
    <3> QED
      BY <3>1, <3>3, <3>4, <3>5, GoesOn
  <2> QED
    BY <1>2, <2>1, <2>2
<1>5. ASSUME NEW c \in Caller, Submits(c), mgr' = mgr /\ todo' = todo /\ managers' = managers,
             call' = [call EXCEPT ![c].pc = (IF store = "repos" THEN "start" ELSE "manage"), ![c].instance = NextInstance]
      PROVE  CallStep
  <2>1. call[c] \in CallSet /\ call[c].pc # "idle" /\ NextInstance \in Instance
    BY <1>5, SubmitsWant DEF Submits, CallSet
  <2>2. PICK p \in {"start", "manage"} : p = IF store = "repos" THEN "start" ELSE "manage"
    OBVIOUS
  <2>8. PICK n \in Instance : n = NextInstance
    BY <2>1
  <2>3. PICK r : r = [call[c] EXCEPT !.pc = p, !.instance = n]
    OBVIOUS
  <2>4. r \in CallSet /\ r.wf = call[c].wf /\ r.tasks = call[c].tasks /\ r.pc = p /\ r.instance = NextInstance
    BY <2>1, <2>3, <2>8 DEF CallSet
  <2>5. call' = [call EXCEPT ![c] = r]
    BY <1>0, <1>5, <2>2, <2>3, <2>8
  <2>6. call'[c] = r /\ \A d \in Caller : d # c => call'[d] = call[d]
    BY <1>0, <2>5
  <2>7. CallMoves(c)
    BY <1>5, <2>2, <2>4, <2>6 DEF CallMoves
  <2> QED
    BY <2>1, <2>4, <2>5, <2>7, GoesOn
<1>6. ASSUME NEW c \in Caller, StartAggregate(c) \/ SaveSeparate(c) PROVE CallStep
  <2>1. \/ Return(c)
        \/ /\ Submits(c) /\ mgr' = mgr /\ todo' = todo /\ managers' = managers
           /\ call' = [call EXCEPT ![c].pc = (IF store = "repos" THEN "start" ELSE "manage"), ![c].instance = NextInstance]
    <3>1. CASE StartAggregate(c)
      BY <3>1 DEF StartAggregate, Submits, NoCall
    <3>2. CASE SaveSeparate(c)
      BY <3>2 DEF SaveSeparate, Submits, NoCall
    <3> QED
      BY <1>6, <3>1, <3>2
  <2> QED
    BY <1>2, <1>5, <2>1
<1>7. ASSUME NEW c \in Caller, StartSeparate(c) PROVE CallStep
  <2>1. call[c] \in CallSet /\ call[c].pc = "start" /\ store = "repos" /\ call' = [call EXCEPT ![c].pc = "manage"]
    BY <1>7, CallFacts DEF StartSeparate
  <2>2. PICK r : r = [call[c] EXCEPT !.pc = "manage"]
    OBVIOUS
  <2>3. /\ r \in CallSet /\ r.wf = call[c].wf /\ r.tasks = call[c].tasks /\ r.pc = "manage"
        /\ r.instance = call[c].instance
    BY <2>1, <2>2 DEF CallSet
  <2>4. call' = [call EXCEPT ![c] = r] /\ call'[c] = r
    BY <1>0, <2>1, <2>2
  <2>5. CallMoves(c)
    BY <2>1, <2>3, <2>4 DEF CallMoves
  <2> QED
    BY <2>1, <2>3, <2>4, <2>5, GoesOn
<1>8. ASSUME NEW c \in Caller, Manage(c) PROVE CallStep
  <2>1. call[c] \in CallSet /\ call[c].pc = "manage"
    BY <1>8, CallFacts DEF Manage
  <2>2. PICK m \in FreeManager : call' = [call EXCEPT ![c].pc = "launch", ![c].manager = m]
    BY <1>8 DEF Manage
  <2>3. PICK r : r = [call[c] EXCEPT !.pc = "launch", !.manager = m]
    OBVIOUS
  <2>4. /\ r \in CallSet /\ r.wf = call[c].wf /\ r.tasks = call[c].tasks /\ r.pc = "launch"
        /\ r.instance = call[c].instance
    BY <2>1, <2>3 DEF CallSet, FreeManager
  <2>5. call' = [call EXCEPT ![c] = r] /\ call'[c] = r
    BY <1>0, <2>2, <2>3
  <2>6. CallMoves(c)
    BY <1>8, <2>4, <2>5 DEF CallMoves
  <2> QED
    BY <2>1, <2>4, <2>5, <2>6, GoesOn
<1>9. ASSUME NEW c \in Caller, Launch(c) PROVE CallStep
  <2>1. call[c] \in CallSet /\ call[c].pc = "launch"
    BY <1>9, CallFacts DEF Launch
  <2>2. Return(c) \/ call' = [call EXCEPT ![c].pc = "schedule"]
    BY <1>9 DEF Launch
  <2>3. CASE call' = [call EXCEPT ![c].pc = "schedule"]
    <3>1. PICK r : r = [call[c] EXCEPT !.pc = "schedule"]
      OBVIOUS
    <3>2. /\ r \in CallSet /\ r.wf = call[c].wf /\ r.tasks = call[c].tasks /\ r.pc = "schedule"
          /\ r.instance = call[c].instance
      BY <2>1, <3>1 DEF CallSet
    <3>3. call' = [call EXCEPT ![c] = r] /\ call'[c] = r
      BY <1>0, <2>3, <3>1
    <3>4. CallMoves(c)
      BY <1>9, <3>2, <3>3 DEF CallMoves
    <3> QED
      BY <2>1, <3>2, <3>3, <3>4, GoesOn
  <2> QED
    BY <1>2, <2>2, <2>3
<1>10. ASSUME NEW c \in Caller, Schedule(c) PROVE CallStep
  BY <1>2, <1>10 DEF Schedule
<1>11. CASE Crash \/ Exit
  <2>1. call' = [c \in Caller |-> NoCall]
    BY <1>11 DEF Crash, Exit, EndOfProcess
  <2>2. \A c \in Caller : call'[c] = NoCall
    BY <2>1
  <2>3. CallsOK'
    BY <2>1, <2>2, CallsOKParts
  <2> QED
    BY <2>2, <2>3 DEF CallStep, CallFrom
<1>12. ASSUME \/ \E m \in Manager : Finish(m, "Success") \/ Finish(m, "Failed") \/ HandleSignal(m)
              \/ \E m \in Manager : LoopsExit(m) \/ StopShutdown(m)
              \/ StartBegin \/ StartEnd \/ ListUnfinished \/ StopBegin \/ StopEnd
              \/ \E i \in Instance : RestoreRunning(i) \/ RestorePaused(i)
              \/ \E w \in Wf : Unregister(w) \/ DeleteStored(w)
              \/ \E i \in Instance, signal \in {"Pause", "Resume", "Terminate"} : SendSignal(i, signal)
              \/ \E i \in Instance : ResumeUnmanaged(i) \/ TerminateUnmanaged(i)
              \/ UNCHANGED engineVars
       PROVE  call' = call
  BY <1>12 DEF Finish, HandleSignal, LoopsExit, StopShutdown, StartBegin, StartEnd, ListUnfinished,
     StopBegin, StopEnd, RestoreRunning, RestorePaused, Unregister, DeleteStored, SendSignal,
     ResumeUnmanaged, TerminateUnmanaged, engineVars
<1>13. EngineCases
  BY CasesFacts
<1> QED
  BY <1>1, <1>3, <1>4, <1>6, <1>7, <1>8, <1>9, <1>10, <1>11, <1>12, <1>13 DEF EngineCases, BeginSteps

-----------------------------------------------------------------------------
(* Managers.                                                               *)

\* The steps of the managers.
MgrSame == mgr' = mgr /\ managers' = managers /\ stopping' = stopping
MgrChanged(m, r) ==
  /\ m \in Manager /\ mgr[m] # None /\ r \in ManagerRecord
  /\ r.instance = mgr[m].instance /\ r.tasks = mgr[m].tasks
  /\ mgr' = [mgr EXCEPT ![m] = r] /\ managers' = managers /\ stopping' = stopping
  /\ \/ r.loop = mgr[m].loop /\ r.status = mgr[m].status
     \/ mgr[m].loop = "on"
     \/ \E c \in Caller : Launch(c) /\ call[c].manager = m
MgrNew(m, r, i) ==
  /\ m \in Manager /\ mgr[m] = None /\ r \in ManagerRecord
  /\ i \in Instance /\ i \in DOMAIN hist.want /\ r.instance = i
  /\ mgr' = [mgr EXCEPT ![m] = r] /\ managers' = [managers EXCEPT ![i] = m] /\ stopping' = stopping
  /\ \/ \E c \in Caller : /\ Manage(c) /\ call[c].instance = i /\ r.tasks = call[c].tasks
                          /\ r.loop = "none" /\ r.status = "Ready"
     \/ /\ WorkflowIsThere(i) /\ i \in DOMAIN db.instance /\ r.tasks = LoadedTasks(i)
        /\ hist'.restored = hist.restored \cup {i}
        /\ \/ RestoreRunning(i)
           \/ RestorePaused(i) /\ r.loop = "none"
           \/ ResumeUnmanaged(i) /\ r.loop = "none"

\* A new manager's record.
LEMMA NewManagerFacts ==
  ASSUME NEW i \in Instance, NEW T \in SUBSET Task, NEW s \in Statuses
  PROVE  /\ NewManager(i, T, s) \in ManagerRecord
         /\ NewManager(i, T, s).instance = i /\ NewManager(i, T, s).tasks = T
         /\ NewManager(i, T, s).loop = "none" /\ NewManager(i, T, s).status = s
         /\ Started(NewManager(i, T, s)) \in ManagerRecord
         /\ Started(NewManager(i, T, s)).instance = i /\ Started(NewManager(i, T, s)).tasks = T
<1>1. PICK r : r = NewManager(i, T, s)
  OBVIOUS
<1>2. <<>> \in Seq({"Pause", "Resume", "Terminate"})
  OBVIOUS
<1>3. /\ r \in ManagerRecord /\ r.instance = i /\ r.tasks = T /\ r.loop = "none" /\ r.status = s
  BY <1>1, <1>2 DEF NewManager, ManagerRecord
<1>4. PICK q : q = Started(r)
  OBVIOUS
<1>5. q \in ManagerRecord /\ q.instance = i /\ q.tasks = T
  BY <1>3, <1>4 DEF Started, ManagerRecord, Statuses
<1> QED
  BY <1>1, <1>3, <1>4, <1>5

\* What a restore finds has its types.
LEMMA LoadedFacts ==
  ASSUME ETypes, NEW i \in DOMAIN db.instance
  PROVE  LoadedTasks(i) \in SUBSET Task /\ db.instance[i].status \in Statuses
<1>1. \A w : StoredTasks(db, w) \subseteq Task
  BY DEF StoredTasks, ETypes, DbOK
<1> QED
  BY <1>1 DEF LoadedTasks, ETypes, DbOK

\* The engine's maps have their types.
LEMMA TypesOfMaps ==
  ASSUME ETypes
  PROVE  /\ mgr \in [Manager -> ManagerRecord \cup {None}] /\ managers \in [Instance -> Manager \cup {None}]
         /\ stopping \subseteq Manager /\ None \notin Manager \cup ManagerRecord
         /\ \A i \in DOMAIN db.instance : i \in DOMAIN hist.want
         /\ \A i \in DOMAIN hist.want : i \in Instance
<1>1. PICK n \in 0 .. MaxInstances : DOMAIN hist.want = 1 .. n
  BY DEF ETypes, HistOK
<1>2. \A i \in 1 .. n : i \in 1 .. MaxInstances
  BY EngineAssumption
<1> QED
  BY <1>1, <1>2, EngineAssumption DEF ETypes, ManagersOK, DbOK, Instance

\* What a step does to the managers.
LEMMA MgrCases ==
  ASSUME EIInv, [EngineNext]_engineVars
  PROVE  \/ MgrSame
         \/ \E m, r : MgrChanged(m, r)
         \/ \E m, r, i : MgrNew(m, r, i)
         \/ StopBegin \/ StopEnd \/ Crash \/ Exit
<1>0. ETypes
  BY DEF EIInv
<1>t. /\ mgr \in [Manager -> ManagerRecord \cup {None}] /\ managers \in [Instance -> Manager \cup {None}]
      /\ None \notin Manager \cup ManagerRecord
  BY <1>0, TypesOfMaps
<1>1. ASSUME NEW m \in Manager, NEW outcome \in {"Success", "Failed"}, Finish(m, outcome)
      PROVE  \E r : MgrChanged(m, r)
  <2>1. mgr[m] \in ManagerRecord /\ mgr[m] # None /\ mgr[m].loop = "on"
    BY <1>t, <1>1 DEF Finish, Works
  <2>2. PICK r : r = [mgr[m] EXCEPT !.status = outcome, !.cancelled = TRUE]
    OBVIOUS
  <2>3. r \in ManagerRecord /\ r.instance = mgr[m].instance /\ r.tasks = mgr[m].tasks
    BY <2>1, <2>2 DEF ManagerRecord, Statuses, Final
  <2>4. mgr' = [mgr EXCEPT ![m] = r]
    BY <1>t, <1>1, <2>2 DEF Finish
  <2> QED
    BY <1>1, <2>1, <2>3, <2>4 DEF MgrChanged, Finish
<1>2. ASSUME NEW m \in Manager, HandleSignal(m) PROVE \E r : MgrChanged(m, r)
  <2>1. mgr[m] \in ManagerRecord /\ mgr[m] # None /\ mgr[m].loop = "on"
    BY <1>t, <1>2 DEF HandleSignal
  <2>2. PICK signal \in {"Pause", "Resume", "Terminate"} : signal = Head(mgr[m].signals)
    BY <1>0, <1>2, SignalFacts
  <2>3. PICK r : r = [mgr[m] EXCEPT
          !.signals = IF signal = "Terminate" THEN <<>> ELSE Tail(mgr[m].signals),
          !.status = StatusAfter(signal),
          !.cancelled = mgr[m].cancelled \/ signal = "Terminate",
          !.loop = IF signal = "Terminate" THEN "off" ELSE mgr[m].loop]
    OBVIOUS
  <2>4. mgr' = [mgr EXCEPT ![m] = r]
    <3>1. mgr' = [mgr EXCEPT
            ![m].signals = IF signal = "Terminate" THEN <<>> ELSE Tail(@),
            ![m].status = StatusAfter(signal),
            ![m].cancelled = @ \/ signal = "Terminate",
            ![m].loop = IF signal = "Terminate" THEN "off" ELSE @]
      BY <1>2, <2>2 DEF HandleSignal
    <3> QED
      BY <1>t, <2>1, <2>3, <3>1 DEF ManagerRecord
  <2>5. PICK s \in Statuses : s = StatusAfter(signal)
    BY DEF StatusAfter, Statuses, Final
  <2>6. PICK t \in Seq({"Pause", "Resume", "Terminate"}) : t = IF signal = "Terminate" THEN <<>> ELSE Tail(mgr[m].signals)
    <3>1. <<>> \in Seq({"Pause", "Resume", "Terminate"})
      OBVIOUS
    <3> QED
      BY <1>0, <1>2, <3>1, SignalFacts
  <2>7. PICK cc \in BOOLEAN : cc = (mgr[m].cancelled \/ signal = "Terminate")
    OBVIOUS
  <2>8. PICK l \in {"none", "on", "off"} : l = IF signal = "Terminate" THEN "off" ELSE mgr[m].loop
    BY <2>1
  <2>9. r = [mgr[m] EXCEPT !.signals = t, !.status = s, !.cancelled = cc, !.loop = l]
    BY <2>3, <2>5, <2>6, <2>7, <2>8
  <2>10. r \in ManagerRecord /\ r.instance = mgr[m].instance /\ r.tasks = mgr[m].tasks
    BY <2>1, <2>9 DEF ManagerRecord
  <2> QED
    BY <1>2, <2>1, <2>4, <2>10 DEF MgrChanged, HandleSignal
<1>3. ASSUME NEW m \in Manager, LoopsExit(m) PROVE \E r : MgrChanged(m, r)
  <2>1. mgr[m] \in ManagerRecord /\ mgr[m] # None /\ mgr[m].loop = "on"
    BY <1>t, <1>3 DEF LoopsExit
  <2>2. PICK r : r = [mgr[m] EXCEPT !.loop = "off", !.signals = <<>>]
    OBVIOUS
  <2>3. r \in ManagerRecord /\ r.instance = mgr[m].instance /\ r.tasks = mgr[m].tasks
    <3>1. <<>> \in Seq({"Pause", "Resume", "Terminate"})
      OBVIOUS
    <3> QED
      BY <2>1, <2>2, <3>1 DEF ManagerRecord
  <2>4. mgr' = [mgr EXCEPT ![m] = r]
    BY <1>t, <1>3, <2>2 DEF LoopsExit
  <2> QED
    BY <1>3, <2>1, <2>3, <2>4 DEF MgrChanged, LoopsExit
<1>4. ASSUME NEW m \in Manager, StopShutdown(m) PROVE \E r : MgrChanged(m, r)
  <2>1. mgr[m] \in ManagerRecord /\ mgr[m] # None
    BY <1>t, <1>4 DEF StopShutdown, EIInv, LinkInv
  <2>2. PICK r : r = [mgr[m] EXCEPT !.cancelled = TRUE]
    OBVIOUS
  <2>3. /\ r \in ManagerRecord /\ r.instance = mgr[m].instance /\ r.tasks = mgr[m].tasks
        /\ r.loop = mgr[m].loop /\ r.status = mgr[m].status
    BY <2>1, <2>2 DEF ManagerRecord
  <2>4. mgr' = [mgr EXCEPT ![m] = r]
    BY <1>t, <1>4, <2>2 DEF StopShutdown
  <2> QED
    BY <1>4, <2>1, <2>3, <2>4 DEF MgrChanged, StopShutdown
<1>5. ASSUME NEW c \in Caller, Launch(c) PROVE \E m, r : MgrChanged(m, r)
  <2>1. PICK m \in Manager : m = call[c].manager /\ mgr[m] # None
    BY <1>5 DEF Launch, EIInv, CallInv
  <2>2. mgr[m] \in ManagerRecord
    BY <1>t, <2>1
  <2>3. PICK r : r = Started(mgr[m])
    OBVIOUS
  <2>4. r \in ManagerRecord /\ r.instance = mgr[m].instance /\ r.tasks = mgr[m].tasks
    BY <2>2, <2>3 DEF ManagerRecord, Started, Statuses
  <2>5. mgr' = [mgr EXCEPT ![m] = r]
    BY <1>5, <2>1, <2>3 DEF Launch
  <2>6. managers' = managers /\ stopping' = stopping
    BY <1>5 DEF Launch
  <2> QED
    BY <1>5, <2>1, <2>4, <2>5, <2>6 DEF MgrChanged
<1>6. ASSUME NEW i \in Instance, NEW signal \in {"Pause", "Resume", "Terminate"}, SendSignal(i, signal)
      PROVE  \E m, r : MgrChanged(m, r)
  <2>1. PICK m \in Manager : m = managers[i] /\ mgr[m] # None
    BY <1>t, <1>6 DEF SendSignal, EIInv, LinkInv
  <2>2. mgr[m] \in ManagerRecord
    BY <1>t, <2>1
  <2>3. PICK t : t = Append(mgr[m].signals, signal)
    OBVIOUS
  <2>4. t \in Seq({"Pause", "Resume", "Terminate"})
    BY <2>2, <2>3 DEF ManagerRecord
  <2>5. PICK r : r = [mgr[m] EXCEPT !.signals = t]
    OBVIOUS
  <2>6. /\ r \in ManagerRecord /\ r.instance = mgr[m].instance /\ r.tasks = mgr[m].tasks
        /\ r.loop = mgr[m].loop /\ r.status = mgr[m].status
    BY <2>2, <2>4, <2>5 DEF ManagerRecord
  <2>7. mgr' = [mgr EXCEPT ![m] = r]
    BY <1>t, <1>6, <2>1, <2>3, <2>5 DEF SendSignal
  <2>8. managers' = managers /\ stopping' = stopping
    BY <1>6 DEF SendSignal
  <2> QED
    BY <2>1, <2>6, <2>7, <2>8 DEF MgrChanged
<1>7. ASSUME NEW i \in Instance, RestoreRunning(i) \/ RestorePaused(i)
      PROVE  MgrSame \/ \E m, r : MgrNew(m, r, i)
  <2>1. stopping' = stopping /\ i \in DOMAIN hist.want
    BY <1>0, <1>7 DEF RestoreRunning, RestorePaused, ETypes, EngineOK
  <2>2. ASSUME NEW auto \in BOOLEAN, RestoreInstance(i, auto), RestoreRunning(i) \/ (RestorePaused(i) /\ ~auto)
        PROVE  \E m, r : MgrNew(m, r, i)
    <3>1. i \in DOMAIN db.instance /\ WorkflowIsThere(i) /\ hist' = [hist EXCEPT !.restored = hist.restored \cup {i}]
      BY <2>2 DEF RestoreInstance
    <3>2. PICK q : q = NewManager(i, LoadedTasks(i), db.instance[i].status)
      OBVIOUS
    <3>3. /\ q \in ManagerRecord /\ q.instance = i /\ q.tasks = LoadedTasks(i) /\ q.loop = "none"
          /\ Started(q) \in ManagerRecord /\ Started(q).instance = i /\ Started(q).tasks = LoadedTasks(i)
      BY <1>0, <3>1, <3>2, LoadedFacts, NewManagerFacts
    <3>4. PICK r : r = IF auto THEN Started(q) ELSE q
      OBVIOUS
    <3>5. r \in ManagerRecord /\ r.instance = i /\ r.tasks = LoadedTasks(i) /\ (~auto => r.loop = "none")
      BY <3>3, <3>4
    <3>6. PICK m \in FreeManager : mgr' = [mgr EXCEPT ![m] = r] /\ managers' = [managers EXCEPT ![i] = m]
      BY <2>2, <3>2, <3>4 DEF RestoreInstance
    <3>7. hist'.restored = hist.restored \cup {i}
      BY <1>0, <3>1 DEF ETypes, HistOK
    <3> QED
      BY <2>1, <2>2, <3>1, <3>5, <3>6, <3>7 DEF MgrNew, FreeManager
  <2>3. CASE RestoreRunning(i)
    BY <2>1, <2>2, <2>3 DEF RestoreRunning, CannotRestore, MgrSame
  <2>4. CASE RestorePaused(i)
    BY <2>1, <2>2, <2>4 DEF RestorePaused, CannotRestore, MgrSame
  <2> QED
    BY <1>7, <2>3, <2>4
<1>8. ASSUME NEW c \in Caller, Manage(c) PROVE \E m, r, i : MgrNew(m, r, i)
  <2>1. call[c] \in CallSet /\ call[c].instance \in DOMAIN hist.want /\ call[c].instance \in Instance
    BY <1>0, <1>8, CallFacts, TypesOfMaps DEF Manage, EIInv, CallInv, HasInstance
  <2>2. PICK i \in Instance, T \in SUBSET Task : i = call[c].instance /\ T = call[c].tasks
    BY <2>1 DEF CallSet
  <2>3. PICK r : r = NewManager(i, T, "Ready")
    OBVIOUS
  <2>4. r \in ManagerRecord /\ r.instance = i /\ r.tasks = T /\ r.loop = "none" /\ r.status = "Ready"
    <3>1. "Ready" \in Statuses
      BY DEF Statuses
    <3> QED
      BY <2>3, <3>1, NewManagerFacts
  <2>5. PICK m \in FreeManager : mgr' = [mgr EXCEPT ![m] = r] /\ managers' = [managers EXCEPT ![i] = m]
    BY <1>8, <2>2, <2>3 DEF Manage
  <2>6. stopping' = stopping
    BY <1>8 DEF Manage
  <2> QED
    BY <1>8, <2>1, <2>2, <2>4, <2>5, <2>6 DEF MgrNew, FreeManager
<1>9. ASSUME NEW i \in Instance, ResumeUnmanaged(i) PROVE \E m, r : MgrNew(m, r, i)
  <2>1. i \in DOMAIN db.instance /\ WorkflowIsThere(i) /\ i \in DOMAIN hist.want
    BY <1>0, <1>9, TypesOfMaps DEF ResumeUnmanaged, WithStatus
  <2>2. PICK q : q = NewManager(i, LoadedTasks(i), "Paused")
    OBVIOUS
  <2>3. q \in ManagerRecord /\ q.instance = i /\ q.tasks = LoadedTasks(i) /\ q.loop = "none"
    <3>1. "Paused" \in Statuses
      BY DEF Statuses
    <3> QED
      BY <1>0, <2>1, <2>2, <3>1, LoadedFacts, NewManagerFacts
  <2>4. PICK t : t = <<"Resume">> /\ t \in Seq({"Pause", "Resume", "Terminate"})
    <3>1. <<"Resume">> \in Seq({"Pause", "Resume", "Terminate"})
      OBVIOUS
    <3> QED
      BY <3>1
  <2>5. PICK r : r = [q EXCEPT !.signals = t]
    OBVIOUS
  <2>6. r \in ManagerRecord /\ r.instance = i /\ r.tasks = LoadedTasks(i) /\ r.loop = "none"
    BY <2>3, <2>4, <2>5 DEF ManagerRecord
  <2>7. PICK m \in FreeManager : mgr' = [mgr EXCEPT ![m] = r] /\ managers' = [managers EXCEPT ![i] = m]
    BY <1>9, <2>2, <2>4, <2>5 DEF ResumeUnmanaged
  <2>8. stopping' = stopping /\ hist'.restored = hist.restored \cup {i}
    <3>1. hist' = [hist EXCEPT !.arrivals = hist.arrivals + 1, !.restored = hist.restored \cup {i}]
      BY <1>9 DEF ResumeUnmanaged
    <3> QED
      BY <1>0, <1>9, <3>1 DEF ResumeUnmanaged, ETypes, HistOK
  <2> QED
    BY <1>9, <2>1, <2>6, <2>7, <2>8 DEF MgrNew, FreeManager
<1>10. CASE BeginSteps
  <2>1. PICK c, kind, w, tasks, cron : Begins(c, kind, w, tasks, cron)
    BY <1>0, <1>10, BeginFacts
  <2> QED
    BY <2>1 DEF Begins, Begin, MgrSame
<1>11. ASSUME \/ StartBegin \/ StartEnd \/ ListUnfinished
              \/ \E c \in Caller : SaveAggregate(c) \/ StartAggregate(c) \/ SaveSeparate(c) \/ StartSeparate(c)
              \/ \E c \in Caller : Schedule(c)
              \/ \E w \in Wf : Unregister(w) \/ DeleteStored(w)
              \/ \E i \in Instance : TerminateUnmanaged(i)
              \/ UNCHANGED engineVars
       PROVE  MgrSame
  BY <1>11 DEF StartBegin, StartEnd, ListUnfinished, SaveAggregate, StartAggregate, SaveSeparate,
     StartSeparate, Schedule, Unregister, DeleteStored, TerminateUnmanaged, engineVars, MgrSame
<1>12. EngineCases
  BY CasesFacts
<1> QED
  BY <1>1, <1>2, <1>3, <1>4, <1>5, <1>6, <1>7, <1>8, <1>9, <1>10, <1>11, <1>12 DEF EngineCases, BeginSteps

\* Where a manager comes from.
MgrFrom(m) ==
  \/ mgr'[m] = None
  \/ mgr'[m] = mgr[m]
  \/ /\ mgr[m] # None /\ mgr'[m].instance = mgr[m].instance /\ mgr'[m].tasks = mgr[m].tasks
     /\ \/ mgr'[m].loop = mgr[m].loop /\ mgr'[m].status = mgr[m].status
        \/ mgr[m].loop = "on"
        \/ \E c \in Caller : Launch(c) /\ call[c].manager = m
  \/ MgrNew(m, mgr'[m], mgr'[m].instance)
MgrStep == ManagersOK' /\ \A m \in Manager : MgrFrom(m)

\* The parts are ManagersOK.
LEMMA ManagersOKParts ==
  ManagersOK' <=>
    /\ mgr' \in [Manager -> ManagerRecord \cup {None}] /\ managers' \in [Instance -> Manager \cup {None}]
    /\ stopping' \subseteq Manager
    /\ \A m \in Manager : mgr'[m] # None => mgr'[m].instance \in DOMAIN hist'.want
BY DEF ManagersOK, ManagerRecord, Statuses, Final

\* Stop leaves every manager its instance, tasks and status.
LEMMA StopBeginFacts ==
  ASSUME EIInv, StopBegin
  PROVE  /\ mgr' \in [Manager -> ManagerRecord \cup {None}] /\ stopping' \subseteq Manager
         /\ \A m \in stopping' : mgr[m] # None
         /\ \A m \in Manager :
              \/ mgr'[m] = mgr[m]
              \/ /\ mgr[m] # None /\ mgr'[m] \in ManagerRecord /\ mgr'[m].instance = mgr[m].instance
                 /\ mgr'[m].tasks = mgr[m].tasks /\ mgr'[m].loop = mgr[m].loop
                 /\ mgr'[m].status = mgr[m].status
<1>t. /\ mgr \in [Manager -> ManagerRecord \cup {None}] /\ managers \in [Instance -> Manager \cup {None}]
      /\ None \notin Manager \cup ManagerRecord
  BY TypesOfMaps DEF EIInv
<1>1. stopping' = {managers[i] : i \in Instance} \ {None}
  BY DEF StopBegin
<1>2. stopping' \subseteq Manager
  BY <1>t, <1>1
<1>3. \A m \in stopping' : mgr[m] # None
  BY <1>t, <1>1 DEF EIInv, LinkInv
<1>4. mgr' = [m \in Manager |->
       IF m \in stopping' /\ mgr[m].loop # "off" /\ Len(mgr[m].signals) < ControlCap
       THEN [mgr[m] EXCEPT !.signals = Append(@, "Terminate")] ELSE mgr[m]]
  BY DEF StopBegin
<1>5. ASSUME NEW m \in Manager, mgr'[m] # mgr[m]
      PROVE  /\ mgr[m] # None /\ mgr'[m] \in ManagerRecord /\ mgr'[m].instance = mgr[m].instance
             /\ mgr'[m].tasks = mgr[m].tasks /\ mgr'[m].loop = mgr[m].loop /\ mgr'[m].status = mgr[m].status
  <2>1. m \in stopping' /\ mgr'[m] = [mgr[m] EXCEPT !.signals = Append(@, "Terminate")]
    BY <1>4, <1>5
  <2>2. mgr[m] # None /\ mgr[m] \in ManagerRecord
    BY <1>t, <1>3, <2>1
  <2>3. PICK t : t = Append(mgr[m].signals, "Terminate")
    OBVIOUS
  <2>4. t \in Seq({"Pause", "Resume", "Terminate"})
    BY <2>2, <2>3 DEF ManagerRecord
  <2>5. PICK r : r = [mgr[m] EXCEPT !.signals = t]
    OBVIOUS
  <2>6. mgr'[m] = r
    BY <2>1, <2>3, <2>5
  <2>7. /\ r \in ManagerRecord /\ r.instance = mgr[m].instance
        /\ r.tasks = mgr[m].tasks /\ r.loop = mgr[m].loop /\ r.status = mgr[m].status
    BY <2>2, <2>4, <2>5 DEF ManagerRecord
  <2> QED
    BY <2>2, <2>6, <2>7
<1>6. mgr' \in [Manager -> ManagerRecord \cup {None}]
  <2>1. \A m \in Manager : mgr'[m] \in ManagerRecord \cup {None}
    BY <1>t, <1>5
  <2>2. DOMAIN mgr' = Manager /\ mgr' = [m \in Manager |-> mgr'[m]]
    BY <1>4
  <2> QED
    BY <2>1, <2>2
<1> QED
  BY <1>2, <1>3, <1>5, <1>6

\* What the end of a process leaves.
LEMMA ProcessEnds ==
  ASSUME Crash \/ Exit
  PROVE  /\ mgr' = [m \in Manager |-> None] /\ managers' = [i \in Instance |-> None]
         /\ stopping' = {} /\ entries' = <<>> /\ phase' = "down" /\ running' = FALSE
         /\ todo' = [running |-> {}, paused |-> {}] /\ call' = [c \in Caller |-> NoCall]
         /\ store' = store /\ db' = db
BY DEF Crash, Exit, EndOfProcess

\* What Stop leaves.
LEMMA StopEnds ==
  ASSUME StopEnd
  PROVE  /\ mgr' = mgr /\ managers' = [i \in Instance |-> None] /\ stopping' = stopping
         /\ phase = "signalled" /\ phase' = "stopped" /\ call' = call /\ todo' = todo
BY DEF StopEnd

\* The managers keep their types.
LEMMA MgrTypes ==
  ASSUME EIInv, [EngineNext]_engineVars
  PROVE  MgrStep
<1>t. /\ mgr \in [Manager -> ManagerRecord \cup {None}] /\ managers \in [Instance -> Manager \cup {None}]
      /\ stopping \subseteq Manager /\ None \notin Manager \cup ManagerRecord
  BY TypesOfMaps DEF EIInv
<1>w. \A m \in Manager : mgr[m] # None => mgr[m].instance \in DOMAIN hist'.want
  BY HistParts DEF EIInv, ETypes, ManagersOK
<1>1. CASE MgrSame
  BY <1>t, <1>w, <1>1, ManagersOKParts DEF MgrSame, MgrStep, MgrFrom
<1>2. ASSUME NEW m, NEW r, MgrChanged(m, r) PROVE MgrStep
  <2>1. mgr' \in [Manager -> ManagerRecord \cup {None}] /\ managers' = managers /\ stopping' = stopping
    BY <1>t, <1>2 DEF MgrChanged
  <2>2. m \in Manager /\ mgr'[m] = r /\ \A k \in Manager : k # m => mgr'[k] = mgr[k]
    BY <1>t, <1>2 DEF MgrChanged
  <2>3. mgr[m] # None /\ r.instance = mgr[m].instance
    BY <1>2 DEF MgrChanged
  <2>4. ManagersOK'
    BY <1>t, <1>w, <2>1, <2>2, <2>3, ManagersOKParts
  <2>5. MgrFrom(m)
    BY <1>2, <2>2 DEF MgrFrom, MgrChanged
  <2> QED
    BY <2>2, <2>4, <2>5 DEF MgrStep, MgrFrom
<1>3. ASSUME NEW m, NEW r, NEW i, MgrNew(m, r, i) PROVE MgrStep
  <2>1. /\ mgr' \in [Manager -> ManagerRecord \cup {None}] /\ managers' \in [Instance -> Manager \cup {None}]
        /\ stopping' = stopping
    BY <1>t, <1>3 DEF MgrNew
  <2>2. m \in Manager /\ mgr'[m] = r /\ \A k \in Manager : k # m => mgr'[k] = mgr[k]
    BY <1>t, <1>3 DEF MgrNew
  <2>3. r.instance = i /\ i \in DOMAIN hist'.want
    BY <1>3, HistParts DEF MgrNew, EIInv
  <2>4. ManagersOK'
    BY <1>t, <1>w, <2>1, <2>2, <2>3, ManagersOKParts
  <2>5. MgrFrom(m)
    BY <1>3, <2>2, <2>3 DEF MgrFrom
  <2> QED
    BY <2>2, <2>4, <2>5 DEF MgrStep, MgrFrom
<1>4. CASE StopBegin
  <2>1. managers' = managers
    BY <1>4 DEF StopBegin
  <2>2. \A m \in Manager : mgr'[m] # None => mgr'[m].instance \in DOMAIN hist'.want
    BY <1>4, <1>w, StopBeginFacts
  <2>3. ManagersOK'
    BY <1>t, <1>4, <2>1, <2>2, StopBeginFacts, ManagersOKParts
  <2> QED
    BY <1>4, <2>3, StopBeginFacts DEF MgrStep, MgrFrom
<1>5. CASE StopEnd
  <2>1. managers' \in [Instance -> Manager \cup {None}]
    BY <1>5, StopEnds
  <2> QED
    BY <1>t, <1>w, <1>5, <2>1, StopEnds, ManagersOKParts DEF MgrStep, MgrFrom
<1>6. CASE Crash \/ Exit
  <2>1. \A m \in Manager : mgr'[m] = None
    BY <1>6, ProcessEnds
  <2>2. managers' \in [Instance -> Manager \cup {None}] /\ mgr' \in [Manager -> ManagerRecord \cup {None}]
    BY <1>6, ProcessEnds
  <2> QED
    BY <1>6, <2>1, <2>2, ProcessEnds, ManagersOKParts DEF MgrStep, MgrFrom
<1> QED
  BY <1>1, <1>2, <1>3, <1>4, <1>5, <1>6, MgrCases

\* The parts are EngineOK.
LEMMA EngineOKParts ==
  EngineOK' <=>
    /\ store' \in Stores
    /\ phase' \in {"down", "listing", "restoring", "up", "signalled", "stopped"}
    /\ running' <=> phase' \in {"listing", "restoring", "up"}
    /\ todo' = [running |-> todo'.running, paused |-> todo'.paused]
    /\ todo'.running \subseteq DOMAIN hist'.want /\ todo'.paused \subseteq DOMAIN hist'.want
    /\ \A w \in DOMAIN entries' : entries'[w] \subseteq Task
BY DEF EngineOK, Stores

-----------------------------------------------------------------------------
(* Start.                                                                  *)

\* The phase and what is to be restored.
PhaseStep ==
  \/ phase' = phase /\ running' = running
  \/ StartBegin \/ ListUnfinished \/ StartEnd \/ StopBegin \/ StopEnd \/ Crash \/ Exit
TodoStep ==
  \/ todo' = todo
  \/ ListUnfinished
  \/ \E i \in Instance : RestoreRunning(i) \/ RestorePaused(i)
  \/ Crash \/ Exit
EntriesStep ==
  \/ entries' = entries \/ entries' = <<>>
  \/ \E c \in Caller : /\ call[c] \in CallSet
                       /\ entries' = Put(entries, {call[c].wf} \ DOMAIN entries, call[c].tasks)
  \/ \E w \in Wf : entries' = Without(entries, {w})

\* The steps that change the phase, what is to be restored, and the entries.
LEMMA PhaseSteps ==
  ASSUME ETypes, [EngineNext]_engineVars
  PROVE  PhaseStep /\ TodoStep /\ EntriesStep
<1>1. ASSUME NEW m \in Manager, Finish(m, "Success") \/ Finish(m, "Failed") \/ HandleSignal(m) \/ LoopsExit(m) \/ StopShutdown(m)
      PROVE  PhaseStep /\ TodoStep /\ EntriesStep
  BY <1>1 DEF Finish, HandleSignal, LoopsExit, StopShutdown, PhaseStep, TodoStep, EntriesStep
<1>2. CASE StartBegin \/ StartEnd \/ ListUnfinished \/ StopBegin \/ StopEnd
  <2>1. TodoStep /\ EntriesStep
    BY <1>2 DEF StartBegin, StartEnd, ListUnfinished, StopBegin, StopEnd, TodoStep, EntriesStep
  <2>2. PhaseStep
    BY <1>2 DEF PhaseStep
  <2> QED
    BY <2>1, <2>2
<1>3. CASE Crash \/ Exit
  <2>1. EntriesStep
    BY <1>3, ProcessEnds DEF EntriesStep
  <2>2. PhaseStep /\ TodoStep
    BY <1>3 DEF PhaseStep, TodoStep
  <2> QED
    BY <2>1, <2>2
<1>4. CASE UNCHANGED engineVars
  BY <1>4 DEF engineVars, PhaseStep, TodoStep, EntriesStep
<1>5. ASSUME NEW i \in Instance, RestoreRunning(i) \/ RestorePaused(i)
      PROVE  PhaseStep /\ TodoStep /\ EntriesStep
  <2>1. phase' = phase /\ running' = running /\ entries' = entries
    BY <1>5 DEF RestoreRunning, RestorePaused
  <2>2. TodoStep
    BY <1>5 DEF TodoStep
  <2> QED
    BY <2>1, <2>2 DEF PhaseStep, EntriesStep
<1>6. ASSUME NEW c \in Caller, SaveAggregate(c) \/ StartAggregate(c) \/ SaveSeparate(c) \/ StartSeparate(c) \/ Manage(c) \/ Launch(c)
      PROVE  PhaseStep /\ TodoStep /\ EntriesStep
  BY <1>6 DEF SaveAggregate, StartAggregate, SaveSeparate, StartSeparate, Manage, Launch, PhaseStep, TodoStep, EntriesStep
<1>7. ASSUME NEW c \in Caller, Schedule(c) PROVE PhaseStep /\ TodoStep /\ EntriesStep
  <2>1. call[c] \in CallSet
    BY <1>7, CallFacts DEF Schedule
  <2>2. entries' = Put(entries, {call[c].wf} \ DOMAIN entries, call[c].tasks)
    BY <1>7 DEF Schedule
  <2>3. phase' = phase /\ running' = running /\ todo' = todo
    BY <1>7 DEF Schedule
  <2> QED
    BY <2>1, <2>2, <2>3 DEF PhaseStep, TodoStep, EntriesStep
<1>8. CASE BeginSteps
  <2>1. PICK c, kind, w, tasks, cron : Begins(c, kind, w, tasks, cron)
    BY <1>8, BeginFacts
  <2> QED
    BY <2>1 DEF Begins, Begin, PhaseStep, TodoStep, EntriesStep
<1>9. ASSUME NEW w \in Wf, Unregister(w) \/ DeleteStored(w) PROVE PhaseStep /\ TodoStep /\ EntriesStep
  <2>1. phase' = phase /\ running' = running /\ todo' = todo /\ (entries' = entries \/ entries' = Without(entries, {w}))
    BY <1>9 DEF Unregister, DeleteStored
  <2> QED
    BY <2>1 DEF PhaseStep, TodoStep, EntriesStep
<1>10. ASSUME \/ \E i \in Instance, signal \in {"Pause", "Resume", "Terminate"} : SendSignal(i, signal)
              \/ \E i \in Instance : ResumeUnmanaged(i) \/ TerminateUnmanaged(i)
       PROVE  PhaseStep /\ TodoStep /\ EntriesStep
  BY <1>10 DEF SendSignal, ResumeUnmanaged, TerminateUnmanaged, PhaseStep, TodoStep, EntriesStep
<1>11. EngineCases
  BY CasesFacts
<1> QED
  BY <1>1, <1>2, <1>3, <1>4, <1>5, <1>6, <1>7, <1>8, <1>9, <1>10, <1>11 DEF EngineCases, BeginSteps

\* An entry has tasks.
LEMMA EntriesTypes ==
  ASSUME ETypes, EntriesStep
  PROVE  \A w \in DOMAIN entries' : entries'[w] \subseteq Task
<1>0. \A w \in DOMAIN entries : entries[w] \subseteq Task
  BY DEF ETypes, EngineOK
<1>1. CASE entries' = entries \/ entries' = <<>>
  <2>1. DOMAIN <<>> = {}
    OBVIOUS
  <2> QED
    BY <1>0, <1>1, <2>1
<1>2. ASSUME NEW c \in Caller, call[c] \in CallSet,
             entries' = Put(entries, {call[c].wf} \ DOMAIN entries, call[c].tasks)
      PROVE  \A w \in DOMAIN entries' : entries'[w] \subseteq Task
  <2>1. PICK K, T : K = {call[c].wf} \ DOMAIN entries /\ T = call[c].tasks
    OBVIOUS
  <2>2. T \subseteq Task
    BY <1>2, <2>1 DEF CallSet
  <2>3. entries' = Put(entries, K, T)
    BY <1>2, <2>1
  <2> QED
    BY <1>0, <2>2, <2>3 DEF Put
<1>3. ASSUME NEW w \in Wf, entries' = Without(entries, {w})
      PROVE  \A v \in DOMAIN entries' : entries'[v] \subseteq Task
  BY <1>0, <1>3 DEF Without
<1> QED
  BY <1>1, <1>2, <1>3 DEF EntriesStep

\* Nothing is added to what is to be restored, but by the listing.
TodoShrinks == todo'.running \subseteq todo.running /\ todo'.paused \subseteq todo.paused

\* What is to be restored is a record.
LEMMA TodoForm == ETypes => todo = [running |-> todo.running, paused |-> todo.paused]
BY DEF ETypes, EngineOK

\* What the listing finds.
LEMMA ListFacts ==
  ASSUME ETypes, ListUnfinished
  PROVE  /\ todo' = [running |-> todo'.running, paused |-> todo'.paused]
         /\ todo'.running = {i \in WithStatus("Running") : HasListing(i)}
         /\ todo'.paused = {i \in WithStatus("Paused") : HasListing(i)}
         /\ hist'.lost = hist.lost \cup {i \in Unfinished : ~HasListing(i)}
         /\ db' = db /\ mgr' = mgr /\ managers' = managers /\ call' = call
         /\ phase = "listing" /\ phase' = "restoring"
<1>1. PICK R, P, L : /\ R = {i \in WithStatus("Running") : HasListing(i)}
                     /\ P = {i \in WithStatus("Paused") : HasListing(i)}
                     /\ L = {i \in WithStatus("Running") \cup WithStatus("Paused") : ~HasListing(i)}
  OBVIOUS
<1>2. todo' = [running |-> R, paused |-> P]
  BY <1>1 DEF ListUnfinished
<1>3. hist' = [hist EXCEPT !.lost = hist.lost \cup L]
  BY <1>1 DEF ListUnfinished
<1>4. hist'.lost = hist.lost \cup L
  BY <1>3 DEF ETypes, HistOK
<1>5. db' = db /\ mgr' = mgr /\ managers' = managers /\ call' = call /\ phase = "listing" /\ phase' = "restoring"
  BY DEF ListUnfinished
<1>6. {i \in Unfinished : ~HasListing(i)} = L
  BY <1>1 DEF Unfinished
<1> QED
  BY <1>1, <1>2, <1>4, <1>5, <1>6

\* A restore takes its instance off the list.
LEMMA RestoreTodo ==
  ASSUME ETypes, NEW i \in Instance
  PROVE  /\ RestoreRunning(i) => todo' = [running |-> todo.running \ {i}, paused |-> todo.paused]
         /\ RestorePaused(i) => todo' = [running |-> todo.running, paused |-> todo.paused \ {i}]
<1>1. ASSUME RestoreRunning(i) PROVE todo' = [running |-> todo.running \ {i}, paused |-> todo.paused]
  <2>1. todo' = [todo EXCEPT !.running = todo.running \ {i}]
    BY <1>1 DEF RestoreRunning
  <2> QED
    BY <2>1, TodoForm
<1>2. ASSUME RestorePaused(i) PROVE todo' = [running |-> todo.running, paused |-> todo.paused \ {i}]
  <2>1. todo' = [todo EXCEPT !.paused = todo.paused \ {i}]
    BY <1>2 DEF RestorePaused
  <2> QED
    BY <2>1, TodoForm
<1> QED
  BY <1>1, <1>2

\* What is to be restored stays a record.
LEMMA TodoTypes ==
  ASSUME ETypes, TodoStep
  PROVE  /\ todo' = [running |-> todo'.running, paused |-> todo'.paused]
         /\ TodoShrinks \/ ListUnfinished
<1>1. CASE todo' = todo
  BY <1>1, TodoForm DEF TodoShrinks
<1>2. CASE ListUnfinished
  BY <1>2, ListFacts
<1>3. ASSUME NEW i \in Instance, RestoreRunning(i) \/ RestorePaused(i)
      PROVE  todo' = [running |-> todo'.running, paused |-> todo'.paused] /\ TodoShrinks
  BY <1>3, RestoreTodo DEF TodoShrinks
<1>4. CASE Crash \/ Exit
  <2>1. todo' = [running |-> {}, paused |-> {}]
    BY <1>4, ProcessEnds
  <2> QED
    BY <2>1 DEF TodoShrinks
<1> QED
  BY <1>1, <1>2, <1>3, <1>4 DEF TodoStep

\* The engine's own state keeps its types.
LEMMA EngineTypes ==
  ASSUME ETypes, [EngineNext]_engineVars
  PROVE  EngineOK'
<1>0. PhaseStep /\ TodoStep /\ EntriesStep
  BY PhaseSteps
<1>1. \A w \in DOMAIN entries' : entries'[w] \subseteq Task
  BY <1>0, EntriesTypes
<1>2. store' \in Stores
  BY DbTypes DEF ETypes, EngineOK
<1>3. todo' = [running |-> todo'.running, paused |-> todo'.paused]
  BY <1>0, TodoTypes
<1>4. todo'.running \subseteq DOMAIN hist'.want /\ todo'.paused \subseteq DOMAIN hist'.want
  <2>1. CASE TodoShrinks
    BY <2>1, HistParts DEF TodoShrinks, ETypes, EngineOK
  <2>2. CASE ListUnfinished
    <3>1. DOMAIN db.instance \subseteq DOMAIN hist'.want
      BY HistParts DEF ETypes, DbOK
    <3> QED
      BY <2>2, <3>1, ListFacts DEF WithStatus
  <2> QED
    BY <1>0, <2>1, <2>2, TodoTypes
<1>5. /\ phase' \in {"down", "listing", "restoring", "up", "signalled", "stopped"}
      /\ running' <=> phase' \in {"listing", "restoring", "up"}
  <2>0. /\ phase \in {"down", "listing", "restoring", "up", "signalled", "stopped"}
        /\ running <=> phase \in {"listing", "restoring", "up"}
    BY DEF ETypes, EngineOK
  <2>1. CASE phase' = phase /\ running' = running
    BY <2>0, <2>1
  <2>2. CASE StartBegin \/ ListUnfinished \/ StartEnd
    BY <2>0, <2>2 DEF StartBegin, ListUnfinished, StartEnd
  <2>3. CASE StopBegin \/ StopEnd
    BY <2>0, <2>3 DEF StopBegin, StopEnd
  <2>4. CASE Crash \/ Exit
    BY <2>4, ProcessEnds
  <2> QED
    BY <1>0, <2>1, <2>2, <2>3, <2>4 DEF PhaseStep
<1> QED
  BY <1>1, <1>2, <1>3, <1>4, <1>5, EngineOKParts

\* The types are kept.
LEMMA TypesNext ==
  ASSUME EIInv, [EngineNext]_engineVars
  PROVE  ETypes'
<1>1. ETypes
  BY DEF EIInv
<1>2. DbOK'
  BY <1>1, DbTypes DEF DbStep
<1>3. HistOK'
  BY <1>1, HistTypes
<1>4. ManagersOK'
  BY MgrTypes DEF MgrStep
<1>5. EngineOK'
  BY <1>1, EngineTypes
<1>6. CallsOK'
  BY <1>1, CallTypes DEF CallStep
<1> QED
  BY <1>2, <1>3, <1>4, <1>5, <1>6 DEF ETypes

-----------------------------------------------------------------------------
(* Who has what manager.                                                   *)

\* The parts are LinkInv.
LEMMA LinkParts ==
  LinkInv' <=>
    /\ \A i \in Instance : managers'[i] # None => mgr'[managers'[i]] # None /\ mgr'[managers'[i]].instance = i
    /\ phase' # "stopped" => \A m \in Manager : mgr'[m] # None => managers'[mgr'[m].instance] # None
    /\ \A m \in stopping' : mgr'[m] # None
    /\ phase' = "down" => /\ \A m \in Manager : mgr'[m] = None
                          /\ \A c \in Caller : call'[c] = NoCall
BY DEF LinkInv, NoCall

\* A phase that is not "stopped" was not "stopped" before, but for the exit.
LEMMA PhaseFacts ==
  ASSUME EIInv, [EngineNext]_engineVars
  PROVE  /\ phase' # "stopped" => phase # "stopped" \/ Crash \/ Exit
         /\ phase' = "down" => phase = "down" \/ Crash \/ Exit
         /\ phase' = "listing" => phase = "listing" \/ phase = "down"
         /\ phase' = "restoring" => phase = "restoring" \/ ListUnfinished
         /\ phase' = "up" => phase = "up" \/ StartEnd
<1>1. PhaseStep
  BY PhaseSteps DEF EIInv
<1>2. CASE phase' = phase
  BY <1>2
<1>3. CASE StartBegin \/ ListUnfinished
  BY <1>3 DEF StartBegin, ListUnfinished, EIInv, ETypes, EngineOK
<1>4. CASE StartEnd \/ StopBegin \/ StopEnd
  BY <1>4 DEF StartEnd, StopBegin, StopEnd
<1>5. CASE Crash \/ Exit
  BY <1>5, ProcessEnds
<1> QED
  BY <1>1, <1>2, <1>3, <1>4, <1>5 DEF PhaseStep

\* Where there is no process nothing makes a manager or a call.
LEMMA DownStays ==
  ASSUME EIInv, [EngineNext]_engineVars, phase = "down"
  PROVE  /\ \A m \in Manager : mgr'[m] = None
         /\ \A c \in Caller : call'[c] = NoCall
<1>0. /\ ~running /\ \A m \in Manager : mgr[m] = None
      /\ \A c \in Caller : call[c] = NoCall /\ call[c].pc = "idle"
  BY DEF EIInv, LinkInv, ETypes, EngineOK, NoCall
<1>1. \A m \in Manager : mgr'[m] = None
  <2>1. \A m \in Manager : MgrFrom(m)
    BY MgrTypes DEF MgrStep
  <2>2. ASSUME NEW m \in Manager, MgrNew(m, mgr'[m], mgr'[m].instance) PROVE FALSE
    BY <1>0, <2>2 DEF MgrNew, Manage, RestoreRunning, RestorePaused, ResumeUnmanaged
  <2> QED
    BY <1>0, <2>1, <2>2 DEF MgrFrom
<1>2. \A c \in Caller : call'[c] = NoCall
  <2>1. \A c \in Caller : CallFrom(c)
    BY CallTypes DEF CallStep, EIInv
  <2>2. ASSUME NEW c \in Caller, CallMoves(c) PROVE FALSE
    BY <1>0, <2>2 DEF CallMoves, AggregateSaved, Submits, Manage, Launch
  <2>3. ASSUME NEW c \in Caller, NEW kind, NEW w, NEW tasks, NEW cron, Begins(c, kind, w, tasks, cron) PROVE FALSE
    BY <1>0, <2>3 DEF Begins, Begin
  <2> QED
    BY <1>0, <2>1, <2>2, <2>3 DEF CallFrom
<1> QED
  BY <1>1, <1>2

\* LinkInv is kept.
LEMMA LinkNext ==
  ASSUME EIInv, [EngineNext]_engineVars
  PROVE  LinkInv'
<1>t. /\ mgr \in [Manager -> ManagerRecord \cup {None}] /\ managers \in [Instance -> Manager \cup {None}]
      /\ stopping \subseteq Manager /\ None \notin Manager \cup ManagerRecord
  BY TypesOfMaps DEF EIInv
<1>i. /\ \A i \in Instance : managers[i] # None => mgr[managers[i]] # None /\ mgr[managers[i]].instance = i
      /\ phase # "stopped" => \A m \in Manager : mgr[m] # None => managers[mgr[m].instance] # None
      /\ \A m \in stopping : mgr[m] # None
  BY DEF EIInv, LinkInv
<1>r. \A m \in Manager : mgr[m] # None => mgr[m].instance \in Instance
  BY <1>t DEF ManagerRecord
<1>d. phase' = "down" => /\ \A m \in Manager : mgr'[m] = None
                         /\ \A c \in Caller : call'[c] = NoCall
  BY PhaseFacts, DownStays, ProcessEnds
<1>1. CASE MgrSame
  <2>1. phase' # "stopped" => phase # "stopped" \/ \A m \in Manager : mgr'[m] = None
    BY PhaseFacts, ProcessEnds
  <2>2. phase' # "stopped" => \A m \in Manager : mgr'[m] # None => managers'[mgr'[m].instance] # None
    BY <1>i, <1>1, <2>1 DEF MgrSame
  <2>3. /\ \A i \in Instance : managers'[i] # None => mgr'[managers'[i]] # None /\ mgr'[managers'[i]].instance = i
        /\ \A m \in stopping' : mgr'[m] # None
    BY <1>i, <1>1 DEF MgrSame
  <2> QED
    BY <1>d, <2>2, <2>3, LinkParts
<1>2. ASSUME NEW m, NEW r, MgrChanged(m, r) PROVE LinkInv'
  <2>1. /\ m \in Manager /\ mgr'[m] = r /\ \A k \in Manager : k # m => mgr'[k] = mgr[k]
        /\ r # None /\ mgr[m] # None /\ r.instance = mgr[m].instance
        /\ managers' = managers /\ stopping' = stopping
    BY <1>t, <1>2 DEF MgrChanged
  <2>2. phase' # "stopped" => phase # "stopped"
    BY <2>1, PhaseFacts, ProcessEnds
  <2>3. \A i \in Instance : managers'[i] # None => mgr'[managers'[i]] # None /\ mgr'[managers'[i]].instance = i
    BY <1>t, <1>i, <2>1
  <2>4. phase' # "stopped" => \A k \in Manager : mgr'[k] # None => managers'[mgr'[k].instance] # None
    BY <1>i, <2>1, <2>2
  <2>5. \A k \in stopping' : mgr'[k] # None
    BY <1>t, <1>i, <2>1
  <2> QED
    BY <1>d, <2>3, <2>4, <2>5, LinkParts
<1>3. ASSUME NEW m, NEW r, NEW i, MgrNew(m, r, i) PROVE LinkInv'
  <2>1. /\ m \in Manager /\ mgr'[m] = r /\ \A k \in Manager : k # m => mgr'[k] = mgr[k]
        /\ r # None /\ m # None /\ mgr[m] = None /\ r.instance = i /\ i \in Instance /\ stopping' = stopping
        /\ managers'[i] = m /\ \A j \in Instance : j # i => managers'[j] = managers[j]
    BY <1>t, <1>3 DEF MgrNew
  <2>2. phase' # "stopped" => phase # "stopped"
    BY <2>1, PhaseFacts, ProcessEnds
  <2>3. \A j \in Instance : managers'[j] # None => mgr'[managers'[j]] # None /\ mgr'[managers'[j]].instance = j
    BY <1>t, <1>i, <2>1
  <2>4. phase' # "stopped" => \A k \in Manager : mgr'[k] # None => managers'[mgr'[k].instance] # None
    BY <1>i, <1>r, <2>1, <2>2
  <2>5. \A k \in stopping' : mgr'[k] # None
    BY <1>t, <1>i, <2>1
  <2> QED
    BY <1>d, <2>3, <2>4, <2>5, LinkParts
<1>4. CASE StopBegin
  <2>1. managers' = managers /\ phase = "up"
    BY <1>4 DEF StopBegin
  <2>2. \A k \in Manager : /\ mgr'[k] # None <=> mgr[k] # None
                           /\ mgr'[k] # None => mgr'[k].instance = mgr[k].instance
    BY <1>t, <1>4, StopBeginFacts
  <2>3. \A j \in Instance : managers'[j] # None => mgr'[managers'[j]] # None /\ mgr'[managers'[j]].instance = j
    BY <1>t, <1>i, <2>1, <2>2
  <2>4. phase' # "stopped" => \A k \in Manager : mgr'[k] # None => managers'[mgr'[k].instance] # None
    BY <1>i, <2>1, <2>2
  <2>5. \A k \in stopping' : mgr'[k] # None
    BY <1>4, <2>2, StopBeginFacts
  <2> QED
    BY <1>d, <2>3, <2>4, <2>5, LinkParts
<1>5. CASE StopEnd
  BY <1>d, <1>i, <1>5, StopEnds, LinkParts
<1>6. CASE Crash \/ Exit
  BY <1>d, <1>6, ProcessEnds, LinkParts
<1> QED
  BY <1>1, <1>2, <1>3, <1>4, <1>5, <1>6, MgrCases

-----------------------------------------------------------------------------
(* Calls and their instances.                                              *)

\* The same after a step.
HasInstanceNext(c) ==
  call'[c].pc \in {"manage", "launch", "schedule"} \/ (call'[c].pc = "start" /\ store' = "repos")
WaitsNext(c) == HasInstanceNext(c) /\ call'[c].pc # "schedule"
UnfinishedNext == {i \in DOMAIN db'.instance : StatusOf(db', i) \in {"Running", "Paused"}}

\* Unfinished, by the statuses.
LEMMA UnfinishedSet == Unfinished = {i \in DOMAIN db.instance : StatusOf(db, i) \in {"Running", "Paused"}}
BY DEF Unfinished, WithStatus, StatusOf

\* The same after a step.
LEMMA UnfinishedSetNext == Unfinished' = UnfinishedNext
BY DEF Unfinished, WithStatus, StatusOf, UnfinishedNext

\* The parts are CallInv.
LEMMA CallParts ==
  CallInv' <=>
    /\ \A c \in Caller : HasInstanceNext(c) =>
         call'[c].instance \in DOMAIN hist'.want /\ hist'.want[call'[c].instance] = call'[c].tasks
    /\ \A c, d \in Caller : HasInstanceNext(c) /\ HasInstanceNext(d) /\ call'[c].instance = call'[d].instance => c = d
    /\ \A c \in Caller : WaitsNext(c) =>
         /\ call'[c].instance \notin UnfinishedNext \cup todo'.running \cup todo'.paused
         /\ \A m \in Manager : mgr'[m] # None /\ mgr'[m].instance = call'[c].instance =>
              mgr'[m].loop = "none" /\ mgr'[m].status = "Ready"
    /\ \A c \in Caller : call'[c].pc = "launch" =>
         call'[c].manager \in Manager /\ mgr'[call'[c].manager] # None /\ mgr'[call'[c].manager].instance = call'[c].instance
BY UnfinishedSetNext DEF CallInv, HasInstance, Waits, HasInstanceNext, WaitsNext

\* A call that keeps its instance, and one that gets it.
Keeps(c) ==
  /\ HasInstance(c) /\ call'[c].instance = call[c].instance /\ call'[c].tasks = call[c].tasks
  /\ WaitsNext(c) => Waits(c)
Gets(c) ==
  /\ Submits(c) /\ call'[c].instance = NextInstance /\ call'[c].tasks = call[c].tasks
  /\ \A d \in Caller : d # c => call'[d] = call[d]
  /\ mgr' = mgr /\ todo' = todo /\ managers' = managers

\* A call that has its instance had it or gets it.
LEMMA HasFrom ==
  ASSUME EIInv, [EngineNext]_engineVars, NEW c \in Caller, HasInstanceNext(c)
  PROVE  Keeps(c) \/ Gets(c)
<1>0. CallFrom(c) /\ store' = store
  BY CallTypes, DbTypes DEF CallStep, EIInv
<1>1. CASE call'[c] = NoCall
  BY <1>1 DEF NoCall, HasInstanceNext
<1>2. CASE call'[c] = call[c]
  BY <1>0, <1>2 DEF HasInstanceNext, HasInstance, Keeps, WaitsNext, Waits
<1>3. CASE call'[c].pc = "save"
  BY <1>3 DEF HasInstanceNext
<1>4. ASSUME call'[c].wf = call[c].wf, call'[c].tasks = call[c].tasks, CallMoves(c) PROVE Keeps(c) \/ Gets(c)
  <2>1. CASE AggregateSaved(c) /\ call'[c].pc = "start"
    BY <1>0, <2>1 DEF AggregateSaved, HasInstanceNext
  <2>2. CASE Submits(c) /\ call'[c].instance = NextInstance /\ (\A d \in Caller : d # c => call'[d] = call[d])
             /\ mgr' = mgr /\ todo' = todo /\ managers' = managers
    BY <1>4, <2>2 DEF Gets
  <2>3. CASE call[c].pc = "start" /\ store = "repos" /\ call'[c].pc = "manage" /\ call'[c].instance = call[c].instance
    BY <1>4, <2>3 DEF Keeps, HasInstance, Waits, WaitsNext, HasInstanceNext
  <2>4. CASE Manage(c) /\ call'[c].pc = "launch" /\ call'[c].instance = call[c].instance
    BY <1>4, <2>4 DEF Keeps, HasInstance, Waits, WaitsNext, HasInstanceNext, Manage
  <2>5. CASE Launch(c) /\ call'[c].pc = "schedule" /\ call'[c].instance = call[c].instance
    BY <1>4, <2>5 DEF Keeps, HasInstance, Waits, WaitsNext, HasInstanceNext, Launch
  <2> QED
    BY <1>4, <2>1, <2>2, <2>3, <2>4, <2>5 DEF CallMoves
<1> QED
  BY <1>0, <1>1, <1>2, <1>3, <1>4 DEF CallFrom

\* A call that has launched its instance does not wait.
LEMMA LaunchedWaitsNot ==
  ASSUME EIInv, NEW c \in Caller, Launch(c)
  PROVE  ~WaitsNext(c)
<1>1. call'[c].pc \in {"schedule", "idle"}
  BY DEF Launch, Return, NoCall, EIInv, ETypes, CallsOK, CallSet
<1> QED
  BY <1>1 DEF WaitsNext, HasInstanceNext

\* A call's instance has the call's tasks.
LEMMA CallFirst ==
  ASSUME EIInv, [EngineNext]_engineVars, NEW c \in Caller, HasInstanceNext(c)
  PROVE  call'[c].instance \in DOMAIN hist'.want /\ hist'.want[call'[c].instance] = call'[c].tasks
<1>1. CASE Keeps(c)
  BY <1>1, HistTypes DEF Keeps, EIInv, CallInv
<1>2. CASE Gets(c)
  BY <1>2, SubmitsWant DEF Gets, EIInv
<1> QED
  BY <1>1, <1>2, HasFrom

\* No two calls have an instance.
LEMMA CallSecond ==
  ASSUME EIInv, [EngineNext]_engineVars, NEW c \in Caller, NEW d \in Caller,
         HasInstanceNext(c), HasInstanceNext(d), call'[c].instance = call'[d].instance
  PROVE  c = d
<1>0. (Keeps(c) \/ Gets(c)) /\ (Keeps(d) \/ Gets(d)) /\ store' = store
  BY HasFrom, DbTypes DEF EIInv
<1>1. \A e \in Caller : HasInstance(e) => call[e].instance # NextInstance
  <2>1. NextInstance \notin DOMAIN hist.want
    BY SubmitFacts DEF EIInv
  <2> QED
    BY <2>1 DEF EIInv, CallInv
<1>2. ASSUME NEW e \in Caller, NEW f \in Caller, Gets(e), HasInstanceNext(f), call'[f].instance = NextInstance, e # f
      PROVE  FALSE
  <2>1. call'[f] = call[f]
    BY <1>2 DEF Gets
  <2>2. HasInstance(f)
    BY <1>0, <1>2, <2>1 DEF HasInstanceNext, HasInstance
  <2> QED
    BY <1>1, <1>2, <2>1, <2>2
<1>3. CASE Keeps(c) /\ Keeps(d)
  BY <1>3 DEF Keeps, EIInv, CallInv
<1>4. CASE Gets(c)
  <2>1. call'[d].instance = NextInstance
    BY <1>4 DEF Gets
  <2> QED
    BY <1>2, <1>4, <2>1
<1>5. CASE Gets(d)
  <2>1. call'[c].instance = NextInstance
    BY <1>5 DEF Gets
  <2> QED
    BY <1>2, <1>5, <2>1
<1> QED
  BY <1>0, <1>3, <1>4, <1>5

\* An instance whose manager is not started is stored as Ready or as ended...
LEMMA WaitingNotUnfinished ==
  ASSUME EIInv, [EngineNext]_engineVars, NEW c \in Caller, WaitsNext(c)
  PROVE  call'[c].instance \notin UnfinishedNext
<1>0. Keeps(c) \/ Gets(c)
  BY HasFrom DEF WaitsNext
<1>1. SUFFICES ASSUME call'[c].instance \in UnfinishedNext PROVE FALSE
  OBVIOUS
<1>2. PICK i : i = call'[c].instance
  OBVIOUS
<1>3. i \in DOMAIN db'.instance /\ StatusOf(db', i) \in {"Running", "Paused"} /\ RowFrom(i)
  BY <1>1, <1>2, DbTypes DEF UnfinishedNext, DbStep, EIInv
<1>4. /\ i \in DOMAIN db.instance
      /\ StatusOf(db', i) = StatusOf(db, i) \/ StatusMoves(i)
  BY <1>3 DEF RowFrom
<1>5. CASE Gets(c)
  <2>1. i = NextInstance /\ i \in DOMAIN hist.want
    BY <1>2, <1>4, <1>5 DEF Gets, EIInv, ETypes, DbOK
  <2> QED
    BY <2>1, SubmitFacts DEF EIInv
<1>6. CASE Keeps(c)
  <2>1. /\ Waits(c) /\ HasInstance(c) /\ call[c].instance = i
    BY <1>2, <1>6 DEF Keeps
  <2>2. /\ i \notin Unfinished \cup todo.running \cup todo.paused
        /\ \A m \in Manager : mgr[m] # None /\ mgr[m].instance = i => mgr[m].loop = "none" /\ mgr[m].status = "Ready"
    BY <2>1 DEF EIInv, CallInv
  <2>3. StatusMoves(i)
    BY <1>3, <1>4, <2>2, UnfinishedSet
  <2>4. CASE \E m \in Manager : mgr[m] # None /\ mgr[m].loop = "on" /\ mgr[m].instance = i
    BY <2>2, <2>4
  <2>5. CASE RestoreRunning(i)
    BY <2>2, <2>5 DEF RestoreRunning
  <2>6. ASSUME NEW d \in Caller, Launch(d), call[d].instance = i PROVE FALSE
    <3>1. HasInstance(d)
      BY <2>6 DEF Launch, HasInstance
    <3>2. c = d
      BY <2>1, <2>6, <3>1 DEF EIInv, CallInv
    <3> QED
      BY <2>6, <3>2, LaunchedWaitsNot
  <2>7. CASE \E m \in stopping : mgr[m].status = "Running" /\ mgr[m].instance = i
    <3>1. PICK m \in stopping : mgr[m].status = "Running" /\ mgr[m].instance = i
      BY <2>7
    <3>2. m \in Manager /\ mgr[m] # None
      BY TypesOfMaps DEF EIInv, LinkInv
    <3> QED
      BY <2>2, <3>1, <3>2
  <2> QED
    BY <1>3, <2>3, <2>4, <2>5, <2>6, <2>7 DEF StatusMoves
<1> QED
  BY <1>0, <1>5, <1>6

\* ...is not to be restored...
LEMMA WaitingNotTodo ==
  ASSUME EIInv, [EngineNext]_engineVars, NEW c \in Caller, WaitsNext(c)
  PROVE  call'[c].instance \notin todo'.running \cup todo'.paused
<1>0. Keeps(c) \/ Gets(c)
  BY HasFrom DEF WaitsNext
<1>1. TodoShrinks \/ ListUnfinished
  BY PhaseSteps, TodoTypes DEF EIInv
<1>2. CASE Gets(c)
  <2>1. todo.running \subseteq DOMAIN hist.want /\ todo.paused \subseteq DOMAIN hist.want
    BY DEF EIInv, ETypes, EngineOK
  <2>2. todo' = todo /\ call'[c].instance = NextInstance
    BY <1>2 DEF Gets
  <2> QED
    BY <2>1, <2>2, SubmitFacts DEF EIInv
<1>3. CASE Keeps(c)
  <2>1. call'[c].instance \notin Unfinished \cup todo.running \cup todo.paused
    BY <1>3 DEF Keeps, EIInv, CallInv
  <2>2. CASE TodoShrinks
    BY <2>1, <2>2 DEF TodoShrinks
  <2>3. CASE ListUnfinished
    BY <2>1, <2>3, ListFacts DEF EIInv, Unfinished
  <2> QED
    BY <1>1, <2>2, <2>3
<1> QED
  BY <1>0, <1>2, <1>3

\* ...and its managers have not run.
LEMMA WaitingManagers ==
  ASSUME EIInv, [EngineNext]_engineVars, NEW c \in Caller, WaitsNext(c),
         NEW m \in Manager, mgr'[m] # None, mgr'[m].instance = call'[c].instance
  PROVE  mgr'[m].loop = "none" /\ mgr'[m].status = "Ready"
<1>0. Keeps(c) \/ Gets(c)
  BY HasFrom DEF WaitsNext
<1>1. CASE Gets(c)
  <2>1. mgr[m] # None /\ mgr[m].instance = NextInstance
    BY <1>1 DEF Gets
  <2> QED
    BY <2>1, SubmitFacts, ManagerFacts DEF EIInv
<1>2. CASE Keeps(c)
  <2>1. PICK i : i = call[c].instance
    OBVIOUS
  <2>2. /\ Waits(c) /\ HasInstance(c) /\ call'[c].instance = i
    BY <1>2, <2>1 DEF Keeps
  <2>3. /\ i \notin Unfinished /\ i \notin todo.running /\ i \notin todo.paused
        /\ \A k \in Manager : mgr[k] # None /\ mgr[k].instance = i => mgr[k].loop = "none" /\ mgr[k].status = "Ready"
    BY <2>1, <2>2 DEF EIInv, CallInv
  <2>4. MgrFrom(m)
    BY MgrTypes DEF MgrStep
  <2>5. CASE mgr'[m] = mgr[m]
    BY <2>2, <2>3, <2>5
  <2>6. CASE /\ mgr[m] # None /\ mgr'[m].instance = mgr[m].instance
             /\ \/ mgr'[m].loop = mgr[m].loop /\ mgr'[m].status = mgr[m].status
                \/ mgr[m].loop = "on"
                \/ \E d \in Caller : Launch(d) /\ call[d].manager = m
    <3>1. mgr[m].loop = "none" /\ mgr[m].status = "Ready"
      BY <2>2, <2>3, <2>6
    <3>2. ASSUME NEW d \in Caller, Launch(d), call[d].manager = m PROVE FALSE
      <4>1. HasInstance(d) /\ call[d].instance = i
        BY <2>2, <2>6, <3>2 DEF Launch, HasInstance, EIInv, CallInv
      <4>2. c = d
        BY <2>1, <2>2, <4>1 DEF EIInv, CallInv
      <4> QED
        BY <3>2, <4>2, LaunchedWaitsNot
    <3> QED
      BY <2>6, <3>1, <3>2
  <2>7. CASE MgrNew(m, mgr'[m], mgr'[m].instance)
    <3>1. ~RestoreRunning(i) /\ ~RestorePaused(i)
      BY <2>3 DEF RestoreRunning, RestorePaused
    <3>2. ~ResumeUnmanaged(i)
      BY <2>3 DEF ResumeUnmanaged, Unfinished
    <3> QED
      BY <2>2, <2>7, <3>1, <3>2 DEF MgrNew
  <2> QED
    BY <2>4, <2>5, <2>6, <2>7 DEF MgrFrom
<1> QED
  BY <1>0, <1>1, <1>2

\* A manager keeps its instance and its tasks until its process ends.
LEMMA ManagersStay ==
  ASSUME EIInv, [EngineNext]_engineVars, NEW m \in Manager, mgr[m] # None
  PROVE  \/ mgr'[m] # None /\ mgr'[m].instance = mgr[m].instance /\ mgr'[m].tasks = mgr[m].tasks
         \/ Crash \/ Exit
<1>t. mgr \in [Manager -> ManagerRecord \cup {None}] /\ None \notin ManagerRecord
  BY TypesOfMaps DEF EIInv
<1>1. CASE MgrSame \/ StopEnd
  BY <1>1, StopEnds DEF MgrSame
<1>2. ASSUME NEW k, NEW r, MgrChanged(k, r)
      PROVE  mgr'[m] # None /\ mgr'[m].instance = mgr[m].instance /\ mgr'[m].tasks = mgr[m].tasks
  BY <1>t, <1>2 DEF MgrChanged
<1>3. ASSUME NEW k, NEW r, NEW i, MgrNew(k, r, i) PROVE mgr'[m] = mgr[m]
  BY <1>t, <1>3 DEF MgrNew
<1>4. CASE StopBegin
  BY <1>t, <1>4, StopBeginFacts
<1> QED
  BY <1>1, <1>2, <1>3, <1>4, MgrCases

\* The manager a call launches is its instance's.
LEMMA CallFourth ==
  ASSUME EIInv, [EngineNext]_engineVars, NEW c \in Caller, call'[c].pc = "launch"
  PROVE  call'[c].manager \in Manager /\ mgr'[call'[c].manager] # None /\ mgr'[call'[c].manager].instance = call'[c].instance
<1>0. CallFrom(c)
  BY CallTypes DEF CallStep, EIInv
<1>1. CASE call'[c] = call[c]
  <2>1. PICK m \in Manager : m = call[c].manager /\ mgr[m] # None /\ mgr[m].instance = call[c].instance
    BY <1>1 DEF EIInv, CallInv
  <2>2. ~Crash /\ ~Exit
    <3>1. SUFFICES ASSUME Crash \/ Exit PROVE FALSE
      OBVIOUS
    <3>2. call' = [d \in Caller |-> NoCall]
      BY <3>1, ProcessEnds
    <3> QED
      BY <3>2 DEF NoCall
  <2> QED
    BY <1>1, <2>1, <2>2, ManagersStay
<1>2. CASE Manage(c)
  <2>1. call[c] \in CallSet /\ call[c].instance \in Instance
    BY <1>2, CallFacts, TypesOfMaps DEF Manage, EIInv, CallInv, HasInstance
  <2>2. PICK m \in FreeManager :
          /\ mgr' = [mgr EXCEPT ![m] = NewManager(call[c].instance, call[c].tasks, "Ready")]
          /\ call' = [call EXCEPT ![c].pc = "launch", ![c].manager = m]
    BY <1>2 DEF Manage
  <2>3. PICK i \in Instance, T \in SUBSET Task : i = call[c].instance /\ T = call[c].tasks
    BY <2>1 DEF CallSet
  <2>4. PICK r : r = NewManager(i, T, "Ready")
    OBVIOUS
  <2>5. r \in ManagerRecord /\ r.instance = i
    <3>1. "Ready" \in Statuses
      BY DEF Statuses
    <3> QED
      BY <2>4, <3>1, NewManagerFacts
  <2>6. m \in Manager /\ mgr'[m] = r
    BY <2>2, <2>3, <2>4, TypesOfMaps DEF FreeManager, EIInv
  <2>7. call'[c].manager = m /\ call'[c].instance = i
    BY <2>1, <2>2, <2>3 DEF EIInv, ETypes, CallsOK, CallSet
  <2> QED
    BY <2>5, <2>6, <2>7, TypesOfMaps DEF EIInv
<1>3. CASE call'[c] = NoCall
  BY <1>3 DEF NoCall
<1> QED
  BY <1>0, <1>1, <1>2, <1>3 DEF CallFrom, CallMoves

\* CallInv is kept.
LEMMA CallNext ==
  ASSUME EIInv, [EngineNext]_engineVars
  PROVE  CallInv'
<1>1. \A c \in Caller : HasInstanceNext(c) =>
         call'[c].instance \in DOMAIN hist'.want /\ hist'.want[call'[c].instance] = call'[c].tasks
  BY CallFirst
<1>2. \A c, d \in Caller : HasInstanceNext(c) /\ HasInstanceNext(d) /\ call'[c].instance = call'[d].instance => c = d
  BY CallSecond
<1>3. \A c \in Caller : WaitsNext(c) =>
         /\ call'[c].instance \notin UnfinishedNext \cup todo'.running \cup todo'.paused
         /\ \A m \in Manager : mgr'[m] # None /\ mgr'[m].instance = call'[c].instance =>
              mgr'[m].loop = "none" /\ mgr'[m].status = "Ready"
  BY WaitingNotUnfinished, WaitingNotTodo, WaitingManagers
<1>4. \A c \in Caller : call'[c].pc = "launch" =>
         call'[c].manager \in Manager /\ mgr'[call'[c].manager] # None /\ mgr'[call'[c].manager].instance = call'[c].instance
  BY CallFourth
<1> QED
  BY <1>1, <1>2, <1>3, <1>4, CallParts

-----------------------------------------------------------------------------
(* What is restored.                                                       *)

\* The parts are RestoreInv.
LEMMA RestoreParts ==
  RestoreInv' <=>
    /\ phase' # "restoring" => todo'.running = {} /\ todo'.paused = {}
    /\ phase' \in {"restoring", "up"} =>
         \A i \in UnfinishedNext : managers'[i] # None \/ i \in hist'.lost \cup todo'.running \cup todo'.paused
    /\ \A m \in Manager :
         mgr'[m] # None /\ mgr'[m].loop = "on" /\ (phase' = "listing" \/ mgr'[m].instance \in todo'.running) =>
          mgr'[m].instance \in hist'.early
    /\ \A m, k \in Manager :
         mgr'[m] # None /\ mgr'[k] # None /\ mgr'[m].loop = "on" /\ mgr'[k].loop = "on" /\ mgr'[m].instance = mgr'[k].instance
           => m = k \/ mgr'[m].instance \in hist'.early
BY UnfinishedSetNext DEF RestoreInv

\* Start is done when nothing is left to restore.
LEMMA RestoreFirst ==
  ASSUME EIInv, [EngineNext]_engineVars, phase' # "restoring"
  PROVE  todo'.running = {} /\ todo'.paused = {}
<1>0. PhaseStep /\ (TodoShrinks \/ ListUnfinished)
  BY PhaseSteps, TodoTypes DEF EIInv
<1>1. phase # "restoring" => todo.running = {} /\ todo.paused = {}
  BY DEF EIInv, RestoreInv
<1>2. ~ListUnfinished
  BY DEF ListUnfinished
<1>3. CASE phase # "restoring"
  BY <1>0, <1>1, <1>2, <1>3 DEF TodoShrinks
<1>4. CASE phase = "restoring"
  <2>1. StartEnd \/ Crash \/ Exit
    BY <1>0, <1>4 DEF PhaseStep, StartBegin, ListUnfinished, StopBegin, StopEnd
  <2>2. CASE StartEnd
    BY <2>2 DEF StartEnd
  <2>3. CASE Crash \/ Exit
    <3>1. todo' = [running |-> {}, paused |-> {}]
      BY <2>3, ProcessEnds
    <3> QED
      BY <3>1
  <2> QED
    BY <2>1, <2>2, <2>3
<1> QED
  BY <1>3, <1>4

\* While Start restores or has restored, an instance that has a manager keeps it.
LEMMA MapStays ==
  ASSUME EIInv, [EngineNext]_engineVars, phase' \in {"restoring", "up"}, NEW i \in Instance, managers[i] # None
  PROVE  managers'[i] # None
<1>t. /\ managers \in [Instance -> Manager \cup {None}] /\ None \notin Manager
  BY TypesOfMaps DEF EIInv
<1>1. ~StopEnd /\ ~StopBegin /\ ~Crash /\ ~Exit
  BY ProcessEnds DEF StopEnd, StopBegin
<1>2. CASE MgrSame
  BY <1>2 DEF MgrSame
<1>3. ASSUME NEW m, NEW r, MgrChanged(m, r) PROVE managers'[i] # None
  BY <1>3 DEF MgrChanged
<1>4. ASSUME NEW m, NEW r, NEW j, MgrNew(m, r, j) PROVE managers'[i] # None
  BY <1>t, <1>4 DEF MgrNew
<1> QED
  BY <1>1, <1>2, <1>3, <1>4, MgrCases

\* A restore gives the instance a manager or counts it as lost.
LEMMA RestoredOrLost ==
  ASSUME EIInv, [EngineNext]_engineVars, NEW i \in Instance, RestoreRunning(i) \/ RestorePaused(i)
  PROVE  managers'[i] # None \/ i \in hist'.lost
<1>t. /\ managers \in [Instance -> Manager \cup {None}] /\ None \notin Manager
  BY TypesOfMaps DEF EIInv
<1>1. (\E auto : RestoreInstance(i, auto)) \/ CannotRestore(i)
  BY DEF RestoreRunning, RestorePaused
<1>2. ASSUME NEW auto, RestoreInstance(i, auto) PROVE managers'[i] # None
  <2>1. PICK m \in FreeManager : managers' = [managers EXCEPT ![i] = m]
    BY <1>2 DEF RestoreInstance
  <2> QED
    BY <1>t, <2>1 DEF FreeManager
<1>3. CASE CannotRestore(i)
  <2>1. hist' = [hist EXCEPT !.lost = hist.lost \cup {i}]
    BY <1>3 DEF CannotRestore
  <2> QED
    BY <2>1 DEF EIInv, ETypes, HistOK
<1> QED
  BY <1>1, <1>2, <1>3

\* No unfinished instance is left out: a status that becomes Running or Paused is
\* set by a manager in the map or by a restore.
LEMMA RestoreSecond ==
  ASSUME EIInv, [EngineNext]_engineVars, phase' \in {"restoring", "up"}, NEW i \in UnfinishedNext
  PROVE  managers'[i] # None \/ i \in hist'.lost \cup todo'.running \cup todo'.paused
<1>1. CASE ListUnfinished
  <2>1. i \in Unfinished
    BY <1>1, ListFacts, UnfinishedSet DEF EIInv, UnfinishedNext
  <2> QED
    BY <1>1, <2>1, ListFacts DEF EIInv, Unfinished
<1>2. CASE ~ListUnfinished
  <2>0. phase \in {"restoring", "up"}
    <3>1. CASE phase' = "up" /\ StartEnd
      BY <3>1 DEF StartEnd
    <3> QED
      BY <1>2, <3>1, PhaseFacts
  <2>1. i \in DOMAIN db'.instance /\ StatusOf(db', i) \in {"Running", "Paused"} /\ RowFrom(i)
    BY DbTypes DEF UnfinishedNext, DbStep, EIInv
  <2>2. i \in DOMAIN db.instance /\ (StatusOf(db', i) = StatusOf(db, i) \/ StatusMoves(i))
    BY <2>1 DEF RowFrom
  <2>3. i \in Instance
    BY <2>2, TypesOfMaps DEF EIInv
  <2>4. CASE managers[i] # None
    BY <2>3, <2>4, MapStays
  <2>5. CASE i \in Unfinished /\ managers[i] = None
    <3>1. i \in hist.lost \cup todo.running \cup todo.paused
      BY <2>0, <2>5 DEF EIInv, RestoreInv
    <3>2. CASE i \in hist.lost
      BY <3>2, HistGrows DEF EIInv, HistGrowth
    <3>3. CASE i \in todo.running \cup todo.paused
      <4>1. TodoStep
        BY PhaseSteps DEF EIInv
      <4>2. ~Crash /\ ~Exit
        BY ProcessEnds
      <4>3. ASSUME NEW k \in Instance, RestoreRunning(k) \/ RestorePaused(k)
            PROVE  managers'[i] # None \/ i \in hist'.lost \cup todo'.running \cup todo'.paused
        <5>1. CASE k = i
          BY <4>3, <5>1, RestoredOrLost
        <5>2. CASE k # i
          <6>1. \/ todo' = [running |-> todo.running \ {k}, paused |-> todo.paused]
                \/ todo' = [running |-> todo.running, paused |-> todo.paused \ {k}]
            BY <4>3, RestoreTodo DEF EIInv
          <6>2. i \in todo'.running \cup todo'.paused
            BY <3>3, <5>2, <6>1
          <6> QED
            BY <6>2
        <5> QED
          BY <5>1, <5>2
      <4> QED
        BY <1>2, <3>3, <4>1, <4>2, <4>3 DEF TodoStep
    <3> QED
      BY <3>1, <3>2, <3>3
  <2>6. CASE i \notin Unfinished /\ managers[i] = None
    <3>1. StatusMoves(i)
      BY <2>1, <2>2, <2>6, UnfinishedSet
    <3>2. \A m \in Manager : mgr[m] # None => mgr[m].instance # i
      BY <2>0, <2>6 DEF EIInv, LinkInv
    <3>3. ~StopEnd
      BY DEF StopEnd
    <3>4. ASSUME NEW c \in Caller, Launch(c), call[c].instance = i PROVE FALSE
      BY <3>2, <3>4 DEF Launch, EIInv, CallInv
    <3>5. CASE RestoreRunning(i)
      BY <2>3, <3>5, RestoredOrLost
    <3> QED
      BY <2>1, <3>1, <3>2, <3>3, <3>4, <3>5 DEF StatusMoves
  <2> QED
    BY <2>4, <2>5, <2>6
<1> QED
  BY <1>1, <1>2

\* Where a running manager comes from.
WasOn(m) == mgr[m] # None /\ mgr[m].loop = "on" /\ mgr[m].instance = mgr'[m].instance
Launched(c, m) == /\ Launch(c) /\ call[c].manager = m /\ mgr[m] # None
                  /\ mgr'[m].instance = call[c].instance
RestoredNow(m) == RestoreRunning(mgr'[m].instance) /\ MgrNew(m, mgr'[m], mgr'[m].instance)

\* It was running, was launched by a call, or is restored.
LEMMA OnFrom ==
  ASSUME EIInv, [EngineNext]_engineVars, NEW m \in Manager, mgr'[m] # None, mgr'[m].loop = "on"
  PROVE  WasOn(m) \/ (\E c \in Caller : Launched(c, m)) \/ RestoredNow(m)
<1>0. MgrFrom(m)
  BY MgrTypes DEF MgrStep
<1>1. CASE mgr'[m] = mgr[m]
  BY <1>1 DEF WasOn
<1>2. CASE /\ mgr[m] # None /\ mgr'[m].instance = mgr[m].instance
           /\ \/ mgr'[m].loop = mgr[m].loop /\ mgr'[m].status = mgr[m].status
              \/ mgr[m].loop = "on"
              \/ \E c \in Caller : Launch(c) /\ call[c].manager = m
  <2>1. ASSUME NEW c \in Caller, Launch(c), call[c].manager = m PROVE Launched(c, m)
    <3>1. call[c].pc = "launch"
      BY <2>1 DEF Launch
    <3>2. mgr[m].instance = call[c].instance
      BY <2>1, <3>1 DEF EIInv, CallInv
    <3> QED
      BY <1>2, <2>1, <3>2 DEF Launched
  <2> QED
    BY <1>2, <2>1 DEF WasOn
<1>3. CASE MgrNew(m, mgr'[m], mgr'[m].instance)
  BY <1>3 DEF MgrNew, RestoredNow
<1> QED
  BY <1>0, <1>1, <1>2, <1>3 DEF MgrFrom

\* The early stay early while there is a manager.
LEMMA EarlyGrows ==
  ASSUME EIInv, [EngineNext]_engineVars, NEW m \in Manager, mgr'[m] # None
  PROVE  hist.early \subseteq hist'.early
<1>1. ~Crash /\ ~Exit
  BY ProcessEnds
<1> QED
  BY <1>1, HistGrows DEF EIInv, HistGrowth

\* An instance that is launched was not to be restored and had no running manager.
LEMMA LaunchedFacts ==
  ASSUME EIInv, NEW m \in Manager, NEW c \in Caller, Launched(c, m)
  PROVE  /\ call[c].pc = "launch" /\ HasInstance(c) /\ todo' = todo /\ phase' = phase
         /\ mgr'[m].instance = call[c].instance /\ call[c].instance \notin todo.running
         /\ \A k \in Manager : mgr[k] # None /\ mgr[k].instance = call[c].instance => mgr[k].loop = "none"
         /\ phase = "listing" => call[c].instance \in hist'.early
<1>1. call[c].pc = "launch" /\ todo' = todo /\ phase' = phase
  BY DEF Launched, Launch
<1>2. Waits(c) /\ HasInstance(c)
  BY <1>1 DEF Waits, HasInstance
<1>3. phase = "listing" => call[c].instance \in hist'.early
  <2>1. SUFFICES ASSUME phase = "listing" PROVE call[c].instance \in hist'.early
    OBVIOUS
  <2>2. hist' = [hist EXCEPT !.early = hist.early \cup {call[c].instance}]
    BY <2>1 DEF Launched, Launch
  <2> QED
    BY <2>2 DEF EIInv, ETypes, HistOK
<1>4. mgr'[m].instance = call[c].instance
  BY DEF Launched
<1>5. /\ call[c].instance \notin todo.running
      /\ \A k \in Manager : mgr[k] # None /\ mgr[k].instance = call[c].instance => mgr[k].loop = "none"
  BY <1>2 DEF EIInv, CallInv
<1> QED
  BY <1>1, <1>2, <1>3, <1>4, <1>5

\* An instance that is restored is off the list.
LEMMA RestoredFacts ==
  ASSUME EIInv, NEW m \in Manager, RestoredNow(m)
  PROVE  /\ mgr'[m].instance \in todo.running /\ mgr'[m].instance \notin todo'.running
         /\ phase' = "restoring" /\ mgr[m] = None
         /\ \A k \in Manager : k # m => mgr'[k] = mgr[k]
<1>1. PICK i \in Instance : i = mgr'[m].instance
  BY DEF RestoredNow, MgrNew
<1>2. RestoreRunning(i)
  BY <1>1 DEF RestoredNow
<1>3. i \in todo.running /\ phase' = "restoring"
  BY <1>2 DEF RestoreRunning
<1>4. todo' = [running |-> todo.running \ {i}, paused |-> todo.paused]
  BY <1>2, RestoreTodo DEF EIInv
<1>5. i \notin todo'.running
  BY <1>4
<1>6. mgr[m] = None /\ mgr' = [mgr EXCEPT ![m] = mgr'[m]]
  BY DEF RestoredNow, MgrNew
<1>7. \A k \in Manager : k # m => mgr'[k] = mgr[k]
  BY <1>6, TypesOfMaps DEF EIInv
<1> QED
  BY <1>1, <1>3, <1>5, <1>6, <1>7

\* A manager that runs what is still to be restored was launched early.
LEMMA RestoreThird ==
  ASSUME EIInv, [EngineNext]_engineVars, NEW m \in Manager, mgr'[m] # None, mgr'[m].loop = "on",
         phase' = "listing" \/ mgr'[m].instance \in todo'.running
  PROVE  mgr'[m].instance \in hist'.early
<1>0. \A n \in Manager :
       mgr[n] # None /\ mgr[n].loop = "on" /\ (phase = "listing" \/ mgr[n].instance \in todo.running) =>
        mgr[n].instance \in hist.early
  BY DEF EIInv, RestoreInv
<1>1. CASE WasOn(m)
  <2>1. phase # "down"
    BY <1>1 DEF WasOn, EIInv, LinkInv
  <2>2. phase' = "listing" => phase = "listing"
    BY <2>1, PhaseFacts
  <2>3. TodoShrinks \/ ListUnfinished
    BY PhaseSteps, TodoTypes DEF EIInv
  <2>4. phase = "listing" \/ mgr[m].instance \in todo.running
    BY <1>1, <2>2, <2>3, ListFacts DEF WasOn, TodoShrinks, EIInv
  <2> QED
    BY <1>0, <1>1, <2>4, EarlyGrows DEF WasOn
<1>2. ASSUME NEW c \in Caller, Launched(c, m) PROVE mgr'[m].instance \in hist'.early
  BY <1>2, LaunchedFacts
<1>3. CASE RestoredNow(m)
  BY <1>3, RestoredFacts
<1> QED
  BY <1>1, <1>2, <1>3, OnFrom

\* Two managers run an instance that was launched early, or none.
LEMMA RestoreFourth ==
  ASSUME EIInv, [EngineNext]_engineVars, NEW m \in Manager, NEW k \in Manager, m # k,
         mgr'[m] # None, mgr'[k] # None, mgr'[m].loop = "on", mgr'[k].loop = "on",
         mgr'[m].instance = mgr'[k].instance
  PROVE  mgr'[m].instance \in hist'.early
<1>0. /\ WasOn(m) \/ (\E c \in Caller : Launched(c, m)) \/ RestoredNow(m)
      /\ WasOn(k) \/ (\E c \in Caller : Launched(c, k)) \/ RestoredNow(k)
  BY OnFrom
<1>1. CASE WasOn(m) /\ WasOn(k)
  <2>1. mgr[m].instance \in hist.early
    BY <1>1 DEF WasOn, EIInv, RestoreInv
  <2> QED
    BY <1>1, <2>1, EarlyGrows DEF WasOn
<1>2. ASSUME NEW n \in Manager, NEW l \in Manager, NEW c \in Caller, Launched(c, n), WasOn(l),
             mgr'[n].instance = mgr'[l].instance
      PROVE  FALSE
  BY <1>2, LaunchedFacts DEF WasOn
<1>3. ASSUME NEW c \in Caller, NEW d \in Caller, Launched(c, m), Launched(d, k) PROVE FALSE
  <2>1. HasInstance(c) /\ HasInstance(d) /\ call[c].instance = call[d].instance
    BY <1>3, LaunchedFacts
  <2>2. c = d
    BY <2>1 DEF EIInv, CallInv
  <2> QED
    BY <1>3, <2>2 DEF Launched
<1>4. ASSUME NEW n \in Manager, NEW l \in Manager, RestoredNow(n), WasOn(l), mgr'[n].instance = mgr'[l].instance
      PROVE  mgr'[n].instance \in hist'.early
  <2>1. mgr[l].instance \in todo.running
    BY <1>4, RestoredFacts DEF WasOn
  <2>2. mgr[l].instance \in hist.early
    BY <1>4, <2>1 DEF WasOn, EIInv, RestoreInv
  <2> QED
    BY <1>4, <2>2, EarlyGrows DEF WasOn
<1>5. ASSUME NEW n \in Manager, NEW l \in Manager, NEW c \in Caller, RestoredNow(n), Launched(c, l),
             mgr'[n].instance = mgr'[l].instance
      PROVE  FALSE
  BY <1>5, LaunchedFacts, RestoredFacts
<1>6. CASE RestoredNow(m) /\ RestoredNow(k)
  BY <1>6, RestoredFacts
<1> QED
  BY <1>0, <1>1, <1>2, <1>3, <1>4, <1>5, <1>6

\* RestoreInv is kept.
LEMMA RestoreNext ==
  ASSUME EIInv, [EngineNext]_engineVars
  PROVE  RestoreInv'
<1>1. phase' # "restoring" => todo'.running = {} /\ todo'.paused = {}
  BY RestoreFirst
<1>2. phase' \in {"restoring", "up"} =>
         \A i \in UnfinishedNext : managers'[i] # None \/ i \in hist'.lost \cup todo'.running \cup todo'.paused
  BY RestoreSecond
<1>3. \A m \in Manager :
         mgr'[m] # None /\ mgr'[m].loop = "on" /\ (phase' = "listing" \/ mgr'[m].instance \in todo'.running) =>
          mgr'[m].instance \in hist'.early
  BY RestoreThird
<1>4. \A m, k \in Manager :
         mgr'[m] # None /\ mgr'[k] # None /\ mgr'[m].loop = "on" /\ mgr'[k].loop = "on" /\ mgr'[m].instance = mgr'[k].instance
           => m = k \/ mgr'[m].instance \in hist'.early
  BY RestoreFourth
<1> QED
  BY <1>1, <1>2, <1>3, <1>4, RestoreParts

-----------------------------------------------------------------------------
(* The tasks of a workflow.                                                *)

\* S are tasks of workflow w, somewhere.
Carries(S, w) ==
  \/ \E c \in Caller : call[c].pc \in {"save", "start"} /\ call[c].wf = w /\ S = call[c].tasks
  \/ \E i \in DOMAIN db.instance : db.instance[i].workflow = w /\ S = hist.want[i]
  \/ w \in DOMAIN db.definition /\ S = StoredTasks(db, w)
CarriesNext(S, w) ==
  \/ \E c \in Caller : call'[c].pc \in {"save", "start"} /\ call'[c].wf = w /\ S = call'[c].tasks
  \/ \E i \in DOMAIN db'.instance : db'.instance[i].workflow = w /\ S = hist'.want[i]
  \/ w \in DOMAIN db'.definition /\ S = StoredTasks(db', w)

\* Carries is Carried.
LEMMA CarriedIs == \A w : \A S : S \in Carried(w) <=> Carries(S, w)
BY DEF Carried, Carries

\* The same after a step.
LEMMA CarriedIsNext == \A w : \A S : S \in Carried(w)' <=> CarriesNext(S, w)
BY DEF Carried, CarriesNext, StoredTasks

\* CarriedInv, by Carries.
LEMMA CarriedParts ==
  CarriedInv' <=> (store' # "repos" => \A w \in Wf : \A S, T : CarriesNext(S, w) /\ CarriesNext(T, w) =>
                     S \ hist'.moved = T \ hist'.moved)
BY CarriedIsNext DEF CarriedInv, Same

\* What carries an id has it taken.
LEMMA CarriedUsed ==
  ASSUME ETypes, NEW S, NEW w, Carries(S, w)
  PROVE  w \in hist.used
<1>1. ASSUME NEW c \in Caller, call[c].pc \in {"save", "start"}, call[c].wf = w PROVE w \in hist.used
  BY <1>1, CallFacts DEF ETypes, CallsOK
<1>2. ASSUME NEW i \in DOMAIN db.instance, db.instance[i].workflow = w PROVE w \in hist.used
  BY <1>2 DEF ETypes, DbOK
<1>3. ASSUME w \in DOMAIN db.definition PROVE w \in hist.used
  BY <1>3 DEF ETypes, DbOK
<1> QED
  BY <1>1, <1>2, <1>3 DEF Carries

\* Where the tasks of a workflow come from.
OfOld(S, w) == \E T : Carries(T, w) /\ S \ hist'.moved = T \ hist'.moved
OfNew(S, w) == w \notin hist.used /\ \E c, kind, cron : Begins(c, kind, w, S, cron)

\* The tasks of a call.
LEMMA CarriedByCall ==
  ASSUME EIInv, [EngineNext]_engineVars, store # "repos", NEW c \in Caller, call'[c].pc \in {"save", "start"}
  PROVE  OfOld(call'[c].tasks, call'[c].wf) \/ OfNew(call'[c].tasks, call'[c].wf)
<1>0. CallFrom(c)
  BY CallTypes DEF CallStep, EIInv
<1>1. CASE call'[c] = NoCall
  BY <1>1 DEF NoCall
<1>2. CASE call'[c] = call[c]
  BY <1>2 DEF OfOld, Carries
<1>3. ASSUME NEW kind, NEW w, NEW tasks, NEW cron, Begins(c, kind, w, tasks, cron), call'[c].wf = w, call'[c].tasks = tasks
      PROVE  OfOld(tasks, w) \/ OfNew(tasks, w)
  <2>1. w \notin hist.used \/ (w \in DOMAIN db.definition /\ tasks = StoredTasks(db, w))
    BY <1>3 DEF Begins
  <2> QED
    BY <1>3, <2>1 DEF OfOld, OfNew, Carries
<1>4. ASSUME call'[c].wf = call[c].wf, call'[c].tasks = call[c].tasks, CallMoves(c) PROVE OfOld(call'[c].tasks, call'[c].wf)
  <2>1. AggregateSaved(c)
    BY <1>4 DEF CallMoves
  <2> QED
    BY <1>4, <2>1 DEF AggregateSaved, OfOld, Carries
<1> QED
  BY <1>0, <1>1, <1>2, <1>3, <1>4 DEF CallFrom

\* The tasks of an instance.
LEMMA CarriedByInstance ==
  ASSUME EIInv, [EngineNext]_engineVars, store # "repos", NEW i \in DOMAIN db'.instance
  PROVE  OfOld(hist'.want[i], db'.instance[i].workflow)
<1>0. RowFrom(i)
  BY DbTypes DEF DbStep, EIInv
<1>1. CASE i \in DOMAIN db.instance /\ db'.instance[i].workflow = db.instance[i].workflow
  <2>1. hist'.want[i] = hist.want[i]
    BY <1>1, HistTypes DEF EIInv, ETypes, DbOK
  <2> QED
    BY <1>1, <2>1 DEF OfOld, Carries
<1>2. ASSUME NEW c \in Caller, i = NextInstance, Submits(c), db'.instance[i].workflow = call[c].wf
      PROVE  OfOld(hist'.want[i], db'.instance[i].workflow)
  <2>1. hist'.want[i] = call[c].tasks /\ call[c].pc = "start"
    BY <1>2, SubmitsWant DEF Submits, EIInv
  <2> QED
    BY <1>2, <2>1 DEF OfOld, Carries
<1> QED
  BY <1>0, <1>1, <1>2 DEF RowFrom

\* What a save makes of the stored tasks: others' lose those that are taken.
LEMMA SavedTasks ==
  ASSUME NEW d, NEW e, NEW w, NEW tasks, NEW cron, SaveForm(d, e, w, tasks, cron)
  PROVE  /\ StoredTasks(e, w) = tasks
         /\ \A v : v # w => StoredTasks(e, v) = StoredTasks(d, v) \ tasks
         /\ \A v \in DOMAIN e.definition : v # w => v \in DOMAIN d.definition
<1>1. PICK X : X = Without(d.taskDefinition, StoredTasks(d, w))
  OBVIOUS
<1>2. e.taskDefinition = Put(X, tasks, w)
  BY <1>1 DEF SaveForm
<1>3. DOMAIN X = DOMAIN d.taskDefinition \ StoredTasks(d, w) /\ \A t \in DOMAIN X : X[t] = d.taskDefinition[t] /\ X[t] # w
  BY <1>1 DEF Without, StoredTasks
<1>4. /\ DOMAIN e.taskDefinition = tasks \cup DOMAIN X
      /\ \A t \in tasks : e.taskDefinition[t] = w
      /\ \A t \in DOMAIN X \ tasks : e.taskDefinition[t] = X[t]
  BY <1>2 DEF Put
<1>5. StoredTasks(e, w) = tasks
  BY <1>3, <1>4 DEF StoredTasks
<1>6. ASSUME NEW v, v # w PROVE StoredTasks(e, v) = StoredTasks(d, v) \ tasks
  BY <1>3, <1>4, <1>6 DEF StoredTasks
<1>7. \A v \in DOMAIN e.definition : v = RowOf(d, w) \/ v \in DOMAIN d.definition
  BY DEF SaveForm, Put
<1>8. \A v \in DOMAIN e.definition : v # w => v \in DOMAIN d.definition
  BY <1>7, RowFacts
<1> QED
  BY <1>5, <1>6, <1>8

\* The stored tasks.
LEMMA CarriedByDefinition ==
  ASSUME EIInv, [EngineNext]_engineVars, store # "repos", NEW w \in DOMAIN db'.definition
  PROVE  OfOld(StoredTasks(db', w), w)
<1>0. db' = db \/ StatusSteps \/ RowSteps
  BY DbCases DEF EIInv
<1>t. Tables(db)
  BY DbFacts DEF EIInv
<1>1. ASSUME db'.definition = db.definition, db'.taskDefinition = db.taskDefinition PROVE OfOld(StoredTasks(db', w), w)
  <2>1. StoredTasks(db', w) = StoredTasks(db, w)
    BY <1>1 DEF StoredTasks
  <2>2. w \in DOMAIN db.definition
    BY <1>1
  <2>3. Carries(StoredTasks(db, w), w)
    BY <2>2 DEF Carries
  <2> QED
    BY <2>1, <2>3 DEF OfOld
<1>2. CASE db' = db \/ StatusSteps
  <2>1. SameRows
    BY <1>2, SameFacts, StatusFacts DEF EIInv
  <2> QED
    BY <1>1, <2>1 DEF SameRows, SameButStatus
<1>3. ASSUME NEW c \in Caller, AggregateSaved(c) PROVE OfOld(StoredTasks(db', w), w)
  <2>1. PICK v, tasks, cron : v = call[c].wf /\ tasks = call[c].tasks /\ cron = call[c].cron
    OBVIOUS
  <2>2. SaveForm(db, db', v, tasks, cron)
    BY <1>t, <1>3, <2>1, SaveShape DEF AggregateSaved
  <2>3. /\ StoredTasks(db', v) = tasks
        /\ w # v => StoredTasks(db', w) = StoredTasks(db, w) \ tasks
        /\ w # v => w \in DOMAIN db.definition
    BY <2>2, SavedTasks
  <2>4. CASE w = v
    <3>1. Carries(tasks, w)
      BY <1>3, <2>1, <2>4 DEF AggregateSaved, Carries
    <3> QED
      BY <2>3, <2>4, <3>1 DEF OfOld
  <2>5. CASE w # v
    <3>1. hist'.moved = hist.moved \cup Moved(v, tasks)
      <4>1. hist' = [hist EXCEPT !.moved = hist.moved \cup Moved(v, tasks)]
        BY <1>3, <2>1 DEF AggregateSaved
      <4> QED
        BY <4>1 DEF EIInv, ETypes, HistOK
    <3>2. StoredTasks(db, w) \cap tasks \subseteq Moved(v, tasks)
      BY <2>5 DEF StoredTasks, Moved
    <3>3. StoredTasks(db', w) \ hist'.moved = StoredTasks(db, w) \ hist'.moved
      BY <2>3, <2>5, <3>1, <3>2
    <3>4. Carries(StoredTasks(db, w), w)
      BY <2>3, <2>5 DEF Carries
    <3> QED
      BY <3>3, <3>4 DEF OfOld
  <2> QED
    BY <2>4, <2>5
<1>4. ASSUME NEW c \in Caller, AggregateStarted(c) PROVE OfOld(StoredTasks(db', w), w)
  <2>1. InstanceForm(db, db', NextInstance, call[c].wf)
    BY <1>t, <1>4, StartShape DEF AggregateStarted
  <2> QED
    BY <1>1, <2>1 DEF InstanceForm
<1>5. ASSUME NEW v \in Wf, Deleted(v) PROVE OfOld(StoredTasks(db', w), w)
  <2>1. DeleteForm(db, db', v)
    BY <1>t, <1>5, DeleteShape DEF Deleted
  <2>2. w \in DOMAIN db.definition /\ w # v
    BY <2>1 DEF DeleteForm, Without
  <2>3. /\ DOMAIN db'.taskDefinition = DOMAIN db.taskDefinition \ StoredTasks(db, v)
        /\ \A t \in DOMAIN db'.taskDefinition : db'.taskDefinition[t] = db.taskDefinition[t]
    BY <2>1 DEF DeleteForm, Without
  <2>4. StoredTasks(db', w) = StoredTasks(db, w)
    BY <2>2, <2>3 DEF StoredTasks
  <2>5. Carries(StoredTasks(db, w), w)
    BY <2>2 DEF Carries
  <2> QED
    BY <2>4, <2>5 DEF OfOld
<1>6. \A c \in Caller : ~InstanceSaved(c) /\ ~TasksSaved(c)
  BY DEF InstanceSaved, TasksSaved
<1> QED
  BY <1>0, <1>2, <1>3, <1>4, <1>5, <1>6 DEF RowSteps

\* All of them.
LEMMA CarriedFrom ==
  ASSUME EIInv, [EngineNext]_engineVars, store # "repos", NEW S, NEW w, CarriesNext(S, w)
  PROVE  OfOld(S, w) \/ OfNew(S, w)
BY CarriedByCall, CarriedByInstance, CarriedByDefinition DEF CarriesNext

\* One call begins at a time.
LEMMA OneBegins ==
  ASSUME ETypes, NEW c, NEW k, NEW w, NEW S, NEW r, Begins(c, k, w, S, r),
         NEW d, NEW l, NEW T, NEW q, Begins(d, l, w, T, q)
  PROVE  S = T
<1>1. /\ c \in Caller /\ d \in Caller /\ call[c].pc = "idle" /\ call[d].pc = "idle"
      /\ call' = [call EXCEPT ![c] =
           [pc |-> "save", kind |-> k, wf |-> w, tasks |-> S, cron |-> r, instance |-> None, manager |-> None]]
      /\ call' = [call EXCEPT ![d] =
           [pc |-> "save", kind |-> l, wf |-> w, tasks |-> T, cron |-> q, instance |-> None, manager |-> None]]
  BY DEF Begins, Begin
<1>2. PICK x, y :
      /\ x = [pc |-> "save", kind |-> k, wf |-> w, tasks |-> S, cron |-> r, instance |-> None, manager |-> None]
      /\ y = [pc |-> "save", kind |-> l, wf |-> w, tasks |-> T, cron |-> q, instance |-> None, manager |-> None]
  OBVIOUS
<1>3. x.pc = "save" /\ y.pc = "save" /\ x.tasks = S /\ y.tasks = T
  BY <1>2
<1>4. call' = [call EXCEPT ![c] = x] /\ call' = [call EXCEPT ![d] = y]
  BY <1>1, <1>2
<1>5. DOMAIN call = Caller
  BY DEF ETypes, CallsOK
<1>6. call'[c] = x /\ call'[d] = y /\ (c # d => call'[c] = call[c])
  BY <1>1, <1>4, <1>5
<1> QED
  BY <1>1, <1>3, <1>6

\* CarriedInv is kept.
LEMMA CarriedNext ==
  ASSUME EIInv, [EngineNext]_engineVars
  PROVE  CarriedInv'
<1>0. store' = store /\ ETypes
  BY DbTypes DEF EIInv
<1>1. SUFFICES ASSUME store # "repos", NEW w \in Wf, NEW S, NEW T, CarriesNext(S, w), CarriesNext(T, w)
               PROVE  S \ hist'.moved = T \ hist'.moved
  BY <1>0, CarriedParts
<1>2. (OfOld(S, w) \/ OfNew(S, w)) /\ (OfOld(T, w) \/ OfNew(T, w))
  BY <1>1, CarriedFrom
<1>3. CASE OfOld(S, w) /\ OfOld(T, w)
  <2>1. PICK P, Q : /\ Carries(P, w) /\ S \ hist'.moved = P \ hist'.moved
                    /\ Carries(Q, w) /\ T \ hist'.moved = Q \ hist'.moved
    BY <1>3 DEF OfOld
  <2>2. P \ hist.moved = Q \ hist.moved
    BY <1>1, <2>1, CarriedIs DEF EIInv, CarriedInv, Same
  <2>3. hist.moved \subseteq hist'.moved
    BY HistGrows DEF EIInv, HistGrowth
  <2> QED
    BY <2>1, <2>2, <2>3
<1>4. CASE OfNew(S, w) /\ OfNew(T, w)
  <2>1. PICK c, k, r : Begins(c, k, w, S, r)
    BY <1>4 DEF OfNew
  <2>2. PICK d, l, q : Begins(d, l, w, T, q)
    BY <1>4 DEF OfNew
  <2>3. S = T
    BY <1>0, <2>1, <2>2, OneBegins
  <2> QED
    BY <2>3
<1>5. ~(OfOld(S, w) /\ OfNew(T, w)) /\ ~(OfNew(S, w) /\ OfOld(T, w))
  BY <1>0, CarriedUsed DEF OfOld, OfNew
<1> QED
  BY <1>2, <1>3, <1>4, <1>5

-----------------------------------------------------------------------------
(* The tasks of an instance.                                               *)

\* The same after a step.
ExcusedNext(i) == store' = "repos" /\ i \in hist'.restored

\* The parts are TasksInv.
LEMMA TasksParts ==
  TasksInv' <=>
    /\ \A m \in Manager : mgr'[m] # None =>
         hist'.want[mgr'[m].instance] \ hist'.moved \subseteq mgr'[m].tasks \/ ExcusedNext(mgr'[m].instance)
    /\ \A i \in DOMAIN db'.instance : StatusOf(db', i) = "Success" =>
         hist'.want[i] \ hist'.moved \subseteq hist'.ran[i] \/ ExcusedNext(i)
BY DEF TasksInv, Excused, ExcusedNext, WithStatus, StatusOf

\* What an instance needs does not grow.
LEMMA TasksStay ==
  ASSUME EIInv, [EngineNext]_engineVars, NEW i \in DOMAIN hist.want, NEW R,
         hist.want[i] \ hist.moved \subseteq R \/ Excused(i)
  PROVE  hist'.want[i] \ hist'.moved \subseteq R \/ ExcusedNext(i)
<1>1. hist'.want[i] = hist.want[i]
  BY HistTypes DEF EIInv
<1>2. hist.moved \subseteq hist'.moved /\ hist.restored \subseteq hist'.restored
  BY HistGrows DEF EIInv, HistGrowth
<1>3. store' = store
  BY DbTypes DEF EIInv
<1> QED
  BY <1>1, <1>2, <1>3 DEF Excused, ExcusedNext

\* A new instance's manager has the tasks of its call.
LEMMA ManagedTasks ==
  ASSUME EIInv, [EngineNext]_engineVars, NEW c \in Caller, Manage(c)
  PROVE  hist.want[call[c].instance] = call[c].tasks
<1>1. HasInstance(c)
  BY DEF Manage, HasInstance
<1> QED
  BY <1>1 DEF EIInv, CallInv

\* A restored manager has the stored tasks: all of them, but for what was moved.
LEMMA RestoredTasks ==
  ASSUME EIInv, [EngineNext]_engineVars, store # "repos", NEW i \in DOMAIN db.instance, WorkflowIsThere(i)
  PROVE  hist.want[i] \ hist.moved \subseteq LoadedTasks(i)
<1>1. PICK w : w = db.instance[i].workflow
  OBVIOUS
<1>2. w \in DOMAIN db.definition /\ LoadedTasks(i) = StoredTasks(db, w)
  BY <1>1 DEF WorkflowIsThere, LoadedTasks, IsLoadable
<1>3. w \in Wf
  BY <1>1 DEF EIInv, ETypes, DbOK
<1>4. Carries(hist.want[i], w) /\ Carries(StoredTasks(db, w), w)
  BY <1>1, <1>2 DEF Carries
<1>5. Same(hist.want[i], StoredTasks(db, w))
  BY <1>3, <1>4, CarriedIs DEF EIInv, CarriedInv
<1> QED
  BY <1>2, <1>5 DEF Same

\* A manager has its instance's tasks.
LEMMA TasksFirst ==
  ASSUME EIInv, [EngineNext]_engineVars, NEW m \in Manager, mgr'[m] # None
  PROVE  hist'.want[mgr'[m].instance] \ hist'.moved \subseteq mgr'[m].tasks \/ ExcusedNext(mgr'[m].instance)
<1>0. MgrFrom(m)
  BY MgrTypes DEF MgrStep
<1>1. CASE /\ mgr[m] # None /\ mgr'[m].instance = mgr[m].instance /\ mgr'[m].tasks = mgr[m].tasks
  <2>1. mgr[m].instance \in DOMAIN hist.want
    BY <1>1 DEF EIInv, ETypes, ManagersOK
  <2>2. hist.want[mgr[m].instance] \ hist.moved \subseteq mgr[m].tasks \/ Excused(mgr[m].instance)
    BY <1>1 DEF EIInv, TasksInv
  <2> QED
    BY <1>1, <2>1, <2>2, TasksStay
<1>2. CASE MgrNew(m, mgr'[m], mgr'[m].instance)
  <2>1. PICK i : i = mgr'[m].instance
    OBVIOUS
  <2>2. i \in DOMAIN hist.want
    BY <1>2, <2>1 DEF MgrNew
  <2>3. ASSUME NEW c \in Caller, Manage(c), call[c].instance = i, mgr'[m].tasks = call[c].tasks
        PROVE  hist'.want[i] \ hist'.moved \subseteq mgr'[m].tasks \/ ExcusedNext(i)
    <3>1. hist.want[i] \ hist.moved \subseteq mgr'[m].tasks
      BY <2>3, ManagedTasks
    <3> QED
      BY <2>2, <3>1, TasksStay
  <2>4. ASSUME WorkflowIsThere(i), i \in DOMAIN db.instance, mgr'[m].tasks = LoadedTasks(i),
               hist'.restored = hist.restored \cup {i}
        PROVE  hist'.want[i] \ hist'.moved \subseteq mgr'[m].tasks \/ ExcusedNext(i)
    <3>1. CASE store = "repos"
      BY <2>4, <3>1, DbTypes DEF ExcusedNext, EIInv
    <3>2. CASE store # "repos"
      <4>1. hist.want[i] \ hist.moved \subseteq mgr'[m].tasks
        BY <2>4, <3>2, RestoredTasks
      <4> QED
        BY <2>2, <4>1, TasksStay
    <3> QED
      BY <3>1, <3>2
  <2>5. hist'.want[i] \ hist'.moved \subseteq mgr'[m].tasks \/ ExcusedNext(i)
    BY <1>2, <2>1, <2>3, <2>4 DEF MgrNew
  <2> QED
    BY <2>1, <2>5
<1> QED
  BY <1>0, <1>1, <1>2 DEF MgrFrom

\* A Success is set by a manager that has run its tasks.
LEMMA TasksSecond ==
  ASSUME EIInv, [EngineNext]_engineVars, NEW i \in DOMAIN db'.instance, StatusOf(db', i) = "Success"
  PROVE  hist'.want[i] \ hist'.moved \subseteq hist'.ran[i] \/ ExcusedNext(i)
<1>0. RowFrom(i)
  BY DbTypes DEF DbStep, EIInv
<1>1. i \in DOMAIN db.instance /\ (StatusOf(db', i) = StatusOf(db, i) \/ StatusMoves(i))
  BY <1>0 DEF RowFrom
<1>2. i \in DOMAIN hist.want /\ i \in Instance
  BY <1>1, TypesOfMaps DEF EIInv
<1>3. hist.ran[i] \subseteq hist'.ran[i]
  BY <1>2, HistGrows DEF EIInv, HistGrowth
<1>4. CASE StatusOf(db', i) = StatusOf(db, i)
  <2>1. hist.want[i] \ hist.moved \subseteq hist.ran[i] \/ Excused(i)
    BY <1>1, <1>4 DEF EIInv, TasksInv, WithStatus, StatusOf
  <2>2. hist.want[i] \ hist.moved \subseteq hist'.ran[i] \/ Excused(i)
    BY <1>3, <2>1
  <2> QED
    BY <1>2, <2>2, TasksStay
<1>5. CASE StatusMoves(i)
  <2>1. PICK m \in Manager : mgr[m] # None /\ mgr[m].instance = i /\ Finish(m, "Success")
    BY <1>5 DEF StatusMoves
  <2>2. hist.want[i] \ hist.moved \subseteq mgr[m].tasks \/ Excused(i)
    BY <2>1 DEF EIInv, TasksInv
  <2>3. PICK T : T = [hist.ran EXCEPT ![i] = hist.ran[i] \cup mgr[m].tasks]
    OBVIOUS
  <2>4. hist' = [hist EXCEPT !.ran = T]
    BY <2>1, <2>3 DEF Finish
  <2>5. hist'.ran = T
    BY <2>4 DEF EIInv, ETypes, HistOK
  <2>6. mgr[m].tasks \subseteq hist'.ran[i]
    BY <1>2, <2>3, <2>5 DEF EIInv, ETypes, HistOK
  <2>7. hist.want[i] \ hist.moved \subseteq hist'.ran[i] \/ Excused(i)
    BY <2>2, <2>6
  <2> QED
    BY <1>2, <2>7, TasksStay
<1> QED
  BY <1>1, <1>4, <1>5

\* TasksInv is kept.
LEMMA TasksNext ==
  ASSUME EIInv, [EngineNext]_engineVars
  PROVE  TasksInv'
BY TasksFirst, TasksSecond, TasksParts

-----------------------------------------------------------------------------
(* The invariant, and what follows from it.                                *)

\* The types hold at the start.
LEMMA InitTypes == EngineInit => ETypes
<1> SUFFICES ASSUME EngineInit PROVE ETypes
  OBVIOUS
<1>0. DOMAIN <<>> = {}
  OBVIOUS
<1>1. hist = NoHistory /\ hist.used = {} /\ hist.want = <<>> /\ hist.ran = [i \in Instance |-> {}]
  BY DEF EngineInit, NoHistory
<1>2. HistOK
  <2>1. MaxInstances \in Nat
    BY EngineAssumption
  <2>2. 0 \in 0 .. MaxInstances /\ 1 .. 0 = {}
    BY <2>1
  <2>3. DOMAIN hist.want = {}
    BY <1>0, <1>1
  <2>4. \E n \in 0 .. MaxInstances : DOMAIN hist.want = 1 .. n
    BY <2>2, <2>3
  <2>5. hist.ran \in [Instance -> SUBSET Task]
    BY <1>1
  <2>6. hist = [used |-> hist.used, want |-> hist.want, ran |-> hist.ran, early |-> hist.early,
             late |-> hist.late, lost |-> hist.lost, restored |-> hist.restored,
             moved |-> hist.moved, lives |-> hist.lives, arrivals |-> hist.arrivals]
    BY <1>1 DEF NoHistory
  <2> QED
    BY <1>1, <2>3, <2>4, <2>5, <2>6 DEF HistOK
<1>3. DbOK
  <2>1. db = EmptyDatabase
    BY DEF EngineInit
  <2>2. /\ db = [definition |-> db.definition, taskDefinition |-> db.taskDefinition,
                 instance |-> db.instance, taskInstance |-> db.taskInstance]
        /\ DOMAIN db.definition = {} /\ DOMAIN db.taskDefinition = {} /\ DOMAIN db.instance = {}
        /\ DOMAIN db.taskInstance = {}
    BY <1>0, <2>1 DEF EmptyDatabase
  <2>3. TaskRowsHaveInstances(db) /\ DefinitionsHaveWorkflows(db)
    BY <2>2 DEF TaskRowsHaveInstances, DefinitionsHaveWorkflows
  <2> QED
    BY <2>2, <2>3 DEF DbOK
<1>4. ManagersOK
  BY DEF EngineInit, ManagersOK
<1>5. EngineOK
  <2>1. todo.running = {} /\ todo.paused = {} /\ todo = [running |-> todo.running, paused |-> todo.paused]
    BY DEF EngineInit
  <2>2. entries = <<>> /\ DOMAIN entries = {}
    BY <1>0 DEF EngineInit
  <2> QED
    BY <2>1, <2>2 DEF EngineInit, EngineOK
<1>6. CallsOK
  BY DEF EngineInit, CallsOK
<1> QED
  BY <1>2, <1>3, <1>4, <1>5, <1>6 DEF ETypes

\* So does the invariant.
LEMMA InitHolds == EngineInit => EIInv
<1> SUFFICES ASSUME EngineInit PROVE EIInv
  OBVIOUS
<1>0. DOMAIN <<>> = {}
  OBVIOUS
<1>1. ETypes
  BY InitTypes
<1>2. LinkInv
  BY DEF EngineInit, LinkInv
<1>3. \A c \in Caller : call[c] = NoCall /\ call[c].pc = "idle"
  BY DEF EngineInit, NoCall
<1>4. CallInv
  BY <1>3 DEF CallInv, HasInstance, Waits
<1>5. RestoreInv
  BY DEF EngineInit, RestoreInv
<1>6. DOMAIN db.instance = {} /\ DOMAIN db.definition = {}
  BY <1>0 DEF EngineInit, EmptyDatabase
<1>7. \A w : \A S : ~Carries(S, w)
  BY <1>3, <1>6 DEF Carries
<1>8. CarriedInv
  BY <1>7, CarriedIs DEF CarriedInv
<1>9. TasksInv
  BY <1>6 DEF EngineInit, TasksInv, WithStatus
<1> QED
  BY <1>1, <1>2, <1>4, <1>5, <1>8, <1>9 DEF EIInv

\* Every step keeps it.
LEMMA StepHolds == EIInv /\ [EngineNext]_engineVars => EIInv'
BY TypesNext, LinkNext, CallNext, RestoreNext, CarriedNext, TasksNext DEF EIInv

\* The inductive invariant holds of the engine.
THEOREM EIInvariant == EngineSpec => []EIInv
<1>1. EngineInit => EIInv
  BY InitHolds
<1>2. EIInv /\ [EngineNext]_engineVars => EIInv'
  BY StepHolds
<1> QED
  BY <1>1, <1>2, PTL DEF EngineSpec

\* Types, and whatever processes crash between whatever transactions: no row of a
\* task outlives its instance, and with foreign keys no definition of a task is
\* without its workflow.
THEOREM StorageInvCorrect == EngineSpec => []StorageInv
<1>1. EIInv => StorageInv
  BY DEF EIInv, ETypes, DbOK, EngineOK, LinkInv, StorageInv
<1> QED
  BY <1>1, EIInvariant, PTL

\* Once Start has returned every unfinished instance has a manager or was lost
\* (restoreUnfinishedInstances), for any number of instances and processes.
THEOREM UnfinishedIsManagedCorrect == EngineSpec => []UnfinishedIsManaged
<1>1. EIInv => UnfinishedIsManaged
  BY DEF EIInv, RestoreInv, Unfinished, UnfinishedIsManaged
<1> QED
  BY <1>1, EIInvariant, PTL

\* An instance stored as Success ran all it was submitted with, through any
\* number of crashes, deletions and saves under the same name, with the two
\* exceptions the property names.
THEOREM SuccessRanItsTasksCorrect == EngineSpec => []SuccessRanItsTasks
<1>1. EIInv => SuccessRanItsTasks
  <2>1. SUFFICES ASSUME TasksInv, NEW i \in WithStatus("Success"), hist.want[i] \cap hist.moved = {}
                 PROVE  hist.want[i] \subseteq hist.ran[i] \/ (store = "repos" /\ i \in hist.restored)
    BY DEF EIInv, SuccessRanItsTasks
  <2>2. hist.want[i] \ hist.moved = hist.want[i]
    BY <2>1
  <2> QED
    BY <2>1, <2>2 DEF TasksInv, Excused
<1> QED
  BY <1>1, EIInvariant, PTL

\* No two managers of an instance run at once, unless it was submitted between
\* Start's setting of running and its listing.
THEOREM OneManagerRunsCorrect == EngineSpec => []OneManagerRuns
<1>1. EIInv => OneManagerRuns
  BY DEF EIInv, RestoreInv, OneManagerRuns
<1> QED
  BY <1>1, EIInvariant, PTL

=============================================================================
