------------------------ MODULE InstanceManagerV1_proofs ------------------------
(***************************************************************************)
(* V1Inv, NoWakeupLost and RunsAfterSuccess hold in every reachable state  *)
(* of InstanceManagerV1, for every workflow, every schedule of its         *)
(* goroutines and every bound.                                             *)
(*                                                                         *)
(* Nearly every step lets one task go on: a run of it leaves the stages A  *)
(* and enters the stages B, and the ready set, the batches, the marks and  *)
(* the results change around it.  TaskStep(t, A, B) says what all these    *)
(* steps have in common, and TaskStepInv is the one argument that they     *)
(* keep the invariant; only the addition of subtasks, which changes the    *)
(* edges, needs one of its own.                                            *)
(***************************************************************************)
EXTENDS InstanceManagerV1, FiniteSetTheorems, SequenceTheorems, TLAPS

-----------------------------------------------------------------------------
(* The inductive invariant.                                                *)

Status == {"PENDING", "SUCCESS", "FAILED"}
Stats == [total: Nat, completed: Nat, success: Nat]
LoopState == [pc: {"unborn", "top", "idle", "check", "work", "save", "returned"},
              batch: SUBSET Task]
Signal == {"Pause", "Resume", "Terminate"}
InstanceStatus == {"Running", "Paused", "Terminated", "Success", "Failed"}

TypeInv ==
  /\ ready \in SUBSET Task /\ processedNodes \in SUBSET Task
  /\ errorKey \in SUBSET Task /\ results \in SUBSET Task /\ wfTasks \in SUBSET Task
  /\ taskStatus \in [Task -> Status]
  /\ parents \in [Task -> SUBSET Task]
  /\ stats \in [Task -> Stats]
  /\ runs \in [Task -> [Stage -> Nat]]
  /\ loop \in [Loop -> LoopState]
  /\ restored \in BOOLEAN /\ recovered \in 0 .. MaxRecoveries[restored]
  /\ status \in InstanceStatus
  /\ controlChan \in Seq(Signal) /\ cpc \in {"select", "returned"} \cup Signal

\* Where a task can be when it has been queued, and the tasks with a run.
Batched == {t \in Task : \E i \in Loop : t \in loop[i].batch}
Running(G) == {t \in Task : RunsIn(t, G)}
Job  == {"job", "jobAdded"}
Mark == {"marked", "handlerAdded"}

\* The edges: a main task's are its dependencies; a subtask has none before it
\* is added and its parent, which is no template, afterwards.
EdgeInv ==
  /\ Main \subseteq wfTasks
  /\ \A t \in Main : parents[t] = Deps[t]
  /\ \A s \in Sub : IF s \in wfTasks
                    THEN \E p \in Task \ Template : parents[s] = {p}
                    ELSE parents[s] = {}

\* Only tasks of the workflow go round.  Templates do not run, and what is past
\* its job is processed.
PlaceInv ==
  /\ ready \cup Batched \cup processedNodes \cup Running(Stage) \subseteq wfTasks
  /\ Running(Stage) \cap Template = {}
  /\ Running(Stage \ Job) \subseteq processedNodes
  /\ \A i \in Loop : loop[i].pc # "work" => loop[i].batch = {}

\* A task is queued and runs after its parents; required results come first.
OrderInv ==
  /\ \A t \in ready \cup Batched \cup Running(Stage) : parents[t] \subseteq processedNodes
  /\ \A t \in Batched \cup Running(Job) : Needs[t] \subseteq results

\* A processed task has failed, or succeeded: its result is there or on its way.
Succeeded(d) == \/ d \in Template /\ taskStatus[d] = "SUCCESS"
                \/ d \in results
                \/ RunsIn(d, {"marked", "handlerAdded", "told"})
ResultInv ==
  /\ \A d \in processedNodes : d \in errorKey \/ Succeeded(d)
  /\ \A t \in Main \cap Running(Job) : \A d \in Deps[t] : Succeeded(d)
  /\ \A d \in Template : taskStatus[d] = "SUCCESS" => d \in processedNodes

\* The statistics of every parent.
SubTasksOf(p) == {s \in Sub : p \in parents[s]}
Reported(p) == {s \in (SubTasksOf(p) \cap processedNodes) \ errorKey : ~RunsIn(s, Mark)}
StatsInv ==
  \A p \in Task : /\ stats[p].total = Cardinality(SubTasksOf(p))
                  /\ stats[p].success <= stats[p].completed
                  /\ stats[p].completed >= Cardinality(Reported(p))

\* The wake-up: a task whose parents are processed is queued, runs, or will be
\* told by a run of a parent.
Telling == Stage \ {"job", "told", "failedTold"}
Woken(t) == \/ t \in ready \cup Batched \cup Running(Job)
            \/ parents[t] \cap Running(Telling) # {}
WakeInv == restored \/ \A t \in wfTasks \ processedNodes :
                         parents[t] \subseteq processedNodes => Woken(t)

V1IInv == TypeInv /\ EdgeInv /\ PlaceInv /\ OrderInv /\ ResultInv /\ StatsInv /\ WakeInv

-----------------------------------------------------------------------------
(* Runs.                                                                   *)

RunTypes == [Task -> [Stage -> Nat]]

\* One run of t leaves the stages of A and enters those of B, one of each or
\* none; no other task's runs change.
Runs(t, A, B) ==
  /\ runs' \in RunTypes
  /\ \A G \in SUBSET Stage :
       /\ Running(G)' \ {t} = Running(G) \ {t}
       /\ A \cap G = {} => Running(G) \subseteq Running(G)'
       /\ B \cap G = {} => Running(G)' \subseteq Running(G)
       /\ A \cap G # {} => t \in Running(G)
       /\ B \cap G # {} => t \in Running(G)'

\* A run that moves on.
LEMMA MoveRuns ==
  ASSUME runs \in RunTypes, NEW t \in Task, NEW g \in Stage, NEW h \in Stage, g # h, Move(t, g, h)
  PROVE  Runs(t, {g}, {h})
<1> DEFINE row == [runs[t] EXCEPT ![g] = @ - 1, ![h] = @ + 1]
<1>1. runs[t] \in [Stage -> Nat] /\ runs[t][g] > 0 /\ runs[t][g] \in Nat /\ runs[t][h] \in Nat
  BY DEF RunTypes, Move
<1>2. runs' = [runs EXCEPT ![t] = row]
  BY <1>1, g # h DEF Move, RunTypes
<1>3. /\ row \in [Stage -> Nat] /\ row[g] = runs[t][g] - 1 /\ row[h] = runs[t][h] + 1
      /\ \A k \in Stage \ {g, h} : row[k] = runs[t][k]
  BY <1>1, g # h
<1> HIDE DEF row
<1>4. runs' \in RunTypes /\ runs'[t] = row /\ \A u \in Task \ {t} : runs'[u] = runs[u]
  BY <1>2, <1>3 DEF RunTypes
<1>5. ASSUME NEW G \in SUBSET Stage
      PROVE  /\ Running(G)' \ {t} = Running(G) \ {t}
             /\ g \notin G => Running(G) \subseteq Running(G)'
             /\ h \notin G => Running(G)' \subseteq Running(G)
             /\ g \in G => t \in Running(G)
             /\ h \in G => t \in Running(G)'
  <2>1. Running(G)' \ {t} = Running(G) \ {t}
    BY <1>4 DEF Running, RunsIn
  <2>2. g \in G => t \in Running(G)
    BY <1>1 DEF Running, RunsIn
  <2>3. h \in G => t \in Running(G)'
    BY <1>1, <1>3, <1>4 DEF Running, RunsIn
  <2>4. g \notin G /\ t \in Running(G) => t \in Running(G)'
    BY <1>1, <1>3, <1>4 DEF Running, RunsIn
  <2>5. h \notin G /\ t \in Running(G)' => t \in Running(G)
    <3> SUFFICES ASSUME h \notin G, NEW k \in G, row[k] > 0
                 PROVE  runs[t][k] > 0
      BY <1>4 DEF Running, RunsIn
    <3> QED
      BY <1>1, <1>3
  <2> QED
    BY <2>1, <2>2, <2>3, <2>4, <2>5
<1> QED
  BY <1>4, <1>5 DEF Runs

\* A run that is over.
LEMMA EndRuns ==
  ASSUME runs \in RunTypes, NEW t \in Task, NEW g \in Stage, End(t, g)
  PROVE  Runs(t, {g}, {})
<1> DEFINE row == [runs[t] EXCEPT ![g] = @ - 1]
<1>1. runs[t] \in [Stage -> Nat] /\ runs[t][g] > 0 /\ runs[t][g] \in Nat
  BY DEF RunTypes, End
<1>2. runs' = [runs EXCEPT ![t] = row]
  BY <1>1 DEF End, RunTypes
<1>3. /\ row \in [Stage -> Nat] /\ row[g] = runs[t][g] - 1
      /\ \A k \in Stage \ {g} : row[k] = runs[t][k]
  BY <1>1
<1> HIDE DEF row
<1>4. runs' \in RunTypes /\ runs'[t] = row /\ \A u \in Task \ {t} : runs'[u] = runs[u]
  BY <1>2, <1>3 DEF RunTypes
<1>5. ASSUME NEW G \in SUBSET Stage
      PROVE  /\ Running(G)' \ {t} = Running(G) \ {t}
             /\ g \notin G => Running(G) \subseteq Running(G)'
             /\ Running(G)' \subseteq Running(G)
             /\ g \in G => t \in Running(G)
  <2>1. Running(G)' \ {t} = Running(G) \ {t}
    BY <1>4 DEF Running, RunsIn
  <2>2. g \in G => t \in Running(G)
    BY <1>1 DEF Running, RunsIn
  <2>3. g \notin G /\ t \in Running(G) => t \in Running(G)'
    BY <1>1, <1>3, <1>4 DEF Running, RunsIn
  <2>4. t \in Running(G)' => t \in Running(G)
    <3> SUFFICES ASSUME NEW k \in G, row[k] > 0
                 PROVE  runs[t][k] > 0
      BY <1>4 DEF Running, RunsIn
    <3> QED
      BY <1>1, <1>3
  <2> QED
    BY <2>1, <2>2, <2>3, <2>4
<1> QED
  BY <1>4, <1>5 DEF Runs

\* A run that starts.
LEMMA StartRuns ==
  ASSUME runs \in RunTypes, NEW t \in Task, runs' = [runs EXCEPT ![t]["job"] = @ + 1]
  PROVE  Runs(t, {}, {"job"})
<1> DEFINE row == [runs[t] EXCEPT !["job"] = @ + 1]
<1>1. runs[t] \in [Stage -> Nat] /\ "job" \in Stage /\ runs[t]["job"] \in Nat
  BY DEF RunTypes, Stage
<1>2. runs' = [runs EXCEPT ![t] = row]
  BY <1>1 DEF RunTypes
<1>3. /\ row \in [Stage -> Nat] /\ row["job"] = runs[t]["job"] + 1
      /\ \A k \in Stage \ {"job"} : row[k] = runs[t][k]
  BY <1>1
<1> HIDE DEF row
<1>4. runs' \in RunTypes /\ runs'[t] = row /\ \A u \in Task \ {t} : runs'[u] = runs[u]
  BY <1>2, <1>3 DEF RunTypes
<1>5. ASSUME NEW G \in SUBSET Stage
      PROVE  /\ Running(G)' \ {t} = Running(G) \ {t}
             /\ Running(G) \subseteq Running(G)'
             /\ "job" \notin G => Running(G)' \subseteq Running(G)
             /\ "job" \in G => t \in Running(G)'
  <2>1. Running(G)' \ {t} = Running(G) \ {t}
    BY <1>4 DEF Running, RunsIn
  <2>2. "job" \in G => t \in Running(G)'
    BY <1>1, <1>3, <1>4 DEF Running, RunsIn
  <2>3. t \in Running(G) => t \in Running(G)'
    <3> SUFFICES ASSUME NEW k \in G, runs[t][k] > 0
                 PROVE  row[k] > 0
      BY <1>4 DEF Running, RunsIn
    <3>1. runs[t][k] \in Nat
      BY <1>1
    <3> QED
      BY <1>1, <1>3, <3>1
  <2>4. "job" \notin G /\ t \in Running(G)' => t \in Running(G)
    BY <1>1, <1>3, <1>4 DEF Running, RunsIn
  <2> QED
    BY <2>1, <2>2, <2>3, <2>4
<1> QED
  BY <1>4, <1>5 DEF Runs

\* No run moves.
LEMMA NoRuns ==
  ASSUME runs \in RunTypes, runs' = runs, NEW t
  PROVE  Runs(t, {}, {})
BY DEF Runs, Running, RunsIn

-----------------------------------------------------------------------------
(* What every step but the one that adds subtasks keeps.                   *)

\* The task t goes on: a run of it from A to B, its marks, and whom it tells.
TaskStep(t, A, B) ==
  /\ Runs(t, A, B) /\ A \in SUBSET Stage /\ B \in SUBSET Stage
  /\ parents' = parents /\ wfTasks' = wfTasks /\ restored' = restored
  /\ processedNodes \subseteq processedNodes' /\ processedNodes' \subseteq processedNodes \cup {t}
  /\ errorKey \subseteq errorKey' /\ results \subseteq results'
  /\ B # {} \/ processedNodes' # processedNodes => t \in wfTasks
  /\ B # {} => t \notin Template /\ (B \subseteq Job \/ t \in processedNodes')
  \* The queues: what comes in may run, what goes out runs or is over.
  /\ \A u \in ready' : u \in ready \/ (u \in wfTasks /\ parents[u] \subseteq processedNodes')
  /\ \A u \in Batched' : u \in Batched \/ (u \in ready /\ Needs[u] \subseteq results)
  /\ Batched \subseteq Batched' \cup {t}
  /\ \A u \in (ready \ ready') \cup (Batched \ Batched') :
       u \in processedNodes' \cup ready' \cup Running(Job)'
  \* A run starts from the batch, when no dependency is known to have failed.
  /\ A = {} /\ B # {} => t \in Batched /\ B = {"job"} /\ Deps[t] \cap errorKey = {}
  /\ B \cap Job # {} => A \in {{}, {"job"}}
  \* Who leaves a stage is processed, has a result, or tells its children.
  /\ A \cap Job # {} => t \in processedNodes' \/ B \cap Job # {}
  /\ A \cap {"marked", "handlerAdded", "told"} # {} =>
       B \cap {"marked", "handlerAdded", "told"} # {} \/ t \in results'
  /\ A \cap Telling # {} \/ processedNodes' # processedNodes =>
       \/ t \in Running(Telling)'
       \/ \A c \in Children(t) : parents[c] \subseteq processedNodes' => c \in ready' \cup processedNodes'
  /\ processedNodes' # processedNodes => t \in errorKey' \/ Succeeded(t)'
  /\ \A d \in Template : taskStatus[d] = "SUCCESS" => taskStatus'[d] = "SUCCESS"
  /\ \A d \in Template : taskStatus'[d] = "SUCCESS" => d \in processedNodes'

\* A success is not lost.
LEMMA SuccessStays ==
  ASSUME NEW t, NEW A, NEW B, TaskStep(t, A, B), NEW d \in Task, Succeeded(d)
  PROVE  Succeeded(d)'
<1> DEFINE G == {"marked", "handlerAdded", "told"}
<1>1. G \in SUBSET Stage
  BY DEF Stage
<1>2. \A u \in Task : u \in Running(G) <=> RunsIn(u, G)
  BY DEF Running
<1>3. \A u \in Task : u \in Running(G)' <=> RunsIn(u, G)'
  BY DEF Running
<1>4. /\ Running(G)' \ {t} = Running(G) \ {t}
      /\ A \cap G = {} => Running(G) \subseteq Running(G)'
      /\ B \cap G # {} => t \in Running(G)'
      /\ A \cap G # {} => B \cap G # {} \/ t \in results'
  BY <1>1 DEF TaskStep, Runs
<1>5. d \in Running(G) => d \in Running(G)' \/ d \in results'
  BY <1>4
<1>6. d \in results => d \in results'
  BY DEF TaskStep
<1>7. d \in Template /\ taskStatus[d] = "SUCCESS" => taskStatus'[d] = "SUCCESS"
  BY DEF TaskStep
<1> HIDE DEF G
<1> QED
  BY <1>2, <1>3, <1>5, <1>6, <1>7 DEF Succeeded, G

\* The edges, the places, the order and the wake-up.
LEMMA TaskStepInv ==
  ASSUME TypeInv, EdgeInv, PlaceInv, OrderInv, ResultInv, WakeInv,
         NEW t, NEW A, NEW B, TaskStep(t, A, B), TypeInv',
         \A i \in Loop : loop'[i].pc # "work" => loop'[i].batch = {}
  PROVE  EdgeInv' /\ PlaceInv' /\ OrderInv' /\ ResultInv' /\ WakeInv'
<1>1. /\ parents' = parents /\ wfTasks' = wfTasks /\ restored' = restored
      /\ processedNodes \subseteq processedNodes'
      /\ processedNodes' \subseteq processedNodes \cup {t} /\ Runs(t, A, B)
      /\ A \in SUBSET Stage /\ B \in SUBSET Stage
      /\ B # {} \/ processedNodes' # processedNodes => t \in wfTasks
  BY DEF TaskStep
<1>2. /\ Job \in SUBSET Stage /\ Telling \in SUBSET Stage /\ Stage \in SUBSET Stage
      /\ (Stage \ Job) \in SUBSET Stage
  BY DEF Job, Telling, Stage
<1>3. \A G \in SUBSET Stage :
        /\ Running(G)' \ {t} = Running(G) \ {t}
        /\ A \cap G = {} => Running(G) \subseteq Running(G)'
        /\ B \cap G = {} => Running(G)' \subseteq Running(G)
        /\ A \cap G # {} => t \in Running(G)
        /\ B \cap G # {} => t \in Running(G)'
  BY <1>1 DEF Runs
<1>4. /\ ready \subseteq Task /\ ready' \subseteq Task /\ processedNodes' \subseteq Task
      /\ wfTasks \subseteq Task /\ parents \in [Task -> SUBSET Task] /\ Main \subseteq Task
      /\ Batched \subseteq Task /\ Batched' \subseteq Task
  BY DEF TypeInv, Task, Batched
<1>5. EdgeInv'
  BY <1>1 DEF EdgeInv
<1>6. PlaceInv'
  <2>1. ready' \subseteq wfTasks /\ Batched' \subseteq wfTasks
    BY DEF TaskStep, PlaceInv
  <2>2. processedNodes' \subseteq wfTasks
    BY <1>1 DEF PlaceInv
  <2>3. Running(Stage)' \subseteq wfTasks /\ Running(Stage)' \cap Template = {}
    <3>1. CASE B = {}
      BY <1>2, <1>3, <3>1 DEF PlaceInv
    <3>2. CASE B # {}
      <4>1. t \in wfTasks /\ t \notin Template
        BY <3>2 DEF TaskStep
      <4> QED
        BY <1>2, <1>3, <4>1 DEF PlaceInv
    <3> QED
      BY <3>1, <3>2
  <2>4. Running(Stage \ Job)' \subseteq processedNodes'
    <3>1. CASE B \cap (Stage \ Job) = {}
      BY <1>1, <1>2, <1>3, <3>1 DEF PlaceInv
    <3>2. CASE B \cap (Stage \ Job) # {}
      <4>1. t \in processedNodes'
        BY <3>2 DEF TaskStep
      <4> QED
        BY <1>1, <1>2, <1>3, <4>1 DEF PlaceInv
    <3> QED
      BY <3>1, <3>2
  <2> QED
    BY <1>1, <2>1, <2>2, <2>3, <2>4 DEF PlaceInv
<1>7. OrderInv'
  <2>1. \A u \in Batched' : parents[u] \subseteq processedNodes' /\ Needs[u] \subseteq results'
    BY <1>1 DEF TaskStep, OrderInv
  <2>2. \A u \in ready' : parents[u] \subseteq processedNodes'
    BY <1>1 DEF TaskStep, OrderInv
  <2>3. \A u \in Running(Stage)' : parents[u] \subseteq processedNodes'
    <3>1. CASE A = {} /\ B # {}
      <4>1. t \in Batched
        BY <3>1 DEF TaskStep
      <4> QED
        BY <1>1, <1>2, <1>3, <4>1 DEF OrderInv
    <3>2. CASE B = {}
      BY <1>1, <1>2, <1>3, <3>2 DEF OrderInv
    <3>3. CASE A # {}
      <4>1. t \in Running(Stage)
        BY <1>1, <1>2, <1>3, <3>3
      <4> QED
        BY <1>1, <1>2, <1>3, <4>1 DEF OrderInv
    <3> QED
      BY <3>1, <3>2, <3>3
  <2>4. \A u \in Running(Job)' : Needs[u] \subseteq results'
    <3>0. results \subseteq results'
      BY DEF TaskStep
    <3>1. CASE B \cap Job = {}
      BY <1>2, <1>3, <3>0, <3>1 DEF OrderInv
    <3>2. CASE B \cap Job # {}
      <4>1. t \in Batched \/ t \in Running(Job)
        BY <1>2, <1>3, <3>2 DEF TaskStep, Job
      <4> QED
        BY <1>2, <1>3, <3>0, <4>1 DEF OrderInv
    <3> QED
      BY <3>1, <3>2
  <2> QED
    BY <1>1, <2>1, <2>2, <2>3, <2>4 DEF OrderInv
<1>8. ResultInv'
  <2>0. \A d \in Task : Succeeded(d) => Succeeded(d)'
    BY SuccessStays
  <2>1. \A d \in processedNodes' : d \in errorKey' \/ Succeeded(d)'
    <3> TAKE d \in processedNodes'
    <3>1. CASE d \in processedNodes
      <4>1. d \in Task /\ (d \in errorKey \/ Succeeded(d)) /\ errorKey \subseteq errorKey'
        BY <1>4, <3>1 DEF ResultInv, TaskStep
      <4> QED
        BY <2>0, <4>1
    <3>2. CASE d \notin processedNodes
      <4>1. d = t /\ processedNodes' # processedNodes
        BY <1>1, <3>2
      <4>2. t \in errorKey' \/ Succeeded(t)'
        BY <4>1 DEF TaskStep
      <4> QED
        BY <4>1, <4>2
    <3> QED
      BY <3>1, <3>2
  <2>2. \A u \in Main \cap Running(Job)' : \A d \in Deps[u] : Succeeded(d)'
    <3> SUFFICES ASSUME NEW u \in Main, u \in Running(Job)', NEW d \in Deps[u]
                 PROVE  Succeeded(d)'
      OBVIOUS
    <3>1. u \in Task /\ Deps[u] \subseteq Main /\ d \in Task
      BY <1>4, V1Assumption
    <3>2. Succeeded(d)
      <4>1. CASE u \in Running(Job)
        BY <4>1 DEF ResultInv
      <4>2. CASE u \notin Running(Job)
        <5>1. u = t /\ B \cap Job # {} /\ ~(A \cap Job # {})
          BY <1>2, <1>3, <4>2
        <5>2. A = {}
          BY <5>1 DEF TaskStep, Job
        <5>3. t \in Batched /\ Deps[t] \cap errorKey = {}
          BY <5>1, <5>2 DEF TaskStep
        <5>4. d \in processedNodes /\ d \notin errorKey
          BY <5>1, <5>3 DEF OrderInv, EdgeInv
        <5> QED
          BY <5>4 DEF ResultInv
      <4> QED
        BY <4>1, <4>2
    <3> QED
      BY <2>0, <3>1, <3>2
  <2>3. \A d \in Template : taskStatus'[d] = "SUCCESS" => d \in processedNodes'
    BY DEF TaskStep
  <2> QED
    BY <2>1, <2>2, <2>3 DEF ResultInv
<1>9. WakeInv'
  <2> SUFFICES ASSUME ~restored, NEW u \in wfTasks \ processedNodes',
                      parents[u] \subseteq processedNodes'
               PROVE  Woken(u)'
    BY <1>1 DEF WakeInv
  <2>1. u \in Task /\ u \notin processedNodes
    BY <1>1, <1>4
  <2>2. CASE parents[u] \subseteq processedNodes
    <3>1. Woken(u)
      BY <2>1, <2>2 DEF WakeInv
    <3>2. CASE u \in ready \cup Batched
      <4>1. u \in ready' \cup Batched' \cup Running(Job)'
        BY <3>2 DEF TaskStep
      <4> QED
        BY <4>1 DEF Woken
    <3>3. CASE u \in Running(Job)
      <4>1. u \in Running(Job)'
        <5>1. CASE u # t \/ A \cap Job = {}
          BY <1>2, <1>3, <3>3, <5>1
        <5>2. CASE u = t /\ A \cap Job # {}
          BY <1>2, <1>3, <5>2 DEF TaskStep
        <5> QED
          BY <5>1, <5>2
      <4> QED
        BY <4>1 DEF Woken
    <3>4. ASSUME NEW p \in parents[u], p \in Running(Telling)
          PROVE  Woken(u)'
      <4>1. CASE p # t \/ A \cap Telling = {}
        <5>1. p \in Running(Telling)'
          BY <1>2, <1>3, <3>4, <4>1
        <5> QED
          BY <1>1, <5>1 DEF Woken
      <4>2. CASE p = t /\ A \cap Telling # {}
        <5>1. t \in Running(Telling)' \/ u \in ready'
          BY <2>1, <2>2, <3>4, <4>2, <1>1 DEF TaskStep, Children
        <5> QED
          BY <1>1, <3>4, <4>2, <5>1 DEF Woken
      <4> QED
        BY <4>1, <4>2
    <3> QED
      BY <3>1, <3>2, <3>3, <3>4 DEF Woken
  <2>3. CASE ~(parents[u] \subseteq processedNodes)
    <3>1. t \in parents[u] /\ processedNodes' # processedNodes
      BY <1>1, <2>3
    <3>2. t \in Running(Telling)' \/ u \in ready'
      BY <2>1, <3>1 DEF TaskStep, Children
    <3> QED
      BY <1>1, <3>1, <3>2 DEF Woken
  <2> QED
    BY <2>2, <2>3
<1> QED
  BY <1>5, <1>6, <1>7, <1>8, <1>9

\* The loops but for their batches: only a loop that works has one.
LoopInv == loop \in [Loop -> LoopState] /\ \A i \in Loop : loop[i].pc # "work" => loop[i].batch = {}
LoopPc == {"unborn", "top", "idle", "check", "work", "save", "returned"}

\* A loop that has no batch goes to another place.
LEMMA GotoLoop ==
  ASSUME LoopInv, NEW i \in Loop, NEW c \in LoopPc, Goto(i, c), loop[i].batch = {}
  PROVE  LoopInv' /\ Batched' = Batched
<1>1. loop[i] \in LoopState /\ loop' = [loop EXCEPT ![i] = [loop[i] EXCEPT !.pc = c]]
  BY DEF LoopInv, Goto
<1> DEFINE l == [loop[i] EXCEPT !.pc = c]
<1>2. l \in LoopState /\ l.batch = {}
  BY <1>1 DEF LoopState, LoopPc
<1> HIDE DEF l
<1>3. /\ loop' \in [Loop -> LoopState] /\ loop'[i] = l
      /\ \A j \in Loop \ {i} : loop'[j] = loop[j]
  BY <1>1, <1>2 DEF l, LoopInv
<1>4. \A j \in Loop : loop'[j].batch = loop[j].batch
  BY <1>2, <1>3
<1>5. Batched' = Batched
  BY <1>4 DEF Batched
<1> QED
  BY <1>2, <1>3, <1>5 DEF LoopInv

\* A loop that has no batch gets one.
LEMMA PollLoop ==
  ASSUME LoopInv, NEW i \in Loop, NEW c \in LoopPc, NEW S \in SUBSET Task,
         loop' = [loop EXCEPT ![i] = [pc |-> c, batch |-> S]],
         c = "work" \/ S = {}, loop[i].batch = {}
  PROVE  LoopInv' /\ Batched' = Batched \cup S
<1> DEFINE l == [pc |-> c, batch |-> S]
<1>2. l \in LoopState /\ l.batch = S /\ l.pc = c
  BY DEF LoopState, LoopPc
<1> HIDE DEF l
<1>3. /\ loop' \in [Loop -> LoopState] /\ loop'[i] = l
      /\ \A j \in Loop \ {i} : loop'[j] = loop[j]
  BY <1>2 DEF l, LoopInv
<1>4. \A j \in Loop : loop'[j].batch = IF j = i THEN S ELSE loop[j].batch
  BY <1>2, <1>3
<1>5. Batched' = Batched \cup S
  BY <1>4 DEF Batched
<1> QED
  BY <1>2, <1>3, <1>5 DEF LoopInv

\* A loop is done with a task of its batch.
LEMMA DoneLoop ==
  ASSUME LoopInv, NEW i \in Loop, NEW t \in loop[i].batch, Done(i, t)
  PROVE  /\ LoopInv' /\ t \in Batched
         /\ Batched' \subseteq Batched /\ Batched \subseteq Batched' \cup {t}
<1>1. loop[i] \in LoopState /\ loop[i].pc = "work"
      /\ loop' = [loop EXCEPT ![i] = [loop[i] EXCEPT !.batch = loop[i].batch \ {t}]]
  BY DEF LoopInv, Done
<1> DEFINE l == [loop[i] EXCEPT !.batch = loop[i].batch \ {t}]
<1>2. l \in LoopState /\ l.batch = loop[i].batch \ {t} /\ l.pc = "work"
  BY <1>1 DEF LoopState
<1> HIDE DEF l
<1>3. /\ loop' \in [Loop -> LoopState] /\ loop'[i] = l
      /\ \A j \in Loop \ {i} : loop'[j] = loop[j]
  BY <1>1, <1>2 DEF l, LoopInv
<1>4. \A j \in Loop : /\ loop'[j].batch \subseteq loop[j].batch
                      /\ loop[j].batch \subseteq loop'[j].batch \cup {t}
  BY <1>2, <1>3
<1>5. Batched' \subseteq Batched /\ Batched \subseteq Batched' \cup {t}
  BY <1>4 DEF Batched
<1>6. t \in Batched
  BY <1>1 DEF Batched, LoopState
<1> QED
  BY <1>2, <1>3, <1>5, <1>6 DEF LoopInv

\* Whom the end of t makes ready.
LEMMA ToldFacts ==
  ASSUME NEW t, NEW R \in SUBSET Task, NEW P
  PROVE  /\ Told(t, R, P) \in SUBSET Task /\ R \ {t} \subseteq Told(t, R, P)
         /\ \A u \in Told(t, R, P) : u \in R \/ (u \in Children(t) /\ parents[u] \subseteq P)
         /\ \A c \in Children(t) : parents[c] \subseteq P => c \in Told(t, R, P)
BY DEF Told, NewlyReady, Children

\* A child is a task of the workflow.
LEMMA ChildOfWorkflow ==
  ASSUME EdgeInv, NEW t, NEW c \in Children(t)
  PROVE  c \in wfTasks
BY DEF EdgeInv, Children, Task

\* The reported subtasks of p are finitely many.
LEMMA ReportedFinite ==
  ASSUME NEW p
  PROVE  /\ SubTasksOf(p) \in SUBSET Task /\ IsFiniteSet(SubTasksOf(p))
         /\ Reported(p) \in SUBSET Task /\ IsFiniteSet(Reported(p))
<1>1. SubTasksOf(p) \in SUBSET Task /\ Reported(p) \in SUBSET Task /\ IsFiniteSet(Task)
  BY V1Assumption DEF SubTasksOf, Reported, Task
<1> QED
  BY <1>1, FS_Subset

\* The statistics when nothing more has to be counted.
LEMMA StatsKept ==
  ASSUME TypeInv, StatsInv, stats' = stats, NEW t, NEW A, NEW B, TaskStep(t, A, B),
         A \cap Mark # {} => B \cap Mark # {},
         processedNodes' # processedNodes => t \notin Sub \/ t \in errorKey' \/ B \cap Mark # {}
  PROVE  StatsInv'
<1>1. Mark \in SUBSET Stage
  BY DEF Mark, Stage
<1>2. Running(Mark) \subseteq Running(Mark)' /\ (B \cap Mark # {} => t \in Running(Mark)')
  BY <1>1 DEF TaskStep, Runs
<1>3. /\ parents' = parents /\ errorKey \subseteq errorKey'
      /\ processedNodes' \subseteq processedNodes \cup {t}
  BY DEF TaskStep
<1>4. ASSUME NEW p \in Task
      PROVE  /\ stats'[p].total = Cardinality(SubTasksOf(p)')
             /\ stats'[p].success <= stats'[p].completed
             /\ stats'[p].completed >= Cardinality(Reported(p)')
  <2>1. SubTasksOf(p)' = SubTasksOf(p)
    BY <1>3 DEF SubTasksOf
  <2>2. Reported(p)' \subseteq Reported(p)
    <3> SUFFICES ASSUME NEW s \in Reported(p)' PROVE s \in Reported(p)
      OBVIOUS
    <3>1. s \in SubTasksOf(p) /\ s \in processedNodes' /\ s \notin errorKey' /\ s \in Sub /\ ~RunsIn(s, Mark)'
      BY <2>1 DEF Reported, SubTasksOf
    <3>2. s \in Task /\ s \notin Running(Mark)' /\ s \notin errorKey
      BY <1>3, <3>1 DEF Running, Task
    <3>3. s \in processedNodes /\ s \notin Running(Mark)
      BY <1>2, <1>3, <3>1, <3>2
    <3> QED
      BY <3>1, <3>2, <3>3 DEF Reported, Running
  <2>3. Cardinality(Reported(p)') <= Cardinality(Reported(p))
    BY <2>2, ReportedFinite, FS_Subset
  <2>4. /\ Cardinality(Reported(p)) \in Nat /\ Cardinality(Reported(p)') \in Nat
        /\ stats[p] \in Stats
    BY <2>2, ReportedFinite, FS_Subset, FS_CardinalityType DEF TypeInv
  <2>5. stats[p].completed \in Nat /\ stats[p].completed >= Cardinality(Reported(p))
    BY <2>4 DEF StatsInv, Stats
  <2> QED
    BY <2>1, <2>3, <2>4, <2>5 DEF StatsInv
<1> QED
  BY <1>4 DEF StatsInv

\* The parent of a subtask of the workflow; it is processed when the subtask runs.
LEMMA ParentFacts ==
  ASSUME TypeInv, EdgeInv, NEW t \in Sub, t \in wfTasks
  PROVE  /\ ParentOf(t) \in Task \ Template /\ parents[t] = {ParentOf(t)}
         /\ \A p \in Task : t \in SubTasksOf(p) => p = ParentOf(t)
<1>1. PICK p \in Task \ Template : parents[t] = {p}
  BY DEF EdgeInv
<1>2. ParentOf(t) = p
  BY <1>1 DEF ParentOf
<1> QED
  BY <1>1, <1>2 DEF SubTasksOf

\* A run that tells its children is counted once.
LEMMA CountedTypes ==
  ASSUME TypeInv, EdgeInv, NEW t \in Task, t \in wfTasks, NEW ok \in BOOLEAN
  PROVE  /\ Counted(t, ok) \in [Task -> Stats]
         /\ \A p \in Task :
              /\ Counted(t, ok)[p].total = stats[p].total
              /\ Counted(t, ok)[p].completed >= stats[p].completed
              /\ t \in SubTasksOf(p) => Counted(t, ok)[p].completed >= stats[p].completed + 1
              /\ stats[p].success <= stats[p].completed =>
                   Counted(t, ok)[p].success <= Counted(t, ok)[p].completed
<1>1. CASE t \notin Sub
  BY <1>1 DEF Counted, TypeInv, SubTasksOf, Stats
<1>2. CASE t \in Sub
  <2> DEFINE q == ParentOf(t)
             k == IF ok THEN 1 ELSE 0
             st == [stats[q] EXCEPT !.completed = @ + 1, !.success = @ + k]
             C == Counted(t, ok)
  <2>1. q \in Task /\ k \in 0 .. 1 /\ \A p \in Task : t \in SubTasksOf(p) => p = q
    BY <1>2, ParentFacts
  <2>2. stats \in [Task -> Stats] /\ stats[q] \in Stats
    BY <2>1 DEF TypeInv
  <2>3. C = [stats EXCEPT ![q] = st]
    BY <1>2, <2>1, <2>2 DEF Counted
  <2>4. /\ st \in Stats /\ st.total = stats[q].total
        /\ st.completed = stats[q].completed + 1 /\ st.success = stats[q].success + k
    <3>1. stats[q].completed \in Nat /\ stats[q].success \in Nat /\ stats[q].total \in Nat
      BY <2>2 DEF Stats
    <3> DEFINE a == stats[q].completed + 1
               b == stats[q].success + k
    <3>2. a \in Nat /\ b \in Nat /\ st = [stats[q] EXCEPT !.completed = a, !.success = b]
      BY <2>1, <3>1
    <3> HIDE DEF a, b, st, k
    <3>3. st \in Stats /\ st.total = stats[q].total /\ st.completed = a /\ st.success = b
      BY <2>2, <3>2 DEF Stats
    <3> QED
      BY <3>3 DEF a, b
  <2> HIDE DEF st, C
  <2>5. C \in [Task -> Stats] /\ C[q] = st /\ \A p \in Task \ {q} : C[p] = stats[p]
    BY <2>1, <2>2, <2>3, <2>4
  <2>6. ASSUME NEW p \in Task
        PROVE  /\ C[p].total = stats[p].total
               /\ C[p].completed >= stats[p].completed
               /\ t \in SubTasksOf(p) => C[p].completed >= stats[p].completed + 1
               /\ stats[p].success <= stats[p].completed => C[p].success <= C[p].completed
    <3>1. stats[p] \in Stats
      BY <2>2
    <3>2. CASE p = q
      BY <2>1, <2>4, <2>5, <3>1, <3>2 DEF Stats
    <3>3. CASE p # q
      BY <2>1, <2>5, <3>1, <3>3 DEF Stats
    <3> QED
      BY <3>2, <3>3
  <2> QED
    BY <2>5, <2>6 DEF C
<1> QED
  BY <1>1, <1>2

\* One element more is at most one more.
LEMMA OneMore ==
  ASSUME NEW S, NEW T, NEW x, IsFiniteSet(S), T \subseteq S \cup {x}
  PROVE  Cardinality(T) <= Cardinality(S) + 1
<1> DEFINE W == S \cup {x}
<1>1. IsFiniteSet(W) /\ Cardinality(W) <= Cardinality(S) + 1 /\ Cardinality(S) \in Nat
  <2>1. /\ IsFiniteSet(W) /\ Cardinality(S) \in Nat
        /\ Cardinality(W) = (IF x \in S THEN Cardinality(S) ELSE Cardinality(S) + 1)
    BY FS_AddElement, FS_CardinalityType
  <2> QED
    BY <2>1
<1> HIDE DEF W
<1>2. Cardinality(T) <= Cardinality(W) /\ Cardinality(T) \in Nat /\ Cardinality(W) \in Nat
  BY <1>1, FS_Subset, FS_CardinalityType DEF W
<1> QED
  BY <1>1, <1>2

\* The statistics when a run tells its children.
LEMMA StatsCounted ==
  ASSUME TypeInv, EdgeInv, StatsInv, NEW t \in Task, t \in wfTasks, NEW ok \in BOOLEAN,
         stats' = Counted(t, ok), NEW A, NEW B, TaskStep(t, A, B),
         processedNodes' = processedNodes
  PROVE  StatsInv'
<1>1. Mark \in SUBSET Stage
  BY DEF Mark, Stage
<1>2. Running(Mark) \subseteq Running(Mark)' \cup {t}
  BY <1>1 DEF TaskStep, Runs
<1>3. parents' = parents /\ errorKey \subseteq errorKey'
  BY DEF TaskStep
<1>4. ASSUME NEW p \in Task
      PROVE  /\ stats'[p].total = Cardinality(SubTasksOf(p)')
             /\ stats'[p].success <= stats'[p].completed
             /\ stats'[p].completed >= Cardinality(Reported(p)')
  <2>1. SubTasksOf(p)' = SubTasksOf(p)
    BY <1>3 DEF SubTasksOf
  <2>2. \A s \in Reported(p)' : s \in SubTasksOf(p) /\ (s \in Reported(p) \/ s = t)
    <3> TAKE s \in Reported(p)'
    <3>1. s \in SubTasksOf(p) /\ s \in processedNodes' /\ s \notin errorKey' /\ s \in Sub /\ ~RunsIn(s, Mark)'
      BY <2>1 DEF Reported, SubTasksOf
    <3>2. s \in Task /\ s \notin Running(Mark)' /\ s \notin errorKey
      BY <1>3, <3>1 DEF Running, Task
    <3>3. s \in processedNodes /\ (s \notin Running(Mark) \/ s = t)
      BY <1>2, <3>1, <3>2
    <3> QED
      BY <3>1, <3>2, <3>3 DEF Reported, Running
  <2>3. /\ Cardinality(Reported(p)) \in Nat /\ Cardinality(Reported(p)') \in Nat
        /\ IsFiniteSet(Reported(p)) /\ IsFiniteSet(Reported(p)')
    <3>1. Reported(p)' \subseteq SubTasksOf(p)
      BY <2>2
    <3> QED
      BY <3>1, ReportedFinite, FS_Subset, FS_CardinalityType
  <2>4. /\ stats[p] \in Stats /\ stats'[p] \in Stats
        /\ stats'[p].total = stats[p].total
        /\ stats'[p].completed >= stats[p].completed
        /\ t \in SubTasksOf(p) => stats'[p].completed >= stats[p].completed + 1
        /\ stats[p].success <= stats[p].completed => stats'[p].success <= stats'[p].completed
    BY CountedTypes DEF TypeInv
  <2>5. /\ stats[p].total = Cardinality(SubTasksOf(p)) /\ stats[p].success <= stats[p].completed
        /\ stats[p].completed >= Cardinality(Reported(p))
    BY DEF StatsInv
  <2>6. stats'[p].completed >= Cardinality(Reported(p)')
    <3>1. CASE t \in SubTasksOf(p)
      <4>1. Reported(p)' \subseteq Reported(p) \cup {t}
        BY <2>2
      <4>3. Cardinality(Reported(p)') <= Cardinality(Reported(p)) + 1
        BY <2>3, <4>1, OneMore
      <4> QED
        BY <2>3, <2>4, <2>5, <3>1, <4>3 DEF Stats
    <3>2. CASE t \notin SubTasksOf(p)
      <4>1. Reported(p)' \subseteq Reported(p)
        BY <2>2, <3>2
      <4>2. Cardinality(Reported(p)') <= Cardinality(Reported(p))
        BY <2>3, <4>1, FS_Subset
      <4> QED
        BY <2>3, <2>4, <2>5, <4>2 DEF Stats
    <3> QED
      BY <3>1, <3>2
  <2> QED
    BY <2>1, <2>4, <2>5, <2>6
<1> QED
  BY <1>4 DEF StatsInv

\* The step of a task, put together.
LEMMA StepInv ==
  ASSUME V1IInv, NEW t, NEW A, NEW B, TaskStep(t, A, B), TypeInv', StatsInv', LoopInv'
  PROVE  V1IInv'
BY TaskStepInv DEF V1IInv, LoopInv

\* The loops of the invariant.
LEMMA LoopsOfInv ==
  ASSUME TypeInv, PlaceInv
  PROVE  LoopInv
BY DEF TypeInv, PlaceInv, LoopInv

\* A step that changes no task and no edge: tasks that may run are queued.
Quiet == UNCHANGED <<processedNodes, errorKey, taskStatus, results, stats, dagVars, runs, restored>>

\* Such a step keeps the invariant.
LEMMA QuietStep ==
  ASSUME V1IInv, Quiet, TypeInv', LoopInv', ready \subseteq ready', Batched \subseteq Batched',
         \A u \in ready' : u \in ready \/ (u \in wfTasks /\ parents[u] \subseteq processedNodes),
         \A u \in Batched' : u \in Batched \/ (u \in ready /\ Needs[u] \subseteq results)
  PROVE  V1IInv'
<1>1. runs \in RunTypes /\ runs' = runs
  BY DEF V1IInv, TypeInv, RunTypes, Quiet
<1>2. Runs(0, {}, {})
  BY <1>1, NoRuns
<1>3. TaskStep(0, {}, {})
  BY <1>2 DEF TaskStep, Quiet, dagVars, V1IInv, ResultInv
<1>4. StatsInv'
  BY <1>3, StatsKept DEF V1IInv, Quiet
<1> QED
  BY <1>3, <1>4, StepInv

\* A loop takes a signal.
LEMMA LoopTakesSignalStep ==
  ASSUME V1IInv, NEW i \in Loop, LoopTakesSignal(i)
  PROVE  V1IInv'
<1>1. TypeInv /\ PlaceInv /\ LoopInv
  BY LoopsOfInv DEF V1IInv
<1>2. LoopInv' /\ Batched' = Batched
  <2>1. loop[i].batch = {}
    BY <1>1 DEF LoopInv, LoopTakesSignal, At
  <2>2. PICK c \in {"top", "returned"} : Goto(i, c)
    BY DEF LoopTakesSignal
  <2> QED
    BY <1>1, <2>1, <2>2, GotoLoop DEF LoopPc
<1>3. controlChan' \in Seq(Signal)
  BY <1>1, HeadTailProperties DEF LoopTakesSignal, TypeInv
<1>4. TypeInv'
  BY <1>1, <1>2, <1>3 DEF LoopTakesSignal, TypeInv, LoopInv, taskVars, dagVars, rowVars
<1> QED
  BY <1>2, <1>4, QuietStep DEF LoopTakesSignal, Quiet, taskVars, rowVars

\* A loop polls.
LEMMA LoopPollStep ==
  ASSUME V1IInv, NEW i \in Loop, LoopPoll(i)
  PROVE  V1IInv'
<1>1. TypeInv /\ PlaceInv /\ LoopInv
  BY LoopsOfInv DEF V1IInv
<1>2. LoopInv' /\ \A u \in Batched' : u \in Batched \/ u \in Available
  <2>1. loop[i].batch = {}
    BY <1>1 DEF LoopInv, LoopPoll, At
  <2>2. Available \in SUBSET Task /\ {} \in SUBSET Task
    BY <1>1 DEF Available, TypeInv
  <2>3. CASE ctxDone
    <3>1. loop' = [loop EXCEPT ![i] = [pc |-> "returned", batch |-> {}]]
      BY <2>3 DEF LoopPoll
    <3> QED
      BY <1>1, <2>1, <2>2, <3>1, PollLoop DEF LoopPc
  <2>4. CASE ~ctxDone /\ Available = {}
    <3>1. loop' = [loop EXCEPT ![i] = [pc |-> "idle", batch |-> {}]]
      BY <2>4 DEF LoopPoll
    <3> QED
      BY <1>1, <2>1, <2>2, <3>1, PollLoop DEF LoopPc
  <2>5. CASE ~ctxDone /\ Available # {}
    <3>1. loop' = [loop EXCEPT ![i] = [pc |-> "work", batch |-> Available]]
      BY <2>5 DEF LoopPoll
    <3> QED
      BY <1>1, <2>1, <2>2, <3>1, PollLoop DEF LoopPc
  <2> QED
    BY <2>3, <2>4, <2>5
<1>3. Batched \subseteq Batched'
  <2>1. loop[i].batch = {}
    BY <1>1 DEF LoopInv, LoopPoll, At
  <2>2. \A j \in Loop \ {i} : loop'[j] = loop[j]
    BY <1>1 DEF LoopInv, LoopPoll
  <2> QED
    BY <2>1, <2>2 DEF Batched
<1>4. TypeInv'
  BY <1>1, <1>2 DEF LoopPoll, TypeInv, LoopInv, taskVars, dagVars, rowVars, ctlVars
<1> QED
  BY <1>2, <1>3, <1>4, QuietStep DEF LoopPoll, Quiet, taskVars, rowVars, Available

\* A loop that found nothing recovers tasks whose dependencies are processed.
LEMMA LoopIdleStep ==
  ASSUME V1IInv, NEW i \in Loop, LoopIdle(i)
  PROVE  V1IInv'
<1>1. TypeInv /\ PlaceInv /\ LoopInv /\ EdgeInv
  BY LoopsOfInv DEF V1IInv
<1>2. PICK R \in SUBSET Recoverable : /\ recovered + Cardinality(R) <= MaxRecoveries[restored]
                                      /\ ready' = ready \cup R
                                      /\ recovered' = recovered + Cardinality(R)
  BY DEF LoopIdle
<1>3. LoopInv' /\ Batched' = Batched
  <2>1. loop[i].batch = {}
    BY <1>1 DEF LoopInv, LoopIdle, At
  <2>2. PICK c \in {"top", "check"} : Goto(i, c)
    BY DEF LoopIdle
  <2> QED
    BY <1>1, <2>1, <2>2, GotoLoop DEF LoopPc
<1>4. /\ R \subseteq Main /\ Main \subseteq wfTasks /\ Main \subseteq Task
      /\ \A u \in R : parents[u] \subseteq processedNodes
  BY <1>1 DEF Recoverable, EdgeInv, Task
<1>5. recovered' \in 0 .. MaxRecoveries[restored]
  <2>1. Cardinality(R) \in Nat
    BY <1>4, V1Assumption, FS_Subset, FS_CardinalityType
  <2>2. recovered \in Nat /\ MaxRecoveries[restored] \in Nat
    BY <1>1, V1Assumption DEF TypeInv
  <2> QED
    BY <1>2, <2>1, <2>2
<1>6. TypeInv'
  BY <1>1, <1>2, <1>3, <1>4, <1>5 DEF LoopIdle, TypeInv, LoopInv, dagVars, rowVars, ctlVars
<1> QED
  BY <1>2, <1>3, <1>4, <1>6, QuietStep DEF LoopIdle, Quiet

\* A loop looks whether all is over.
LEMMA LoopCheckStep ==
  ASSUME V1IInv, NEW i \in Loop, LoopCheck(i)
  PROVE  V1IInv'
<1>1. TypeInv /\ PlaceInv /\ LoopInv
  BY LoopsOfInv DEF V1IInv
<1>2. LoopInv' /\ Batched' = Batched
  <2>1. loop[i].batch = {}
    BY <1>1 DEF LoopInv, LoopCheck, At
  <2>2. PICK c \in {"top", "save"} : Goto(i, c)
    BY DEF LoopCheck
  <2> QED
    BY <1>1, <2>1, <2>2, GotoLoop DEF LoopPc
<1>3. status' \in InstanceStatus
  BY <1>1 DEF LoopCheck, TypeInv, InstanceStatus
<1>4. TypeInv'
  BY <1>1, <1>2, <1>3 DEF LoopCheck, TypeInv, LoopInv, taskVars, dagVars, ctlVars
<1> QED
  BY <1>2, <1>4, QuietStep DEF LoopCheck, Quiet, taskVars

\* A loop stores the end.
LEMMA LoopSaveStep ==
  ASSUME V1IInv, NEW i \in Loop, LoopSave(i)
  PROVE  V1IInv'
<1>1. TypeInv /\ PlaceInv /\ LoopInv
  BY LoopsOfInv DEF V1IInv
<1>2. LoopInv' /\ Batched' = Batched
  <2>1. loop[i].batch = {} /\ Goto(i, "returned")
    BY <1>1 DEF LoopInv, LoopSave, At
  <2> QED
    BY <1>1, <2>1, GotoLoop DEF LoopPc
<1>4. TypeInv'
  BY <1>1, <1>2 DEF LoopSave, TypeInv, LoopInv, taskVars, dagVars, ctlVars
<1> QED
  BY <1>2, <1>4, QuietStep DEF LoopSave, Quiet, taskVars

\* The control signals.
LEMMA ControlStep ==
  ASSUME V1IInv, SendSignal \/ ControlReceive \/ ControlStore \/ ControlExit
  PROVE  V1IInv'
<1>1. TypeInv /\ PlaceInv /\ LoopInv
  BY LoopsOfInv DEF V1IInv
<1>2. CASE SendSignal
  <2>1. controlChan' \in Seq(Signal)
    <3>1. PICK s \in Signals : controlChan' = Append(controlChan, s)
      BY <1>2 DEF SendSignal
    <3> QED
      BY <1>1, <3>1, V1Assumption, AppendProperties DEF TypeInv, Signal
  <2>2. LoopInv' /\ Batched' = Batched
    BY <1>1, <1>2 DEF SendSignal, loopVars, LoopInv, Batched
  <2>3. TypeInv'
    BY <1>1, <1>2, <2>1 DEF SendSignal, TypeInv, taskVars, dagVars, rowVars, loopVars
  <2> QED
    BY <1>2, <2>2, <2>3, QuietStep DEF SendSignal, Quiet, taskVars
<1>3. CASE ControlReceive
  <2>1. controlChan' \in Seq(Signal) /\ cpc' \in Signal
    BY <1>1, <1>3, HeadTailProperties DEF ControlReceive, TypeInv
  <2>2. status' \in InstanceStatus
    BY <1>3, <2>1 DEF ControlReceive, StatusOf, Signal, InstanceStatus
  <2>3. LoopInv' /\ Batched' = Batched
    BY <1>1, <1>3 DEF ControlReceive, loopVars, LoopInv, Batched
  <2>4. TypeInv'
    BY <1>1, <1>3, <2>1, <2>2 DEF ControlReceive, TypeInv, taskVars, dagVars, loopVars
  <2> QED
    BY <1>3, <2>3, <2>4, QuietStep DEF ControlReceive, Quiet, taskVars
<1>4. CASE ControlStore
  <2>1. LoopInv' /\ Batched' = Batched
    <3>1. CASE cpc = "Resume"
      <4>1. PICK i \in Loop : At(i, "unborn") /\ Goto(i, "top")
        BY <1>4, <3>1 DEF ControlStore
      <4>2. loop[i].batch = {}
        BY <1>1, <4>1 DEF LoopInv, At
      <4> QED
        BY <1>1, <4>1, <4>2, GotoLoop DEF LoopPc
    <3>2. CASE cpc # "Resume"
      BY <1>1, <1>4, <3>2 DEF ControlStore, LoopInv, Batched
    <3> QED
      BY <3>1, <3>2
  <2>2. TypeInv'
    BY <1>1, <1>4, <2>1 DEF ControlStore, TypeInv, LoopInv, taskVars, dagVars
  <2> QED
    BY <1>4, <2>1, <2>2, QuietStep DEF ControlStore, Quiet, taskVars
<1>5. CASE ControlExit
  <2>1. LoopInv' /\ Batched' = Batched
    BY <1>1, <1>5 DEF ControlExit, loopVars, LoopInv, Batched
  <2>2. TypeInv'
    BY <1>1, <1>5 DEF ControlExit, TypeInv, taskVars, dagVars, loopVars, rowVars
  <2> QED
    BY <1>5, <2>1, <2>2, QuietStep DEF ControlExit, Quiet, taskVars
<1> QED
  BY <1>2, <1>3, <1>4, <1>5

-----------------------------------------------------------------------------
(* The batch of a loop.                                                    *)

\* The status of a parent that its subtask settles.
LEMMA ParentStatusFacts ==
  ASSUME TypeInv, EdgeInv, NEW t \in Task, t \in wfTasks, NEW st
  PROVE  /\ ParentStatus(t, st) \in [Task -> Status]
         /\ \A d \in Template : ParentStatus(t, st)[d] = taskStatus[d]
<1>1. taskStatus \in [Task -> Status] /\ Template \subseteq Task
  BY V1Assumption DEF TypeInv, Task
<1>2. CASE ~ParentSettled(t, st)
  BY <1>1, <1>2 DEF ParentStatus
<1>3. CASE ParentSettled(t, st)
  <2> DEFINE p == ParentOf(t)
             v == IF 100 * (st[p].total - st[p].success) <= Tolerance * st[p].total
                  THEN "SUCCESS" ELSE "FAILED"
  <2>1. p \in Task \ Template
    BY <1>3, ParentFacts DEF ParentSettled
  <2>2. v \in Status /\ ParentStatus(t, st) = [taskStatus EXCEPT ![p] = v]
    BY <1>3 DEF ParentStatus, Status
  <2> HIDE DEF v, p
  <2> QED
    BY <1>1, <2>1, <2>2
<1> QED
  BY <1>2, <1>3

\* A task ends without a run.
LEMMA EndWithoutRunStep ==
  ASSUME V1IInv, NEW i \in Loop, NEW t \in loop[i].batch, LoopWork(i), Done(i, t),
         t \notin processedNodes, results' = results, NEW st \in {"SUCCESS", "FAILED"},
         EndWithoutRun(t, st), errorKey \subseteq errorKey', errorKey' \subseteq Task,
         IF st = "SUCCESS" THEN t \in Template ELSE t \in errorKey'
  PROVE  V1IInv'
<1>1. /\ TypeInv /\ PlaceInv /\ LoopInv /\ EdgeInv /\ OrderInv /\ ResultInv /\ StatsInv
      /\ runs \in RunTypes /\ runs' = runs
  BY LoopsOfInv DEF V1IInv, TypeInv, RunTypes, EndWithoutRun
<1>2. /\ LoopInv' /\ t \in Batched /\ Batched' \subseteq Batched
      /\ Batched \subseteq Batched' \cup {t}
  BY <1>1, DoneLoop
<1>3. t \in Task /\ t \in wfTasks /\ parents[t] \subseteq processedNodes
  BY <1>1, <1>2 DEF PlaceInv, OrderInv, Batched
<1>4. /\ processedNodes' = processedNodes \cup {t}
      /\ ready' = Told(t, ready, processedNodes') /\ ready' \in SUBSET Task
      /\ ready \ {t} \subseteq ready'
      /\ \A u \in ready' : u \in ready \/ (u \in wfTasks /\ parents[u] \subseteq processedNodes')
      /\ \A c \in Children(t) : parents[c] \subseteq processedNodes' => c \in ready'
  <2>1. ready \in SUBSET Task
    BY <1>1 DEF TypeInv
  <2> DEFINE P == processedNodes \cup {t}
  <2>2. ready' = Told(t, ready, P) /\ processedNodes' = P
    BY DEF EndWithoutRun
  <2> HIDE DEF P
  <2>3. \A c \in Children(t) : c \in wfTasks
    BY <1>1, ChildOfWorkflow
  <2>4. /\ Told(t, ready, P) \in SUBSET Task /\ ready \ {t} \subseteq Told(t, ready, P)
        /\ \A u \in Told(t, ready, P) : u \in ready \/ (u \in Children(t) /\ parents[u] \subseteq P)
        /\ \A c \in Children(t) : parents[c] \subseteq P => c \in Told(t, ready, P)
    BY <2>1, ToldFacts
  <2> QED
    BY <2>2, <2>3, <2>4 DEF P
<1>5. /\ taskStatus' \in [Task -> Status] /\ taskStatus'[t] = st
      /\ \A d \in Template : d # t => taskStatus'[d] = taskStatus[d]
  <2> DEFINE f == ParentStatus(t, stats)
  <2>1. f \in [Task -> Status] /\ \A d \in Template : f[d] = taskStatus[d]
    BY <1>1, <1>3, ParentStatusFacts
  <2>2. taskStatus' = [f EXCEPT ![t] = st]
    BY DEF EndWithoutRun
  <2> HIDE DEF f
  <2>3. Template \subseteq Task
    BY V1Assumption DEF Task
  <2> QED
    BY <1>3, <2>1, <2>2, <2>3 DEF Status
<1>6. TypeInv'
  <2>1. UNCHANGED <<dagVars, recovered, restored, rowVars, ctlVars, stats, runs>>
    BY DEF LoopWork, EndWithoutRun
  <2>2. processedNodes' \in SUBSET Task
    BY <1>1, <1>3, <1>4 DEF TypeInv
  <2> QED
    BY <1>1, <1>2, <1>4, <1>5, <2>1, <2>2 DEF TypeInv, LoopInv, dagVars, rowVars, ctlVars
<1>7. TaskStep(t, {}, {})
  <2>1. Runs(t, {}, {})
    BY <1>1, NoRuns
  <2>2. parents' = parents /\ wfTasks' = wfTasks /\ restored' = restored
    BY DEF LoopWork, dagVars
  <2>3. \A u \in (ready \ ready') \cup (Batched \ Batched') : u \in processedNodes'
    BY <1>2, <1>4
  <2>4. processedNodes' # processedNodes => t \in errorKey' \/ Succeeded(t)'
    <3>1. st = "SUCCESS" => t \in Template /\ taskStatus'[t] = "SUCCESS"
      BY <1>5
    <3>2. (t \in Template /\ taskStatus'[t] = "SUCCESS") => Succeeded(t)'
      BY DEF Succeeded
    <3> QED
      BY <3>1, <3>2
  <2>5. t \in Template => st = "SUCCESS" \/ taskStatus[t] # "SUCCESS"
    BY <1>1 DEF ResultInv
  <2>6. \A d \in Template : taskStatus[d] = "SUCCESS" => taskStatus'[d] = "SUCCESS"
    BY <1>5, <2>5
  <2>7. \A d \in Template : taskStatus'[d] = "SUCCESS" => d \in processedNodes'
    BY <1>1, <1>4, <1>5 DEF ResultInv
  <2>8. /\ {} \in SUBSET Stage /\ {} \cap Job = {} /\ {} \cap Telling = {}
        /\ {} \cap {"marked", "handlerAdded", "told"} = {}
    OBVIOUS
  <2> QED
    BY <1>2, <1>3, <1>4, <2>1, <2>2, <2>3, <2>4, <2>6, <2>7, <2>8 DEF TaskStep
<1>8. StatsInv'
  <2>1. t \notin Sub \/ t \in errorKey'
    BY V1Assumption
  <2>2. stats' = stats /\ {} \cap Mark = {}
    BY DEF EndWithoutRun
  <2> QED
    BY <1>1, <1>7, <2>1, <2>2, StatsKept
<1> QED
  BY <1>2, <1>6, <1>7, <1>8, StepInv

\* A processed task leaves the ready set.
LEMMA ForgetStep ==
  ASSUME V1IInv, NEW i \in Loop, NEW t \in loop[i].batch, LoopWork(i), Done(i, t),
         results' = results, ForgetProcessed(i, t)
  PROVE  V1IInv'
<1>1. TypeInv /\ PlaceInv /\ LoopInv /\ StatsInv /\ ResultInv /\ runs \in RunTypes /\ runs' = runs
  BY LoopsOfInv DEF V1IInv, TypeInv, RunTypes, ForgetProcessed
<1>2. /\ LoopInv' /\ t \in Batched /\ Batched' \subseteq Batched
      /\ Batched \subseteq Batched' \cup {t}
  BY <1>1, DoneLoop
<1>3. t \in processedNodes /\ ready' = ready \ {t}
      /\ UNCHANGED <<processedNodes, errorKey, taskStatus, stats, runs, results>>
      /\ UNCHANGED <<dagVars, recovered, restored, rowVars, ctlVars>>
  BY DEF ForgetProcessed, LoopWork
<1>4. TypeInv'
  BY <1>1, <1>2, <1>3 DEF TypeInv, LoopInv, dagVars, rowVars, ctlVars
<1>5. TaskStep(t, {}, {})
  <2>1. Runs(t, {}, {})
    BY <1>1, NoRuns
  <2>2. \A d \in Template : taskStatus[d] = "SUCCESS" => d \in processedNodes
    BY <1>1 DEF ResultInv
  <2> QED
    BY <1>2, <1>3, <2>1, <2>2 DEF TaskStep, dagVars
<1>6. StatsInv'
  BY <1>1, <1>3, <1>5, StatsKept
<1> QED
  BY <1>2, <1>4, <1>5, <1>6, StepInv

\* A task is submitted, or refused.
LEMMA SubmitStep ==
  ASSUME V1IInv, NEW i \in Loop, NEW t \in loop[i].batch, LoopWork(i), Done(i, t),
         results' = results, Submit(i, t)
  PROVE  V1IInv'
<1>1. TypeInv /\ PlaceInv /\ LoopInv /\ StatsInv /\ ResultInv /\ OrderInv /\ runs \in RunTypes
  BY LoopsOfInv DEF V1IInv, TypeInv, RunTypes
<1>2. /\ LoopInv' /\ t \in Batched /\ Batched' \subseteq Batched
      /\ Batched \subseteq Batched' \cup {t}
  BY <1>1, DoneLoop
<1>3. t \in Task /\ t \in wfTasks /\ parents[t] \subseteq processedNodes
  BY <1>1, <1>2 DEF PlaceInv, OrderInv, Batched
<1>4. /\ t \notin processedNodes \cup Template /\ ~FailedDependency(t)
      /\ taskStatus' = [taskStatus EXCEPT ![t] = "PENDING"]
      /\ UNCHANGED <<processedNodes, errorKey, stats, results>>
      /\ UNCHANGED <<dagVars, recovered, restored, rowVars, ctlVars>>
  BY DEF Submit, LoopWork
<1>5. /\ taskStatus' \in [Task -> Status]
      /\ \A d \in Template : taskStatus'[d] = taskStatus[d]
  <2>1. taskStatus \in [Task -> Status] /\ Template \subseteq Task
    BY <1>1, V1Assumption DEF TypeInv, Task
  <2> QED
    BY <1>4, <2>1 DEF Status
<1>6. \A d \in Template : taskStatus'[d] = "SUCCESS" => d \in processedNodes'
  BY <1>1, <1>4, <1>5 DEF ResultInv
<1>7. Deps[t] \cap errorKey = {}
  BY <1>4 DEF FailedDependency
<1>8. ASSUME runs' = [runs EXCEPT ![t]["job"] = @ + 1], ready' = ready \ {t}
      PROVE  V1IInv'
  <2>1. Runs(t, {}, {"job"})
    BY <1>1, <1>3, <1>8, StartRuns
  <2>2. TypeInv'
    BY <1>1, <1>2, <1>4, <1>5, <1>8, <2>1 DEF TypeInv, LoopInv, dagVars, rowVars, ctlVars, Runs, RunTypes
  <2>3. /\ Job \in SUBSET Stage /\ {"job"} \cap Job # {} /\ {"job"} \subseteq Job
        /\ {"job"} \in SUBSET Stage /\ {} \in SUBSET Stage
    BY DEF Job, Stage
  <2>4. t \in Running(Job)'
    BY <2>1, <2>3 DEF Runs
  <2>5. TaskStep(t, {}, {"job"})
    BY <1>2, <1>3, <1>4, <1>5, <1>6, <1>7, <1>8, <2>1, <2>3, <2>4 DEF TaskStep, dagVars
  <2>6. StatsInv'
    BY <1>1, <1>4, <2>5, StatsKept
  <2> QED
    BY <1>2, <2>2, <2>5, <2>6, StepInv
<1>9. ASSUME runs' = runs, ready' = ready \cup {t}
      PROVE  V1IInv'
  <2>1. Runs(t, {}, {})
    BY <1>1, <1>9, NoRuns
  <2>2. TypeInv'
    BY <1>1, <1>2, <1>3, <1>4, <1>5, <1>9, <2>1 DEF TypeInv, LoopInv, dagVars, rowVars, ctlVars
  <2>5. TaskStep(t, {}, {})
    BY <1>2, <1>3, <1>4, <1>5, <1>6, <1>9, <2>1 DEF TaskStep, dagVars
  <2>6. StatsInv'
    BY <1>1, <1>4, <2>5, StatsKept
  <2> QED
    BY <1>2, <2>2, <2>5, <2>6, StepInv
<1> QED
  BY <1>8, <1>9 DEF Submit

\* A loop works on its batch.
LEMMA LoopWorkStep ==
  ASSUME V1IInv, NEW i \in Loop, LoopWork(i)
  PROVE  V1IInv'
<1>1. TypeInv /\ PlaceInv /\ LoopInv
  BY LoopsOfInv DEF V1IInv
<1>2. CASE loop[i].batch = {}
  <2>1. Goto(i, "top") /\ UNCHANGED <<taskVars, runs>>
        /\ UNCHANGED <<dagVars, recovered, restored, rowVars, ctlVars>>
    BY <1>2 DEF LoopWork
  <2>2. LoopInv' /\ Batched' = Batched
    BY <1>1, <1>2, <2>1, GotoLoop DEF LoopPc
  <2>3. TypeInv'
    BY <1>1, <2>1, <2>2 DEF TypeInv, LoopInv, taskVars, dagVars, rowVars, ctlVars
  <2> QED
    BY <2>1, <2>2, <2>3, QuietStep DEF Quiet, taskVars
<1>3. CASE loop[i].batch # {}
  <2>1. PICK t \in loop[i].batch :
           /\ Done(i, t) /\ results' = results
           /\ ForgetProcessed(i, t) \/ Skip(i, t) \/ CompleteTemplate(i, t) \/ Submit(i, t)
    BY <1>3 DEF LoopWork
  <2>2. CASE ForgetProcessed(i, t)
    BY <2>1, <2>2, ForgetStep
  <2>3. CASE Skip(i, t)
    <3>1. t \in Task /\ errorKey \subseteq Task
      BY <1>1 DEF TypeInv, LoopState
    <3> QED
      BY <2>1, <2>3, <3>1, EndWithoutRunStep DEF Skip
  <2>4. CASE CompleteTemplate(i, t)
    <3>1. errorKey \subseteq Task
      BY <1>1 DEF TypeInv
    <3> QED
      BY <2>1, <2>4, <3>1, EndWithoutRunStep DEF CompleteTemplate
  <2>5. CASE Submit(i, t)
    BY <2>1, <2>5, SubmitStep
  <2> QED
    BY <2>1, <2>2, <2>3, <2>4, <2>5
<1> QED
  BY <1>2, <1>3

-----------------------------------------------------------------------------
(* The stages of a run.                                                    *)

\* A run starts its complete handler.
LEMMA RunSucceedsStep ==
  ASSUME V1IInv, NEW t \in Task, NEW g \in Stage, RunSucceeds(t, g)
  PROVE  V1IInv'
<1>1. TypeInv /\ PlaceInv /\ LoopInv /\ StatsInv /\ ResultInv /\ runs \in RunTypes
  BY LoopsOfInv DEF V1IInv, TypeInv, RunTypes
<1>2. /\ g \in Job /\ Move(t, g, "marked") /\ processedNodes' = processedNodes \cup {t}
      /\ taskStatus' = [taskStatus EXCEPT ![t] = "SUCCESS"]
      /\ UNCHANGED <<ready, errorKey, results, stats, dagVars, loopVars, restored, rowVars, ctlVars>>
  BY DEF RunSucceeds, Job
<1>3. Runs(t, {g}, {"marked"})
  <2>1. g # "marked" /\ "marked" \in Stage
    BY <1>2 DEF Job, Stage
  <2> QED
    BY <1>1, <1>2, <2>1, MoveRuns
<1>4. /\ {g} \in SUBSET Stage /\ {"marked"} \in SUBSET Stage /\ Telling \in SUBSET Stage
      /\ Stage \in SUBSET Stage /\ {g} \cap Stage # {} /\ {"marked"} \cap Telling # {}
      /\ {"marked"} \cap Job = {} /\ {g} \cap Mark = {} /\ {"marked"} \cap Mark # {}
      /\ {g} \cap {"marked", "handlerAdded", "told"} = {}
  <2>1. g \in Stage /\ g \notin Mark /\ g \notin {"marked", "handlerAdded", "told"}
    BY <1>2 DEF Job, Mark, Stage
  <2>2. "marked" \in Stage /\ "marked" \in Telling /\ "marked" \notin Job /\ "marked" \in Mark
    BY DEF Stage, Telling, Job, Mark
  <2>3. Telling \subseteq Stage
    BY DEF Stage, Telling
  <2> QED
    BY <2>1, <2>2, <2>3
<1>5. t \in Running(Stage) /\ t \in wfTasks /\ t \notin Template /\ t \in Running(Telling)'
  BY <1>1, <1>3, <1>4 DEF Runs, PlaceInv
<1>6. Succeeded(t)'
  <2>1. {"marked", "handlerAdded", "told"} \in SUBSET Stage
    BY DEF Stage
  <2>2. t \in Running({"marked", "handlerAdded", "told"})'
    BY <1>3, <2>1 DEF Runs
  <2> QED
    BY <2>2 DEF Succeeded, Running
<1>7. LoopInv' /\ Batched' = Batched
  BY <1>1, <1>2 DEF loopVars, LoopInv, Batched
<1>8. TypeInv'
  <2>1. taskStatus' \in [Task -> Status] /\ processedNodes' \in SUBSET Task
    BY <1>1, <1>2 DEF TypeInv, Status
  <2> QED
    BY <1>1, <1>2, <1>3, <2>1 DEF TypeInv, Runs, RunTypes, dagVars, loopVars, rowVars, ctlVars
<1>9. /\ \A d \in Template : taskStatus'[d] = taskStatus[d]
      /\ \A d \in Template : taskStatus'[d] = "SUCCESS" => d \in processedNodes'
  <2>1. taskStatus \in [Task -> Status] /\ Template \subseteq Task
    BY <1>1, V1Assumption DEF TypeInv, Task
  <2> QED
    BY <1>1, <1>2, <1>5, <2>1 DEF ResultInv
<1>10. TaskStep(t, {g}, {"marked"})
  BY <1>2, <1>3, <1>4, <1>5, <1>6, <1>7, <1>9 DEF TaskStep, dagVars
<1>11. StatsInv'
  BY <1>1, <1>2, <1>4, <1>10, StatsKept
<1> QED
  BY <1>7, <1>8, <1>10, <1>11, StepInv

\* A run starts its error handler.
LEMMA RunFailsStep ==
  ASSUME V1IInv, NEW t \in Task, NEW g \in Stage, RunFails(t, g)
  PROVE  V1IInv'
<1>1. TypeInv /\ PlaceInv /\ LoopInv /\ StatsInv /\ ResultInv /\ runs \in RunTypes
  BY LoopsOfInv DEF V1IInv, TypeInv, RunTypes
<1>2. /\ g \in Job /\ Move(t, g, "failed") /\ processedNodes' = processedNodes \cup {t}
      /\ taskStatus' = [taskStatus EXCEPT ![t] = "FAILED"]
      /\ errorKey' = errorKey \cup {t}
      /\ UNCHANGED <<ready, results, stats, dagVars, loopVars, restored, rowVars, ctlVars>>
  BY DEF RunFails, Job
<1>3. Runs(t, {g}, {"failed"})
  <2>1. g # "failed" /\ "failed" \in Stage
    BY <1>2 DEF Job, Stage
  <2> QED
    BY <1>1, <1>2, <2>1, MoveRuns
<1>4. /\ {g} \in SUBSET Stage /\ {"failed"} \in SUBSET Stage /\ Telling \in SUBSET Stage
      /\ Stage \in SUBSET Stage /\ {g} \cap Stage # {} /\ {"failed"} \cap Telling # {}
      /\ {"failed"} \cap Job = {} /\ {g} \cap Mark = {}
      /\ {g} \cap {"marked", "handlerAdded", "told"} = {}
  <2>1. g \in Stage /\ g \notin Mark /\ g \notin {"marked", "handlerAdded", "told"}
    BY <1>2 DEF Job, Mark, Stage
  <2>2. "failed" \in Stage /\ "failed" \in Telling /\ "failed" \notin Job
    BY DEF Stage, Telling, Job, Mark
  <2>3. Telling \subseteq Stage
    BY DEF Stage, Telling
  <2> QED
    BY <2>1, <2>2, <2>3
<1>5. t \in Running(Stage) /\ t \in wfTasks /\ t \notin Template /\ t \in Running(Telling)'
  BY <1>1, <1>3, <1>4 DEF Runs, PlaceInv
<1>7. LoopInv' /\ Batched' = Batched
  BY <1>1, <1>2 DEF loopVars, LoopInv, Batched
<1>8. TypeInv'
  <2>1. taskStatus' \in [Task -> Status] /\ processedNodes' \in SUBSET Task /\ errorKey' \in SUBSET Task
    BY <1>1, <1>2 DEF TypeInv, Status
  <2> QED
    BY <1>1, <1>2, <1>3, <2>1 DEF TypeInv, Runs, RunTypes, dagVars, loopVars, rowVars, ctlVars
<1>9. /\ \A d \in Template : taskStatus'[d] = taskStatus[d]
      /\ \A d \in Template : taskStatus'[d] = "SUCCESS" => d \in processedNodes'
  <2>1. taskStatus \in [Task -> Status] /\ Template \subseteq Task
    BY <1>1, V1Assumption DEF TypeInv, Task
  <2> QED
    BY <1>1, <1>2, <1>5, <2>1 DEF ResultInv
<1>10. TaskStep(t, {g}, {"failed"})
  BY <1>2, <1>3, <1>4, <1>5, <1>7, <1>9 DEF TaskStep, dagVars
<1>11. StatsInv'
  BY <1>1, <1>2, <1>4, <1>10, StatsKept
<1> QED
  BY <1>7, <1>8, <1>10, <1>11, StepInv

\* The result of a run that told its children is stored, and the run is over.
LEMMA RunEndsStep ==
  ASSUME V1IInv, NEW t \in Task, RunEnds(t)
  PROVE  V1IInv'
<1>1. TypeInv /\ PlaceInv /\ LoopInv /\ StatsInv /\ ResultInv /\ runs \in RunTypes
  BY LoopsOfInv DEF V1IInv, TypeInv, RunTypes
<1>2. /\ End(t, "told") /\ results' = results \cup {t}
      /\ UNCHANGED <<ready, processedNodes, errorKey, taskStatus, stats, dagVars,
                     loopVars, restored, rowVars, ctlVars>>
  BY DEF RunEnds
<1>3. Runs(t, {"told"}, {})
  BY <1>1, <1>2, EndRuns DEF Stage
<1>4. /\ {"told"} \in SUBSET Stage /\ {} \in SUBSET Stage
      /\ {"told"} \cap Job = {} /\ {"told"} \cap Mark = {} /\ {"told"} \cap Telling = {}
  BY DEF Stage, Telling, Job, Mark
<1>7. LoopInv' /\ Batched' = Batched
  BY <1>1, <1>2 DEF loopVars, LoopInv, Batched
<1>8. TypeInv'
  <2>1. results' \in SUBSET Task
    BY <1>1, <1>2 DEF TypeInv
  <2> QED
    BY <1>1, <1>2, <1>3, <2>1 DEF TypeInv, Runs, RunTypes, dagVars, loopVars, rowVars, ctlVars
<1>9. \A d \in Template : taskStatus[d] = "SUCCESS" => d \in processedNodes
  BY <1>1 DEF ResultInv
<1>10. TaskStep(t, {"told"}, {})
  BY <1>2, <1>3, <1>4, <1>7, <1>9 DEF TaskStep, dagVars
<1>11. StatsInv'
  BY <1>1, <1>2, <1>4, <1>10, StatsKept
<1> QED
  BY <1>7, <1>8, <1>10, <1>11, StepInv

\* A run that failed makes the instance fail, and is over.
LEMMA RunFailsInstanceStep ==
  ASSUME V1IInv, NEW t \in Task, RunFailsInstance(t)
  PROVE  V1IInv'
<1>1. TypeInv /\ PlaceInv /\ LoopInv /\ StatsInv /\ ResultInv /\ runs \in RunTypes
  BY LoopsOfInv DEF V1IInv, TypeInv, RunTypes
<1>2. /\ End(t, "failedTold") /\ status' = "Failed"
      /\ UNCHANGED <<ready, processedNodes, errorKey, taskStatus, results, stats, dagVars,
                     loopVars, restored, ctlVars>>
  BY DEF RunFailsInstance, taskVars
<1>3. Runs(t, {"failedTold"}, {})
  BY <1>1, <1>2, EndRuns DEF Stage
<1>4. /\ {"failedTold"} \in SUBSET Stage /\ {} \in SUBSET Stage
      /\ {"failedTold"} \cap Job = {} /\ {"failedTold"} \cap Mark = {}
      /\ {"failedTold"} \cap Telling = {}
      /\ {"failedTold"} \cap {"marked", "handlerAdded", "told"} = {}
  BY DEF Stage, Telling, Job, Mark
<1>7. LoopInv' /\ Batched' = Batched
  BY <1>1, <1>2 DEF loopVars, LoopInv, Batched
<1>8. TypeInv'
  BY <1>1, <1>2, <1>3 DEF TypeInv, Runs, RunTypes, dagVars, loopVars, ctlVars, InstanceStatus
<1>9. \A d \in Template : taskStatus[d] = "SUCCESS" => d \in processedNodes
  BY <1>1 DEF ResultInv
<1>10. TaskStep(t, {"failedTold"}, {})
  BY <1>2, <1>3, <1>4, <1>7, <1>9 DEF TaskStep, dagVars
<1>11. StatsInv'
  BY <1>1, <1>2, <1>4, <1>10, StatsKept
<1> QED
  BY <1>7, <1>8, <1>10, <1>11, StepInv

\* A run tells the children of its task, and those of a parent it settles.
LEMMA RunTellsStep ==
  ASSUME V1IInv, NEW t \in Task, NEW g \in Stage, RunTells(t, g)
  PROVE  V1IInv'
<1>1. /\ TypeInv /\ PlaceInv /\ LoopInv /\ StatsInv /\ ResultInv /\ EdgeInv /\ OrderInv
      /\ runs \in RunTypes
  BY LoopsOfInv DEF V1IInv, TypeInv, RunTypes
<1>2. PICK h \in {"told", "failedTold"}, ok \in BOOLEAN :
        /\ Move(t, g, h) /\ TaskCompleted(t, ok)
        /\ IF h = "told" THEN g \in Mark ELSE g = "failed"
  <2>1. CASE g = "failed" /\ Move(t, g, "failedTold") /\ TaskCompleted(t, FALSE)
    BY <2>1
  <2>2. CASE g \in Mark /\ Move(t, g, "told") /\ TaskCompleted(t, TRUE)
    BY <2>2
  <2> QED
    BY <2>1, <2>2 DEF RunTells, Mark
<1>3. UNCHANGED <<processedNodes, errorKey, results, dagVars, loopVars, restored, rowVars, ctlVars>>
  BY DEF RunTells
<1>4. Runs(t, {g}, {h})
  <2>1. g # h /\ h \in Stage
    BY <1>2 DEF Mark, Stage
  <2> QED
    BY <1>1, <1>2, <2>1, MoveRuns
<1>5. /\ {g} \in SUBSET Stage /\ {h} \in SUBSET Stage /\ Stage \in SUBSET Stage
      /\ {g} \cap Stage # {} /\ {h} \cap Job = {} /\ {g} \cap Job = {} /\ g \in Stage \ Job
      /\ (Stage \ Job) \in SUBSET Stage /\ {g} \cap (Stage \ Job) # {}
      /\ {g} \cap {"marked", "handlerAdded", "told"} # {} =>
            {h} \cap {"marked", "handlerAdded", "told"} # {}
  BY <1>2 DEF Stage, Job, Mark
<1>6. /\ t \in Running(Stage) /\ t \in wfTasks /\ t \notin Template /\ t \in processedNodes
      /\ parents[t] \subseteq processedNodes
  BY <1>1, <1>4, <1>5 DEF Runs, PlaceInv, OrderInv
<1>7. LoopInv' /\ Batched' = Batched
  BY <1>1, <1>3 DEF loopVars, LoopInv, Batched
<1>8. /\ ready' \in SUBSET Task
      /\ \A u \in ready \ ready' : u \in processedNodes
      /\ \A u \in ready' : u \in ready \/ (u \in wfTasks /\ parents[u] \subseteq processedNodes)
      /\ \A c \in Children(t) : parents[c] \subseteq processedNodes => c \in ready' \cup processedNodes
  <2> DEFINE r == Told(t, ready, processedNodes)
             p == ParentOf(t)
  <2>1. ready \in SUBSET Task
    BY <1>1 DEF TypeInv
  <2>2. /\ r \in SUBSET Task /\ ready \ {t} \subseteq r
        /\ \A u \in r : u \in ready \/ (u \in Children(t) /\ parents[u] \subseteq processedNodes)
        /\ \A c \in Children(t) : parents[c] \subseteq processedNodes => c \in r
    BY <2>1, ToldFacts
  <2>3. /\ Told(p, r, processedNodes) \in SUBSET Task /\ r \ {p} \subseteq Told(p, r, processedNodes)
        /\ \A u \in Told(p, r, processedNodes) :
              u \in r \/ (u \in Children(p) /\ parents[u] \subseteq processedNodes)
    <3> HIDE DEF r, p
    <3> QED
      BY <2>2, ToldFacts
  <2>4. \A c : c \in Children(t) \cup Children(p) => c \in wfTasks
    BY <1>1, ChildOfWorkflow
  <2>5. ready' = IF ParentSettled(t, stats') THEN Told(p, r, processedNodes) ELSE r
    BY <1>2 DEF TaskCompleted
  <2>6. ParentSettled(t, stats') => p \in processedNodes
    BY <1>1, <1>6, ParentFacts DEF ParentSettled
  <2> HIDE DEF r, p
  <2>7. CASE ParentSettled(t, stats')
    BY <1>6, <2>2, <2>3, <2>4, <2>5, <2>6, <2>7
  <2>8. CASE ~ParentSettled(t, stats')
    BY <1>6, <2>2, <2>4, <2>5, <2>8
  <2> QED
    BY <2>7, <2>8
<1>9. /\ taskStatus' \in [Task -> Status]
      /\ \A d \in Template : taskStatus'[d] = taskStatus[d]
  BY <1>1, <1>2, <1>6, ParentStatusFacts DEF TaskCompleted
<1>10. stats' = Counted(t, ok) /\ stats' \in [Task -> Stats]
  BY <1>1, <1>2, <1>6, CountedTypes DEF TaskCompleted
<1>11. TypeInv'
  BY <1>1, <1>3, <1>4, <1>8, <1>9, <1>10
     DEF TypeInv, Runs, RunTypes, dagVars, loopVars, rowVars, ctlVars
<1>12. \A d \in Template : taskStatus'[d] = "SUCCESS" => d \in processedNodes
  BY <1>1, <1>9 DEF ResultInv
<1>13. TaskStep(t, {g}, {h})
  BY <1>3, <1>4, <1>5, <1>6, <1>7, <1>8, <1>9, <1>12 DEF TaskStep, dagVars
<1>14. StatsInv'
  BY <1>1, <1>3, <1>6, <1>10, <1>13, StatsCounted
<1> QED
  BY <1>7, <1>11, <1>13, <1>14, StepInv

-----------------------------------------------------------------------------
(* Subtasks are added.                                                     *)

\* The stages before and after the addition.
LEMMA AddMoves ==
  ASSUME V1IInv, NEW t \in Task, NEW g \in {"job", "marked"},
         NEW h, h = (IF g = "job" THEN "jobAdded" ELSE "handlerAdded"), Move(t, g, h)
  PROVE  /\ Runs(t, {g}, {h}) /\ {g} \in SUBSET Stage /\ {h} \in SUBSET Stage
         /\ \A G \in {Stage, Job, Mark, Telling, Stage \ Job, {"marked", "handlerAdded", "told"}} :
              Running(G) \subseteq Running(G)' /\ (G # Mark /\ G # Telling => Running(G)' \subseteq Running(G))
         /\ t \in wfTasks /\ t \notin Template /\ t \in Running(Telling)'
         /\ h \in Job => g \in Job
         /\ h \notin Job => t \in processedNodes
<1>1. TypeInv /\ PlaceInv /\ runs \in RunTypes
  BY DEF V1IInv, TypeInv, RunTypes
<1>2. Runs(t, {g}, {h}) /\ {g} \in SUBSET Stage /\ {h} \in SUBSET Stage
  <2>1. g \in Stage /\ h \in Stage /\ g # h
    BY DEF Stage
  <2> QED
    BY <1>1, <2>1, MoveRuns
<1>3. ASSUME NEW G \in {Stage, Job, Mark, Telling, Stage \ Job, {"marked", "handlerAdded", "told"}}
      PROVE  /\ Running(G) \subseteq Running(G)'
             /\ G # Mark /\ G # Telling => Running(G)' \subseteq Running(G)
  <2>1. /\ G \in SUBSET Stage /\ (g \in G => h \in G)
        /\ G # Mark /\ G # Telling => (h \in G => g \in G)
    BY DEF Stage, Job, Mark, Telling
  <2>2. /\ Running(G)' \ {t} = Running(G) \ {t}
        /\ g \notin G => Running(G) \subseteq Running(G)'
        /\ h \notin G => Running(G)' \subseteq Running(G)
        /\ g \in G => t \in Running(G)
        /\ h \in G => t \in Running(G)'
    BY <1>2, <2>1 DEF Runs
  <2> QED
    BY <2>1, <2>2
<1>4. t \in Running(Stage) /\ t \in Running(Telling)'
  <2>1. /\ Stage \in SUBSET Stage /\ Telling \in SUBSET Stage
        /\ g \in Stage /\ h \in Telling
    BY DEF Stage, Telling
  <2> QED
    BY <1>2, <2>1 DEF Runs
<1>5. h \in Job => g \in Job
  BY DEF Job
<1>6. h \notin Job => t \in processedNodes
  <2>1. h \notin Job => g \in Stage \ Job /\ (Stage \ Job) \in SUBSET Stage
    BY DEF Job, Stage
  <2> QED
    BY <1>1, <1>2, <2>1 DEF Runs, PlaceInv
<1> QED
  BY <1>1, <1>2, <1>3, <1>4, <1>5, <1>6 DEF PlaceInv

\* The statistics of the parent count what is added.
LEMMA StatsAdded ==
  ASSUME V1IInv, NEW t \in Task, NEW S \in SUBSET Sub, S \cap wfTasks = {},
         AddSubTask(t, S), processedNodes' = processedNodes, errorKey' = errorKey,
         Running(Mark) \subseteq Running(Mark)'
  PROVE  stats' \in [Task -> Stats] /\ StatsInv'
<1>1. TypeInv /\ StatsInv /\ EdgeInv /\ PlaceInv /\ stats \in [Task -> Stats] /\ S \subseteq Task
  BY DEF V1IInv, TypeInv, Task
<1>2. IsFiniteSet(S) /\ Cardinality(S) \in Nat
  BY <1>1, V1Assumption, FS_Subset, FS_CardinalityType
<1>3. /\ parents' \in [Task -> SUBSET Task]
      /\ \A u \in Task : parents'[u] = IF u \in S THEN {t} ELSE parents[u]
  BY <1>1 DEF AddSubTask, TypeInv
<1>4. \A u \in S : u \in Sub /\ u \in Task /\ parents[u] = {} /\ u \notin processedNodes
  BY <1>1 DEF EdgeInv, PlaceInv
<1>5. /\ stats' \in [Task -> Stats]
      /\ \A p \in Task : /\ stats'[p].completed = stats[p].completed
                         /\ stats'[p].success = stats[p].success
                         /\ stats'[p].total = stats[p].total + (IF p = t THEN Cardinality(S) ELSE 0)
  <2> DEFINE n == stats[t].total + Cardinality(S)
             st == [stats[t] EXCEPT !.total = n]
  <2>1. n \in Nat /\ stats[t] \in Stats
    BY <1>1, <1>2 DEF Stats
  <2>2. stats' = [stats EXCEPT ![t] = st]
    BY <1>1 DEF AddSubTask
  <2>3. /\ \A p \in Task : stats[p] \in Stats /\ stats[p].total \in Nat
        /\ n = stats[t].total + Cardinality(S)
    BY <1>1 DEF Stats
  <2> HIDE DEF n
  <2>4. st \in Stats /\ st.total = n /\ st.completed = stats[t].completed /\ st.success = stats[t].success
    BY <2>1 DEF Stats
  <2> HIDE DEF st
  <2>5. stats' \in [Task -> Stats] /\ stats'[t] = st /\ \A p \in Task \ {t} : stats'[p] = stats[p]
    BY <1>1, <2>2, <2>4
  <2>6. \A p \in Task : stats[p].total + 0 = stats[p].total
    BY <2>3
  <2> QED
    BY <2>3, <2>4, <2>5, <2>6
<1>6. ASSUME NEW p \in Task
      PROVE  /\ stats'[p].total = Cardinality(SubTasksOf(p)')
             /\ stats'[p].success <= stats'[p].completed
             /\ stats'[p].completed >= Cardinality(Reported(p)')
  <2>1. SubTasksOf(p)' = SubTasksOf(p) \cup (IF p = t THEN S ELSE {})
    BY <1>3, <1>4 DEF SubTasksOf, Task
  <2>2. SubTasksOf(p) \cap S = {}
    BY <1>4 DEF SubTasksOf
  <2>3. Cardinality(SubTasksOf(p)') = Cardinality(SubTasksOf(p)) + (IF p = t THEN Cardinality(S) ELSE 0)
    <3>1. IsFiniteSet(SubTasksOf(p)) /\ Cardinality(SubTasksOf(p)) \in Nat
      BY ReportedFinite, FS_CardinalityType
    <3>2. CASE p = t
      <4>1. Cardinality(SubTasksOf(p) \cup S) =
              Cardinality(SubTasksOf(p)) + Cardinality(S) - Cardinality(SubTasksOf(p) \cap S)
        BY <1>2, <3>1, FS_Union
      <4>2. Cardinality(SubTasksOf(p) \cap S) = 0
        BY <2>2, FS_EmptySet
      <4>3. SubTasksOf(p)' = SubTasksOf(p) \cup S
        BY <2>1, <3>2
      <4> QED
        BY <1>2, <3>1, <3>2, <4>1, <4>2, <4>3
    <3>3. CASE p # t
      <4>1. SubTasksOf(p)' = SubTasksOf(p)
        BY <2>1, <3>3
      <4> QED
        BY <3>1, <3>3, <4>1
    <3> QED
      BY <3>2, <3>3
  <2>4. Reported(p)' \subseteq Reported(p)
    <3> SUFFICES ASSUME NEW s \in Reported(p)' PROVE s \in Reported(p)
      OBVIOUS
    <3>1. s \in SubTasksOf(p)' /\ s \in processedNodes /\ s \notin errorKey /\ s \in Sub /\ ~RunsIn(s, Mark)'
      BY DEF Reported, SubTasksOf
    <3>2. s \in SubTasksOf(p)
      BY <1>4, <2>1, <3>1
    <3>3. s \notin Running(Mark)
      BY <3>1 DEF Running
    <3> QED
      BY <3>1, <3>2, <3>3 DEF Reported, Running, Task
  <2>5. /\ Cardinality(Reported(p)') <= Cardinality(Reported(p))
        /\ Cardinality(Reported(p)') \in Nat /\ Cardinality(Reported(p)) \in Nat
    BY <2>4, ReportedFinite, FS_Subset, FS_CardinalityType
  <2>6. /\ stats[p].total = Cardinality(SubTasksOf(p)) /\ stats[p].success <= stats[p].completed
        /\ stats[p].completed >= Cardinality(Reported(p)) /\ stats[p].completed \in Nat
    BY <1>1 DEF StatsInv, Stats
  <2> QED
    BY <1>5, <2>3, <2>5, <2>6
<1> QED
  BY <1>5, <1>6 DEF StatsInv

\* A run adds its subtasks, and the workflow has them.
LEMMA AddedStep ==
  ASSUME V1IInv, NEW t \in Task, NEW g \in {"job", "marked"},
         NEW h, h = (IF g = "job" THEN "jobAdded" ELSE "handlerAdded"), Move(t, g, h),
         NEW S \in SUBSET Sub, S \cap wfTasks = {}, AddSubTask(t, S),
         UNCHANGED <<processedNodes, errorKey, taskStatus, results, loopVars, restored,
                     rowVars, ctlVars>>
  PROVE  V1IInv'
<1>1. /\ TypeInv /\ EdgeInv /\ PlaceInv /\ OrderInv /\ ResultInv /\ WakeInv
      /\ S \subseteq Task /\ S \cap Main = {} /\ processedNodes \subseteq wfTasks
  BY V1Assumption DEF V1IInv, Task, PlaceInv
<1>2. /\ Runs(t, {g}, {h})
      /\ \A G \in {Stage, Job, Mark, Telling, Stage \ Job, {"marked", "handlerAdded", "told"}} :
           Running(G) \subseteq Running(G)' /\ (G # Mark /\ G # Telling => Running(G)' \subseteq Running(G))
      /\ t \in wfTasks /\ t \notin Template /\ t \in Running(Telling)'
  BY AddMoves
<1>3. /\ Running(Stage)' = Running(Stage) /\ Running(Job)' = Running(Job)
      /\ Running(Stage \ Job)' = Running(Stage \ Job)
      /\ Running({"marked", "handlerAdded", "told"}) \subseteq Running({"marked", "handlerAdded", "told"})'
      /\ Running(Telling) \subseteq Running(Telling)' /\ Running(Mark) \subseteq Running(Mark)'
  <2>1. /\ Stage # Mark /\ Stage # Telling /\ Job # Mark /\ Job # Telling
        /\ Stage \ Job # Mark /\ Stage \ Job # Telling
    <3>1. /\ "job" \in Stage /\ "job" \in Job /\ "job" \notin Mark /\ "job" \notin Telling
          /\ "told" \in Stage \ Job /\ "told" \notin Mark /\ "told" \notin Telling
      BY DEF Stage, Mark, Telling, Job
    <3> QED
      BY <3>1
  <2> QED
    BY <1>2, <2>1
<1>4. /\ wfTasks' = wfTasks \cup S /\ parents' \in [Task -> SUBSET Task]
      /\ \A u \in Task : parents'[u] = IF u \in S THEN {t} ELSE parents[u]
      /\ ready \subseteq ready' /\ ready' \subseteq ready \cup S
      /\ \A u \in ready' : u \in S => t \in processedNodes
  <2>1. \A u \in ready : u \notin S
    BY <1>1 DEF PlaceInv
  <2>2. wfTasks' = wfTasks \cup S
    BY DEF AddSubTask
  <2>3. /\ parents' \in [Task -> SUBSET Task]
        /\ \A u \in Task : parents'[u] = IF u \in S THEN {t} ELSE parents[u]
    BY <1>1 DEF AddSubTask, TypeInv
  <2>4. /\ ready \subseteq ready' /\ ready' \subseteq ready \cup S
        /\ t \in processedNodes \/ ready' = ready
    BY DEF AddSubTask
  <2> QED
    BY <2>1, <2>2, <2>3, <2>4
<1>5. stats' \in [Task -> Stats] /\ StatsInv'
  BY <1>3, StatsAdded
<1>6. Batched' = Batched /\ loop' = loop /\ recovered' = recovered
  BY DEF loopVars, Batched
<1>7. TypeInv'
  BY <1>1, <1>2, <1>4, <1>5, <1>6 DEF TypeInv, Runs, RunTypes, rowVars, ctlVars
<1>8. EdgeInv'
  <2>1. ASSUME NEW s \in Sub
        PROVE  IF s \in wfTasks' THEN \E p \in Task \ Template : parents'[s] = {p}
                                 ELSE parents'[s] = {}
    BY <1>1, <1>2, <1>4 DEF EdgeInv, Task
  <2>2. \A u \in Main : parents'[u] = Deps[u]
    BY <1>1, <1>4 DEF EdgeInv, Task
  <2> QED
    BY <1>1, <1>4, <2>1, <2>2 DEF EdgeInv
<1>9. PlaceInv'
  BY <1>1, <1>3, <1>4, <1>6 DEF PlaceInv
<1>10. OrderInv'
  <2>1. \A u \in ready \cup Batched \cup Running(Stage) :
           u \in Task /\ u \notin S /\ parents'[u] \subseteq processedNodes
    BY <1>1, <1>4 DEF OrderInv, PlaceInv, TypeInv
  <2>2. \A u \in ready' : parents'[u] \subseteq processedNodes
    BY <1>1, <1>4, <2>1
  <2>3. \A u \in Batched' \cup Running(Job)' : Needs[u] \subseteq results
    BY <1>1, <1>3, <1>6 DEF OrderInv
  <2> QED
    BY <1>3, <1>6, <2>1, <2>2, <2>3 DEF OrderInv
<1>11. ResultInv'
  <2>1. \A d \in Task : Succeeded(d) => Succeeded(d)'
    <3>1. \A d \in Task : d \in Running({"marked", "handlerAdded", "told"}) <=>
                            RunsIn(d, {"marked", "handlerAdded", "told"})
      BY DEF Running
    <3>2. \A d \in Task : d \in Running({"marked", "handlerAdded", "told"})' <=>
                            RunsIn(d, {"marked", "handlerAdded", "told"})'
      BY DEF Running
    <3> QED
      BY <1>3, <3>1, <3>2 DEF Succeeded
  <2>2. \A d \in processedNodes : d \in Task
    BY <1>1 DEF TypeInv
  <2>3. \A u \in Main : \A d \in Deps[u] : d \in Task
    BY V1Assumption DEF Task
  <2> QED
    BY <1>1, <1>3, <2>1, <2>2, <2>3 DEF ResultInv
<1>12. WakeInv'
  <2> SUFFICES ASSUME ~restored, NEW u \in wfTasks' \ processedNodes,
                      parents'[u] \subseteq processedNodes
               PROVE  Woken(u)'
    BY DEF WakeInv
  <2>1. CASE u \in S
    BY <1>1, <1>2, <1>4, <2>1 DEF Woken
  <2>2. CASE u \notin S
    <3>1. u \in wfTasks /\ u \in Task /\ parents'[u] = parents[u]
      BY <1>1, <1>4, <2>2 DEF TypeInv
    <3>2. Woken(u)
      BY <1>1, <3>1 DEF WakeInv
    <3> QED
      BY <1>3, <1>4, <1>6, <3>1, <3>2 DEF Woken
  <2> QED
    BY <2>1, <2>2
<1> QED
  BY <1>5, <1>7, <1>8, <1>9, <1>10, <1>11, <1>12 DEF V1IInv

\* A run adds its subtasks, or nothing when one of the names is in use.
LEMMA AddSubTasksStep ==
  ASSUME V1IInv, NEW t \in Task, NEW g \in Stage, AddSubTasks(t, g)
  PROVE  V1IInv'
<1> DEFINE h == IF g = "job" THEN "jobAdded" ELSE "handlerAdded"
           S == ToSet(IF g = "job" THEN JobBatch[t] ELSE HandlerBatch[t])
<1>1. /\ g \in {"job", "marked"} /\ Move(t, g, h)
      /\ UNCHANGED <<processedNodes, errorKey, taskStatus, results, loopVars, restored,
                     rowVars, ctlVars>>
      /\ IF S \cap wfTasks # {} THEN UNCHANGED <<wfTasks, parents, stats, ready>>
                                ELSE AddSubTask(t, S)
  BY DEF AddSubTasks
<1>2. S \in SUBSET Sub
  <2>1. \A sq \in Seq(Sub) : ToSet(sq) \in SUBSET Sub
    BY DEF ToSet
  <2> QED
    BY <2>1, V1Assumption
<1>3. h = (IF g = "job" THEN "jobAdded" ELSE "handlerAdded")
  OBVIOUS
<1> HIDE DEF h, S
<1>4. CASE S \cap wfTasks = {}
  BY <1>1, <1>2, <1>3, <1>4, AddedStep
<1>5. CASE S \cap wfTasks # {}
  <2>1. /\ TypeInv /\ PlaceInv /\ LoopInv /\ StatsInv /\ ResultInv
    BY LoopsOfInv DEF V1IInv
  <2>2. /\ Runs(t, {g}, {h}) /\ {g} \in SUBSET Stage /\ {h} \in SUBSET Stage
        /\ t \in wfTasks /\ t \notin Template /\ t \in Running(Telling)'
        /\ h \notin Job => t \in processedNodes
    BY <1>1, <1>3, AddMoves
  <2>3. /\ UNCHANGED <<processedNodes, errorKey, taskStatus, results, loopVars, restored,
                       rowVars, ctlVars, wfTasks, parents, stats, ready>>
    BY <1>1, <1>5
  <2>4. LoopInv' /\ Batched' = Batched
    BY <2>1, <2>3 DEF loopVars, LoopInv, Batched
  <2>5. TypeInv'
    BY <2>1, <2>2, <2>3 DEF TypeInv, Runs, RunTypes, loopVars, rowVars, ctlVars
  <2>6. /\ h \in Job => g = "job"
        /\ g \in Job => h \in Job
        /\ g = "marked" => h \in Mark /\ h \in {"marked", "handlerAdded", "told"}
        /\ g # "marked" => g \notin Mark /\ g \notin {"marked", "handlerAdded", "told"}
    BY <1>1, <1>3 DEF Job, Mark
  <2>7. \A d \in Template : taskStatus[d] = "SUCCESS" => d \in processedNodes
    BY <2>1 DEF ResultInv
  <2>8. TaskStep(t, {g}, {h})
    BY <2>2, <2>3, <2>4, <2>6, <2>7 DEF TaskStep
  <2>9. StatsInv'
    BY <2>1, <2>3, <2>6, <2>8, StatsKept
  <2> QED
    BY <2>4, <2>5, <2>8, <2>9, StepInv
<1> QED
  BY <1>4, <1>5

-----------------------------------------------------------------------------
(* The theorems.                                                           *)

\* A fresh instance, or one that a breakpoint restores.
LEMMA InitInv ==
  ASSUME V1Init
  PROVE  V1IInv
<1>1. PICK done \in Breakpoints :
        /\ RestoreFromBreakpoint(done)
        /\ errorKey = {}
        /\ taskStatus = [t \in Task |-> "PENDING"]
        /\ parents = [t \in Task |-> IF t \in Main THEN Deps[t] ELSE {}]
        /\ wfTasks = Main
        /\ stats = [t \in Task |-> [total |-> 0, completed |-> 0, success |-> 0]]
        /\ runs = [t \in Task |-> [g \in Stage |-> 0]]
        /\ loop = [i \in Loop |-> [pc |-> IF i = 1 THEN "top" ELSE "unborn", batch |-> {}]]
        /\ recovered = 0 /\ status = "Running"
        /\ controlChan = <<>> /\ cpc = "select"
  BY DEF V1Init
<1>2. /\ done \subseteq Main /\ processedNodes = done /\ results = done
      /\ restored = (done # {}) /\ ready = {t \in Main \ done : Deps[t] = {}}
  BY <1>1, V1Assumption DEF RestoreFromBreakpoint, initReadyTasksSet
<1>3. /\ Main \subseteq Task /\ Sub \subseteq Task /\ Main \cap Sub = {}
      /\ \A t \in Task : Deps[t] \subseteq Main
  BY V1Assumption DEF Task
<1>4. Batched = {} /\ \A G \in SUBSET Stage : Running(G) = {}
  <2>1. Batched = {}
    BY <1>1 DEF Batched
  <2>2. \A t \in Task, g \in Stage : runs[t][g] = 0
    BY <1>1
  <2>3. \A G \in SUBSET Stage, t \in Task : ~RunsIn(t, G)
    BY <2>2 DEF RunsIn
  <2> QED
    BY <2>1, <2>3 DEF Running
<1>5. /\ Stage \in SUBSET Stage /\ Job \in SUBSET Stage /\ (Stage \ Job) \in SUBSET Stage
  BY DEF Job, Stage
<1>6. TypeInv
  <2>1. restored \in BOOLEAN /\ recovered \in 0 .. MaxRecoveries[restored]
    <3>1. restored \in BOOLEAN
      BY <1>2
    <3>2. MaxRecoveries[restored] \in Nat
      BY <3>1, V1Assumption
    <3> QED
      BY <1>1, <3>1, <3>2
  <2>2. loop \in [Loop -> LoopState]
    BY <1>1 DEF LoopState
  <2>3. runs \in [Task -> [Stage -> Nat]] /\ stats \in [Task -> Stats]
    BY <1>1 DEF Stats
  <2>4. parents \in [Task -> SUBSET Task] /\ taskStatus \in [Task -> Status]
    BY <1>1, <1>3 DEF Status
  <2>5. controlChan \in Seq(Signal)
    BY <1>1
  <2>6. /\ ready \in SUBSET Task /\ processedNodes \in SUBSET Task
        /\ errorKey \in SUBSET Task /\ results \in SUBSET Task /\ wfTasks \in SUBSET Task
    BY <1>1, <1>2, <1>3
  <2> QED
    BY <1>1, <2>1, <2>2, <2>3, <2>4, <2>5, <2>6 DEF TypeInv, InstanceStatus
<1>7. EdgeInv
  BY <1>1, <1>3 DEF EdgeInv
<1>8. PlaceInv
  <2>1. \A i \in Loop : loop[i].batch = {}
    BY <1>1
  <2> QED
    BY <1>1, <1>2, <1>4, <1>5, <2>1 DEF PlaceInv
<1>9. OrderInv
  <2>1. \A t \in ready : parents[t] = {}
    BY <1>1, <1>2, <1>3
  <2> QED
    BY <1>4, <1>5, <2>1 DEF OrderInv
<1>10. ResultInv
  <2>1. \A d \in processedNodes : Succeeded(d)
    BY <1>2 DEF Succeeded
  <2>2. \A d \in Template : taskStatus[d] # "SUCCESS"
    BY <1>1, <1>3, V1Assumption
  <2> QED
    BY <1>4, <1>5, <2>1, <2>2 DEF ResultInv
<1>11. StatsInv
  <2> SUFFICES ASSUME NEW p \in Task
               PROVE  /\ stats[p].total = Cardinality(SubTasksOf(p))
                      /\ stats[p].success <= stats[p].completed
                      /\ stats[p].completed >= Cardinality(Reported(p))
    BY DEF StatsInv
  <2>1. SubTasksOf(p) = {} /\ Reported(p) = {}
    BY <1>1, <1>3 DEF SubTasksOf, Reported
  <2>2. stats[p].total = 0 /\ stats[p].success = 0 /\ stats[p].completed = 0
    BY <1>1
  <2> QED
    BY <2>1, <2>2, FS_EmptySet
<1>12. WakeInv
  <2>1. ~restored => \A t \in wfTasks : parents[t] \subseteq processedNodes => t \in ready
    BY <1>1, <1>2, <1>3
  <2> QED
    BY <2>1 DEF WakeInv, Woken
<1> QED
  BY <1>6, <1>7, <1>8, <1>9, <1>10, <1>11, <1>12 DEF V1IInv

\* No step breaks the invariant.
LEMMA NextInv ==
  ASSUME V1IInv, [V1Next]_v1Vars
  PROVE  V1IInv'
<1>1. ASSUME NEW i \in Loop, LoopStep(i)
      PROVE  V1IInv'
  BY <1>1, LoopTakesSignalStep, LoopPollStep, LoopIdleStep, LoopCheckStep, LoopSaveStep,
     LoopWorkStep DEF LoopStep
<1>2. ASSUME NEW t \in Task, RunStep(t)
      PROVE  V1IInv'
  <2>1. ASSUME NEW g \in Stage,
               AddSubTasks(t, g) \/ RunSucceeds(t, g) \/ RunTells(t, g) \/ RunFails(t, g)
        PROVE  V1IInv'
    BY <2>1, AddSubTasksStep, RunSucceedsStep, RunTellsStep, RunFailsStep
  <2> QED
    BY <1>2, <2>1, RunEndsStep, RunFailsInstanceStep DEF RunStep
<1>3. CASE SendSignal \/ ControlReceive \/ ControlStore \/ ControlExit
  BY <1>3, ControlStep
<1>4. CASE UNCHANGED v1Vars
  <2>1. Quiet /\ ready' = ready /\ loop' = loop
    BY <1>4 DEF v1Vars, taskVars, loopVars, Quiet
  <2>2. LoopInv' /\ Batched' = Batched
    BY <2>1, LoopsOfInv DEF V1IInv, LoopInv, Batched
  <2>3. TypeInv'
    BY <1>4 DEF v1Vars, taskVars, loopVars, dagVars, rowVars, ctlVars, V1IInv, TypeInv
  <2> QED
    BY <2>1, <2>2, <2>3, QuietStep
<1> QED
  BY <1>1, <1>2, <1>3, <1>4 DEF V1Next

\* The invariant holds.
THEOREM InvariantHolds == V1Spec => []V1IInv
BY InitInv, NextInv, PTL DEF V1Spec

\* The statistics of a parent (updateParentSubTaskStats) count every subtask it
\* has, and, once or more often, each that is processed and has told it.
THEOREM StatisticsHold == V1Spec => []V1Inv
<1>1. V1IInv => V1Inv
  <2> SUFFICES ASSUME V1IInv PROVE V1Inv
    OBVIOUS
  <2>1. TypeInv /\ StatsInv
    BY DEF V1IInv
  <2>2. \A t \in Task, g \in Stage : runs[t][g] \in Nat
    BY <2>1 DEF TypeInv
  <2>3. \A i \in Loop : loop[i].batch \subseteq Task
    BY <2>1 DEF TypeInv, LoopState
  <2>4. V1TypeOK
    BY <2>1, <2>2, <2>3 DEF V1TypeOK, TypeInv, Status, InstanceStatus
  <2>5. StatsCover
    BY <2>1 DEF StatsInv, StatsCover, SubTasksOf, Reported, Mark
  <2> QED
    BY <2>4, <2>5 DEF V1Inv
<1> QED
  BY <1>1, InvariantHolds, PTL

\* The callbacks of two parents race to make a task ready, with no lock around
\* the mark and the check (onTaskCompleted): none is forgotten.
THEOREM WakeupsHold == V1Spec => []NoWakeupLost
<1>1. V1IInv => NoWakeupLost
  <2> SUFFICES ASSUME V1IInv, ~restored, NEW t \in wfTasks \ processedNodes,
                      parents[t] \subseteq processedNodes
               PROVE  \/ t \in ready \/ \E i \in Loop : t \in loop[i].batch
                      \/ RunsIn(t, {"job", "jobAdded"})
                      \/ \E p \in parents[t] : RunsIn(p, Stage \ {"job", "told", "failedTold"})
    BY DEF NoWakeupLost
  <2>1. Woken(t)
    BY DEF V1IInv, WakeInv
  <2> QED
    BY <2>1 DEF Woken, Batched, Running, Job, Telling
<1> QED
  BY <1>1, InvariantHolds, PTL

\* However often a task is submitted, its dependencies have succeeded before,
\* and the results it requires are there (getAvailableTasks).  A subtask waits
\* for its parent alone, so that it may not declare others.
THEOREM SuccessFirst ==
  ASSUME \A s \in Sub : Deps[s] = {}
  PROVE  V1Spec => []RunsAfterSuccess
<1>1. V1IInv => RunsAfterSuccess
  <2> SUFFICES ASSUME V1IInv, NEW t \in Task, RunsIn(t, {"job", "jobAdded"})
               PROVE  /\ Needs[t] \subseteq results
                      /\ \A d \in Deps[t] : \/ d \in Template /\ taskStatus[d] = "SUCCESS"
                                            \/ d \in results
                                            \/ RunsIn(d, {"marked", "handlerAdded", "told"})
    BY DEF RunsAfterSuccess
  <2>1. t \in Running(Job)
    BY DEF Running, Job
  <2>2. Needs[t] \subseteq results
    BY <2>1 DEF V1IInv, OrderInv
  <2>3. \A d \in Deps[t] : Succeeded(d)
    BY <2>1 DEF V1IInv, ResultInv, Task
  <2> QED
    BY <2>2, <2>3 DEF Succeeded
<1> QED
  BY <1>1, InvariantHolds, PTL

=============================================================================
