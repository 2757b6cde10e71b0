------------------------ MODULE InstanceManagerV2_proofs ------------------------
(***************************************************************************)
(* What holds of every instance that WorkflowInstanceManagerV2 runs, for   *)
(* every workflow, every batch of subtasks and every capacity:             *)
(*   CountersHold       V2Inv, the counters that hold a level              *)
(*   OutcomeHolds       OutcomeIsWhole, status, rows and transaction       *)
(*   LevelsImplemented  the levels are run as LevelExecution says          *)
(* All three follow from V2IInv, which says where a task can be on its way *)
(* from a level's queue round to the queue manager, what an event in a     *)
(* channel implies, and which subtasks are still counted, tracked or       *)
(* pending.  Lemmas come by the part of the state they are about; the last *)
(* ones of each part have a handler in their ASSUME.                       *)
(***************************************************************************)
EXTENDS InstanceManagerV2, Dag_proofs, FiniteSetTheorems, SequenceTheorems, TLAPS

LastLevel == Len(Levels)

-----------------------------------------------------------------------------
(* The inductive invariant.                                                *)

Queue == [queues: [1 .. LastLevel -> SUBSET Task], running: [1 .. LastLevel -> Int],
          level: 1 .. LastLevel + 1, counts: [1 .. LastLevel -> Int], templates: Int]
Tracker == [ids: SUBSET Sub, completed: Nat, ok: SUBSET Sub]
Signal == {"Pause", "Resume", "Terminate"}
SagaStep == [task: Task, status: {"Success", "Failed"}, compensable: BOOLEAN]

\* Where a task can be: in a level's queue, or on its way round.
Waiting  == {t \in Task : \E l \in 1 .. LastLevel : t \in q.queues[l]}
Active   == {t \in Task : exec[t] # "none"}
Reported == {t \in Task : InChan(taskStatusChan, t)}
HeldTask == {t \in Task : held # None /\ held.task = t}
Passed   == {t \in Task : InChan(queueUpdateChan, t)}
Away     == toSubmit \cup Active \cup Reported \cup HeldTask \cup Passed

\* Types of what the queue manager alone changes, and of the channels.
QueueTypes ==
  /\ q \in Queue
  /\ processedNodes \in SUBSET Task /\ errorKey \in SUBSET Task
  /\ taskStatus \in [Task -> {"PENDING", "SUCCESS", "FAILED"}]
  /\ retryCount \in [Task -> Nat] /\ \A t \in Task : retryCount[t] <= RetryCount[t]
  /\ originalLevel \in [Task -> 1 .. LastLevel + 1 \cup {None}]
  /\ decremented \in SUBSET Template
  /\ pendingSubTasks \in [Task -> SUBSET Sub]
  /\ parentOf \in [Sub -> Task \cup {None}]
  /\ tracker \in [Task -> Tracker]
  /\ contextData \in [Task -> {None} \cup SUBSET Sub]
FlowTypes ==
  /\ wfTasks \in SUBSET Sub
  /\ taskStatusChan \in Seq(Event) /\ Len(taskStatusChan) <= EventCap
  /\ queueUpdateChan \in Seq(Event) /\ Len(queueUpdateChan) <= EventCap
  /\ addSubTaskChan \in Seq(Caller) /\ Len(addSubTaskChan) <= EventCap
  /\ held \in Event \cup {None}
  /\ statsWaiting \in Nat /\ totalTasks \in Nat /\ finishedTasks \in Nat
  /\ toSubmit \in SUBSET Task /\ exec \in [Task -> Stage]
ControlTypes ==
  /\ controlChan \in Seq(Signal)
  /\ cpc \in {"select", "returned"} \cup Signal
  /\ qpc \in {"select", "check", "advance", "drain", "decide", "save", "store", "returned"}
  /\ finalStatus \in {None, "Success", "Failed"}
  /\ status \in {"Running", "Paused", "Terminated", "Success", "Failed"}
  /\ stored \in {"Running", "Paused", "Terminated", "Success", "Failed"}
  /\ saga.state \in SagaState /\ saga \in [state: SagaState, steps: Seq(SagaStep)]
  /\ compensating \in SUBSET Nat /\ compensated \in Seq(Nat)
TypeInv == QueueTypes /\ FlowTypes /\ ControlTypes

\* A task waits at its own level; what is below the level is over, what is
\* above has not begun.
LevelInv ==
  \A l \in 1 .. LastLevel :
    /\ \A t \in q.queues[l] : originalLevel[t] = l
    /\ l < q.level => q.queues[l] = {} /\ q.running[l] = 0
    /\ l > q.level => /\ q.queues[l] = Levels[l] /\ q.running[l] = 0
                      /\ q.counts[l] = Cardinality(Levels[l] \cap Template)

\* Levels of tasks: only those of the current level are on their way.
OrigInv ==
  /\ \A t \in Main : originalLevel[t] \in 1 .. LastLevel /\ t \in Levels[originalLevel[t]]
  /\ \A s \in Sub : originalLevel[s] # None => originalLevel[s] <= q.level
  /\ \A t \in Away : originalLevel[t] = q.level /\ q.level <= LastLevel

\* The tasks of the events in a channel are different.
Distinct(ch) == \A i, j \in DOMAIN ch : ch[i].task = ch[j].task => i = j

\* A task is in one place at most.
TokenInv ==
  /\ Distinct(taskStatusChan) /\ Distinct(queueUpdateChan)
  /\ Waiting \cap Away = {}
  /\ toSubmit \cap (Active \cup Reported \cup HeldTask \cup Passed) = {}
  /\ Active \cap (Reported \cup HeldTask \cup Passed) = {}
  /\ Reported \cap (HeldTask \cup Passed) = {}
  /\ HeldTask \cap Passed = {}

\* runningCounts counts what is on its way, and what was lost on it.
Ended == {t \in processedNodes : taskStatus[t] = "SUCCESS" \/ t \in errorKey}
Counted(l) == {t \in Task : /\ originalLevel[t] = l
                            /\ t \in Away \/ t \notin Waiting \cup Ended}
CountInv == \A l \in 1 .. LastLevel : q.running[l] >= Cardinality(Counted(l))

\* templateTaskCount; a level is not left before its templates are counted.
TemplInv ==
  /\ q.level <= LastLevel =>
       q.templates = Cardinality({t \in Template \ decremented : originalLevel[t] = q.level})
  /\ \A t \in Template : /\ originalLevel[t] < q.level => t \in decremented
                         /\ t \in decremented => originalLevel[t] <= q.level

\* Batches: those on their way belong to a task that has started, and are not
\* handled; a subtask that is handled is in one that is handled as a whole.
Started(p) == originalLevel[p] # None /\ originalLevel[p] <= q.level
Handled(k) == Batch(k) # {} /\ \A s \in Batch(k) : parentOf[s] = k[2]
AddInv ==
  /\ \A i \in DOMAIN addSubTaskChan :
       LET k == addSubTaskChan[i] IN
       /\ Batch(k) # {} /\ Batch(k) \subseteq wfTasks /\ Started(k[2])
       /\ \A s \in Batch(k) : parentOf[s] = None
  /\ \A i, j \in DOMAIN addSubTaskChan : addSubTaskChan[i] = addSubTaskChan[j] => i = j
SubInv ==
  \A s \in Sub :
    /\ parentOf[s] # None =>
         /\ s \in wfTasks /\ Started(parentOf[s])
         /\ \E k \in Caller : k[2] = parentOf[s] /\ s \in Batch(k) /\ Handled(k)
         /\ originalLevel[s] = None => s \in pendingSubTasks[parentOf[s]]
    /\ parentOf[s] = None => originalLevel[s] = None
    /\ s \in processedNodes => originalLevel[s] # None

\* The trackers: a subtask counts once, when it is over.
Over(p) == {s \in Sub : parentOf[s] = p /\ s \in processedNodes /\ s \notin Away \cup Waiting}
TrackInv ==
  \A p \in Task :
    /\ tracker[p].ids = {s \in Sub : parentOf[s] = p}
    /\ tracker[p].completed <= Cardinality(Over(p))

\* Subtasks wait for a parent of the current level, or for other tasks.
DepPending(p) == \E u \in Sub : parentOf[u] = p /\ Deps[u] # {}
PendInv ==
  \A p \in Task :
    /\ \A s \in pendingSubTasks[p] : parentOf[s] = p /\ originalLevel[s] = None
    /\ pendingSubTasks[p] # {} => originalLevel[p] = q.level \/ DepPending(p)
    /\ p \in decremented => \E k \in Caller : k[2] = p /\ Handled(k)

\* What an event, and the place of a task, say of its status.
EventOK(e) ==
  IF e.ok THEN taskStatus[e.task] = "SUCCESS" /\ e.task \notin processedNodes
          ELSE taskStatus[e.task] = "FAILED" /\ e.task \in errorKey
EventInv ==
  /\ \A i \in DOMAIN taskStatusChan : EventOK(taskStatusChan[i])
  /\ \A i \in DOMAIN queueUpdateChan : EventOK(queueUpdateChan[i])
  /\ held # None => EventOK(held)
  /\ \A t \in Task :
       /\ exec[t] \in {"handler", "handlerAdded"} => EventOK([task |-> t, ok |-> TRUE])
       /\ exec[t] = "failed" => EventOK([task |-> t, ok |-> FALSE])
       /\ taskStatus[t] = "SUCCESS" => /\ originalLevel[t] # None
                                       /\ t \notin Waiting \cup toSubmit
                                       /\ exec[t] \notin {"job", "jobAdded"}

\* The end: nothing is decided before the last level is over.
PcInv ==
  /\ qpc \in {"select", "check", "advance", "drain", "decide"} => finalStatus = None
  /\ qpc \in {"save", "store"} => finalStatus # None
  /\ qpc = "decide" \/ finalStatus # None => q.level = LastLevel + 1
  /\ \A s \in Sub : originalLevel[s] = LastLevel + 1 =>
       qpc \in {"select", "advance", "drain", "returned"} /\ finalStatus = None
OutcomeInv ==
  /\ finalStatus = "Success" =>
       \A t \in Main \cup {s \in wfTasks : parentOf[s] # None /\ ~HeldBack(s)} :
         taskStatus[t] = "SUCCESS"
  /\ qpc = "store" \/ stored = "Success" => taskRow = [t \in Main |-> taskStatus[t]]
  /\ stored = "Success" => finalStatus = "Success"

\* The transaction: a task with a successful step has succeeded.
SagaInv ==
  /\ finalStatus = None => saga.state = "Pending" /\ compensating = {} /\ compensated = <<>>
  /\ \A i \in DOMAIN saga.steps :
       LET t == saga.steps[i].task IN
       /\ saga.steps[i].compensable = (t \in Compensable)
       /\ saga.steps[i].status = "Success" =>
            t \in Compensable /\ taskStatus[t] = "SUCCESS" /\ t \notin Active
  /\ SagaEnabled => \A t \in Compensable \ Active : taskStatus[t] = "SUCCESS" =>
       \E i \in DOMAIN saga.steps : saga.steps[i].status = "Success" /\ saga.steps[i].task = t
  /\ compensating \cup ToSet(compensated) \subseteq DOMAIN saga.steps
  /\ SagaEnabled /\ finalStatus = "Success" =>
       saga.state = "Committed" /\ compensating = {} /\ compensated = <<>>
  /\ SagaEnabled /\ finalStatus = "Failed" =>
       compensating \cup ToSet(compensated) = ToCompensate(saga)

V2IInv ==
  /\ TypeInv /\ LevelInv /\ OrigInv /\ TokenInv /\ CountInv /\ TemplInv /\ AddInv /\ SubInv
  /\ TrackInv /\ PendInv /\ EventInv /\ PcInv /\ OutcomeInv /\ SagaInv

-----------------------------------------------------------------------------
(* The levels and the queue.                                               *)

\* The levels of the workflow: at least one, none empty, a partition of Main.
LEMMA LevelFacts ==
  /\ LastLevel \in Nat /\ LastLevel >= 1
  /\ Levels \in [1 .. LastLevel -> SUBSET Main] /\ DOMAIN Levels = 1 .. LastLevel
  /\ \A l \in 1 .. LastLevel : Levels[l] # {}
  /\ \A t \in Main : \E l \in 1 .. LastLevel : t \in Levels[l]
  /\ \A l, m \in 1 .. LastLevel : Levels[l] \cap Levels[m] # {} => l = m
<1>1. IsFiniteSet(Main) /\ ~Cyclic(Main, Deps) /\ \A t \in Main : Deps[t] \subseteq Main
  BY V2Assumption, FS_Subset DEF Task
<1>2. /\ LastLevel \in Nat /\ DOMAIN Levels = 1 .. LastLevel /\ Levels \in Seq(SUBSET Main)
      /\ \A l \in 1 .. LastLevel : Levels[l] # {} /\ Levels[l] \subseteq Main
      /\ \A t \in Main : \E l \in 1 .. LastLevel : t \in Levels[l]
      /\ \A l, m \in 1 .. LastLevel : Levels[l] \cap Levels[m] # {} => l = m
  BY <1>1, LevelsOfDag DEF Levels, LastLevel
<1>3. PICK t \in Main : TRUE
  BY V2Assumption
<1>4. PICK l \in 1 .. LastLevel : t \in Levels[l]
  BY <1>2
<1>5. LastLevel >= 1
  BY <1>2, <1>4
<1>6. Levels \in [1 .. LastLevel -> SUBSET Main]
  BY <1>2
<1> QED
  BY <1>2, <1>5, <1>6

\* What stands still while the levels are run.
LEMMA QueueShape ==
  ASSUME NEW p \in Queue
  PROVE  /\ MaxLevelOf(p) = LastLevel
         /\ DOMAIN p.queues = 1 .. LastLevel /\ DOMAIN p.running = 1 .. LastLevel
         /\ DOMAIN p.counts = 1 .. LastLevel
         /\ p.level \in 1 .. LastLevel + 1 /\ p.level \in Nat /\ p.templates \in Int
         /\ p.queues \in [1 .. LastLevel -> SUBSET Task]
         /\ p.running \in [1 .. LastLevel -> Int] /\ p.counts \in [1 .. LastLevel -> Int]
<1>1. LastLevel \in Nat
  BY LevelFacts
<1>2. p.queues \in [1 .. LastLevel -> SUBSET Task]
  BY DEF Queue
<1>3. Len(p.queues) = LastLevel
  BY <1>1, <1>2
<1> QED
  BY <1>1, <1>2, <1>3 DEF Queue, MaxLevelOf

\* The fields that the operations of the queue set.
LEMMA AddTasksFields ==
  ASSUME NEW p \in Queue, NEW l \in 1 .. LastLevel, NEW S \in SUBSET Task
  PROVE  LET r == AddTasks(p, l, S) IN
         /\ r \in Queue /\ r.queues = [p.queues EXCEPT ![l] = @ \cup S]
         /\ r.running = p.running /\ r.level = p.level /\ r.counts = p.counts
         /\ r.templates = p.templates
BY QueueShape DEF AddTasks, Queue

\* Nothing is added to a level that does not exist.
LEMMA AddTasksBeyond ==
  ASSUME NEW p \in Queue, NEW l, l \notin 1 .. LastLevel, NEW S
  PROVE  AddTasks(p, l, S) = p
BY QueueShape DEF AddTasks

\* What RemoveTask does to the queue.
LEMMA RemoveTaskFields ==
  ASSUME NEW p \in Queue, NEW l \in 1 .. LastLevel, NEW t
  PROVE  LET r == RemoveTask(p, l, t) IN
         /\ r \in Queue /\ r.queues = [p.queues EXCEPT ![l] = @ \ {t}]
         /\ r.running = p.running /\ r.level = p.level /\ r.counts = p.counts
         /\ r.templates = p.templates
BY QueueShape DEF RemoveTask, Queue

\* What PopTasks does to the queue.
LEMMA PopTasksFields ==
  ASSUME NEW p \in Queue, NEW l \in 1 .. LastLevel, NEW S, Cardinality(S) \in Nat
  PROVE  LET r == PopTasks(p, l, S) IN
         /\ r \in Queue /\ r.queues = [p.queues EXCEPT ![l] = @ \ S]
         /\ r.running = [p.running EXCEPT ![l] = @ + Cardinality(S)]
         /\ r.level = p.level /\ r.counts = p.counts /\ r.templates = p.templates
<1> DEFINE Q == [p.queues EXCEPT ![l] = @ \ S]
           R == [p.running EXCEPT ![l] = @ + Cardinality(S)]
<1>0. p.queues \in [1 .. LastLevel -> SUBSET Task] /\ p.running \in [1 .. LastLevel -> Int]
  BY QueueShape
<1>1. Q \in [1 .. LastLevel -> SUBSET Task] /\ R \in [1 .. LastLevel -> Int]
  <2>0. p.running[l] \in Int
    BY <1>0
  <2>1. p.running[l] + Cardinality(S) \in Int
    BY <2>0
  <2> QED
    BY <1>0, <2>1
<1>2. PopTasks(p, l, S) = [p EXCEPT !.queues = Q, !.running = R]
  <2>1. PopTasks(p, l, S) = [p EXCEPT !.queues[l] = @ \ S, !.running[l] = @ + Cardinality(S)]
    BY DEF PopTasks
  <2>2. [p EXCEPT !.queues[l] = @ \ S, !.running[l] = @ + Cardinality(S)]
          = [p EXCEPT !.queues = Q, !.running = R]
    OBVIOUS
  <2> QED
    BY <2>1, <2>2
<1> HIDE DEF Q, R
<1>3. LET r == [p EXCEPT !.queues = Q, !.running = R] IN
      /\ r \in Queue /\ r.queues = Q /\ r.running = R
      /\ r.level = p.level /\ r.counts = p.counts /\ r.templates = p.templates
  BY <1>1 DEF Queue
<1> QED
  BY <1>2, <1>3 DEF Q, R

\* What TaskCompleted does to the queue.
LEMMA TaskCompletedFields ==
  ASSUME NEW p \in Queue, NEW l \in 1 .. LastLevel
  PROVE  LET r == TaskCompleted(p, l) IN
         /\ r \in Queue /\ r.queues = p.queues
         /\ r.running = [p.running EXCEPT ![l] = @ - 1]
         /\ r.level = p.level /\ r.counts = p.counts /\ r.templates = p.templates
<1> DEFINE R == [p.running EXCEPT ![l] = @ - 1]
<1>1. R \in [1 .. LastLevel -> Int]
  <2>1. p.running \in [1 .. LastLevel -> Int]
    BY QueueShape
  <2>2. p.running[l] \in Int
    BY <2>1
  <2>3. p.running[l] - 1 \in Int
    BY <2>2
  <2> QED
    BY <2>1, <2>3
<1>2. TaskCompleted(p, l) = [p EXCEPT !.running = R]
  BY QueueShape DEF TaskCompleted
<1> HIDE DEF R
<1>3. LET r == [p EXCEPT !.running = R] IN
      /\ r \in Queue /\ r.queues = p.queues /\ r.running = R
      /\ r.level = p.level /\ r.counts = p.counts /\ r.templates = p.templates
  BY <1>1 DEF Queue
<1> QED
  BY <1>2, <1>3 DEF R

\* One template less on a level.
LEMMA CountFields ==
  ASSUME NEW p \in Queue, NEW l \in 1 .. LastLevel
  PROVE  LET r == [p EXCEPT !.counts[l] = @ - 1] IN
         /\ r \in Queue /\ r.queues = p.queues /\ r.running = p.running
         /\ r.level = p.level /\ r.templates = p.templates
         /\ r.counts = [p.counts EXCEPT ![l] = @ - 1]
<1> DEFINE C == [p.counts EXCEPT ![l] = @ - 1]
<1>1. C \in [1 .. LastLevel -> Int]
  <2>1. p.counts \in [1 .. LastLevel -> Int]
    BY QueueShape
  <2>2. p.counts[l] \in Int
    BY <2>1
  <2>3. p.counts[l] - 1 \in Int
    BY <2>2
  <2> QED
    BY <2>1, <2>3
<1>2. [p EXCEPT !.counts[l] = @ - 1] = [p EXCEPT !.counts = C]
  OBVIOUS
<1> HIDE DEF C
<1>3. LET r == [p EXCEPT !.counts = C] IN
      /\ r \in Queue /\ r.queues = p.queues /\ r.running = p.running
      /\ r.level = p.level /\ r.counts = C /\ r.templates = p.templates
  BY <1>1 DEF Queue
<1> QED
  BY <1>2, <1>3 DEF C

\* What AdvanceLevel does to the queue, up to and past the last level.
LEMMA AdvanceFields ==
  ASSUME NEW p \in Queue, p.level <= LastLevel
  PROVE  LET r == AdvanceLevel(p) IN
         /\ r \in Queue /\ r.queues = p.queues /\ r.running = p.running
         /\ r.level = p.level + 1 /\ r.counts = p.counts
         /\ r.level <= LastLevel => r.templates = p.counts[r.level]
<1> DEFINE n == IF p.level + 1 \in DOMAIN p.counts THEN p.counts[p.level + 1] ELSE p.templates
<1>1. p.level + 1 \in 1 .. LastLevel + 1 /\ LastLevel \in Nat /\ p.level + 1 > 0
  BY LevelFacts, QueueShape
<1>2. n \in Int /\ (p.level + 1 <= LastLevel => n = p.counts[p.level + 1])
  BY <1>1, QueueShape
<1>3. AdvanceLevel(p) = [p EXCEPT !.level = p.level + 1, !.templates = n]
  BY DEF AdvanceLevel
<1> HIDE DEF n
<1>4. LET r == [p EXCEPT !.level = p.level + 1, !.templates = n] IN
      /\ r \in Queue /\ r.queues = p.queues /\ r.running = p.running
      /\ r.level = p.level + 1 /\ r.counts = p.counts /\ r.templates = n
  BY <1>1, <1>2 DEF Queue
<1> QED
  BY <1>2, <1>3, <1>4

\* What decrementTemplateTaskCount does: it takes from the level the
\* queue is at, whatever level the template is of.
LEMMA DecrementFields ==
  ASSUME NEW p \in Queue, NEW t
  PROVE  LET r == decrementTemplateTaskCount(p, t) IN
         /\ r \in Queue /\ r.queues = p.queues /\ r.running = p.running
         /\ r.level = p.level
         /\ \A l \in 1 .. LastLevel : l # p.level => r.counts[l] = p.counts[l]
         /\ r.templates = IF t \in Template \ decremented /\ p.templates > 0
                          THEN p.templates - 1 ELSE p.templates
<1> DEFINE n == p.templates - 1
           C == [l \in DOMAIN p.counts |-> IF l = p.level THEN p.templates - 1 ELSE p.counts[l]]
<1>1. n \in Int /\ DOMAIN p.counts = 1 .. LastLevel /\ \A l \in 1 .. LastLevel : p.counts[l] \in Int
  <2>1. p.counts \in [1 .. LastLevel -> Int] /\ p.templates \in Int
    BY QueueShape
  <2>2. n \in Int
    BY <2>1
  <2>3. DOMAIN p.counts = 1 .. LastLevel /\ \A l \in 1 .. LastLevel : p.counts[l] \in Int
    BY <2>1
  <2> QED
    BY <2>2, <2>3
<1>2. C \in [1 .. LastLevel -> Int] /\ \A l \in 1 .. LastLevel : l # p.level => C[l] = p.counts[l]
  BY <1>1
<1>3. CASE t \in Template \ decremented /\ p.templates > 0
  <2>1. decrementTemplateTaskCount(p, t) = [p EXCEPT !.templates = n, !.counts = C]
    BY <1>3 DEF decrementTemplateTaskCount
  <2> HIDE DEF n, C
  <2>2. LET r == [p EXCEPT !.templates = n, !.counts = C] IN
        /\ r \in Queue /\ r.queues = p.queues /\ r.running = p.running
        /\ r.level = p.level /\ r.counts = C /\ r.templates = n
    BY <1>1, <1>2 DEF Queue
  <2> QED
    BY <1>2, <1>3, <2>1, <2>2 DEF n
<1>4. CASE ~(t \in Template \ decremented /\ p.templates > 0)
  BY <1>4 DEF decrementTemplateTaskCount
<1> QED
  BY <1>3, <1>4

-----------------------------------------------------------------------------
(* Channels.                                                               *)

\* A send adds a task to what is in a channel, a receive takes one away.
LEMMA ChannelSteps ==
  ASSUME NEW ch \in Seq(Event)
  PROVE  /\ \A t : ~InChan(<<>>, t)
         /\ \A t : InChan(ch, t) => t \in Task
         /\ \A e \in Event : /\ Append(ch, e) \in Seq(Event) /\ Len(Append(ch, e)) = Len(ch) + 1
                             /\ \A t : InChan(Append(ch, e), t) <=> InChan(ch, t) \/ t = e.task
         /\ ch # <<>> => /\ Head(ch) \in Event /\ Tail(ch) \in Seq(Event)
                         /\ Len(Tail(ch)) = Len(ch) - 1
                         /\ InChan(ch, Head(ch).task)
                         /\ \A t : InChan(Tail(ch), t) => InChan(ch, t)
                         /\ \A t : InChan(ch, t) => InChan(Tail(ch), t) \/ t = Head(ch).task
<1>1. \A t : ~InChan(<<>>, t)
  BY DEF InChan
<1>2. \A t : InChan(ch, t) => t \in Task
  <2>1. \A i \in DOMAIN ch : ch[i] \in Event
    OBVIOUS
  <2>2. \A e \in Event : e.task \in Task
    BY DEF Event
  <2> QED
    BY <2>1, <2>2 DEF InChan
<1>3. ASSUME NEW e \in Event
      PROVE  /\ Append(ch, e) \in Seq(Event) /\ Len(Append(ch, e)) = Len(ch) + 1
             /\ \A t : InChan(Append(ch, e), t) <=> InChan(ch, t) \/ t = e.task
  <2>1. /\ Append(ch, e) \in Seq(Event) /\ Len(Append(ch, e)) = Len(ch) + 1
        /\ \A i \in 1 .. Len(ch) : Append(ch, e)[i] = ch[i]
        /\ Append(ch, e)[Len(ch) + 1] = e /\ Len(ch) \in Nat
    OBVIOUS
  <2>2. DOMAIN ch = 1 .. Len(ch) /\ DOMAIN Append(ch, e) = 1 .. Len(ch) + 1
    BY <2>1
  <2> QED
    BY <2>1, <2>2 DEF InChan
<1>4. ASSUME ch # <<>>
      PROVE  /\ Head(ch) \in Event /\ Tail(ch) \in Seq(Event)
             /\ Len(Tail(ch)) = Len(ch) - 1
             /\ InChan(ch, Head(ch).task)
             /\ \A t : InChan(Tail(ch), t) => InChan(ch, t)
             /\ \A t : InChan(ch, t) => InChan(Tail(ch), t) \/ t = Head(ch).task
  <2>1. /\ Head(ch) = ch[1] /\ 1 \in DOMAIN ch /\ Tail(ch) \in Seq(Event) /\ Len(Tail(ch)) = Len(ch) - 1
        /\ Len(ch) \in Nat /\ DOMAIN ch = 1 .. Len(ch) /\ DOMAIN Tail(ch) = 1 .. Len(ch) - 1
        /\ \A i \in 1 .. Len(ch) - 1 : Tail(ch)[i] = ch[i + 1]
    BY <1>4
  <2>2. \A t : InChan(Tail(ch), t) => InChan(ch, t)
    <3>1. \A i \in 1 .. Len(ch) - 1 : i + 1 \in DOMAIN ch
      BY <2>1
    <3> QED
      BY <2>1, <3>1 DEF InChan
  <2>3. \A t : InChan(ch, t) => InChan(Tail(ch), t) \/ t = Head(ch).task
    <3>1. \A i \in DOMAIN ch : i = 1 \/ (i - 1 \in DOMAIN Tail(ch) /\ Tail(ch)[i - 1] = ch[i])
      BY <2>1
    <3> QED
      BY <2>1, <3>1 DEF InChan
  <2> QED
    BY <2>1, <2>2, <2>3 DEF InChan
<1> QED
  BY <1>1, <1>2, <1>3, <1>4

\* Events stay distinct when a new task's comes, and when one is taken.
LEMMA DistinctSteps ==
  ASSUME NEW ch \in Seq(Event), Distinct(ch)
  PROVE  /\ \A e \in Event : ~InChan(ch, e.task) => Distinct(Append(ch, e))
         /\ ch # <<>> => Distinct(Tail(ch)) /\ ~InChan(Tail(ch), Head(ch).task)
<1>1. ASSUME NEW e \in Event, ~InChan(ch, e.task) PROVE Distinct(Append(ch, e))
  <2>1. /\ \A i \in 1 .. Len(ch) : Append(ch, e)[i] = ch[i]
        /\ Append(ch, e)[Len(ch) + 1] = e /\ Len(ch) \in Nat
        /\ DOMAIN ch = 1 .. Len(ch) /\ DOMAIN Append(ch, e) = 1 .. Len(ch) + 1
    OBVIOUS
  <2>2. \A i \in 1 .. Len(ch) : ch[i].task # e.task
    BY <1>1, <2>1 DEF InChan
  <2>3. \A i \in 1 .. Len(ch) + 1 : i \in 1 .. Len(ch) \/ i = Len(ch) + 1
    BY <2>1
  <2> QED
    BY <2>1, <2>2, <2>3 DEF Distinct
<1>2. ASSUME ch # <<>> PROVE Distinct(Tail(ch)) /\ ~InChan(Tail(ch), Head(ch).task)
  <2>1. /\ Head(ch) = ch[1] /\ 1 \in DOMAIN ch
        /\ Len(ch) \in Nat /\ DOMAIN ch = 1 .. Len(ch) /\ DOMAIN Tail(ch) = 1 .. Len(ch) - 1
        /\ \A i \in 1 .. Len(ch) - 1 : Tail(ch)[i] = ch[i + 1]
    BY <1>2
  <2>2. \A i \in 1 .. Len(ch) - 1 : i + 1 \in DOMAIN ch /\ i + 1 # 1
    BY <2>1
  <2>3. Distinct(Tail(ch))
    <3>1. SUFFICES ASSUME NEW i \in DOMAIN Tail(ch), NEW j \in DOMAIN Tail(ch),
                          Tail(ch)[i].task = Tail(ch)[j].task
                   PROVE  i = j
      BY DEF Distinct
    <3>2. i + 1 = j + 1
      BY <2>1, <2>2, <3>1 DEF Distinct
    <3> QED
      BY <3>2, <2>1
  <2> QED
    BY <2>1, <2>2, <2>3 DEF Distinct, InChan
<1> QED
  BY <1>1, <1>2

-----------------------------------------------------------------------------
(* Steps, and what they leave alone.                                       *)

\* The queue manager takes an event; it does so in its loop and in its end.
HandleEvent ==
  /\ queueUpdateChan # <<>>
  /\ queueUpdateChan' = Tail(queueUpdateChan)
  /\ handleTaskCompletion(Head(queueUpdateChan))
  /\ UNCHANGED <<wfTasks, taskStatusChan, held, addSubTaskChan, statsVars,
                 checkSkipped, toSubmit, exec, finalStatus, rowVars, ctlVars>>

\* The set of the tasks that are somewhere changes only with the place.
LEMMA PlacesFrame ==
  /\ UNCHANGED q => Waiting' = Waiting
  /\ UNCHANGED exec => Active' = Active
  /\ UNCHANGED taskStatusChan => Reported' = Reported
  /\ UNCHANGED held => HeldTask' = HeldTask
  /\ UNCHANGED queueUpdateChan => Passed' = Passed
BY DEF Waiting, Active, Reported, HeldTask, Passed, InChan

\* Every place holds tasks.
LEMMA PlaceTypes ==
  /\ Waiting \subseteq Task /\ Active \subseteq Task /\ Reported \subseteq Task
  /\ HeldTask \subseteq Task /\ Passed \subseteq Task
  /\ toSubmit \in SUBSET Task => Away \subseteq Task
BY DEF Waiting, Active, Reported, HeldTask, Passed, Away

\* The step takes one task t further, and touches no other task.
OnlyTask(t) ==
  /\ toSubmit' \ {t} = toSubmit \ {t} /\ Active' \ {t} = Active \ {t}
  /\ Reported' \ {t} = Reported \ {t} /\ HeldTask' \ {t} = HeldTask \ {t}
  /\ Passed' \ {t} = Passed \ {t}
  /\ \A u \in Task \ {t} : exec'[u] = exec[u] /\ taskStatus'[u] = taskStatus[u]
  /\ processedNodes' \ {t} = processedNodes \ {t} /\ errorKey' \ {t} = errorKey \ {t}

\* Steps that leave the queue manager's own state alone.
QuietVars == <<originalLevel, decremented, pendingSubTasks, parentOf, tracker>>

\* The step takes t from where it was to at most one other place.
Moves(t) == /\ t \in Away /\ t \in Task /\ OnlyTask(t)
            /\ Waiting' \ {t} = Waiting \ {t} /\ TokenInv'
MoveStep == \E t \in Task : Moves(t)

\* The observer takes an event.
LEMMA ObserverTakeMoves ==
  ASSUME TypeInv, TokenInv, ObserverTake
  PROVE  MoveStep
<1> DEFINE t == Head(taskStatusChan).task
<1>1. taskStatusChan \in Seq(Event) /\ taskStatusChan # <<>> /\ Distinct(taskStatusChan)
  BY DEF TypeInv, FlowTypes, TokenInv, ObserverTake
<1>2. /\ held' = Head(taskStatusChan) /\ held = None /\ taskStatusChan' = Tail(taskStatusChan)
      /\ UNCHANGED <<q, toSubmit, exec, queueUpdateChan, taskStatus, processedNodes, errorKey>>
  BY DEF ObserverTake, queueVars, handledVars
<1>3. Head(taskStatusChan) \in Event /\ t \in Task /\ Head(taskStatusChan) # None
  <2>1. Head(taskStatusChan) \in Event
    BY <1>1, ChannelSteps
  <2> QED
    BY <2>1, V2Assumption DEF Event
<1>4. t \in Reported /\ Reported' = Reported \ {t} /\ Distinct(taskStatusChan)'
  BY <1>1, <1>2, <1>3, ChannelSteps, DistinctSteps DEF Reported, Distinct
<1>5. HeldTask = {} /\ HeldTask' = {t}
  BY <1>2, <1>3 DEF HeldTask
<1>6. Distinct(queueUpdateChan)'
  BY <1>2 DEF Distinct, TokenInv
<1>7. Waiting' = Waiting /\ Active' = Active /\ Passed' = Passed /\ toSubmit' = toSubmit
  BY <1>2, PlacesFrame
<1> HIDE DEF t
<1>8. OnlyTask(t)
  BY <1>2, <1>4, <1>5, <1>7 DEF OnlyTask
<1>9. TokenInv'
  BY <1>4, <1>5, <1>6, <1>7 DEF TokenInv, Away
<1> QED
  BY <1>3, <1>4, <1>7, <1>8, <1>9 DEF MoveStep, Moves, Away

\* The observer hands it on, or drops it.
LEMMA ObserverSendMoves ==
  ASSUME TypeInv, TokenInv, ObserverSend
  PROVE  MoveStep
<1> DEFINE t == held.task
<1>1. queueUpdateChan \in Seq(Event) /\ held \in Event /\ t \in Task /\ Distinct(queueUpdateChan)
  BY DEF TypeInv, FlowTypes, TokenInv, ObserverSend, Event
<1>2. /\ held # None /\ held' = None
      /\ queueUpdateChan' = Append(queueUpdateChan, held) \/ UNCHANGED queueUpdateChan
      /\ UNCHANGED <<q, toSubmit, exec, taskStatusChan, taskStatus, processedNodes, errorKey>>
  BY DEF ObserverSend, queueVars, handledVars
<1>3. HeldTask = {t} /\ HeldTask' = {}
  BY <1>1, <1>2 DEF HeldTask
<1>4. Waiting' = Waiting /\ Active' = Active /\ Reported' = Reported /\ toSubmit' = toSubmit
  BY <1>2, PlacesFrame
<1>5. t \notin Passed
  BY <1>3 DEF TokenInv
<1>6. Passed' \in {Passed, Passed \cup {t}} /\ Distinct(queueUpdateChan)'
  <2>1. CASE queueUpdateChan' = Append(queueUpdateChan, held)
    <3>1. ~InChan(queueUpdateChan, t)
      BY <1>1, <1>5 DEF Passed
    <3> QED
      BY <1>1, <2>1, <3>1, ChannelSteps, DistinctSteps DEF Passed, Distinct
  <2>2. CASE UNCHANGED queueUpdateChan
    BY <1>1, <2>2, PlacesFrame DEF Distinct
  <2> QED
    BY <1>2, <2>1, <2>2
<1>7. Distinct(taskStatusChan)'
  BY <1>2 DEF Distinct, TokenInv
<1> HIDE DEF t
<1>8. OnlyTask(t)
  BY <1>2, <1>3, <1>4, <1>6 DEF OnlyTask
<1>9. TokenInv'
  BY <1>3, <1>4, <1>6, <1>7 DEF TokenInv, Away
<1> QED
  BY <1>1, <1>3, <1>4, <1>8, <1>9 DEF MoveStep, Moves, Away

\* A callback reports, or drops its event.
LEMMA CallbackMoves ==
  ASSUME TypeInv, TokenInv, NEW t \in Task, CallbackSends(t)
  PROVE  Moves(t) /\ Active' = Active \ {t} /\ t \in Active
<1> DEFINE e == [task |-> t, ok |-> exec[t] # "failed"]
<1>1. taskStatusChan \in Seq(Event) /\ e \in Event /\ Distinct(taskStatusChan) /\ exec \in [Task -> Stage]
  BY DEF TypeInv, FlowTypes, TokenInv, Event
<1>2. /\ exec[t] # "none" /\ exec' = [exec EXCEPT ![t] = "none"]
      /\ taskStatusChan' = Append(taskStatusChan, e) \/ UNCHANGED taskStatusChan
      /\ UNCHANGED <<q, toSubmit, held, queueUpdateChan, taskStatus, processedNodes, errorKey>>
  BY DEF CallbackSends, Report, queueVars, handledVars
<1>3. t \in Active /\ Active' = Active \ {t} /\ \A u \in Task \ {t} : exec'[u] = exec[u]
  BY <1>1, <1>2 DEF Active, Stage
<1>4. Waiting' = Waiting /\ HeldTask' = HeldTask /\ Passed' = Passed /\ toSubmit' = toSubmit
  BY <1>2, PlacesFrame
<1>5. Reported' \in {Reported, Reported \cup {t}} /\ Distinct(taskStatusChan)'
  <2>1. CASE taskStatusChan' = Append(taskStatusChan, e)
    <3>1. ~InChan(taskStatusChan, e.task) /\ e.task = t
      BY <1>3 DEF Reported, TokenInv
    <3> HIDE DEF e
    <3>2. Reported' = Reported \cup {t}
      BY <1>1, <2>1, <3>1, ChannelSteps DEF Reported
    <3>3. Distinct(taskStatusChan)'
      BY <1>1, <2>1, <3>1, DistinctSteps DEF Distinct
    <3> QED
      BY <3>2, <3>3
  <2>2. CASE UNCHANGED taskStatusChan
    BY <1>1, <2>2, PlacesFrame DEF Distinct
  <2> QED
    BY <1>2, <2>1, <2>2
<1>6. Distinct(queueUpdateChan)'
  BY <1>2 DEF Distinct, TokenInv
<1> HIDE DEF e
<1>8. OnlyTask(t)
  BY <1>2, <1>3, <1>4, <1>5 DEF OnlyTask
<1>9. TokenInv'
  BY <1>3, <1>4, <1>5, <1>6 DEF TokenInv, Away
<1> QED
  BY <1>3, <1>4, <1>8, <1>9 DEF Moves, Away

\* The steps of the executor before that.
LEMMA ExecutorMoves ==
  ASSUME TypeInv, TokenInv, NEW t \in Task,
         \/ \E k \in Caller : AddSubTasks(k) /\ t = k[2]
         \/ JobSucceeds(t) \/ JobFails(t)
  PROVE  Moves(t) /\ t \in Active
<1>1. /\ exec \in [Task -> Stage] /\ taskStatus \in [Task -> {"PENDING", "SUCCESS", "FAILED"}]
      /\ errorKey \subseteq Task
  BY DEF TypeInv, FlowTypes, QueueTypes
<1>2. /\ exec[t] # "none" /\ \E x \in Stage : exec' = [exec EXCEPT ![t] = x]
      /\ \/ UNCHANGED taskStatus
         \/ \E x \in {"SUCCESS", "FAILED"} : taskStatus' = [taskStatus EXCEPT ![t] = x]
      /\ UNCHANGED <<q, toSubmit, held, queueUpdateChan, taskStatusChan, processedNodes>>
      /\ errorKey' \in {errorKey, errorKey \cup {t}}
  <2>1. ASSUME NEW k \in Caller, AddSubTasks(k), t = k[2]
        PROVE  /\ exec[t] # "none" /\ \E x \in Stage : exec' = [exec EXCEPT ![t] = x]
               /\ UNCHANGED taskStatus /\ errorKey' = errorKey
               /\ UNCHANGED <<q, toSubmit, held, queueUpdateChan, taskStatusChan, processedNodes>>
    BY <2>1 DEF AddSubTasks, Adding, Added, Caller, Stage, queueVars, handledVars
  <2>2. ASSUME JobSucceeds(t)
        PROVE  /\ exec[t] # "none" /\ \E x \in Stage : exec' = [exec EXCEPT ![t] = x]
               /\ UNCHANGED taskStatus \/ taskStatus' = [taskStatus EXCEPT ![t] = "SUCCESS"]
               /\ errorKey' = errorKey
               /\ UNCHANGED <<q, toSubmit, held, queueUpdateChan, taskStatusChan, processedNodes>>
    BY <2>2 DEF JobSucceeds, Stage, chanVars
  <2>3. ASSUME JobFails(t)
        PROVE  /\ exec[t] # "none" /\ \E x \in Stage : exec' = [exec EXCEPT ![t] = x]
               /\ taskStatus' = [taskStatus EXCEPT ![t] = "FAILED"]
               /\ errorKey' = errorKey \cup {t}
               /\ UNCHANGED <<q, toSubmit, held, queueUpdateChan, taskStatusChan, processedNodes>>
    BY <2>3 DEF JobFails, Stage, chanVars
  <2> QED
    BY <2>1, <2>2, <2>3
<1>3. t \in Active /\ \A u \in Task \ {t} : exec'[u] = exec[u] /\ taskStatus'[u] = taskStatus[u]
  BY <1>1, <1>2 DEF Active
<1>4. Active' \ {t} = Active \ {t} /\ Active' \subseteq Active
  BY <1>1, <1>2, <1>3 DEF Active
<1>5. /\ Waiting' = Waiting /\ HeldTask' = HeldTask /\ Passed' = Passed /\ Reported' = Reported
      /\ toSubmit' = toSubmit
  BY <1>2, PlacesFrame
<1>6. Distinct(queueUpdateChan)' /\ Distinct(taskStatusChan)'
  BY <1>2 DEF Distinct, TokenInv
<1>7. OnlyTask(t)
  BY <1>2, <1>3, <1>4, <1>5 DEF OnlyTask
<1>8. TokenInv'
  BY <1>3, <1>4, <1>5, <1>6 DEF TokenInv, Away
<1> QED
  BY <1>3, <1>5, <1>7, <1>8 DEF Moves, Away

\* What a change of one level's queue does to the tasks that wait.
LEMMA WaitingSteps ==
  ASSUME q \in Queue, NEW l \in 1 .. LastLevel, NEW S \in SUBSET Task
  PROVE  /\ q'.queues = [q.queues EXCEPT ![l] = @ \cup S] => Waiting' = Waiting \cup S
         /\ q'.queues = [q.queues EXCEPT ![l] = @ \ S] /\ S \cap Waiting = {} => Waiting' = Waiting
         /\ q'.queues = [q.queues EXCEPT ![l] = @ \ S] /\ S \subseteq q.queues[l] /\ LevelInv =>
              Waiting' = Waiting \ S /\ S \subseteq Waiting
         /\ q'.queues = q.queues => Waiting' = Waiting
<1>1. DOMAIN q.queues = 1 .. LastLevel /\ \A m \in 1 .. LastLevel : q.queues[m] \subseteq Task
  BY QueueShape
<1>2. ASSUME q'.queues = [q.queues EXCEPT ![l] = @ \cup S] PROVE Waiting' = Waiting \cup S
  <2>1. \A m \in 1 .. LastLevel : q'.queues[m] = IF m = l THEN q.queues[l] \cup S ELSE q.queues[m]
    BY <1>1, <1>2
  <2> QED
    BY <2>1 DEF Waiting
<1>3. ASSUME q'.queues = [q.queues EXCEPT ![l] = @ \ S]
      PROVE  /\ S \cap Waiting = {} => Waiting' = Waiting
             /\ S \subseteq q.queues[l] /\ LevelInv => Waiting' = Waiting \ S /\ S \subseteq Waiting
  <2>1. \A m \in 1 .. LastLevel : q'.queues[m] = IF m = l THEN q.queues[l] \ S ELSE q.queues[m]
    BY <1>1, <1>3
  <2>2. ASSUME S \cap Waiting = {} PROVE Waiting' = Waiting
    BY <2>1, <2>2 DEF Waiting
  <2>3. ASSUME S \subseteq q.queues[l], LevelInv PROVE Waiting' = Waiting \ S /\ S \subseteq Waiting
    <3>1. ASSUME NEW m \in 1 .. LastLevel, NEW t \in q.queues[m] \cap S PROVE m = l
      <4>1. originalLevel[t] = m /\ originalLevel[t] = l
        BY <2>3 DEF LevelInv
      <4> QED
        BY <4>1
    <3> QED
      BY <2>1, <2>3, <3>1 DEF Waiting
  <2> QED
    BY <2>2, <2>3
<1>4. q'.queues = q.queues => Waiting' = Waiting
  BY DEF Waiting
<1> QED
  BY <1>2, <1>3, <1>4

\* What the submission does with the next task of its batch.
LEMMA SubmitCases ==
  ASSUME TypeInv, OrigInv, TokenInv, SubmitNext
  PROVE  \E t \in toSubmit :
    /\ t \in Task /\ t \in Away /\ t \notin Waiting /\ originalLevel[t] = q.level
    /\ q.level \in 1 .. LastLevel /\ q \in Queue /\ q' \in Queue
    /\ toSubmit' = toSubmit \ {t}
    /\ q'.running = q.running /\ q'.level = q.level /\ q'.templates = q.templates
    /\ \A l \in 1 .. LastLevel : l # q.level => q'.counts[l] = q.counts[l]
    /\ UNCHANGED <<originalLevel, decremented, pendingSubTasks, parentOf, tracker,
                   contextData, wfTasks, held, queueUpdateChan, addSubTaskChan,
                   statsVars, checkSkipped, sagaVars, qpc, finalStatus, rowVars, ctlVars>>
    /\ \/ Skip(t)
       \/ Drop(t)
       \/ Submit(t)
       \/ /\ q'.queues = [q.queues EXCEPT ![q.level] = @ \cup {t}]
          /\ taskStatus' = [taskStatus EXCEPT ![t] = "PENDING"]
          /\ retryCount[t] < RetryCount[t] /\ retryCount' = [retryCount EXCEPT ![t] = @ + 1]
          /\ UNCHANGED <<processedNodes, errorKey, exec, taskStatusChan>>
       \/ /\ q'.queues = [q.queues EXCEPT ![q.level] = @ \ {t}]
          /\ MarkFailed(t)
          /\ UNCHANGED <<exec, taskStatusChan, retryCount>>
<1>1. PICK t \in toSubmit : /\ toSubmit' = toSubmit \ {t}
                            /\ Skip(t) \/ Drop(t) \/ Submit(t) \/ Refuse(t)
  BY DEF SubmitNext
<1> DEFINE l == q.level
<1>2. t \in Task /\ t \in Away /\ q \in Queue
  BY DEF Away, TypeInv, FlowTypes, QueueTypes
<1>3. t \notin Waiting /\ originalLevel[t] = l /\ l \in 1 .. LastLevel
  BY <1>2, QueueShape DEF TokenInv, OrigInv
<1>4. UNCHANGED <<originalLevel, decremented, pendingSubTasks, parentOf, tracker,
                 contextData, wfTasks, held, queueUpdateChan, addSubTaskChan,
                 statsVars, checkSkipped, sagaVars, qpc, finalStatus, rowVars, ctlVars>>
  BY DEF SubmitNext
<1>5. CASE Skip(t) \/ Drop(t) \/ Submit(t)
  <2>1. q' = q
    BY <1>5 DEF Skip, Drop, Submit
  <2>2. /\ q'.running = q.running /\ q'.level = q.level /\ q'.templates = q.templates
        /\ \A m \in 1 .. LastLevel : m # q.level => q'.counts[m] = q.counts[m]
        /\ q' \in Queue
    BY <1>2, <2>1
  <2> QED
    BY <1>1, <1>2, <1>3, <1>4, <1>5, <2>2
<1>6. CASE /\ Refuse(t) /\ q' = AddTasks(q, l, {t})
           /\ taskStatus' = [taskStatus EXCEPT ![t] = "PENDING"]
           /\ retryCount[t] < RetryCount[t] /\ retryCount' = [retryCount EXCEPT ![t] = @ + 1]
           /\ UNCHANGED <<processedNodes, errorKey>>
  <2>1. /\ q' \in Queue /\ q'.queues = [q.queues EXCEPT ![l] = @ \cup {t}]
        /\ q'.running = q.running /\ q'.level = q.level /\ q'.counts = q.counts
        /\ q'.templates = q.templates
    BY <1>2, <1>3, <1>6, AddTasksFields
  <2>2. UNCHANGED <<exec, taskStatusChan>>
    BY <1>6 DEF Refuse
  <2> QED
    BY <1>1, <1>2, <1>3, <1>4, <1>6, <2>1, <2>2
<1>7. CASE /\ Refuse(t) /\ MarkFailed(t)
           /\ LET p == RemoveTask(q, l, t) IN
              q' = IF t \in Template THEN [p EXCEPT !.counts[p.level] = @ - 1] ELSE p
           /\ UNCHANGED retryCount
  <2> DEFINE p == RemoveTask(q, l, t)
  <2>1. /\ p \in Queue /\ p.queues = [q.queues EXCEPT ![l] = @ \ {t}]
        /\ p.running = q.running /\ p.level = l /\ p.counts = q.counts
        /\ p.templates = q.templates
    BY <1>2, <1>3, RemoveTaskFields
  <2> HIDE DEF p
  <2>2. q' = p \/ q' = [p EXCEPT !.counts[l] = @ - 1]
    BY <1>7, <2>1 DEF p
  <2>3. /\ q' \in Queue /\ q'.queues = p.queues
        /\ q'.running = p.running /\ q'.level = p.level /\ q'.templates = p.templates
        /\ \A m \in 1 .. LastLevel : m # l => q'.counts[m] = p.counts[m]
    <3>1. CASE q' = p
      BY <2>1, <3>1
    <3>2. CASE q' = [p EXCEPT !.counts[l] = @ - 1]
      <4>1. /\ q' \in Queue /\ q'.queues = p.queues
            /\ q'.running = p.running /\ q'.level = p.level /\ q'.templates = p.templates
            /\ q'.counts = [p.counts EXCEPT ![l] = @ - 1]
        BY <1>3, <2>1, <3>2, CountFields
      <4> QED
        BY <4>1, <2>1, QueueShape
    <3> QED
      BY <2>2, <3>1, <3>2
  <2>4. UNCHANGED <<exec, taskStatusChan>>
    BY <1>7 DEF Refuse
  <2> QED
    BY <1>1, <1>2, <1>3, <1>4, <1>7, <2>1, <2>3, <2>4
<1> QED
  BY <1>1, <1>5, <1>6, <1>7 DEF Refuse

\* The submission takes a task to the executor, back to its queue, or to its end.
LEMMA SubmitMoves ==
  ASSUME TypeInv, OrigInv, TokenInv, SubmitNext
  PROVE  \E t \in toSubmit : Moves(t) /\ toSubmit' = toSubmit \ {t}
<1>1. PICK t \in toSubmit :
    /\ t \in Task /\ t \in Away /\ t \notin Waiting /\ originalLevel[t] = q.level
    /\ q.level \in 1 .. LastLevel /\ q \in Queue /\ q' \in Queue
    /\ toSubmit' = toSubmit \ {t}
    /\ UNCHANGED <<held, queueUpdateChan>>
    /\ \/ Skip(t)
       \/ Drop(t)
       \/ Submit(t)
       \/ /\ q'.queues = [q.queues EXCEPT ![q.level] = @ \cup {t}]
          /\ taskStatus' = [taskStatus EXCEPT ![t] = "PENDING"]
          /\ UNCHANGED <<processedNodes, errorKey, exec, taskStatusChan>>
       \/ /\ q'.queues = [q.queues EXCEPT ![q.level] = @ \ {t}]
          /\ MarkFailed(t)
          /\ UNCHANGED <<exec, taskStatusChan>>
  BY SubmitCases
<1>2. /\ exec \in [Task -> Stage] /\ taskStatus \in [Task -> {"PENDING", "SUCCESS", "FAILED"}]
      /\ taskStatusChan \in Seq(Event) /\ Distinct(taskStatusChan) /\ Distinct(queueUpdateChan)
      /\ toSubmit \subseteq Task
  BY DEF TypeInv, FlowTypes, QueueTypes, TokenInv
<1>3. HeldTask' = HeldTask /\ Passed' = Passed /\ Distinct(queueUpdateChan)'
  BY <1>1, <1>2, PlacesFrame DEF Distinct
<1>4. t \notin Active \cup Reported \cup HeldTask \cup Passed
  BY DEF TokenInv
<1>5. /\ \A u \in Task \ {t} : exec'[u] = exec[u] /\ taskStatus'[u] = taskStatus[u]
      /\ processedNodes' \ {t} = processedNodes \ {t} /\ errorKey' \ {t} = errorKey \ {t}
  BY <1>1, <1>2 DEF Skip, Drop, Submit, MarkFailed
<1>6. \/ /\ Waiting' = Waiting /\ Active' = Active /\ Distinct(taskStatusChan)'
         /\ Reported' \in {Reported, Reported \cup {t}}
      \/ /\ Waiting' = Waiting /\ Active' = Active \cup {t} /\ Distinct(taskStatusChan)'
         /\ Reported' = Reported
      \/ /\ Waiting' = Waiting \cup {t} /\ Active' = Active /\ Distinct(taskStatusChan)'
         /\ Reported' = Reported
  <2>1. CASE Skip(t)
    <3> DEFINE e == [task |-> t, ok |-> FALSE]
    <3>1. /\ q' = q /\ exec' = exec
          /\ taskStatusChan' = Append(taskStatusChan, e) \/ UNCHANGED taskStatusChan
      BY <2>1 DEF Skip
    <3>2. e \in Event /\ e.task = t
      BY <1>1 DEF Event
    <3> HIDE DEF e
    <3>3. ~InChan(taskStatusChan, t)
      BY <1>1, <1>4 DEF Reported
    <3>4. CASE taskStatusChan' = Append(taskStatusChan, e)
      <4>1. Reported' = Reported \cup {t}
        BY <1>1, <1>2, <3>2, <3>4, ChannelSteps DEF Reported
      <4>2. Distinct(taskStatusChan)'
        BY <1>2, <3>2, <3>3, <3>4, DistinctSteps DEF Distinct
      <4> QED
        BY <3>1, <4>1, <4>2, PlacesFrame
    <3>5. CASE UNCHANGED taskStatusChan
      BY <1>2, <3>1, <3>5, PlacesFrame DEF Distinct
    <3> QED
      BY <3>1, <3>4, <3>5
  <2>2. CASE Drop(t)
    <3>1. UNCHANGED <<q, exec, taskStatusChan>>
      BY <2>2 DEF Drop
    <3> QED
      BY <1>2, <3>1, PlacesFrame DEF Distinct
  <2>3. CASE Submit(t)
    <3>1. UNCHANGED <<q, taskStatusChan>> /\ exec' = [exec EXCEPT ![t] = "job"]
      BY <2>3 DEF Submit
    <3>2. Active' = Active \cup {t}
      BY <1>1, <1>2, <3>1 DEF Active
    <3> QED
      BY <1>2, <3>1, <3>2, PlacesFrame DEF Distinct
  <2>4. CASE /\ q'.queues = [q.queues EXCEPT ![q.level] = @ \cup {t}]
             /\ UNCHANGED <<exec, taskStatusChan>>
    <3>1. Waiting' = Waiting \cup {t}
      BY <1>1, <2>4, WaitingSteps, {t} \in SUBSET Task
    <3> QED
      BY <1>2, <2>4, <3>1, PlacesFrame DEF Distinct
  <2>5. CASE /\ q'.queues = [q.queues EXCEPT ![q.level] = @ \ {t}]
             /\ UNCHANGED <<exec, taskStatusChan>>
    <3>1. Waiting' = Waiting
      BY <1>1, <2>5, WaitingSteps, {t} \in SUBSET Task, {t} \cap Waiting = {}
    <3> QED
      BY <1>2, <2>5, <3>1, PlacesFrame DEF Distinct
  <2> QED
    BY <1>1, <2>1, <2>2, <2>3, <2>4, <2>5
<1>7. OnlyTask(t)
  BY <1>1, <1>3, <1>5, <1>6 DEF OnlyTask
<1>8. TokenInv'
  BY <1>1, <1>3, <1>4, <1>6 DEF TokenInv, Away
<1> QED
  BY <1>1, <1>6, <1>7, <1>8 DEF Moves

-----------------------------------------------------------------------------
(* What every step of a task keeps.                                        *)

\* Sets of tasks can be counted.
LEMMA TaskCards ==
  ASSUME NEW S \in SUBSET Task
  PROVE  /\ IsFiniteSet(S) /\ Cardinality(S) \in Nat
         /\ \A T \in SUBSET S : IsFiniteSet(T) /\ Cardinality(T) \in Nat
                               /\ Cardinality(T) <= Cardinality(S)
         /\ \A t \in S : Cardinality(S \ {t}) = Cardinality(S) - 1
         /\ Cardinality(S) = 0 <=> S = {}
BY V2Assumption, FS_Subset, FS_CardinalityType, FS_RemoveElement, FS_EmptySet

\* The places of tasks that a step keeps.
LEMMA MovePlaces ==
  ASSUME NEW t \in Task, Moves(t)
  PROVE  /\ Away' \ {t} = Away \ {t} /\ Away' \subseteq Away
         /\ t \in Away
         /\ \A u \in Task \ {t} : u \in Waiting' <=> u \in Waiting
         /\ \A u \in Task \ {t} : u \in Ended' <=> u \in Ended
         /\ \A u \in Task \ {t} : u \in processedNodes' <=> u \in processedNodes
<1>1. /\ t \in Away /\ OnlyTask(t) /\ Waiting' \ {t} = Waiting \ {t}
  BY DEF Moves
<1>2. /\ toSubmit' \ {t} = toSubmit \ {t} /\ Active' \ {t} = Active \ {t}
      /\ Reported' \ {t} = Reported \ {t} /\ HeldTask' \ {t} = HeldTask \ {t}
      /\ Passed' \ {t} = Passed \ {t}
      /\ \A u \in Task \ {t} : exec'[u] = exec[u] /\ taskStatus'[u] = taskStatus[u]
      /\ processedNodes' \ {t} = processedNodes \ {t} /\ errorKey' \ {t} = errorKey \ {t}
  BY <1>1 DEF OnlyTask
<1>3. Away' \ {t} = Away \ {t}
  BY <1>2 DEF Away
<1>4. \A u \in Task \ {t} : u \in Ended' <=> u \in Ended
  BY <1>2 DEF Ended
<1> QED
  BY <1>1, <1>2, <1>3, <1>4

\* A step of one task leaves the counters of the levels and of the trackers
\* where they were, and right.
LEMMA MoveKeeps ==
  ASSUME TypeInv, OrigInv, CountInv, TrackInv, TemplInv, MoveStep,
         UNCHANGED <<originalLevel, parentOf, tracker, decremented>>,
         q'.level = q.level, q'.running = q.running, q'.templates = q.templates
  PROVE  OrigInv' /\ CountInv' /\ TrackInv' /\ TemplInv'
<1>1. PICK t \in Task : Moves(t)
  BY DEF MoveStep
<1>2. /\ Away' \ {t} = Away \ {t} /\ Away' \subseteq Away /\ t \in Away
      /\ \A u \in Task \ {t} : u \in Waiting' <=> u \in Waiting
      /\ \A u \in Task \ {t} : u \in Ended' <=> u \in Ended
      /\ \A u \in Task \ {t} : u \in processedNodes' <=> u \in processedNodes
  BY <1>1, MovePlaces
<1>3. OrigInv'
  BY <1>2 DEF OrigInv
<1>4. CountInv'
  <2>1. ASSUME NEW l \in 1 .. LastLevel PROVE q.running[l] >= Cardinality(Counted(l)')
    <3>1. Counted(l)' \subseteq Counted(l)
      BY <1>2 DEF Counted
    <3>2. Counted(l) \in SUBSET Task
      BY DEF Counted
    <3>3. Cardinality(Counted(l)') <= Cardinality(Counted(l)) /\ Cardinality(Counted(l)') \in Nat
          /\ Cardinality(Counted(l)) \in Nat
      BY <3>1, <3>2, TaskCards
    <3>4. q.running[l] >= Cardinality(Counted(l)) /\ q.running[l] \in Int
      BY QueueShape DEF CountInv, TypeInv, QueueTypes
    <3> QED
      BY <3>3, <3>4
  <2>2. q'.running = q.running
    OBVIOUS
  <2> QED
    BY <2>1, <2>2 DEF CountInv
<1>5. TrackInv'
  <2>1. ASSUME NEW p \in Task PROVE tracker[p].completed <= Cardinality(Over(p)')
    <3>1. Over(p) \subseteq Over(p)'
      BY <1>2 DEF Over, Task
    <3>2. Over(p)' \in SUBSET Task
      BY DEF Over, Task
    <3>3. Cardinality(Over(p)) <= Cardinality(Over(p)') /\ Cardinality(Over(p)) \in Nat
          /\ Cardinality(Over(p)') \in Nat
      BY <3>1, <3>2, TaskCards
    <3>4. tracker[p].completed <= Cardinality(Over(p)) /\ tracker[p].completed \in Nat
      BY DEF TrackInv, TypeInv, QueueTypes, Tracker
    <3> QED
      BY <3>3, <3>4
  <2> QED
    BY <2>1 DEF TrackInv
<1>6. TemplInv'
  BY DEF TemplInv
<1> QED
  BY <1>3, <1>4, <1>5, <1>6

\* A frame for the parts that speak of batches.
LEMMA BatchFrame ==
  ASSUME AddInv, SubInv, PendInv, UNCHANGED <<originalLevel, parentOf, pendingSubTasks, decremented>>,
         q'.level = q.level, wfTasks \subseteq wfTasks'
  PROVE  /\ UNCHANGED addSubTaskChan => AddInv'
         /\ (\A s \in Sub : s \in processedNodes' => s \in processedNodes \/ originalLevel[s] # None)
              => SubInv'
         /\ PendInv'
<1>1. UNCHANGED addSubTaskChan => AddInv'
  BY DEF AddInv, Started
<1>2. (\A s \in Sub : s \in processedNodes' => s \in processedNodes \/ originalLevel[s] # None)
        => SubInv'
  BY DEF SubInv, Started, Handled
<1>3. PendInv'
  BY DEF PendInv, DepPending, Handled
<1> QED
  BY <1>1, <1>2, <1>3

-----------------------------------------------------------------------------
(* handleTaskCompletion.                                                   *)

\* A batch enters the queue of the current level, if there is one.
LEMMA EnqueueFields ==
  ASSUME NEW p \in Queue, NEW t, NEW S \in SUBSET Task, Enqueue(p, t, S)
  PROVE  /\ q' \in Queue /\ q'.level = p.level /\ q'.running = p.running
         /\ \A m \in 1 .. LastLevel : m # p.level => q'.counts[m] = p.counts[m]
         /\ q'.templates = IF t \in Template \ decremented /\ p.templates > 0
                          THEN p.templates - 1 ELSE p.templates
         /\ p.level <= LastLevel => q'.queues = [p.queues EXCEPT ![p.level] = @ \cup S]
         /\ p.level > LastLevel => q'.queues = p.queues
         /\ originalLevel' = [u \in Task |-> IF u \in S THEN p.level ELSE originalLevel[u]]
         /\ decremented' = decremented \cup (Template \cap {t})
<1> DEFINE r == AddTasks(p, p.level, S)
<1>1. /\ r \in Queue /\ r.level = p.level /\ r.running = p.running /\ r.counts = p.counts
      /\ r.templates = p.templates
      /\ p.level <= LastLevel => r.queues = [p.queues EXCEPT ![p.level] = @ \cup S]
      /\ p.level > LastLevel => r.queues = p.queues
  <2>1. p.level \in Nat /\ p.level >= 1 /\ LastLevel \in Nat
    BY QueueShape, LevelFacts
  <2>2. CASE p.level \in 1 .. LastLevel
    BY <2>1, <2>2, AddTasksFields
  <2>3. CASE p.level \notin 1 .. LastLevel
    BY <2>1, <2>3, AddTasksBeyond
  <2> QED
    BY <2>2, <2>3
<1> HIDE DEF r
<1>2. q' = decrementTemplateTaskCount(r, t)
  BY DEF Enqueue, r
<1>3. /\ q' \in Queue /\ q'.queues = r.queues /\ q'.running = r.running /\ q'.level = r.level
      /\ \A m \in 1 .. LastLevel : m # r.level => q'.counts[m] = r.counts[m]
      /\ q'.templates = IF t \in Template \ decremented /\ r.templates > 0
                        THEN r.templates - 1 ELSE r.templates
  BY <1>1, <1>2, DecrementFields
<1>4. /\ originalLevel' = [u \in Task |-> IF u \in S THEN p.level ELSE originalLevel[u]]
      /\ decremented' = decremented \cup (Template \cap {t})
  BY DEF Enqueue
<1> QED
  BY <1>1, <1>3, <1>4

\* The tracker of the parent after one more of its subtasks is over.
Tracked(t) ==
  /\ t \in Main => UNCHANGED tracker
  /\ t \in Sub => /\ tracker' \in [Task -> Tracker]
                  /\ \A p \in Task : /\ tracker'[p].ids = tracker[p].ids
                                     /\ tracker'[p].completed = IF p = parentOf[t]
                                         THEN tracker[p].completed + 1 ELSE tracker[p].completed

\* A subtask's outcome is entered in its parent's tracker, and the parent's
\* context.
LEMMA CountSubTask ==
  ASSUME TypeInv, NEW s \in Sub, parentOf[s] \in Task, NEW ok \in BOOLEAN,
         NEW ctx \in [Task -> {None} \cup SUBSET Sub], countSubTask(s, ok, ctx)
  PROVE  Tracked(s) /\ contextData' \in [Task -> {None} \cup SUBSET Sub]
<1> DEFINE p == parentOf[s]
           tr == [tracker[p] EXCEPT !.completed = @ + 1,
                                    !.ok = @ \cup (IF ok THEN {s} ELSE {})]
<1>1. tracker \in [Task -> Tracker] /\ tracker[p] \in Tracker
  BY DEF TypeInv, QueueTypes
<1>2. tr \in Tracker /\ tr.ids = tracker[p].ids /\ tr.completed = tracker[p].completed + 1
  <2>1. tracker[p].completed + 1 \in Nat /\ tracker[p].ok \cup (IF ok THEN {s} ELSE {}) \in SUBSET Sub
    BY <1>1 DEF Tracker
  <2> QED
    BY <1>1, <2>1 DEF Tracker
<1>3. /\ tracker' = [tracker EXCEPT ![p] = tr]
      /\ contextData' \in {[ctx EXCEPT ![p] = tr.ok], ctx}
  BY DEF countSubTask
<1>4. tr.ok \in SUBSET Sub
  BY <1>2 DEF Tracker
<1> HIDE DEF tr
<1>5. tracker' \in [Task -> Tracker]
  BY <1>1, <1>2, <1>3
<1>6. \A u \in Task : /\ tracker'[u].ids = tracker[u].ids
                      /\ tracker'[u].completed = IF u = p THEN tracker[u].completed + 1
                                                ELSE tracker[u].completed
  BY <1>1, <1>2, <1>3
<1>7. contextData' \in [Task -> {None} \cup SUBSET Sub]
  BY <1>3, <1>4
<1>8. s \notin Main
  BY V2Assumption
<1> QED
  BY <1>5, <1>6, <1>7, <1>8 DEF Tracked

\* What the event of a task does, in one place: the subtasks E that are queued
\* with it, the counters, and one of three ends of the attempt.
Handles(t, ok, E) ==
  /\ q' \in Queue /\ q'.level = q.level
  /\ q'.running = [q.running EXCEPT ![q.level] = @ - 1]
  /\ \A m \in 1 .. LastLevel : m # q.level => q'.counts[m] = q.counts[m]
  /\ q'.templates = IF E # {} /\ t \in Template \ decremented /\ q.templates > 0
                    THEN q.templates - 1 ELSE q.templates
  /\ decremented' = decremented \cup (IF E = {} THEN {} ELSE {t})
  /\ originalLevel' = [u \in Task |-> IF u \in E THEN q.level ELSE originalLevel[u]]
  /\ pendingSubTasks' = [pendingSubTasks EXCEPT ![t] = @ \ E]
  /\ contextData' \in [Task -> {None} \cup SUBSET Sub]
  /\ UNCHANGED parentOf
  /\ \/ /\ ok /\ Tracked(t)
        /\ q'.queues = [q.queues EXCEPT ![q.level] = @ \cup E]
        /\ processedNodes' = processedNodes \cup {t}
        /\ UNCHANGED <<errorKey, taskStatus, retryCount, sagaVars>>
     \/ /\ ~ok /\ E = {} /\ UNCHANGED tracker
        /\ q'.queues = [q.queues EXCEPT ![q.level] = @ \cup {t}]
        /\ taskStatus' = [taskStatus EXCEPT ![t] = "PENDING"]
        /\ retryCount[t] < RetryCount[t] /\ retryCount' = [retryCount EXCEPT ![t] = @ + 1]
        /\ UNCHANGED <<processedNodes, errorKey, sagaVars>>
     \/ /\ ~ok /\ E = {} /\ Tracked(t)
        /\ q'.queues = [q.queues EXCEPT ![q.level] = @ \ {t}]
        /\ taskStatus' = [taskStatus EXCEPT ![t] = "FAILED"]
        /\ processedNodes' = processedNodes \cup {t} /\ errorKey' = errorKey \cup {t}
        /\ RecordFailed(t) /\ UNCHANGED retryCount

Handling(t, ok) ==
  \E E \in SUBSET Sub : /\ Handles(t, ok, E)
                        /\ E # {} => t \in Template /\ E = pendingSubTasks[t]
                        /\ E = {} /\ ok /\ t \in Template => pendingSubTasks[t] = {}

\* The task of the next event is at the current level.
LEMMA HeadFacts ==
  ASSUME TypeInv, OrigInv, EventInv, SubInv, queueUpdateChan # <<>>
  PROVE  LET e == Head(queueUpdateChan) IN
         /\ e \in Event /\ e.task \in Task /\ e.ok \in BOOLEAN /\ e.task \in Passed
         /\ originalLevel[e.task] = q.level /\ q.level \in 1 .. LastLevel
         /\ EventOK(e)
         /\ e.task \in Sub => parentOf[e.task] \in Task
<1> DEFINE e == Head(queueUpdateChan)
<1>1. queueUpdateChan \in Seq(Event) /\ q \in Queue /\ parentOf \in [Sub -> Task \cup {None}]
  BY DEF TypeInv, FlowTypes, QueueTypes
<1>2. e \in Event /\ InChan(queueUpdateChan, e.task)
  BY <1>1, ChannelSteps
<1>3. e.task \in Task /\ e.ok \in BOOLEAN /\ e.task \in Passed
  BY <1>2 DEF Event, Passed
<1>4. originalLevel[e.task] = q.level /\ q.level \in 1 .. LastLevel
  BY <1>1, <1>3, QueueShape DEF OrigInv, Away
<1>5. EventOK(e)
  <2>1. 1 \in DOMAIN queueUpdateChan /\ e = queueUpdateChan[1]
    BY <1>1
  <2> HIDE DEF e
  <2> QED
    BY <2>1 DEF EventInv
<1>6. e.task \in Sub => parentOf[e.task] \in Task
  <2>1. q.level # None
    BY <1>4, V2Assumption, LevelFacts
  <2> QED
    BY <1>1, <1>4, <2>1 DEF SubInv
<1> QED
  BY <1>2, <1>3, <1>4, <1>5, <1>6

\* The handler of an event does one of these things: it never meets a success
\* that it has processed already.
LEMMA HandleCases ==
  ASSUME TypeInv, OrigInv, EventInv, SubInv, HandleEvent
  PROVE  Handling(Head(queueUpdateChan).task, Head(queueUpdateChan).ok)
<1> DEFINE e == Head(queueUpdateChan)
<1> DEFINE t == e.task
           p == TaskCompleted(q, q.level)
<1>0. queueUpdateChan # <<>> /\ handleTaskCompletion(e)
  BY DEF HandleEvent
<1>1. /\ t \in Task /\ e.ok \in BOOLEAN /\ originalLevel[t] = q.level /\ q.level \in 1 .. LastLevel
      /\ EventOK(e) /\ (t \in Sub => parentOf[t] \in Task)
  BY <1>0, HeadFacts
<1>2. /\ q \in Queue /\ contextData \in [Task -> {None} \cup SUBSET Sub]
      /\ pendingSubTasks \in [Task -> SUBSET Sub]
      /\ originalLevel \in [Task -> 1 .. LastLevel + 1 \cup {None}]
      /\ decremented \subseteq Template
  BY DEF TypeInv, QueueTypes
<1>3. /\ p \in Queue /\ p.queues = q.queues /\ p.level = q.level /\ p.counts = q.counts
      /\ p.running = [q.running EXCEPT ![q.level] = @ - 1] /\ p.templates = q.templates
  BY <1>1, <1>2, TaskCompletedFields
<1>4. IF e.ok THEN handleTaskSuccess(t, p) ELSE handleTaskFailure(t, p)
  BY <1>0, <1>1 DEF handleTaskCompletion
<1>q. \A l \in 1 .. LastLevel : q.queues[l] \in SUBSET Task
  BY <1>2, QueueShape
<1>n. /\ originalLevel = [u \in Task |-> IF u \in {} THEN q.level ELSE originalLevel[u]]
      /\ pendingSubTasks = [pendingSubTasks EXCEPT ![t] = @ \ {}]
      /\ q.queues = [q.queues EXCEPT ![q.level] = @ \cup {}]
  BY <1>1, <1>2, QueueShape
<1> HIDE DEF p, t, e
<1>5. ASSUME e.ok
      PROVE  Handling(t, e.ok)
  <2>1. t \notin processedNodes /\ handleTaskSuccess(t, p)
    BY <1>1, <1>4, <1>5 DEF EventOK, t
  <2> DEFINE ctx == [contextData EXCEPT ![t] = {}]
  <2>2. /\ processedNodes' = processedNodes \cup {t}
        /\ IF t \in Sub THEN countSubTask(t, TRUE, ctx) ELSE contextData' = ctx /\ UNCHANGED tracker
        /\ UNCHANGED <<errorKey, taskStatus, retryCount, parentOf, sagaVars>>
        /\ IF t \in Template /\ pendingSubTasks[t] # {}
           THEN Enqueue(p, t, pendingSubTasks[t])
                /\ pendingSubTasks' = [pendingSubTasks EXCEPT ![t] = {}]
           ELSE q' = p /\ UNCHANGED <<originalLevel, decremented, pendingSubTasks>>
    BY <2>1 DEF handleTaskSuccess
  <2>3. ctx \in [Task -> {None} \cup SUBSET Sub]
    BY <1>2
  <2> HIDE DEF ctx
  <2>4. Tracked(t) /\ contextData' \in [Task -> {None} \cup SUBSET Sub]
    <3>1. CASE t \in Sub
      BY <1>1, <2>2, <2>3, <3>1, CountSubTask
    <3>2. CASE t \notin Sub
      BY <2>2, <2>3, <3>2 DEF Tracked
    <3> QED
      BY <3>1, <3>2
  <2>5. CASE t \in Template /\ pendingSubTasks[t] # {}
    <3> DEFINE E == pendingSubTasks[t]
    <3>1. E \in SUBSET Sub /\ E \in SUBSET Task /\ Enqueue(p, t, E) /\ E # {}
      BY <1>1, <1>2, <2>2, <2>5 DEF Task
    <3>2. pendingSubTasks' = [pendingSubTasks EXCEPT ![t] = @ \ E]
      BY <2>2, <2>5
    <3> HIDE DEF E
    <3>3. /\ q' \in Queue /\ q'.level = p.level /\ q'.running = p.running
          /\ \A m \in 1 .. LastLevel : m # p.level => q'.counts[m] = p.counts[m]
          /\ q'.templates = IF t \in Template \ decremented /\ p.templates > 0
                           THEN p.templates - 1 ELSE p.templates
          /\ p.level <= LastLevel => q'.queues = [p.queues EXCEPT ![p.level] = @ \cup E]
          /\ originalLevel' = [u \in Task |-> IF u \in E THEN p.level ELSE originalLevel[u]]
          /\ decremented' = decremented \cup (Template \cap {t})
      BY <1>3, <3>1, EnqueueFields
    <3>4. q.level <= LastLevel /\ Template \cap {t} = {t}
      BY <1>1, <2>5, LevelFacts
    <3>5. Handles(t, e.ok, E)
      <4>1. /\ q' \in Queue /\ q'.level = q.level
            /\ q'.running = [q.running EXCEPT ![q.level] = @ - 1]
            /\ \A m \in 1 .. LastLevel : m # q.level => q'.counts[m] = q.counts[m]
            /\ q'.templates = IF E # {} /\ t \in Template \ decremented /\ q.templates > 0
                              THEN q.templates - 1 ELSE q.templates
        BY <1>3, <3>1, <3>3
      <4>2. decremented' = decremented \cup (IF E = {} THEN {} ELSE {t})
        BY <3>1, <3>3, <3>4
      <4>3. originalLevel' = [u \in Task |-> IF u \in E THEN q.level ELSE originalLevel[u]]
        BY <1>3, <3>3
      <4>4. q'.queues = [q.queues EXCEPT ![q.level] = @ \cup E]
        BY <1>3, <3>3, <3>4
      <4> QED
        BY <1>5, <2>2, <2>4, <3>2, <4>1, <4>2, <4>3, <4>4 DEF Handles
    <3> QED
      BY <2>5, <3>1, <3>5 DEF E, Handling
  <2>6. CASE ~(t \in Template /\ pendingSubTasks[t] # {})
    <3>1. q' = p /\ UNCHANGED <<originalLevel, decremented, pendingSubTasks>>
      BY <2>2, <2>6
    <3>2. Handles(t, e.ok, {})
      BY <1>3, <1>5, <1>n, <2>2, <2>4, <3>1 DEF Handles
    <3> QED
      BY <2>6, <3>2 DEF Handling
  <2> QED
    BY <2>5, <2>6
<1>6. ASSUME ~e.ok
      PROVE  Handling(t, e.ok)
  <2>1. /\ RetryTask(t, p) \/ FailTask(t, p)
        /\ UNCHANGED <<originalLevel, decremented, pendingSubTasks, parentOf>>
    BY <1>4, <1>6 DEF handleTaskFailure
  <2>2. CASE RetryTask(t, p)
    <3>1. q' = AddTasks(p, q.level, {t})
      <4>1. q.level <= q.level
        BY <1>1, LevelFacts
      <4> QED
        BY <1>1, <1>3, <2>2, <4>1 DEF RetryTask, t
    <3>2. /\ q' \in Queue /\ q'.queues = [p.queues EXCEPT ![q.level] = @ \cup {t}]
          /\ q'.running = p.running /\ q'.level = p.level /\ q'.counts = p.counts
          /\ q'.templates = p.templates
      BY <1>1, <1>3, <3>1, {t} \in SUBSET Task, AddTasksFields
    <3>3. /\ retryCount[t] < RetryCount[t] /\ retryCount' = [retryCount EXCEPT ![t] = @ + 1]
          /\ taskStatus' = [taskStatus EXCEPT ![t] = "PENDING"]
          /\ UNCHANGED <<processedNodes, errorKey, tracker, contextData, sagaVars>>
      BY <2>2 DEF RetryTask
    <3>4. Handles(t, e.ok, {})
      BY <1>2, <1>3, <1>6, <1>n, <2>1, <3>2, <3>3 DEF Handles
    <3> QED
      BY <1>6, <3>4 DEF Handling
  <2>3. CASE FailTask(t, p)
    <3> DEFINE p2 == RemoveTask(p, p.level, t)
    <3>1. /\ p2 \in Queue /\ p2.queues = [q.queues EXCEPT ![q.level] = @ \ {t}]
          /\ p2.running = p.running /\ p2.level = q.level /\ p2.counts = q.counts
          /\ p2.templates = q.templates
      BY <1>1, <1>3, RemoveTaskFields
    <3> HIDE DEF p2
    <3>2. q' = p2 \/ q' = [p2 EXCEPT !.counts[q.level] = @ - 1]
      BY <1>3, <2>3 DEF FailTask, p2
    <3>3. /\ q' \in Queue /\ q'.queues = p2.queues /\ q'.running = p2.running
          /\ q'.level = p2.level /\ q'.templates = p2.templates
          /\ \A m \in 1 .. LastLevel : m # q.level => q'.counts[m] = p2.counts[m]
      <4>1. CASE q' = p2
        BY <3>1, <4>1
      <4>2. CASE q' = [p2 EXCEPT !.counts[q.level] = @ - 1]
        <5>1. /\ q' \in Queue /\ q'.queues = p2.queues /\ q'.running = p2.running
              /\ q'.level = p2.level /\ q'.templates = p2.templates
              /\ q'.counts = [p2.counts EXCEPT ![q.level] = @ - 1]
          BY <1>1, <3>1, <4>2, CountFields
        <5> QED
          BY <3>1, <5>1, QueueShape
      <4> QED
        BY <3>2, <4>1, <4>2
    <3>4. /\ errorKey' = errorKey \cup {t} /\ taskStatus' = [taskStatus EXCEPT ![t] = "FAILED"]
          /\ processedNodes' = processedNodes \cup {t} /\ RecordFailed(t) /\ UNCHANGED retryCount
          /\ IF t \in Sub THEN countSubTask(t, FALSE, contextData)
                          ELSE UNCHANGED <<tracker, contextData>>
      BY <2>3 DEF FailTask
    <3>5. Tracked(t) /\ contextData' \in [Task -> {None} \cup SUBSET Sub]
      <4>1. CASE t \in Sub
        BY <1>1, <1>2, <3>4, <4>1, CountSubTask
      <4>2. CASE t \notin Sub
        BY <1>2, <3>4, <4>2 DEF Tracked
      <4> QED
        BY <4>1, <4>2
    <3>6. Handles(t, e.ok, {})
      BY <1>3, <1>6, <1>n, <2>1, <3>1, <3>3, <3>4, <3>5 DEF Handles
    <3> QED
      BY <1>6, <3>6 DEF Handling
  <2> QED
    BY <2>1, <2>2, <2>3
<1>7. Handling(t, e.ok)
  BY <1>5, <1>6
<1> QED
  BY <1>7 DEF e, t

\* The attempt of t is over, or back in the queue; E waits; the rest stands.
EndsAttempt(t, E) ==
  /\ E \subseteq Waiting' /\ t \in Waiting' \cup Ended'
  /\ t \in Waiting' => taskStatus'[t] # "SUCCESS" /\ UNCHANGED <<tracker, processedNodes>>
  /\ t \notin Waiting' => Tracked(t) /\ processedNodes' = processedNodes \cup {t}
  /\ \A u \in Task \ ({t} \cup E) : u \in Waiting' <=> u \in Waiting
  /\ \A u \in Task \ {t} : /\ u \in Ended' <=> u \in Ended
                           /\ taskStatus'[u] = taskStatus[u]
                           /\ u \in processedNodes' <=> u \in processedNodes
                           /\ u \in errorKey' <=> u \in errorKey

\* A handled event, with the invariants before it: where the tasks were, and
\* where they are.
HandledEvent(t, ok, E) ==
  /\ Handles(t, ok, E)
  /\ E # {} => t \in Template /\ E = pendingSubTasks[t]
  /\ E = {} /\ ok /\ t \in Template => pendingSubTasks[t] = {}
  /\ originalLevel[t] = q.level /\ q.level \in 1 .. LastLevel
  /\ t \in Away /\ t \notin Waiting
  /\ EventOK([task |-> t, ok |-> ok])
  /\ t \in Sub => parentOf[t] \in Task
  /\ \A s \in E : /\ originalLevel[s] = None /\ s \notin Away \cup Waiting /\ parentOf[s] = t
                  /\ s # t /\ s \notin processedNodes /\ taskStatus[s] # "SUCCESS"
  /\ Away' = Away \ {t} /\ Active' = Active /\ t \notin Active
  /\ Passed' = Passed \ {t} /\ Distinct(queueUpdateChan)'
  /\ EndsAttempt(t, E)
  /\ UNCHANGED <<wfTasks, taskStatusChan, held, addSubTaskChan, statsVars,
                 checkSkipped, toSubmit, exec, finalStatus, rowVars, ctlVars>>
  /\ queueUpdateChan # <<>> /\ queueUpdateChan' = Tail(queueUpdateChan)

\* An event of the queue manager takes its task off the level, and brings the
\* subtasks that were waiting for it.
LEMMA HandleFacts ==
  ASSUME TypeInv, LevelInv, OrigInv, TokenInv, SubInv, PendInv, EventInv, HandleEvent
  PROVE  \E t \in Task, ok \in BOOLEAN, E \in SUBSET Sub : HandledEvent(t, ok, E)
<1> DEFINE e == Head(queueUpdateChan)
<1>1. queueUpdateChan # <<>> /\ queueUpdateChan \in Seq(Event) /\ Distinct(queueUpdateChan)
      /\ queueUpdateChan' = Tail(queueUpdateChan)
      /\ UNCHANGED <<wfTasks, taskStatusChan, held, addSubTaskChan, statsVars,
                 checkSkipped, toSubmit, exec, finalStatus, rowVars, ctlVars>>
  BY DEF HandleEvent, TypeInv, FlowTypes, TokenInv
<1>2. /\ e \in Event /\ e.task \in Task /\ e.ok \in BOOLEAN /\ e.task \in Passed
      /\ originalLevel[e.task] = q.level /\ q.level \in 1 .. LastLevel
      /\ EventOK(e)
      /\ e.task \in Sub => parentOf[e.task] \in Task
  BY <1>1, HeadFacts
<1>3. Handling(e.task, e.ok)
  BY HandleCases
<1>4. EventOK([task |-> e.task, ok |-> e.ok])
  BY <1>2 DEF EventOK
<1>5. /\ ~InChan(Tail(queueUpdateChan), e.task) /\ Distinct(Tail(queueUpdateChan))
      /\ \A u : InChan(Tail(queueUpdateChan), u) => InChan(queueUpdateChan, u)
      /\ \A u : InChan(queueUpdateChan, u) => InChan(Tail(queueUpdateChan), u) \/ u = e.task
  BY <1>1, ChannelSteps, DistinctSteps
<1> HIDE DEF e
<1>6. PICK t \in Task, ok \in BOOLEAN :
        /\ Handling(t, ok) /\ t \in Passed
        /\ originalLevel[t] = q.level /\ q.level \in 1 .. LastLevel
        /\ EventOK([task |-> t, ok |-> ok])
        /\ t \in Sub => parentOf[t] \in Task
        /\ ~InChan(Tail(queueUpdateChan), t)
        /\ \A u : InChan(Tail(queueUpdateChan), u) => InChan(queueUpdateChan, u)
        /\ \A u : InChan(queueUpdateChan, u) => InChan(Tail(queueUpdateChan), u) \/ u = t
  <2> e.task \in Task /\ e.ok \in BOOLEAN
    BY <1>2
  <2> WITNESS e.task \in Task, e.ok \in BOOLEAN
  <2> QED
    BY <1>1, <1>2, <1>3, <1>4, <1>5
<1>7. PICK E \in SUBSET Sub : /\ Handles(t, ok, E)
                              /\ E # {} => t \in Template /\ E = pendingSubTasks[t]
                              /\ E = {} /\ ok /\ t \in Template => pendingSubTasks[t] = {}
  BY <1>6 DEF Handling
<1>8. t \in Away /\ t \notin Waiting /\ t \notin Active /\ t \notin toSubmit
      /\ t \notin Reported /\ t \notin HeldTask
  BY <1>6 DEF Away, TokenInv
<1>9. Passed' = Passed \ {t} /\ Distinct(queueUpdateChan)'
  <2>1. \A u : InChan(queueUpdateChan, u)' <=> InChan(Tail(queueUpdateChan), u)
    BY <1>1 DEF InChan
  <2> QED
    BY <1>1, <1>5, <1>6, <2>1 DEF Passed, Distinct
<1>10. toSubmit' = toSubmit /\ Active' = Active /\ Reported' = Reported /\ HeldTask' = HeldTask
  BY <1>1, PlacesFrame
<1>11. Away' = Away \ {t}
  BY <1>8, <1>9, <1>10 DEF Away
<1>12. q.level # None /\ None \notin 1 .. LastLevel
  BY <1>6, V2Assumption, LevelFacts
<1>13. ASSUME NEW s \in E
       PROVE  /\ originalLevel[s] = None /\ s \notin Away \cup Waiting /\ parentOf[s] = t
              /\ s # t /\ s \notin processedNodes /\ taskStatus[s] # "SUCCESS"
  <2>1. s \in pendingSubTasks[t] /\ s \in Sub /\ s \in Task
    BY <1>7 DEF Task
  <2>2. originalLevel[s] = None /\ parentOf[s] = t
    BY <2>1, <1>6 DEF PendInv
  <2>3. s \notin Away /\ s # t
    BY <1>6, <1>12, <2>2 DEF OrigInv
  <2>4. s \notin Waiting
    BY <1>12, <2>2 DEF LevelInv, Waiting
  <2> QED
    BY <2>1, <2>2, <2>3, <2>4 DEF SubInv, EventInv
<1>14. E \in SUBSET Task /\ {t} \in SUBSET Task /\ q \in Queue
  BY DEF Task, TypeInv, QueueTypes
<1>15. /\ taskStatus \in [Task -> {"PENDING", "SUCCESS", "FAILED"}]
       /\ processedNodes \in SUBSET Task /\ errorKey \in SUBSET Task
  BY DEF TypeInv, QueueTypes
<1>16. ASSUME /\ ok /\ Tracked(t)
            /\ q'.queues = [q.queues EXCEPT ![q.level] = @ \cup E]
            /\ processedNodes' = processedNodes \cup {t}
            /\ UNCHANGED <<errorKey, taskStatus, retryCount, sagaVars>>
       PROVE  EndsAttempt(t, E)
  <2>1. Waiting' = Waiting \cup E
    BY <1>6, <1>14, <1>16, WaitingSteps
  <2>2. t \notin Waiting'
    BY <1>8, <1>13, <2>1
  <2>3. t \in Ended'
    BY <1>6, <1>15, <1>16 DEF Ended, EventOK
  <2>4. \A u \in Task \ {t} : u \in Ended' <=> u \in Ended
    BY <1>16 DEF Ended
  <2>5. E \subseteq Waiting' /\ t \in Waiting' \cup Ended'
    BY <1>16, <2>1, <2>2, <2>3
  <2>6. /\ t \in Waiting' => taskStatus'[t] # "SUCCESS" /\ UNCHANGED <<tracker, processedNodes>>
        /\ t \notin Waiting' => Tracked(t) /\ processedNodes' = processedNodes \cup {t}
    BY <1>16, <1>8, <2>1, <2>2, <2>3
  <2>7. \A u \in Task \ ({t} \cup E) : u \in Waiting' <=> u \in Waiting
    BY <2>1
  <2>8. \A u \in Task \ {t} : taskStatus'[u] = taskStatus[u]
    BY <1>16, <2>4
  <2>9. \A u \in Task \ {t} : /\ u \in processedNodes' <=> u \in processedNodes
                              /\ u \in errorKey' <=> u \in errorKey
    BY <1>16
  <2> QED
    BY <2>4, <2>5, <2>6, <2>7, <2>8, <2>9 DEF EndsAttempt
<1>17. ASSUME /\ ~ok /\ E = {} /\ UNCHANGED tracker
            /\ q'.queues = [q.queues EXCEPT ![q.level] = @ \cup {t}]
            /\ taskStatus' = [taskStatus EXCEPT ![t] = "PENDING"]
            /\ UNCHANGED <<processedNodes, errorKey, sagaVars>>
       PROVE  EndsAttempt(t, E)
  <2>1. Waiting' = Waiting \cup {t}
    BY <1>6, <1>14, <1>17, WaitingSteps
  <2>3. taskStatus'[t] = "PENDING" /\ \A u \in Task \ {t} : taskStatus'[u] = taskStatus[u]
    BY <1>15, <1>17
  <2>4. \A u \in Task \ {t} : u \in Ended' <=> u \in Ended
    BY <1>17, <2>3 DEF Ended
  <2>5. E \subseteq Waiting' /\ t \in Waiting' \cup Ended'
    BY <1>17, <2>1, <2>3
  <2>6. /\ t \in Waiting' => taskStatus'[t] # "SUCCESS" /\ UNCHANGED <<tracker, processedNodes>>
        /\ t \notin Waiting' => Tracked(t) /\ processedNodes' = processedNodes \cup {t}
    BY <1>17, <1>8, <2>1, <2>3
  <2>7. \A u \in Task \ ({t} \cup E) : u \in Waiting' <=> u \in Waiting
    BY <2>1
  <2>8. \A u \in Task \ {t} : taskStatus'[u] = taskStatus[u]
    BY <1>17, <2>3
  <2>9. \A u \in Task \ {t} : /\ u \in processedNodes' <=> u \in processedNodes
                              /\ u \in errorKey' <=> u \in errorKey
    BY <1>17
  <2> QED
    BY <2>4, <2>5, <2>6, <2>7, <2>8, <2>9 DEF EndsAttempt
<1>18. ASSUME /\ ~ok /\ E = {} /\ Tracked(t)
            /\ q'.queues = [q.queues EXCEPT ![q.level] = @ \ {t}]
            /\ taskStatus' = [taskStatus EXCEPT ![t] = "FAILED"]
            /\ processedNodes' = processedNodes \cup {t} /\ errorKey' = errorKey \cup {t}
       PROVE  EndsAttempt(t, E)
  <2>1. Waiting' = Waiting
    BY <1>6, <1>8, <1>14, <1>18, {t} \cap Waiting = {}, WaitingSteps
  <2>3. taskStatus'[t] = "FAILED" /\ \A u \in Task \ {t} : taskStatus'[u] = taskStatus[u]
    BY <1>15, <1>18
  <2>4. t \in Ended' /\ \A u \in Task \ {t} : u \in Ended' <=> u \in Ended
    BY <1>18, <2>3 DEF Ended
  <2>5. E \subseteq Waiting' /\ t \in Waiting' \cup Ended'
    BY <1>18, <2>1, <2>4
  <2>6. /\ t \in Waiting' => taskStatus'[t] # "SUCCESS" /\ UNCHANGED <<tracker, processedNodes>>
        /\ t \notin Waiting' => Tracked(t) /\ processedNodes' = processedNodes \cup {t}
    BY <1>18, <1>8, <2>1, <2>4
  <2>7. \A u \in Task \ ({t} \cup E) : u \in Waiting' <=> u \in Waiting
    BY <2>1
  <2>8. \A u \in Task \ {t} : taskStatus'[u] = taskStatus[u]
    BY <1>18, <2>3
  <2>9. \A u \in Task \ {t} : /\ u \in processedNodes' <=> u \in processedNodes
                              /\ u \in errorKey' <=> u \in errorKey
    BY <1>18
  <2> QED
    BY <2>4, <2>5, <2>6, <2>7, <2>8, <2>9 DEF EndsAttempt
<1>19. EndsAttempt(t, E)
  BY <1>7, <1>16, <1>17, <1>18 DEF Handles
<1>20. HandledEvent(t, ok, E)
  BY <1>1, <1>6, <1>7, <1>8, <1>9, <1>10, <1>11, <1>13, <1>19 DEF HandledEvent
<1> QED
  BY <1>20

\* A handled event leaves every other level alone, and every task at its own.
LEMMA HandleLevels ==
  ASSUME TypeInv, LevelInv, OrigInv, TokenInv, NEW t \in Task, NEW ok \in BOOLEAN,
         NEW E \in SUBSET Sub, HandledEvent(t, ok, E)
  PROVE  LevelInv' /\ OrigInv' /\ TokenInv'
<1>1. /\ Handles(t, ok, E) /\ originalLevel[t] = q.level /\ q.level \in 1 .. LastLevel
      /\ Away' = Away \ {t} /\ t \notin Waiting /\ EndsAttempt(t, E)
      /\ \A s \in E : originalLevel[s] = None /\ s \notin Away \cup Waiting
  BY DEF HandledEvent
<1>2. /\ q \in Queue /\ originalLevel \in [Task -> 1 .. LastLevel + 1 \cup {None}]
      /\ q' \in Queue /\ q'.level = q.level
      /\ q'.running = [q.running EXCEPT ![q.level] = @ - 1]
      /\ \A m \in 1 .. LastLevel : m # q.level => q'.counts[m] = q.counts[m]
      /\ originalLevel' = [u \in Task |-> IF u \in E THEN q.level ELSE originalLevel[u]]
  BY <1>1 DEF TypeInv, QueueTypes, Handles
<1>q. /\ q.queues \in [1 .. LastLevel -> SUBSET Task] /\ q'.queues \in [1 .. LastLevel -> SUBSET Task]
      /\ q.running \in [1 .. LastLevel -> Int] /\ q'.running \in [1 .. LastLevel -> Int]
      /\ q.level \in Nat
  BY <1>2, QueueShape
<1>3. /\ \A u \in Task : originalLevel'[u] = IF u \in E THEN q.level ELSE originalLevel[u]
      /\ \A u \in Task \ E : originalLevel'[u] = originalLevel[u]
      /\ \A m \in 1 .. LastLevel : m # q.level => q'.running[m] = q.running[m]
  BY <1>2, QueueShape
<1>4. \E S \in SUBSET Task : /\ q'.queues = [q.queues EXCEPT ![q.level] = S]
                             /\ \A u \in S : u \in q.queues[q.level] \cup E \cup {t}
  <2>1. q.queues[q.level] \in SUBSET Task /\ E \in SUBSET Task
    BY <1>1, <1>q DEF Task
  <2> /\ q.queues[q.level] \cup E \in SUBSET Task /\ q.queues[q.level] \cup {t} \in SUBSET Task
      /\ q.queues[q.level] \ {t} \in SUBSET Task
    BY <2>1
  <2> DEFINE G(S) == q'.queues = [q.queues EXCEPT ![q.level] = S]
  <2>2. G(q.queues[q.level] \cup E) \/ G(q.queues[q.level] \cup {t}) \/ G(q.queues[q.level] \ {t})
    BY <1>1 DEF Handles
  <2>3. CASE G(q.queues[q.level] \cup E)
    <3> WITNESS q.queues[q.level] \cup E \in SUBSET Task
    <3> QED
      BY <2>3
  <2>4. CASE G(q.queues[q.level] \cup {t})
    <3> WITNESS q.queues[q.level] \cup {t} \in SUBSET Task
    <3> QED
      BY <2>4
  <2>5. CASE G(q.queues[q.level] \ {t})
    <3> WITNESS q.queues[q.level] \ {t} \in SUBSET Task
    <3> QED
      BY <2>5
  <2> QED
    BY <2>2, <2>3, <2>4, <2>5
<1>5. PICK S \in SUBSET Task : /\ q'.queues = [q.queues EXCEPT ![q.level] = S]
                               /\ \A u \in S : u \in q.queues[q.level] \cup E \cup {t}
  BY <1>4
<1>6. LevelInv'
  <2>1. SUFFICES ASSUME NEW l \in 1 .. LastLevel
        PROVE  /\ \A u \in q'.queues[l] : originalLevel'[u] = l
               /\ l < q'.level => q'.queues[l] = {} /\ q'.running[l] = 0
               /\ l > q'.level => /\ q'.queues[l] = Levels[l] /\ q'.running[l] = 0
                                  /\ q'.counts[l] = Cardinality(Levels[l] \cap Template)
    BY DEF LevelInv
  <2>0. (\A u \in q.queues[l] : originalLevel[u] = l) /\ q.queues[l] \subseteq Task
    BY <1>q DEF LevelInv
  <2>2. CASE l = q.level
    <3>1. q'.queues[l] = S
      BY <1>2, <1>5, <2>2, QueueShape
    <3>2. \A u \in q.queues[l] : originalLevel[u] = l /\ u \in Task
      BY <2>0
    <3>3. \A u \in S : originalLevel'[u] = l
      BY <1>1, <1>3, <1>5, <2>2, <3>2
    <3>4. q'.level = l /\ ~(l < l) /\ ~(l > l)
      BY <1>2, <1>q, <2>2
    <3> QED
      BY <3>1, <3>3, <3>4
  <2>3. CASE l # q.level
    <3>1. q'.queues[l] = q.queues[l] /\ q'.running[l] = q.running[l] /\ q'.counts[l] = q.counts[l]
      BY <1>2, <1>3, <1>5, <2>3, QueueShape
    <3>2. \A u \in q.queues[l] : originalLevel[u] = l /\ u \in Task /\ u \in Waiting
      BY <1>q DEF LevelInv, Waiting
    <3>3. \A u \in q.queues[l] : originalLevel'[u] = l
      BY <1>1, <1>3, <3>2
    <3> QED
      BY <1>2, <3>1, <3>3 DEF LevelInv
  <2> QED
    BY <2>2, <2>3
<1>7. OrigInv'
  <2>1. \A u \in Main : originalLevel'[u] = originalLevel[u]
    BY <1>3, V2Assumption DEF Task
  <2>2. \A s \in Sub : originalLevel'[s] # None => originalLevel'[s] <= q.level
    BY <1>1, <1>3, LevelFacts DEF OrigInv, Task
  <2>3. Away \subseteq Task
    BY PlaceTypes DEF TypeInv, FlowTypes
  <2>4. \A u \in Away' : originalLevel'[u] = q.level /\ q.level <= LastLevel
    BY <1>1, <1>3, <2>3 DEF OrigInv
  <2> QED
    BY <1>2, <2>1, <2>2, <2>4 DEF OrigInv
<1>8. TokenInv'
  <2>1. Waiting' \cap Away' = {}
    <3>1. Waiting' \subseteq Task
      BY DEF Waiting
    <3> QED
      BY <1>1, <3>1 DEF EndsAttempt, TokenInv
  <2>2. /\ toSubmit' = toSubmit /\ Active' = Active /\ Passed' = Passed \ {t}
        /\ Distinct(queueUpdateChan)' /\ UNCHANGED <<taskStatusChan, held>>
    BY DEF HandledEvent
  <2>3. Reported' = Reported /\ HeldTask' = HeldTask /\ Distinct(taskStatusChan)'
    BY <2>2, PlacesFrame DEF TokenInv, Distinct
  <2> QED
    BY <2>1, <2>2, <2>3 DEF TokenInv
<1> QED
  BY <1>6, <1>7, <1>8

\* What the counters of the levels count goes down with the event.
LEMMA HandleCounts ==
  ASSUME TypeInv, LevelInv, OrigInv, TokenInv, CountInv, TrackInv, TemplInv, SubInv,
         NEW t \in Task, NEW ok \in BOOLEAN,
         NEW E \in SUBSET Sub, HandledEvent(t, ok, E)
  PROVE  CountInv' /\ TrackInv' /\ TemplInv'
<1>1. /\ Handles(t, ok, E) /\ originalLevel[t] = q.level /\ q.level \in 1 .. LastLevel
      /\ Away' = Away \ {t} /\ t \notin Waiting /\ t \in Away /\ EndsAttempt(t, E)
      /\ E # {} => t \in Template
      /\ \A s \in E : /\ originalLevel[s] = None /\ s \notin Away \cup Waiting
                      /\ s \notin processedNodes
  BY DEF HandledEvent
<1>2. /\ q \in Queue /\ originalLevel \in [Task -> 1 .. LastLevel + 1 \cup {None}]
      /\ q' \in Queue /\ q'.level = q.level /\ tracker \in [Task -> Tracker]
      /\ q'.running = [q.running EXCEPT ![q.level] = @ - 1]
      /\ originalLevel' = [u \in Task |-> IF u \in E THEN q.level ELSE originalLevel[u]]
      /\ parentOf' = parentOf
      /\ q'.templates = IF E # {} /\ t \in Template \ decremented /\ q.templates > 0
                        THEN q.templates - 1 ELSE q.templates
      /\ decremented' = decremented \cup (IF E = {} THEN {} ELSE {t})
  BY <1>1 DEF TypeInv, QueueTypes, Handles
<1>3. \A u \in Task : /\ originalLevel'[u] = IF u \in E THEN q.level ELSE originalLevel[u]
                      /\ u \notin E => originalLevel'[u] = originalLevel[u]
  BY <1>2
<1>4. CountInv'
  <2>1. SUFFICES ASSUME NEW l \in 1 .. LastLevel
                 PROVE  q'.running[l] >= Cardinality(Counted(l)')
    BY DEF CountInv
  <2>2. Counted(l)' \subseteq Counted(l) \ {t}
    <3>1. SUFFICES ASSUME NEW u \in Task, originalLevel'[u] = l,
                          u \in Away' \/ u \notin Waiting' \cup Ended'
                   PROVE  u \in Counted(l) \ {t}
      BY DEF Counted
    <3>2. u # t /\ u \notin E
      BY <1>1, <3>1 DEF EndsAttempt
    <3>3. u \in Away \/ u \notin Waiting \cup Ended
      BY <1>1, <3>1, <3>2 DEF EndsAttempt
    <3> QED
      BY <1>3, <3>1, <3>2, <3>3 DEF Counted
  <2>3. Counted(l) \in SUBSET Task
    BY DEF Counted
  <2>4. q.running[l] >= Cardinality(Counted(l)) /\ q.running[l] \in Int
    BY <1>2, QueueShape DEF CountInv
  <2>5. /\ Cardinality(Counted(l)') <= Cardinality(Counted(l) \ {t})
        /\ Cardinality(Counted(l)') \in Nat /\ Cardinality(Counted(l)) \in Nat
        /\ Cardinality(Counted(l) \ {t}) \in Nat
        /\ Cardinality(Counted(l) \ {t}) <= Cardinality(Counted(l))
        /\ t \in Counted(l) => Cardinality(Counted(l) \ {t}) = Cardinality(Counted(l)) - 1
    <3>1. Counted(l) \ {t} \in SUBSET Task /\ Counted(l)' \in SUBSET (Counted(l) \ {t})
          /\ Counted(l) \ {t} \in SUBSET Counted(l)
      BY <2>2, <2>3
    <3> QED
      BY <2>3, <3>1, TaskCards
  <2>6. CASE l = q.level
    <3>1. q'.running[l] = q.running[l] - 1
      BY <1>2, <2>6, QueueShape
    <3>2. t \in Counted(l)
      BY <1>1, <2>6 DEF Counted
    <3> QED
      BY <2>4, <2>5, <3>1, <3>2
  <2>7. CASE l # q.level
    <3>1. q'.running[l] = q.running[l]
      BY <1>2, <2>7, QueueShape
    <3> QED
      BY <2>4, <2>5, <3>1
  <2> QED
    BY <2>6, <2>7
<1>5. TrackInv'
  <2>1. SUFFICES ASSUME NEW p \in Task
                 PROVE  /\ tracker'[p].ids = {s \in Sub : parentOf[s] = p}
                        /\ tracker'[p].completed <= Cardinality(Over(p)')
    BY <1>2 DEF TrackInv
  <2>2. /\ tracker[p].ids = {s \in Sub : parentOf[s] = p} /\ tracker[p].completed \in Nat
        /\ tracker[p].completed <= Cardinality(Over(p))
    BY <1>2 DEF TrackInv, Tracker
  <2>3. Over(p) \in SUBSET Task /\ Over(p)' \in SUBSET Task
    BY DEF Over, Task
  <2>4. Over(p) \subseteq Over(p)'
    <3>1. SUFFICES ASSUME NEW s \in Sub, parentOf[s] = p, s \in processedNodes, s \notin Away \cup Waiting
                   PROVE  s \in processedNodes' /\ s \notin Away' \cup Waiting'
      BY <1>2 DEF Over
    <3>2. s # t /\ s \notin E /\ s \in Task
      BY <1>1, <3>1 DEF Task
    <3> QED
      BY <1>1, <3>1, <3>2 DEF EndsAttempt
  <2>5. /\ Cardinality(Over(p)) <= Cardinality(Over(p)') /\ Cardinality(Over(p)) \in Nat
        /\ Cardinality(Over(p)') \in Nat
    BY <2>3, <2>4, TaskCards
  <2>6. CASE t \in Waiting'
    <3>1. tracker' = tracker
      BY <1>1, <2>6 DEF EndsAttempt
    <3> QED
      BY <2>2, <2>5, <3>1
  <2>7. CASE t \notin Waiting'
    <3>1. Tracked(t) /\ t \in processedNodes'
      BY <1>1, <2>7 DEF EndsAttempt
    <3>2. CASE t \in Sub /\ p = parentOf[t]
      <4>1. tracker'[p].ids = tracker[p].ids /\ tracker'[p].completed = tracker[p].completed + 1
        BY <3>1, <3>2 DEF Tracked
      <4>2. t \in Over(p)' /\ t \notin Over(p)
        BY <1>1, <1>2, <2>7, <3>1, <3>2 DEF Over
      <4>3. Over(p) \in SUBSET (Over(p)' \ {t}) /\ Over(p)' \ {t} \in SUBSET Task
        BY <2>3, <2>4, <4>2
      <4>4. /\ Cardinality(Over(p)' \ {t}) = Cardinality(Over(p)') - 1
            /\ Cardinality(Over(p)) <= Cardinality(Over(p)' \ {t})
        BY <2>3, <4>2, <4>3, TaskCards
      <4> QED
        BY <2>2, <2>5, <4>1, <4>4
    <3>3. CASE ~(t \in Sub /\ p = parentOf[t])
      <4>1. tracker'[p].ids = tracker[p].ids /\ tracker'[p].completed = tracker[p].completed
        BY <3>1, <3>3, V2Assumption DEF Tracked, Task
      <4> QED
        BY <2>2, <2>5, <4>1
    <3> QED
      BY <3>2, <3>3
  <2> QED
    BY <2>6, <2>7
<1>6. TemplInv'
  <2> DEFINE T == {u \in Template \ decremented : originalLevel[u] = q.level}
  <2>0. \A u \in Template : u \in Task /\ originalLevel'[u] = originalLevel[u]
    BY <1>3, V2Assumption DEF Task
  <2>1. q.templates = Cardinality(T) /\ q.level <= LastLevel /\ T \in SUBSET Task
    BY <1>1, <2>0, LevelFacts DEF TemplInv
  <2>2. \A u \in Template : u \in decremented' => originalLevel'[u] <= q.level
    BY <1>1, <1>2, <2>0, LevelFacts DEF TemplInv
  <2>3. \A u \in Template : originalLevel'[u] < q.level => u \in decremented'
    BY <1>2, <2>0 DEF TemplInv
  <2>4. q'.templates = Cardinality({u \in Template \ decremented' : originalLevel'[u] = q.level})
    <3>1. CASE E # {} /\ t \notin decremented
      <4>1. t \in T /\ {u \in Template \ decremented' : originalLevel'[u] = q.level} = T \ {t}
        BY <1>1, <1>2, <2>0, <3>1
      <4>2. Cardinality(T \ {t}) = Cardinality(T) - 1 /\ Cardinality(T) \in Nat /\ Cardinality(T) # 0
        BY <2>1, <4>1, TaskCards
      <4> HIDE DEF T
      <4>3. q'.templates = q.templates - 1
        BY <1>1, <1>2, <2>1, <3>1, <4>2
      <4> QED
        BY <2>1, <4>1, <4>2, <4>3
    <3>2. CASE ~(E # {} /\ t \notin decremented)
      <4>1. {u \in Template \ decremented' : originalLevel'[u] = q.level} = T
        BY <1>2, <2>0, <3>2
      <4>2. q'.templates = q.templates
        BY <1>2, <3>2
      <4> QED
        BY <2>1, <4>1, <4>2
    <3> QED
      BY <3>1, <3>2
  <2> QED
    BY <1>2, <2>2, <2>3, <2>4 DEF TemplInv
<1> QED
  BY <1>4, <1>5, <1>6

\* The batches on their way, and those that wait, are not touched by an event.
LEMMA HandleBatches ==
  ASSUME TypeInv, AddInv, SubInv, PendInv, NEW t \in Task, NEW ok \in BOOLEAN,
         NEW E \in SUBSET Sub, HandledEvent(t, ok, E)
  PROVE  AddInv' /\ SubInv' /\ PendInv'
<1>1. /\ Handles(t, ok, E) /\ originalLevel[t] = q.level /\ q.level \in 1 .. LastLevel
      /\ EndsAttempt(t, E) /\ UNCHANGED <<wfTasks, addSubTaskChan>>
      /\ E # {} => t \in Template /\ E = pendingSubTasks[t]
      /\ \A s \in E : originalLevel[s] = None /\ parentOf[s] = t /\ s \notin processedNodes
  BY DEF HandledEvent
<1>2. /\ originalLevel \in [Task -> 1 .. LastLevel + 1 \cup {None}]
      /\ pendingSubTasks \in [Task -> SUBSET Sub] /\ addSubTaskChan \in Seq(Caller)
      /\ parentOf \in [Sub -> Task \cup {None}]
      /\ q'.level = q.level /\ parentOf' = parentOf
      /\ originalLevel' = [u \in Task |-> IF u \in E THEN q.level ELSE originalLevel[u]]
      /\ pendingSubTasks' = [pendingSubTasks EXCEPT ![t] = @ \ E]
      /\ decremented' = decremented \cup (IF E = {} THEN {} ELSE {t})
  BY <1>1 DEF TypeInv, FlowTypes, QueueTypes, Handles
<1>3. \A u \in Task : /\ originalLevel'[u] = IF u \in E THEN q.level ELSE originalLevel[u]
                      /\ u \notin E => originalLevel'[u] = originalLevel[u]
  BY <1>2
<1>4. /\ \A p \in Task : pendingSubTasks'[p] = IF p = t THEN pendingSubTasks[t] \ E ELSE pendingSubTasks[p]
      /\ q.level # None
  BY <1>1, <1>2, V2Assumption, LevelFacts
<1>5. \A p \in Task : Started(p) => Started(p)'
  BY <1>1, <1>2, <1>3 DEF Started
<1>6. \A k \in Caller : Handled(k) => Handled(k)'
  BY <1>2 DEF Handled
<1>7. \A k \in Caller : k[2] \in Task
  BY DEF Caller
<1>8. AddInv'
  <2>1. \A i \in DOMAIN addSubTaskChan : addSubTaskChan[i] \in Caller
    BY <1>2
  <2> QED
    BY <1>1, <1>2, <1>5, <1>7, <2>1 DEF AddInv
<1>9. SubInv'
  <2>1. SUFFICES ASSUME NEW s \in Sub
        PROVE  /\ parentOf[s] # None =>
                    /\ s \in wfTasks /\ Started(parentOf[s])'
                    /\ \E k \in Caller : k[2] = parentOf[s] /\ s \in Batch(k) /\ Handled(k)'
                    /\ originalLevel'[s] = None => s \in pendingSubTasks'[parentOf[s]]
               /\ parentOf[s] = None => originalLevel'[s] = None
               /\ s \in processedNodes' => originalLevel'[s] # None
    <3>1. parentOf' = parentOf /\ wfTasks' = wfTasks
      BY <1>1, <1>2
    <3> QED
      BY <3>1 DEF SubInv
  <2>2. s \in Task /\ (parentOf[s] # None => parentOf[s] \in Task)
    BY <1>2 DEF Task
  <2>3. ASSUME parentOf[s] # None
        PROVE  /\ s \in wfTasks /\ Started(parentOf[s])'
               /\ \E k \in Caller : k[2] = parentOf[s] /\ s \in Batch(k) /\ Handled(k)'
               /\ originalLevel'[s] = None => s \in pendingSubTasks'[parentOf[s]]
    <3>1. /\ s \in wfTasks /\ Started(parentOf[s])
          /\ \E k \in Caller : k[2] = parentOf[s] /\ s \in Batch(k) /\ Handled(k)
          /\ originalLevel[s] = None => s \in pendingSubTasks[parentOf[s]]
      BY <2>3 DEF SubInv
    <3>2. s \in wfTasks /\ Started(parentOf[s])'
      <4>1. PICK p \in Task : p = parentOf[s]
        BY <2>2, <2>3
      <4>2. Started(p)'
        BY <1>5, <3>1, <4>1
      <4> QED
        BY <1>2, <3>1, <4>1, <4>2 DEF Started
    <3>3. \E k \in Caller : k[2] = parentOf[s] /\ s \in Batch(k) /\ Handled(k)'
      BY <1>6, <3>1
    <3>4. originalLevel'[s] = None => s \in pendingSubTasks'[parentOf[s]]
      BY <1>3, <1>4, <2>2, <2>3, <3>1
    <3> QED
      BY <3>2, <3>3, <3>4
  <2>4. parentOf[s] = None => originalLevel'[s] = None
    <3>1. s \in E => parentOf[s] # None
      BY <1>1, <2>2, V2Assumption
    <3> QED
      BY <1>3, <2>2, <3>1 DEF SubInv
  <2>5. s \in processedNodes' => originalLevel'[s] # None
    BY <1>1, <1>3, <1>4, <2>2 DEF SubInv, EndsAttempt
  <2> QED
    BY <2>3, <2>4, <2>5
<1>10. PendInv'
  <2>1. SUFFICES ASSUME NEW p \in Task
        PROVE  /\ \A s \in pendingSubTasks'[p] : parentOf[s] = p /\ originalLevel'[s] = None
               /\ pendingSubTasks'[p] # {} => originalLevel'[p] = q.level \/ DepPending(p)'
               /\ p \in decremented' => \E k \in Caller : k[2] = p /\ Handled(k)'
    <3>1. parentOf' = parentOf /\ q'.level = q.level
      BY <1>2
    <3> QED
      BY <3>1 DEF PendInv
  <2>2. \A s \in pendingSubTasks'[p] : parentOf[s] = p /\ originalLevel'[s] = None
    <3>1. SUFFICES ASSUME NEW s \in pendingSubTasks'[p] PROVE parentOf[s] = p /\ originalLevel'[s] = None
      OBVIOUS
    <3>2. s \in pendingSubTasks[p] /\ s \in Task
      BY <1>2, <1>4, <3>1 DEF Task
    <3>3. parentOf[s] = p /\ originalLevel[s] = None
      BY <3>2 DEF PendInv
    <3>4. s \notin E
      BY <1>1, <1>4, <3>1, <3>3
    <3> QED
      BY <1>3, <3>2, <3>3, <3>4
  <2>3. pendingSubTasks'[p] # {} => originalLevel'[p] = q.level \/ DepPending(p)'
    <3>1. pendingSubTasks'[p] # {} => originalLevel[p] = q.level \/ DepPending(p)
      BY <1>4 DEF PendInv
    <3>2. DepPending(p) => DepPending(p)'
      BY <1>2 DEF DepPending
    <3> QED
      BY <1>3, <3>1, <3>2
  <2>4. p \in decremented' => \E k \in Caller : k[2] = p /\ Handled(k)'
    <3>1. CASE p \in decremented
      BY <1>6, <3>1 DEF PendInv
    <3>2. CASE p \notin decremented /\ p \in decremented'
      <4>1. p = t /\ \E s \in E : parentOf[s] = t
        BY <1>1, <1>2, <3>2
      <4>2. PICK s \in E : parentOf[s] = t
        BY <4>1
      <4>3. parentOf[s] # None
        BY <4>2, V2Assumption
      <4> QED
        BY <1>6, <4>1, <4>2, <4>3 DEF SubInv
    <3> QED
      BY <3>1, <3>2
  <2> QED
    BY <2>2, <2>3, <2>4
<1> QED
  BY <1>8, <1>9, <1>10

\* The other events and attempts say of their tasks what they said.
LEMMA HandleEvents ==
  ASSUME TypeInv, TokenInv, EventInv, OrigInv, NEW t \in Task, NEW ok \in BOOLEAN,
         NEW E \in SUBSET Sub, HandledEvent(t, ok, E)
  PROVE  EventInv'
<1>1. /\ Handles(t, ok, E) /\ originalLevel[t] = q.level /\ q.level \in 1 .. LastLevel
      /\ EndsAttempt(t, E) /\ UNCHANGED <<taskStatusChan, held, toSubmit, exec>>
      /\ t \notin Active /\ Passed' = Passed \ {t} /\ queueUpdateChan # <<>>
      /\ queueUpdateChan' = Tail(queueUpdateChan)
      /\ \A s \in E : taskStatus[s] # "SUCCESS"
      /\ t \in Away
  BY DEF HandledEvent
<1>2. /\ originalLevel \in [Task -> 1 .. LastLevel + 1 \cup {None}]
      /\ originalLevel' = [u \in Task |-> IF u \in E THEN q.level ELSE originalLevel[u]]
      /\ taskStatusChan \in Seq(Event) /\ queueUpdateChan \in Seq(Event) /\ held \in Event \cup {None}
      /\ exec \in [Task -> Stage]
  BY <1>1 DEF TypeInv, FlowTypes, QueueTypes, Handles
<1>3. ASSUME NEW e \in Event, e.task # t, EventOK(e) PROVE EventOK(e)'
  <2>1. e.task \in Task /\ e.ok \in BOOLEAN
    BY DEF Event
  <2> QED
    BY <1>1, <1>3, <2>1 DEF EventOK, EndsAttempt
<1>4. t \in Passed
  <2>1. PICK i \in DOMAIN queueUpdateChan : queueUpdateChan[i].task = t
    <3>1. Passed' = Passed \ {t}
      BY <1>1
    <3>2. InChan(queueUpdateChan, Head(queueUpdateChan).task) /\ Head(queueUpdateChan) \in Event
      BY <1>1, <1>2, ChannelSteps
    <3>3. ~InChan(Tail(queueUpdateChan), Head(queueUpdateChan).task)
      BY <1>1, <1>2, DistinctSteps DEF TokenInv
    <3>4. Head(queueUpdateChan).task \in Passed /\ Head(queueUpdateChan).task \notin Passed'
      BY <1>1, <3>2, <3>3 DEF Passed, InChan, Event
    <3>5. Head(queueUpdateChan).task = t
      BY <3>1, <3>4
    <3> QED
      BY <3>2, <3>5 DEF InChan
  <2> QED
    BY <2>1 DEF Passed, InChan
<1>5. \A i \in DOMAIN taskStatusChan : EventOK(taskStatusChan[i])'
  <2>1. SUFFICES ASSUME NEW i \in DOMAIN taskStatusChan PROVE EventOK(taskStatusChan[i])'
    OBVIOUS
  <2>2. taskStatusChan[i] \in Event /\ taskStatusChan[i].task # t
    <3>1. taskStatusChan[i] \in Event
      BY <1>2
    <3>2. taskStatusChan[i].task \in Reported
      BY <3>1 DEF Reported, InChan, Event
    <3> QED
      BY <1>4, <3>1, <3>2 DEF TokenInv
  <2> QED
    BY <1>1, <1>3, <2>2 DEF EventInv
<1>6. \A i \in DOMAIN queueUpdateChan' : EventOK(queueUpdateChan[i])'
  <2>1. SUFFICES ASSUME NEW i \in DOMAIN queueUpdateChan' PROVE EventOK(queueUpdateChan[i])'
    OBVIOUS
  <2>2. i + 1 \in DOMAIN queueUpdateChan /\ queueUpdateChan'[i] = queueUpdateChan[i + 1]
    BY <1>1, <1>2
  <2>3. queueUpdateChan[i + 1] \in Event
    BY <1>2, <2>2
  <2>4. PICK e \in Event : e = queueUpdateChan[i + 1]
    BY <2>3
  <2>5. e.task # t
    <3>1. e.task \in Passed'
      BY <2>1, <2>2, <2>4 DEF Passed, InChan, Event
    <3> QED
      BY <1>1, <3>1
  <2>6. EventOK(e)'
    BY <1>3, <2>2, <2>4, <2>5 DEF EventInv
  <2> QED
    BY <2>2, <2>4, <2>6 DEF EventOK
<1>7. held # None => EventOK(held)'
  <2>1. held # None => held \in Event /\ held.task # t
    <3>1. held # None => held \in Event /\ held.task \in HeldTask
      BY <1>2 DEF HeldTask, Event
    <3> QED
      BY <1>4, <3>1 DEF TokenInv
  <2> QED
    BY <1>1, <1>3, <2>1 DEF EventInv, EventOK
<1>8. ASSUME NEW u \in Task
      PROVE  /\ exec[u] \in {"handler", "handlerAdded"} => EventOK([task |-> u, ok |-> TRUE])'
             /\ exec[u] = "failed" => EventOK([task |-> u, ok |-> FALSE])'
  <2>1. exec[u] # "none" => u # t
    BY <1>1 DEF Active
  <2>2. [task |-> u, ok |-> TRUE] \in Event /\ [task |-> u, ok |-> FALSE] \in Event
    BY DEF Event
  <2>3. CASE exec[u] \in {"handler", "handlerAdded"}
    <3>1. EventOK([task |-> u, ok |-> TRUE])
      BY <2>3 DEF EventInv
    <3>2. EventOK([task |-> u, ok |-> TRUE])'
      BY <1>3, <2>1, <2>2, <2>3, <3>1
    <3> QED
      BY <2>3, <3>2
  <2>4. CASE exec[u] = "failed"
    <3>1. EventOK([task |-> u, ok |-> FALSE])
      BY <2>4 DEF EventInv
    <3>2. EventOK([task |-> u, ok |-> FALSE])'
      BY <1>3, <2>1, <2>2, <2>4, <3>1
    <3> QED
      BY <2>4, <3>2
  <2> QED
    BY <2>3, <2>4
<1>9. ASSUME NEW u \in Task, taskStatus'[u] = "SUCCESS"
      PROVE  /\ originalLevel'[u] # None /\ u \notin Waiting' \cup toSubmit
             /\ exec[u] \notin {"job", "jobAdded"}
  <2>1. originalLevel'[u] = IF u \in E THEN q.level ELSE originalLevel[u]
    BY <1>2
  <2>2. CASE u = t
    <3>1. u \notin Waiting' /\ u \notin toSubmit /\ exec[u] = "none"
      BY <1>1, <1>4, <1>9, <2>2 DEF EndsAttempt, TokenInv, Active
    <3> QED
      <4>1. q.level # None
        BY <1>1, V2Assumption, LevelFacts
      <4> QED
        BY <1>1, <2>1, <2>2, <3>1, <4>1
  <2>3. CASE u # t
    <3>1. taskStatus[u] = "SUCCESS"
      BY <1>1, <1>9, <2>3 DEF EndsAttempt
    <3>2. u \notin E
      BY <1>1, <3>1
    <3> QED
      BY <1>1, <2>1, <2>3, <3>1, <3>2 DEF EndsAttempt, EventInv
  <2> QED
    BY <2>2, <2>3
<1> QED
  BY <1>1, <1>5, <1>6, <1>7, <1>8, <1>9 DEF EventInv

\* A non-empty set of numbers has a least one (MarkStep's CHOOSE).
LEMMA LeastMember ==
  ASSUME NEW S \in SUBSET Nat, S # {}
  PROVE  \E x \in S : \A y \in S : x <= y
<1>1. SUFFICES ASSUME \A x \in S : \E y \in S : y < x PROVE FALSE
  OBVIOUS
<1> DEFINE T == {n \in Nat : \A x \in S : n <= x}
<1>2. T \in SUBSET Nat /\ 0 \in T
  OBVIOUS
<1>3. \A n \in T : n + 1 \in T
  <2>1. SUFFICES ASSUME NEW n \in T, NEW x \in S PROVE n + 1 <= x
    OBVIOUS
  <2>2. n # x
    BY <1>1, <2>1
  <2> QED
    BY <2>1, <2>2
<1>4. T = Nat
  <2> HIDE DEF T
  <2> QED
    BY <1>2, <1>3, SetInduction
<1>5. PICK x \in S : TRUE
  OBVIOUS
<1>6. x + 1 \in T
  <2>1. x + 1 \in Nat
    BY <1>5
  <2> HIDE DEF T
  <2> QED
    BY <1>4, <2>1
<1> QED
  BY <1>5, <1>6

\* AddStep and the mark that follows it: one more step, and the mark on the
\* first of the task's steps.
LEMMA RecordStep ==
  ASSUME saga \in [state: SagaState, steps: Seq(SagaStep)],
         NEW t \in Task, NEW st \in {"Success", "Failed"}, NEW c \in BOOLEAN
  PROVE  LET r == MarkStep(AddStep(saga, t, st, c), t, st)
             n == Len(saga.steps) IN
         /\ r \in [state: SagaState, steps: Seq(SagaStep)] /\ r.state = saga.state
         /\ DOMAIN r.steps = 1 .. n + 1 /\ DOMAIN saga.steps = 1 .. n /\ n \in Nat
         /\ \A i \in 1 .. n :
              /\ r.steps[i].task = saga.steps[i].task
              /\ r.steps[i].compensable = saga.steps[i].compensable
              /\ r.steps[i].status = saga.steps[i].status
                   \/ (saga.steps[i].task = t /\ r.steps[i].status = st)
         /\ r.steps[n + 1] = [task |-> t, status |-> st, compensable |-> c]
         /\ \E i \in 1 .. n + 1 : r.steps[i].task = t /\ r.steps[i].status = st
<1> DEFINE n == Len(saga.steps)
           new == [task |-> t, status |-> st, compensable |-> c]
           steps == Append(saga.steps, new)
           a == AddStep(saga, t, st, c)
           Own == {i \in DOMAIN steps : steps[i].task = t}
           k == CHOOSE i \in Own : \A j \in Own : i <= j
           marked == [steps EXCEPT ![k].status = st]
<1>1. saga.steps \in Seq(SagaStep) /\ new \in SagaStep /\ n \in Nat /\ DOMAIN saga.steps = 1 .. n
  BY DEF SagaStep
<1>2. a = [saga EXCEPT !.steps = steps]
  BY DEF AddStep
<1>3. /\ steps \in Seq(SagaStep) /\ Len(steps) = n + 1 /\ DOMAIN steps = 1 .. n + 1
      /\ steps[n + 1] = new /\ \A i \in 1 .. n : steps[i] = saga.steps[i]
  <2> HIDE DEF new, n
  <2>1. /\ steps \in Seq(SagaStep) /\ Len(steps) = Len(saga.steps) + 1
        /\ steps[Len(saga.steps) + 1] = new /\ \A i \in 1 .. Len(saga.steps) : steps[i] = saga.steps[i]
    BY <1>1
  <2> HIDE DEF steps
  <2> QED
    BY <2>1 DEF n
<1> HIDE DEF steps
<1>4. a.state = saga.state /\ a.steps = steps /\ a \in [state: SagaState, steps: Seq(SagaStep)]
  BY <1>2, <1>3
<1>5. n + 1 \in Own /\ Own \in SUBSET Nat
  <2>1. new.task = t
    OBVIOUS
  <2> QED
    BY <1>1, <1>3, <2>1
<1>6. k \in Own
  <2>1. \E i \in Own : \A j \in Own : i <= j
    <3> HIDE DEF Own
    <3> QED
      BY <1>5, LeastMember
  <2> HIDE DEF Own
  <2> QED
    BY <2>1
<1>7. MarkStep(a, t, st) = [a EXCEPT !.steps = marked]
  <2>1. Own # {} /\ Own = {i \in DOMAIN a.steps : a.steps[i].task = t}
    BY <1>4, <1>5
  <2> HIDE DEF a, n, new
  <2> QED
    BY <1>4, <2>1 DEF MarkStep
<1> HIDE DEF k
<1>8. k \in 1 .. n + 1 /\ steps[k].task = t /\ \A i \in 1 .. n + 1 : steps[i] \in SagaStep
  BY <1>3, <1>6
<1> HIDE DEF Own, new, n, a
<1>9. /\ marked \in Seq(SagaStep) /\ DOMAIN marked = 1 .. n + 1
      /\ \A i \in 1 .. n + 1 : /\ marked[i].task = steps[i].task
                               /\ marked[i].compensable = steps[i].compensable
                               /\ marked[i].status = IF i = k THEN st ELSE steps[i].status
  <2>1. \A i \in 1 .. n + 1 : /\ marked[i] \in SagaStep
                              /\ marked[i].task = steps[i].task
                              /\ marked[i].compensable = steps[i].compensable
                              /\ marked[i].status = IF i = k THEN st ELSE steps[i].status
    BY <1>3, <1>8 DEF SagaStep
  <2>2. DOMAIN marked = 1 .. n + 1
    BY <1>3
  <2>3. marked \in [1 .. n + 1 -> SagaStep]
    BY <2>1, <2>2
  <2>4. PICK m \in Nat : m = n + 1
    BY <1>1
  <2>5. marked \in [1 .. m -> SagaStep]
    BY <2>3, <2>4
  <2>6. marked \in Seq(SagaStep)
    <3> HIDE DEF marked
    <3> QED
      BY <2>5
  <2> QED
    BY <2>1, <2>2, <2>6
<1> HIDE DEF marked
<1>10. marked[n + 1] = new
  <2>1. n + 1 \in 1 .. n + 1
    BY <1>1
  <2>2. marked[n + 1] \in SagaStep
    BY <1>9, <2>1
  <2>3. new.task = t /\ new.status = st /\ new.compensable = c
    BY DEF new
  <2>4. marked[n + 1].task = t /\ marked[n + 1].status = st /\ marked[n + 1].compensable = c
    BY <1>3, <1>9, <2>1, <2>3
  <2> QED
    BY <2>2, <2>4 DEF new, SagaStep
<1>11. LET r == [a EXCEPT !.steps = marked] IN
       r \in [state: SagaState, steps: Seq(SagaStep)] /\ r.state = saga.state /\ r.steps = marked
  BY <1>4, <1>9
<1>12. \A i \in 1 .. n :
              /\ marked[i].task = saga.steps[i].task
              /\ marked[i].compensable = saga.steps[i].compensable
              /\ marked[i].status = saga.steps[i].status
                   \/ (saga.steps[i].task = t /\ marked[i].status = st)
  BY <1>1, <1>3, <1>8, <1>9
<1>13. \E i \in 1 .. n + 1 : marked[i].task = t /\ marked[i].status = st
  BY <1>8, <1>9
<1>14. LET r == MarkStep(a, t, st) IN
         /\ r \in [state: SagaState, steps: Seq(SagaStep)] /\ r.state = saga.state
         /\ DOMAIN r.steps = 1 .. n + 1 /\ DOMAIN saga.steps = 1 .. n /\ n \in Nat
         /\ \A i \in 1 .. n :
              /\ r.steps[i].task = saga.steps[i].task
              /\ r.steps[i].compensable = saga.steps[i].compensable
              /\ r.steps[i].status = saga.steps[i].status
                   \/ (saga.steps[i].task = t /\ r.steps[i].status = st)
         /\ r.steps[n + 1] = new
         /\ \E i \in 1 .. n + 1 : r.steps[i].task = t /\ r.steps[i].status = st
  BY <1>1, <1>7, <1>9, <1>10, <1>11, <1>12, <1>13
<1> QED
  BY <1>14 DEF a, n, new

\* The steps of the transaction are tasks' steps.
LEMMA SagaTypes ==
  ASSUME TypeInv
  PROVE  /\ Compensable \subseteq Task /\ saga \in [state: SagaState, steps: Seq(SagaStep)]
         /\ \A i \in DOMAIN saga.steps : saga.steps[i] \in SagaStep /\ saga.steps[i].task \in Task
<1>1. saga \in [state: SagaState, steps: Seq(SagaStep)]
  BY DEF TypeInv, ControlTypes
<1>2. saga.steps \in Seq(SagaStep)
  BY <1>1
<1>3. \A i \in DOMAIN saga.steps : saga.steps[i] \in SagaStep
  BY <1>2
<1> QED
  BY <1>1, <1>3, V2Assumption DEF SagaStep

\* The transaction stands as long as no task's success comes or goes.
LEMMA SagaFrame ==
  ASSUME TypeInv, SagaInv, UNCHANGED <<sagaVars, finalStatus>>,
         \A u \in Task : \/ taskStatus'[u] = taskStatus[u] /\ (u \in Active' <=> u \in Active)
                         \/ /\ taskStatus[u] # "SUCCESS" \/ u \in Active
                            /\ taskStatus'[u] # "SUCCESS" \/ u \in Active'
  PROVE  SagaInv'
<1>1. Compensable \subseteq Task /\ \A i \in DOMAIN saga.steps : saga.steps[i].task \in Task
  BY SagaTypes
<1>2. saga' = saga /\ compensating' = compensating /\ compensated' = compensated /\ finalStatus' = finalStatus
  BY DEF sagaVars
<1>3. \A i \in DOMAIN saga.steps :
        LET t == saga.steps[i].task IN
        /\ saga.steps[i].compensable = (t \in Compensable)
        /\ saga.steps[i].status = "Success" =>
             t \in Compensable /\ taskStatus'[t] = "SUCCESS" /\ t \notin Active'
  BY <1>1 DEF SagaInv
<1>4. SagaEnabled => \A t \in Compensable \ Active' : taskStatus'[t] = "SUCCESS" =>
       \E i \in DOMAIN saga.steps : saga.steps[i].status = "Success" /\ saga.steps[i].task = t
  BY <1>1 DEF SagaInv
<1>5. /\ finalStatus = None => saga.state = "Pending" /\ compensating = {} /\ compensated = <<>>
      /\ compensating \cup ToSet(compensated) \subseteq DOMAIN saga.steps
      /\ SagaEnabled /\ finalStatus = "Success" =>
           saga.state = "Committed" /\ compensating = {} /\ compensated = <<>>
      /\ SagaEnabled /\ finalStatus = "Failed" =>
           compensating \cup ToSet(compensated) = ToCompensate(saga)
  BY DEF SagaInv
<1> QED
  BY <1>2, <1>3, <1>4, <1>5 DEF SagaInv

\* A failed attempt is recorded, while its task has no success to its name.
LEMMA FailureRecorded ==
  ASSUME TypeInv, SagaInv, NEW t \in Task, RecordFailed(t), finalStatus = None, finalStatus' = None,
         \A u \in Task \ {t} : taskStatus'[u] = taskStatus[u],
         taskStatus'[t] # "SUCCESS", Active' \ {t} = Active \ {t},
         taskStatus[t] # "SUCCESS" \/ t \in Active
  PROVE  SagaInv' /\ saga' \in [state: SagaState, steps: Seq(SagaStep)]
         /\ UNCHANGED <<compensating, compensated>>
<1>0. /\ Compensable \subseteq Task /\ \A i \in DOMAIN saga.steps : saga.steps[i].task \in Task
      /\ saga \in [state: SagaState, steps: Seq(SagaStep)]
      /\ compensating' = compensating /\ compensated' = compensated
  BY SagaTypes DEF RecordFailed
<1>1. CASE ~SagaEnabled
  <2>1. UNCHANGED <<sagaVars, finalStatus>>
    BY <1>1 DEF RecordFailed, sagaVars
  <2> QED
    BY <1>0, <2>1, SagaFrame DEF sagaVars
<1>2. CASE SagaEnabled
  <2>0. PICK c \in BOOLEAN : c = (t \in Compensable)
    <3> (t \in Compensable) \in BOOLEAN
      OBVIOUS
    <3> WITNESS (t \in Compensable) \in BOOLEAN
    <3> QED
      OBVIOUS
  <2> DEFINE r == MarkStep(AddStep(saga, t, "Failed", c), t, "Failed")
             n == Len(saga.steps)
  <2>1. saga' = r
    BY <1>2, <2>0 DEF RecordFailed
  <2>2. /\ r \in [state: SagaState, steps: Seq(SagaStep)] /\ r.state = saga.state
        /\ DOMAIN r.steps = 1 .. n + 1 /\ DOMAIN saga.steps = 1 .. n /\ n \in Nat
        /\ \A i \in 1 .. n :
              /\ r.steps[i].task = saga.steps[i].task
              /\ r.steps[i].compensable = saga.steps[i].compensable
              /\ r.steps[i].status = saga.steps[i].status
                   \/ (saga.steps[i].task = t /\ r.steps[i].status = "Failed")
        /\ r.steps[n + 1] = [task |-> t, status |-> "Failed", compensable |-> c]
    BY <1>0, "Failed" \in {"Success", "Failed"}, RecordStep
  <2> HIDE DEF r, n
  <2>3. \A i \in 1 .. n : saga.steps[i].status = "Success" => saga.steps[i].task # t
    BY <2>2 DEF SagaInv
  <2>4. \A i \in 1 .. n + 1 : i \in 1 .. n \/ i = n + 1
    BY <2>2
  <2>5. \A i \in 1 .. n + 1 :
          /\ r.steps[i].compensable = (r.steps[i].task \in Compensable)
          /\ r.steps[i].status = "Success" =>
               /\ i \in 1 .. n /\ saga.steps[i].status = "Success" /\ r.steps[i].task # t
               /\ r.steps[i].task = saga.steps[i].task
    <3>1. ASSUME NEW i \in 1 .. n
          PROVE  /\ r.steps[i].compensable = (r.steps[i].task \in Compensable)
                 /\ r.steps[i].status = "Success" =>
                      /\ saga.steps[i].status = "Success" /\ r.steps[i].task # t
                      /\ r.steps[i].task = saga.steps[i].task
      BY <2>2, <2>3 DEF SagaInv
    <3>2. r.steps[n + 1].compensable = (r.steps[n + 1].task \in Compensable) /\ r.steps[n + 1].status = "Failed"
      BY <2>0, <2>2
    <3> QED
      BY <2>4, <3>1, <3>2
  <2>6. \A i \in 1 .. n + 1 : r.steps[i].status = "Success" =>
          /\ r.steps[i].task \in Compensable /\ taskStatus'[r.steps[i].task] = "SUCCESS"
          /\ r.steps[i].task \notin Active'
    <3>1. SUFFICES ASSUME NEW i \in 1 .. n + 1, r.steps[i].status = "Success"
                   PROVE  /\ r.steps[i].task \in Compensable
                          /\ taskStatus'[r.steps[i].task] = "SUCCESS" /\ r.steps[i].task \notin Active'
      OBVIOUS
    <3>2. PICK u \in Task : u = r.steps[i].task /\ u # t /\ i \in DOMAIN saga.steps
                            /\ saga.steps[i].status = "Success" /\ saga.steps[i].task = u
      BY <1>0, <2>2, <2>5, <3>1
    <3>3. u \in Compensable /\ taskStatus[u] = "SUCCESS" /\ u \notin Active
      BY <3>2 DEF SagaInv
    <3> QED
      BY <3>2, <3>3
  <2>7. \A u \in Compensable \ Active' : taskStatus'[u] = "SUCCESS" =>
          \E i \in 1 .. n + 1 : r.steps[i].status = "Success" /\ r.steps[i].task = u
    <3>1. SUFFICES ASSUME NEW u \in Compensable \ Active', taskStatus'[u] = "SUCCESS"
                   PROVE  \E i \in 1 .. n + 1 : r.steps[i].status = "Success" /\ r.steps[i].task = u
      OBVIOUS
    <3>2. u # t /\ u \in Task /\ taskStatus[u] = "SUCCESS" /\ u \notin Active
      BY <1>0, <3>1
    <3>3. PICK i \in 1 .. n : saga.steps[i].status = "Success" /\ saga.steps[i].task = u
      BY <1>2, <2>2, <3>1, <3>2 DEF SagaInv
    <3>4. i \in 1 .. n + 1 /\ r.steps[i].status = "Success" /\ r.steps[i].task = u
      BY <2>2, <3>2, <3>3
    <3> QED
      BY <3>4
  <2>8. /\ saga.state = "Pending" /\ compensating = {} /\ compensated = <<>>
        /\ ToSet(compensated) = {} /\ finalStatus' # "Success" /\ finalStatus' # "Failed"
    <3>1. saga.state = "Pending" /\ compensating = {} /\ compensated = <<>>
      BY DEF SagaInv
    <3>2. ToSet(compensated) = {}
      BY <3>1 DEF ToSet
    <3> QED
      BY <3>1, <3>2, V2Assumption
  <2>9. /\ saga'.state = "Pending" /\ compensating' = {} /\ compensated' = <<>>
        /\ compensating' \cup ToSet(compensated') \subseteq DOMAIN saga'.steps /\ DOMAIN saga'.steps = 1 .. n + 1
    BY <1>0, <2>1, <2>2, <2>8
  <2> QED
    BY <2>1, <2>2, <2>5, <2>6, <2>7, <2>8, <2>9 DEF SagaInv
<1> QED
  BY <1>1, <1>2

\* A handled event keeps the types.
LEMMA HandleTypes ==
  ASSUME TypeInv, NEW t \in Task, NEW ok \in BOOLEAN, NEW E \in SUBSET Sub, HandledEvent(t, ok, E)
  PROVE  QueueTypes' /\ FlowTypes'
<1>1. /\ Handles(t, ok, E) /\ q.level \in 1 .. LastLevel /\ (E # {} => t \in Template)
      /\ queueUpdateChan # <<>> /\ queueUpdateChan' = Tail(queueUpdateChan)
      /\ UNCHANGED <<wfTasks, taskStatusChan, held, addSubTaskChan, statsVars,
                 checkSkipped, toSubmit, exec, finalStatus, rowVars, ctlVars>>
  BY DEF HandledEvent
<1>2. QueueTypes /\ FlowTypes
  BY DEF TypeInv
<1>3. FlowTypes'
  <2>1. queueUpdateChan \in Seq(Event) /\ Len(queueUpdateChan) <= EventCap
    BY <1>2 DEF FlowTypes
  <2>2. /\ Tail(queueUpdateChan) \in Seq(Event) /\ Len(Tail(queueUpdateChan)) = Len(queueUpdateChan) - 1
        /\ Len(queueUpdateChan) \in Nat
    BY <1>1, <2>1
  <2>3. queueUpdateChan' \in Seq(Event) /\ Len(queueUpdateChan') <= EventCap
    BY <1>1, <2>1, <2>2, V2Assumption
  <2> QED
    BY <1>1, <1>2, <2>3 DEF FlowTypes, statsVars
<1>4. QueueTypes'
  <2>1. /\ processedNodes' \in SUBSET Task /\ errorKey' \in SUBSET Task
        /\ taskStatus' \in [Task -> {"PENDING", "SUCCESS", "FAILED"}]
    BY <1>1, <1>2 DEF Handles, QueueTypes
  <2>2. retryCount' \in [Task -> Nat] /\ \A u \in Task : retryCount'[u] <= RetryCount[u]
    <3>1. CASE retryCount' = retryCount
      BY <1>2, <3>1 DEF QueueTypes
    <3>2. CASE retryCount[t] < RetryCount[t] /\ retryCount' = [retryCount EXCEPT ![t] = @ + 1]
      <4>1. retryCount \in [Task -> Nat] /\ retryCount[t] \in Nat /\ RetryCount[t] \in Nat
        BY <1>2, V2Assumption DEF QueueTypes
      <4>2. retryCount[t] + 1 \in Nat /\ retryCount[t] + 1 <= RetryCount[t]
        BY <3>2, <4>1
      <4> QED
        BY <1>2, <3>2, <4>1, <4>2 DEF QueueTypes
    <3> QED
      BY <1>1, <3>1, <3>2 DEF Handles
  <2>3. originalLevel' \in [Task -> 1 .. LastLevel + 1 \cup {None}]
    <3>1. q.level \in 1 .. LastLevel + 1
      BY <1>1, LevelFacts
    <3> QED
      BY <1>1, <1>2, <3>1 DEF Handles, QueueTypes
  <2>4. tracker' \in [Task -> Tracker]
    BY <1>1, <1>2 DEF Handles, QueueTypes, Tracked, Task
  <2>5. q' \in Queue /\ decremented' \in SUBSET Template /\ pendingSubTasks' \in [Task -> SUBSET Sub]
        /\ parentOf' \in [Sub -> Task \cup {None}] /\ contextData' \in [Task -> {None} \cup SUBSET Sub]
    BY <1>1, <1>2 DEF Handles, QueueTypes
  <2> QED
    BY <2>1, <2>2, <2>3, <2>4, <2>5 DEF QueueTypes
<1> QED
  BY <1>3, <1>4

\* A handled event keeps the invariant, in the loop and after it.
LEMMA HandleInv ==
  ASSUME V2IInv, HandleEvent, qpc \in {"select", "drain"}, qpc' \in {"check", "drain"}
  PROVE  V2IInv'
<1>1. /\ TypeInv /\ LevelInv /\ OrigInv /\ TokenInv /\ CountInv /\ TemplInv /\ AddInv /\ SubInv
      /\ TrackInv /\ PendInv /\ EventInv /\ PcInv /\ OutcomeInv /\ SagaInv
  BY DEF V2IInv
<1>2. PICK t \in Task, ok \in BOOLEAN, E \in SUBSET Sub : HandledEvent(t, ok, E)
  BY <1>1, HandleFacts
<1>3. LevelInv' /\ OrigInv' /\ TokenInv'
  BY <1>1, <1>2, HandleLevels
<1>4. CountInv' /\ TrackInv' /\ TemplInv'
  BY <1>1, <1>2, HandleCounts
<1>5. AddInv' /\ SubInv' /\ PendInv'
  BY <1>1, <1>2, HandleBatches
<1>6. EventInv'
  BY <1>1, <1>2, HandleEvents
<1>7. QueueTypes' /\ FlowTypes'
  BY <1>1, <1>2, HandleTypes
<1>8. /\ Handles(t, ok, E) /\ q.level \in 1 .. LastLevel /\ EndsAttempt(t, E)
      /\ EventOK([task |-> t, ok |-> ok]) /\ Active' = Active
      /\ UNCHANGED <<wfTasks, finalStatus, rowVars, ctlVars>>
  BY <1>2 DEF HandledEvent
<1>9. finalStatus = None /\ finalStatus' = None /\ finalStatus' # "Success"
  BY <1>1, <1>8, V2Assumption DEF PcInv
<1>10. SagaInv' /\ saga' \in [state: SagaState, steps: Seq(SagaStep)]
       /\ UNCHANGED <<compensating, compensated>>
  <2>1. CASE UNCHANGED sagaVars
    <3>1. \A u \in Task : \/ taskStatus'[u] = taskStatus[u] /\ (u \in Active' <=> u \in Active)
                          \/ /\ taskStatus[u] # "SUCCESS" \/ u \in Active
                             /\ taskStatus'[u] # "SUCCESS" \/ u \in Active'
      <4>1. \A u \in Task \ {t} : taskStatus'[u] = taskStatus[u]
        BY <1>8 DEF EndsAttempt
      <4>2. ok => taskStatus' = taskStatus
        BY <1>8 DEF Handles
      <4>3. ~ok => taskStatus[t] # "SUCCESS"
        BY <1>8 DEF EventOK
      <4>4. ~ok => taskStatus'[t] # "SUCCESS"
        <5>1. taskStatus \in [Task -> {"PENDING", "SUCCESS", "FAILED"}]
          BY <1>1 DEF TypeInv, QueueTypes
        <5> QED
          BY <1>8, <5>1 DEF Handles
      <4> QED
        BY <1>8, <4>1, <4>2, <4>3, <4>4
    <3>2. SagaInv'
      BY <1>1, <1>8, <2>1, <3>1, SagaFrame
    <3>3. UNCHANGED <<saga, compensating, compensated>>
      BY <2>1 DEF sagaVars
    <3> QED
      BY <1>1, <3>2, <3>3, SagaTypes
  <2>2. CASE ~ok /\ RecordFailed(t) /\ taskStatus' = [taskStatus EXCEPT ![t] = "FAILED"]
    <3>1. taskStatus \in [Task -> {"PENDING", "SUCCESS", "FAILED"}]
      BY <1>1 DEF TypeInv, QueueTypes
    <3>2. /\ \A u \in Task \ {t} : taskStatus'[u] = taskStatus[u]
          /\ taskStatus'[t] # "SUCCESS" /\ Active' \ {t} = Active \ {t}
      BY <1>8, <2>2, <3>1
    <3>3. taskStatus[t] # "SUCCESS"
      BY <1>8, <2>2 DEF EventOK
    <3> QED
      BY <1>1, <1>9, <2>2, <3>2, <3>3, FailureRecorded
  <2> QED
    BY <1>8, <2>1, <2>2 DEF Handles
<1>11. TypeInv'
  <2>1. ControlTypes'
    BY <1>1, <1>8, <1>9, <1>10 DEF TypeInv, ControlTypes, rowVars, ctlVars
  <2> QED
    BY <1>7, <2>1 DEF TypeInv
<1>12. PcInv'
  <2>1. q'.level = q.level /\ ~(q.level = LastLevel + 1)
    BY <1>8, LevelFacts DEF Handles
  <2>2. \A s \in Sub : originalLevel'[s] # LastLevel + 1
    <3>1. LastLevel + 1 # None /\ ~(LastLevel + 1 <= q.level)
      BY <1>8, V2Assumption, LevelFacts
    <3> QED
      BY <1>3, <2>1, <3>1 DEF OrigInv
  <2> QED
    BY <1>9, <2>2 DEF PcInv
<1>13. OutcomeInv'
  <2>1. stored' = stored /\ stored # "Success"
    BY <1>1, <1>8, <1>9 DEF OutcomeInv, rowVars
  <2> QED
    BY <1>9, <2>1 DEF OutcomeInv
<1> QED
  BY <1>3, <1>4, <1>5, <1>6, <1>10, <1>11, <1>12, <1>13 DEF V2IInv

\* queueManagerGoroutine handles an event.
LEMMA QueueEventInv ==
  ASSUME V2IInv, QueueEvent
  PROVE  V2IInv'
<1>1. HandleEvent /\ qpc = "select" /\ qpc' = "check"
  BY DEF QueueEvent, HandleEvent
<1> QED
  BY <1>1, HandleInv

-----------------------------------------------------------------------------
(* Steps that no task takes part in.                                       *)

workVars == <<queueVars, wfTasks, chanVars, toSubmit, exec>>
Work == /\ LevelInv /\ OrigInv /\ TokenInv /\ CountInv /\ TemplInv /\ AddInv /\ SubInv
        /\ TrackInv /\ PendInv /\ EventInv

\* The invariant speaks of tasks and batches, which such a step leaves alone.
LEMMA WorkFrame ==
  ASSUME Work, TypeInv, UNCHANGED workVars
  PROVE  Work' /\ QueueTypes' /\ Waiting' = Waiting /\ Away' = Away /\ Active' = Active
<1>1. /\ q' = q /\ processedNodes' = processedNodes /\ errorKey' = errorKey
      /\ taskStatus' = taskStatus /\ retryCount' = retryCount /\ originalLevel' = originalLevel
      /\ decremented' = decremented /\ pendingSubTasks' = pendingSubTasks
      /\ parentOf' = parentOf /\ tracker' = tracker /\ contextData' = contextData
      /\ wfTasks' = wfTasks /\ taskStatusChan' = taskStatusChan /\ held' = held
      /\ queueUpdateChan' = queueUpdateChan /\ addSubTaskChan' = addSubTaskChan
      /\ toSubmit' = toSubmit /\ exec' = exec
  BY DEF workVars, queueVars, handledVars, chanVars
<1>2. /\ Waiting' = Waiting /\ Active' = Active /\ Reported' = Reported /\ HeldTask' = HeldTask
      /\ Passed' = Passed
  BY <1>1, PlacesFrame
<1>3. Away' = Away
  BY <1>1, <1>2 DEF Away
<1>4. LevelInv' /\ OrigInv' /\ TokenInv' /\ TemplInv'
  BY <1>1, <1>2, <1>3 DEF Work, LevelInv, OrigInv, TokenInv, TemplInv, Distinct
<1>5. CountInv' /\ TrackInv'
  BY <1>1, <1>2, <1>3 DEF Work, CountInv, TrackInv, Counted, Ended, Over
<1>6. AddInv' /\ SubInv' /\ PendInv'
  BY <1>1 DEF Work, AddInv, SubInv, PendInv, Started, Handled, DepPending
<1>7. EventInv'
  BY <1>1, <1>2 DEF Work, EventInv, EventOK
<1>8. QueueTypes'
  BY <1>1 DEF TypeInv, QueueTypes
<1> QED
  BY <1>2, <1>3, <1>4, <1>5, <1>6, <1>7, <1>8 DEF Work

\* All parts together.
LEMMA InvParts ==
  V2IInv <=> TypeInv /\ Work /\ PcInv /\ OutcomeInv /\ SagaInv
BY DEF V2IInv, Work

\* A step of the control loop, of the users or of the stats.
LEMMA QuietInv ==
  ASSUME V2IInv, UNCHANGED <<workVars, sagaVars, qpc, finalStatus, stored, taskRow>>,
         FlowTypes', ControlTypes'
  PROVE  V2IInv'
<1>1. TypeInv /\ Work /\ PcInv /\ OutcomeInv /\ SagaInv
  BY InvParts
<1>2. Work' /\ QueueTypes' /\ Active' = Active
  BY <1>1, WorkFrame
<1>3. /\ q' = q /\ taskStatus' = taskStatus /\ originalLevel' = originalLevel
      /\ parentOf' = parentOf /\ pendingSubTasks' = pendingSubTasks /\ wfTasks' = wfTasks
  BY DEF workVars, queueVars, handledVars
<1>4. PcInv' /\ OutcomeInv'
  BY <1>1, <1>3 DEF PcInv, OutcomeInv, HeldBack
<1>5. SagaInv'
  BY <1>1, <1>2, <1>3, SagaFrame
<1>6. TypeInv'
  BY <1>2 DEF TypeInv
<1> QED
  BY <1>2, <1>4, <1>5, <1>6 DEF V2IInv, Work

\* The counters of the stats.
LEMMA StatsInv ==
  ASSUME V2IInv, QueueStats \/ StatsStep
  PROVE  V2IInv'
<1>1. /\ UNCHANGED <<workVars, sagaVars, qpc, finalStatus, stored, taskRow>>
      /\ UNCHANGED <<rowVars, ctlVars, finishedTasks>>
      /\ \/ UNCHANGED <<statsWaiting, totalTasks>>
         \/ /\ statsWaiting > 0 /\ statsWaiting' = statsWaiting - 1
            /\ totalTasks' = totalTasks + 1
  BY DEF QueueStats, StatsStep, workVars, rowVars
<1>2. FlowTypes /\ ControlTypes
  BY DEF V2IInv, TypeInv
<1>3. statsWaiting' \in Nat /\ totalTasks' \in Nat
  BY <1>1, <1>2 DEF FlowTypes
<1>4. FlowTypes'
  BY <1>1, <1>2, <1>3 DEF FlowTypes, workVars, chanVars
<1>5. ControlTypes'
  BY <1>1, <1>2 DEF ControlTypes, rowVars, ctlVars, sagaVars
<1> QED
  BY <1>1, <1>4, <1>5, QuietInv

\* Users and the control loop, but for the rows of a pause or a termination.
LEMMA ControlInv ==
  ASSUME V2IInv, SendSignal \/ ControlReceive \/ ControlExit
  PROVE  V2IInv'
<1>1. /\ UNCHANGED <<workVars, sagaVars, qpc, finalStatus, stored, taskRow>>
      /\ UNCHANGED <<statsVars>>
  BY DEF SendSignal, ControlReceive, ControlExit, workVars, rowVars
<1>2. FlowTypes /\ ControlTypes
  BY DEF V2IInv, TypeInv
<1>3. FlowTypes'
  BY <1>1, <1>2 DEF FlowTypes, workVars, chanVars, statsVars
<1>4. controlChan' \in Seq(Signal) /\ cpc' \in {"select", "returned"} \cup Signal
      /\ status' \in {"Running", "Paused", "Terminated", "Success", "Failed"}
  <2>1. CASE SendSignal
    BY <1>2, <2>1, V2Assumption DEF SendSignal, ControlTypes, Signal, rowVars
  <2>2. CASE ControlReceive
    BY <1>2, <2>2 DEF ControlReceive, ControlTypes, Signal
  <2>3. CASE ControlExit
    BY <1>2, <2>3 DEF ControlExit, ControlTypes, rowVars
  <2> QED
    BY <2>1, <2>2, <2>3
<1>5. ControlTypes'
  BY <1>1, <1>2, <1>4 DEF ControlTypes, sagaVars
<1> QED
  BY <1>1, <1>3, <1>5, QuietInv

\* The rows that a pause or a termination writes, and the instance's.
LEMMA ControlStoreInv ==
  ASSUME V2IInv, ControlStore
  PROVE  V2IInv'
<1>1. TypeInv /\ Work /\ PcInv /\ OutcomeInv /\ SagaInv
  BY InvParts
<1>2. /\ UNCHANGED <<workVars, sagaVars, qpc, finalStatus, status, controlChan>>
      /\ UNCHANGED statsVars /\ cpc' = "select" /\ stored' \in {"Running", "Paused", "Terminated"}
      /\ taskRow' \in {taskRow, [t \in Main |-> taskStatus[t]]}
  BY DEF ControlStore, workVars, SaveTaskRows
<1>3. Work' /\ QueueTypes' /\ Active' = Active
  BY <1>1, <1>2, WorkFrame
<1>4. FlowTypes' /\ ControlTypes'
  BY <1>1, <1>2 DEF TypeInv, FlowTypes, ControlTypes, workVars, chanVars, statsVars, sagaVars
<1>5. /\ q' = q /\ taskStatus' = taskStatus /\ originalLevel' = originalLevel
      /\ parentOf' = parentOf /\ pendingSubTasks' = pendingSubTasks /\ wfTasks' = wfTasks
  BY <1>2 DEF workVars, queueVars, handledVars
<1>6. PcInv'
  BY <1>1, <1>2, <1>5 DEF PcInv
<1>7. OutcomeInv'
  BY <1>1, <1>2, <1>5 DEF OutcomeInv, HeldBack
<1>8. SagaInv'
  BY <1>1, <1>2, <1>3, <1>5, SagaFrame
<1> QED
  BY <1>3, <1>4, <1>6, <1>7, <1>8 DEF TypeInv, V2IInv, Work

\* A level that is left is over: its tasks ended, each as a success or with an
\* error to its name.
LEMMA LevelOver ==
  ASSUME TypeInv, LevelInv, OrigInv, CountInv, NEW t \in Task, originalLevel[t] \in 1 .. LastLevel,
         originalLevel[t] < q.level
  PROVE  t \in Ended /\ t \notin Away /\ t \notin Waiting
<1> DEFINE l == originalLevel[t]
<1>1. q \in Queue /\ q.queues[l] = {} /\ q.running[l] = 0
  BY DEF LevelInv, TypeInv, QueueTypes
<1>2. Counted(l) = {}
  <2>1. Counted(l) \in SUBSET Task
    BY DEF Counted
  <2>2. 0 >= Cardinality(Counted(l)) /\ Cardinality(Counted(l)) \in Nat
    BY <1>1, <2>1, TaskCards DEF CountInv
  <2> QED
    BY <2>1, <2>2, TaskCards
<1>3. t \notin Waiting
  BY <1>1 DEF Waiting, LevelInv
<1> QED
  BY <1>2, <1>3 DEF Counted

\* After the last level nothing is on its way.
LEMMA NothingLeft ==
  ASSUME TypeInv, OrigInv, q.level = LastLevel + 1
  PROVE  Away = {} /\ Active = {}
BY LevelFacts DEF OrigInv, Away

\* The manager decides: what has no error has succeeded, and what has is
\* compensated.
LEMMA QueueDecideInv ==
  ASSUME V2IInv, QueueDecide
  PROVE  V2IInv'
<1>1. TypeInv /\ Work /\ PcInv /\ OutcomeInv /\ SagaInv
  BY InvParts
<1>2. /\ qpc = "decide" /\ qpc' = "save" /\ status' = finalStatus'
      /\ finalStatus' = (IF HasFailed THEN "Failed" ELSE "Success")
      /\ UNCHANGED <<workVars, compensated, stored, taskRow>>
      /\ UNCHANGED <<statsVars, ctlVars>>
  BY DEF QueueDecide, workVars
<1>3. Work' /\ QueueTypes' /\ Active' = Active
  BY <1>1, <1>2, WorkFrame
<1>4. /\ q' = q /\ taskStatus' = taskStatus /\ originalLevel' = originalLevel
      /\ parentOf' = parentOf /\ pendingSubTasks' = pendingSubTasks /\ wfTasks' = wfTasks
  BY <1>2 DEF workVars, queueVars, handledVars
<1>5. /\ q.level = LastLevel + 1 /\ finalStatus = None /\ finalStatus' # None
      /\ \A s \in Sub : originalLevel[s] # LastLevel + 1
      /\ stored # "Success"
  BY <1>1, <1>2, V2Assumption DEF PcInv, OutcomeInv
<1>6. PcInv'
  BY <1>2, <1>4, <1>5 DEF PcInv
<1>7. Active = {}
  BY <1>1, <1>5, NothingLeft DEF Work
<1>8. OutcomeInv'
  <2>1. SUFFICES ASSUME finalStatus' = "Success",
                        NEW t \in Main \cup {s \in wfTasks : parentOf[s] # None /\ ~HeldBack(s)'}
                 PROVE  taskStatus[t] = "SUCCESS"
    BY <1>2, <1>4, <1>5 DEF OutcomeInv
  <2>2. ~HasFailed
    BY <1>2, <2>1
  <2>3. /\ TypeInv /\ LevelInv /\ OrigInv /\ CountInv /\ SubInv /\ PendInv
        /\ wfTasks \subseteq Sub /\ parentOf \in [Sub -> Task \cup {None}]
        /\ originalLevel \in [Task -> 1 .. LastLevel + 1 \cup {None}]
    BY <1>1 DEF Work, TypeInv, FlowTypes, QueueTypes
  <2>4. t \in Task /\ t \notin errorKey
    BY <2>1, <2>2, <2>3 DEF HasFailed, Task
  <2>5. originalLevel[t] \in 1 .. LastLevel
    <3>1. CASE t \in Main
      BY <2>3, <3>1 DEF OrigInv
    <3>2. CASE t \in wfTasks /\ parentOf[t] # None /\ ~HeldBack(t)
      <4>1. t \in Sub /\ originalLevel[t] # LastLevel + 1
        BY <1>5, <2>3, <3>2
      <4>2. originalLevel[t] # None
        <5>1. SUFFICES ASSUME originalLevel[t] = None PROVE FALSE
          OBVIOUS
        <5>2. PICK p \in Task : p = parentOf[t]
          BY <2>3, <3>2, <4>1
        <5>3. t \in pendingSubTasks[p] /\ Started(p)
          BY <2>3, <3>2, <4>1, <5>1, <5>2 DEF SubInv
        <5>4. originalLevel[p] = q.level \/ DepPending(p)
          BY <2>3, <5>3 DEF PendInv
        <5>5. ~DepPending(p)
          BY <3>2, <5>2, <5>3 DEF HeldBack, DepPending
        <5>6. originalLevel[p] # LastLevel + 1
          <6>1. CASE p \in Sub
            BY <1>5, <6>1
          <6>2. CASE p \in Main
            <7>1. originalLevel[p] \in 1 .. LastLevel /\ LastLevel \in Nat
              BY <2>3, <6>2, LevelFacts DEF OrigInv
            <7> QED
              BY <7>1
          <6> QED
            BY <6>1, <6>2 DEF Task
        <5> QED
          BY <1>5, <5>4, <5>5, <5>6
      <4>3. LastLevel \in Nat
        BY LevelFacts
      <4> QED
        BY <2>3, <2>4, <4>1, <4>2, <4>3
    <3>3. HeldBack(t)' <=> HeldBack(t)
      BY <1>4 DEF HeldBack
    <3> QED
      BY <2>1, <3>1, <3>2, <3>3
  <2>6. originalLevel[t] < q.level
    BY <1>5, <2>5, LevelFacts
  <2>7. t \in Ended
    BY <2>3, <2>4, <2>5, <2>6, LevelOver
  <2> QED
    BY <2>4, <2>7 DEF Ended
<1>9. /\ saga \in [state: SagaState, steps: Seq(SagaStep)] /\ saga.state = "Pending"
      /\ compensating = {} /\ compensated = <<>> /\ ToSet(compensated) = {}
  <2>1. ToSet(<<>>) = {}
    BY DEF ToSet
  <2> QED
    BY <1>1, <1>5, <2>1, SagaTypes DEF SagaInv
<1>10. /\ saga' \in [state: SagaState, steps: Seq(SagaStep)] /\ saga'.steps = saga.steps
       /\ compensating' \in {{}, ToCompensate(saga)}
       /\ SagaEnabled /\ HasFailed => compensating' = ToCompensate(saga)
       /\ SagaEnabled /\ ~HasFailed => saga'.state = "Committed" /\ compensating' = {}
  <2>1. CASE ~SagaEnabled
    BY <1>9, <2>1 DEF QueueDecide
  <2>2. CASE SagaEnabled /\ HasFailed
    <3>1. saga' = Compensate(saga) /\ compensating' = ToCompensate(saga)
      BY <2>2 DEF QueueDecide
    <3>2. Compensate(saga) = [saga EXCEPT !.state = "Compensated"] \/ Compensate(saga) = saga
      BY DEF Compensate
    <3> QED
      BY <1>9, <2>2, <3>1, <3>2 DEF SagaState
  <2>3. CASE SagaEnabled /\ ~HasFailed
    <3>1. saga' = Commit(saga) /\ compensating' = {}
      BY <1>9, <2>3 DEF QueueDecide
    <3>2. Commit(saga) = [saga EXCEPT !.state = "Committed"]
      BY <1>9 DEF Commit, CanTransitionTo
    <3> QED
      BY <1>9, <2>3, <3>1, <3>2 DEF SagaState
  <2> QED
    BY <2>1, <2>2, <2>3
<1>11. SagaInv'
  <2>1. \A i \in DOMAIN saga'.steps :
       LET t == saga'.steps[i].task IN
       /\ saga'.steps[i].compensable = (t \in Compensable)
       /\ saga'.steps[i].status = "Success" =>
            t \in Compensable /\ taskStatus'[t] = "SUCCESS" /\ t \notin Active'
    BY <1>1, <1>3, <1>4, <1>10 DEF SagaInv
  <2>2. SagaEnabled => \A t \in Compensable \ Active' : taskStatus'[t] = "SUCCESS" =>
       \E i \in DOMAIN saga'.steps : saga'.steps[i].status = "Success" /\ saga'.steps[i].task = t
    BY <1>1, <1>3, <1>4, <1>10 DEF SagaInv
  <2>3. ToSet(compensated') = {} /\ compensated' = <<>>
    BY <1>2, <1>9
  <2>4. ToCompensate(saga') = ToCompensate(saga)
    BY <1>10 DEF ToCompensate
  <2>6. ToCompensate(saga) \subseteq DOMAIN saga.steps
    BY DEF ToCompensate
  <2>5. (finalStatus' = "Success" <=> ~HasFailed) /\ (finalStatus' = "Failed" <=> HasFailed)
    BY <1>2
  <2> QED
    BY <1>5, <1>10, <2>1, <2>2, <2>3, <2>4, <2>5, <2>6 DEF SagaInv
<1>12. TypeInv'
  <2>1. FlowTypes'
    BY <1>1, <1>2 DEF TypeInv, FlowTypes, workVars, chanVars, statsVars
  <2>2. ControlTypes'
    <3>1. compensating' \in SUBSET Nat
      <4>1. DOMAIN saga.steps \subseteq Nat /\ ToCompensate(saga) \subseteq DOMAIN saga.steps
        <5>1. saga.steps \in Seq(SagaStep)
          BY <1>9
        <5> QED
          BY <5>1 DEF ToCompensate
      <4> QED
        BY <1>10, <4>1
    <3> QED
      BY <1>1, <1>2, <1>10, <3>1 DEF TypeInv, ControlTypes, ctlVars
  <2> QED
    BY <1>3, <2>1, <2>2 DEF TypeInv
<1> QED
  BY <1>3, <1>6, <1>8, <1>11, <1>12 DEF V2IInv, Work

\* The manager's rows: they hold what the tasks came to.
LEMMA QueueSaveInv ==
  ASSUME V2IInv, QueueSave
  PROVE  V2IInv'
<1>1. TypeInv /\ Work /\ PcInv /\ OutcomeInv /\ SagaInv
  BY InvParts
<1>2. /\ \/ qpc = "save" /\ qpc' = "store" /\ taskRow' = [t \in Main |-> taskStatus[t]] /\ stored' = stored
         \/ qpc = "store" /\ qpc' = "returned" /\ stored' = finalStatus /\ taskRow' = taskRow
      /\ UNCHANGED <<workVars, sagaVars, finalStatus, status>>
      /\ UNCHANGED <<statsVars, ctlVars>>
  BY DEF QueueSave, workVars, SaveTaskRows
<1>3. Work' /\ QueueTypes' /\ Active' = Active
  BY <1>1, <1>2, WorkFrame
<1>4. /\ q' = q /\ taskStatus' = taskStatus /\ originalLevel' = originalLevel
      /\ parentOf' = parentOf /\ pendingSubTasks' = pendingSubTasks /\ wfTasks' = wfTasks
  BY <1>2 DEF workVars, queueVars, handledVars
<1>5. finalStatus # None /\ finalStatus \in {"Success", "Failed"}
  BY <1>1, <1>2 DEF PcInv, TypeInv, ControlTypes
<1>6. PcInv'
  BY <1>1, <1>2, <1>4, <1>5 DEF PcInv
<1>7. OutcomeInv'
  <2>1. finalStatus' = "Success" =>
          \A t \in Main \cup {s \in wfTasks : parentOf[s] # None /\ ~HeldBack(s)'} : taskStatus[t] = "SUCCESS"
    <3>1. \A s : HeldBack(s)' <=> HeldBack(s)
      BY <1>4 DEF HeldBack
    <3> QED
      BY <1>1, <1>2, <3>1 DEF OutcomeInv
  <2>2. qpc' = "store" \/ stored' = "Success" => taskRow' = [t \in Main |-> taskStatus[t]]
    BY <1>1, <1>2 DEF OutcomeInv
  <2>3. stored' = "Success" => finalStatus' = "Success"
    BY <1>1, <1>2 DEF OutcomeInv
  <2> QED
    BY <1>4, <2>1, <2>2, <2>3 DEF OutcomeInv
<1>8. SagaInv'
  BY <1>1, <1>2, <1>3, <1>4, SagaFrame
<1>9. TypeInv'
  <2>1. FlowTypes'
    BY <1>1, <1>2 DEF TypeInv, FlowTypes, workVars, chanVars, statsVars
  <2>2. ControlTypes'
    BY <1>1, <1>2, <1>5 DEF TypeInv, ControlTypes, ctlVars, sagaVars
  <2> QED
    BY <1>3, <2>1, <2>2 DEF TypeInv
<1> QED
  BY <1>3, <1>6, <1>7, <1>8, <1>9 DEF V2IInv, Work

\* A compensation that was started runs.
LEMMA CompensationInv ==
  ASSUME V2IInv, CompensationRuns
  PROVE  V2IInv'
<1>1. TypeInv /\ Work /\ PcInv /\ OutcomeInv /\ SagaInv
  BY InvParts
<1>2. PICK i \in compensating : compensating' = compensating \ {i} /\ compensated' = Append(compensated, i)
  BY DEF CompensationRuns
<1>3. /\ UNCHANGED <<workVars, saga, qpc, finalStatus, rowVars>>
      /\ UNCHANGED <<statsVars, ctlVars>>
  BY DEF CompensationRuns, workVars
<1>4. Work' /\ QueueTypes' /\ Active' = Active
  BY <1>1, <1>3, WorkFrame
<1>5. /\ q' = q /\ taskStatus' = taskStatus /\ originalLevel' = originalLevel
      /\ parentOf' = parentOf /\ pendingSubTasks' = pendingSubTasks /\ wfTasks' = wfTasks
  BY <1>3 DEF workVars, queueVars, handledVars
<1>6. /\ compensated \in Seq(Nat) /\ compensating \in SUBSET Nat /\ i \in Nat
      /\ \A t \in Task : taskStatus'[t] = taskStatus[t]
  BY <1>1, <1>2, <1>5 DEF TypeInv, ControlTypes
<1>7. /\ ToSet(compensated') = ToSet(compensated) \cup {i} /\ compensated' \in Seq(Nat)
      /\ compensating' \cup ToSet(compensated') = compensating \cup ToSet(compensated)
  <2>1. /\ DOMAIN compensated = 1 .. Len(compensated) /\ Len(compensated) \in Nat
        /\ DOMAIN compensated' = 1 .. Len(compensated) + 1
        /\ \A k \in 1 .. Len(compensated) : compensated'[k] = compensated[k]
        /\ compensated'[Len(compensated) + 1] = i /\ compensated' \in Seq(Nat)
    BY <1>2, <1>6
  <2>2. \A k \in 1 .. Len(compensated) + 1 : k \in 1 .. Len(compensated) \/ k = Len(compensated) + 1
    BY <2>1
  <2>3. ToSet(compensated') = ToSet(compensated) \cup {i}
    BY <2>1, <2>2 DEF ToSet
  <2> QED
    BY <1>2, <2>1, <2>3
<1>8. SagaInv'
  <2>1. finalStatus # None /\ finalStatus' = finalStatus
    BY <1>1, <1>2, <1>3 DEF SagaInv
  <2>2. ~(SagaEnabled /\ finalStatus = "Success")
    BY <1>1, <1>2 DEF SagaInv
  <2>3. saga' = saga /\ ToCompensate(saga') = ToCompensate(saga)
    BY <1>3
  <2>4. \A k \in DOMAIN saga.steps : saga.steps[k].task \in Task
    BY <1>1, SagaTypes
  <2>5. Compensable \subseteq Task
    BY V2Assumption
  <2>6. \A k \in DOMAIN saga'.steps :
       LET t == saga'.steps[k].task IN
       /\ saga'.steps[k].compensable = (t \in Compensable)
       /\ saga'.steps[k].status = "Success" =>
            t \in Compensable /\ taskStatus'[t] = "SUCCESS" /\ t \notin Active'
    BY <1>1, <1>4, <1>5, <2>3, <2>4 DEF SagaInv
  <2>7. SagaEnabled => \A t \in Compensable \ Active' : taskStatus'[t] = "SUCCESS" =>
       \E k \in DOMAIN saga'.steps : saga'.steps[k].status = "Success" /\ saga'.steps[k].task = t
    BY <1>1, <1>4, <1>5, <2>3, <2>5 DEF SagaInv
  <2> QED
    BY <1>1, <1>7, <2>1, <2>2, <2>3, <2>6, <2>7 DEF SagaInv
<1>9. PcInv' /\ OutcomeInv'
  BY <1>1, <1>3, <1>5 DEF PcInv, OutcomeInv, HeldBack, rowVars
<1>10. TypeInv'
  <2>1. FlowTypes'
    BY <1>1, <1>3 DEF TypeInv, FlowTypes, workVars, chanVars, statsVars
  <2>2. ControlTypes'
    BY <1>1, <1>2, <1>3, <1>6, <1>7 DEF TypeInv, ControlTypes, ctlVars, rowVars
  <2> QED
    BY <1>4, <2>1, <2>2 DEF TypeInv
<1> QED
  BY <1>4, <1>8, <1>9, <1>10 DEF V2IInv, Work

-----------------------------------------------------------------------------
(* Steps of one task on its way.                                           *)

\* Such a step takes place before the end; what remains to be seen is what it
\* does to the queues, the events and the transaction.
LEMMA MoveInv ==
  ASSUME V2IInv, MoveStep,
         UNCHANGED <<originalLevel, parentOf, tracker, decremented, pendingSubTasks,
                     finalStatus, qpc, stored, taskRow>>,
         q'.level = q.level, q'.running = q.running, q'.templates = q.templates,
         LevelInv', wfTasks \subseteq wfTasks', UNCHANGED addSubTaskChan \/ AddInv',
         \A s \in Sub : s \in processedNodes' => s \in processedNodes \/ originalLevel[s] # None,
         TypeInv', EventInv', SagaInv'
  PROVE  V2IInv'
<1>1. /\ TypeInv /\ LevelInv /\ OrigInv /\ TokenInv /\ CountInv /\ TemplInv /\ AddInv /\ SubInv
      /\ TrackInv /\ PendInv /\ EventInv /\ PcInv /\ OutcomeInv /\ SagaInv
  BY DEF V2IInv
<1>2. OrigInv' /\ CountInv' /\ TrackInv' /\ TemplInv'
  BY <1>1, MoveKeeps
<1>3. AddInv' /\ SubInv' /\ PendInv'
  BY <1>1, BatchFrame
<1>4. TokenInv'
  BY DEF MoveStep, Moves
<1>5. finalStatus = None /\ qpc # "decide" /\ qpc # "store"
  <2>1. q.level <= LastLevel /\ q.level \in Nat /\ LastLevel \in Nat
    BY <1>1, QueueShape, LevelFacts DEF MoveStep, Moves, OrigInv, TypeInv, QueueTypes
  <2>2. ~(q.level = LastLevel + 1)
    BY <2>1
  <2> QED
    BY <1>1, <2>2 DEF PcInv
<1>6. PcInv'
  BY <1>1 DEF PcInv
<1>7. OutcomeInv'
  <2>1. finalStatus # "Success" /\ stored # "Success"
    BY <1>1, <1>5, V2Assumption DEF OutcomeInv
  <2> QED
    BY <1>5, <2>1 DEF OutcomeInv
<1> QED
  BY <1>2, <1>3, <1>4, <1>6, <1>7 DEF V2IInv

\* LevelInv where the queues stand.
LEMMA LevelFrame ==
  ASSUME LevelInv, UNCHANGED <<q, originalLevel>>
  PROVE  LevelInv'
BY DEF LevelInv

\* EventInv is about channels, tasks in the executor, and tasks that wait.
LEMMA ObserverInv ==
  ASSUME V2IInv, ObserverTake \/ ObserverSend
  PROVE  V2IInv'
<1>1. /\ TypeInv /\ LevelInv /\ TokenInv /\ EventInv /\ SagaInv
  BY DEF V2IInv
<1>2. MoveStep
  BY <1>1, ObserverTakeMoves, ObserverSendMoves
<1>3. /\ UNCHANGED <<queueVars, wfTasks, addSubTaskChan, statsWaiting, statsTorn, totalTasks,
                     toSubmit, exec, sagaVars, qpc, finalStatus, rowVars, ctlVars>>
      /\ \/ /\ held = None /\ taskStatusChan # <<>> /\ held' = Head(taskStatusChan)
            /\ taskStatusChan' = Tail(taskStatusChan) /\ UNCHANGED queueUpdateChan
            /\ finishedTasks' = finishedTasks + 1
         \/ /\ held # None /\ held' = None /\ UNCHANGED <<taskStatusChan, finishedTasks>>
            /\ \/ /\ Len(queueUpdateChan) < EventCap
                  /\ queueUpdateChan' = Append(queueUpdateChan, held)
               \/ UNCHANGED queueUpdateChan
  BY DEF ObserverTake, ObserverSend, statsVars
<1>4. FlowTypes /\ QueueTypes /\ ControlTypes
  BY <1>1 DEF TypeInv
<1>5. FlowTypes'
  <2>1. CASE /\ held = None /\ taskStatusChan # <<>> /\ held' = Head(taskStatusChan)
             /\ taskStatusChan' = Tail(taskStatusChan) /\ UNCHANGED queueUpdateChan
             /\ finishedTasks' = finishedTasks + 1
    <3>1. /\ Head(taskStatusChan) \in Event /\ Tail(taskStatusChan) \in Seq(Event)
          /\ Len(Tail(taskStatusChan)) = Len(taskStatusChan) - 1 /\ Len(taskStatusChan) \in Nat
      BY <1>4, <2>1, ChannelSteps DEF FlowTypes
    <3>2. Len(taskStatusChan') <= EventCap /\ finishedTasks' \in Nat
      BY <1>4, <2>1, <3>1, V2Assumption DEF FlowTypes
    <3> QED
      BY <1>3, <1>4, <2>1, <3>1, <3>2 DEF FlowTypes
  <2>2. CASE /\ held # None /\ held' = None /\ UNCHANGED <<taskStatusChan, finishedTasks>>
             /\ Len(queueUpdateChan) < EventCap /\ queueUpdateChan' = Append(queueUpdateChan, held)
    <3>1. /\ held \in Event /\ Append(queueUpdateChan, held) \in Seq(Event)
          /\ Len(Append(queueUpdateChan, held)) = Len(queueUpdateChan) + 1 /\ Len(queueUpdateChan) \in Nat
      BY <1>4, <2>2, ChannelSteps DEF FlowTypes
    <3>2. Len(queueUpdateChan') <= EventCap
      BY <2>2, <3>1, V2Assumption
    <3> QED
      BY <1>3, <1>4, <2>2, <3>1, <3>2 DEF FlowTypes
  <2>3. CASE held # None /\ held' = None /\ UNCHANGED <<taskStatusChan, finishedTasks, queueUpdateChan>>
    BY <1>3, <1>4, <2>3 DEF FlowTypes
  <2> QED
    BY <1>3, <2>1, <2>2, <2>3
<1>6. /\ q' = q /\ taskStatus' = taskStatus /\ originalLevel' = originalLevel
      /\ processedNodes' = processedNodes /\ errorKey' = errorKey
      /\ Waiting' = Waiting /\ Active' = Active
  BY <1>3, PlacesFrame DEF queueVars, handledVars
<1>7. TypeInv'
  <2>1. QueueTypes'
    BY <1>3, <1>4 DEF QueueTypes, queueVars, handledVars
  <2>2. ControlTypes'
    BY <1>3, <1>4 DEF ControlTypes, sagaVars, rowVars, ctlVars
  <2> QED
    BY <1>5, <2>1, <2>2 DEF TypeInv
<1>8. EventInv'
  <2>0. \A e : EventOK(e)' <=> EventOK(e)
    BY <1>6 DEF EventOK
  <2>1. \A i \in DOMAIN taskStatusChan' : EventOK(taskStatusChan[i])'
    <3>1. CASE taskStatusChan' = taskStatusChan
      BY <1>1, <1>6, <3>1 DEF EventInv, EventOK
    <3>2. CASE taskStatusChan # <<>> /\ taskStatusChan' = Tail(taskStatusChan)
      <4>1. SUFFICES ASSUME NEW i \in DOMAIN taskStatusChan' PROVE EventOK(taskStatusChan[i])'
        OBVIOUS
      <4>2. i + 1 \in DOMAIN taskStatusChan /\ taskStatusChan'[i] = taskStatusChan[i + 1]
        BY <1>4, <3>2 DEF FlowTypes
      <4> QED
        BY <1>1, <1>6, <4>2 DEF EventInv, EventOK
    <3> QED
      BY <1>3, <3>1, <3>2
  <2>2. \A i \in DOMAIN queueUpdateChan' : EventOK(queueUpdateChan[i])'
    <3>1. CASE queueUpdateChan' = queueUpdateChan
      BY <1>1, <1>6, <3>1 DEF EventInv, EventOK
    <3>2. CASE held # None /\ queueUpdateChan' = Append(queueUpdateChan, held)
      <4>1. SUFFICES ASSUME NEW i \in DOMAIN queueUpdateChan' PROVE EventOK(queueUpdateChan[i])'
        OBVIOUS
      <4>2. (i \in DOMAIN queueUpdateChan /\ queueUpdateChan'[i] = queueUpdateChan[i])
              \/ queueUpdateChan'[i] = held
        BY <1>4, <3>2 DEF FlowTypes
      <4> QED
        BY <1>1, <1>6, <3>2, <4>2 DEF EventInv, EventOK
    <3> QED
      BY <1>3, <3>1, <3>2
  <2>3. held' # None => EventOK(held)'
    <3>1. CASE taskStatusChan # <<>> /\ held' = Head(taskStatusChan)
      <4>1. 1 \in DOMAIN taskStatusChan /\ held' = taskStatusChan[1]
        BY <1>4, <3>1 DEF FlowTypes
      <4> QED
        BY <1>1, <1>6, <4>1 DEF EventInv, EventOK
    <3>2. CASE held' = None
      BY <3>2
    <3> QED
      BY <1>3, <3>1, <3>2
  <2> QED
    BY <1>1, <1>3, <1>6, <2>1, <2>2, <2>3 DEF EventInv, EventOK
<1>9. SagaInv'
  BY <1>1, <1>3, <1>6, SagaFrame
<1>10. LevelInv'
  BY <1>1, <1>6, LevelFrame
<1>11. UNCHANGED <<originalLevel, parentOf, tracker, decremented, pendingSubTasks,
                   finalStatus, qpc, stored, taskRow>>
  BY <1>3 DEF queueVars, handledVars, rowVars
<1> QED
  BY <1>2, <1>3, <1>6, <1>7, <1>8, <1>9, <1>10, <1>11, MoveInv

\* Once the context is done the manager handles what is left, and returns.
LEMMA QueueDrainInv ==
  ASSUME V2IInv, QueueDrain
  PROVE  V2IInv'
<1>1. CASE queueUpdateChan # <<>>
  <2>1. HandleEvent /\ qpc \in {"select", "drain"} /\ qpc' = "drain"
    BY <1>1 DEF QueueDrain, HandleEvent
  <2> QED
    BY <2>1, HandleInv
<1>2. CASE queueUpdateChan = <<>>
  <2>1. TypeInv /\ Work /\ PcInv /\ OutcomeInv /\ SagaInv
    BY InvParts
  <2>2. /\ qpc \in {"select", "drain"} /\ qpc' = "returned"
        /\ UNCHANGED <<workVars, sagaVars, finalStatus, rowVars, ctlVars>>
        /\ UNCHANGED statsVars
    BY <1>2 DEF QueueDrain, workVars, chanVars
  <2>3. Work' /\ QueueTypes' /\ Active' = Active
    BY <2>1, <2>2, WorkFrame
  <2>4. /\ q' = q /\ taskStatus' = taskStatus /\ originalLevel' = originalLevel
        /\ parentOf' = parentOf /\ pendingSubTasks' = pendingSubTasks /\ wfTasks' = wfTasks
    BY <2>2 DEF workVars, queueVars, handledVars
  <2>5. PcInv' /\ OutcomeInv'
    BY <2>1, <2>2, <2>4 DEF PcInv, OutcomeInv, HeldBack, rowVars
  <2>6. SagaInv'
    BY <2>1, <2>2, <2>3, <2>4, SagaFrame
  <2>7. FlowTypes' /\ ControlTypes'
    BY <2>1, <2>2 DEF TypeInv, FlowTypes, ControlTypes, workVars, chanVars, statsVars,
                      sagaVars, rowVars, ctlVars
  <2> QED
    BY <2>3, <2>5, <2>6, <2>7 DEF TypeInv, V2IInv, Work
<1> QED
  BY <1>1, <1>2

\* A task that is on its way is there before the end.
LEMMA NotDecided ==
  ASSUME TypeInv, OrigInv, PcInv, Away # {}
  PROVE  finalStatus = None /\ q.level \in 1 .. LastLevel
<1>1. q.level <= LastLevel /\ q.level \in Nat /\ q.level >= 1 /\ LastLevel \in Nat
  BY QueueShape, LevelFacts DEF OrigInv, TypeInv, QueueTypes
<1>2. ~(q.level = LastLevel + 1)
  BY <1>1
<1> QED
  BY <1>1, <1>2 DEF PcInv

\* A step of a callback: it says in the transaction what its event will say.
LEMMA CallbackSaga ==
  ASSUME V2IInv, NEW t \in Task, CallbackSends(t)
  PROVE  SagaInv' /\ saga' \in [state: SagaState, steps: Seq(SagaStep)]
<1>1. TypeInv /\ OrigInv /\ TokenInv /\ EventInv /\ PcInv /\ SagaInv
  BY DEF V2IInv
<1>2. Active' = Active \ {t} /\ t \in Active /\ t \in Away
  BY <1>1, CallbackMoves DEF Moves
<1>3. /\ taskStatus' = taskStatus /\ UNCHANGED <<compensating, compensated, finalStatus>>
      /\ exec[t] \in {"handler", "handlerAdded", "failed"}
      /\ IF exec[t] = "failed" THEN UNCHANGED saga ELSE RecordSuccess(t)
  BY DEF CallbackSends, queueVars, handledVars
<1>4. finalStatus = None /\ finalStatus' = None
  BY <1>1, <1>2, <1>3, NotDecided
<1>5. /\ Compensable \subseteq Task /\ \A i \in DOMAIN saga.steps : saga.steps[i].task \in Task
      /\ saga \in [state: SagaState, steps: Seq(SagaStep)]
  BY <1>1, SagaTypes
<1>6. CASE exec[t] = "failed"
  <2>1. taskStatus[t] # "SUCCESS"
    BY <1>1, <1>6 DEF EventInv, EventOK
  <2>2. SagaInv'
    BY <1>1, <1>2, <1>3, <1>6, <2>1, SagaFrame DEF sagaVars
  <2> QED
    BY <1>3, <1>5, <1>6, <2>2
<1>7. CASE exec[t] # "failed" /\ ~(SagaEnabled /\ t \in Compensable)
  <2>1. saga' = saga
    BY <1>3, <1>7 DEF RecordSuccess
  <2>2. \A i \in DOMAIN saga.steps :
          LET u == saga.steps[i].task IN
          /\ saga.steps[i].compensable = (u \in Compensable)
          /\ saga.steps[i].status = "Success" =>
               u \in Compensable /\ taskStatus[u] = "SUCCESS" /\ u \notin Active'
    BY <1>1, <1>2 DEF SagaInv
  <2>3. SagaEnabled => \A u \in Compensable \ Active' : taskStatus[u] = "SUCCESS" =>
       \E i \in DOMAIN saga.steps : saga.steps[i].status = "Success" /\ saga.steps[i].task = u
    BY <1>1, <1>2, <1>7 DEF SagaInv
  <2>4. /\ saga.state = "Pending" /\ compensating = {} /\ compensated = <<>>
        /\ compensating \cup ToSet(compensated) \subseteq DOMAIN saga.steps
    BY <1>1, <1>4 DEF SagaInv
  <2> QED
    BY <1>3, <1>4, <1>5, <2>1, <2>2, <2>3, <2>4, V2Assumption DEF SagaInv
<1>8. CASE exec[t] # "failed" /\ SagaEnabled /\ t \in Compensable
  <2> DEFINE n == Len(saga.steps)
  <2>1. saga' = MarkStep(AddStep(saga, t, "Success", TRUE), t, "Success")
    BY <1>3, <1>8 DEF RecordSuccess
  <2>2. /\ saga' \in [state: SagaState, steps: Seq(SagaStep)] /\ saga'.state = saga.state
        /\ DOMAIN saga'.steps = 1 .. n + 1 /\ DOMAIN saga.steps = 1 .. n /\ n \in Nat
        /\ \A i \in 1 .. n :
             /\ saga'.steps[i].task = saga.steps[i].task
             /\ saga'.steps[i].compensable = saga.steps[i].compensable
             /\ saga'.steps[i].status = saga.steps[i].status
                  \/ (saga.steps[i].task = t /\ saga'.steps[i].status = "Success")
        /\ saga'.steps[n + 1] = [task |-> t, status |-> "Success", compensable |-> TRUE]
    <3> DEFINE c == TRUE
    <3>1. "Success" \in {"Success", "Failed"} /\ c \in BOOLEAN
      OBVIOUS
    <3> HIDE DEF c
    <3> DEFINE r == MarkStep(AddStep(saga, t, "Success", c), t, "Success")
    <3>2. /\ r \in [state: SagaState, steps: Seq(SagaStep)] /\ r.state = saga.state
          /\ DOMAIN r.steps = 1 .. n + 1 /\ DOMAIN saga.steps = 1 .. n /\ n \in Nat
          /\ \A i \in 1 .. n :
               /\ r.steps[i].task = saga.steps[i].task
               /\ r.steps[i].compensable = saga.steps[i].compensable
               /\ r.steps[i].status = saga.steps[i].status
                    \/ (saga.steps[i].task = t /\ r.steps[i].status = "Success")
          /\ r.steps[n + 1] = [task |-> t, status |-> "Success", compensable |-> c]
      BY <1>5, <3>1, RecordStep
    <3>3. saga' = r
      BY <2>1 DEF c
    <3>4. c = TRUE
      BY DEF c
    <3> HIDE DEF r, n
    <3> QED
      BY <3>2, <3>3, <3>4
  <2> HIDE DEF n
  <2>3. taskStatus[t] = "SUCCESS"
    BY <1>1, <1>3, <1>8 DEF EventInv, EventOK
  <2>4. \A i \in 1 .. n + 1 :
          LET u == saga'.steps[i].task IN
          /\ saga'.steps[i].compensable = (u \in Compensable)
          /\ saga'.steps[i].status = "Success" =>
               u \in Compensable /\ taskStatus[u] = "SUCCESS" /\ u \notin Active'
    <3>1. ASSUME NEW i \in 1 .. n
          PROVE  LET u == saga'.steps[i].task IN
                 /\ saga'.steps[i].compensable = (u \in Compensable)
                 /\ saga'.steps[i].status = "Success" =>
                      u \in Compensable /\ taskStatus[u] = "SUCCESS" /\ u \notin Active'
      <4> DEFINE u == saga.steps[i].task
      <4>1. /\ saga'.steps[i].task = u /\ saga'.steps[i].compensable = saga.steps[i].compensable
            /\ saga'.steps[i].status = saga.steps[i].status \/ u = t
        BY <2>2
      <4>2. /\ saga.steps[i].compensable = (u \in Compensable)
            /\ saga.steps[i].status = "Success" =>
                 u \in Compensable /\ taskStatus[u] = "SUCCESS" /\ u \notin Active
        <5>1. i \in DOMAIN saga.steps
          BY <2>2
        <5> QED
          BY <1>1, <5>1 DEF SagaInv
      <4> HIDE DEF u
      <4>3. u \notin Active => u \notin Active'
        BY <1>2
      <4>4. t \in Compensable /\ t \notin Active'
        BY <1>2, <1>8
      <4> QED
        BY <2>3, <4>1, <4>2, <4>3, <4>4
    <3>2. \A i \in 1 .. n + 1 : i \in 1 .. n \/ i = n + 1
      BY <2>2
    <3>3. /\ saga'.steps[n + 1].task = t /\ saga'.steps[n + 1].compensable = TRUE
          /\ t \notin Active'
      BY <1>2, <2>2
    <3>4. saga'.steps[n + 1].compensable = (saga'.steps[n + 1].task \in Compensable)
      BY <1>8, <3>3
    <3> QED
      BY <1>8, <2>3, <3>1, <3>2, <3>3, <3>4
  <2>5. \A u \in Compensable \ Active' : taskStatus[u] = "SUCCESS" =>
       \E i \in 1 .. n + 1 : saga'.steps[i].status = "Success" /\ saga'.steps[i].task = u
    <3>1. SUFFICES ASSUME NEW u \in Compensable \ Active', taskStatus[u] = "SUCCESS"
                   PROVE  \E i \in 1 .. n + 1 : saga'.steps[i].status = "Success" /\ saga'.steps[i].task = u
      OBVIOUS
    <3>2. CASE u = t
      <4>1. n + 1 \in 1 .. n + 1 /\ saga'.steps[n + 1].status = "Success" /\ saga'.steps[n + 1].task = t
        BY <2>2
      <4> QED
        BY <3>2, <4>1
    <3>3. CASE u # t
      <4>1. PICK i \in 1 .. n : saga.steps[i].status = "Success" /\ saga.steps[i].task = u
        BY <1>1, <1>2, <1>8, <2>2, <3>1, <3>3 DEF SagaInv
      <4>2. i \in 1 .. n + 1 /\ saga'.steps[i].status = "Success" /\ saga'.steps[i].task = u
        BY <2>2, <3>3, <4>1
      <4> QED
        BY <4>2
    <3> QED
      BY <3>2, <3>3
  <2>6. /\ saga'.state = "Pending" /\ compensating' = {} /\ compensated' = <<>>
        /\ compensating' \cup ToSet(compensated') \subseteq DOMAIN saga'.steps
    <3>1. /\ saga.state = "Pending" /\ compensating = {} /\ compensated = <<>>
          /\ compensating \cup ToSet(compensated) \subseteq DOMAIN saga.steps
      BY <1>1, <1>4 DEF SagaInv
    <3>2. DOMAIN saga.steps \subseteq DOMAIN saga'.steps
      BY <2>2
    <3> QED
      BY <1>3, <2>2, <3>1, <3>2
  <2> QED
    BY <1>3, <1>4, <2>2, <2>4, <2>5, <2>6, V2Assumption DEF SagaInv
<1> QED
  BY <1>6, <1>7, <1>8

\* The last step of a callback.
LEMMA CallbackInv ==
  ASSUME V2IInv, NEW t \in Task, CallbackSends(t)
  PROVE  V2IInv'
<1> DEFINE e == [task |-> t, ok |-> exec[t] # "failed"]
<1>1. TypeInv /\ LevelInv /\ OrigInv /\ TokenInv /\ EventInv /\ QueueTypes /\ FlowTypes /\ ControlTypes
  BY DEF V2IInv, TypeInv
<1>2. /\ exec[t] \in {"handler", "handlerAdded", "failed"} /\ exec' = [exec EXCEPT ![t] = "none"]
      /\ \/ Len(taskStatusChan) < EventCap /\ taskStatusChan' = Append(taskStatusChan, e)
         \/ UNCHANGED taskStatusChan
      /\ UNCHANGED <<queueVars, wfTasks, held, queueUpdateChan, addSubTaskChan, statsVars,
                     toSubmit, compensating, compensated, qpc, finalStatus, rowVars, ctlVars>>
  BY DEF CallbackSends, Report
<1>3. MoveStep
  BY <1>1, CallbackMoves DEF MoveStep
<1>4. /\ q' = q /\ taskStatus' = taskStatus /\ originalLevel' = originalLevel
      /\ processedNodes' = processedNodes /\ errorKey' = errorKey /\ Waiting' = Waiting
      /\ UNCHANGED <<parentOf, tracker, decremented, pendingSubTasks, stored, taskRow>>
  BY <1>2, PlacesFrame DEF queueVars, handledVars, rowVars
<1>5. e \in Event /\ EventOK(e)
  BY <1>1, <1>2 DEF Event, EventInv, EventOK
<1> HIDE DEF e
<1>6. exec \in [Task -> Stage] /\ exec' \in [Task -> Stage]
  BY <1>1, <1>2 DEF FlowTypes, Stage
<1>7. FlowTypes'
  <2>1. CASE Len(taskStatusChan) < EventCap /\ taskStatusChan' = Append(taskStatusChan, e)
    <3>1. /\ Append(taskStatusChan, e) \in Seq(Event)
          /\ Len(Append(taskStatusChan, e)) = Len(taskStatusChan) + 1 /\ Len(taskStatusChan) \in Nat
      BY <1>1, <1>5, ChannelSteps DEF FlowTypes
    <3>2. Len(taskStatusChan') <= EventCap
      BY <2>1, <3>1, V2Assumption
    <3> QED
      BY <1>1, <1>2, <1>6, <2>1, <3>1, <3>2 DEF FlowTypes, statsVars
  <2>2. CASE UNCHANGED taskStatusChan
    BY <1>1, <1>2, <1>6, <2>2 DEF FlowTypes, statsVars
  <2> QED
    BY <1>2, <2>1, <2>2
<1>8. SagaInv' /\ saga' \in [state: SagaState, steps: Seq(SagaStep)]
  BY CallbackSaga
<1>9. TypeInv'
  <2>1. QueueTypes'
    BY <1>1, <1>2 DEF QueueTypes, queueVars, handledVars
  <2>2. ControlTypes'
    BY <1>1, <1>2, <1>8 DEF ControlTypes, rowVars, ctlVars
  <2> QED
    BY <1>7, <2>1, <2>2 DEF TypeInv
<1>10. EventInv'
  <2>1. \A i \in DOMAIN taskStatusChan' : EventOK(taskStatusChan[i])'
    <3>1. CASE taskStatusChan' = taskStatusChan
      BY <1>1, <1>4, <3>1 DEF EventInv, EventOK
    <3>2. CASE taskStatusChan' = Append(taskStatusChan, e)
      <4>1. SUFFICES ASSUME NEW i \in DOMAIN taskStatusChan' PROVE EventOK(taskStatusChan[i])'
        OBVIOUS
      <4>2. (i \in DOMAIN taskStatusChan /\ taskStatusChan'[i] = taskStatusChan[i])
              \/ taskStatusChan'[i] = e
        BY <1>1, <3>2 DEF FlowTypes
      <4> QED
        BY <1>1, <1>4, <1>5, <4>2 DEF EventInv, EventOK
    <3> QED
      BY <1>2, <3>1, <3>2
  <2>2. \A i \in DOMAIN queueUpdateChan' : EventOK(queueUpdateChan[i])'
    BY <1>1, <1>2, <1>4 DEF EventInv, EventOK
  <2>3. held' # None => EventOK(held)'
    BY <1>1, <1>2, <1>4 DEF EventInv, EventOK
  <2>4. \A u \in Task : exec'[u] = exec[u] \/ exec'[u] = "none"
    BY <1>2, <1>6
  <2> QED
    BY <1>1, <1>2, <1>4, <2>1, <2>2, <2>3, <2>4 DEF EventInv, EventOK
<1>11. LevelInv'
  BY <1>1, <1>4, LevelFrame
<1> QED
  BY <1>2, <1>3, <1>4, <1>8, <1>9, <1>10, <1>11, MoveInv

\* The events of other tasks say what they said.
LEMMA EventFrame ==
  ASSUME TypeInv, EventInv, NEW t \in Task, Moves(t), t \notin Reported \cup HeldTask \cup Passed,
         UNCHANGED <<held, queueUpdateChan, originalLevel>>,
         \/ UNCHANGED taskStatusChan
         \/ /\ taskStatusChan' = Append(taskStatusChan, [task |-> t, ok |-> FALSE])
            /\ EventOK([task |-> t, ok |-> FALSE])',
         exec'[t] \in {"handler", "handlerAdded"} => EventOK([task |-> t, ok |-> TRUE])',
         exec'[t] = "failed" => EventOK([task |-> t, ok |-> FALSE])',
         taskStatus'[t] = "SUCCESS" => /\ originalLevel[t] # None
                                       /\ t \notin Waiting' \cup toSubmit'
                                       /\ exec'[t] \notin {"job", "jobAdded"}
  PROVE  EventInv'
<1>1. /\ toSubmit' \ {t} = toSubmit \ {t} /\ Waiting' \ {t} = Waiting \ {t}
      /\ \A u \in Task \ {t} : exec'[u] = exec[u] /\ taskStatus'[u] = taskStatus[u]
      /\ processedNodes' \ {t} = processedNodes \ {t} /\ errorKey' \ {t} = errorKey \ {t}
  BY DEF Moves, OnlyTask
<1>2. \A e \in Event : e.task \in Task
  BY DEF Event
<1>3. \A e \in Event : e.task # t => (EventOK(e)' <=> EventOK(e))
  BY <1>1, <1>2 DEF EventOK
<1>4. /\ taskStatusChan \in Seq(Event) /\ queueUpdateChan \in Seq(Event) /\ held \in Event \cup {None}
  BY DEF TypeInv, FlowTypes
<1>5. \A i \in DOMAIN taskStatusChan : taskStatusChan[i] \in Event /\ taskStatusChan[i].task # t
  BY <1>4 DEF Reported, InChan
<1>6. \A i \in DOMAIN queueUpdateChan : queueUpdateChan[i] \in Event /\ queueUpdateChan[i].task # t
  BY <1>4 DEF Passed, InChan
<1>7. held # None => held \in Event /\ held.task # t
  BY <1>4 DEF HeldTask
<1>8. \A i \in DOMAIN taskStatusChan' : EventOK(taskStatusChan[i])'
  <2>1. CASE taskStatusChan' = taskStatusChan
    <3>1. SUFFICES ASSUME NEW i \in DOMAIN taskStatusChan PROVE EventOK(taskStatusChan[i])'
      BY <2>1
    <3>2. PICK e \in Event : e = taskStatusChan[i]
      BY <1>5
    <3>3. EventOK(e)'
      BY <1>3, <1>5, <3>2 DEF EventInv
    <3> QED
      BY <2>1, <3>2, <3>3 DEF EventOK
  <2>2. CASE /\ taskStatusChan' = Append(taskStatusChan, [task |-> t, ok |-> FALSE])
             /\ EventOK([task |-> t, ok |-> FALSE])'
    <3>1. SUFFICES ASSUME NEW i \in DOMAIN taskStatusChan' PROVE EventOK(taskStatusChan[i])'
      OBVIOUS
    <3>2. CASE i \in DOMAIN taskStatusChan
      <4>1. PICK e \in Event : e = taskStatusChan[i] /\ taskStatusChan'[i] = e
        BY <1>4, <1>5, <2>2, <3>2
      <4>2. EventOK(e)'
        BY <1>3, <1>5, <3>2, <4>1 DEF EventInv
      <4> QED
        BY <4>1, <4>2 DEF EventOK
    <3>3. CASE i \notin DOMAIN taskStatusChan
      <4>1. taskStatusChan'[i] = [task |-> t, ok |-> FALSE]
        BY <1>4, <2>2, <3>1, <3>3
      <4> QED
        BY <2>2, <4>1 DEF EventOK
    <3> QED
      BY <3>2, <3>3
  <2> QED
    BY <2>1, <2>2
<1>9. \A i \in DOMAIN queueUpdateChan' : EventOK(queueUpdateChan[i])'
  <2>1. SUFFICES ASSUME NEW i \in DOMAIN queueUpdateChan PROVE EventOK(queueUpdateChan[i])'
    OBVIOUS
  <2>2. PICK e \in Event : e = queueUpdateChan[i]
    BY <1>6
  <2>3. EventOK(e)'
    BY <1>3, <1>6, <2>2 DEF EventInv
  <2> QED
    BY <2>2, <2>3 DEF EventOK
<1>10. held' # None => EventOK(held)'
  <2>1. SUFFICES ASSUME held # None PROVE EventOK(held)'
    OBVIOUS
  <2>2. PICK e \in Event : e = held
    BY <1>7, <2>1
  <2>3. EventOK(e)'
    BY <1>3, <1>7, <2>1, <2>2 DEF EventInv
  <2> QED
    BY <2>2, <2>3 DEF EventOK
<1>11. ASSUME NEW u \in Task, u # t
       PROVE  /\ exec'[u] \in {"handler", "handlerAdded"} => EventOK([task |-> u, ok |-> TRUE])'
              /\ exec'[u] = "failed" => EventOK([task |-> u, ok |-> FALSE])'
              /\ taskStatus'[u] = "SUCCESS" => /\ originalLevel'[u] # None
                                               /\ u \notin Waiting' \cup toSubmit'
                                               /\ exec'[u] \notin {"job", "jobAdded"}
  <2>1. /\ exec'[u] = exec[u] /\ taskStatus'[u] = taskStatus[u]
        /\ (u \in Waiting' \cup toSubmit') <=> (u \in Waiting \cup toSubmit)
    BY <1>1, <1>11
  <2>2. /\ EventOK([task |-> u, ok |-> TRUE])' <=> EventOK([task |-> u, ok |-> TRUE])
        /\ EventOK([task |-> u, ok |-> FALSE])' <=> EventOK([task |-> u, ok |-> FALSE])
    BY <1>1, <1>11 DEF EventOK
  <2> QED
    BY <2>1, <2>2 DEF EventInv
<1> QED
  BY <1>8, <1>9, <1>10, <1>11 DEF EventInv

\* A batch holds subtasks.
LEMMA BatchType ==
  ASSUME NEW c \in Caller
  PROVE  Batch(c) \subseteq Sub /\ c[2] \in Task /\ c[1] \in {"job", "handler"}
<1>1. c[2] \in Task /\ c[1] \in {"job", "handler"}
  BY DEF Caller
<1>2. JobBatch[c[2]] \in Seq(Sub) /\ HandlerBatch[c[2]] \in Seq(Sub)
  BY <1>1, V2Assumption
<1>3. \A s \in Seq(Sub) : ToSet(s) \subseteq Sub
  BY DEF ToSet
<1> QED
  BY <1>1, <1>2, <1>3 DEF Batch

\* A batch is sent once: its subtasks are in the workflow from then on.
LEMMA AddSubTasksInv ==
  ASSUME V2IInv, NEW c \in Caller, AddSubTasks(c)
  PROVE  V2IInv'
<1> DEFINE t == c[2]
<1>1. /\ TypeInv /\ LevelInv /\ OrigInv /\ TokenInv /\ EventInv /\ AddInv /\ SubInv /\ SagaInv
      /\ QueueTypes /\ FlowTypes /\ ControlTypes
  BY DEF V2IInv, TypeInv
<1>2. /\ Adding(c) /\ exec' = [exec EXCEPT ![t] = Added(c)]
      /\ \/ /\ Batch(c) \cap wfTasks = {} /\ Len(addSubTaskChan) < EventCap
            /\ wfTasks' = wfTasks \cup Batch(c) /\ addSubTaskChan' = Append(addSubTaskChan, c)
         \/ UNCHANGED <<wfTasks, addSubTaskChan>>
      /\ UNCHANGED <<queueVars, taskStatusChan, held, queueUpdateChan, statsVars,
                     toSubmit, sagaVars, qpc, finalStatus, rowVars, ctlVars>>
  BY DEF AddSubTasks
<1>3. Batch(c) \subseteq Sub /\ t \in Task /\ c[1] \in {"job", "handler"}
  BY BatchType
<1> HIDE DEF t
<1>4. Moves(t) /\ t \in Active /\ t \in Away
  BY <1>1, <1>3, ExecutorMoves DEF t, Moves
<1>5. /\ exec[t] = c[1] /\ exec'[t] = Added(c) /\ exec' \in [Task -> Stage]
      /\ \A u \in Task \ {t} : exec'[u] = exec[u]
  BY <1>1, <1>2, <1>3 DEF Adding, Added, t, FlowTypes, Stage
<1>6. /\ q' = q /\ taskStatus' = taskStatus /\ originalLevel' = originalLevel
      /\ processedNodes' = processedNodes /\ errorKey' = errorKey /\ Waiting' = Waiting
      /\ UNCHANGED <<parentOf, tracker, decremented, pendingSubTasks, stored, taskRow>>
  BY <1>2, PlacesFrame DEF queueVars, handledVars, rowVars
<1>7. EventInv'
  <2>1. t \notin Reported \cup HeldTask \cup Passed
    BY <1>1, <1>4 DEF TokenInv
  <2>2. /\ exec'[t] \in {"handler", "handlerAdded"} => EventOK([task |-> t, ok |-> TRUE])'
        /\ exec'[t] = "failed" => EventOK([task |-> t, ok |-> FALSE])'
        /\ taskStatus'[t] = "SUCCESS" => /\ originalLevel[t] # None
                                         /\ t \notin Waiting' \cup toSubmit'
                                         /\ exec'[t] \notin {"job", "jobAdded"}
    BY <1>1, <1>2, <1>3, <1>5, <1>6 DEF EventInv, EventOK, Added
  <2> QED
    BY <1>1, <1>2, <1>3, <1>4, <1>6, <2>1, <2>2, EventFrame
<1>8. UNCHANGED addSubTaskChan \/ AddInv'
  <2>1. SUFFICES ASSUME /\ Batch(c) \cap wfTasks = {} /\ wfTasks' = wfTasks \cup Batch(c)
                        /\ addSubTaskChan' = Append(addSubTaskChan, c)
                 PROVE  AddInv'
    BY <1>2
  <2>2. /\ Batch(c) # {} /\ Started(t) /\ \A s \in Batch(c) : parentOf[s] = None
    <3>1. originalLevel[t] = q.level /\ q.level \in Nat
      BY <1>1, <1>4, QueueShape DEF OrigInv, QueueTypes
    <3>2. Started(t)
      BY <3>1, V2Assumption DEF Started
    <3> QED
      BY <1>1, <1>2, <1>3, <2>1, <3>2 DEF Adding, SubInv
  <2>3. \A i \in DOMAIN addSubTaskChan : addSubTaskChan[i] \in Caller /\ addSubTaskChan[i] # c
    BY <1>1, <2>1, <2>2 DEF FlowTypes, AddInv
  <2>4. /\ DOMAIN addSubTaskChan' = DOMAIN addSubTaskChan \cup {Len(addSubTaskChan) + 1}
        /\ Len(addSubTaskChan) + 1 \notin DOMAIN addSubTaskChan
        /\ addSubTaskChan'[Len(addSubTaskChan) + 1] = c
        /\ \A i \in DOMAIN addSubTaskChan : addSubTaskChan'[i] = addSubTaskChan[i]
    BY <1>1, <2>1 DEF FlowTypes
  <2>5. \A i \in DOMAIN addSubTaskChan' :
          LET k == addSubTaskChan'[i] IN
          /\ Batch(k) # {} /\ Batch(k) \subseteq wfTasks'
          /\ originalLevel'[k[2]] # None /\ originalLevel'[k[2]] <= q'.level
          /\ \A s \in Batch(k) : parentOf'[s] = None
    <3>1. ASSUME NEW i \in DOMAIN addSubTaskChan
          PROVE  LET k == addSubTaskChan'[i] IN
                 /\ Batch(k) # {} /\ Batch(k) \subseteq wfTasks'
                 /\ originalLevel'[k[2]] # None /\ originalLevel'[k[2]] <= q'.level
                 /\ \A s \in Batch(k) : parentOf'[s] = None
      BY <1>1, <1>6, <2>1, <2>4 DEF AddInv, Started
    <3>2. /\ Batch(c) # {} /\ Batch(c) \subseteq wfTasks'
          /\ originalLevel'[c[2]] # None /\ originalLevel'[c[2]] <= q'.level
          /\ \A s \in Batch(c) : parentOf'[s] = None
      BY <1>6, <2>1, <2>2 DEF Started, t
    <3> QED
      BY <2>4, <3>1, <3>2
  <2>6. \A i, j \in DOMAIN addSubTaskChan' : addSubTaskChan'[i] = addSubTaskChan'[j] => i = j
    BY <1>1, <2>3, <2>4 DEF AddInv
  <2> QED
    BY <2>5, <2>6 DEF AddInv, Started
<1>9. TypeInv'
  <2>1. FlowTypes'
    <3>1. /\ wfTasks' \in SUBSET Sub
          /\ addSubTaskChan' \in Seq(Caller) /\ Len(addSubTaskChan') <= EventCap
      <4>1. CASE Len(addSubTaskChan) < EventCap /\ addSubTaskChan' = Append(addSubTaskChan, c)
                   /\ wfTasks' = wfTasks \cup Batch(c)
        <5>1. /\ Append(addSubTaskChan, c) \in Seq(Caller) /\ Len(addSubTaskChan) \in Nat
              /\ Len(Append(addSubTaskChan, c)) = Len(addSubTaskChan) + 1
          BY <1>1 DEF FlowTypes
        <5>2. Len(addSubTaskChan') <= EventCap
          BY <4>1, <5>1, V2Assumption
        <5> QED
          BY <1>1, <1>3, <4>1, <5>1, <5>2 DEF FlowTypes
      <4>2. CASE UNCHANGED <<wfTasks, addSubTaskChan>>
        BY <1>1, <4>2 DEF FlowTypes
      <4> QED
        BY <1>2, <4>1, <4>2
    <3> QED
      BY <1>1, <1>2, <1>5, <3>1 DEF FlowTypes, statsVars
  <2>2. QueueTypes'
    BY <1>1, <1>2 DEF QueueTypes, queueVars, handledVars
  <2>3. ControlTypes'
    BY <1>1, <1>2 DEF ControlTypes, rowVars, ctlVars, sagaVars
  <2> QED
    BY <2>1, <2>2, <2>3 DEF TypeInv
<1>10. SagaInv'
  <2>1. \A u \in Task : u \in Active' <=> u \in Active
    BY <1>3, <1>5, <1>4 DEF Active, Added
  <2> QED
    BY <1>1, <1>2, <1>6, <2>1, SagaFrame
<1>11. LevelInv' /\ MoveStep /\ wfTasks \subseteq wfTasks'
  BY <1>1, <1>2, <1>3, <1>4, <1>6, LevelFrame DEF MoveStep
<1> QED
  BY <1>2, <1>6, <1>7, <1>8, <1>9, <1>10, <1>11, MoveInv

\* A job succeeds, or has been done already.
LEMMA JobSucceedsInv ==
  ASSUME V2IInv, NEW t \in Task, JobSucceeds(t)
  PROVE  V2IInv'
<1>1. /\ TypeInv /\ LevelInv /\ OrigInv /\ TokenInv /\ EventInv /\ SagaInv
      /\ QueueTypes /\ FlowTypes /\ ControlTypes
  BY DEF V2IInv, TypeInv
<1>2. /\ exec[t] \in {"job", "jobAdded"}
      /\ \/ /\ exec' = [exec EXCEPT ![t] = "none"] /\ taskStatus' = taskStatus
         \/ /\ t \notin processedNodes /\ exec' = [exec EXCEPT ![t] = "handler"]
            /\ taskStatus' = [taskStatus EXCEPT ![t] = "SUCCESS"]
      /\ UNCHANGED <<q, processedNodes, errorKey, retryCount, originalLevel,
                 decremented, pendingSubTasks, parentOf, tracker, contextData,
                 wfTasks, chanVars, statsVars, checkSkipped, toSubmit, sagaVars,
                 qpc, finalStatus, rowVars, ctlVars>>
  BY DEF JobSucceeds
<1>3. Moves(t) /\ t \in Active /\ t \in Away /\ t \notin Reported \cup HeldTask \cup Passed
      /\ t \notin Waiting \cup toSubmit
  BY <1>1, ExecutorMoves DEF Moves, TokenInv
<1>4. /\ exec' \in [Task -> Stage] /\ taskStatus' \in [Task -> {"PENDING", "SUCCESS", "FAILED"}]
      /\ \A u \in Task \ {t} : exec'[u] = exec[u] /\ taskStatus'[u] = taskStatus[u]
      /\ \/ exec'[t] = "none" /\ taskStatus'[t] = taskStatus[t]
         \/ t \notin processedNodes /\ exec'[t] = "handler" /\ taskStatus'[t] = "SUCCESS"
  BY <1>1, <1>2 DEF QueueTypes, FlowTypes, Stage
<1>5. /\ q' = q /\ originalLevel' = originalLevel /\ processedNodes' = processedNodes
      /\ errorKey' = errorKey /\ Waiting' = Waiting /\ toSubmit' = toSubmit
      /\ UNCHANGED <<parentOf, tracker, decremented, pendingSubTasks, stored, taskRow>>
      /\ UNCHANGED <<taskStatusChan, held, queueUpdateChan, addSubTaskChan>>
  BY <1>2, PlacesFrame DEF rowVars, chanVars
<1>6. taskStatus[t] # "SUCCESS" /\ originalLevel[t] # None
  <2>1. originalLevel[t] = q.level /\ q.level \in Nat
    BY <1>1, <1>3, QueueShape DEF OrigInv, QueueTypes
  <2> QED
    BY <1>1, <1>2, <2>1, V2Assumption DEF EventInv
<1>7. EventInv'
  <2>1. /\ exec'[t] \in {"handler", "handlerAdded"} => EventOK([task |-> t, ok |-> TRUE])'
        /\ exec'[t] = "failed" => EventOK([task |-> t, ok |-> FALSE])'
        /\ taskStatus'[t] = "SUCCESS" => /\ originalLevel[t] # None
                                         /\ t \notin Waiting' \cup toSubmit'
                                         /\ exec'[t] \notin {"job", "jobAdded"}
    BY <1>3, <1>4, <1>5, <1>6 DEF EventOK
  <2> QED
    BY <1>1, <1>3, <1>5, <2>1, EventFrame
<1>8. TypeInv'
  <2>1. QueueTypes'
    BY <1>1, <1>2, <1>4 DEF QueueTypes
  <2>2. FlowTypes'
    BY <1>1, <1>2, <1>4 DEF FlowTypes, statsVars, chanVars
  <2>3. ControlTypes'
    BY <1>1, <1>2 DEF ControlTypes, rowVars, ctlVars, sagaVars
  <2> QED
    BY <2>1, <2>2, <2>3 DEF TypeInv
<1>9. SagaInv'
  <2>1. \A u \in Task : \/ taskStatus'[u] = taskStatus[u] /\ (u \in Active' <=> u \in Active)
                        \/ /\ taskStatus[u] # "SUCCESS" \/ u \in Active
                           /\ taskStatus'[u] # "SUCCESS" \/ u \in Active'
    BY <1>3, <1>4, <1>6 DEF Active
  <2>2. UNCHANGED <<sagaVars, finalStatus>>
    BY <1>2
  <2> QED
    BY <1>1, <2>1, <2>2, SagaFrame
<1>10. LevelInv' /\ MoveStep /\ wfTasks' = wfTasks
  BY <1>1, <1>2, <1>3, <1>5, LevelFrame DEF MoveStep
<1> QED
  BY <1>2, <1>5, <1>7, <1>8, <1>9, <1>10, MoveInv

\* A job fails.
LEMMA JobFailsInv ==
  ASSUME V2IInv, NEW t \in Task, JobFails(t)
  PROVE  V2IInv'
<1>1. /\ TypeInv /\ LevelInv /\ OrigInv /\ TokenInv /\ EventInv /\ SagaInv /\ PcInv
      /\ QueueTypes /\ FlowTypes /\ ControlTypes
  BY DEF V2IInv, TypeInv
<1>2. /\ exec[t] \in {"job", "jobAdded"}
      /\ exec' = [exec EXCEPT ![t] = "failed"] /\ taskStatus' = [taskStatus EXCEPT ![t] = "FAILED"]
      /\ errorKey' = errorKey \cup {t} /\ RecordFailed(t)
      /\ UNCHANGED <<q, processedNodes, retryCount, originalLevel, decremented,
                 pendingSubTasks, parentOf, tracker, contextData, wfTasks,
                 chanVars, statsVars, checkSkipped, toSubmit, qpc, finalStatus,
                 rowVars, ctlVars>>
  BY DEF JobFails
<1>3. Moves(t) /\ t \in Active /\ t \in Away /\ t \notin Reported \cup HeldTask \cup Passed
  BY <1>1, ExecutorMoves DEF Moves, TokenInv
<1>4. /\ exec' \in [Task -> Stage] /\ taskStatus' \in [Task -> {"PENDING", "SUCCESS", "FAILED"}]
      /\ \A u \in Task \ {t} : exec'[u] = exec[u] /\ taskStatus'[u] = taskStatus[u]
      /\ exec'[t] = "failed" /\ taskStatus'[t] = "FAILED"
  BY <1>1, <1>2 DEF QueueTypes, FlowTypes, Stage
<1>5. /\ q' = q /\ originalLevel' = originalLevel /\ processedNodes' = processedNodes
      /\ t \in errorKey' /\ finalStatus' = finalStatus
      /\ UNCHANGED <<parentOf, tracker, decremented, pendingSubTasks, stored, taskRow>>
      /\ UNCHANGED <<taskStatusChan, held, queueUpdateChan, addSubTaskChan>>
  BY <1>2 DEF rowVars, chanVars
<1>6. EventInv'
  <2>1. /\ exec'[t] \in {"handler", "handlerAdded"} => EventOK([task |-> t, ok |-> TRUE])'
        /\ exec'[t] = "failed" => EventOK([task |-> t, ok |-> FALSE])'
        /\ taskStatus'[t] = "SUCCESS" => /\ originalLevel[t] # None
                                         /\ t \notin Waiting' \cup toSubmit'
                                         /\ exec'[t] \notin {"job", "jobAdded"}
    BY <1>4, <1>5 DEF EventOK
  <2> QED
    BY <1>1, <1>3, <1>5, <2>1, EventFrame
<1>7. SagaInv' /\ saga' \in [state: SagaState, steps: Seq(SagaStep)]
      /\ UNCHANGED <<compensating, compensated>>
  <2>1. finalStatus = None /\ finalStatus' = None
    BY <1>1, <1>3, <1>5, NotDecided
  <2>2. taskStatus'[t] # "SUCCESS" /\ Active' \ {t} = Active \ {t}
    BY <1>4 DEF Active
  <2> QED
    BY <1>1, <1>2, <1>3, <1>4, <2>1, <2>2, FailureRecorded
<1>8. TypeInv'
  <2>1. QueueTypes'
    BY <1>1, <1>2, <1>4 DEF QueueTypes
  <2>2. FlowTypes'
    BY <1>1, <1>2, <1>4 DEF FlowTypes, statsVars, chanVars
  <2>3. ControlTypes'
    BY <1>1, <1>2, <1>7 DEF ControlTypes, rowVars, ctlVars
  <2> QED
    BY <2>1, <2>2, <2>3 DEF TypeInv
<1>9. LevelInv' /\ MoveStep /\ wfTasks' = wfTasks
  BY <1>1, <1>2, <1>3, <1>5, LevelFrame DEF MoveStep
<1> QED
  BY <1>2, <1>5, <1>6, <1>7, <1>8, <1>9, MoveInv

\* The submission takes the next task of its batch.
LEMMA SubmitInv ==
  ASSUME V2IInv, SubmitNext
  PROVE  V2IInv'
<1>1. /\ TypeInv /\ LevelInv /\ OrigInv /\ TokenInv /\ EventInv /\ SagaInv
      /\ QueueTypes /\ FlowTypes /\ ControlTypes
  BY DEF V2IInv, TypeInv
<1>2. PICK t \in toSubmit :
    /\ t \in Task /\ t \in Away /\ t \notin Waiting /\ originalLevel[t] = q.level
    /\ q.level \in 1 .. LastLevel /\ q \in Queue /\ q' \in Queue
    /\ toSubmit' = toSubmit \ {t}
    /\ q'.running = q.running /\ q'.level = q.level /\ q'.templates = q.templates
    /\ \A l \in 1 .. LastLevel : l # q.level => q'.counts[l] = q.counts[l]
    /\ UNCHANGED <<originalLevel, decremented, pendingSubTasks, parentOf, tracker,
                   contextData, wfTasks, held, queueUpdateChan, addSubTaskChan,
                   statsVars, checkSkipped, sagaVars, qpc, finalStatus, rowVars, ctlVars>>
    /\ \/ Skip(t)
       \/ Drop(t)
       \/ Submit(t)
       \/ /\ q'.queues = [q.queues EXCEPT ![q.level] = @ \cup {t}]
          /\ taskStatus' = [taskStatus EXCEPT ![t] = "PENDING"]
          /\ retryCount[t] < RetryCount[t] /\ retryCount' = [retryCount EXCEPT ![t] = @ + 1]
          /\ UNCHANGED <<processedNodes, errorKey, exec, taskStatusChan>>
       \/ /\ q'.queues = [q.queues EXCEPT ![q.level] = @ \ {t}]
          /\ MarkFailed(t)
          /\ UNCHANGED <<exec, taskStatusChan, retryCount>>
  BY <1>1, SubmitCases
<1> DEFINE e == [task |-> t, ok |-> FALSE]
<1>3. t \notin Active \cup Reported \cup HeldTask \cup Passed
  BY <1>1 DEF TokenInv
<1>4. /\ exec \in [Task -> Stage] /\ taskStatus \in [Task -> {"PENDING", "SUCCESS", "FAILED"}]
      /\ taskStatusChan \in Seq(Event) /\ Len(taskStatusChan) <= EventCap /\ e \in Event
      /\ processedNodes \subseteq Task /\ errorKey \subseteq Task
      /\ retryCount \in [Task -> Nat] /\ \A u \in Task : retryCount[u] <= RetryCount[u]
  BY <1>1, <1>2 DEF QueueTypes, FlowTypes, Event
<1>5. taskStatus[t] # "SUCCESS" /\ exec[t] = "none"
  BY <1>1, <1>2, <1>3 DEF EventInv, Active
<1>6. /\ exec' \in [Task -> Stage] /\ exec'[t] \in {"none", "job"}
      /\ taskStatus' \in [Task -> {"PENDING", "SUCCESS", "FAILED"}] /\ taskStatus'[t] # "SUCCESS"
      /\ processedNodes' \in SUBSET Task /\ errorKey' \in SUBSET Task
      /\ \A u \in Task \ {t} : exec'[u] = exec[u] /\ taskStatus'[u] = taskStatus[u]
      /\ processedNodes' \subseteq processedNodes \cup {t}
      /\ \/ q'.queues = q.queues
         \/ q'.queues = [q.queues EXCEPT ![q.level] = @ \cup {t}]
         \/ q'.queues = [q.queues EXCEPT ![q.level] = @ \ {t}]
  <2>1. CASE Skip(t)
    BY <1>2, <1>4, <1>5, <2>1 DEF Skip, MarkFailed
  <2>2. CASE Drop(t)
    BY <1>2, <1>4, <1>5, <2>2 DEF Drop
  <2>3. CASE Submit(t)
    BY <1>2, <1>4, <1>5, <2>3 DEF Submit, Stage
  <2>4. CASE /\ q'.queues = [q.queues EXCEPT ![q.level] = @ \cup {t}]
             /\ taskStatus' = [taskStatus EXCEPT ![t] = "PENDING"]
             /\ UNCHANGED <<processedNodes, errorKey, exec>>
    BY <1>2, <1>4, <1>5, <2>4
  <2>5. CASE /\ q'.queues = [q.queues EXCEPT ![q.level] = @ \ {t}]
             /\ MarkFailed(t) /\ UNCHANGED exec
    BY <1>2, <1>4, <1>5, <2>5 DEF MarkFailed
  <2> QED
    BY <1>2, <2>1, <2>2, <2>3, <2>4, <2>5
<1>7. \/ UNCHANGED taskStatusChan
      \/ /\ Len(taskStatusChan) < EventCap /\ taskStatusChan' = Append(taskStatusChan, e)
         /\ EventOK(e)'
  <2>1. CASE Skip(t)
    <3>1. EventOK(e)'
      BY <1>2, <1>4, <2>1 DEF Skip, MarkFailed, EventOK
    <3> QED
      BY <2>1, <3>1 DEF Skip
  <2> QED
    BY <1>2, <2>1 DEF Drop, Submit
<1>8. retryCount' \in [Task -> Nat] /\ \A u \in Task : retryCount'[u] <= RetryCount[u]
  <2>1. CASE retryCount' = retryCount
    BY <1>4, <2>1
  <2>2. CASE retryCount[t] < RetryCount[t] /\ retryCount' = [retryCount EXCEPT ![t] = @ + 1]
    <3>1. retryCount[t] \in Nat /\ RetryCount[t] \in Nat
      BY <1>2, <1>4, V2Assumption
    <3>2. retryCount[t] + 1 \in Nat /\ retryCount[t] + 1 <= RetryCount[t]
      BY <2>2, <3>1
    <3> QED
      BY <1>2, <1>4, <2>2, <3>2
  <2> QED
    BY <1>2, <2>1, <2>2 DEF Skip, Drop, Submit
<1>9. Moves(t)
  <2>1. PICK u \in toSubmit : Moves(u) /\ toSubmit' = toSubmit \ {u}
    BY <1>1, SubmitMoves
  <2>2. u = t
    BY <1>2, <2>1
  <2> QED
    BY <2>1, <2>2
<1> HIDE DEF e
<1>10. EventInv'
  <2>1. /\ exec'[t] \in {"handler", "handlerAdded"} => EventOK([task |-> t, ok |-> TRUE])'
        /\ exec'[t] = "failed" => EventOK([task |-> t, ok |-> FALSE])'
        /\ taskStatus'[t] = "SUCCESS" => /\ originalLevel[t] # None
                                         /\ t \notin Waiting' \cup toSubmit'
                                         /\ exec'[t] \notin {"job", "jobAdded"}
    BY <1>6
  <2>2. \/ UNCHANGED taskStatusChan
        \/ /\ taskStatusChan' = Append(taskStatusChan, [task |-> t, ok |-> FALSE])
           /\ EventOK([task |-> t, ok |-> FALSE])'
    BY <1>7 DEF e
  <2> QED
    BY <1>1, <1>2, <1>3, <1>9, <2>1, <2>2, EventFrame
<1>11. LevelInv'
  <2>1. q.queues \in [1 .. LastLevel -> SUBSET Task]
    BY <1>2, QueueShape
  <2>2. ASSUME NEW l \in 1 .. LastLevel
        PROVE  /\ \A u \in q'.queues[l] : originalLevel'[u] = l
               /\ l < q'.level => q'.queues[l] = {} /\ q'.running[l] = 0
               /\ l > q'.level => /\ q'.queues[l] = Levels[l] /\ q'.running[l] = 0
                                  /\ q'.counts[l] = Cardinality(Levels[l] \cap Template)
    <3>1. CASE l = q.level
      <4>1. q'.queues[l] \subseteq q.queues[l] \cup {t}
        BY <1>2, <1>6, <2>1
      <4>2. ~(l < q'.level) /\ ~(l > q'.level)
        BY <1>2, <3>1, LevelFacts
      <4> QED
        BY <1>1, <1>2, <3>1, <4>1, <4>2 DEF LevelInv
    <3>2. CASE l # q.level
      <4>1. q'.queues[l] = q.queues[l]
        BY <1>2, <1>6, <2>1, <3>2
      <4> QED
        BY <1>1, <1>2, <3>2, <4>1 DEF LevelInv
    <3> QED
      BY <3>1, <3>2
  <2> QED
    BY <2>2 DEF LevelInv
<1>12. TypeInv'
  <2>1. QueueTypes'
    BY <1>1, <1>2, <1>6, <1>8 DEF QueueTypes
  <2>2. FlowTypes'
    <3>1. taskStatusChan' \in Seq(Event) /\ Len(taskStatusChan') <= EventCap
      <4>1. CASE UNCHANGED taskStatusChan
        BY <1>4, <4>1
      <4>2. CASE Len(taskStatusChan) < EventCap /\ taskStatusChan' = Append(taskStatusChan, e)
        <5>1. /\ Append(taskStatusChan, e) \in Seq(Event) /\ Len(taskStatusChan) \in Nat
              /\ Len(Append(taskStatusChan, e)) = Len(taskStatusChan) + 1
          BY <1>4, ChannelSteps
        <5> QED
          BY <4>2, <5>1, V2Assumption
      <4> QED
        BY <1>7, <4>1, <4>2
    <3> QED
      BY <1>1, <1>2, <1>6, <3>1 DEF FlowTypes, statsVars
  <2>3. ControlTypes'
    BY <1>1, <1>2 DEF ControlTypes, rowVars, ctlVars, sagaVars
  <2> QED
    BY <2>1, <2>2, <2>3 DEF TypeInv
<1>13. SagaInv'
  <2>1. \A u \in Task : \/ taskStatus'[u] = taskStatus[u] /\ (u \in Active' <=> u \in Active)
                        \/ /\ taskStatus[u] # "SUCCESS" \/ u \in Active
                           /\ taskStatus'[u] # "SUCCESS" \/ u \in Active'
    BY <1>5, <1>6 DEF Active
  <2>2. UNCHANGED <<sagaVars, finalStatus>>
    BY <1>2
  <2> QED
    BY <1>1, <2>1, <2>2, SagaFrame
<1>14. \A s \in Sub : s \in processedNodes' => s \in processedNodes \/ originalLevel[s] # None
  <2>1. originalLevel[t] # None
    BY <1>2, V2Assumption, LevelFacts
  <2> QED
    BY <1>6, <2>1
<1>15. MoveStep /\ wfTasks \subseteq wfTasks' /\ UNCHANGED <<stored, taskRow>>
  BY <1>2, <1>9 DEF MoveStep, rowVars
<1> QED
  BY <1>2, <1>10, <1>11, <1>12, <1>13, <1>14, <1>15, MoveInv

\* The submission takes tasks out of the level's queue.
LEMMA FetchInv ==
  ASSUME V2IInv, Fetch
  PROVE  V2IInv'
<1> DEFINE l == q.level
<1>1. /\ TypeInv /\ LevelInv /\ OrigInv /\ TokenInv /\ CountInv /\ TemplInv /\ AddInv /\ SubInv
      /\ TrackInv /\ PendInv /\ EventInv /\ PcInv /\ OutcomeInv /\ SagaInv
      /\ QueueTypes /\ FlowTypes /\ ControlTypes
  BY DEF V2IInv, TypeInv
<1>2. q \in Queue /\ l \in 1 .. LastLevel /\ q.queues \in [1 .. LastLevel -> SUBSET Task]
      /\ q.running \in [1 .. LastLevel -> Int]
  <2>1. q \in Queue
    BY <1>1 DEF QueueTypes
  <2> QED
    BY <2>1, QueueShape DEF Fetch
<1>3. PICK S \in SUBSET q.queues[l] : q' = PopTasks(q, l, S) /\ toSubmit' = toSubmit \cup S
  BY DEF Fetch, kSubset
<1>4. UNCHANGED <<handledVars, wfTasks, chanVars, statsVars, exec, sagaVars, qpc, finalStatus,
                  rowVars, ctlVars>>
  BY DEF Fetch
<1>5. S \in SUBSET Task /\ Cardinality(S) \in Nat /\ IsFiniteSet(S)
  BY <1>2, TaskCards
<1>6. /\ q' \in Queue /\ q'.queues = [q.queues EXCEPT ![l] = @ \ S]
      /\ q'.running = [q.running EXCEPT ![l] = @ + Cardinality(S)]
      /\ q'.level = l /\ q'.counts = q.counts /\ q'.templates = q.templates
  BY <1>2, <1>3, <1>5, PopTasksFields
<1>7. Waiting' = Waiting \ S /\ S \subseteq Waiting
  BY <1>1, <1>2, <1>5, <1>6, WaitingSteps
<1>8. /\ Active' = Active /\ Reported' = Reported /\ HeldTask' = HeldTask /\ Passed' = Passed
      /\ Away' = Away \cup S
  BY <1>3, <1>4, PlacesFrame DEF chanVars, Away
<1>9. /\ taskStatus' = taskStatus /\ originalLevel' = originalLevel /\ processedNodes' = processedNodes
      /\ errorKey' = errorKey /\ exec' = exec /\ taskStatusChan' = taskStatusChan /\ held' = held
      /\ queueUpdateChan' = queueUpdateChan /\ addSubTaskChan' = addSubTaskChan
      /\ UNCHANGED <<parentOf, tracker, decremented, pendingSubTasks>>
  BY <1>4 DEF handledVars, chanVars
<1> HIDE DEF l
<1>10. \A t \in S : originalLevel[t] = l
  BY <1>1, <1>2 DEF LevelInv
<1>11. LevelInv'
  <2>1. ASSUME NEW m \in 1 .. LastLevel
        PROVE  /\ \A u \in q'.queues[m] : originalLevel'[u] = m
               /\ m < q'.level => q'.queues[m] = {} /\ q'.running[m] = 0
               /\ m > q'.level => /\ q'.queues[m] = Levels[m] /\ q'.running[m] = 0
                                  /\ q'.counts[m] = Cardinality(Levels[m] \cap Template)
    <3>1. CASE m = l
      <4>1. q'.queues[m] \subseteq q.queues[m] /\ ~(m < q'.level) /\ ~(m > q'.level)
        BY <1>2, <1>6, <3>1
      <4> QED
        BY <1>1, <1>9, <4>1 DEF LevelInv
    <3>2. CASE m # l
      <4>1. q'.queues[m] = q.queues[m] /\ q'.running[m] = q.running[m]
        BY <1>2, <1>6, <3>2
      <4> QED
        BY <1>1, <1>6, <1>9, <4>1 DEF LevelInv, l
    <3> QED
      BY <3>1, <3>2
  <2> QED
    BY <2>1 DEF LevelInv
<1>12. OrigInv'
  BY <1>1, <1>2, <1>6, <1>8, <1>9, <1>10 DEF OrigInv, l
<1>13. TokenInv'
  <2>1. Distinct(taskStatusChan)' /\ Distinct(queueUpdateChan)'
    BY <1>1, <1>9 DEF TokenInv, Distinct
  <2>2. S \cap Away = {} /\ Waiting \cap Away = {}
    BY <1>1, <1>7 DEF TokenInv
  <2>3. Waiting' \cap Away' = {}
    BY <1>7, <1>8, <2>2
  <2>4. toSubmit' \cap (Active \cup Reported \cup HeldTask \cup Passed) = {}
    BY <1>1, <1>3, <2>2 DEF TokenInv, Away
  <2> QED
    BY <1>1, <1>8, <2>1, <2>3, <2>4 DEF TokenInv
<1>14. CountInv'
  <2>1. Ended' = Ended
    BY <1>9 DEF Ended
  <2>2. ASSUME NEW m \in 1 .. LastLevel
        PROVE  q'.running[m] >= Cardinality(Counted(m)')
    <3>0. /\ Counted(m) \in SUBSET Task /\ q.running[m] >= Cardinality(Counted(m))
          /\ Cardinality(Counted(m)) \in Nat /\ IsFiniteSet(Counted(m)) /\ q.running[m] \in Int
      BY <1>1, <1>2, TaskCards DEF CountInv, Counted
    <3>1. CASE m = l
      <4>1. Counted(m)' \subseteq Counted(m) \cup S
        BY <1>7, <1>8, <1>9, <2>1 DEF Counted
      <4>2. Counted(m) \cup S \in SUBSET Task
        BY <1>5, <3>0
      <4>3. Cardinality(Counted(m)') <= Cardinality(Counted(m) \cup S)
            /\ Cardinality(Counted(m)') \in Nat /\ Cardinality(Counted(m) \cup S) \in Nat
        BY <4>1, <4>2, TaskCards
      <4>4. Cardinality(Counted(m) \cup S) <= Cardinality(Counted(m)) + Cardinality(S)
        <5>1. /\ Cardinality(Counted(m) \cup S)
                   = Cardinality(Counted(m)) + Cardinality(S) - Cardinality(Counted(m) \cap S)
          BY <1>5, <3>0, FS_Union
        <5>2. Cardinality(Counted(m) \cap S) \in Nat
          BY <1>5, <3>0, TaskCards
        <5> QED
          BY <1>5, <3>0, <5>1, <5>2
      <4>5. q'.running[m] = q.running[m] + Cardinality(S)
        BY <1>2, <1>6, <3>1
      <4> QED
        BY <1>5, <3>0, <4>3, <4>4, <4>5
    <3>2. CASE m # l
      <4>1. q'.running[m] = q.running[m]
        BY <1>2, <1>6, <3>2
      <4>2. Counted(m)' = Counted(m)
        <5>1. \A t \in Task : originalLevel[t] = m => t \notin S
          BY <1>10, <3>2
        <5> QED
          BY <1>7, <1>8, <1>9, <2>1, <5>1 DEF Counted
      <4> QED
        BY <3>0, <4>1, <4>2
    <3> QED
      BY <3>1, <3>2
  <2> QED
    BY <2>2 DEF CountInv
<1>15. TemplInv'
  BY <1>1, <1>6, <1>9 DEF TemplInv, l
<1>16. AddInv' /\ SubInv' /\ PendInv'
  <2>1. wfTasks' = wfTasks /\ q'.level = q.level
    BY <1>4, <1>6 DEF l
  <2> QED
    BY <1>1, <1>9, <2>1, BatchFrame
<1>17. TrackInv'
  <2>1. Away' \cup Waiting' = Away \cup Waiting
    BY <1>7, <1>8
  <2>2. \A p : Over(p)' = Over(p)
    BY <1>9, <2>1 DEF Over
  <2> QED
    BY <1>1, <1>9, <2>2 DEF TrackInv
<1>18. EventInv'
  <2>1. Waiting' \cup toSubmit' = Waiting \cup toSubmit
    BY <1>3, <1>7
  <2> QED
    BY <1>1, <1>9, <2>1 DEF EventInv, EventOK
<1>19. PcInv' /\ OutcomeInv'
  BY <1>1, <1>4, <1>6, <1>9 DEF PcInv, OutcomeInv, HeldBack, rowVars, l
<1>20. SagaInv'
  BY <1>1, <1>4, <1>8, <1>9, SagaFrame
<1>21. TypeInv'
  <2>1. QueueTypes'
    BY <1>1, <1>4, <1>6 DEF QueueTypes, handledVars
  <2>2. FlowTypes'
    BY <1>1, <1>3, <1>4, <1>5 DEF FlowTypes, chanVars, statsVars
  <2>3. ControlTypes'
    BY <1>1, <1>4 DEF ControlTypes, rowVars, ctlVars, sagaVars
  <2> QED
    BY <2>1, <2>2, <2>3 DEF TypeInv
<1> QED
  BY <1>11, <1>12, <1>13, <1>14, <1>15, <1>16, <1>17, <1>18, <1>19, <1>20, <1>21 DEF V2IInv

-----------------------------------------------------------------------------
(* The level advances.                                                     *)

\* The loop of the last check gets no further than its first round.
LEMMA AdvanceAllStill ==
  ASSUME NEW p \in Queue, NEW tr, ~canAdvanceLevel(p, tr)
  PROVE  AdvanceAll(p, tr) = p
<1> DEFINE n == MaxLevelOf(p)
           Eq(g) == g = [i \in 0 .. n |-> IF i = 0 THEN p ELSE tryAdvanceLevel(g[i - 1], tr)]
           pass == CHOOSE g : Eq(g)
           S == {i \in 0 .. n : pass[i] = p}
<1>1. n \in Nat
  BY QueueShape, LevelFacts
<1>2. tryAdvanceLevel(p, tr) = p
  BY DEF tryAdvanceLevel
<1> HIDE DEF n
<1>3. Eq([i \in 0 .. n |-> p])
  <2>1. \A i \in 0 .. n : i = 0 \/ i - 1 \in 0 .. n
    BY <1>1
  <2> QED
    BY <1>2, <2>1
<1>4. Eq(pass)
  BY <1>3
<1>5. AdvanceAll(p, tr) = pass[n]
  BY DEF AdvanceAll, n
<1> HIDE DEF pass
<1>6. /\ 0 \in S
      /\ \A i \in 0 .. n - 1 : i \in S => i + 1 \in S
  <2>1. pass[0] = p
    BY <1>1, <1>4
  <2>2. \A i \in 0 .. n - 1 : pass[i + 1] = tryAdvanceLevel(pass[i], tr)
    BY <1>1, <1>4
  <2> QED
    BY <1>1, <1>2, <2>1, <2>2
<1>7. n \in S
  <2> HIDE DEF S
  <2> QED
    BY <1>1, <1>6, RangeInduction
<1> QED
  BY <1>5, <1>7

\* A level that was just reached has its tasks before it, or is beyond the last.
LEMMA AdvanceOnce ==
  ASSUME q \in Queue, LevelInv, NEW tr
  PROVE  LET p == tryAdvanceLevel(q, tr) IN
         /\ ~canAdvanceLevel(p, tr) /\ p \in Queue /\ AdvanceAll(p, tr) = p
<1> DEFINE p == tryAdvanceLevel(q, tr)
<1>1. CASE ~canAdvanceLevel(q, tr)
  <2>1. p = q
    BY <1>1 DEF tryAdvanceLevel
  <2> QED
    BY <1>1, <2>1, AdvanceAllStill
<1>2. CASE canAdvanceLevel(q, tr)
  <2>1. p = AdvanceLevel(q) /\ q.level <= LastLevel /\ q.level \in Nat
    BY <1>2, QueueShape DEF tryAdvanceLevel, canAdvanceLevel
  <2>2. p \in Queue /\ p.queues = q.queues /\ p.level = q.level + 1
    BY <2>1, AdvanceFields
  <2> HIDE DEF p
  <2>3. MaxLevelOf(p) = LastLevel /\ DOMAIN p.queues = 1 .. LastLevel /\ LastLevel \in Nat
    BY <2>2, QueueShape, LevelFacts
  <2>4. ~canAdvanceLevel(p, tr)
    <3>1. CASE p.level <= LastLevel
      <4>1. p.level \in 1 .. LastLevel /\ p.level > q.level
        BY <2>1, <2>2, <2>3, <3>1
      <4>2. p.queues[p.level] = Levels[p.level] /\ Levels[p.level] # {}
        BY <2>2, <4>1, LevelFacts DEF LevelInv
      <4> QED
        BY <2>3, <4>1, <4>2 DEF canAdvanceLevel, IsLevelComplete
    <3>2. CASE ~(p.level <= LastLevel)
      BY <2>3, <3>2 DEF canAdvanceLevel
    <3> QED
      BY <3>1, <3>2
  <2> QED
    BY <2>2, <2>4, AdvanceAllStill DEF p
<1> QED
  BY <1>1, <1>2

\* A step that takes the manager on, and nothing else.
LEMMA StillInv ==
  ASSUME V2IInv, UNCHANGED <<workVars, sagaVars, finalStatus, stored, taskRow>>,
         FlowTypes', ControlTypes', PcInv', qpc' # "store"
  PROVE  V2IInv'
<1>1. TypeInv /\ Work /\ PcInv /\ OutcomeInv /\ SagaInv
  BY InvParts
<1>2. Work' /\ QueueTypes' /\ Active' = Active
  BY <1>1, WorkFrame
<1>3. /\ q' = q /\ taskStatus' = taskStatus /\ originalLevel' = originalLevel
      /\ parentOf' = parentOf /\ pendingSubTasks' = pendingSubTasks /\ wfTasks' = wfTasks
  BY DEF workVars, queueVars, handledVars
<1>4. OutcomeInv'
  BY <1>1, <1>3 DEF OutcomeInv, HeldBack
<1>5. SagaInv'
  BY <1>1, <1>2, <1>3, SagaFrame
<1> QED
  BY <1>2, <1>4, <1>5 DEF V2IInv, Work, TypeInv

\* A level that can be left has nothing on its way, no template to come and no
\* subtask that waits.
LEMMA LevelDone ==
  ASSUME TypeInv, OrigInv, CountInv, TemplInv, SubInv, TrackInv, PendInv, canAdvanceLevel(q, tracker)
  PROVE  /\ q.level \in 1 .. LastLevel /\ q.queues[q.level] = {} /\ q.running[q.level] = 0
         /\ Away = {}
         /\ \A t \in Template : originalLevel[t] = q.level => t \in decremented
         /\ \A p \in Task : originalLevel[p] = q.level => pendingSubTasks[p] = {}
<1> DEFINE l == q.level
<1>1. q \in Queue
  BY DEF TypeInv, QueueTypes
<1>2. l \in 1 .. LastLevel /\ q.queues[l] = {} /\ q.running[l] = 0
  <2>1. /\ IsLevelComplete(q, l) /\ l <= MaxLevelOf(q)
    BY DEF canAdvanceLevel
  <2>2. MaxLevelOf(q) = LastLevel /\ DOMAIN q.queues = 1 .. LastLevel /\ l \in 1 .. LastLevel + 1
        /\ LastLevel \in Nat
    BY <1>1, QueueShape, LevelFacts
  <2>3. l \in 1 .. LastLevel
    BY <2>1, <2>2
  <2> QED
    BY <2>1, <2>2, <2>3 DEF IsLevelComplete
<1>3. Away = {}
  <2>1. Counted(l) \in SUBSET Task
    BY DEF Counted
  <2>2. 0 >= Cardinality(Counted(l)) /\ Cardinality(Counted(l)) \in Nat
    BY <1>2, <2>1, TaskCards DEF CountInv
  <2>3. Counted(l) = {}
    BY <2>1, <2>2, TaskCards
  <2>4. Away \subseteq Task
    BY PlaceTypes DEF TypeInv, FlowTypes
  <2> QED
    BY <2>3, <2>4 DEF Counted, OrigInv
<1>4. \A t \in Template : originalLevel[t] = l => t \in decremented
  <2> DEFINE T == {t \in Template \ decremented : originalLevel[t] = l}
  <2>1. T \in SUBSET Task
    BY V2Assumption DEF Task
  <2>2. q.templates = Cardinality(T) /\ q.templates <= 0
    BY <1>2 DEF TemplInv, canAdvanceLevel
  <2>3. Cardinality(T) \in Nat
    BY <2>1, TaskCards
  <2>4. T = {}
    <3>1. Cardinality(T) = 0
      BY <2>2, <2>3
    <3> HIDE DEF T
    <3> QED
      BY <2>1, <3>1, TaskCards
  <2> QED
    BY <2>4
<1>5. ASSUME NEW p \in Task, originalLevel[p] = l PROVE pendingSubTasks[p] = {}
  <2>1. tracker[p].completed >= Cardinality(tracker[p].ids)
    BY <1>5 DEF canAdvanceLevel, allSubTasksCompleted
  <2>2. /\ tracker[p].ids = {s \in Sub : parentOf[s] = p} /\ tracker[p].completed <= Cardinality(Over(p))
        /\ tracker[p].completed \in Nat
    BY DEF TrackInv, TypeInv, QueueTypes, Tracker
  <2>3. Over(p) \subseteq tracker[p].ids /\ tracker[p].ids \in SUBSET Task
    BY <2>2 DEF Over, Task
  <2>4. /\ IsFiniteSet(tracker[p].ids) /\ Cardinality(tracker[p].ids) \in Nat
        /\ Cardinality(Over(p)) \in Nat /\ Cardinality(Over(p)) <= Cardinality(tracker[p].ids)
    BY <2>3, TaskCards
  <2>5. Cardinality(Over(p)) = Cardinality(tracker[p].ids)
    BY <2>1, <2>2, <2>4
  <2>6. Over(p) = tracker[p].ids
    BY <2>3, <2>4, <2>5, FS_Subset
  <2>7. SUFFICES ASSUME NEW s \in pendingSubTasks[p] PROVE FALSE
    OBVIOUS
  <2>8. parentOf[s] = p /\ originalLevel[s] = None /\ s \in Sub
    BY DEF PendInv, TypeInv, QueueTypes
  <2>9. s \in processedNodes
    BY <2>2, <2>6, <2>8 DEF Over
  <2> QED
    BY <2>8, <2>9 DEF SubInv
<1> QED
  BY <1>2, <1>3, <1>4, <1>5

\* A level is left.
LEMMA AdvanceInv ==
  ASSUME V2IInv, canAdvanceLevel(q, tracker), q' = AdvanceLevel(q),
         UNCHANGED <<handledVars, wfTasks, chanVars, toSubmit, exec, sagaVars, finalStatus,
                     stored, taskRow>>,
         qpc \in {"check", "advance"}, qpc' \in {"select", "decide"},
         qpc' = "decide" => q'.level = LastLevel + 1,
         FlowTypes', ControlTypes'
  PROVE  V2IInv'
<1> DEFINE l == q.level
<1>1. /\ TypeInv /\ LevelInv /\ OrigInv /\ TokenInv /\ CountInv /\ TemplInv /\ AddInv /\ SubInv
      /\ TrackInv /\ PendInv /\ EventInv /\ PcInv /\ OutcomeInv /\ SagaInv
  BY DEF V2IInv
<1>2. QueueTypes /\ q \in Queue
  BY <1>1 DEF TypeInv, QueueTypes
<1>3. /\ l \in 1 .. LastLevel /\ q.queues[l] = {} /\ q.running[l] = 0 /\ Away = {}
      /\ \A t \in Template : originalLevel[t] = l => t \in decremented
      /\ \A p \in Task : originalLevel[p] = l => pendingSubTasks[p] = {}
  BY <1>1, LevelDone
<1>4. LastLevel \in Nat /\ l \in Nat /\ l <= LastLevel
  BY <1>3, LevelFacts
<1>5. /\ q' \in Queue /\ q'.queues = q.queues /\ q'.running = q.running
      /\ q'.level = l + 1 /\ q'.counts = q.counts
      /\ l + 1 <= LastLevel => q'.templates = q.counts[l + 1]
  BY <1>2, <1>4, AdvanceFields
<1>6. /\ processedNodes' = processedNodes /\ errorKey' = errorKey
      /\ taskStatus' = taskStatus /\ retryCount' = retryCount /\ originalLevel' = originalLevel
      /\ decremented' = decremented /\ pendingSubTasks' = pendingSubTasks
      /\ parentOf' = parentOf /\ tracker' = tracker /\ contextData' = contextData
      /\ wfTasks' = wfTasks /\ taskStatusChan' = taskStatusChan /\ held' = held
      /\ queueUpdateChan' = queueUpdateChan /\ addSubTaskChan' = addSubTaskChan
      /\ toSubmit' = toSubmit /\ exec' = exec
  BY DEF handledVars, chanVars
<1>7. /\ Waiting' = Waiting /\ Active' = Active /\ Reported' = Reported /\ HeldTask' = HeldTask
      /\ Passed' = Passed
  <2>1. Waiting' = Waiting
    BY <1>5 DEF Waiting
  <2> QED
    BY <1>6, <2>1, PlacesFrame
<1>8. Away' = Away
  BY <1>6, <1>7 DEF Away
<1> HIDE DEF l
<1>9. LevelInv'
  <2>1. ASSUME NEW m \in 1 .. LastLevel
        PROVE  /\ \A u \in q'.queues[m] : originalLevel'[u] = m
               /\ m < q'.level => q'.queues[m] = {} /\ q'.running[m] = 0
               /\ m > q'.level => /\ q'.queues[m] = Levels[m] /\ q'.running[m] = 0
                                  /\ q'.counts[m] = Cardinality(Levels[m] \cap Template)
    <3>1. m < l + 1 => m < l \/ m = l
      BY <1>4
    <3>2. m > l + 1 => m > l
      BY <1>4
    <3> QED
      BY <1>1, <1>3, <1>5, <1>6, <3>1, <3>2 DEF LevelInv, l
  <2> QED
    BY <2>1 DEF LevelInv
<1>10. OrigInv'
  <2>1. \A s \in Sub : originalLevel[s] # None => originalLevel[s] <= l + 1
    <3>1. SUFFICES ASSUME NEW s \in Sub, originalLevel[s] # None PROVE originalLevel[s] <= l + 1
      OBVIOUS
    <3>2. originalLevel[s] \in 1 .. LastLevel + 1
      BY <1>2, <3>1 DEF QueueTypes, Task
    <3>3. originalLevel[s] <= l
      BY <1>1, <3>1 DEF OrigInv, l
    <3> QED
      BY <1>4, <3>2, <3>3
  <2> QED
    BY <1>1, <1>3, <1>5, <1>6, <1>8, <2>1 DEF OrigInv
<1>11. TokenInv'
  BY <1>1, <1>6, <1>7, <1>8 DEF TokenInv, Distinct
<1>12. CountInv' /\ TrackInv'
  BY <1>1, <1>5, <1>6, <1>7, <1>8 DEF CountInv, TrackInv, Counted, Ended, Over
<1>13. TemplInv'
  <2>1. ASSUME l + 1 <= LastLevel
        PROVE  q'.templates = Cardinality({t \in Template \ decremented : originalLevel[t] = l + 1})
    <3>1. l + 1 \in 1 .. LastLevel /\ l + 1 > l
      BY <1>4, <2>1
    <3>2. q'.templates = Cardinality(Levels[l + 1] \cap Template)
      BY <1>1, <1>5, <2>1, <3>1 DEF LevelInv, l
    <3>3. ASSUME NEW t \in Levels[l + 1] \cap Template
          PROVE  t \notin decremented /\ originalLevel[t] = l + 1
      <4>1. t \in Main
        BY <3>1, <3>3, LevelFacts
      <4>2. originalLevel[t] \in 1 .. LastLevel /\ t \in Levels[originalLevel[t]]
        BY <1>1, <4>1 DEF OrigInv
      <4>3. originalLevel[t] = l + 1
        BY <3>1, <3>3, <4>2, LevelFacts
      <4>4. ~(originalLevel[t] <= l)
        BY <1>4, <4>3
      <4> QED
        BY <1>1, <3>3, <4>3, <4>4 DEF TemplInv, l
    <3>4. ASSUME NEW t \in Template, originalLevel[t] = l + 1 PROVE t \in Levels[l + 1]
      BY <1>1, <3>4, V2Assumption DEF OrigInv
    <3>5. {t \in Template \ decremented : originalLevel[t] = l + 1} = Levels[l + 1] \cap Template
      BY <3>3, <3>4
    <3> QED
      BY <3>2, <3>5
  <2>2. ASSUME NEW t \in Template
        PROVE  /\ originalLevel[t] < l + 1 => t \in decremented
               /\ t \in decremented => originalLevel[t] <= l + 1
    <3>1. originalLevel[t] \in 1 .. LastLevel
      BY <1>1, V2Assumption DEF OrigInv
    <3>2. originalLevel[t] < l + 1 => originalLevel[t] < l \/ originalLevel[t] = l
      BY <1>4, <3>1
    <3>3. originalLevel[t] <= l => originalLevel[t] <= l + 1
      BY <1>4, <3>1
    <3> QED
      BY <1>1, <1>3, <3>2, <3>3 DEF TemplInv, l
  <2> QED
    BY <1>5, <1>6, <2>1, <2>2 DEF TemplInv
<1>14. AddInv' /\ SubInv'
  <2>1. ASSUME NEW p \in Task, Started(p) PROVE Started(p)'
    <3>1. originalLevel[p] \in 1 .. LastLevel + 1 /\ originalLevel[p] <= l /\ originalLevel[p] # None
      BY <1>2, <2>1 DEF QueueTypes, Started, l
    <3> QED
      BY <1>4, <1>5, <1>6, <3>1 DEF Started
  <2>2. \A i \in DOMAIN addSubTaskChan : addSubTaskChan[i][2] \in Task
    <3>1. \A i \in DOMAIN addSubTaskChan : addSubTaskChan[i] \in Caller
      BY <1>1 DEF TypeInv, FlowTypes
    <3> QED
      BY <3>1 DEF Caller
  <2>3. \A s \in Sub : parentOf[s] # None => parentOf[s] \in Task
    BY <1>2 DEF QueueTypes
  <2>4. \A i \in DOMAIN addSubTaskChan : Started(addSubTaskChan[i][2])'
    <3>1. SUFFICES ASSUME NEW i \in DOMAIN addSubTaskChan PROVE Started(addSubTaskChan[i][2])'
      OBVIOUS
    <3>2. PICK p \in Task : p = addSubTaskChan[i][2]
      BY <2>2
    <3>3. Started(p)'
      BY <1>1, <2>1, <3>2 DEF AddInv
    <3> QED
      BY <1>6, <3>2, <3>3 DEF Started
  <2>5. \A s \in Sub : parentOf[s] # None => Started(parentOf[s])'
    <3>1. SUFFICES ASSUME NEW s \in Sub, parentOf[s] # None PROVE Started(parentOf[s])'
      OBVIOUS
    <3>2. PICK p \in Task : p = parentOf[s]
      BY <2>3, <3>1
    <3>3. Started(p)'
      BY <1>1, <2>1, <3>1, <3>2 DEF SubInv
    <3> QED
      BY <1>6, <3>2, <3>3 DEF Started
  <2>6. AddInv'
    BY <1>1, <1>6, <2>4 DEF AddInv, Started
  <2>7. SubInv'
    BY <1>1, <1>6, <2>5 DEF SubInv, Started, Handled
  <2> QED
    BY <2>6, <2>7
<1>15. PendInv'
  <2>1. \A p \in Task : pendingSubTasks[p] # {} => DepPending(p)
    BY <1>1, <1>3 DEF PendInv, l
  <2> QED
    BY <1>1, <1>6, <2>1 DEF PendInv, DepPending, Handled
<1>16. EventInv'
  BY <1>1, <1>6, <1>7 DEF EventInv, EventOK
<1>17. PcInv' /\ OutcomeInv'
  <2>1. finalStatus = None /\ finalStatus' = None
    BY <1>1 DEF PcInv
  <2>2. \A s \in Sub : originalLevel[s] # LastLevel + 1
    <3>1. LastLevel + 1 # None /\ ~(LastLevel + 1 <= l)
      BY <1>4, V2Assumption
    <3> QED
      BY <1>1, <3>1 DEF OrigInv, l
  <2>3. stored # "Success" /\ finalStatus # "Success"
    BY <1>1, <2>1, V2Assumption DEF OutcomeInv
  <2> QED
    BY <1>6, <2>1, <2>2, <2>3 DEF PcInv, OutcomeInv
<1>18. SagaInv'
  BY <1>1, <1>6, <1>7, SagaFrame
<1>19. QueueTypes'
  BY <1>2, <1>5, <1>6 DEF QueueTypes
<1> QED
  BY <1>9, <1>10, <1>11, <1>12, <1>13, <1>14, <1>15, <1>16, <1>17, <1>18, <1>19 DEF TypeInv, V2IInv

\* After a batch, and after an event.
LEMMA QueueAdvanceInv ==
  ASSUME V2IInv, QueueAdvance \/ QueueCheck
  PROVE  V2IInv'
<1>1. /\ TypeInv /\ LevelInv /\ OrigInv /\ PcInv /\ q \in Queue /\ FlowTypes /\ ControlTypes
  BY DEF V2IInv, TypeInv, QueueTypes
<1>2. UNCHANGED <<handledVars, wfTasks, chanVars, toSubmit, exec, sagaVars, finalStatus,
                  stored, taskRow>>
      /\ UNCHANGED <<finishedTasks, statsTorn, rowVars, ctlVars>>
  BY DEF QueueAdvance, QueueCheck, rowVars, statsVars
<1>3. /\ qpc \in {"check", "advance"} /\ qpc' \in {"select", "decide"}
      /\ q' = tryAdvanceLevel(q, tracker)
      /\ qpc' = "decide" => qpc = "check" /\ IsAllTasksCompleted(q')
  BY <1>1, AdvanceOnce DEF QueueAdvance, QueueCheck
<1>4. q' \in Queue /\ (qpc' = "decide" => q'.level = LastLevel + 1)
  <2>1. q' \in Queue
    BY <1>1, <1>3, AdvanceOnce
  <2>2. q'.level \in 1 .. LastLevel + 1 /\ MaxLevelOf(q') = LastLevel /\ LastLevel \in Nat
    BY <2>1, QueueShape, LevelFacts
  <2>3. IsAllTasksCompleted(q') => q'.level = LastLevel + 1
    BY <2>2 DEF IsAllTasksCompleted
  <2> QED
    BY <1>3, <2>1, <2>3
<1>5. FlowTypes' /\ ControlTypes'
  <2>1. statsWaiting' \in Nat /\ totalTasks' \in Nat
    BY <1>1 DEF FlowTypes, QueueAdvance, QueueCheck, statsVars
  <2>2. FlowTypes'
    BY <1>1, <1>2, <2>1 DEF FlowTypes, chanVars
  <2>3. ControlTypes'
    BY <1>1, <1>2, <1>3 DEF ControlTypes, rowVars, ctlVars, sagaVars
  <2> QED
    BY <2>2, <2>3
<1>6. CASE canAdvanceLevel(q, tracker)
  <2>1. q' = AdvanceLevel(q)
    BY <1>3, <1>6 DEF tryAdvanceLevel
  <2> QED
    BY <1>2, <1>3, <1>4, <1>5, <1>6, <2>1, AdvanceInv
<1>7. CASE ~canAdvanceLevel(q, tracker)
  <2>1. q' = q
    BY <1>3, <1>7 DEF tryAdvanceLevel
  <2>2. originalLevel' = originalLevel /\ finalStatus' = finalStatus
    BY <1>2 DEF handledVars
  <2>3. PcInv'
    <3>1. finalStatus = None
      BY <1>1, <1>3 DEF PcInv
    <3>2. qpc' = "decide" => \A s \in Sub : originalLevel[s] # LastLevel + 1
      BY <1>1, <1>3 DEF PcInv
    <3> QED
      BY <1>1, <1>3, <1>4, <2>1, <2>2, <3>1, <3>2 DEF PcInv
  <2>4. UNCHANGED <<workVars, sagaVars, finalStatus, stored, taskRow>>
    BY <1>2, <2>1 DEF workVars, queueVars
  <2> QED
    BY <1>3, <1>5, <2>3, <2>4, StillInv
<1> QED
  BY <1>6, <1>7

-----------------------------------------------------------------------------
(* A batch arrives.                                                        *)

\* What the manager does with the batch of k: E is the part that is queued, all
\* of it or nothing.
Adds(k, E) ==
  /\ E \in {Batch(k), {}}
  /\ parentOf' = [s \in Sub |-> IF s \in Batch(k) THEN k[2] ELSE parentOf[s]]
  /\ tracker' \in [Task -> Tracker]
  /\ \A p \in Task : /\ tracker'[p].completed = tracker[p].completed
                     /\ tracker'[p].ids = IF p = k[2] THEN tracker[p].ids \cup Batch(k)
                                                      ELSE tracker[p].ids
  /\ q' \in Queue /\ q'.level = q.level /\ q'.running = q.running
  /\ \A m \in 1 .. LastLevel : m # q.level => q'.counts[m] = q.counts[m]
  /\ q'.templates = IF E # {} /\ k[2] \in Template \ decremented /\ q.templates > 0
                    THEN q.templates - 1 ELSE q.templates
  /\ q.level <= LastLevel => q'.queues = [q.queues EXCEPT ![q.level] = @ \cup E]
  /\ q.level > LastLevel => q'.queues = q.queues
  /\ originalLevel' = [u \in Task |-> IF u \in E THEN q.level ELSE originalLevel[u]]
  /\ decremented' = decremented \cup (IF E = {} THEN {} ELSE Template \cap {k[2]})
  /\ pendingSubTasks' = [pendingSubTasks EXCEPT ![k[2]] = @ \cup (Batch(k) \ E)]
  /\ E = {} => k[2] \notin processedNodes \/ \E s \in Batch(k) : Deps[s] # {}

\* With the invariants before it: the batch is new, and its parent is not.
BatchAdded(k, E) ==
  /\ Adds(k, E)
  /\ k \in Caller /\ k[2] \in Task /\ Started(k[2])
  /\ Batch(k) # {} /\ Batch(k) \subseteq Sub /\ Batch(k) \subseteq wfTasks
  /\ \A s \in Batch(k) : /\ parentOf[s] = None /\ originalLevel[s] = None
                         /\ s \notin processedNodes /\ s \notin Away \cup Waiting
                         /\ taskStatus[s] # "SUCCESS"
  /\ addSubTaskChan # <<>> /\ k = Head(addSubTaskChan) /\ addSubTaskChan' = Tail(addSubTaskChan)
  /\ Waiting' = (IF q.level <= LastLevel THEN Waiting \cup E ELSE Waiting)
  /\ Away' = Away /\ Active' = Active
  /\ UNCHANGED <<processedNodes, errorKey, taskStatus, retryCount, contextData,
                 wfTasks, taskStatusChan, held, queueUpdateChan, statsTorn,
                 totalTasks, finishedTasks, checkSkipped, toSubmit, exec,
                 sagaVars, finalStatus, rowVars, ctlVars>>

\* A batch that QueueAdd takes is one of those that were sent.
LEMMA BatchArrives ==
  ASSUME TypeInv, LevelInv, OrigInv, AddInv, SubInv, EventInv, QueueAdd
  PROVE  \E k \in Caller, E \in SUBSET Sub : BatchAdded(k, E)
<1> DEFINE k == Head(addSubTaskChan)
           p == k[2]
           S == Batch(k)
<1>1. /\ addSubTaskChan \in Seq(Caller) /\ addSubTaskChan # <<>> /\ addSubTaskChan' = Tail(addSubTaskChan)
      /\ q \in Queue /\ tracker \in [Task -> Tracker] /\ pendingSubTasks \in [Task -> SUBSET Sub]
      /\ taskStatus \in [Task -> {"PENDING", "SUCCESS", "FAILED"}]
      /\ originalLevel \in [Task -> 1 .. LastLevel + 1 \cup {None}] /\ decremented \in SUBSET Template
  BY DEF QueueAdd, TypeInv, QueueTypes, FlowTypes
<1>2. k \in Caller /\ 1 \in DOMAIN addSubTaskChan /\ k = addSubTaskChan[1]
  BY <1>1
<1>3. /\ p \in Task /\ S \subseteq Sub /\ S # {} /\ S \subseteq wfTasks /\ Started(p)
      /\ \A s \in S : parentOf[s] = None
  BY <1>2, BatchType DEF AddInv
<1>4. /\ UNCHANGED <<processedNodes, errorKey, taskStatus, retryCount, contextData,
                 wfTasks, taskStatusChan, held, queueUpdateChan, statsTorn,
                 totalTasks, finishedTasks, checkSkipped, toSubmit, exec,
                 sagaVars, finalStatus, rowVars, ctlVars>>
      /\ parentOf' = [s \in Sub |-> IF s \in S THEN p ELSE parentOf[s]]
      /\ tracker' = [tracker EXCEPT ![p].ids = @ \cup S]
      /\ \/ Enqueue(q, p, S) /\ UNCHANGED pendingSubTasks
         \/ /\ pendingSubTasks' = [pendingSubTasks EXCEPT ![p] = @ \cup S]
            /\ UNCHANGED <<q, originalLevel, decremented>>
            /\ p \notin processedNodes \/ \E s \in S : ~(Deps[s] \subseteq processedNodes)
  BY DEF QueueAdd
<1> HIDE DEF k, p, S
<1>5. q.level \in 1 .. LastLevel + 1 /\ q.level \in Nat /\ LastLevel \in Nat
      /\ q.queues \in [1 .. LastLevel -> SUBSET Task]
  BY <1>1, QueueShape, LevelFacts
<1>6. \A s \in S : /\ s \in Task /\ parentOf[s] = None /\ originalLevel[s] = None
                   /\ s \notin processedNodes /\ s \notin Away \cup Waiting
                   /\ taskStatus[s] # "SUCCESS"
  <2>1. SUFFICES ASSUME NEW s \in S
                 PROVE  /\ s \in Task /\ parentOf[s] = None /\ originalLevel[s] = None
                        /\ s \notin processedNodes /\ s \notin Away \cup Waiting
                        /\ taskStatus[s] # "SUCCESS"
    OBVIOUS
  <2>2. s \in Sub /\ s \in Task /\ parentOf[s] = None /\ originalLevel[s] = None
    BY <1>3 DEF SubInv, Task
  <2>3. s \notin processedNodes /\ taskStatus[s] # "SUCCESS"
    BY <2>2 DEF SubInv, EventInv
  <2>4. s \notin Away
    BY <1>5, <2>2, V2Assumption DEF OrigInv
  <2>5. s \notin Waiting
    <3>1. \A m \in 1 .. LastLevel : m # None
      BY <1>5, V2Assumption
    <3> QED
      BY <2>2, <3>1 DEF Waiting, LevelInv
  <2> QED
    BY <2>2, <2>3, <2>4, <2>5
<1>7. tracker' \in [Task -> Tracker]
      /\ \A u \in Task : /\ tracker'[u].completed = tracker[u].completed
                         /\ tracker'[u].ids = IF u = p THEN tracker[u].ids \cup S ELSE tracker[u].ids
  <2> DEFINE tr == [tracker[p] EXCEPT !.ids = @ \cup S]
  <2>1. tracker[p] \in Tracker
    BY <1>1, <1>3
  <2>2. tr \in Tracker /\ tr.ids = tracker[p].ids \cup S /\ tr.completed = tracker[p].completed
    BY <1>3, <2>1 DEF Tracker
  <2>3. tracker' = [tracker EXCEPT ![p] = tr]
    BY <1>4
  <2> HIDE DEF tr
  <2> QED
    BY <1>1, <1>3, <2>2, <2>3
<1>8. Away' = Away /\ Active' = Active
  BY <1>4, PlacesFrame DEF Away
<1>9. CASE Enqueue(q, p, S) /\ UNCHANGED pendingSubTasks
  <2>1. S \in SUBSET Task
    BY <1>6
  <2>2. /\ q' \in Queue /\ q'.level = q.level /\ q'.running = q.running
        /\ \A m \in 1 .. LastLevel : m # q.level => q'.counts[m] = q.counts[m]
        /\ q'.templates = IF p \in Template \ decremented /\ q.templates > 0
                         THEN q.templates - 1 ELSE q.templates
        /\ q.level <= LastLevel => q'.queues = [q.queues EXCEPT ![q.level] = @ \cup S]
        /\ q.level > LastLevel => q'.queues = q.queues
        /\ originalLevel' = [u \in Task |-> IF u \in S THEN q.level ELSE originalLevel[u]]
        /\ decremented' = decremented \cup (Template \cap {p})
    BY <1>1, <1>9, <2>1, EnqueueFields
  <2>3. pendingSubTasks' = [pendingSubTasks EXCEPT ![p] = @ \cup (S \ S)]
    BY <1>1, <1>3, <1>9
  <2>4. Waiting' = (IF q.level <= LastLevel THEN Waiting \cup S ELSE Waiting)
    <3>1. CASE q.level <= LastLevel
      <4>1. q.level \in 1 .. LastLevel
        BY <1>5, <3>1
      <4> QED
        BY <1>1, <2>1, <2>2, <3>1, <4>1, WaitingSteps
    <3>2. CASE ~(q.level <= LastLevel)
      <4>1. q.level > LastLevel
        BY <1>5, <3>2
      <4> QED
        BY <2>2, <3>2, <4>1 DEF Waiting
    <3> QED
      BY <3>1, <3>2
  <2>5. Adds(k, S)
    BY <1>3, <1>4, <1>7, <2>2, <2>3 DEF Adds, p, S
  <2>6. BatchAdded(k, S)
    BY <1>1, <1>2, <1>3, <1>4, <1>6, <1>8, <2>4, <2>5 DEF BatchAdded, k, p, S
  <2> QED
    BY <1>2, <1>3, <2>6
<1>10. CASE /\ pendingSubTasks' = [pendingSubTasks EXCEPT ![p] = @ \cup S]
            /\ UNCHANGED <<q, originalLevel, decremented>>
            /\ p \notin processedNodes \/ \E s \in S : ~(Deps[s] \subseteq processedNodes)
  <2>1. pendingSubTasks' = [pendingSubTasks EXCEPT ![p] = @ \cup (S \ {})]
    BY <1>10
  <2>2. q.level <= LastLevel => q'.queues = [q.queues EXCEPT ![q.level] = @ \cup {}]
    BY <1>5, <1>10
  <2>3. originalLevel' = [u \in Task |-> IF u \in {} THEN q.level ELSE originalLevel[u]]
    BY <1>1, <1>10
  <2>4. p \notin processedNodes \/ \E s \in S : Deps[s] # {}
    BY <1>10
  <2>5. Waiting' = (IF q.level <= LastLevel THEN Waiting \cup {} ELSE Waiting)
    BY <1>10, PlacesFrame
  <2>6. Adds(k, {})
    BY <1>1, <1>3, <1>4, <1>7, <1>10, <2>1, <2>2, <2>3, <2>4 DEF Adds, p, S
  <2>7. BatchAdded(k, {})
    BY <1>1, <1>2, <1>3, <1>4, <1>6, <1>8, <2>5, <2>6 DEF BatchAdded, k, p, S
  <2> QED
    BY <1>2, <2>7
<1> QED
  BY <1>4, <1>9, <1>10

\* Where tasks are after a batch.
LEMMA AddLevels ==
  ASSUME TypeInv, LevelInv, OrigInv, TokenInv, EventInv,
         NEW k \in Caller, NEW E \in SUBSET Sub, BatchAdded(k, E)
  PROVE  LevelInv' /\ OrigInv' /\ TokenInv' /\ EventInv'
<1>1. /\ q \in Queue /\ q.queues \in [1 .. LastLevel -> SUBSET Task] /\ q.level \in Nat
      /\ q.level \in 1 .. LastLevel + 1 /\ LastLevel \in Nat
  BY QueueShape, LevelFacts DEF TypeInv, QueueTypes
<1>2. /\ Adds(k, E) /\ Batch(k) \subseteq Sub /\ E \subseteq Batch(k)
      /\ \A s \in E : /\ originalLevel[s] = None /\ s \notin Away \cup Waiting
                      /\ taskStatus[s] # "SUCCESS" /\ s \in Task
      /\ Waiting' = (IF q.level <= LastLevel THEN Waiting \cup E ELSE Waiting)
      /\ Away' = Away /\ Active' = Active
      /\ UNCHANGED <<processedNodes, errorKey, taskStatus, taskStatusChan, held, queueUpdateChan,
                     toSubmit, exec>>
  BY DEF BatchAdded, Adds, Task
<1>3. /\ q'.level = q.level /\ q'.running = q.running
      /\ \A m \in 1 .. LastLevel : m # q.level => q'.counts[m] = q.counts[m]
      /\ q.level <= LastLevel => q'.queues = [q.queues EXCEPT ![q.level] = @ \cup E]
      /\ q.level > LastLevel => q'.queues = q.queues
      /\ originalLevel' = [u \in Task |-> IF u \in E THEN q.level ELSE originalLevel[u]]
  BY <1>2 DEF Adds
<1>4. /\ \A u \in Task \ E : originalLevel'[u] = originalLevel[u]
      /\ \A u \in E : originalLevel'[u] = q.level
  BY <1>2, <1>3
<1>5. LevelInv'
  <2>1. ASSUME NEW m \in 1 .. LastLevel
        PROVE  /\ \A u \in q'.queues[m] : originalLevel'[u] = m
               /\ m < q'.level => q'.queues[m] = {} /\ q'.running[m] = 0
               /\ m > q'.level => /\ q'.queues[m] = Levels[m] /\ q'.running[m] = 0
                                  /\ q'.counts[m] = Cardinality(Levels[m] \cap Template)
    <3>1. \A u \in q.queues[m] : originalLevel'[u] = m
      <4>1. \A u \in q.queues[m] : u \in Task /\ u \in Waiting
        BY <1>1 DEF Waiting
      <4> QED
        BY <1>2, <1>4, <4>1 DEF LevelInv
    <3>2. CASE m = q.level
      <4>1. q'.queues[m] = q.queues[m] \cup E /\ ~(m < q'.level) /\ ~(m > q'.level)
        BY <1>1, <1>3, <3>2
      <4> QED
        BY <1>4, <3>1, <3>2, <4>1
    <3>3. CASE m # q.level
      <4>1. q'.queues[m] = q.queues[m]
        BY <1>1, <1>3, <3>3
      <4> QED
        BY <1>3, <3>1, <3>3, <4>1 DEF LevelInv
    <3> QED
      BY <3>2, <3>3
  <2> QED
    BY <2>1 DEF LevelInv
<1>6. OrigInv'
  <2>1. \A t \in Main : t \in Task \ E
    BY <1>2, V2Assumption DEF Task
  <2>2. \A t \in Main : originalLevel'[t] \in 1 .. LastLevel /\ t \in Levels[originalLevel'[t]]
    BY <1>4, <2>1 DEF OrigInv
  <2>3. \A s \in Sub : originalLevel'[s] # None => originalLevel'[s] <= q'.level
    BY <1>1, <1>3, <1>4 DEF OrigInv, Task
  <2>4. \A t \in Away' : originalLevel'[t] = q'.level /\ q'.level <= LastLevel
    <3>1. Away \subseteq Task /\ E \cap Away = {}
      BY <1>2, PlaceTypes DEF TypeInv, FlowTypes
    <3> QED
      BY <1>2, <1>3, <1>4, <3>1 DEF OrigInv
  <2> QED
    BY <2>2, <2>3, <2>4 DEF OrigInv
<1>7. TokenInv'
  <2>1. Distinct(taskStatusChan)' /\ Distinct(queueUpdateChan)'
    BY <1>2 DEF TokenInv, Distinct
  <2>2. Reported' = Reported /\ HeldTask' = HeldTask /\ Passed' = Passed
    BY <1>2, PlacesFrame
  <2>3. Waiting' \cap Away' = {}
    BY <1>2 DEF TokenInv
  <2> QED
    BY <1>2, <2>1, <2>2, <2>3 DEF TokenInv
<1>8. EventInv'
  <2>1. \A t \in Task : taskStatus[t] = "SUCCESS" => t \notin E
    BY <1>2
  <2>2. \A t \in Task : taskStatus[t] = "SUCCESS" =>
          originalLevel'[t] # None /\ t \notin Waiting' \cup toSubmit'
    BY <1>2, <1>4, <2>1 DEF EventInv
  <2> QED
    BY <1>2, <2>2 DEF EventInv, EventOK
<1> QED
  BY <1>5, <1>6, <1>7, <1>8

\* The counters after a batch.
LEMMA AddCounts ==
  ASSUME TypeInv, LevelInv, OrigInv, CountInv, TemplInv, TrackInv,
         NEW k \in Caller, NEW E \in SUBSET Sub, BatchAdded(k, E)
  PROVE  CountInv' /\ TemplInv' /\ TrackInv'
<1>1. /\ q \in Queue /\ q.level \in Nat /\ q.level \in 1 .. LastLevel + 1 /\ LastLevel \in Nat
      /\ q.running \in [1 .. LastLevel -> Int] /\ Template \subseteq Main
      /\ parentOf \in [Sub -> Task \cup {None}]
  BY QueueShape, LevelFacts, V2Assumption DEF TypeInv, QueueTypes
<1>2. /\ Adds(k, E) /\ Batch(k) \subseteq Sub /\ E \subseteq Batch(k) /\ Batch(k) # {}
      /\ k[2] \in Task /\ Started(k[2])
      /\ \A s \in Batch(k) : /\ originalLevel[s] = None /\ s \notin Away \cup Waiting
                             /\ s \in Task /\ parentOf[s] = None /\ s \notin processedNodes
      /\ Waiting' = (IF q.level <= LastLevel THEN Waiting \cup E ELSE Waiting)
      /\ Away' = Away
      /\ UNCHANGED <<processedNodes, errorKey, taskStatus>>
  BY DEF BatchAdded, Adds, Task
<1>3. /\ q'.level = q.level /\ q'.running = q.running
      /\ q'.templates = IF E # {} /\ k[2] \in Template \ decremented /\ q.templates > 0
                       THEN q.templates - 1 ELSE q.templates
      /\ decremented' = decremented \cup (IF E = {} THEN {} ELSE Template \cap {k[2]})
      /\ originalLevel' = [u \in Task |-> IF u \in E THEN q.level ELSE originalLevel[u]]
  BY <1>2 DEF Adds
<1>4. /\ \A u \in Task \ E : originalLevel'[u] = originalLevel[u]
      /\ \A u \in E : originalLevel'[u] = q.level
      /\ \A t \in Main : t \in Task /\ originalLevel'[t] = originalLevel[t]
  <2>1. E \subseteq Sub /\ E \subseteq Task /\ E \cap Main = {} /\ Main \subseteq Task
    BY <1>2, V2Assumption DEF Task
  <2>2. \A u \in Task : originalLevel'[u] = IF u \in E THEN q.level ELSE originalLevel[u]
    BY <1>3
  <2> QED
    BY <2>1, <2>2
<1>5. CountInv'
  <2>1. Ended' = Ended
    BY <1>2 DEF Ended
  <2>2. ASSUME NEW m \in 1 .. LastLevel PROVE q'.running[m] >= Cardinality(Counted(m)')
    <3>1. Counted(m)' \subseteq Counted(m)
      <4>1. SUFFICES ASSUME NEW t \in Counted(m)' PROVE t \in Counted(m)
        OBVIOUS
      <4>2. t \in Task /\ originalLevel'[t] = m /\ (t \in Away \/ t \notin Waiting' \cup Ended)
        BY <1>2, <2>1 DEF Counted
      <4>3. t \notin E
        <5>1. SUFFICES ASSUME t \in E PROVE FALSE
          OBVIOUS
        <5>2. m = q.level /\ q.level <= LastLevel
          BY <1>4, <4>2, <5>1, <1>1
        <5> QED
          BY <1>2, <4>2, <5>1, <5>2
      <4> QED
        BY <1>2, <1>4, <4>2, <4>3 DEF Counted
    <3>2. Counted(m) \in SUBSET Task
      BY DEF Counted
    <3>3. Cardinality(Counted(m)') <= Cardinality(Counted(m)) /\ Cardinality(Counted(m)') \in Nat
          /\ Cardinality(Counted(m)) \in Nat
      BY <3>1, <3>2, TaskCards
    <3>4. q.running[m] >= Cardinality(Counted(m)) /\ q.running[m] \in Int
      BY <1>1 DEF CountInv
    <3> QED
      BY <1>3, <3>3, <3>4
  <2> QED
    BY <2>2 DEF CountInv
<1>6. TemplInv'
  <2> DEFINE T == {t \in Template \ decremented : originalLevel[t] = q.level}
  <2>1. {t \in Template \ decremented' : originalLevel'[t] = q'.level}
          = IF E = {} THEN T ELSE T \ {k[2]}
    BY <1>1, <1>3, <1>4
  <2>2. T \in SUBSET Task
    BY <1>1 DEF Task
  <2>3. k[2] \in Template \ decremented => k[2] \in T
    <3>1. SUFFICES ASSUME k[2] \in Template \ decremented PROVE originalLevel[k[2]] = q.level
      OBVIOUS
    <3>2. originalLevel[k[2]] \in 1 .. LastLevel /\ originalLevel[k[2]] <= q.level
      BY <1>1, <1>2, <3>1 DEF OrigInv, Started
    <3>3. ~(originalLevel[k[2]] < q.level)
      BY <3>1 DEF TemplInv
    <3> QED
      BY <1>1, <3>2, <3>3
  <2>4. q.level <= LastLevel => q'.templates = Cardinality(IF E = {} THEN T ELSE T \ {k[2]})
    <3>1. SUFFICES ASSUME q.level <= LastLevel
                   PROVE  q'.templates = Cardinality(IF E = {} THEN T ELSE T \ {k[2]})
      OBVIOUS
    <3>2. q.templates = Cardinality(T) /\ Cardinality(T) \in Nat
      BY <2>2, <3>1, TaskCards DEF TemplInv
    <3>3. CASE E # {} /\ k[2] \in Template \ decremented
      <4>1. k[2] \in T
        BY <2>3, <3>3
      <4> HIDE DEF T
      <4>2. Cardinality(T \ {k[2]}) = Cardinality(T) - 1 /\ T # {}
        BY <2>2, <4>1, TaskCards
      <4>3. Cardinality(T) # 0
        BY <2>2, <4>1, TaskCards
      <4>4. q.templates > 0
        BY <3>2, <4>3
      <4> QED
        BY <1>3, <3>2, <3>3, <4>2, <4>4
    <3>4. CASE E = {}
      BY <1>3, <3>2, <3>4
    <3>5. CASE E # {} /\ ~(k[2] \in Template \ decremented)
      <4>1. T \ {k[2]} = T
        BY <3>5
      <4> QED
        BY <1>3, <3>2, <3>5, <4>1
    <3> QED
      BY <3>3, <3>4, <3>5
  <2>5. ASSUME NEW t \in Template
        PROVE  /\ originalLevel'[t] < q'.level => t \in decremented'
               /\ t \in decremented' => originalLevel'[t] <= q'.level
    <3>1. originalLevel'[t] = originalLevel[t] /\ q'.level = q.level
      BY <1>1, <1>3, <1>4
    <3>2. t \in decremented' => t \in decremented \/ t = k[2]
      BY <1>3
    <3>3. t = k[2] => originalLevel[t] <= q.level
      BY <1>2 DEF Started
    <3> QED
      BY <1>3, <3>1, <3>2, <3>3 DEF TemplInv
  <2> HIDE DEF T
  <2> QED
    BY <1>3, <2>1, <2>4, <2>5 DEF TemplInv
<1>7. TrackInv'
  <2>1. /\ \A p \in Task : /\ tracker'[p].completed = tracker[p].completed
                           /\ tracker'[p].ids = IF p = k[2] THEN tracker[p].ids \cup Batch(k)
                                                            ELSE tracker[p].ids
        /\ parentOf' = [s \in Sub |-> IF s \in Batch(k) THEN k[2] ELSE parentOf[s]]
        /\ tracker' \in [Task -> Tracker]
    BY <1>2 DEF Adds
  <2>2. ASSUME NEW p \in Task
        PROVE  /\ tracker'[p].ids = {s \in Sub : parentOf'[s] = p}
               /\ tracker'[p].completed <= Cardinality(Over(p)')
    <3>1. tracker[p].ids = {s \in Sub : parentOf[s] = p} /\ p # None
      BY V2Assumption DEF TrackInv
    <3>2. \A s \in Sub : parentOf'[s] = IF s \in Batch(k) THEN k[2] ELSE parentOf[s]
      BY <2>1
    <3>3. tracker'[p].ids = {s \in Sub : parentOf'[s] = p}
      <4>1. CASE p = k[2]
        <5>1. tracker'[p].ids = tracker[p].ids \cup Batch(k)
          BY <2>1, <4>1
        <5>2. {s \in Sub : parentOf'[s] = p} = {s \in Sub : parentOf[s] = p} \cup Batch(k)
          BY <1>2, <3>2, <4>1
        <5> QED
          BY <3>1, <5>1, <5>2
      <4>2. CASE p # k[2]
        <5>1. tracker'[p].ids = tracker[p].ids
          BY <2>1, <4>2
        <5>2. {s \in Sub : parentOf'[s] = p} = {s \in Sub : parentOf[s] = p}
          BY <1>2, <3>1, <3>2, <4>2
        <5> QED
          BY <3>1, <5>1, <5>2
      <4> QED
        BY <4>1, <4>2
    <3>4. Over(p) \subseteq Over(p)'
      BY <1>2, <3>1, <3>2 DEF Over
    <3>5. Over(p)' \in SUBSET Task
      BY DEF Over, Task
    <3>6. Cardinality(Over(p)) <= Cardinality(Over(p)') /\ Cardinality(Over(p)) \in Nat
          /\ Cardinality(Over(p)') \in Nat
      BY <3>4, <3>5, TaskCards
    <3>7. tracker[p].completed <= Cardinality(Over(p)) /\ tracker[p].completed \in Nat
      BY DEF TrackInv, TypeInv, QueueTypes, Tracker
    <3>8. tracker'[p].completed = tracker[p].completed
      BY <2>1
    <3>9. tracker[p].completed <= Cardinality(Over(p)')
      BY <3>6, <3>7
    <3> QED
      BY <3>3, <3>8, <3>9
  <2> QED
    BY <2>2 DEF TrackInv
<1> QED
  BY <1>5, <1>6, <1>7

\* The batches after one more has been handled.
LEMMA AddBatches ==
  ASSUME TypeInv, LevelInv, OrigInv, CountInv, AddInv, SubInv, PendInv,
         NEW k \in Caller, NEW E \in SUBSET Sub, BatchAdded(k, E)
  PROVE  AddInv' /\ SubInv' /\ PendInv'
<1>1. /\ q \in Queue /\ q.level \in Nat /\ q.level \in 1 .. LastLevel + 1 /\ LastLevel \in Nat
      /\ parentOf \in [Sub -> Task \cup {None}] /\ pendingSubTasks \in [Task -> SUBSET Sub]
      /\ addSubTaskChan \in Seq(Caller)
      /\ originalLevel \in [Task -> 1 .. LastLevel + 1 \cup {None}]
  BY QueueShape, LevelFacts DEF TypeInv, QueueTypes, FlowTypes
<1>2. /\ Adds(k, E) /\ Batch(k) \subseteq Sub /\ E \in {Batch(k), {}} /\ Batch(k) # {}
      /\ Batch(k) \subseteq wfTasks /\ wfTasks' = wfTasks
      /\ k[2] \in Task /\ Started(k[2]) /\ k[2] # None /\ q.level # None
      /\ \A s \in Batch(k) : /\ originalLevel[s] = None /\ s \in Task /\ parentOf[s] = None
                             /\ s \notin processedNodes
      /\ addSubTaskChan # <<>> /\ k = Head(addSubTaskChan) /\ addSubTaskChan' = Tail(addSubTaskChan)
      /\ processedNodes' = processedNodes
  <2>1. \A t \in Task : t # None
    BY V2Assumption
  <2>2. q.level # None
    BY <1>1, V2Assumption
  <2>3. Batch(k) \subseteq Task
    BY DEF BatchAdded, Task
  <2>4. E \in {Batch(k), {}}
    BY DEF BatchAdded, Adds
  <2> QED
    BY <2>1, <2>2, <2>3, <2>4 DEF BatchAdded
<1>3. /\ q'.level = q.level
      /\ decremented' = decremented \cup (IF E = {} THEN {} ELSE Template \cap {k[2]})
      /\ originalLevel' = [u \in Task |-> IF u \in E THEN q.level ELSE originalLevel[u]]
      /\ parentOf' = [s \in Sub |-> IF s \in Batch(k) THEN k[2] ELSE parentOf[s]]
      /\ pendingSubTasks' = [pendingSubTasks EXCEPT ![k[2]] = @ \cup (Batch(k) \ E)]
      /\ E = {} => k[2] \notin processedNodes \/ \E s \in Batch(k) : Deps[s] # {}
  BY <1>2 DEF Adds
<1>4. /\ \A u \in Task \ E : originalLevel'[u] = originalLevel[u]
      /\ \A u \in E : u \in Batch(k) /\ u \in Task /\ originalLevel'[u] = q.level
      /\ \A s \in Batch(k) : parentOf'[s] = k[2]
      /\ \A s \in Sub \ Batch(k) : parentOf'[s] = parentOf[s]
      /\ \A p \in Task : pendingSubTasks'[p] = IF p = k[2] THEN pendingSubTasks[p] \cup (Batch(k) \ E)
                                              ELSE pendingSubTasks[p]
      /\ \A p \in Task : pendingSubTasks[p] \subseteq pendingSubTasks'[p]
  BY <1>1, <1>2, <1>3
<1>5. \A p \in Task : Started(p) => Started(p)'
  <2>1. SUFFICES ASSUME NEW p \in Task, Started(p) PROVE Started(p)'
    OBVIOUS
  <2>2. p \notin E
    BY <1>2, <1>4, <2>1 DEF Started
  <2>3. originalLevel'[p] = originalLevel[p]
    BY <1>4, <2>2
  <2> QED
    BY <1>3, <2>1, <2>3 DEF Started
<1>6. Handled(k)'
  BY <1>2, <1>4 DEF Handled
<1>7. \A j \in Caller : Handled(j) => Handled(j)'
  <2>1. SUFFICES ASSUME NEW j \in Caller, Handled(j) PROVE Handled(j)'
    OBVIOUS
  <2>2. Batch(j) \subseteq Sub /\ j[2] # None
    BY BatchType, V2Assumption
  <2>3. \A s \in Batch(j) : s \notin Batch(k)
    BY <1>2, <2>1, <2>2 DEF Handled
  <2> QED
    BY <1>4, <2>1, <2>2, <2>3 DEF Handled
<1>8. AddInv'
  <2> DEFINE n == Len(addSubTaskChan)
  <2>1. /\ n \in Nat /\ n > 0 /\ DOMAIN addSubTaskChan = 1 .. n /\ DOMAIN addSubTaskChan' = 1 .. n - 1
        /\ \A i \in 1 .. n - 1 : addSubTaskChan'[i] = addSubTaskChan[i + 1]
        /\ k = addSubTaskChan[1] /\ \A i \in 1 .. n : addSubTaskChan[i] \in Caller
    BY <1>1, <1>2
  <2> HIDE DEF n
  <2>2. \A i \in 1 .. n - 1 : i + 1 \in 1 .. n /\ i + 1 # 1 /\ 1 \in 1 .. n
    BY <2>1
  <2>3. ASSUME NEW i \in 1 .. n - 1, NEW j \in Caller, j = addSubTaskChan[i + 1]
        PROVE  /\ Batch(j) # {} /\ Batch(j) \subseteq wfTasks'
               /\ originalLevel'[j[2]] # None /\ originalLevel'[j[2]] <= q'.level
               /\ \A s \in Batch(j) : parentOf'[s] = None
    <3>1. /\ Batch(j) # {} /\ Batch(j) \subseteq wfTasks /\ Started(j[2])
          /\ \A s \in Batch(j) : parentOf[s] = None
      BY <2>1, <2>2, <2>3 DEF AddInv
    <3>2. j # k
      BY <2>1, <2>2, <2>3 DEF AddInv
    <3>3. Batch(j) \cap Batch(k) = {} /\ Batch(j) \subseteq Sub /\ j[2] \in Task
      BY <3>2, BatchType, V2Assumption
    <3>4. originalLevel'[j[2]] # None /\ originalLevel'[j[2]] <= q'.level
      <4>1. PICK p \in Task : p = j[2]
        BY <3>3
      <4>2. Started(p)'
        BY <1>5, <3>1, <4>1
      <4> QED
        BY <4>1, <4>2 DEF Started
    <3> QED
      BY <1>2, <1>4, <3>1, <3>3, <3>4
  <2>4. \A i \in DOMAIN addSubTaskChan' :
          LET j == addSubTaskChan'[i] IN
          /\ Batch(j) # {} /\ Batch(j) \subseteq wfTasks'
          /\ originalLevel'[j[2]] # None /\ originalLevel'[j[2]] <= q'.level
          /\ \A s \in Batch(j) : parentOf'[s] = None
    BY <2>1, <2>2, <2>3
  <2>5. \A i, j \in DOMAIN addSubTaskChan' : addSubTaskChan'[i] = addSubTaskChan'[j] => i = j
    <3>1. SUFFICES ASSUME NEW i \in 1 .. n - 1, NEW j \in 1 .. n - 1,
                          addSubTaskChan[i + 1] = addSubTaskChan[j + 1]
                   PROVE  i = j
      BY <2>1
    <3>2. i + 1 = j + 1
      BY <2>1, <2>2, <3>1 DEF AddInv
    <3> QED
      BY <2>1, <3>2
  <2> QED
    BY <2>4, <2>5 DEF AddInv, Started
<1>9. SubInv'
  <2>1. ASSUME NEW s \in Batch(k)
        PROVE  /\ s \in wfTasks' /\ Started(k[2])' /\ parentOf'[s] = k[2]
               /\ originalLevel'[s] = None => s \in pendingSubTasks'[k[2]]
               /\ s \notin processedNodes'
    <3>1. Started(k[2])'
      <4>1. PICK p \in Task : p = k[2]
        BY <1>2
      <4>2. Started(p)'
        BY <1>2, <1>5, <4>1
      <4> QED
        BY <4>1, <4>2 DEF Started
    <3>2. originalLevel'[s] = None => s \in pendingSubTasks'[k[2]]
      <4>1. pendingSubTasks'[k[2]] = pendingSubTasks[k[2]] \cup (Batch(k) \ E)
        BY <1>2, <1>4
      <4>2. s \in E => originalLevel'[s] # None
        BY <1>2, <1>4
      <4> QED
        BY <4>1, <4>2
    <3> QED
      BY <1>2, <1>4, <3>1, <3>2
  <2>2. ASSUME NEW s \in Sub \ Batch(k)
        PROVE  /\ parentOf'[s] # None =>
                    /\ s \in wfTasks'
                    /\ originalLevel'[parentOf'[s]] # None /\ originalLevel'[parentOf'[s]] <= q'.level
                    /\ \E j \in Caller : j[2] = parentOf'[s] /\ s \in Batch(j) /\ Handled(j)'
                    /\ originalLevel'[s] = None => s \in pendingSubTasks'[parentOf'[s]]
               /\ parentOf'[s] = None => originalLevel'[s] = None
               /\ s \in processedNodes' => originalLevel'[s] # None
    <3>1. parentOf'[s] = parentOf[s] /\ originalLevel'[s] = originalLevel[s]
      BY <1>4 DEF Task
    <3>2. ASSUME parentOf[s] # None
          PROVE  /\ s \in wfTasks'
                 /\ originalLevel'[parentOf[s]] # None /\ originalLevel'[parentOf[s]] <= q'.level
                 /\ \E j \in Caller : j[2] = parentOf[s] /\ s \in Batch(j) /\ Handled(j)'
                 /\ originalLevel[s] = None => s \in pendingSubTasks'[parentOf[s]]
      <4>1. PICK p \in Task : p = parentOf[s]
        BY <1>1, <3>2
      <4>2. Started(p) /\ s \in wfTasks /\ (originalLevel[s] = None => s \in pendingSubTasks[p])
        BY <3>2, <4>1 DEF SubInv
      <4>3. Started(p)'
        BY <1>5, <4>2
      <4>4. PICK j \in Caller : j[2] = p /\ s \in Batch(j) /\ Handled(j)
        BY <3>2, <4>1 DEF SubInv
      <4>5. Handled(j)'
        BY <1>7, <4>4
      <4> QED
        BY <1>2, <1>4, <4>1, <4>2, <4>3, <4>4, <4>5 DEF Started
    <3> QED
      BY <1>2, <3>1, <3>2 DEF SubInv
  <2> QED
    BY <1>2, <1>6, <2>1, <2>2 DEF SubInv, Started
<1>10. PendInv'
  <2>1. ASSUME NEW p \in Task, NEW s \in pendingSubTasks'[p]
        PROVE  parentOf'[s] = p /\ originalLevel'[s] = None
    <3>1. CASE s \in pendingSubTasks[p]
      <4>1. parentOf[s] = p /\ originalLevel[s] = None /\ s \in Sub /\ s \in Task /\ p # None
        BY <1>1, <3>1, V2Assumption DEF PendInv, Task
      <4>2. s \notin Batch(k)
        BY <1>2, <4>1
      <4> QED
        BY <1>4, <4>1, <4>2
    <3>2. CASE s \notin pendingSubTasks[p]
      <4>1. p = k[2] /\ s \in Batch(k) \ E
        BY <1>4, <2>1, <3>2
      <4> QED
        BY <1>2, <1>4, <4>1
    <3> QED
      BY <3>1, <3>2
  <2>2. \A p \in Task : DepPending(p) => DepPending(p)'
    <3>1. SUFFICES ASSUME NEW p \in Task, DepPending(p) PROVE DepPending(p)'
      OBVIOUS
    <3>2. PICK u \in Sub : parentOf[u] = p /\ Deps[u] # {}
      BY <3>1 DEF DepPending
    <3>3. u \notin Batch(k)
      BY <1>2, <3>2, V2Assumption
    <3> QED
      BY <1>4, <3>2, <3>3 DEF DepPending
  <2>3. \A p \in Task : originalLevel[p] = q.level => originalLevel'[p] = q'.level
    BY <1>2, <1>3, <1>4
  <2>4. ASSUME NEW p \in Task, pendingSubTasks'[p] # {}
        PROVE  originalLevel'[p] = q'.level \/ DepPending(p)'
    <3>1. CASE pendingSubTasks[p] # {}
      BY <2>2, <2>3, <3>1 DEF PendInv
    <3>2. CASE pendingSubTasks[p] = {}
      <4>1. p = k[2] /\ E = {}
        BY <1>2, <1>4, <2>4, <3>2
      <4>2. CASE originalLevel[p] = q.level
        BY <2>3, <4>2
      <4>3. CASE originalLevel[p] # q.level
        <5>1. originalLevel[p] \in 1 .. LastLevel + 1 /\ originalLevel[p] <= q.level
          BY <1>1, <1>2, <4>1 DEF Started
        <5>2. originalLevel[p] < q.level /\ originalLevel[p] \in 1 .. LastLevel
          BY <1>1, <4>3, <5>1
        <5>3. p \in processedNodes
          BY <5>2, LevelOver DEF Ended
        <5>4. PICK s \in Batch(k) : Deps[s] # {}
          BY <1>3, <4>1, <5>3
        <5> QED
          BY <1>2, <1>4, <4>1, <5>4 DEF DepPending
      <4> QED
        BY <4>2, <4>3
    <3> QED
      BY <3>1, <3>2
  <2>5. ASSUME NEW p \in Task, p \in decremented'
        PROVE  \E j \in Caller : j[2] = p /\ Handled(j)'
    <3>1. CASE p \in decremented
      <4>1. PICK j \in Caller : j[2] = p /\ Handled(j)
        BY <3>1 DEF PendInv
      <4> QED
        BY <1>7, <4>1
    <3>2. CASE p \notin decremented
      BY <1>3, <1>6, <2>5, <3>2
    <3> QED
      BY <3>1, <3>2
  <2> QED
    BY <2>1, <2>4, <2>5 DEF PendInv
<1> QED
  BY <1>8, <1>9, <1>10

\* The manager takes a batch.
LEMMA QueueAddInv ==
  ASSUME V2IInv, QueueAdd
  PROVE  V2IInv'
<1>1. /\ TypeInv /\ LevelInv /\ OrigInv /\ TokenInv /\ CountInv /\ TemplInv /\ AddInv /\ SubInv
      /\ TrackInv /\ PendInv /\ EventInv /\ PcInv /\ OutcomeInv /\ SagaInv
      /\ QueueTypes /\ FlowTypes /\ ControlTypes
  BY DEF V2IInv, TypeInv
<1>2. PICK k \in Caller, E \in SUBSET Sub : BatchAdded(k, E)
  BY <1>1, BatchArrives
<1>3. LevelInv' /\ OrigInv' /\ TokenInv' /\ EventInv'
  BY <1>1, <1>2, AddLevels
<1>4. CountInv' /\ TemplInv' /\ TrackInv'
  BY <1>1, <1>2, AddCounts
<1>5. AddInv' /\ SubInv' /\ PendInv'
  BY <1>1, <1>2, AddBatches
<1>6. /\ Adds(k, E) /\ k[2] \in Task /\ Batch(k) \subseteq Sub /\ Active' = Active
      /\ addSubTaskChan # <<>> /\ addSubTaskChan' = Tail(addSubTaskChan)
      /\ UNCHANGED <<processedNodes, errorKey, taskStatus, retryCount, contextData,
                 wfTasks, taskStatusChan, held, queueUpdateChan, statsTorn,
                 totalTasks, finishedTasks, checkSkipped, toSubmit, exec,
                 sagaVars, finalStatus, rowVars, ctlVars>>
  BY <1>2 DEF BatchAdded
<1>7. qpc = "select" /\ qpc' = "advance"
  BY DEF QueueAdd
<1>8. finalStatus = None /\ finalStatus' = None
  BY <1>1, <1>6, <1>7 DEF PcInv
<1>9. TypeInv'
  <2>1. QueueTypes'
    <3>1. q.level \in 1 .. LastLevel + 1 /\ originalLevel \in [Task -> 1 .. LastLevel + 1 \cup {None}]
          /\ Template \subseteq Task
      BY <1>1, QueueShape, V2Assumption DEF QueueTypes, Task
    <3>2. q' \in Queue /\ originalLevel' \in [Task -> 1 .. LastLevel + 1 \cup {None}]
          /\ decremented' \in SUBSET Template /\ parentOf' \in [Sub -> Task \cup {None}]
          /\ tracker' \in [Task -> Tracker] /\ pendingSubTasks' \in [Task -> SUBSET Sub]
      BY <1>1, <1>6, <3>1 DEF Adds, QueueTypes
    <3> QED
      BY <1>1, <1>6, <3>2 DEF QueueTypes
  <2>2. FlowTypes'
    <3>1. /\ Tail(addSubTaskChan) \in Seq(Caller) /\ Len(addSubTaskChan) \in Nat
          /\ Len(Tail(addSubTaskChan)) = Len(addSubTaskChan) - 1
      BY <1>1, <1>6 DEF FlowTypes
    <3>2. Len(addSubTaskChan') <= EventCap
      BY <1>1, <1>6, <3>1, V2Assumption DEF FlowTypes
    <3>3. statsWaiting' \in Nat
      <4> DEFINE c == Cardinality(Batch(Head(addSubTaskChan)))
      <4>1. Head(addSubTaskChan) \in Caller
        BY <1>1, <1>6 DEF FlowTypes
      <4>2. Batch(Head(addSubTaskChan)) \in SUBSET Task
        BY <4>1, BatchType DEF Task
      <4>3. c \in Nat
        BY <4>2, TaskCards
      <4>4. statsWaiting' = Min({StatsCap, statsWaiting + c})
        BY DEF QueueAdd
      <4> HIDE DEF c
      <4>5. StatsCap \in Nat /\ statsWaiting + c \in Nat
        BY <1>1, <4>3, V2Assumption DEF FlowTypes
      <4>6. \E x \in {StatsCap, statsWaiting + c} : \A y \in {StatsCap, statsWaiting + c} : x <= y
        BY <4>5
      <4>7. Min({StatsCap, statsWaiting + c}) \in {StatsCap, statsWaiting + c}
        BY <4>6 DEF Min
      <4> QED
        BY <4>4, <4>5, <4>7
    <3> QED
      BY <1>1, <1>6, <3>1, <3>2, <3>3 DEF FlowTypes
  <2>3. ControlTypes'
    BY <1>1, <1>6, <1>7 DEF ControlTypes, rowVars, ctlVars, sagaVars
  <2> QED
    BY <2>1, <2>2, <2>3 DEF TypeInv
<1>10. PcInv'
  BY <1>1, <1>6, <1>7, <1>8 DEF PcInv
<1>11. OutcomeInv'
  <2>1. stored' = stored /\ stored # "Success"
    BY <1>1, <1>6, <1>8, V2Assumption DEF OutcomeInv, rowVars
  <2> QED
    BY <1>7, <1>8, <2>1, V2Assumption DEF OutcomeInv
<1>12. SagaInv'
  BY <1>1, <1>6, SagaFrame
<1> QED
  BY <1>3, <1>4, <1>5, <1>9, <1>10, <1>11, <1>12 DEF V2IInv

\* The queue at the start holds every task at its level.
LEMMA StartQueue ==
  LET p == initTaskQueue IN
  /\ p \in Queue /\ p.queues = Levels /\ p.level = 1
  /\ p.running = [l \in 1 .. LastLevel |-> 0]
  /\ p.counts = [l \in 1 .. LastLevel |-> Cardinality(Levels[l] \cap Template)]
  /\ p.templates = Cardinality(Levels[1] \cap Template)
<1> DEFINE C == [l \in 1 .. LastLevel |-> Cardinality(Levels[l] \cap Template)]
           Z == [l \in 1 .. LastLevel |-> 0]
<1>1. /\ DOMAIN Levels = 1 .. LastLevel /\ Levels \in [1 .. LastLevel -> SUBSET Main]
      /\ LastLevel \in Nat /\ LastLevel >= 1
  BY LevelFacts
<1>2. \A l \in 1 .. LastLevel : Cardinality(Levels[l] \cap Template) \in Nat
  <2> TAKE l \in 1 .. LastLevel
  <2>1. Levels[l] \cap Template \in SUBSET Task
    BY <1>1, V2Assumption DEF Task
  <2> QED
    BY <2>1, TaskCards
<1>3. C \in [1 .. LastLevel -> Int] /\ Z \in [1 .. LastLevel -> Int]
  BY <1>2
<1>4. C[1] = Cardinality(Levels[1] \cap Template) /\ C[1] \in Int
  BY <1>1, <1>3
<1>5. Levels \in [1 .. LastLevel -> SUBSET Task]
  BY <1>1 DEF Task
<1>6. initTaskQueue = [queues |-> Levels, running |-> Z, level |-> 1, counts |-> C,
                       templates |-> C[1]]
  BY <1>1 DEF initTaskQueue, NewQueue, Levels
<1> HIDE DEF C, Z
<1>7. /\ initTaskQueue \in Queue /\ initTaskQueue.queues = Levels /\ initTaskQueue.level = 1
      /\ initTaskQueue.running = Z /\ initTaskQueue.counts = C
      /\ initTaskQueue.templates = C[1]
  BY <1>1, <1>3, <1>4, <1>5, <1>6 DEF Queue
<1> QED
  BY <1>4, <1>7 DEF C, Z

\* Both counts of the tasks that a start may send.
LEMMA StartStats ==
  ASSUME NEW done \in SUBSET Main
  PROVE  StatsAfterRestore(done) \in Nat
<1> DEFINE c == Cardinality(Main) * (IF done = {} THEN 1 ELSE 2)
<1>1. Cardinality(Main) \in Nat
  BY TaskCards DEF Task
<1>2. c \in Nat
  BY <1>1
<1>3. StatsAfterRestore(done) = Min({StatsCap, c})
  BY DEF StatsAfterRestore
<1> HIDE DEF c
<1>4. StatsCap \in Nat
  BY V2Assumption
<1>5. \E x \in {StatsCap, c} : \A y \in {StatsCap, c} : x <= y
  BY <1>2, <1>4
<1>6. Min({StatsCap, c}) \in {StatsCap, c}
  BY <1>5 DEF Min
<1> QED
  BY <1>2, <1>3, <1>4, <1>6

\* A start, and a start from a breakpoint, satisfy the invariant.
LEMMA StartInv ==
  ASSUME V2Init
  PROVE  V2IInv
<1>0. PICK done \in Breakpoints :
        /\ q = initTaskQueue /\ processedNodes = done
        /\ originalLevel = [t \in Task |-> IF t \in Main
                              THEN CHOOSE l \in DOMAIN q.queues : t \in q.queues[l]
                              ELSE None]
        /\ contextData = [t \in Task |-> IF t \in done THEN {} ELSE None]
        /\ statsWaiting = StatsAfterRestore(done) /\ finishedTasks = Cardinality(done)
  BY DEF V2Init
<1>1. /\ errorKey = {} /\ decremented = {} /\ taskStatus = [t \in Task |-> "PENDING"]
      /\ retryCount = [t \in Task |-> 0] /\ pendingSubTasks = [t \in Task |-> {}]
      /\ parentOf = [s \in Sub |-> None]
      /\ tracker = [t \in Task |-> [ids |-> {}, completed |-> 0, ok |-> {}]]
      /\ wfTasks = {} /\ taskStatusChan = <<>> /\ held = None
      /\ queueUpdateChan = <<>> /\ addSubTaskChan = <<>>
      /\ statsTorn = FALSE /\ totalTasks = 0 /\ toSubmit = {}
      /\ exec = [t \in Task |-> "none"]
      /\ saga = NewSaga /\ compensating = {} /\ compensated = <<>>
      /\ qpc = "select" /\ finalStatus = None
      /\ status = "Running" /\ stored = "Running"
      /\ controlChan = <<>> /\ cpc = "select"
  BY DEF V2Init
<1>2. /\ LastLevel \in Nat /\ LastLevel >= 1
      /\ Levels \in [1 .. LastLevel -> SUBSET Main] /\ DOMAIN Levels = 1 .. LastLevel
      /\ \A t \in Main : \E l \in 1 .. LastLevel : t \in Levels[l]
      /\ \A l, m \in 1 .. LastLevel : Levels[l] \cap Levels[m] # {} => l = m
  BY LevelFacts
<1>3. /\ q \in Queue /\ q.queues = Levels /\ q.level = 1
      /\ q.running = [l \in 1 .. LastLevel |-> 0]
      /\ q.counts = [l \in 1 .. LastLevel |-> Cardinality(Levels[l] \cap Template)]
      /\ q.templates = Cardinality(Levels[1] \cap Template)
  BY <1>0, StartQueue
<1>4. \A t \in Main : originalLevel[t] \in 1 .. LastLevel /\ t \in Levels[originalLevel[t]]
  <2> TAKE t \in Main
  <2>1. originalLevel[t] = CHOOSE l \in 1 .. LastLevel : t \in Levels[l]
    BY <1>0, <1>2, <1>3 DEF Task
  <2> QED
    BY <1>2, <2>1
<1>5. \A s \in Sub : originalLevel[s] = None
  BY <1>0, V2Assumption DEF Task
<1>6. None \notin Task /\ None \notin Nat /\ None \notin Event /\ None \notin {"Success", "Failed"}
      /\ Main \cap Sub = {} /\ Template \subseteq Main /\ done \subseteq Main
  BY V2Assumption DEF Event
<1>7. \A t \in Task : originalLevel[t] # None <=> t \in Main
  BY <1>2, <1>4, <1>5, <1>6 DEF Task
<1>8. Away = {} /\ Waiting = Main
  <2>1. Active = {} /\ Reported = {} /\ HeldTask = {} /\ Passed = {}
    BY <1>1 DEF Active, Reported, HeldTask, Passed, InChan
  <2>2. Waiting = Main
    BY <1>2, <1>3 DEF Waiting, Task
  <2> QED
    BY <1>1, <2>1, <2>2 DEF Away
<1>9. TypeInv
  <2>1. QueueTypes
    <3>1. done \in SUBSET Task
      BY <1>6 DEF Task
    <3>2. originalLevel \in [Task -> 1 .. LastLevel + 1 \cup {None}]
      <4>1. \A t \in Task : originalLevel[t] \in 1 .. LastLevel + 1 \cup {None}
        BY <1>2, <1>4, <1>5 DEF Task
      <4> QED
        BY <1>0, <4>1
    <3>3. \A t \in Task : retryCount[t] <= RetryCount[t]
      BY <1>1, V2Assumption
    <3>4. tracker \in [Task -> Tracker]
      BY <1>1 DEF Tracker
    <3>5. contextData \in [Task -> {None} \cup SUBSET Sub]
      BY <1>0
    <3> QED
      BY <1>0, <1>1, <1>3, <3>1, <3>2, <3>3, <3>4, <3>5 DEF QueueTypes
  <2>2. FlowTypes
    <3>1. done \in SUBSET Task
      BY <1>6 DEF Task
    <3>2. Cardinality(done) \in Nat
      BY <3>1, TaskCards
    <3>3. statsWaiting \in Nat
      BY <1>0, <1>6, StartStats
    <3>4. EventCap \in Nat
      BY V2Assumption
    <3> QED
      BY <1>0, <1>1, <3>2, <3>3, <3>4 DEF FlowTypes, Stage
  <2>3. ControlTypes
    BY <1>1 DEF ControlTypes, NewSaga, SagaState
  <2> QED
    BY <2>1, <2>2, <2>3 DEF TypeInv
<1>10. LevelInv
  <2> SUFFICES ASSUME NEW l \in 1 .. LastLevel
               PROVE  /\ \A t \in Levels[l] : originalLevel[t] = l
                      /\ l >= 1
                      /\ q.running[l] = 0
                      /\ q.counts[l] = Cardinality(Levels[l] \cap Template)
    BY <1>3, <1>2 DEF LevelInv
  <2>1. \A t \in Levels[l] : originalLevel[t] = l
    BY <1>2, <1>4
  <2> QED
    BY <1>2, <1>3, <2>1
<1>11. OrigInv
  BY <1>4, <1>5, <1>8 DEF OrigInv
<1>12. TokenInv
  BY <1>1, <1>8 DEF TokenInv, Distinct, Away
<1>13. CountInv
  <2> SUFFICES ASSUME NEW l \in 1 .. LastLevel
               PROVE  q.running[l] >= Cardinality(Counted(l))
    BY DEF CountInv
  <2>1. Counted(l) = {}
    BY <1>2, <1>5, <1>6, <1>8 DEF Counted, Task
  <2>2. Cardinality(Counted(l)) = 0
    BY <2>1, FS_EmptySet
  <2> QED
    BY <1>3, <2>2
<1>14. TemplInv
  <2>1. {t \in Template \ decremented : originalLevel[t] = 1} = Levels[1] \cap Template
    BY <1>1, <1>2, <1>4, <1>6
  <2>2. \A t \in Template : ~(originalLevel[t] < q.level) /\ t \notin decremented
    BY <1>1, <1>2, <1>3, <1>4, <1>6
  <2>3. q.templates = Cardinality({t \in Template \ decremented : originalLevel[t] = q.level})
    BY <1>3, <2>1
  <2> QED
    BY <2>2, <2>3 DEF TemplInv
<1>15. AddInv
  BY <1>1 DEF AddInv
<1>16. SubInv
  BY <1>0, <1>1, <1>5, <1>6 DEF SubInv
<1>17. TrackInv
  <2> SUFFICES ASSUME NEW p \in Task
               PROVE  /\ tracker[p].ids = {s \in Sub : parentOf[s] = p}
                      /\ tracker[p].completed <= Cardinality(Over(p))
    BY DEF TrackInv
  <2>1. tracker[p].ids = {} /\ tracker[p].completed = 0
    BY <1>1
  <2>2. {s \in Sub : parentOf[s] = p} = {} /\ Over(p) = {}
    BY <1>1, <1>6 DEF Over
  <2> QED
    BY <2>1, <2>2, FS_EmptySet
<1>18. PendInv
  BY <1>1 DEF PendInv
<1>19. EventInv
  BY <1>1 DEF EventInv
<1>20. PcInv
  BY <1>1, <1>5, <1>6, <1>2 DEF PcInv
<1>21. OutcomeInv
  BY <1>1, <1>6 DEF OutcomeInv
<1>22. SagaInv
  <2>1. Compensable \subseteq Task
    BY V2Assumption
  <2>2. saga.state = "Pending" /\ DOMAIN saga.steps = {} /\ ToSet(compensated) = {}
    BY <1>1 DEF NewSaga, ToSet
  <2> QED
    BY <1>1, <1>6, <2>1, <2>2 DEF SagaInv
<1> QED
  BY <1>9, <1>10, <1>11, <1>12, <1>13, <1>14, <1>15, <1>16, <1>17, <1>18, <1>19, <1>20,
     <1>21, <1>22 DEF V2IInv

-----------------------------------------------------------------------------
(* The theorems.                                                           *)

\* Every step, of whichever goroutine, keeps the invariant.
LEMMA StepInv ==
  ASSUME V2IInv, [V2Next]_v2Vars
  PROVE  V2IInv'
<1>1. ASSUME QueueStep PROVE V2IInv'
  BY <1>1, QueueEventInv, QueueAdvanceInv, QueueDrainInv, QueueDecideInv, QueueSaveInv
     DEF QueueStep
<1>2. ASSUME QueueAdd \/ QueueStats \/ StatsStep \/ CompensationRuns PROVE V2IInv'
  BY <1>2, QueueAddInv, StatsInv, CompensationInv
<1>3. ASSUME ObserverTake \/ ObserverSend \/ Fetch \/ SubmitNext PROVE V2IInv'
  BY <1>3, ObserverInv, FetchInv, SubmitInv
<1>4. ASSUME NEW c \in Caller, AddSubTasks(c) PROVE V2IInv'
  BY <1>4, AddSubTasksInv
<1>5. ASSUME NEW t \in Task, JobSucceeds(t) \/ JobFails(t) \/ CallbackSends(t) PROVE V2IInv'
  BY <1>5, JobSucceedsInv, JobFailsInv, CallbackInv
<1>6. ASSUME SendSignal \/ ControlReceive \/ ControlStore \/ ControlExit PROVE V2IInv'
  BY <1>6, ControlInv, ControlStoreInv
<1>7. ASSUME UNCHANGED v2Vars PROVE V2IInv'
  <2>1. UNCHANGED <<workVars, sagaVars, qpc, finalStatus, stored, taskRow>>
        /\ UNCHANGED <<chanVars, statsVars, wfTasks, toSubmit, exec, ctlVars, sagaVars, rowVars>>
    BY <1>7 DEF v2Vars, workVars, rowVars
  <2>2. FlowTypes' /\ ControlTypes'
    BY <2>1 DEF V2IInv, TypeInv, FlowTypes, ControlTypes, chanVars, statsVars, ctlVars,
                sagaVars, rowVars
  <2> QED
    BY <2>1, <2>2, QuietInv
<1> QED
  BY <1>1, <1>2, <1>3, <1>4, <1>5, <1>6, <1>7 DEF V2Next

\* The inductive invariant holds in every state of every instance.
THEOREM InvariantHolds == V2Spec => []V2IInv
<1>1. V2Init => V2IInv
  BY StartInv
<1>2. V2IInv /\ [V2Next]_v2Vars => V2IInv'
  BY StepInv
<1> QED
  BY <1>1, <1>2, PTL DEF V2Spec

\* The counters of a level agree with what is on its way and to come.
LEMMA CountersAgree ==
  ASSUME V2IInv
  PROVE  V2Inv
<1>1. /\ QueueTypes /\ FlowTypes /\ ControlTypes /\ CountInv /\ TemplInv /\ q \in Queue
  BY DEF V2IInv, TypeInv, QueueTypes
<1>2. /\ MaxLevelOf(q) = LastLevel /\ DOMAIN q.queues = 1 .. LastLevel
      /\ q.level \in 1 .. LastLevel + 1
      /\ q.queues \in [1 .. LastLevel -> SUBSET Task] /\ q.running \in [1 .. LastLevel -> Int]
  BY <1>1, QueueShape
<1>3. V2TypeOK
  <2>1. \A t \in Task : retryCount[t] \in 0 .. RetryCount[t]
    <3> TAKE t \in Task
    <3>1. retryCount[t] \in Nat /\ retryCount[t] <= RetryCount[t] /\ RetryCount[t] \in Nat
      BY <1>1, V2Assumption DEF QueueTypes
    <3> QED
      BY <3>1
  <2>2. /\ q.level \in 1 .. MaxLevelOf(q) + 1
        /\ \A l \in DOMAIN q.queues : q.queues[l] \subseteq Task /\ q.running[l] \in Int
    BY <1>2
  <2> QED
    BY <1>1, <2>1, <2>2 DEF V2TypeOK, QueueTypes, FlowTypes, ControlTypes
<1>4. RunningNeverTooLow
  <2> SUFFICES ASSUME NEW l \in 1 .. LastLevel
               PROVE  q.running[l] >= Cardinality(Outstanding(l))
    BY <1>2 DEF RunningNeverTooLow
  <2>1. Outstanding(l) \subseteq Counted(l)
    BY DEF Outstanding, Counted, Away, Active, Reported, HeldTask, Passed
  <2>2. Counted(l) \in SUBSET Task /\ Outstanding(l) \in SUBSET Task
    BY DEF Counted, Outstanding
  <2>3. IsFiniteSet(Counted(l))
    BY <2>2, V2Assumption, FS_Subset
  <2>4. Cardinality(Outstanding(l)) <= Cardinality(Counted(l))
    BY <2>1, <2>3, FS_Subset
  <2>5. Cardinality(Counted(l)) \in Nat /\ Cardinality(Outstanding(l)) \in Nat
    BY <2>2, TaskCards
  <2>6. q.running[l] \in Int /\ q.running[l] >= Cardinality(Counted(l))
    BY <1>1, <1>2 DEF CountInv
  <2> QED
    BY <2>4, <2>5, <2>6
<1>5. TemplateCountExact
  BY <1>1, <1>2 DEF TemplateCountExact, TemplInv
<1> QED
  BY <1>3, <1>4, <1>5 DEF V2Inv

\* The final status, the rows and the transaction agree.
LEMMA OutcomeAgrees ==
  ASSUME V2IInv
  PROVE  OutcomeIsWhole
<1>1. TypeInv /\ OrigInv /\ PcInv /\ OutcomeInv /\ SagaInv
  BY DEF V2IInv
<1>2. finalStatus \in {None, "Success", "Failed"} /\ None \notin {"Success", "Failed"}
  BY <1>1, V2Assumption DEF TypeInv, ControlTypes
<1>3. SuccessIsWhole
  <2>1. ASSUME finalStatus = "Success", stored = "Success", NEW t \in Main
        PROVE  taskRow[t] = "SUCCESS"
    BY <1>1, <2>1 DEF OutcomeInv
  <2> QED
    BY <1>1, <2>1 DEF SuccessIsWhole, OutcomeInv
<1>4. FailureCompensates
  <2>1. ASSUME SagaEnabled, finalStatus = "Success"
        PROVE  saga.state = "Committed" /\ Compensated = {}
    <3>1. saga.state = "Committed" /\ compensating = {} /\ compensated = <<>>
      BY <1>1, <2>1 DEF SagaInv
    <3>2. ToSet(compensated) = {}
      BY <3>1 DEF ToSet
    <3> QED
      BY <3>1, <3>2 DEF Compensated
  <2>2. ASSUME SagaEnabled, finalStatus = "Failed"
        PROVE  Compensated = {t \in Compensable : taskStatus[t] = "SUCCESS"}
    <3>1. compensating \cup ToSet(compensated) = ToCompensate(saga)
      BY <1>1, <2>2 DEF SagaInv
    <3>2. Active = {}
      <4>1. q.level = LastLevel + 1
        BY <1>1, <1>2, <2>2 DEF PcInv
      <4> QED
        BY <1>1, <4>1, NothingLeft
    <3>3. ASSUME NEW i \in ToCompensate(saga)
          PROVE  saga.steps[i].task \in Compensable /\ taskStatus[saga.steps[i].task] = "SUCCESS"
      BY <1>1, <3>3 DEF SagaInv, ToCompensate
    <3>4. ASSUME NEW t \in Compensable, taskStatus[t] = "SUCCESS"
          PROVE  \E i \in ToCompensate(saga) : saga.steps[i].task = t
      <4>1. PICK i \in DOMAIN saga.steps : saga.steps[i].status = "Success"
                                           /\ saga.steps[i].task = t
        BY <1>1, <2>2, <3>2, <3>4 DEF SagaInv
      <4>2. saga.steps[i].compensable = (t \in Compensable)
        BY <1>1, <4>1 DEF SagaInv
      <4> QED
        BY <4>1, <4>2 DEF ToCompensate
    <3>5. Compensated = {saga.steps[i].task : i \in ToCompensate(saga)}
      BY <3>1 DEF Compensated
    <3> QED
      BY <3>3, <3>4, <3>5
  <2> QED
    BY <1>2, <2>1, <2>2 DEF FailureCompensates
<1> QED
  BY <1>3, <1>4 DEF OutcomeIsWhole

\* V2Inv: types and channel bounds; runningCounts never misses a task on its
\* way; templateTaskCount is the number of templates still to come.
THEOREM CountersHold == V2Spec => []V2Inv
<1>1. V2IInv => V2Inv
  BY CountersAgree
<1> QED
  BY <1>1, InvariantHolds, PTL

\* OutcomeIsWhole: an instance that ends as Success ran its tasks to success
\* and committed; one that ends as Failed compensates what succeeded.
THEOREM OutcomeHolds == V2Spec => []OutcomeIsWhole
<1>1. V2IInv => OutcomeIsWhole
  BY OutcomeAgrees
<1> QED
  BY <1>1, InvariantHolds, PTL

-----------------------------------------------------------------------------
(* The refinement of LevelExecution.                                       *)

\* A template adds one batch, and subtasks wait for their parent alone.
SubTasksAreSimple ==
  /\ \A t \in Template : JobBatch[t] = <<>> \/ HandlerBatch[t] = <<>>
  /\ \A s \in Sub : Deps[s] = {}

LevelOfTask == [t \in Main |-> CHOOSE l \in DOMAIN Levels : t \in Levels[l]]

\* What LevelExecution sees of a step that finishes at most one task.
FinishesOne ==
  /\ q'.level = q.level /\ parentOf' = parentOf
  /\ \E t \in Task : /\ originalLevel[t] = q.level /\ q.level \in 1 .. LastLevel
                     /\ processedNodes' \in {processedNodes, processedNodes \cup {t}}

\* The level of a task is where it is queued first.
LEMMA LevelOfMain ==
  ASSUME OrigInv
  PROVE  \A t \in Main : LevelOfTask[t] = originalLevel[t]
<1> TAKE t \in Main
<1>1. originalLevel[t] \in 1 .. LastLevel /\ t \in Levels[originalLevel[t]]
  BY DEF OrigInv
<1>2. LevelOfTask[t] = CHOOSE l \in 1 .. LastLevel : t \in Levels[l]
  BY LevelFacts DEF LevelOfTask
<1> QED
  BY <1>1, <1>2, LevelFacts

\* An instance starts at the first level, with nothing but what a breakpoint
\* has finished.
LEMMA StartsAsLevels == V2Init => LevelRun!Init
<1> SUFFICES ASSUME V2Init
             PROVE  LevelRun!Init
  OBVIOUS
<1>1. PICK done \in Breakpoints : q = initTaskQueue /\ processedNodes = done
                                  /\ parentOf = [s \in Sub |-> None]
  BY DEF V2Init
<1>2. done \in SUBSET Main /\ q.level = 1
  BY <1>1, StartQueue, V2Assumption
<1> QED
  BY <1>1, <1>2 DEF LevelRun!Init

\* A task that is over at the current level: Finish, or nothing.
LEMMA FinishesAsLevels ==
  ASSUME V2IInv, FinishesOne
  PROVE  [LevelRun!Next]_(LevelRun!levelVars)
<1>1. PICK t \in Task : /\ originalLevel[t] = q.level /\ q.level \in 1 .. LastLevel
                        /\ processedNodes' \in {processedNodes, processedNodes \cup {t}}
  BY DEF FinishesOne
<1>2. q'.level = q.level /\ parentOf' = parentOf
  BY DEF FinishesOne
<1>3. CASE processedNodes' = processedNodes
  BY <1>2, <1>3 DEF LevelRun!levelVars
<1>4. CASE processedNodes' # processedNodes
  <2>1. t \notin processedNodes /\ processedNodes' = processedNodes \cup {t}
    BY <1>1, <1>4
  <2>2. t \in Main => LevelOfTask[t] = q.level
    BY <1>1, LevelOfMain DEF V2IInv
  <2>3. t \in Sub => parentOf[t] # None
    <3>1. q.level # None
      BY <1>1, V2Assumption, LevelFacts
    <3> QED
      BY <1>1, <3>1 DEF V2IInv, SubInv
  <2>4. t \in Main \cup Sub
    BY DEF Task
  <2>5. LevelRun!Finish
    BY <1>2, <2>1, <2>2, <2>3, <2>4 DEF LevelRun!Finish, LevelOfTask
  <2> QED
    BY <2>5 DEF LevelRun!Next
<1> QED
  BY <1>3, <1>4

\* Events, in the loop and in the drain, and submissions finish at most a task.
LEMMA EventFinishes ==
  ASSUME V2IInv, HandleEvent
  PROVE  FinishesOne
<1>1. PICK t \in Task, ok \in BOOLEAN, E \in SUBSET Sub : HandledEvent(t, ok, E)
  BY HandleFacts DEF V2IInv
<1>2. Handles(t, ok, E) /\ originalLevel[t] = q.level /\ q.level \in 1 .. LastLevel
  BY <1>1 DEF HandledEvent
<1> QED
  BY <1>2 DEF Handles, FinishesOne

\* The submission loop finishes at most the one task it takes.
LEMMA SubmissionFinishes ==
  ASSUME V2IInv, SubmitNext
  PROVE  FinishesOne
<1>1. PICK t \in toSubmit :
        /\ t \in Task /\ originalLevel[t] = q.level /\ q.level \in 1 .. LastLevel
        /\ q'.level = q.level /\ parentOf' = parentOf
        /\ processedNodes' = processedNodes \/ processedNodes' = processedNodes \cup {t}
  BY SubmitCases DEF V2IInv, Skip, Drop, Submit, MarkFailed
<1> QED
  BY <1>1 DEF FinishesOne

\* A batch of a template arrives while its level lasts: a template whose level
\* is over was counted off by a batch of its own, the only one it adds.
LEMMA BatchIsAccepted ==
  ASSUME V2IInv, SubTasksAreSimple, QueueAdd
  PROVE  LevelRun!Next
<1>1. TypeInv /\ OrigInv /\ TemplInv /\ PendInv /\ q \in Queue
  BY DEF V2IInv, TypeInv, QueueTypes
<1>2. PICK k \in Caller, E \in SUBSET Sub : BatchAdded(k, E)
  BY BatchArrives DEF V2IInv
<1>3. /\ k[2] \in Task /\ Started(k[2]) /\ Batch(k) # {} /\ Batch(k) \subseteq Sub
      /\ \A s \in Batch(k) : parentOf[s] = None
      /\ parentOf' = [s \in Sub |-> IF s \in Batch(k) THEN k[2] ELSE parentOf[s]]
      /\ q'.level = q.level /\ processedNodes' = processedNodes
  BY <1>2 DEF BatchAdded, Adds
<1>4. k[2] \in Template => LevelOfTask[k[2]] = q.level
  <2> SUFFICES ASSUME k[2] \in Template, LevelOfTask[k[2]] # q.level
               PROVE  FALSE
    OBVIOUS
  <2>1. k[2] \in Main /\ LevelOfTask[k[2]] = originalLevel[k[2]]
    BY <1>1, LevelOfMain, V2Assumption
  <2>2. originalLevel[k[2]] < q.level
    <3>1. originalLevel[k[2]] \in 1 .. LastLevel /\ q.level \in Nat /\ LastLevel \in Nat
      BY <1>1, <2>1, QueueShape, LevelFacts DEF OrigInv
    <3>2. originalLevel[k[2]] <= q.level
      BY <1>3 DEF Started
    <3> QED
      BY <2>1, <3>1, <3>2
  <2>3. k[2] \in decremented
    BY <1>1, <2>2 DEF TemplInv
  <2>4. PICK j \in Caller : j[2] = k[2] /\ Handled(j)
    BY <1>1, <1>3, <2>3 DEF PendInv
  <2>5. Batch(j) # {} /\ \A s \in Batch(j) : parentOf[s] = k[2]
    BY <2>4 DEF Handled
  <2>6. j # k
    <3>1. k[2] # None
      BY <1>3, V2Assumption
    <3> QED
      BY <1>3, <2>5, <3>1
  <2>7. {j[1], k[1]} = {"job", "handler"}
    BY <2>4, <2>6 DEF Caller
  <2>8. ToSet(JobBatch[k[2]]) # {} /\ ToSet(HandlerBatch[k[2]]) # {}
    BY <1>3, <2>4, <2>5, <2>7 DEF Batch
  <2>9. ToSet(<<>>) = {}
    BY DEF ToSet
  <2> QED
    BY <2>8, <2>9 DEF SubTasksAreSimple
<1>5. LevelRun!Accept
  <2>1. k[2] \in Main \cup Sub /\ Batch(k) \in SUBSET {s \in Sub : parentOf[s] = None}
    BY <1>3 DEF Task
  <2> QED
    BY <1>3, <1>4, <2>1 DEF LevelRun!Accept, LevelOfTask
<1> QED
  BY <1>5 DEF LevelRun!Next

\* The level advances when all its tasks and all accepted subtasks are over.
LEMMA LevelIsLeft ==
  ASSUME V2IInv, SubTasksAreSimple, QueueAdvance \/ QueueCheck
  PROVE  [LevelRun!Next]_(LevelRun!levelVars)
<1>1. /\ TypeInv /\ LevelInv /\ OrigInv /\ CountInv /\ TemplInv /\ SubInv /\ TrackInv /\ PendInv
      /\ q \in Queue /\ parentOf \in [Sub -> Task \cup {None}]
      /\ originalLevel \in [Task -> 1 .. LastLevel + 1 \cup {None}]
  BY DEF V2IInv, TypeInv, QueueTypes
<1>2. /\ UNCHANGED <<processedNodes, parentOf>>
      /\ q' = tryAdvanceLevel(q, tracker)
  BY <1>1, AdvanceOnce DEF QueueAdvance, QueueCheck, handledVars
<1>3. CASE ~canAdvanceLevel(q, tracker)
  BY <1>2, <1>3 DEF tryAdvanceLevel, LevelRun!levelVars
<1>4. CASE canAdvanceLevel(q, tracker)
  <2>1. /\ q.level \in 1 .. LastLevel /\ q.queues[q.level] = {} /\ q.running[q.level] = 0
        /\ Away = {}
        /\ \A p \in Task : originalLevel[p] = q.level => pendingSubTasks[p] = {}
    BY <1>1, <1>4, LevelDone
  <2>2. q'.level = q.level + 1
    BY <1>1, <1>2, <1>4, <2>1, AdvanceFields DEF tryAdvanceLevel
  <2>3. ASSUME NEW t \in Task, originalLevel[t] \in 1 .. LastLevel, originalLevel[t] <= q.level
        PROVE  t \in processedNodes
    <3>1. CASE originalLevel[t] < q.level
      BY <1>1, <2>3, <3>1, LevelOver DEF Ended
    <3>2. CASE originalLevel[t] = q.level
      <4>1. Counted(q.level) \in SUBSET Task
        BY DEF Counted
      <4>2. 0 >= Cardinality(Counted(q.level)) /\ Cardinality(Counted(q.level)) \in Nat
        BY <1>1, <2>1, <4>1, TaskCards DEF CountInv
      <4>3. Counted(q.level) = {}
        BY <4>1, <4>2, TaskCards
      <4>4. t \notin Waiting
        BY <1>1, <2>1, <3>2 DEF Waiting, LevelInv
      <4> QED
        BY <3>2, <4>3, <4>4 DEF Counted, Ended
    <3> QED
      BY <2>1, <2>3, <3>1, <3>2
  <2>4. \A t \in Main : LevelOfTask[t] = q.level => t \in processedNodes
    <3> TAKE t \in Main
    <3>1. LevelOfTask[t] = originalLevel[t] /\ t \in Task
      BY <1>1, LevelOfMain DEF Task
    <3>2. q.level <= q.level
      BY <2>1
    <3> QED
      BY <2>1, <2>3, <3>1, <3>2
  <2>5. \A s \in Sub : parentOf[s] # None => s \in processedNodes
    <3> SUFFICES ASSUME NEW s \in Sub, parentOf[s] # None
                 PROVE  s \in processedNodes
      OBVIOUS
    <3>1. s \in Task /\ parentOf[s] \in Task
      BY <1>1 DEF Task
    <3>2. originalLevel[s] # None
      <4> SUFFICES ASSUME originalLevel[s] = None
                   PROVE  FALSE
        OBVIOUS
      <4>1. s \in pendingSubTasks[parentOf[s]]
        BY <1>1 DEF SubInv
      <4>2. ~DepPending(parentOf[s])
        BY DEF DepPending, SubTasksAreSimple
      <4> QED
        BY <1>1, <2>1, <3>1, <4>1, <4>2 DEF PendInv
    <3>3. originalLevel[s] <= q.level /\ originalLevel[s] \in 1 .. LastLevel + 1
      BY <1>1, <3>1, <3>2 DEF OrigInv
    <3>4. originalLevel[s] \in 1 .. LastLevel
      BY <2>1, <3>3, LevelFacts
    <3> QED
      BY <2>3, <3>1, <3>3, <3>4
  <2>6. LevelRun!Advance
    BY <1>2, <2>1, <2>2, <2>4, <2>5 DEF LevelRun!Advance, LevelOfTask, LastLevel
  <2> QED
    BY <2>6 DEF LevelRun!Next
<1> QED
  BY <1>3, <1>4

\* Fetching moves tasks; the rest does not touch what LevelExecution sees.
LEMMA OthersStutter ==
  ASSUME V2IInv,
         \/ Fetch \/ QueueDecide \/ QueueSave \/ QueueStats \/ StatsStep \/ CompensationRuns
         \/ ObserverTake \/ ObserverSend \/ SendSignal \/ ControlReceive \/ ControlStore
         \/ ControlExit
         \/ \E c \in Caller : AddSubTasks(c)
         \/ \E t \in Task : JobSucceeds(t) \/ JobFails(t) \/ CallbackSends(t)
         \/ UNCHANGED v2Vars
  PROVE  UNCHANGED LevelRun!levelVars
<1>1. CASE Fetch
  <2>1. PICK S \in SUBSET q.queues[q.level] : q' = PopTasks(q, q.level, S)
    BY <1>1 DEF Fetch, kSubset
  <2>2. UNCHANGED <<processedNodes, parentOf>>
    BY <1>1 DEF Fetch, handledVars
  <2>3. q'.level = q.level
    BY <2>1 DEF PopTasks, V2IInv, TypeInv, QueueTypes, Queue
  <2> QED
    BY <2>2, <2>3 DEF LevelRun!levelVars
<1>2. CASE ~Fetch
  <2>1. UNCHANGED <<q, processedNodes, parentOf>>
    BY <1>2 DEF QueueDecide, QueueSave, QueueStats, StatsStep, CompensationRuns,
         ObserverTake, ObserverSend, SendSignal, ControlReceive, ControlStore, ControlExit,
         AddSubTasks, JobSucceeds, JobFails, CallbackSends, v2Vars, queueVars, handledVars
  <2> QED
    BY <2>1 DEF LevelRun!levelVars
<1> QED
  BY <1>1, <1>2

\* ImplementsLevels: queues, counters, channels and goroutines together run
\* the workflow level by level.
THEOREM LevelsImplemented ==
  ASSUME SubTasksAreSimple
  PROVE  V2Spec => ImplementsLevels
<1>1. V2Init => LevelRun!Init
  BY StartsAsLevels
<1>2. ASSUME V2IInv, [V2Next]_v2Vars
      PROVE  [LevelRun!Next]_(LevelRun!levelVars)
  <2>1. CASE QueueEvent \/ QueueDrain
    <3>1. CASE HandleEvent
      BY <1>2, <3>1, EventFinishes, FinishesAsLevels
    <3>2. CASE UNCHANGED <<q, processedNodes, parentOf>>
      BY <3>2 DEF LevelRun!levelVars
    <3> QED
      BY <2>1, <3>1, <3>2 DEF QueueEvent, QueueDrain, HandleEvent, queueVars, handledVars
  <2>2. CASE SubmitNext
    BY <1>2, <2>2, SubmissionFinishes, FinishesAsLevels
  <2>3. CASE QueueAdd
    BY <1>2, <2>3, BatchIsAccepted
  <2>4. CASE QueueAdvance \/ QueueCheck
    BY <1>2, <2>4, LevelIsLeft
  <2>5. CASE ~(QueueEvent \/ QueueDrain \/ SubmitNext \/ QueueAdd \/ QueueAdvance \/ QueueCheck)
    <3>1. UNCHANGED LevelRun!levelVars
      BY <1>2, <2>5, OthersStutter DEF V2Next, QueueStep
    <3> QED
      BY <3>1
  <2> QED
    BY <2>1, <2>2, <2>3, <2>4, <2>5
<1> QED
  BY <1>1, <1>2, InvariantHolds, PTL DEF V2Spec, ImplementsLevels, LevelRun!Spec

=============================================================================
