---------------------------- MODULE LeveledTaskQueue ----------------------------
(***************************************************************************)
(* The LeveledTaskQueue of instance_manager_v2.go with the manager's       *)
(* template counters, as a record:                                         *)
(*   queues     what waits at each level                                   *)
(*   running    per level, what was popped and is not reported yet         *)
(*   level      the current level                                          *)
(*   counts     per level, templateTaskCounts                              *)
(*   templates  templateTaskCount, for the current level                   *)
(* Levels are 1 .. Len(queues); the code counts from 0.  Operations on a   *)
(* level that does not exist do nothing, as in the code.                   *)
(***************************************************************************)
EXTENDS Integers, Sequences, FiniteSets

\* NewLeveledTaskQueue and initTaskQueue.
NewQueue(levels, Template) ==
  LET counts == [l \in DOMAIN levels |-> Cardinality(levels[l] \cap Template)] IN
  [queues |-> levels, running |-> [l \in DOMAIN levels |-> 0], level |-> 1,
   counts |-> counts, templates |-> counts[1]]

MaxLevelOf(q) == Len(q.queues)

AddTasks(q, l, S) ==
  IF l \in DOMAIN q.queues THEN [q EXCEPT !.queues[l] = @ \cup S] ELSE q

\* Mutant: a task is taken but not counted as running.
PopUncounted(q, l, S) == [q EXCEPT !.queues[l] = @ \ S]

\* PopTasks of S, which the caller took from the level's queue.
PopTasks(q, l, S) ==
  [q EXCEPT !.queues[l] = @ \ S, !.running[l] = @ + Cardinality(S)]

RemoveTask(q, l, t) ==
  IF l \in DOMAIN q.queues THEN [q EXCEPT !.queues[l] = @ \ {t}] ELSE q

TaskCompleted(q, l) ==
  IF l \in DOMAIN q.queues THEN [q EXCEPT !.running[l] = @ - 1] ELSE q

IsLevelComplete(q, l) ==
  l \in DOMAIN q.queues => q.queues[l] = {} /\ q.running[l] = 0

\* advanceLevel: templateTaskCount is that of the new level.
AdvanceLevel(q) ==
  [q EXCEPT !.level = @ + 1,
            !.templates = IF q.level + 1 \in DOMAIN q.counts
                          THEN q.counts[q.level + 1] ELSE @]

\* IsAllTasksCompleted, whose error also keeps the instance going.
IsAllTasksCompleted(q) ==
  /\ q.level > MaxLevelOf(q)
  /\ \A l \in DOMAIN q.queues : q.queues[l] = {}
=============================================================================
