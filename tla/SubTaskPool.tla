---------------------------- MODULE SubTaskPool ----------------------------
(***************************************************************************)
(* The queue and the counters of the dynamic subtasks of one parent task   *)
(* (pkg/core/engine/subtask_pool.go), as operators on a record: only the   *)
(* V3 actor touches a pool, under the manager's mutex, so every call is    *)
(* one value computed from another.                                        *)
(*                                                                         *)
(* retryQueue is left out: enqueueRetry has no caller in the V3 manager,   *)
(* so the queue is empty whenever next and hasReady look at it.            *)
(***************************************************************************)
EXTENDS Naturals, Sequences

Pool(T) ==
  [tasks: Seq(T), cursor: Nat, runningCount: Nat, completed: Nat,
   failed: Nat, total: Nat, jobDone: BOOLEAN, allDone: BOOLEAN]

newSubTaskPool ==
  [tasks |-> <<>>, cursor |-> 0, runningCount |-> 0, completed |-> 0,
   failed |-> 0, total |-> 0, jobDone |-> FALSE, allDone |-> FALSE]

hasReady(p) == p.cursor < Len(p.tasks)

recomputeAllDone(p) ==
  [p EXCEPT !.allDone = /\ p.jobDone
                        /\ p.completed + p.failed >= p.total
                        /\ p.runningCount = 0
                        /\ ~hasReady(p)]

\* An empty batch is ignored: allDone is not recomputed.
addTasks(p, ts) ==
  IF ts = <<>> THEN p
  ELSE recomputeAllDone([p EXCEPT !.tasks = @ \o ts, !.total = @ + Len(ts)])

\* next(1): the task under the cursor, and the pool with the cursor moved.
nextTask(p) == p.tasks[p.cursor + 1]
next(p)     == [p EXCEPT !.cursor = @ + 1]

addRunning(p) == recomputeAllDone([p EXCEPT !.runningCount = @ + 1])

oneLess(n) == IF n > 0 THEN n - 1 ELSE n

taskCompleted(p) ==
  recomputeAllDone([p EXCEPT !.runningCount = oneLess(@),
                             !.completed = @ + 1])

taskFailed(p) ==
  recomputeAllDone([p EXCEPT !.runningCount = oneLess(@), !.failed = @ + 1])

markJobDone(p) == recomputeAllDone([p EXCEPT !.jobDone = TRUE])

=============================================================================
