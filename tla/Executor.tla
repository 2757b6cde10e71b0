------------------------------ MODULE Executor ------------------------------
(***************************************************************************)
(* The executor (pkg/core/executor/executor.go): a bounded queue, one      *)
(* scheduler goroutine that gives every task a slot of a pool, a goroutine *)
(* per running task, retries that go through the queue again, pools that   *)
(* can be resized while tasks run, and a shutdown.                         *)
(*                                                                         *)
(* A pool is a channel whose buffered tokens are the slots in use.  A new  *)
(* size is a new channel, while goroutines may still wait on the older     *)
(* one: channels keeps every channel ever made, and the pools are indexes. *)
(***************************************************************************)
EXTENDS Naturals, Sequences, FiniteSets
LOCAL INSTANCE FiniteSetsExt

CONSTANTS
  Task, Domain, None,
  DomainOf,    \* [Task -> Domain \cup {None}]
  QueueCap,    \* capacity of taskQueue (10000 in the code)
  MaxRetries,  \* PendingTask.MaxRetries, the same for every task
  Workers,     \* the initial maxWorkers
  Sizes,       \* sizes SetPoolSize and SetDomainPoolSize may be given
  MaxResizes   \* bound of the model: resizes in all

ASSUME ExecutorAssumption ==
  /\ DomainOf \in [Task -> Domain \cup {None}]
  /\ None \notin Domain /\ "global" \notin Domain \cup {None}
  /\ QueueCap \in Nat \ {0} /\ MaxRetries \in Nat /\ Workers \in Nat \ {0}
  /\ Sizes \subseteq Nat \ {0} /\ MaxResizes \in Nat

\* <<t, n>> is the n-th retry of t: a trip through the queue and a goroutine.
Job == Task \X (0 .. MaxRetries)
retryOf(j) == <<j[1], j[2] + 1>>

VARIABLES
  channels,    \* every channel of tokens made so far
  maxWorkers, workerPool,
  resize,      \* the channel a SetPoolSize under way is filling, or None
  domainPools, \* [Domain -> its maxSize, current and workerPool]
  resizes,     \* resizes so far (bounds the model)
  running, down, queueClosed,
  queue,
  spc, sjob,   \* the scheduler: where it is and its job
  pc,          \* [Job -> where it is]
  slot,        \* [Job -> the pool it got a slot of: None, "global" or a domain]
  waits,       \* [Job -> the channel waited on for its slot or its release]
  reports,     \* [Task -> callbacks made]
  panicked     \* somebody sent on the closed queue

schedulerVars == <<spc, sjob>>
poolVars == <<channels, maxWorkers, workerPool, resize, domainPools, resizes>>
stopVars == <<running, down, queueClosed>>
jobVars == <<pc, slot, waits, reports>>
execVars == <<poolVars, stopVars, queue, schedulerVars, jobVars, panicked>>

channel(pool, size) == [of |-> pool, size |-> size, tokens |-> 0]
put(i)  == channels' = [channels EXCEPT ![i].tokens = @ + 1]
take(i) == channels' = [channels EXCEPT ![i].tokens = @ - 1]
HasRoom(i) == channels[i].tokens < channels[i].size

ExecInit ==
  /\ channels = <<channel("global", Workers)>>
  /\ maxWorkers = Workers /\ workerPool = 1
  /\ resize = None /\ resizes = 0
  /\ domainPools = [d \in Domain |-> [max |-> 0, current |-> 0, pool |-> 0]]
  /\ running = TRUE /\ down = FALSE /\ queueClosed = FALSE
  /\ queue = <<>>
  /\ spc = "recv" /\ sjob = None
  /\ pc = [j \in Job |-> "none"]
  /\ slot = [j \in Job |-> None]
  /\ waits = [j \in Job |-> 0]
  /\ reports = [t \in Task |-> 0]
  /\ panicked = FALSE

-----------------------------------------------------------------------------
(* SubmitTask, called by the manager for a new task and by the goroutine   *)
(* of a failed attempt for its retry.                                      *)

\* The check of running, under the lock; SetPoolSize keeps it out.
SubmitCheck(j) ==
  /\ pc[j] = "none"
  /\ resize = None
  /\ j[2] > 0 => pc[<<j[1], j[2] - 1>>] = "retry"
  /\ pc' = [pc EXCEPT ![j] = IF running THEN "send" ELSE "refused"]
  /\ UNCHANGED <<poolVars, stopVars, queue, schedulerVars, slot, waits, reports,
                 panicked>>

\* The select, later: into the queue, or parked while it is full, or an error
\* since shutdown is closed.  Sending on a closed channel panics.
SubmitSend(j) ==
  /\ pc[j] = "send"
  /\ \/ /\ ~queueClosed /\ Len(queue) < QueueCap
        /\ queue' = Append(queue, j)
        /\ pc' = [pc EXCEPT ![j] = "queued"]
        /\ UNCHANGED panicked
     \/ /\ ~down /\ Len(queue) = QueueCap
        /\ pc' = [pc EXCEPT ![j] = "parked"]
        /\ UNCHANGED <<queue, panicked>>
     \/ /\ down
        /\ pc' = [pc EXCEPT ![j] = "refused"]
        /\ UNCHANGED <<queue, panicked>>
     \/ /\ queueClosed
        /\ panicked' = TRUE
        /\ pc' = [pc EXCEPT ![j] = "refused"]
        /\ UNCHANGED queue
  /\ UNCHANGED <<poolVars, stopVars, schedulerVars, slot, waits, reports>>

\* Mutant: a parked sender does not wait for room.
SubmitUnparkAtOnce(j) ==
  /\ pc[j] = "parked"
  /\ queue' = Append(queue, j)
  /\ pc' = [pc EXCEPT ![j] = "queued"]
  /\ UNCHANGED <<poolVars, stopVars, schedulerVars, slot, waits, reports,
                 panicked>>

SubmitUnpark(j) ==
  /\ pc[j] = "parked"
  /\ Len(queue) < QueueCap
  /\ queue' = Append(queue, j)
  /\ pc' = [pc EXCEPT ![j] = "queued"]
  /\ UNCHANGED <<poolVars, stopVars, schedulerVars, slot, waits, reports,
                 panicked>>

-----------------------------------------------------------------------------
(* scheduler and dispatchTask.                                             *)

SchedulerRecv ==
  /\ spc = "recv"
  /\ queue # <<>>
  /\ sjob' = Head(queue)
  /\ queue' = Tail(queue)
  /\ spc' = "dispatch"
  /\ UNCHANGED <<poolVars, stopVars, jobVars, panicked>>

\* shutdown is closed, or the queue is closed and drained.
SchedulerExit ==
  /\ spc = "recv"
  /\ down \/ (queueClosed /\ queue = <<>>)
  /\ spc' = "exit"
  /\ UNCHANGED <<poolVars, stopVars, queue, sjob, jobVars, panicked>>

\* A goroutine for the job, with the slot it got.
start(j, pool) ==
  /\ pc' = [pc EXCEPT ![j] = "run"]
  /\ slot' = [slot EXCEPT ![j] = pool]
  /\ spc' = "recv"
  /\ UNCHANGED <<sjob, queue, stopVars, reports, panicked>>

DomainHasRoom(d) == domainPools[d].pool # 0 /\ HasRoom(domainPools[d].pool)

\* A slot of the task's domain, if there is one free (the domain's pool is
\* looked up under the lock that SetPoolSize holds)...
DispatchDomain ==
  LET d == DomainOf[sjob[1]] IN
  /\ spc = "dispatch"
  /\ d # None
  /\ resize = None
  /\ DomainHasRoom(d)
  /\ put(domainPools[d].pool)
  /\ domainPools' = [domainPools EXCEPT ![d].current = @ + 1]
  /\ start(sjob, d)
  /\ UNCHANGED <<maxWorkers, workerPool, resize, resizes, waits>>

\* ...or the global pool, that is the channel it is now.
DispatchGlobal ==
  LET d == DomainOf[sjob[1]] IN
  /\ spc = "dispatch"
  /\ d # None => resize = None /\ ~DomainHasRoom(d)
  /\ spc' = "wait"
  /\ waits' = [waits EXCEPT ![sjob] = workerPool]
  /\ UNCHANGED <<poolVars, stopVars, queue, sjob, pc, slot, reports, panicked>>

DispatchStart ==
  /\ spc = "wait"
  /\ HasRoom(waits[sjob])
  /\ put(waits[sjob])
  /\ start(sjob, "global")
  /\ UNCHANGED <<maxWorkers, workerPool, resize, domainPools, resizes, waits>>

report(t) == reports' = [reports EXCEPT ![t] = @ + 1]

\* Shut down while it waits for a slot: OnError, and back to the select.
DispatchDown ==
  /\ spc = "wait"
  /\ down
  /\ report(sjob[1])
  /\ pc' = [pc EXCEPT ![sjob] = "over"]
  /\ spc' = "recv"
  /\ UNCHANGED <<poolVars, stopVars, queue, sjob, slot, waits, panicked>>

-----------------------------------------------------------------------------
(* executeTask.                                                            *)

goVars == <<poolVars, stopVars, queue, schedulerVars, slot, waits, panicked>>

\* Mutant: a failure is reported although it is retried.
TaskRetryReported(j) ==
  /\ pc[j] = "run"
  /\ j[2] < MaxRetries
  /\ pc' = [pc EXCEPT ![j] = "retry"]
  /\ report(j[1])
  /\ UNCHANGED goVars

\* A failure with retries left: the goroutine sleeps, then submits the retry,
\* all the while holding its slot.  SubmitTask's error is ignored.
TaskRetry(j) ==
  /\ pc[j] = "run"
  /\ j[2] < MaxRetries
  /\ pc' = [pc EXCEPT ![j] = "retry"]
  /\ UNCHANGED <<goVars, reports>>

TaskRetried(j) ==
  /\ pc[j] = "retry"
  /\ pc[retryOf(j)] \notin {"none", "send", "parked"}
  /\ pc' = [pc EXCEPT ![j] = "release"]
  /\ UNCHANGED <<goVars, reports>>

\* Success, a timeout or the last failure: one callback.
TaskDone(j) ==
  /\ pc[j] = "run"
  /\ report(j[1])
  /\ pc' = [pc EXCEPT ![j] = "release"]
  /\ UNCHANGED goVars

\* The deferred release: it picks the channel that the slot's pool is now...
Release(j) ==
  /\ pc[j] = "release"
  /\ IF slot[j] = "global"
     THEN /\ waits' = [waits EXCEPT ![j] = workerPool]
          /\ UNCHANGED domainPools
     ELSE /\ waits' = [waits EXCEPT ![j] = domainPools[slot[j]].pool]
          /\ domainPools' = [domainPools EXCEPT ![slot[j]].current = @ - 1]
  /\ pc' = [pc EXCEPT ![j] = "drain"]
  /\ UNCHANGED <<channels, maxWorkers, workerPool, resize, resizes, stopVars,
                 queue, schedulerVars, slot, reports, panicked>>

\* Mutant: the token stays in the channel.
ReleaseTokenForgets(j) ==
  /\ pc[j] = "drain"
  /\ pc' = [pc EXCEPT ![j] = "over"]
  /\ slot' = [slot EXCEPT ![j] = None]
  /\ UNCHANGED <<poolVars, stopVars, queue, schedulerVars, waits, reports,
                 panicked>>

\* ...and takes a token out of it, waiting while there is none.
ReleaseToken(j) ==
  /\ pc[j] = "drain"
  /\ channels[waits[j]].tokens > 0
  /\ take(waits[j])
  /\ pc' = [pc EXCEPT ![j] = "over"]
  /\ slot' = [slot EXCEPT ![j] = None]
  /\ UNCHANGED <<maxWorkers, workerPool, resize, domainPools, resizes, stopVars,
                 queue, schedulerVars, waits, reports, panicked>>

-----------------------------------------------------------------------------
(* Resizing and shutting down.                                             *)

quietVars == <<stopVars, queue, schedulerVars, jobVars, panicked>>

\* SetPoolSize: a larger pool takes the tokens over, one at a time and under
\* e.mu, which the other goroutines' channel operations do not need...
ResizeBegin(size) ==
  /\ resize = None
  /\ resizes < MaxResizes
  /\ size > maxWorkers
  /\ channels' = Append(channels, channel("global", size))
  /\ resize' = Len(channels')
  /\ resizes' = resizes + 1
  /\ UNCHANGED <<maxWorkers, workerPool, domainPools, quietVars>>

ResizeMove ==
  /\ resize # None
  /\ channels[workerPool].tokens > 0
  /\ channels[resize].tokens < maxWorkers
  /\ channels' = [channels EXCEPT ![resize].tokens = @ + 1,
                                  ![workerPool].tokens = @ - 1]
  /\ UNCHANGED <<maxWorkers, workerPool, resize, domainPools, resizes, quietVars>>

ResizeEnd ==
  /\ resize # None
  /\ channels[workerPool].tokens = 0 \/ channels[resize].tokens = maxWorkers
  /\ workerPool' = resize
  /\ maxWorkers' = channels[resize].size
  /\ resize' = None
  /\ UNCHANGED <<channels, domainPools, resizes, quietVars>>

\* ...and one that is not larger starts empty.
Shrink(size) ==
  /\ resize = None
  /\ resizes < MaxResizes
  /\ size <= maxWorkers
  /\ channels' = Append(channels, channel("global", size))
  /\ workerPool' = Len(channels')
  /\ maxWorkers' = size
  /\ resizes' = resizes + 1
  /\ UNCHANGED <<resize, domainPools, quietVars>>

domainTotal(D) == MapThenSumSet(LAMBDA d : domainPools[d].max, D)

\* SetDomainPoolSize: the domains together may not exceed the global size.
SetDomainPoolSize(d, size) ==
  /\ resize = None
  /\ resizes < MaxResizes
  /\ domainTotal(Domain \ {d}) + size <= maxWorkers
  /\ channels' = Append(channels, channel(d, size))
  /\ domainPools' = [domainPools EXCEPT ![d].max = size,
                                        ![d].pool = Len(channels')]
  /\ resizes' = resizes + 1
  /\ UNCHANGED <<maxWorkers, workerPool, resize, quietVars>>

\* Shutdown: running and the closed signal under the lock.  Whoever is parked
\* on the queue is woken with an error.
Shutdown ==
  /\ running
  /\ resize = None
  /\ running' = FALSE
  /\ down' = TRUE
  /\ pc' = [j \in Job |-> IF pc[j] = "parked" THEN "refused" ELSE pc[j]]
  /\ UNCHANGED <<poolVars, queueClosed, queue, schedulerVars, slot, waits,
                 reports, panicked>>

\* The queue is closed after the lock was released.
CloseQueue ==
  /\ down
  /\ ~queueClosed
  /\ queueClosed' = TRUE
  /\ UNCHANGED <<poolVars, running, down, queue, schedulerVars, jobVars,
                 panicked>>

-----------------------------------------------------------------------------
SchedulerStep ==
  \/ SchedulerRecv
  \/ SchedulerExit
  \/ DispatchDomain
  \/ DispatchGlobal
  \/ DispatchStart
  \/ DispatchDown

JobStep(j) ==
  \/ SubmitSend(j)
  \/ SubmitUnpark(j)
  \/ TaskRetry(j)
  \/ TaskRetried(j)
  \/ TaskDone(j)
  \/ Release(j)
  \/ ReleaseToken(j)

ResizeStep ==
  \/ \E size \in Sizes : ResizeBegin(size) \/ Shrink(size)
  \/ \E d \in Domain, size \in Sizes : SetDomainPoolSize(d, size)

ExecNext ==
  \/ \E j \in Job : SubmitCheck(j) \/ JobStep(j)
  \/ SchedulerStep
  \/ ResizeStep
  \/ ResizeMove
  \/ ResizeEnd
  \/ Shutdown
  \/ CloseQueue

ExecSpec == ExecInit /\ [][ExecNext]_execVars

\* Goroutines run; job functions return or time out; a goroutine parked on a
\* channel is served in its turn.  Nobody has to submit, resize or shut down.
ExecFairness ==
  /\ WF_execVars(SchedulerStep)
  /\ WF_execVars(ResizeMove \/ ResizeEnd)
  /\ \A j \in Job : /\ j[2] > 0 => WF_execVars(SubmitCheck(j))
                    /\ SF_execVars(JobStep(j))

ExecFairSpec == ExecSpec /\ ExecFairness

-----------------------------------------------------------------------------
(* Properties.                                                             *)

Channel == [of: Domain \cup {"global"}, size: Nat, tokens: Nat]
Index == 1 .. Len(channels)

ExecTypeOK ==
  /\ channels \in Seq(Channel)
  /\ \A i \in Index : channels[i].tokens <= channels[i].size
  /\ maxWorkers \in Nat /\ workerPool \in Index /\ resize \in Index \cup {None}
  /\ domainPools \in [Domain -> [max: Nat, current: Nat, pool: Index \cup {0}]]
  /\ running \in BOOLEAN /\ down \in BOOLEAN /\ queueClosed \in BOOLEAN
  /\ queue \in Seq(Job) /\ Len(queue) <= QueueCap
  /\ spc \in {"recv", "dispatch", "wait", "exit"} /\ sjob \in Job \cup {None}
  /\ pc \in [Job -> {"none", "send", "parked", "queued", "run", "retry",
                     "release", "drain", "over", "refused"}]
  /\ slot \in [Job -> Domain \cup {None, "global"}]
  /\ waits \in [Job -> Index \cup {0}]
  /\ reports \in [Task -> Nat] /\ panicked \in BOOLEAN /\ resizes \in Nat

\* A task's callbacks are called at most once, whatever is retried, timed out
\* or shut down: the manager counts on one result per task.
ReportedOnce == \A t \in Task : reports[t] <= 1

ChannelsOf(pool) == {i \in Index : channels[i].of = pool}
Holding(pool) == {j \in Job : slot[j] = pool}

\* A pool that was never resized has one token for each goroutine that holds
\* one of its slots, so no more tasks run than it has slots.
TokensHeld ==
  \A pool \in Domain \cup {"global"} :
    Cardinality(ChannelsOf(pool)) = 1 =>
      \A i \in ChannelsOf(pool) : channels[i].tokens = Cardinality(Holding(pool))

\* A task that got into the queue is reported in the end, unless the executor
\* is shut down, a pool was resized, or retries waiting for room in the queue
\* hold all the slots the scheduler waits for.
Resized == \E pool \in Domain \cup {"global"} : Cardinality(ChannelsOf(pool)) > 1
RetriesHoldThePool ==
  /\ spc = "wait" /\ Len(queue) = QueueCap
  /\ \A j \in Holding("global") : pc[j] = "retry" /\ pc[retryOf(j)] = "parked"
AcceptedIsReported ==
  \A t \in Task : pc[<<t, 0>>] = "queued"
                     ~> reports[t] = 1 \/ down \/ Resized \/ RetriesHoldThePool

-----------------------------------------------------------------------------
(* What the comments of the code say.                                      *)

\* dispatchTask: blocking on the pool makes sure that the task is executed in
\* the end.
QueuedIsExecuted ==
  \A j \in Job : pc[j] = "queued" ~> pc[j] \in {"run", "retry", "release", "drain", "over"} \/ down

=============================================================================
