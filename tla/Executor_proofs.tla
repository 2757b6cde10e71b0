-------------------------- MODULE Executor_proofs ---------------------------
(***************************************************************************)
(* Proofs about the executor: its types and capacities, at most one        *)
(* callback for a task, and no token lost or taken twice.                  *)
(*                                                                         *)
(* ExecIInv is inductive.  Its parts rest on each other: a token may be    *)
(* put or taken because the channel is known (SlotInv, ChannelInv), a job  *)
(* is started once because it was queued once (QueueInv), current stays a  *)
(* natural number because it counts jobs (CurrentInv), and a callback is   *)
(* the only one because the earlier retries of its task have passed and    *)
(* the later ones have not started (RetryInv).                             *)
(***************************************************************************)
EXTENDS Executor, FiniteSetTheorems, SequenceTheorems, TLAPS

-----------------------------------------------------------------------------
(* The inductive invariant.                                                *)

\* The indexes name channels of their own pool, and a resize in progress fills
\* a larger channel than the one in use.
ChannelInv ==
  /\ channels[workerPool].of = "global"
  /\ resize # None => /\ resize # workerPool /\ channels[resize].of = "global"
                      /\ channels[resize].size > maxWorkers
  /\ \A d \in Domain : domainPools[d].pool # 0 => channels[domainPools[d].pool].of = d

\* The scheduler holds a job that it took out of the queue.
Dispatching == spc \in {"dispatch", "wait"}

\* A job that is in the queue or with the scheduler is there once, and its pc
\* says so.  Without it the scheduler could start a job twice.
QueueInv ==
  /\ \A i \in 1 .. Len(queue) : pc[queue[i]] = "queued"
  /\ \A i, j \in 1 .. Len(queue) : queue[i] = queue[j] => i = j
  /\ Dispatching => /\ sjob \in Job /\ pc[sjob] = "queued"
                    /\ \A i \in 1 .. Len(queue) : queue[i] # sjob

\* The jobs that current counts: Release counts its job out before it takes the
\* token.
Occupying(d) == {j \in Job : slot[j] = d /\ pc[j] \in {"run", "retry", "release"}}

\* Who holds a slot, and of which pool the channel is that it waits for.
SlotInv ==
  /\ \A j \in Job : slot[j] # None <=> pc[j] \in {"run", "retry", "release", "drain"}
  /\ \A j \in Job : slot[j] \in Domain => domainPools[slot[j]].pool # 0
  /\ spc = "wait" => waits[sjob] \in Index /\ channels[waits[sjob]].of = "global"
  /\ \A j \in Job : pc[j] = "drain" => waits[j] \in Index /\ channels[waits[j]].of = slot[j]

\* current counts the slots in use; it never goes below 0.
CurrentInv ==
  \A d \in Domain : /\ IsFiniteSet(Occupying(d))
                    /\ domainPools[d].current = Cardinality(Occupying(d))

\* Retry m of t went on to the next one, or is over.
Passed(t, m) == pc[<<t, m>>] \in {"retry", "release", "drain", "over"}

\* Retry m of t may still report: it runs or is on its way, or failed and has not
\* submitted the next one.
Live(t, m) ==
  \/ pc[<<t, m>>] \in {"send", "parked", "queued", "run"}
  \/ pc[<<t, m>>] = "retry" /\ pc[<<t, m + 1>>] = "none"

\* The retries of a task are started one after the other, and nothing is
\* reported while one of them is live.
RetryInv ==
  \A t \in Task :
    /\ reports[t] <= 1
    /\ pc[<<t, 0>>] = "none" => reports[t] = 0
    /\ \A n \in 0 .. MaxRetries : /\ pc[<<t, n>>] = "retry" => n < MaxRetries
                                  /\ Live(t, n) => reports[t] = 0
                                  /\ pc[<<t, n>>] # "none" => \A m \in 0 .. n - 1 : Passed(t, m)

\* The pool of channel i was never given another one.
Alone(i) == \A k \in Index : channels[k].of = channels[i].of => k = i

\* TokensHeld, by channel.
TokensInv ==
  /\ \A pool \in Domain \cup {"global"} : IsFiniteSet(Holding(pool))
  /\ \A i \in Index : Alone(i) => channels[i].tokens = Cardinality(Holding(channels[i].of))

\* The inductive invariant.
ExecIInv == ExecTypeOK /\ ChannelInv /\ QueueInv /\ SlotInv /\ CurrentInv /\ RetryInv /\ TokensInv

\* One channel gains a token and all keep their pool and size.
Gains(i) ==
  /\ Len(channels') = Len(channels)
  /\ \A k \in Index : /\ channels'[k].of = channels[k].of
                      /\ channels'[k].size = channels[k].size
                      /\ channels'[k].tokens = channels[k].tokens + IF k = i THEN 1 ELSE 0

\* One channel loses a token.
Loses(i) ==
  /\ Len(channels') = Len(channels)
  /\ \A k \in Index : /\ channels'[k].of = channels[k].of
                      /\ channels'[k].size = channels[k].size
                      /\ channels'[k].tokens = channels[k].tokens - IF k = i THEN 1 ELSE 0

\* There is one more channel, c.
Grows(c) ==
  /\ c \in Channel /\ c.tokens = 0
  /\ Len(channels') = Len(channels) + 1
  /\ \A k \in Index : channels'[k] = channels[k]
  /\ channels'[Len(channels')] = c

-----------------------------------------------------------------------------
(* The channels.                                                           *)

\* The types of a channel's fields.
LEMMA ChannelFacts ==
  ASSUME ExecTypeOK, NEW i \in Index
  PROVE  /\ channels[i] \in Channel
         /\ channels[i].tokens \in Nat /\ channels[i].size \in Nat
         /\ channels[i].tokens <= channels[i].size
<1>1. channels[i] \in Channel /\ channels[i].tokens <= channels[i].size
  BY DEF ExecTypeOK, Index
<1> QED
  BY <1>1 DEF Channel

\* What an EXCEPT on one channel's tokens does.
LEMMA SetToken ==
  ASSUME ExecTypeOK, NEW i \in Index, NEW n \in Nat,
         channels' = [channels EXCEPT ![i].tokens = n]
  PROVE  /\ channels' \in Seq(Channel) /\ Len(channels') = Len(channels)
         /\ \A k \in Index : /\ channels'[k].of = channels[k].of
                             /\ channels'[k].size = channels[k].size
                             /\ channels'[k].tokens = IF k = i THEN n ELSE channels[k].tokens
<1>1. channels \in Seq(Channel) /\ i \in 1 .. Len(channels)
  BY DEF ExecTypeOK, Index
<1>2. [channels[i] EXCEPT !.tokens = n] \in Channel
  BY ChannelFacts DEF Channel
<1>3. channels' = [channels EXCEPT ![i] = [channels[i] EXCEPT !.tokens = n]]
  BY <1>1
<1>4. channels' \in Seq(Channel) /\ Len(channels') = Len(channels)
  BY <1>1, <1>2, <1>3, ExceptSeq
<1> QED
  BY <1>1, <1>2, <1>3, <1>4 DEF Index, Channel

\* A put gains one token.
LEMMA PutFacts ==
  ASSUME ExecTypeOK, NEW i \in Index, put(i)
  PROVE  Gains(i) /\ channels' \in Seq(Channel)
<1>1. channels' = [channels EXCEPT ![i].tokens = channels[i].tokens + 1]
  BY DEF put, ExecTypeOK, Index
<1>2. channels[i].tokens + 1 \in Nat
  BY ChannelFacts
<1>3. /\ channels' \in Seq(Channel) /\ Len(channels') = Len(channels)
      /\ \A k \in Index : /\ channels'[k].of = channels[k].of
                          /\ channels'[k].size = channels[k].size
                          /\ channels'[k].tokens = IF k = i THEN channels[i].tokens + 1
                                                           ELSE channels[k].tokens
  BY <1>1, <1>2, SetToken
<1>4. \A k \in Index : channels[k].tokens \in Nat
  BY ChannelFacts
<1> QED
  BY <1>3, <1>4 DEF Gains

\* A take loses one token.
LEMMA TakeFacts ==
  ASSUME ExecTypeOK, NEW i \in Index, take(i), channels[i].tokens > 0
  PROVE  Loses(i) /\ channels' \in Seq(Channel)
<1>1. channels' = [channels EXCEPT ![i].tokens = channels[i].tokens - 1]
  BY DEF take, ExecTypeOK, Index
<1>2. channels[i].tokens - 1 \in Nat
  BY ChannelFacts
<1>3. /\ channels' \in Seq(Channel) /\ Len(channels') = Len(channels)
      /\ \A k \in Index : /\ channels'[k].of = channels[k].of
                          /\ channels'[k].size = channels[k].size
                          /\ channels'[k].tokens = IF k = i THEN channels[i].tokens - 1
                                                           ELSE channels[k].tokens
  BY <1>1, <1>2, SetToken
<1>4. \A k \in Index : channels[k].tokens \in Nat
  BY ChannelFacts
<1> QED
  BY <1>3, <1>4 DEF Loses

\* A new channel comes last and is empty.
LEMMA GrowFacts ==
  ASSUME ExecTypeOK, NEW pool \in Domain \cup {"global"}, NEW size \in Nat,
         channels' = Append(channels, channel(pool, size))
  PROVE  Grows(channel(pool, size)) /\ channels' \in Seq(Channel)
<1>1. channel(pool, size) \in Channel /\ channels \in Seq(Channel)
  BY DEF channel, Channel, ExecTypeOK
<1> QED
  BY <1>1 DEF Grows, Index, channel

\* The types of the channels, tokens within their size.
ChannelsOK ==
  /\ channels \in Seq(Channel)
  /\ \A i \in Index : channels[i].tokens <= channels[i].size

\* A put where there is room keeps the tokens within the channel's size.
LEMMA ChannelsGain ==
  ASSUME ExecTypeOK, NEW i \in Index, put(i), HasRoom(i)
  PROVE  ChannelsOK' /\ Index' = Index
<1>1. Gains(i) /\ channels' \in Seq(Channel)
  BY PutFacts
<1>2. channels[i].tokens < channels[i].size
  BY DEF HasRoom
<1>3. Index' = Index
  BY <1>1 DEF Gains, Index
<1>4. ASSUME NEW k \in Index PROVE channels'[k].tokens <= channels'[k].size
  BY <1>1, <1>2, ChannelFacts DEF Gains
<1> QED
  BY <1>1, <1>3, <1>4 DEF ChannelsOK

\* So does a take from a channel that is not empty.
LEMMA ChannelsLose ==
  ASSUME ExecTypeOK, NEW i \in Index, take(i), channels[i].tokens > 0
  PROVE  ChannelsOK' /\ Index' = Index
<1>1. Loses(i) /\ channels' \in Seq(Channel)
  BY TakeFacts
<1>3. Index' = Index
  BY <1>1 DEF Loses, Index
<1>4. ASSUME NEW k \in Index PROVE channels'[k].tokens <= channels'[k].size
  BY <1>1, ChannelFacts DEF Loses
<1> QED
  BY <1>1, <1>3, <1>4 DEF ChannelsOK

\* So does a new channel, and it gets an index of its own.
LEMMA ChannelsGrow ==
  ASSUME ExecTypeOK, NEW pool \in Domain \cup {"global"}, NEW size \in Nat,
         channels' = Append(channels, channel(pool, size))
  PROVE  /\ ChannelsOK' /\ Index' = Index \cup {Len(channels')}
         /\ Len(channels') \in Index' /\ Len(channels') \notin Index
<1>1. Grows(channel(pool, size)) /\ channels' \in Seq(Channel)
  BY GrowFacts
<1>2. Len(channels) \in Nat
  BY DEF ExecTypeOK
<1>3. /\ Index' = Index \cup {Len(channels')}
      /\ Len(channels') \in Index' /\ Len(channels') \notin Index
  BY <1>1, <1>2 DEF Grows, Index
<1>4. ASSUME NEW k \in Index PROVE channels'[k].tokens <= channels'[k].size
  BY <1>1, ChannelFacts DEF Grows
<1>5. channels'[Len(channels')].tokens <= channels'[Len(channels')].size
  BY <1>1 DEF Grows, channel
<1> QED
  BY <1>1, <1>3, <1>4, <1>5 DEF ChannelsOK

\* ResizeMove is a take from one channel and a put in another.
LEMMA ChannelsMove ==
  ASSUME ExecTypeOK, ChannelInv, ResizeMove
  PROVE  /\ ChannelsOK' /\ Index' = Index
         /\ \A k \in Index : /\ channels'[k].of = channels[k].of
                             /\ channels'[k].size = channels[k].size
                             /\ k \notin {resize, workerPool} => channels'[k] = channels[k]
<1>1. /\ resize \in Index /\ workerPool \in Index /\ resize # workerPool
      /\ channels \in Seq(Channel) /\ maxWorkers \in Nat
  BY DEF ResizeMove, ExecTypeOK, ChannelInv
<1>0. ASSUME NEW c \in Channel, NEW n \in Nat PROVE [c EXCEPT !.tokens = n] \in Channel
  BY DEF Channel
<1>2. PICK r \in Channel : r = [channels[resize] EXCEPT !.tokens = channels[resize].tokens + 1]
  <2>1. channels[resize] \in Channel /\ channels[resize].tokens + 1 \in Nat
    BY <1>1, ChannelFacts
  <2> QED
    BY <1>0, <2>1
<1>3. PICK w \in Channel :
        w = [channels[workerPool] EXCEPT !.tokens = channels[workerPool].tokens - 1]
  <2>1. channels[workerPool] \in Channel /\ channels[workerPool].tokens - 1 \in Nat
    BY <1>1, ChannelFacts DEF ResizeMove
  <2> QED
    BY <1>0, <2>1
<1>4. channels' = [[channels EXCEPT ![resize] = r] EXCEPT ![workerPool] = w]
  BY <1>1, <1>2, <1>3 DEF ResizeMove, Index
<1>5. PICK c \in Seq(Channel) : c = [channels EXCEPT ![resize] = r]
  BY <1>1, ExceptSeq DEF Index
<1>6. Len(c) = Len(channels) /\ \A k \in Index : c[k] = IF k = resize THEN r ELSE channels[k]
  BY <1>1, <1>5, ExceptSeq DEF Index
<1>7. /\ channels' \in Seq(Channel) /\ Len(channels') = Len(channels)
      /\ \A k \in Index : channels'[k] = IF k = workerPool THEN w ELSE c[k]
  BY <1>1, <1>4, <1>5, <1>6, ExceptSeq DEF Index
<1>8. Index' = Index
  BY <1>7 DEF Index
<1>9. /\ r.of = channels[resize].of /\ r.size = channels[resize].size
      /\ r.tokens = channels[resize].tokens + 1
      /\ w.of = channels[workerPool].of /\ w.size = channels[workerPool].size
      /\ w.tokens = channels[workerPool].tokens - 1
  BY <1>1, <1>2, <1>3, ChannelFacts DEF Channel
<1>10. channels[resize].tokens < channels[resize].size
  <2>1. channels[resize].tokens < maxWorkers /\ maxWorkers < channels[resize].size
    BY DEF ResizeMove, ChannelInv
  <2> QED
    BY <1>1, <2>1, ChannelFacts
<1>11. ASSUME NEW k \in Index
       PROVE  /\ channels'[k].of = channels[k].of /\ channels'[k].size = channels[k].size
              /\ channels'[k].tokens <= channels'[k].size
              /\ k \notin {resize, workerPool} => channels'[k] = channels[k]
  <2>1. CASE k = resize
    BY <1>1, <1>6, <1>7, <1>9, <1>10, <2>1, ChannelFacts
  <2>2. CASE k = workerPool
    BY <1>1, <1>6, <1>7, <1>9, <2>2, ChannelFacts
  <2>3. CASE k # resize /\ k # workerPool
    BY <1>6, <1>7, <2>3, ChannelFacts
  <2> QED
    BY <2>1, <2>2, <2>3
<1> QED
  BY <1>7, <1>8, <1>11 DEF ChannelsOK

-----------------------------------------------------------------------------
(* Types.                                                                  *)

\* The values of pc.
JobState == {"none", "send", "parked", "queued", "run", "retry", "release", "drain",
             "over", "refused"}

\* What the scheduler knows of the job it dispatches.
LEMMA DispatchedFacts ==
  ASSUME ExecTypeOK, QueueInv, Dispatching
  PROVE  sjob \in Job /\ sjob[1] \in Task /\ pc[sjob] = "queued"
         /\ DomainOf[sjob[1]] \in Domain \cup {None}
BY ExecutorAssumption DEF QueueInv, Job

\* current is not 0 while a job occupies a slot of the domain.
LEMMA CurrentPositive ==
  ASSUME ExecTypeOK, CurrentInv, NEW j \in Job, pc[j] = "release", slot[j] \in Domain
  PROVE  domainPools[slot[j]].current \in Nat /\ domainPools[slot[j]].current > 0
<1>1. j \in Occupying(slot[j]) /\ IsFiniteSet(Occupying(slot[j]))
      /\ domainPools[slot[j]].current = Cardinality(Occupying(slot[j]))
  BY DEF Occupying, CurrentInv
<1> QED
  BY <1>1, FS_EmptySet, FS_CardinalityType

\* The assignments to a domain's pool keep its type.
LEMMA SetDomain ==
  ASSUME ExecTypeOK, NEW d \in Domain, NEW m \in Nat, NEW c \in Nat,
         Index \subseteq Index', NEW i \in Index' \cup {0}
  PROVE  /\ [domainPools EXCEPT ![d].max = m, ![d].pool = i]
              \in [Domain -> [max: Nat, current: Nat, pool: Index' \cup {0}]]
         /\ [domainPools EXCEPT ![d].current = c]
              \in [Domain -> [max: Nat, current: Nat, pool: Index' \cup {0}]]
<1>1. domainPools \in [Domain -> [max: Nat, current: Nat, pool: Index' \cup {0}]]
  <2>1. domainPools \in [Domain -> [max: Nat, current: Nat, pool: Index \cup {0}]]
    BY DEF ExecTypeOK
  <2> QED
    BY <2>1
<1>2. PICK J : J = Index' \cup {0}
  OBVIOUS
<1>3. /\ domainPools \in [Domain -> [max: Nat, current: Nat, pool: J]] /\ i \in J
  BY <1>1, <1>2
<1>4. /\ [domainPools EXCEPT ![d].max = m, ![d].pool = i]
           \in [Domain -> [max: Nat, current: Nat, pool: J]]
      /\ [domainPools EXCEPT ![d].current = c]
           \in [Domain -> [max: Nat, current: Nat, pool: J]]
  BY ONLY <1>3, m \in Nat, c \in Nat, d \in Domain
<1> QED
  BY <1>2, <1>4

\* The parts of ExecTypeOK: the pools...
PoolsOK ==
  /\ ChannelsOK
  /\ maxWorkers \in Nat /\ workerPool \in Index /\ resize \in Index \cup {None}
  /\ domainPools \in [Domain -> [max: Nat, current: Nat, pool: Index \cup {0}]]
  /\ resizes \in Nat

\* ...the shutdown...
StopOK == running \in BOOLEAN /\ down \in BOOLEAN /\ queueClosed \in BOOLEAN

\* ...the queue and the scheduler...
SchedOK ==
  /\ queue \in Seq(Job) /\ Len(queue) <= QueueCap
  /\ spc \in {"recv", "dispatch", "wait", "exit"} /\ sjob \in Job \cup {None}

\* ...and the jobs.
JobsOK ==
  /\ pc \in [Job -> JobState]
  /\ slot \in [Job -> Domain \cup {None, "global"}]
  /\ waits \in [Job -> Index \cup {0}]
  /\ reports \in [Task -> Nat] /\ panicked \in BOOLEAN

\* The parts are ExecTypeOK.
LEMMA TypeParts == ExecTypeOK <=> PoolsOK /\ StopOK /\ SchedOK /\ JobsOK
BY DEF ExecTypeOK, PoolsOK, ChannelsOK, StopOK, SchedOK, JobsOK, JobState

\* The same after a step.
LEMMA TypeJoin == PoolsOK' /\ StopOK' /\ SchedOK' /\ JobsOK' => ExecTypeOK'
BY TypeParts, PTL

\* A job is appended where there is room.
LEMMA SchedSend ==
  ASSUME SchedOK, NEW j \in Job, Len(queue) < QueueCap, queue' = Append(queue, j),
         UNCHANGED schedulerVars
  PROVE  SchedOK'
<1>1. queue' \in Seq(Job) /\ Len(queue') = Len(queue) + 1
  BY DEF SchedOK
<1>2. Len(queue') <= QueueCap
  BY <1>1, ExecutorAssumption DEF SchedOK
<1> QED
  BY <1>1, <1>2 DEF SchedOK, schedulerVars

\* The type invariant: the steps of SubmitTask.
LEMMA TypeSubmit ==
  ASSUME ExecTypeOK, NEW j \in Job, SubmitCheck(j) \/ SubmitSend(j) \/ SubmitUnpark(j)
  PROVE  ExecTypeOK'
<1> USE TypeParts, TypeJoin
<1>1. PoolsOK' /\ StopOK' /\ Index' = Index
  BY DEF SubmitCheck, SubmitSend, SubmitUnpark, poolVars, stopVars, PoolsOK, ChannelsOK,
     StopOK, Index
<1>2. SchedOK'
  <2>1. CASE UNCHANGED <<queue, schedulerVars>>
    BY <2>1 DEF SchedOK, schedulerVars
  <2>2. CASE Len(queue) < QueueCap /\ queue' = Append(queue, j) /\ UNCHANGED schedulerVars
    BY <2>2, SchedSend
  <2> QED
    BY <2>1, <2>2 DEF SubmitCheck, SubmitSend, SubmitUnpark
<1>3. JobsOK'
  <2>1. \E s \in JobState : pc' = [pc EXCEPT ![j] = s]
    BY DEF SubmitCheck, SubmitSend, SubmitUnpark, JobState
  <2>2. UNCHANGED <<slot, waits, reports>> /\ panicked' \in BOOLEAN
    BY DEF SubmitCheck, SubmitSend, SubmitUnpark, JobsOK
  <2> QED
    BY <1>1, <2>1, <2>2 DEF JobsOK
<1> QED
  BY <1>1, <1>2, <1>3

\* The type invariant: the steps of the scheduler.
LEMMA TypeScheduler ==
  ASSUME ExecTypeOK, ChannelInv, QueueInv, SlotInv, SchedulerStep
  PROVE  ExecTypeOK'
<1> USE TypeParts, TypeJoin
<1>1. CASE SchedulerRecv
  <2>1. Head(queue) \in Job /\ Tail(queue) \in Seq(Job) /\ Len(Tail(queue)) <= QueueCap
    <3>1. queue \in Seq(Job) /\ queue # <<>> /\ Len(queue) <= QueueCap
      BY <1>1 DEF SchedulerRecv, SchedOK
    <3>2. Len(Tail(queue)) = Len(queue) - 1 /\ Len(queue) \in Nat
      BY <3>1
    <3> QED
      BY <3>1, <3>2, ExecutorAssumption
  <2>2. SchedOK'
    BY <1>1, <2>1 DEF SchedulerRecv, SchedOK
  <2>3. PoolsOK' /\ StopOK' /\ JobsOK'
    BY <1>1 DEF SchedulerRecv, poolVars, stopVars, jobVars, PoolsOK, ChannelsOK, StopOK,
       JobsOK, Index
  <2> QED
    BY <2>2, <2>3
<1>2. CASE SchedulerExit
  BY <1>2 DEF SchedulerExit, poolVars, stopVars, jobVars, PoolsOK, ChannelsOK, StopOK,
     JobsOK, Index, SchedOK
<1>3. CASE DispatchDomain
  <2>1. PICK d \in Domain : d = DomainOf[sjob[1]]
    BY <1>3, DispatchedFacts DEF DispatchDomain, Dispatching
  <2>2. PICK i \in Index : i = domainPools[d].pool /\ HasRoom(i) /\ put(i)
    BY <1>3, <2>1 DEF DispatchDomain, DomainHasRoom, PoolsOK
  <2>3. ChannelsOK' /\ Index' = Index
    BY <2>2, ChannelsGain
  <2>4. domainPools' = [domainPools EXCEPT ![d].current = domainPools[d].current + 1]
    BY <1>3, <2>1 DEF DispatchDomain, PoolsOK
  <2>5. domainPools[d].current + 1 \in Nat
    BY DEF PoolsOK
  <2>6. domainPools' \in [Domain -> [max: Nat, current: Nat, pool: Index' \cup {0}]]
    BY <2>3, <2>4, <2>5, SetDomain
  <2>7. PoolsOK'
    BY <1>3, <2>3, <2>6 DEF DispatchDomain, PoolsOK
  <2>8. start(sjob, d) /\ UNCHANGED waits
    BY <1>3, <2>1 DEF DispatchDomain
  <2>9. StopOK' /\ SchedOK' /\ JobsOK'
    BY <2>3, <2>8 DEF start, stopVars, StopOK, SchedOK, JobsOK, JobState
  <2> QED
    BY <2>7, <2>9
<1>4. CASE DispatchGlobal
  <2>1. PoolsOK' /\ StopOK' /\ SchedOK' /\ Index' = Index
    BY <1>4 DEF DispatchGlobal, poolVars, stopVars, PoolsOK, ChannelsOK, StopOK, SchedOK, Index
  <2>2. JobsOK'
    BY <1>4, <2>1 DEF DispatchGlobal, JobsOK, PoolsOK
  <2> QED
    BY <2>1, <2>2
<1>5. CASE DispatchStart
  <2>1. PICK i \in Index : i = waits[sjob] /\ HasRoom(i) /\ put(i)
    BY <1>5 DEF DispatchStart, SlotInv
  <2>2. ChannelsOK' /\ Index' = Index
    BY <2>1, ChannelsGain
  <2>3. PoolsOK'
    BY <1>5, <2>2 DEF DispatchStart, PoolsOK
  <2>4. start(sjob, "global") /\ UNCHANGED waits
    BY <1>5 DEF DispatchStart
  <2>5. StopOK' /\ SchedOK' /\ JobsOK'
    BY <2>2, <2>4 DEF start, stopVars, StopOK, SchedOK, JobsOK, JobState
  <2> QED
    BY <2>3, <2>5
<1>6. CASE DispatchDown
  <2>1. PoolsOK' /\ StopOK' /\ SchedOK' /\ Index' = Index
    BY <1>6 DEF DispatchDown, poolVars, stopVars, PoolsOK, ChannelsOK, StopOK, SchedOK, Index
  <2>2. sjob[1] \in Task
    BY <1>6, DispatchedFacts DEF DispatchDown, Dispatching
  <2>3. reports' \in [Task -> Nat]
    BY <1>6, <2>2 DEF DispatchDown, report, JobsOK
  <2>4. JobsOK'
    BY <1>6, <2>1, <2>3 DEF DispatchDown, JobsOK, JobState
  <2> QED
    BY <2>1, <2>4
<1> QED
  BY <1>1, <1>2, <1>3, <1>4, <1>5, <1>6 DEF SchedulerStep

\* The type invariant: the steps of a task's goroutine.
LEMMA TypeTask ==
  ASSUME ExecTypeOK, SlotInv, CurrentInv, NEW j \in Job,
         TaskRetry(j) \/ TaskRetried(j) \/ TaskDone(j) \/ Release(j) \/ ReleaseToken(j)
  PROVE  ExecTypeOK'
<1> USE TypeParts, TypeJoin
<1>1. CASE TaskRetry(j) \/ TaskRetried(j) \/ TaskDone(j)
  <2>1. PoolsOK' /\ StopOK' /\ SchedOK' /\ Index' = Index
    BY <1>1 DEF TaskRetry, TaskRetried, TaskDone, goVars, poolVars, stopVars, schedulerVars,
       PoolsOK, ChannelsOK, StopOK, SchedOK, Index
  <2>2. j[1] \in Task
    BY DEF Job
  <2>3. \E s \in JobState : pc' = [pc EXCEPT ![j] = s]
    BY <1>1 DEF TaskRetry, TaskRetried, TaskDone, JobState
  <2>4. reports' \in [Task -> Nat] /\ UNCHANGED <<slot, waits, panicked>>
    BY <1>1, <2>2 DEF TaskRetry, TaskRetried, TaskDone, goVars, report, JobsOK
  <2>5. JobsOK'
    BY <2>1, <2>3, <2>4 DEF JobsOK
  <2> QED
    BY <2>1, <2>5
<1>2. CASE Release(j)
  <2>1. ChannelsOK' /\ StopOK' /\ SchedOK' /\ Index' = Index
    BY <1>2 DEF Release, stopVars, schedulerVars, PoolsOK, ChannelsOK, StopOK, SchedOK, Index
  <2>2. slot[j] = "global" \/ slot[j] \in Domain
    BY <1>2 DEF Release, SlotInv, JobsOK
  <2>3. domainPools' \in [Domain -> [max: Nat, current: Nat, pool: Index' \cup {0}]]
    <3>1. CASE slot[j] = "global"
      BY <1>2, <2>1, <3>1 DEF Release, PoolsOK
    <3>2. CASE slot[j] # "global"
      <4>1. slot[j] \in Domain /\ pc[j] = "release"
        BY <1>2, <2>2, <3>2 DEF Release
      <4>2. PICK d \in Domain : d = slot[j]
        BY <4>1
      <4>3. domainPools' = [domainPools EXCEPT ![d].current = domainPools[d].current - 1]
        BY <1>2, <3>2, <4>2 DEF Release, PoolsOK
      <4>4. domainPools[d].current - 1 \in Nat
        BY <4>1, <4>2, CurrentPositive
      <4> QED
        BY <2>1, <4>3, <4>4, SetDomain
    <3> QED
      BY <3>1, <3>2
  <2>4. PoolsOK'
    BY <1>2, <2>1, <2>3 DEF Release, PoolsOK
  <2>5. \E i \in Index \cup {0} : waits' = [waits EXCEPT ![j] = i]
    <3>1. CASE slot[j] = "global"
      BY <1>2, <3>1 DEF Release, PoolsOK
    <3>2. CASE slot[j] # "global"
      BY <1>2, <2>2, <3>2 DEF Release, PoolsOK
    <3> QED
      BY <3>1, <3>2
  <2>6. JobsOK'
    BY <1>2, <2>1, <2>5 DEF Release, JobsOK, JobState
  <2> QED
    BY <2>1, <2>4, <2>6
<1>3. CASE ReleaseToken(j)
  <2>1. PICK i \in Index : i = waits[j] /\ channels[i].tokens > 0 /\ take(i)
    BY <1>3 DEF ReleaseToken, SlotInv
  <2>2. ChannelsOK' /\ Index' = Index
    BY <2>1, ChannelsLose
  <2>3. PoolsOK' /\ StopOK' /\ SchedOK'
    BY <1>3, <2>2 DEF ReleaseToken, stopVars, schedulerVars, PoolsOK, StopOK, SchedOK
  <2>4. JobsOK'
    BY <1>3, <2>2 DEF ReleaseToken, JobsOK, JobState
  <2> QED
    BY <2>3, <2>4
<1> QED
  BY <1>1, <1>2, <1>3

\* The type invariant: the steps of a resize; channels are only added.
LEMMA TypeResize ==
  ASSUME ExecTypeOK, ChannelInv, ResizeStep \/ ResizeMove \/ ResizeEnd
  PROVE  ExecTypeOK' /\ Index \subseteq Index'
<1> USE TypeParts, TypeJoin
<1>0. ASSUME Index \subseteq Index' PROVE StopOK' /\ SchedOK' /\ JobsOK'
  <2>1. UNCHANGED quietVars
    BY DEF ResizeStep, ResizeMove, ResizeEnd, ResizeBegin, Shrink, SetDomainPoolSize
  <2> QED
    BY <1>0, <2>1 DEF quietVars, stopVars, schedulerVars, jobVars, StopOK, SchedOK, JobsOK
<1>d. ASSUME Index \subseteq Index', domainPools' = domainPools
      PROVE  domainPools' \in [Domain -> [max: Nat, current: Nat, pool: Index' \cup {0}]]
  BY <1>d DEF PoolsOK
<1>1. ASSUME NEW size \in Sizes, ResizeBegin(size) \/ Shrink(size)
      PROVE  ExecTypeOK' /\ Index \subseteq Index'
  <2>1. size \in Nat /\ channels' = Append(channels, channel("global", size))
    BY <1>1, ExecutorAssumption DEF ResizeBegin, Shrink
  <2>2. /\ ChannelsOK' /\ Index \subseteq Index' /\ Len(channels') \in Index'
    BY <2>1, ChannelsGrow
  <2>3. /\ maxWorkers' \in Nat /\ workerPool' \in Index' /\ resize' \in Index' \cup {None}
        /\ resizes' \in Nat /\ domainPools' = domainPools
    BY <1>1, <2>1, <2>2 DEF ResizeBegin, Shrink, PoolsOK
  <2>4. PoolsOK'
    BY <2>2, <2>3, <1>d DEF PoolsOK
  <2> QED
    BY <2>2, <2>4, <1>0
<1>2. ASSUME NEW d \in Domain, NEW size \in Sizes, SetDomainPoolSize(d, size)
      PROVE  ExecTypeOK' /\ Index \subseteq Index'
  <2>1. size \in Nat /\ channels' = Append(channels, channel(d, size))
    BY <1>2, ExecutorAssumption DEF SetDomainPoolSize
  <2>2. /\ ChannelsOK' /\ Index \subseteq Index' /\ Len(channels') \in Index'
    BY <2>1, ChannelsGrow
  <2>3. /\ UNCHANGED <<maxWorkers, workerPool, resize>> /\ resizes' \in Nat
        /\ domainPools' = [domainPools EXCEPT ![d].max = size, ![d].pool = Len(channels')]
    BY <1>2 DEF SetDomainPoolSize, PoolsOK
  <2>4. domainPools' \in [Domain -> [max: Nat, current: Nat, pool: Index' \cup {0}]]
    BY <2>1, <2>2, <2>3, SetDomain
  <2>5. PoolsOK'
    BY <2>2, <2>3, <2>4 DEF PoolsOK
  <2> QED
    BY <2>2, <2>5, <1>0
<1>3. CASE ResizeMove
  <2>1. ChannelsOK' /\ Index' = Index
    BY <1>3, ChannelsMove
  <2>2. PoolsOK'
    BY <1>3, <2>1 DEF ResizeMove, PoolsOK
  <2> QED
    BY <2>1, <2>2, <1>0
<1>4. CASE ResizeEnd
  <2>1. ChannelsOK' /\ Index' = Index
    BY <1>4 DEF ResizeEnd, PoolsOK, ChannelsOK, Index
  <2>2. resize \in Index /\ channels[resize].size \in Nat
    BY <1>4, ChannelFacts DEF ResizeEnd, PoolsOK
  <2>3. PoolsOK'
    BY <1>4, <2>1, <2>2 DEF ResizeEnd, PoolsOK
  <2> QED
    BY <2>1, <2>3, <1>0
<1> QED
  BY <1>1, <1>2, <1>3, <1>4 DEF ResizeStep

\* The type invariant: the steps of a shutdown.
LEMMA TypeStop ==
  ASSUME ExecTypeOK, Shutdown \/ CloseQueue \/ UNCHANGED execVars
  PROVE  ExecTypeOK'
<1> USE TypeParts, TypeJoin
<1>1. PoolsOK' /\ SchedOK' /\ StopOK' /\ Index' = Index
  BY DEF Shutdown, CloseQueue, execVars, poolVars, stopVars, schedulerVars, PoolsOK,
     ChannelsOK, StopOK, SchedOK, Index
<1>2. pc' \in [Job -> JobState]
  BY DEF Shutdown, CloseQueue, execVars, jobVars, JobsOK, JobState
<1>3. JobsOK'
  BY <1>1, <1>2 DEF Shutdown, CloseQueue, execVars, jobVars, JobsOK
<1> QED
  BY <1>1, <1>3

\* Every step is one of these.
LEMMA ExecCases ==
  ASSUME [ExecNext]_execVars
  PROVE  \/ \E j \in Job : SubmitCheck(j) \/ SubmitSend(j) \/ SubmitUnpark(j)
         \/ SchedulerStep
         \/ \E j \in Job : \/ TaskRetry(j) \/ TaskRetried(j) \/ TaskDone(j)
                           \/ Release(j) \/ ReleaseToken(j)
         \/ ResizeStep \/ ResizeMove \/ ResizeEnd
         \/ Shutdown \/ CloseQueue \/ UNCHANGED execVars
BY DEF ExecNext, JobStep

\* The type invariant is kept.
LEMMA ExecTypeStep ==
  ASSUME ExecTypeOK, ChannelInv, QueueInv, SlotInv, CurrentInv, [ExecNext]_execVars
  PROVE  ExecTypeOK'
BY ExecCases, TypeSubmit, TypeScheduler, TypeTask, TypeResize, TypeStop

-----------------------------------------------------------------------------
(* Where the channels are.                                                 *)

\* The channels after a step.
ChannelStep ==
  /\ Len(channels') \in Nat /\ Index \subseteq Index'
  /\ \A k \in Index : /\ channels'[k].of = channels[k].of
                      /\ channels'[k].size = channels[k].size

\* No step removes a channel or changes its pool or its size.
LEMMA ChannelSteps ==
  ASSUME ExecTypeOK, ChannelInv, QueueInv, SlotInv, [ExecNext]_execVars
  PROVE  ChannelStep
<1>0. Len(channels) \in Nat
  BY DEF ExecTypeOK
<1>1. CASE channels' = channels
  BY <1>0, <1>1 DEF ChannelStep, Index
<1>2. ASSUME NEW i \in Index, put(i) PROVE ChannelStep
  BY <1>0, <1>2, PutFacts DEF Gains, ChannelStep, Index
<1>3. ASSUME NEW i \in Index, take(i), channels[i].tokens > 0 PROVE ChannelStep
  BY <1>0, <1>3, TakeFacts DEF Loses, ChannelStep, Index
<1>4. ASSUME NEW pool \in Domain \cup {"global"}, NEW size \in Nat,
             channels' = Append(channels, channel(pool, size))
      PROVE  ChannelStep
  <2>1. Grows(channel(pool, size))
    BY <1>4, GrowFacts
  <2> QED
    BY <1>0, <2>1 DEF Grows, ChannelStep, Index
<1>5. CASE ResizeMove
  <2>1. Len(channels') \in Nat
    BY <1>5, ChannelsMove DEF ChannelsOK
  <2> QED
    BY <2>1, <1>5, ChannelsMove DEF ChannelStep
<1>6. CASE ResizeStep
  <2>1. ASSUME NEW size \in Sizes, ResizeBegin(size) \/ Shrink(size) PROVE ChannelStep
    BY <1>4, <2>1, ExecutorAssumption DEF ResizeBegin, Shrink
  <2>2. ASSUME NEW d \in Domain, NEW size \in Sizes, SetDomainPoolSize(d, size)
        PROVE  ChannelStep
    BY <1>4, <2>2, ExecutorAssumption DEF SetDomainPoolSize
  <2> QED
    BY <1>6, <2>1, <2>2 DEF ResizeStep
<1>7. CASE DispatchDomain
  <2>1. DomainOf[sjob[1]] \in Domain
    BY <1>7, DispatchedFacts DEF DispatchDomain, Dispatching
  <2>2. domainPools[DomainOf[sjob[1]]].pool \in Index
    BY <1>7, <2>1 DEF DispatchDomain, DomainHasRoom, ExecTypeOK
  <2> QED
    BY <1>2, <1>7, <2>2 DEF DispatchDomain
<1>8. CASE DispatchStart
  BY <1>2, <1>8 DEF DispatchStart, SlotInv
<1>9. ASSUME NEW j \in Job, ReleaseToken(j) PROVE ChannelStep
  BY <1>3, <1>9 DEF ReleaseToken, SlotInv
<1> QED
  BY <1>1, <1>5, <1>6, <1>7, <1>8, <1>9, ExecCases
     DEF SubmitCheck, SubmitSend, SubmitUnpark, SchedulerStep, SchedulerRecv, SchedulerExit,
         DispatchGlobal, DispatchDown, TaskRetry, TaskRetried, TaskDone, goVars, Release,
         ResizeEnd, Shutdown, CloseQueue, execVars, poolVars

\* ChannelInv, steps that leave the pools' indexes alone.
LEMMA ChannelFrame ==
  ASSUME ExecTypeOK, ChannelInv, ChannelStep, UNCHANGED <<workerPool, resize, maxWorkers>>,
         \A d \in Domain : domainPools'[d].pool = domainPools[d].pool
  PROVE  ChannelInv'
<1>1. channels'[workerPool'].of = "global"
  BY DEF ExecTypeOK, ChannelInv, ChannelStep
<1>2. resize' # None => /\ resize' # workerPool' /\ channels'[resize'].of = "global"
                        /\ channels'[resize'].size > maxWorkers'
  BY DEF ExecTypeOK, ChannelInv, ChannelStep
<1>3. ASSUME NEW d \in Domain, domainPools'[d].pool # 0
      PROVE  channels'[domainPools'[d].pool].of = d
  BY <1>3 DEF ExecTypeOK, ChannelInv, ChannelStep
<1> QED
  BY <1>1, <1>2, <1>3 DEF ChannelInv

\* Only SetDomainPoolSize gives a domain another channel.
LEMMA PoolIndexes ==
  ASSUME ExecTypeOK, QueueInv, SlotInv, [ExecNext]_execVars,
         \A d \in Domain, size \in Sizes : ~SetDomainPoolSize(d, size)
  PROVE  \A d \in Domain : domainPools'[d].pool = domainPools[d].pool
<1>1. CASE UNCHANGED domainPools
  BY <1>1
<1>2. CASE DispatchDomain
  <2>1. PICK d \in Domain : d = DomainOf[sjob[1]]
    BY <1>2, DispatchedFacts DEF DispatchDomain, Dispatching
  <2>2. domainPools' = [domainPools EXCEPT ![d].current = domainPools[d].current + 1]
    BY <1>2, <2>1 DEF DispatchDomain, ExecTypeOK
  <2> QED
    BY <2>2 DEF ExecTypeOK
<1>3. ASSUME NEW j \in Job, Release(j)
      PROVE  \A d \in Domain : domainPools'[d].pool = domainPools[d].pool
  <2>1. slot[j] = "global" \/ slot[j] \in Domain
    BY <1>3 DEF Release, SlotInv, ExecTypeOK
  <2>2. CASE slot[j] # "global"
    <3>1. PICK d \in Domain : d = slot[j]
      BY <2>1, <2>2
    <3>2. domainPools' = [domainPools EXCEPT ![d].current = domainPools[d].current - 1]
      BY <1>3, <2>2, <3>1 DEF Release, ExecTypeOK
    <3> QED
      BY <3>2 DEF ExecTypeOK
  <2>3. CASE slot[j] = "global"
    BY <1>3, <2>3 DEF Release
  <2> QED
    BY <2>2, <2>3
<1> QED
  BY <1>1, <1>2, <1>3, ExecCases
     DEF SubmitCheck, SubmitSend, SubmitUnpark, SchedulerStep, SchedulerRecv, SchedulerExit,
         DispatchGlobal, DispatchStart, DispatchDown, TaskRetry, TaskRetried, TaskDone,
         goVars, ReleaseToken, ResizeStep, ResizeBegin, Shrink, ResizeMove, ResizeEnd,
         Shutdown, CloseQueue, execVars, poolVars

\* ChannelInv is kept.
LEMMA ChannelInvStep ==
  ASSUME ExecTypeOK, ChannelInv, QueueInv, SlotInv, [ExecNext]_execVars
  PROVE  ChannelInv'
<1>0. ChannelStep
  BY ChannelSteps
<1>1. ASSUME NEW size \in Sizes, ResizeBegin(size) PROVE ChannelInv'
  <2>1. /\ size \in Nat /\ channels' = Append(channels, channel("global", size))
        /\ resize' = Len(channels') /\ size > maxWorkers
        /\ UNCHANGED <<maxWorkers, workerPool, domainPools>>
    BY <1>1, ExecutorAssumption DEF ResizeBegin
  <2>2. channels'[resize'].of = "global" /\ channels'[resize'].size = size
    BY <2>1, GrowFacts DEF Grows, channel
  <2>3. Len(channels') \notin Index
    BY <2>1, ChannelsGrow
  <2>4. channels'[workerPool'].of = "global" /\ resize' # workerPool'
    BY <1>0, <2>1, <2>3 DEF ExecTypeOK, ChannelInv, ChannelStep
  <2>5. \A d \in Domain : domainPools'[d].pool # 0 => channels'[domainPools'[d].pool].of = d
    BY <1>0, <2>1 DEF ExecTypeOK, ChannelInv, ChannelStep
  <2> QED
    BY <2>1, <2>2, <2>4, <2>5 DEF ChannelInv
<1>2. ASSUME NEW size \in Sizes, Shrink(size) PROVE ChannelInv'
  <2>1. /\ size \in Nat /\ channels' = Append(channels, channel("global", size))
        /\ workerPool' = Len(channels') /\ resize' = None
        /\ UNCHANGED domainPools
    BY <1>2, ExecutorAssumption DEF Shrink
  <2>2. channels'[workerPool'].of = "global"
    BY <2>1, GrowFacts DEF Grows, channel
  <2>3. \A d \in Domain : domainPools'[d].pool # 0 => channels'[domainPools'[d].pool].of = d
    BY <1>0, <2>1 DEF ExecTypeOK, ChannelInv, ChannelStep
  <2> QED
    BY <2>1, <2>2, <2>3 DEF ChannelInv
<1>3. ASSUME NEW d \in Domain, NEW size \in Sizes, SetDomainPoolSize(d, size)
      PROVE  ChannelInv'
  <2>1. /\ size \in Nat /\ channels' = Append(channels, channel(d, size))
        /\ domainPools' = [domainPools EXCEPT ![d].max = size, ![d].pool = Len(channels')]
        /\ UNCHANGED <<maxWorkers, workerPool, resize>>
    BY <1>3, ExecutorAssumption DEF SetDomainPoolSize
  <2>2. channels'[Len(channels')].of = d
    BY <2>1, GrowFacts DEF Grows, channel
  <2>3. \A e \in Domain : domainPools'[e].pool = IF e = d THEN Len(channels')
                                                          ELSE domainPools[e].pool
    BY <2>1 DEF ExecTypeOK
  <2>4. ASSUME NEW e \in Domain, domainPools'[e].pool # 0
        PROVE  channels'[domainPools'[e].pool].of = e
    <3>1. CASE e = d
      BY <2>2, <2>3, <3>1
    <3>2. CASE e # d
      <4>1. domainPools'[e].pool = domainPools[e].pool /\ domainPools[e].pool \in Index
        BY <2>3, <2>4, <3>2 DEF ExecTypeOK
      <4>2. channels[domainPools[e].pool].of = e
        BY <2>4, <4>1 DEF ChannelInv
      <4> QED
        BY <1>0, <4>1, <4>2 DEF ChannelStep
    <3> QED
      BY <3>1, <3>2
  <2>5. channels'[workerPool'].of = "global"
    BY <1>0, <2>1 DEF ExecTypeOK, ChannelInv, ChannelStep
  <2>6. resize' # None => /\ resize' # workerPool' /\ channels'[resize'].of = "global"
                          /\ channels'[resize'].size > maxWorkers'
    BY <1>0, <2>1 DEF ExecTypeOK, ChannelInv, ChannelStep
  <2> QED
    BY <2>4, <2>5, <2>6 DEF ChannelInv
<1>4. CASE ResizeEnd
  <2>1. UNCHANGED <<channels, domainPools>> /\ workerPool' = resize /\ resize' = None
        /\ resize # None
    BY <1>4 DEF ResizeEnd
  <2> QED
    BY <2>1 DEF ChannelInv
<1>5. ASSUME UNCHANGED <<workerPool, resize, maxWorkers>>,
             \A d \in Domain, size \in Sizes : ~SetDomainPoolSize(d, size)
      PROVE  ChannelInv'
  BY <1>0, <1>5, PoolIndexes, ChannelFrame
<1>6. \/ UNCHANGED <<workerPool, resize, maxWorkers>>
      \/ ResizeEnd \/ \E size \in Sizes : ResizeBegin(size) \/ Shrink(size)
  BY ExecCases
     DEF SubmitCheck, SubmitSend, SubmitUnpark, SchedulerStep, SchedulerRecv, SchedulerExit,
         DispatchDomain, DispatchGlobal, DispatchStart, DispatchDown, TaskRetry, TaskRetried,
         TaskDone, goVars, Release, ReleaseToken, ResizeStep, SetDomainPoolSize, ResizeMove,
         Shutdown, CloseQueue, execVars, poolVars
<1> QED
  BY <1>1, <1>2, <1>3, <1>4, <1>5, <1>6

-----------------------------------------------------------------------------
(* The queue.                                                              *)

\* QueueInv, steps that leave the queue alone.
LEMMA QueueFrame ==
  ASSUME ExecTypeOK, QueueInv, queue' = queue,
         \A j \in Job : pc[j] = "queued" => pc'[j] = "queued" \/ (Dispatching /\ j = sjob),
         \/ UNCHANGED <<spc, sjob>> /\ (Dispatching => pc'[sjob] = "queued")
         \/ sjob' = sjob /\ spc' = "wait" /\ Dispatching /\ pc'[sjob] = "queued"
         \/ spc' \in {"recv", "exit"} /\ (Dispatching \/ pc' = pc)
  PROVE  QueueInv'
<1>1. \A i \in 1 .. Len(queue) : queue[i] \in Job
  BY DEF ExecTypeOK
<1>2. ASSUME NEW i \in 1 .. Len(queue') PROVE pc'[queue'[i]] = "queued"
  <2>1. pc[queue[i]] = "queued" /\ (Dispatching => queue[i] # sjob)
    BY <1>2 DEF QueueInv
  <2> QED
    BY <1>1, <1>2, <2>1
<1>3. \A i, k \in 1 .. Len(queue') : queue'[i] = queue'[k] => i = k
  BY DEF QueueInv
<1>4. Dispatching' => /\ Dispatching /\ sjob' = sjob /\ pc'[sjob'] = "queued"
  BY DEF Dispatching
<1>5. Dispatching' => /\ sjob' \in Job /\ pc'[sjob'] = "queued"
                      /\ \A i \in 1 .. Len(queue') : queue'[i] # sjob'
  BY <1>4 DEF QueueInv
<1> QED
  BY ONLY <1>2, <1>3, <1>5 DEF QueueInv

\* QueueInv, a job enters the queue: it was not queued before.
LEMMA QueueSend ==
  ASSUME ExecTypeOK, QueueInv, NEW j \in Job, pc[j] # "queued",
         queue' = Append(queue, j), pc' = [pc EXCEPT ![j] = "queued"],
         UNCHANGED schedulerVars
  PROVE  QueueInv'
<1>1. /\ queue \in Seq(Job) /\ Len(queue) \in Nat /\ Len(queue') = Len(queue) + 1
      /\ \A i \in 1 .. Len(queue) : queue'[i] = queue[i] /\ queue[i] \in Job
      /\ queue'[Len(queue) + 1] = j
  BY DEF ExecTypeOK
<1>2. \A i \in 1 .. Len(queue') : i \in 1 .. Len(queue) \/ i = Len(queue) + 1
  BY <1>1
<1>3. \A i \in 1 .. Len(queue) : queue[i] # j /\ pc[queue[i]] = "queued"
  BY DEF QueueInv
<1>4. \A i \in 1 .. Len(queue') : pc'[queue'[i]] = "queued"
  BY <1>1, <1>2, <1>3 DEF ExecTypeOK
<1>5. \A i, k \in 1 .. Len(queue') : queue'[i] = queue'[k] => i = k
  BY <1>1, <1>2, <1>3 DEF QueueInv
<1>6. Dispatching' => /\ sjob' \in Job /\ pc'[sjob'] = "queued"
                      /\ \A i \in 1 .. Len(queue') : queue'[i] # sjob'
  BY <1>1, <1>2, <1>3 DEF QueueInv, Dispatching, schedulerVars, ExecTypeOK
<1> QED
  BY <1>4, <1>5, <1>6 DEF QueueInv

\* QueueInv, the scheduler takes the head.
LEMMA QueueRecv ==
  ASSUME ExecTypeOK, QueueInv, SchedulerRecv
  PROVE  QueueInv'
<1>1. /\ queue \in Seq(Job) /\ queue # <<>> /\ queue' = Tail(queue)
      /\ sjob' = Head(queue) /\ pc' = pc
  BY DEF SchedulerRecv, ExecTypeOK, jobVars
<1>2. /\ Len(queue') = Len(queue) - 1 /\ Len(queue) \in Nat /\ 1 \in 1 .. Len(queue)
      /\ sjob' = queue[1] /\ sjob' \in Job
      /\ \A i \in 1 .. Len(queue') : i + 1 \in 1 .. Len(queue) /\ queue'[i] = queue[i + 1]
  BY <1>1
<1>3. \A i \in 1 .. Len(queue') : pc'[queue'[i]] = "queued" /\ queue'[i] # sjob'
  BY <1>1, <1>2 DEF QueueInv
<1>4. \A i, k \in 1 .. Len(queue') : queue'[i] = queue'[k] => i = k
  BY <1>2 DEF QueueInv
<1> QED
  BY <1>1, <1>2, <1>3, <1>4 DEF QueueInv

\* QueueInv is kept.
LEMMA QueueInvStep ==
  ASSUME ExecTypeOK, QueueInv, [ExecNext]_execVars
  PROVE  QueueInv'
<1>1. ASSUME NEW j \in Job, SubmitCheck(j) \/ SubmitSend(j) \/ SubmitUnpark(j) PROVE QueueInv'
  <2>1. CASE queue' = Append(queue, j)
    BY <1>1, <2>1, QueueSend DEF SubmitCheck, SubmitSend, SubmitUnpark, ExecTypeOK
  <2>2. CASE queue' = queue
    <3>1. pc[j] # "queued" /\ \A k \in Job : k # j => pc'[k] = pc[k]
      BY <1>1 DEF SubmitCheck, SubmitSend, SubmitUnpark, ExecTypeOK
    <3>2. UNCHANGED <<spc, sjob>> /\ (Dispatching => pc'[sjob] = "queued")
      BY <1>1, <3>1 DEF SubmitCheck, SubmitSend, SubmitUnpark, schedulerVars, QueueInv
    <3> QED
      BY <2>2, <3>1, <3>2, QueueFrame
  <2> QED
    BY <1>1, <2>1, <2>2 DEF SubmitCheck, SubmitSend, SubmitUnpark
<1>2. CASE SchedulerStep
  <2>1. CASE SchedulerRecv
    BY <2>1, QueueRecv
  <2>2. CASE SchedulerExit
    BY <2>2, QueueFrame DEF SchedulerExit, jobVars
  <2>3. CASE DispatchDomain \/ DispatchStart \/ DispatchDown
    <3>1. /\ queue' = queue /\ Dispatching /\ spc' = "recv"
          /\ \A k \in Job : k # sjob => pc'[k] = pc[k]
      BY <2>3 DEF DispatchDomain, DispatchStart, DispatchDown, start, Dispatching, ExecTypeOK
    <3> QED
      BY <3>1, QueueFrame
  <2>4. CASE DispatchGlobal
    <3>1. Dispatching /\ pc[sjob] = "queued" /\ sjob' = sjob /\ spc' = "wait" /\ pc' = pc
          /\ queue' = queue
      BY <2>4 DEF DispatchGlobal, Dispatching, QueueInv
    <3> QED
      BY <3>1, QueueFrame
  <2> QED
    BY <1>2, <2>1, <2>2, <2>3, <2>4 DEF SchedulerStep
<1>3. ASSUME NEW j \in Job, \/ TaskRetry(j) \/ TaskRetried(j) \/ TaskDone(j)
                            \/ Release(j) \/ ReleaseToken(j)
      PROVE  QueueInv'
  <2>1. /\ pc[j] # "queued" /\ \A k \in Job : k # j => pc'[k] = pc[k]
        /\ queue' = queue
        /\ UNCHANGED <<spc, sjob>>
    BY <1>3 DEF TaskRetry, TaskRetried, TaskDone, goVars, schedulerVars, Release,
       ReleaseToken, ExecTypeOK
  <2>2. Dispatching => pc'[sjob] = "queued"
    BY <2>1 DEF QueueInv
  <2> QED
    BY <2>1, <2>2, QueueFrame
<1>4. CASE ResizeStep \/ ResizeMove \/ ResizeEnd \/ CloseQueue \/ UNCHANGED execVars
  <2>1. UNCHANGED <<queue, pc, spc, sjob>>
    BY <1>4 DEF ResizeStep, ResizeMove, ResizeEnd, ResizeBegin, Shrink, SetDomainPoolSize,
       quietVars, CloseQueue, execVars, schedulerVars, jobVars
  <2> QED
    BY <2>1 DEF QueueInv, Dispatching
<1>5. CASE Shutdown
  <2>1. /\ UNCHANGED <<queue, spc, sjob>>
        /\ \A k \in Job : pc[k] = "queued" => pc'[k] = "queued"
    BY <1>5 DEF Shutdown, schedulerVars
  <2>2. Dispatching => pc'[sjob] = "queued"
    BY <2>1 DEF QueueInv
  <2> QED
    BY <2>1, <2>2, QueueFrame
<1> QED
  BY <1>1, <1>2, <1>3, <1>4, <1>5, ExecCases

-----------------------------------------------------------------------------
(* Slots.                                                                  *)

\* Where a job holds a slot.
Held == {"run", "retry", "release", "drain"}

\* SlotInv of one job...
SlotOK(j) ==
  /\ slot[j] # None <=> pc[j] \in Held
  /\ slot[j] \in Domain => domainPools[slot[j]].pool # 0
  /\ pc[j] = "drain" => waits[j] \in Index /\ channels[waits[j]].of = slot[j]

\* ...and of the scheduler.
WaitOK == spc = "wait" => waits[sjob] \in Index /\ channels[waits[sjob]].of = "global"

\* Domains with a pool have one after the step.
PoolsStay == \A d \in Domain : domainPools[d].pool # 0 => domainPools'[d].pool # 0

\* The parts are SlotInv.
LEMMA SlotParts == SlotInv <=> WaitOK /\ \A j \in Job : SlotOK(j)
BY DEF SlotInv, SlotOK, WaitOK, Held

\* The same after a step.
LEMMA SlotPartsNext == SlotInv' <=> WaitOK' /\ \A j \in Job : SlotOK(j)'
BY DEF SlotInv, SlotOK, WaitOK, Held

\* A domain that has a pool keeps having one.
LEMMA PoolsStaySteps ==
  ASSUME ExecTypeOK, QueueInv, SlotInv, [ExecNext]_execVars
  PROVE  PoolsStay
<1>1. ASSUME NEW d \in Domain, NEW size \in Sizes, SetDomainPoolSize(d, size)
      PROVE  PoolsStay
  <2>1. /\ size \in Nat /\ channels' = Append(channels, channel(d, size))
        /\ domainPools' = [domainPools EXCEPT ![d].max = size, ![d].pool = Len(channels')]
    BY <1>1, ExecutorAssumption DEF SetDomainPoolSize
  <2>2. Len(channels') # 0
    BY <2>1 DEF ExecTypeOK
  <2>3. \A e \in Domain : domainPools'[e].pool = IF e = d THEN Len(channels')
                                                          ELSE domainPools[e].pool
    BY <2>1 DEF ExecTypeOK
  <2> QED
    BY <2>2, <2>3 DEF PoolsStay
<1>2. CASE \A d \in Domain, size \in Sizes : ~SetDomainPoolSize(d, size)
  BY <1>2, PoolIndexes DEF PoolsStay
<1> QED
  BY <1>1, <1>2

\* SlotOK of a job whose slot and channel a step leaves alone.
LEMMA SlotFrame ==
  ASSUME ExecTypeOK, SlotInv, ChannelStep, PoolsStay, NEW j \in Job,
         slot'[j] = slot[j], waits'[j] = waits[j],
         pc'[j] \in Held <=> pc[j] \in Held,
         pc'[j] = "drain" => pc[j] = "drain"
  PROVE  SlotOK(j)'
<1>1. SlotOK(j)
  BY SlotParts
<1>2. slot'[j] # None <=> pc'[j] \in Held
  BY <1>1 DEF SlotOK
<1>3. slot'[j] \in Domain => domainPools'[slot'[j]].pool # 0
  BY <1>1 DEF SlotOK, PoolsStay
<1>4. pc'[j] = "drain" => waits'[j] \in Index' /\ channels'[waits'[j]].of = slot'[j]
  BY <1>1 DEF SlotOK, ChannelStep
<1> QED
  BY <1>2, <1>3, <1>4 DEF SlotOK

\* WaitOK, steps after which the scheduler waits as before or not at all.
LEMMA WaitFrame ==
  ASSUME ExecTypeOK, SlotInv, ChannelStep,
         spc' = "wait" => spc = "wait" /\ sjob' = sjob /\ waits'[sjob] = waits[sjob]
  PROVE  WaitOK'
<1>1. WaitOK
  BY SlotParts
<1> QED
  BY <1>1 DEF WaitOK, ChannelStep

\* SlotInv: the steps of SubmitTask.
LEMMA SlotSubmit ==
  ASSUME ExecTypeOK, SlotInv, ChannelStep, PoolsStay, NEW j \in Job,
         SubmitCheck(j) \/ SubmitSend(j) \/ SubmitUnpark(j)
  PROVE  SlotInv'
<1>1. UNCHANGED <<slot, waits, spc, sjob>>
  BY DEF SubmitCheck, SubmitSend, SubmitUnpark, schedulerVars
<1>2. /\ pc[j] \notin Held /\ pc'[j] \notin Held
      /\ \A k \in Job : k # j => pc'[k] = pc[k]
  BY DEF SubmitCheck, SubmitSend, SubmitUnpark, ExecTypeOK, Held
<1>3. ASSUME NEW k \in Job PROVE SlotOK(k)'
  BY <1>1, <1>2, SlotFrame DEF Held
<1>4. WaitOK'
  BY <1>1, WaitFrame
<1> QED
  BY <1>3, <1>4, SlotPartsNext

\* SlotInv: the steps of the scheduler.
LEMMA SlotScheduler ==
  ASSUME ExecTypeOK, ChannelInv, QueueInv, SlotInv, ChannelStep, PoolsStay, SchedulerStep
  PROVE  SlotInv'
<1>1. CASE SchedulerRecv \/ SchedulerExit
  <2>1. UNCHANGED <<slot, waits, pc>> /\ spc' # "wait"
    BY <1>1 DEF SchedulerRecv, SchedulerExit, jobVars
  <2>2. ASSUME NEW k \in Job PROVE SlotOK(k)'
    BY <2>1, SlotFrame
  <2> QED
    BY <2>1, <2>2, SlotPartsNext DEF WaitOK
<1>2. CASE DispatchDomain
  <2>0. /\ sjob \in Job /\ pc[sjob] = "queued" /\ DomainOf[sjob[1]] \in Domain
        /\ domainPools[DomainOf[sjob[1]]].pool # 0
    BY <1>2, DispatchedFacts DEF DispatchDomain, Dispatching, DomainHasRoom
  <2>1. /\ UNCHANGED waits /\ spc' # "wait" /\ pc'[sjob] = "run"
        /\ slot'[sjob] = DomainOf[sjob[1]]
        /\ \A k \in Job : k # sjob => pc'[k] = pc[k] /\ slot'[k] = slot[k]
    BY <1>2, <2>0 DEF DispatchDomain, start, ExecTypeOK
  <2>2. ASSUME NEW k \in Job PROVE SlotOK(k)'
    <3>1. CASE k = sjob
      BY <2>0, <2>1, <3>1, ExecutorAssumption DEF SlotOK, PoolsStay, Held
    <3>2. CASE k # sjob
      BY <2>1, <3>2, SlotFrame
    <3> QED
      BY <3>1, <3>2
  <2> QED
    BY <2>1, <2>2, SlotPartsNext DEF WaitOK
<1>3. CASE DispatchStart
  <2>0. sjob \in Job /\ pc[sjob] = "queued"
    BY <1>3, DispatchedFacts DEF DispatchStart, Dispatching
  <2>1. /\ UNCHANGED waits /\ spc' # "wait" /\ pc'[sjob] = "run"
        /\ slot'[sjob] = "global"
        /\ \A k \in Job : k # sjob => pc'[k] = pc[k] /\ slot'[k] = slot[k]
    BY <1>3, <2>0 DEF DispatchStart, start, ExecTypeOK
  <2>2. ASSUME NEW k \in Job PROVE SlotOK(k)'
    <3>1. CASE k = sjob
      BY <2>0, <2>1, <3>1, ExecutorAssumption DEF SlotOK, Held
    <3>2. CASE k # sjob
      BY <2>1, <3>2, SlotFrame
    <3> QED
      BY <3>1, <3>2
  <2> QED
    BY <2>1, <2>2, SlotPartsNext DEF WaitOK
<1>4. CASE DispatchGlobal
  <2>0. sjob \in Job /\ pc[sjob] = "queued"
    BY <1>4, DispatchedFacts DEF DispatchGlobal, Dispatching
  <2>1. /\ UNCHANGED <<slot, pc, channels, sjob>> /\ waits'[sjob] = workerPool
        /\ \A k \in Job : k # sjob => waits'[k] = waits[k]
    BY <1>4, <2>0 DEF DispatchGlobal, ExecTypeOK, poolVars
  <2>2. ASSUME NEW k \in Job PROVE SlotOK(k)'
    <3>1. CASE k = sjob
      <4>1. SlotOK(k)
        BY SlotParts
      <4> QED
        BY <2>0, <2>1, <3>1, <4>1 DEF SlotOK, PoolsStay, Held
    <3>2. CASE k # sjob
      BY <2>1, <3>2, SlotFrame
    <3> QED
      BY <3>1, <3>2
  <2>3. WaitOK'
    BY <2>1 DEF WaitOK, ChannelInv, ExecTypeOK, Index
  <2> QED
    BY <2>2, <2>3, SlotPartsNext
<1>5. CASE DispatchDown
  <2>0. sjob \in Job /\ pc[sjob] = "queued"
    BY <1>5, DispatchedFacts DEF DispatchDown, Dispatching
  <2>1. /\ UNCHANGED <<waits, slot>> /\ spc' # "wait" /\ pc'[sjob] = "over"
        /\ \A k \in Job : k # sjob => pc'[k] = pc[k]
    BY <1>5, <2>0 DEF DispatchDown, ExecTypeOK
  <2>2. ASSUME NEW k \in Job PROVE SlotOK(k)'
    BY <2>0, <2>1, SlotFrame DEF Held
  <2> QED
    BY <2>1, <2>2, SlotPartsNext DEF WaitOK
<1> QED
  BY <1>1, <1>2, <1>3, <1>4, <1>5 DEF SchedulerStep

\* SlotInv: the steps of a task's goroutine.
LEMMA SlotTask ==
  ASSUME ExecTypeOK, ChannelInv, QueueInv, SlotInv, ChannelStep, PoolsStay, NEW j \in Job,
         TaskRetry(j) \/ TaskRetried(j) \/ TaskDone(j) \/ Release(j) \/ ReleaseToken(j)
  PROVE  SlotInv'
<1>1. spc = "wait" => sjob # j
  BY DEF QueueInv, Dispatching, TaskRetry, TaskRetried, TaskDone, Release, ReleaseToken
<1>2. CASE TaskRetry(j) \/ TaskRetried(j) \/ TaskDone(j)
  <2>1. UNCHANGED <<slot, waits, spc, sjob>>
    BY <1>2 DEF TaskRetry, TaskRetried, TaskDone, goVars, schedulerVars
  <2>2. /\ pc[j] \in Held /\ pc'[j] \in Held /\ pc'[j] # "drain"
        /\ \A k \in Job : k # j => pc'[k] = pc[k]
    BY <1>2 DEF TaskRetry, TaskRetried, TaskDone, ExecTypeOK, Held
  <2>3. ASSUME NEW k \in Job PROVE SlotOK(k)'
    BY <2>1, <2>2, SlotFrame
  <2>4. WaitOK'
    BY <2>1, WaitFrame
  <2> QED
    BY <2>3, <2>4, SlotPartsNext
<1>3. CASE Release(j)
  <2>1. /\ UNCHANGED <<slot, spc, sjob, channels>> /\ pc[j] = "release" /\ pc'[j] = "drain"
        /\ \A k \in Job : k # j => pc'[k] = pc[k] /\ waits'[k] = waits[k]
        /\ waits'[j] = IF slot[j] = "global" THEN workerPool ELSE domainPools[slot[j]].pool
    BY <1>3 DEF Release, ExecTypeOK, schedulerVars
  <2>2. SlotOK(j)
    BY SlotParts
  <2>3. waits'[j] \in Index /\ channels[waits'[j]].of = slot[j]
    <3>1. CASE slot[j] = "global"
      BY <2>1, <3>1 DEF ChannelInv, ExecTypeOK
    <3>2. CASE slot[j] # "global"
      <4>1. slot[j] \in Domain /\ domainPools[slot[j]].pool # 0
        BY <2>1, <2>2, <3>2 DEF SlotOK, Held, ExecTypeOK
      <4>2. domainPools[slot[j]].pool \in Index
        BY <4>1 DEF ExecTypeOK
      <4>3. waits'[j] = domainPools[slot[j]].pool
        BY <2>1, <3>2
      <4> QED
        BY <4>1, <4>2, <4>3 DEF ChannelInv
    <3> QED
      BY <3>1, <3>2
  <2>4. SlotOK(j)'
    BY <2>1, <2>2, <2>3 DEF SlotOK, Held, PoolsStay, Index
  <2>5. ASSUME NEW k \in Job, k # j PROVE SlotOK(k)'
    BY <2>1, <2>5, SlotFrame
  <2>6. WaitOK'
    <3>1. spc = "wait" => sjob \in Job
      BY DEF QueueInv, Dispatching
    <3> QED
      BY <1>1, <2>1, <3>1, WaitFrame
  <2> QED
    BY <2>4, <2>5, <2>6, SlotPartsNext
<1>4. CASE ReleaseToken(j)
  <2>1. /\ UNCHANGED <<waits, spc, sjob>> /\ pc'[j] = "over" /\ slot'[j] = None
        /\ \A k \in Job : k # j => pc'[k] = pc[k] /\ slot'[k] = slot[k]
    BY <1>4 DEF ReleaseToken, ExecTypeOK, schedulerVars
  <2>2. SlotOK(j)'
    BY <2>1, ExecutorAssumption DEF SlotOK, Held
  <2>3. ASSUME NEW k \in Job, k # j PROVE SlotOK(k)'
    BY <2>1, <2>3, SlotFrame
  <2>4. WaitOK'
    BY <2>1, WaitFrame
  <2> QED
    BY <2>2, <2>3, <2>4, SlotPartsNext
<1> QED
  BY <1>2, <1>3, <1>4

\* SlotInv is kept.
LEMMA SlotInvStep ==
  ASSUME ExecTypeOK, ChannelInv, QueueInv, SlotInv, [ExecNext]_execVars
  PROVE  SlotInv'
<1>1. ChannelStep /\ PoolsStay
  BY ChannelSteps, PoolsStaySteps
<1>2. CASE ResizeStep \/ ResizeMove \/ ResizeEnd \/ CloseQueue \/ UNCHANGED execVars
  <2>1. UNCHANGED <<pc, spc, sjob, slot, waits>>
    BY <1>2 DEF ResizeStep, ResizeMove, ResizeEnd, ResizeBegin, Shrink, SetDomainPoolSize,
       quietVars, CloseQueue, execVars, schedulerVars, jobVars
  <2>2. ASSUME NEW k \in Job PROVE SlotOK(k)'
    BY <1>1, <2>1, SlotFrame
  <2>3. WaitOK'
    BY <1>1, <2>1, WaitFrame
  <2> QED
    BY <2>2, <2>3, SlotPartsNext
<1>3. CASE Shutdown
  <2>1. /\ UNCHANGED <<spc, sjob, slot, waits>>
        /\ \A k \in Job : pc'[k] = IF pc[k] = "parked" THEN "refused" ELSE pc[k]
    BY <1>3 DEF Shutdown, schedulerVars
  <2>2. ASSUME NEW k \in Job PROVE SlotOK(k)'
    BY <1>1, <2>1, SlotFrame DEF Held
  <2>3. WaitOK'
    BY <1>1, <2>1, WaitFrame
  <2> QED
    BY <2>2, <2>3, SlotPartsNext
<1> QED
  BY <1>1, <1>2, <1>3, SlotSubmit, SlotScheduler, SlotTask, ExecCases

-----------------------------------------------------------------------------
(* The counters of the domains' pools.                                     *)

\* Job j is one that current of d counts.
Occupies(j, d) == slot[j] = d /\ pc[j] \in {"run", "retry", "release"}

\* CurrentInv of one domain.
CurrentOK(d) ==
  /\ IsFiniteSet(Occupying(d))
  /\ domainPools[d].current = Cardinality(Occupying(d))

\* CurrentOK of a domain whose occupants a step leaves alone.
LEMMA CurrentFrame ==
  ASSUME CurrentInv, NEW d \in Domain, domainPools'[d].current = domainPools[d].current,
         \A j \in Job : Occupies(j, d)' <=> Occupies(j, d)
  PROVE  CurrentOK(d)'
<1>1. Occupying(d)' = Occupying(d)
  BY DEF Occupying, Occupies
<1> QED
  BY <1>1 DEF CurrentInv, CurrentOK

\* The same of all domains.
LEMMA CurrentSame ==
  ASSUME CurrentInv, \A d \in Domain : domainPools'[d].current = domainPools[d].current,
         \A d \in Domain, j \in Job : Occupies(j, d)' <=> Occupies(j, d)
  PROVE  CurrentInv'
<1>1. ASSUME NEW d \in Domain PROVE CurrentOK(d)'
  BY CurrentFrame
<1> QED
  BY <1>1 DEF CurrentInv, CurrentOK

\* CurrentInv, the scheduler gives a slot of a domain.
LEMMA CurrentDomain ==
  ASSUME ExecTypeOK, QueueInv, SlotInv, CurrentInv, DispatchDomain
  PROVE  CurrentInv'
<1>1. PICK e \in Domain : e = DomainOf[sjob[1]]
  BY DispatchedFacts DEF DispatchDomain, Dispatching
<1>2. sjob \in Job /\ pc[sjob] = "queued"
  BY DispatchedFacts DEF DispatchDomain, Dispatching
<1>3. /\ domainPools' = [domainPools EXCEPT ![e].current = domainPools[e].current + 1]
      /\ pc' = [pc EXCEPT ![sjob] = "run"] /\ slot' = [slot EXCEPT ![sjob] = e]
  BY <1>1 DEF DispatchDomain, start, ExecTypeOK
<1>4. ASSUME NEW d \in Domain, d # e PROVE CurrentOK(d)'
  <2>1. domainPools'[d].current = domainPools[d].current
    BY <1>3, <1>4 DEF ExecTypeOK
  <2>2. \A j \in Job : Occupies(j, d)' <=> Occupies(j, d)
    BY <1>2, <1>3, <1>4 DEF Occupies, ExecTypeOK
  <2> QED
    BY <2>1, <2>2, CurrentFrame
<1>5. CurrentOK(e)'
  <2>1. domainPools'[e].current = domainPools[e].current + 1
    BY <1>3 DEF ExecTypeOK
  <2>2. Occupying(e)' = Occupying(e) \cup {sjob} /\ sjob \notin Occupying(e)
    BY <1>2, <1>3 DEF Occupying, ExecTypeOK
  <2>3. IsFiniteSet(Occupying(e)) /\ domainPools[e].current = Cardinality(Occupying(e))
    BY DEF CurrentInv
  <2> QED
    BY <2>1, <2>2, <2>3, FS_AddElement DEF CurrentOK
<1> QED
  BY <1>4, <1>5 DEF CurrentInv, CurrentOK

\* CurrentInv, the deferred release.
LEMMA CurrentRelease ==
  ASSUME ExecTypeOK, SlotInv, CurrentInv, NEW j \in Job, Release(j)
  PROVE  CurrentInv'
<1>1. /\ pc[j] = "release" /\ pc' = [pc EXCEPT ![j] = "drain"] /\ slot' = slot
      /\ slot[j] \in Domain \cup {"global"}
  BY DEF Release, SlotInv, ExecTypeOK
<1>2. CASE slot[j] = "global"
  <2>1. domainPools' = domainPools
    BY <1>2 DEF Release
  <2>2. \A d \in Domain, k \in Job : Occupies(k, d)' <=> Occupies(k, d)
    BY <1>1, <1>2, ExecutorAssumption DEF Occupies, ExecTypeOK
  <2> QED
    BY <2>1, <2>2, CurrentSame
<1>3. CASE slot[j] # "global"
  <2>1. PICK e \in Domain : e = slot[j]
    BY <1>1, <1>3
  <2>2. domainPools' = [domainPools EXCEPT ![e].current = domainPools[e].current - 1]
    BY <1>3, <2>1 DEF Release, ExecTypeOK
  <2>3. ASSUME NEW d \in Domain, d # e PROVE CurrentOK(d)'
    <3>1. domainPools'[d].current = domainPools[d].current
      BY <2>2, <2>3 DEF ExecTypeOK
    <3>2. \A k \in Job : Occupies(k, d)' <=> Occupies(k, d)
      BY <1>1, <2>1, <2>3 DEF Occupies, ExecTypeOK
    <3> QED
      BY <3>1, <3>2, CurrentFrame
  <2>4. CurrentOK(e)'
    <3>1. domainPools'[e].current = domainPools[e].current - 1
      BY <2>2 DEF ExecTypeOK
    <3>2. Occupying(e)' = Occupying(e) \ {j} /\ j \in Occupying(e)
      BY <1>1, <2>1 DEF Occupying, ExecTypeOK
    <3>3. IsFiniteSet(Occupying(e)) /\ domainPools[e].current = Cardinality(Occupying(e))
      BY DEF CurrentInv
    <3> QED
      BY <3>1, <3>2, <3>3, FS_RemoveElement DEF CurrentOK
  <2> QED
    BY <2>3, <2>4 DEF CurrentInv, CurrentOK
<1> QED
  BY <1>2, <1>3

\* CurrentInv is kept.
LEMMA CurrentInvStep ==
  ASSUME ExecTypeOK, QueueInv, SlotInv, CurrentInv, [ExecNext]_execVars
  PROVE  CurrentInv'
<1>1. ASSUME NEW j \in Job, SubmitCheck(j) \/ SubmitSend(j) \/ SubmitUnpark(j)
      PROVE  CurrentInv'
  <2>1. UNCHANGED <<domainPools, slot>>
    BY <1>1 DEF SubmitCheck, SubmitSend, SubmitUnpark, poolVars
  <2>2. /\ pc[j] \notin Held /\ pc'[j] \notin Held
        /\ \A k \in Job : k # j => pc'[k] = pc[k]
    BY <1>1 DEF SubmitCheck, SubmitSend, SubmitUnpark, ExecTypeOK, Held
  <2>3. \A d \in Domain, k \in Job : Occupies(k, d)' <=> Occupies(k, d)
    BY <2>1, <2>2 DEF Occupies, Held
  <2> QED
    BY <2>1, <2>3, CurrentSame
<1>2. CASE SchedulerRecv \/ SchedulerExit \/ DispatchGlobal
  <2>1. UNCHANGED <<domainPools, slot, pc>>
    BY <1>2 DEF SchedulerRecv, SchedulerExit, DispatchGlobal, poolVars, jobVars
  <2> QED
    BY <2>1, CurrentSame DEF Occupies
<1>3. CASE DispatchStart \/ DispatchDown
  <2>1. sjob \in Job /\ pc[sjob] = "queued" /\ slot[sjob] = None
    BY <1>3, DispatchedFacts DEF DispatchStart, DispatchDown, Dispatching, SlotInv
  <2>2. /\ UNCHANGED domainPools
        /\ \A k \in Job : k # sjob => pc'[k] = pc[k] /\ slot'[k] = slot[k]
        /\ slot'[sjob] \in {"global", None}
    BY <1>3, <2>1 DEF DispatchStart, DispatchDown, start, poolVars, ExecTypeOK
  <2>3. \A d \in Domain, k \in Job : Occupies(k, d)' <=> Occupies(k, d)
    BY <2>1, <2>2, ExecutorAssumption DEF Occupies
  <2> QED
    BY <2>2, <2>3, CurrentSame
<1>4. ASSUME NEW j \in Job, TaskRetry(j) \/ TaskRetried(j) \/ TaskDone(j) \/ ReleaseToken(j)
      PROVE  CurrentInv'
  <2>1. CASE ~ReleaseToken(j)
    <3>1. /\ UNCHANGED <<domainPools, slot>>
          /\ pc[j] \in {"run", "retry"} /\ pc'[j] \in {"retry", "release"}
          /\ \A k \in Job : k # j => pc'[k] = pc[k]
      BY <1>4, <2>1 DEF TaskRetry, TaskRetried, TaskDone, goVars, poolVars, ExecTypeOK
    <3>2. \A d \in Domain, k \in Job : Occupies(k, d)' <=> Occupies(k, d)
      BY <3>1 DEF Occupies
    <3> QED
      BY <3>1, <3>2, CurrentSame
  <2>2. CASE ReleaseToken(j)
    <3>1. /\ UNCHANGED domainPools /\ pc[j] = "drain" /\ pc'[j] = "over"
          /\ \A k \in Job : k # j => pc'[k] = pc[k] /\ slot'[k] = slot[k]
      BY <2>2 DEF ReleaseToken, ExecTypeOK
    <3>2. \A d \in Domain, k \in Job : Occupies(k, d)' <=> Occupies(k, d)
      BY <3>1 DEF Occupies
    <3> QED
      BY <3>1, <3>2, CurrentSame
  <2> QED
    BY <2>1, <2>2
<1>5. CASE ResizeStep \/ ResizeMove \/ ResizeEnd \/ CloseQueue \/ UNCHANGED execVars
  <2>1. UNCHANGED <<pc, slot>>
    BY <1>5 DEF ResizeStep, ResizeMove, ResizeEnd, ResizeBegin, Shrink, SetDomainPoolSize,
       quietVars, CloseQueue, execVars, jobVars
  <2>2. \A d \in Domain : domainPools'[d].current = domainPools[d].current
    <3>1. ASSUME NEW d \in Domain, NEW size \in Sizes, SetDomainPoolSize(d, size)
          PROVE  \A e \in Domain : domainPools'[e].current = domainPools[e].current
      <4>1. domainPools' = [domainPools EXCEPT ![d].max = size, ![d].pool = Len(channels')]
        BY <3>1 DEF SetDomainPoolSize
      <4> QED
        BY <4>1 DEF ExecTypeOK
    <3>2. CASE \A d \in Domain, size \in Sizes : ~SetDomainPoolSize(d, size)
      BY <1>5, <3>2 DEF ResizeStep, ResizeMove, ResizeEnd, ResizeBegin, Shrink, CloseQueue,
         execVars, poolVars
    <3> QED
      BY <3>1, <3>2
  <2> QED
    BY <2>1, <2>2, CurrentSame DEF Occupies
<1>6. CASE Shutdown
  <2>1. /\ UNCHANGED <<domainPools, slot>>
        /\ \A k \in Job : pc'[k] = IF pc[k] = "parked" THEN "refused" ELSE pc[k]
    BY <1>6 DEF Shutdown, poolVars
  <2>2. \A d \in Domain, k \in Job : Occupies(k, d)' <=> Occupies(k, d)
    BY <2>1 DEF Occupies
  <2> QED
    BY <2>1, <2>2, CurrentSame
<1> QED
  BY <1>1, <1>2, <1>3, <1>4, <1>5, <1>6, CurrentDomain, CurrentRelease, ExecCases
     DEF SchedulerStep

-----------------------------------------------------------------------------
(* Tokens.                                                                 *)

\* The pools of the executor.
AllPools == Domain \cup {"global"}

\* Finitely many jobs hold slots.
HoldingOK == \A pool \in AllPools : IsFiniteSet(Holding(pool))

\* TokensInv of one channel.
CountOK(i) == Alone(i) => channels[i].tokens = Cardinality(Holding(channels[i].of))

\* The parts are TokensInv.
LEMMA TokensParts == TokensInv <=> HoldingOK /\ \A i \in Index : CountOK(i)
BY DEF TokensInv, HoldingOK, CountOK, AllPools

\* The same after a step.
LEMMA TokensPartsNext == TokensInv' <=> HoldingOK' /\ \A i \in Index' : CountOK(i)'
BY DEF TokensInv, HoldingOK, CountOK, AllPools

\* Every channel is of some pool.
LEMMA PoolOfChannel ==
  ASSUME ExecTypeOK, NEW i \in Index
  PROVE  channels[i].of \in AllPools
BY ChannelFacts DEF Channel, AllPools

\* TokensInv, a job gets a slot and its pool's channel a token.
LEMMA TokensGain ==
  ASSUME ExecTypeOK, TokensInv, NEW i \in Index, Gains(i), NEW j \in Job, slot[j] = None,
         slot' = [slot EXCEPT ![j] = channels[i].of]
  PROVE  TokensInv'
<1>1. PICK p \in AllPools : p = channels[i].of
  BY PoolOfChannel
<1>2. Holding(p)' = Holding(p) \cup {j} /\ j \notin Holding(p) /\ IsFiniteSet(Holding(p))
  <2>1. Holding(p)' = Holding(p) \cup {j}
    BY <1>1 DEF Holding, ExecTypeOK
  <2>2. j \notin Holding(p)
    BY ExecutorAssumption DEF Holding, AllPools
  <2>3. IsFiniteSet(Holding(p))
    BY TokensParts DEF HoldingOK
  <2> QED
    BY <2>1, <2>2, <2>3
<1>3. \A q \in AllPools \ {p} : Holding(q)' = Holding(q)
  BY <1>1, ExecutorAssumption DEF Holding, AllPools, ExecTypeOK
<1>4. IsFiniteSet(Holding(p)') /\ Cardinality(Holding(p)') = Cardinality(Holding(p)) + 1
  BY <1>2, FS_AddElement
<1>5. HoldingOK'
  BY <1>3, <1>4, TokensParts DEF HoldingOK, AllPools
<1>6. Index' = Index
  BY DEF Gains, Index
<1>7. ASSUME NEW k \in Index PROVE CountOK(k)'
  <2>1. Alone(k)' => Alone(k)
    BY <1>6 DEF Alone, Gains
  <2>2. CountOK(k) /\ channels'[k].of = channels[k].of
    BY TokensParts DEF Gains
  <2>3. CASE k = i
    <3>1. channels'[i].tokens = channels[i].tokens + 1
      BY DEF Gains
    <3>2. Alone(i) => channels[i].tokens = Cardinality(Holding(p))
      BY <1>1, <2>2, <2>3 DEF CountOK
    <3>3. Alone(i)' => channels'[i].tokens = Cardinality(Holding(p)')
      BY <1>4, <2>1, <2>3, <3>1, <3>2
    <3> QED
      BY <1>1, <2>2, <2>3, <3>3 DEF CountOK
  <2>4. CASE k # i
    <3>1. channels'[k].tokens = channels[k].tokens
      BY <2>4, ChannelFacts DEF Gains
    <3>2. Alone(k) => channels[k].of \in AllPools \ {p}
      BY <1>1, <2>4, PoolOfChannel DEF Alone
    <3>3. Alone(k)' => channels'[k].tokens = Cardinality(Holding(channels[k].of)')
      BY <1>3, <2>1, <2>2, <3>1, <3>2 DEF CountOK
    <3> QED
      BY <2>2, <3>3 DEF CountOK
  <2> QED
    BY <2>3, <2>4
<1> QED
  BY <1>5, <1>6, <1>7, TokensPartsNext

\* TokensInv, a job gives its slot back.
LEMMA TokensLose ==
  ASSUME ExecTypeOK, TokensInv, NEW i \in Index, Loses(i), NEW j \in Job,
         slot[j] = channels[i].of, slot' = [slot EXCEPT ![j] = None]
  PROVE  TokensInv'
<1>1. PICK p \in AllPools : p = channels[i].of
  BY PoolOfChannel
<1>2. Holding(p)' = Holding(p) \ {j} /\ j \in Holding(p) /\ IsFiniteSet(Holding(p))
  BY <1>1, ExecutorAssumption, TokensParts DEF Holding, HoldingOK, AllPools, ExecTypeOK
<1>3. \A q \in AllPools \ {p} : Holding(q)' = Holding(q)
  BY <1>1, ExecutorAssumption DEF Holding, AllPools, ExecTypeOK
<1>4. IsFiniteSet(Holding(p)') /\ Cardinality(Holding(p)') = Cardinality(Holding(p)) - 1
  BY <1>2, FS_RemoveElement
<1>5. HoldingOK'
  BY <1>3, <1>4, TokensParts DEF HoldingOK, AllPools
<1>6. Index' = Index
  BY DEF Loses, Index
<1>7. ASSUME NEW k \in Index PROVE CountOK(k)'
  <2>1. Alone(k)' => Alone(k)
    BY <1>6 DEF Alone, Loses
  <2>2. CountOK(k) /\ channels'[k].of = channels[k].of
    BY TokensParts DEF Loses
  <2>3. CASE k = i
    <3>1. channels'[i].tokens = channels[i].tokens - 1
      BY DEF Loses
    <3>2. Alone(i) => channels[i].tokens = Cardinality(Holding(p))
      BY <1>1, <2>2, <2>3 DEF CountOK
    <3>3. Alone(i)' => channels'[i].tokens = Cardinality(Holding(p)')
      BY <1>4, <2>1, <2>3, <3>1, <3>2
    <3> QED
      BY <1>1, <2>2, <2>3, <3>3 DEF CountOK
  <2>4. CASE k # i
    <3>1. channels'[k].tokens = channels[k].tokens
      BY <2>4, ChannelFacts DEF Loses
    <3>2. Alone(k) => channels[k].of \in AllPools \ {p}
      BY <1>1, <2>4, PoolOfChannel DEF Alone
    <3>3. Alone(k)' => channels'[k].tokens = Cardinality(Holding(channels[k].of)')
      BY <1>3, <2>1, <2>2, <3>1, <3>2 DEF CountOK
    <3> QED
      BY <2>2, <3>3 DEF CountOK
  <2> QED
    BY <2>3, <2>4
<1> QED
  BY <1>5, <1>6, <1>7, TokensPartsNext

\* TokensInv, a new channel: the first one of a pool finds no slot of it held.
LEMMA TokensGrow ==
  ASSUME ExecTypeOK, ChannelInv, SlotInv, TokensInv, UNCHANGED slot,
         NEW pool \in AllPools, NEW size \in Nat,
         channels' = Append(channels, channel(pool, size))
  PROVE  TokensInv'
<1>1. PICK n \in Index' : /\ n = Len(channels') /\ n \notin Index /\ Index' = Index \cup {n}
  BY ChannelsGrow DEF AllPools
<1>2. \A q : Holding(q)' = Holding(q)
  BY DEF Holding
<1>3. HoldingOK'
  BY <1>2, TokensParts DEF HoldingOK, AllPools
<1>4. /\ \A k \in Index : channels'[k] = channels[k]
      /\ channels'[n] = channel(pool, size)
  BY <1>1, GrowFacts DEF Grows, AllPools
<1>5. ASSUME NEW k \in Index PROVE CountOK(k)'
  <2>1. Alone(k)' => Alone(k)
    BY <1>1, <1>4 DEF Alone
  <2>2. CountOK(k)
    BY TokensParts
  <2> QED
    BY <1>2, <1>4, <2>1, <2>2 DEF CountOK
<1>6. CountOK(n)'
  <2>0. channel(pool, size).of = pool /\ channel(pool, size).tokens = 0
    BY DEF channel
  <2>1. channels'[n].of = pool /\ channels'[n].tokens = 0
    BY ONLY <1>4, <2>0
  <2>2. CASE \E k \in Index : channels[k].of = pool
    <3>1. ~Alone(n)'
      BY <1>1, <1>4, <2>1, <2>2 DEF Alone
    <3> QED
      BY <3>1 DEF CountOK
  <2>3. CASE \A k \in Index : channels[k].of # pool
    <3>1. pool \in Domain
      BY <2>3 DEF AllPools, ChannelInv, ExecTypeOK
    <3>2. domainPools[pool].pool = 0
      BY <2>3, <3>1 DEF ChannelInv, ExecTypeOK
    <3>3. Holding(pool) = {}
      BY <3>1, <3>2 DEF Holding, SlotInv
    <3>4. Cardinality(Holding(pool)') = 0
      BY <1>2, <3>3, FS_EmptySet
    <3> QED
      BY <2>1, <3>4 DEF CountOK
  <2> QED
    BY <2>2, <2>3
<1> QED
  BY <1>1, <1>3, <1>5, <1>6, TokensPartsNext

\* TokensInv, SetPoolSize moves a token: both channels are the global pool's.
LEMMA TokensMove ==
  ASSUME ExecTypeOK, ChannelInv, TokensInv, ResizeMove
  PROVE  TokensInv'
<1>1. /\ Index' = Index /\ UNCHANGED slot
      /\ \A k \in Index : /\ channels'[k].of = channels[k].of
                          /\ k \notin {resize, workerPool} => channels'[k] = channels[k]
  BY ChannelsMove DEF ResizeMove, quietVars, jobVars
<1>2. \A q : Holding(q)' = Holding(q)
  BY <1>1 DEF Holding
<1>3. HoldingOK'
  BY <1>2, TokensParts DEF HoldingOK, AllPools
<1>4. /\ resize \in Index /\ workerPool \in Index /\ resize # workerPool
      /\ channels[resize].of = "global" /\ channels[workerPool].of = "global"
  BY DEF ResizeMove, ChannelInv, ExecTypeOK
<1>5. ASSUME NEW k \in Index PROVE CountOK(k)'
  <2>1. Alone(k)' => Alone(k)
    BY <1>1 DEF Alone
  <2>2. CASE k \in {resize, workerPool}
    <3>1. ~Alone(k)
      BY <1>4, <2>2 DEF Alone
    <3> QED
      BY <2>1, <3>1 DEF CountOK
  <2>3. CASE k \notin {resize, workerPool}
    <3>1. channels'[k] = channels[k] /\ CountOK(k)
      BY <1>1, <2>3, TokensParts
    <3> QED
      BY <1>2, <2>1, <3>1 DEF CountOK
  <2> QED
    BY <2>2, <2>3
<1> QED
  BY <1>1, <1>3, <1>5, TokensPartsNext

\* TokensInv, the scheduler starts a job.
LEMMA TokensStart ==
  ASSUME ExecTypeOK, ChannelInv, QueueInv, SlotInv, TokensInv,
         DispatchDomain \/ DispatchStart
  PROVE  TokensInv'
<1>1. sjob \in Job /\ slot[sjob] = None /\ DomainOf[sjob[1]] \in Domain \cup {None}
  BY DispatchedFacts DEF DispatchDomain, DispatchStart, Dispatching, SlotInv
<1>2. CASE DispatchDomain
  <2>1. PICK d \in Domain : d = DomainOf[sjob[1]]
    BY <1>1, <1>2 DEF DispatchDomain
  <2>2. PICK i \in Index : i = domainPools[d].pool /\ channels[i].of = d
    BY <1>2, <2>1 DEF DispatchDomain, DomainHasRoom, ExecTypeOK, ChannelInv
  <2>3. put(i) /\ slot' = [slot EXCEPT ![sjob] = channels[i].of]
    BY <1>2, <2>1, <2>2 DEF DispatchDomain, start
  <2> QED
    BY <1>1, <2>3, PutFacts, TokensGain
<1>3. CASE DispatchStart
  <2>1. PICK i \in Index : i = waits[sjob] /\ channels[i].of = "global"
    BY <1>3 DEF DispatchStart, SlotInv
  <2>2. put(i) /\ slot' = [slot EXCEPT ![sjob] = channels[i].of]
    BY <1>3, <2>1 DEF DispatchStart, start
  <2> QED
    BY <1>1, <2>2, PutFacts, TokensGain
<1> QED
  BY <1>2, <1>3

\* TokensInv, the release takes a token of the pool whose slot was held.
LEMMA TokensRelease ==
  ASSUME ExecTypeOK, SlotInv, TokensInv, NEW j \in Job, ReleaseToken(j)
  PROVE  TokensInv'
<1>1. PICK i \in Index : i = waits[j] /\ channels[i].of = slot[j]
  BY DEF ReleaseToken, SlotInv
<1>2. /\ take(i) /\ channels[i].tokens > 0 /\ slot[j] = channels[i].of
      /\ slot' = [slot EXCEPT ![j] = None]
  BY <1>1 DEF ReleaseToken
<1> QED
  BY <1>2, TakeFacts, TokensLose

\* TokensInv is kept.
LEMMA TokensInvStep ==
  ASSUME ExecTypeOK, ChannelInv, QueueInv, SlotInv, TokensInv, [ExecNext]_execVars
  PROVE  TokensInv'
<1>1. CASE UNCHANGED <<channels, slot>>
  BY <1>1 DEF TokensInv, Index, Alone, Holding
<1>2. CASE ResizeStep
  <2>1. UNCHANGED slot
    BY <1>2 DEF ResizeStep, ResizeBegin, Shrink, SetDomainPoolSize, quietVars, jobVars
  <2>2. \E pool \in AllPools, size \in Nat : channels' = Append(channels, channel(pool, size))
    BY <1>2, ExecutorAssumption
       DEF ResizeStep, ResizeBegin, Shrink, SetDomainPoolSize, AllPools
  <2> QED
    BY <2>1, <2>2, TokensGrow
<1>3. CASE SchedulerStep
  BY <1>1, <1>3, TokensStart
     DEF SchedulerStep, SchedulerRecv, SchedulerExit, DispatchGlobal, DispatchDown, poolVars,
         jobVars
<1>4. ASSUME NEW j \in Job, SubmitCheck(j) \/ SubmitSend(j) \/ SubmitUnpark(j)
      PROVE  TokensInv'
  BY <1>1, <1>4 DEF SubmitCheck, SubmitSend, SubmitUnpark, poolVars
<1>5. ASSUME NEW j \in Job, \/ TaskRetry(j) \/ TaskRetried(j) \/ TaskDone(j)
                            \/ Release(j) \/ ReleaseToken(j)
      PROVE  TokensInv'
  BY <1>1, <1>5, TokensRelease DEF TaskRetry, TaskRetried, TaskDone, goVars, poolVars, Release
<1>6. CASE ResizeEnd \/ Shutdown \/ CloseQueue \/ UNCHANGED execVars
  BY <1>1, <1>6 DEF ResizeEnd, quietVars, Shutdown, CloseQueue, execVars, poolVars, jobVars
<1> QED
  BY <1>2, <1>3, <1>4, <1>5, <1>6, TokensMove, ExecCases

-----------------------------------------------------------------------------
(* Retries and callbacks.                                                  *)

\* Where a retry is that went on or is over.
PassedStates == {"retry", "release", "drain", "over"}

\* Where a retry is that will report or retry.
LiveStates == {"send", "parked", "queued", "run"}

\* The numbers of the retries.
Try == 0 .. MaxRetries

\* RetryInv of one retry...
RetryOK(t, n) ==
  /\ pc[<<t, n>>] = "retry" => n < MaxRetries
  /\ Live(t, n) => reports[t] = 0
  /\ pc[<<t, n>>] # "none" => \A m \in 0 .. n - 1 : Passed(t, m)

\* ...and of the task's callbacks.
ReportOK(t) == reports[t] <= 1 /\ (pc[<<t, 0>>] = "none" => reports[t] = 0)

\* The parts are RetryInv.
LEMMA RetryParts == RetryInv <=> \A t \in Task : ReportOK(t) /\ \A n \in Try : RetryOK(t, n)
BY DEF RetryInv, RetryOK, ReportOK, Try

\* The same after a step.
LEMMA RetryPartsNext ==
  RetryInv' <=> \A t \in Task : ReportOK(t)' /\ \A n \in Try : RetryOK(t, n)'
BY DEF RetryInv, RetryOK, ReportOK, Try

\* Arithmetic of the retries' numbers.
LEMMA TryFacts ==
  /\ 0 \in Try /\ MaxRetries \in Nat
  /\ \A n \in Try : /\ n \in Nat
                     /\ \A m \in 0 .. n - 1 : m \in Try /\ m \in Nat /\ m + 1 \in Try
BY ExecutorAssumption DEF Try

\* The parts of a task that a step leaves alone.
LEMMA RetryOthers ==
  ASSUME RetryInv, NEW u \in Task, reports'[u] = reports[u],
         \A m \in Try : pc'[<<u, m>>] = pc[<<u, m>>]
  PROVE  ReportOK(u)' /\ \A m \in Try : RetryOK(u, m)'
<1>1. ReportOK(u) /\ \A m \in Try : RetryOK(u, m)
  BY RetryParts
<1>2. ReportOK(u)'
  BY <1>1, TryFacts DEF ReportOK
<1>3. ASSUME NEW m \in Try PROVE RetryOK(u, m)'
  <2>1. Live(u, m)' => Live(u, m)
    BY <1>1, TryFacts DEF Live, RetryOK, Try
  <2>2. \A k \in 0 .. m - 1 : Passed(u, k)' <=> Passed(u, k)
    BY TryFacts DEF Passed
  <2> QED
    BY <1>1, <2>1, <2>2 DEF RetryOK
<1> QED
  BY <1>2, <1>3

\* RetryInv, one job moves on and nothing is reported.
LEMMA RetryMove ==
  ASSUME ExecTypeOK, RetryInv, NEW t \in Task, NEW n \in Try, NEW s \in JobState \ {"none"},
         pc' = [pc EXCEPT ![<<t, n>>] = s], reports' = reports,
         s = "retry" => n < MaxRetries,
         s \in LiveStates \cup {"retry"} => reports[t] = 0,
         Passed(t, n) => s \in PassedStates,
         pc[<<t, n>>] # "none" \/ \A m \in 0 .. n - 1 : Passed(t, m)
  PROVE  RetryInv'
<1>1. \A u \in Task, m \in Try :
        pc'[<<u, m>>] = IF u = t /\ m = n THEN s ELSE pc[<<u, m>>]
  BY DEF ExecTypeOK, Job, Try
<1>2. ASSUME NEW u \in Task, u # t
      PROVE  ReportOK(u)' /\ \A m \in Try : RetryOK(u, m)'
  BY <1>1, <1>2, RetryOthers
<1>3. ReportOK(t) /\ \A m \in Try : RetryOK(t, m)
  BY RetryParts
<1>4. ReportOK(t)'
  BY <1>1, <1>3, TryFacts DEF ReportOK
<1>5. ASSUME NEW m \in Try PROVE RetryOK(t, m)'
  <2>1. pc'[<<t, m>>] = "retry" => m < MaxRetries
    BY <1>1, <1>3 DEF RetryOK
  <2>2. Live(t, m)' => reports[t] = 0
    <3>1. CASE m = n
      BY <1>1, <3>1 DEF Live, LiveStates
    <3>2. CASE m # n
      <4>1. pc'[<<t, m>>] = pc[<<t, m>>]
        BY <1>1, <3>2
      <4>2. pc[<<t, m>>] = "retry" => m + 1 \in Try
        BY <1>3, TryFacts DEF RetryOK, Try
      <4>3. m + 1 \in Try /\ pc'[<<t, m + 1>>] = "none" => pc[<<t, m + 1>>] = "none"
        BY <1>1
      <4>4. Live(t, m)' => Live(t, m)
        BY <4>1, <4>2, <4>3 DEF Live
      <4> QED
        BY <1>3, <4>4 DEF RetryOK
    <3> QED
      BY <3>1, <3>2
  <2>3. \A k \in Try : Passed(t, k) => Passed(t, k)'
    BY <1>1 DEF Passed, PassedStates
  <2>4. pc'[<<t, m>>] # "none" => \A k \in 0 .. m - 1 : Passed(t, k)
    BY <1>1, <1>3 DEF RetryOK
  <2> QED
    BY <2>1, <2>2, <2>3, <2>4, TryFacts DEF RetryOK
<1> QED
  BY <1>2, <1>4, <1>5, RetryPartsNext

\* RetryInv, a callback: no job of the task is live any more.
LEMMA RetryReport ==
  ASSUME ExecTypeOK, RetryInv, NEW t \in Task, NEW n \in Try, NEW s \in {"release", "over"},
         pc[<<t, n>>] \in {"queued", "run"}, report(t),
         pc' = [pc EXCEPT ![<<t, n>>] = s]
  PROVE  RetryInv'
<1>1. \A u \in Task, m \in Try :
        pc'[<<u, m>>] = IF u = t /\ m = n THEN s ELSE pc[<<u, m>>]
  BY DEF ExecTypeOK, Job, Try
<1>2. \A u \in Task : reports'[u] = reports[u] + IF u = t THEN 1 ELSE 0
  BY DEF report, ExecTypeOK
<1>3. ASSUME NEW u \in Task, u # t
      PROVE  ReportOK(u)' /\ \A m \in Try : RetryOK(u, m)'
  <2>1. reports'[u] = reports[u]
    BY <1>2, <1>3 DEF ExecTypeOK
  <2> QED
    BY <1>1, <1>3, <2>1, RetryOthers
<1>4. ReportOK(t) /\ \A m \in Try : RetryOK(t, m)
  BY RetryParts
<1>5. reports[t] = 0
  BY <1>4 DEF RetryOK, Live
<1>6. /\ \A m \in 0 .. n - 1 : Passed(t, m)
      /\ \A m \in Try : m > n => pc[<<t, m>>] = "none"
  BY <1>4, TryFacts DEF RetryOK, Passed
<1>7. ReportOK(t)'
  <2>1. pc'[<<t, 0>>] # "none"
    BY <1>1, <1>6, TryFacts DEF Passed
  <2> QED
    BY <1>2, <1>5, <2>1 DEF ReportOK
<1>8. ASSUME NEW m \in Try PROVE RetryOK(t, m)'
  <2>1. pc'[<<t, m>>] = "retry" => m < MaxRetries
    BY <1>1, <1>4 DEF RetryOK
  <2>2. ~Live(t, m)'
    <3>1. CASE m = n
      BY <1>1, <3>1 DEF Live
    <3>2. CASE m > n
      BY <1>1, <1>6, <3>2 DEF Live
    <3>3. CASE m < n
      <4>1. m \in 0 .. n - 1 /\ m + 1 \in Try /\ m + 1 <= n
        BY <3>3, TryFacts
      <4>2. pc'[<<t, m>>] \in PassedStates
        BY <1>1, <1>6, <3>3, <4>1 DEF Passed, PassedStates
      <4>3. pc'[<<t, m + 1>>] # "none"
        <5>1. CASE m + 1 = n
          BY <1>1, <5>1
        <5>2. CASE m + 1 # n
          <6>1. m + 1 \in 0 .. n - 1
            BY <4>1, <5>2, TryFacts
          <6> QED
            BY <1>1, <1>6, <4>1, <5>2, <6>1 DEF Passed
        <5> QED
          BY <5>1, <5>2
      <4> QED
        BY <4>2, <4>3 DEF Live, PassedStates
    <3> QED
      BY <3>1, <3>2, <3>3, TryFacts
  <2>3. pc'[<<t, m>>] # "none" => \A k \in 0 .. m - 1 : Passed(t, k)
    BY <1>1, <1>4 DEF RetryOK
  <2>4. \A k \in Try : Passed(t, k) => Passed(t, k)'
    BY <1>1 DEF Passed
  <2> QED
    BY <2>1, <2>2, <2>3, <2>4, TryFacts DEF RetryOK
<1> QED
  BY <1>3, <1>7, <1>8, RetryPartsNext

\* A job is a task and a number.
LEMMA JobParts ==
  ASSUME NEW j \in Job
  PROVE  \E t \in Task, n \in Try : j = <<t, n>> /\ j[1] = t /\ j[2] = n
BY DEF Job, Try

\* RetryInv: the steps of SubmitTask.
LEMMA RetrySubmit ==
  ASSUME ExecTypeOK, RetryInv, NEW j \in Job,
         SubmitCheck(j) \/ SubmitSend(j) \/ SubmitUnpark(j)
  PROVE  RetryInv'
<1>1. PICK t \in Task, n \in Try : j = <<t, n>> /\ j[1] = t /\ j[2] = n
  BY JobParts
<1>2. ReportOK(t) /\ \A m \in Try : RetryOK(t, m)
  BY RetryParts
<1>3. CASE SubmitCheck(j)
  <2>1. PICK s \in {"send", "refused"} : pc' = [pc EXCEPT ![<<t, n>>] = s]
    BY <1>1, <1>3 DEF SubmitCheck
  <2>2. pc[<<t, n>>] = "none" /\ reports' = reports
    BY <1>1, <1>3 DEF SubmitCheck
  <2>3. CASE n = 0
    <3>1. reports[t] = 0 /\ \A m \in 0 .. n - 1 : Passed(t, m)
      BY <1>2, <2>2, <2>3 DEF ReportOK
    <3> QED
      BY <2>1, <2>2, <3>1, RetryMove DEF JobState, LiveStates, Passed
  <2>4. CASE n # 0
    <3>1. n - 1 \in Try /\ n - 1 + 1 = n
      BY <2>4, TryFacts DEF Try
    <3>2. pc[<<t, n - 1>>] = "retry"
      BY <1>1, <1>3, <2>4, TryFacts DEF SubmitCheck
    <3>3. reports[t] = 0
      BY <1>2, <2>2, <3>1, <3>2 DEF RetryOK, Live
    <3>4. \A m \in 0 .. n - 1 : m = n - 1 \/ m \in 0 .. n - 1 - 1
      BY TryFacts
    <3>5. \A m \in 0 .. n - 1 : Passed(t, m)
      BY <1>2, <3>1, <3>2, <3>4 DEF RetryOK, Passed
    <3> QED
      BY <2>1, <2>2, <3>3, <3>5, RetryMove DEF JobState, LiveStates, Passed
  <2> QED
    BY <2>3, <2>4
<1>4. CASE SubmitSend(j) \/ SubmitUnpark(j)
  <2>1. PICK s \in {"parked", "queued", "refused"} : pc' = [pc EXCEPT ![<<t, n>>] = s]
    BY <1>1, <1>4 DEF SubmitSend, SubmitUnpark
  <2>2. pc[<<t, n>>] \in {"send", "parked"} /\ reports' = reports
    BY <1>1, <1>4 DEF SubmitSend, SubmitUnpark
  <2>3. reports[t] = 0
    BY <1>2, <2>2 DEF RetryOK, Live
  <2> QED
    BY <2>1, <2>2, <2>3, RetryMove DEF JobState, LiveStates, Passed
<1> QED
  BY <1>3, <1>4

\* RetryInv: the steps of the scheduler.
LEMMA RetryScheduler ==
  ASSUME ExecTypeOK, QueueInv, RetryInv, SchedulerStep
  PROVE  RetryInv'
<1>1. CASE SchedulerRecv \/ SchedulerExit \/ DispatchGlobal
  <2>1. UNCHANGED <<pc, reports>>
    BY <1>1 DEF SchedulerRecv, SchedulerExit, DispatchGlobal, jobVars
  <2> QED
    BY <2>1 DEF RetryInv, Live, Passed
<1>2. CASE DispatchDomain \/ DispatchStart \/ DispatchDown
  <2>0. sjob \in Job /\ pc[sjob] = "queued"
    BY <1>2, DispatchedFacts DEF DispatchDomain, DispatchStart, DispatchDown, Dispatching
  <2>1. PICK t \in Task, n \in Try : sjob = <<t, n>> /\ sjob[1] = t /\ sjob[2] = n
    BY <2>0, JobParts
  <2>2. CASE DispatchDomain \/ DispatchStart
    <3>1. PICK s \in {"run"} : pc' = [pc EXCEPT ![<<t, n>>] = s]
      BY <2>1, <2>2 DEF DispatchDomain, DispatchStart, start
    <3>2. reports[t] = 0 /\ reports' = reports /\ pc[<<t, n>>] = "queued"
      BY <2>0, <2>1, <2>2, RetryParts DEF RetryOK, Live, DispatchDomain, DispatchStart, start
    <3> QED
      BY <3>1, <3>2, RetryMove DEF JobState, LiveStates, Passed
  <2>3. CASE DispatchDown
    <3>1. pc' = [pc EXCEPT ![<<t, n>>] = "over"] /\ report(t)
      BY <2>1, <2>3 DEF DispatchDown
    <3> QED
      BY <2>0, <2>1, <3>1, RetryReport
  <2> QED
    BY <1>2, <2>2, <2>3
<1> QED
  BY <1>1, <1>2 DEF SchedulerStep

\* RetryInv: the steps of a task's goroutine.
LEMMA RetryTask ==
  ASSUME ExecTypeOK, RetryInv, NEW j \in Job,
         TaskRetry(j) \/ TaskRetried(j) \/ TaskDone(j) \/ Release(j) \/ ReleaseToken(j)
  PROVE  RetryInv'
<1>1. PICK t \in Task, n \in Try : j = <<t, n>> /\ j[1] = t /\ j[2] = n
  BY JobParts
<1>2. CASE TaskRetry(j)
  <2>1. /\ pc' = [pc EXCEPT ![<<t, n>>] = "retry"] /\ reports' = reports
        /\ pc[<<t, n>>] = "run" /\ n < MaxRetries
    BY <1>1, <1>2 DEF TaskRetry
  <2>2. reports[t] = 0
    BY <2>1, RetryParts DEF RetryOK, Live
  <2> QED
    BY <2>1, <2>2, RetryMove DEF JobState, PassedStates
<1>3. CASE TaskRetried(j) \/ Release(j) \/ ReleaseToken(j)
  <2>1. PICK s \in {"release", "drain", "over"} : pc' = [pc EXCEPT ![<<t, n>>] = s]
    BY <1>1, <1>3 DEF TaskRetried, Release, ReleaseToken
  <2>2. pc[<<t, n>>] # "none" /\ reports' = reports
    BY <1>1, <1>3 DEF TaskRetried, Release, ReleaseToken
  <2> QED
    BY <2>1, <2>2, RetryMove DEF JobState, PassedStates, LiveStates
<1>4. CASE TaskDone(j)
  BY <1>1, <1>4, RetryReport DEF TaskDone
<1> QED
  BY <1>2, <1>3, <1>4

\* RetryInv is kept.
LEMMA RetryInvStep ==
  ASSUME ExecTypeOK, QueueInv, RetryInv, [ExecNext]_execVars
  PROVE  RetryInv'
<1>1. CASE ResizeStep \/ ResizeMove \/ ResizeEnd \/ CloseQueue \/ UNCHANGED execVars
  <2>1. UNCHANGED <<pc, reports>>
    BY <1>1 DEF ResizeStep, ResizeMove, ResizeEnd, ResizeBegin, Shrink, SetDomainPoolSize,
       quietVars, CloseQueue, execVars, jobVars
  <2> QED
    BY <2>1 DEF RetryInv, Live, Passed
<1>2. CASE Shutdown
  <2>1. /\ UNCHANGED reports
        /\ \A t \in Task, n \in Try :
             pc'[<<t, n>>] = IF pc[<<t, n>>] = "parked" THEN "refused" ELSE pc[<<t, n>>]
    BY <1>2 DEF Shutdown, Job, Try
  <2>2. ASSUME NEW t \in Task PROVE ReportOK(t)' /\ \A n \in Try : RetryOK(t, n)'
    <3>1. ReportOK(t) /\ \A m \in Try : RetryOK(t, m)
      BY RetryParts
    <3>2. ReportOK(t)'
      BY <2>1, <3>1, TryFacts DEF ReportOK
    <3>3. ASSUME NEW n \in Try PROVE RetryOK(t, n)'
      <4>1. pc[<<t, n>>] = "retry" => n + 1 \in Try
        BY <3>1, TryFacts DEF RetryOK, Try
      <4>2. Live(t, n)' => Live(t, n)
        BY <2>1, <4>1 DEF Live
      <4>3. \A m \in Try : Passed(t, m)' <=> Passed(t, m)
        BY <2>1 DEF Passed
      <4> QED
        BY <2>1, <3>1, <4>2, <4>3, TryFacts DEF RetryOK
    <3> QED
      BY <3>2, <3>3
  <2> QED
    BY <2>2, RetryPartsNext
<1> QED
  BY <1>1, <1>2, RetrySubmit, RetryScheduler, RetryTask, ExecCases

-----------------------------------------------------------------------------
(* The invariant, and what follows from it.                                *)

\* The invariant holds at the start.
LEMMA ExecInitInv == ExecInit => ExecIInv
<1> SUFFICES ASSUME ExecInit PROVE ExecIInv
  OBVIOUS
<1>1. /\ channels = <<channel("global", Workers)>> /\ Len(channels) = 1 /\ Index = {1}
      /\ channels[1] = channel("global", Workers)
      /\ channel("global", Workers).of = "global"
      /\ channel("global", Workers).tokens = 0
      /\ channel("global", Workers).size = Workers
  BY DEF ExecInit, Index, channel
<1>2. /\ channel("global", Workers) \in Channel
      /\ Workers \in Nat
  BY ExecutorAssumption DEF channel, Channel
<1>3. \A j \in Job : pc[j] = "none" /\ slot[j] = None /\ waits[j] = 0
  BY DEF ExecInit
<1>4. ExecTypeOK
  <2>1. ChannelsOK
    BY <1>1, <1>2 DEF ChannelsOK
  <2>2. PoolsOK
    BY <1>1, <1>2, <2>1 DEF PoolsOK, ExecInit
  <2>3. StopOK /\ SchedOK
    <3>1. queue = <<>> /\ spc = "recv" /\ sjob = None
      BY DEF ExecInit
    <3>2. queue \in Seq(Job) /\ Len(queue) <= QueueCap
      BY <3>1, ExecutorAssumption
    <3>3. StopOK
      BY DEF StopOK, ExecInit
    <3> QED
      BY <3>1, <3>2, <3>3 DEF SchedOK
  <2>4. JobsOK
    BY DEF JobsOK, JobState, ExecInit
  <2> QED
    BY <2>2, <2>3, <2>4, TypeParts
<1>5. ChannelInv
  BY <1>1 DEF ChannelInv, ExecInit
<1>6. QueueInv
  BY DEF QueueInv, Dispatching, ExecInit
<1>7. SlotInv
  BY <1>3, ExecutorAssumption DEF SlotInv, ExecInit
<1>8. CurrentInv
  <2>1. \A d \in Domain : Occupying(d) = {}
    BY <1>3 DEF Occupying
  <2> QED
    BY <2>1, FS_EmptySet DEF CurrentInv, ExecInit
<1>9. RetryInv
  <2>1. ASSUME NEW t \in Task PROVE ReportOK(t) /\ \A n \in Try : RetryOK(t, n)
    <3>1. reports[t] = 0 /\ \A n \in Try : pc[<<t, n>>] = "none"
      BY <1>3 DEF ExecInit, Job, Try
    <3> QED
      BY <3>1 DEF ReportOK, RetryOK, Live
  <2> QED
    BY <2>1, RetryParts
<1>10. TokensInv
  <2>1. \A pool \in AllPools : Holding(pool) = {}
    BY <1>3, ExecutorAssumption DEF Holding, AllPools
  <2>2. \A i \in Index : channels[i].of \in AllPools /\ channels[i].tokens = 0
    BY <1>1 DEF AllPools
  <2> QED
    BY <2>1, <2>2, FS_EmptySet DEF TokensInv, AllPools
<1> QED
  BY <1>4, <1>5, <1>6, <1>7, <1>8, <1>9, <1>10 DEF ExecIInv

\* Every step keeps the invariant.
LEMMA ExecNextInv == ExecIInv /\ [ExecNext]_execVars => ExecIInv'
<1> SUFFICES ASSUME ExecIInv, [ExecNext]_execVars PROVE ExecIInv'
  OBVIOUS
<1>1. ExecTypeOK /\ ChannelInv /\ QueueInv /\ SlotInv /\ CurrentInv /\ RetryInv /\ TokensInv
  BY DEF ExecIInv
<1>2. ExecTypeOK'
  BY <1>1, ExecTypeStep
<1>3. ChannelInv'
  BY <1>1, ChannelInvStep
<1>4. QueueInv'
  BY <1>1, QueueInvStep
<1>5. SlotInv'
  BY <1>1, SlotInvStep
<1>6. CurrentInv'
  BY <1>1, CurrentInvStep
<1>7. RetryInv'
  BY <1>1, RetryInvStep
<1>8. TokensInv'
  BY <1>1, TokensInvStep
<1> QED
  BY <1>2, <1>3, <1>4, <1>5, <1>6, <1>7, <1>8 DEF ExecIInv

\* The inductive invariant holds of the executor.
THEOREM ExecIInvariant == ExecSpec => []ExecIInv
BY ExecInitInv, ExecNextInv, PTL DEF ExecSpec

\* Types and the capacities of the queue and of every channel, for any number of
\* tasks, domains, retries and resizes.
THEOREM ExecTypeOKCorrect == ExecSpec => []ExecTypeOK
<1>1. ExecIInv => ExecTypeOK
  BY DEF ExecIInv
<1> QED
  BY <1>1, ExecIInvariant, PTL

\* A task is reported at most once, whatever is retried, resized or shut down.
THEOREM ReportedOnceCorrect == ExecSpec => []ReportedOnce
<1>1. ExecIInv => ReportedOnce
  BY DEF ExecIInv, RetryInv, ReportedOnce
<1> QED
  BY <1>1, ExecIInvariant, PTL

\* A pool that was never resized has one token for each goroutine that holds one
\* of its slots: none leaks and none is taken twice.
THEOREM TokensHeldCorrect == ExecSpec => []TokensHeld
<1>1. ASSUME ExecIInv, NEW pool \in Domain \cup {"global"}, Cardinality(ChannelsOf(pool)) = 1,
             NEW i \in ChannelsOf(pool)
      PROVE  channels[i].tokens = Cardinality(Holding(pool))
  <2>1. Len(channels) \in Int /\ ExecTypeOK /\ TokensInv
    BY <1>1 DEF ExecIInv, ExecTypeOK
  <2>2. IsFiniteSet(ChannelsOf(pool))
    <3>1. IsFiniteSet(Index)
      BY <2>1, FS_Interval DEF Index
    <3>2. ChannelsOf(pool) \subseteq Index
      BY DEF ChannelsOf
    <3> QED
      BY <3>1, <3>2, FS_Subset
  <2>3. \A k \in ChannelsOf(pool) : k = i
    BY <1>1, <2>2, FS_Singleton
  <2>4. i \in Index /\ channels[i].of = pool /\ Alone(i)
    BY <1>1, <2>3 DEF ChannelsOf, Alone
  <2> QED
    BY <2>1, <2>4 DEF TokensInv
<1>2. ExecIInv => TokensHeld
  BY <1>1 DEF TokensHeld
<1> QED
  BY <1>2, ExecIInvariant, PTL

=============================================================================
