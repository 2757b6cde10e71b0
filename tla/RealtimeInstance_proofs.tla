---------------------- MODULE RealtimeInstance_proofs -----------------------
(***************************************************************************)
(* Proofs about a realtime instance: nothing that was logged or accepted   *)
(* disappears, a pause lets one item through, and the log is closed under  *)
(* no handler that was waited for.                                         *)
(*                                                                         *)
(* RIInv is inductive.  The log may forget what is acked because an item   *)
(* is acked by a task that handled it (AckInv); an answer finds the log    *)
(* open because Shutdown closes it after the tasks, and a task whose       *)
(* context is done takes no other item (QuietInv).                         *)
(***************************************************************************)
EXTENDS RealtimeInstance, FiniteSetTheorems, SequenceTheorems, TLAPS

-----------------------------------------------------------------------------
(* The inductive invariant.                                                *)

\* What buffers and hands hold...
ItemSet == [data: Data, seq: Nat, tries: 0 .. MaxRetries]

\* ...what is replayed or broadcast...
Offered == [data: Data, seq: Nat, todo: SUBSET Subs]

\* ...and the buffers.
BufferSet == [items: Seq(ItemSet), capacity: Nat, totalIn: Nat, totalOut: Nat, dropped: Nat]

\* The values of state...
States == {"initializing", "running", "paused", "reconnecting", "stopping", "stopped"}

\* ...and of pc.
Places == {"absent", "adding", "loop", "collecting", "reconnecting", "popping", "handling",
           "acking", "ended"}

\* What is kept for the properties.
HistSet ==
  [numbers: SUBSET Nat, handledNumbers: SUBSET Nat, got: [Subs -> SUBSET Data],
   done: [Subs -> SUBSET Data], lost: [Subs -> SUBSET Data], since: [Task -> Nat],
   gaveUp: BOOLEAN, late: BOOLEAN]

\* Types, part by part.
LogOK ==
  /\ DOMAIN wal \subseteq 1 .. MaxData
  /\ \A n \in DOMAIN wal : wal[n] \in [data: Data, acked: BOOLEAN]

\* No more data is numbered, or waits to be, than was published.
FeedOK ==
  /\ fed \in 0 .. MaxData
  /\ pending \subseteq 1 .. fed /\ sequenceCounter \in Nat
  /\ sequenceCounter + Cardinality(pending) <= fed
StreamOK ==
  /\ toReplay \in SUBSET Offered
  /\ handler = {} \/ \E x \in Offered : handler = {x}
BufOK ==
  /\ buf \in [Subs -> BufferSet]
  /\ \A s \in Subs : buf[s].capacity = Capacity[s] /\ Len(buf[s].items) <= Capacity[s]

\* A hand is full while its item is handled or acked.
TasksOK ==
  /\ state \in [Task -> States] /\ pc \in [Task -> Places]
  /\ hand \in [Task -> {<<>>} \cup {<<x>> : x \in ItemSet}]
  /\ \A t \in Task : /\ hand[t] # <<>> <=> pc[t] \in {"handling", "acking"}
                     /\ pc[t] \in {"popping", "handling", "acking"} => t \in Processors
                     /\ phase \in {"created", "replaying"} => pc[t] = "absent"
ControlOK ==
  /\ row \in {"Ready", "Running", "Paused", "Stopped"} /\ status \in {row, "Ready"}
  /\ phase \in {"created", "replaying", "up", "stopped"}
  /\ ctl \in {"absent", "idle", "stopping", "waitTasks", "waitRest", "store", "ended"}
  /\ ctxDone \in BOOLEAN /\ walOpen \in BOOLEAN
  /\ calls \in 0 .. MaxCalls /\ drops \in 0 .. MaxDrops
RTypes == LogOK /\ FeedOK /\ StreamOK /\ BufOK /\ TasksOK /\ ControlOK /\ hist \in HistSet

\* What is acked was handled, and what was logged is there or was handled.
LogInv ==
  /\ \A n \in DOMAIN wal : wal[n].acked => n \in hist.handledNumbers
  /\ hist.numbers \subseteq DOMAIN wal \cup hist.handledNumbers

\* An item is acked after a handler succeeded for it.
AckInv ==
  \A t \in Task : pc[t] = "acking" => /\ hand[t][1].seq \in hist.handledNumbers
                                      /\ hand[t][1].data \in hist.done[SubOf[t]]

\* A task that took its one item since its pause is past the look at the state:
\* its next one finds the pause.
PauseInv ==
  \A t \in Task :
    /\ hist.since[t] \in {0, 1}
    /\ hist.since[t] = 1 => /\ state[t] # "running" /\ pc[t] \notin {"absent", "adding"}
                            /\ state[t] = "paused" => pc[t] # "popping"

\* Shutdown has waited for the tasks.
Waited == ctl \in {"waitRest", "store"} \/ phase = "stopped"

\* How phase, control and context go together, and what is still running once
\* Shutdown has waited: nothing that has an item, unless it gave up.
ShutdownInv ==
  /\ phase \in {"created", "replaying"} => ctl = "absent"
  /\ phase = "up" => ctl \in {"idle", "stopping", "waitTasks", "waitRest", "store"}
  /\ phase = "stopped" => ctl \in {"idle", "ended"}
  /\ ctxDone <=> phase = "stopped" \/ ctl \in {"stopping", "waitTasks", "waitRest", "store"}
  /\ ~walOpen => ctl = "store" \/ phase = "stopped"
  /\ hist.late => ~walOpen /\ hist.gaveUp
  /\ Waited /\ ~hist.gaveUp => \A t \in Task : pc[t] \in {"absent", "adding", "loop", "ended"}

\* The inductive invariant.
RIInv == RTypes /\ LogInv /\ AckInv /\ NothingLost /\ PauseInv /\ ShutdownInv

\* Datum d is in buffer b.
Holds(b, d) == \E i \in DOMAIN b.items : b.items[i].data = d

-----------------------------------------------------------------------------
(* Buffers.                                                                *)

\* The types of a buffer's fields.
LEMMA BufferFacts ==
  ASSUME NEW b \in BufferSet
  PROVE  /\ b.items \in Seq(ItemSet) /\ Len(b.items) \in Nat /\ DOMAIN b.items = 1 .. Len(b.items)
         /\ b.capacity \in Nat
BY DEF BufferSet

\* A push keeps what the buffer holds, and adds the item if there was room.
LEMMA PushFacts ==
  ASSUME NEW b \in BufferSet, NEW x \in ItemSet, Len(b.items) <= b.capacity
  PROVE  /\ Push(b, x) \in BufferSet /\ Push(b, x).capacity = b.capacity
         /\ Len(Push(b, x).items) <= b.capacity
         /\ \A d : Holds(b, d) => Holds(Push(b, x), d)
         /\ HasRoom(b) => Holds(Push(b, x), x.data)
<1>1. CASE HasRoom(b)
  <2>1. /\ Push(b, x) = [b EXCEPT !.items = Append(b.items, x), !.totalIn = b.totalIn + 1]
        /\ Len(b.items) < b.capacity
    BY <1>1 DEF Push, PushBlocking, HasRoom
  <2>2. /\ Append(b.items, x) \in Seq(ItemSet) /\ Len(Append(b.items, x)) = Len(b.items) + 1
        /\ b.totalIn + 1 \in Nat
    BY BufferFacts DEF BufferSet
  <2>3. /\ Push(b, x) \in BufferSet /\ Push(b, x).capacity = b.capacity
        /\ Push(b, x).items = Append(b.items, x)
    BY <2>1, <2>2 DEF BufferSet
  <2>4. /\ \A i \in DOMAIN b.items : /\ i \in DOMAIN Append(b.items, x)
                                     /\ Append(b.items, x)[i] = b.items[i]
        /\ Len(b.items) + 1 \in DOMAIN Append(b.items, x)
        /\ Append(b.items, x)[Len(b.items) + 1] = x
    BY BufferFacts
  <2>5. \A d : Holds(b, d) => Holds(Push(b, x), d)
    BY <2>3, <2>4 DEF Holds
  <2>6. Holds(Push(b, x), x.data)
    BY <2>3, <2>4 DEF Holds
  <2>7. Len(Push(b, x).items) <= b.capacity
    BY <2>1, <2>2, <2>3, BufferFacts
  <2> QED
    BY <2>3, <2>5, <2>6, <2>7
<1>2. CASE ~HasRoom(b)
  <2>1. Push(b, x) = [b EXCEPT !.dropped = b.dropped + 1]
    BY <1>2 DEF Push
  <2>2. /\ Push(b, x) \in BufferSet /\ Push(b, x).capacity = b.capacity
        /\ Push(b, x).items = b.items
    BY <2>1 DEF BufferSet
  <2> QED
    BY <1>2, <2>2 DEF Holds
<1> QED
  BY <1>1, <1>2

\* A pop loses the head and nothing else.
LEMMA TryPopFacts ==
  ASSUME NEW b \in BufferSet, Len(b.items) <= b.capacity, b.items # <<>>
  PROVE  /\ TryPop(b) \in BufferSet /\ TryPop(b).capacity = b.capacity
         /\ Len(TryPop(b).items) <= b.capacity
         /\ Head(b.items) \in ItemSet
         /\ \A d : Holds(b, d) => Holds(TryPop(b), d) \/ d = Head(b.items).data
<1>1. /\ Tail(b.items) \in Seq(ItemSet) /\ Len(Tail(b.items)) = Len(b.items) - 1
      /\ Head(b.items) \in ItemSet /\ Head(b.items) = b.items[1]
      /\ Len(b.items) \in Nat /\ b.capacity \in Nat /\ b.totalOut + 1 \in Nat
  BY BufferFacts DEF BufferSet
<1>2. TryPop(b) = [b EXCEPT !.items = Tail(b.items), !.totalOut = b.totalOut + 1]
  BY DEF TryPop
<1>3. /\ TryPop(b) \in BufferSet /\ TryPop(b).capacity = b.capacity
      /\ TryPop(b).items = Tail(b.items)
  BY <1>1, <1>2 DEF BufferSet
<1>4. ASSUME NEW d, Holds(b, d) PROVE Holds(TryPop(b), d) \/ d = Head(b.items).data
  <2>1. PICK i \in DOMAIN b.items : b.items[i].data = d
    BY <1>4 DEF Holds
  <2>2. CASE i = 1
    BY <1>1, <2>1, <2>2
  <2>3. CASE i # 1
    <3>1. i - 1 \in DOMAIN Tail(b.items) /\ Tail(b.items)[i - 1] = b.items[i]
      BY <1>1, <2>3, BufferFacts
    <3> QED
      BY <1>3, <2>1, <3>1 DEF Holds
  <2> QED
    BY <2>2, <2>3
<1> QED
  BY <1>1, <1>3, <1>4

-----------------------------------------------------------------------------
(* What each step changes.                                                 *)

\* The actions a step may be.
LEMMA RTCases ==
  ASSUME [RTNext]_rtVars
  PROVE  \/ StartReplays \/ (\E s \in Subs : ReplayPush(s) \/ BroadcastTo(s)) \/ StartTasks
         \/ RouterRuns \/ (\E d \in Data : HandleDataArrived(d)) \/ PeriodicGC \/ Crash
         \/ HandlePause \/ HandleResume \/ HandleTerminate \/ ControlExit
         \/ ShutdownStopsTasks \/ ShutdownClosesRouter \/ ShutdownClosesLog \/ ShutdownStores
         \/ \E t \in Task : \/ Loop(t) \/ Reconnect(t) \/ ConnectionLost(t)
                            \/ PauseContinuousTask(t) \/ ResumeContinuousTask(t)
         \/ \E t \in Collectors : Publish(t) \/ CollectorReturns(t)
         \/ \E t \in Processors : \/ TryPopWithDone(t) \/ Handled(t) \/ MarkAckedStep(t)
                                  \/ Failed(t) \/ AddSubTask(t) \/ RollBackSubTask(t)
         \/ \E s \in Subs : SetSubscriberFilter(s)
         \/ \E sig \in {"Pause", "Resume", "Terminate"} : Signal(sig)
         \/ UNCHANGED rtVars
BY DEF RTNext, StartStep, HandlerStep, ControlStep, ShutdownStep, RunStreamProcessor

\* The steps that change each part of the state.
WalSteps ==
  PeriodicGC \/ ShutdownClosesLog \/ (\E d \in Data : HandleDataArrived(d))
  \/ \E t \in Processors : MarkAckedStep(t)
FeedSteps ==
  ShutdownClosesRouter \/ Crash \/ (\E d \in Data : HandleDataArrived(d))
  \/ \E t \in Collectors : Publish(t)
StreamSteps ==
  StartReplays \/ Crash \/ (\E s \in Subs : ReplayPush(s) \/ BroadcastTo(s))
  \/ (\E d \in Data : HandleDataArrived(d))
  \/ \E t \in Processors : TryPopWithDone(t) \/ Failed(t)
StateSteps ==
  \/ StartTasks \/ HandlePause \/ HandleResume \/ ShutdownStopsTasks \/ Crash
  \/ \E t \in Task : \/ Loop(t) \/ Reconnect(t) \/ ConnectionLost(t)
                     \/ PauseContinuousTask(t) \/ ResumeContinuousTask(t)
  \/ \E t \in Collectors : CollectorReturns(t)
  \/ \E t \in Processors : AddSubTask(t) \/ RollBackSubTask(t)
PlaceSteps ==
  \/ StartTasks \/ Crash
  \/ \E t \in Task : Loop(t) \/ Reconnect(t)
  \/ \E t \in Collectors : CollectorReturns(t)
  \/ \E t \in Processors : \/ TryPopWithDone(t) \/ Handled(t) \/ MarkAckedStep(t)
                           \/ Failed(t) \/ AddSubTask(t)
PhaseSteps ==
  \/ StartReplays \/ StartTasks \/ Crash \/ HandlePause \/ HandleResume \/ HandleTerminate
  \/ ControlExit \/ ShutdownStopsTasks \/ ShutdownClosesRouter \/ ShutdownClosesLog
  \/ ShutdownStores
BoundSteps ==
  \/ \E t \in Task : ConnectionLost(t) \/ PauseContinuousTask(t) \/ ResumeContinuousTask(t)
  \/ \E t \in Collectors : CollectorReturns(t)
  \/ \E t \in Processors : AddSubTask(t)
  \/ \E s \in Subs : SetSubscriberFilter(s)
  \/ \E sig \in {"Pause", "Resume", "Terminate"} : Signal(sig)
HistSteps ==
  \/ Crash \/ HandleResume \/ ShutdownClosesRouter
  \/ (\E s \in Subs : ReplayPush(s) \/ BroadcastTo(s))
  \/ (\E d \in Data : HandleDataArrived(d))
  \/ \E t \in Task : Reconnect(t) \/ ResumeContinuousTask(t)
  \/ \E t \in Processors : TryPopWithDone(t) \/ Handled(t) \/ MarkAckedStep(t) \/ Failed(t)

Changes ==
  /\ wal' = wal \/ WalSteps
  /\ UNCHANGED <<fed, pending, sequenceCounter>> \/ FeedSteps
  /\ UNCHANGED <<toReplay, handler, buf>> \/ StreamSteps
  /\ UNCHANGED state \/ StateSteps
  /\ UNCHANGED <<pc, hand>> \/ PlaceSteps
  /\ UNCHANGED <<row, status, phase, ctl, ctxDone, walOpen>> \/ PhaseSteps
  /\ UNCHANGED <<calls, drops>> \/ BoundSteps
  /\ hist' = hist \/ HistSteps

\* Each part of the state is changed by the steps named for it only.
LEMMA ChangesFacts ==
  ASSUME [RTNext]_rtVars
  PROVE  Changes
<1> USE DEF Changes, persistent, bounds, stream, tasks, control, StaysInStream
<1>1. CASE StartReplays \/ StartTasks \/ RouterRuns
  BY <1>1 DEF StartReplays, StartTasks, RouterRuns, StreamSteps, StateSteps, PlaceSteps, PhaseSteps
<1>2. CASE \E s \in Subs : ReplayPush(s) \/ BroadcastTo(s)
  BY <1>2 DEF ReplayPush, BroadcastTo, StreamSteps, HistSteps
<1>3. CASE Crash
  BY <1>3 DEF Crash, FeedSteps, StreamSteps, StateSteps, PlaceSteps, PhaseSteps, HistSteps
<1>4. CASE HandlePause \/ HandleResume \/ HandleTerminate \/ ControlExit
  BY <1>4 DEF HandlePause, HandleResume, HandleTerminate, ControlExit, StateSteps, PhaseSteps,
     HistSteps
<1>5. CASE ShutdownStopsTasks \/ ShutdownClosesRouter \/ ShutdownClosesLog \/ ShutdownStores
  BY <1>5 DEF ShutdownStopsTasks, ShutdownClosesRouter, ShutdownClosesLog, ShutdownStores,
     WalSteps, FeedSteps, StateSteps, PhaseSteps, HistSteps
<1>6. CASE PeriodicGC \/ \E d \in Data : HandleDataArrived(d)
  BY <1>6 DEF PeriodicGC, HandleDataArrived, WalSteps, FeedSteps, StreamSteps, HistSteps
<1>7. ASSUME NEW t \in Task, Loop(t) \/ Reconnect(t) \/ ConnectionLost(t) PROVE Changes
  BY <1>7 DEF Loop, Reconnect, ConnectionLost, StateSteps, PlaceSteps, BoundSteps, HistSteps
<1>8. ASSUME NEW t \in Task, PauseContinuousTask(t) \/ ResumeContinuousTask(t) PROVE Changes
  BY <1>8 DEF PauseContinuousTask, ResumeContinuousTask, Call, StateSteps, BoundSteps, HistSteps
<1>9. ASSUME NEW t \in Collectors, Publish(t) \/ CollectorReturns(t) PROVE Changes
  BY <1>9 DEF Publish, CollectorReturns, FeedSteps, StateSteps, PlaceSteps, BoundSteps
<1>10. ASSUME NEW t \in Processors, TryPopWithDone(t) \/ Handled(t) \/ MarkAckedStep(t) PROVE Changes
  BY <1>10 DEF TryPopWithDone, Handled, MarkAckedStep, WalSteps, StreamSteps, PlaceSteps, HistSteps
<1>11. ASSUME NEW t \in Processors, Failed(t) \/ AddSubTask(t) \/ RollBackSubTask(t) PROVE Changes
  BY <1>11 DEF Failed, AddSubTask, RollBackSubTask, Call, StreamSteps, StateSteps, PlaceSteps,
     BoundSteps, HistSteps
<1>12. CASE (\E s \in Subs : SetSubscriberFilter(s)) \/ UNCHANGED rtVars
            \/ \E sig \in {"Pause", "Resume", "Terminate"} : Signal(sig)
  BY <1>12 DEF SetSubscriberFilter, Signal, Call, BoundSteps, rtVars
<1> QED
  BY <1>1, <1>2, <1>3, <1>4, <1>5, <1>6, <1>7, <1>8, <1>9, <1>10, <1>11, <1>12, RTCases

-----------------------------------------------------------------------------
(* Types.                                                                  *)

\* The published data that waits is finite.
LEMMA PendingFacts ==
  ASSUME FeedOK
  PROVE  /\ fed \in Nat /\ fed <= MaxData /\ pending \subseteq 1 .. fed
         /\ IsFiniteSet(pending) /\ Cardinality(pending) \in Nat
<1>1. fed \in Nat /\ fed <= MaxData /\ pending \subseteq 1 .. fed
  BY RealtimeAssumption DEF FeedOK
<1>2. 1 \in Int /\ fed \in Int
  BY <1>1
<1>3. IsFiniteSet(1 .. fed)
  BY ONLY <1>2, FS_Interval
<1>4. IsFiniteSet(pending)
  BY ONLY <1>1, <1>3, FS_Subset
<1>5. Cardinality(pending) \in Nat
  BY ONLY <1>4, FS_CardinalityType
<1> QED
  BY <1>1, <1>4, <1>5

\* The log: a number is new because no more data is numbered than published.
LEMMA LogTypes ==
  ASSUME RTypes, [RTNext]_rtVars
  PROVE  LogOK'
<1>0. LogOK /\ FeedOK /\ Changes
  BY ChangesFacts DEF RTypes
<1>1. CASE wal' = wal
  BY <1>0, <1>1 DEF LogOK
<1>2. CASE PeriodicGC \/ ShutdownClosesLog
  <2>1. wal' = GC(wal) \/ wal' = wal
    BY <1>2 DEF PeriodicGC, ShutdownClosesLog
  <2> QED
    BY <1>0, <2>1 DEF LogOK, GC, Unacked
<1>3. ASSUME NEW d \in Data, HandleDataArrived(d)
      PROVE  LogOK'
  <2>1. wal' = wal \/ wal' = AppendRecord(wal, sequenceCounter + 1, d)
    BY <1>3 DEF HandleDataArrived
  <2>2. sequenceCounter + 1 \in 1 .. MaxData
    <3>1. d \in pending
      BY <1>3 DEF HandleDataArrived
    <3>2. Cardinality(pending) # 0
      BY <1>0, <3>1, PendingFacts, FS_EmptySet
    <3> QED
      BY <1>0, <3>2, PendingFacts, RealtimeAssumption DEF FeedOK
  <2>3. CASE wal' = AppendRecord(wal, sequenceCounter + 1, d)
    <3>1. PICK n \in 1 .. MaxData : n = sequenceCounter + 1
      BY <2>2
    <3>2. CASE n \in DOMAIN wal
      BY <1>0, <2>3, <3>1, <3>2 DEF AppendRecord, LogOK
    <3>3. CASE n \notin DOMAIN wal
      <4>1. PICK r \in [data: Data, acked: BOOLEAN] : r = [data |-> d, acked |-> FALSE]
        OBVIOUS
      <4>2. wal' = [m \in DOMAIN wal \cup {n} |-> IF m = n THEN r ELSE wal[m]]
        BY <2>3, <3>1, <3>3, <4>1 DEF AppendRecord
      <4> QED
        BY <1>0, <4>2 DEF LogOK
    <3> QED
      BY <3>2, <3>3
  <2> QED
    BY <1>0, <1>1, <2>1, <2>3
<1>4. ASSUME NEW t \in Processors, MarkAckedStep(t)
      PROVE  LogOK'
  <2>1. wal' = wal \/ wal' = MarkAcked(wal, hand[t][1].seq)
    BY <1>4 DEF MarkAckedStep
  <2> QED
    BY <1>0, <2>1 DEF LogOK, MarkAcked
<1> QED
  BY <1>0, <1>1, <1>2, <1>3, <1>4 DEF Changes, WalSteps

\* What was published is numbered once or not at all.
LEMMA FeedTypes ==
  ASSUME RTypes, [RTNext]_rtVars
  PROVE  FeedOK'
<1>0. FeedOK /\ Changes /\ MaxData \in Nat
  BY ChangesFacts, RealtimeAssumption DEF RTypes
<1>1. /\ fed \in Nat /\ fed <= MaxData /\ pending \subseteq 1 .. fed
      /\ IsFiniteSet(pending) /\ Cardinality(pending) \in Nat /\ sequenceCounter \in Nat
      /\ sequenceCounter + Cardinality(pending) <= fed
  BY <1>0, PendingFacts DEF FeedOK
<1>2. CASE UNCHANGED <<fed, pending, sequenceCounter>>
  BY <1>0, <1>2 DEF FeedOK
<1>3. CASE ShutdownClosesRouter \/ Crash
  <2>1. /\ fed' = fed /\ pending' = {} /\ sequenceCounter' \in {0, sequenceCounter}
    BY <1>3 DEF ShutdownClosesRouter, Crash, persistent
  <2> QED
    BY <1>1, <1>0, <2>1, FS_EmptySet DEF FeedOK
<1>4. ASSUME NEW d \in Data, HandleDataArrived(d) PROVE FeedOK'
  <2>1. /\ d \in pending /\ fed' = fed /\ pending' = pending \ {d}
        /\ sequenceCounter' \in {sequenceCounter, sequenceCounter + 1}
    BY <1>4 DEF HandleDataArrived
  <2>2. Cardinality(pending') = Cardinality(pending) - 1
    BY <1>1, <2>1, FS_RemoveElement
  <2> QED
    BY <1>0, <1>1, <2>1, <2>2 DEF FeedOK
<1>5. ASSUME NEW t \in Collectors, Publish(t) PROVE FeedOK'
  <2>1. /\ fed' = fed + 1 /\ fed < MaxData /\ pending' \in {pending, pending \cup {fed + 1}}
        /\ sequenceCounter' = sequenceCounter
    BY <1>5 DEF Publish
  <2>2. Cardinality(pending \cup {fed + 1}) = Cardinality(pending) + 1
    <3>1. fed + 1 \notin pending
      BY <1>1
    <3> QED
      BY <1>1, <3>1, FS_AddElement
  <2>3. Cardinality(pending') <= Cardinality(pending) + 1 /\ Cardinality(pending') \in Nat
    BY <1>1, <2>1, <2>2
  <2>4. pending' \subseteq 1 .. fed'
    BY <1>1, <2>1
  <2>5. fed' \in 0 .. MaxData
    BY <1>0, <1>1, <2>1
  <2>6. sequenceCounter' + Cardinality(pending') <= fed'
    BY <1>1, <2>1, <2>3
  <2> QED
    BY <1>1, <2>1, <2>4, <2>5, <2>6 DEF FeedOK
<1> QED
  BY <1>0, <1>2, <1>3, <1>4, <1>5 DEF Changes, FeedSteps

\* A subscriber's buffer is replaced.
LEMMA BufSet ==
  ASSUME BufOK, NEW s \in Subs, NEW b \in BufferSet, b.capacity = Capacity[s],
         Len(b.items) <= Capacity[s], buf' = [buf EXCEPT ![s] = b]
  PROVE  BufOK'
BY DEF BufOK

\* A subscriber's turn keeps the buffers' types and capacities.
LEMMA OfferBuf ==
  ASSUME BufOK, NEW s \in Subs, NEW d \in Data, NEW n \in Nat, Offer(s, d, n)
  PROVE  BufOK'
<1>1. Item(d, n) \in ItemSet
  BY RealtimeAssumption DEF Item, ItemSet
<1>2. /\ buf[s] \in BufferSet /\ buf[s].capacity = Capacity[s]
      /\ Len(buf[s].items) <= buf[s].capacity
  BY DEF BufOK
<1>3. CASE buf' = buf
  BY <1>3 DEF BufOK
<1>4. CASE buf' = [buf EXCEPT ![s] = Push(buf[s], Item(d, n))]
  BY <1>1, <1>2, <1>4, PushFacts, BufSet
<1> QED
  BY <1>3, <1>4 DEF Offer, BufOK

\* What is left of a broadcast after one turn.
LEMMA LeftFacts ==
  ASSUME NEW x \in Offered, NEW s
  PROVE  Left(x, s) = {} \/ \E y \in Offered : Left(x, s) = {y}
BY DEF Left, Offered

\* The buffers keep their types and capacities.
LEMMA BufTypes ==
  ASSUME RTypes, [RTNext]_rtVars
  PROVE  BufOK'
<1>0. BufOK /\ StreamOK /\ TasksOK /\ Changes
  BY ChangesFacts DEF RTypes
<1>1. CASE buf' = buf
  BY <1>0, <1>1 DEF BufOK
<1>2. CASE Crash
  <2>1. buf' = [s \in Subs |-> NewDataBuffer(Capacity[s])]
    BY <1>2 DEF Crash
  <2>2. ASSUME NEW s \in Subs
        PROVE  /\ NewDataBuffer(Capacity[s]) \in BufferSet
               /\ NewDataBuffer(Capacity[s]).capacity = Capacity[s]
               /\ Len(NewDataBuffer(Capacity[s]).items) <= Capacity[s]
    <3>1. Capacity[s] \in Nat /\ <<>> \in Seq(ItemSet)
      BY RealtimeAssumption
    <3> QED
      BY <3>1 DEF NewDataBuffer, BufferSet
  <2> QED
    BY <2>1, <2>2 DEF BufOK
<1>3. ASSUME NEW s \in Subs, ReplayPush(s) \/ BroadcastTo(s) PROVE BufOK'
  <2>1. \E x \in Offered : Offer(s, x.data, x.seq)
    BY <1>0, <1>3 DEF ReplayPush, BroadcastTo, StreamOK
  <2>2. \A x \in Offered : x.data \in Data /\ x.seq \in Nat
    BY DEF Offered
  <2> QED
    BY <1>0, <1>3, <2>1, <2>2, OfferBuf
<1>4. ASSUME NEW t \in Processors, TryPopWithDone(t) \/ Failed(t) PROVE BufOK'
  <2>1. PICK s \in Subs : s = SubOf[t]
    BY RealtimeAssumption
  <2>2. /\ buf[s] \in BufferSet /\ buf[s].capacity = Capacity[s]
        /\ Len(buf[s].items) <= buf[s].capacity
    BY <1>0 DEF BufOK
  <2>3. CASE TryPopWithDone(t)
    <3>1. buf' = buf \/ (buf[s].items # <<>> /\ buf' = [buf EXCEPT ![s] = TryPop(buf[s])])
      BY <1>0, <2>1, <2>3 DEF TryPopWithDone, BufOK
    <3> QED
      BY <1>0, <1>1, <2>2, <3>1, TryPopFacts, BufSet
  <2>4. CASE Failed(t)
    <3>1. PICK x \in ItemSet : hand[t] = <<x>> /\ hand[t][1] = x
      BY <1>0, <2>4 DEF Failed, TasksOK, Task
    <3>2. x.tries < MaxRetries => [x EXCEPT !.tries = x.tries + 1] \in ItemSet
      BY RealtimeAssumption DEF ItemSet
    <3>3. \/ buf' = buf
          \/ /\ x.tries < MaxRetries
             /\ buf' = [buf EXCEPT ![s] = Push(buf[s], [x EXCEPT !.tries = x.tries + 1])]
      BY <1>0, <2>1, <2>4, <3>1 DEF Failed, BufOK, ItemSet
    <3> QED
      BY <1>0, <1>1, <2>2, <3>2, <3>3, PushFacts, BufSet
  <2> QED
    BY <1>4, <2>3, <2>4
<1> QED
  BY <1>0, <1>1, <1>2, <1>3, <1>4 DEF Changes, StreamSteps, HandleDataArrived, StartReplays

\* So do the replay and the data handler.
LEMMA StreamTypes ==
  ASSUME RTypes, [RTNext]_rtVars
  PROVE  StreamOK'
<1>0. StreamOK /\ LogOK /\ Changes
  BY ChangesFacts DEF RTypes
<1>1. CASE UNCHANGED <<toReplay, handler>>
  BY <1>0, <1>1 DEF StreamOK
<1>2. CASE Crash
  BY <1>2 DEF Crash, StreamOK
<1>3. CASE StartReplays
  <2>1. \A n \in DOMAIN wal : n \in Nat /\ wal[n].data \in Data
    BY <1>0 DEF LogOK
  <2>2. toReplay' \subseteq Offered
    BY <1>3, <2>1 DEF StartReplays, IterateUnacked, Unacked, Offered
  <2> QED
    BY <1>0, <1>3, <2>2 DEF StreamOK, StartReplays
<1>4. ASSUME NEW s \in Subs, ReplayPush(s) PROVE StreamOK'
  <2>1. PICK x \in toReplay : toReplay' = (toReplay \ {x}) \cup Left(x, s)
    BY <1>4 DEF ReplayPush
  <2>2. x \in Offered /\ handler' = handler
    BY <1>0, <1>4 DEF ReplayPush, StreamOK
  <2> QED
    BY <1>0, <2>1, <2>2, LeftFacts DEF StreamOK
<1>5. ASSUME NEW s \in Subs, BroadcastTo(s) PROVE StreamOK'
  <2>1. PICK x \in handler : handler' = Left(x, s)
    BY <1>5 DEF BroadcastTo
  <2>2. x \in Offered /\ toReplay' = toReplay
    BY <1>0, <1>5 DEF BroadcastTo, StreamOK
  <2> QED
    BY <1>0, <2>1, <2>2, LeftFacts DEF StreamOK
<1>6. ASSUME NEW d \in Data, HandleDataArrived(d) PROVE StreamOK'
  <2>1. /\ toReplay' = toReplay
        /\ handler' = handler \/ \E n \in {0, sequenceCounter + 1} :
                                   handler' = {[data |-> d, seq |-> n, todo |-> Subs]}
    BY <1>6 DEF HandleDataArrived
  <2>2. sequenceCounter \in Nat
    BY DEF RTypes, FeedOK
  <2>3. \A n \in {0, sequenceCounter + 1} : [data |-> d, seq |-> n, todo |-> Subs] \in Offered
    BY <2>2 DEF Offered
  <2> QED
    BY <1>0, <2>1, <2>3 DEF StreamOK
<1> QED
  BY <1>0, <1>1, <1>2, <1>3, <1>4, <1>5, <1>6
     DEF Changes, StreamSteps, TryPopWithDone, Failed, StaysInStream

\* A hand has at most one item.
HandSet == {<<>>} \cup {<<x>> : x \in ItemSet}

\* So do the states of the tasks.
LEMMA StateTypes ==
  ASSUME RTypes, [RTNext]_rtVars
  PROVE  state' \in [Task -> States]
<1>0. state \in [Task -> States] /\ Changes
  BY ChangesFacts DEF RTypes, TasksOK
<1>1. CASE UNCHANGED state
  BY <1>0, <1>1
<1>2. CASE StartTasks \/ ShutdownStopsTasks \/ Crash
  BY <1>0, <1>2 DEF StartTasks, ShutdownStopsTasks, Crash, States
<1>3. CASE HandlePause \/ HandleResume
  BY <1>0, <1>3 DEF HandlePause, HandleResume, Paused, Resumed, States
<1>4. ASSUME NEW t \in Task, \/ Loop(t) \/ Reconnect(t) \/ ConnectionLost(t)
                             \/ PauseContinuousTask(t) \/ ResumeContinuousTask(t)
      PROVE  state' \in [Task -> States]
  BY <1>0, <1>4 DEF Loop, Reconnect, Redialled, ConnectionLost, PauseContinuousTask, ResumeContinuousTask,
     Paused, Resumed, States
<1>5. ASSUME NEW t \in Collectors, CollectorReturns(t) PROVE state' \in [Task -> States]
  BY <1>0, <1>5 DEF CollectorReturns, States
<1>6. ASSUME NEW t \in Processors, AddSubTask(t) \/ RollBackSubTask(t)
      PROVE  state' \in [Task -> States]
  BY <1>0, <1>6 DEF AddSubTask, RollBackSubTask, States
<1> QED
  BY <1>0, <1>1, <1>2, <1>3, <1>4, <1>5, <1>6 DEF Changes, StateSteps

\* The steps that change how far Start is.
LEMMA PhaseFacts ==
  ASSUME [RTNext]_rtVars
  PROVE  phase' = phase \/ StartReplays \/ StartTasks \/ Crash \/ ShutdownStores
BY RTCases DEF RouterRuns, ReplayPush, BroadcastTo, HandleDataArrived, PeriodicGC, HandlePause,
   HandleResume, HandleTerminate, ControlExit, ShutdownStopsTasks, ShutdownClosesRouter,
   ShutdownClosesLog, Loop, Reconnect, ConnectionLost, PauseContinuousTask,
   ResumeContinuousTask, Publish, CollectorReturns, TryPopWithDone, Handled, MarkAckedStep,
   Failed, AddSubTask, RollBackSubTask, SetSubscriberFilter, Signal, StartReplays, StartTasks,
   rtVars, control

\* The part of TasksOK about places and hands.
PlacesOK ==
  /\ pc \in [Task -> Places] /\ hand \in [Task -> HandSet]
  /\ \A t \in Task : /\ hand[t] # <<>> <=> pc[t] \in {"handling", "acking"}
                     /\ pc[t] \in {"popping", "handling", "acking"} => t \in Processors
                     /\ phase \in {"created", "replaying"} => pc[t] = "absent"

\* The parts are TasksOK.
LEMMA PlacesOfTasks ==
  TasksOK <=> state \in [Task -> States] /\ PlacesOK
BY DEF TasksOK, PlacesOK, HandSet

\* The same after a step.
LEMMA PlacesOfTasksNext ==
  TasksOK' <=> state' \in [Task -> States] /\ PlacesOK'
BY DEF TasksOK, PlacesOK, HandSet

\* PlacesOK, one task moves on.
LEMMA OnePlace ==
  ASSUME PlacesOK, NEW t \in Task, NEW p \in Places, NEW h \in HandSet,
         h # <<>> <=> p \in {"handling", "acking"},
         p \in {"popping", "handling", "acking"} => t \in Processors,
         phase' = phase, pc[t] # "absent" \/ phase = "up",
         pc' = [pc EXCEPT ![t] = p], hand' = [hand EXCEPT ![t] = h]
  PROVE  PlacesOK'
<1>1. phase \notin {"created", "replaying"}
  BY DEF PlacesOK
<1>2. pc' \in [Task -> Places] /\ hand' \in [Task -> HandSet]
  BY DEF PlacesOK
<1>3. \A u \in Task : pc'[u] = (IF u = t THEN p ELSE pc[u]) /\ hand'[u] = (IF u = t THEN h ELSE hand[u])
  BY DEF PlacesOK
<1> QED
  BY <1>1, <1>2, <1>3 DEF PlacesOK

\* An EXCEPT that changes nothing.
LEMMA SameHand ==
  ASSUME PlacesOK, NEW t \in Task
  PROVE  hand = [hand EXCEPT ![t] = hand[t]] /\ hand[t] \in HandSet
BY DEF PlacesOK

\* PlacesOK is kept.
LEMMA PlaceTypes ==
  ASSUME RTypes, [RTNext]_rtVars
  PROVE  PlacesOK'
<1>0. PlacesOK /\ Changes /\ BufOK
  BY ChangesFacts, PlacesOfTasks DEF RTypes
<1>1. CASE UNCHANGED <<pc, hand>>
  <2>1. CASE Crash
    BY <2>1 DEF Crash, PlacesOK, Places, HandSet
  <2>2. CASE phase' = phase \/ StartReplays \/ ShutdownStores
    BY <1>0, <1>1, <2>2 DEF StartReplays, ShutdownStores, PlacesOK
  <2>3. CASE StartTasks
    BY <1>0, <1>1, <2>3 DEF StartTasks, PlacesOK
  <2> QED
    BY <2>1, <2>2, <2>3, PhaseFacts
<1>2. CASE Crash
  BY <1>2 DEF Crash, PlacesOK, Places, HandSet
<1>3. CASE StartTasks
  <2>1. /\ pc' = [t \in Task |-> IF t \in LateTasks THEN "absent" ELSE "loop"]
        /\ hand' = hand /\ phase' = "up" /\ \A t \in Task : hand[t] = <<>>
    BY <1>0, <1>3 DEF StartTasks, stream, PlacesOK
  <2> QED
    BY <1>0, <2>1 DEF PlacesOK, Places
<1>4. ASSUME NEW t \in Task, Loop(t) \/ Reconnect(t) PROVE PlacesOK'
  <2>1. CASE pc' = pc
    BY <1>0, <1>1, <1>4, <2>1 DEF Loop, Reconnect, stream
  <2>2. CASE pc' # pc
    <3>1. /\ phase' = phase /\ hand' = hand /\ pc[t] \in {"loop", "reconnecting"}
          /\ \E p \in {"loop", "ended", "collecting", "popping"} :
               pc' = [pc EXCEPT ![t] = p] /\ (p = "popping" => t \notin Collectors)
      BY <1>4, <2>2 DEF Loop, Reconnect, stream, control
    <3>2. hand[t] = <<>>
      BY <1>0, <3>1 DEF PlacesOK
    <3>3. {"loop", "ended", "collecting", "popping"} \subseteq Places
      BY DEF Places
    <3> QED
      BY <1>0, <3>1, <3>2, <3>3, SameHand, OnePlace DEF Task
  <2> QED
    BY <2>1, <2>2
<1>5. ASSUME NEW t \in Collectors, CollectorReturns(t) PROVE PlacesOK'
  <2>1. /\ phase' = phase /\ hand' = hand /\ pc[t] = "collecting" /\ t \in Task
        /\ \E p \in {"loop", "reconnecting"} : pc' = [pc EXCEPT ![t] = p]
    BY <1>5 DEF CollectorReturns, stream, control, Task
  <2>2. hand[t] = <<>>
    BY <1>0, <2>1 DEF PlacesOK
  <2>3. {"loop", "reconnecting"} \subseteq Places
    BY DEF Places
  <2> QED
    BY <1>0, <2>1, <2>2, <2>3, SameHand, OnePlace
<1>6. ASSUME NEW t \in Processors, TryPopWithDone(t) PROVE PlacesOK'
  <2>1. t \in Task /\ phase' = phase /\ pc[t] = "popping"
    BY <1>6 DEF TryPopWithDone, control, Task
  <2>2. hand[t] = <<>> /\ {"handling", "loop"} \subseteq Places
    BY <1>0, <2>1 DEF PlacesOK, Places
  <2>3. CASE buf[SubOf[t]].items # <<>> /\ pc' = [pc EXCEPT ![t] = "handling"]
             /\ hand' = [hand EXCEPT ![t] = <<Head(buf[SubOf[t]].items)>>]
    <3>1. PICK b \in BufferSet : b = buf[SubOf[t]] /\ Len(b.items) <= b.capacity
      BY <1>0, RealtimeAssumption DEF BufOK
    <3>2. PICK x \in ItemSet : x = Head(buf[SubOf[t]].items)
      BY <2>3, <3>1, TryPopFacts
    <3>3. <<x>> \in HandSet /\ <<x>> # <<>>
      BY DEF HandSet
    <3> QED
      BY <1>0, <2>1, <2>2, <2>3, <3>2, <3>3, OnePlace
  <2>4. CASE pc' = [pc EXCEPT ![t] = "loop"] /\ hand' = hand
    BY <1>0, <2>1, <2>2, <2>4, SameHand, OnePlace
  <2> QED
    BY <1>6, <2>3, <2>4 DEF TryPopWithDone
<1>7. ASSUME NEW t \in Processors, Handled(t) \/ MarkAckedStep(t) \/ Failed(t) PROVE PlacesOK'
  <2>1. t \in Task /\ phase' = phase /\ pc[t] # "absent"
    BY <1>7 DEF Handled, MarkAckedStep, Failed, control, Task
  <2>2. <<>> \in HandSet /\ {"acking", "loop"} \subseteq Places
    BY DEF HandSet, Places
  <2>3. CASE pc' = [pc EXCEPT ![t] = "loop"] /\ hand' = [hand EXCEPT ![t] = <<>>]
    BY <1>0, <2>1, <2>2, <2>3, OnePlace
  <2>4. CASE pc[t] = "handling" /\ pc' = [pc EXCEPT ![t] = "acking"] /\ hand' = [hand EXCEPT ![t] = hand[t]]
    <3>1. hand[t] # <<>> /\ hand[t] \in HandSet
      BY <1>0, <2>1, <2>4 DEF PlacesOK
    <3> QED
      BY <1>0, <2>1, <2>2, <2>4, <3>1, OnePlace
  <2> QED
    BY <1>7, <2>3, <2>4 DEF Handled, MarkAckedStep, Failed
<1>8. ASSUME NEW t \in Processors, AddSubTask(t) PROVE PlacesOK'
  <2>1. t \in Task /\ phase' = phase /\ hand' = hand /\ pc[t] \in {"absent", "adding"}
        /\ (pc[t] = "absent" => phase = "up")
        /\ (pc' = [pc EXCEPT ![t] = "adding"] \/ pc' = [pc EXCEPT ![t] = "loop"])
    BY <1>8 DEF AddSubTask, Call, control, stream, Task
  <2>2. hand[t] = <<>> /\ {"adding", "loop"} \subseteq Places
    BY <1>0, <2>1 DEF PlacesOK, Places
  <2> QED
    BY <1>0, <2>1, <2>2, SameHand, OnePlace
<1> QED
  BY <1>0, <1>1, <1>2, <1>3, <1>4, <1>5, <1>6, <1>7, <1>8 DEF Changes, PlaceSteps

\* The tasks keep their types.
LEMMA TasksTypes ==
  ASSUME RTypes, [RTNext]_rtVars
  PROVE  TasksOK'
BY StateTypes, PlaceTypes, PlacesOfTasksNext

\* So does the control.
LEMMA ControlTypes ==
  ASSUME RTypes, [RTNext]_rtVars
  PROVE  ControlOK'
<1>0. ControlOK /\ Changes /\ MaxCalls \in Nat /\ MaxDrops \in Nat
  BY ChangesFacts, RealtimeAssumption DEF RTypes
<1>1. calls' \in 0 .. MaxCalls /\ drops' \in 0 .. MaxDrops
  <2>1. calls \in 0 .. MaxCalls /\ drops \in 0 .. MaxDrops
    BY <1>0 DEF ControlOK
  <2>2. /\ calls' = calls \/ (calls < MaxCalls /\ calls' = calls + 1)
        /\ drops' = drops \/ (drops < MaxDrops /\ drops' = drops + 1)
    BY <1>0 DEF Changes, BoundSteps, ConnectionLost, PauseContinuousTask, ResumeContinuousTask,
       CollectorReturns, AddSubTask, SetSubscriberFilter, Signal, Call, bounds
  <2> QED
    BY <1>0, <2>1, <2>2
<1>2. CASE UNCHANGED <<row, status, phase, ctl, ctxDone, walOpen>>
  BY <1>0, <1>1, <1>2 DEF ControlOK
<1>3. CASE StartReplays \/ StartTasks \/ Crash
  BY <1>0, <1>1, <1>3 DEF ControlOK, StartReplays, StartTasks, Crash, persistent
<1>4. CASE HandlePause \/ HandleResume \/ HandleTerminate \/ ControlExit
  BY <1>0, <1>1, <1>4 DEF ControlOK, HandlePause, HandleResume, HandleTerminate, ControlExit, persistent
<1>5. CASE ShutdownStopsTasks \/ ShutdownClosesRouter \/ ShutdownClosesLog \/ ShutdownStores
  BY <1>0, <1>1, <1>5 DEF ControlOK, ShutdownStopsTasks, ShutdownClosesRouter, ShutdownClosesLog,
     ShutdownStores, persistent
<1> QED
  BY <1>0, <1>2, <1>3, <1>4, <1>5 DEF Changes, PhaseSteps

\* What a subscriber's turn writes down.
LEMMA OfferHist ==
  ASSUME hist \in HistSet, NEW s \in Subs, NEW d \in Data, NEW n, Offer(s, d, n)
  PROVE  \/ hist' = hist
         \/ hist' = [hist EXCEPT !.got = [hist.got EXCEPT ![s] = hist.got[s] \cup {d}],
                                 !.lost = [hist.lost EXCEPT ![s] =
                                   IF HasRoom(buf[s]) THEN hist.lost[s] ELSE hist.lost[s] \cup {d}]]
BY DEF Offer, HistSet

\* What is kept for the properties keeps its type.
LEMMA HistTypes ==
  ASSUME RTypes, [RTNext]_rtVars
  PROVE  hist' \in HistSet
<1>0. hist \in HistSet /\ Changes /\ StreamOK /\ PlacesOK /\ FeedOK
  BY ChangesFacts, PlacesOfTasks DEF RTypes
<1>a. /\ hist.got \in [Subs -> SUBSET Data] /\ hist.done \in [Subs -> SUBSET Data]
      /\ hist.lost \in [Subs -> SUBSET Data] /\ hist.since \in [Task -> Nat]
  BY <1>0 DEF HistSet
<1>b. ASSUME NEW s \in Subs, NEW d \in Data
      PROVE  /\ [hist.got EXCEPT ![s] = hist.got[s] \cup {d}] \in [Subs -> SUBSET Data]
             /\ [hist.done EXCEPT ![s] = hist.done[s] \cup {d}] \in [Subs -> SUBSET Data]
             /\ [hist.lost EXCEPT ![s] = hist.lost[s] \cup {d}] \in [Subs -> SUBSET Data]
             /\ [hist.lost EXCEPT ![s] = hist.lost[s]] \in [Subs -> SUBSET Data]
  BY <1>a
<1>c. ASSUME NEW t \in Task
      PROVE  /\ [hist.since EXCEPT ![t] = 0] \in [Task -> Nat]
             /\ [hist.since EXCEPT ![t] = hist.since[t] + 1] \in [Task -> Nat]
  BY <1>a
<1>1. CASE hist' = hist
  BY <1>0, <1>1
<1>2. CASE Crash
  BY <1>0, <1>2 DEF Crash, FreshHist, HistSet
<1>3. CASE HandleResume
  <2>1. [t \in Task |-> 0] \in [Task -> Nat]
    OBVIOUS
  <2>2. hist' = [hist EXCEPT !.since = [t \in Task |-> 0]]
    BY <1>3 DEF HandleResume
  <2> QED
    BY <1>0, <2>1, <2>2 DEF HistSet
<1>4. CASE ShutdownClosesRouter
  <2>1. PICK g \in BOOLEAN : hist' = [hist EXCEPT !.gaveUp = g]
    BY <1>4 DEF ShutdownClosesRouter
  <2> QED
    BY <1>0, <2>1 DEF HistSet
<1>5. ASSUME NEW s \in Subs, ReplayPush(s) \/ BroadcastTo(s) PROVE hist' \in HistSet
  <2>1. PICK x \in Offered : Offer(s, x.data, x.seq)
    BY <1>0, <1>5 DEF ReplayPush, BroadcastTo, StreamOK
  <2>2. PICK d \in Data : d = x.data
    BY DEF Offered
  <2>3. CASE hist' # hist
    <3>1. PICK g \in [Subs -> SUBSET Data] : g = [hist.got EXCEPT ![s] = hist.got[s] \cup {d}]
      BY <1>b
    <3>2. PICK l \in [Subs -> SUBSET Data] :
            l = [hist.lost EXCEPT ![s] =
                   IF HasRoom(buf[s]) THEN hist.lost[s] ELSE hist.lost[s] \cup {d}]
      BY <1>b
    <3>3. hist' = [hist EXCEPT !.got = g, !.lost = l]
      BY <1>0, <2>1, <2>2, <2>3, <3>1, <3>2, OfferHist
    <3> QED
      BY <1>0, <3>3 DEF HistSet
  <2> QED
    BY <1>1, <2>3
<1>6. ASSUME NEW d \in Data, HandleDataArrived(d) PROVE hist' \in HistSet
  <2>1. hist' = hist \/ hist' = [hist EXCEPT !.numbers = hist.numbers \cup {sequenceCounter + 1}]
    BY <1>6 DEF HandleDataArrived
  <2>2. sequenceCounter + 1 \in Nat
    BY <1>0 DEF FeedOK
  <2> QED
    BY <1>0, <2>1, <2>2 DEF HistSet
<1>7. ASSUME NEW t \in Task, Reconnect(t) \/ ResumeContinuousTask(t) PROVE hist' \in HistSet
  <2>1. hist' = hist \/ hist' = [hist EXCEPT !.since = [hist.since EXCEPT ![t] = 0]]
    BY <1>7 DEF Reconnect, Redialled, ResumeContinuousTask
  <2> QED
    BY <1>0, <1>c, <2>1 DEF HistSet
<1>8. ASSUME NEW t \in Processors, TryPopWithDone(t) PROVE hist' \in HistSet
  <2>1. \/ hist' = hist
        \/ hist' = [hist EXCEPT !.since = [hist.since EXCEPT ![t] = 0]]
        \/ hist' = [hist EXCEPT !.since = [hist.since EXCEPT ![t] = hist.since[t] + 1]]
    BY <1>8 DEF TryPopWithDone
  <2>2. t \in Task
    BY DEF Task
  <2> QED
    BY <1>0, <1>c, <2>1, <2>2 DEF HistSet
<1>9. ASSUME NEW t \in Processors, Handled(t) \/ Failed(t) PROVE hist' \in HistSet
  <2>1. pc[t] = "handling" /\ t \in Task /\ SubOf[t] \in Subs
    BY <1>9, RealtimeAssumption DEF Handled, Failed, Task
  <2>2. PICK x \in ItemSet : hand[t] = <<x>> /\ hand[t][1] = x
    BY <1>0, <2>1 DEF PlacesOK, HandSet
  <2>3. PICK d \in Data, n \in Nat : d = x.data /\ n = x.seq
    BY DEF ItemSet
  <2>c. PICK l \in [Subs -> SUBSET Data], e \in [Subs -> SUBSET Data] :
          /\ l = [hist.lost EXCEPT ![SubOf[t]] = hist.lost[SubOf[t]] \cup {d}]
          /\ e = [hist.done EXCEPT ![SubOf[t]] = hist.done[SubOf[t]] \cup {d}]
    BY <1>b, <2>1
  <2>4. \/ hist' = hist
        \/ hist' = [hist EXCEPT !.lost = [hist.lost EXCEPT ![SubOf[t]] = hist.lost[SubOf[t]] \cup {d}]]
        \/ hist' = [hist EXCEPT !.done = [hist.done EXCEPT ![SubOf[t]] = hist.done[SubOf[t]] \cup {d}],
                                !.handledNumbers = hist.handledNumbers \cup {n}]
    BY <1>9, <2>2, <2>3 DEF Handled, Failed
  <2>5. PICK k \in SUBSET Nat : k = hist.handledNumbers \cup {n}
    BY <1>0 DEF HistSet
  <2>6. \/ hist' = hist \/ hist' = [hist EXCEPT !.lost = l]
        \/ hist' = [hist EXCEPT !.done = e, !.handledNumbers = k]
    BY ONLY <2>c, <2>4, <2>5
  <2> QED
    BY <1>0, <2>6 DEF HistSet
<1>10. ASSUME NEW t \in Processors, MarkAckedStep(t) PROVE hist' \in HistSet
  <2>1. hist' = [hist EXCEPT !.late = hist.late \/ ~walOpen]
    BY <1>10 DEF MarkAckedStep
  <2>2. (hist.late \/ ~walOpen) \in BOOLEAN
    OBVIOUS
  <2> QED
    BY <1>0, <2>1, <2>2 DEF HistSet
<1> QED
  BY <1>0, <1>1, <1>2, <1>3, <1>4, <1>5, <1>6, <1>7, <1>8, <1>9, <1>10 DEF Changes, HistSteps

\* The types are kept.
LEMMA RTypesNext ==
  ASSUME RTypes, [RTNext]_rtVars
  PROVE  RTypes'
BY LogTypes, FeedTypes, StreamTypes, BufTypes, TasksTypes, ControlTypes, HistTypes DEF RTypes

-----------------------------------------------------------------------------
(* The log.                                                                *)

\* What was handled, done or lost stays so, but for what a new process forgets.
LEMMA HistGrows ==
  ASSUME RTypes, [RTNext]_rtVars
  PROVE  /\ hist.handledNumbers \subseteq hist'.handledNumbers
         /\ hist'.numbers = hist.numbers \/ \E d \in Data : HandleDataArrived(d)
         /\ hist'.got = hist.got \/ Crash \/ \E s \in Subs : ReplayPush(s) \/ BroadcastTo(s)
         /\ Crash \/ \A s \in Subs : /\ hist.done[s] \subseteq hist'.done[s]
                                     /\ hist.lost[s] \subseteq hist'.lost[s]
         /\ hist'.gaveUp = hist.gaveUp \/ Crash \/ ShutdownClosesRouter
         /\ hist'.late = hist.late \/ Crash \/ \E t \in Processors : MarkAckedStep(t)
<1>0. hist \in HistSet /\ Changes /\ StreamOK
  BY ChangesFacts DEF RTypes
<1>a. /\ hist.got \in [Subs -> SUBSET Data] /\ hist.done \in [Subs -> SUBSET Data]
      /\ hist.lost \in [Subs -> SUBSET Data] /\ hist.since \in [Task -> Nat]
  BY <1>0 DEF HistSet
<1>1. CASE hist' = hist
  BY <1>1
<1>2. CASE Crash
  BY <1>0, <1>2 DEF Crash, FreshHist, HistSet
<1>3. CASE HandleResume
  <2>1. hist' = [hist EXCEPT !.since = [t \in Task |-> 0]]
    BY <1>3 DEF HandleResume
  <2> QED
    BY <1>0, <2>1 DEF HistSet
<1>4. CASE ShutdownClosesRouter
  <2>1. PICK g \in BOOLEAN : hist' = [hist EXCEPT !.gaveUp = g]
    BY <1>4 DEF ShutdownClosesRouter
  <2> QED
    BY <1>0, <1>4, <2>1 DEF HistSet
<1>5. ASSUME NEW s \in Subs, ReplayPush(s) \/ BroadcastTo(s)
      PROVE  /\ hist'.handledNumbers = hist.handledNumbers /\ hist'.numbers = hist.numbers
             /\ hist'.done = hist.done /\ hist'.gaveUp = hist.gaveUp /\ hist'.late = hist.late
             /\ \A u \in Subs : hist.lost[u] \subseteq hist'.lost[u]
  <2>1. PICK x \in Offered : Offer(s, x.data, x.seq)
    BY <1>0, <1>5 DEF ReplayPush, BroadcastTo, StreamOK
  <2>2. PICK d \in Data : d = x.data
    BY DEF Offered
  <2>3. CASE hist' # hist
    <3>1. PICK g, l :
            /\ g = [hist.got EXCEPT ![s] = hist.got[s] \cup {d}]
            /\ l = [hist.lost EXCEPT ![s] =
                     IF HasRoom(buf[s]) THEN hist.lost[s] ELSE hist.lost[s] \cup {d}]
      OBVIOUS
    <3>2. hist' = [hist EXCEPT !.got = g, !.lost = l]
      BY <1>0, <2>1, <2>2, <2>3, <3>1, OfferHist
    <3>3. \A u \in Subs : hist.lost[u] \subseteq l[u]
      BY <1>a, <3>1
    <3> QED
      BY <1>0, <3>2, <3>3 DEF HistSet
  <2> QED
    BY <2>3
<1>6. ASSUME NEW d \in Data, HandleDataArrived(d)
      PROVE  hist' = hist \/ \E k : hist' = [hist EXCEPT !.numbers = k]
  BY <1>6 DEF HandleDataArrived
<1>7. ASSUME NEW t \in Task, Reconnect(t) \/ ResumeContinuousTask(t)
      PROVE  hist' = hist \/ \E k : hist' = [hist EXCEPT !.since = k]
  BY <1>7 DEF Reconnect, Redialled, ResumeContinuousTask
<1>8. ASSUME NEW t \in Processors, TryPopWithDone(t)
      PROVE  hist' = hist \/ \E k : hist' = [hist EXCEPT !.since = k]
  BY <1>8 DEF TryPopWithDone
<1>9. ASSUME NEW t \in Processors, Handled(t) \/ Failed(t)
      PROVE  /\ hist.handledNumbers \subseteq hist'.handledNumbers
             /\ hist'.numbers = hist.numbers /\ hist'.got = hist.got
             /\ hist'.gaveUp = hist.gaveUp /\ hist'.late = hist.late
             /\ \A s \in Subs : /\ hist.done[s] \subseteq hist'.done[s]
                                /\ hist.lost[s] \subseteq hist'.lost[s]
  <2>1. PICK d, n : d = hand[t][1].data /\ n = hand[t][1].seq
    OBVIOUS
  <2>2. PICK l, e, k : /\ l = [hist.lost EXCEPT ![SubOf[t]] = hist.lost[SubOf[t]] \cup {d}]
                       /\ e = [hist.done EXCEPT ![SubOf[t]] = hist.done[SubOf[t]] \cup {d}]
                       /\ k = hist.handledNumbers \cup {n}
    OBVIOUS
  <2>3. \/ hist' = hist \/ hist' = [hist EXCEPT !.lost = l]
        \/ hist' = [hist EXCEPT !.done = e, !.handledNumbers = k]
    <3>1. CASE Handled(t)
      <4>1. hist' = [hist EXCEPT !.done = [hist.done EXCEPT ![SubOf[t]] = hist.done[SubOf[t]] \cup {d}],
                                 !.handledNumbers = hist.handledNumbers \cup {n}]
        BY <2>1, <3>1 DEF Handled
      <4> QED
        BY ONLY <2>2, <4>1
    <3>2. CASE Failed(t)
      <4>1. \/ hist' = hist
            \/ hist' = [hist EXCEPT !.lost = [hist.lost EXCEPT ![SubOf[t]] = hist.lost[SubOf[t]] \cup {d}]]
        BY <2>1, <3>2 DEF Failed
      <4> QED
        BY ONLY <2>2, <4>1
    <3> QED
      BY <1>9, <3>1, <3>2
  <2>4. \A s \in Subs : hist.lost[s] \subseteq l[s] /\ hist.done[s] \subseteq e[s]
    BY <1>a, <2>2
  <2>5. hist.handledNumbers \subseteq k
    BY <2>2
  <2> QED
    BY <1>0, <2>3, <2>4, <2>5 DEF HistSet
<1>10. ASSUME NEW t \in Processors, MarkAckedStep(t)
       PROVE  \E k : hist' = [hist EXCEPT !.late = k]
  BY <1>10 DEF MarkAckedStep
<1>11. CASE (\E d \in Data : HandleDataArrived(d))
            \/ \E t \in Task : Reconnect(t) \/ ResumeContinuousTask(t)
  BY <1>0, <1>6, <1>7, <1>11 DEF HistSet
<1>12. CASE \E t \in Processors : TryPopWithDone(t) \/ MarkAckedStep(t)
  BY <1>0, <1>8, <1>10, <1>12 DEF HistSet
<1>13. CASE \E t \in Processors : Handled(t) \/ Failed(t)
  BY <1>9, <1>13
<1>14. CASE \E s \in Subs : ReplayPush(s) \/ BroadcastTo(s)
  BY <1>5, <1>14
<1> QED
  BY <1>0, <1>1, <1>2, <1>3, <1>4, <1>11, <1>12, <1>13, <1>14 DEF Changes, HistSteps

\* LogInv is kept: an ack follows a success, and GC drops only what is acked.
LEMMA LogInvNext ==
  ASSUME RTypes, LogInv, AckInv, [RTNext]_rtVars
  PROVE  LogInv'
<1>0. LogOK /\ FeedOK /\ Changes /\ PlacesOK
  BY ChangesFacts, PlacesOfTasks DEF RTypes
<1>1. /\ hist.handledNumbers \subseteq hist'.handledNumbers
      /\ hist'.numbers = hist.numbers \/ \E d \in Data : HandleDataArrived(d)
  BY HistGrows
<1>2. ASSUME NEW d \in Data, HandleDataArrived(d) PROVE LogInv'
  <2>1. PICK n \in Nat : n = sequenceCounter + 1
    BY <1>0 DEF FeedOK
  <2>2. \/ wal' = wal /\ hist' = hist
        \/ wal' = AppendRecord(wal, n, d)
           /\ hist' = [hist EXCEPT !.numbers = hist.numbers \cup {n}]
    BY <1>2, <2>1 DEF HandleDataArrived
  <2>3. CASE wal' = AppendRecord(wal, n, d)
             /\ hist' = [hist EXCEPT !.numbers = hist.numbers \cup {n}]
    <3>1. hist'.numbers = hist.numbers \cup {n} /\ hist'.handledNumbers = hist.handledNumbers
      BY <2>3 DEF RTypes, HistSet
    <3>2. CASE n \in DOMAIN wal
      BY <2>3, <3>1, <3>2 DEF LogInv, AppendRecord
    <3>3. CASE n \notin DOMAIN wal
      <4>1. wal' = [m \in DOMAIN wal \cup {n} |->
                      IF m = n THEN [data |-> d, acked |-> FALSE] ELSE wal[m]]
        BY <2>3, <3>3 DEF AppendRecord
      <4>2. /\ DOMAIN wal' = DOMAIN wal \cup {n}
            /\ \A m \in DOMAIN wal' : wal'[m].acked => m \in DOMAIN wal /\ wal[m].acked
        BY <4>1
      <4> QED
        BY <3>1, <4>2 DEF LogInv
    <3> QED
      BY <3>2, <3>3
  <2> QED
    BY <2>2, <2>3 DEF LogInv
<1>3. CASE wal' = wal /\ hist'.numbers = hist.numbers
  BY <1>1, <1>3 DEF LogInv
<1>4. CASE (PeriodicGC \/ ShutdownClosesLog) /\ hist'.numbers = hist.numbers
  <2>1. wal' = GC(wal) \/ wal' = wal
    BY <1>4 DEF PeriodicGC, ShutdownClosesLog
  <2>2. CASE wal' = GC(wal)
    <3>1. /\ DOMAIN wal' = Unacked(wal) /\ \A n \in DOMAIN wal' : wal'[n] = wal[n]
      BY <2>2 DEF GC
    <3> QED
      BY <1>1, <1>4, <3>1 DEF LogInv, Unacked
  <2> QED
    BY <1>3, <1>4, <2>1, <2>2
<1>5. ASSUME NEW t \in Processors, MarkAckedStep(t), hist'.numbers = hist.numbers PROVE LogInv'
  <2>1. PICK n : n = hand[t][1].seq /\ n \in hist.handledNumbers
    BY <1>5 DEF MarkAckedStep, AckInv, Task
  <2>2. wal' = wal \/ wal' = MarkAcked(wal, n)
    BY <1>5, <2>1 DEF MarkAckedStep
  <2>3. CASE wal' = MarkAcked(wal, n)
    <3>1. /\ DOMAIN wal' = DOMAIN wal
          /\ \A m \in DOMAIN wal' : m # n => wal'[m] = wal[m]
      BY <2>3 DEF MarkAcked
    <3> QED
      BY <1>1, <1>5, <2>1, <3>1 DEF LogInv
  <2> QED
    BY <1>3, <1>5, <2>2, <2>3
<1> QED
  BY <1>0, <1>1, <1>2, <1>3, <1>4, <1>5 DEF Changes, WalSteps

\* The steps that empty or fill a task's hand.
LEMMA HandMoves ==
  ASSUME RTypes, [RTNext]_rtVars, NEW t \in Task
  PROVE  \/ hand'[t] = hand[t] /\ (pc'[t] = "acking" => pc[t] = "acking")
         \/ Crash
         \/ TryPopWithDone(t) \/ Handled(t) \/ MarkAckedStep(t) \/ Failed(t)
<1>0. PlacesOK /\ Changes
  BY ChangesFacts, PlacesOfTasks DEF RTypes
<1>a. pc \in [Task -> Places] /\ hand \in [Task -> HandSet]
  BY <1>0 DEF PlacesOK
<1>1. CASE UNCHANGED <<pc, hand>> \/ Crash
  BY <1>1
<1>2. CASE StartTasks
  BY <1>2 DEF StartTasks, stream
<1>3. ASSUME NEW u \in Task, Loop(u) \/ Reconnect(u)
      PROVE  hand'[t] = hand[t] /\ (pc'[t] = "acking" => pc[t] = "acking")
  BY <1>a, <1>3 DEF Loop, Reconnect, stream
<1>4. ASSUME NEW u \in Collectors, CollectorReturns(u)
      PROVE  hand'[t] = hand[t] /\ (pc'[t] = "acking" => pc[t] = "acking")
  BY <1>a, <1>4 DEF CollectorReturns, stream
<1>5. ASSUME NEW u \in Processors, AddSubTask(u)
      PROVE  hand'[t] = hand[t] /\ (pc'[t] = "acking" => pc[t] = "acking")
  BY <1>a, <1>5 DEF AddSubTask, stream
<1>6. ASSUME NEW u \in Processors, u # t,
             TryPopWithDone(u) \/ Handled(u) \/ MarkAckedStep(u) \/ Failed(u)
      PROVE  hand'[t] = hand[t] /\ (pc'[t] = "acking" => pc[t] = "acking")
  BY <1>a, <1>6 DEF TryPopWithDone, Handled, MarkAckedStep, Failed
<1> QED
  BY <1>0, <1>1, <1>2, <1>3, <1>4, <1>5, <1>6 DEF Changes, PlaceSteps

\* What a success writes down.
LEMMA HandledFacts ==
  ASSUME RTypes, NEW t \in Task, Handled(t)
  PROVE  /\ hand[t][1].seq \in hist'.handledNumbers
         /\ t \in Processors => hand[t][1].data \in hist'.done[SubOf[t]]
         /\ hand'[t] = hand[t] \/ (hand'[t] = <<>> /\ pc'[t] = "loop")
<1>0. PlacesOK /\ hist \in HistSet
  BY PlacesOfTasks DEF RTypes
<1>1. PICK d, n : d = hand[t][1].data /\ n = hand[t][1].seq
  OBVIOUS
<1>2. PICK e, k : /\ e = [hist.done EXCEPT ![SubOf[t]] = hist.done[SubOf[t]] \cup {d}]
                  /\ k = hist.handledNumbers \cup {n}
  OBVIOUS
<1>3. hist' = [hist EXCEPT !.done = e, !.handledNumbers = k]
  <2>1. hist' = [hist EXCEPT !.done = [hist.done EXCEPT ![SubOf[t]] = hist.done[SubOf[t]] \cup {d}],
                             !.handledNumbers = hist.handledNumbers \cup {n}]
    BY <1>1 DEF Handled
  <2> QED
    BY ONLY <1>2, <2>1
<1>4. hist'.done = e /\ hist'.handledNumbers = k
  BY <1>0, <1>3 DEF HistSet
<1>5. t \in Processors => d \in e[SubOf[t]]
  <2>1. hist.done \in [Subs -> SUBSET Data]
    BY <1>0 DEF HistSet
  <2>2. t \in Processors => SubOf[t] \in Subs
    BY RealtimeAssumption
  <2> QED
    BY <1>2, <2>1, <2>2
<1>6. hand'[t] = hand[t] \/ (hand'[t] = <<>> /\ pc'[t] = "loop")
  BY <1>0 DEF Handled, PlacesOK
<1> QED
  BY <1>1, <1>2, <1>4, <1>5, <1>6

\* AckInv is kept.
LEMMA AckInvNext ==
  ASSUME RTypes, AckInv, [RTNext]_rtVars
  PROVE  AckInv'
<1>0. PlacesOK /\ PlacesOK'
  BY PlacesOfTasks, PlaceTypes DEF RTypes
<1>1. /\ hist.handledNumbers \subseteq hist'.handledNumbers
      /\ Crash \/ \A s \in Subs : hist.done[s] \subseteq hist'.done[s]
  BY HistGrows
<1>2. SUFFICES ASSUME NEW t \in Task, pc'[t] = "acking"
               PROVE  /\ hand'[t][1].seq \in hist'.handledNumbers
                      /\ hand'[t][1].data \in hist'.done[SubOf[t]]
  BY DEF AckInv
<1>3. t \in Processors /\ SubOf[t] \in Subs
  BY <1>0, <1>2, RealtimeAssumption DEF PlacesOK
<1>4. ~Crash /\ ~TryPopWithDone(t) /\ ~MarkAckedStep(t) /\ ~Failed(t)
  BY <1>0, <1>2 DEF Crash, TryPopWithDone, MarkAckedStep, Failed, PlacesOK
<1>5. CASE pc[t] = "acking" /\ hand'[t] = hand[t]
  BY <1>1, <1>3, <1>4, <1>5 DEF AckInv
<1>6. CASE Handled(t)
  BY <1>2, <1>3, <1>6, HandledFacts
<1> QED
  BY <1>2, <1>4, <1>5, <1>6, HandMoves

\* A processor of s holds d.
InHand(s, d) == \E t \in Processors : SubOf[t] = s /\ hand[t] # <<>> /\ hand[t][1].data = d

\* NothingLost of one datum.
Kept(s, d) == d \in hist.done[s] \cup hist.lost[s] \/ Holds(buf[s], d) \/ InHand(s, d)

-----------------------------------------------------------------------------
(* NothingLost.                                                            *)

\* NothingLost, item by item.
LEMMA NothingLostParts ==
  NothingLost <=> \A s \in Subs : \A d \in hist.got[s] : Kept(s, d)
BY DEF NothingLost, Kept, Holds, InHand

\* The same after a step.
LEMMA NothingLostPartsNext ==
  NothingLost' <=> \A s \in Subs : \A d \in hist'.got[s] : Kept(s, d)'
BY DEF NothingLost, Kept, Holds, InHand

\* What Kept says after a step.
LEMMA HoldsNext ==
  ASSUME NEW s, NEW d
  PROVE  Kept(s, d)' <=> \/ d \in hist'.done[s] \cup hist'.lost[s]
                         \/ Holds(buf'[s], d)
                         \/ \E t \in Processors : /\ SubOf[t] = s /\ hand'[t] # <<>>
                                                  /\ hand'[t][1].data = d
BY DEF Kept, Holds, InHand

\* A subscriber's turn: the datum is in the buffer or was counted, and the others
\* stay.
LEMMA OfferKeeps ==
  ASSUME RTypes, NEW s \in Subs, NEW x \in Offered, Offer(s, x.data, x.seq), hand' = hand,
         NEW u \in Subs, NEW d \in hist'.got[u], d \in hist.got[u] => Kept(u, d)
  PROVE  Kept(u, d)'
<1>0. hist \in HistSet /\ BufOK
  BY DEF RTypes
<1>1. /\ hist.got \in [Subs -> SUBSET Data] /\ hist.done \in [Subs -> SUBSET Data]
      /\ hist.lost \in [Subs -> SUBSET Data]
  BY <1>0 DEF HistSet
<1>2. PICK e \in Data, n \in Nat : e = x.data /\ n = x.seq
  BY DEF Offered
<1>3. CASE ~Accept(s, e)
  <2>1. buf' = buf /\ hist' = hist
    BY <1>2, <1>3 DEF Offer
  <2> QED
    BY <2>1, HoldsNext DEF Kept, InHand
<1>4. CASE Accept(s, e)
  <2>a. PICK b \in BufferSet : b = buf[s] /\ Len(b.items) <= b.capacity
    BY <1>0 DEF BufOK
  <2>b. PICK i \in ItemSet : i = Item(e, n)
    <3>1. Item(e, n) \in ItemSet
      BY RealtimeAssumption DEF Item, ItemSet
    <3> QED
      BY <3>1
  <2>1. /\ b = buf[s] /\ Len(b.items) <= b.capacity
        /\ i = Item(e, n) /\ i.data = e
    BY <2>a, <2>b DEF Item
  <2>2. PICK g, l : /\ g = [hist.got EXCEPT ![s] = hist.got[s] \cup {e}]
                    /\ l = [hist.lost EXCEPT ![s] =
                             IF HasRoom(b) THEN hist.lost[s] ELSE hist.lost[s] \cup {e}]
    OBVIOUS
  <2>3. /\ hist' = [hist EXCEPT !.got = g, !.lost = l]
        /\ buf' = [buf EXCEPT ![s] = Push(b, i)]
    <3>1. Offer(s, e, n)
      BY <1>2
    <3>2. buf' = [buf EXCEPT ![s] = Push(b, i)]
      BY <1>4, <2>1, <3>1 DEF Offer
    <3>4. hist' = [hist EXCEPT !.got = [hist.got EXCEPT ![s] = hist.got[s] \cup {e}],
                               !.lost = [hist.lost EXCEPT ![s] =
                                 IF HasRoom(buf[s]) THEN hist.lost[s] ELSE hist.lost[s] \cup {e}]]
      BY <1>0, <1>4, <3>1 DEF Offer, HistSet
    <3> QED
      BY ONLY <2>1, <2>2, <3>2, <3>4
  <2>4. hist'.done = hist.done /\ hist'.got = g /\ hist'.lost = l
    BY <1>0, <2>3 DEF HistSet
  <2>5. /\ \A c : Holds(b, c) => Holds(Push(b, i), c)
        /\ HasRoom(b) => Holds(Push(b, i), e)
    BY <2>1, PushFacts
  <2>6. buf'[u] = IF u = s THEN Push(b, i) ELSE buf[u]
    BY <1>0, <2>3 DEF BufOK
  <2>7. CASE u = s /\ d = e
    <3>1. HasRoom(b) \/ e \in l[s]
      BY <1>1, <2>2
    <3> QED
      BY <2>4, <2>5, <2>6, <2>7, <3>1, HoldsNext
  <2>8. CASE ~(u = s /\ d = e)
    <3>1. d \in hist.got[u]
      BY <1>1, <2>2, <2>4, <2>8
    <3>2. hist.lost[u] \subseteq l[u]
      BY <1>1, <2>2
    <3>3. Holds(buf[u], d) => Holds(buf'[u], d)
      BY <2>1, <2>5, <2>6
    <3> QED
      BY <2>4, <3>1, <3>2, <3>3, HoldsNext DEF Kept, InHand
  <2> QED
    BY <2>7, <2>8
<1> QED
  BY <1>3, <1>4

\* A failure: the item is back in the buffer or was counted.
LEMMA FailedFacts ==
  ASSUME RTypes, NEW t \in Processors, Failed(t)
  PROVE  /\ \A s \in Subs : \A d : Holds(buf[s], d) => Holds(buf'[s], d)
         /\ \/ Holds(buf'[SubOf[t]], hand[t][1].data)
            \/ hand[t][1].data \in hist'.lost[SubOf[t]]
<1>0. hist \in HistSet /\ BufOK /\ PlacesOK /\ SubOf[t] \in Subs
  BY PlacesOfTasks, RealtimeAssumption DEF RTypes
<1>1. PICK x \in ItemSet : hand[t] = <<x>> /\ hand[t][1] = x
  BY <1>0 DEF Failed, PlacesOK, HandSet, Task
<1>2. PICK b \in BufferSet : b = buf[SubOf[t]] /\ Len(b.items) <= b.capacity
  BY <1>0 DEF BufOK
<1>3. CASE x.tries < MaxRetries
  <2>1. PICK y \in ItemSet : y = [x EXCEPT !.tries = x.tries + 1]
    <3>1. x.tries + 1 \in 0 .. MaxRetries
      BY <1>3, RealtimeAssumption DEF ItemSet
    <3> QED
      BY <3>1 DEF ItemSet
  <2>2. y.data = x.data
    BY <2>1 DEF ItemSet
  <2>3. /\ buf' = [buf EXCEPT ![SubOf[t]] = Push(b, y)]
    BY <1>1, <1>2, <1>3, <2>1 DEF Failed
  <2>4. /\ \A d : Holds(b, d) => Holds(Push(b, y), d)
        /\ HasRoom(b) => Holds(Push(b, y), x.data)
    BY <1>2, <2>2, PushFacts
  <2>5. \A s \in Subs : buf'[s] = IF s = SubOf[t] THEN Push(b, y) ELSE buf[s]
    BY <1>0, <2>3 DEF BufOK
  <2>6. CASE HasRoom(b)
    BY <1>0, <1>1, <1>2, <2>4, <2>5, <2>6
  <2>7. CASE ~HasRoom(b)
    <3>1. hist' = [hist EXCEPT !.lost = [hist.lost EXCEPT ![SubOf[t]] = hist.lost[SubOf[t]] \cup {x.data}]]
      BY <1>1, <1>2, <2>7 DEF Failed
    <3>2. x.data \in hist'.lost[SubOf[t]]
      BY <1>0, <3>1 DEF HistSet
    <3> QED
      BY <1>1, <1>2, <2>4, <2>5, <3>2
  <2> QED
    BY <2>6, <2>7
<1>4. CASE ~(x.tries < MaxRetries)
  <2>1. buf' = buf
    BY <1>1, <1>4 DEF Failed
  <2>2. hist' = [hist EXCEPT !.lost = [hist.lost EXCEPT ![SubOf[t]] = hist.lost[SubOf[t]] \cup {x.data}]]
    BY <1>1, <1>4 DEF Failed
  <2>3. x.data \in hist'.lost[SubOf[t]]
    BY <1>0, <2>2 DEF HistSet
  <2> QED
    BY <1>1, <2>1, <2>3
<1> QED
  BY <1>3, <1>4

\* A pop: the item is in the task's hand.
LEMMA PopFacts ==
  ASSUME RTypes, NEW t \in Processors, TryPopWithDone(t), NEW s \in Subs, NEW d, Holds(buf[s], d)
  PROVE  Holds(buf'[s], d) \/ (SubOf[t] = s /\ hand'[t] # <<>> /\ hand'[t][1].data = d)
<1>0. BufOK /\ PlacesOK /\ SubOf[t] \in Subs /\ t \in Task
  BY PlacesOfTasks, RealtimeAssumption DEF RTypes, Task
<1>1. CASE buf' = buf
  BY <1>1
<1>2. CASE buf[SubOf[t]].items # <<>>
           /\ hand' = [hand EXCEPT ![t] = <<Head(buf[SubOf[t]].items)>>]
           /\ buf' = [buf EXCEPT ![SubOf[t]] = TryPop(buf[SubOf[t]])]
  <2>1. PICK b \in BufferSet : b = buf[SubOf[t]] /\ Len(b.items) <= b.capacity
    BY <1>0 DEF BufOK
  <2>2. \A c : Holds(b, c) => Holds(TryPop(b), c) \/ c = Head(b.items).data
    BY <1>2, <2>1, TryPopFacts
  <2>3. hand'[t] = <<Head(b.items)>>
    BY <1>0, <1>2, <2>1 DEF PlacesOK
  <2>4. hand'[t] # <<>> /\ hand'[t][1].data = Head(b.items).data
    BY <2>3
  <2>5. buf'[s] = IF s = SubOf[t] THEN TryPop(b) ELSE buf[s]
    BY <1>0, <1>2, <2>1 DEF BufOK
  <2> QED
    BY <2>1, <2>2, <2>4, <2>5
<1> QED
  BY <1>1, <1>2 DEF TryPopWithDone

\* NothingLost is kept.
LEMMA NothingLostNext ==
  ASSUME RTypes, AckInv, NothingLost, [RTNext]_rtVars
  PROVE  NothingLost'
<1>0. Changes /\ StreamOK /\ PlacesOK /\ hist \in HistSet /\ hist' \in HistSet
  BY ChangesFacts, PlacesOfTasks, HistTypes DEF RTypes
<1>1. SUFFICES ASSUME NEW s \in Subs, NEW d \in hist'.got[s] PROVE Kept(s, d)'
  BY NothingLostPartsNext
<1>2. d \in hist.got[s] => Kept(s, d)
  BY NothingLostParts
<1>3. ~Crash
  <2>1. Crash => hist'.got = [u \in Subs |-> {}]
    BY <1>0 DEF Crash, FreshHist, HistSet
  <2> QED
    BY <1>1, <2>1
<1>4. hist.done[s] \subseteq hist'.done[s] /\ hist.lost[s] \subseteq hist'.lost[s]
  BY <1>3, HistGrows
<1>5. CASE \E u \in Subs : ReplayPush(u) \/ BroadcastTo(u)
  <2>1. PICK u \in Subs, x \in Offered : Offer(u, x.data, x.seq)
    BY <1>0, <1>5 DEF ReplayPush, BroadcastTo, StreamOK
  <2>2. hand' = hand
    BY <1>5 DEF ReplayPush, BroadcastTo
  <2> QED
    BY <1>2, <2>1, <2>2, OfferKeeps
<1>6. CASE ~\E u \in Subs : ReplayPush(u) \/ BroadcastTo(u)
  <2>1. Kept(s, d)
    BY <1>2, <1>3, <1>6, HistGrows
  <2>2. Holds(buf[s], d) => Kept(s, d)'
    <3>1. CASE buf' = buf
      BY <3>1, HoldsNext
    <3>2. ASSUME NEW t \in Processors, Failed(t), Holds(buf[s], d) PROVE Kept(s, d)'
      BY <3>2, FailedFacts, HoldsNext
    <3>3. ASSUME NEW t \in Processors, TryPopWithDone(t), Holds(buf[s], d) PROVE Kept(s, d)'
      BY <3>3, PopFacts, HoldsNext
    <3> QED
      BY <1>0, <1>3, <1>6, <3>1, <3>2, <3>3 DEF Changes, StreamSteps, StartReplays, HandleDataArrived
  <2>3. ASSUME NEW t \in Processors, SubOf[t] = s, hand[t] # <<>>, hand[t][1].data = d
        PROVE  Kept(s, d)'
    <3>0. t \in Task
      BY DEF Task
    <3>1. CASE hand'[t] = hand[t]
      BY <2>3, <3>1, HoldsNext
    <3>2. CASE TryPopWithDone(t)
      BY <1>0, <2>3, <3>0, <3>2 DEF TryPopWithDone, PlacesOK
    <3>3. CASE Handled(t)
      BY <2>3, <3>0, <3>3, HandledFacts, HoldsNext
    <3>4. CASE MarkAckedStep(t)
      BY <1>4, <2>3, <3>0, <3>4, HoldsNext DEF AckInv, MarkAckedStep
    <3>5. CASE Failed(t)
      BY <2>3, <3>5, FailedFacts, HoldsNext
    <3> QED
      BY <1>3, <3>0, <3>1, <3>2, <3>3, <3>4, <3>5, HandMoves
  <2>4. d \in hist.done[s] \cup hist.lost[s] => Kept(s, d)'
    BY <1>4, HoldsNext
  <2> QED
    BY <2>1, <2>2, <2>3, <2>4 DEF Kept, InHand
<1> QED
  BY <1>5, <1>6

-----------------------------------------------------------------------------
(* Shutdown.                                                               *)

\* The parts of ShutdownInv.
Modes ==
  /\ phase \in {"created", "replaying"} => ctl = "absent"
  /\ phase = "up" => ctl \in {"idle", "stopping", "waitTasks", "waitRest", "store"}
  /\ phase = "stopped" => ctl \in {"idle", "ended"}
  /\ ctxDone <=> phase = "stopped" \/ ctl \in {"stopping", "waitTasks", "waitRest", "store"}
  /\ ~walOpen => ctl = "store" \/ phase = "stopped"
LateInv == hist.late => ~walOpen /\ hist.gaveUp
QuietInv == Waited /\ ~hist.gaveUp => \A t \in Task : pc[t] \in {"absent", "adding", "loop", "ended"}

\* The parts are ShutdownInv.
LEMMA ShutdownParts == ShutdownInv <=> Modes /\ LateInv /\ QuietInv
BY DEF ShutdownInv, Modes, LateInv, QuietInv

\* The same after a step.
LEMMA ShutdownPartsNext == ShutdownInv' <=> Modes' /\ LateInv' /\ QuietInv'
BY DEF ShutdownInv, Modes, LateInv, QuietInv, Waited

\* Modes is kept.
LEMMA ModesNext ==
  ASSUME RTypes, Modes, [RTNext]_rtVars
  PROVE  Modes'
<1>0. Changes /\ ControlOK
  BY ChangesFacts DEF RTypes
<1>1. CASE UNCHANGED <<row, status, phase, ctl, ctxDone, walOpen>>
  BY <1>1 DEF Modes
<1>2. CASE StartReplays \/ StartTasks \/ Crash
  BY <1>0, <1>2 DEF Modes, ControlOK, StartReplays, StartTasks, Crash
<1>3. CASE HandlePause \/ HandleResume \/ ControlExit
  BY <1>0, <1>3 DEF Modes, ControlOK, HandlePause, HandleResume, ControlExit
<1>5. CASE HandleTerminate
  BY <1>0, <1>5 DEF Modes, ControlOK, HandleTerminate
<1>4. CASE ShutdownStopsTasks \/ ShutdownClosesRouter \/ ShutdownClosesLog \/ ShutdownStores
  BY <1>0, <1>4 DEF Modes, ControlOK, ShutdownStopsTasks, ShutdownClosesRouter, ShutdownClosesLog,
     ShutdownStores
<1> QED
  BY <1>0, <1>1, <1>2, <1>3, <1>4, <1>5 DEF Changes, PhaseSteps

\* The log is open until Shutdown closes it.
LEMMA LogIsOpen ==
  ASSUME Modes, ctl \in {"waitTasks", "waitRest"}
  PROVE  walOpen
BY DEF Modes

\* LateInv is kept: an answer after the log closed is one that Shutdown gave up on.
LEMMA LateNext ==
  ASSUME RTypes, Modes, LateInv, QuietInv, [RTNext]_rtVars
  PROVE  LateInv'
<1>0. Changes /\ hist \in HistSet
  BY ChangesFacts DEF RTypes
<1>1. /\ hist'.gaveUp = hist.gaveUp \/ Crash \/ ShutdownClosesRouter
      /\ hist'.late = hist.late \/ Crash \/ \E t \in Processors : MarkAckedStep(t)
  BY HistGrows
<1>2. CASE Crash
  <2>1. ~hist'.late
    BY <1>0, <1>2 DEF Crash, FreshHist, HistSet
  <2> QED
    BY <2>1 DEF LateInv
<1>3. CASE ShutdownClosesRouter
  <2>1. walOpen /\ ~hist.late
    BY <1>3, LogIsOpen DEF ShutdownClosesRouter, LateInv
  <2>2. hist'.late = hist.late
    <3>1. PICK g \in BOOLEAN : hist' = [hist EXCEPT !.gaveUp = g]
      BY <1>3 DEF ShutdownClosesRouter
    <3> QED
      BY <1>0, <3>1 DEF HistSet
  <2> QED
    BY <2>1, <2>2 DEF LateInv
<1>4. ASSUME NEW t \in Processors, MarkAckedStep(t) PROVE LateInv'
  <2>1. PICK k \in BOOLEAN : k = (hist.late \/ ~walOpen)
    OBVIOUS
  <2>2. hist' = [hist EXCEPT !.late = k] /\ pc[t] = "acking" /\ walOpen' = walOpen
    BY <1>4, <2>1 DEF MarkAckedStep, control
  <2>3. hist'.late = k /\ hist'.gaveUp = hist.gaveUp
    BY <1>0, <2>2 DEF HistSet
  <2>4. ~walOpen => hist.gaveUp
    BY <2>2 DEF Modes, QuietInv, Waited, Task
  <2> QED
    BY <2>1, <2>2, <2>3, <2>4 DEF LateInv
<1>5. CASE /\ hist'.gaveUp = hist.gaveUp /\ hist'.late = hist.late
           /\ walOpen' = walOpen \/ ShutdownClosesLog
  <2>1. CASE ShutdownClosesLog
    <3>1. ~hist.late
      BY <2>1, LogIsOpen DEF ShutdownClosesLog, LateInv
    <3> QED
      BY <1>5, <3>1 DEF LateInv
  <2> QED
    BY <1>5, <2>1 DEF LateInv
<1>6. walOpen' = walOpen \/ ShutdownClosesLog \/ Crash
  BY <1>0 DEF Changes, PhaseSteps, StartReplays, StartTasks, HandlePause, HandleResume,
     HandleTerminate, ControlExit, ShutdownStopsTasks, ShutdownClosesRouter, ShutdownStores
<1> QED
  BY <1>1, <1>2, <1>3, <1>4, <1>5, <1>6

\* QuietInv is kept: with the context done no task takes an item.
LEMMA QuietNext ==
  ASSUME RTypes, Modes, QuietInv, [RTNext]_rtVars
  PROVE  QuietInv'
<1>0. Changes /\ hist \in HistSet /\ PlacesOK
  BY ChangesFacts, PlacesOfTasks DEF RTypes
<1>1. hist'.gaveUp = hist.gaveUp \/ Crash \/ ShutdownClosesRouter
  BY HistGrows
<1>2. CASE Crash
  BY <1>2 DEF Crash, QuietInv, Waited
<1>3. CASE ShutdownClosesRouter
  <2>1. PICK g \in BOOLEAN : g = (~TasksEnded) /\ hist' = [hist EXCEPT !.gaveUp = g]
    BY <1>3 DEF ShutdownClosesRouter
  <2>2. hist'.gaveUp = ~TasksEnded /\ pc' = pc
    BY <1>0, <1>3, <2>1 DEF HistSet, ShutdownClosesRouter, tasks
  <2> QED
    BY <2>2 DEF QuietInv, TasksEnded
<1>4. CASE ~Crash /\ ~ShutdownClosesRouter
  <2>1. SUFFICES ASSUME Waited', ~hist'.gaveUp, NEW t \in Task
                 PROVE  pc'[t] \in {"absent", "adding", "loop", "ended"}
    BY DEF QuietInv
  <2>2. Waited
    BY <1>0, <1>4, <2>1 DEF Changes, PhaseSteps, Waited, Modes, StartReplays, StartTasks, HandlePause,
       HandleResume, HandleTerminate, ControlExit, ShutdownStopsTasks, ShutdownClosesLog, ShutdownStores
  <2>3. \A u \in Task : pc[u] \in {"absent", "adding", "loop", "ended"}
    BY <1>1, <1>4, <2>1, <2>2 DEF QuietInv
  <2>4. ctxDone /\ phase \notin {"created", "replaying"}
    BY <2>2 DEF Waited, Modes
  <2>5. CASE UNCHANGED pc
    BY <2>3, <2>5
  <2>6. ~StartTasks
    BY <2>4 DEF StartTasks
  <2>7. pc \in [Task -> Places]
    BY <1>0 DEF PlacesOK
  <2>8. ASSUME NEW u \in Task, Loop(u) \/ Reconnect(u)
        PROVE  pc'[t] \in {"absent", "adding", "loop", "ended"}
    <3>1. CASE Loop(u)
      <4>1. pc' = [pc EXCEPT ![u] = "ended"]
        BY <2>4, <3>1 DEF Loop, Cancelled
      <4> QED
        BY <2>3, <2>7, <4>1
    <3>2. CASE Reconnect(u)
      <4>1. pc' = pc
        BY <2>3, <3>2 DEF Reconnect
      <4> QED
        BY <2>5, <4>1
    <3> QED
      BY <2>8, <3>1, <3>2
  <2>9. ASSUME NEW u \in Collectors, CollectorReturns(u) PROVE FALSE
    BY <2>3, <2>9 DEF CollectorReturns, Task
  <2>10. ASSUME NEW u \in Processors,
                TryPopWithDone(u) \/ Handled(u) \/ MarkAckedStep(u) \/ Failed(u)
         PROVE  FALSE
    BY <2>3, <2>10 DEF TryPopWithDone, Handled, MarkAckedStep, Failed, Task
  <2>11. ASSUME NEW u \in Processors, AddSubTask(u)
         PROVE  pc'[t] \in {"absent", "adding", "loop", "ended"}
    <3>1. PICK p \in {"adding", "loop"} : pc' = [pc EXCEPT ![u] = p]
      BY <2>11 DEF AddSubTask
    <3> QED
      BY <2>3, <2>7, <3>1
  <2> QED
    BY <1>0, <1>4, <2>5, <2>6, <2>8, <2>9, <2>10, <2>11 DEF Changes, PlaceSteps
<1> QED
  BY <1>2, <1>3, <1>4

\* ShutdownInv is kept.
LEMMA ShutdownInvNext ==
  ASSUME RTypes, ShutdownInv, [RTNext]_rtVars
  PROVE  ShutdownInv'
BY ShutdownParts, ShutdownPartsNext, ModesNext, LateNext, QuietNext

\* How many items a task took since its pause changes.
LEMMA SinceFacts ==
  ASSUME RTypes, [RTNext]_rtVars, NEW t \in Task, hist'.since[t] # 0
  PROVE  /\ ~Crash /\ ~HandleResume /\ ~ResumeContinuousTask(t)
         /\ Reconnect(t) => state' = state
         /\ \/ hist'.since[t] = hist.since[t]
            \/ TryPopWithDone(t) /\ state[t] = "paused" /\ hist'.since[t] = hist.since[t] + 1
<1>0. Changes /\ hist \in HistSet /\ StreamOK
  BY ChangesFacts DEF RTypes
<1>a. hist.since \in [Task -> Nat]
  BY <1>0 DEF HistSet
<1>1. ~Crash
  <2>1. Crash => hist'.since = [u \in Task |-> 0]
    BY <1>0 DEF Crash, FreshHist, HistSet
  <2> QED
    BY <2>1
<1>2. ~HandleResume
  <2>1. HandleResume => hist' = [hist EXCEPT !.since = [u \in Task |-> 0]]
    BY DEF HandleResume
  <2> QED
    BY <1>0, <2>1 DEF HistSet
<1>3. ASSUME NEW u \in Task, NEW n, hist' = [hist EXCEPT !.since = [hist.since EXCEPT ![u] = n]]
      PROVE  hist'.since[t] = IF t = u THEN n ELSE hist.since[t]
  <2>1. hist'.since = [hist.since EXCEPT ![u] = n]
    BY <1>0, <1>3 DEF HistSet
  <2> QED
    BY <1>a, <2>1
<1>4. ~ResumeContinuousTask(t)
  <2>1. ResumeContinuousTask(t) => hist' = [hist EXCEPT !.since = [hist.since EXCEPT ![t] = 0]]
    BY DEF ResumeContinuousTask
  <2> QED
    BY <1>3, <2>1
<1>5. Reconnect(t) => state' = state
  <2>1. Reconnect(t) => state' = state \/ hist' = [hist EXCEPT !.since = [hist.since EXCEPT ![t] = 0]]
    BY DEF Reconnect, Redialled
  <2> QED
    BY <1>3, <2>1
<1>6. ASSUME NEW u \in Task, Reconnect(u) \/ ResumeContinuousTask(u)
      PROVE  hist'.since[t] = hist.since[t]
  <2>1. hist' = hist \/ hist' = [hist EXCEPT !.since = [hist.since EXCEPT ![u] = 0]]
    BY <1>6 DEF Reconnect, Redialled, ResumeContinuousTask
  <2> QED
    BY <1>3, <2>1
<1>7. ASSUME NEW u \in Processors, TryPopWithDone(u)
      PROVE  \/ hist'.since[t] = hist.since[t]
             \/ TryPopWithDone(t) /\ state[t] = "paused" /\ hist'.since[t] = hist.since[t] + 1
  <2>1. \/ hist' = hist
        \/ hist' = [hist EXCEPT !.since = [hist.since EXCEPT ![u] = 0]]
        \/ /\ state[u] = "paused"
           /\ hist' = [hist EXCEPT !.since = [hist.since EXCEPT ![u] = hist.since[u] + 1]]
    BY <1>7 DEF TryPopWithDone
  <2>2. u \in Task
    BY DEF Task
  <2>3. CASE hist' = [hist EXCEPT !.since = [hist.since EXCEPT ![u] = 0]]
    BY <1>3, <2>2, <2>3
  <2>4. CASE /\ state[u] = "paused"
             /\ hist' = [hist EXCEPT !.since = [hist.since EXCEPT ![u] = hist.since[u] + 1]]
    BY <1>3, <1>7, <2>2, <2>4
  <2> QED
    BY <2>1, <2>3, <2>4
<1>8. ASSUME NEW s \in Subs, ReplayPush(s) \/ BroadcastTo(s) PROVE hist'.since = hist.since
  <2>1. PICK x \in Offered : Offer(s, x.data, x.seq)
    BY <1>0, <1>8 DEF ReplayPush, BroadcastTo, StreamOK
  <2>2. x.data \in Data
    BY DEF Offered
  <2>3. hist' = hist \/ \E g, l : hist' = [hist EXCEPT !.got = g, !.lost = l]
    BY <1>0, <2>1, <2>2, OfferHist
  <2> QED
    BY <1>0, <2>3 DEF HistSet
<1>9. CASE ShutdownClosesRouter \/ \E d \in Data : HandleDataArrived(d)
  <2>1. hist' = hist \/ (\E k : hist' = [hist EXCEPT !.numbers = k])
        \/ \E k : hist' = [hist EXCEPT !.gaveUp = k]
    BY <1>9 DEF ShutdownClosesRouter, HandleDataArrived
  <2>2. hist'.since = hist.since
    BY <1>0, <2>1 DEF HistSet
  <2> QED
    BY <1>1, <1>2, <1>4, <1>5, <2>2
<1>10. ASSUME NEW u \in Processors, Handled(u) \/ MarkAckedStep(u) \/ Failed(u)
       PROVE  hist'.since = hist.since
  <2>1. \/ hist' = hist \/ (\E k : hist' = [hist EXCEPT !.late = k])
        \/ (\E k : hist' = [hist EXCEPT !.lost = k])
        \/ \E k, l : hist' = [hist EXCEPT !.done = k, !.handledNumbers = l]
    <3>1. CASE Handled(u)
      <4>1. hist' = [hist EXCEPT !.done = [hist.done EXCEPT ![SubOf[u]] = hist.done[SubOf[u]] \cup {hand[u][1].data}],
                                 !.handledNumbers = hist.handledNumbers \cup {hand[u][1].seq}]
        BY <3>1 DEF Handled
      <4> QED
        BY ONLY <4>1
    <3>2. CASE MarkAckedStep(u)
      BY <3>2 DEF MarkAckedStep
    <3>3. CASE Failed(u)
      <4>1. \/ hist' = hist
            \/ hist' = [hist EXCEPT !.lost = [hist.lost EXCEPT ![SubOf[u]] = hist.lost[SubOf[u]] \cup {hand[u][1].data}]]
        BY <3>3 DEF Failed
      <4> QED
        BY ONLY <4>1
    <3> QED
      BY <1>10, <3>1, <3>2, <3>3
  <2> QED
    BY <1>0, <2>1 DEF HistSet
<1>11. hist'.since[t] = hist.since[t]
       \/ (TryPopWithDone(t) /\ state[t] = "paused" /\ hist'.since[t] = hist.since[t] + 1)
  BY <1>0, <1>1, <1>2, <1>6, <1>7, <1>8, <1>9, <1>10 DEF Changes, HistSteps
<1> QED
  BY <1>1, <1>2, <1>4, <1>5, <1>11

-----------------------------------------------------------------------------
(* Pauses.                                                                 *)

\* A task that took an item since its pause is not resumed without a reset of the
\* count.
LEMMA PausedOnly ==
  ASSUME RTypes, PauseInv, [RTNext]_rtVars, NEW t \in Task,
         hist.since[t] = 1, hist'.since[t] # 0
  PROVE  /\ state'[t] # "running"
         /\ state'[t] = "paused" => state[t] = "paused"
<1>0. Changes /\ PlacesOK /\ state \in [Task -> States]
  BY ChangesFacts, PlacesOfTasks DEF RTypes, TasksOK
<1>1. /\ ~Crash /\ ~HandleResume /\ ~ResumeContinuousTask(t)
      /\ Reconnect(t) => state' = state
  BY SinceFacts
<1>2. state[t] # "running" /\ pc[t] \notin {"absent", "adding"}
  BY DEF PauseInv
<1>3. CASE UNCHANGED state
  BY <1>2, <1>3
<1>4. ~StartTasks
  BY <1>0, <1>2 DEF StartTasks, PlacesOK
<1>5. CASE HandlePause \/ ShutdownStopsTasks
  BY <1>0, <1>2, <1>5 DEF HandlePause, ShutdownStopsTasks, Paused
<1>6. ASSUME NEW u \in Task, Loop(u) \/ ConnectionLost(u) \/ PauseContinuousTask(u)
      PROVE  state'[t] # "running" /\ (state'[t] = "paused" => state[t] = "paused")
  BY <1>0, <1>2, <1>6 DEF Loop, ConnectionLost, PauseContinuousTask, Paused
<1>7. ASSUME NEW u \in Task, Reconnect(u) \/ ResumeContinuousTask(u)
      PROVE  state'[t] # "running" /\ (state'[t] = "paused" => state[t] = "paused")
  <2>1. CASE u = t
    BY <1>1, <1>3, <1>7, <2>1
  <2>2. CASE u # t
    BY <1>0, <1>2, <1>7, <2>2 DEF Reconnect, Redialled, ResumeContinuousTask, Resumed
  <2> QED
    BY <2>1, <2>2
<1>8. ASSUME NEW u \in Collectors, CollectorReturns(u)
      PROVE  state'[t] # "running" /\ (state'[t] = "paused" => state[t] = "paused")
  BY <1>0, <1>2, <1>8 DEF CollectorReturns
<1>9. ASSUME NEW u \in Processors, AddSubTask(u) \/ RollBackSubTask(u)
      PROVE  state'[t] # "running" /\ (state'[t] = "paused" => state[t] = "paused")
  BY <1>0, <1>2, <1>9 DEF AddSubTask, RollBackSubTask
<1> QED
  BY <1>0, <1>1, <1>3, <1>4, <1>5, <1>6, <1>7, <1>8, <1>9 DEF Changes, StateSteps

\* Nor does it come back for another one while it is paused.
LEMMA PausedPlace ==
  ASSUME RTypes, PauseInv, [RTNext]_rtVars, NEW t \in Task,
         hist.since[t] = 1, hist'.since[t] # 0
  PROVE  /\ pc'[t] \notin {"absent", "adding"}
         /\ pc'[t] = "popping" => pc[t] = "popping" \/ state'[t] # "paused"
<1>0. Changes /\ PlacesOK /\ pc \in [Task -> Places]
  BY ChangesFacts, PlacesOfTasks DEF RTypes, PlacesOK
<1>1. ~Crash
  BY SinceFacts
<1>2. pc[t] \notin {"absent", "adding"}
  BY DEF PauseInv
<1>3. CASE UNCHANGED pc
  BY <1>2, <1>3
<1>4. ~StartTasks
  BY <1>0, <1>2 DEF StartTasks, PlacesOK
<1>5. ASSUME NEW u \in Task, Loop(u)
      PROVE  /\ pc'[t] \notin {"absent", "adding"}
             /\ pc'[t] = "popping" => pc[t] = "popping" \/ state'[t] # "paused"
  <2>1. CASE Cancelled(u)
    <3>1. pc' = [pc EXCEPT ![u] = "ended"]
      BY <1>5, <2>1 DEF Loop
    <3> QED
      BY <1>0, <1>2, <3>1
  <2>2. CASE ~Cancelled(u)
    <3>1. /\ state[u] # "paused" /\ state' = state
          /\ \E p \in {"ended", "collecting", "popping"} : pc' = [pc EXCEPT ![u] = p]
      BY <1>5, <2>2 DEF Loop
    <3> QED
      BY <1>0, <1>2, <3>1
  <2> QED
    BY <2>1, <2>2
<1>6. ASSUME NEW u \in Task, NEW p \in {"loop", "reconnecting", "handling", "acking"},
             pc' = [pc EXCEPT ![u] = p]
      PROVE  pc'[t] \notin {"absent", "adding"} /\ (pc'[t] = "popping" => pc[t] = "popping")
  BY <1>0, <1>2, <1>6
<1>7. ASSUME NEW u \in Task, Reconnect(u)
      PROVE  pc' = pc \/ pc' = [pc EXCEPT ![u] = "loop"]
  BY <1>7 DEF Reconnect
<1>8. ASSUME NEW u \in Collectors, CollectorReturns(u)
      PROVE  u \in Task /\ \E p \in {"loop", "reconnecting"} : pc' = [pc EXCEPT ![u] = p]
  BY <1>8 DEF CollectorReturns, Task
<1>9. ASSUME NEW u \in Processors,
             TryPopWithDone(u) \/ Handled(u) \/ MarkAckedStep(u) \/ Failed(u)
      PROVE  u \in Task /\ \E p \in {"loop", "handling", "acking"} : pc' = [pc EXCEPT ![u] = p]
  BY <1>9 DEF TryPopWithDone, Handled, MarkAckedStep, Failed, Task
<1>10. ASSUME NEW u \in Processors, AddSubTask(u)
       PROVE  pc'[t] \notin {"absent", "adding"} /\ (pc'[t] = "popping" => pc[t] = "popping")
  <2>1. /\ pc[u] \in {"absent", "adding"}
        /\ pc' = [pc EXCEPT ![u] = "adding"] \/ pc' = [pc EXCEPT ![u] = "loop"]
    BY <1>10 DEF AddSubTask
  <2> QED
    BY <1>0, <1>2, <2>1
<1>11. CASE \E u \in Task : Loop(u)
  BY <1>5, <1>11
<1>12. CASE \E u \in Task : Reconnect(u)
  BY <1>3, <1>6, <1>7, <1>12
<1>13. CASE \E u \in Collectors : CollectorReturns(u)
  BY <1>6, <1>8, <1>13
<1>14. CASE \E u \in Processors : TryPopWithDone(u) \/ Handled(u) \/ MarkAckedStep(u) \/ Failed(u)
  BY <1>6, <1>9, <1>14
<1> QED
  BY <1>0, <1>1, <1>3, <1>4, <1>10, <1>11, <1>12, <1>13, <1>14 DEF Changes, PlaceSteps

\* PauseInv is kept.
LEMMA PauseInvNext ==
  ASSUME RTypes, PauseInv, [RTNext]_rtVars
  PROVE  PauseInv'
<1>0. hist \in HistSet /\ hist' \in HistSet /\ PlacesOK /\ state \in [Task -> States]
  BY HistTypes, PlacesOfTasks DEF RTypes, TasksOK
<1>1. SUFFICES ASSUME NEW t \in Task, hist'.since[t] # 0
               PROVE  /\ hist'.since[t] = 1
                      /\ state'[t] # "running" /\ pc'[t] \notin {"absent", "adding"}
                      /\ state'[t] = "paused" => pc'[t] # "popping"
  BY DEF PauseInv
<1>2. CASE TryPopWithDone(t) /\ state[t] = "paused" /\ hist'.since[t] = hist.since[t] + 1
  <2>1. pc[t] = "popping" /\ state' = state
    BY <1>2 DEF TryPopWithDone
  <2>2. hist.since[t] = 0
    BY <1>2, <2>1 DEF PauseInv
  <2>3. pc'[t] \in {"handling", "loop"}
    BY <1>0, <1>2 DEF TryPopWithDone, PlacesOK
  <2> QED
    BY <1>2, <2>1, <2>2, <2>3
<1>3. CASE hist'.since[t] = hist.since[t]
  <2>1. hist.since[t] = 1
    BY <1>1, <1>3 DEF PauseInv
  <2>2. /\ state'[t] # "running" /\ pc'[t] \notin {"absent", "adding"}
        /\ state'[t] = "paused" => state[t] = "paused"
        /\ pc'[t] = "popping" => pc[t] = "popping" \/ state'[t] # "paused"
    BY <1>1, <2>1, PausedOnly, PausedPlace
  <2>3. state[t] = "paused" => pc[t] # "popping"
    BY <2>1 DEF PauseInv
  <2> QED
    BY <1>3, <2>1, <2>2, <2>3
<1> QED
  BY <1>1, <1>2, <1>3, SinceFacts

-----------------------------------------------------------------------------
(* The invariant, and what follows from it.                                *)

\* The invariant holds at the start.
LEMMA RIInvInit ==
  ASSUME RTInit
  PROVE  RIInv
<1> USE RealtimeAssumption
<1>0. LogOK /\ FeedOK /\ StreamOK
  BY FS_EmptySet DEF RTInit, NewManager, EmptyLog, LogOK, FeedOK, StreamOK
<1>1. BufOK
  <2>1. ASSUME NEW s \in Subs
        PROVE  /\ NewDataBuffer(Capacity[s]) \in BufferSet
               /\ NewDataBuffer(Capacity[s]).capacity = Capacity[s]
               /\ Len(NewDataBuffer(Capacity[s]).items) <= Capacity[s]
    <3>1. Capacity[s] \in Nat /\ <<>> \in Seq(ItemSet)
      OBVIOUS
    <3> QED
      BY <3>1 DEF NewDataBuffer, BufferSet
  <2> QED
    BY <2>1 DEF RTInit, NewManager, BufOK
<1>2. TasksOK
  <2>1. /\ state = [t \in Task |-> "initializing"] /\ pc = [t \in Task |-> "absent"]
        /\ hand = [t \in Task |-> <<>>]
    BY DEF RTInit, NewManager
  <2> QED
    BY <2>1 DEF TasksOK, States, Places
<1>8. ControlOK
  <2>1. /\ row = "Ready" /\ status = "Ready" /\ phase = "created" /\ ctl = "absent"
        /\ ctxDone = FALSE /\ walOpen = TRUE /\ calls = 0 /\ drops = 0
    BY DEF RTInit, NewManager
  <2>2. MaxCalls \in Nat /\ MaxDrops \in Nat
    OBVIOUS
  <2>3. calls \in 0 .. MaxCalls /\ drops \in 0 .. MaxDrops
    BY ONLY <2>1, <2>2
  <2> QED
    BY ONLY <2>1, <2>3 DEF ControlOK
<1>3. /\ hist \in HistSet /\ hist.numbers = {} /\ hist.got = [s \in Subs |-> {}]
      /\ hist.since = [t \in Task |-> 0] /\ ~hist.late
  BY DEF RTInit, FreshHist, HistSet
<1>4. LogInv
  BY <1>3 DEF RTInit, EmptyLog, LogInv
<1>5. AckInv /\ NothingLost
  BY <1>3 DEF RTInit, NewManager, AckInv, NothingLost
<1>6. PauseInv
  BY <1>3 DEF PauseInv
<1>7. ShutdownInv
  BY <1>3 DEF RTInit, NewManager, ShutdownInv, Waited
<1> QED
  BY <1>0, <1>1, <1>2, <1>3, <1>4, <1>5, <1>6, <1>7, <1>8 DEF RIInv, RTypes

\* The inductive invariant holds of an instance.
THEOREM RIInvariant == RTSpec => []RIInv
<1>1. RTInit => RIInv
  BY RIInvInit
<1>2. RIInv /\ [RTNext]_rtVars => RIInv'
  BY RTypesNext, LogInvNext, AckInvNext, NothingLostNext, PauseInvNext, ShutdownInvNext DEF RIInv
<1> QED
  BY <1>1, <1>2, PTL DEF RTSpec

\* Types and capacities, and every item a subscriber got is somewhere or was
\* counted, and a pause lets one item through: for any subscribers, buffers,
\* retries, lives of the process and calls.
THEOREM RTInvCorrect == RTSpec => []RTInv
<1>1. RIInv => RTInv
  <2> SUFFICES ASSUME RIInv PROVE RTInv
    OBVIOUS
  <2>1. LogOK /\ FeedOK /\ StreamOK /\ BufOK /\ PlacesOK /\ ControlOK /\ hist \in HistSet
    BY PlacesOfTasks DEF RIInv, RTypes
  <2>2. \A n \in DOMAIN wal : n \in 1 .. MaxData /\ wal[n].data \in Data
    BY <2>1 DEF LogOK
  <2>3. \A s \in Subs : Len(buf[s].items) <= Capacity[s]
    BY <2>1 DEF BufOK
  <2>4. \A t \in Task : Len(hand[t]) <= 1 /\ (hand[t] # <<>> => pc[t] \in {"handling", "acking"})
    BY <2>1 DEF PlacesOK, HandSet
  <2>5. Cardinality(handler) <= 1
    <3>1. CASE handler = {}
      BY <3>1, FS_EmptySet
    <3>2. CASE handler # {}
      <4>1. PICK x : handler = {x}
        BY <2>1, <3>2 DEF StreamOK
      <4>2. Cardinality({x}) = 1
        BY FS_Singleton
      <4> QED
        BY <4>1, <4>2
    <3> QED
      BY <3>1, <3>2
  <2>6. RTTypeOK
    BY <2>1, <2>2, <2>3, <2>4, <2>5 DEF RTTypeOK, ControlOK, FeedOK
  <2>7. PausedTakesOneMore
    BY DEF RIInv, PauseInv, PausedTakesOneMore
  <2> QED
    BY <2>6, <2>7 DEF RIInv, RTInv
<1> QED
  BY <1>1, RIInvariant, PTL

\* Whatever crashes, what was logged and not handled is in the log, not acked.
THEOREM LogKeepsUnhandledCorrect == RTSpec => []LogKeepsUnhandled
<1>1. RIInv => LogKeepsUnhandled
  BY DEF RIInv, LogInv, LogKeepsUnhandled, Unacked
<1> QED
  BY <1>1, RIInvariant, PTL

\* The log is closed under no handler that Shutdown had not given up waiting for.
THEOREM AnswersBeforeCloseCorrect == RTSpec => []AnswersBeforeClose
<1>1. RIInv => AnswersBeforeClose
  BY DEF RIInv, ShutdownInv, AnswersBeforeClose
<1> QED
  BY <1>1, RIInvariant, PTL

=============================================================================
