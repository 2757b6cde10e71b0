--------------------------- MODULE RealtimeInstance ---------------------------
(***************************************************************************)
(* realtimeInstanceManagerImpl                                             *)
(* (pkg/core/realtime/realtime_instance_manager.go): one instance of a     *)
(* streaming workflow, over the lives of its process.  A life replays the  *)
(* write-ahead log, starts its tasks, broadcasts what the collectors       *)
(* publish to the subscribers' buffers, and ends with Shutdown or a crash. *)
(*                                                                         *)
(* The Watermill pub/sub and router are not under src/: a message reaches  *)
(* nobody before the router runs, the data handler has one at a time, in   *)
(* any order, and closing the router waits for it no longer than a         *)
(* timeout.                                                                *)
(***************************************************************************)
EXTENDS Integers, Sequences, FiniteSets, DataBuffer, WalStore

CONSTANTS Collectors,    \* tasks that publish data
          Processors,    \* tasks that take data from a subscriber's buffer
          LateTasks,     \* the processors that AddSubTask may bring
          Reconnecting,  \* the tasks with ReconnectEnabled
          Subs,          \* subscribers: {Main} unless broadcasting
          SubOf,         \* the subscriber of a processor
          Blocking,      \* the subscribers with BufferModeBlocking
          Capacity, MaxRetries,
          Broadcast,     \* options.broadcastEnabled, with or without
          WalEnabled,    \* the log
          FirstFilter, NextFilter \* the data each subscriber accepts, first and
                                  \* after SetSubscriberFilter

CONSTANTS MaxData,       \* bounds: data published,
          MaxLives,      \* processes,
          MaxCalls,      \* calls of the instance's methods,
          MaxDrops       \* and disconnections and collector errors, in all

Task == Collectors \cup Processors
Data == 1 .. MaxData

ASSUME RealtimeAssumption ==
  /\ LateTasks \subseteq Processors /\ Reconnecting \subseteq Task
  /\ SubOf \in [Processors -> Subs] /\ Blocking \subseteq Subs
  /\ Capacity \in [Subs -> Nat \ {0}]
  /\ MaxRetries \in Nat /\ Broadcast \in BOOLEAN /\ WalEnabled \in BOOLEAN
  /\ WalEnabled => Broadcast
  /\ ~Broadcast => Cardinality(Subs) = 1 /\ Blocking = {}
  /\ MaxData \in Nat /\ MaxCalls \in Nat /\ MaxDrops \in Nat

VARIABLES wal, walOpen,   \* opts.walStore
          row,            \* the instance's stored status
          life, fed,      \* the process, and the data published so far
          phase,          \* how far Start is, "stopped" after Shutdown
          toReplay,       \* of IterateUnacked, each with the subscribers left
          router,         \* "down", "up", "closed"
          pending,        \* published data the data handler has not had
          handler,        \* what the data handler is at: a set of at most one
          sequenceCounter,
          buf,            \* the subscribers' Buffers
          state, pc, hand,\* of each task: its State, where it is, what it holds
          stopped,        \* tasks whose own context is cancelled
          dialing,        \* tasks with a reconnecting goroutine of their own
          filter, status, ctxDone, signals, ctl, calls, drops, hist

persistent == <<wal, row, life, fed>>
bounds     == <<calls, drops>>
stream     == <<toReplay, router, pending, handler, sequenceCounter, buf, hand, filter>>
tasks      == <<state, pc, stopped, dialing>>
control    == <<phase, status, ctxDone, signals, ctl, walOpen>>
rtVars     == <<persistent, stream, tasks, control, bounds, hist>>

Cancelled(t) == ctxDone \/ t \in stopped

\* Kept for the properties.  numbers: numbers ever logged; handledNumbers: those
\* a handler succeeded for; got, done, lost: what a subscriber got in this life,
\* had handled, or was counted as lost; since: items a task took since its pause;
\* gaveUp: a wait of Shutdown timed out; late: an answer after the log closed.
FreshHist(h) ==
  [h EXCEPT !.got = [s \in Subs |-> {}], !.done = [s \in Subs |-> {}],
            !.lost = [s \in Subs |-> {}], !.since = [t \in Task |-> 0],
            !.gaveUp = FALSE, !.late = FALSE]
-----------------------------------------------------------------------------
\* NewRealtimeInstanceManager: what a new process begins with.
NewManager ==
  /\ phase = "created" /\ toReplay = {} /\ router = "down" /\ pending = {}
  /\ handler = {} /\ sequenceCounter = 0
  /\ buf = [s \in Subs |-> NewDataBuffer(Capacity[s])]
  /\ state = [t \in Task |-> "initializing"] /\ pc = [t \in Task |-> "absent"]
  /\ hand = [t \in Task |-> <<>>] /\ stopped = {} /\ dialing = {}
  /\ filter = FirstFilter /\ status = "Ready" /\ ctxDone = FALSE
  /\ signals = <<>> /\ ctl = "absent" /\ walOpen = TRUE

RTInit ==
  /\ NewManager
  /\ wal = EmptyLog /\ row = "Ready" /\ life = 1 /\ fed = 0 /\ calls = 0 /\ drops = 0
  /\ hist = FreshHist([numbers |-> {}, handledNumbers |-> {}, got |-> {}, done |-> {}, lost |-> {},
                       since |-> {}, gaveUp |-> FALSE, late |-> FALSE])

\* The process dies, or ends after Shutdown, and another one takes the instance
\* and its log.  RestoreFromBreakpoint finds no task before Start, and changes
\* only the status, which Start sets again.
Crash ==
  /\ life < MaxLives /\ phase # "created"
  /\ life' = life + 1 /\ hist' = FreshHist(hist)
  /\ phase' = "created" /\ toReplay' = {} /\ router' = "down" /\ pending' = {}
  /\ handler' = {} /\ sequenceCounter' = 0
  /\ buf' = [s \in Subs |-> NewDataBuffer(Capacity[s])]
  /\ state' = [t \in Task |-> "initializing"] /\ pc' = [t \in Task |-> "absent"]
  /\ hand' = [t \in Task |-> <<>>] /\ stopped' = {} /\ dialing' = {}
  /\ filter' = FirstFilter /\ status' = "Ready" /\ ctxDone' = FALSE
  /\ signals' = <<>> /\ ctl' = "absent" /\ walOpen' = TRUE
  /\ UNCHANGED <<wal, row, fed, bounds>>
-----------------------------------------------------------------------------
(* Start.                                                                  *)

\* Start up to replayWalUnacked.
StartReplays ==
  /\ phase = "created" /\ phase' = "replaying"
  /\ status' = "Running" /\ row' = "Running"
  /\ toReplay' = IF ~WalEnabled THEN {}
                 ELSE {[data |-> x.data, seq |-> x.seq, todo |-> Subs] :
                         x \in IterateUnacked(wal)}
  /\ UNCHANGED <<wal, walOpen, life, fed, router, pending, handler, sequenceCounter,
                 buf, hand, filter, tasks, ctxDone, signals, ctl, bounds, hist>>

\* The subscriber's filter, of the field extracted from the data.
Accept(s, d) == d \in filter[s]

Item(d, seq) == [data |-> d, seq |-> seq, tries |-> 0]

\* One subscriber's turn, of replayWalUnacked and broadcastToSubscribers: a
\* blocking one waits for room, another one drops and counts.
Offer(s, d, seq) ==
  IF ~Accept(s, d) THEN UNCHANGED <<buf, hist>>
  ELSE /\ s \in Blocking => HasRoom(buf[s])
       /\ buf' = [buf EXCEPT ![s] = Push(@, Item(d, seq))]
       /\ hist' = [hist EXCEPT !.got[s] = @ \cup {d},
                     !.lost[s] = IF HasRoom(buf[s]) THEN @ ELSE @ \cup {d}]

Left(x, s) == IF x.todo = {s} THEN {} ELSE {[x EXCEPT !.todo = @ \ {s}]}

\* The record is read before its turn; no task runs that could ack it.
ReplayPush(s) ==
  /\ phase = "replaying"
  /\ \E x \in toReplay :
       /\ IsFirst(x, toReplay) /\ s \in x.todo
       /\ Offer(s, x.data, x.seq)
       /\ toReplay' = (toReplay \ {x}) \cup Left(x, s)
  /\ UNCHANGED <<persistent, router, pending, handler, sequenceCounter, hand, filter,
                 tasks, control, bounds>>

\* The rest of Start and startContinuousTasks: the goroutines exist.
StartTasks ==
  /\ phase = "replaying" /\ toReplay = {}
  /\ phase' = "up" /\ ctl' = "idle"
  /\ state' = [t \in Task |-> IF t \in LateTasks THEN state[t] ELSE "running"]
  /\ pc' = [t \in Task |-> IF t \in LateTasks THEN "absent" ELSE "loop"]
  /\ UNCHANGED <<persistent, stream, stopped, dialing, status, ctxDone, signals,
                 walOpen, bounds, hist>>

\* The router subscribes its handlers some time after Start began its tasks.
RouterRuns ==
  /\ phase = "up" /\ router = "down" /\ router' = "up"
  /\ UNCHANGED <<persistent, toReplay, pending, handler, sequenceCounter, buf, hand,
                 filter, tasks, control, bounds, hist>>
-----------------------------------------------------------------------------
(* Continuous tasks.                                                       *)

StaysInStream == <<toReplay, router, pending, handler, sequenceCounter, filter>>

\* The head of runContinuousTask's loop.  It only sleeps while paused.
Loop(t) ==
  /\ pc[t] = "loop"
  /\ IF Cancelled(t)
     THEN state' = [state EXCEPT ![t] = "stopped"] /\ pc' = [pc EXCEPT ![t] = "ended"]
     ELSE /\ state[t] # "paused" /\ UNCHANGED state
          /\ pc' = [pc EXCEPT ![t] = IF state[t] \in {"stopping", "stopped"} THEN "ended"
                                      ELSE IF t \in Collectors THEN "collecting" ELSE "popping"]
  /\ UNCHANGED <<persistent, stream, stopped, dialing, control, bounds, hist>>

\* A collector publishes EventDataArrived, paused or not.
Publish(t) ==
  /\ pc[t] = "collecting" /\ fed < MaxData /\ ~Cancelled(t)
  /\ fed' = fed + 1
  /\ pending' = IF router = "up" THEN pending \cup {fed + 1} ELSE pending
  /\ UNCHANGED <<wal, row, life, toReplay, router, handler, sequenceCounter, buf, hand,
                 filter, tasks, control, bounds, hist>>

\* collector.Run returns, with an error or because its context is done.
CollectorReturns(t) ==
  /\ pc[t] = "collecting"
  /\ \/ /\ Cancelled(t) /\ pc' = [pc EXCEPT ![t] = "loop"] /\ UNCHANGED <<state, drops>>
     \/ /\ drops < MaxDrops /\ drops' = drops + 1
        /\ IF t \in Reconnecting /\ state[t] # "stopping"
           THEN /\ pc' = [pc EXCEPT ![t] = "reconnecting"]
                /\ state' = [state EXCEPT ![t] = "reconnecting"]
           ELSE pc' = [pc EXCEPT ![t] = "loop"] /\ UNCHANGED state
  /\ UNCHANGED <<persistent, stream, stopped, dialing, control, calls, hist>>

\* handleReconnect after its wait: reconnect always succeeds; a done context and
\* the timer may both be ready.
Redialled(t) ==
  \/ Cancelled(t) /\ UNCHANGED <<state, hist>>
  \/ /\ state' = [state EXCEPT ![t] = "running"]
     /\ hist' = [hist EXCEPT !.since[t] = 0]

Reconnect(t) ==
  \/ /\ pc[t] = "reconnecting" /\ Redialled(t)
     /\ pc' = [pc EXCEPT ![t] = "loop"] /\ UNCHANGED dialing
     /\ UNCHANGED <<persistent, stream, stopped, control, bounds>>
  \/ /\ t \in dialing /\ Redialled(t)
     /\ dialing' = dialing \ {t} /\ UNCHANGED pc
     /\ UNCHANGED <<persistent, stream, stopped, control, bounds>>

\* handleConnectionLost starts a goroutine that reconnects.
ConnectionLost(t) ==
  /\ t \in Reconnecting \ dialing /\ pc[t] # "absent" /\ router = "up" /\ ~ctxDone
  /\ drops < MaxDrops /\ drops' = drops + 1
  /\ dialing' = dialing \cup {t}
  /\ state' = [state EXCEPT ![t] = "reconnecting"]
  /\ UNCHANGED <<persistent, stream, pc, stopped, control, calls, hist>>

\* TryPopWithDone: it waits for an item or the instance's context, not its own.
TryPopWithDone(t) ==
  /\ pc[t] = "popping"
  /\ \/ /\ buf[SubOf[t]].items # <<>>
        /\ hand' = [hand EXCEPT ![t] = <<Head(buf[SubOf[t]].items)>>]
        /\ buf' = [buf EXCEPT ![SubOf[t]] = TryPop(@)]
        /\ pc' = [pc EXCEPT ![t] = "handling"]
        /\ hist' = [hist EXCEPT !.since[t] = IF state[t] = "paused" THEN @ + 1 ELSE 0]
     \/ /\ ctxDone /\ pc' = [pc EXCEPT ![t] = "loop"] /\ UNCHANGED <<buf, hand, hist>>
  /\ UNCHANGED <<persistent, StaysInStream, state, stopped, dialing, control, bounds>>

\* The handler succeeded: the item is acked if it has a number.
Handled(t) ==
  LET x == hand[t][1] s == SubOf[t] IN
  /\ pc[t] = "handling"
  /\ pc' = [pc EXCEPT ![t] = IF WalEnabled THEN "acking" ELSE "loop"]
  /\ hand' = [hand EXCEPT ![t] = IF WalEnabled THEN @ ELSE <<>>]
  /\ hist' = [hist EXCEPT !.done[s] = @ \cup {x.data},
                !.handledNumbers = @ \cup {x.seq}]
  /\ UNCHANGED <<persistent, StaysInStream, buf, state, stopped, dialing, control, bounds>>

MarkAckedStep(t) ==
  /\ pc[t] = "acking" /\ pc' = [pc EXCEPT ![t] = "loop"]
  /\ wal' = IF walOpen THEN MarkAcked(wal, hand[t][1].seq) ELSE wal
  /\ hand' = [hand EXCEPT ![t] = <<>>]
  /\ hist' = [hist EXCEPT !.late = @ \/ ~walOpen]
  /\ UNCHANGED <<row, life, fed, StaysInStream, buf, state, stopped, dialing, control,
                 bounds>>

\* Mutant: a retry that finds no room is not counted.
FailedUncounted(t) ==
  LET x == hand[t][1] s == SubOf[t] retry == x.tries < MaxRetries IN
  /\ pc[t] = "handling" /\ pc' = [pc EXCEPT ![t] = "loop"]
  /\ hand' = [hand EXCEPT ![t] = <<>>]
  /\ buf' = IF retry THEN [buf EXCEPT ![s] = Push(@, [x EXCEPT !.tries = @ + 1])] ELSE buf
  /\ hist' = IF retry THEN hist ELSE [hist EXCEPT !.lost[s] = @ \cup {x.data}]
  /\ UNCHANGED <<persistent, StaysInStream, state, stopped, dialing, control, bounds>>

\* Mutant: a retry waits for room in the buffer that its own task empties.
FailedBlocking(t) ==
  LET x == hand[t][1] s == SubOf[t] retry == x.tries < MaxRetries IN
  /\ pc[t] = "handling"
  /\ pc' = [pc EXCEPT ![t] = IF retry /\ ~HasRoom(buf[s]) THEN "waiting" ELSE "loop"]
  /\ hand' = [hand EXCEPT ![t] = <<>>]
  /\ buf' = IF retry THEN [buf EXCEPT ![s] = Push(@, [x EXCEPT !.tries = @ + 1])] ELSE buf
  /\ hist' = IF retry THEN hist ELSE [hist EXCEPT !.lost[s] = @ \cup {x.data}]
  /\ UNCHANGED <<persistent, StaysInStream, state, stopped, dialing, control, bounds>>

\* The handler failed: the item goes back to the buffer, without waiting, while
\* it has retries left.
Failed(t) ==
  LET x == hand[t][1] s == SubOf[t] retry == x.tries < MaxRetries IN
  /\ pc[t] = "handling" /\ pc' = [pc EXCEPT ![t] = "loop"]
  /\ hand' = [hand EXCEPT ![t] = <<>>]
  /\ buf' = IF retry THEN [buf EXCEPT ![s] = Push(@, [x EXCEPT !.tries = @ + 1])] ELSE buf
  /\ hist' = IF retry /\ HasRoom(buf[s]) THEN hist
             ELSE [hist EXCEPT !.lost[s] = @ \cup {x.data}]
  /\ UNCHANGED <<persistent, StaysInStream, state, stopped, dialing, control, bounds>>

RunStreamProcessor(t) == TryPopWithDone(t) \/ Handled(t) \/ MarkAckedStep(t) \/ Failed(t)
-----------------------------------------------------------------------------
(* The data handler of the router.                                         *)

\* handleDataArrived, up to the broadcast.  The number is new in this life; the
\* log keeps what another life wrote under it.  An Append may fail.
HandleDataArrived(d) ==
  /\ router = "up" /\ handler = {} /\ d \in pending /\ pending' = pending \ {d}
  /\ IF ctxDone THEN UNCHANGED <<wal, handler, sequenceCounter, hist>>
     ELSE IF ~Broadcast
     THEN /\ handler' = {[data |-> d, seq |-> 0, todo |-> Subs]}
          /\ UNCHANGED <<wal, sequenceCounter, hist>>
     ELSE LET seq == sequenceCounter + 1 IN
          /\ sequenceCounter' = seq
          /\ \/ /\ WalEnabled /\ UNCHANGED <<wal, handler, hist>>
             \/ /\ handler' = {[data |-> d, seq |-> seq, todo |-> Subs]}
                /\ IF ~WalEnabled THEN UNCHANGED <<wal, hist>>
                   ELSE /\ wal' = AppendRecord(wal, seq, d)
                        /\ hist' = [hist EXCEPT !.numbers = @ \cup {seq}]
  /\ UNCHANGED <<row, life, fed, toReplay, router, buf, hand, filter, tasks, control,
                 bounds>>

\* The data handler waits inside broadcastToSubscribers, ctx or not.
BroadcastTo(s) ==
  /\ \E x \in handler :
       /\ s \in x.todo
       /\ Offer(s, x.data, x.seq)
       /\ handler' = Left(x, s)
  /\ UNCHANGED <<persistent, toReplay, router, pending, sequenceCounter, hand, filter,
                 tasks, control, bounds>>

\* The ticker of Start.
PeriodicGC ==
  /\ WalEnabled /\ phase = "up" /\ ~ctxDone /\ wal' = GC(wal)
  /\ UNCHANGED <<row, life, fed, stream, tasks, control, bounds, hist>>
-----------------------------------------------------------------------------
(* Calls of the instance's methods.                                        *)

Call == phase = "up" /\ calls < MaxCalls /\ calls' = calls + 1 /\ UNCHANGED drops

Signal(sig) ==
  /\ Call /\ signals' = Append(signals, sig)
  /\ UNCHANGED <<persistent, stream, tasks, phase, status, ctxDone, ctl, walOpen, hist>>

Paused(S) == [t \in Task |-> IF t \in S /\ state[t] = "running" THEN "paused" ELSE state[t]]
Resumed(S) == [t \in Task |-> IF t \in S /\ state[t] = "paused" THEN "running" ELSE state[t]]

PauseContinuousTask(t) ==
  /\ Call /\ pc[t] # "absent" /\ state' = Paused({t})
  /\ UNCHANGED <<persistent, stream, pc, stopped, dialing, control, hist>>

ResumeContinuousTask(t) ==
  /\ Call /\ pc[t] # "absent" /\ state' = Resumed({t})
  /\ hist' = [hist EXCEPT !.since[t] = 0]
  /\ UNCHANGED <<persistent, stream, pc, stopped, dialing, control>>

SetSubscriberFilter(s) ==
  /\ Call /\ Broadcast /\ filter' = [filter EXCEPT ![s] = NextFilter[s]]
  /\ UNCHANGED <<persistent, toReplay, router, pending, handler, sequenceCounter, buf,
                 hand, tasks, control, hist>>

\* AddSubTask checks the status, and starts the task later.
AddSubTask(t) ==
  \/ /\ Call /\ t \in LateTasks /\ pc[t] = "absent" /\ status = "Running"
     /\ pc' = [pc EXCEPT ![t] = "adding"]
     /\ UNCHANGED <<persistent, stream, state, stopped, dialing, control, hist>>
  \/ /\ pc[t] = "adding" /\ pc' = [pc EXCEPT ![t] = "loop"]
     /\ state' = [state EXCEPT ![t] = "running"]
     /\ UNCHANGED <<persistent, stream, stopped, dialing, control, bounds, hist>>

\* AtomicAddSubTasks: the next one of the batch is refused, so this one is
\* stopped and forgotten.  Its goroutine may be waiting for an item.
RollBackSubTask(t) ==
  /\ t \in LateTasks \ stopped /\ pc[t] \notin {"absent", "adding"}
  /\ stopped' = stopped \cup {t} /\ state' = [state EXCEPT ![t] = "stopped"]
  /\ UNCHANGED <<persistent, stream, pc, dialing, control, bounds, hist>>
-----------------------------------------------------------------------------
(* controlSignalHandler, which also runs Shutdown.                         *)

Controlled(t) == pc[t] \notin {"absent", "adding"}

\* It looks at ctx and at the signals, and takes either.
HandlePause ==
  /\ ctl = "idle" /\ signals # <<>> /\ Head(signals) = "Pause" /\ signals' = Tail(signals)
  /\ status' = "Paused" /\ row' = "Paused" /\ state' = Paused({t \in Task : Controlled(t)})
  /\ UNCHANGED <<wal, life, fed, stream, pc, stopped, dialing, phase, ctxDone, ctl,
                 walOpen, bounds, hist>>

HandleResume ==
  /\ ctl = "idle" /\ signals # <<>> /\ Head(signals) = "Resume" /\ signals' = Tail(signals)
  /\ status' = "Running" /\ row' = "Running"
  /\ state' = Resumed({t \in Task : Controlled(t)})
  /\ hist' = [hist EXCEPT !.since = [t \in Task |-> 0]]
  /\ UNCHANGED <<wal, life, fed, stream, pc, stopped, dialing, phase, ctxDone, ctl,
                 walOpen, bounds>>

\* handleTerminate and Shutdown up to cancel; a second Shutdown returns at once.
HandleTerminate ==
  /\ ctl = "idle" /\ signals # <<>> /\ Head(signals) = "Terminate"
  /\ signals' = Tail(signals)
  /\ IF phase = "stopped" THEN UNCHANGED <<ctxDone, ctl>>
     ELSE ctxDone' = TRUE /\ ctl' = "stopping"
  /\ UNCHANGED <<persistent, stream, tasks, phase, status, walOpen, bounds, hist>>

\* Mutants: the log is closed before the tasks are waited for; Shutdown waits for
\* its own goroutine without a timeout.
ShutdownClosesLogFirst ==
  /\ ctl = "stopping" /\ ctl' = "waitTasks" /\ walOpen' = ~WalEnabled
  /\ wal' = IF WalEnabled THEN GC(wal) ELSE wal
  /\ state' = [t \in Task |-> IF Controlled(t) THEN "stopped" ELSE state[t]]
  /\ stopped' = {t \in Task : Controlled(t)}
  /\ UNCHANGED <<row, life, fed, stream, pc, dialing, phase, status, ctxDone, signals,
                 bounds, hist>>

ShutdownWaitsForAll == ctl = "waitRest" /\ ctl = "ended" /\ UNCHANGED rtVars

ShutdownStopsTasks ==
  /\ ctl = "stopping" /\ ctl' = "waitTasks"
  /\ state' = [t \in Task |-> IF Controlled(t) THEN "stopped" ELSE state[t]]
  /\ stopped' = {t \in Task : Controlled(t)}
  /\ UNCHANGED <<persistent, stream, pc, dialing, phase, status, ctxDone, signals,
                 walOpen, bounds, hist>>

TasksEnded == \A t \in Task : pc[t] \in {"absent", "adding", "ended"}

\* taskWg.Wait, or the shutdown timeout; then the router and the pub/sub close.
ShutdownClosesRouter ==
  /\ ctl = "waitTasks" /\ ctl' = "waitRest"
  /\ hist' = [hist EXCEPT !.gaveUp = ~TasksEnded]
  /\ router' = "closed" /\ pending' = {}
  /\ UNCHANGED <<persistent, toReplay, handler, sequenceCounter, buf, hand, filter, tasks,
                 phase, status, ctxDone, signals, walOpen, bounds>>

\* wg.Wait always times out: the control goroutine is one of those it waits for.
ShutdownClosesLog ==
  /\ ctl = "waitRest" /\ ctl' = "store" /\ walOpen' = ~WalEnabled
  /\ wal' = IF WalEnabled THEN GC(wal) ELSE wal
  /\ UNCHANGED <<row, life, fed, stream, tasks, phase, status, ctxDone, signals, bounds,
                 hist>>

ShutdownStores ==
  /\ ctl = "store" /\ ctl' = "idle" /\ phase' = "stopped"
  /\ status' = "Stopped" /\ row' = "Stopped"
  /\ UNCHANGED <<wal, life, fed, stream, tasks, ctxDone, signals, walOpen, bounds, hist>>

ControlExit ==
  /\ ctl = "idle" /\ ctxDone /\ ctl' = "ended"
  /\ UNCHANGED <<persistent, stream, tasks, phase, status, ctxDone, signals, walOpen,
                 bounds, hist>>
-----------------------------------------------------------------------------
ShutdownStep ==
  \/ ShutdownStopsTasks \/ ShutdownClosesRouter \/ ShutdownClosesLog \/ ShutdownStores
ControlStep ==
  HandlePause \/ HandleResume \/ HandleTerminate \/ ShutdownStep \/ ControlExit
StartStep == StartReplays \/ (\E s \in Subs : ReplayPush(s)) \/ StartTasks
HandlerStep == \E d \in Data, s \in Subs : HandleDataArrived(d) \/ BroadcastTo(s)

RTNext ==
  \/ StartStep \/ RouterRuns \/ HandlerStep \/ ControlStep \/ PeriodicGC \/ Crash
  \/ \E t \in Task :
       \/ Loop(t) \/ Reconnect(t) \/ ConnectionLost(t)
       \/ PauseContinuousTask(t) \/ ResumeContinuousTask(t)
  \/ \E t \in Collectors : Publish(t) \/ CollectorReturns(t)
  \/ \E t \in Processors : RunStreamProcessor(t) \/ AddSubTask(t) \/ RollBackSubTask(t)
  \/ \E s \in Subs : SetSubscriberFilter(s)
  \/ \E sig \in {"Pause", "Resume", "Terminate"} : Signal(sig)

RTSpec == RTInit /\ [][RTNext]_rtVars

\* Goroutines run and handlers return; collectors, calls and crashes need not come.
TaskStep(t) == Loop(t) \/ Reconnect(t) \/ (t \in Processors /\ RunStreamProcessor(t))

RTFairness ==
  /\ WF_rtVars(StartStep \/ RouterRuns \/ ControlStep) /\ WF_rtVars(HandlerStep)
  /\ \A t \in Task : WF_rtVars(TaskStep(t))

RTFairSpec == RTSpec /\ RTFairness
-----------------------------------------------------------------------------
(* Properties.                                                             *)

\* Types.
RTTypeOK ==
  /\ \A n \in DOMAIN wal : n \in 1 .. MaxData /\ wal[n].data \in Data
  /\ row \in {"Ready", "Running", "Paused", "Stopped"} /\ status \in {row, "Ready"}
  /\ phase \in {"created", "replaying", "up", "stopped"}
  /\ \A s \in Subs : Len(buf[s].items) <= Capacity[s]
  /\ \A t \in Task : Len(hand[t]) <= 1 /\ (hand[t] # <<>> => pc[t] \in {"handling", "acking"})
  /\ Cardinality(handler) <= 1 /\ calls \in 0 .. MaxCalls /\ drops \in 0 .. MaxDrops /\ fed \in 0 .. MaxData

\* Across crashes, replays, retries and the collections of the log, a number
\* that was logged stays in the log, not acked, until a handler has succeeded
\* for an item with that number.
LogKeepsUnhandled ==
  hist.numbers \ hist.handledNumbers \subseteq Unacked(wal)

\* What a subscriber got in this life is in its buffer, in the hands of one of
\* its processors, handled, or counted by the code as dropped or failed, however
\* broadcasts, retries, pauses and the shutdown interleave.
NothingLost ==
  \A s \in Subs : \A d \in hist.got[s] :
    \/ d \in hist.done[s] \cup hist.lost[s]
    \/ \E i \in DOMAIN buf[s].items : buf[s].items[i].data = d
    \/ \E t \in Processors : SubOf[t] = s /\ hand[t] # <<>> /\ hand[t][1].data = d

\* A pause may find the task past its look at the state, and stops it after that
\* one item; only a reconnection takes it out of the pause.
PausedTakesOneMore == \A t \in Task : hist.since[t] <= 1

\* Types, and where every item is and may go.
RTInv == RTTypeOK /\ NothingLost /\ PausedTakesOneMore

\* Shutdown closes the log only when no handler can answer any more, unless it
\* gave up waiting for one.
AnswersBeforeClose == hist.late => hist.gaveUp

\* Start ends, unless what it replays is more than a blocking subscriber holds:
\* nobody empties the buffers yet.
StartEnds ==
  phase = "replaying" ~>
    \/ phase \in {"up", "created"}
    \/ \E x \in toReplay : /\ IsFirst(x, toReplay)
                           /\ \E s \in x.todo \cap Blocking : ~HasRoom(buf[s])

\* A termination that begins is stored, although Shutdown runs in a goroutine
\* it waits for, and a broadcast may wait for a buffer nobody empties any more.
TerminationIsStored == ctxDone ~> (row = "Stopped" \/ ~ctxDone)

\* Both: neither end of an instance's life waits for ever.
StartsAndStops == StartEnds /\ TerminationIsStored

\* The full buffer of a blocking subscriber gets room again, so broadcasts go on,
\* while its processors are neither paused nor reconnecting, nor stopped: a
\* processor whose handler fails puts its item back without waiting.
BufferDrains ==
  \A s \in Blocking :
    phase = "up" /\ ~HasRoom(buf[s]) ~>
      \/ HasRoom(buf[s]) \/ phase # "up" \/ ctxDone
      \/ \E t \in Processors : SubOf[t] = s /\ state[t] # "running"

=============================================================================
