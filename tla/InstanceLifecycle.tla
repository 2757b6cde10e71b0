-------------------------- MODULE InstanceLifecycle --------------------------
(***************************************************************************)
(* The life of one batch WorkflowInstance as its manager drives it         *)
(* (pkg/core/engine/instance_manager_v3.go): the status kept in memory,    *)
(* the status stored in the database, the control-signal channel, the      *)
(* status-update channel and the context whose cancellation stops both     *)
(* goroutines.  Two goroutines write the status: controlLoop, one signal   *)
(* at a time and in several steps, and actorLoop, when checkDone decides   *)
(* that the instance is over.  What the actor schedules is left out here:  *)
(* checkDone may find the instance over at any time.  InstanceManagerV3    *)
(* supplies the scheduling and implements this specification.              *)
(***************************************************************************)
EXTENDS Naturals, Sequences

CONSTANTS
  ControlCap,   \* capacity of controlSignalChan (10 in the code)
  StatusCap,    \* capacity of statusUpdateChan (10 in the code)
  PersistMayFail,  \* whether the repository may refuse a status update
  MaxSignals    \* bound of the model: control signals users ever send

ASSUME LifecycleAssumption ==
  /\ ControlCap \in Nat \ {0}
  /\ StatusCap \in Nat \ {0}
  /\ MaxSignals \in Nat
  /\ PersistMayFail \in BOOLEAN

Signal == {"Pause", "Resume", "Terminate"}
Status == {"Ready", "Running", "Paused", "Terminated", "Success", "Failed"}
Outcome == {"Success", "Failed"}
Final == {"Terminated", "Success", "Failed"}

\* The status each control signal asks for.
StatusOf(sig) ==
  CASE sig = "Pause"     -> "Paused"
    [] sig = "Resume"    -> "Running"
    [] sig = "Terminate" -> "Terminated"

VARIABLES
  status,       \* instance.Status, guarded by mu
  dbStatus,     \* the status column the repository holds
  paused,       \* the atomic flag submit() reads
  ctxDone,      \* the manager's context has been cancelled
  controlChan,  \* controlSignalChan
  statusChan,   \* statusUpdateChan
  cpc,          \* where controlLoop is
  csig,         \* the signal controlLoop is handling
  actor,        \* where actorLoop is: off, on, three steps of checkDone, exit
  terminating,  \* TerminateWorkflowInstance calls past their status check
  signals       \* control signals sent so far (bounds the model)

controlVars == <<cpc, csig>>
userVars == <<controlChan, terminating, signals>>
lcVars == <<status, dbStatus, paused, ctxDone, controlChan, statusChan,
            cpc, csig, actor, terminating, signals>>

-----------------------------------------------------------------------------
\* publishStatus: a non-blocking send, dropped when the channel is full.
Publish(s) ==
  statusChan' = IF Len(statusChan) < StatusCap THEN Append(statusChan, s)
                                               ELSE statusChan

\* persistStatus: one write to the repository, whose error is ignored.
Persist(s) ==
  \/ dbStatus' = s
  \/ PersistMayFail /\ UNCHANGED dbStatus

LCInit ==
  /\ status = "Ready"
  /\ dbStatus = "Ready"
  /\ paused = FALSE
  /\ ctxDone = FALSE
  /\ controlChan = <<>>
  /\ statusChan = <<>>
  /\ cpc = "off"
  /\ csig = "Resume"
  /\ actor = "off"
  /\ terminating = 0
  /\ signals = 0

\* Start: Running in memory, stored, published; then both goroutines exist.
StartManager ==
  /\ cpc = "off"
  /\ status' = "Running"
  /\ Persist("Running")
  /\ Publish("Running")
  /\ cpc' = "select"
  /\ actor' = "on"
  /\ UNCHANGED <<paused, ctxDone, csig, userVars>>

\* checkDone holds mu from the outcome it sets to the cancellation.
Finishing == actor \in {"persist", "publish", "cancel"}

-----------------------------------------------------------------------------
(* Users: the engine's Pause/Resume/TerminateWorkflowInstance and Stop.    *)

Send(sig) ==
  /\ Len(controlChan) < ControlCap
  /\ controlChan' = Append(controlChan, sig)

\* PauseWorkflowInstance and ResumeWorkflowInstance send without a check.
SendPauseOrResume(sig) ==
  /\ sig \in {"Pause", "Resume"}
  /\ signals < MaxSignals
  /\ Send(sig)
  /\ signals' = signals + 1
  /\ UNCHANGED <<status, dbStatus, paused, ctxDone, statusChan, controlVars,
                 actor, terminating>>

\* TerminateWorkflowInstance first reads the status and refuses a final one...
CheckTerminate ==
  /\ signals < MaxSignals
  /\ ~Finishing
  /\ status \notin Final
  /\ terminating' = terminating + 1
  /\ signals' = signals + 1
  /\ UNCHANGED <<status, dbStatus, paused, ctxDone, controlChan, statusChan,
                 controlVars, actor>>

\* ...and sends the signal later, holding nothing in between.
SendTerminate ==
  /\ terminating > 0
  /\ Send("Terminate")
  /\ terminating' = terminating - 1
  /\ UNCHANGED <<status, dbStatus, paused, ctxDone, statusChan, controlVars,
                 actor, signals>>

\* Engine.Stop checks nothing and skips a manager whose channel is full...
StopSendsTerminate ==
  /\ signals < MaxSignals
  /\ Send("Terminate")
  /\ signals' = signals + 1
  /\ UNCHANGED <<status, dbStatus, paused, ctxDone, statusChan, controlVars,
                 actor, terminating>>

\* ...then shuts every manager down: the context is cancelled.
Shutdown ==
  /\ ~ctxDone
  /\ ctxDone' = TRUE
  /\ UNCHANGED <<status, dbStatus, paused, statusChan, controlVars, actor,
                 userVars>>

-----------------------------------------------------------------------------
(* controlLoop.                                                            *)

\* Receive a signal; Pause and Resume set the atomic flag before the lock.
ControlReceive ==
  /\ cpc = "select"
  /\ controlChan # <<>>
  /\ csig' = Head(controlChan)
  /\ controlChan' = Tail(controlChan)
  /\ paused' = CASE csig' = "Pause"  -> TRUE
                 [] csig' = "Resume" -> FALSE
                 [] OTHER            -> paused
  /\ cpc' = "lock"
  /\ UNCHANGED <<status, dbStatus, ctxDone, statusChan, actor, terminating,
                 signals>>

\* Under mu: the status in memory.
ControlSetStatus ==
  /\ cpc = "lock"
  /\ ~Finishing
  /\ status' = StatusOf(csig)
  /\ cpc' = "persist"
  /\ UNCHANGED <<dbStatus, paused, ctxDone, statusChan, csig, actor, userVars>>

\* persistStatus, after mu was released.
ControlPersist ==
  /\ cpc = "persist"
  /\ Persist(StatusOf(csig))
  /\ cpc' = "publish"
  /\ UNCHANGED <<status, paused, ctxDone, statusChan, csig, actor, userVars>>

\* Mutant: Terminate returns without cancelling.
ControlPublishReturns ==
  /\ cpc = "publish"
  /\ Publish(StatusOf(csig))
  /\ cpc' = IF csig = "Terminate" THEN "exit" ELSE "select"
  /\ UNCHANGED <<status, dbStatus, paused, ctxDone, csig, actor, userVars>>

\* publishStatus...
ControlPublish ==
  /\ cpc = "publish"
  /\ Publish(StatusOf(csig))
  /\ cpc' = IF csig = "Terminate" THEN "cancel" ELSE "select"
  /\ UNCHANGED <<status, dbStatus, paused, ctxDone, csig, actor, userVars>>

\* ...and after a Terminate the loop cancels the context and returns.
ControlCancel ==
  /\ cpc = "cancel"
  /\ ctxDone' = TRUE
  /\ cpc' = "exit"
  /\ UNCHANGED <<status, dbStatus, paused, statusChan, csig, actor, userVars>>

ControlExit ==
  /\ cpc = "select"
  /\ ctxDone
  /\ cpc' = "exit"
  /\ UNCHANGED <<status, dbStatus, paused, ctxDone, statusChan, csig, actor,
                 userVars>>

-----------------------------------------------------------------------------
(* actorLoop, as far as the lifecycle sees it.                             *)

\* checkDone found nothing left to do: under mu it sets the outcome, unless the
\* instance is paused...
FinishSet(outcome) ==
  /\ actor = "on"
  /\ status # "Paused"
  /\ status' = outcome
  /\ actor' = "persist"
  /\ UNCHANGED <<dbStatus, paused, ctxDone, statusChan, controlVars, userVars>>

\* ...stores it, while controlLoop may be storing too...
FinishPersist ==
  /\ actor = "persist"
  /\ Persist(status)
  /\ actor' = "publish"
  /\ UNCHANGED <<status, paused, ctxDone, statusChan, controlVars, userVars>>

\* ...publishes it...
FinishPublish ==
  /\ actor = "publish"
  /\ Publish(status)
  /\ actor' = "cancel"
  /\ UNCHANGED <<status, dbStatus, paused, ctxDone, controlVars, userVars>>

\* ...cancels the context, releases mu and goes back to its select.
FinishCancel ==
  /\ actor = "cancel"
  /\ ctxDone' = TRUE
  /\ actor' = "on"
  /\ UNCHANGED <<status, dbStatus, paused, statusChan, controlVars, userVars>>

ActorExit ==
  /\ actor = "on"
  /\ ctxDone
  /\ actor' = "exit"
  /\ UNCHANGED <<status, dbStatus, paused, ctxDone, statusChan, controlVars,
                 userVars>>

-----------------------------------------------------------------------------
ControlStep ==
  \/ ControlReceive
  \/ ControlSetStatus
  \/ ControlPersist
  \/ ControlPublish
  \/ ControlCancel
  \/ ControlExit

UserStep ==
  \/ \E sig \in {"Pause", "Resume"} : SendPauseOrResume(sig)
  \/ CheckTerminate
  \/ SendTerminate
  \/ StopSendsTerminate
  \/ Shutdown

FinishStep ==
  \/ FinishPersist
  \/ FinishPublish
  \/ FinishCancel

LCNext ==
  \/ StartManager
  \/ UserStep
  \/ ControlStep
  \/ \E o \in Outcome : FinishSet(o)
  \/ FinishStep
  \/ ActorExit

LCSpec == LCInit /\ [][LCNext]_lcVars

-----------------------------------------------------------------------------
(* Properties.                                                             *)

LCTypeOK ==
  /\ status \in Status
  /\ dbStatus \in Status
  /\ paused \in BOOLEAN
  /\ ctxDone \in BOOLEAN
  /\ controlChan \in Seq(Signal) /\ Len(controlChan) <= ControlCap
  /\ statusChan \in Seq(Status) /\ Len(statusChan) <= StatusCap
  /\ cpc \in {"off", "select", "lock", "persist", "publish", "cancel", "exit"}
  /\ csig \in Signal
  /\ actor \in {"off", "on", "persist", "publish", "cancel", "exit"}
  /\ terminating \in Nat
  /\ signals \in 0 .. MaxSignals

\* Unless a write fails, the stored status differs from the one in memory only
\* while one of the two loops is about to write it, or after checkDone ran
\* while controlLoop was: then memory holds an outcome and the row the older
\* request.  No other mixture (say Paused in memory, Success stored) can arise.
StoredStatusLag ==
  dbStatus # status /\ ~PersistMayFail =>
    \/ cpc = "persist"
    \/ actor = "persist"
    \/ status \in Outcome /\ dbStatus \in {"Running", "Terminated"}

\* Once controlLoop is back at its select and the instance is neither over nor
\* cancelled, the flag submit() reads, the status in memory and, unless a write failed, the stored
\* one tell the same, in whatever order the signals came.
SettledStatusAgrees ==
  ~ctxDone /\ ~Finishing /\ cpc = "select" =>
    /\ paused <=> status = "Paused"
    /\ dbStatus = status \/ PersistMayFail

\* An instance whose status is Paused is never finished by the scheduler: it
\* leaves Paused only through a Resume or a Terminate signal.
PausedIsNotFinished ==
  [][status = "Paused" => status' \notin Outcome]_lcVars

\* A Terminate signal that reached the channel ends the instance: controlLoop
\* gets to it whatever it is doing and whatever the actor holds.
TerminateEnds ==
  (\E i \in 1 .. Len(controlChan) : controlChan[i] = "Terminate") ~> ctxDone

-----------------------------------------------------------------------------
(* What the repository's comments say.                                     *)

=============================================================================
