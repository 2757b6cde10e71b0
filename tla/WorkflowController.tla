------------------------- MODULE WorkflowController -------------------------
(***************************************************************************)
(* The controller that SubmitWorkflow returns to its caller                *)
(* (pkg/core/workflow/controller.go), together with the engine's           *)
(* forwardStatusUpdates goroutine and the manager it stands for: callers   *)
(* pause, resume and terminate the instance through it and wait for its    *)
(* end.  The manager's status reaches the controller through two bounded   *)
(* channels, both lossy, and everybody who waits on the controller takes   *)
(* entries from the second one.                                            *)
(***************************************************************************)
EXTENDS InstanceLifecycle, FiniteSets

CONSTANTS
  User,     \* goroutines that call Pause, Resume and Terminate
  Waiter,   \* goroutines that call Wait without a timeout
  CtrlCap   \* capacity of the controller's statusUpdateChan (10 in the code)

ASSUME ControllerAssumption == CtrlCap \in Nat \ {0}

VARIABLES
  cStatus,   \* the controller's copy of the status
  ctrlChan,  \* its statusUpdateChan
  doneClosed,  \* doneChan is closed
  forwarder, \* forwardStatusUpdates: on or exit
  op,        \* [User -> the signal being asked for]
  opc,       \* [User -> where the call is, or a status it is about to store]
  wait       \* [Waiter -> where Wait is, or a status it is about to store]

callVars == <<op, opc>>
ctrlVars == <<cStatus, ctrlChan, doneClosed, forwarder, callVars, wait>>
wcVars == <<lcVars, ctrlVars>>

isFinalStatus(s) == s \in Final

WCInit ==
  /\ LCInit
  /\ cStatus = "Ready" /\ ctrlChan = <<>> /\ doneClosed = FALSE
  /\ forwarder = "on"
  /\ op = [u \in User |-> "Resume"]
  /\ opc = [u \in User |-> "idle"]
  /\ wait = [w \in Waiter |-> "idle"]

-----------------------------------------------------------------------------
(* forwardStatusUpdates.                                                   *)

\* Mutant: any status change ends the waiting.
UpdateStatusAlwaysCloses(s) ==
  /\ cStatus' = s
  /\ doneClosed' = TRUE
  /\ ctrlChan' = IF Len(ctrlChan) < CtrlCap THEN Append(ctrlChan, s)
                                            ELSE ctrlChan

\* Mutant: the send does not look for room.
UpdateStatusUnbounded(s) ==
  /\ cStatus' = s
  /\ doneClosed' = (doneClosed \/ isFinalStatus(s))
  /\ ctrlChan' = Append(ctrlChan, s)

\* UpdateStatus: a final status closes doneChan; the send may be dropped.
UpdateStatus(s) ==
  /\ cStatus' = s
  /\ doneClosed' = (doneClosed \/ isFinalStatus(s))
  /\ ctrlChan' = IF Len(ctrlChan) < CtrlCap THEN Append(ctrlChan, s)
                                            ELSE ctrlChan

Forward ==
  /\ forwarder = "on"
  /\ statusChan # <<>>
  /\ statusChan' = Tail(statusChan)
  /\ UpdateStatus(Head(statusChan))
  /\ UNCHANGED <<status, dbStatus, paused, ctxDone, controlChan, cpc, csig,
                 actor, terminating, signals, forwarder, callVars, wait>>

\* The other branch of its select: what the channel still holds is lost.
ForwardExit ==
  /\ forwarder = "on"
  /\ ctxDone
  /\ forwarder' = "exit"
  /\ UNCHANGED <<lcVars, cStatus, ctrlChan, doneClosed, callVars, wait>>

-----------------------------------------------------------------------------
(* Pause, Resume and Terminate.                                            *)

\* The status the controller itself must see before it lets a call through.
MayAsk(sig) ==
  CASE sig = "Pause"  -> cStatus = "Running"
    [] sig = "Resume" -> cStatus = "Paused"
    [] OTHER          -> ~isFinalStatus(cStatus)

\* The bound on signals leaves room for the calls under way.
SignalsLeft == signals + Cardinality({u \in User : opc[u] = "call"}) < MaxSignals

Ask(u, sig) ==
  /\ opc[u] = "idle"
  /\ SignalsLeft
  /\ MayAsk(sig)
  /\ op' = [op EXCEPT ![u] = sig]
  /\ opc' = [opc EXCEPT ![u] = "call"]
  /\ UNCHANGED <<lcVars, cStatus, ctrlChan, doneClosed, forwarder, wait>>

MoveCall(u, from, to) ==
  /\ opc[u] = from
  /\ opc' = [opc EXCEPT ![u] = to]
  /\ UNCHANGED <<ctrlChan, doneClosed, forwarder, op, wait>>

\* onPause and onResume send the signal; onTerminate checks the manager's
\* status first, and its refusal is the call's.
CallEngine(u) ==
  /\ \/ op[u] # "Terminate" /\ SendPauseOrResume(op[u])
                            /\ MoveCall(u, "call", "sent")
     \/ op[u] = "Terminate" /\ CheckTerminate /\ MoveCall(u, "call", "checked")
     \/ op[u] = "Terminate" /\ status \in Final /\ ~Finishing
                            /\ UNCHANGED lcVars
                            /\ MoveCall(u, "call", "idle")
     \/ SendTerminate /\ MoveCall(u, "checked", "sent")
  /\ UNCHANGED cStatus

\* waitForStatusChange: first a look at the controller's own copy...
ConfirmAtOnce(u) ==
  /\ MoveCall(u, "sent", IF cStatus = StatusOf(op[u]) THEN "idle" ELSE "poll")
  /\ UNCHANGED <<lcVars, cStatus>>

\* ...then whatever comes: an entry of the channel...
ConfirmByUpdate(u) ==
  /\ opc[u] = "poll"
  /\ ctrlChan # <<>>
  /\ ctrlChan' = Tail(ctrlChan)
  /\ opc' = [opc EXCEPT ![u] = Head(ctrlChan)]
  /\ UNCHANGED <<lcVars, cStatus, doneClosed, forwarder, op, wait>>

\* ...the ticker, which asks the manager, or the timer, which asks once more...
ConfirmByPoll(u) ==
  /\ ~Finishing
  /\ status = StatusOf(op[u])
  /\ MoveCall(u, "poll", status)
  /\ UNCHANGED <<lcVars, cStatus>>

\* ...which the controller stores after the receive or the question.
ConfirmStore(u) ==
  /\ opc[u] \in Status
  /\ cStatus' = opc[u]
  /\ MoveCall(u, opc[u], IF opc[u] = StatusOf(op[u]) THEN "idle" ELSE "poll")
  /\ UNCHANGED lcVars

\* The timer, after five seconds: an error when the manager says otherwise.
GiveUp(u) ==
  /\ ~Finishing
  /\ status # StatusOf(op[u])
  /\ MoveCall(u, "poll", "idle")
  /\ UNCHANGED <<lcVars, cStatus>>

-----------------------------------------------------------------------------
(* Wait.                                                                   *)

WaitStart(w) ==
  /\ wait[w] = "idle"
  /\ wait' = [wait EXCEPT ![w] = IF isFinalStatus(cStatus) THEN "returned"
                                                           ELSE "select"]
  /\ UNCHANGED <<lcVars, cStatus, ctrlChan, doneClosed, forwarder, callVars>>

\* Mutant: the status, which others overwrite, instead of the closed channel.
WaitDoneByStatus(w) ==
  /\ wait[w] = "select"
  /\ isFinalStatus(cStatus)
  /\ wait' = [wait EXCEPT ![w] = "returned"]
  /\ UNCHANGED <<lcVars, cStatus, ctrlChan, doneClosed, forwarder, callVars>>

WaitDone(w) ==
  /\ wait[w] = "select"
  /\ doneClosed
  /\ wait' = [wait EXCEPT ![w] = "returned"]
  /\ UNCHANGED <<lcVars, cStatus, ctrlChan, doneClosed, forwarder, callVars>>

\* An entry of the channel: received first...
WaitTake(w) ==
  /\ wait[w] = "select"
  /\ ctrlChan # <<>>
  /\ ctrlChan' = Tail(ctrlChan)
  /\ wait' = [wait EXCEPT ![w] = Head(ctrlChan)]
  /\ UNCHANGED <<lcVars, cStatus, doneClosed, forwarder, callVars>>

\* ...then stored, whatever was stored in between.
WaitStore(w) ==
  /\ wait[w] \in Status
  /\ cStatus' = wait[w]
  /\ wait' = [wait EXCEPT ![w] = IF isFinalStatus(wait[w]) THEN "returned"
                                                          ELSE "select"]
  /\ UNCHANGED <<lcVars, ctrlChan, doneClosed, forwarder, callVars>>

-----------------------------------------------------------------------------
\* A call under way, once its signal is sent.
ConfirmStep(u) ==
  \/ ConfirmAtOnce(u)
  \/ ConfirmByUpdate(u)
  \/ ConfirmByPoll(u)
  \/ ConfirmStore(u)
  \/ GiveUp(u)

CallStep(u) ==
  \/ \E sig \in Signal : Ask(u, sig)
  \/ CallEngine(u)
  \/ ConfirmStep(u)

ManagerStep ==
  /\ \/ StartManager
     \/ StopSendsTerminate /\ SignalsLeft
     \/ Shutdown
     \/ ControlStep
     \/ \E o \in Outcome : FinishSet(o)
     \/ FinishStep
     \/ ActorExit
  /\ UNCHANGED ctrlVars

WaitStep(w) == WaitStart(w) \/ WaitDone(w) \/ WaitTake(w) \/ WaitStore(w)

WCNext ==
  \/ ManagerStep
  \/ Forward
  \/ ForwardExit
  \/ \E u \in User : CallStep(u)
  \/ \E w \in Waiter : WaitStep(w)

WCSpec == WCInit /\ [][WCNext]_wcVars

\* Every goroutine that can go on does, whichever branch of its select it takes.
\* Users and Wait need not be called, and the scheduler need not ever finish
\* the instance.
WCFairness ==
  /\ WF_wcVars(StartManager /\ UNCHANGED ctrlVars)
  /\ WF_wcVars(ControlStep /\ UNCHANGED ctrlVars)
  /\ WF_wcVars(FinishStep /\ UNCHANGED ctrlVars)
  /\ WF_wcVars(Forward \/ ForwardExit)
  /\ \A u \in User : WF_wcVars(CallEngine(u) \/ ConfirmStep(u))
  /\ \A w \in Waiter : WF_wcVars(WaitDone(w) \/ WaitTake(w) \/ WaitStore(w))

WCFairSpec == WCSpec /\ WCFairness

-----------------------------------------------------------------------------
(* Properties.                                                             *)

WCTypeOK ==
  /\ LCTypeOK
  /\ cStatus \in Status
  /\ ctrlChan \in Seq(Status) /\ Len(ctrlChan) <= CtrlCap
  /\ doneClosed \in BOOLEAN
  /\ forwarder \in {"on", "exit"}
  /\ op \in [User -> Signal]
  /\ opc \in [User -> Status \cup {"idle", "call", "checked", "sent", "poll"}]
  /\ wait \in [Waiter -> Status \cup {"idle", "select", "returned"}]

\* Wait returns only when the instance is over: its status is final, or it was
\* and the context is cancelled.
WaitEndsOnlyAtTheEnd ==
  doneClosed \/ (\E w \in Waiter : wait[w] = "returned") =>
    status \in Final \/ ctxDone

\* A Wait under way when the instance is over returns, although both channels
\* drop what finds them full and other waiters and callers take entries away,
\* unless the forwarder left before it had told the controller.
Untold == forwarder = "exit" /\ ~doneClosed

WaitReturnsUnlessUntold ==
  \A w \in Waiter :
    wait[w] = "select" /\ status \in Final /\ ctxDone
      ~> wait[w] = "returned" \/ Untold

=============================================================================
