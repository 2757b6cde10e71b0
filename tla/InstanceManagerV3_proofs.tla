---------------------- MODULE InstanceManagerV3_proofs ----------------------
(***************************************************************************)
(* Proofs about an instance and those who watch it, from the lifecycle up: *)
(*                                                                         *)
(*  - InstanceLifecycle: its types, how far the stored status may lag      *)
(*    behind the one in memory, that both agree with the paused flag       *)
(*    whenever controlLoop is settled, and that Paused is left only        *)
(*    through a signal;                                                    *)
(*  - WorkflowController, for any number of users and waiters and every    *)
(*    capacity of the three channels: nobody is told of the end of the     *)
(*    instance before its end;                                             *)
(*  - InstanceManagerV3, for every workflow graph, every batch of          *)
(*    subtasks and every bound.  Whatever the actor schedules, the         *)
(*    manager's status, channels and context live the life of              *)
(*    InstanceLifecycle (V3ImplementsLifecycle), so that the first part    *)
(*    holds of it.  The properties of the scheduler follow from one        *)
(*    inductive invariant, V3IInv, the conjunction of a part per concern;  *)
(*  - DagExecution: the manager runs the graph in order.                   *)
(***************************************************************************)
EXTENDS InstanceManagerV3, WorkflowController, FiniteSetTheorems,
        SequenceTheorems, WellFoundedInduction, TLAPS

-----------------------------------------------------------------------------
(* The lifecycle of an instance.                                           *)

\* What each signal asks for, as facts for the provers.
LEMMA StatusOfSignal ==
  /\ StatusOf("Pause") = "Paused"
  /\ StatusOf("Resume") = "Running"
  /\ StatusOf("Terminate") = "Terminated"
  /\ \A s \in Signal : StatusOf(s) \in {"Paused", "Running", "Terminated"}
BY DEF StatusOf, Signal

\* A non-blocking send leaves a bounded channel of statuses.
LEMMA PublishType ==
  ASSUME NEW s \in Status, Publish(s),
         statusChan \in Seq(Status), Len(statusChan) <= StatusCap
  PROVE  statusChan' \in Seq(Status) /\ Len(statusChan') <= StatusCap
BY LifecycleAssumption DEF Publish

\* A blocking send happens when there is room.
LEMMA SendType ==
  ASSUME NEW s \in Signal, Send(s),
         controlChan \in Seq(Signal), Len(controlChan) <= ControlCap
  PROVE  controlChan' \in Seq(Signal) /\ Len(controlChan') <= ControlCap
BY LifecycleAssumption DEF Send

-----------------------------------------------------------------------------
\* The types hold at first...
LEMMA TypeInit == LCInit => LCTypeOK
<1> SUFFICES ASSUME LCInit PROVE LCTypeOK
  OBVIOUS
<1>1. controlChan \in Seq(Signal) /\ Len(controlChan) <= ControlCap
  BY LifecycleAssumption DEF LCInit
<1>2. statusChan \in Seq(Status) /\ Len(statusChan) <= StatusCap
  BY LifecycleAssumption DEF LCInit
<1>3. paused \in BOOLEAN /\ ctxDone \in BOOLEAN
  BY DEF LCInit
<1>4. signals \in 0 .. MaxSignals /\ terminating \in Nat
  BY LifecycleAssumption DEF LCInit
<1>5. /\ status \in Status /\ dbStatus \in Status /\ csig \in Signal
      /\ cpc = "off" /\ actor = "off"
  BY DEF LCInit, Status, Signal
<1> QED
  BY <1>1, <1>2, <1>3, <1>4, <1>5 DEF LCTypeOK

\* ...and after every step.
LEMMA TypeNext == LCTypeOK /\ [LCNext]_lcVars => LCTypeOK'
<1> SUFFICES ASSUME LCTypeOK, [LCNext]_lcVars PROVE LCTypeOK'
  OBVIOUS
<1> USE DEF LCTypeOK
<1>1. CASE StartManager
  <2>1. /\ Publish("Running") /\ "Running" \in Status
        /\ dbStatus' \in Status
    BY <1>1 DEF StartManager, Status, Persist
  <2>2. statusChan' \in Seq(Status) /\ Len(statusChan') <= StatusCap
    BY <2>1, PublishType
  <2> QED
    BY <1>1, <2>1, <2>2 DEF StartManager, userVars
<1>2. ASSUME NEW sig \in {"Pause", "Resume"}, SendPauseOrResume(sig)
      PROVE  LCTypeOK'
  <2>1. controlChan' \in Seq(Signal) /\ Len(controlChan') <= ControlCap
    BY <1>2, SendType DEF SendPauseOrResume, Signal
  <2> QED
    BY <1>2, <2>1, LifecycleAssumption
    DEF SendPauseOrResume, controlVars
<1>3. CASE CheckTerminate
  BY <1>3, LifecycleAssumption DEF CheckTerminate, controlVars
<1>4. CASE SendTerminate
  <2>1. controlChan' \in Seq(Signal) /\ Len(controlChan') <= ControlCap
    BY <1>4, SendType DEF SendTerminate, Signal
  <2> QED
    BY <1>4, <2>1 DEF SendTerminate, controlVars
<1>5. CASE Shutdown
  BY <1>5 DEF Shutdown, controlVars, userVars
<1>6. CASE ControlReceive
  <2>1. csig' \in Signal /\ controlChan' \in Seq(Signal)
        /\ Len(controlChan') <= ControlCap
    BY <1>6, LifecycleAssumption DEF ControlReceive
  <2>2. paused' \in BOOLEAN
    BY <1>6 DEF ControlReceive
  <2> QED
    BY <1>6, <2>1, <2>2 DEF ControlReceive
<1>7. CASE ControlSetStatus
  BY <1>7, StatusOfSignal DEF ControlSetStatus, userVars, Status
<1>8. CASE ControlPersist
  BY <1>8, StatusOfSignal DEF ControlPersist, userVars, Status, Persist
<1>9. CASE ControlPublish
  <2>1. Publish(StatusOf(csig)) /\ StatusOf(csig) \in Status
    BY <1>9, StatusOfSignal DEF ControlPublish, Status
  <2>2. statusChan' \in Seq(Status) /\ Len(statusChan') <= StatusCap
    BY <2>1, PublishType
  <2> QED
    BY <1>9, <2>2 DEF ControlPublish, userVars
<1>10. CASE ControlCancel \/ ControlExit
  BY <1>10 DEF ControlCancel, ControlExit, userVars
<1>11. ASSUME NEW o \in Outcome, FinishSet(o)
       PROVE  LCTypeOK'
  BY <1>11 DEF FinishSet, Status, Outcome, controlVars, userVars
<1>12. CASE FinishPersist
  BY <1>12 DEF FinishPersist, Persist, controlVars, userVars
<1>13. CASE FinishPublish
  <2>1. statusChan' \in Seq(Status) /\ Len(statusChan') <= StatusCap
    BY <1>13, PublishType DEF FinishPublish
  <2> QED
    BY <1>13, <2>1 DEF FinishPublish, controlVars, userVars
<1>14. CASE FinishCancel \/ ActorExit
  BY <1>14 DEF FinishCancel, ActorExit, controlVars, userVars
<1>15. CASE StopSendsTerminate
  <2>1. controlChan' \in Seq(Signal) /\ Len(controlChan') <= ControlCap
    BY <1>15, SendType DEF StopSendsTerminate, Signal
  <2> QED
    BY <1>15, <2>1, LifecycleAssumption DEF StopSendsTerminate, controlVars
<1>16. CASE UNCHANGED lcVars
  BY <1>16 DEF lcVars
<1> QED
  BY <1>1, <1>2, <1>3, <1>4, <1>5, <1>6, <1>7, <1>8, <1>9, <1>10, <1>11,
     <1>12, <1>13, <1>14, <1>15, <1>16
  DEF LCNext, UserStep, ControlStep, FinishStep

\* The variables of the lifecycle always have their types, and neither channel
\* ever holds more than its capacity.
THEOREM LCTypeCorrect == LCSpec => []LCTypeOK
<1>1. LCInit => LCTypeOK
  BY TypeInit
<1>2. LCTypeOK /\ [LCNext]_lcVars => LCTypeOK'
  BY TypeNext
<1> QED
  BY <1>1, <1>2, PTL DEF LCSpec

-----------------------------------------------------------------------------
(* The stored status, the status in memory and the paused flag.            *)

\* What controlLoop's position says: between the receive and the lock, the
\* flag already obeys the signal; between the unlock and the write, memory
\* holds what the signal asks for, or an outcome that checkDone put there,
\* which it never does over Paused; before the publish, the row obeys too.
Handling ==
  /\ cpc = "persist" =>
       status = StatusOf(csig) \/ (status \in Outcome /\ csig # "Pause")
  /\ cpc = "off" => status = "Ready" /\ dbStatus = "Ready" /\ actor = "off"
  /\ Finishing => status \in Outcome

\* Until checkDone sets an outcome only controlLoop changes the status.
Undisturbed ==
  ~ctxDone /\ ~Finishing =>
    /\ cpc \in {"lock", "persist", "publish"} =>
         (csig = "Pause" => paused) /\ (csig = "Resume" => ~paused)
    /\ cpc \in {"persist", "publish"} => status = StatusOf(csig)
    /\ cpc \in {"off", "select", "lock", "publish"} =>
         dbStatus = status \/ PersistMayFail
    /\ cpc \in {"off", "select"} => (paused <=> status = "Paused")

StatusInv == LCTypeOK /\ StoredStatusLag /\ Handling /\ Undisturbed

\* A write that does not fail stores what it was given.
LEMMA PersistWrites ==
  ASSUME NEW s, Persist(s)
  PROVE  dbStatus' = s \/ (PersistMayFail /\ dbStatus' = dbStatus)
BY DEF Persist

\* So it is at first...
LEMMA StatusInit == LCInit => StatusInv
<1> SUFFICES ASSUME LCInit PROVE StatusInv
  OBVIOUS
<1>1. LCTypeOK
  BY TypeInit
<1>2. StoredStatusLag /\ Handling /\ Undisturbed
  BY DEF LCInit, StoredStatusLag, Handling, Undisturbed, Finishing
<1> QED
  BY <1>1, <1>2 DEF StatusInv

\* ...and after every step...
LEMMA StatusNext == StatusInv /\ [LCNext]_lcVars => StatusInv'
<1> SUFFICES ASSUME StatusInv, [LCNext]_lcVars
             PROVE  StoredStatusLag' /\ Handling' /\ Undisturbed'
  BY TypeNext DEF StatusInv
<1> USE StatusOfSignal, LifecycleAssumption, PersistWrites 
       DEF StatusInv, StoredStatusLag, Handling, Undisturbed, Finishing
<1>0. /\ csig \in Signal /\ status \in Status
      /\ cpc \in {"off", "select", "lock", "persist", "publish", "cancel",
              "exit"}
  BY DEF LCTypeOK
<1>1. CASE StartManager
  BY <1>1, <1>0 DEF StartManager, Outcome
<1>2. ASSUME NEW sig \in {"Pause", "Resume"}, SendPauseOrResume(sig)
      PROVE  StoredStatusLag' /\ Handling' /\ Undisturbed'
  BY <1>2 DEF SendPauseOrResume, controlVars
<1>3. CASE CheckTerminate
  BY <1>3 DEF CheckTerminate, controlVars
<1>4. CASE SendTerminate
  BY <1>4 DEF SendTerminate, controlVars
<1>5. CASE Shutdown
  BY <1>5 DEF Shutdown, controlVars, userVars
<1>6. CASE ControlReceive
  BY <1>6, <1>0 DEF ControlReceive, Signal
<1>7. CASE ControlSetStatus
  BY <1>7, <1>0 DEF ControlSetStatus, userVars
<1>8. CASE ControlPersist
  BY <1>8, <1>0 DEF ControlPersist, userVars, Signal, Outcome
<1>9. CASE ControlPublish
  BY <1>9, <1>0 DEF ControlPublish, userVars, Signal
<1>10. CASE ControlCancel \/ ControlExit
  BY <1>10, <1>0 DEF ControlCancel, ControlExit, userVars
<1>11. ASSUME NEW o \in Outcome, FinishSet(o)
       PROVE  StoredStatusLag' /\ Handling' /\ Undisturbed'
  BY <1>11, <1>0 DEF FinishSet, controlVars, userVars, Outcome
<1>12. CASE FinishPersist
  BY <1>12, <1>0 DEF FinishPersist, controlVars, userVars
<1>13. CASE FinishPublish
  BY <1>13, <1>0 DEF FinishPublish, controlVars, userVars
<1>14. CASE FinishCancel \/ ActorExit
  BY <1>14, <1>0 DEF FinishCancel, ActorExit, controlVars, userVars
<1>15. CASE StopSendsTerminate
  BY <1>15 DEF StopSendsTerminate, controlVars
<1>16. CASE UNCHANGED lcVars
  BY <1>16 DEF lcVars
<1> QED
  BY <1>1, <1>2, <1>3, <1>4, <1>5, <1>6, <1>7, <1>8, <1>9, <1>10, <1>11,
     <1>12, <1>13, <1>14, <1>15, <1>16
  DEF LCNext, UserStep, ControlStep, FinishStep

\* ...and so always.
LEMMA StatusInvariant == LCSpec => []StatusInv
BY StatusInit, StatusNext, PTL DEF LCSpec

\* The row in the database lags behind the status in memory only while one of
\* the loops is about to write it, or after checkDone ran while controlLoop was.
THEOREM StoredStatusLagCorrect == LCSpec => []StoredStatusLag
<1>1. StatusInv => StoredStatusLag
  BY DEF StatusInv
<1> QED
  BY <1>1, StatusInvariant, PTL

\* In a live instance that is not over and whose controlLoop is settled, the paused flag, the status
\* in memory and the stored status agree, whatever signals came in what order.
THEOREM SettledStatusAgreesCorrect == LCSpec => []SettledStatusAgrees
<1>1. StatusInv => SettledStatusAgrees
  BY DEF StatusInv, Undisturbed, SettledStatusAgrees
<1> QED
  BY <1>1, StatusInvariant, PTL

\* No step takes an instance from Paused to an outcome: checkDone waits until
\* a signal took it out of Paused.
THEOREM PausedIsNotFinishedCorrect == LCSpec => PausedIsNotFinished
<1>1. StatusInv /\ [LCNext]_lcVars
        => [status = "Paused" => status' \notin Outcome]_lcVars
  <2> SUFFICES ASSUME StatusInv, LCNext, status = "Paused"
               PROVE  status' \notin Outcome
    OBVIOUS
  <2>0. csig \in Signal /\ (cpc = "off" => status = "Ready")
    BY DEF StatusInv, LCTypeOK, Handling
  <2>1. ASSUME NEW o \in Outcome, FinishSet(o) PROVE FALSE
    BY <2>1 DEF FinishSet
  <2>2. CASE ControlSetStatus
    BY <2>2, <2>0, StatusOfSignal DEF ControlSetStatus, Outcome
  <2>3. CASE StartManager
    BY <2>3, <2>0 DEF StartManager
  <2>4. CASE UNCHANGED status
    BY <2>4 DEF Outcome
  <2> QED
    BY <2>1, <2>2, <2>3, <2>4
    DEF LCNext, UserStep, ControlStep, SendPauseOrResume, CheckTerminate,
        SendTerminate, StopSendsTerminate, Shutdown, ControlReceive,
        ControlPersist, ControlPublish, ControlCancel, ControlExit,
        FinishStep, FinishPersist, FinishPublish, FinishCancel, ActorExit
<1> QED
  BY <1>1, StatusInvariant, PTL DEF LCSpec, PausedIsNotFinished

-----------------------------------------------------------------------------
(* Steps.  Seen from the lifecycle, a step of the controller is a step of  *)
(* the manager, or takes an entry from statusChan, or changes nothing.     *)

TakeStatus ==
  /\ statusChan # <<>>
  /\ statusChan' = Tail(statusChan)
  /\ UNCHANGED <<status, dbStatus, paused, ctxDone, controlChan, cpc, csig,
                 actor, terminating, signals>>

\* The manager's own steps leave the controller alone.
LEMMA ManagerStepLifecycle == ManagerStep => LCNext /\ UNCHANGED ctrlVars
BY DEF ManagerStep, LCNext, UserStep

\* What a caller's step does to the two halves.
LEMMA CallEngineLifecycle ==
  ASSUME NEW u \in User, CallEngine(u)
  PROVE  /\ [LCNext]_lcVars
         /\ UNCHANGED <<cStatus, ctrlChan, doneClosed, forwarder, op, wait>>
         /\ \E to \in {"sent", "checked", "idle"} : opc' = [opc EXCEPT ![u] = to]
<1>1. CASE op[u] # "Terminate" /\ SendPauseOrResume(op[u]) /\ MoveCall(u, "call", "sent")
  <2>1. op[u] \in {"Pause", "Resume"}
    BY <1>1 DEF SendPauseOrResume
  <2> QED
    BY <1>1, <2>1 DEF CallEngine, MoveCall, LCNext, UserStep
<1>2. CASE op[u] = "Terminate" /\ CheckTerminate /\ MoveCall(u, "call", "checked")
  BY <1>2 DEF CallEngine, MoveCall, LCNext, UserStep
<1>3. CASE /\ op[u] = "Terminate" /\ status \in Final /\ ~Finishing
           /\ UNCHANGED lcVars /\ MoveCall(u, "call", "idle")
  BY <1>3 DEF CallEngine, MoveCall
<1>4. CASE SendTerminate /\ MoveCall(u, "checked", "sent")
  BY <1>4 DEF CallEngine, MoveCall, LCNext, UserStep
<1> QED
  BY <1>1, <1>2, <1>3, <1>4 DEF CallEngine

\* A call of a user begins.
LEMMA AskChanges ==
  ASSUME NEW u \in User, NEW sig \in Signal, Ask(u, sig)
  PROVE  /\ UNCHANGED <<lcVars, cStatus, ctrlChan, doneClosed, forwarder, wait>>
         /\ op' = [op EXCEPT ![u] = sig]
         /\ opc' = [opc EXCEPT ![u] = "call"]
BY DEF Ask

\* Waiting for a confirmation changes the controller's copy at most.
LEMMA ConfirmKeeps ==
  ASSUME NEW u \in User, ConfirmStep(u)
  PROVE  UNCHANGED <<lcVars, doneClosed, forwarder, op, wait>>
BY DEF ConfirmStep, ConfirmAtOnce, ConfirmByUpdate, ConfirmByPoll,
       ConfirmStore, GiveUp, MoveCall

\* So does a step of Wait.
LEMMA WaitKeeps ==
  ASSUME NEW w \in Waiter, WaitStep(w)
  PROVE  UNCHANGED <<lcVars, doneClosed, forwarder, op, opc>>
BY DEF WaitStep, WaitStart, WaitDone, WaitTake, WaitStore, callVars

\* The forwarder takes a status off the channel.
LEMMA ForwardLifecycle ==
  Forward => /\ TakeStatus
             /\ UpdateStatus(Head(statusChan))
             /\ UNCHANGED <<forwarder, op, opc, wait>>
BY DEF Forward, TakeStatus, callVars

-----------------------------------------------------------------------------
(* Types.                                                                  *)

\* A channel after a receive: still a channel, and its head was in it.
LEMMA TakeType ==
  ASSUME NEW S, NEW n \in Nat, NEW seq \in Seq(S), Len(seq) <= n, seq # <<>>
  PROVE  Head(seq) \in S /\ Tail(seq) \in Seq(S) /\ Len(Tail(seq)) <= n
OBVIOUS

\* A receive leaves the types.
LEMMA TakeStatusType == LCTypeOK /\ TakeStatus => LCTypeOK'
<1> SUFFICES ASSUME LCTypeOK, TakeStatus PROVE LCTypeOK'
  OBVIOUS
<1>1. statusChan' \in Seq(Status) /\ Len(statusChan') <= StatusCap
  BY TakeType, LifecycleAssumption DEF TakeStatus, LCTypeOK
<1> QED
  BY <1>1 DEF TakeStatus, LCTypeOK

\* UpdateStatus never overfills the controller's channel.
LEMMA UpdateStatusType ==
  ASSUME NEW s \in Status, UpdateStatus(s), doneClosed \in BOOLEAN,
         ctrlChan \in Seq(Status), Len(ctrlChan) <= CtrlCap
  PROVE  /\ cStatus' \in Status /\ doneClosed' \in BOOLEAN
         /\ ctrlChan' \in Seq(Status) /\ Len(ctrlChan') <= CtrlCap
BY ControllerAssumption DEF UpdateStatus, isFinalStatus

\* The controller's types hold at first...
LEMMA WCTypeInit == WCInit => WCTypeOK
<1> SUFFICES ASSUME WCInit PROVE WCTypeOK
  OBVIOUS
<1>1. LCTypeOK
  BY TypeInit DEF WCInit
<1>2. ctrlChan \in Seq(Status) /\ Len(ctrlChan) <= CtrlCap
  BY ControllerAssumption DEF WCInit
<1> QED
  BY <1>1, <1>2 DEF WCInit, WCTypeOK, Status, Signal

\* ...and after every step.
LEMMA WCTypeNext == WCTypeOK /\ [WCNext]_wcVars => WCTypeOK'
<1> SUFFICES ASSUME WCTypeOK, [WCNext]_wcVars PROVE WCTypeOK'
  OBVIOUS
<1> USE DEF WCTypeOK
<1>1. CASE ManagerStep
  <2>1. LCTypeOK'
    BY <1>1, ManagerStepLifecycle, TypeNext
  <2> QED
    BY <1>1, <2>1, ManagerStepLifecycle DEF ctrlVars, callVars
<1>2. CASE Forward
  <2>1. LCTypeOK' /\ Head(statusChan) \in Status
    BY <1>2, ForwardLifecycle, TakeStatusType, TakeType, LifecycleAssumption
    DEF LCTypeOK, TakeStatus
  <2>2. /\ cStatus' \in Status /\ doneClosed' \in BOOLEAN
        /\ ctrlChan' \in Seq(Status) /\ Len(ctrlChan') <= CtrlCap
    BY <1>2, <2>1, ForwardLifecycle, UpdateStatusType
  <2> QED
    BY <1>2, <2>1, <2>2, ForwardLifecycle
<1>3. CASE ForwardExit
  <2>1. LCTypeOK'
    BY <1>3, TypeNext DEF ForwardExit
  <2> QED
    BY <1>3, <2>1 DEF ForwardExit, callVars
<1>4. ASSUME NEW u \in User, NEW sig \in Signal, Ask(u, sig)
      PROVE  WCTypeOK'
  <2>1. LCTypeOK'
    BY <1>4, AskChanges, TypeNext
  <2> QED
    BY <1>4, <2>1, AskChanges
<1>5. ASSUME NEW u \in User, CallEngine(u)
      PROVE  WCTypeOK'
  <2>1. LCTypeOK'
    BY <1>5, CallEngineLifecycle, TypeNext
  <2>2. PICK to \in {"sent", "checked", "idle"} : opc' = [opc EXCEPT ![u] = to]
    BY <1>5, CallEngineLifecycle
  <2> QED
    BY <1>5, <2>1, <2>2, CallEngineLifecycle
<1>6. ASSUME NEW u \in User, ConfirmStep(u)
      PROVE  WCTypeOK'
  <2>1. LCTypeOK'
    BY <1>6, ConfirmKeeps, TypeNext
  <2>2. CASE ConfirmAtOnce(u) \/ ConfirmByPoll(u) \/ GiveUp(u)
    <3>1. status \in Status
      BY DEF LCTypeOK
    <3> QED
      BY <1>6, <2>1, <2>2, <3>1, ConfirmKeeps
      DEF ConfirmAtOnce, ConfirmByPoll, GiveUp, MoveCall
  <2>3. CASE ConfirmByUpdate(u)
    <3>1. /\ Head(ctrlChan) \in Status /\ ctrlChan' \in Seq(Status)
          /\ Len(ctrlChan') <= CtrlCap
      BY <2>3, TakeType, ControllerAssumption DEF ConfirmByUpdate
    <3> QED
      BY <1>6, <2>1, <2>3, <3>1, ConfirmKeeps DEF ConfirmByUpdate
  <2>4. CASE ConfirmStore(u)
    BY <1>6, <2>1, <2>4, ConfirmKeeps DEF ConfirmStore, MoveCall
  <2> QED
    BY <1>6, <2>2, <2>3, <2>4 DEF ConfirmStep
<1>7. ASSUME NEW w \in Waiter, WaitStep(w)
      PROVE  WCTypeOK'
  <2>1. LCTypeOK'
    BY <1>7, WaitKeeps, TypeNext
  <2>2. CASE WaitStart(w) \/ WaitDone(w)
    BY <1>7, <2>1, <2>2, WaitKeeps DEF WaitStart, WaitDone
  <2>3. CASE WaitTake(w)
    <3>1. /\ Head(ctrlChan) \in Status /\ ctrlChan' \in Seq(Status)
          /\ Len(ctrlChan') <= CtrlCap
      BY <2>3, TakeType, ControllerAssumption DEF WaitTake
    <3> QED
      BY <1>7, <2>1, <2>3, <3>1, WaitKeeps DEF WaitTake
  <2>4. CASE WaitStore(w)
    BY <1>7, <2>1, <2>4, WaitKeeps DEF WaitStore
  <2> QED
    BY <1>7, <2>2, <2>3, <2>4 DEF WaitStep
<1>8. CASE UNCHANGED wcVars
  <2>1. LCTypeOK'
    BY <1>8, TypeNext DEF wcVars
  <2> QED
    BY <1>8, <2>1 DEF wcVars, ctrlVars, callVars
<1> QED
  BY <1>1, <1>2, <1>3, <1>4, <1>5, <1>6, <1>7, <1>8 DEF WCNext, CallStep

\* The variables of controller, forwarder, callers and waiters have their
\* types, and none of the three channels ever holds more than its capacity.
THEOREM WCTypeCorrect == WCSpec => []WCTypeOK
BY WCTypeInit, WCTypeNext, PTL DEF WCSpec

-----------------------------------------------------------------------------
(* Nobody is told of the end before the end.                               *)

\* The instance is over: its status is final, or the context is cancelled.  A
\* final status may be overwritten by a signal handled late, but the context
\* is cancelled by then.
Over == status \in Final \/ ctxDone

\* Why that does not end: checkDone holds mu from the outcome to the
\* cancellation, and controlLoop takes no signal after a Terminate.
EndStays ==
  /\ status \in Outcome => Finishing \/ ctxDone
  /\ status = "Terminated" =>
       \/ ctxDone
       \/ csig = "Terminate" /\ cpc \in {"persist", "publish", "cancel"}
  /\ Finishing => status \in Outcome
  /\ csig = "Terminate" /\ cpc \in {"persist", "publish", "cancel"} =>
       status \in Final
  /\ cpc = "off" => status = "Ready" /\ actor = "off"

\* An entry of a channel says that the instance is over.
Tells(chan) == \E i \in 1 .. Len(chan) : chan[i] \in Final

\* A final status left the manager, and is wherever it has got to by now.
Told ==
  \/ doneClosed
  \/ cStatus \in Final
  \/ Tells(statusChan)
  \/ Tells(ctrlChan)
  \/ \E u \in User : opc[u] \in Final
  \/ \E w \in Waiter : wait[w] \in Final \cup {"returned"}

EndInv == WCTypeOK /\ EndStays /\ (Told => Over)

\* A receive tells nothing new, and its entry tells what the channel told.
LEMMA TakeTells ==
  ASSUME NEW seq \in Seq(Status), seq # <<>>
  PROVE  /\ Tells(Tail(seq)) => Tells(seq)
         /\ Head(seq) \in Final => Tells(seq)
BY DEF Tells

\* A send, or a send dropped, tells what the channel told or the entry tells.
LEMMA SendTells ==
  ASSUME NEW seq \in Seq(Status), NEW s \in Status, Tells(Append(seq, s))
  PROVE  Tells(seq) \/ s \in Final
BY DEF Tells

\* What Publish sends is told, if it is final.
LEMMA PublishTells ==
  ASSUME NEW s \in Status, Publish(s), statusChan \in Seq(Status),
         Tells(statusChan')
  PROVE  Tells(statusChan) \/ s \in Final
BY SendTells DEF Publish

-----------------------------------------------------------------------------
\* The manager's steps keep EndStays, do not take the end back, and publish a
\* final status only when the instance is over.
LEMMA LifecycleTells ==
  ASSUME LCTypeOK, EndStays, [LCNext]_lcVars
  PROVE  /\ EndStays'
         /\ Over => Over'
         /\ Tells(statusChan') => Tells(statusChan) \/ Over'
<1> USE StatusOfSignal DEF EndStays, Over, Finishing, Final, Outcome
<1>0. /\ csig \in Signal /\ status \in Status /\ statusChan \in Seq(Status)
      /\ cpc \in {"off", "select", "lock", "persist", "publish", "cancel",
                  "exit"}
  BY DEF LCTypeOK
<1>1. CASE StartManager
  <2>1. Tells(statusChan') => Tells(statusChan)
    BY <1>1, <1>0, PublishTells DEF StartManager, Status
  <2> QED
    BY <1>1, <1>0, <2>1 DEF StartManager
<1>2. CASE ControlReceive
  BY <1>2, <1>0 DEF ControlReceive
<1>3. CASE ControlSetStatus
  BY <1>3, <1>0 DEF ControlSetStatus, Signal
<1>4. CASE ControlPersist
  BY <1>4, <1>0 DEF ControlPersist
<1>5. CASE ControlPublish
  <2>1. Tells(statusChan') => Tells(statusChan) \/ csig = "Terminate"
    BY <1>5, <1>0, PublishTells DEF ControlPublish, Signal, Status
  <2> QED
    BY <1>5, <1>0, <2>1 DEF ControlPublish
<1>6. CASE ControlCancel \/ ControlExit
  BY <1>6, <1>0 DEF ControlCancel, ControlExit
<1>7. ASSUME NEW o \in Outcome, FinishSet(o)
      PROVE  /\ EndStays'
             /\ Over => Over'
             /\ Tells(statusChan') => Tells(statusChan) \/ Over'
  BY <1>7, <1>0 DEF FinishSet, controlVars
<1>8. CASE FinishPersist
  BY <1>8 DEF FinishPersist, controlVars
<1>9. CASE FinishPublish
  <2>1. Tells(statusChan') => Tells(statusChan) \/ status \in Final
    BY <1>9, <1>0, PublishTells DEF FinishPublish
  <2> QED
    BY <1>9, <2>1 DEF FinishPublish, controlVars
<1>10. CASE FinishCancel \/ ActorExit
  BY <1>10 DEF FinishCancel, ActorExit, controlVars
<1>11. CASE UNCHANGED <<status, ctxDone, statusChan, controlVars, actor>>
  BY <1>11 DEF controlVars
<1>12. CASE Shutdown
  BY <1>12 DEF Shutdown, controlVars
<1> QED
  BY <1>1, <1>2, <1>3, <1>4, <1>5, <1>6, <1>7, <1>8, <1>9, <1>10, <1>11, <1>12
  DEF LCNext, UserStep, ControlStep, FinishStep, SendPauseOrResume,
      CheckTerminate, SendTerminate, StopSendsTerminate, lcVars, controlVars

\* Nobody is told at first...
LEMMA EndInit == WCInit => EndInv
<1> SUFFICES ASSUME WCInit PROVE EndStays /\ ~Told
  BY WCTypeInit DEF EndInv
<1> QED
  BY DEF WCInit, LCInit, EndStays, Told, Tells, Finishing, Final, Outcome

\* ...and no step tells anybody before the end.
LEMMA EndNext == EndInv /\ [WCNext]_wcVars => EndInv'
<1> SUFFICES ASSUME EndInv, [WCNext]_wcVars PROVE EndStays' /\ (Told' => Over')
  BY WCTypeNext DEF EndInv
<1> USE DEF EndInv
<1>0. /\ LCTypeOK /\ statusChan \in Seq(Status) /\ ctrlChan \in Seq(Status)
      /\ opc \in [User -> Status \cup {"idle", "call", "checked", "sent", "poll"}]
      /\ wait \in [Waiter -> Status \cup {"idle", "select", "returned"}]
  BY DEF WCTypeOK, LCTypeOK
<1>a. ASSUME [LCNext]_lcVars, Told' => Told \/ Tells(statusChan')
      PROVE  EndStays' /\ (Told' => Over')
  <2>1. EndStays' /\ (Over => Over')
        /\ (Tells(statusChan') => Tells(statusChan) \/ Over')
    BY <1>a, <1>0, LifecycleTells
  <2>2. Tells(statusChan) => Told
    BY DEF Told
  <2> QED
    BY <1>a, <2>1, <2>2
<1>1. CASE ManagerStep
  BY <1>1, <1>a, ManagerStepLifecycle DEF ctrlVars, callVars, Told
<1>2. CASE Forward
  <2>1. TakeStatus /\ UpdateStatus(Head(statusChan))
        /\ UNCHANGED <<forwarder, op, opc, wait>>
    BY <1>2, ForwardLifecycle
  <2>2. EndStays' /\ (Over => Over')
    BY <2>1 DEF TakeStatus, EndStays, Over, Finishing
  <2>3. /\ Head(statusChan) \in Status
        /\ Head(statusChan) \in Final => Tells(statusChan)
        /\ Tells(statusChan') => Tells(statusChan)
    BY <2>1, <1>0, TakeTells DEF TakeStatus
  <2>4. Tells(ctrlChan') => Tells(ctrlChan) \/ Head(statusChan) \in Final
    BY <2>1, <2>3, <1>0, SendTells DEF UpdateStatus
  <2>5. Told' => Told
    BY <2>1, <2>3, <2>4 DEF Told, UpdateStatus, isFinalStatus
  <2> QED
    BY <2>2, <2>5
<1>3. CASE ForwardExit
  BY <1>3, <1>a DEF ForwardExit, callVars, Told
<1>4. ASSUME NEW u \in User, NEW sig \in Signal, Ask(u, sig)
      PROVE  EndStays' /\ (Told' => Over')
  <2>1. Told' => Told \/ Tells(statusChan')
    BY <1>4, <1>0, AskChanges DEF Told, Final
  <2> QED
    BY <1>4, <1>a, <2>1, AskChanges
<1>5. ASSUME NEW u \in User, CallEngine(u)
      PROVE  EndStays' /\ (Told' => Over')
  <2>1. PICK to \in {"sent", "checked", "idle"} : opc' = [opc EXCEPT ![u] = to]
    BY <1>5, CallEngineLifecycle
  <2>2. Told' => Told \/ Tells(statusChan')
    BY <1>5, <1>0, <2>1, CallEngineLifecycle DEF Told, Final
  <2> QED
    BY <1>5, <1>a, <2>2, CallEngineLifecycle
<1>6. ASSUME NEW u \in User, ConfirmStep(u)
      PROVE  EndStays' /\ (Told' => Over')
  <2>0. EndStays' /\ (Over => Over') /\ UNCHANGED <<statusChan, doneClosed, wait>>
    BY <1>6, ConfirmKeeps DEF lcVars, EndStays, Over, Finishing
  <2>1. CASE ConfirmAtOnce(u) \/ GiveUp(u)
    BY <1>0, <2>0, <2>1 DEF ConfirmAtOnce, GiveUp, MoveCall, Told, Final
  <2>2. CASE ConfirmByPoll(u)
    <3>1. opc' = [opc EXCEPT ![u] = status] /\ UNCHANGED <<cStatus, ctrlChan>>
      BY <2>2 DEF ConfirmByPoll, MoveCall
    <3>2. Told' => Told \/ status \in Final
      BY <1>0, <2>0, <3>1 DEF Told
    <3> QED
      BY <2>0, <3>2 DEF Over
  <2>3. CASE ConfirmByUpdate(u)
    <3>1. /\ opc' = [opc EXCEPT ![u] = Head(ctrlChan)]
          /\ ctrlChan # <<>> /\ ctrlChan' = Tail(ctrlChan) /\ UNCHANGED cStatus
      BY <2>3 DEF ConfirmByUpdate
    <3>2. Head(ctrlChan) \in Final \/ Tells(ctrlChan') => Tells(ctrlChan)
      BY <1>0, <3>1, TakeTells
    <3>3. Told' => Told
      BY <1>0, <2>0, <3>1, <3>2 DEF Told
    <3> QED
      BY <2>0, <3>3
  <2>4. CASE ConfirmStore(u)
    <3>1. /\ cStatus' = opc[u] /\ UNCHANGED ctrlChan
          /\ \E to \in {"idle", "poll"} : opc' = [opc EXCEPT ![u] = to]
      BY <2>4 DEF ConfirmStore, MoveCall
    <3>2. Told' => Told
      BY <1>0, <2>0, <3>1 DEF Told, Final
    <3> QED
      BY <2>0, <3>2
  <2> QED
    BY <1>6, <2>1, <2>2, <2>3, <2>4 DEF ConfirmStep
<1>7. ASSUME NEW w \in Waiter, WaitStep(w)
      PROVE  EndStays' /\ (Told' => Over')
  <2>0. EndStays' /\ (Over => Over') /\ UNCHANGED <<statusChan, doneClosed, opc>>
    BY <1>7, WaitKeeps DEF lcVars, EndStays, Over, Finishing
  <2>1. CASE WaitStart(w) \/ WaitDone(w)
    <3>1. Told' => Told
      BY <1>0, <2>0, <2>1 DEF WaitStart, WaitDone, isFinalStatus, Told, Final
    <3> QED
      BY <2>0, <3>1
  <2>2. CASE WaitTake(w)
    <3>1. /\ wait' = [wait EXCEPT ![w] = Head(ctrlChan)]
          /\ ctrlChan # <<>> /\ ctrlChan' = Tail(ctrlChan) /\ UNCHANGED cStatus
      BY <2>2 DEF WaitTake
    <3>2. /\ Head(ctrlChan) \in Status
          /\ Head(ctrlChan) \in Final \/ Tells(ctrlChan') => Tells(ctrlChan)
      BY <1>0, <3>1, TakeTells
    <3>3. Told' => Told
      BY <1>0, <2>0, <3>1, <3>2 DEF Told, Status
    <3> QED
      BY <2>0, <3>3
  <2>3. CASE WaitStore(w)
    <3>1. cStatus' = wait[w] /\ UNCHANGED ctrlChan
      BY <2>3 DEF WaitStore
    <3>2. wait' = [wait EXCEPT ![w] = IF wait[w] \in Final THEN "returned"
                                                           ELSE "select"]
      BY <2>3 DEF WaitStore, isFinalStatus
    <3>3. \A x \in Waiter : wait'[x] \in Final \cup {"returned"} =>
            \E y \in Waiter : wait[y] \in Final \cup {"returned"}
      BY <1>0, <3>2 DEF Final
    <3>4. Told' => Told
      BY <2>0, <3>1, <3>3 DEF Told
    <3> QED
      BY <2>0, <3>4
  <2> QED
    BY <1>7, <2>1, <2>2, <2>3 DEF WaitStep
<1>8. CASE UNCHANGED wcVars
  BY <1>8, <1>a DEF wcVars, ctrlVars, callVars, Told
<1> QED
  BY <1>1, <1>2, <1>3, <1>4, <1>5, <1>6, <1>7, <1>8 DEF WCNext, CallStep

\* Wait returns, and doneChan is closed, only when the instance is over,
\* whoever takes which entry of which channel first, and however often older
\* entries overwrite the controller's status.
THEOREM WaitEndsOnlyAtTheEndCorrect == WCSpec => []WaitEndsOnlyAtTheEnd
<1>1. EndInv => WaitEndsOnlyAtTheEnd
  BY DEF EndInv, Told, Over, WaitEndsOnlyAtTheEnd
<1> QED
  BY <1>1, EndInit, EndNext, PTL DEF WCSpec

-----------------------------------------------------------------------------
(* Pools and sequences.                                                    *)
\* recomputeAllDone returns a pool.
LEMMA RecomputeType ==
  ASSUME NEW S, NEW p \in Pool(S)
  PROVE  recomputeAllDone(p) \in Pool(S)
BY DEF Pool, recomputeAllDone, hasReady

\* Setting one field of a pool to a value of its type leaves a pool.
LEMMA FieldTypes ==
  ASSUME NEW S, NEW p \in Pool(S), NEW n \in Nat
  PROVE  /\ [p EXCEPT !.cursor = n] \in Pool(S)
         /\ [p EXCEPT !.runningCount = n] \in Pool(S)
         /\ [p EXCEPT !.completed = n] \in Pool(S)
         /\ [p EXCEPT !.failed = n] \in Pool(S)
         /\ [p EXCEPT !.total = n] \in Pool(S)
         /\ [p EXCEPT !.jobDone = TRUE] \in Pool(S)
<1>2. [p EXCEPT !.cursor = n] \in Pool(S) BY DEF Pool
<1>3. [p EXCEPT !.runningCount = n] \in Pool(S) BY DEF Pool
<1>4. [p EXCEPT !.completed = n] \in Pool(S) BY DEF Pool
<1>5. [p EXCEPT !.failed = n] \in Pool(S) BY DEF Pool
<1>6. [p EXCEPT !.total = n] \in Pool(S) BY DEF Pool
<1>7. [p EXCEPT !.jobDone = TRUE] \in Pool(S) BY DEF Pool
<1> QED BY <1>2, <1>3, <1>4, <1>5, <1>6, <1>7

\* Every call of subtask_pool.go turns a pool into a pool.
LEMMA PoolTypes ==
  ASSUME NEW S, NEW p \in Pool(S)
  PROVE  /\ \A ts \in Seq(S) : addTasks(p, ts) \in Pool(S)
         /\ addRunning(next(p)) \in Pool(S)
         /\ taskCompleted(p) \in Pool(S)
         /\ taskFailed(p) \in Pool(S)
         /\ markJobDone(p) \in Pool(S)
<1>2. ASSUME NEW ts \in Seq(S) PROVE addTasks(p, ts) \in Pool(S)
  <2>1. p.tasks \o ts \in Seq(S) /\ p.total + Len(ts) \in Nat
    BY DEF Pool
  <2>2. [p EXCEPT !.tasks = @ \o ts] \in Pool(S)
    BY <2>1 DEF Pool
  <2>3. [p EXCEPT !.tasks = @ \o ts, !.total = @ + Len(ts)] \in Pool(S)
    BY <2>1, <2>2, FieldTypes
  <2> QED
    BY <2>3, RecomputeType DEF addTasks
<1>3. addRunning(next(p)) \in Pool(S)
  <2>0. next(p) \in Pool(S)
    BY DEF Pool, next
  <2>1. PICK n \in Pool(S) : n = next(p)
    BY <2>0
  <2>2. n.runningCount + 1 \in Nat
    BY DEF Pool
  <2>3. [n EXCEPT !.runningCount = @ + 1] \in Pool(S)
    BY <2>2, FieldTypes
  <2> QED
    BY <2>1, <2>3, RecomputeType DEF addRunning
<1>4. taskCompleted(p) \in Pool(S) /\ taskFailed(p) \in Pool(S)
  <2>1. /\ oneLess(p.runningCount) \in Nat
        /\ p.completed + 1 \in Nat /\ p.failed + 1 \in Nat
    BY DEF Pool, oneLess
  <2>2. [p EXCEPT !.runningCount = oneLess(@)] \in Pool(S)
    BY <2>1, FieldTypes
  <2>3. [p EXCEPT !.runningCount = oneLess(@), !.completed = @ + 1] \in Pool(S)
    BY <2>1, <2>2, FieldTypes
  <2>4. [p EXCEPT !.runningCount = oneLess(@), !.failed = @ + 1] \in Pool(S)
    BY <2>1, <2>2, FieldTypes
  <2> QED
    BY <2>3, <2>4, RecomputeType DEF taskCompleted, taskFailed
<1>5. markJobDone(p) \in Pool(S)
  <2>1. [p EXCEPT !.jobDone = TRUE] \in Pool(S)
    BY DEF Pool
  <2> QED
    BY <2>1, RecomputeType DEF markJobDone
<1> QED
  BY <1>2, <1>3, <1>4, <1>5

\* A non-empty set of naturals has a least element (ReadyOffsets' CHOOSE).
LEMMA LeastElement ==
  ASSUME NEW S \in SUBSET Nat, S # {}
  PROVE  \E x \in S : \A y \in S : x <= y
<1> DEFINE T == {0 .. x : x \in S}
<1>1. IsWellFoundedOn(StrictSubsetOrdering(Nat), FiniteSubsetsOf(Nat))
  BY FS_StrictSubsetOrderingWellFounded
<1>2. T \subseteq FiniteSubsetsOf(Nat) /\ T # {}
  <2>1. ASSUME NEW x \in S PROVE 0 .. x \in FiniteSubsetsOf(Nat)
    BY FS_Interval DEF FiniteSubsetsOf
  <2> QED
    BY <2>1
<1>3. PICK X \in T : \A Y \in T : <<Y, X>> \notin StrictSubsetOrdering(Nat)
  <2> HIDE DEF T
  <2> QED BY <1>1, <1>2, WFMin
<1>4. PICK x \in S : X = 0 .. x
  BY <1>3
<1>5. ASSUME NEW y \in S, y < x
      PROVE  FALSE
  <2>1. 0 .. y \in T /\ 0 .. y \subseteq X /\ 0 .. y # X
    BY <1>4, <1>5
  <2>2. <<0 .. y, X>> \in StrictSubsetOrdering(Nat)
    BY <2>1, <1>4 DEF StrictSubsetOrdering
  <2> QED
    BY <1>3, <2>1, <2>2
<1> QED
  BY <1>5

\* A member of SetToSeqs(S) lists S, every element once.
LEMMA SeqsOf ==
  ASSUME NEW S, IsFiniteSet(S), NEW f \in SetToSeqs(S)
  PROVE  /\ f \in Seq(S)
         /\ \A i, j \in 1 .. Len(f) : f[i] = f[j] => i = j
         /\ \A x \in S : \E i \in 1 .. Len(f) : f[i] = x
<1>1. PICK n \in Nat : n = Cardinality(S)
  BY FS_CardinalityType
<1>2. f \in [1 .. n -> S] /\ \A i, j \in 1 .. n : i # j => f[i] # f[j]
  BY <1>1 DEF SetToSeqs
<1>3. f \in Seq(S) /\ Len(f) = n
  BY <1>2
<1>4. f \in Injection(1 .. n, S)
  BY <1>2 DEF Injection, IsInjective
<1>5. Cardinality(1 .. n) = n /\ IsFiniteSet(1 .. n)
  BY FS_Interval
<1>6. f \in Surjection(1 .. n, S)
  BY <1>1, <1>4, <1>5, FS_Injection
<1> QED
  BY <1>2, <1>3, <1>6 DEF Surjection

\* A sequence without repetitions is as long as its range is large.
LEMMA InjectiveLength ==
  ASSUME NEW S, NEW f \in Seq(S),
         \A i, j \in 1 .. Len(f) : f[i] = f[j] => i = j
  PROVE  /\ IsFiniteSet({f[i] : i \in 1 .. Len(f)})
         /\ Cardinality({f[i] : i \in 1 .. Len(f)}) = Len(f)
<1>1. PICK n \in Nat : n = Len(f)
  OBVIOUS
<1>2. PICK T : T = {f[i] : i \in 1 .. n}
  OBVIOUS
<1>3. f \in Bijection(1 .. n, T)
  BY <1>1, <1>2 DEF Bijection, Injection, Surjection, IsInjective
<1>4. IsFiniteSet(1 .. n) /\ Cardinality(1 .. n) = n
  BY FS_Interval
<1>5. ExistsBijection(1 .. n, T)
  BY <1>3 DEF ExistsBijection
<1>6. IsFiniteSet(T) /\ Cardinality(T) = Cardinality(1 .. n)
  BY <1>4, <1>5, FS_Bijection
<1> QED
  BY <1>1, <1>2, <1>4, <1>6

-----------------------------------------------------------------------------
(* What each call of a pool does to its fields.                            *)

AllOver(p) ==
  /\ p.jobDone
  /\ p.completed + p.failed >= p.total
  /\ p.runningCount = 0
  /\ ~hasReady(p)

\* recomputeAllDone sets allDone by its condition and nothing else.
LEMMA RecomputeFields ==
  ASSUME NEW S, NEW p \in Pool(S)
  PROVE  LET q == recomputeAllDone(p) IN
         /\ q.tasks = p.tasks /\ q.cursor = p.cursor
         /\ q.runningCount = p.runningCount
         /\ q.completed = p.completed /\ q.failed = p.failed
         /\ q.total = p.total /\ q.jobDone = p.jobDone
         /\ q.allDone <=> AllOver(q)
BY DEF Pool, recomputeAllDone, hasReady, AllOver

\* addTasks appends and counts in total.
LEMMA AddTasksFields ==
  ASSUME NEW S, NEW p \in Pool(S), NEW ts \in Seq(S), ts # <<>>
  PROVE  LET q == addTasks(p, ts) IN
         /\ q.tasks = p.tasks \o ts /\ q.cursor = p.cursor
         /\ q.runningCount = p.runningCount
         /\ q.completed = p.completed /\ q.failed = p.failed
         /\ q.total = p.total + Len(ts) /\ q.jobDone = p.jobDone
         /\ q.allDone <=> AllOver(q)
<1> DEFINE r == [p EXCEPT !.tasks = @ \o ts, !.total = @ + Len(ts)]
<1>1. r \in Pool(S)
  <2>0. p.tasks \o ts \in Seq(S)
    BY DEF Pool
  <2>1. [p EXCEPT !.tasks = @ \o ts] \in Pool(S)
    BY <2>0 DEF Pool
  <2>2. p.total + Len(ts) \in Nat
    BY DEF Pool
  <2> QED
    BY <2>1, <2>2, FieldTypes
<1>2. /\ r.tasks = p.tasks \o ts /\ r.cursor = p.cursor
         /\ r.runningCount = p.runningCount
         /\ r.completed = p.completed /\ r.failed = p.failed
         /\ r.total = p.total + Len(ts) /\ r.jobDone = p.jobDone
  BY DEF Pool
<1>3. addTasks(p, ts) = recomputeAllDone(r)
  BY DEF addTasks
<1> HIDE DEF r
<1> QED
  BY <1>1, <1>2, <1>3, RecomputeFields

\* next(1) and addRunning move the cursor and count the task as running.
LEMMA AddRunningFields ==
  ASSUME NEW S, NEW p \in Pool(S)
  PROVE  LET q == addRunning(next(p)) IN
         /\ q.tasks = p.tasks /\ q.cursor = p.cursor + 1
         /\ q.runningCount = p.runningCount + 1
         /\ q.completed = p.completed /\ q.failed = p.failed
         /\ q.total = p.total /\ q.jobDone = p.jobDone
         /\ q.allDone <=> AllOver(q)
<1> DEFINE n == next(p)
           r == [n EXCEPT !.runningCount = @ + 1]
<1>1. /\ n \in Pool(S) /\ n.tasks = p.tasks /\ n.cursor = p.cursor + 1
      /\ n.runningCount = p.runningCount
      /\ n.completed = p.completed /\ n.failed = p.failed
      /\ n.total = p.total /\ n.jobDone = p.jobDone
  BY DEF next, Pool
<1>2. addRunning(n) = recomputeAllDone(r)
  BY DEF addRunning
<1> HIDE DEF n
<1>3. /\ r \in Pool(S) /\ r.tasks = p.tasks /\ r.cursor = p.cursor + 1
      /\ r.runningCount = p.runningCount + 1
      /\ r.completed = p.completed /\ r.failed = p.failed
      /\ r.total = p.total /\ r.jobDone = p.jobDone
  BY <1>1 DEF Pool
<1> HIDE DEF r
<1> QED
  BY <1>2, <1>3, RecomputeFields DEF n

\* taskCompleted takes the task from runningCount to completed.
LEMMA CompletedFields ==
  ASSUME NEW S, NEW p \in Pool(S), p.runningCount > 0
  PROVE  LET q == taskCompleted(p) IN
         /\ q.tasks = p.tasks /\ q.cursor = p.cursor
         /\ q.runningCount = p.runningCount - 1
         /\ q.completed = p.completed + 1 /\ q.failed = p.failed
         /\ q.total = p.total /\ q.jobDone = p.jobDone
         /\ q.allDone <=> AllOver(q)
<1> DEFINE r == [p EXCEPT !.runningCount = oneLess(@), !.completed = @ + 1]
<1>1. oneLess(p.runningCount) = p.runningCount - 1 /\ p.runningCount - 1 \in Nat
  BY DEF oneLess, Pool
<1>2. r \in Pool(S)
  <2>1. [p EXCEPT !.runningCount = oneLess(@)] \in Pool(S)
    BY <1>1, FieldTypes
  <2>2. p.completed + 1 \in Nat
    BY DEF Pool
  <2> QED
    BY <2>1, <2>2, FieldTypes
<1>3. /\ r.tasks = p.tasks /\ r.cursor = p.cursor
      /\ r.runningCount = p.runningCount - 1
      /\ r.completed = p.completed + 1 /\ r.failed = p.failed
      /\ r.total = p.total /\ r.jobDone = p.jobDone
  BY <1>1 DEF Pool
<1>4. taskCompleted(p) = recomputeAllDone(r)
  BY DEF taskCompleted
<1> HIDE DEF r
<1> QED
  BY <1>2, <1>3, <1>4, RecomputeFields

\* taskFailed takes the task from runningCount to failed.
LEMMA FailedFields ==
  ASSUME NEW S, NEW p \in Pool(S), p.runningCount > 0
  PROVE  LET q == taskFailed(p) IN
         /\ q.tasks = p.tasks /\ q.cursor = p.cursor
         /\ q.runningCount = p.runningCount - 1
         /\ q.completed = p.completed /\ q.failed = p.failed + 1
         /\ q.total = p.total /\ q.jobDone = p.jobDone
         /\ q.allDone <=> AllOver(q)
<1> DEFINE r == [p EXCEPT !.runningCount = oneLess(@), !.failed = @ + 1]
<1>1. oneLess(p.runningCount) = p.runningCount - 1 /\ p.runningCount - 1 \in Nat
  BY DEF oneLess, Pool
<1>2. r \in Pool(S)
  <2>1. [p EXCEPT !.runningCount = oneLess(@)] \in Pool(S)
    BY <1>1, FieldTypes
  <2>2. p.failed + 1 \in Nat
    BY DEF Pool
  <2> QED
    BY <2>1, <2>2, FieldTypes
<1>3. /\ r.tasks = p.tasks /\ r.cursor = p.cursor
      /\ r.runningCount = p.runningCount - 1
      /\ r.completed = p.completed /\ r.failed = p.failed + 1
      /\ r.total = p.total /\ r.jobDone = p.jobDone
  BY <1>1 DEF Pool
<1>4. taskFailed(p) = recomputeAllDone(r)
  BY DEF taskFailed
<1> HIDE DEF r
<1> QED
  BY <1>2, <1>3, <1>4, RecomputeFields

\* markJobDone sets jobDone.
LEMMA JobDoneFields ==
  ASSUME NEW S, NEW p \in Pool(S)
  PROVE  LET q == markJobDone(p) IN
         /\ q.tasks = p.tasks /\ q.cursor = p.cursor
         /\ q.runningCount = p.runningCount
         /\ q.completed = p.completed /\ q.failed = p.failed
         /\ q.total = p.total /\ q.jobDone = TRUE
         /\ q.allDone <=> AllOver(q)
<1> DEFINE r == [p EXCEPT !.jobDone = TRUE]
<1>1. r \in Pool(S)
  BY FieldTypes DEF Pool
<1>2. /\ r.tasks = p.tasks /\ r.cursor = p.cursor
      /\ r.runningCount = p.runningCount
      /\ r.completed = p.completed /\ r.failed = p.failed
      /\ r.total = p.total /\ r.jobDone = TRUE
  BY DEF Pool
<1>3. markJobDone(p) = recomputeAllDone(r)
  BY DEF markJobDone
<1> HIDE DEF r
<1> QED
  BY <1>1, <1>2, <1>3, RecomputeFields

-----------------------------------------------------------------------------
(* The inductive invariant.                                                *)

\* The main tasks whose children were released.  A failure marks tasks as
\* done that never ran, so mainDone alone does not say it.
Done == mainDone \cap Succeeded
Outstanding(p) ==
  {s \in SubTasksOf(p) \cap mainSubmitted : taskStatus[s] = "PENDING"}
Elems(c) == {Batch(c)[i] : i \in 1 .. Len(Batch(c))}
InInbox(m) == \E i \in 1 .. Len(inbox) : inbox[i] = m

\* The caller c sends nothing any more, and its batch, if it is still in the
\* inbox, is before position n; or it is not in the inbox at all.
SettledBefore(c, n) ==
  /\ call[c] \notin {"add", "wait"}
  /\ \A i \in 1 .. Len(inbox) : inbox[i] = AddMsg(c) => i < n
Settled(c) == call[c] \notin {"add", "wait"} /\ ~InInbox(AddMsg(c))

\* Nothing is known of a task before it is picked; a task that runs has no
\* outcome; a handler waits for its task to succeed.
FreshInv ==
  /\ \A t \in Task \ mainSubmitted :
       /\ taskStatus[t] = "PENDING" /\ t \notin running /\ t \notin exec
       /\ call[<<"job", t>>] = "idle"
  /\ \A t \in running : taskStatus[t] = "PENDING"
  /\ \A t \in Task : taskStatus[t] # "SUCCESS" \/ t \notin HasHandler
                       => call[<<"handler", t>>] = "idle"

\* A main task marked done has an outcome or a dependency that failed.
MarkedInv ==
  \A t \in mainDone : \/ taskStatus[t] # "PENDING"
                     \/ \E d \in Deps[t] : taskStatus[d] = "FAILED"

\* readyMain holds, once each, main tasks that are due and were not picked;
\* pendingDeps counts the dependencies that are not done, although failures
\* mark children done without lowering the counters of theirs.
DepsInv ==
  /\ \A i, j \in 1 .. Len(readyMain) : readyMain[i] = readyMain[j] => i = j
  /\ \A i \in 1 .. Len(readyMain) :
       readyMain[i] \notin mainSubmitted /\ Deps[readyMain[i]] \subseteq Done
  /\ \A t \in mainSubmitted \cap Main : Deps[t] \subseteq Done
  /\ \A t \in Main : pendingDeps[t] = Cardinality(Deps[t] \ Done)
  /\ MarkedInv
  /\ \A t \in Main : Deps[t] \subseteq Done =>
        \/ t \in mainSubmitted \cup mainDone
        \/ \E i \in 1 .. Len(readyMain) : readyMain[i] = t

\* A pool lists the accepted subtasks of its parent, those before the cursor
\* were picked, and each counter counts what its name says.
PoolOK(p) ==
  LET q == pools[p] IN
  /\ p \notin Parents => q = newSubTaskPool
  /\ q.jobDone => p \in Template \cap Succeeded
  /\ q.total = Len(q.tasks) /\ q.cursor <= Len(q.tasks)
  /\ q.cursor = q.runningCount + q.completed + q.failed
  /\ q.allDone <=> AllOver(q)
  /\ SubTasks(q) = SubTasksOf(p)
  /\ \A i, j \in 1 .. Len(q.tasks) : q.tasks[i] = q.tasks[j] => i = j
  /\ \A i \in 1 .. Len(q.tasks) : q.tasks[i] \in mainSubmitted <=> i <= q.cursor
  /\ q.completed = Cardinality(SubTasksOf(p) \cap Succeeded)
  /\ q.runningCount = Cardinality(Outstanding(p))

PoolInv ==
  /\ \A s \in Sub \cap mainSubmitted : subToParent[s] # None
  /\ \A p \in Task : PoolOK(p)

\* Unless SubmitTask refused it, a task that was picked and has no outcome
\* runs.
PendingInv ==
  /\ ~execDown \/ failedTasks = 0 =>
       \A t \in mainSubmitted : taskStatus[t] = "PENDING" => t \in running
  /\ failedTasks = 0 => \A t \in Task : taskStatus[t] # "FAILED"

\* A batch is in the inbox at most once, after its caller sent it, and its
\* subtasks are accepted only when the actor takes it from there.
AddsInv ==
  \A c \in Caller :
    /\ call[c] \in {"idle", "add"} => ~InInbox(AddMsg(c))
    /\ \A i, j \in 1 .. Len(inbox) :
         inbox[i] = AddMsg(c) /\ inbox[j] = AddMsg(c) => i = j
    /\ call[c] \in {"idle", "add"} \/ InInbox(AddMsg(c)) =>
         \A s \in Elems(c) : subToParent[s] = None
    /\ call[c] = "add" \/ InInbox(AddMsg(c)) => Batch(c) # <<>>

\* The inbox keeps the order of what one goroutine sends: a success comes
\* after the batch of its job, a done message after the batch of its handler,
\* so that a template is released only when nothing more is on its way to
\* its pool.
JobsSettled == \A t \in Succeeded : Settled(<<"job", t>>)
ResultsOrdered ==
  \A i \in 1 .. Len(inbox) : inbox[i].type = "result" =>
    /\ inbox[i].task \in mainSubmitted
    /\ inbox[i].ok => SettledBefore(<<"job", inbox[i].task>>, i)
DonesOrdered ==
  \A i \in 1 .. Len(inbox) : inbox[i].type = "handlerDone" =>
    /\ inbox[i].task \in Template \cap Succeeded
    /\ SettledBefore(<<"handler", inbox[i].task>>, i)
HandlersSettled ==
  \A t \in Template \cap Succeeded :
    t \in mainDone \/ pools[t].jobDone => Settled(<<"handler", t>>)
OrderInv ==
  /\ JobsSettled /\ ResultsOrdered /\ DonesOrdered /\ HandlersSettled
  /\ selfSend # None => selfSend \in Succeeded \ HasHandler

\* The aggregate of a template that was released names its subtasks that
\* succeeded.
BarrierInv ==
  \A d \in Template \cap Done \cap Parents :
    pools[d].allDone /\ contextData[d] = SubTasksOf(d) \cap Succeeded

SlotsInv == IsFiniteSet(running) /\ SlotsAccounted

\* While the instance lives, a running task is with the executor or has one
\* result in the inbox.
IsResult(m, t) == m.type = "result" /\ m.task = t
HasResult(t) == \E i \in 1 .. Len(inbox) : IsResult(inbox[i], t)
OneResult(t) ==
  \A i, j \in 1 .. Len(inbox) :
    IsResult(inbox[i], t) /\ IsResult(inbox[j], t) => i = j
ResultOK(t) ==
  /\ t \in running <=> t \in exec \/ HasResult(t)
  /\ t \in exec => ~HasResult(t)
  /\ OneResult(t)
ResultsInv == ~ctxDone => \A t \in Task : ResultOK(t)

V3IInv ==
  /\ V3TypeOK /\ FreshInv /\ DepsInv /\ PoolInv /\ PendingInv /\ AddsInv
  /\ OrderInv /\ BarrierInv /\ SlotsInv /\ ResultsInv

-----------------------------------------------------------------------------
(* The steps, one by one. *)

Recv(m) ==
  /\ ActorIdle
  /\ inbox # <<>> /\ m = Head(inbox) /\ inbox' = Tail(inbox)
  /\ UNCHANGED <<lcVars, apc, exec, execDown>>

RecvAdd(c) == c \in Caller /\ Recv(AddMsg(c)) /\ handleAdd(c)

RecvIgnored(t, ok) ==
  /\ Recv(ResultMsg(t, ok)) /\ t \in Task /\ ok \in BOOLEAN /\ t \notin running
  /\ UNCHANGED <<selfSend, dagVars, mainSubmitted, running, poolVars,
                 templateHandlerInFlight, taskStatus, contextData, countVars,
                 call>>

\* What every result of a running task does.
FreeSlot(t, ok) ==
  /\ Recv(ResultMsg(t, ok)) /\ t \in Task /\ ok \in BOOLEAN
  /\ t \in running /\ running' = running \ {t}
  /\ runningTasks' = runningTasks - 1
  /\ UNCHANGED <<mainSubmitted, activePoolIDs, rrIdx, subToParent, totalTasks>>

RecvSuccess(t) ==
  /\ FreeSlot(t, TRUE)
  /\ taskStatus' = [taskStatus EXCEPT ![t] = "SUCCESS"]
  /\ successTasks' = successTasks + 1
  /\ startHandler(t)
  /\ UNCHANGED failedTasks

RecvSubSuccess(t)  == t \in Sub /\ RecvSuccess(t) /\ onSubTaskSuccess(t)
RecvTemplateSuccess(t) ==
  t \in Template /\ RecvSuccess(t) /\ onTemplateSuccess(t)
RecvMainSuccess(t) == t \in Main \ Template /\ RecvSuccess(t) /\ onMainSuccess(t)

RecvFailure(t) ==
  /\ FreeSlot(t, FALSE)
  /\ onFailure(t, pools)
  /\ UNCHANGED <<readyMain, selfSend, templateHandlerInFlight, call>>

RecvDone(t) ==
  /\ t \in Main /\ Recv(DoneMsg(t))
  /\ handleTemplateDone(t)
  /\ UNCHANGED <<selfSend, mainSubmitted, running, activePoolIDs, rrIdx,
                 subToParent, countVars, call>>

\* ActorRecv handles one message in one of these ways.
LEMMA RecvCases ==
  ASSUME V3TypeOK, ActorRecv
  PROVE  \/ \E c \in Caller : RecvAdd(c)
         \/ \E t \in Task, ok \in BOOLEAN : RecvIgnored(t, ok)
         \/ \E t \in Task : \/ RecvSubSuccess(t) \/ RecvTemplateSuccess(t)
                            \/ RecvMainSuccess(t) \/ RecvFailure(t)
                            \/ RecvDone(t)
<1> DEFINE m == Head(inbox)
<1>1. m \in Msg /\ inbox # <<>> /\ Recv(m)
  BY DEF V3TypeOK, SchedTypeOK, ActorRecv, Recv
<1> HIDE DEF m
<1>2. CASE m.type = "add" /\ handleAdd(m.from)
  <2>1. m.from \in Caller /\ m = AddMsg(m.from)
    BY <1>1, <1>2 DEF Msg, AddMsg
  <2>2. RecvAdd(m.from)
    BY <1>1, <1>2, <2>1 DEF RecvAdd
  <2> QED
    BY <2>1, <2>2
<1>3. CASE /\ m.type = "result" /\ onResult(m.task, m.ok)
           /\ UNCHANGED <<mainSubmitted, activePoolIDs, rrIdx, subToParent>>
  <2>1. /\ m.task \in Task /\ m.ok \in BOOLEAN
        /\ m = ResultMsg(m.task, m.ok)
    BY <1>1, <1>3 DEF Msg, ResultMsg
  <2> DEFINE t == m.task
             ok == m.ok
  <2>2. t \in Task /\ ok \in BOOLEAN /\ Recv(ResultMsg(t, ok)) /\ onResult(t, ok)
    BY <1>1, <1>3, <2>1
  <2> HIDE DEF t, ok
  <2>3. CASE t \notin running
    <3>1. RecvIgnored(t, ok)
      BY <1>3, <2>2, <2>3
         DEF RecvIgnored, onResult, poolVars, dagVars, countVars
    <3> QED
      BY <2>2, <3>1
  <2>4. CASE t \in running /\ ~ok
    <3>1. RecvFailure(t)
      BY <1>3, <2>2, <2>4 DEF RecvFailure, FreeSlot, onResult
    <3> QED
      BY <2>2, <3>1
  <2>5. CASE t \in running /\ ok
    <3>1. RecvSuccess(t)
      BY <1>3, <2>2, <2>5 DEF RecvSuccess, FreeSlot, onResult
    <3>2. CASE t \in Sub
      <4>1. onSubTaskSuccess(t)
        BY <2>2, <2>5, <3>2, V3Assumption DEF onResult
      <4> QED
        BY <2>2, <3>1, <3>2, <4>1 DEF RecvSubSuccess
    <3>3. CASE t \in Template
      <4>0. t \notin Sub
        BY <3>3, V3Assumption
      <4>1. onTemplateSuccess(t)
        BY <2>2, <2>5, <3>3, <4>0 DEF onResult
      <4> QED
        BY <2>2, <3>1, <3>3, <4>1 DEF RecvTemplateSuccess
    <3>4. CASE t \notin Sub \cup Template
      <4>1. onMainSuccess(t)
        BY <2>2, <2>5, <3>4 DEF onResult
      <4> QED
        BY <2>2, <3>1, <3>4, <4>1 DEF RecvMainSuccess, Task
    <3> QED
      BY <3>2, <3>3, <3>4
  <2> QED
    BY <2>2, <2>3, <2>4, <2>5
<1>4. CASE /\ m.type = "handlerDone" /\ handleTemplateDone(m.task)
           /\ UNCHANGED <<selfSend, mainSubmitted, running, activePoolIDs,
                          rrIdx, subToParent, countVars, call>>
  <2>1. m.task \in Main /\ m.task \in Task /\ m = DoneMsg(m.task)
    BY <1>1, <1>4 DEF Msg, DoneMsg, Task
  <2>2. RecvDone(m.task)
    BY <1>1, <1>4, <2>1 DEF RecvDone
  <2> QED
    BY <2>1, <2>2
<1> QED
  BY <1>2, <1>3, <1>4 DEF ActorRecv, m

\* What every iteration of submit does with the task it picked.
Submit(t, ps) ==
  /\ apc \in {"tick", "submit"} /\ runningTasks < MaxConc
  /\ mainSubmitted' = mainSubmitted \cup {t}
  /\ apc' = "submit"
  /\ Accepted(t, ps) \/ LacksParams(t, ps) \/ Refused(ps)
  /\ UNCHANGED <<lcVars, inbox, selfSend, subToParent, activePoolIDs,
                 templateHandlerInFlight, totalTasks, execDown>>

SubmitMain(t) ==
  /\ t \in Main /\ readyMain # <<>> /\ t = Head(readyMain)
  /\ readyMain' = Tail(readyMain) /\ UNCHANGED rrIdx
  /\ Submit(t, pools)

PickedPool(p) == [pools EXCEPT ![p] = addRunning(next(@))]

SubmitSub(t, p) ==
  /\ t \in Sub /\ p \in Parents /\ p \in Task
  /\ hasReady(pools[p]) /\ t = nextTask(pools[p])
  /\ rrIdx' \in Nat /\ UNCHANGED readyMain
  /\ Submit(t, PickedPool(p))

\* The index into activePoolIDs stays in range.
LEMMA ModType ==
  ASSUME NEW a \in Nat, NEW n \in Nat, n > 0
  PROVE  a % n \in 0 .. n - 1
OBVIOUS

\* pick takes the next subtask of an active pool that has one ready.
LEMMA PickedSubIs ==
  ASSUME V3TypeOK, NEW t \in Task, NEW p \in Task, NEW rr,
         PickedSub(t, p, rr)
  PROVE  t \in Sub /\ p \in Parents /\ hasReady(pools[p]) /\ t = nextTask(pools[p])
<1> DEFINE n == Len(activePoolIDs)
           first == CHOOSE i \in ReadyOffsets : \A j \in ReadyOffsets : i <= j
           idx == (rrIdx + first) % n
<1>1. n \in Nat /\ ReadyOffsets \subseteq Nat /\ ReadyOffsets # {}
  <2>1. activePoolIDs \in Seq(Task)
    BY DEF V3TypeOK, SchedTypeOK
  <2>2. ReadyOffsets \subseteq 0 .. n - 1
    BY DEF ReadyOffsets
  <2>3. ReadyOffsets # {}
    BY DEF PickedSub
  <2> QED
    BY <2>1, <2>2, <2>3
<1>2. first \in ReadyOffsets
  BY <1>1, LeastElement
<1>3. p = activePoolIDs[idx + 1] /\ t = nextTask(pools[p])
  BY DEF PickedSub
<1> HIDE DEF first
<1>4. first \in Nat /\ n > 0 /\ hasReady(pools[activePoolIDs[idx + 1]])
  BY <1>1, <1>2 DEF ReadyOffsets
<1>5. idx \in 0 .. n - 1
  BY <1>1, <1>4, ModType DEF V3TypeOK, SchedTypeOK
<1> HIDE DEF idx
<1>6. p \in Parents /\ hasReady(pools[p])
  BY <1>1, <1>3, <1>4, <1>5 DEF Parents
<1>7. pools[p] \in Pool(Sub)
  BY DEF V3TypeOK, SchedTypeOK
<1>8. t \in Sub
  BY <1>3, <1>6, <1>7 DEF hasReady, nextTask, Pool
<1> QED
  BY <1>3, <1>6, <1>8

\* An iteration of submit handles one main task or one subtask.
LEMMA SubmitCases ==
  ASSUME V3TypeOK, ActorSubmit
  PROVE  \/ \E t \in Main : SubmitMain(t)
         \/ \E t \in Sub, p \in Task : SubmitSub(t, p)
<1>1. PICK t \in Task :
         /\ \/ /\ PickedMain(t)
               /\ readyMain' = Tail(readyMain)
               /\ UNCHANGED rrIdx
               /\ Accepted(t, pools) \/ LacksParams(t, pools) \/ Refused(pools)
            \/ \E p \in Task, rr \in 0 .. Len(activePoolIDs) :
                 /\ PickedSub(t, p, rr)
                 /\ rrIdx' = rr
                 /\ UNCHANGED readyMain
                 /\ \/ Accepted(t, PickedPool(p)) \/ LacksParams(t, PickedPool(p))
                    \/ Refused(PickedPool(p))
         /\ mainSubmitted' = mainSubmitted \cup {t}
  BY DEF ActorSubmit, PickedPool
<1>2. CASE PickedMain(t) /\ readyMain' = Tail(readyMain) /\ UNCHANGED rrIdx
             /\ (Accepted(t, pools) \/ LacksParams(t, pools) \/ Refused(pools))
  <2>1. Submit(t, pools)
    BY <1>1, <1>2 DEF ActorSubmit, Submit
  <2>2. t \in Main /\ readyMain # <<>> /\ t = Head(readyMain)
    BY <1>2 DEF PickedMain, V3TypeOK, SchedTypeOK
  <2> QED
    BY <1>2, <2>1, <2>2 DEF SubmitMain
<1>3. ASSUME NEW p \in Task, NEW rr \in 0 .. Len(activePoolIDs),
             PickedSub(t, p, rr), rrIdx' = rr, UNCHANGED readyMain,
             \/ Accepted(t, PickedPool(p)) \/ LacksParams(t, PickedPool(p))
             \/ Refused(PickedPool(p))
      PROVE  SubmitSub(t, p)
  <2>1. Submit(t, PickedPool(p))
    BY <1>1, <1>3 DEF ActorSubmit, Submit
  <2>2. rr \in Nat
    BY <1>3 DEF V3TypeOK, SchedTypeOK
  <2> QED
    BY <1>3, <2>1, <2>2, PickedSubIs DEF SubmitSub
<1>4. ASSUME NEW p \in Task, SubmitSub(t, p) PROVE t \in Sub
  BY <1>4 DEF SubmitSub
<1> QED
  BY <1>1, <1>2, <1>3, <1>4

\* What the actor does to the variables of InstanceLifecycle.
LEMMA ActorStepLifecycle == ActorStep => [LCNext]_lcVars
<1> SUFFICES ASSUME ActorStep PROVE [LCNext]_lcVars
  OBVIOUS
<1>1. CASE ActorRecv \/ ActorSelfSend \/ ActorTick \/ ActorSubmit \/ ActorSubmitEnd
  BY <1>1 DEF ActorRecv, ActorSelfSend, ActorTick, ActorSubmit, ActorSubmitEnd
<1>2. CASE ActorCheckDone
  <2>1. CASE NothingLeft /\ status # "Paused"
    <3>1. PICK o \in Outcome : FinishSet(o)
      BY <1>2, <2>1 DEF ActorCheckDone, Outcome
    <3> QED
      BY <3>1 DEF LCNext
  <2>2. CASE ~(NothingLeft /\ status # "Paused")
    BY <1>2, <2>2 DEF ActorCheckDone
  <2> QED
    BY <2>1, <2>2
<1>3. CASE ActorFinish
  BY <1>3 DEF ActorFinish, LCNext
<1>4. CASE ActorReturn
  BY <1>4 DEF ActorReturn, LCNext
<1> QED
  BY <1>1, <1>2, <1>3, <1>4 DEF ActorStep

\* Job functions, handlers and the executor do not touch the lifecycle.
LEMMA WorkerStepLifecycle == WorkerStep => UNCHANGED lcVars
<1> SUFFICES ASSUME WorkerStep PROVE UNCHANGED lcVars
  OBVIOUS
<1>1. ASSUME NEW c \in Caller, CallAdd(c) \/ CallRefused(c)
      PROVE  UNCHANGED lcVars
  BY <1>1 DEF CallAdd, CallRefused, quietVars
<1>2. ASSUME NEW t \in Task, NEW ok \in BOOLEAN, TaskEnd(t, ok)
      PROVE  UNCHANGED lcVars
  BY <1>2 DEF TaskEnd, quietVars
<1>3. ASSUME NEW t \in Task, HandlerEnd(t)
      PROVE  UNCHANGED lcVars
  BY <1>3 DEF HandlerEnd, quietVars
<1>4. CASE ExecShutdown
  BY <1>4 DEF ExecShutdown
<1> QED
  BY <1>1, <1>2, <1>3, <1>4 DEF WorkerStep

Quiet == UNCHANGED <<selfSend, inbox, dagVars, mainSubmitted, running,
                     poolVars, templateHandlerInFlight, taskStatus,
                     contextData, countVars, workVars>>

\* ctxDone is never reset.
LEMMA LCKeepsCtxDone == LCTypeOK /\ [LCNext]_lcVars /\ ctxDone => ctxDone'
<1> SUFFICES ASSUME LCNext, ctxDone PROVE ctxDone'
  BY DEF lcVars
<1> USE DEF controlVars, userVars
<1>1. CASE StartManager BY <1>1 DEF StartManager
<1>2. CASE UserStep
  BY <1>2 DEF UserStep, SendPauseOrResume, CheckTerminate, SendTerminate,
     StopSendsTerminate, Shutdown
<1>3. CASE ControlStep
  BY <1>3 DEF ControlStep, ControlReceive, ControlSetStatus, ControlPersist,
     ControlPublish, ControlCancel, ControlExit
<1>4. CASE FinishStep \/ ActorExit \/ \E o \in Outcome : FinishSet(o)
  BY <1>4 DEF FinishStep, FinishPersist, FinishPublish, FinishCancel, ActorExit,
     FinishSet
<1> QED
  BY <1>1, <1>2, <1>3, <1>4 DEF LCNext

\* Every step of the manager is one of these.
LEMMA StepCases ==
  ASSUME V3TypeOK, [V3Next]_v3Vars
  PROVE  \/ /\ Quiet /\ apc' \in {"select", "tick", "submit", "check"}
            /\ ctxDone => ctxDone'
         \/ \E c \in Caller : RecvAdd(c)
         \/ \E t \in Task, ok \in BOOLEAN : RecvIgnored(t, ok)
         \/ \E t \in Task : \/ RecvSubSuccess(t) \/ RecvTemplateSuccess(t)
                            \/ RecvMainSuccess(t) \/ RecvFailure(t)
                            \/ RecvDone(t)
         \/ \E t \in Main : SubmitMain(t)
         \/ \E t \in Sub, p \in Task : SubmitSub(t, p)
         \/ ActorSelfSend
         \/ \E c \in Caller : CallAdd(c) \/ CallRefused(c)
         \/ \E t \in Task, ok \in BOOLEAN : TaskEnd(t, ok)
         \/ \E t \in Task : HandlerEnd(t)
         \/ ExecShutdown
<1>0. ctxDone => ctxDone'
  <2>1. [LCNext]_lcVars
    <3>1. LifecycleStep => LCNext
      BY DEF LifecycleStep, LCNext, UserStep, ControlStep
    <3>2. UNCHANGED v3Vars => UNCHANGED lcVars
      BY DEF v3Vars
    <3> QED
      BY <3>1, <3>2, ActorStepLifecycle, WorkerStepLifecycle DEF V3Next
  <2> QED
    BY <2>1, LCKeepsCtxDone DEF V3TypeOK, SchedTypeOK
<1>1. CASE UNCHANGED v3Vars \/ LifecycleStep \/ ActorFinish \/ ActorReturn
  <2>1. UNCHANGED schedVars
    BY <1>1 DEF v3Vars, LifecycleStep, ActorFinish, ActorReturn
  <2> QED
    BY <1>0, <2>1 DEF schedVars, Quiet, V3TypeOK, SchedTypeOK
<1>2. CASE ActorTick \/ ActorSubmitEnd \/ ActorCheckDone
  <2>1. Quiet /\ apc' \in {"select", "tick", "submit", "check"}
    BY <1>2 DEF ActorTick, ActorSubmitEnd, ActorCheckDone, Quiet
  <2> QED
    BY <1>0, <2>1
<1>3. CASE ActorRecv
  BY <1>3, RecvCases
<1>4. CASE ActorSubmit
  BY <1>4, SubmitCases
<1>5. CASE WorkerStep \/ ActorSelfSend
  BY <1>5 DEF WorkerStep
<1> QED
  BY <1>1, <1>2, <1>3, <1>4, <1>5 DEF V3Next, ActorStep

-----------------------------------------------------------------------------
(* Typing.                                                                 *)

\* Main tasks and subtasks are the tasks, and no task is both.
LEMMA TaskSets ==
  /\ \A t \in Main : t \in Task /\ t \notin Sub
  /\ \A t \in Sub : t \in Task /\ t \notin Main
  /\ \A t \in Task : t \in Main \/ t \in Sub
  /\ \A t \in Template : t \in Main /\ t \in Task
  /\ None \notin Task
  /\ \A t \in Task : <<"job", t>> \in Caller /\ <<"handler", t>> \in Caller
BY V3Assumption DEF Task, Caller

\* A batch holds subtasks.
LEMMA BatchType ==
  ASSUME NEW c \in Caller
  PROVE  /\ Batch(c) \in Seq(Sub) /\ c[2] \in Task
         /\ Elems(c) \subseteq Sub
<1>1. c[2] \in Task /\ Batch(c) \in Seq(Sub)
  BY V3Assumption DEF Caller, Batch
<1> QED
  BY <1>1 DEF Elems

\* A task has finitely many children: onFailure counts them.
LEMMA ChildrenFinite ==
  ASSUME NEW t
  PROVE  /\ Children(t) \subseteq Main /\ IsFiniteSet(Children(t))
         /\ Cardinality(Children(t)) \in Nat
<1>1. Children(t) \subseteq Main
  BY DEF Children
<1> QED
  BY <1>1, V3Assumption, FS_Subset, FS_CardinalityType

\* Typing, Release.
LEMMA ReleaseType ==
  ASSUME SchedTypeOK, NEW t \in Main, Release(t)
  PROVE  /\ mainDone' \subseteq Main /\ pendingDeps' \in [Main -> Int]
         /\ readyMain' \in Seq(Main)
<1>1. mainDone' \subseteq Main /\ pendingDeps' \in [Main -> Int]
  BY DEF Release, SchedTypeOK
<1>2. PICK order \in SetToSeqs({c \in Children(t) :
                                  /\ pendingDeps'[c] <= 0
                                  /\ c \notin mainSubmitted \cup mainDone'}) :
         readyMain' = readyMain \o order
  BY DEF Release
<1> DEFINE R == {c \in Children(t) : /\ pendingDeps'[c] <= 0
                                     /\ c \notin mainSubmitted \cup mainDone'}
<1>3. IsFiniteSet(R) /\ R \subseteq Main
  BY ChildrenFinite, FS_Subset
<1>4. order \in Seq(R)
  <2> HIDE DEF R
  <2> QED
    BY <1>2, <1>3, SeqsOf DEF R
<1>5. order \in Seq(Main)
  <2> HIDE DEF R
  <2> QED BY <1>3, <1>4
<1> QED
  BY <1>1, <1>2, <1>5 DEF SchedTypeOK

\* Typing, completeMainTaskAndReleaseChildren.
LEMMA CompleteType ==
  ASSUME SchedTypeOK, NEW t \in Main, completeMain(t)
  PROVE  /\ mainDone' \subseteq Main /\ pendingDeps' \in [Main -> Int]
         /\ readyMain' \in Seq(Main)
BY ReleaseType DEF completeMain, dagVars, SchedTypeOK

\* Typing, tryCompleteTemplateTask.
LEMMA TryType ==
  ASSUME SchedTypeOK, NEW t, NEW p \in Pool(Sub), p.allDone => t \in Main,
         NEW ctx \in [Task -> {None} \cup SUBSET Sub],
         tryComplete(t, p, ctx)
  PROVE  /\ mainDone' \subseteq Main /\ pendingDeps' \in [Main -> Int]
         /\ readyMain' \in Seq(Main)
         /\ contextData' \in [Task -> {None} \cup SUBSET Sub]
<1>1. CASE p.allDone
  <2>1. SubTasks(p) \subseteq Sub
    BY DEF SubTasks, Pool
  <2>2. contextData' \in [Task -> {None} \cup SUBSET Sub]
    BY <1>1, <2>1 DEF tryComplete
  <2> QED
    BY <1>1, <2>2, CompleteType DEF tryComplete
<1>2. CASE ~p.allDone
  BY <1>2 DEF tryComplete, dagVars, SchedTypeOK
<1> QED
  BY <1>1, <1>2

\* Typing, taking a message from the inbox.
LEMMA RecvType ==
  ASSUME SchedTypeOK, NEW m, Recv(m)
  PROVE  /\ inbox' \in Seq(Msg) /\ Len(inbox') <= InboxCap
         /\ apc' \in {"select", "tick", "submit", "check"}
         /\ exec' \subseteq Task /\ execDown' \in BOOLEAN
BY V3Assumption DEF Recv, SchedTypeOK

\* Typing, handleAdd.
LEMMA TypeRecvAdd ==
  ASSUME SchedTypeOK, NEW c \in Caller, RecvAdd(c)
  PROVE  SchedTypeOK'
<1> DEFINE parent == c[2]
           batch == Batch(c)
<1>1. parent \in Task /\ batch \in Seq(Sub) /\ Len(batch) \in Nat
  BY BatchType
<1>2. pools[parent] \in Pool(Sub)
  BY <1>1 DEF SchedTypeOK
<1>3. addTasks(pools[parent], batch) \in Pool(Sub)
  BY <1>1, <1>2, PoolTypes
<1>4. pools' \in [Task -> Pool(Sub)]
  BY <1>3 DEF SchedTypeOK, RecvAdd, handleAdd
<1>5. activePoolIDs' \in Seq(Task)
  BY <1>1 DEF SchedTypeOK, RecvAdd, handleAdd
<1>6. subToParent' \in [Sub -> Task \cup {None}]
  BY <1>1 DEF SchedTypeOK, RecvAdd, handleAdd
<1>7. totalTasks' \in Nat
  BY <1>1 DEF SchedTypeOK, RecvAdd, handleAdd
<1>8. call' \in [Caller -> {"idle", "add", "wait", "ready", "over"}]
  BY DEF SchedTypeOK, RecvAdd, handleAdd
<1>9. /\ inbox' \in Seq(Msg) /\ Len(inbox') <= InboxCap
      /\ apc' \in {"select", "tick", "submit", "check"}
      /\ exec' \subseteq Task /\ execDown' \in BOOLEAN
  BY RecvType DEF RecvAdd
<1> QED
  BY <1>4, <1>5, <1>6, <1>7, <1>8, <1>9
  DEF SchedTypeOK, RecvAdd, handleAdd, dagVars

\* What Append does.
LEMMA AppendFacts ==
  ASSUME NEW S, NEW q \in Seq(S), NEW m \in S
  PROVE  /\ Append(q, m) \in Seq(S) /\ Len(Append(q, m)) = Len(q) + 1
         /\ \A i \in 1 .. Len(q) : Append(q, m)[i] = q[i]
         /\ Append(q, m)[Len(q) + 1] = m
OBVIOUS

\* Typing, a message put in an inbox with room.
LEMMA InboxSendType ==
  ASSUME SchedTypeOK, NEW m \in Msg, Len(inbox) < InboxCap,
         inbox' = Append(inbox, m)
  PROVE  inbox' \in Seq(Msg) /\ Len(inbox') <= InboxCap
<1>1. inbox \in Seq(Msg) /\ InboxCap \in Nat
  BY V3Assumption DEF SchedTypeOK
<1> QED
  BY <1>1, AppendFacts

\* Typing, startHandler.
LEMMA CallTypes ==
  ASSUME SchedTypeOK, NEW t \in Task, startHandler(t)
  PROVE  call' \in [Caller -> {"idle", "add", "wait", "ready", "over"}]
BY TaskSets DEF SchedTypeOK, startHandler

\* Typing, what every success has in common.
LEMMA SuccessType ==
  ASSUME SchedTypeOK, NEW t \in Task, RecvSuccess(t)
  PROVE  /\ apc' \in {"select", "tick", "submit", "check"}
         /\ inbox' \in Seq(Msg) /\ Len(inbox') <= InboxCap
         /\ mainSubmitted' \subseteq Task
         /\ running' \subseteq Task
         /\ subToParent' \in [Sub -> Task \cup {None}]
         /\ activePoolIDs' \in Seq(Task) /\ rrIdx' \in Nat
         /\ taskStatus' \in [Task -> {"PENDING", "SUCCESS", "FAILED"}]
         /\ totalTasks' \in Nat /\ successTasks' \in Nat /\ failedTasks' \in Nat
         /\ runningTasks' \in Int
         /\ call' \in [Caller -> {"idle", "add", "wait", "ready", "over"}]
         /\ exec' \subseteq Task /\ execDown' \in BOOLEAN
<1>1. /\ apc' \in {"select", "tick", "submit", "check"}
      /\ inbox' \in Seq(Msg) /\ Len(inbox') <= InboxCap
      /\ exec' \subseteq Task /\ execDown' \in BOOLEAN
  BY RecvType DEF RecvSuccess, FreeSlot
<1>2. call' \in [Caller -> {"idle", "add", "wait", "ready", "over"}]
  BY CallTypes DEF RecvSuccess
<1> QED
  BY <1>1, <1>2 DEF RecvSuccess, FreeSlot, SchedTypeOK

\* Typing, onSubTaskSuccess: the parent it releases is a main task.
LEMMA TypeSubSuccess ==
  ASSUME SchedTypeOK, NEW t \in Task, RecvSubSuccess(t),
         subToParent[t] \in Task,
         taskCompleted(pools[subToParent[t]]).allDone => subToParent[t] \in Main
  PROVE  SchedTypeOK'
<1>1. RecvSuccess(t) /\ onSubTaskSuccess(t)
  BY DEF RecvSubSuccess
<1> DEFINE p == subToParent[t]
           q == taskCompleted(pools[p])
           ctx == [contextData EXCEPT ![t] = {}]
<1>2. p \in Task /\ pools[p] \in Pool(Sub)
  BY DEF SchedTypeOK
<1>3. q \in Pool(Sub)
  BY <1>2, PoolTypes
<1>4. ctx \in [Task -> {None} \cup SUBSET Sub]
  BY DEF SchedTypeOK
<1>5. /\ mainDone' \subseteq Main /\ pendingDeps' \in [Main -> Int]
      /\ readyMain' \in Seq(Main)
      /\ contextData' \in [Task -> {None} \cup SUBSET Sub]
  <2>1. tryComplete(p, q, ctx)
    BY <1>1 DEF onSubTaskSuccess
  <2> QED
    BY <1>2, <1>3, <1>4, <2>1, TryType
<1>6. pools' \in [Task -> Pool(Sub)]
  BY <1>1, <1>2, <1>3 DEF onSubTaskSuccess, SchedTypeOK
<1>7. UNCHANGED <<selfSend, templateHandlerInFlight>>
  BY <1>1 DEF onSubTaskSuccess
<1> QED
  BY <1>1, <1>5, <1>6, <1>7, SuccessType DEF SchedTypeOK

\* Typing, onTemplateSuccess.
LEMMA TypeTemplateSuccess ==
  ASSUME SchedTypeOK, NEW t \in Task, RecvTemplateSuccess(t)
  PROVE  SchedTypeOK'
<1>1. RecvSuccess(t) /\ onTemplateSuccess(t) /\ t \in Template
  BY DEF RecvTemplateSuccess
<1>2. /\ templateHandlerInFlight' \subseteq Template
      /\ selfSend' \in Template \cup {None}
      /\ contextData' \in [Task -> {None} \cup SUBSET Sub]
      /\ UNCHANGED <<pools, pendingDeps, readyMain, mainDone>>
  BY <1>1 DEF onTemplateSuccess, SchedTypeOK, dagVars
<1> QED
  BY <1>1, <1>2, SuccessType DEF SchedTypeOK

\* Typing, onMainSuccess.
LEMMA TypeMainSuccess ==
  ASSUME SchedTypeOK, NEW t \in Task, RecvMainSuccess(t)
  PROVE  SchedTypeOK'
<1>1. RecvSuccess(t) /\ onMainSuccess(t) /\ t \in Main
  BY DEF RecvMainSuccess
<1>2. /\ mainDone' \subseteq Main /\ pendingDeps' \in [Main -> Int]
      /\ readyMain' \in Seq(Main)
  BY <1>1, ReleaseType DEF onMainSuccess
<1>3. /\ contextData' \in [Task -> {None} \cup SUBSET Sub]
      /\ UNCHANGED <<pools, selfSend, templateHandlerInFlight>>
  BY <1>1 DEF onMainSuccess, SchedTypeOK
<1> QED
  BY <1>1, <1>2, <1>3, SuccessType DEF SchedTypeOK

\* Typing, onFailure.
LEMMA FailureType ==
  ASSUME SchedTypeOK, NEW t \in Task, NEW ps \in [Task -> Pool(Sub)],
         t \in Sub => subToParent[t] \in Task,
         onFailure(t, ps)
  PROVE  /\ taskStatus' \in [Task -> {"PENDING", "SUCCESS", "FAILED"}]
         /\ failedTasks' \in Nat /\ successTasks' \in Nat
         /\ pools' \in [Task -> Pool(Sub)]
         /\ mainDone' \subseteq Main /\ pendingDeps' \in [Main -> Int]
         /\ contextData' \in [Task -> {None} \cup SUBSET Sub]
<1>1. /\ taskStatus' \in [Task -> {"PENDING", "SUCCESS", "FAILED"}]
      /\ successTasks' \in Nat /\ pendingDeps' \in [Main -> Int]
      /\ contextData' \in [Task -> {None} \cup SUBSET Sub]
  BY DEF onFailure, SchedTypeOK
<1>2. CASE t \in Sub
  <2>1. taskFailed(ps[subToParent[t]]) \in Pool(Sub)
    BY <1>2, PoolTypes
  <2>2. pools' = [ps EXCEPT ![subToParent[t]] = taskFailed(@)]
    BY <1>2 DEF onFailure
  <2>3. pools' \in [Task -> Pool(Sub)]
    BY <2>1, <2>2
  <2>4. failedTasks' \in Nat /\ mainDone' \subseteq Main
    BY <1>2 DEF onFailure, SchedTypeOK
  <2> QED
    BY <1>1, <2>3, <2>4
<1>3. CASE t \in Main
  <2>1. failedTasks' \in Nat
    BY <1>3, ChildrenFinite, TaskSets DEF onFailure, SchedTypeOK
  <2> QED
    BY <1>1, <1>3, <2>1, ChildrenFinite, TaskSets DEF onFailure, SchedTypeOK
<1> QED
  BY <1>2, <1>3, TaskSets

\* Typing, the result of a failed task.
LEMMA TypeFailure ==
  ASSUME SchedTypeOK, NEW t \in Task, RecvFailure(t),
         t \in Sub => subToParent[t] \in Task
  PROVE  SchedTypeOK'
<1>1. FreeSlot(t, FALSE) /\ onFailure(t, pools)
      /\ UNCHANGED <<readyMain, selfSend, templateHandlerInFlight, call>>
  BY DEF RecvFailure
<1>2. /\ taskStatus' \in [Task -> {"PENDING", "SUCCESS", "FAILED"}]
      /\ failedTasks' \in Nat /\ successTasks' \in Nat
      /\ pools' \in [Task -> Pool(Sub)]
      /\ mainDone' \subseteq Main /\ pendingDeps' \in [Main -> Int]
      /\ contextData' \in [Task -> {None} \cup SUBSET Sub]
  <2>1. pools \in [Task -> Pool(Sub)]
    BY DEF SchedTypeOK
  <2> QED
    BY <1>1, <2>1, FailureType
<1>3. /\ inbox' \in Seq(Msg) /\ Len(inbox') <= InboxCap
      /\ apc' \in {"select", "tick", "submit", "check"}
      /\ exec' \subseteq Task /\ execDown' \in BOOLEAN
  BY <1>1, RecvType DEF FreeSlot
<1> QED
  BY <1>1, <1>2, <1>3 DEF FreeSlot, SchedTypeOK

\* Typing, handleTemplateDone.
LEMMA TypeDone ==
  ASSUME SchedTypeOK, NEW t \in Task, RecvDone(t)
  PROVE  SchedTypeOK'
<1>1. /\ t \in Main /\ Recv(DoneMsg(t)) /\ handleTemplateDone(t)
      /\ UNCHANGED <<selfSend, mainSubmitted, running, activePoolIDs, rrIdx,
                     subToParent, countVars, call>>
  BY DEF RecvDone
<1>2. /\ inbox' \in Seq(Msg) /\ Len(inbox') <= InboxCap
      /\ apc' \in {"select", "tick", "submit", "check"}
      /\ exec' \subseteq Task /\ execDown' \in BOOLEAN
  BY <1>1, RecvType
<1>3. templateHandlerInFlight' \subseteq Template /\ UNCHANGED taskStatus
  BY <1>1 DEF handleTemplateDone, SchedTypeOK
<1>4. CASE t \in Parents
  <2> DEFINE q == markJobDone(pools[t])
  <2>1. q \in Pool(Sub)
    BY PoolTypes DEF SchedTypeOK
  <2>2. tryComplete(t, q, contextData)
    BY <1>1, <1>4 DEF handleTemplateDone
  <2>3. /\ mainDone' \subseteq Main /\ pendingDeps' \in [Main -> Int]
        /\ readyMain' \in Seq(Main)
        /\ contextData' \in [Task -> {None} \cup SUBSET Sub]
    <3>1. contextData \in [Task -> {None} \cup SUBSET Sub]
      BY DEF SchedTypeOK
    <3> QED
      BY <1>1, <2>1, <2>2, <3>1, TryType
  <2>4. pools' \in [Task -> Pool(Sub)]
    BY <1>1, <1>4, <2>1 DEF handleTemplateDone, SchedTypeOK
  <2> QED
    BY <1>1, <1>2, <1>3, <2>3, <2>4 DEF SchedTypeOK, countVars
<1>5. CASE t \notin Parents
  <2>1. completeMain(t) /\ UNCHANGED <<pools, contextData>>
    BY <1>1, <1>5 DEF handleTemplateDone
  <2>2. /\ mainDone' \subseteq Main /\ pendingDeps' \in [Main -> Int]
        /\ readyMain' \in Seq(Main)
    BY <1>1, <2>1, CompleteType
  <2> QED
    BY <1>1, <1>2, <1>3, <2>1, <2>2 DEF SchedTypeOK, countVars
<1> QED
  BY <1>4, <1>5

\* Typing, what becomes of a picked task.
LEMMA SubmitType ==
  ASSUME SchedTypeOK, NEW t \in Task, NEW ps \in [Task -> Pool(Sub)],
         t \in Sub => subToParent[t] \in Task,
         readyMain' \in Seq(Main), rrIdx' \in Nat, Submit(t, ps)
  PROVE  SchedTypeOK'
<1>1. /\ apc' = "submit" /\ mainSubmitted' \subseteq Task
      /\ UNCHANGED <<inbox, selfSend, subToParent, activePoolIDs,
                     templateHandlerInFlight, totalTasks, execDown>>
  BY DEF Submit, SchedTypeOK
<1>2. CASE Accepted(t, ps)
  <2>1. call' \in [Caller -> {"idle", "add", "wait", "ready", "over"}]
    BY <1>2, TaskSets DEF SchedTypeOK, Accepted
  <2> QED
    BY <1>1, <1>2, <2>1 DEF SchedTypeOK, Accepted
<1>3. CASE LacksParams(t, ps)
  <2>1. /\ taskStatus' \in [Task -> {"PENDING", "SUCCESS", "FAILED"}]
        /\ failedTasks' \in Nat /\ successTasks' \in Nat
        /\ pools' \in [Task -> Pool(Sub)]
        /\ mainDone' \subseteq Main /\ pendingDeps' \in [Main -> Int]
        /\ contextData' \in [Task -> {None} \cup SUBSET Sub]
    BY <1>3, FailureType DEF LacksParams
  <2> QED
    BY <1>1, <1>3, <2>1 DEF SchedTypeOK, LacksParams
<1>4. CASE Refused(ps)
  BY <1>1, <1>4 DEF SchedTypeOK, Refused
<1> QED
  BY <1>2, <1>3, <1>4 DEF Submit

\* Typing, a main task picked.
LEMMA TypeSubmitMain ==
  ASSUME SchedTypeOK, NEW t \in Main, SubmitMain(t)
  PROVE  SchedTypeOK'
<1>1. /\ pools \in [Task -> Pool(Sub)] /\ readyMain' \in Seq(Main)
      /\ rrIdx' \in Nat /\ Submit(t, pools)
  BY DEF SubmitMain, SchedTypeOK
<1> QED
  BY <1>1, SubmitType, TaskSets

\* Typing, a subtask picked.
LEMMA TypeSubmitSub ==
  ASSUME SchedTypeOK, NEW t \in Sub, NEW p \in Task, SubmitSub(t, p),
         subToParent[t] \in Task
  PROVE  SchedTypeOK'
<1>1. pools \in [Task -> Pool(Sub)]
  BY DEF SchedTypeOK
<1>2. addRunning(next(pools[p])) \in Pool(Sub)
  BY <1>1, PoolTypes
<1>3. PickedPool(p) \in [Task -> Pool(Sub)]
  BY <1>1, <1>2 DEF PickedPool
<1>4. readyMain' \in Seq(Main) /\ rrIdx' \in Nat /\ Submit(t, PickedPool(p))
  BY DEF SubmitSub, SchedTypeOK
<1> QED
  BY <1>3, <1>4, SubmitType, TaskSets

\* Typing, the done() the actor sends itself.
LEMMA TypeSelfSend == SchedTypeOK /\ ActorSelfSend => SchedTypeOK'
<1> SUFFICES ASSUME SchedTypeOK, ActorSelfSend PROVE SchedTypeOK'
  OBVIOUS
<1>1. DoneMsg(selfSend) \in Msg
  BY TaskSets DEF SchedTypeOK, ActorSelfSend, DoneMsg, Msg
<1>2. inbox' \in Seq(Msg) /\ Len(inbox') <= InboxCap
  <2>1. CASE Len(inbox) < InboxCap /\ inbox' = Append(inbox, DoneMsg(selfSend))
    BY <1>1, <2>1, InboxSendType
  <2>2. CASE UNCHANGED inbox
    BY <2>2 DEF SchedTypeOK
  <2> QED
    BY <2>1, <2>2 DEF ActorSelfSend
<1> QED
  BY <1>2 DEF SchedTypeOK, ActorSelfSend, dagVars, poolVars, countVars, workVars

\* Typing, jobs, handlers and the executor.
LEMMA TypeWorkers ==
  ASSUME SchedTypeOK, WorkerStep
  PROVE  SchedTypeOK'
<1> DEFINE QuietType == UNCHANGED quietVars =>
             (/\ inbox' \in Seq(Msg) /\ Len(inbox') <= InboxCap
              /\ call' \in [Caller -> {"idle", "add", "wait", "ready", "over"}]
              /\ exec' \subseteq Task
              => SchedTypeOK')
<1>0. QuietType
  BY DEF SchedTypeOK, quietVars, dagVars, poolVars, countVars
<1>1. ASSUME NEW c \in Caller, CallAdd(c)
      PROVE  SchedTypeOK'
  <2>1. AddMsg(c) \in Msg
    BY DEF AddMsg, Msg
  <2>2. inbox' \in Seq(Msg) /\ Len(inbox') <= InboxCap
    BY <1>1, <2>1, InboxSendType DEF CallAdd
  <2> QED
    BY <1>0, <1>1, <2>2 DEF CallAdd, SchedTypeOK
<1>2. ASSUME NEW c \in Caller, CallRefused(c)
      PROVE  SchedTypeOK'
  BY <1>0, <1>2 DEF CallRefused, SchedTypeOK
<1>3. ASSUME NEW t \in Task, NEW ok \in BOOLEAN, TaskEnd(t, ok)
      PROVE  SchedTypeOK'
  <2>1. ResultMsg(t, ok) \in Msg
    BY DEF ResultMsg, Msg
  <2>2. inbox' \in Seq(Msg) /\ Len(inbox') <= InboxCap
    <3>1. CASE Len(inbox) < InboxCap /\ inbox' = Append(inbox, ResultMsg(t, ok))
      BY <2>1, <3>1, InboxSendType
    <3>2. CASE UNCHANGED inbox
      BY <3>2 DEF SchedTypeOK
    <3> QED
      BY <1>3, <3>1, <3>2 DEF TaskEnd
  <2>3. call' \in [Caller -> {"idle", "add", "wait", "ready", "over"}]
    BY <1>3 DEF TaskEnd, SchedTypeOK
  <2> QED
    BY <1>0, <1>3, <2>2, <2>3 DEF TaskEnd, SchedTypeOK
<1>4. ASSUME NEW t \in Task, HandlerEnd(t)
      PROVE  SchedTypeOK'
  <2>1. DoneMsg(t) \in Msg
    BY <1>4, TaskSets DEF HandlerEnd, DoneMsg, Msg
  <2>2. inbox' \in Seq(Msg) /\ Len(inbox') <= InboxCap
    <3>1. CASE Len(inbox) < InboxCap /\ inbox' = Append(inbox, DoneMsg(t))
      BY <2>1, <3>1, InboxSendType
    <3>2. CASE UNCHANGED inbox
      BY <3>2 DEF SchedTypeOK
    <3> QED
      BY <1>4, <3>1, <3>2 DEF HandlerEnd
  <2> QED
    BY <1>0, <1>4, <2>2 DEF HandlerEnd, SchedTypeOK
<1>5. CASE ExecShutdown
  BY <1>5 DEF ExecShutdown, SchedTypeOK, dagVars, poolVars, countVars
<1> QED
  BY <1>1, <1>2, <1>3, <1>4, <1>5 DEF WorkerStep

\* Typing, steps that only move the actor.
LEMMA TypeQuiet ==
  ASSUME SchedTypeOK, Quiet, apc' \in {"select", "tick", "submit", "check"}
  PROVE  SchedTypeOK'
BY DEF Quiet, SchedTypeOK, dagVars, poolVars, countVars, workVars

-----------------------------------------------------------------------------
(* Tasks that were not picked yet: FreshInv.                               *)

\* A task under the inbox's head or picked by submit, as the invariant sees it.
LEMMA SubFinite ==
  ASSUME SchedTypeOK, PoolInv, NEW p \in Task
  PROVE  /\ pools[p] \in Pool(Sub)
         /\ IsFiniteSet(SubTasksOf(p)) /\ Cardinality(SubTasksOf(p)) = Len(pools[p].tasks)
         /\ IsFiniteSet(Outstanding(p))
         /\ IsFiniteSet(SubTasksOf(p) \cap Succeeded)
<1>1. pools[p] \in Pool(Sub)
  BY DEF SchedTypeOK
<1> DEFINE ts == pools[p].tasks
<1>2. /\ ts \in Seq(Sub) /\ \A i, j \in 1 .. Len(ts) : ts[i] = ts[j] => i = j
      /\ {ts[i] : i \in 1 .. Len(ts)} = SubTasksOf(p)
  BY <1>1 DEF PoolInv, PoolOK, SubTasks, Pool
<1> HIDE DEF ts
<1>3. IsFiniteSet(SubTasksOf(p)) /\ Cardinality(SubTasksOf(p)) = Len(ts)
  <2>1. /\ IsFiniteSet({ts[i] : i \in 1 .. Len(ts)})
        /\ Cardinality({ts[i] : i \in 1 .. Len(ts)}) = Len(ts)
    BY <1>2, InjectiveLength
  <2> QED
    BY <1>2, <2>1
<1>4. Outstanding(p) \subseteq SubTasksOf(p)
  BY DEF Outstanding
<1> QED
  BY <1>1, <1>3, <1>4, FS_Subset DEF ts

\* A running task was picked, has no outcome, and its pool counts it.
LEMMA RunFacts ==
  ASSUME SchedTypeOK, FreshInv, DepsInv, PoolInv, NEW t \in running
  PROVE  /\ t \in Task /\ t \in mainSubmitted /\ taskStatus[t] = "PENDING"
         /\ t \in Sub => /\ subToParent[t] \in Task
                         /\ t \in SubTasksOf(subToParent[t])
                         /\ t \in Outstanding(subToParent[t])
                         /\ pools[subToParent[t]].runningCount > 0
         /\ t \in Main => t \notin mainDone
<1>1. t \in Task /\ t \in mainSubmitted /\ taskStatus[t] = "PENDING"
  BY DEF SchedTypeOK, FreshInv
<1>2. ASSUME t \in Sub
      PROVE  /\ subToParent[t] \in Task
             /\ t \in SubTasksOf(subToParent[t])
             /\ t \in Outstanding(subToParent[t])
             /\ pools[subToParent[t]].runningCount > 0
  <2> DEFINE p == subToParent[t]
  <2>1. p \in Task /\ t \in SubTasksOf(p) /\ t \in Outstanding(p)
    BY <1>1, <1>2 DEF PoolInv, SchedTypeOK, SubTasksOf, Outstanding
  <2>2. IsFiniteSet(Outstanding(p)) /\ pools[p].runningCount = Cardinality(Outstanding(p))
    BY <2>1, SubFinite DEF PoolInv, PoolOK
  <2>3. pools[p].runningCount > 0
    BY <2>1, <2>2, FS_EmptySet, FS_CardinalityType
  <2> QED
    BY <2>1, <2>3
<1>3. ASSUME t \in Main, t \in mainDone
      PROVE  FALSE
  <2>1. PICK d \in Deps[t] : taskStatus[d] = "FAILED"
    BY <1>1, <1>3 DEF DepsInv, MarkedInv
  <2>2. d \in Succeeded
    BY <1>1, <1>3, <2>1 DEF DepsInv, Done
  <2> QED
    BY <2>1, <2>2 DEF Succeeded
<1> QED
  BY <1>1, <1>2, <1>3

\* A main task that is picked was never picked before, and is due.
LEMMA SubmitMainFacts ==
  ASSUME SchedTypeOK, FreshInv, DepsInv, NEW t \in Main, SubmitMain(t)
  PROVE  /\ t = readyMain[1] /\ 1 \in 1 .. Len(readyMain)
         /\ t \in Task /\ t \notin mainSubmitted /\ taskStatus[t] = "PENDING"
         /\ t \notin running /\ t \notin exec
         /\ call[<<"job", t>>] = "idle"
         /\ Deps[t] \subseteq Done
<1>1. t = readyMain[1] /\ 1 \in 1 .. Len(readyMain)
  BY DEF SubmitMain, SchedTypeOK
<1>2. t \notin mainSubmitted /\ Deps[t] \subseteq Done
  BY <1>1 DEF DepsInv
<1> QED
  BY <1>1, <1>2, TaskSets DEF FreshInv

\* A subtask that is picked was never picked before, and was accepted.
LEMMA SubmitSubFacts ==
  ASSUME SchedTypeOK, FreshInv, PoolInv, NEW t \in Sub, NEW p \in Task,
         SubmitSub(t, p)
  PROVE  /\ pools[p] \in Pool(Sub)
         /\ pools[p].cursor + 1 \in 1 .. Len(pools[p].tasks)
         /\ t = pools[p].tasks[pools[p].cursor + 1]
         /\ t \in Task /\ t \notin mainSubmitted /\ taskStatus[t] = "PENDING"
         /\ t \notin running /\ t \notin exec
         /\ call[<<"job", t>>] = "idle"
         /\ subToParent[t] = p /\ t \in SubTasksOf(p)
<1>1. pools[p] \in Pool(Sub)
  BY DEF SchedTypeOK
<1>2. /\ pools[p].cursor + 1 \in 1 .. Len(pools[p].tasks)
      /\ t = pools[p].tasks[pools[p].cursor + 1]
  BY <1>1 DEF SubmitSub, hasReady, nextTask, Pool
<1>3. PoolOK(p)
  BY DEF PoolInv
<1>4. t \notin mainSubmitted
  <2>1. \A i \in 1 .. Len(pools[p].tasks) :
          pools[p].tasks[i] \in mainSubmitted <=> i <= pools[p].cursor
    BY <1>3 DEF PoolOK
  <2>2. pools[p].cursor \in Nat
    BY <1>1 DEF Pool
  <2> QED
    BY <1>2, <2>1, <2>2
<1>5. t \in SubTasksOf(p)
  BY <1>1, <1>2, <1>3 DEF PoolOK, SubTasks
<1> QED
  BY <1>1, <1>2, <1>4, <1>5, TaskSets DEF FreshInv, SubTasksOf

-----------------------------------------------------------------------------
\* FreshInv, steps that touch none of its variables.
LEMMA FreshFrame ==
  ASSUME FreshInv, UNCHANGED <<taskStatus, running, exec, call>>,
         mainSubmitted' = mainSubmitted
  PROVE  FreshInv'
BY DEF FreshInv

\* FreshInv is kept.
LEMMA FreshStep ==
  ASSUME SchedTypeOK, FreshInv, DepsInv, PoolInv, V3TypeOK, [V3Next]_v3Vars
  PROVE  FreshInv'
<1>1. CASE Quiet
  BY <1>1, FreshFrame DEF Quiet, workVars
<1>2. ASSUME NEW c \in Caller, RecvAdd(c) PROVE FreshInv'
  BY <1>2 DEF FreshInv, RecvAdd, handleAdd, Recv, SchedTypeOK
<1>3. ASSUME NEW t \in Task, NEW ok \in BOOLEAN, RecvIgnored(t, ok) PROVE FreshInv'
  BY <1>3, FreshFrame DEF RecvIgnored, Recv
<1>4. ASSUME NEW t \in Task, RecvSuccess(t) PROVE FreshInv'
  <2>1. t \in mainSubmitted /\ t \in running
    BY <1>4, RunFacts DEF RecvSuccess, FreeSlot
  <2>2. /\ mainSubmitted' = mainSubmitted /\ running' = running \ {t}
        /\ exec' = exec /\ taskStatus' = [taskStatus EXCEPT ![t] = "SUCCESS"]
        /\ startHandler(t)
    BY <1>4 DEF RecvSuccess, FreeSlot, Recv
  <2>3. \A x \in Task : /\ call'[<<"job", x>>] = call[<<"job", x>>]
                        /\ x # t \/ t \notin HasHandler => call'[<<"handler", x>>] = call[<<"handler", x>>]
    BY <2>2 DEF startHandler, SchedTypeOK
  <2> QED
    BY <2>1, <2>2, <2>3 DEF FreshInv, SchedTypeOK
<1>5. ASSUME NEW t \in Task, RecvFailure(t) PROVE FreshInv'
  <2>1. t \in mainSubmitted /\ t \in running /\ taskStatus[t] = "PENDING"
    BY <1>5, RunFacts DEF RecvFailure, FreeSlot
  <2>2. /\ mainSubmitted' = mainSubmitted /\ running' = running \ {t}
        /\ exec' = exec /\ taskStatus' = [taskStatus EXCEPT ![t] = "FAILED"]
        /\ call' = call
    BY <1>5 DEF RecvFailure, FreeSlot, Recv, onFailure
  <2> QED
    BY <2>1, <2>2 DEF FreshInv, SchedTypeOK
<1>6. ASSUME NEW t \in Task, RecvDone(t) PROVE FreshInv'
  BY <1>6, FreshFrame DEF RecvDone, Recv, handleTemplateDone
<1>7. ASSUME NEW t \in Task, NEW ps, t \notin mainSubmitted,
             taskStatus[t] = "PENDING", t \notin running, Submit(t, ps)
      PROVE  FreshInv'
  <2>0. mainSubmitted' = mainSubmitted \cup {t}
    BY <1>7 DEF Submit
  <2>1. CASE Accepted(t, ps)
    <3>1. \A x \in Task : /\ x # t => call'[<<"job", x>>] = call[<<"job", x>>]
                          /\ call'[<<"handler", x>>] = call[<<"handler", x>>]
      BY <2>1, TaskSets DEF Accepted, SchedTypeOK
    <3> QED
      BY <1>7, <2>0, <2>1, <3>1 DEF Accepted, FreshInv
  <2>2. CASE LacksParams(t, ps)
    <3>1. taskStatus' = [taskStatus EXCEPT ![t] = "FAILED"] /\ UNCHANGED <<running, exec, call>>
      BY <2>2 DEF LacksParams, onFailure
    <3> QED
      BY <1>7, <2>0, <3>1 DEF FreshInv, SchedTypeOK
  <2>3. CASE Refused(ps)
    BY <2>0, <2>3 DEF Refused, FreshInv
  <2> QED
    BY <1>7, <2>1, <2>2, <2>3 DEF Submit
<1>8. ASSUME NEW t \in Main, SubmitMain(t) PROVE FreshInv'
  BY <1>7, <1>8, SubmitMainFacts DEF SubmitMain
<1>9. ASSUME NEW t \in Sub, NEW p \in Task, SubmitSub(t, p) PROVE FreshInv'
  BY <1>7, <1>9, SubmitSubFacts DEF SubmitSub
<1>10. CASE ActorSelfSend \/ ExecShutdown
  BY <1>10, FreshFrame DEF ActorSelfSend, ExecShutdown, workVars
<1>11. ASSUME NEW c \in Caller, CallAdd(c) \/ CallRefused(c) PROVE FreshInv'
  <2>1. UNCHANGED <<mainSubmitted, running, exec, taskStatus>> /\ call[c] # "idle"
    BY <1>11 DEF CallAdd, CallRefused, quietVars
  <2>2. call' = [call EXCEPT ![c] = "wait"] \/ call' = [call EXCEPT ![c] = "ready"]
    BY <1>11 DEF CallAdd, CallRefused
  <2>3. \A x \in Caller : x # c => call'[x] = call[x]
    BY <2>2 DEF SchedTypeOK
  <2> QED
    BY <2>1, <2>3, TaskSets DEF FreshInv
<1>12. ASSUME NEW t \in Task, NEW ok \in BOOLEAN, TaskEnd(t, ok) PROVE FreshInv'
  <2>1. UNCHANGED <<mainSubmitted, running, taskStatus>> /\ exec' \subseteq exec
    BY <1>12 DEF TaskEnd, quietVars
  <2>2. call' = call \/ /\ call[<<"job", t>>] = "add"
                        /\ call' = [call EXCEPT ![<<"job", t>>] = "ready"]
    BY <1>12 DEF TaskEnd
  <2>3. \A x \in Caller : call'[x] = call[x] \/ call[x] = "add"
    BY <2>2 DEF SchedTypeOK
  <2> QED
    BY <2>1, <2>3, TaskSets DEF FreshInv
<1>13. ASSUME NEW t \in Task, HandlerEnd(t) PROVE FreshInv'
  <2>1. UNCHANGED <<mainSubmitted, running, exec, taskStatus>>
    BY <1>13 DEF HandlerEnd, quietVars
  <2>2. /\ call[<<"handler", t>>] = "ready"
        /\ call' = [call EXCEPT ![<<"handler", t>>] = "over"]
    BY <1>13 DEF HandlerEnd
  <2>3. \A x \in Caller : call'[x] = call[x] \/ call[x] = "ready"
    BY <2>2 DEF SchedTypeOK
  <2> QED
    BY <2>1, <2>3, TaskSets DEF FreshInv
<1> QED
  BY StepCases, <1>1, <1>2, <1>3, <1>4, <1>5, <1>6, <1>8, <1>9, <1>10, <1>11,
     <1>12, <1>13 DEF RecvSubSuccess, RecvTemplateSuccess, RecvMainSuccess

-----------------------------------------------------------------------------
(* Dependencies: DepsInv.                                                  *)

\* DepsInv, when no dependency is released.
LEMMA DepsKeep ==
  ASSUME SchedTypeOK, DepsInv, Done' = Done, pendingDeps' = pendingDeps,
         mainDone \subseteq mainDone', MarkedInv',
         \/ /\ readyMain' = readyMain
            /\ \A t \in Main : t \in mainSubmitted' <=> t \in mainSubmitted
         \/ /\ readyMain # <<>> /\ readyMain' = Tail(readyMain)
            /\ \A t \in Main : t \in mainSubmitted'
                                 <=> t \in mainSubmitted \/ t = readyMain[1]
  PROVE  DepsInv'
<1>1. \A t \in Main : pendingDeps'[t] = Cardinality(Deps[t] \ Done')
  BY DEF DepsInv
<1>2. readyMain \in Seq(Main) /\ \A i \in 1 .. Len(readyMain) : readyMain[i] \in Main
  BY DEF SchedTypeOK
<1>3. CASE /\ readyMain' = readyMain
           /\ \A t \in Main : t \in mainSubmitted' <=> t \in mainSubmitted
  BY <1>1, <1>2, <1>3 DEF DepsInv
<1>4. CASE /\ readyMain # <<>> /\ readyMain' = Tail(readyMain)
           /\ \A t \in Main : t \in mainSubmitted'
                                <=> t \in mainSubmitted \/ t = readyMain[1]
  <2>1. /\ Len(readyMain') = Len(readyMain) - 1 /\ Len(readyMain) \in Nat
        /\ 1 \in 1 .. Len(readyMain)
        /\ \A i \in 1 .. Len(readyMain') : /\ readyMain'[i] = readyMain[i + 1]
                                           /\ i + 1 \in 1 .. Len(readyMain)
    BY <1>2, <1>4
  <2>2. \A i, j \in 1 .. Len(readyMain') : readyMain'[i] = readyMain'[j] => i = j
    BY <2>1 DEF DepsInv
  <2>3. \A i \in 1 .. Len(readyMain') : readyMain'[i] # readyMain[1]
    BY <2>1 DEF DepsInv
  <2>4. ASSUME NEW i \in 1 .. Len(readyMain')
        PROVE  readyMain'[i] \notin mainSubmitted' /\ Deps[readyMain'[i]] \subseteq Done'
    <3>1. readyMain'[i] = readyMain[i + 1] /\ i + 1 \in 1 .. Len(readyMain)
      BY <2>1
    <3>2. readyMain[i + 1] \notin mainSubmitted /\ Deps[readyMain[i + 1]] \subseteq Done
      BY <3>1 DEF DepsInv
    <3>3. readyMain'[i] \in Main /\ readyMain'[i] # readyMain[1]
      BY <1>2, <2>3, <3>1
    <3> QED
      BY <1>4, <3>1, <3>2, <3>3
  <2>5. \A t \in mainSubmitted' \cap Main : Deps[t] \subseteq Done'
    BY <1>4, <2>1 DEF DepsInv
  <2>6. \A t \in Main : Deps[t] \subseteq Done' =>
          \/ t \in mainSubmitted' \cup mainDone'
          \/ \E i \in 1 .. Len(readyMain') : readyMain'[i] = t
    <3>1. SUFFICES ASSUME NEW t \in Main, Deps[t] \subseteq Done,
                          t \notin mainSubmitted' \cup mainDone'
                   PROVE  \E i \in 1 .. Len(readyMain') : readyMain'[i] = t
      OBVIOUS
    <3>2. t \notin mainSubmitted \cup mainDone /\ t # readyMain[1]
      BY <1>4, <3>1
    <3>3. PICK k \in 1 .. Len(readyMain) : readyMain[k] = t
      BY <3>1, <3>2 DEF DepsInv
    <3>4. k # 1 /\ k - 1 \in 1 .. Len(readyMain') /\ (k - 1) + 1 = k
      BY <2>1, <3>2, <3>3
    <3>5. readyMain'[k - 1] = readyMain[(k - 1) + 1]
      BY <2>1, <3>4
    <3> QED
      BY <3>3, <3>4, <3>5
  <2> QED
    BY <1>1, <2>2, <2>4, <2>5, <2>6 DEF DepsInv
<1> QED
  BY <1>3, <1>4

\* DepsInv, when Release releases the children of t.
LEMMA DepsRelease ==
  ASSUME SchedTypeOK, DepsInv, NEW t \in Main, t \notin mainDone,
         \A x \in Main : taskStatus'[x] = taskStatus[x] \/ x = t,
         t \in mainSubmitted, Release(t), mainSubmitted' = mainSubmitted,
         taskStatus'[t] = "SUCCESS",
         taskStatus' \in [Task -> {"PENDING", "SUCCESS", "FAILED"}],
         taskStatus[t] # "FAILED"
  PROVE  DepsInv' /\ Done' = Done \cup {t} /\ t \notin Done
<1>0. PICK R : R = {c \in Children(t) :
                       /\ pendingDeps'[c] <= 0
                       /\ c \notin mainSubmitted \cup mainDone'}
  OBVIOUS
<1>1. mainDone' = mainDone \cup {t}
  BY DEF Release
<1>2. Done' = Done \cup {t} /\ t \notin Done
  BY <1>1, TaskSets DEF Done, Succeeded, SchedTypeOK
<1>3. PICK order \in SetToSeqs(R) : readyMain' = readyMain \o order
  BY <1>0 DEF Release
<1>4. IsFiniteSet(R) /\ R \subseteq Main
  <2>1. R \subseteq Children(t)
    BY <1>0
  <2> QED
    BY <2>1, ChildrenFinite, FS_Subset
<1>5. /\ order \in Seq(R)
      /\ \A i, j \in 1 .. Len(order) : order[i] = order[j] => i = j
      /\ \A x \in R : \E i \in 1 .. Len(order) : order[i] = x
  BY <1>3, <1>4, SeqsOf
<1>6. \A c \in Main : /\ IsFiniteSet(Deps[c] \ Done)
                      /\ Cardinality(Deps[c] \ Done) \in Nat
                      /\ IsFiniteSet(Deps[c] \ Done')
                      /\ Cardinality(Deps[c] \ Done') \in Nat
  <2> SUFFICES ASSUME NEW c \in Main PROVE IsFiniteSet(Deps[c] \ Done) /\ IsFiniteSet(Deps[c] \ Done')
    BY FS_CardinalityType
  <2> Deps[c] \ Done \subseteq Main /\ Deps[c] \ Done' \subseteq Main /\ IsFiniteSet(Main)
    BY V3Assumption
  <2> QED
    BY FS_Subset
<1>7. \A c \in Main : pendingDeps'[c] = Cardinality(Deps[c] \ Done')
  <2> SUFFICES ASSUME NEW c \in Main
               PROVE  pendingDeps'[c] = Cardinality(Deps[c] \ Done')
    OBVIOUS
  <2>1. pendingDeps[c] = Cardinality(Deps[c] \ Done)
    BY DEF DepsInv
  <2>2. CASE t \in Deps[c]
    <3>1. pendingDeps'[c] = pendingDeps[c] - 1
      BY <2>2 DEF Release, Children
    <3>2. Deps[c] \ Done' = (Deps[c] \ Done) \ {t} /\ t \in Deps[c] \ Done
      BY <1>2, <2>2
    <3>3. IsFiniteSet(Deps[c] \ Done) /\ Cardinality(Deps[c] \ Done) \in Nat
      BY <1>6
    <3>4. Cardinality((Deps[c] \ Done) \ {t}) = Cardinality(Deps[c] \ Done) - 1
      BY <3>2, <3>3, FS_RemoveElement
    <3> QED
      BY <2>1, <3>1, <3>2, <3>4
  <2>3. CASE t \notin Deps[c]
    <3>1. pendingDeps'[c] = pendingDeps[c]
      BY <2>3 DEF Release, Children
    <3>2. Deps[c] \ Done' = Deps[c] \ Done
      BY <1>2, <2>3
    <3> QED
      BY <2>1, <3>1, <3>2
  <2> QED
    BY <2>2, <2>3
<1>8. \A c \in Main : pendingDeps'[c] <= 0 <=> Deps[c] \subseteq Done'
  <2> SUFFICES ASSUME NEW c \in Main
               PROVE  pendingDeps'[c] <= 0 <=> Deps[c] \subseteq Done'
    OBVIOUS
  <2>1. Cardinality(Deps[c] \ Done') = 0 <=> Deps[c] \ Done' = {}
    BY <1>6, FS_EmptySet
  <2>2. Deps[c] \ Done' = {} <=> Deps[c] \subseteq Done'
    OBVIOUS
  <2>3. pendingDeps'[c] = Cardinality(Deps[c] \ Done')
    BY <1>7
  <2>4. Cardinality(Deps[c] \ Done') \in Nat
    BY <1>6
  <2> QED
    BY <2>1, <2>2, <2>3, <2>4
<1>9. \A x \in R : /\ x \in Main /\ t \in Deps[x] /\ Deps[x] \subseteq Done'
                   /\ x \notin mainSubmitted \cup mainDone'
  BY <1>0, <1>4, <1>8 DEF Children
<1>10. /\ readyMain \in Seq(Main) /\ order \in Seq(Main)
       /\ Len(readyMain') = Len(readyMain) + Len(order)
       /\ Len(readyMain) \in Nat /\ Len(order) \in Nat
       /\ \A i \in 1 .. Len(readyMain') :
            \/ i \in 1 .. Len(readyMain) /\ readyMain'[i] = readyMain[i]
            \/ i - Len(readyMain) \in 1 .. Len(order) /\ readyMain'[i] = order[i - Len(readyMain)]
       /\ \A i \in 1 .. Len(readyMain) : i \in 1 .. Len(readyMain') /\ readyMain'[i] = readyMain[i]
       /\ \A i \in 1 .. Len(order) : i + Len(readyMain) \in 1 .. Len(readyMain') /\ readyMain'[i + Len(readyMain)] = order[i]
  <2>1. readyMain \in Seq(Main) /\ order \in Seq(Main)
    BY <1>4, <1>5 DEF SchedTypeOK
  <2> QED
    BY <1>3, <2>1
<1>11. \A i \in 1 .. Len(order) : order[i] \in R
  BY <1>5
<1>12. \A i \in 1 .. Len(readyMain) : t \notin Deps[readyMain[i]]
  BY <1>2 DEF DepsInv
<1>13. ASSUME NEW i \in 1 .. Len(readyMain'), NEW j \in 1 .. Len(readyMain'),
              readyMain'[i] = readyMain'[j]
       PROVE  i = j
  <2> DEFINE n == Len(readyMain)
  <2>1. CASE i \in 1 .. n /\ j \in 1 .. n
    BY <1>10, <1>13, <2>1 DEF DepsInv
  <2>2. CASE i \notin 1 .. n /\ j \notin 1 .. n
    <3>1. i - n \in 1 .. Len(order) /\ j - n \in 1 .. Len(order) /\ order[i - n] = order[j - n]
      BY <1>10, <1>13, <2>2
    <3>2. i - n = j - n
      BY <1>5, <3>1
    <3> QED
      BY <1>10, <3>2
  <2>3. ASSUME NEW k \in 1 .. Len(readyMain')
        PROVE  t \in Deps[readyMain'[k]] <=> k \notin 1 .. n
    <3>1. CASE k \in 1 .. n
      <4>1. readyMain'[k] = readyMain[k]
        BY <1>10, <3>1
      <4> QED
        BY <1>12, <3>1, <4>1
    <3>2. CASE k \notin 1 .. n
      <4>1. k - n \in 1 .. Len(order) /\ readyMain'[k] = order[k - n]
        BY <1>10, <3>2
      <4>2. order[k - n] \in R
        BY <1>11, <4>1
      <4> QED
        BY <1>9, <3>2, <4>1, <4>2
    <3> QED
      BY <3>1, <3>2
  <2> QED
    BY <1>13, <2>1, <2>2, <2>3
<1>14. \A i \in 1 .. Len(readyMain') :
         readyMain'[i] \notin mainSubmitted' /\ Deps[readyMain'[i]] \subseteq Done'
  BY <1>2, <1>9, <1>10, <1>11 DEF DepsInv
<1>15. \A x \in mainSubmitted' \cap Main : Deps[x] \subseteq Done'
  BY <1>2 DEF DepsInv
<1>16. MarkedInv'
  <2> SUFFICES ASSUME NEW x \in mainDone', taskStatus'[x] = "PENDING"
               PROVE  \E d \in Deps[x] : taskStatus'[d] = "FAILED"
    BY DEF MarkedInv
  <2>1. x \in mainDone /\ x \in Main /\ taskStatus[x] = "PENDING"
    BY <1>1 DEF SchedTypeOK
  <2>2. PICK d \in Deps[x] : taskStatus[d] = "FAILED"
    BY <2>1 DEF DepsInv, MarkedInv
  <2>3. d \in Main
    BY <2>1, V3Assumption
  <2> QED
    BY <2>2, <2>3
<1>17. \A x \in Main : Deps[x] \subseteq Done' =>
         \/ x \in mainSubmitted' \cup mainDone'
         \/ \E i \in 1 .. Len(readyMain') : readyMain'[i] = x
  <2> SUFFICES ASSUME NEW x \in Main, Deps[x] \subseteq Done',
                      x \notin mainSubmitted' \cup mainDone'
               PROVE  \E i \in 1 .. Len(readyMain') : readyMain'[i] = x
    OBVIOUS
  <2>1. CASE t \in Deps[x]
    <3>1. x \in R
      BY <1>0, <1>8, <2>1 DEF Children
    <3>2. PICK k \in 1 .. Len(order) : order[k] = x
      BY <1>5, <3>1
    <3> QED
      BY <1>10, <3>2
  <2>2. CASE t \notin Deps[x]
    <3>1. Deps[x] \subseteq Done /\ x \notin mainSubmitted \cup mainDone
      BY <1>1, <1>2, <2>2
    <3>2. PICK k \in 1 .. Len(readyMain) : readyMain[k] = x
      BY <3>1 DEF DepsInv
    <3> QED
      BY <1>10, <3>2
  <2> QED
    BY <2>1, <2>2
<1> QED
  BY <1>2, <1>7, <1>13, <1>14, <1>15, <1>16, <1>17 DEF DepsInv

\* Dependencies are main tasks.
LEMMA DepsInMain == \A t \in Main : \A d \in Deps[t] : d \in Main
BY V3Assumption

\* MarkedInv, when no main task changes its outcome.
LEMMA MarkedFrame ==
  ASSUME SchedTypeOK, DepsInv, mainDone' = mainDone,
         \A t \in Main : taskStatus'[t] = taskStatus[t]
  PROVE  MarkedInv'
<1>1. mainDone \subseteq Main /\ MarkedInv
  BY DEF SchedTypeOK, DepsInv
<1> QED
  BY <1>1, DepsInMain DEF MarkedInv

\* DepsInv, steps that leave the main tasks alone.
LEMMA DepsFrame ==
  ASSUME SchedTypeOK, DepsInv, UNCHANGED dagVars,
         \A t \in Main : /\ taskStatus'[t] = taskStatus[t]
                         /\ t \in mainSubmitted' <=> t \in mainSubmitted
  PROVE  DepsInv' /\ Done' = Done
<1>1. Done' = Done
  BY TaskSets DEF Done, Succeeded, SchedTypeOK, dagVars
<1>2. MarkedInv'
  BY MarkedFrame DEF dagVars
<1> QED
  BY <1>1, <1>2, DepsKeep DEF dagVars

\* A template that succeeds waits for its handler.
LEMMA DepsTemplate ==
  ASSUME SchedTypeOK, DepsInv, UNCHANGED <<dagVars, mainSubmitted>>,
         NEW t \in Main, t \notin mainDone,
         taskStatus' = [taskStatus EXCEPT ![t] = "SUCCESS"],
         taskStatus[t] = "PENDING"
  PROVE  DepsInv' /\ Done' = Done
<1>1. Done' = Done
  BY TaskSets DEF Done, Succeeded, SchedTypeOK, dagVars
<1>2. MarkedInv'
  BY V3Assumption, TaskSets DEF DepsInv, MarkedInv, dagVars, SchedTypeOK
<1> QED
  BY <1>1, <1>2, DepsKeep DEF dagVars

\* A task with an outcome was picked.
LEMMA SucceededSubmitted ==
  ASSUME FreshInv, NEW t \in Task, taskStatus[t] # "PENDING"
  PROVE  t \in mainSubmitted
BY DEF FreshInv

\* A failure marks tasks done without making any of them a success.
LEMMA FailDeps ==
  ASSUME SchedTypeOK, FreshInv, DepsInv, NEW t \in Task, NEW ps,
         onFailure(t, ps), taskStatus[t] = "PENDING"
  PROVE  /\ Done' = Done /\ mainDone \subseteq mainDone' /\ MarkedInv'
         /\ pendingDeps' = pendingDeps
<1>1. taskStatus' = [taskStatus EXCEPT ![t] = "FAILED"] /\ pendingDeps' = pendingDeps
  BY DEF onFailure
<1>2. Succeeded' = Succeeded /\ t \notin Succeeded
  BY <1>1 DEF Succeeded, SchedTypeOK
<1>3. CASE t \in Sub
  <2>1. mainDone' = mainDone /\ \A x \in Main : taskStatus'[x] = taskStatus[x]
    BY <1>1, <1>3, TaskSets DEF onFailure, SchedTypeOK
  <2>2. Done' = Done
    BY <1>2, <2>1 DEF Done
  <2>3. MarkedInv'
    BY <2>1, MarkedFrame
  <2> QED
    BY <1>1, <2>1, <2>2, <2>3
<1>4. CASE t \in Main
  <2>1. mainDone' = mainDone \cup {t} \cup Children(t)
    BY <1>4, TaskSets DEF onFailure
  <2>2. \A c \in Children(t) : c \notin Succeeded
    <3>1. SUFFICES ASSUME NEW c \in Main, t \in Deps[c], c \in Succeeded
                   PROVE  FALSE
      BY DEF Children
    <3>2. c \in mainSubmitted
      BY <3>1, SucceededSubmitted DEF Succeeded
    <3>3. t \in Succeeded
      BY <3>1, <3>2 DEF DepsInv, Done
    <3> QED
      BY <1>2, <3>3
  <2>3. Done' = Done
    BY <1>2, <2>1, <2>2 DEF Done
  <2>4. MarkedInv'
    <3> SUFFICES ASSUME NEW x \in mainDone', taskStatus'[x] = "PENDING"
                 PROVE  \E d \in Deps[x] : taskStatus'[d] = "FAILED"
      BY DEF MarkedInv
    <3>1. x # t /\ x \in Main
      BY <1>1, <1>4, <2>1 DEF SchedTypeOK, Children
    <3>2. CASE x \in mainDone
      <4>1. PICK d \in Deps[x] : taskStatus[d] = "FAILED"
        BY <1>1, <3>1, <3>2, TaskSets DEF DepsInv, MarkedInv, SchedTypeOK
      <4>2. d \in Task
        BY <3>1, V3Assumption, TaskSets
      <4> QED
        BY <1>1, <4>1, <4>2 DEF SchedTypeOK
    <3>3. CASE x \in Children(t)
      BY <1>1, <3>3 DEF Children, SchedTypeOK
    <3> QED
      BY <2>1, <3>1, <3>2, <3>3
  <2> QED
    BY <1>1, <2>1, <2>3, <2>4
<1> QED
  BY <1>3, <1>4, TaskSets

\* DepsInv, completeMainTaskAndReleaseChildren with its guard.
LEMMA CompleteDeps ==
  ASSUME SchedTypeOK, DepsInv, NEW t \in Main, t \in mainSubmitted,
         completeMain(t), mainSubmitted' = mainSubmitted,
         taskStatus' \in [Task -> {"PENDING", "SUCCESS", "FAILED"}],
         \A x \in Main : taskStatus'[x] = taskStatus[x],
         taskStatus[t] = "SUCCESS"
  PROVE  DepsInv' /\ Done' = Done \cup {t} /\ t \in mainDone'
<1>1. CASE t \in mainDone
  <2>1. UNCHANGED dagVars
    BY <1>1 DEF completeMain
  <2>2. t \in Done
    BY <1>1, TaskSets DEF Done, Succeeded
  <2> QED
    BY <1>1, <2>1, <2>2, DepsFrame DEF dagVars
<1>2. CASE t \notin mainDone
  <2>1. Release(t)
    BY <1>2 DEF completeMain
  <2> QED
    BY <1>2, <2>1, DepsRelease DEF Release
<1> QED
  BY <1>1, <1>2

\* DepsInv, tryCompleteTemplateTask.
LEMMA TryDeps ==
  ASSUME SchedTypeOK, DepsInv, NEW t, NEW p, NEW ctx,
         tryComplete(t, p, ctx), mainSubmitted' = mainSubmitted,
         taskStatus' \in [Task -> {"PENDING", "SUCCESS", "FAILED"}],
         \A x \in Main : taskStatus'[x] = taskStatus[x],
         p.allDone => t \in Main /\ t \in mainSubmitted /\ taskStatus[t] = "SUCCESS"
  PROVE  /\ DepsInv'
         /\ p.allDone => Done' = Done \cup {t} /\ t \in mainDone'
         /\ ~p.allDone => Done' = Done /\ mainDone' = mainDone
<1>1. CASE p.allDone
  BY <1>1, CompleteDeps DEF tryComplete
<1>2. CASE ~p.allDone
  <2>1. UNCHANGED dagVars
    BY <1>2 DEF tryComplete
  <2> QED
    BY <1>2, <2>1, DepsFrame DEF dagVars
<1> QED
  BY <1>1, <1>2

\* A pool is over only when its parent is a template that succeeded.
LEMMA OverPool ==
  ASSUME SchedTypeOK, FreshInv, PoolInv, NEW p \in Task, pools[p].jobDone
  PROVE  p \in Template /\ p \in Main /\ p \in mainSubmitted /\ taskStatus[p] = "SUCCESS"
BY SucceededSubmitted, TaskSets DEF PoolInv, PoolOK, Succeeded

\* What a subtask's success does to its pool and its parent.
LEMMA SubSuccessFacts ==
  ASSUME SchedTypeOK, FreshInv, DepsInv, PoolInv, NEW t \in Task, RecvSubSuccess(t)
  PROVE  LET p == subToParent[t]
             q == taskCompleted(pools[p]) IN
         /\ t \in Sub /\ t \in running /\ p \in Task
         /\ taskStatus[t] = "PENDING" /\ t \in mainSubmitted
         /\ t \in SubTasksOf(p) /\ t \in Outstanding(p)
         /\ pools[p] \in Pool(Sub) /\ pools[p].runningCount > 0
         /\ pools' = [pools EXCEPT ![p] = q] /\ q \in Pool(Sub)
         /\ q.tasks = pools[p].tasks /\ q.cursor = pools[p].cursor
         /\ q.runningCount = pools[p].runningCount - 1
         /\ q.completed = pools[p].completed + 1 /\ q.failed = pools[p].failed
         /\ q.total = pools[p].total /\ q.jobDone = pools[p].jobDone
         /\ q.allDone <=> AllOver(q)
         /\ tryComplete(p, q, [contextData EXCEPT ![t] = {}])
         /\ q.allDone => /\ p \in Template /\ p \in Main /\ p \in mainSubmitted
                         /\ taskStatus[p] = "SUCCESS"
<1> DEFINE p == subToParent[t]
           q == taskCompleted(pools[p])
<1>1. t \in Sub /\ t \in running
  BY DEF RecvSubSuccess, RecvSuccess, FreeSlot
<1>2. /\ p \in Task /\ taskStatus[t] = "PENDING" /\ t \in mainSubmitted
      /\ t \in SubTasksOf(p) /\ t \in Outstanding(p)
      /\ pools[p].runningCount > 0
  BY <1>1, RunFacts
<1>3. pools[p] \in Pool(Sub)
  BY <1>2 DEF SchedTypeOK
<1>4. /\ q.tasks = pools[p].tasks /\ q.cursor = pools[p].cursor
      /\ q.runningCount = pools[p].runningCount - 1
      /\ q.completed = pools[p].completed + 1 /\ q.failed = pools[p].failed
      /\ q.total = pools[p].total /\ q.jobDone = pools[p].jobDone
      /\ q.allDone <=> AllOver(q)
      /\ q \in Pool(Sub)
  BY <1>2, <1>3, CompletedFields, PoolTypes
<1>5. /\ pools' = [pools EXCEPT ![p] = q]
      /\ tryComplete(p, q, [contextData EXCEPT ![t] = {}])
  BY DEF RecvSubSuccess, onSubTaskSuccess
<1>6. q.allDone => /\ p \in Template /\ p \in Main /\ p \in mainSubmitted
                   /\ taskStatus[p] = "SUCCESS"
  BY <1>2, <1>4, OverPool DEF AllOver
<1> HIDE DEF q
<1> QED
  BY <1>1, <1>2, <1>3, <1>4, <1>5, <1>6 DEF q

\* A done message is about a template that succeeded, and its handler
\* is through with its calls.
LEMMA DoneMsgFacts ==
  ASSUME SchedTypeOK, FreshInv, OrderInv, NEW t \in Task, RecvDone(t)
  PROVE  /\ t \in Main /\ t \in Template /\ t \in Succeeded
         /\ t \in mainSubmitted /\ taskStatus[t] = "SUCCESS"
         /\ SettledBefore(<<"handler", t>>, 1)
<1>1. 1 \in 1 .. Len(inbox) /\ inbox[1] = DoneMsg(t)
  BY DEF RecvDone, Recv, SchedTypeOK
<1>2. inbox[1].type = "handlerDone" /\ inbox[1].task = t
  BY <1>1 DEF DoneMsg
<1> QED
  BY <1>1, <1>2, SucceededSubmitted, TaskSets DEF OrderInv, DonesOrdered, Succeeded

CoreInv == SchedTypeOK /\ FreshInv /\ DepsInv /\ PoolInv

\* DepsInv, a subtask succeeds.
LEMMA DepsSubSuccess ==
  ASSUME CoreInv, NEW t \in Task, RecvSubSuccess(t)
  PROVE  LET p == subToParent[t]
             q == taskCompleted(pools[p]) IN
         /\ DepsInv'
         /\ q.allDone => Done' = Done \cup {p} /\ p \in mainDone'
         /\ ~q.allDone => Done' = Done /\ mainDone' = mainDone
         /\ \A x \in Main : taskStatus'[x] = taskStatus[x]
<1> USE DEF CoreInv
<1> DEFINE p == subToParent[t]
           q == taskCompleted(pools[p])
<1>1. /\ t \in Sub /\ tryComplete(p, q, [contextData EXCEPT ![t] = {}])
      /\ q.allDone => p \in Main /\ p \in mainSubmitted /\ taskStatus[p] = "SUCCESS"
  BY SubSuccessFacts
<1>2. /\ taskStatus' = [taskStatus EXCEPT ![t] = "SUCCESS"]
      /\ mainSubmitted' = mainSubmitted
  BY DEF RecvSubSuccess, RecvSuccess, FreeSlot
<1>3. /\ taskStatus' \in [Task -> {"PENDING", "SUCCESS", "FAILED"}]
      /\ \A x \in Main : taskStatus'[x] = taskStatus[x]
  BY <1>1, <1>2, TaskSets DEF SchedTypeOK
<1> HIDE DEF p, q
<1>4. /\ DepsInv'
      /\ q.allDone => Done' = Done \cup {p} /\ p \in mainDone'
      /\ ~q.allDone => Done' = Done /\ mainDone' = mainDone
  BY <1>1, <1>2, <1>3, TryDeps
<1> QED
  BY <1>3, <1>4 DEF p, q

\* DepsInv, a template succeeds: it is not done yet.
LEMMA DepsTemplateSuccess ==
  ASSUME CoreInv, NEW t \in Task, RecvTemplateSuccess(t)
  PROVE  /\ DepsInv' /\ Done' = Done /\ mainDone' = mainDone /\ t \notin mainDone
         /\ t \in Main
<1> USE DEF CoreInv
<1>1. t \in running /\ t \in Main
  BY TaskSets DEF RecvTemplateSuccess, RecvSuccess, FreeSlot
<1>2. /\ taskStatus' = [taskStatus EXCEPT ![t] = "SUCCESS"]
      /\ mainSubmitted' = mainSubmitted /\ UNCHANGED dagVars
  BY DEF RecvTemplateSuccess, RecvSuccess, FreeSlot, onTemplateSuccess
<1>3. taskStatus[t] = "PENDING" /\ t \notin mainDone
  BY <1>1, RunFacts
<1> QED
  BY <1>1, <1>2, <1>3, DepsTemplate DEF dagVars

\* DepsInv, another main task succeeds.
LEMMA DepsMainSuccess ==
  ASSUME CoreInv, NEW t \in Task, RecvMainSuccess(t)
  PROVE  /\ DepsInv' /\ Done' = Done \cup {t} /\ t \notin Done /\ t \in Main \ Template
         /\ mainDone' = mainDone \cup {t}
<1> USE DEF CoreInv
<1>1. t \in running /\ t \in Main \ Template
  BY DEF RecvMainSuccess, RecvSuccess, FreeSlot
<1>2. /\ taskStatus' = [taskStatus EXCEPT ![t] = "SUCCESS"]
      /\ mainSubmitted' = mainSubmitted /\ Release(t)
  BY DEF RecvMainSuccess, RecvSuccess, FreeSlot, onMainSuccess
<1>3. taskStatus[t] = "PENDING" /\ t \notin mainDone /\ t \in mainSubmitted
  BY <1>1, RunFacts
<1>4. /\ taskStatus' \in [Task -> {"PENDING", "SUCCESS", "FAILED"}]
      /\ taskStatus'[t] = "SUCCESS"
      /\ \A x \in Main : taskStatus'[x] = taskStatus[x] \/ x = t
  BY <1>2 DEF SchedTypeOK
<1>5. DepsInv' /\ Done' = Done \cup {t} /\ t \notin Done
  BY <1>1, <1>2, <1>3, <1>4, DepsRelease
<1> QED
  BY <1>1, <1>2, <1>5 DEF Release

\* DepsInv, a task fails: nothing becomes done that succeeded.
LEMMA DepsFailure ==
  ASSUME CoreInv, NEW t \in Task, RecvFailure(t)
  PROVE  DepsInv' /\ Done' = Done /\ mainDone \subseteq mainDone'
<1> USE DEF CoreInv
<1>1. /\ t \in running /\ onFailure(t, pools) /\ mainSubmitted' = mainSubmitted
      /\ readyMain' = readyMain
  BY DEF RecvFailure, FreeSlot
<1>2. taskStatus[t] = "PENDING"
  BY <1>1, RunFacts
<1>3. /\ Done' = Done /\ mainDone \subseteq mainDone' /\ MarkedInv'
      /\ pendingDeps' = pendingDeps
  BY <1>1, <1>2, FailDeps
<1> QED
  BY <1>1, <1>3, DepsKeep

\* DepsInv, a template's handler is done.
LEMMA DepsDone ==
  ASSUME CoreInv, OrderInv, NEW t \in Task, RecvDone(t)
  PROVE  LET q == markJobDone(pools[t]) IN
         /\ DepsInv'
         /\ t \in Parents /\ ~q.allDone => Done' = Done /\ mainDone' = mainDone
         /\ t \notin Parents \/ q.allDone => Done' = Done \cup {t} /\ t \in mainDone'
<1> USE DEF CoreInv
<1> DEFINE q == markJobDone(pools[t])
<1>1. t \in Main /\ t \in mainSubmitted /\ taskStatus[t] = "SUCCESS"
  BY DoneMsgFacts
<1>2. mainSubmitted' = mainSubmitted /\ taskStatus' = taskStatus
  BY DEF RecvDone, handleTemplateDone
<1>3. taskStatus' \in [Task -> {"PENDING", "SUCCESS", "FAILED"}]
  BY <1>2 DEF SchedTypeOK
<1>4. CASE t \in Parents
  <2>1. tryComplete(t, q, contextData)
    BY <1>4 DEF RecvDone, handleTemplateDone
  <2> HIDE DEF q
  <2>2. /\ DepsInv'
        /\ q.allDone => Done' = Done \cup {t} /\ t \in mainDone'
        /\ ~q.allDone => Done' = Done /\ mainDone' = mainDone
    BY <1>1, <1>2, <1>3, <2>1, TryDeps
  <2> QED
    BY <1>4, <2>2 DEF q
<1>5. CASE t \notin Parents
  <2>1. completeMain(t)
    BY <1>5 DEF RecvDone, handleTemplateDone
  <2>2. DepsInv' /\ Done' = Done \cup {t} /\ t \in mainDone'
    BY <1>1, <1>2, <1>3, <2>1, CompleteDeps
  <2> QED
    BY <1>5, <2>2
<1> QED
  BY <1>4, <1>5

\* DepsInv, what becomes of a picked task.
LEMMA DepsSubmitCase ==
  ASSUME CoreInv, NEW t \in Task, NEW ps, Submit(t, ps),
         t \notin mainSubmitted, taskStatus[t] = "PENDING"
  PROVE  /\ Done' = Done /\ mainDone \subseteq mainDone' /\ MarkedInv'
         /\ pendingDeps' = pendingDeps
<1> USE DEF CoreInv
<1>1. CASE Accepted(t, ps) \/ Refused(ps)
  <2>1. UNCHANGED <<pendingDeps, mainDone, taskStatus>>
    BY <1>1 DEF Accepted, Refused
  <2>2. Done' = Done
    BY <2>1 DEF Done, Succeeded
  <2> QED
    BY <2>1, <2>2, MarkedFrame
<1>2. CASE LacksParams(t, ps)
  BY <1>2, FailDeps DEF LacksParams
<1> QED
  BY <1>1, <1>2 DEF Submit

\* DepsInv, a main task is picked.
LEMMA DepsSubmitMain ==
  ASSUME CoreInv, NEW t \in Main, SubmitMain(t)
  PROVE  DepsInv' /\ Done' = Done /\ mainDone \subseteq mainDone'
<1> USE DEF CoreInv
<1>1. /\ t \in Task /\ t \notin mainSubmitted /\ taskStatus[t] = "PENDING"
      /\ t = readyMain[1]
  BY SubmitMainFacts
<1>2. /\ Submit(t, pools) /\ readyMain # <<>> /\ readyMain' = Tail(readyMain)
      /\ mainSubmitted' = mainSubmitted \cup {t}
  BY DEF SubmitMain, Submit
<1>3. /\ Done' = Done /\ mainDone \subseteq mainDone' /\ MarkedInv'
      /\ pendingDeps' = pendingDeps
  BY <1>1, <1>2, DepsSubmitCase
<1> QED
  BY <1>1, <1>2, <1>3, DepsKeep

\* DepsInv, a subtask is picked.
LEMMA DepsSubmitSub ==
  ASSUME CoreInv, NEW t \in Sub, NEW p \in Task, SubmitSub(t, p)
  PROVE  DepsInv' /\ Done' = Done /\ mainDone' = mainDone
<1> USE DEF CoreInv
<1>1. t \in Task /\ t \notin mainSubmitted /\ taskStatus[t] = "PENDING"
  BY SubmitSubFacts
<1>2. /\ Submit(t, PickedPool(p)) /\ readyMain' = readyMain
      /\ mainSubmitted' = mainSubmitted \cup {t}
  BY DEF SubmitSub, Submit
<1>3. /\ Done' = Done /\ mainDone \subseteq mainDone' /\ MarkedInv'
      /\ pendingDeps' = pendingDeps
  BY <1>1, <1>2, DepsSubmitCase
<1>4. mainDone' = mainDone
  BY <1>2 DEF Submit, Accepted, Refused, LacksParams, onFailure
<1> QED
  BY <1>2, <1>3, <1>4, DepsKeep, TaskSets

\* The steps that have nothing to do with the DAG.
LEMMA DepsOther ==
  ASSUME CoreInv, UNCHANGED <<dagVars, mainSubmitted, taskStatus>>
  PROVE  DepsInv' /\ Done' = Done
BY DepsFrame DEF CoreInv

\* What the other steps leave alone.
IdleVars == <<dagVars, mainSubmitted, running, activePoolIDs, rrIdx,
              templateHandlerInFlight, taskStatus, contextData,
              successTasks, failedTasks, runningTasks>>

\* The steps that leave IdleVars alone, and what else they leave alone.
LEMMA IdleSteps ==
  /\ Quiet => UNCHANGED <<IdleVars, pools, subToParent, totalTasks, inbox, call, exec, execDown, selfSend>>
  /\ \A t \in Task, ok \in BOOLEAN : RecvIgnored(t, ok) =>
       UNCHANGED <<IdleVars, pools, subToParent, totalTasks, call, exec, execDown, selfSend>>
  /\ ActorSelfSend => UNCHANGED <<IdleVars, pools, subToParent, totalTasks, call, exec, execDown>>
  /\ \A c \in Caller : CallAdd(c) \/ CallRefused(c) =>
       UNCHANGED <<IdleVars, pools, subToParent, totalTasks, exec, execDown, selfSend>>
  /\ \A t \in Task, ok \in BOOLEAN : TaskEnd(t, ok) =>
       UNCHANGED <<IdleVars, pools, subToParent, totalTasks, execDown, selfSend>>
  /\ \A t \in Task : HandlerEnd(t) => UNCHANGED <<IdleVars, pools, subToParent, totalTasks, exec, execDown, selfSend>>
  /\ ExecShutdown => UNCHANGED <<IdleVars, pools, subToParent, totalTasks, inbox, call, exec, selfSend>>
<1> USE DEF IdleVars, dagVars, poolVars, countVars, workVars, quietVars
<1>1. Quiet => UNCHANGED <<IdleVars, pools, subToParent, totalTasks, inbox, call, exec, execDown, selfSend>>
  BY DEF Quiet
<1>2. \A t \in Task, ok \in BOOLEAN : RecvIgnored(t, ok) =>
       UNCHANGED <<IdleVars, pools, subToParent, totalTasks, call, exec, execDown, selfSend>>
  BY DEF RecvIgnored, Recv
<1>3. ActorSelfSend => UNCHANGED <<IdleVars, pools, subToParent, totalTasks, call, exec, execDown>>
  BY DEF ActorSelfSend
<1>4. \A c \in Caller : CallAdd(c) \/ CallRefused(c) =>
       UNCHANGED <<IdleVars, pools, subToParent, totalTasks, exec, execDown, selfSend>>
  BY DEF CallAdd, CallRefused
<1>5. \A t \in Task, ok \in BOOLEAN : TaskEnd(t, ok) =>
       UNCHANGED <<IdleVars, pools, subToParent, totalTasks, execDown, selfSend>>
  BY DEF TaskEnd
<1>6. \A t \in Task : HandlerEnd(t) => UNCHANGED <<IdleVars, pools, subToParent, totalTasks, exec, execDown, selfSend>>
  BY DEF HandlerEnd
<1>7. ExecShutdown => UNCHANGED <<IdleVars, pools, subToParent, totalTasks, inbox, call, exec, selfSend>>
  BY DEF ExecShutdown
<1> QED
  BY <1>1, <1>2, <1>3, <1>4, <1>5, <1>6, <1>7

\* DepsInv is kept, and what is done and succeeded stays so.
LEMMA DepsStep ==
  ASSUME CoreInv, OrderInv, V3TypeOK, [V3Next]_v3Vars
  PROVE  DepsInv' /\ Done \subseteq Done'
<1>1. ASSUME NEW c \in Caller, RecvAdd(c) PROVE DepsInv' /\ Done' = Done
  BY <1>1, DepsOther DEF RecvAdd, handleAdd
<1>2. ASSUME UNCHANGED IdleVars PROVE DepsInv' /\ Done' = Done
  BY <1>2, DepsOther DEF IdleVars
<1> QED
  BY StepCases, <1>1, <1>2, IdleSteps, DepsSubSuccess, DepsTemplateSuccess, DepsMainSuccess,
     DepsFailure, DepsDone, DepsSubmitMain, DepsSubmitSub

-----------------------------------------------------------------------------
(* Pools: PoolInv.                                                         *)

\* PoolOK of a pool nobody touches.
LEMMA PoolFrame ==
  ASSUME NEW p \in Task, PoolOK(p), pools'[p] = pools[p],
         p \in Parents' <=> p \in Parents, SubTasksOf(p)' = SubTasksOf(p),
         \A s \in SubTasksOf(p) : /\ taskStatus'[s] = taskStatus[s]
                                  /\ s \in mainSubmitted' <=> s \in mainSubmitted,
         p \in Succeeded => p \in Succeeded'
  PROVE  PoolOK(p)'
<1>1. /\ SubTasksOf(p)' \cap Succeeded' = SubTasksOf(p) \cap Succeeded
      /\ Outstanding(p)' = Outstanding(p)
  BY DEF Succeeded, Outstanding, SubTasksOf
<1>2. SubTasks(pools'[p]) = SubTasks(pools[p])
  OBVIOUS
<1>3. \A i \in 1 .. Len(pools[p].tasks) : pools[p].tasks[i] \in SubTasksOf(p)
  BY DEF PoolOK, SubTasks
<1> QED
  BY <1>1, <1>2, <1>3 DEF PoolOK

\* PoolOK of a pool with a new value.
LEMMA PoolMake ==
  ASSUME NEW p \in Task, NEW r, pools'[p] = r, p \in Parents',
         r.jobDone => p \in Template \cap Succeeded',
         r.total = Len(r.tasks), r.cursor <= Len(r.tasks),
         r.cursor = r.runningCount + r.completed + r.failed,
         r.allDone <=> AllOver(r),
         SubTasks(r) = SubTasksOf(p)',
         \A i, j \in 1 .. Len(r.tasks) : r.tasks[i] = r.tasks[j] => i = j,
         \A i \in 1 .. Len(r.tasks) : r.tasks[i] \in mainSubmitted' <=> i <= r.cursor,
         r.completed = Cardinality(SubTasksOf(p)' \cap Succeeded'),
         r.runningCount = Cardinality(Outstanding(p)')
  PROVE  PoolOK(p)'
BY DEF PoolOK

\* A pool whose subtask t was submitted before.
LEMMA PoolActive ==
  ASSUME SchedTypeOK, PoolInv, NEW p \in Task, NEW s \in SubTasksOf(p)
  PROVE  p \in Parents
<1>1. PoolOK(p) /\ pools[p] \in Pool(Sub)
  BY DEF PoolInv, SchedTypeOK
<1>2. SUFFICES ASSUME p \notin Parents PROVE FALSE
  OBVIOUS
<1>3. pools[p].tasks = <<>>
  BY <1>1, <1>2 DEF PoolOK, newSubTaskPool
<1> QED
  BY <1>1, <1>3 DEF PoolOK, SubTasks

\* PoolInv, a subtask succeeds.
LEMMA PoolSuccess ==
  ASSUME CoreInv, NEW t \in Task, RecvSubSuccess(t)
  PROVE  PoolInv'
<1> USE DEF CoreInv
<1>0. PICK p \in Task : p = subToParent[t]
  BY SubSuccessFacts
<1>00. PICK q : q = taskCompleted(pools[p])
  OBVIOUS
<1>1. /\ t \in Sub /\ taskStatus[t] = "PENDING" /\ t \in mainSubmitted
      /\ t \in SubTasksOf(p) /\ t \in Outstanding(p)
      /\ pools[p] \in Pool(Sub) /\ pools[p].runningCount > 0
      /\ pools' = [pools EXCEPT ![p] = q] /\ q \in Pool(Sub)
      /\ q.tasks = pools[p].tasks /\ q.cursor = pools[p].cursor
      /\ q.runningCount = pools[p].runningCount - 1
      /\ q.completed = pools[p].completed + 1 /\ q.failed = pools[p].failed
      /\ q.total = pools[p].total /\ q.jobDone = pools[p].jobDone
      /\ q.allDone <=> AllOver(q)
  BY <1>0, <1>00, SubSuccessFacts
<1>2. /\ taskStatus' = [taskStatus EXCEPT ![t] = "SUCCESS"]
      /\ UNCHANGED <<mainSubmitted, activePoolIDs, subToParent>>
  BY DEF RecvSubSuccess, RecvSuccess, FreeSlot
<1>3. \A x \in Task : SubTasksOf(x)' = SubTasksOf(x)
  BY <1>2 DEF SubTasksOf
<1>4. Parents' = Parents
  BY <1>2 DEF Parents
<1>5. /\ \A x \in Task : x # t => taskStatus'[x] = taskStatus[x]
      /\ taskStatus'[t] = "SUCCESS"
      /\ Succeeded' = Succeeded \cup {t} /\ t \notin Succeeded
  BY <1>1, <1>2 DEF SchedTypeOK, Succeeded
<1>6. \A x \in Task : pools'[x] = IF x = p THEN q ELSE pools[x]
  BY <1>1 DEF SchedTypeOK
<1>7. ASSUME NEW x \in Task, x # p PROVE PoolOK(x)'
  <2>1. t \notin SubTasksOf(x) /\ SubTasksOf(x) \subseteq Task
    BY <1>0, <1>7, TaskSets DEF SubTasksOf
  <2> QED
    BY <1>2, <1>3, <1>4, <1>5, <1>6, <1>7, <2>1, PoolFrame DEF PoolInv
<1>8. PoolOK(p)'
  <2>1. PoolOK(p) /\ p \in Parents
    BY <1>1, PoolActive DEF PoolInv
  <2>2. /\ IsFiniteSet(Outstanding(p)) /\ IsFiniteSet(SubTasksOf(p) \cap Succeeded)
        /\ Cardinality(SubTasksOf(p) \cap Succeeded) \in Nat /\ Cardinality(Outstanding(p)) \in Nat
    BY SubFinite, FS_CardinalityType
  <2>3. /\ SubTasksOf(p)' \cap Succeeded' = (SubTasksOf(p) \cap Succeeded) \cup {t}
        /\ t \notin SubTasksOf(p) \cap Succeeded
    BY <1>1, <1>3, <1>5
  <2>4. Cardinality(SubTasksOf(p)' \cap Succeeded') = Cardinality(SubTasksOf(p) \cap Succeeded) + 1
    BY <2>2, <2>3, FS_AddElement
  <2>5. Outstanding(p)' = Outstanding(p) \ {t}
    BY <1>1, <1>2, <1>3, <1>5, TaskSets DEF Outstanding, SubTasksOf
  <2>6. Cardinality(Outstanding(p)') = Cardinality(Outstanding(p)) - 1
    BY <1>1, <2>2, <2>5, FS_RemoveElement
  <2>7. SubTasks(q) = SubTasksOf(p)'
    BY <1>1, <1>3, <2>1 DEF SubTasks, PoolOK
  <2>8. pools'[p] = q /\ Len(q.tasks) \in Nat
    BY <1>1, <1>6 DEF Pool
  <2>9. /\ q.jobDone => p \in Template \cap Succeeded'
        /\ q.total = Len(q.tasks) /\ q.cursor <= Len(q.tasks)
        /\ \A i, j \in 1 .. Len(q.tasks) : q.tasks[i] = q.tasks[j] => i = j
        /\ \A i \in 1 .. Len(q.tasks) : q.tasks[i] \in mainSubmitted' <=> i <= q.cursor
    BY <1>1, <1>2, <1>5, <2>1 DEF PoolOK
  <2>10. q.cursor = q.runningCount + q.completed + q.failed
    BY <1>1, <2>1 DEF PoolOK, Pool
  <2>11. /\ q.completed = Cardinality(SubTasksOf(p)' \cap Succeeded')
         /\ q.runningCount = Cardinality(Outstanding(p)')
    BY <1>1, <2>1, <2>4, <2>6 DEF PoolOK
  <2> QED
    BY <1>1, <1>4, <2>1, <2>7, <2>8, <2>9, <2>10, <2>11, PoolMake
<1> QED
  BY <1>2, <1>7, <1>8 DEF PoolInv

\* PoolInv, steps that touch neither pools nor subtasks.
LEMMA PoolOther ==
  ASSUME CoreInv, UNCHANGED <<pools, subToParent, activePoolIDs>>,
         \A s \in Sub : /\ taskStatus'[s] = taskStatus[s]
                        /\ s \in mainSubmitted' <=> s \in mainSubmitted,
         Succeeded \subseteq Succeeded'
  PROVE  PoolInv'
<1>1. \A x \in Task : SubTasksOf(x)' = SubTasksOf(x) /\ SubTasksOf(x) \subseteq Sub
  BY DEF SubTasksOf
<1>2. Parents' = Parents
  BY DEF Parents
<1>3. ASSUME NEW x \in Task PROVE PoolOK(x)'
  BY <1>1, <1>2, <1>3, PoolFrame DEF CoreInv, PoolInv
<1> QED
  BY <1>3 DEF CoreInv, PoolInv

\* What the failure of a subtask makes of its pool.
LEMMA FailurePool ==
  ASSUME CoreInv, NEW t \in Task, RecvFailure(t), t \in Sub,
         NEW p \in Task, p = subToParent[t]
  PROVE  \E q \in Pool(Sub) :
           /\ pools' = [pools EXCEPT ![p] = q]
           /\ q.tasks = pools[p].tasks /\ q.cursor = pools[p].cursor
           /\ q.runningCount = pools[p].runningCount - 1
           /\ q.completed = pools[p].completed /\ q.failed = pools[p].failed + 1
           /\ q.total = pools[p].total /\ q.jobDone = pools[p].jobDone
           /\ q.allDone <=> AllOver(q)
<1> USE DEF CoreInv
<1>1. PICK q : q = taskFailed(pools[p])
  OBVIOUS
<1>2. pools[p] \in Pool(Sub) /\ pools[p].runningCount > 0
  BY RunFacts DEF RecvFailure, FreeSlot, SchedTypeOK
<1>3. pools' = [pools EXCEPT ![p] = q]
  BY <1>1 DEF RecvFailure, onFailure
<1>4. /\ q \in Pool(Sub)
      /\ q.tasks = pools[p].tasks /\ q.cursor = pools[p].cursor
      /\ q.runningCount = pools[p].runningCount - 1
      /\ q.completed = pools[p].completed /\ q.failed = pools[p].failed + 1
      /\ q.total = pools[p].total /\ q.jobDone = pools[p].jobDone
      /\ q.allDone <=> AllOver(q)
  BY <1>1, <1>2, FailedFields, PoolTypes
<1> QED
  BY <1>3, <1>4

\* PoolInv, a subtask fails.
LEMMA PoolFailure ==
  ASSUME CoreInv, NEW t \in Task, RecvFailure(t), t \in Sub
  PROVE  PoolInv'
<1> USE DEF CoreInv
<1>0. PICK p \in Task : p = subToParent[t]
  BY RunFacts DEF RecvFailure, FreeSlot
<1>01. /\ taskStatus[t] = "PENDING" /\ t \in mainSubmitted
       /\ t \in SubTasksOf(p) /\ t \in Outstanding(p)
       /\ pools[p] \in Pool(Sub) /\ pools[p].runningCount > 0
  BY <1>0, RunFacts DEF RecvFailure, FreeSlot, SchedTypeOK
<1>1. PICK q \in Pool(Sub) :
        /\ pools' = [pools EXCEPT ![p] = q]
        /\ q.tasks = pools[p].tasks /\ q.cursor = pools[p].cursor
        /\ q.runningCount = pools[p].runningCount - 1
        /\ q.completed = pools[p].completed /\ q.failed = pools[p].failed + 1
        /\ q.total = pools[p].total /\ q.jobDone = pools[p].jobDone
        /\ q.allDone <=> AllOver(q)
  BY <1>0, FailurePool
<1>2. /\ taskStatus' = [taskStatus EXCEPT ![t] = "FAILED"]
      /\ UNCHANGED <<mainSubmitted, activePoolIDs, subToParent>>
  BY DEF RecvFailure, FreeSlot, onFailure
<1>3. \A x \in Task : SubTasksOf(x)' = SubTasksOf(x)
  BY <1>2 DEF SubTasksOf
<1>4. Parents' = Parents
  BY <1>2 DEF Parents
<1>5. /\ \A x \in Task : x # t => taskStatus'[x] = taskStatus[x]
      /\ taskStatus'[t] = "FAILED"
      /\ Succeeded' = Succeeded /\ t \notin Succeeded
  BY <1>01, <1>2 DEF SchedTypeOK, Succeeded
<1>6. \A x \in Task : pools'[x] = IF x = p THEN q ELSE pools[x]
  BY <1>1 DEF SchedTypeOK
<1>7. ASSUME NEW x \in Task, x # p PROVE PoolOK(x)'
  <2>1. t \notin SubTasksOf(x) /\ SubTasksOf(x) \subseteq Task
    BY <1>0, <1>7, TaskSets DEF SubTasksOf
  <2> QED
    BY <1>2, <1>3, <1>4, <1>5, <1>6, <1>7, <2>1, PoolFrame DEF PoolInv
<1>8. PoolOK(p)'
  <2>1. PoolOK(p) /\ p \in Parents
    BY <1>01, PoolActive DEF PoolInv
  <2>2. IsFiniteSet(Outstanding(p)) /\ Cardinality(Outstanding(p)) \in Nat
    BY SubFinite, FS_CardinalityType
  <2>3. SubTasksOf(p)' \cap Succeeded' = SubTasksOf(p) \cap Succeeded
    BY <1>3, <1>5
  <2>5. Outstanding(p)' = Outstanding(p) \ {t}
    BY <1>01, <1>2, <1>3, <1>5, TaskSets DEF Outstanding, SubTasksOf
  <2>6. Cardinality(Outstanding(p)') = Cardinality(Outstanding(p)) - 1
    BY <1>01, <2>2, <2>5, FS_RemoveElement
  <2>7. SubTasks(q) = SubTasksOf(p)'
    BY <1>1, <1>3, <2>1 DEF SubTasks, PoolOK
  <2>8. pools'[p] = q /\ Len(q.tasks) \in Nat
    BY <1>1, <1>6 DEF Pool
  <2>9. /\ q.jobDone => p \in Template \cap Succeeded'
        /\ q.total = Len(q.tasks) /\ q.cursor <= Len(q.tasks)
        /\ \A i, j \in 1 .. Len(q.tasks) : q.tasks[i] = q.tasks[j] => i = j
        /\ \A i \in 1 .. Len(q.tasks) : q.tasks[i] \in mainSubmitted' <=> i <= q.cursor
    BY <1>1, <1>2, <1>5, <2>1 DEF PoolOK
  <2>10. q.cursor = q.runningCount + q.completed + q.failed
    BY <1>01, <1>1, <2>1 DEF PoolOK, Pool
  <2>11. /\ q.completed = Cardinality(SubTasksOf(p)' \cap Succeeded')
         /\ q.runningCount = Cardinality(Outstanding(p)')
    BY <1>1, <2>1, <2>3, <2>6 DEF PoolOK
  <2> QED
    BY <1>1, <1>4, <2>1, <2>7, <2>8, <2>9, <2>10, <2>11, PoolMake
<1> QED
  BY <1>2, <1>7, <1>8 DEF PoolInv

\* A failed main task touches no pool.
LEMMA PoolMainFailure ==
  ASSUME CoreInv, NEW t \in Main, NEW ps, onFailure(t, ps), taskStatus[t] = "PENDING"
  PROVE  /\ pools' = ps
         /\ \A s \in Sub : taskStatus'[s] = taskStatus[s]
         /\ Succeeded' = Succeeded
<1>1. pools' = ps /\ taskStatus' = [taskStatus EXCEPT ![t] = "FAILED"]
  BY TaskSets DEF onFailure
<1> QED
  BY <1>1, TaskSets DEF Succeeded, CoreInv, SchedTypeOK

\* What the submission of a subtask makes of its pool, whether the executor
\* takes it or not.
LEMMA SubmitSubPool ==
  ASSUME CoreInv, NEW t \in Sub, NEW p \in Task, SubmitSub(t, p)
  PROVE  \E q \in Pool(Sub) :
           /\ q.tasks = pools[p].tasks
           /\ q.cursor = pools[p].cursor + 1
           /\ q.completed = pools[p].completed
           /\ q.total = pools[p].total /\ q.jobDone = pools[p].jobDone
           /\ q.allDone <=> AllOver(q)
           /\ q.cursor = q.runningCount + q.completed + q.failed
           /\ pools' = [pools EXCEPT ![p] = q]
           /\ Succeeded' = Succeeded
           /\ \A x \in Task : x # t => taskStatus'[x] = taskStatus[x]
           /\ \/ q.runningCount = pools[p].runningCount /\ taskStatus'[t] = "FAILED"
              \/ q.runningCount = pools[p].runningCount + 1 /\ taskStatus'[t] = "PENDING"
<1> USE DEF CoreInv
<1>1. /\ pools[p] \in Pool(Sub)
      /\ pools[p].cursor + 1 \in 1 .. Len(pools[p].tasks)
      /\ t = pools[p].tasks[pools[p].cursor + 1]
      /\ t \in Task /\ t \notin mainSubmitted /\ taskStatus[t] = "PENDING"
      /\ subToParent[t] = p /\ t \in SubTasksOf(p)
  BY SubmitSubFacts
<1>2. PICK r : r = addRunning(next(pools[p]))
  OBVIOUS
<1>3. /\ r \in Pool(Sub) /\ r.tasks = pools[p].tasks
      /\ r.cursor = pools[p].cursor + 1
      /\ r.runningCount = pools[p].runningCount + 1
      /\ r.completed = pools[p].completed /\ r.failed = pools[p].failed
      /\ r.total = pools[p].total /\ r.jobDone = pools[p].jobDone
      /\ r.allDone <=> AllOver(r)
  BY <1>1, <1>2, AddRunningFields, PoolTypes
<1>4. /\ Submit(t, PickedPool(p)) /\ mainSubmitted' = mainSubmitted \cup {t}
      /\ UNCHANGED <<activePoolIDs, subToParent>> /\ p \in Parents
  BY DEF SubmitSub, Submit
<1>5. PickedPool(p) = [pools EXCEPT ![p] = r] /\ PickedPool(p) \in [Task -> Pool(Sub)]
  BY <1>2, <1>3 DEF PickedPool, SchedTypeOK
<1>8. PoolOK(p)
  BY DEF PoolInv
<1>21. r.cursor = r.runningCount + r.completed + r.failed
  BY <1>1, <1>3, <1>8 DEF PoolOK, Pool
<1>22. CASE Accepted(t, PickedPool(p)) \/ Refused(PickedPool(p))
  <2>1. taskStatus' = taskStatus /\ pools' = [pools EXCEPT ![p] = r]
    BY <1>5, <1>22 DEF Accepted, Refused
  <2> QED
    BY <1>1, <1>3, <1>21, <2>1 DEF Succeeded
<1>23. CASE LacksParams(t, PickedPool(p))
  <2>1. PICK u : u = taskFailed(r)
    OBVIOUS
  <2>2. PickedPool(p)[p] = r
    BY <1>5 DEF SchedTypeOK
  <2>3. /\ taskStatus' = [taskStatus EXCEPT ![t] = "FAILED"]
        /\ pools' = [PickedPool(p) EXCEPT ![p] = u]
    BY <1>1, <1>23, <2>1, <2>2 DEF LacksParams, onFailure
  <2>4. pools' = [pools EXCEPT ![p] = u]
    BY <1>5, <2>3 DEF SchedTypeOK
  <2>5. r.runningCount > 0
    BY <1>1, <1>3 DEF Pool
  <2>6. /\ u \in Pool(Sub) /\ u.tasks = r.tasks /\ u.cursor = r.cursor
        /\ u.runningCount = r.runningCount - 1
        /\ u.completed = r.completed /\ u.failed = r.failed + 1
        /\ u.total = r.total /\ u.jobDone = r.jobDone
        /\ u.allDone <=> AllOver(u)
    BY <1>3, <2>1, <2>5, FailedFields, PoolTypes
  <2>7. /\ u.runningCount = pools[p].runningCount
        /\ u.cursor = u.runningCount + u.completed + u.failed
    <3>1. /\ r.runningCount \in Nat /\ r.completed \in Nat /\ r.failed \in Nat
          /\ pools[p].runningCount \in Nat
      BY <1>1, <1>3 DEF Pool
    <3> QED
      BY <1>3, <1>21, <2>6, <3>1
  <2>8. /\ Succeeded' = Succeeded /\ taskStatus'[t] = "FAILED"
        /\ \A x \in Task : x # t => taskStatus'[x] = taskStatus[x]
    BY <1>1, <2>3 DEF SchedTypeOK, Succeeded
  <2> QED
    BY <1>3, <2>4, <2>6, <2>7, <2>8
<1> QED
  BY <1>4, <1>22, <1>23 DEF Submit

\* PoolInv, a subtask is picked.
LEMMA PoolSubmitSub ==
  ASSUME CoreInv, NEW t \in Sub, NEW p \in Task, SubmitSub(t, p)
  PROVE  PoolInv'
<1> USE DEF CoreInv
<1>1. /\ pools[p] \in Pool(Sub)
      /\ pools[p].cursor + 1 \in 1 .. Len(pools[p].tasks)
      /\ t = pools[p].tasks[pools[p].cursor + 1]
      /\ t \in Task /\ t \notin mainSubmitted /\ taskStatus[t] = "PENDING"
      /\ subToParent[t] = p /\ t \in SubTasksOf(p)
  BY SubmitSubFacts
<1>4. /\ Submit(t, PickedPool(p)) /\ mainSubmitted' = mainSubmitted \cup {t}
      /\ UNCHANGED <<activePoolIDs, subToParent>> /\ p \in Parents
  BY DEF SubmitSub, Submit
<1>6. /\ \A x \in Task : SubTasksOf(x)' = SubTasksOf(x) /\ SubTasksOf(x) \subseteq Task
      /\ \A x \in Task : x # p => t \notin SubTasksOf(x)
  BY <1>1, <1>4, TaskSets DEF SubTasksOf
<1>7. Parents' = Parents
  BY <1>4 DEF Parents
<1>8. PoolOK(p)
  BY DEF PoolInv
<1>9. PICK q \in Pool(Sub) :
           /\ q.tasks = pools[p].tasks
           /\ q.cursor = pools[p].cursor + 1
           /\ q.completed = pools[p].completed
           /\ q.total = pools[p].total /\ q.jobDone = pools[p].jobDone
           /\ q.allDone <=> AllOver(q)
           /\ q.cursor = q.runningCount + q.completed + q.failed
           /\ pools' = [pools EXCEPT ![p] = q]
           /\ Succeeded' = Succeeded
           /\ \A x \in Task : x # t => taskStatus'[x] = taskStatus[x]
           /\ \/ q.runningCount = pools[p].runningCount /\ taskStatus'[t] = "FAILED"
              \/ q.runningCount = pools[p].runningCount + 1 /\ taskStatus'[t] = "PENDING"
  BY SubmitSubPool
<1>10. \A x \in Task : pools'[x] = IF x = p THEN q ELSE pools[x]
  BY <1>9 DEF SchedTypeOK
<1>11. ASSUME NEW x \in Task, x # p PROVE PoolOK(x)'
  BY <1>4, <1>6, <1>7, <1>9, <1>10, <1>11, PoolFrame DEF PoolInv
<1>12. PoolOK(p)'
  <2>2. /\ IsFiniteSet(Outstanding(p)) /\ Cardinality(Outstanding(p)) \in Nat
        /\ t \notin Outstanding(p)
    BY <1>1, SubFinite, FS_CardinalityType DEF Outstanding
  <2>3. SubTasksOf(p)' \cap Succeeded' = SubTasksOf(p) \cap Succeeded
    BY <1>6, <1>9
  <2>4. q.runningCount = Cardinality(Outstanding(p)')
    <3>1. CASE q.runningCount = pools[p].runningCount /\ taskStatus'[t] = "FAILED"
      <4>1. Outstanding(p)' = Outstanding(p)
        BY <1>1, <1>4, <1>6, <1>9, <3>1 DEF Outstanding
      <4> QED
        BY <1>8, <3>1, <4>1 DEF PoolOK
    <3>2. CASE q.runningCount = pools[p].runningCount + 1 /\ taskStatus'[t] = "PENDING"
      <4>1. Outstanding(p)' = Outstanding(p) \cup {t}
        BY <1>1, <1>4, <1>6, <1>9, <3>2 DEF Outstanding
      <4>2. Cardinality(Outstanding(p)') = Cardinality(Outstanding(p)) + 1
        BY <2>2, <4>1, FS_AddElement
      <4> QED
        BY <1>8, <3>2, <4>2 DEF PoolOK
    <3> QED
      BY <1>9, <3>1, <3>2
  <2>5. q.completed = Cardinality(SubTasksOf(p)' \cap Succeeded')
    BY <1>8, <1>9, <2>3 DEF PoolOK
  <2>6. SubTasks(q) = SubTasksOf(p)'
    BY <1>6, <1>8, <1>9 DEF SubTasks, PoolOK
  <2>7. pools'[p] = q /\ p \in Parents' /\ Len(q.tasks) \in Nat /\ q.cursor \in Nat
    BY <1>4, <1>7, <1>9, <1>10 DEF Pool
  <2>8. /\ q.jobDone => p \in Template \cap Succeeded'
        /\ q.total = Len(q.tasks) /\ q.cursor <= Len(q.tasks)
        /\ \A i, j \in 1 .. Len(q.tasks) : q.tasks[i] = q.tasks[j] => i = j
    BY <1>1, <1>8, <1>9 DEF PoolOK
  <2>9. ASSUME NEW i \in 1 .. Len(q.tasks)
        PROVE  q.tasks[i] \in mainSubmitted' <=> i <= q.cursor
    <3>1. pools[p].tasks[i] \in mainSubmitted <=> i <= pools[p].cursor
      BY <1>8, <1>9 DEF PoolOK
    <3>2. pools[p].tasks[i] = t <=> i = pools[p].cursor + 1
      BY <1>1, <1>8, <1>9 DEF PoolOK
    <3>3. pools[p].cursor \in Nat
      BY <1>1 DEF Pool
    <3> QED
      BY <1>4, <1>9, <3>1, <3>2, <3>3
  <2> QED
    BY <1>9, <2>4, <2>5, <2>6, <2>7, <2>8, <2>9, PoolMake
<1>13. \A s \in Sub \cap mainSubmitted' : subToParent'[s] # None
  BY <1>1, <1>4, TaskSets DEF PoolInv
<1> QED
  BY <1>11, <1>12, <1>13 DEF PoolInv

\* What the message at the head of the inbox tells about the batch it brings.
LEMMA AddFacts ==
  ASSUME SchedTypeOK, FreshInv, PoolInv, AddsInv, NEW c \in Caller, RecvAdd(c)
  PROVE  /\ c[2] \in Task /\ Batch(c) \in Seq(Sub) /\ Batch(c) # <<>>
         /\ Elems(c) \subseteq Sub
         /\ \A s \in Elems(c) : /\ subToParent[s] = None /\ s \notin mainSubmitted
                                /\ taskStatus[s] = "PENDING"
         /\ \A i, j \in 1 .. Len(Batch(c)) : Batch(c)[i] = Batch(c)[j] => i = j
         /\ InInbox(AddMsg(c)) /\ 1 \in 1 .. Len(inbox) /\ inbox[1] = AddMsg(c)
<1>1. 1 \in 1 .. Len(inbox) /\ inbox[1] = AddMsg(c)
  BY DEF RecvAdd, Recv, SchedTypeOK
<1>2. InInbox(AddMsg(c))
  BY <1>1 DEF InInbox
<1>3. c[2] \in Task /\ Batch(c) \in Seq(Sub) /\ Elems(c) \subseteq Sub
  BY BatchType
<1>4. Batch(c) # <<>> /\ \A s \in Elems(c) : subToParent[s] = None
  BY <1>2 DEF AddsInv
<1>5. \A s \in Elems(c) : s \notin mainSubmitted /\ taskStatus[s] = "PENDING"
  BY <1>3, <1>4, TaskSets DEF PoolInv, FreshInv
<1>6. \A i, j \in 1 .. Len(Batch(c)) : Batch(c)[i] = Batch(c)[j] => i = j
  BY FreshSubTasks
<1> QED
  BY <1>1, <1>2, <1>3, <1>4, <1>5, <1>6

\* What an accepted batch changes.
LEMMA AddEffects ==
  ASSUME SchedTypeOK, FreshInv, PoolInv, AddsInv, NEW c \in Caller, RecvAdd(c)
  PROVE  /\ UNCHANGED <<taskStatus, mainSubmitted>>
         /\ \A x \in Task : SubTasksOf(x)' = IF x = c[2] THEN SubTasksOf(x) \cup Elems(c)
                                                        ELSE SubTasksOf(x)
         /\ Parents' = Parents \cup {c[2]}
         /\ \A x \in Task : pools'[x] = IF x = c[2] THEN addTasks(pools[x], Batch(c))
                                                   ELSE pools[x]
         /\ \A s \in Sub : subToParent'[s] = IF s \in Elems(c) THEN c[2] ELSE subToParent[s]
<1>1. /\ UNCHANGED <<taskStatus, mainSubmitted>>
      /\ activePoolIDs' = IF c[2] \in Parents THEN activePoolIDs
                                              ELSE Append(activePoolIDs, c[2])
      /\ pools' = [pools EXCEPT ![c[2]] = addTasks(@, Batch(c))]
      /\ subToParent' = [s \in Sub |-> IF s \in Elems(c) THEN c[2] ELSE subToParent[s]]
  BY DEF RecvAdd, handleAdd, Elems
<1>2. /\ c[2] \in Task /\ c[2] # None /\ Elems(c) \subseteq Sub
      /\ \A s \in Elems(c) : subToParent[s] = None
  BY AddFacts, TaskSets
<1>3. \A s \in Sub : subToParent'[s] = IF s \in Elems(c) THEN c[2] ELSE subToParent[s]
  BY <1>1
<1>4. ASSUME NEW x \in Task
      PROVE  SubTasksOf(x)' = IF x = c[2] THEN SubTasksOf(x) \cup Elems(c)
                                          ELSE SubTasksOf(x)
  BY <1>2, <1>3, TaskSets DEF SubTasksOf
<1>5. \A x \in Task : pools'[x] = IF x = c[2] THEN addTasks(pools[x], Batch(c))
                                              ELSE pools[x]
  BY <1>1 DEF SchedTypeOK
<1>6. Parents' = Parents \cup {c[2]}
  <2>1. activePoolIDs \in Seq(Task)
    BY DEF SchedTypeOK
  <2>2. CASE c[2] \in Parents
    BY <1>1, <2>2 DEF Parents
  <2>3. CASE c[2] \notin Parents
    <3>1. /\ Len(activePoolIDs') = Len(activePoolIDs) + 1
          /\ \A i \in 1 .. Len(activePoolIDs) : activePoolIDs'[i] = activePoolIDs[i]
          /\ activePoolIDs'[Len(activePoolIDs) + 1] = c[2]
      BY <1>1, <1>2, <2>1, <2>3, AppendFacts
    <3> QED
      BY <2>1, <3>1 DEF Parents
  <2> QED
    BY <2>2, <2>3
<1> QED
  BY <1>1, <1>3, <1>4, <1>5, <1>6

\* What concatenation does.
LEMMA ConcatFacts ==
  ASSUME NEW S, NEW a \in Seq(S), NEW b \in Seq(S), NEW n, n = Len(a)
  PROVE  /\ n \in Nat /\ Len(b) \in Nat /\ Len(a \o b) = n + Len(b)
         /\ \A i \in 1 .. Len(a \o b) :
              \/ i \in 1 .. n /\ (a \o b)[i] = a[i]
              \/ i \notin 1 .. n /\ i - n \in 1 .. Len(b) /\ (a \o b)[i] = b[i - n]
         /\ \A i \in 1 .. n : i \in 1 .. Len(a \o b) /\ (a \o b)[i] = a[i]
         /\ \A i \in 1 .. Len(b) : i + n \in 1 .. Len(a \o b) /\ (a \o b)[i + n] = b[i]
OBVIOUS

\* PoolInv, a batch is accepted.
LEMMA PoolAdd ==
  ASSUME CoreInv, AddsInv, NEW c \in Caller, RecvAdd(c)
  PROVE  PoolInv'
<1> USE DEF CoreInv
<1>1. PICK p \in Task : p = c[2]
  BY AddFacts
<1>2. PICK ts \in Seq(Sub) : ts = Batch(c)
  BY AddFacts
<1>3. /\ ts # <<>> /\ Elems(c) \subseteq Sub
      /\ \A s \in Elems(c) : /\ subToParent[s] = None /\ s \notin mainSubmitted
                             /\ taskStatus[s] = "PENDING"
      /\ \A i, j \in 1 .. Len(ts) : ts[i] = ts[j] => i = j
      /\ Elems(c) = {ts[i] : i \in 1 .. Len(ts)}
  BY <1>2, AddFacts DEF Elems
<1>4. /\ UNCHANGED <<taskStatus, mainSubmitted>>
      /\ \A x \in Task : SubTasksOf(x)' = IF x = p THEN SubTasksOf(x) \cup Elems(c)
                                                     ELSE SubTasksOf(x)
      /\ Parents' = Parents \cup {p}
      /\ \A x \in Task : pools'[x] = IF x = p THEN addTasks(pools[x], ts) ELSE pools[x]
      /\ \A s \in Sub : subToParent'[s] = IF s \in Elems(c) THEN p ELSE subToParent[s]
  BY <1>1, <1>2, AddEffects
<1>5. PICK q : q = addTasks(pools[p], ts)
  OBVIOUS
<1>6. pools[p] \in Pool(Sub) /\ PoolOK(p)
  BY DEF PoolInv, SchedTypeOK
<1>7. /\ q.tasks = pools[p].tasks \o ts /\ q.cursor = pools[p].cursor
      /\ q.runningCount = pools[p].runningCount
      /\ q.completed = pools[p].completed /\ q.failed = pools[p].failed
      /\ q.total = pools[p].total + Len(ts) /\ q.jobDone = pools[p].jobDone
      /\ q.allDone <=> AllOver(q)
  <2>1. PICK o \in Pool(Sub) : o = pools[p]
    BY <1>6
  <2>2. q = addTasks(o, ts) /\ ts # <<>>
    BY <1>3, <1>5, <2>1
  <2>3. LET r == addTasks(o, ts) IN
         /\ r.tasks = o.tasks \o ts /\ r.cursor = o.cursor
         /\ r.runningCount = o.runningCount
         /\ r.completed = o.completed /\ r.failed = o.failed
         /\ r.total = o.total + Len(ts) /\ r.jobDone = o.jobDone
         /\ r.allDone <=> AllOver(r)
    <3>1. ts # <<>> /\ ts \in Seq(Sub) /\ o \in Pool(Sub)
      BY <2>2
    <3> QED
      BY ONLY <3>1, AddTasksFields
  <2> QED
    BY <2>1, <2>2, <2>3
<1>8. ASSUME NEW x \in Task, x # p PROVE PoolOK(x)'
  <2>1. /\ SubTasksOf(x)' = SubTasksOf(x) /\ pools'[x] = pools[x]
        /\ x \in Parents' <=> x \in Parents
    BY <1>4, <1>8
  <2> QED
    BY <1>4, <2>1, PoolFrame DEF PoolInv, Succeeded
<1>9. PoolOK(p)'
  <2>0. PICK old \in Seq(Sub) : old = pools[p].tasks
    BY <1>6 DEF Pool
  <2>00. PICK n \in Nat : n = Len(old)
    OBVIOUS
  <2>1. /\ old \in Seq(Sub) /\ n \in Nat /\ Len(ts) \in Nat
        /\ Len(q.tasks) = n + Len(ts)
        /\ \A i \in 1 .. Len(q.tasks) :
             \/ i \in 1 .. n /\ q.tasks[i] = old[i]
             \/ i \notin 1 .. n /\ i - n \in 1 .. Len(ts) /\ q.tasks[i] = ts[i - n]
        /\ \A i \in 1 .. n : i \in 1 .. Len(q.tasks) /\ q.tasks[i] = old[i]
        /\ \A i \in 1 .. Len(ts) : i + n \in 1 .. Len(q.tasks) /\ q.tasks[i + n] = ts[i]
    <3>1. q.tasks = old \o ts
      BY <1>7, <2>0
    <3> QED
      BY <2>00, <3>1, ConcatFacts
  <2>2. \A i \in 1 .. n : subToParent[old[i]] = p /\ old[i] \in SubTasksOf(p)
    BY <1>6, <2>0, <2>00 DEF PoolOK, SubTasks, SubTasksOf
  <2>3. \A i \in 1 .. Len(ts) : ts[i] \in Elems(c) /\ subToParent[ts[i]] = None
    BY <1>3
  <2>31. p # None
    BY TaskSets
  <2>4. ASSUME NEW i \in 1 .. Len(q.tasks), NEW j \in 1 .. Len(q.tasks),
               q.tasks[i] = q.tasks[j]
        PROVE  i = j
    <3>1. CASE i \in 1 .. n /\ j \in 1 .. n
      BY <1>6, <2>0, <2>00, <2>1, <2>4, <3>1 DEF PoolOK
    <3>2. CASE i \notin 1 .. n /\ j \notin 1 .. n
      <4>1. /\ i - n \in 1 .. Len(ts) /\ j - n \in 1 .. Len(ts)
            /\ ts[i - n] = ts[j - n]
        BY <2>1, <2>4, <3>2
      <4>2. i - n = j - n
        BY <1>3, <4>1
      <4> QED
        BY <2>1, <4>2
    <3>3. ASSUME NEW k \in 1 .. Len(q.tasks)
          PROVE  k \in 1 .. n <=> subToParent[q.tasks[k]] = p
      <4>1. CASE k \in 1 .. n
        <5>1. q.tasks[k] = old[k]
          BY <2>1, <4>1
        <5> QED
          BY <2>2, <4>1, <5>1
      <4>2. CASE k \notin 1 .. n
        <5>1. q.tasks[k] = ts[k - n] /\ k - n \in 1 .. Len(ts)
          BY <2>1, <4>2
        <5>2. subToParent[q.tasks[k]] = None
          BY <2>3, <5>1
        <5> QED
          BY <2>31, <4>2, <5>2
      <4> QED
        BY <4>1, <4>2
    <3> QED
      BY <2>4, <3>1, <3>2, <3>3
  <2>5. pools[p].cursor \in Nat /\ pools[p].cursor <= n /\ n = pools[p].total
    BY <1>6, <2>0, <2>00 DEF Pool, PoolOK
  <2>6. ASSUME NEW i \in 1 .. Len(q.tasks)
        PROVE  q.tasks[i] \in mainSubmitted' <=> i <= q.cursor
    <3>1. CASE i \in 1 .. n
      BY <1>4, <1>6, <1>7, <2>0, <2>00, <2>1, <3>1 DEF PoolOK
    <3>2. CASE i \notin 1 .. n
      <4>1. /\ i \in Nat /\ i > n /\ q.cursor \in Nat /\ q.cursor <= n
        BY <1>7, <2>1, <2>5, <3>2
      <4>2. i - n \in 1 .. Len(ts) /\ q.tasks[i] = ts[i - n]
        BY <2>1, <3>2
      <4>3. q.tasks[i] \in Elems(c)
        BY <2>3, <4>2
      <4>4. q.tasks[i] \notin mainSubmitted'
        BY <1>3, <1>4, <4>3
      <4>5. ~(i <= q.cursor)
        BY <4>1
      <4> QED
        BY <4>4, <4>5
    <3> QED
      BY <3>1, <3>2
  <2>7. SubTasks(q) = SubTasksOf(p)'
    <3>0. ASSUME NEW i \in 1 .. Len(q.tasks)
          PROVE  q.tasks[i] \in {old[k] : k \in 1 .. n} \cup {ts[k] : k \in 1 .. Len(ts)}
      BY <2>1
    <3>00. /\ \A i \in 1 .. n : old[i] \in SubTasks(q)
           /\ \A i \in 1 .. Len(ts) : ts[i] \in SubTasks(q)
      BY <2>1 DEF SubTasks
    <3>1. SubTasks(q) = {old[i] : i \in 1 .. n} \cup {ts[i] : i \in 1 .. Len(ts)}
      BY <3>0, <3>00 DEF SubTasks
    <3>2. {old[i] : i \in 1 .. n} = SubTasksOf(p)
      BY <1>6, <2>0, <2>00 DEF PoolOK, SubTasks
    <3> QED
      BY <1>3, <1>4, <3>1, <3>2
  <2>8. SubTasksOf(p)' \cap Succeeded' = SubTasksOf(p) \cap Succeeded
    BY <1>3, <1>4 DEF Succeeded
  <2>9. Outstanding(p)' = Outstanding(p)
    BY <1>3, <1>4 DEF Outstanding
  <2>10. /\ q.completed = Cardinality(SubTasksOf(p)' \cap Succeeded')
         /\ q.runningCount = Cardinality(Outstanding(p)')
    BY <1>6, <1>7, <2>8, <2>9 DEF PoolOK
  <2>11. q.jobDone => p \in Template \cap Succeeded'
    BY <1>4, <1>6, <1>7 DEF PoolOK, Succeeded
  <2>12. /\ q.total = Len(q.tasks) /\ q.cursor <= Len(q.tasks)
         /\ q.cursor = q.runningCount + q.completed + q.failed
    BY <1>6, <1>7, <2>1, <2>5 DEF PoolOK
  <2>13. pools'[p] = q /\ p \in Parents'
    BY <1>4, <1>5
  <2> QED
    BY <1>7, <2>4, <2>6, <2>7, <2>10, <2>11, <2>12, <2>13, PoolMake
<1>10. \A s \in Sub \cap mainSubmitted' : subToParent'[s] # None
  BY <1>1, <1>4, TaskSets DEF PoolInv
<1> QED
  BY <1>8, <1>9, <1>10 DEF PoolInv

\* PoolInv, a template's handler is done.
LEMMA PoolDone ==
  ASSUME CoreInv, OrderInv, NEW t \in Task, RecvDone(t)
  PROVE  PoolInv'
<1> USE DEF CoreInv
<1>1. t \in Template /\ t \in Succeeded
  BY DoneMsgFacts
<1>2. UNCHANGED <<mainSubmitted, taskStatus, activePoolIDs, subToParent>>
  BY DEF RecvDone, handleTemplateDone
<1>3. CASE t \notin Parents
  <2>1. UNCHANGED pools
    BY <1>3 DEF RecvDone, handleTemplateDone
  <2> QED
    BY <1>2, <2>1, PoolOther DEF Succeeded
<1>4. CASE t \in Parents
  <2>1. PICK q : q = markJobDone(pools[t])
    OBVIOUS
  <2>2. pools' = [pools EXCEPT ![t] = q]
    BY <1>4, <2>1 DEF RecvDone, handleTemplateDone
  <2>3. pools[t] \in Pool(Sub) /\ PoolOK(t)
    BY DEF PoolInv, SchedTypeOK
  <2>4. /\ q.tasks = pools[t].tasks /\ q.cursor = pools[t].cursor
        /\ q.runningCount = pools[t].runningCount
        /\ q.completed = pools[t].completed /\ q.failed = pools[t].failed
        /\ q.total = pools[t].total
        /\ q.allDone <=> AllOver(q)
    <3>1. PICK o \in Pool(Sub) : o = pools[t]
      BY <2>3
    <3> QED
      BY <2>1, <3>1, JobDoneFields
  <2>5. /\ \A x \in Task : SubTasksOf(x)' = SubTasksOf(x)
        /\ Parents' = Parents /\ Succeeded' = Succeeded
        /\ Outstanding(t)' = Outstanding(t)
    BY <1>2 DEF SubTasksOf, Parents, Succeeded, Outstanding
  <2>6. ASSUME NEW x \in Task, x # t PROVE PoolOK(x)'
    <3>1. pools'[x] = pools[x]
      BY <2>2, <2>6 DEF SchedTypeOK
    <3> QED
      BY <1>2, <2>5, <3>1, PoolFrame DEF PoolInv
  <2>7. PoolOK(t)'
    <3>1. pools'[t] = q
      BY <2>2 DEF SchedTypeOK
    <3>2. SubTasks(q) = SubTasksOf(t)'
      BY <2>3, <2>4, <2>5 DEF PoolOK, SubTasks
    <3>3. /\ q.total = Len(q.tasks) /\ q.cursor <= Len(q.tasks)
          /\ q.cursor = q.runningCount + q.completed + q.failed
          /\ \A i, j \in 1 .. Len(q.tasks) : q.tasks[i] = q.tasks[j] => i = j
          /\ \A i \in 1 .. Len(q.tasks) : q.tasks[i] \in mainSubmitted' <=> i <= q.cursor
          /\ q.completed = Cardinality(SubTasksOf(t)' \cap Succeeded')
          /\ q.runningCount = Cardinality(Outstanding(t)')
      BY <1>2, <2>3, <2>4, <2>5 DEF PoolOK
    <3> QED
      BY <1>1, <1>4, <2>4, <2>5, <3>1, <3>2, <3>3, PoolMake
  <2>8. \A s \in Sub \cap mainSubmitted' : subToParent'[s] # None
    BY <1>2 DEF PoolInv
  <2> QED
    BY <2>6, <2>7, <2>8 DEF PoolInv
<1> QED
  BY <1>3, <1>4

\* PoolInv is kept.
LEMMA PoolStep ==
  ASSUME CoreInv, OrderInv, AddsInv, V3TypeOK, [V3Next]_v3Vars
  PROVE  PoolInv'
<1> USE DEF CoreInv
<1>1. ASSUME UNCHANGED <<IdleVars, pools, subToParent>> PROVE PoolInv'
  BY <1>1, PoolOther DEF IdleVars, Succeeded
<1>2. ASSUME NEW t \in Task, RecvTemplateSuccess(t) \/ RecvMainSuccess(t) PROVE PoolInv'
  <2>1. /\ taskStatus' = [taskStatus EXCEPT ![t] = "SUCCESS"] /\ t \in Main
        /\ UNCHANGED <<pools, subToParent, activePoolIDs, mainSubmitted>>
    BY <1>2, TaskSets DEF RecvTemplateSuccess, RecvMainSuccess, RecvSuccess, FreeSlot,
       onTemplateSuccess, onMainSuccess
  <2>2. /\ \A s \in Sub : taskStatus'[s] = taskStatus[s]
        /\ Succeeded \subseteq Succeeded'
    BY <2>1, TaskSets DEF SchedTypeOK, Succeeded
  <2> QED
    BY <2>1, <2>2, PoolOther
<1>3. ASSUME NEW t \in Task, RecvFailure(t), t \in Main PROVE PoolInv'
  <2>1. /\ onFailure(t, pools) /\ t \in running
        /\ UNCHANGED <<subToParent, activePoolIDs, mainSubmitted>>
    BY <1>3 DEF RecvFailure, FreeSlot
  <2>2. taskStatus[t] = "PENDING"
    BY <2>1, RunFacts
  <2>3. /\ pools' = pools /\ Succeeded' = Succeeded
        /\ \A s \in Sub : taskStatus'[s] = taskStatus[s]
    BY <1>3, <2>1, <2>2, PoolMainFailure
  <2> QED
    BY <2>1, <2>3, PoolOther
<1>4. ASSUME NEW t \in Main, SubmitMain(t) PROVE PoolInv'
  <2>1. /\ Submit(t, pools) /\ mainSubmitted' = mainSubmitted \cup {t}
        /\ UNCHANGED <<subToParent, activePoolIDs>>
    BY <1>4 DEF SubmitMain, Submit
  <2>2. taskStatus[t] = "PENDING"
    BY <1>4, SubmitMainFacts
  <2>3. /\ pools' = pools /\ Succeeded' = Succeeded
        /\ \A s \in Sub : taskStatus'[s] = taskStatus[s]
    <3>1. CASE LacksParams(t, pools)
      BY <2>2, <3>1, PoolMainFailure DEF LacksParams
    <3>2. CASE Accepted(t, pools) \/ Refused(pools)
      BY <3>2 DEF Accepted, Refused, Succeeded
    <3> QED
      BY <2>1, <3>1, <3>2 DEF Submit
  <2>4. \A s \in Sub : s \in mainSubmitted' <=> s \in mainSubmitted
    BY <2>1, TaskSets
  <2> QED
    BY <2>1, <2>3, <2>4, PoolOther
<1> QED
  BY StepCases, IdleSteps, <1>1, <1>2, <1>3, <1>4, TaskSets, PoolAdd, PoolDone,
     PoolSuccess, PoolFailure, PoolSubmitSub

-----------------------------------------------------------------------------
(* The types, with the steps that need the invariant for them.             *)

\* Every step of the manager is one of the lifecycle, or none.
LEMMA LifecycleOfStep == [V3Next]_v3Vars => [LCNext]_lcVars
<1>1. ActorStep => [LCNext]_lcVars
  BY ActorStepLifecycle
<1>2. WorkerStep => [LCNext]_lcVars
  BY WorkerStepLifecycle
<1>3. LifecycleStep => LCNext
  BY DEF LifecycleStep, LCNext, UserStep, ControlStep
<1>4. UNCHANGED v3Vars => UNCHANGED lcVars
  BY DEF v3Vars
<1> QED
  BY <1>1, <1>2, <1>3, <1>4 DEF V3Next

\* V3TypeOK is kept.
LEMMA TypeStep ==
  ASSUME CoreInv, OrderInv, V3TypeOK, [V3Next]_v3Vars
  PROVE  V3TypeOK'
<1> USE DEF CoreInv
<1>1. LCTypeOK'
  BY LifecycleOfStep, TypeNext DEF V3TypeOK
<1>2. ASSUME Quiet, apc' \in {"select", "tick", "submit", "check"} PROVE SchedTypeOK'
  BY <1>2, TypeQuiet
<1>3. ASSUME NEW t \in Task, NEW ok \in BOOLEAN, RecvIgnored(t, ok) PROVE SchedTypeOK'
  <2>1. UNCHANGED <<IdleVars, pools, subToParent, totalTasks, call, exec, execDown, selfSend>>
    BY <1>3, IdleSteps
  <2>2. /\ inbox' \in Seq(Msg) /\ Len(inbox') <= InboxCap
        /\ apc' \in {"select", "tick", "submit", "check"}
    BY <1>3, RecvType DEF RecvIgnored
  <2> QED
    BY <2>1, <2>2 DEF SchedTypeOK, IdleVars, dagVars
<1>4. ASSUME NEW t \in Task, RecvSubSuccess(t) PROVE SchedTypeOK'
  <2>1. /\ subToParent[t] \in Task
        /\ taskCompleted(pools[subToParent[t]]).allDone => subToParent[t] \in Main
    BY <1>4, SubSuccessFacts
  <2> QED
    BY <1>4, <2>1, TypeSubSuccess
<1>5. ASSUME NEW t \in Task, RecvFailure(t) PROVE SchedTypeOK'
  <2>1. t \in running
    BY <1>5 DEF RecvFailure, FreeSlot
  <2>2. t \in Sub => subToParent[t] \in Task
    BY <2>1, RunFacts
  <2> QED
    BY <1>5, <2>2, TypeFailure
<1>6. ASSUME NEW t \in Sub, NEW p \in Task, SubmitSub(t, p) PROVE SchedTypeOK'
  <2>1. subToParent[t] = p
    BY <1>6, SubmitSubFacts
  <2> QED
    BY <1>6, <2>1, TypeSubmitSub
<1>7. ASSUME \/ \E c \in Caller : CallAdd(c) \/ CallRefused(c)
             \/ \E t \in Task, ok \in BOOLEAN : TaskEnd(t, ok)
             \/ \E t \in Task : HandlerEnd(t)
             \/ ExecShutdown
      PROVE  SchedTypeOK'
  <2>1. WorkerStep
    BY <1>7 DEF WorkerStep
  <2>2. SchedTypeOK
    OBVIOUS
  <2> QED
    BY ONLY <2>1, <2>2, TypeWorkers
<1>8. ASSUME NEW t \in Task, \/ RecvTemplateSuccess(t) \/ RecvMainSuccess(t) \/ RecvDone(t)
      PROVE  SchedTypeOK'
  BY <1>8, TypeTemplateSuccess, TypeMainSuccess, TypeDone
<1>9. ASSUME NEW t \in Main, SubmitMain(t) PROVE SchedTypeOK'
  BY <1>9, TypeSubmitMain
<1>10. ASSUME NEW c \in Caller, RecvAdd(c) PROVE SchedTypeOK'
  BY <1>10, TypeRecvAdd
<1>11. ASSUME ActorSelfSend PROVE SchedTypeOK'
  BY <1>11, TypeSelfSend
<1>12. SchedTypeOK'
  BY StepCases, <1>2, <1>3, <1>4, <1>5, <1>6, <1>7, <1>8, <1>9, <1>10, <1>11
<1> QED
  BY <1>1, <1>12 DEF V3TypeOK

-----------------------------------------------------------------------------
(* Tasks without outcome, and slots: PendingInv and SlotsInv.              *)

\* Once a context is done it stays done, and the executor once down stays down.
LEMMA DownStays ==
  ASSUME V3TypeOK, [V3Next]_v3Vars
  PROVE  ctxDone => ctxDone'
BY LifecycleOfStep, LCKeepsCtxDone DEF V3TypeOK

\* PendingInv, steps that touch none of its variables.
LEMMA PendingFrame ==
  ASSUME PendingInv, UNCHANGED <<mainSubmitted, taskStatus, running, failedTasks>>,
         execDown => execDown'
  PROVE  PendingInv'
BY DEF PendingInv

\* A failure is counted.
LEMMA FailureCounts ==
  ASSUME SchedTypeOK, NEW t \in Task, NEW ps, onFailure(t, ps)
  PROVE  failedTasks' # 0
<1>1. failedTasks \in Nat /\ Cardinality(Children(t)) \in Nat
  BY ChildrenFinite DEF SchedTypeOK
<1> QED
  BY <1>1 DEF onFailure

\* PendingInv, a task fails.
LEMMA PendingFailure ==
  ASSUME SchedTypeOK, PendingInv, NEW t \in Task, NEW ps, onFailure(t, ps),
         execDown' = execDown,
         \/ running' = running \ {t} /\ mainSubmitted' = mainSubmitted
         \/ running' = running /\ mainSubmitted' = mainSubmitted \cup {t}
  PROVE  PendingInv'
<1>1. failedTasks' # 0 /\ taskStatus' = [taskStatus EXCEPT ![t] = "FAILED"]
  BY FailureCounts DEF onFailure
<1>2. taskStatus'[t] = "FAILED" /\ \A x \in Task : x # t => taskStatus'[x] = taskStatus[x]
  BY <1>1 DEF SchedTypeOK
<1>3. ASSUME ~execDown', NEW x \in mainSubmitted', taskStatus'[x] = "PENDING"
      PROVE  x \in running'
  BY <1>2, <1>3 DEF PendingInv, SchedTypeOK
<1> QED
  BY <1>1, <1>3 DEF PendingInv

\* PendingInv, what becomes of a picked task.
LEMMA PendingSubmit ==
  ASSUME SchedTypeOK, PendingInv, NEW t \in Task, NEW ps, Submit(t, ps)
  PROVE  PendingInv'
<1>1. mainSubmitted' = mainSubmitted \cup {t} /\ execDown' = execDown
  BY DEF Submit
<1>2. ASSUME LacksParams(t, ps) PROVE PendingInv'
  BY <1>1, <1>2, PendingFailure DEF LacksParams
<1>3. ASSUME Accepted(t, ps) PROVE PendingInv'
  <2>1. running' = running \cup {t} /\ UNCHANGED <<taskStatus, failedTasks>>
    BY <1>3 DEF Accepted
  <2> QED
    BY <1>1, <2>1 DEF PendingInv
<1>4. ASSUME Refused(ps) PROVE PendingInv'
  <2>1. execDown /\ failedTasks' = failedTasks + 1 /\ failedTasks \in Nat
    BY <1>4 DEF Refused, SchedTypeOK
  <2>2. failedTasks' # 0
    BY <2>1
  <2> QED
    BY <1>1, <2>1, <2>2 DEF PendingInv
<1> QED
  BY <1>2, <1>3, <1>4 DEF Submit

\* PendingInv is kept.
LEMMA PendingStep ==
  ASSUME CoreInv, PendingInv, V3TypeOK, [V3Next]_v3Vars
  PROVE  PendingInv'
<1> USE DEF CoreInv
<1>1. ASSUME UNCHANGED IdleVars, execDown => execDown' PROVE PendingInv'
  BY <1>1, PendingFrame DEF IdleVars
<1>2. ASSUME NEW c \in Caller, RecvAdd(c) PROVE PendingInv'
  BY <1>2, PendingFrame DEF RecvAdd, Recv, handleAdd
<1>3. ASSUME NEW t \in Task, RecvSuccess(t) PROVE PendingInv'
  <2>1. /\ running' = running \ {t} /\ UNCHANGED <<mainSubmitted, failedTasks, execDown>>
        /\ taskStatus' = [taskStatus EXCEPT ![t] = "SUCCESS"]
    BY <1>3 DEF RecvSuccess, FreeSlot, Recv
  <2>2. taskStatus'[t] = "SUCCESS" /\ \A x \in Task : x # t => taskStatus'[x] = taskStatus[x]
    BY <2>1 DEF SchedTypeOK
  <2>3. ASSUME ~execDown \/ failedTasks = 0, NEW x \in mainSubmitted,
               taskStatus'[x] = "PENDING"
        PROVE  x \in running'
    BY <2>1, <2>2, <2>3 DEF PendingInv, SchedTypeOK
  <2> QED
    BY <2>1, <2>2, <2>3 DEF PendingInv
<1>4. ASSUME NEW t \in Task, RecvFailure(t) PROVE PendingInv'
  <2>1. /\ running' = running \ {t} /\ UNCHANGED <<mainSubmitted, execDown>>
        /\ onFailure(t, pools)
    BY <1>4 DEF RecvFailure, FreeSlot, Recv
  <2> QED
    BY <2>1, PendingFailure
<1>5. ASSUME NEW t \in Task, RecvDone(t) PROVE PendingInv'
  BY <1>5, PendingFrame DEF RecvDone, Recv, handleTemplateDone, countVars
<1>6. ASSUME NEW t \in Task, NEW ps, Submit(t, ps) PROVE PendingInv'
  BY <1>6, PendingSubmit
<1>7. ASSUME \/ Quiet \/ ActorSelfSend \/ ExecShutdown
             \/ \E t \in Task, ok \in BOOLEAN : RecvIgnored(t, ok) \/ TaskEnd(t, ok)
             \/ \E c \in Caller : CallAdd(c) \/ CallRefused(c)
             \/ \E t \in Task : HandlerEnd(t)
      PROVE  UNCHANGED IdleVars /\ (execDown => execDown')
  <2>1. UNCHANGED IdleVars
    BY <1>7, IdleSteps
  <2>2. execDown => execDown'
    BY <1>7, IdleSteps DEF ExecShutdown
  <2> QED
    BY <2>1, <2>2
<1>8. ASSUME NEW t \in Task, \/ RecvSubSuccess(t) \/ RecvTemplateSuccess(t) \/ RecvMainSuccess(t)
      PROVE PendingInv'
  BY <1>3, <1>8 DEF RecvSubSuccess, RecvTemplateSuccess, RecvMainSuccess
<1>9. ASSUME NEW t \in Main, SubmitMain(t) PROVE PendingInv'
  BY <1>6, <1>9, TaskSets DEF SubmitMain
<1>10. ASSUME NEW t \in Sub, NEW p \in Task, SubmitSub(t, p) PROVE PendingInv'
  BY <1>6, <1>10, TaskSets DEF SubmitSub
<1> QED
  BY StepCases, <1>1, <1>2, <1>4, <1>5, <1>7, <1>8, <1>9, <1>10

\* SlotsInv, a result frees its slot.
LEMMA SlotsFree ==
  ASSUME SchedTypeOK, SlotsInv, NEW t, NEW ok, FreeSlot(t, ok)
  PROVE  SlotsInv'
<1>1. /\ t \in running /\ running' = running \ {t}
      /\ runningTasks' = runningTasks - 1
  BY DEF FreeSlot
<1>2. IsFiniteSet(running) /\ runningTasks = Cardinality(running) /\ runningTasks <= MaxConc
  BY DEF SlotsInv, SlotsAccounted
<1>3. IsFiniteSet(running') /\ Cardinality(running') = Cardinality(running) - 1
  BY <1>1, <1>2, FS_RemoveElement
<1>4. MaxConc \in Nat /\ Cardinality(running) \in Nat
  BY <1>2, V3Assumption, FS_CardinalityType
<1> QED
  BY <1>1, <1>2, <1>3, <1>4 DEF SlotsInv, SlotsAccounted

\* SlotsInv, steps that touch no slot.
LEMMA SlotsFrame ==
  ASSUME SlotsInv, UNCHANGED <<running, runningTasks>>
  PROVE  SlotsInv'
BY DEF SlotsInv, SlotsAccounted

\* SlotsInv, what becomes of a picked task.
LEMMA SlotsSubmit ==
  ASSUME SchedTypeOK, SlotsInv, NEW t \in Task, t \notin running, NEW ps, Submit(t, ps)
  PROVE  SlotsInv'
<1>1. ASSUME LacksParams(t, ps) \/ Refused(ps) PROVE SlotsInv'
  BY <1>1, SlotsFrame DEF LacksParams, Refused
<1>2. ASSUME Accepted(t, ps) PROVE SlotsInv'
  <2>1. running' = running \cup {t} /\ runningTasks' = runningTasks + 1
    BY <1>2 DEF Accepted
  <2>2. IsFiniteSet(running) /\ runningTasks = Cardinality(running) /\ runningTasks < MaxConc
    BY DEF SlotsInv, SlotsAccounted, Submit
  <2>3. IsFiniteSet(running') /\ Cardinality(running') = Cardinality(running) + 1
    BY <2>1, <2>2, FS_AddElement
  <2>4. MaxConc \in Nat /\ Cardinality(running) \in Nat
    BY <2>2, V3Assumption, FS_CardinalityType
  <2> QED
    BY <2>1, <2>2, <2>3, <2>4 DEF SlotsInv, SlotsAccounted
<1> QED
  BY <1>1, <1>2 DEF Submit

\* SlotsInv is kept.
LEMMA SlotsStep ==
  ASSUME CoreInv, SlotsInv, V3TypeOK, [V3Next]_v3Vars
  PROVE  SlotsInv'
<1> USE DEF CoreInv
<1>1. ASSUME UNCHANGED IdleVars PROVE SlotsInv'
  BY <1>1, SlotsFrame DEF IdleVars
<1>2. ASSUME NEW c \in Caller, RecvAdd(c) PROVE SlotsInv'
  BY <1>2, SlotsFrame DEF RecvAdd, handleAdd
<1>3. ASSUME NEW t \in Task, \/ RecvSubSuccess(t) \/ RecvTemplateSuccess(t)
                             \/ RecvMainSuccess(t) \/ RecvFailure(t)
      PROVE  SlotsInv'
  <2>1. FreeSlot(t, TRUE) \/ FreeSlot(t, FALSE)
    BY <1>3 DEF RecvSubSuccess, RecvTemplateSuccess, RecvMainSuccess, RecvSuccess, RecvFailure
  <2> QED
    BY <2>1, SlotsFree
<1>4. ASSUME NEW t \in Task, RecvDone(t) PROVE SlotsInv'
  BY <1>4, SlotsFrame DEF RecvDone, countVars
<1>5. ASSUME NEW t \in Main, SubmitMain(t) PROVE SlotsInv'
  <2>1. t \in Task /\ t \notin running /\ Submit(t, pools)
    BY <1>5, SubmitMainFacts DEF SubmitMain
  <2> QED
    BY <2>1, SlotsSubmit
<1>6. ASSUME NEW t \in Sub, NEW p \in Task, SubmitSub(t, p) PROVE SlotsInv'
  <2>1. t \in Task /\ t \notin running
    BY <1>6, SubmitSubFacts
  <2>2. Submit(t, PickedPool(p))
    BY <1>6 DEF SubmitSub
  <2> QED
    BY <2>1, <2>2, SlotsSubmit
<1> QED
  BY StepCases, IdleSteps, <1>1, <1>2, <1>3, <1>4, <1>5, <1>6

-----------------------------------------------------------------------------
(* The inbox, and the batches on their way: AddsInv.                       *)

\* What Tail does.
LEMMA TailFacts ==
  ASSUME NEW S, NEW q \in Seq(S), q # <<>>
  PROVE  /\ Tail(q) \in Seq(S) /\ Len(Tail(q)) = Len(q) - 1 /\ 1 \in 1 .. Len(q)
         /\ Head(q) = q[1]
         /\ \A i \in 1 .. Len(Tail(q)) : i + 1 \in 1 .. Len(q) /\ Tail(q)[i] = q[i + 1]
         /\ \A i \in 1 .. Len(q) : i # 1 =>
              i - 1 \in 1 .. Len(Tail(q)) /\ Tail(q)[i - 1] = q[i]
OBVIOUS

\* What may become of the inbox in one step.
Received == inbox # <<>> /\ inbox' = Tail(inbox)
Sent(m) == m \in Msg /\ inbox' = Append(inbox, m)

\* Where the messages are after a send.
LEMMA SentFacts ==
  ASSUME SchedTypeOK, NEW m, Sent(m)
  PROVE  /\ Len(inbox) \in Nat /\ Len(inbox') = Len(inbox) + 1
         /\ \A i \in 1 .. Len(inbox) : inbox'[i] = inbox[i] /\ i \in 1 .. Len(inbox')
         /\ Len(inbox) + 1 \in 1 .. Len(inbox') /\ inbox'[Len(inbox) + 1] = m
         /\ \A i \in 1 .. Len(inbox') : i \in 1 .. Len(inbox) \/ i = Len(inbox) + 1
<1>1. inbox \in Seq(Msg) /\ m \in Msg /\ inbox' = Append(inbox, m)
  BY DEF SchedTypeOK, Sent
<1>2. /\ Len(inbox) \in Nat /\ Len(inbox') = Len(inbox) + 1
      /\ \A i \in 1 .. Len(inbox) : inbox'[i] = inbox[i]
      /\ inbox'[Len(inbox) + 1] = m
  BY <1>1, AppendFacts
<1>3. PICK n \in Nat : n = Len(inbox)
  BY <1>2
<1>4. /\ \A i \in 1 .. n : i \in 1 .. n + 1
      /\ n + 1 \in 1 .. n + 1
      /\ \A i \in 1 .. n + 1 : i \in 1 .. n \/ i = n + 1
  OBVIOUS
<1> QED
  BY <1>2, <1>3, <1>4

\* Where the messages are after a receive.
LEMMA ReceivedFacts ==
  ASSUME SchedTypeOK, Received
  PROVE  /\ Head(inbox) = inbox[1] /\ 1 \in 1 .. Len(inbox)
         /\ \A i \in 1 .. Len(inbox') : i + 1 \in 1 .. Len(inbox) /\ inbox'[i] = inbox[i + 1]
         /\ \A i \in 1 .. Len(inbox) : i # 1 =>
              i - 1 \in 1 .. Len(inbox') /\ inbox'[i - 1] = inbox[i]
<1>1. inbox \in Seq(Msg) /\ inbox # <<>> /\ inbox' = Tail(inbox)
  BY DEF SchedTypeOK, Received
<1> QED
  BY <1>1, TailFacts

\* A message that nobody sends does not appear and is not doubled.
LEMMA NothingAppears ==
  ASSUME SchedTypeOK, NEW x,
         \/ inbox' = inbox \/ Received \/ \E m : Sent(m) /\ m # x
  PROVE  /\ InInbox(x)' => InInbox(x)
         /\ (\A i, j \in 1 .. Len(inbox) : inbox[i] = x /\ inbox[j] = x => i = j)
              => \A i, j \in 1 .. Len(inbox') : inbox'[i] = x /\ inbox'[j] = x => i = j
<1>1. CASE inbox' = inbox
  BY <1>1 DEF InInbox
<1>2. CASE Received
  <2>1. \A i \in 1 .. Len(inbox') : i + 1 \in 1 .. Len(inbox) /\ inbox'[i] = inbox[i + 1]
    BY <1>2, ReceivedFacts
  <2>2. InInbox(x)' => InInbox(x)
    BY <2>1 DEF InInbox
  <2>3. ASSUME \A i, j \in 1 .. Len(inbox) : inbox[i] = x /\ inbox[j] = x => i = j,
               NEW i \in 1 .. Len(inbox'), NEW j \in 1 .. Len(inbox'),
               inbox'[i] = x, inbox'[j] = x
        PROVE  i = j
    <3>1. i + 1 = j + 1
      BY <2>1, <2>3
    <3> QED
      BY <3>1
  <2> QED
    BY <2>2, <2>3
<1>3. ASSUME NEW m, Sent(m), m # x
      PROVE  /\ InInbox(x)' => InInbox(x)
             /\ (\A i, j \in 1 .. Len(inbox) : inbox[i] = x /\ inbox[j] = x => i = j)
                  => \A i, j \in 1 .. Len(inbox') : inbox'[i] = x /\ inbox'[j] = x => i = j
  <2>1. \A i \in 1 .. Len(inbox') : inbox'[i] = x => i \in 1 .. Len(inbox) /\ inbox[i] = x
    BY <1>3, SentFacts
  <2> QED
    BY <2>1 DEF InInbox
<1> QED
  BY <1>1, <1>2, <1>3

\* The head of the inbox, once received, is gone.
LEMMA HeadGone ==
  ASSUME SchedTypeOK, Received, NEW x, inbox[1] = x,
         \A i, j \in 1 .. Len(inbox) : inbox[i] = x /\ inbox[j] = x => i = j
  PROVE  ~InInbox(x)'
<1>1. \A i \in 1 .. Len(inbox') : i + 1 \in 1 .. Len(inbox) /\ inbox'[i] = inbox[i + 1]
  BY ReceivedFacts
<1>2. 1 \in 1 .. Len(inbox)
  BY ReceivedFacts
<1>3. ASSUME NEW i \in 1 .. Len(inbox'), inbox'[i] = x PROVE FALSE
  <2>1. i + 1 = 1
    BY <1>1, <1>2, <1>3
  <2> QED
    BY <2>1
<1> QED
  BY <1>3 DEF InInbox

\* AddsInv, steps that neither send nor handle a batch.
LEMMA AddsFrame ==
  ASSUME SchedTypeOK, AddsInv, subToParent' = subToParent,
         \/ inbox' = inbox \/ Received \/ \E m : Sent(m) /\ m.type # "add",
         \A c \in Caller : /\ call'[c] \in {"idle", "add"} => call[c] \in {"idle", "add"}
                           /\ call'[c] = "add" => call[c] = "add" \/ Batch(c) # <<>>
  PROVE  AddsInv'
<1>1. ASSUME NEW c \in Caller
      PROVE  /\ InInbox(AddMsg(c))' => InInbox(AddMsg(c))
             /\ \A i, j \in 1 .. Len(inbox') :
                  inbox'[i] = AddMsg(c) /\ inbox'[j] = AddMsg(c) => i = j
  <2>1. AddMsg(c).type = "add"
    BY DEF AddMsg
  <2>2. \A i, j \in 1 .. Len(inbox) : inbox[i] = AddMsg(c) /\ inbox[j] = AddMsg(c) => i = j
    BY DEF AddsInv
  <2>3. PICK x : x = AddMsg(c)
    OBVIOUS
  <2>4. \/ inbox' = inbox \/ Received \/ \E m : Sent(m) /\ m # x
    BY <2>1, <2>3
  <2> QED
    BY <2>2, <2>3, <2>4, NothingAppears
<1> QED
  BY <1>1 DEF AddsInv

\* What the steps of the workers and of the scheduler do to the calls.
LEMMA StartCalls ==
  ASSUME SchedTypeOK, NEW t \in Task, startHandler(t)
  PROVE  /\ \A c \in Caller : c # <<"handler", t>> => call'[c] = call[c]
         /\ \/ call'[<<"handler", t>>] = call[<<"handler", t>>]
            \/ call'[<<"handler", t>>] = "ready"
            \/ call'[<<"handler", t>>] = "add" /\ Batch(<<"handler", t>>) # <<>>
<1>1. <<"handler", t>> \in Caller
  BY TaskSets
<1>2. call \in [Caller -> {"idle", "add", "wait", "ready", "over"}]
  BY DEF SchedTypeOK
<1> QED
  BY <1>1, <1>2 DEF startHandler

\* The calls after a task is accepted by the executor.
LEMMA AcceptedCalls ==
  ASSUME SchedTypeOK, NEW t \in Task, NEW ps, Accepted(t, ps)
  PROVE  /\ \A c \in Caller : c # <<"job", t>> => call'[c] = call[c]
         /\ \/ call'[<<"job", t>>] = "ready"
            \/ call'[<<"job", t>>] = "add" /\ Batch(<<"job", t>>) # <<>>
<1>1. <<"job", t>> \in Caller
  BY TaskSets
<1>2. call \in [Caller -> {"idle", "add", "wait", "ready", "over"}]
  BY DEF SchedTypeOK
<1> QED
  BY <1>1, <1>2 DEF Accepted

\* What the goroutines' steps do to the calls.
LEMMA WorkerCalls ==
  ASSUME SchedTypeOK
  PROVE  /\ \A c \in Caller : CallAdd(c) \/ CallRefused(c) =>
              /\ call[c] \in {"add", "wait"} /\ call'[c] \in {"wait", "ready"}
              /\ \A d \in Caller : d # c => call'[d] = call[d]
         /\ \A t \in Task, ok \in BOOLEAN : TaskEnd(t, ok) =>
              \A c \in Caller : \/ call'[c] = call[c]
                                \/ c = <<"job", t>> /\ call[c] = "add" /\ call'[c] = "ready"
         /\ \A t \in Task : HandlerEnd(t) =>
              \A c \in Caller : \/ call'[c] = call[c]
                                \/ c = <<"handler", t>> /\ call'[c] = "over"
<1>0. call \in [Caller -> {"idle", "add", "wait", "ready", "over"}]
  BY DEF SchedTypeOK
<1>1. \A c \in Caller : CallAdd(c) \/ CallRefused(c) =>
              /\ call[c] \in {"add", "wait"} /\ call'[c] \in {"wait", "ready"}
              /\ \A d \in Caller : d # c => call'[d] = call[d]
  BY <1>0 DEF CallAdd, CallRefused
<1>2. \A t \in Task, ok \in BOOLEAN : TaskEnd(t, ok) =>
              \A c \in Caller : \/ call'[c] = call[c]
                                \/ c = <<"job", t>> /\ call[c] = "add" /\ call'[c] = "ready"
  BY <1>0, TaskSets DEF TaskEnd
<1>3. \A t \in Task : HandlerEnd(t) =>
              \A c \in Caller : \/ call'[c] = call[c]
                                \/ c = <<"handler", t>> /\ call'[c] = "over"
  BY <1>0, TaskSets DEF HandlerEnd
<1> QED
  BY <1>1, <1>2, <1>3

\* What each step does to the inbox.
LEMMA InboxSteps ==
  ASSUME SchedTypeOK
  PROVE  /\ \A m : Recv(m) => Received /\ inbox[1] = m
         /\ ActorSelfSend => \/ inbox' = inbox
                             \/ Sent(DoneMsg(selfSend)) /\ selfSend \in Template
         /\ \A c \in Caller : CallAdd(c) => Sent(AddMsg(c))
         /\ \A c \in Caller : CallRefused(c) => inbox' = inbox
         /\ \A t \in Task, ok \in BOOLEAN : TaskEnd(t, ok) =>
              \/ inbox' = inbox \/ Sent(ResultMsg(t, ok))
         /\ \A t \in Task : HandlerEnd(t) => inbox' = inbox \/ Sent(DoneMsg(t))
         /\ \A t, ps : Submit(t, ps) => inbox' = inbox
<1>1. \A m : Recv(m) => Received /\ inbox[1] = m
  <2>1. inbox \in Seq(Msg)
    BY DEF SchedTypeOK
  <2> QED
    BY <2>1 DEF Recv, Received
<1>2. ActorSelfSend => \/ inbox' = inbox
                       \/ Sent(DoneMsg(selfSend)) /\ selfSend \in Template
  <2>1. ASSUME ActorSelfSend PROVE selfSend \in Template /\ DoneMsg(selfSend) \in Msg
    BY <2>1, TaskSets DEF ActorSelfSend, SchedTypeOK, DoneMsg, Msg
  <2> QED
    BY <2>1 DEF ActorSelfSend, Sent
<1>3. ASSUME NEW c \in Caller, CallAdd(c) PROVE Sent(AddMsg(c))
  <2>1. AddMsg(c) \in Msg
    BY DEF AddMsg, Msg
  <2> QED
    BY <1>3, <2>1 DEF CallAdd, Sent
<1>4. \A c \in Caller : CallRefused(c) => inbox' = inbox
  BY DEF CallRefused
<1>5. ASSUME NEW t \in Task, NEW ok \in BOOLEAN, TaskEnd(t, ok)
      PROVE  inbox' = inbox \/ Sent(ResultMsg(t, ok))
  <2>1. ResultMsg(t, ok) \in Msg
    BY DEF ResultMsg, Msg
  <2> QED
    BY <1>5, <2>1 DEF TaskEnd, Sent
<1>6. ASSUME NEW t \in Task, HandlerEnd(t) PROVE inbox' = inbox \/ Sent(DoneMsg(t))
  <2>1. DoneMsg(t) \in Msg
    BY <1>6, TaskSets DEF HandlerEnd, DoneMsg, Msg
  <2> QED
    BY <1>6, <2>1 DEF HandlerEnd, Sent
<1>7. \A t, ps : Submit(t, ps) => inbox' = inbox
  BY DEF Submit
<1> QED
  BY <1>1, <1>2, <1>3, <1>4, <1>5, <1>6, <1>7

\* The calls after a task was picked.
LEMMA SubmitCalls ==
  ASSUME SchedTypeOK, NEW t \in Task, NEW ps, Submit(t, ps)
  PROVE  /\ \A c \in Caller : c # <<"job", t>> => call'[c] = call[c]
         /\ \/ call'[<<"job", t>>] = call[<<"job", t>>]
            \/ call'[<<"job", t>>] = "ready"
            \/ call'[<<"job", t>>] = "add" /\ Batch(<<"job", t>>) # <<>>
<1>1. CASE LacksParams(t, ps) \/ Refused(ps)
  BY <1>1 DEF LacksParams, Refused
<1> QED
  BY <1>1, AcceptedCalls DEF Submit

\* A batch is added once.
LEMMA AddsAdd ==
  ASSUME CoreInv, AddsInv, NEW c \in Caller, RecvAdd(c)
  PROVE  AddsInv'
<1> USE DEF CoreInv
<1>1. Received /\ inbox[1] = AddMsg(c) /\ InInbox(AddMsg(c))
  <2>1. Recv(AddMsg(c))
    BY DEF RecvAdd
  <2>2. Received /\ inbox[1] = AddMsg(c)
    BY <2>1, InboxSteps
  <2>3. 1 \in 1 .. Len(inbox)
    BY <2>2, ReceivedFacts
  <2> QED
    BY <2>2, <2>3 DEF InInbox
<1>2. ~InInbox(AddMsg(c))'
  <2>1. PICK x : x = AddMsg(c)
    OBVIOUS
  <2>2. \A i, j \in 1 .. Len(inbox) : inbox[i] = x /\ inbox[j] = x => i = j
    BY <2>1 DEF AddsInv
  <2> QED
    BY <1>1, <2>1, <2>2, HeadGone
<1>3. /\ call[c] \notin {"idle", "add"} /\ call'[c] \notin {"idle", "add"}
      /\ \A d \in Caller : d # c => call'[d] = call[d]
  <2>1. call[c] \notin {"idle", "add"}
    BY <1>1 DEF AddsInv
  <2>2. call' = [call EXCEPT ![c] = IF @ = "wait" THEN "ready" ELSE @]
    BY DEF RecvAdd, handleAdd
  <2> QED
    BY <2>1, <2>2 DEF SchedTypeOK
<1>4. ASSUME NEW d \in Caller
      PROVE  /\ InInbox(AddMsg(d))' => InInbox(AddMsg(d))
             /\ \A i, j \in 1 .. Len(inbox') :
                  inbox'[i] = AddMsg(d) /\ inbox'[j] = AddMsg(d) => i = j
  <2>1. PICK x : x = AddMsg(d)
    OBVIOUS
  <2>2. \A i, j \in 1 .. Len(inbox) : inbox[i] = x /\ inbox[j] = x => i = j
    BY <2>1 DEF AddsInv
  <2> QED
    BY <1>1, <2>1, <2>2, NothingAppears
<1>5. ASSUME NEW d \in Caller, d # c, \A s \in Elems(d) : subToParent[s] = None
      PROVE  \A s \in Elems(d) : subToParent'[s] = None
  <2>1. \A s \in Elems(d) : s \notin Elems(c)
    BY <1>5, FreshSubTasks DEF Elems
  <2>2. \A s \in Sub : subToParent'[s] = IF s \in Elems(c) THEN c[2] ELSE subToParent[s]
    BY AddEffects
  <2>3. Elems(d) \subseteq Sub
    BY BatchType
  <2> QED
    BY <1>5, <2>1, <2>2, <2>3
<1> QED
  BY <1>2, <1>3, <1>4, <1>5 DEF AddsInv

\* AddsInv, a batch is sent.
LEMMA AddsCall ==
  ASSUME SchedTypeOK, AddsInv, NEW c \in Caller, CallAdd(c)
  PROVE  AddsInv'
<1>1. /\ Sent(AddMsg(c)) /\ call[c] = "add" /\ call'[c] = "wait"
      /\ subToParent' = subToParent
      /\ \A d \in Caller : d # c => call'[d] = call[d]
  BY InboxSteps, WorkerCalls DEF CallAdd, quietVars, poolVars, SchedTypeOK
<1>2. /\ ~InInbox(AddMsg(c)) /\ Batch(c) # <<>>
      /\ \A s \in Elems(c) : subToParent[s] = None
  BY <1>1 DEF AddsInv
<1>3. \A i, j \in 1 .. Len(inbox') :
        inbox'[i] = AddMsg(c) /\ inbox'[j] = AddMsg(c) => i = j
  <2>1. \A i \in 1 .. Len(inbox') : inbox'[i] = AddMsg(c) => i = Len(inbox) + 1
    BY <1>1, <1>2, SentFacts DEF InInbox
  <2> QED
    BY <2>1
<1>4. ASSUME NEW d \in Caller, d # c
      PROVE  /\ InInbox(AddMsg(d))' => InInbox(AddMsg(d))
             /\ \A i, j \in 1 .. Len(inbox') :
                  inbox'[i] = AddMsg(d) /\ inbox'[j] = AddMsg(d) => i = j
  <2>1. PICK x : x = AddMsg(d)
    OBVIOUS
  <2>2. \A i, j \in 1 .. Len(inbox) : inbox[i] = x /\ inbox[j] = x => i = j
    BY <2>1 DEF AddsInv
  <2>3. x # AddMsg(c)
    BY <1>4, <2>1 DEF AddMsg
  <2> QED
    BY <1>1, <2>1, <2>2, <2>3, NothingAppears
<1> QED
  BY <1>1, <1>2, <1>3, <1>4 DEF AddsInv

\* AddsInv is kept.
LEMMA AddsStep ==
  ASSUME CoreInv, AddsInv, V3TypeOK, [V3Next]_v3Vars
  PROVE  AddsInv'
<1> USE DEF CoreInv
<1>1. ASSUME NEW m, Recv(m) PROVE Received
  BY <1>1, InboxSteps
<1>2. CASE Quiet \/ ExecShutdown
  <2>1. UNCHANGED <<subToParent, inbox, call>>
    BY <1>2, IdleSteps
  <2> QED
    BY <2>1, AddsFrame
<1>3. ASSUME NEW t \in Task, NEW ok \in BOOLEAN, RecvIgnored(t, ok) PROVE AddsInv'
  <2>1. Received /\ UNCHANGED <<subToParent, call>>
    BY <1>1, <1>3, IdleSteps DEF RecvIgnored
  <2> QED
    BY <2>1, AddsFrame
<1>4. ASSUME NEW t \in Task, \/ RecvSubSuccess(t) \/ RecvTemplateSuccess(t)
                             \/ RecvMainSuccess(t)
      PROVE  AddsInv'
  <2>1. RecvSuccess(t)
    BY <1>4 DEF RecvSubSuccess, RecvTemplateSuccess, RecvMainSuccess
  <2>2. Received /\ subToParent' = subToParent /\ startHandler(t) /\ t \in running
    BY <1>1, <2>1 DEF RecvSuccess, FreeSlot
  <2>3. call[<<"handler", t>>] = "idle"
    BY <2>2, RunFacts DEF FreshInv
  <2>4. \A c \in Caller : /\ call'[c] \in {"idle", "add"} => call[c] \in {"idle", "add"}
                          /\ call'[c] = "add" => call[c] = "add" \/ Batch(c) # <<>>
    BY <2>2, <2>3, StartCalls
  <2> QED
    BY <2>2, <2>4, AddsFrame
<1>5. ASSUME NEW t \in Task, RecvFailure(t) \/ RecvDone(t) PROVE AddsInv'
  <2>1. Received /\ UNCHANGED <<subToParent, call>>
    BY <1>1, <1>5 DEF RecvFailure, FreeSlot, RecvDone
  <2> QED
    BY <2>1, AddsFrame
<1>6. ASSUME NEW t \in Task, NEW ps, Submit(t, ps), call[<<"job", t>>] = "idle" PROVE AddsInv'
  <2>1. inbox' = inbox /\ subToParent' = subToParent
    BY <1>6 DEF Submit
  <2>2. \A c \in Caller : /\ call'[c] \in {"idle", "add"} => call[c] \in {"idle", "add"}
                          /\ call'[c] = "add" => call[c] = "add" \/ Batch(c) # <<>>
    BY <1>6, SubmitCalls
  <2> QED
    BY <2>1, <2>2, AddsFrame
<1>7. ASSUME NEW t \in Main, SubmitMain(t) PROVE AddsInv'
  <2>1. t \in Task /\ Submit(t, pools) /\ call[<<"job", t>>] = "idle"
    BY <1>7, SubmitMainFacts DEF SubmitMain
  <2> QED
    BY <1>6, <2>1
<1>8. ASSUME NEW t \in Sub, NEW p \in Task, SubmitSub(t, p) PROVE AddsInv'
  <2>1. t \in Task /\ call[<<"job", t>>] = "idle"
    BY <1>8, SubmitSubFacts
  <2>2. Submit(t, PickedPool(p))
    BY <1>8 DEF SubmitSub
  <2> QED
    BY <1>6, <2>1, <2>2
<1>9. CASE ActorSelfSend
  <2>1. UNCHANGED <<subToParent, call>>
    BY <1>9, IdleSteps
  <2>2. inbox' = inbox \/ \E m : Sent(m) /\ m.type # "add"
    BY <1>9, InboxSteps DEF DoneMsg
  <2> QED
    BY <2>1, <2>2, AddsFrame
<1>10. ASSUME NEW c \in Caller, CallRefused(c) PROVE AddsInv'
  <2>1. UNCHANGED <<subToParent, inbox>>
    BY <1>10, IdleSteps, InboxSteps
  <2>2. \A d \in Caller : d # c => call'[d] = call[d]
    BY <1>10, WorkerCalls
  <2>3. call'[c] = "ready"
    BY <1>10 DEF CallRefused, SchedTypeOK
  <2> QED
    BY <2>1, <2>2, <2>3, AddsFrame
<1>11. ASSUME NEW t \in Task, NEW ok \in BOOLEAN, TaskEnd(t, ok) PROVE AddsInv'
  <2>1. subToParent' = subToParent
    BY <1>11, IdleSteps
  <2>2. inbox' = inbox \/ \E m : Sent(m) /\ m.type # "add"
    <3>1. inbox' = inbox \/ Sent(ResultMsg(t, ok))
      BY <1>11, InboxSteps
    <3>2. ResultMsg(t, ok).type # "add"
      BY DEF ResultMsg
    <3> QED
      BY <3>1, <3>2
  <2>3. \A c \in Caller : \/ call'[c] = call[c] \/ call'[c] = "ready"
    BY <1>11, WorkerCalls
  <2> QED
    BY <2>1, <2>2, <2>3, AddsFrame
<1>12. ASSUME NEW t \in Task, HandlerEnd(t) PROVE AddsInv'
  <2>1. subToParent' = subToParent
    BY <1>12, IdleSteps
  <2>2. inbox' = inbox \/ \E m : Sent(m) /\ m.type # "add"
    <3>1. inbox' = inbox \/ Sent(DoneMsg(t))
      BY <1>12, InboxSteps
    <3>2. DoneMsg(t).type # "add"
      BY DEF DoneMsg
    <3> QED
      BY <3>1, <3>2
  <2>3. \A c \in Caller : \/ call'[c] = call[c] \/ call'[c] = "over"
    BY <1>12, WorkerCalls
  <2> QED
    BY <2>1, <2>2, <2>3, AddsFrame
<1> QED
  BY StepCases, AddsAdd, AddsCall, <1>2, <1>3, <1>4, <1>5, <1>7, <1>8, <1>9, <1>10, <1>11, <1>12

-----------------------------------------------------------------------------
(* Results and done messages come after the batches they follow: OrderInv. *)

Asks(c) == call[c] \in {"add", "wait"}

\* A message that may be sent without disturbing the order of the inbox.
InOrder(m) ==
  /\ Sent(m)
  /\ \A c \in Caller : m = AddMsg(c) => Asks(c)
  /\ m.type = "result" =>
       /\ m.task \in Task /\ m.task \in mainSubmitted
       /\ m.ok => ~Asks(<<"job", m.task>>)
  /\ m.type = "handlerDone" =>
       /\ m.task \in Template \cap Succeeded
       /\ ~Asks(<<"handler", m.task>>)

\* A caller that asks for nothing stays settled.
LEMMA SettledKeeps ==
  ASSUME SchedTypeOK, NEW c \in Caller, ~Asks(c), ~Asks(c)',
         inbox' = inbox \/ Received \/ \E m : InOrder(m)
  PROVE  /\ Settled(c) => Settled(c)'
         /\ inbox' = inbox => \A n \in Int : SettledBefore(c, n) => SettledBefore(c, n)'
         /\ Received => \A n \in Int : SettledBefore(c, n) => SettledBefore(c, n - 1)'
         /\ \A m : InOrder(m) => \A n \in Int : SettledBefore(c, n) => SettledBefore(c, n)'
<1>1. CASE inbox' = inbox /\ ~Received /\ ~\E m : InOrder(m)
  BY <1>1 DEF Settled, SettledBefore, InInbox, Asks
<1>11. inbox' = inbox => \A n \in Int : SettledBefore(c, n) => SettledBefore(c, n)'
  BY DEF Settled, SettledBefore, InInbox, Asks
<1>2. ASSUME Received
      PROVE  /\ Settled(c) => Settled(c)'
             /\ \A n \in Int : SettledBefore(c, n) => SettledBefore(c, n - 1)'
  <2>1. \A i \in 1 .. Len(inbox') : i + 1 \in 1 .. Len(inbox) /\ inbox'[i] = inbox[i + 1]
    BY <1>2, ReceivedFacts
  <2>2. Settled(c) => Settled(c)'
    BY <2>1 DEF Settled, InInbox, Asks
  <2>3. ASSUME NEW n \in Int, SettledBefore(c, n), NEW i \in 1 .. Len(inbox'),
               inbox'[i] = AddMsg(c)
        PROVE  i < n - 1
    <3>1. i + 1 < n
      BY <2>1, <2>3 DEF SettledBefore
    <3> QED
      BY <3>1
  <2> QED
    BY <2>2, <2>3 DEF SettledBefore, Asks
<1>3. ASSUME NEW m, InOrder(m)
      PROVE  /\ Settled(c) => Settled(c)'
             /\ \A n \in Int : SettledBefore(c, n) => SettledBefore(c, n)'
  <2>1. m # AddMsg(c) /\ Sent(m)
    BY <1>3 DEF InOrder
  <2>2. \A i \in 1 .. Len(inbox') : inbox'[i] = AddMsg(c) =>
          i \in 1 .. Len(inbox) /\ inbox[i] = AddMsg(c)
    BY <2>1, SentFacts
  <2> QED
    BY <2>2 DEF Settled, SettledBefore, InInbox, Asks
<1> QED
  BY <1>1, <1>11, <1>2, <1>3

\* The order of the messages survives sends and receives.
LEMMA OrderShift ==
  ASSUME SchedTypeOK, FreshInv, OrderInv,
         inbox' = inbox \/ Received \/ \E m : InOrder(m),
         mainSubmitted \subseteq mainSubmitted', Succeeded \subseteq Succeeded',
         \A t \in mainSubmitted : ~Asks(<<"job", t>>) => ~Asks(<<"job", t>>)',
         \A t \in Succeeded : ~Asks(<<"handler", t>>) => ~Asks(<<"handler", t>>)'
  PROVE  /\ \A t \in Task : t \in mainSubmitted /\ Settled(<<"job", t>>)
                              => Settled(<<"job", t>>)'
         /\ \A t \in Succeeded : Settled(<<"job", t>>)'
         /\ \A t \in Succeeded : Settled(<<"handler", t>>) => Settled(<<"handler", t>>)'
         /\ ResultsOrdered' /\ DonesOrdered'
<1>1. \A t \in Task : t \in mainSubmitted /\ Settled(<<"job", t>>) => Settled(<<"job", t>>)'
  BY SettledKeeps, TaskSets DEF Settled, Asks
<1>2. \A t \in Succeeded : t \in Task /\ t \in mainSubmitted
  BY SucceededSubmitted DEF Succeeded
<1>3. \A t \in Succeeded : Settled(<<"job", t>>)'
  BY <1>1, <1>2 DEF OrderInv, JobsSettled
<1>4. \A t \in Succeeded : Settled(<<"handler", t>>) => Settled(<<"handler", t>>)'
  BY <1>2, SettledKeeps, TaskSets DEF Settled, Asks
<1>5. /\ \A i \in 1 .. Len(inbox) : inbox[i] \in Msg
      /\ \A i \in 1 .. Len(inbox) : inbox[i].type = "result" => inbox[i].task \in Task
  BY DEF SchedTypeOK, Msg
<1>6. ASSUME NEW t \in Task, t \in mainSubmitted, NEW n \in Int, SettledBefore(<<"job", t>>, n)
      PROVE  /\ inbox' = inbox => SettledBefore(<<"job", t>>, n)'
             /\ Received => SettledBefore(<<"job", t>>, n - 1)'
             /\ \A m : InOrder(m) => SettledBefore(<<"job", t>>, n)'
  <2>1. <<"job", t>> \in Caller /\ ~Asks(<<"job", t>>) /\ ~Asks(<<"job", t>>)'
    BY <1>6, TaskSets DEF SettledBefore, Asks
  <2> QED
    BY <1>6, <2>1, SettledKeeps
<1>7. ASSUME NEW t \in Succeeded, NEW n \in Int, SettledBefore(<<"handler", t>>, n)
      PROVE  /\ inbox' = inbox => SettledBefore(<<"handler", t>>, n)'
             /\ Received => SettledBefore(<<"handler", t>>, n - 1)'
             /\ \A m : InOrder(m) => SettledBefore(<<"handler", t>>, n)'
  <2>1. <<"handler", t>> \in Caller /\ ~Asks(<<"handler", t>>) /\ ~Asks(<<"handler", t>>)'
    BY <1>2, <1>7, TaskSets DEF SettledBefore, Asks
  <2> QED
    BY <1>7, <2>1, SettledKeeps
<1>8. ASSUME inbox' = inbox PROVE ResultsOrdered' /\ DonesOrdered'
  <2>1. ASSUME NEW i \in 1 .. Len(inbox), inbox[i].type = "result"
        PROVE  /\ inbox[i].task \in mainSubmitted'
               /\ inbox[i].ok => SettledBefore(<<"job", inbox[i].task>>, i)'
    BY <1>5, <1>6, <1>8, <2>1 DEF OrderInv, ResultsOrdered
  <2>2. ASSUME NEW i \in 1 .. Len(inbox), inbox[i].type = "handlerDone"
        PROVE  /\ inbox[i].task \in Template \cap Succeeded'
               /\ SettledBefore(<<"handler", inbox[i].task>>, i)'
    BY <1>7, <1>8, <2>2 DEF OrderInv, DonesOrdered
  <2> QED
    BY <1>8, <2>1, <2>2 DEF ResultsOrdered, DonesOrdered
<1>9. ASSUME Received PROVE ResultsOrdered' /\ DonesOrdered'
  <2>0. \A i \in 1 .. Len(inbox') : i + 1 \in 1 .. Len(inbox) /\ inbox'[i] = inbox[i + 1]
    BY <1>9, ReceivedFacts
  <2>1. ASSUME NEW i \in 1 .. Len(inbox'), NEW x, x = inbox'[i], x.type = "result"
        PROVE  /\ x.task \in mainSubmitted'
               /\ x.ok => SettledBefore(<<"job", x.task>>, i)'
    <3>1. PICK k \in 1 .. Len(inbox) : k = i + 1 /\ inbox'[i] = inbox[k]
      BY <2>0
    <3>11. x = inbox[k]
      BY <2>1, <3>1
    <3>2. k - 1 = i /\ k \in Int
      BY <3>1
    <3>3. /\ inbox[k].task \in mainSubmitted
          /\ inbox[k].ok => SettledBefore(<<"job", inbox[k].task>>, k)
      BY <2>1, <3>1 DEF OrderInv, ResultsOrdered
    <3>4. inbox[k].task \in Task
      BY <1>5, <2>1, <3>1
    <3>5. PICK t \in Task : t = inbox[k].task
      BY <3>4
    <3>6. inbox[k].ok => SettledBefore(<<"job", t>>, k - 1)'
      BY <1>6, <1>9, <3>2, <3>3, <3>5
    <3> QED
      BY <3>11, <3>2, <3>3, <3>5, <3>6
  <2>2. ASSUME NEW i \in 1 .. Len(inbox'), NEW x, x = inbox'[i], x.type = "handlerDone"
        PROVE  /\ x.task \in Template \cap Succeeded'
               /\ SettledBefore(<<"handler", x.task>>, i)'
    <3>1. PICK k \in 1 .. Len(inbox) : k = i + 1 /\ inbox'[i] = inbox[k]
      BY <2>0
    <3>11. x = inbox[k]
      BY <2>2, <3>1
    <3>2. k - 1 = i /\ k \in Int
      BY <3>1
    <3>3. /\ inbox[k].task \in Template \cap Succeeded
          /\ SettledBefore(<<"handler", inbox[k].task>>, k)
      BY <2>2, <3>1 DEF OrderInv, DonesOrdered
    <3>5. PICK t \in Succeeded : t = inbox[k].task
      BY <3>3
    <3>6. SettledBefore(<<"handler", t>>, k - 1)'
      BY <1>7, <1>9, <3>2, <3>3, <3>5
    <3> QED
      BY <3>11, <3>2, <3>3, <3>5, <3>6
  <2> QED
    BY <2>1, <2>2 DEF ResultsOrdered, DonesOrdered, SettledBefore
<1>10. ASSUME NEW m, InOrder(m) PROVE ResultsOrdered' /\ DonesOrdered'
  <2>0. /\ Len(inbox) \in Nat
        /\ \A i \in 1 .. Len(inbox') : \/ i \in 1 .. Len(inbox) /\ inbox'[i] = inbox[i]
                                       \/ i = Len(inbox) + 1 /\ inbox'[i] = m
    BY <1>10, SentFacts DEF InOrder
  <2>1. ASSUME NEW i \in 1 .. Len(inbox'), NEW x, x = inbox'[i], x.type = "result"
        PROVE  /\ x.task \in mainSubmitted'
               /\ x.ok => SettledBefore(<<"job", x.task>>, i)'
    <3>1. CASE i \in 1 .. Len(inbox) /\ inbox'[i] = inbox[i]
      <4>1. /\ inbox[i].task \in mainSubmitted
            /\ inbox[i].ok => SettledBefore(<<"job", inbox[i].task>>, i)
        BY <2>1, <3>1 DEF OrderInv, ResultsOrdered
      <4>2. PICK t \in Task : t = inbox[i].task
        BY <1>5, <2>1, <3>1
      <4>3. inbox[i].ok => SettledBefore(<<"job", t>>, i)'
        BY <1>6, <1>10, <3>1, <4>1, <4>2
      <4> QED
        BY <2>1, <3>1, <4>1, <4>2, <4>3
    <3>2. CASE i = Len(inbox) + 1 /\ inbox'[i] = m
      <4>1. /\ m.task \in Task /\ m.task \in mainSubmitted
            /\ m.ok => ~Asks(<<"job", m.task>>)
        BY <1>10, <2>1, <3>2 DEF InOrder
      <4>2. PICK t \in Task : t = m.task
        BY <4>1
      <4>3. m.ok => ~Asks(<<"job", t>>)'
        BY <4>1, <4>2
      <4>4. \A k \in 1 .. Len(inbox') : inbox'[k] = AddMsg(<<"job", t>>) => k < i
        <5>1. m # AddMsg(<<"job", t>>)
          BY <2>1, <3>2 DEF AddMsg
        <5> QED
          BY <2>0, <3>2, <5>1
      <4>5. m.ok => SettledBefore(<<"job", t>>, i)'
        BY <4>3, <4>4 DEF SettledBefore, Asks
      <4> QED
        BY <2>1, <3>2, <4>1, <4>2, <4>5
    <3> QED
      BY <2>0, <3>1, <3>2
  <2>2. ASSUME NEW i \in 1 .. Len(inbox'), NEW x, x = inbox'[i], x.type = "handlerDone"
        PROVE  /\ x.task \in Template \cap Succeeded'
               /\ SettledBefore(<<"handler", x.task>>, i)'
    <3>1. CASE i \in 1 .. Len(inbox) /\ inbox'[i] = inbox[i]
      <4>1. /\ inbox[i].task \in Template \cap Succeeded
            /\ SettledBefore(<<"handler", inbox[i].task>>, i)
        BY <2>2, <3>1 DEF OrderInv, DonesOrdered
      <4>2. PICK t \in Succeeded : t = inbox[i].task
        BY <4>1
      <4>3. SettledBefore(<<"handler", t>>, i)'
        BY <1>7, <1>10, <3>1, <4>1, <4>2
      <4> QED
        BY <2>2, <3>1, <4>1, <4>2, <4>3
    <3>2. CASE i = Len(inbox) + 1 /\ inbox'[i] = m
      <4>1. m.task \in Template \cap Succeeded /\ ~Asks(<<"handler", m.task>>)
        BY <1>10, <2>2, <3>2 DEF InOrder
      <4>2. PICK t \in Succeeded : t = m.task
        BY <4>1
      <4>3. ~Asks(<<"handler", t>>)'
        BY <4>1, <4>2
      <4>4. \A k \in 1 .. Len(inbox') : inbox'[k] = AddMsg(<<"handler", t>>) => k < i
        <5>1. m # AddMsg(<<"handler", t>>)
          BY <2>2, <3>2 DEF AddMsg
        <5> QED
          BY <2>0, <3>2, <5>1
      <4>5. SettledBefore(<<"handler", t>>, i)'
        BY <4>3, <4>4 DEF SettledBefore, Asks
      <4> QED
        BY <2>2, <3>2, <4>1, <4>2, <4>5
    <3> QED
      BY <2>0, <3>1, <3>2
  <2> QED
    BY <2>1, <2>2 DEF ResultsOrdered, DonesOrdered, SettledBefore
<1> QED
  BY <1>1, <1>3, <1>4, <1>8, <1>9, <1>10

\* OrderInv, steps in which no task succeeds.
LEMMA OrderFrame ==
  ASSUME SchedTypeOK, FreshInv, OrderInv,
         inbox' = inbox \/ Received \/ \E m : InOrder(m),
         mainSubmitted \subseteq mainSubmitted', Succeeded' = Succeeded,
         \A t \in mainSubmitted : ~Asks(<<"job", t>>) => ~Asks(<<"job", t>>)',
         \A t \in Succeeded : ~Asks(<<"handler", t>>) => ~Asks(<<"handler", t>>)',
         \A t \in Template \cap Succeeded :
           t \in mainDone' \/ pools'[t].jobDone =>
             t \in mainDone \/ pools[t].jobDone \/ Settled(<<"handler", t>>),
         selfSend' = selfSend \/ selfSend' = None
  PROVE  OrderInv'
<1>1. /\ \A t \in Succeeded : Settled(<<"job", t>>)'
      /\ \A t \in Succeeded : Settled(<<"handler", t>>) => Settled(<<"handler", t>>)'
      /\ ResultsOrdered' /\ DonesOrdered'
  BY OrderShift
<1>2. JobsSettled'
  BY <1>1 DEF JobsSettled
<1>3. HandlersSettled'
  BY <1>1 DEF HandlersSettled, OrderInv
<1>4. selfSend' # None => selfSend' \in Succeeded' \ HasHandler
  BY DEF OrderInv
<1> QED
  BY <1>1, <1>2, <1>3, <1>4 DEF OrderInv

\* A failure marks no succeeded task as done.
LEMMA FailureMarks ==
  ASSUME CoreInv, NEW t \in Task, NEW ps, onFailure(t, ps), taskStatus[t] = "PENDING"
  PROVE  /\ Succeeded' = Succeeded
         /\ \A x \in Succeeded : x \in mainDone' => x \in mainDone
<1> USE DEF CoreInv
<1>1. taskStatus' = [taskStatus EXCEPT ![t] = "FAILED"]
  BY DEF onFailure
<1>2. Succeeded' = Succeeded /\ t \notin Succeeded
  BY <1>1 DEF Succeeded, SchedTypeOK
<1>3. mainDone' = mainDone \/ mainDone' = mainDone \cup {t} \cup Children(t)
  BY DEF onFailure
<1>4. ASSUME NEW x \in Succeeded, x \in Children(t) PROVE FALSE
  <2>1. x \in Main /\ t \in Deps[x] /\ x \in Task
    BY <1>4, TaskSets DEF Children
  <2>2. x \in mainSubmitted
    BY <1>4, <2>1, SucceededSubmitted DEF Succeeded
  <2>3. t \in Done
    BY <2>1, <2>2 DEF DepsInv
  <2> QED
    BY <1>2, <2>3 DEF Done
<1> QED
  BY <1>2, <1>3, <1>4

\* Every result frees the slot of a pending task; nothing follows its job's adds.
LEMMA SuccessFacts ==
  ASSUME CoreInv, OrderInv, NEW t \in Task, RecvSuccess(t)
  PROVE  /\ Received /\ startHandler(t) /\ t \in running /\ t \in mainSubmitted
         /\ taskStatus[t] = "PENDING"
         /\ taskStatus' = [taskStatus EXCEPT ![t] = "SUCCESS"]
         /\ Succeeded' = Succeeded \cup {t} /\ t \notin Succeeded
         /\ mainSubmitted' = mainSubmitted
         /\ Settled(<<"job", t>>)
         /\ call[<<"handler", t>>] = "idle"
         /\ \A c \in Caller : c # <<"handler", t>> => call'[c] = call[c]
<1> USE DEF CoreInv
<1>1. /\ Recv(ResultMsg(t, TRUE)) /\ startHandler(t) /\ t \in running
      /\ taskStatus' = [taskStatus EXCEPT ![t] = "SUCCESS"]
      /\ mainSubmitted' = mainSubmitted
  BY DEF RecvSuccess, FreeSlot
<1>2. Received /\ inbox[1] = ResultMsg(t, TRUE) /\ 1 \in 1 .. Len(inbox)
  BY <1>1, InboxSteps, ReceivedFacts
<1>3. t \in mainSubmitted /\ taskStatus[t] = "PENDING"
  BY <1>1, RunFacts
<1>4. call[<<"handler", t>>] = "idle"
  BY <1>3 DEF FreshInv
<1>5. SettledBefore(<<"job", t>>, 1)
  <2>1. ResultMsg(t, TRUE).type = "result" /\ ResultMsg(t, TRUE).ok /\ ResultMsg(t, TRUE).task = t
    BY DEF ResultMsg
  <2> QED
    BY <1>2, <2>1 DEF OrderInv, ResultsOrdered
<1>6. Settled(<<"job", t>>)
  BY <1>5 DEF Settled, SettledBefore, InInbox
<1>7. Succeeded' = Succeeded \cup {t} /\ t \notin Succeeded
  BY <1>1, <1>3 DEF Succeeded, SchedTypeOK
<1> QED
  BY <1>1, <1>2, <1>3, <1>4, <1>6, <1>7, StartCalls

\* OrderInv, what every success has in common.
LEMMA OrderSuccess ==
  ASSUME CoreInv, OrderInv, NEW t \in Task, RecvSuccess(t),
         \A x \in Template \cap Succeeded :
           x \in mainDone' \/ pools'[x].jobDone => x \in mainDone \/ pools[x].jobDone,
         t \in Template => t \notin mainDone' /\ ~pools'[t].jobDone,
         \/ selfSend' = selfSend \/ selfSend' = None
         \/ selfSend' = t /\ t \notin HasHandler
  PROVE  OrderInv'
<1> USE DEF CoreInv
<1>1. /\ Received /\ t \in mainSubmitted
      /\ Succeeded' = Succeeded \cup {t} /\ t \notin Succeeded
      /\ mainSubmitted' = mainSubmitted
      /\ Settled(<<"job", t>>)
      /\ \A c \in Caller : c # <<"handler", t>> => call'[c] = call[c]
  BY SuccessFacts
<1>2. /\ \A x \in mainSubmitted : ~Asks(<<"job", x>>) => ~Asks(<<"job", x>>)'
      /\ \A x \in Succeeded : ~Asks(<<"handler", x>>) => ~Asks(<<"handler", x>>)'
  <2>1. \A x \in mainSubmitted : <<"job", x>> \in Caller /\ <<"job", x>> # <<"handler", t>>
    BY TaskSets DEF SchedTypeOK
  <2>2. \A x \in Succeeded : <<"handler", x>> \in Caller /\ <<"handler", x>> # <<"handler", t>>
    BY <1>1, TaskSets DEF Succeeded
  <2> QED
    BY <1>1, <2>1, <2>2 DEF Asks
<1>3. /\ \A x \in Task : x \in mainSubmitted /\ Settled(<<"job", x>>)
                              => Settled(<<"job", x>>)'
      /\ \A x \in Succeeded : Settled(<<"job", x>>)'
      /\ \A x \in Succeeded : Settled(<<"handler", x>>) => Settled(<<"handler", x>>)'
      /\ ResultsOrdered' /\ DonesOrdered'
  BY <1>1, <1>2, OrderShift
<1>4. JobsSettled'
  BY <1>1, <1>3 DEF JobsSettled
<1>5. HandlersSettled'
  <2>1. ASSUME NEW x \in Template \cap Succeeded', x \in mainDone' \/ pools'[x].jobDone
        PROVE  Settled(<<"handler", x>>)'
    <3>1. x \in Succeeded
      BY <1>1, <2>1
    <3>2. Settled(<<"handler", x>>)
      BY <2>1, <3>1 DEF HandlersSettled, OrderInv
    <3> QED
      BY <1>3, <3>1, <3>2
  <2> QED
    BY <2>1 DEF HandlersSettled
<1>6. selfSend' # None => selfSend' \in Succeeded' \ HasHandler
  BY <1>1 DEF OrderInv
<1> QED
  BY <1>3, <1>4, <1>5, <1>6 DEF OrderInv

\* One pool changes, the others do not.
LEMMA PoolsOf ==
  ASSUME SchedTypeOK, NEW p \in Task, NEW q, pools' = [pools EXCEPT ![p] = q]
  PROVE  \A x \in Task : pools'[x] = IF x = p THEN q ELSE pools[x]
BY DEF SchedTypeOK

\* tryCompleteTemplateTask marks its task done only when its pool is over.
LEMMA TryDone ==
  ASSUME NEW t, NEW p, NEW ctx, tryComplete(t, p, ctx)
  PROVE  \A x \in mainDone' : x \in mainDone \/ (x = t /\ p.allDone)
BY DEF tryComplete, completeMain, Release, dagVars

\* OrderInv, a subtask succeeds.
LEMMA OrderSubSuccess ==
  ASSUME CoreInv, OrderInv, NEW t \in Task, RecvSubSuccess(t)
  PROVE  OrderInv'
<1> USE DEF CoreInv
<1>1. PICK p \in Task : p = subToParent[t]
  BY SubSuccessFacts
<1>2. PICK q : q = taskCompleted(pools[p])
  OBVIOUS
<1>3. /\ t \in Sub /\ pools' = [pools EXCEPT ![p] = q] /\ q.jobDone = pools[p].jobDone
      /\ q.allDone <=> AllOver(q)
      /\ tryComplete(p, q, [contextData EXCEPT ![t] = {}])
  BY <1>1, <1>2, SubSuccessFacts
<1>4. \A x \in Template \cap Succeeded :
        x \in mainDone' \/ pools'[x].jobDone => x \in mainDone \/ pools[x].jobDone
  <2>1. \A x \in mainDone' : x \in mainDone \/ (x = p /\ q.allDone)
    BY <1>3, TryDone
  <2>2. q.allDone => q.jobDone
    BY <1>3 DEF AllOver
  <2>3. \A x \in Task : pools'[x] = IF x = p THEN q ELSE pools[x]
    BY <1>3 DEF SchedTypeOK
  <2> QED
    BY <1>3, <2>1, <2>2, <2>3 DEF Succeeded
<1>5. RecvSuccess(t) /\ selfSend' = selfSend /\ t \notin Template
  BY <1>3, TaskSets DEF RecvSubSuccess, onSubTaskSuccess
<1> QED
  BY <1>4, <1>5, OrderSuccess

\* OrderInv, a template succeeds.
LEMMA OrderTemplateSuccess ==
  ASSUME CoreInv, OrderInv, NEW t \in Task, RecvTemplateSuccess(t)
  PROVE  OrderInv'
<1> USE DEF CoreInv
<1>1. /\ RecvSuccess(t) /\ UNCHANGED <<pools, mainDone>>
      /\ selfSend' = IF t \in HasHandler THEN None ELSE t
  BY DEF RecvTemplateSuccess, onTemplateSuccess, dagVars
<1>2. t \notin mainDone
  BY DepsTemplateSuccess
<1>3. t \notin Succeeded
  BY <1>1, SuccessFacts
<1>4. ~pools[t].jobDone
  BY <1>3 DEF PoolInv, PoolOK
<1> QED
  BY <1>1, <1>2, <1>4, OrderSuccess

\* OrderInv, another main task succeeds.
LEMMA OrderMainSuccess ==
  ASSUME CoreInv, OrderInv, NEW t \in Task, RecvMainSuccess(t)
  PROVE  OrderInv'
<1> USE DEF CoreInv
<1>1. RecvSuccess(t) /\ UNCHANGED <<pools, selfSend>> /\ t \notin Template
  BY DEF RecvMainSuccess, onMainSuccess
<1>2. mainDone' = mainDone \cup {t}
  BY DepsMainSuccess
<1> QED
  BY <1>1, <1>2, OrderSuccess

\* OrderInv, a task fails.
LEMMA OrderFailure ==
  ASSUME CoreInv, OrderInv, NEW t \in Task, RecvFailure(t)
  PROVE  OrderInv'
<1> USE DEF CoreInv
<1>1. /\ Received /\ UNCHANGED <<mainSubmitted, selfSend, call>>
      /\ onFailure(t, pools) /\ t \in running
  BY InboxSteps DEF RecvFailure, FreeSlot
<1>2. taskStatus[t] = "PENDING"
  BY <1>1, RunFacts
<1>3. /\ Succeeded' = Succeeded
      /\ \A x \in Succeeded : x \in mainDone' => x \in mainDone
  BY <1>1, <1>2, FailureMarks
<1>4. \A x \in Task : pools'[x].jobDone => pools[x].jobDone
  <2>1. CASE t \in Sub
    <3>1. PICK p \in Task : p = subToParent[t]
      BY <1>1, <2>1, RunFacts
    <3>2. PICK q \in Pool(Sub) : pools' = [pools EXCEPT ![p] = q] /\ q.jobDone = pools[p].jobDone
      BY <2>1, <3>1, FailurePool
    <3> QED
      BY <3>2, PoolsOf
  <2>2. CASE t \notin Sub
    BY <1>1, <2>2 DEF onFailure
  <2> QED
    BY <2>1, <2>2
<1> QED
  BY <1>1, <1>3, <1>4, OrderFrame DEF Asks, Succeeded

\* OrderInv, a template's handler is done.
LEMMA OrderDone ==
  ASSUME CoreInv, OrderInv, NEW t \in Task, RecvDone(t)
  PROVE  OrderInv'
<1> USE DEF CoreInv
<1>1. /\ Received /\ UNCHANGED <<mainSubmitted, selfSend, call, taskStatus>>
      /\ Succeeded' = Succeeded
  BY InboxSteps DEF RecvDone, handleTemplateDone, Succeeded
<1>2. Settled(<<"handler", t>>)
  BY DoneMsgFacts DEF Settled, SettledBefore, InInbox
<1>3. ASSUME NEW x \in Task, x # t
      PROVE  (x \in mainDone' => x \in mainDone) /\ pools'[x] = pools[x]
  <2>1. CASE t \in Parents
    <3>1. PICK q : q = markJobDone(pools[t])
      OBVIOUS
    <3>2. pools' = [pools EXCEPT ![t] = q] /\ tryComplete(t, q, contextData)
      BY <2>1, <3>1 DEF RecvDone, handleTemplateDone
    <3> QED
      BY <1>3, <3>2, PoolsOf, TryDone
  <2>2. CASE t \notin Parents
    BY <1>3, <2>2 DEF RecvDone, handleTemplateDone, completeMain, Release, dagVars
  <2> QED
    BY <2>1, <2>2
<1> QED
  BY <1>1, <1>2, <1>3, OrderFrame DEF Asks, Succeeded

\* OrderInv, a batch is accepted.
LEMMA OrderAdd ==
  ASSUME CoreInv, AddsInv, OrderInv, NEW c \in Caller, RecvAdd(c)
  PROVE  OrderInv'
<1> USE DEF CoreInv
<1>1. /\ Received /\ UNCHANGED <<mainSubmitted, selfSend, mainDone, taskStatus>>
      /\ call' = [call EXCEPT ![c] = IF @ = "wait" THEN "ready" ELSE @]
      /\ pools' = [pools EXCEPT ![c[2]] = addTasks(@, Batch(c))]
  BY InboxSteps DEF RecvAdd, handleAdd, dagVars
<1>2. \A d \in Caller : ~Asks(d) => ~Asks(d)'
  BY <1>1 DEF Asks, SchedTypeOK
<1>3. PICK p \in Task : p = c[2]
  BY AddFacts
<1>4. pools[p] \in Pool(Sub) /\ Batch(c) # <<>> /\ Batch(c) \in Seq(Sub)
  BY AddFacts DEF SchedTypeOK
<1>5. PICK ts \in Seq(Sub) : ts = Batch(c)
  BY <1>4
<1>6. PICK o \in Pool(Sub) : o = pools[p]
  BY <1>4
<1>7. addTasks(o, ts).jobDone = o.jobDone
  BY <1>4, <1>5, AddTasksFields
<1>8. \A x \in Task : pools'[x].jobDone => pools[x].jobDone
  BY <1>1, <1>3, <1>5, <1>6, <1>7 DEF SchedTypeOK
<1>9. Succeeded' = Succeeded
  BY <1>1 DEF Succeeded
<1>10. \A x \in mainSubmitted \cup Succeeded : <<"job", x>> \in Caller /\ <<"handler", x>> \in Caller
  BY TaskSets DEF SchedTypeOK, Succeeded
<1> QED
  BY <1>1, <1>2, <1>8, <1>9, <1>10, OrderFrame DEF Succeeded

\* Picking a task makes nothing done that had succeeded.
LEMMA SubmitMarks ==
  ASSUME CoreInv, NEW t \in Task, NEW ps, Submit(t, ps), taskStatus[t] = "PENDING"
  PROVE  /\ Succeeded' = Succeeded
         /\ \A x \in Succeeded : x \in mainDone' => x \in mainDone
<1>1. CASE LacksParams(t, ps)
  BY <1>1, FailureMarks DEF LacksParams
<1>2. CASE Accepted(t, ps) \/ Refused(ps)
  BY <1>2 DEF Accepted, Refused, Succeeded
<1> QED
  BY <1>1, <1>2 DEF Submit

\* OrderInv, what becomes of a picked task.
LEMMA OrderSubmit ==
  ASSUME CoreInv, OrderInv, NEW t \in Task, NEW ps, Submit(t, ps),
         taskStatus[t] = "PENDING", t \notin mainSubmitted,
         \A x \in Task : pools'[x].jobDone => pools[x].jobDone
  PROVE  OrderInv'
<1> USE DEF CoreInv
<1>1. /\ inbox' = inbox /\ selfSend' = selfSend /\ mainSubmitted' = mainSubmitted \cup {t}
  BY DEF Submit
<1>2. /\ Succeeded' = Succeeded
      /\ \A x \in Succeeded : x \in mainDone' => x \in mainDone
  BY SubmitMarks
<1>3. \A c \in Caller : c # <<"job", t>> => call'[c] = call[c]
  BY SubmitCalls
<1>4. /\ \A x \in mainSubmitted : <<"job", x>> \in Caller /\ <<"job", x>> # <<"job", t>>
      /\ \A x \in Succeeded : <<"handler", x>> \in Caller /\ <<"handler", x>> # <<"job", t>>
  BY TaskSets DEF SchedTypeOK, Succeeded
<1>5. /\ \A x \in mainSubmitted : ~Asks(<<"job", x>>) => ~Asks(<<"job", x>>)'
      /\ \A x \in Succeeded : ~Asks(<<"handler", x>>) => ~Asks(<<"handler", x>>)'
  BY <1>3, <1>4 DEF Asks
<1> QED
  BY <1>1, <1>2, <1>5, OrderFrame DEF Succeeded

\* OrderInv, a main task is picked.
LEMMA OrderSubmitMain ==
  ASSUME CoreInv, OrderInv, NEW t \in Main, SubmitMain(t)
  PROVE  OrderInv'
<1> USE DEF CoreInv
<1>1. /\ t \in Task /\ t \notin mainSubmitted /\ taskStatus[t] = "PENDING"
      /\ Submit(t, pools)
  BY SubmitMainFacts DEF SubmitMain
<1>2. pools' = pools
  BY <1>1, PoolMainFailure DEF Submit, LacksParams, Accepted, Refused
<1> QED
  BY <1>1, <1>2, OrderSubmit

\* OrderInv, a subtask is picked.
LEMMA OrderSubmitSub ==
  ASSUME CoreInv, OrderInv, NEW t \in Sub, NEW p \in Task, SubmitSub(t, p)
  PROVE  OrderInv'
<1> USE DEF CoreInv
<1>1. t \in Task /\ t \notin mainSubmitted /\ taskStatus[t] = "PENDING"
  BY SubmitSubFacts
<1>2. Submit(t, PickedPool(p))
  BY DEF SubmitSub
<1>3. PICK q \in Pool(Sub) : pools' = [pools EXCEPT ![p] = q] /\ q.jobDone = pools[p].jobDone
  BY SubmitSubPool
<1>4. \A x \in Task : pools'[x].jobDone => pools[x].jobDone
  BY <1>3 DEF SchedTypeOK
<1> QED
  BY <1>1, <1>2, <1>4, OrderSubmit

\* The steps of the workers, and those that leave inbox and calls alone.
LEMMA OrderOther ==
  ASSUME SchedTypeOK, FreshInv, OrderInv, UNCHANGED <<IdleVars, pools>>,
         inbox' = inbox \/ Received \/ \E m : InOrder(m),
         \A c \in Caller : ~Asks(c) => ~Asks(c)',
         selfSend' = selfSend \/ selfSend' = None
  PROVE  OrderInv'
<1>1. UNCHANGED <<mainDone, mainSubmitted, taskStatus>> /\ Succeeded' = Succeeded
  BY DEF IdleVars, dagVars, Succeeded
<1>2. \A x \in mainSubmitted \cup Succeeded : <<"job", x>> \in Caller /\ <<"handler", x>> \in Caller
  BY TaskSets DEF SchedTypeOK, Succeeded
<1> QED
  BY <1>1, <1>2, OrderFrame

\* OrderInv, the done() the actor sends itself.
LEMMA OrderSelfSend ==
  ASSUME SchedTypeOK, FreshInv, OrderInv, ActorSelfSend
  PROVE  OrderInv'
<1>1. UNCHANGED <<IdleVars, pools, call>> /\ selfSend' = None /\ selfSend # None
  BY IdleSteps DEF ActorSelfSend
<1>2. selfSend \in Succeeded \ HasHandler /\ selfSend \in Task
  BY <1>1 DEF OrderInv, Succeeded
<1>3. ~Asks(<<"handler", selfSend>>)
  BY <1>2 DEF FreshInv, Asks
<1>4. ASSUME Sent(DoneMsg(selfSend)), selfSend \in Template PROVE InOrder(DoneMsg(selfSend))
  BY <1>2, <1>3, <1>4 DEF InOrder, DoneMsg, AddMsg
<1>5. inbox' = inbox \/ \E m : InOrder(m)
  BY <1>4, InboxSteps
<1> QED
  BY <1>1, <1>5, OrderOther DEF Asks

\* OrderInv, jobs, handlers and the executor.
LEMMA OrderWorkers ==
  ASSUME SchedTypeOK, FreshInv, OrderInv,
         \/ \E c \in Caller : CallAdd(c) \/ CallRefused(c)
         \/ \E t \in Task, ok \in BOOLEAN : TaskEnd(t, ok)
         \/ \E t \in Task : HandlerEnd(t)
  PROVE  OrderInv'
<1>0. UNCHANGED <<IdleVars, pools, selfSend>>
  BY IdleSteps
<1>1. ASSUME NEW c \in Caller, CallAdd(c) \/ CallRefused(c) PROVE OrderInv'
  <2>1. \A d \in Caller : ~Asks(d) => ~Asks(d)'
    BY <1>1, WorkerCalls DEF Asks
  <2>2. ASSUME CallAdd(c) PROVE InOrder(AddMsg(c))
    <3>1. call[c] = "add"
      BY <2>2 DEF CallAdd
    <3>2. Sent(AddMsg(c))
      BY <2>2, InboxSteps
    <3> QED
      BY <3>1, <3>2 DEF InOrder, AddMsg, Asks
  <2>3. inbox' = inbox \/ \E m : InOrder(m)
    BY <1>1, <2>2, InboxSteps
  <2> QED
    BY <1>0, <2>1, <2>3, OrderOther
<1>2. ASSUME NEW t \in Task, NEW ok \in BOOLEAN, TaskEnd(t, ok) PROVE OrderInv'
  <2>1. \A d \in Caller : ~Asks(d) => ~Asks(d)'
    BY <1>2, WorkerCalls DEF Asks
  <2>2. t \in mainSubmitted /\ (ok => call[<<"job", t>>] = "ready")
    BY <1>2 DEF TaskEnd, FreshInv
  <2>3. ASSUME Sent(ResultMsg(t, ok)) PROVE InOrder(ResultMsg(t, ok))
    BY <2>2, <2>3 DEF InOrder, ResultMsg, AddMsg, Asks
  <2>4. inbox' = inbox \/ Sent(ResultMsg(t, ok))
    BY <1>2, InboxSteps
  <2> QED
    BY <1>0, <2>1, <2>3, <2>4, OrderOther
<1>3. ASSUME NEW t \in Task, HandlerEnd(t) PROVE OrderInv'
  <2>1. \A d \in Caller : ~Asks(d) => ~Asks(d)'
    BY <1>3, WorkerCalls DEF Asks
  <2>2. t \in Template /\ call[<<"handler", t>>] = "ready" /\ t \in Succeeded
    BY <1>3 DEF HandlerEnd, FreshInv, Succeeded
  <2>3. ASSUME Sent(DoneMsg(t)) PROVE InOrder(DoneMsg(t))
    BY <2>2, <2>3 DEF InOrder, DoneMsg, AddMsg, Asks
  <2>4. inbox' = inbox \/ Sent(DoneMsg(t))
    BY <1>3, InboxSteps
  <2> QED
    BY <1>0, <2>1, <2>3, <2>4, OrderOther
<1> QED
  BY <1>1, <1>2, <1>3

\* OrderInv is kept.
LEMMA OrderStep ==
  ASSUME CoreInv, AddsInv, OrderInv, V3TypeOK, [V3Next]_v3Vars
  PROVE  OrderInv'
<1> USE DEF CoreInv
<1>1. ASSUME Quiet \/ ExecShutdown PROVE OrderInv'
  <2>1. UNCHANGED <<IdleVars, pools, inbox, call, selfSend>>
    BY <1>1, IdleSteps
  <2> QED
    BY <2>1, OrderOther DEF Asks
<1>2. ASSUME NEW t \in Task, NEW ok \in BOOLEAN, RecvIgnored(t, ok) PROVE OrderInv'
  <2>1. UNCHANGED <<IdleVars, pools, call, selfSend>> /\ Received
    BY <1>2, IdleSteps, InboxSteps DEF RecvIgnored
  <2> QED
    BY <2>1, OrderOther DEF Asks
<1>3. ASSUME NEW t \in Task, \/ RecvSubSuccess(t) \/ RecvTemplateSuccess(t)
                             \/ RecvMainSuccess(t) \/ RecvFailure(t) \/ RecvDone(t)
      PROVE  OrderInv'
  BY <1>3, OrderSubSuccess, OrderTemplateSuccess, OrderMainSuccess, OrderFailure, OrderDone
<1> QED
  BY StepCases, <1>1, <1>2, <1>3, OrderAdd, OrderSubmitMain, OrderSubmitSub, OrderSelfSend,
     OrderWorkers

-----------------------------------------------------------------------------
(* What a closed template aggregated stays right: BarrierInv.              *)

\* The templates whose aggregate is final.
Closed == Template \cap Done \cap Parents

\* A closed template's pool is over.
LEMMA ClosedFacts ==
  ASSUME CoreInv, BarrierInv, NEW d \in Closed
  PROVE  /\ d \in Task /\ d \in Main /\ d \in Succeeded /\ pools[d] \in Pool(Sub)
         /\ pools[d].allDone /\ AllOver(pools[d])
         /\ pools[d].runningCount = 0 /\ ~hasReady(pools[d]) /\ pools[d].jobDone
<1>1. d \in Task /\ d \in Main /\ d \in Succeeded
  BY TaskSets DEF Closed, Done
<1>2. pools[d].allDone /\ pools[d] \in Pool(Sub) /\ PoolOK(d)
  BY <1>1 DEF BarrierInv, Closed, CoreInv, PoolInv, SchedTypeOK
<1> QED
  BY <1>1, <1>2 DEF PoolOK, AllOver

\* BarrierInv, when nothing new closes.
LEMMA BarrierFrame ==
  ASSUME BarrierInv, \A d \in Closed' : /\ d \in Closed /\ pools'[d].allDone
                                        /\ contextData'[d] = contextData[d]
                                        /\ SubTasksOf(d)' \cap Succeeded' = SubTasksOf(d) \cap Succeeded
  PROVE  BarrierInv'
BY DEF BarrierInv, Closed

\* SubTasksOf depends on subToParent alone.
LEMMA SubTasksSame ==
  ASSUME subToParent' = subToParent
  PROVE  \A x : SubTasksOf(x)' = SubTasksOf(x)
BY DEF SubTasksOf

\* Parents depends on activePoolIDs alone.
LEMMA ParentsSame ==
  ASSUME activePoolIDs' = activePoolIDs
  PROVE  Parents' = Parents
BY DEF Parents

\* BarrierInv, a batch is accepted: its parent is not closed, because a
\* closed template's job and handler are settled.
LEMMA BarrierAdd ==
  ASSUME CoreInv, AddsInv, OrderInv, BarrierInv, NEW c \in Caller, RecvAdd(c)
  PROVE  BarrierInv'
<1> USE DEF CoreInv
<1>0. UNCHANGED <<taskStatus, mainDone, contextData>>
  BY DEF RecvAdd, handleAdd, dagVars
<1>a. /\ \A x \in Task : SubTasksOf(x)' = IF x = c[2] THEN SubTasksOf(x) \cup Elems(c)
                                                       ELSE SubTasksOf(x)
      /\ Parents' = Parents \cup {c[2]}
      /\ \A x \in Task : pools'[x] = IF x = c[2] THEN addTasks(pools[x], Batch(c))
                                                  ELSE pools[x]
  BY AddEffects
<1>1. /\ UNCHANGED <<taskStatus, mainDone, contextData>>
      /\ Parents' = Parents \cup {c[2]}
      /\ \A x \in Task : x # c[2] => pools'[x] = pools[x] /\ SubTasksOf(x)' = SubTasksOf(x)
  BY <1>0, <1>a
<1>2. InInbox(AddMsg(c)) /\ c[2] \in Task
  BY AddFacts
<1>3. c[2] \notin Template \cap Done
  <2>1. SUFFICES ASSUME c[2] \in Template \cap Done PROVE FALSE
    OBVIOUS
  <2>2. PICK t \in Task : t = c[2]
    BY <1>2
  <2>3. t \in Template /\ t \in Succeeded /\ t \in mainDone
    BY <2>1, <2>2 DEF Done
  <2>4. Settled(<<"job", t>>) /\ Settled(<<"handler", t>>)
    BY <2>3 DEF OrderInv, JobsSettled, HandlersSettled
  <2>5. c = <<"job", t>> \/ c = <<"handler", t>>
    BY <2>2 DEF Caller
  <2> QED
    BY <1>2, <2>4, <2>5 DEF Settled
<1>4. Done' = Done /\ Succeeded' = Succeeded
  BY <1>1 DEF Done, Succeeded
<1>5. ASSUME NEW d \in Closed'
      PROVE  /\ d \in Closed /\ pools'[d].allDone
             /\ contextData'[d] = contextData[d]
             /\ SubTasksOf(d)' \cap Succeeded' = SubTasksOf(d) \cap Succeeded
  <2>1. d \in Closed /\ d # c[2]
    BY <1>1, <1>3, <1>4 DEF Closed
  <2> QED
    BY <1>1, <1>4, <2>1, ClosedFacts
<1> QED
  BY <1>5, BarrierFrame

\* When a pool is over, its template closes with the aggregate of the moment.
LEMMA BarrierTry ==
  ASSUME CoreInv, BarrierInv, NEW p \in Task, NEW q, NEW ctx,
         tryComplete(p, q, ctx),
         pools' = [pools EXCEPT ![p] = q], SubTasks(q) = SubTasksOf(p),
         UNCHANGED <<activePoolIDs, subToParent>>,
         ctx \in [Task -> {None} \cup SUBSET Sub],
         \A d \in Main : ctx[d] = contextData[d],
         \A x \in Main : taskStatus'[x] = taskStatus[x],
         \A d \in Closed : d # p => SubTasksOf(d) \cap Succeeded' = SubTasksOf(d) \cap Succeeded,
         p \in Closed => q.allDone,
         q.allDone => Done' \subseteq Done \cup {p},
         ~q.allDone => Done' = Done
  PROVE  BarrierInv'
<1> USE DEF CoreInv
<1>1. /\ \A x : SubTasksOf(x)' = SubTasksOf(x)
      /\ Parents' = Parents
      /\ \A x \in Task : pools'[x] = IF x = p THEN q ELSE pools[x]
  BY SubTasksSame, ParentsSame DEF SchedTypeOK
<1>2. \A x \in Task : x # p => contextData'[x] = ctx[x]
  BY DEF tryComplete
<1>3. q.allDone => contextData'[p] = SubTasksOf(p)' \cap Succeeded'
  <2>1. q.allDone => contextData'[p] = {s \in SubTasks(q) : taskStatus'[s] = "SUCCESS"}
    BY DEF tryComplete
  <2> QED
    BY <1>1, <2>1, TaskSets DEF Succeeded, SubTasksOf
<1>4. ASSUME NEW d \in Closed', d # p
      PROVE  pools'[d].allDone /\ contextData'[d] = SubTasksOf(d)' \cap Succeeded'
  <2>1. d \in Closed /\ d \in Main /\ d \in Task
    BY <1>1, <1>4, TaskSets DEF Closed
  <2>2. pools[d].allDone /\ contextData[d] = SubTasksOf(d) \cap Succeeded
    BY <2>1 DEF BarrierInv, Closed
  <2> QED
    BY <1>1, <1>2, <1>4, <2>1, <2>2
<1>5. ASSUME p \in Closed' PROVE q.allDone
  BY <1>1, <1>5 DEF Closed
<1> QED
  BY <1>1, <1>3, <1>4, <1>5 DEF BarrierInv, Closed

\* BarrierInv, a subtask succeeds.
LEMMA BarrierSubSuccess ==
  ASSUME CoreInv, OrderInv, BarrierInv, NEW t \in Task, RecvSubSuccess(t)
  PROVE  BarrierInv'
<1> USE DEF CoreInv
<1>1. PICK p \in Task : p = subToParent[t]
  BY SubSuccessFacts
<1>2. PICK q : q = taskCompleted(pools[p])
  OBVIOUS
<1>3. /\ t \in Sub /\ pools' = [pools EXCEPT ![p] = q]
      /\ q.tasks = pools[p].tasks /\ pools[p].runningCount > 0
      /\ tryComplete(p, q, [contextData EXCEPT ![t] = {}])
  BY <1>1, <1>2, SubSuccessFacts
<1>4. /\ q.allDone => Done' = Done \cup {p}
      /\ ~q.allDone => Done' = Done
      /\ \A x \in Main : taskStatus'[x] = taskStatus[x]
  BY <1>1, <1>2, DepsSubSuccess
<1>5. SubTasks(q) = SubTasksOf(p)
  <2>1. PoolOK(p)
    BY DEF PoolInv
  <2>2. SubTasks(q) = SubTasks(pools[p])
    BY <1>3 DEF SubTasks
  <2> QED
    BY <2>1, <2>2 DEF PoolOK
<1>6. /\ UNCHANGED <<activePoolIDs, subToParent>> /\ RecvSuccess(t)
  BY DEF RecvSubSuccess, RecvSuccess, FreeSlot
<1>7. PICK ctx : ctx = [contextData EXCEPT ![t] = {}]
  OBVIOUS
<1>8. /\ ctx \in [Task -> {None} \cup SUBSET Sub]
      /\ \A d \in Main : ctx[d] = contextData[d]
  BY <1>3, <1>7, TaskSets DEF SchedTypeOK
<1>9. \A d \in Closed : d # p => SubTasksOf(d) \cap Succeeded' = SubTasksOf(d) \cap Succeeded
  <2>1. Succeeded' = Succeeded \cup {t}
    BY <1>6, SuccessFacts
  <2>2. \A d : d # p => t \notin SubTasksOf(d)
    BY <1>1 DEF SubTasksOf
  <2> QED
    BY <2>1, <2>2
<1>10. p \notin Closed
  BY <1>3, ClosedFacts
<1> QED
  <2>1. /\ tryComplete(p, q, ctx) /\ pools' = [pools EXCEPT ![p] = q]
        /\ UNCHANGED <<activePoolIDs, subToParent>>
    BY <1>3, <1>6, <1>7
  <2>2. /\ p \in Closed => q.allDone
        /\ q.allDone => Done' \subseteq Done \cup {p}
        /\ ~q.allDone => Done' = Done
    BY <1>4, <1>10
  <2> QED
    BY <1>4, <1>5, <1>8, <1>9, <2>1, <2>2, BarrierTry

\* BarrierInv, a template's handler is done.
LEMMA BarrierDone ==
  ASSUME CoreInv, OrderInv, BarrierInv, NEW t \in Task, RecvDone(t)
  PROVE  BarrierInv'
<1> USE DEF CoreInv
<1>1. UNCHANGED <<activePoolIDs, subToParent, taskStatus>> /\ Succeeded' = Succeeded
  BY DEF RecvDone, handleTemplateDone, Succeeded
<1>2. CASE t \notin Parents
  <2>1. UNCHANGED <<pools, contextData>>
    BY <1>2 DEF RecvDone, handleTemplateDone
  <2>2. Done' = Done \cup {t}
    BY <1>2, DepsDone
  <2>3. ASSUME NEW d \in Closed'
        PROVE  /\ d \in Closed /\ pools'[d].allDone
               /\ contextData'[d] = contextData[d]
               /\ SubTasksOf(d)' \cap Succeeded' = SubTasksOf(d) \cap Succeeded
    <3>1. d \in Closed
      BY <1>1, <1>2, <2>2, ParentsSame DEF Closed
    <3> QED
      BY <1>1, <2>1, <3>1, ClosedFacts, SubTasksSame
  <2> QED
    BY <2>3, BarrierFrame
<1>3. CASE t \in Parents
  <2>1. PICK q : q = markJobDone(pools[t])
    OBVIOUS
  <2>2. pools' = [pools EXCEPT ![t] = q] /\ tryComplete(t, q, contextData)
    BY <1>3, <2>1 DEF RecvDone, handleTemplateDone
  <2>3. PICK o \in Pool(Sub) : o = pools[t]
    BY DEF SchedTypeOK
  <2>4. /\ q.tasks = o.tasks /\ q.cursor = o.cursor
        /\ q.runningCount = o.runningCount
        /\ q.completed = o.completed /\ q.failed = o.failed
        /\ q.total = o.total /\ q.jobDone
        /\ q.allDone <=> AllOver(q)
    BY <2>1, <2>3, JobDoneFields
  <2>5. SubTasks(q) = SubTasksOf(t)
    <3>1. PoolOK(t)
      BY DEF PoolInv
    <3>2. SubTasks(q) = SubTasks(pools[t])
      BY <2>3, <2>4 DEF SubTasks
    <3> QED
      BY <3>1, <3>2 DEF PoolOK
  <2>6. /\ q.allDone => Done' = Done \cup {t}
        /\ ~q.allDone => Done' = Done
    BY <1>3, <2>1, DepsDone
  <2>7. t \in Closed => q.allDone
    BY <2>3, <2>4, ClosedFacts DEF AllOver, hasReady
  <2>8. contextData \in [Task -> {None} \cup SUBSET Sub]
    BY DEF SchedTypeOK
  <2> QED
    BY <1>1, <2>2, <2>5, <2>6, <2>7, <2>8, BarrierTry
<1> QED
  BY <1>2, <1>3

\* BarrierInv, when the closed templates are the same.
LEMMA BarrierKeeps ==
  ASSUME BarrierInv, UNCHANGED <<activePoolIDs, subToParent>>,
         Template \cap Done' = Template \cap Done,
         \A d \in Closed : /\ pools'[d].allDone /\ contextData'[d] = contextData[d]
                           /\ SubTasksOf(d) \cap Succeeded' = SubTasksOf(d) \cap Succeeded
  PROVE  BarrierInv'
<1>1. Closed' = Closed /\ \A x : SubTasksOf(x)' = SubTasksOf(x)
  BY ParentsSame, SubTasksSame DEF Closed
<1> QED
  BY <1>1, BarrierFrame

\* BarrierInv, a main task succeeds.
LEMMA BarrierMainTask ==
  ASSUME CoreInv, OrderInv, BarrierInv, NEW t \in Task,
         RecvTemplateSuccess(t) \/ RecvMainSuccess(t)
  PROVE  BarrierInv'
<1> USE DEF CoreInv
<1>1. /\ UNCHANGED <<pools, activePoolIDs, subToParent>> /\ RecvSuccess(t)
      /\ contextData' = [contextData EXCEPT ![t] = {}]
  BY DEF RecvTemplateSuccess, RecvMainSuccess, RecvSuccess, FreeSlot,
         onTemplateSuccess, onMainSuccess
<1>2. Template \cap Done' = Template \cap Done /\ t \in Main /\ t \notin Closed
  BY DepsTemplateSuccess, DepsMainSuccess DEF Closed, Done
<1>3. ASSUME NEW d \in Closed
      PROVE  /\ pools'[d].allDone /\ contextData'[d] = contextData[d]
             /\ SubTasksOf(d) \cap Succeeded' = SubTasksOf(d) \cap Succeeded
  <2>1. d \in Task /\ d # t /\ pools[d].allDone
    BY <1>2, ClosedFacts
  <2>2. contextData'[d] = contextData[d]
    BY <1>1, <2>1 DEF SchedTypeOK
  <2>3. t \notin SubTasksOf(d) /\ Succeeded' = Succeeded \cup {t}
    BY <1>1, <1>2, TaskSets, SuccessFacts DEF SubTasksOf
  <2> QED
    BY <1>1, <2>1, <2>2, <2>3
<1> QED
  BY <1>1, <1>2, <1>3, BarrierKeeps

\* BarrierInv, a task fails: its parent was not closed.
LEMMA BarrierFailure ==
  ASSUME CoreInv, BarrierInv, NEW t \in Task, RecvFailure(t)
  PROVE  BarrierInv'
<1> USE DEF CoreInv
<1>1. /\ UNCHANGED <<activePoolIDs, subToParent, contextData>>
      /\ t \in running /\ onFailure(t, pools)
  BY DEF RecvFailure, FreeSlot, onFailure
<1>2. taskStatus[t] = "PENDING" /\ Done' = Done
  BY <1>1, RunFacts, DepsFailure
<1>3. Succeeded' = Succeeded
  BY <1>1, <1>2, FailureMarks
<1>4. ASSUME NEW d \in Closed PROVE pools'[d].allDone
  <2>1. d \in Task /\ pools[d].allDone /\ pools[d].runningCount = 0
    BY ClosedFacts
  <2>2. CASE t \in Main
    BY <1>1, <2>1, <2>2, TaskSets DEF onFailure
  <2>3. CASE t \in Sub
    <3>1. PICK p \in Task : p = subToParent[t]
      BY <1>1, <2>3, RunFacts
    <3>2. pools[p].runningCount > 0
      BY <1>1, <2>3, <3>1, RunFacts
    <3>3. PICK q \in Pool(Sub) : pools' = [pools EXCEPT ![p] = q]
      BY <2>3, <3>1, FailurePool
    <3> QED
      BY <2>1, <3>2, <3>3 DEF SchedTypeOK
  <2> QED
    BY <2>2, <2>3, TaskSets
<1> QED
  BY <1>1, <1>2, <1>3, <1>4, BarrierKeeps

\* BarrierInv, a task is picked: its parent was not closed.
LEMMA BarrierSubmit ==
  ASSUME CoreInv, BarrierInv,
         (\E t \in Main : SubmitMain(t)) \/ (\E t \in Sub, p \in Task : SubmitSub(t, p))
  PROVE  BarrierInv'
<1> USE DEF CoreInv
<1>1. ASSUME NEW t \in Task, NEW ps, Submit(t, ps)
      PROVE  UNCHANGED <<activePoolIDs, subToParent, contextData>>
  BY <1>1 DEF Submit, Accepted, LacksParams, Refused, onFailure
<1>2. ASSUME NEW t \in Main, SubmitMain(t) PROVE BarrierInv'
  <2>1. /\ t \in Task /\ taskStatus[t] = "PENDING" /\ Submit(t, pools) /\ Done' = Done
    BY <1>2, SubmitMainFacts, DepsSubmitMain DEF SubmitMain
  <2>2. Succeeded' = Succeeded
    BY <2>1, SubmitMarks
  <2>3. pools' = pools
    BY <1>2, <2>1, TaskSets DEF Submit, Accepted, LacksParams, Refused, onFailure
  <2>4. \A d \in Closed : pools[d].allDone
    BY ClosedFacts
  <2> QED
    BY <1>1, <2>1, <2>2, <2>3, <2>4, BarrierKeeps
<1>3. ASSUME NEW t \in Sub, NEW p \in Task, SubmitSub(t, p) PROVE BarrierInv'
  <2>1. t \in Task /\ Submit(t, PickedPool(p)) /\ Done' = Done /\ hasReady(pools[p])
    BY <1>3, TaskSets, DepsSubmitSub DEF SubmitSub
  <2>2. PICK q \in Pool(Sub) : pools' = [pools EXCEPT ![p] = q] /\ Succeeded' = Succeeded
    BY <1>3, SubmitSubPool
  <2>3. ASSUME NEW d \in Closed PROVE pools'[d].allDone
    <3>1. d \in Task /\ pools[d].allDone /\ ~hasReady(pools[d])
      BY ClosedFacts
    <3>2. d # p
      BY <2>1, <3>1
    <3> QED
      BY <2>2, <3>1, <3>2 DEF SchedTypeOK
  <2> QED
    BY <1>1, <2>1, <2>2, <2>3, BarrierKeeps
<1> QED
  BY <1>2, <1>3

\* BarrierInv is kept.
LEMMA BarrierStep ==
  ASSUME CoreInv, AddsInv, OrderInv, BarrierInv, V3TypeOK, [V3Next]_v3Vars
  PROVE  BarrierInv'
<1> USE DEF CoreInv
<1>1. ASSUME UNCHANGED <<IdleVars, pools, subToParent>> PROVE BarrierInv'
  <2>1. Done' = Done /\ Succeeded' = Succeeded
    BY <1>1 DEF IdleVars, dagVars, Done, Succeeded
  <2>2. UNCHANGED <<activePoolIDs, subToParent, contextData, pools>>
    BY <1>1 DEF IdleVars
  <2>3. \A d \in Closed : pools[d].allDone
    BY ClosedFacts
  <2> QED
    BY <2>1, <2>2, <2>3, BarrierKeeps
<1>2. ASSUME NEW t \in Task, \/ RecvSubSuccess(t) \/ RecvTemplateSuccess(t)
                             \/ RecvMainSuccess(t) \/ RecvFailure(t) \/ RecvDone(t)
      PROVE  BarrierInv'
  BY <1>2, BarrierSubSuccess, BarrierMainTask, BarrierFailure, BarrierDone
<1> QED
  BY StepCases, IdleSteps, <1>1, <1>2, BarrierAdd, BarrierSubmit

-----------------------------------------------------------------------------
(* Results: ResultsInv.                                                    *)

\* Sends and receives of other messages leave the results of t alone.
LEMMA ResultsSame ==
  ASSUME SchedTypeOK, NEW t,
         \/ inbox' = inbox
         \/ Received /\ ~IsResult(inbox[1], t)
         \/ \E m : Sent(m) /\ ~IsResult(m, t)
  PROVE  /\ HasResult(t)' <=> HasResult(t)
         /\ OneResult(t) => OneResult(t)'
<1>1. CASE inbox' = inbox
  BY <1>1 DEF HasResult, OneResult
<1>2. CASE Received /\ ~IsResult(inbox[1], t)
  <2>1. /\ \A i \in 1 .. Len(inbox') : i + 1 \in 1 .. Len(inbox) /\ inbox'[i] = inbox[i + 1]
        /\ \A i \in 1 .. Len(inbox) : i # 1 =>
              i - 1 \in 1 .. Len(inbox') /\ inbox'[i - 1] = inbox[i]
    BY <1>2, ReceivedFacts
  <2>2. HasResult(t)' <=> HasResult(t)
    <3>1. \A i \in 1 .. Len(inbox') : IsResult(inbox'[i], t) => HasResult(t)
      BY <2>1 DEF HasResult
    <3>2. \A i \in 1 .. Len(inbox) : IsResult(inbox[i], t) => i # 1
      BY <1>2
    <3>3. \A i \in 1 .. Len(inbox) : IsResult(inbox[i], t) =>
            \E j \in 1 .. Len(inbox') : IsResult(inbox'[j], t)
      BY <2>1, <3>2
    <3> QED
      BY <3>1, <3>3 DEF HasResult
  <2>3. ASSUME OneResult(t), NEW i \in 1 .. Len(inbox'), NEW j \in 1 .. Len(inbox'),
               IsResult(inbox'[i], t), IsResult(inbox'[j], t)
        PROVE  i = j
    <3>1. i + 1 = j + 1
      BY <2>1, <2>3 DEF OneResult
    <3> QED
      BY <3>1
  <2> QED
    BY <2>2, <2>3 DEF OneResult
<1>3. CASE \E m : Sent(m) /\ ~IsResult(m, t)
  <2>1. PICK m : Sent(m) /\ ~IsResult(m, t)
    BY <1>3
  <2>2. /\ \A i \in 1 .. Len(inbox) : inbox'[i] = inbox[i] /\ i \in 1 .. Len(inbox')
        /\ inbox'[Len(inbox) + 1] = m
        /\ \A i \in 1 .. Len(inbox') : i \in 1 .. Len(inbox) \/ i = Len(inbox) + 1
    BY <2>1, SentFacts
  <2>3. \A i \in 1 .. Len(inbox') : IsResult(inbox'[i], t) =>
          i \in 1 .. Len(inbox) /\ IsResult(inbox[i], t)
    BY <2>1, <2>2
  <2> QED
    BY <2>2, <2>3 DEF HasResult, OneResult
<1> QED
  BY <1>1, <1>2, <1>3

\* ResultOK, steps about other tasks.
LEMMA ResultsFrame ==
  ASSUME SchedTypeOK, NEW t, ResultOK(t),
         t \in running' <=> t \in running, t \in exec' <=> t \in exec,
         \/ inbox' = inbox
         \/ Received /\ ~IsResult(inbox[1], t)
         \/ \E m : Sent(m) /\ ~IsResult(m, t)
  PROVE  ResultOK(t)'
BY ResultsSame DEF ResultOK

\* ResultOK, the actor takes a result.
LEMMA ResultsFree ==
  ASSUME SchedTypeOK, NEW t \in Task, NEW ok \in BOOLEAN, FreeSlot(t, ok),
         \A x \in Task : ResultOK(x), NEW x \in Task
  PROVE  ResultOK(x)'
<1>1. /\ Received /\ inbox[1] = ResultMsg(t, ok)
      /\ running' = running \ {t} /\ exec' = exec
  BY InboxSteps DEF FreeSlot, Recv
<1>2. CASE x # t
  BY <1>1, <1>2, ResultsFrame DEF IsResult, ResultMsg
<1>3. CASE x = t
  <2>1. 1 \in 1 .. Len(inbox) /\ IsResult(inbox[1], x)
    BY <1>1, <1>3, ReceivedFacts DEF IsResult, ResultMsg
  <2>2. x \notin exec
    BY <2>1 DEF ResultOK, HasResult
  <2>3. ASSUME NEW i \in 1 .. Len(inbox') PROVE ~IsResult(inbox'[i], x)
    <3>1. i + 1 \in 1 .. Len(inbox) /\ inbox'[i] = inbox[i + 1] /\ i + 1 # 1
      BY <1>1, <2>3, ReceivedFacts
    <3> QED
      BY <2>1, <3>1 DEF ResultOK, OneResult
  <2>4. ~HasResult(x)' /\ OneResult(x)'
    BY <2>3 DEF HasResult, OneResult
  <2> QED
    BY <1>1, <1>3, <2>2, <2>4 DEF ResultOK
<1> QED
  BY <1>2, <1>3

\* ResultOK, the executor reports a result.
LEMMA ResultsEnd ==
  ASSUME SchedTypeOK, NEW t \in Task, NEW ok \in BOOLEAN, TaskEnd(t, ok),
         ~ctxDone, \A x \in Task : ResultOK(x), NEW x \in Task
  PROVE  ResultOK(x)'
<1>1. /\ t \in exec /\ exec' = exec \ {t} /\ running' = running
      /\ Len(inbox) < InboxCap /\ inbox' = Append(inbox, ResultMsg(t, ok))
  BY DEF TaskEnd, quietVars
<1>2. Sent(ResultMsg(t, ok))
  BY <1>1 DEF Sent, Msg, ResultMsg
<1>3. CASE x # t
  BY <1>1, <1>2, <1>3, ResultsFrame DEF IsResult, ResultMsg
<1>4. CASE x = t
  <2>1. x \in running /\ ~HasResult(x)
    BY <1>1, <1>4 DEF ResultOK
  <2>2. /\ \A i \in 1 .. Len(inbox) : inbox'[i] = inbox[i]
        /\ Len(inbox) + 1 \in 1 .. Len(inbox')
        /\ inbox'[Len(inbox) + 1] = ResultMsg(t, ok)
        /\ \A i \in 1 .. Len(inbox') : i \in 1 .. Len(inbox) \/ i = Len(inbox) + 1
    BY <1>2, SentFacts
  <2>3. IsResult(inbox'[Len(inbox) + 1], x)
    BY <1>4, <2>2 DEF IsResult, ResultMsg
  <2>4. \A i \in 1 .. Len(inbox') : IsResult(inbox'[i], x) => i = Len(inbox) + 1
    BY <2>1, <2>2 DEF HasResult
  <2>5. HasResult(x)' /\ OneResult(x)'
    BY <2>2, <2>3, <2>4 DEF HasResult, OneResult
  <2> QED
    BY <1>1, <1>4, <2>1, <2>5 DEF ResultOK
<1> QED
  BY <1>3, <1>4

\* ResultOK, what becomes of a picked task.
LEMMA ResultsSubmit ==
  ASSUME SchedTypeOK, NEW t \in Task, NEW ps, Submit(t, ps), t \notin running,
         \A x \in Task : ResultOK(x), NEW x \in Task
  PROVE  ResultOK(x)'
<1>1. inbox' = inbox
  BY DEF Submit
<1>2. \/ UNCHANGED <<running, exec>>
      \/ running' = running \cup {t} /\ exec' = exec \cup {t}
  BY DEF Submit, Accepted, LacksParams, Refused
<1>3. CASE UNCHANGED <<running, exec>> \/ x # t
  BY <1>1, <1>2, <1>3, ResultsFrame
<1>4. CASE running' = running \cup {t} /\ exec' = exec \cup {t} /\ x = t
  <2>1. ~HasResult(x)
    BY <1>4 DEF ResultOK
  <2>2. ~HasResult(x)' /\ OneResult(x)'
    BY <1>1, <2>1, ResultsSame DEF ResultOK
  <2> QED
    BY <1>4, <2>2 DEF ResultOK
<1> QED
  BY <1>2, <1>3, <1>4

\* ResultsInv is kept.
LEMMA ResultsStep ==
  ASSUME CoreInv, ResultsInv, V3TypeOK, [V3Next]_v3Vars
  PROVE  ResultsInv'
<1> USE DEF CoreInv
<1> SUFFICES ASSUME ~ctxDone', NEW x \in Task
             PROVE  ResultOK(x)'
  BY DEF ResultsInv
<1>1. ~ctxDone
  BY DownStays
<1>2. \A t \in Task : ResultOK(t)
  BY <1>1 DEF ResultsInv
<1>3. ASSUME UNCHANGED <<running, exec>>,
             \/ inbox' = inbox
             \/ Received /\ inbox[1].type # "result"
             \/ \E m : Sent(m) /\ m.type # "result"
      PROVE  ResultOK(x)'
  BY <1>2, <1>3, ResultsFrame DEF IsResult
<1>4. ASSUME Quiet \/ ExecShutdown PROVE ResultOK(x)'
  BY <1>3, <1>4, IdleSteps DEF IdleVars
<1>5. ASSUME ActorSelfSend PROVE ResultOK(x)'
  <2>1. UNCHANGED <<running, exec>>
    BY <1>5, IdleSteps DEF IdleVars
  <2>2. inbox' = inbox \/ \E m : Sent(m) /\ m.type # "result"
    BY <1>5, InboxSteps DEF DoneMsg
  <2> QED
    BY <1>3, <2>1, <2>2
<1>6. ASSUME NEW c \in Caller, RecvAdd(c) PROVE ResultOK(x)'
  <2>1. UNCHANGED <<running, exec>>
    BY <1>6 DEF RecvAdd, Recv, handleAdd
  <2>2. Received /\ inbox[1].type # "result"
    BY <1>6, InboxSteps DEF RecvAdd, AddMsg
  <2> QED
    BY <1>3, <2>1, <2>2
<1>7. ASSUME NEW t \in Task, RecvDone(t) PROVE ResultOK(x)'
  <2>1. UNCHANGED <<running, exec>>
    BY <1>7 DEF RecvDone, Recv
  <2>2. Received /\ inbox[1].type # "result"
    BY <1>7, InboxSteps DEF RecvDone, DoneMsg
  <2> QED
    BY <1>3, <2>1, <2>2
<1>8. ASSUME NEW c \in Caller, CallAdd(c) \/ CallRefused(c) PROVE ResultOK(x)'
  <2>1. UNCHANGED <<running, exec>>
    BY <1>8, IdleSteps DEF IdleVars
  <2>2. inbox' = inbox \/ \E m : Sent(m) /\ m.type # "result"
    <3>1. inbox' = inbox \/ Sent(AddMsg(c))
      BY <1>8, InboxSteps
    <3>2. AddMsg(c).type # "result"
      BY DEF AddMsg
    <3> QED
      BY <3>1, <3>2
  <2> QED
    BY <1>3, <2>1, <2>2
<1>9. ASSUME NEW t \in Task, HandlerEnd(t) PROVE ResultOK(x)'
  <2>1. UNCHANGED <<running, exec>>
    BY <1>9, IdleSteps DEF IdleVars
  <2>2. inbox' = inbox \/ \E m : Sent(m) /\ m.type # "result"
    <3>1. inbox' = inbox \/ Sent(DoneMsg(t))
      BY <1>9, InboxSteps
    <3>2. DoneMsg(t).type # "result"
      BY DEF DoneMsg
    <3> QED
      BY <3>1, <3>2
  <2> QED
    BY <1>3, <2>1, <2>2
<1>10. ASSUME NEW t \in Task, NEW ok \in BOOLEAN, RecvIgnored(t, ok)
       PROVE  ResultOK(x)'
  <2>1. 1 \in 1 .. Len(inbox) /\ IsResult(inbox[1], t) /\ t \notin running
    BY <1>10, InboxSteps, ReceivedFacts DEF RecvIgnored, IsResult, ResultMsg
  <2> QED
    BY <1>2, <2>1 DEF ResultOK, HasResult
<1>11. ASSUME NEW t \in Task, \/ RecvSubSuccess(t) \/ RecvTemplateSuccess(t)
                              \/ RecvMainSuccess(t) \/ RecvFailure(t)
       PROVE  ResultOK(x)'
  <2>1. \E ok \in BOOLEAN : FreeSlot(t, ok)
    BY <1>11 DEF RecvSubSuccess, RecvTemplateSuccess, RecvMainSuccess, RecvSuccess, RecvFailure
  <2> QED
    BY <1>2, <2>1, ResultsFree
<1>12. ASSUME NEW t \in Main, SubmitMain(t) PROVE ResultOK(x)'
  <2>1. t \in Task /\ t \notin running /\ Submit(t, pools)
    BY <1>12, SubmitMainFacts DEF SubmitMain
  <2> QED
    BY <1>2, <2>1, ResultsSubmit
<1>13. ASSUME NEW t \in Sub, NEW p \in Task, SubmitSub(t, p) PROVE ResultOK(x)'
  <2>1. t \in Task /\ t \notin running /\ Submit(t, PickedPool(p))
    BY <1>13, SubmitSubFacts DEF SubmitSub
  <2> QED
    BY <1>2, <2>1, ResultsSubmit
<1> QED
  BY StepCases, <1>1, <1>2, <1>4, <1>5, <1>6, <1>7, <1>8, <1>9, <1>10, <1>11, <1>12, <1>13,
     ResultsEnd

-----------------------------------------------------------------------------
(* The invariant, and what it says.                                        *)

\* The initial states have the types.
LEMMA InitType == V3Init => V3TypeOK
<1> SUFFICES ASSUME V3Init PROVE LCTypeOK /\ SchedTypeOK
  BY DEF V3TypeOK
<1>1. LCTypeOK
  BY TypeInit DEF V3Init
<1>2. Cardinality(Main) \in Nat /\ \A t \in Main : Cardinality(Deps[t]) \in Nat
  BY FS_CardinalityType, FS_Subset, V3Assumption
<1>3. readyMain \in Seq(Main)
  <2>1. IsFiniteSet({t \in Main : Deps[t] = {}})
    BY FS_Subset, V3Assumption
  <2>2. readyMain \in Seq({t \in Main : Deps[t] = {}})
    BY <2>1, SeqsOf DEF V3Init
  <2> QED
    BY <2>2
<1>4. newSubTaskPool \in Pool(Sub)
  BY DEF newSubTaskPool, Pool
<1>5. pools \in [Task -> Pool(Sub)] /\ pendingDeps \in [Main -> Int]
  BY <1>2, <1>4 DEF V3Init
<1>6. /\ inbox \in Seq(Msg) /\ Len(inbox) <= InboxCap
      /\ activePoolIDs \in Seq(Task) /\ rrIdx \in Nat
      /\ totalTasks \in Nat /\ successTasks \in Nat /\ failedTasks \in Nat
      /\ runningTasks \in Int
  BY <1>2, V3Assumption DEF V3Init
<1>7. /\ subToParent \in [Sub -> Task \cup {None}]
      /\ taskStatus \in [Task -> {"PENDING", "SUCCESS", "FAILED"}]
      /\ contextData \in [Task -> {None} \cup SUBSET Sub]
      /\ call \in [Caller -> {"idle", "add", "wait", "ready", "over"}]
  BY DEF V3Init
<1>8. /\ apc \in {"select", "tick", "submit", "check"}
      /\ selfSend \in Template \cup {None}
      /\ mainSubmitted \subseteq Task /\ mainDone \subseteq Main
      /\ running \subseteq Task /\ templateHandlerInFlight \subseteq Template
      /\ exec \subseteq Task /\ execDown \in BOOLEAN
  BY DEF V3Init
<1> QED
  BY <1>1, <1>3, <1>5, <1>6, <1>7, <1>8 DEF SchedTypeOK

\* DepsInv holds initially: the roots are ready.
LEMMA InitDeps == V3Init => DepsInv
<1> SUFFICES ASSUME V3Init PROVE DepsInv
  OBVIOUS
<1>1. /\ readyMain \in Seq({t \in Main : Deps[t] = {}})
      /\ \A i, j \in 1 .. Len(readyMain) : readyMain[i] = readyMain[j] => i = j
      /\ \A x \in {t \in Main : Deps[t] = {}} :
           \E i \in 1 .. Len(readyMain) : readyMain[i] = x
  <2>1. PICK S : S = {t \in Main : Deps[t] = {}}
    OBVIOUS
  <2>2. IsFiniteSet(S) /\ readyMain \in SetToSeqs(S)
    BY <2>1, FS_Subset, V3Assumption DEF V3Init
  <2>3. /\ readyMain \in Seq(S)
        /\ \A i, j \in 1 .. Len(readyMain) : readyMain[i] = readyMain[j] => i = j
        /\ \A x \in S : \E i \in 1 .. Len(readyMain) : readyMain[i] = x
    BY ONLY <2>2, SeqsOf
  <2> QED
    BY <2>1, <2>3
<1>2. mainSubmitted = {} /\ mainDone = {} /\ Done = {}
  BY DEF V3Init, Done
<1>3. \A t \in Main : Deps[t] \ Done = Deps[t]
  BY <1>2
<1>4. \A t \in Main : pendingDeps[t] = Cardinality(Deps[t] \ Done)
  BY <1>3 DEF V3Init
<1>5. \A i \in 1 .. Len(readyMain) : Deps[readyMain[i]] = {}
  BY <1>1
<1> QED
  BY <1>1, <1>2, <1>4, <1>5 DEF DepsInv, MarkedInv

\* PoolInv holds initially: there is no pool.
LEMMA InitPool == V3Init => PoolInv
<1> SUFFICES ASSUME V3Init PROVE PoolInv
  OBVIOUS
<1>1. mainSubmitted = {} /\ \A s \in Sub : subToParent[s] = None
  BY DEF V3Init
<1>2. ASSUME NEW p \in Task PROVE PoolOK(p)
  <2>1. pools[p] = newSubTaskPool
    BY DEF V3Init
  <2>2. SubTasksOf(p) = {} /\ Outstanding(p) = {}
    BY <1>1, TaskSets DEF SubTasksOf, Outstanding
  <2>3. SubTasks(newSubTaskPool) = {}
    BY DEF SubTasks, newSubTaskPool
  <2>4. ~AllOver(newSubTaskPool)
    BY DEF AllOver, newSubTaskPool
  <2>5. SubTasksOf(p) \cap Succeeded = {} /\ Cardinality({}) = 0
    BY <2>2, FS_EmptySet
  <2> QED
    BY <2>1, <2>2, <2>3, <2>4, <2>5 DEF PoolOK, newSubTaskPool
<1> QED
  BY <1>1, <1>2 DEF PoolInv

\* The inductive invariant holds initially.
LEMMA InitInv == V3Init => V3IInv
<1> SUFFICES ASSUME V3Init PROVE V3IInv
  OBVIOUS
<1>1. V3TypeOK /\ DepsInv /\ PoolInv
  BY InitType, InitDeps, InitPool
<1>2. /\ \A t \in Task : taskStatus[t] = "PENDING"
      /\ \A c \in Caller : call[c] = "idle"
      /\ \A s \in Sub : subToParent[s] = None
      /\ mainSubmitted = {} /\ mainDone = {} /\ running = {} /\ exec = {}
      /\ inbox = <<>> /\ selfSend = None /\ activePoolIDs = <<>>
      /\ runningTasks = 0
  BY DEF V3Init
<1>3. FreshInv /\ PendingInv
  BY <1>2, TaskSets DEF FreshInv, PendingInv
<1>4. Len(inbox) = 0 /\ 1 .. Len(inbox) = {}
  BY <1>2
<1>5. AddsInv
  <2>1. ASSUME NEW c \in Caller PROVE ~InInbox(AddMsg(c))
    BY <1>4 DEF InInbox
  <2>2. \A c \in Caller : \A s \in Elems(c) : subToParent[s] = None
    BY <1>2, BatchType
  <2> QED
    BY <1>2, <1>4, <2>1, <2>2 DEF AddsInv
<1>6. Succeeded = {} /\ OrderInv
  BY <1>2, <1>4
     DEF Succeeded, OrderInv, JobsSettled, ResultsOrdered, DonesOrdered, HandlersSettled
<1>7. BarrierInv
  BY <1>2 DEF BarrierInv, Done
<1>8. SlotsInv
  BY <1>2, FS_EmptySet, V3Assumption DEF SlotsInv, SlotsAccounted
<1>9. ResultsInv
  BY <1>2, <1>4 DEF ResultsInv, ResultOK, HasResult, OneResult
<1> QED
  BY <1>1, <1>3, <1>5, <1>6, <1>7, <1>8, <1>9 DEF V3IInv

\* Every step keeps the inductive invariant.
LEMMA NextInv == V3IInv /\ [V3Next]_v3Vars => V3IInv'
<1> SUFFICES ASSUME V3IInv, [V3Next]_v3Vars PROVE V3IInv'
  OBVIOUS
<1>1. CoreInv /\ V3TypeOK
  BY DEF V3IInv, V3TypeOK, CoreInv
<1>2. V3TypeOK' /\ FreshInv' /\ DepsInv' /\ PoolInv'
  BY <1>1, TypeStep, FreshStep, DepsStep, PoolStep DEF V3IInv, CoreInv
<1>3. PendingInv' /\ AddsInv' /\ OrderInv'
  BY <1>1, PendingStep, AddsStep, OrderStep DEF V3IInv
<1>4. BarrierInv' /\ SlotsInv' /\ ResultsInv'
  BY <1>1, BarrierStep, SlotsStep, ResultsStep DEF V3IInv
<1> QED
  BY <1>2, <1>3, <1>4 DEF V3IInv

\* The inductive invariant of the V3 manager.
LEMMA V3Invariant == V3Spec => []V3IInv
<1> QED
  BY InitInv, NextInv, PTL DEF V3Spec

\* Every variable keeps its type: among others the inbox never holds more
\* messages than its capacity and only main tasks are marked done.
THEOREM V3TypeOKCorrect == V3Spec => []V3TypeOK
<1>1. V3IInv => V3TypeOK
  BY DEF V3IInv
<1> QED
  BY <1>1, V3Invariant, PTL

\* A main task is picked for submission only when all its dependencies are done
\* and succeeded, and one that hangs on a template finds every subtask accepted
\* under it processed, and exactly the succeeded ones in the template's result.
THEOREM PickedWhenReadyCorrect == V3Spec => []PickedWhenReady
<1>1. ASSUME V3IInv PROVE PickedWhenReady
  <2> USE <1>1 DEF V3IInv
  <2>1. CoreInv
    BY DEF CoreInv, V3TypeOK
  <2>2. DependenciesRespected
    BY DEF DependenciesRespected, DepsInv, Done
  <2>3. ASSUME NEW t \in mainSubmitted \cap Main,
               NEW d \in Deps[t] \cap Template \cap Parents
        PROVE  /\ pools[d].completed + pools[d].failed = Cardinality(SubTasksOf(d))
               /\ contextData[d] = SubTasksOf(d) \cap Succeeded
    <3>1. d \in Closed
      BY <2>3 DEF DepsInv, Closed
    <3>2. /\ d \in Task /\ pools[d] \in Pool(Sub)
          /\ pools[d].runningCount = 0 /\ ~hasReady(pools[d])
      BY <2>1, <3>1, ClosedFacts
    <3>3. contextData[d] = SubTasksOf(d) \cap Succeeded
      BY <3>1 DEF BarrierInv, Closed
    <3>4. Cardinality(SubTasksOf(d)) = Len(pools[d].tasks)
      BY <2>1, <3>2, SubFinite DEF CoreInv
    <3>5. /\ pools[d].cursor <= Len(pools[d].tasks)
          /\ pools[d].cursor = pools[d].runningCount + pools[d].completed + pools[d].failed
      BY <3>2 DEF PoolInv, PoolOK
    <3>6. /\ pools[d].cursor \in Nat /\ Len(pools[d].tasks) \in Nat
          /\ pools[d].completed \in Nat /\ pools[d].failed \in Nat
      BY <3>2 DEF Pool
    <3>7. pools[d].cursor = Len(pools[d].tasks)
      BY <3>2, <3>5, <3>6 DEF hasReady
    <3> QED
      BY <3>2, <3>3, <3>4, <3>5, <3>6, <3>7
  <2> QED
    BY <2>2, <2>3 DEF PickedWhenReady, TemplateBarrier
<1> QED
  BY <1>1, V3Invariant, PTL

\* runningTasks counts the running tasks and never exceeds MaxConcurrentTask, and
\* a pool's counters describe its subtasks, for every workflow, batch and bound.
THEOREM AccountsBalanceCorrect == V3Spec => []AccountsBalance
<1>1. ASSUME V3IInv PROVE AccountsBalance
  <2> USE <1>1 DEF V3IInv
  <2>1. SlotsAccounted
    BY DEF SlotsInv
  <2>2. ASSUME NEW t \in Parents
        PROVE  LET p == pools[t] IN
               /\ p.total = Len(p.tasks) /\ SubTasks(p) = SubTasksOf(t)
               /\ p.cursor = p.runningCount + p.completed + p.failed
               /\ ~execDown => p.runningCount = Cardinality(running \cap SubTasksOf(t))
               /\ p.completed = Cardinality(SubTasksOf(t) \cap Succeeded)
    <3>1. t \in Task
      BY DEF Parents, V3TypeOK, SchedTypeOK
    <3>2. PoolOK(t)
      BY <3>1 DEF PoolInv
    <3>3. ASSUME ~execDown PROVE running \cap SubTasksOf(t) = Outstanding(t)
      <4>1. \A s \in Outstanding(t) : s \in running
        BY <3>3 DEF PendingInv, Outstanding
      <4>2. \A s \in running \cap SubTasksOf(t) :
              s \in mainSubmitted /\ taskStatus[s] = "PENDING"
        BY DEF FreshInv, V3TypeOK, SchedTypeOK
      <4> QED
        BY <4>1, <4>2 DEF Outstanding
    <3> QED
      BY <3>2, <3>3 DEF PoolOK
  <2> QED
    BY <2>1, <2>2 DEF AccountsBalance, PoolsAccounted
<1> QED
  BY <1>1, V3Invariant, PTL

\* While the instance lives, a running task is held by the executor or its one
\* result waits in the inbox: OnComplete and OnError lose and repeat nothing.
THEOREM NoResultLostCorrect == V3Spec => []NoResultLost
<1>1. ASSUME V3IInv, ~ctxDone, NEW t \in Task
      PROVE  LET waiting == {i \in 1 .. Len(inbox) :
                               inbox[i].type = "result" /\ inbox[i].task = t} IN
             /\ t \in running <=> t \in exec \/ waiting # {}
             /\ t \in exec => waiting = {}
             /\ Cardinality(waiting) <= 1
  <2>1. ResultOK(t)
    BY <1>1 DEF V3IInv, ResultsInv
  <2> DEFINE waiting == {i \in 1 .. Len(inbox) :
                           inbox[i].type = "result" /\ inbox[i].task = t}
  <2>2. waiting # {} <=> HasResult(t)
    BY DEF HasResult, IsResult
  <2>3. waiting = {} \/ \E i \in waiting : waiting = {i}
    BY <2>1 DEF ResultOK, OneResult, IsResult
  <2> HIDE DEF waiting
  <2>4. Cardinality(waiting) <= 1
    <3>1. CASE waiting = {}
      BY <3>1, FS_EmptySet
    <3>2. ASSUME NEW i, waiting = {i} PROVE Cardinality(waiting) = 1
      BY <3>2, FS_Singleton
    <3> QED
      BY <2>3, <3>1, <3>2
  <2>5. /\ t \in running <=> t \in exec \/ waiting # {}
        /\ t \in exec => waiting = {}
    BY <2>1, <2>2 DEF ResultOK
  <2> QED
    BY <2>4, <2>5 DEF waiting
<1>2. V3IInv => NoResultLost
  BY <1>1 DEF NoResultLost
<1> QED
  BY <1>2, V3Invariant, PTL

\* The manager implements InstanceLifecycle: its status, channels and context
\* take no step that module does not have.
THEOREM V3ImplementsLifecycle == V3Spec => LCSpec
<1>1. V3Init => LCInit
  BY DEF V3Init
<1> QED
  BY <1>1, LifecycleOfStep, PTL DEF V3Spec, LCSpec

-----------------------------------------------------------------------------
(* What the manager promises about the whole workflow, on top of the       *)
(* invariant: a Success is earned, stays true, and the manager implements  *)
(* DagExecution step by step.                                              *)
(*                                                                         *)
(* Two more parts of the inductive invariant are needed: ReleasedInv, that *)
(* no main task that succeeded is forgotten, and TotalsInv, that the       *)
(* counters behind the progress count what they say.                       *)

-----------------------------------------------------------------------------
(* The phases of the tasks.                                                *)

\* The refinement mapping: what InstanceManagerV3 substitutes for phase.
Phase == [t \in Task |-> PhaseOf(t)]

\* What each phase says of the manager's variables.
LEMMA PhaseFacts ==
  ASSUME SchedTypeOK, FreshInv, NEW t \in Task
  PROVE  /\ Phase[t] = PhaseOf(t)
         /\ PhaseOf(t) = "waiting" <=> t \notin mainSubmitted
         /\ PhaseOf(t) = "failed" <=> t \in mainSubmitted /\ taskStatus[t] = "FAILED"
         /\ PhaseOf(t) = "started" <=> t \in mainSubmitted /\ taskStatus[t] = "PENDING"
         /\ PhaseOf(t) = "complete" <=> t \in Succeeded /\ (t \in Sub \/ t \in mainDone)
         /\ PhaseOf(t) = "expanding" <=> t \in Succeeded \cap Main /\ t \notin mainDone
<1>1. taskStatus[t] \in {"PENDING", "SUCCESS", "FAILED"}
  BY DEF SchedTypeOK
<1>2. t \notin mainSubmitted => taskStatus[t] = "PENDING"
  BY DEF FreshInv
<1>3. Phase[t] = PhaseOf(t)
  BY DEF Phase
<1>4. t \in Succeeded <=> taskStatus[t] = "SUCCESS"
  BY DEF Succeeded
<1>5. t \in Main <=> t \notin Sub
  BY TaskSets
<1>6. CASE t \notin mainSubmitted
  BY <1>2, <1>3, <1>4, <1>6 DEF PhaseOf
<1>7. CASE t \in mainSubmitted /\ taskStatus[t] = "FAILED"
  BY <1>3, <1>4, <1>7 DEF PhaseOf
<1>8. CASE t \in mainSubmitted /\ taskStatus[t] = "PENDING"
  BY <1>3, <1>4, <1>8 DEF PhaseOf
<1>9. CASE t \in mainSubmitted /\ taskStatus[t] = "SUCCESS" /\ (t \in Sub \/ t \in mainDone)
  BY <1>3, <1>4, <1>5, <1>9 DEF PhaseOf
<1>10. CASE t \in mainSubmitted /\ taskStatus[t] = "SUCCESS" /\ ~(t \in Sub \/ t \in mainDone)
  BY <1>3, <1>4, <1>5, <1>10 DEF PhaseOf
<1> QED
  BY <1>1, <1>6, <1>7, <1>8, <1>9, <1>10

\* A task keeps its phase when it is not picked and its outcome and, if it
\* succeeded, mainDone stay as they are.
LEMMA PhaseSame ==
  ASSUME SchedTypeOK, FreshInv, NEW t \in Task,
         t \in mainSubmitted' <=> t \in mainSubmitted,
         taskStatus'[t] = taskStatus[t],
         t \in Succeeded => (t \in mainDone' <=> t \in mainDone)
  PROVE  PhaseOf(t)' = PhaseOf(t)
<1>1. taskStatus[t] \in {"PENDING", "SUCCESS", "FAILED"}
  BY DEF SchedTypeOK
<1> QED
  BY <1>1 DEF PhaseOf, Succeeded

-----------------------------------------------------------------------------
(* Success is earned: StatusSteps, ReleasedInv, TotalsInv.                 *)

\* Only checkDone sets Success, when nothing is left and nothing failed.
LEMMA StatusSteps ==
  ASSUME V3TypeOK, [V3Next]_v3Vars
  PROVE  \/ status' = status
         \/ Quiet /\ status' # "Success"
         \/ Quiet /\ NothingLeft /\ failedTasks = 0
<1> USE DEF controlVars, userVars
<1>1. CASE UNCHANGED v3Vars
  BY <1>1 DEF v3Vars, lcVars
<1>2. CASE ActorRecv \/ ActorSelfSend \/ ActorTick \/ ActorSubmit \/ ActorSubmitEnd
  BY <1>2 DEF ActorRecv, ActorSelfSend, ActorTick, ActorSubmit, ActorSubmitEnd, lcVars
<1>3. CASE ActorCheckDone
  <2>1. Quiet
    BY <1>3 DEF ActorCheckDone, Quiet
  <2>2. CASE NothingLeft /\ status # "Paused"
    BY <1>3, <2>1, <2>2 DEF ActorCheckDone, FinishSet, V3TypeOK, SchedTypeOK
  <2>3. CASE ~(NothingLeft /\ status # "Paused")
    BY <1>3, <2>3 DEF ActorCheckDone, lcVars
  <2> QED
    BY <2>2, <2>3
<1>4. CASE ActorFinish \/ ActorReturn
  BY <1>4 DEF ActorFinish, FinishStep, FinishPersist, FinishPublish, FinishCancel,
     ActorReturn, ActorExit
<1>5. CASE WorkerStep
  BY <1>5, WorkerStepLifecycle DEF lcVars
<1>6. CASE LifecycleStep
  <2>1. Quiet
    BY <1>6 DEF LifecycleStep, schedVars, Quiet
  <2>2. CASE StartManager
    BY <2>1, <2>2 DEF StartManager
  <2>3. CASE ControlSetStatus
    <3>1. csig \in Signal
      BY DEF V3TypeOK, LCTypeOK
    <3>2. status' # "Success"
      BY <2>3, <3>1 DEF ControlSetStatus, StatusOf, Signal
    <3> QED
      BY <2>1, <3>2
  <2>4. CASE \/ \E sig \in {"Pause", "Resume"} : SendPauseOrResume(sig)
             \/ CheckTerminate \/ SendTerminate \/ StopSendsTerminate \/ Shutdown
             \/ ControlReceive \/ ControlPersist \/ ControlPublish
             \/ ControlCancel \/ ControlExit
    BY <2>4 DEF SendPauseOrResume, CheckTerminate, SendTerminate, StopSendsTerminate,
       Shutdown, ControlReceive, ControlPersist, ControlPublish, ControlCancel,
       ControlExit
  <2> QED
    BY <1>6, <2>2, <2>3, <2>4 DEF LifecycleStep
<1> QED
  BY <1>1, <1>2, <1>3, <1>4, <1>5, <1>6 DEF V3Next, ActorStep

\* The subtasks that were accepted.
Accepteds == {s \in Sub : subToParent[s] # None}

\* A main task that succeeded is released, or its handler is still in flight,
\* or its pool will release it; and without failures a template whose pool is
\* all done was released.  Without it checkDone could find nothing left
\* although a main task never became ready.
ReleasedInv ==
  /\ \A t \in Main \cap Succeeded :
       t \in mainDone \/ t \in templateHandlerInFlight \/ pools[t].jobDone
  /\ failedTasks = 0 => \A t \in Template : pools[t].allDone => t \in mainDone

\* totalTasks and successTasks count what their names say.
TotalsInv ==
  /\ IsFiniteSet(Accepteds)
  /\ totalTasks = Cardinality(Main) + Cardinality(Accepteds)
  /\ IsFiniteSet(Succeeded) /\ successTasks = Cardinality(Succeeded)

\* ReleasedInv, from what a step may do to the variables it relates.
LEMMA ReleasedMake ==
  ASSUME SchedTypeOK, ReleasedInv, mainDone \subseteq mainDone',
         \A t \in Main \cap Succeeded' :
           t \in Succeeded \/ t \in mainDone' \/ t \in templateHandlerInFlight',
         \A t \in templateHandlerInFlight :
           t \in templateHandlerInFlight' \/ t \in mainDone' \/ pools'[t].jobDone,
         \A t \in Main : pools[t].jobDone => pools'[t].jobDone,
         failedTasks' = 0 => failedTasks = 0,
         failedTasks' = 0 => \A t \in Template :
           pools'[t].allDone => pools[t].allDone \/ t \in mainDone'
  PROVE  ReleasedInv'
<1>1. ASSUME NEW t \in Main \cap Succeeded'
      PROVE  t \in mainDone' \/ t \in templateHandlerInFlight' \/ pools'[t].jobDone
  BY DEF ReleasedInv
<1>2. ASSUME failedTasks' = 0, NEW t \in Template, pools'[t].allDone
      PROVE  t \in mainDone'
  BY <1>2 DEF ReleasedInv
<1> QED
  BY <1>1, <1>2 DEF ReleasedInv

\* ReleasedInv, handleAdd: a pool with a fresh batch is not all done.
LEMMA ReleasedAdd ==
  ASSUME CoreInv, AddsInv, ReleasedInv, NEW c \in Caller, RecvAdd(c)
  PROVE  ReleasedInv'
<1> USE DEF CoreInv
<1>1. UNCHANGED <<taskStatus, mainDone, templateHandlerInFlight, failedTasks>>
  BY DEF RecvAdd, handleAdd, dagVars
<1>2. PICK p \in Task : p = c[2]
  BY AddFacts
<1>3. PICK ts \in Seq(Sub) : ts = Batch(c) /\ ts # <<>>
  BY AddFacts
<1>4. PICK o \in Pool(Sub) : o = pools[p]
  BY DEF SchedTypeOK
<1>5. PICK q : q = addTasks(o, ts)
  OBVIOUS
<1>6. /\ q.tasks = o.tasks \o ts /\ q.cursor = o.cursor /\ q.jobDone = o.jobDone
      /\ q.allDone <=> AllOver(q)
  BY <1>3, <1>5, AddTasksFields
<1>7. \A x \in Task : pools'[x] = IF x = p THEN q ELSE pools[x]
  BY <1>2, <1>3, <1>4, <1>5, AddEffects
<1>8. ~q.allDone
  <2>1. o.cursor <= Len(o.tasks)
    BY <1>4 DEF PoolInv, PoolOK
  <2>2. o.tasks \in Seq(Sub) /\ o.cursor \in Nat /\ Len(ts) > 0
    BY <1>3 DEF Pool
  <2>3. Len(q.tasks) = Len(o.tasks) + Len(ts)
    BY <1>6, <2>2
  <2>4. hasReady(q)
    BY <1>6, <2>1, <2>2, <2>3 DEF hasReady
  <2> QED
    BY <1>6, <2>4 DEF AllOver
<1>9. Succeeded' = Succeeded
  BY <1>1 DEF Succeeded
<1> QED
  BY <1>1, <1>4, <1>6, <1>7, <1>8, <1>9, ReleasedMake, TaskSets

\* ReleasedInv, a task succeeds: a template is in flight until its handler is
\* done, and a pool that becomes all done releases its template.
LEMMA ReleasedSuccess ==
  ASSUME CoreInv, OrderInv, ReleasedInv, NEW t \in Task,
         \/ RecvSubSuccess(t) \/ RecvTemplateSuccess(t) \/ RecvMainSuccess(t)
  PROVE  ReleasedInv'
<1> USE DEF CoreInv
<1>1. Succeeded' = Succeeded \cup {t} /\ failedTasks' = failedTasks
  BY SuccessFacts DEF RecvSubSuccess, RecvTemplateSuccess, RecvMainSuccess, RecvSuccess
<1>2. CASE RecvSubSuccess(t)
  <2>1. PICK p \in Task : p = subToParent[t]
    BY <1>2, SubSuccessFacts
  <2>2. PICK q : q = taskCompleted(pools[p])
    OBVIOUS
  <2>3. t \in Sub /\ q.jobDone = pools[p].jobDone /\ pools' = [pools EXCEPT ![p] = q]
    BY <1>2, <2>1, <2>2, SubSuccessFacts
  <2>4. mainDone \subseteq mainDone' /\ (q.allDone => p \in mainDone')
    <3>1. /\ q.allDone => p \in mainDone'
          /\ ~q.allDone => mainDone' = mainDone
          /\ tryComplete(p, q, [contextData EXCEPT ![t] = {}])
      BY <1>2, <2>1, <2>2, DepsSubSuccess, SubSuccessFacts
    <3> QED
      BY <3>1 DEF tryComplete, completeMain, Release, dagVars
  <2>5. templateHandlerInFlight' = templateHandlerInFlight
    BY <1>2 DEF RecvSubSuccess, onSubTaskSuccess
  <2>6. \A x \in Task : pools'[x] = IF x = p THEN q ELSE pools[x]
    BY <2>3 DEF SchedTypeOK
  <2> QED
    BY <1>1, <2>3, <2>4, <2>5, <2>6, ReleasedMake, TaskSets
<1>3. CASE RecvTemplateSuccess(t)
  <2>1. /\ pools' = pools /\ mainDone' = mainDone
        /\ templateHandlerInFlight' = templateHandlerInFlight \cup {t}
    BY <1>3 DEF RecvTemplateSuccess, onTemplateSuccess, dagVars
  <2> QED
    BY <1>1, <2>1, ReleasedMake
<1>4. CASE RecvMainSuccess(t)
  <2>1. /\ pools' = pools /\ mainDone' = mainDone \cup {t}
        /\ UNCHANGED templateHandlerInFlight
    BY <1>4 DEF RecvMainSuccess, onMainSuccess, Release
  <2> QED
    BY <1>1, <2>1, ReleasedMake
<1> QED
  BY <1>2, <1>3, <1>4

\* ReleasedInv, a task fails: failedTasks is no longer 0.
LEMMA ReleasedFailure ==
  ASSUME CoreInv, OrderInv, ReleasedInv, NEW t \in Task, RecvFailure(t)
  PROVE  ReleasedInv'
<1> USE DEF CoreInv
<1>1. onFailure(t, pools) /\ t \in running /\ UNCHANGED templateHandlerInFlight
  BY DEF RecvFailure, FreeSlot
<1>2. taskStatus[t] = "PENDING" /\ mainDone \subseteq mainDone' /\ failedTasks' # 0
  BY <1>1, RunFacts, DepsFailure, FailureCounts
<1>3. Succeeded' = Succeeded
  BY <1>1, <1>2, FailureMarks
<1>4. \A x \in Task : pools[x].jobDone => pools'[x].jobDone
  <2>1. CASE t \in Main
    BY <1>1, <2>1, TaskSets DEF onFailure
  <2>2. CASE t \in Sub
    <3>1. PICK p \in Task : p = subToParent[t]
      BY <1>1, <2>2, RunFacts
    <3>2. PICK q \in Pool(Sub) : /\ pools' = [pools EXCEPT ![p] = q]
                                 /\ q.jobDone = pools[p].jobDone
      BY <2>2, <3>1, FailurePool
    <3> QED
      BY <3>2, PoolsOf
  <2> QED
    BY <2>1, <2>2, TaskSets
<1> QED
  BY <1>1, <1>2, <1>3, <1>4, ReleasedMake, TaskSets

\* ReleasedInv, onTemplateHandlerDone.
LEMMA ReleasedDone ==
  ASSUME CoreInv, OrderInv, ReleasedInv, NEW t \in Task, RecvDone(t)
  PROVE  ReleasedInv'
<1> USE DEF CoreInv
<1>1. /\ templateHandlerInFlight' = templateHandlerInFlight \ {t}
      /\ UNCHANGED <<taskStatus, failedTasks>>
  BY DEF RecvDone, handleTemplateDone, countVars
<1>2. Succeeded' = Succeeded
  BY <1>1 DEF Succeeded
<1>3. PICK q : q = markJobDone(pools[t])
  OBVIOUS
<1>4. q.jobDone
  BY <1>3, JobDoneFields DEF SchedTypeOK
<1>5. /\ t \in Parents /\ ~q.allDone => mainDone' = mainDone
      /\ t \notin Parents \/ q.allDone => t \in mainDone'
  BY <1>3, DepsDone
<1>6. mainDone \subseteq mainDone'
  BY DEF RecvDone, handleTemplateDone, tryComplete, completeMain, Release, dagVars
<1>7. CASE t \in Parents
  <2>1. \A x \in Task : pools'[x] = IF x = t THEN q ELSE pools[x]
    BY <1>3, <1>7, PoolsOf DEF RecvDone, handleTemplateDone
  <2> QED
    BY <1>1, <1>2, <1>4, <1>5, <1>6, <1>7, <2>1, ReleasedMake, TaskSets
<1>8. CASE t \notin Parents
  <2>1. pools' = pools
    BY <1>8 DEF RecvDone, handleTemplateDone
  <2> QED
    BY <1>1, <1>2, <1>5, <1>6, <1>8, <2>1, ReleasedMake
<1> QED
  BY <1>7, <1>8

\* ReleasedInv, one iteration of submit.
LEMMA ReleasedSubmit ==
  ASSUME CoreInv, ReleasedInv, NEW t \in Task, NEW ps, Submit(t, ps),
         taskStatus[t] = "PENDING", mainDone \subseteq mainDone',
         \A x \in Main : pools[x].jobDone => pools'[x].jobDone,
         ~LacksParams(t, ps) => \A x \in Template : pools'[x].allDone => pools[x].allDone
  PROVE  ReleasedInv'
<1> USE DEF CoreInv
<1>1. Succeeded' = Succeeded /\ UNCHANGED templateHandlerInFlight
  BY SubmitMarks DEF Submit
<1>2. LacksParams(t, ps) => failedTasks' # 0
  BY FailureCounts DEF LacksParams
<1>3. failedTasks' = 0 => failedTasks = 0
  <2>1. ASSUME Refused(ps) \/ Accepted(t, ps) PROVE failedTasks' = 0 => failedTasks = 0
    BY <2>1 DEF Refused, Accepted, SchedTypeOK
  <2> QED
    BY <1>2, <2>1 DEF Submit
<1>4. failedTasks' = 0 => \A x \in Template : pools'[x].allDone => pools[x].allDone
  BY <1>2
<1> QED
  BY <1>1, <1>3, <1>4, ReleasedMake

\* ReleasedInv, a main task is picked.
LEMMA ReleasedSubmitMain ==
  ASSUME CoreInv, ReleasedInv, NEW t \in Main, SubmitMain(t)
  PROVE  ReleasedInv'
<1> USE DEF CoreInv
<1>1. t \in Task /\ taskStatus[t] = "PENDING" /\ Submit(t, pools)
  BY SubmitMainFacts DEF SubmitMain
<1>2. mainDone \subseteq mainDone'
  BY DepsSubmitMain
<1>3. pools' = pools
  BY <1>1, TaskSets DEF Submit, Accepted, LacksParams, Refused, onFailure
<1> QED
  BY <1>1, <1>2, <1>3, ReleasedSubmit

\* ReleasedInv, a subtask is picked: its pool is not all done.
LEMMA ReleasedSubmitSub ==
  ASSUME CoreInv, ReleasedInv, NEW t \in Sub, NEW p \in Task, SubmitSub(t, p)
  PROVE  ReleasedInv'
<1> USE DEF CoreInv
<1>1. t \in Task /\ taskStatus[t] = "PENDING" /\ Submit(t, PickedPool(p))
  BY SubmitSubFacts DEF SubmitSub
<1>2. mainDone' = mainDone
  BY DepsSubmitSub
<1>3. PICK q \in Pool(Sub) :
        /\ q.jobDone = pools[p].jobDone
        /\ q.allDone <=> AllOver(q)
        /\ pools' = [pools EXCEPT ![p] = q]
        /\ \/ q.runningCount = pools[p].runningCount /\ taskStatus'[t] = "FAILED"
           \/ q.runningCount = pools[p].runningCount + 1 /\ taskStatus'[t] = "PENDING"
  BY SubmitSubPool
<1>4. \A x \in Task : pools'[x] = IF x = p THEN q ELSE pools[x]
  BY <1>3 DEF SchedTypeOK
<1>5. ASSUME ~LacksParams(t, PickedPool(p)) PROVE ~q.allDone
  <2>1. taskStatus' = taskStatus
    BY <1>1, <1>5 DEF Submit, Accepted, Refused
  <2>2. q.runningCount = pools[p].runningCount + 1
    BY <1>1, <1>3, <2>1
  <2>3. pools[p].runningCount \in Nat
    BY DEF SchedTypeOK, Pool
  <2> QED
    BY <1>3, <2>2, <2>3 DEF AllOver
<1> QED
  BY <1>1, <1>2, <1>3, <1>4, <1>5, ReleasedSubmit, TaskSets

\* ReleasedInv is kept.
LEMMA ReleasedStep ==
  ASSUME CoreInv, AddsInv, OrderInv, ReleasedInv, V3TypeOK, [V3Next]_v3Vars
  PROVE  ReleasedInv'
<1> USE DEF CoreInv
<1>1. ASSUME UNCHANGED <<IdleVars, pools, subToParent>> PROVE ReleasedInv'
  BY <1>1, ReleasedMake DEF IdleVars, dagVars, Succeeded
<1>2. ASSUME NEW t \in Task, \/ RecvSubSuccess(t) \/ RecvTemplateSuccess(t)
                             \/ RecvMainSuccess(t) \/ RecvFailure(t) \/ RecvDone(t)
      PROVE  ReleasedInv'
  BY <1>2, ReleasedSuccess, ReleasedFailure, ReleasedDone
<1> QED
  BY StepCases, IdleSteps, <1>1, <1>2, ReleasedAdd, ReleasedSubmitMain, ReleasedSubmitSub

\* TotalsInv, handleAdd: totalTasks grows by the new subtasks.
LEMMA TotalsAdd ==
  ASSUME CoreInv, AddsInv, TotalsInv, NEW c \in Caller, RecvAdd(c)
  PROVE  TotalsInv'
<1> USE DEF CoreInv
<1>1. /\ totalTasks' = totalTasks + Len(Batch(c)) /\ successTasks' = successTasks
      /\ taskStatus' = taskStatus
  BY DEF RecvAdd, handleAdd
<1>2. PICK S : S = Elems(c)
  OBVIOUS
<1>3. IsFiniteSet(S) /\ Cardinality(S) = Len(Batch(c)) /\ S \subseteq Sub
  BY <1>2, AddFacts, InjectiveLength DEF Elems
<1>4. Accepteds' = Accepteds \cup S /\ Accepteds \cap S = {}
  <2>1. c[2] # None /\ \A s \in S : subToParent[s] = None
    BY <1>2, AddFacts, TaskSets
  <2>2. \A s \in Sub : subToParent'[s] = IF s \in S THEN c[2] ELSE subToParent[s]
    BY <1>2, AddEffects
  <2> QED
    BY <1>3, <2>1, <2>2 DEF Accepteds
<1>5. PICK A : A = Accepteds
  OBVIOUS
<1>6. /\ IsFiniteSet(A) /\ A \cap S = {} /\ Accepteds' = A \cup S
      /\ totalTasks = Cardinality(Main) + Cardinality(A)
  BY <1>4, <1>5 DEF TotalsInv
<1>7. /\ IsFiniteSet(A \cup S)
      /\ Cardinality(A \cup S) = Cardinality(A) + Cardinality(S) - Cardinality(A \cap S)
  BY <1>3, <1>6, FS_Union
<1>8. Cardinality(A) \in Nat /\ Cardinality(S) \in Nat /\ Cardinality({}) = 0
      /\ Cardinality(Main) \in Nat
  BY <1>3, <1>6, FS_CardinalityType, FS_EmptySet, V3Assumption
<1>9. Cardinality(A \cup S) = Cardinality(A) + Len(Batch(c))
  <2>1. Cardinality(A \cap S) = 0
    BY <1>6, <1>8
  <2> QED
    BY <1>3, <1>7, <1>8, <2>1
<1>10. totalTasks' = Cardinality(Main) + Cardinality(A \cup S)
  BY <1>1, <1>3, <1>6, <1>8, <1>9
<1>11. Succeeded' = Succeeded
  BY <1>1 DEF Succeeded
<1> QED
  BY <1>1, <1>6, <1>7, <1>10, <1>11 DEF TotalsInv

\* TotalsInv, a task succeeds for the first and only time.
LEMMA TotalsSuccess ==
  ASSUME CoreInv, OrderInv, TotalsInv, NEW t \in Task, RecvSuccess(t)
  PROVE  TotalsInv'
<1> USE DEF CoreInv
<1>1. Succeeded' = Succeeded \cup {t} /\ t \notin Succeeded
  BY SuccessFacts
<1>2. successTasks' = successTasks + 1 /\ UNCHANGED <<totalTasks, subToParent>>
  BY DEF RecvSuccess, FreeSlot
<1>3. /\ IsFiniteSet(Succeeded \cup {t})
      /\ Cardinality(Succeeded \cup {t}) = Cardinality(Succeeded) + 1
  BY <1>1, FS_AddElement DEF TotalsInv
<1> QED
  BY <1>1, <1>2, <1>3 DEF TotalsInv, Accepteds

\* TotalsInv, steps that touch none of its variables.
LEMMA TotalsFrame ==
  ASSUME TotalsInv, UNCHANGED <<subToParent, totalTasks, successTasks>>,
         Succeeded' = Succeeded
  PROVE  TotalsInv'
BY DEF TotalsInv, Accepteds

\* TotalsInv is kept.
LEMMA TotalsStep ==
  ASSUME CoreInv, AddsInv, OrderInv, TotalsInv, V3TypeOK, [V3Next]_v3Vars
  PROVE  TotalsInv'
<1> USE DEF CoreInv
<1>1. ASSUME UNCHANGED <<IdleVars, subToParent, totalTasks>> PROVE TotalsInv'
  BY <1>1, TotalsFrame DEF IdleVars, Succeeded
<1>2. ASSUME NEW t \in Task, \/ RecvSubSuccess(t) \/ RecvTemplateSuccess(t)
                             \/ RecvMainSuccess(t)
      PROVE  TotalsInv'
  BY <1>2, TotalsSuccess DEF RecvSubSuccess, RecvTemplateSuccess, RecvMainSuccess
<1>3. ASSUME NEW t \in Task, RecvFailure(t) PROVE TotalsInv'
  <2>1. /\ onFailure(t, pools) /\ t \in running
        /\ UNCHANGED <<subToParent, totalTasks, successTasks>>
    BY <1>3 DEF RecvFailure, FreeSlot, onFailure
  <2>2. Succeeded' = Succeeded
    BY <2>1, RunFacts, FailureMarks
  <2> QED
    BY <2>1, <2>2, TotalsFrame
<1>4. ASSUME NEW t \in Task, RecvDone(t) PROVE TotalsInv'
  <2>1. UNCHANGED <<subToParent, totalTasks, successTasks, taskStatus>>
    BY <1>4 DEF RecvDone, handleTemplateDone, countVars
  <2> QED
    BY <2>1, TotalsFrame DEF Succeeded
<1>5. ASSUME NEW t \in Task, NEW ps, Submit(t, ps), taskStatus[t] = "PENDING"
      PROVE  TotalsInv'
  <2>1. UNCHANGED <<subToParent, totalTasks, successTasks>>
    BY <1>5 DEF Submit, Accepted, LacksParams, Refused, onFailure
  <2> QED
    BY <1>5, <2>1, SubmitMarks, TotalsFrame
<1>6. ASSUME NEW t \in Main, SubmitMain(t) PROVE TotalsInv'
  BY <1>5, <1>6, SubmitMainFacts DEF SubmitMain
<1>7. ASSUME NEW t \in Sub, NEW p \in Task, SubmitSub(t, p) PROVE TotalsInv'
  BY <1>5, <1>7, SubmitSubFacts DEF SubmitSub
<1> QED
  BY StepCases, IdleSteps, <1>1, <1>2, <1>3, <1>4, <1>6, <1>7, TotalsAdd

\* When nothing is left and nothing failed, everything succeeded and every
\* main task is done: AcyclicDeps leaves no main task waiting for another.
LEMMA Ends ==
  ASSUME V3IInv, ReleasedInv, NothingLeft, failedTasks = 0
  PROVE  Main \subseteq Done /\ Accepteds \subseteq Succeeded
<1> USE DEF V3IInv
<1>0. CoreInv
  BY DEF CoreInv, V3TypeOK
<1>1. /\ running = {} /\ readyMain = <<>> /\ templateHandlerInFlight = {}
      /\ \A t \in Parents : pools[t].runningCount = 0 /\ ~hasReady(pools[t])
                            /\ pools[t].allDone
  BY DEF NothingLeft
<1>2. ASSUME NEW t \in mainSubmitted PROVE t \in Task /\ t \in Succeeded
  <2>1. t \in Task /\ taskStatus[t] \in {"PENDING", "SUCCESS", "FAILED"}
    BY DEF V3TypeOK, SchedTypeOK
  <2>2. taskStatus[t] # "PENDING" /\ taskStatus[t] # "FAILED"
    BY <1>1, <2>1 DEF PendingInv
  <2> QED
    BY <2>1, <2>2 DEF Succeeded
<1>3. ASSUME NEW t \in Main \cap Succeeded PROVE t \in Done
  <2>1. t \in mainDone \/ pools[t].jobDone
    BY <1>1 DEF ReleasedInv
  <2>2. ASSUME pools[t].jobDone PROVE t \in mainDone
    <3>0. t \in Task /\ PoolOK(t)
      BY TaskSets DEF PoolInv
    <3>1. t \in Template /\ t \in Parents
      BY <2>2, <3>0 DEF PoolOK, newSubTaskPool
    <3>2. pools[t].allDone
      BY <1>1, <3>1
    <3> QED
      BY <3>1, <3>2 DEF ReleasedInv
  <2> QED
    BY <2>1, <2>2 DEF Done
<1>4. Main \subseteq Done
  <2>1. SUFFICES ASSUME Main \ Done # {} PROVE FALSE
    OBVIOUS
  <2>2. PICK t \in Main \ Done : Deps[t] \cap (Main \ Done) = {}
    BY <2>1, AcyclicDeps
  <2>3. Deps[t] \subseteq Done
    BY <2>2, DepsInMain
  <2>4. t \in mainSubmitted \/ t \in mainDone
    BY <1>1, <2>2, <2>3 DEF DepsInv
  <2>5. t \notin mainSubmitted
    BY <1>2, <1>3, <2>2
  <2>6. t \in mainDone /\ t \in Task /\ taskStatus[t] = "PENDING"
    BY <2>2, <2>4, <2>5, TaskSets DEF FreshInv
  <2>7. PICK d \in Deps[t] : taskStatus[d] = "FAILED"
    BY <2>6 DEF DepsInv, MarkedInv
  <2>8. d \in Task
    BY <2>2, <2>7, DepsInMain, TaskSets
  <2> QED
    BY <2>7, <2>8 DEF PendingInv
<1>5. ASSUME NEW s \in Accepteds PROVE s \in Succeeded
  <2>1. PICK p \in Task : p = subToParent[s]
    BY <1>5 DEF Accepteds, V3TypeOK, SchedTypeOK
  <2>2. s \in SubTasksOf(p)
    BY <1>5, <2>1 DEF SubTasksOf, Accepteds
  <2>3. p \in Parents
    BY <1>0, <2>2, PoolActive DEF CoreInv
  <2>4. ~hasReady(pools[p]) /\ PoolOK(p) /\ pools[p] \in Pool(Sub)
    BY <1>1, <2>3 DEF PoolInv, V3TypeOK, SchedTypeOK
  <2>5. PICK i \in 1 .. Len(pools[p].tasks) : pools[p].tasks[i] = s
    BY <2>2, <2>4 DEF PoolOK, SubTasks
  <2>6. i <= pools[p].cursor
    BY <2>4, <2>5 DEF hasReady, Pool
  <2>7. s \in mainSubmitted
    BY <2>4, <2>5, <2>6 DEF PoolOK
  <2> QED
    BY <1>2, <2>7
<1> QED
  BY <1>4, <1>5

\* Then the counters agree: progress is 100%.
LEMMA EarnedCounts ==
  ASSUME V3IInv, TotalsInv, Main \subseteq Done, Accepteds \subseteq Succeeded
  PROVE  successTasks = totalTasks
<1>1. Succeeded = Main \cup Accepteds
  <2>1. \A t \in Succeeded : t \in Main \/ t \in Accepteds
    <3>1. SUFFICES ASSUME NEW t \in Succeeded, t \notin Main PROVE t \in Accepteds
      OBVIOUS
    <3>2. t \in Sub /\ t \in Task /\ taskStatus[t] = "SUCCESS"
      BY <3>1, TaskSets DEF Succeeded
    <3>3. t \in mainSubmitted
      BY <3>2 DEF V3IInv, FreshInv
    <3> QED
      BY <3>2, <3>3 DEF V3IInv, PoolInv, Accepteds
  <2> QED
    BY <2>1 DEF Done
<1>2. PICK A : A = Accepteds
  OBVIOUS
<1>3. IsFiniteSet(A) /\ Main \cap A = {} /\ Succeeded = Main \cup A
  BY <1>1, <1>2, V3Assumption DEF TotalsInv, Accepteds
<1>4. Cardinality(Main \cup A) = Cardinality(Main) + Cardinality(A) - Cardinality(Main \cap A)
  BY <1>3, FS_Union, V3Assumption
<1>5. /\ Cardinality(Main) \in Nat /\ Cardinality(A) \in Nat
      /\ Cardinality(Main \cap A) = 0
  BY <1>3, FS_CardinalityType, FS_EmptySet, V3Assumption
<1>6. Cardinality(Main \cup A) = Cardinality(Main) + Cardinality(A)
  BY <1>4, <1>5
<1>7. /\ totalTasks = Cardinality(Main) + Cardinality(A)
      /\ successTasks = Cardinality(Main \cup A)
  BY <1>2, <1>3 DEF TotalsInv
<1> QED
  BY <1>6, <1>7

\* The inductive invariant of this module.
DagIInv == V3IInv /\ ReleasedInv /\ TotalsInv

\* DagIInv is inductive.
LEMMA DagInvariant == V3Spec => []DagIInv
<1>1. V3Init => DagIInv
  <2> SUFFICES ASSUME V3Init PROVE ReleasedInv /\ TotalsInv
    BY InitInv DEF DagIInv
  <2>1. Succeeded = {} /\ Accepteds = {}
    BY DEF V3Init, Succeeded, Accepteds
  <2>2. \A t \in Template : ~pools[t].allDone
    BY TaskSets DEF V3Init, newSubTaskPool
  <2>3. Cardinality(Main) \in Nat /\ IsFiniteSet({}) /\ Cardinality({}) = 0
    BY FS_CardinalityType, FS_EmptySet, V3Assumption
  <2>4. totalTasks = Cardinality(Main) /\ successTasks = 0
    BY DEF V3Init
  <2>5. totalTasks = Cardinality(Main) + Cardinality(Accepteds)
    BY <2>1, <2>3, <2>4
  <2> QED
    BY <2>1, <2>2, <2>3, <2>4, <2>5 DEF ReleasedInv, TotalsInv
<1>2. DagIInv /\ [V3Next]_v3Vars => DagIInv'
  <2> SUFFICES ASSUME DagIInv, [V3Next]_v3Vars PROVE DagIInv'
    OBVIOUS
  <2>1. /\ CoreInv /\ V3TypeOK /\ AddsInv /\ OrderInv /\ V3IInv
        /\ ReleasedInv /\ TotalsInv
    BY DEF DagIInv, V3IInv, CoreInv, V3TypeOK
  <2> QED
    BY <2>1, NextInv, ReleasedStep, TotalsStep DEF DagIInv
<1> QED
  BY <1>1, <1>2, PTL DEF V3Spec

\* checkDone says Success only when every main task and every accepted subtask
\* succeeded and the progress is 100%, for every graph, batch and interleaving.
THEOREM SuccessIsEarnedCorrect == V3Spec => SuccessIsEarned
<1>1. DagIInv /\ [V3Next]_v3Vars =>
        [status' = "Success" /\ status # "Success" =>
           /\ Main \cup {s \in Sub : subToParent[s] # None} \subseteq Succeeded
           /\ successTasks = totalTasks /\ failedTasks = 0]_v3Vars
  <2> SUFFICES ASSUME DagIInv, [V3Next]_v3Vars, status' = "Success", status # "Success"
               PROVE  /\ Main \cup {s \in Sub : subToParent[s] # None} \subseteq Succeeded
                      /\ successTasks = totalTasks /\ failedTasks = 0
    OBVIOUS
  <2>1. V3IInv /\ ReleasedInv /\ TotalsInv /\ V3TypeOK
    BY DEF DagIInv, V3IInv
  <2>2. NothingLeft /\ failedTasks = 0
    BY <2>1, StatusSteps
  <2>3. Main \subseteq Done /\ Accepteds \subseteq Succeeded
    BY <2>1, <2>2, Ends
  <2>4. successTasks = totalTasks
    BY <2>1, <2>3, EarnedCounts
  <2> QED
    BY <2>2, <2>3, <2>4 DEF Done, Accepteds
<1> QED
  BY <1>1, DagInvariant, PTL DEF V3Spec, SuccessIsEarned

-----------------------------------------------------------------------------
(* A Success stays true.                                                   *)

\* SUCCESS handlers of tasks that are not templates add no subtasks.
OnlyTemplatesAdd == \A t \in Task \ Template : HandlerBatch[t] = <<>>

\* A Success stays true.
SuccessInv == status = "Success" => Main \subseteq Done /\ Accepteds \subseteq Succeeded

\* Once everything succeeded, no batch of a template is on its way.
LEMMA NothingToAdd ==
  ASSUME DagIInv, OnlyTemplatesAdd, Main \subseteq Done, Accepteds \subseteq Succeeded,
         NEW c \in Caller, RecvAdd(c)
  PROVE  FALSE
<1> USE DEF DagIInv, V3IInv, V3TypeOK
<1>1. PICK t \in Task : t = c[2]
  BY AddFacts
<1>2. InInbox(AddMsg(c)) /\ Batch(c) # <<>>
  BY AddFacts
<1>3. CASE c = <<"job", t>>
  <2>1. CASE t \in Succeeded
    BY <1>2, <1>3, <2>1 DEF OrderInv, JobsSettled, Settled
  <2>2. CASE t \notin Succeeded
    <3>1. t \in Sub /\ t \notin Accepteds
      BY <2>2, TaskSets DEF Done
    <3>2. t \notin mainSubmitted
      BY <3>1 DEF Accepteds, PoolInv
    <3>3. call[c] = "idle"
      BY <1>3, <3>2 DEF FreshInv
    <3> QED
      BY <1>2, <3>3 DEF AddsInv
  <2> QED
    BY <2>1, <2>2
<1>4. CASE c = <<"handler", t>>
  <2>1. t \in Template
    BY <1>2, <1>4 DEF OnlyTemplatesAdd, Batch
  <2>2. t \in mainDone /\ t \in Succeeded
    BY <2>1, V3Assumption DEF Done
  <2>3. Settled(c)
    BY <1>4, <2>1, <2>2 DEF OrderInv, HandlersSettled
  <2> QED
    BY <1>2, <2>3 DEF Settled
<1> QED
  BY <1>1, <1>3, <1>4 DEF Caller

\* What is done and what succeeded stays so.
LEMMA DoneKeeps ==
  ASSUME DagIInv, [V3Next]_v3Vars
  PROVE  Done \subseteq Done' /\ Succeeded \subseteq Succeeded'
<1> USE DEF DagIInv, V3IInv, V3TypeOK, CoreInv
<1>1. Done \subseteq Done'
  BY DepsStep
<1>2. ASSUME UNCHANGED IdleVars PROVE Succeeded' = Succeeded
  BY <1>2 DEF IdleVars, Succeeded
<1>3. ASSUME NEW c \in Caller, RecvAdd(c) PROVE Succeeded' = Succeeded
  BY <1>3, AddEffects DEF Succeeded
<1>4. ASSUME NEW t \in Task, \/ RecvSubSuccess(t) \/ RecvTemplateSuccess(t)
                             \/ RecvMainSuccess(t)
      PROVE  Succeeded \subseteq Succeeded'
  BY <1>4, SuccessFacts DEF RecvSubSuccess, RecvTemplateSuccess, RecvMainSuccess
<1>5. ASSUME NEW t \in Task, RecvFailure(t) PROVE Succeeded' = Succeeded
  <2>1. onFailure(t, pools) /\ taskStatus[t] = "PENDING"
    BY <1>5, RunFacts DEF RecvFailure, FreeSlot
  <2> QED
    BY <2>1, FailureMarks
<1>6. ASSUME NEW t \in Task, RecvDone(t) PROVE Succeeded' = Succeeded
  BY <1>6 DEF RecvDone, handleTemplateDone, Succeeded
<1>7. ASSUME NEW t \in Main, SubmitMain(t) PROVE Succeeded' = Succeeded
  BY <1>7, SubmitMainFacts, SubmitMarks DEF SubmitMain
<1>8. ASSUME NEW t \in Sub, NEW p \in Task, SubmitSub(t, p) PROVE Succeeded' = Succeeded
  BY <1>8, SubmitSubFacts, SubmitMarks DEF SubmitSub
<1> QED
  BY <1>1, <1>2, <1>3, <1>4, <1>5, <1>6, <1>7, <1>8, StepCases, IdleSteps

\* Only handleAdd changes subToParent.
LEMMA SubToParentSteps ==
  ASSUME DagIInv, [V3Next]_v3Vars
  PROVE  subToParent' = subToParent \/ \E c \in Caller : RecvAdd(c)
<1> USE DEF DagIInv, V3IInv, V3TypeOK
<1>1. ASSUME NEW t \in Task, \/ RecvSubSuccess(t) \/ RecvTemplateSuccess(t)
                             \/ RecvMainSuccess(t) \/ RecvFailure(t) \/ RecvDone(t)
      PROVE  subToParent' = subToParent
  BY <1>1 DEF RecvSubSuccess, RecvTemplateSuccess, RecvMainSuccess, RecvSuccess,
     RecvFailure, RecvDone, FreeSlot
<1>2. ASSUME NEW t, NEW ps, Submit(t, ps) PROVE subToParent' = subToParent
  BY <1>2 DEF Submit
<1> QED
  BY <1>1, <1>2, StepCases, IdleSteps DEF SubmitMain, SubmitSub

\* SuccessInv is kept, and nothing is added to a Success.
LEMMA EndStep ==
  ASSUME DagIInv, SuccessInv, OnlyTemplatesAdd, [V3Next]_v3Vars
  PROVE  SuccessInv' /\ (status = "Success" => subToParent' = subToParent)
<1>1. V3TypeOK /\ V3IInv /\ ReleasedInv
  BY DEF DagIInv, V3IInv
<1>2. status = "Success" => subToParent' = subToParent
  BY SubToParentSteps, NothingToAdd DEF SuccessInv
<1>3. CASE status = "Success"
  BY <1>2, <1>3, DoneKeeps DEF SuccessInv, Accepteds
<1>4. CASE status # "Success" /\ status' = "Success"
  <2>1. Quiet /\ NothingLeft /\ failedTasks = 0
    BY <1>1, <1>4, StatusSteps
  <2>2. Main \subseteq Done /\ Accepteds \subseteq Succeeded
    BY <1>1, <2>1, Ends
  <2>3. Accepteds' = Accepteds
    BY <2>1 DEF Quiet, poolVars, Accepteds
  <2> QED
    BY <1>4, <2>2, <2>3, DoneKeeps DEF SuccessInv
<1>5. CASE status' # "Success"
  BY <1>2, <1>5 DEF SuccessInv
<1> QED
  BY <1>3, <1>4, <1>5

\* Moreover a Success takes no more subtasks, if the SUCCESS handlers of tasks
\* that are not templates add none: nothing in the manager waits for those.
THEOREM SuccessIsSoundCorrect ==
  ASSUME OnlyTemplatesAdd
  PROVE  V3Spec => SuccessIsSound
<1>1. V3Init => SuccessInv
  BY DEF V3Init, LCInit, SuccessInv
<1>2. DagIInv /\ SuccessInv /\ [V3Next]_v3Vars => SuccessInv'
  BY EndStep
<1>3. DagIInv /\ SuccessInv /\ [V3Next]_v3Vars =>
        [status = "Success" => subToParent' = subToParent]_v3Vars
  BY EndStep
<1>4. V3Spec => []DagIInv
  BY DagInvariant
<1>5. V3Spec => []SuccessInv
  BY <1>1, <1>2, <1>4, PTL DEF V3Spec
<1>6. V3Spec => NoSubTaskAfterSuccess
  BY <1>3, <1>4, <1>5, PTL DEF V3Spec, NoSubTaskAfterSuccess
<1> QED
  BY <1>6, SuccessIsEarnedCorrect, PTL DEF SuccessIsSound

-----------------------------------------------------------------------------
(* The manager implements DagExecution.                                    *)

\* The phase of t, in the manager's variables.
PhaseMeaning(t) ==
  /\ PhaseOf(t) = "waiting" <=> t \notin mainSubmitted
  /\ PhaseOf(t) = "failed" <=> t \in mainSubmitted /\ taskStatus[t] = "FAILED"
  /\ PhaseOf(t) = "started" <=> t \in mainSubmitted /\ taskStatus[t] = "PENDING"
  /\ PhaseOf(t) = "complete" <=> t \in Succeeded /\ (t \in Sub \/ t \in mainDone)
  /\ PhaseOf(t) = "expanding" <=> t \in Succeeded \cap Main /\ t \notin mainDone

\* Every task's phase means what PhaseMeaning says.
LEMMA Phases == DagIInv => \A t \in Task : PhaseMeaning(t)
BY PhaseFacts DEF PhaseMeaning, DagIInv, V3IInv, V3TypeOK

\* PhaseMeaning of all tasks.
AllPhases == \A t \in Task : PhaseMeaning(t)

\* The same after a step.
LEMMA PhasesNext == DagIInv' => \A t \in Task : PhaseMeaning(t)'
<1>1. DagIInv => AllPhases
  BY Phases DEF AllPhases
<1>2. DagIInv' => AllPhases'
  BY <1>1, PTL
<1> QED
  BY <1>2 DEF AllPhases

\* One task changes its phase.
LEMMA OnePhase ==
  ASSUME NEW t \in Task, NEW v, PhaseOf(t)' = v,
         \A x \in Task : x # t => PhaseOf(x)' = PhaseOf(x)
  PROVE  Phase' = [Phase EXCEPT ![t] = v]
BY DEF Phase

\* No task changes its phase.
LEMMA NoPhase ==
  ASSUME \A x \in Task : PhaseOf(x)' = PhaseOf(x)
  PROVE  Phase' = Phase
BY DEF Phase

\* PhaseSame, from the invariant.
LEMMA PhaseKeeps ==
  ASSUME DagIInv, NEW t \in Task,
         t \in mainSubmitted' <=> t \in mainSubmitted,
         taskStatus'[t] = taskStatus[t],
         t \in Succeeded => (t \in mainDone' <=> t \in mainDone)
  PROVE  PhaseOf(t)' = PhaseOf(t)
BY PhaseSame DEF DagIInv, V3IInv, V3TypeOK

\* A task that submit takes starts, its dependencies complete.
LEMMA DagSubmit ==
  ASSUME DagIInv, DagIInv', NEW t \in Task, NEW ps, Submit(t, ps),
         t \notin mainSubmitted, taskStatus[t] = "PENDING",
         mainDone \subseteq mainDone',
         t \in Main => Deps[t] \subseteq Done,
         t \in Sub => subToParent[t] # None
  PROVE  Dag!Start(t)
<1> USE DEF DagIInv, V3IInv, V3TypeOK, CoreInv
<1>1. /\ Succeeded' = Succeeded /\ \A x \in Succeeded : x \in mainDone' => x \in mainDone
      /\ mainSubmitted' = mainSubmitted \cup {t}
      /\ UNCHANGED <<subToParent, status>>
  BY SubmitMarks DEF Submit, lcVars
<1>2. \A x \in Task : x # t => taskStatus'[x] = taskStatus[x]
  BY DEF Submit, Accepted, LacksParams, Refused, onFailure, SchedTypeOK
<1>3. ASSUME NEW x \in Task, x # t PROVE PhaseOf(x)' = PhaseOf(x)
  BY <1>1, <1>2, <1>3, PhaseKeeps
<1>4. PhaseMeaning(t) /\ PhaseMeaning(t)'
  BY Phases, PhasesNext
<1>5. Phase[t] = "waiting"
  BY <1>4 DEF PhaseMeaning, Phase
<1>6. PhaseOf(t)' \in {"started", "failed"}
  <2>1. t \notin Succeeded' /\ t \in mainSubmitted'
    BY <1>1 DEF Succeeded
  <2>2. taskStatus'[t] \in {"PENDING", "SUCCESS", "FAILED"}
    BY DEF SchedTypeOK
  <2>3. taskStatus'[t] # "SUCCESS"
    BY <2>1 DEF Succeeded
  <2> QED
    BY <1>4, <2>1, <2>2, <2>3 DEF PhaseMeaning
<1>7. Phase' = [Phase EXCEPT ![t] = PhaseOf(t)']
  BY <1>3, OnePhase
<1>8. t \in Main => \A d \in Deps[t] : Phase[d] = "complete"
  <2>1. SUFFICES ASSUME t \in Main, NEW d \in Deps[t] PROVE Phase[d] = "complete"
    OBVIOUS
  <2>2. d \in Task /\ d \in Done
    BY <2>1, DepsInMain, TaskSets
  <2> QED
    BY <2>2, Phases DEF PhaseMeaning, Phase, Done
<1>9. Dag!MayStart(t)
  BY <1>8, TaskSets DEF Dag!MayStart, Phase
<1> QED
  BY <1>1, <1>5, <1>6, <1>7, <1>9 DEF Dag!Start, Phase

\* A step that leaves the tasks and the status alone is a stutter.
LEMMA DagIdle ==
  ASSUME UNCHANGED <<IdleVars, subToParent, status>>
  PROVE  UNCHANGED Dag!dagExecVars
<1>1. Phase' = Phase
  BY DEF Phase, PhaseOf, IdleVars, dagVars
<1> QED
  BY <1>1 DEF Dag!dagExecVars, Phase

\* The result of a failed task fails it.
LEMMA DagFail ==
  ASSUME DagIInv, DagIInv', NEW t \in Task, RecvFailure(t)
  PROVE  Dag!Fail(t)
<1> USE DEF DagIInv, V3IInv, V3TypeOK, CoreInv
<1>1. /\ onFailure(t, pools) /\ t \in running
      /\ UNCHANGED <<mainSubmitted, subToParent, status>>
  BY DEF RecvFailure, FreeSlot, Recv, lcVars
<1>2. t \in mainSubmitted /\ taskStatus[t] = "PENDING" /\ mainDone \subseteq mainDone'
  BY <1>1, RunFacts, DepsFailure
<1>3. Succeeded' = Succeeded /\ \A x \in Succeeded : x \in mainDone' => x \in mainDone
  BY <1>1, <1>2, FailureMarks
<1>4. taskStatus' = [taskStatus EXCEPT ![t] = "FAILED"]
  BY <1>1 DEF onFailure
<1>5. ASSUME NEW x \in Task, x # t PROVE PhaseOf(x)' = PhaseOf(x)
  <2>1. taskStatus'[x] = taskStatus[x]
    BY <1>4, <1>5
  <2> QED
    BY <1>1, <1>2, <1>3, <2>1, PhaseKeeps
<1>6. taskStatus'[t] = "FAILED"
  BY <1>4 DEF SchedTypeOK
<1>7. PhaseOf(t)' = "failed"
  BY <1>1, <1>2, <1>6, PhasesNext DEF PhaseMeaning
<1>8. Phase' = [Phase EXCEPT ![t] = "failed"]
  BY <1>5, <1>7, OnePhase
<1>9. Phase[t] = "started"
  BY <1>2, Phases DEF PhaseMeaning, Phase
<1> QED
  BY <1>1, <1>8, <1>9 DEF Dag!Fail, Phase

\* What a success does to the phases.
LEMMA SuccessPhases ==
  ASSUME DagIInv, DagIInv', NEW t \in Task, RecvSuccess(t)
  PROVE  /\ Phase[t] = "started" /\ UNCHANGED <<subToParent, status>>
         /\ t \in Sub => PhaseOf(t)' = "complete"
         /\ t \in Main => PhaseOf(t)' = IF t \in mainDone' THEN "complete" ELSE "expanding"
         /\ \A x \in Task : x # t /\ (x \in Succeeded => (x \in mainDone' <=> x \in mainDone))
                               => PhaseOf(x)' = PhaseOf(x)
<1> USE DEF DagIInv, V3IInv, V3TypeOK, CoreInv
<1>1. /\ t \in mainSubmitted /\ taskStatus[t] = "PENDING"
      /\ taskStatus' = [taskStatus EXCEPT ![t] = "SUCCESS"]
      /\ Succeeded' = Succeeded \cup {t} /\ mainSubmitted' = mainSubmitted
  BY SuccessFacts
<1>2. UNCHANGED <<subToParent, status>>
  BY DEF RecvSuccess, FreeSlot, Recv, lcVars
<1>3. Phase[t] = "started"
  BY <1>1, Phases DEF PhaseMeaning, Phase
<1>4. /\ t \in Sub => PhaseOf(t)' = "complete"
      /\ t \in Main => PhaseOf(t)' = IF t \in mainDone' THEN "complete" ELSE "expanding"
  BY <1>1, PhasesNext DEF PhaseMeaning
<1>5. ASSUME NEW x \in Task, x # t, x \in Succeeded => (x \in mainDone' <=> x \in mainDone)
      PROVE  PhaseOf(x)' = PhaseOf(x)
  <2>1. taskStatus'[x] = taskStatus[x]
    BY <1>1, <1>5
  <2> QED
    BY <1>1, <1>5, <2>1, PhaseKeeps
<1> QED
  BY <1>2, <1>3, <1>4, <1>5

\* The result of a main task that succeeded: it is complete, or expanding.
LEMMA DagMainSuccess ==
  ASSUME DagIInv, DagIInv', NEW t \in Task, RecvTemplateSuccess(t) \/ RecvMainSuccess(t)
  PROVE  Dag!Succeed(t)
<1> USE DEF DagIInv, V3IInv, V3TypeOK, CoreInv
<1> DEFINE v == IF t \in Template THEN "expanding" ELSE "complete"
<1>1. RecvSuccess(t)
  BY DEF RecvTemplateSuccess, RecvMainSuccess
<1>2. /\ t \in Main /\ (t \in mainDone' <=> t \notin Template)
      /\ \A x \in Task : x # t => (x \in mainDone' <=> x \in mainDone)
  <2>1. CASE RecvTemplateSuccess(t)
    BY <2>1, DepsTemplateSuccess DEF RecvTemplateSuccess
  <2>2. CASE RecvMainSuccess(t)
    BY <2>2, DepsMainSuccess
  <2> QED
    BY <2>1, <2>2
<1>3. PhaseOf(t)' = v
  BY <1>1, <1>2, SuccessPhases
<1>4. \A x \in Task : x # t => PhaseOf(x)' = PhaseOf(x)
  BY <1>1, <1>2, SuccessPhases
<1>5. Phase' = [Phase EXCEPT ![t] = v]
  BY <1>3, <1>4, OnePhase
<1> QED
  BY <1>1, <1>5, SuccessPhases DEF Dag!Succeed, Phase

\* The subtasks of a pool that is all done are complete or failed.
ProcessedPools ==
  \A p \in Task : pools[p].allDone =>
    \A s \in Sub : subToParent[s] = p => PhaseOf(s) \in {"complete", "failed"}

\* A pool that is all done has processed every subtask.
LEMMA PoolsProcessed == DagIInv => ProcessedPools
<1> SUFFICES ASSUME DagIInv, NEW p \in Task, pools[p].allDone,
                    NEW s \in Sub, subToParent[s] = p
             PROVE  PhaseOf(s) \in {"complete", "failed"}
  BY DEF ProcessedPools
<1> USE DEF DagIInv, V3IInv, V3TypeOK
<1>1. s \in SubTasksOf(p) /\ s \in Task
  BY TaskSets DEF SubTasksOf
<1>2. PICK o \in Pool(Sub) : o = pools[p]
  BY DEF SchedTypeOK
<1>3. PoolOK(p)
  BY DEF PoolInv
<1>4. o.runningCount = 0 /\ ~hasReady(o)
  BY <1>2, <1>3 DEF PoolOK, AllOver
<1>5. s \in SubTasks(o) /\ o.runningCount = Cardinality(Outstanding(p))
      /\ \A i \in 1 .. Len(o.tasks) : o.tasks[i] \in mainSubmitted <=> i <= o.cursor
  BY <1>1, <1>2, <1>3 DEF PoolOK
<1>6. PICK i \in 1 .. Len(o.tasks) : o.tasks[i] = s
  BY <1>5 DEF SubTasks
<1>7. i <= o.cursor
  BY <1>4, <1>6 DEF hasReady, Pool
<1>8. s \in mainSubmitted
  BY <1>5, <1>6, <1>7
<1>9. Outstanding(p) = {}
  BY <1>4, <1>5, SubFinite, FS_EmptySet
<1>10. taskStatus[s] # "PENDING"
  BY <1>1, <1>8, <1>9 DEF Outstanding
<1>11. taskStatus[s] \in {"PENDING", "SUCCESS", "FAILED"}
  BY <1>1 DEF SchedTypeOK
<1> QED
  BY <1>1, <1>8, <1>10, <1>11, Phases DEF PhaseMeaning, Succeeded

\* The same after a step.
LEMMA PoolsProcessedNext == DagIInv' => ProcessedPools'
BY PoolsProcessed, PTL

\* The result of a subtask that succeeded may complete its template too.
LEMMA DagSubSuccess ==
  ASSUME DagIInv, DagIInv', NEW t \in Task, RecvSubSuccess(t)
  PROVE  Dag!Succeed(t)
<1> USE DEF DagIInv, V3IInv, V3TypeOK, CoreInv
<1>1. RecvSuccess(t) /\ t \in Sub /\ t \notin Template
  BY TaskSets DEF RecvSubSuccess
<1>2. PICK p \in Task : p = subToParent[t]
  BY SubSuccessFacts
<1>3. PICK q : q = taskCompleted(pools[p])
  OBVIOUS
<1>4. /\ tryComplete(p, q, [contextData EXCEPT ![t] = {}])
      /\ q.allDone => p \in Main /\ p \in Task /\ taskStatus[p] = "SUCCESS" /\ p \in mainDone'
      /\ pools' = [pools EXCEPT ![p] = q]
  BY <1>2, <1>3, SubSuccessFacts, DepsSubSuccess
<1>5. /\ \A x \in mainDone' : x \in mainDone \/ (x = p /\ q.allDone)
      /\ mainDone \subseteq mainDone'
  BY <1>4, TryDone DEF tryComplete, completeMain, Release, dagVars
<1>6. Phase[t] = "started" /\ PhaseOf(t)' = "complete" /\ UNCHANGED <<subToParent, status>>
  BY <1>1, SuccessPhases
<1>7. \A x \in Task : x # t /\ (x \in Succeeded => (x \in mainDone' <=> x \in mainDone))
                        => PhaseOf(x)' = PhaseOf(x)
  BY <1>1, SuccessPhases
<1>8. CASE ~q.allDone \/ p \in mainDone
  <2>1. \A x \in Task : x # t => PhaseOf(x)' = PhaseOf(x)
    BY <1>5, <1>7, <1>8
  <2>2. Phase' = [Phase EXCEPT ![t] = "complete"]
    BY <1>6, <2>1, OnePhase
  <2> QED
    BY <1>1, <1>6, <2>2 DEF Dag!Succeed, Phase
<1>9. CASE q.allDone /\ p \notin mainDone
  <2>1. \A x \in Task : x # t /\ x # p => PhaseOf(x)' = PhaseOf(x)
    BY <1>5, <1>7
  <2>2. p \in Main /\ p \in Succeeded /\ p # t /\ p \in mainDone'
    BY <1>1, <1>4, <1>9, TaskSets DEF Succeeded
  <2>3. Phase[p] = "expanding"
    BY <1>9, <2>2, Phases DEF PhaseMeaning, Phase
  <2>4. PhaseOf(p)' = "complete"
    <3>1. p \in Succeeded'
      BY <1>1, <2>2, SuccessFacts
    <3> QED
      BY <2>2, <3>1, PhasesNext DEF PhaseMeaning
  <2>5. Phase' = [[Phase EXCEPT ![t] = "complete"] EXCEPT ![p] = "complete"]
    BY <1>6, <2>1, <2>4 DEF Phase
  <2>6. ASSUME NEW s \in Sub, subToParent[s] = p
        PROVE  [Phase EXCEPT ![t] = "complete"][s] \in {"complete", "failed"}
    <3>1. pools'[p].allDone
      BY <1>4, <1>9 DEF SchedTypeOK
    <3>2. PhaseOf(s)' \in {"complete", "failed"}
      BY <1>6, <2>6, <3>1, PoolsProcessedNext DEF ProcessedPools
    <3>3. s \in Task /\ s # p
      BY <2>2, TaskSets
    <3> QED
      BY <2>1, <3>2, <3>3 DEF Phase
  <2>7. Dag!AllProcessed(p, [Phase EXCEPT ![t] = "complete"])
    BY <2>6 DEF Dag!AllProcessed
  <2> QED
    BY <1>1, <1>2, <1>6, <2>3, <2>5, <2>7 DEF Dag!Succeed, Phase
<1> QED
  BY <1>8, <1>9

\* onTemplateHandlerDone completes the template, or leaves the phases alone.
LEMMA DagDone ==
  ASSUME DagIInv, DagIInv', NEW t \in Task, RecvDone(t)
  PROVE  Dag!Complete(t) \/ UNCHANGED Dag!dagExecVars
<1> USE DEF DagIInv, V3IInv, V3TypeOK, CoreInv
<1>1. /\ UNCHANGED <<taskStatus, mainSubmitted, subToParent, status>>
      /\ Parents' = Parents
  BY DEF RecvDone, handleTemplateDone, Recv, lcVars, Parents
<1>2. t \in Main /\ t \in Succeeded /\ t \in Succeeded'
  BY <1>1, DoneMsgFacts DEF Succeeded
<1>3. PICK q : q = markJobDone(pools[t])
  OBVIOUS
<1>4. /\ t \in Parents /\ ~q.allDone => mainDone' = mainDone
      /\ t \notin Parents \/ q.allDone => t \in mainDone'
      /\ t \in Parents => pools' = [pools EXCEPT ![t] = q]
  BY <1>3, DepsDone DEF RecvDone, handleTemplateDone
<1>5. mainDone \subseteq mainDone' /\ mainDone' \subseteq mainDone \cup {t}
  BY DEF RecvDone, handleTemplateDone, tryComplete, completeMain, Release, dagVars
<1>6. ASSUME NEW x \in Task, x # t PROVE PhaseOf(x)' = PhaseOf(x)
  BY <1>1, <1>5, <1>6, PhaseKeeps
<1>7. CASE t \in mainDone \/ t \notin mainDone'
  <2>1. \A x \in Task : PhaseOf(x)' = PhaseOf(x)
    BY <1>1, <1>5, <1>6, <1>7, PhaseKeeps
  <2>2. Phase' = Phase
    BY <2>1, NoPhase
  <2> QED
    BY <1>1, <2>2 DEF Dag!dagExecVars, Phase
<1>8. CASE t \notin mainDone /\ t \in mainDone'
  <2>1. Phase[t] = "expanding"
    BY <1>2, <1>8, Phases DEF PhaseMeaning, Phase
  <2>2. PhaseOf(t)' = "complete"
    BY <1>2, <1>8, PhasesNext DEF PhaseMeaning
  <2>3. Phase' = [Phase EXCEPT ![t] = "complete"]
    BY <1>6, <2>2, OnePhase
  <2>4. ASSUME NEW s \in Sub, subToParent[s] = t
        PROVE  Phase[s] \in {"complete", "failed"}
    <3>1. s \in SubTasksOf(t) /\ s \in Task /\ s # t
      BY <1>2, <2>4, TaskSets DEF SubTasksOf
    <3>2. t \in Parents
      BY <3>1, PoolActive
    <3>3. pools'[t].allDone
      BY <1>4, <1>8, <3>2 DEF SchedTypeOK
    <3>4. PhaseOf(s)' \in {"complete", "failed"}
      BY <1>1, <2>4, <3>3, PoolsProcessedNext DEF ProcessedPools
    <3> QED
      BY <1>6, <3>1, <3>4 DEF Phase
  <2> QED
    BY <1>1, <2>1, <2>3, <2>4 DEF Dag!Complete, Dag!AllProcessed, Phase
<1> QED
  BY <1>7, <1>8

\* handleAdd accepts a batch, never under a complete template.
LEMMA DagAccept ==
  ASSUME DagIInv, NEW c \in Caller, RecvAdd(c)
  PROVE  c[2] \in Task /\ Elems(c) \in SUBSET Sub /\ Dag!Accept(c[2], Elems(c))
<1> USE DEF DagIInv, V3IInv, V3TypeOK, CoreInv
<1>1. UNCHANGED <<taskStatus, mainDone, mainSubmitted, status>>
  BY DEF RecvAdd, handleAdd, dagVars, Recv, lcVars
<1>2. /\ InInbox(AddMsg(c)) /\ c[2] \in Task /\ Elems(c) \subseteq Sub
      /\ \A s \in Elems(c) : subToParent[s] = None
  BY AddFacts
<1>3. PICK t \in Task : t = c[2]
  BY <1>2
<1>4. subToParent' = [s \in Sub |-> IF s \in Elems(c) THEN t ELSE subToParent[s]]
  BY <1>3 DEF RecvAdd, handleAdd, Elems
<1>5. ASSUME t \in Template, Phase[t] = "complete" PROVE FALSE
  <2>1. t \in Succeeded /\ t \in mainDone
    BY <1>5, Phases, TaskSets DEF PhaseMeaning, Phase
  <2>2. Settled(<<"job", t>>) /\ Settled(<<"handler", t>>)
    BY <1>5, <2>1 DEF OrderInv, JobsSettled, HandlersSettled
  <2>3. c = <<"job", t>> \/ c = <<"handler", t>>
    BY <1>3 DEF Caller
  <2> QED
    BY <1>2, <2>2, <2>3 DEF Settled
<1>6. Phase' = Phase
  BY <1>1 DEF Phase, PhaseOf
<1>7. Dag!Accept(t, Elems(c))
  BY <1>1, <1>2, <1>4, <1>5, <1>6 DEF Dag!Accept, Phase
<1> QED
  BY <1>2, <1>3, <1>7

\* checkDone and the control signals declare or withdraw the Success.
LEMMA DagStatus ==
  ASSUME DagIInv, Quiet, \/ status' # "Success"
                         \/ status' = status
                         \/ NothingLeft /\ failedTasks = 0
  PROVE  Dag!Declare \/ Dag!Withdraw \/ UNCHANGED Dag!dagExecVars
<1> USE DEF DagIInv, V3IInv
<1>1. UNCHANGED <<IdleVars, subToParent>>
  BY IdleSteps
<1>2. Phase' = Phase
  BY <1>1 DEF Phase, PhaseOf, IdleVars, dagVars
<1>3. CASE status' = status
  BY <1>1, <1>3, DagIdle
<1>4. CASE status' # "Success"
  BY <1>1, <1>2, <1>4 DEF Dag!Withdraw, Phase
<1>5. CASE status' = "Success" /\ NothingLeft /\ failedTasks = 0
  <2>1. Main \subseteq Done /\ Accepteds \subseteq Succeeded
    BY <1>5, Ends
  <2>2. ASSUME NEW t \in Main \cup Accepteds PROVE Phase[t] = "complete"
    <3>1. t \in Task /\ t \in Succeeded /\ (t \in Sub \/ t \in mainDone)
      BY <2>1, <2>2, TaskSets DEF Accepteds, Done
    <3> QED
      BY <3>1, Phases DEF PhaseMeaning, Phase
  <2> QED
    BY <1>1, <1>2, <1>5, <2>2 DEF Dag!Declare, Phase, Accepteds
<1> QED
  BY <1>3, <1>4, <1>5

\* submit starts the main task or the subtask it picked.
LEMMA DagSubmits ==
  ASSUME DagIInv, DagIInv', NEW t \in Task,
         (t \in Main /\ SubmitMain(t)) \/ (t \in Sub /\ \E p \in Task : SubmitSub(t, p))
  PROVE  Dag!Start(t)
<1> USE DEF DagIInv, V3IInv, V3TypeOK, CoreInv
<1>1. CASE t \in Main /\ SubmitMain(t)
  <2>1. Submit(t, pools) /\ t \notin mainSubmitted /\ taskStatus[t] = "PENDING"
    BY <1>1, SubmitMainFacts DEF SubmitMain
  <2>2. mainDone \subseteq mainDone' /\ Deps[t] \subseteq Done /\ t \notin Sub
    BY <1>1, DepsSubmitMain, SubmitMainFacts, TaskSets
  <2> QED
    BY <2>1, <2>2, DagSubmit
<1>2. ASSUME t \in Sub, NEW p \in Task, SubmitSub(t, p) PROVE Dag!Start(t)
  <2>1. Submit(t, PickedPool(p)) /\ t \notin mainSubmitted /\ taskStatus[t] = "PENDING"
    BY <1>2, SubmitSubFacts DEF SubmitSub
  <2>2. mainDone \subseteq mainDone' /\ subToParent[t] # None /\ t \notin Main
    BY <1>2, DepsSubmitSub, SubmitSubFacts, TaskSets
  <2> QED
    BY <2>1, <2>2, DagSubmit
<1> QED
  BY <1>1, <1>2

\* Every step of the manager is a step of DagExecution, or a stutter.
LEMMA DagStep ==
  ASSUME DagIInv, DagIInv', [V3Next]_v3Vars
  PROVE  [Dag!Next]_(Dag!dagExecVars)
<1>0. V3TypeOK
  BY DEF DagIInv, V3IInv
<1>1. CASE Quiet
  BY <1>0, <1>1, DagStatus, StatusSteps DEF Dag!Next
<1>2. ASSUME UNCHANGED <<IdleVars, subToParent>>, ~Quiet PROVE UNCHANGED Dag!dagExecVars
  <2>1. status' = status
    BY <1>0, <1>2, StatusSteps
  <2> QED
    BY <1>2, <2>1, DagIdle
<1>3. ASSUME NEW c \in Caller, RecvAdd(c) PROVE Dag!Next
  <2>1. c[2] \in Task /\ Elems(c) \in SUBSET Sub /\ Dag!Accept(c[2], Elems(c))
    BY <1>3, DagAccept
  <2> QED
    BY <2>1 DEF Dag!Next, Task
<1>4. ASSUME NEW t \in Task, \/ RecvSubSuccess(t) \/ RecvTemplateSuccess(t)
                             \/ RecvMainSuccess(t) \/ RecvFailure(t)
      PROVE  Dag!Next
  <2>1. Dag!Succeed(t) \/ Dag!Fail(t)
    BY <1>4, DagSubSuccess, DagMainSuccess, DagFail
  <2> QED
    BY <2>1 DEF Dag!Next, Task
<1>5. ASSUME NEW t \in Task, RecvDone(t) PROVE [Dag!Next]_(Dag!dagExecVars)
  <2>1. t \in Template
    BY <1>5, DoneMsgFacts DEF DagIInv, V3IInv, V3TypeOK
  <2> QED
    BY <1>5, <2>1, DagDone DEF Dag!Next
<1>6. ASSUME NEW t \in Task,
             (t \in Main /\ SubmitMain(t)) \/ (t \in Sub /\ \E p \in Task : SubmitSub(t, p))
      PROVE  Dag!Next
  <2>1. Dag!Start(t)
    BY <1>6, DagSubmits
  <2> QED
    BY <2>1 DEF Dag!Next, Task
<1>7. \/ Quiet \/ UNCHANGED <<IdleVars, subToParent>>
      \/ \E c \in Caller : RecvAdd(c)
      \/ \E t \in Task : \/ RecvSubSuccess(t) \/ RecvTemplateSuccess(t)
                         \/ RecvMainSuccess(t) \/ RecvFailure(t)
      \/ \E t \in Task : RecvDone(t)
      \/ \E t \in Main : SubmitMain(t)
      \/ \E t \in Sub : \E p \in Task : SubmitSub(t, p)
  BY <1>0, StepCases, IdleSteps
<1> QED
  BY <1>1, <1>2, <1>3, <1>4, <1>5, <1>6, <1>7, TaskSets

\* Initial states are initial states of DagExecution.
LEMMA DagInit == V3Init => Dag!Init
<1> SUFFICES ASSUME V3Init PROVE Dag!Init
  OBVIOUS
<1>1. Phase = [t \in Task |-> "waiting"]
  BY DEF V3Init, Phase, PhaseOf
<1>2. subToParent = [s \in Sub |-> None] /\ status # "Success"
  BY DEF V3Init, LCInit
<1> QED
  BY <1>1, <1>2 DEF Dag!Init, Phase, Task

\* The manager implements DagExecution: no task starts before what it depends on
\* is complete, no template is complete before its subtasks are processed, none
\* takes subtasks once it is complete, and Success is declared at the end.
THEOREM ImplementsDagCorrect == V3Spec => ImplementsDag
<1>1. DagIInv /\ DagIInv' /\ [V3Next]_v3Vars => [Dag!Next]_(Dag!dagExecVars)
  BY DagStep
<1>2. V3Spec => []DagIInv
  BY DagInvariant
<1>3. V3Spec => Dag!Init
  BY DagInit DEF V3Spec
<1> QED
  BY <1>1, <1>2, <1>3, PTL DEF V3Spec, ImplementsDag, Dag!Spec

=============================================================================
