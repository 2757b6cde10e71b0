---------------------------- MODULE SagaCoordinator ----------------------------
(***************************************************************************)
(* pkg/core/saga: the record of a transaction, [state, steps], and its     *)
(* operations.  A step is a task with its status and whether it has a      *)
(* compensation function that the registry knows.                          *)
(***************************************************************************)
EXTENDS Naturals, Sequences

SagaState == {"Pending", "Committed", "Compensating", "Compensated", "Failed"}

NewSaga == [state |-> "Pending", steps |-> <<>>]

\* TransactionState.CanTransitionTo.
CanTransitionTo(from, to) ==
  \/ from = "Pending" /\ to \in {"Committed", "Compensating"}
  \/ from = "Compensating" /\ to \in {"Compensated", "Failed"}

AddStep(saga, t, status, compensable) ==
  [saga EXCEPT !.steps = Append(@, [task |-> t, status |-> status,
                                    compensable |-> compensable])]

\* MarkStepSuccess and MarkStepFailed change the first step of the task,
\* which after a retry is not the one that was added last.
MarkStep(saga, t, status) ==
  LET Own == {i \in DOMAIN saga.steps : saga.steps[i].task = t} IN
  IF Own = {} THEN saga
  ELSE [saga EXCEPT !.steps[CHOOSE i \in Own : \A j \in Own : i <= j].status
                      = status]

Commit(saga) ==
  IF CanTransitionTo(saga.state, "Committed")
  THEN [saga EXCEPT !.state = "Committed"] ELSE saga

\* The steps that Compensate starts, each in a goroutine of its own.
ToCompensate(saga) ==
  {i \in DOMAIN saga.steps :
     saga.steps[i].status = "Success" /\ saga.steps[i].compensable}

\* Compensate has started them all and does not wait for any.
Compensate(saga) ==
  IF CanTransitionTo(saga.state, "Compensating")
  THEN [saga EXCEPT !.state = "Compensated"] ELSE saga
=============================================================================
