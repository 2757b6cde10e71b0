---------------------------- MODULE DagExecution ----------------------------
(***************************************************************************)
(* What running a batch workflow promises, without saying how it is        *)
(* scheduled: a task starts at most once and only when everything it       *)
(* depends on is complete; a template is complete when the subtasks        *)
(* accepted under it have been processed; the instance is a Success only   *)
(* when everything is complete.  InstanceManagerV3 implements it.          *)
(***************************************************************************)
CONSTANTS Main, Sub, None, Deps, Template

VARIABLES
  phase,    \* [Main \cup Sub -> how far the task is]
  under,    \* [Sub -> the task it was accepted under, or None]
  success   \* the instance is declared a Success

dagExecVars == <<phase, under, success>>

Init ==
  /\ phase = [t \in Main \cup Sub |-> "waiting"]
  /\ under = [s \in Sub |-> None]
  /\ success = FALSE

MayStart(t) ==
  IF t \in Main THEN \A d \in Deps[t] : phase[d] = "complete"
                ELSE under[t] # None

\* A task that cannot be given its parameters fails as it starts.
Start(t) ==
  /\ phase[t] = "waiting"
  /\ MayStart(t)
  /\ \E p \in {"started", "failed"} : phase' = [phase EXCEPT ![t] = p]
  /\ UNCHANGED <<under, success>>

Fail(t) ==
  /\ phase[t] = "started"
  /\ phase' = [phase EXCEPT ![t] = "failed"]
  /\ UNCHANGED <<under, success>>

\* Every subtask under t is processed, when the phases are ph.
AllProcessed(t, ph) ==
  \A s \in Sub : under[s] = t => ph[s] \in {"complete", "failed"}

\* A success; that of the last subtask may complete its template too.
Succeed(t) ==
  /\ phase[t] = "started"
  /\ LET ph == [phase EXCEPT
                  ![t] = IF t \in Template THEN "expanding" ELSE "complete"] IN
     \/ phase' = ph
     \/ /\ t \in Sub
        /\ phase[under[t]] = "expanding"
        /\ AllProcessed(under[t], ph)
        /\ phase' = [ph EXCEPT ![under[t]] = "complete"]
  /\ UNCHANGED <<under, success>>

Complete(t) ==
  /\ phase[t] = "expanding"
  /\ AllProcessed(t, phase)
  /\ phase' = [phase EXCEPT ![t] = "complete"]
  /\ UNCHANGED <<under, success>>

\* New subtasks under t; a complete template takes no more.
Accept(t, S) ==
  /\ \A s \in S : under[s] = None
  /\ t \in Template => phase[t] # "complete"
  /\ under' = [s \in Sub |-> IF s \in S THEN t ELSE under[s]]
  /\ UNCHANGED <<phase, success>>

Declare ==
  /\ \A t \in Main \cup {s \in Sub : under[s] # None} : phase[t] = "complete"
  /\ success' = TRUE
  /\ UNCHANGED <<phase, under>>

\* A control signal handled late takes the status away again.
Withdraw == success' = FALSE /\ UNCHANGED <<phase, under>>

Next ==
  \/ \E t \in Main \cup Sub : Start(t) \/ Fail(t) \/ Succeed(t)
  \/ \E t \in Template : Complete(t)
  \/ \E t \in Main \cup Sub, S \in SUBSET Sub : Accept(t, S)
  \/ Declare
  \/ Withdraw

Spec == Init /\ [][Next]_dagExecVars

=============================================================================
