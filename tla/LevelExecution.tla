---------------------------- MODULE LevelExecution ----------------------------
(***************************************************************************)
(* What running a workflow level by level promises, whatever queues and    *)
(* goroutines it takes: a level is left when every task of it and every    *)
(* subtask accepted so far is finished; a template takes subtasks only     *)
(* while its level lasts.  InstanceManagerV2 implements it.                *)
(***************************************************************************)
EXTENDS Naturals

CONSTANTS Main, Sub, None, Template,
          LevelOf,   \* [Main -> the level of the task]
          LastLevel

VARIABLES
  level,     \* the level being run; LastLevel + 1 at the end
  finished,  \* the tasks that succeeded or failed for good
  under      \* [Sub -> the task it was accepted under, or None]

levelVars == <<level, finished, under>>

Init ==
  /\ level = 1
  /\ finished \in SUBSET Main      \* what a breakpoint says is finished
  /\ under = [s \in Sub |-> None]

\* A task of a level to come is not finished before its level is reached.
Finish ==
  /\ \E t \in Main \cup Sub :
       /\ t \notin finished
       /\ IF t \in Main THEN LevelOf[t] = level ELSE under[t] # None
       /\ finished' = finished \cup {t}
  /\ UNCHANGED <<level, under>>

Accept ==
  /\ \E t \in Main \cup Sub, S \in SUBSET {s \in Sub : under[s] = None} :
       /\ t \in Template => LevelOf[t] = level
       /\ under' = [s \in Sub |-> IF s \in S THEN t ELSE under[s]]
  /\ UNCHANGED <<level, finished>>

Advance ==
  /\ level <= LastLevel
  /\ {t \in Main : LevelOf[t] = level} \cup {s \in Sub : under[s] # None}
       \subseteq finished
  /\ level' = level + 1
  /\ UNCHANGED <<finished, under>>

Next == Finish \/ Accept \/ Advance

Spec == Init /\ [][Next]_levelVars
=============================================================================
