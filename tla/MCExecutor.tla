----------------------------- MODULE MCExecutor -----------------------------
(* Executor with a few tasks, of which x belongs to a domain.              *)
EXTENDS Executor
LOCAL INSTANCE TLC

CONSTANTS x, y, z, dom

Mixed    == [t \in Task |-> IF t = x THEN dom ELSE None]
NoDomain == [t \in Task |-> None]
=============================================================================
