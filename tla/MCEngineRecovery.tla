-------------------------- MODULE MCEngineRecovery --------------------------
\* Workflows of one name: two that users build, and a copy by the scheduler.
EXTENDS EngineRecovery, TLC

CONSTANTS w1, w2, w3, a, b, c1, user

MCNameOf == [w \in {w1, w2, w3} |-> 1]
MCDepsOf == (a :> {}) @@ (b :> {a}) @@ (c1 :> {})
MCTasksOf == (w1 :> {a, b}) @@ (w2 :> {c1})

=============================================================================
