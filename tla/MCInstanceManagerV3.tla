------------------------ MODULE MCInstanceManagerV3 ------------------------
(***************************************************************************)
(* Workflows on which InstanceManagerV3 is checked.                        *)
(***************************************************************************)
EXTENDS InstanceManagerV3
LOCAL INSTANCE TLC

CONSTANTS a, b, c, d, s1, s2

NoBatch == [t \in Task |-> <<>>]

\* Two templates at once, one with a handler and one without, whose pools are
\* served in turn; c waits for both, d for c.  a's job adds s1, b's handler s2.
JoinDeps     == (a :> {}) @@ (b :> {}) @@ (c :> {a, b}) @@ (d :> {c})
JoinJobs     == [NoBatch EXCEPT ![a] = <<s1>>]
JoinHandlers == [NoBatch EXCEPT ![b] = <<s2>>]

\* A template, whose job and handler both add subtasks, and its successor.
ChainDeps     == (a :> {}) @@ (b :> {a})
ChainJobs     == [NoBatch EXCEPT ![a] = <<s1>>]
ChainHandlers == [NoBatch EXCEPT ![a] = <<s2>>]
=============================================================================
