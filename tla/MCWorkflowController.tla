----------------------- MODULE MCWorkflowController -----------------------
(* WorkflowController with a caller and two waiters, and channels of one   *)
(* or two slots so that updates are dropped.                               *)
EXTENDS WorkflowController

CONSTANTS u1, w1, w2
=============================================================================
