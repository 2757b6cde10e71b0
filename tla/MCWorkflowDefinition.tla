------------------------ MODULE MCWorkflowDefinition ------------------------
\* A diamond's half (b after a, c after both), a new version of a that closes
\* a circle, one of c with another's name and no dependency, one of a with a
\* name of its own, and a task that takes the name a had.
EXTENDS WorkflowDefinition
LOCAL INSTANCE TLC

CONSTANTS a, b, c, a2, c2, a3, e

MCIdOf == (a :> 1) @@ (b :> 2) @@ (c :> 3) @@ (a2 :> 1) @@ (c2 :> 3) @@ (a3 :> 1) @@ (e :> 4)
MCNameOf == (a :> "x") @@ (b :> "y") @@ (c :> "z") @@ (a2 :> "x") @@ (c2 :> "y")
              @@ (a3 :> "w") @@ (e :> "x")
MCNamesOf == (a :> {}) @@ (b :> {"x"}) @@ (c :> {"x", "y"}) @@ (a2 :> {"y"}) @@ (c2 :> {})
               @@ (a3 :> {}) @@ (e :> {})
MCStarts == {{}, {a, b}, {a, b, c}}

=============================================================================
