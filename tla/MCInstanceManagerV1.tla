------------------------- MODULE MCInstanceManagerV1 -------------------------
(* Small workflows for InstanceManagerV1: a and b before c, or a before b    *)
(* and both before c.                                                        *)
EXTENDS InstanceManagerV1

CONSTANTS a, b, c, s1, s2

JoinDeps  == [t \in Task |-> IF t = c THEN {a, b} \cap Main ELSE {}]
StepDeps  == [t \in Task |-> IF t = c THEN {a, b} ELSE IF t = b THEN {a} ELSE {}]
NeedsA    == [t \in Task |-> IF t = c THEN {a} ELSE {}]
NoNeeds   == [t \in Task |-> {}]
HandlerOfA == [t \in Task |-> IF t = a THEN <<s1>> ELSE <<>>]
HandlerOfC == [t \in Task |-> IF t = c THEN <<s1>> ELSE <<>>]
NoBatch   == [t \in Task |-> <<>>]
FromStart == {{}}
Restored  == {{}, {a, b}}
OneFresh == [r \in BOOLEAN |-> IF r THEN 0 ELSE 1]
TwoRestored == [r \in BOOLEAN |-> IF r THEN 2 ELSE 0]
=============================================================================
