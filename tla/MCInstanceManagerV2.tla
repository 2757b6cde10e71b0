------------------------- MODULE MCInstanceManagerV2 -------------------------
(* Small workflows for InstanceManagerV2: two levels, a and b before c.      *)
EXTENDS InstanceManagerV2

CONSTANTS a, b, c, s1, s2

JoinDeps  == [t \in Task |-> IF t = c THEN {a, b} \cap Main ELSE {}]
OneSub    == [t \in Task |-> IF t = a THEN <<s1>> ELSE <<>>]
JobOfC    == [t \in Task |-> IF t = c THEN <<s2>> ELSE <<>>]
NoBatch   == [t \in Task |-> <<>>]
RetryA    == [t \in Task |-> IF t = a THEN 1 ELSE 0]
NoRetry   == [t \in Task |-> 0]
FromStart == {{}}
Restored  == {{}, {a}}
=============================================================================
