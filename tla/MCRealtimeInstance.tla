-------------------------- MODULE MCRealtimeInstance --------------------------
(* One collector, a blocking subscriber db and a dropping one ui.            *)
EXTENDS RealtimeInstance

CONSTANTS db, ui, col, pdb, pui, late

SubOfP     == [t \in Processors |-> IF t = pui THEN ui ELSE db]
OneEach    == [s \in Subs |-> 1]
All        == [s \in Subs |-> Data]
DbNotLast  == [s \in Subs |-> IF s = db THEN 1 .. MaxData - 1 ELSE Data]
UiOnlyOne  == [s \in Subs |-> IF s = ui THEN {1} ELSE Data]
=============================================================================
