--------------------------- MODULE MCSessionTurns ---------------------------
(***************************************************************************)
(* Instances of SessionTurns for TLC.                                      *)
(***************************************************************************)
EXTENDS SessionTurns

CONSTANTS m1, m2, m3, clear1, switch1, old, new

\* One process, or two (or one that is restarted): the first message runs on the old
\* one, everything else on the new one.
Placement == [h \in Handlers |-> IF h = m1 \/ new \notin Instances THEN old ELSE new]
=============================================================================
