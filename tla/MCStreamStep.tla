--------------------------- MODULE MCStreamStep ---------------------------
(* Instances of StreamStep for TLC.                                        *)
EXTENDS StreamStep

\* Three calls; the arguments of the first come in two parts.
ThreeCalls == <<2, 1, 1>>
===========================================================================
