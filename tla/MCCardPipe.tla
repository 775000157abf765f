---------------------------- MODULE MCCardPipe ----------------------------
(* Small instances of CardPipe for TLC.                                    *)
EXTENDS CardPipe

CONSTANTS c1, c2

OneCall  == {c1}
TwoCalls == {c1, c2}
AnyPatch == {"ok", "limited", "error", "lost"}
GoodPatch == {"ok"}
=============================================================================
