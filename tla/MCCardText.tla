---------------------------- MODULE MCCardText ----------------------------
(* Instances of CardText for TLC.                                          *)
EXTENDS CardText

\* The rest of the card takes little of its room, or most of it.
LittleOrMuch == {1, 8}
Little == {1}
===========================================================================
