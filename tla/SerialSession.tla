---------------------------- MODULE SerialSession ----------------------------
(***************************************************************************)
(* What the lock and the session store promise a conversation together     *)
(* (FR-012, FR-072; data-model.md C3): turns are served one at a time, and *)
(* the turn being served only appends rows of its own to the history that  *)
(* the turns before it left.  Rows leave the history at its old end only,  *)
(* when it is longer than the cap, or all at once when the session expires.*)
(*                                                                         *)
(* An abstract specification: it has no lock, no copies, no failures.      *)
(***************************************************************************)
EXTENDS Integers, Sequences

CONSTANTS
    Turns,       \* the turns of the conversation
    Rows,        \* what a turn may append; row.by is its turn
    Cap,         \* rows kept
    None         \* no turn is being served

VARIABLES
    current,     \* the turn being served
    transcript   \* the rows kept, oldest first

vars == <<current, transcript>>

Init == current = None /\ transcript = <<>>

Begin(t) ==
    /\ current = None
    /\ current' = t
    /\ UNCHANGED transcript

LastRows(rows, n) ==
    IF Len(rows) > n THEN SubSeq(rows, Len(rows) - n + 1, Len(rows)) ELSE rows

Write(t) ==
    /\ current = t
    /\ \E row \in Rows :
         row.by = t /\ transcript' = LastRows(Append(transcript, row), Cap)
    /\ UNCHANGED current

End ==
    /\ current # None
    /\ current' = None
    /\ UNCHANGED transcript

Expire ==
    /\ current = None
    /\ transcript' = <<>>
    /\ UNCHANGED current

Next == (\E t \in Turns : Begin(t) \/ Write(t)) \/ End \/ Expire

Spec == Init /\ [][Next]_vars
=============================================================================
