------------------------------ MODULE CardText ------------------------------
(***************************************************************************)
(* What becomes of an answer's text when its turn ends (lark/handler.go,   *)
(* render/renderer.go, render/state.go): the last card is built, trimmed   *)
(* if its JSON is too large and PATCHed, and a long text is continued in   *)
(* replies in the card's thread.                                           *)
(*                                                                         *)
(* A text is its length in bytes and the places of its newlines.  Every    *)
(* card element costs JSON of its own, and a list or a table is one        *)
(* element per line, so a text much shorter than the limit can make a card *)
(* that is longer.                                                         *)
(***************************************************************************)
EXTENDS Integers, Sequences, FiniteSets, SequencesExt

CONSTANTS
    MaxLen,     \* bound: length of the text
    Soft,       \* 20,000: what the card keeps of a long text
    Chunk,      \* 18,000: the longest reply
    MaxJSON,    \* MaxCardJSONBytes
    Marker,     \* length of the line that says the card was cut
    Others,     \* the possible sizes of the rest of the card: tools, footer
    PerElement, \* JSON of an element besides its text
    MaxTries    \* bound: how often the model follows BuildCardJSON into itself

ASSUME TextParameters ==
    /\ MaxLen \in Nat /\ Soft \in Nat /\ Chunk \in Nat \ {0} /\ MaxJSON \in Nat
    /\ Marker \in Nat \ {0} /\ PerElement \in Nat /\ MaxTries \in Nat
    /\ Others \subseteq Nat

VARIABLES
    length,    \* of the text
    newlines,  \* positions of its newlines; byte p is the p-th, from 1
    lines,     \* is it a list or a table, one element per line
    other,     \* size of the rest of the card
    stage,     \* where the handler is
    marked,    \* snapshot: was its text cut and marked
    tries,     \* calls of BuildCardJSON by itself
    card,      \* how much of the text the card shows
    rest,      \* SplitLongBody: bytes before the rest
    threaded,  \* SplitLongBody: its pieces, <<bytes before, last byte>>
    replies    \* pieces that arrived in the thread

vars == <<length, newlines, lines, other, stage, marked, tries, card, rest, threaded, replies>>
answer == <<length, newlines, lines, other>>

Init ==
    /\ length \in 1 .. MaxLen
    /\ newlines \in SUBSET (1 .. length)
    /\ lines \in BOOLEAN
    /\ other \in Others
    /\ stage = "build" /\ marked = FALSE /\ tries = 0
    /\ card = 0 /\ rest = 0 /\ threaded = <<>> /\ replies = <<>>

-----------------------------------------------------------------------------
(* BuildCardJSON.                                                            *)

\* Elements that BuildLarkTextElements makes of the first n bytes: one, or one
\* per line that is not empty.
Elements(n) ==
    IF lines THEN Cardinality({p \in (1 .. n) \ newlines : p - 1 \in {0} \cup newlines}) ELSE 1

\* The snapshot's text: all of it, or its first bytes and the marker.
SnapshotShows == IF marked THEN Soft ELSE length
SnapshotLength == IF marked THEN Soft + Marker ELSE length

JSONSize ==
    other + SnapshotLength + PerElement * (Elements(SnapshotShows) + IF marked THEN 1 ELSE 0)

\* trimTextForSize cuts texts that are longer than Soft, so one it has cut, too.
Trims == SnapshotLength > Soft

\* The JSON is too large: trimmed, and BuildCardJSON calls itself.
TrimTextForSize ==
    /\ stage = "build" /\ JSONSize > MaxJSON /\ Trims
    /\ tries < MaxTries
    /\ marked' = TRUE
    /\ tries' = tries + 1
    /\ UNCHANGED <<answer, stage, card, rest, threaded, replies>>

\* Fault: the thread continues where the JSON would be too large.
StopSplitsLater ==
    /\ stage = "build" /\ ~(JSONSize > MaxJSON /\ Trims)
    /\ card' \in {0, SnapshotShows}
    /\ stage' = "split"
    /\ rest' = IF length <= MaxJSON THEN length ELSE MaxJSON
    /\ UNCHANGED <<answer, marked, tries, threaded, replies>>

\* Stop: the card is PATCHed, large or not; its failure is only logged.
Stop ==
    /\ stage = "build" /\ ~(JSONSize > MaxJSON /\ Trims)
    /\ card' \in {0, SnapshotShows}
    /\ stage' = "split"
    /\ rest' = IF length <= Soft THEN length ELSE Soft
    /\ UNCHANGED <<answer, marked, tries, threaded, replies>>

-----------------------------------------------------------------------------
(* SplitLongBody and the replies.                                            *)

\* Fault: a chunk is always cut at its end.
CutAtChunk == Chunk

\* Where a chunk of the rest is cut: before its last newline, if that leaves
\* anything, or at its end.
Cut ==
    LET before == {n \in 1 .. Chunk - 1 : rest + n + 1 \in newlines}
    IN IF before = {} THEN Chunk ELSE Max(before)

Piece(bytes) == threaded' = Append(threaded, <<rest, rest + bytes>>) /\ rest' = rest + bytes

\* Fault: the last piece is not shorter than the others.
SplitOverruns ==
    /\ stage = "split" /\ rest < length
    /\ Piece(Cut)
    /\ UNCHANGED <<answer, stage, marked, tries, card, replies>>

Split ==
    /\ stage = "split" /\ rest < length
    /\ Piece(IF length - rest > Chunk THEN Cut ELSE length - rest)
    /\ UNCHANGED <<answer, stage, marked, tries, card, replies>>

SplitEnds ==
    /\ stage = "split" /\ rest = length
    /\ stage' = "reply"
    /\ UNCHANGED <<answer, marked, tries, card, rest, threaded, replies>>

\* Fault: a reply that fails is passed over.
ReplyPassesOver ==
    /\ stage = "reply" /\ threaded # <<>>
    /\ threaded' = Tail(threaded)
    /\ \/ replies' = Append(replies, Head(threaded)) /\ UNCHANGED stage
       \/ UNCHANGED <<stage, replies>>
    /\ UNCHANGED <<answer, marked, tries, card, rest>>

\* ReplyInThread, one piece after the other; one that fails is the last.
ReplyInThread ==
    /\ stage = "reply" /\ threaded # <<>>
    /\ threaded' = Tail(threaded)
    /\ \/ replies' = Append(replies, Head(threaded)) /\ UNCHANGED stage
       \/ stage' = "gaveUp" /\ UNCHANGED replies
    /\ UNCHANGED <<answer, marked, tries, card, rest>>

Finish ==
    /\ stage = "reply" /\ threaded = <<>>
    /\ stage' = "done"
    /\ UNCHANGED <<answer, marked, tries, card, rest, threaded, replies>>

Next == TrimTextForSize \/ Stop \/ Split \/ SplitEnds \/ ReplyInThread \/ Finish

Spec == Init /\ [][Next]_vars

-----------------------------------------------------------------------------
(* Properties.                                                               *)

\* Pieces of the text: bytes before, last byte.
Spans == (0 .. length) \X (0 .. length)

\* Every variable stays within its type.
TypeOK ==
    /\ length \in 1 .. MaxLen /\ newlines \subseteq 1 .. length
    /\ lines \in BOOLEAN /\ other \in Others
    /\ stage \in {"build", "split", "reply", "gaveUp", "done"}
    /\ marked \in BOOLEAN /\ tries \in 0 .. MaxTries
    /\ card \in 0 .. length /\ rest \in 0 .. length
    /\ threaded \in Seq(Spans) /\ replies \in Seq(Spans)

\* "Truncate Text field and retry once" (render/state.go): the card is built at
\* most twice.  A text that is still too large when it has been cut and marked is
\* cut and marked again, for ever.
RetriesOnce == tries <= 1

\* The pieces of the thread, sent or still to be sent.
Pieces == IF stage = "gaveUp" THEN replies ELSE replies \o threaded

\* A long text is continued where the card stops: its pieces, sent in order, make
\* one stretch of the text that begins at Soft, none is empty or longer than
\* Chunk, and at the end they reach the last byte, unless a reply failed.
ThreadContinuesCard ==
    /\ \A i \in DOMAIN Pieces :
          /\ Pieces[i][1] = IF i = 1 THEN Soft ELSE Pieces[i - 1][2]
          /\ Pieces[i][1] < Pieces[i][2] /\ Pieces[i][2] <= Pieces[i][1] + Chunk
    /\ stage = "done" /\ length > Soft => replies # <<>> /\ Last(replies)[2] = length

\* If the last PATCH arrives, card and thread together show the text from its start
\* without a gap - all of it, unless a reply fails.
NothingLost ==
    stage \in {"done", "gaveUp"} /\ card > 0 =>
        /\ replies # <<>> => card >= replies[1][1]
        /\ stage = "done" => card = length \/ (replies # <<>> /\ Last(replies)[2] = length)

\* A chunk that holds a newline past its start is not cut in the middle of a line.
CutsAtLines ==
    \A i \in DOMAIN replies :
        LET from == replies[i][1]  to == replies[i][2]
        IN to < length /\ (\E p \in newlines : from + 1 < p /\ p <= from + Chunk) =>
              to + 1 \in newlines
=============================================================================
