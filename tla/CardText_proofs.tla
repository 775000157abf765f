--------------------------- MODULE CardText_proofs ---------------------------
(* Theorems about CardText, for texts of any length and any limits.          *)
EXTENDS CardText, FiniteSetTheorems, SequenceTheorems, WellFoundedInduction, TLAPS

-----------------------------------------------------------------------------
(* Cutting a chunk.                                                          *)

\* A set of positions below a bound has a greatest one.
LEMMA MaxIsGreatest ==
    ASSUME NEW n \in Nat, NEW S \in SUBSET (1 .. n), S # {}
    PROVE  Max(S) \in S /\ \A x \in S : Max(S) >= x
<1> DEFINE T == {n - x : x \in S}
<1>1. T \subseteq Nat /\ T # {}
  <2>1. PICK x \in S : TRUE
    OBVIOUS
  <2>2. n - x \in T
    BY <2>1
  <2> QED
    BY <2>2
<1>2. PICK m \in T : \A y \in T : ~(<<y, m>> \in OpToRel(<, Nat))
  BY <1>1, NatLessThanWellFounded, WFMin
<1>3. \A y \in T : ~(y < m)
  BY <1>1, <1>2 DEF OpToRel
<1>4. PICK g \in S : m = n - g
  BY <1>2
<1>5. \A x \in S : g >= x
  <2> SUFFICES ASSUME NEW x \in S PROVE g >= x
    OBVIOUS
  <2>1. n - x \in T
    OBVIOUS
  <2>2. x \in Int /\ g \in Int
    BY <1>4
  <2> HIDE DEF T
  <2> QED
    BY <1>3, <1>4, <2>1, <2>2
<1> QED
  BY <1>5 DEF Max

\* A cut leaves a piece that is not empty and no longer than Chunk; where the chunk
\* holds a newline past its start, the rest begins with one.
LEMMA CutIs ==
    ASSUME TypeOK
    PROVE  /\ Cut \in 1 .. Chunk
           /\ (\E p \in newlines : rest + 1 < p /\ p <= rest + Chunk) => rest + Cut + 1 \in newlines
<1> DEFINE before == {n \in 1 .. Chunk - 1 : rest + n + 1 \in newlines}
<1>1. Chunk \in Nat \ {0} /\ Chunk - 1 \in Nat /\ rest \in Nat /\ newlines \subseteq Nat
  <2>1. length \in Nat
    BY TextParameters DEF TypeOK
  <2>2. rest \in Nat /\ newlines \subseteq Nat
    BY <2>1 DEF TypeOK
  <2>3. Chunk \in Nat \ {0} /\ Chunk - 1 \in Nat
    BY TextParameters
  <2> QED
    BY <2>2, <2>3
<1>2. CASE before = {}
  <2>1. Cut = Chunk
    BY <1>2 DEF Cut
  <2>2. ASSUME NEW p \in newlines, rest + 1 < p, p <= rest + Chunk PROVE FALSE
    <3>1. p - rest - 1 \in 1 .. Chunk - 1 /\ rest + (p - rest - 1) + 1 = p
      BY <1>1, <2>2
    <3>2. p - rest - 1 \in before
      BY <2>2, <3>1
    <3> QED
      BY <1>2, <3>2
  <2> QED
    BY <1>1, <2>1, <2>2
<1>3. CASE before # {}
  <2>1. Cut = Max(before)
    BY <1>3 DEF Cut
  <2>2. Max(before) \in before
    BY <1>1, <1>3, MaxIsGreatest
  <2> QED
    BY <1>1, <2>1, <2>2
<1> QED
  BY <1>2, <1>3

-----------------------------------------------------------------------------
(* Pieces of a text.                                                         *)

\* What a piece and the one before it must be.
Linked(s) ==
    \A i \in 1 .. Len(s) :
        /\ s[i][1] = IF i = 1 THEN Soft ELSE s[i - 1][2]
        /\ s[i][1] < s[i][2] /\ s[i][2] <= s[i][1] + Chunk

AtLines(s) ==
    \A i \in 1 .. Len(s) :
        s[i][2] < length /\ (\E p \in newlines : s[i][1] + 1 < p /\ p <= s[i][1] + Chunk) =>
            s[i][2] + 1 \in newlines

\* Where the pieces end: without any, where the card does.
EndOf(s) ==
    IF s = <<>> THEN (IF length <= Soft THEN length ELSE Soft) ELSE s[Len(s)][2]

LEMMA AppendPiece ==
    ASSUME TextParameters, length \in Nat, NEW s \in Seq(Spans), NEW e \in Spans,
           Linked(s), AtLines(s),
           EndOf(s) < length, e[1] = EndOf(s), e[1] < e[2], e[2] <= e[1] + Chunk,
           e[2] < length /\ (\E p \in newlines : e[1] + 1 < p /\ p <= e[1] + Chunk) =>
               e[2] + 1 \in newlines
    PROVE  /\ Append(s, e) \in Seq(Spans)
           /\ Linked(Append(s, e)) /\ AtLines(Append(s, e))
           /\ EndOf(Append(s, e)) = e[2]
<1> DEFINE new == Append(s, e)
<1>1. /\ new \in Seq(Spans) /\ Len(s) \in Nat /\ Len(new) = Len(s) + 1
      /\ new[Len(new)] = e /\ new # <<>>
      /\ \A i \in 1 .. Len(s) : new[i] = s[i]
      /\ (s = <<>> <=> Len(s) = 0)
  <2>1. Len(s) \in Nat /\ (s = <<>> <=> Len(s) = 0)
    BY EmptySeq, LenProperties
  <2>2. new \in Seq(Spans) /\ Len(new) = Len(s) + 1
    OBVIOUS
  <2>3. new[Len(s) + 1] = e /\ \A i \in 1 .. Len(s) : new[i] = s[i]
    BY <2>1
  <2>4. new # <<>>
    BY <2>1, <2>2, EmptySeq
  <2> QED
    BY <2>1, <2>2, <2>3, <2>4
<1>2. e[1] = IF Len(new) = 1 THEN Soft ELSE new[Len(new) - 1][2]
  <2>1. CASE s = <<>>
    BY <1>1, <2>1, TextParameters DEF EndOf
  <2>2. CASE s # <<>>
    BY <1>1, <2>2 DEF EndOf
  <2> QED
    BY <2>1, <2>2
<1>3. ASSUME NEW i \in 1 .. Len(new)
      PROVE  i = Len(new) \/ (i \in 1 .. Len(s) /\ (i # 1 => i - 1 \in 1 .. Len(s)))
  BY <1>1
<1>4. Linked(new)
  <2> HIDE DEF new
  <2> QED
    BY <1>1, <1>2, <1>3 DEF Linked
<1>5. AtLines(new)
  <2> HIDE DEF new
  <2> QED
    BY <1>1, <1>3 DEF AtLines
<1> QED
  BY <1>1, <1>4, <1>5 DEF EndOf

LEMMA LinkedPrefix ==
    ASSUME NEW s \in Seq(Spans), NEW t \in Seq(Spans), Linked(s \o t)
    PROVE  Linked(s)
<1>1. Len(s) \in Nat /\ Len(t) \in Nat /\ Len(s \o t) = Len(s) + Len(t)
      /\ \A i \in 1 .. Len(s) : (s \o t)[i] = s[i]
  BY ConcatProperties, LenProperties
<1> QED
  BY <1>1 DEF Linked

LEMMA AtLinesPrefix ==
    ASSUME NEW s \in Seq(Spans), NEW t \in Seq(Spans), AtLines(s \o t)
    PROVE  AtLines(s)
<1>1. Len(s) \in Nat /\ Len(t) \in Nat /\ Len(s \o t) = Len(s) + Len(t)
      /\ \A i \in 1 .. Len(s) : (s \o t)[i] = s[i]
  BY ConcatProperties, LenProperties
<1> QED
  BY <1>1 DEF AtLines

\* A reply moves a piece from the queue to the thread.
LEMMA MovePiece ==
    ASSUME NEW S, NEW s \in Seq(S), NEW t \in Seq(S), t # <<>>
    PROVE  /\ Append(s, Head(t)) \in Seq(S) /\ Tail(t) \in Seq(S)
           /\ Append(s, Head(t)) \o Tail(t) = s \o t
<1>1. Head(t) \in S /\ Tail(t) \in Seq(S) /\ Len(Tail(t)) = Len(t) - 1
      /\ (\A i \in 1 .. Len(Tail(t)) : Tail(t)[i] = t[i + 1]) /\ Head(t) = t[1]
  BY HeadTailProperties
<1>2. Append(s, Head(t)) \in Seq(S) /\ Len(Append(s, Head(t))) = Len(s) + 1
      /\ (\A i \in 1 .. Len(s) : Append(s, Head(t))[i] = s[i])
      /\ Append(s, Head(t))[Len(s) + 1] = Head(t)
  BY <1>1
<1>3. Len(s) \in Nat /\ Len(t) \in Nat \ {0}
  BY EmptySeq, LenProperties
<1> DEFINE u == Append(s, Head(t))
           v == Tail(t)
<1>4. /\ u \o v \in Seq(S) /\ Len(u \o v) = Len(u) + Len(v)
      /\ \A i \in 1 .. Len(u) + Len(v) : (u \o v)[i] = IF i <= Len(u) THEN u[i] ELSE v[i - Len(u)]
  BY <1>1, <1>2, ConcatProperties
<1>5. /\ s \o t \in Seq(S) /\ Len(s \o t) = Len(s) + Len(t)
      /\ \A i \in 1 .. Len(s) + Len(t) : (s \o t)[i] = IF i <= Len(s) THEN s[i] ELSE t[i - Len(s)]
  BY ConcatProperties
<1>6. Len(u \o v) = Len(s \o t)
  BY <1>1, <1>2, <1>3, <1>4, <1>5
<1>7. ASSUME NEW i \in 1 .. Len(u \o v) PROVE (u \o v)[i] = (s \o t)[i]
  <2>1. i \in 1 .. Len(s) + Len(t) /\ i \in 1 .. Len(u) + Len(v)
    BY <1>4, <1>5, <1>6, <1>7
  <2>2. CASE i <= Len(s)
    BY <2>1, <2>2, <1>2, <1>3, <1>4, <1>5
  <2>3. CASE i = Len(s) + 1
    BY <2>1, <2>3, <1>1, <1>2, <1>3, <1>4, <1>5
  <2>4. CASE i > Len(s) + 1
    <3>1. i - Len(u) \in 1 .. Len(v) /\ ~(i <= Len(u)) /\ ~(i <= Len(s))
          /\ i - Len(u) + 1 = i - Len(s)
      BY <2>1, <2>4, <1>1, <1>2, <1>3
    <3>2. (u \o v)[i] = v[i - Len(u)] /\ (s \o t)[i] = t[i - Len(s)]
      BY <2>1, <3>1, <1>4, <1>5
    <3>3. v[i - Len(u)] = t[i - Len(u) + 1]
      BY <3>1, <1>1
    <3> QED
      BY <3>1, <3>2, <3>3
  <2> QED
    BY <2>1, <2>2, <2>3, <2>4, <1>3
<1> HIDE DEF u, v
<1>8. u \o v = s \o t
  BY <1>4, <1>5, <1>6, <1>7, SeqEqual
<1> QED
  BY <1>1, <1>2, <1>8 DEF u, v

-----------------------------------------------------------------------------
(* The inductive invariant.                                                  *)

\* Nothing is split before the card is built, and nothing sent before all is split.
InOrder ==
    /\ marked => length > Soft
    /\ stage = "build" => threaded = <<>> /\ replies = <<>>
    /\ stage = "split" => replies = <<>>
    /\ stage = "done" => threaded = <<>>

\* The pieces are linked and cut at lines, and end where the rest begins.
WellCut ==
    /\ Linked(Pieces) /\ AtLines(Pieces)
    /\ stage = "split" => rest = EndOf(threaded)
    /\ stage \in {"reply", "done"} => EndOf(Pieces) = length

\* What the user's card may show.
Shown == stage # "build" => card = 0 \/ card = SnapshotShows

TextInv == TypeOK /\ InOrder /\ WellCut /\ Shown

\* The empty text of the thread.
LEMMA NoPieces ==
    /\ <<>> \in Seq(Spans) /\ <<>> \o <<>> = <<>>
    /\ Linked(<<>>) /\ AtLines(<<>>)
    /\ EndOf(<<>>) = IF length <= Soft THEN length ELSE Soft
<1>1. <<>> \in Seq(Spans) /\ Len(<<>>) = 0 /\ <<>> \o <<>> = <<>>
  OBVIOUS
<1> QED
  BY <1>1 DEF Linked, AtLines, EndOf

LEMMA InitText == ASSUME Init PROVE TextInv
<1>1. length \in 1 .. MaxLen /\ length \in Nat /\ 0 \in 0 .. length /\ 0 \in 0 .. MaxTries
  BY TextParameters DEF Init
<1>2. TypeOK
  BY <1>1, NoPieces DEF Init, TypeOK
<1>3. InOrder /\ Shown
  BY DEF Init, InOrder, Shown
<1>4. WellCut
  BY NoPieces DEF Init, WellCut, Pieces
<1> QED
  BY <1>2, <1>3, <1>4 DEF TextInv

\* The types an action needs to know.
LEMMA Numbers ==
    ASSUME TypeOK
    PROVE  /\ length \in Nat \ {0} /\ length \in 1 .. MaxLen /\ newlines \subseteq 1 .. length
           /\ rest \in Nat /\ rest <= length /\ card \in 0 .. length
           /\ threaded \in Seq(Spans) /\ replies \in Seq(Spans)
           /\ Soft \in Nat /\ Chunk \in Nat \ {0}
<1>1. length \in Nat \ {0} /\ length \in 1 .. MaxLen
  BY TextParameters DEF TypeOK
<1>2. rest \in 0 .. length /\ card \in 0 .. length /\ newlines \subseteq 1 .. length
  BY DEF TypeOK
<1>3. threaded \in Seq(Spans) /\ replies \in Seq(Spans)
  BY DEF TypeOK
<1> QED
  BY <1>1, <1>2, <1>3, TextParameters

-----------------------------------------------------------------------------
(* Every action keeps the invariant.                                         *)

LEMMA KeepsTrim == ASSUME TextInv, TrimTextForSize PROVE TextInv'
<1>1. TypeOK /\ InOrder /\ WellCut
  BY DEF TextInv
<1>2. /\ UNCHANGED <<length, newlines, lines, other, stage, card, rest, threaded, replies>>
      /\ stage = "build" /\ marked' = TRUE /\ tries' = tries + 1 /\ tries < MaxTries
  BY DEF TrimTextForSize, answer
<1>3. length > Soft
  BY <1>1, Numbers DEF TrimTextForSize, Trims, SnapshotLength, InOrder
<1>4. TypeOK'
  <2>1. tries + 1 \in 0 .. MaxTries
    BY <1>1, <1>2, TextParameters DEF TypeOK
  <2>2. Spans' = Spans
    BY <1>2 DEF Spans
  <2> QED
    BY <1>1, <1>2, <2>1, <2>2, Zenon DEF TypeOK
<1>5. InOrder' /\ Shown'
  BY <1>1, <1>2, <1>3 DEF InOrder, Shown
<1>6. WellCut'
  BY <1>1, <1>2, Zenon DEF WellCut, Pieces, Linked, AtLines, EndOf
<1> QED
  BY <1>4, <1>5, <1>6 DEF TextInv

LEMMA KeepsStop == ASSUME TextInv, Stop PROVE TextInv'
<1>1. TypeOK /\ InOrder
  BY DEF TextInv
<1>2. /\ UNCHANGED <<length, newlines, lines, other, marked, tries, threaded, replies>>
      /\ card' \in {0, SnapshotShows} /\ stage = "build" /\ stage' = "split"
      /\ rest' = IF length <= Soft THEN length ELSE Soft
  BY DEF Stop, answer
<1>3. threaded = <<>> /\ replies = <<>>
  BY <1>1, <1>2 DEF InOrder
<1>4. TypeOK'
  <2>1. card' \in 0 .. length /\ rest' \in 0 .. length
    BY <1>1, <1>2, Numbers DEF InOrder, SnapshotShows
  <2>2. Spans' = Spans
    BY <1>2 DEF Spans
  <2>3. stage' \in {"build", "split", "reply", "gaveUp", "done"}
    BY <1>2
  <2> QED
    BY <1>1, <1>2, <2>1, <2>2, <2>3, Zenon DEF TypeOK
<1>5. InOrder'
  BY <1>1, <1>2, <1>3 DEF InOrder
<1>6. Shown'
  BY <1>2 DEF Shown, SnapshotShows
<1>7. WellCut'
  <2>1. Pieces' = <<>> /\ threaded' = <<>>
    BY <1>2, <1>3, NoPieces DEF Pieces
  <2>2. Linked(Pieces') /\ AtLines(Pieces)'
    BY <2>1, NoPieces DEF Linked, AtLines
  <2>3. rest' = EndOf(threaded)'
    BY <1>2, <2>1 DEF EndOf
  <2> QED
    BY <1>2, <2>2, <2>3 DEF WellCut, Linked
<1> QED
  BY <1>4, <1>5, <1>6, <1>7 DEF TextInv

LEMMA KeepsSplit == ASSUME TextInv, Split PROVE TextInv'
<1>1. TypeOK /\ InOrder /\ WellCut
  BY DEF TextInv
<1> DEFINE bytes == IF length - rest > Chunk THEN Cut ELSE length - rest
           e == <<rest, rest + bytes>>
<1>2. /\ UNCHANGED <<length, newlines, lines, other, stage, marked, tries, card, replies>>
      /\ stage = "split" /\ rest < length
      /\ threaded' = Append(threaded, e) /\ rest' = rest + bytes
  BY DEF Split, answer, Piece
<1>3. /\ bytes \in 1 .. Chunk /\ rest + bytes <= length
      /\ rest + bytes < length /\ (\E p \in newlines : rest + 1 < p /\ p <= rest + Chunk) =>
             rest + bytes + 1 \in newlines
  <2>1. CASE length - rest > Chunk
    <3>1. bytes = Cut
      BY <2>1
    <3> HIDE DEF bytes
    <3> QED
      BY <1>1, <2>1, <3>1, Numbers, CutIs
  <2>2. CASE ~(length - rest > Chunk)
    BY <1>1, <1>2, <2>2, Numbers
  <2> QED
    BY <2>1, <2>2
<1> HIDE DEF bytes
<1>4. replies = <<>> /\ Pieces = threaded /\ rest = EndOf(threaded)
  <2>1. <<>> \o threaded = threaded
    BY <1>1, Numbers, ConcatEmptySeq
  <2> QED
    BY <1>1, <1>2, <2>1 DEF InOrder, Pieces, WellCut
<1>5. e \in Spans /\ e[1] = rest /\ e[2] = rest + bytes
  BY <1>1, <1>3, Numbers DEF Spans
<1>6. /\ threaded' \in Seq(Spans)
      /\ Linked(threaded') /\ AtLines(threaded')
      /\ EndOf(threaded') = rest'
  <2>1. Linked(threaded) /\ AtLines(threaded)
    BY <1>1, <1>4 DEF WellCut
  <2>2. /\ length \in Nat /\ threaded \in Seq(Spans)
        /\ e[1] < e[2] /\ e[2] <= e[1] + Chunk /\ EndOf(threaded) < length
    BY <1>1, <1>2, <1>3, <1>4, <1>5, Numbers
  <2>3. e[2] < length /\ (\E p \in newlines : e[1] + 1 < p /\ p <= e[1] + Chunk) =>
            e[2] + 1 \in newlines
    BY <1>3, <1>5
  <2> HIDE DEF e
  <2> QED
    BY <1>2, <1>4, <1>5, <2>1, <2>2, <2>3, AppendPiece, TextParameters
<1>7. TypeOK'
  <2>1. rest' \in 0 .. length
    BY <1>1, <1>2, <1>3, Numbers
  <2>2. Spans' = Spans
    BY <1>2 DEF Spans
  <2> QED
    BY <1>1, <1>2, <1>6, <2>1, <2>2, Zenon DEF TypeOK
<1>8. InOrder' /\ Shown'
  BY <1>1, <1>2 DEF InOrder, Shown, SnapshotShows, TextInv
<1>9. WellCut'
  <2>1. Pieces' = threaded'
    <3>1. <<>> \o threaded' = threaded'
      BY <1>6, ConcatEmptySeq
    <3> QED
      BY <1>2, <1>4, <3>1 DEF Pieces
  <2>2. Linked(Pieces)' /\ AtLines(Pieces)'
    BY <1>2, <1>6, <2>1 DEF Linked, AtLines
  <2>3. rest' = EndOf(threaded)'
    BY <1>2, <1>6 DEF EndOf
  <2> QED
    BY <1>2, <2>2, <2>3 DEF WellCut
<1> QED
  BY <1>7, <1>8, <1>9 DEF TextInv

\* The steps that end a stage leave the pieces as they are.
LEMMA KeepsStage == ASSUME TextInv, SplitEnds \/ Finish PROVE TextInv'
<1>1. TypeOK /\ InOrder /\ WellCut
  BY DEF TextInv
<1>2. UNCHANGED <<length, newlines, lines, other, marked, tries, card, rest, threaded, replies>>
  BY DEF SplitEnds, Finish, answer
<1>3. \/ stage = "split" /\ stage' = "reply" /\ rest = length
      \/ stage = "reply" /\ stage' = "done" /\ threaded = <<>>
  BY DEF SplitEnds, Finish
<1>4. TypeOK'
  <2>1. Spans' = Spans
    BY <1>2 DEF Spans
  <2>2. stage' \in {"build", "split", "reply", "gaveUp", "done"}
    BY <1>3
  <2> QED
    BY <1>1, <1>2, <2>1, <2>2, Zenon DEF TypeOK
<1>5. InOrder'
  BY <1>1, <1>2, <1>3 DEF InOrder
<1>6. Shown'
  BY <1>2, <1>3 DEF Shown, SnapshotShows, TextInv
<1>7. WellCut'
  <2>1. Pieces' = Pieces
    BY <1>2, <1>3 DEF Pieces
  <2>2. EndOf(Pieces) = length
    <3>1. CASE stage = "split"
      <4>1. <<>> \o threaded = threaded
        BY <1>1, Numbers, ConcatEmptySeq
      <4> QED
        BY <1>1, <1>3, <3>1, <4>1 DEF Pieces, InOrder, WellCut
    <3>2. CASE stage = "reply"
      BY <1>1, <3>2 DEF WellCut
    <3> QED
      BY <1>3, <3>1, <3>2
  <2>3. Linked(Pieces)' /\ AtLines(Pieces)'
    BY <1>1, <1>2, <2>1 DEF Linked, AtLines, WellCut
  <2>4. EndOf(Pieces)' = length'
    BY <1>2, <2>1, <2>2 DEF EndOf
  <2> QED
    BY <1>3, <2>3, <2>4 DEF WellCut
<1> QED
  BY <1>4, <1>5, <1>6, <1>7 DEF TextInv

LEMMA KeepsReply == ASSUME TextInv, ReplyInThread PROVE TextInv'
<1>1. TypeOK /\ InOrder /\ WellCut /\ Shown
  BY DEF TextInv
<1>2. /\ UNCHANGED <<length, newlines, lines, other, marked, tries, card, rest>>
      /\ stage = "reply" /\ threaded # <<>> /\ threaded' = Tail(threaded)
      /\ \/ replies' = Append(replies, Head(threaded)) /\ stage' = "reply"
         \/ replies' = replies /\ stage' = "gaveUp"
  BY DEF ReplyInThread, answer
<1>3. /\ threaded \in Seq(Spans) /\ replies \in Seq(Spans) /\ Spans' = Spans
  BY <1>1, <1>2, Numbers DEF Spans
<1>4. /\ Append(replies, Head(threaded)) \in Seq(Spans) /\ Tail(threaded) \in Seq(Spans)
      /\ Append(replies, Head(threaded)) \o Tail(threaded) = replies \o threaded
  BY <1>2, <1>3, MovePiece
<1>5. TypeOK'
  <2>1. stage' \in {"build", "split", "reply", "gaveUp", "done"}
    BY <1>2
  <2>2. threaded' \in Seq(Spans') /\ replies' \in Seq(Spans')
    BY <1>2, <1>3, <1>4
  <2> QED
    BY <1>1, <1>2, <2>1, <2>2, Zenon DEF TypeOK
<1>6. InOrder'
  BY <1>1, <1>2 DEF InOrder
<1>7. Shown'
  BY <1>1, <1>2 DEF Shown, SnapshotShows
<1>8. Pieces = replies \o threaded
  BY <1>2 DEF Pieces
<1>9. Linked(Pieces) /\ AtLines(Pieces) /\ EndOf(Pieces) = length
  BY <1>1, <1>2 DEF WellCut
<1>10. WellCut'
  <2>1. CASE stage' = "reply"
    <3>1. Pieces' = Pieces
      BY <1>2, <1>4, <1>8, <2>1 DEF Pieces
    <3>2. Linked(Pieces)' /\ AtLines(Pieces)'
      BY <1>2, <1>9, <3>1 DEF Linked, AtLines
    <3>3. EndOf(Pieces)' = length'
      BY <1>2, <1>9, <3>1 DEF EndOf
    <3> QED
      BY <2>1, <3>2, <3>3 DEF WellCut
  <2>2. CASE stage' = "gaveUp"
    <3>1. Pieces' = replies
      BY <1>2, <2>2 DEF Pieces
    <3>2. Linked(replies) /\ AtLines(replies)
      BY <1>3, <1>8, <1>9, LinkedPrefix, AtLinesPrefix
    <3>3. Linked(Pieces)' /\ AtLines(Pieces)'
      BY <1>2, <3>1, <3>2 DEF Linked, AtLines
    <3> QED
      BY <2>2, <3>3 DEF WellCut
  <2> QED
    BY <1>2, <2>1, <2>2
<1> QED
  BY <1>5, <1>6, <1>7, <1>10 DEF TextInv

LEMMA Stutter == ASSUME TextInv, UNCHANGED vars PROVE TextInv'
<1>1. UNCHANGED <<length, newlines, lines, other, stage, marked, tries, card, rest, threaded, replies>>
  BY DEF vars
<1>2. TypeOK' /\ InOrder' /\ Shown'
  BY <1>1, Zenon DEF TextInv, TypeOK, Spans, InOrder, Shown, SnapshotShows
<1>3. WellCut'
  BY <1>1, Zenon DEF TextInv, WellCut, Pieces, Linked, AtLines, EndOf
<1> QED
  BY <1>2, <1>3 DEF TextInv

\* The invariant holds in every state.
THEOREM TextIsCut == Spec => []TextInv
<1>1. TextInv /\ [Next]_vars => TextInv'
  BY KeepsTrim, KeepsStop, KeepsSplit, KeepsStage, KeepsReply, Stutter DEF Next
<1> QED
  BY <1>1, InitText, PTL DEF Spec

-----------------------------------------------------------------------------
(* What it shows.                                                            *)

\* Every variable stays within its type.
THEOREM TypeCorrect == Spec => []TypeOK
<1>1. TextInv => TypeOK
  BY DEF TextInv
<1> QED
  BY <1>1, TextIsCut, PTL

\* When all is done, the replies reach the end of the text.
LEMMA DoneIsSent ==
    ASSUME TypeOK, InOrder, WellCut, stage = "done"
    PROVE  EndOf(replies) = length
<1>1. replies \in Seq(Spans) /\ threaded = <<>>
  BY Numbers DEF InOrder
<1>2. replies \o threaded = replies
  BY <1>1, ConcatEmptySeq
<1> QED
  BY <1>2 DEF WellCut, Pieces

\* What has arrived is a beginning of all pieces.
LEMMA PiecesAreLinked ==
    ASSUME TypeOK, WellCut
    PROVE  Linked(replies) /\ AtLines(replies)
<1>1. replies \in Seq(Spans) /\ threaded \in Seq(Spans)
  BY Numbers
<1>2. CASE stage = "gaveUp"
  BY <1>2 DEF WellCut, Pieces
<1>3. CASE stage # "gaveUp"
  BY <1>1, <1>3, LinkedPrefix, AtLinesPrefix DEF WellCut, Pieces
<1> QED
  BY <1>2, <1>3

\* The replies, sent in order, are linked stretches of the text that begin where
\* the card stops, none empty or longer than a chunk; when the last one has
\* arrived, they reach the end of the text.
THEOREM ThreadContinues == Spec => []ThreadContinuesCard
<1>1. ASSUME TextInv PROVE ThreadContinuesCard
  <2>1. TypeOK /\ InOrder /\ WellCut
    BY <1>1 DEF TextInv
  <2>2. Pieces \in Seq(Spans) /\ DOMAIN Pieces = 1 .. Len(Pieces)
    <3>1. replies \in Seq(Spans) /\ replies \o threaded \in Seq(Spans)
      BY <2>1, Numbers, ConcatProperties
    <3>2. Pieces \in Seq(Spans)
      BY <3>1 DEF Pieces
    <3> QED
      BY <3>2, LenProperties
  <2>3. \A i \in DOMAIN Pieces :
          /\ Pieces[i][1] = IF i = 1 THEN Soft ELSE Pieces[i - 1][2]
          /\ Pieces[i][1] < Pieces[i][2] /\ Pieces[i][2] <= Pieces[i][1] + Chunk
    BY <2>1, <2>2 DEF WellCut, Linked
  <2>4. ASSUME stage = "done", length > Soft
        PROVE  replies # <<>> /\ Last(replies)[2] = length
    <3>1. EndOf(replies) = length
      BY <2>1, <2>4, DoneIsSent
    <3>2. replies # <<>>
      BY <2>1, <2>4, <3>1, Numbers DEF EndOf
    <3> QED
      BY <3>1, <3>2 DEF EndOf, Last
  <2> QED
    BY <2>3, <2>4 DEF ThreadContinuesCard
<1> QED
  BY <1>1, TextIsCut, PTL

\* If the last PATCH arrives, card and thread show the text without a gap.
THEOREM NothingIsLost == Spec => []NothingLost
<1>1. ASSUME TextInv PROVE NothingLost
  <2>1. TypeOK /\ InOrder /\ WellCut /\ Shown
    BY <1>1 DEF TextInv
  <2>2. SUFFICES ASSUME stage \in {"done", "gaveUp"}, card > 0
                 PROVE  /\ replies # <<>> => card >= replies[1][1]
                        /\ stage = "done" =>
                              card = length \/ (replies # <<>> /\ Last(replies)[2] = length)
    BY DEF NothingLost
  <2>3. card = SnapshotShows /\ card \in Nat
    BY <2>1, <2>2, Numbers DEF Shown
  <2>4. ASSUME replies # <<>> PROVE card >= replies[1][1]
    <3>1. Linked(replies)
      BY <2>1, Numbers, PiecesAreLinked
    <3>2. 1 \in 1 .. Len(replies) /\ replies[1] \in Spans
      BY <2>1, <2>4, Numbers, EmptySeq, LenProperties, ElementOfSeq
    <3>3. replies[1][1] = Soft /\ Soft < replies[1][2]
      BY <3>1, <3>2 DEF Linked
    <3>4. replies[1][2] \in 0 .. length
      BY <3>2 DEF Spans
    <3> QED
      BY <2>1, <2>3, <3>3, <3>4, Numbers DEF SnapshotShows
  <2>5. ASSUME stage = "done" PROVE card = length \/ (replies # <<>> /\ Last(replies)[2] = length)
    <3>1. EndOf(replies) = length
      BY <2>1, <2>5, DoneIsSent
    <3>2. CASE replies = <<>>
      <4>1. ~(length > Soft)
        BY <2>1, <3>1, <3>2, Numbers DEF EndOf
      <4> QED
        BY <2>1, <2>3, <4>1 DEF InOrder, SnapshotShows
    <3>3. CASE replies # <<>>
      BY <3>1, <3>3 DEF EndOf, Last
    <3> QED
      BY <3>2, <3>3
  <2> QED
    BY <2>4, <2>5
<1> QED
  BY <1>1, TextIsCut, PTL

\* Replies end at the ends of lines wherever their chunk holds one.
THEOREM CutsAreAtLines == Spec => []CutsAtLines
<1>1. ASSUME TextInv PROVE CutsAtLines
  <2>1. TypeOK /\ WellCut
    BY <1>1 DEF TextInv
  <2>2. AtLines(replies) /\ DOMAIN replies = 1 .. Len(replies)
    BY <2>1, Numbers, PiecesAreLinked, LenProperties
  <2> QED
    BY <2>2 DEF AtLines, CutsAtLines
<1> QED
  BY <1>1, TextIsCut, PTL
=============================================================================
