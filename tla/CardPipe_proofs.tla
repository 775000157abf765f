-------------------------- MODULE CardPipe_proofs --------------------------
(* Theorems about CardPipe, for any set of tool calls and all bounds.       *)
EXTENDS CardPipe, SequenceTheorems, FiniteSetTheorems, TLAPS

Results == {"ok", "failed"}

-----------------------------------------------------------------------------
(* Types.                                                                    *)

\* What each event does to a state, and whether that is a visible change.
LEMMA ApplyThinking ==
    ASSUME NEW s
    PROVE  /\ Applied(s, Delta("thinking")) =
                [s EXCEPT !.phase = IF @ = "idle" THEN "thinking" ELSE @,
                          !.thinking = IF s.thinkingDone THEN @ ELSE @ + 1]
           /\ Changed(s, Delta("thinking")) = ~s.thinkingDone
BY DEF Applied, Changed, Delta

LEMMA ApplyText ==
    ASSUME NEW s
    PROVE  /\ Applied(s, Delta("text")) =
                [s EXCEPT !.thinkingDone = TRUE,
                          !.phase = IF @ \in {"idle", "thinking"} THEN "text" ELSE @,
                          !.text = @ + 1]
           /\ Changed(s, Delta("text")) = TRUE
BY DEF Applied, Changed, Delta

LEMMA ApplyStart ==
    ASSUME NEW s, NEW c
    PROVE  /\ Applied(s, Start(c)) =
                [s EXCEPT !.phase = "tools",
                          !.tools[c] = IF @ = "none" THEN "running" ELSE @]
           /\ Changed(s, Start(c)) = (s.tools[c] = "none")
BY DEF Applied, Changed, Start

LEMMA ApplyFinished ==
    ASSUME NEW s, NEW c, NEW r
    PROVE  /\ Applied(s, Finished(c, r)) =
                [s EXCEPT !.tools[c] = IF @ = "none" THEN @ ELSE r]
           /\ Changed(s, Finished(c, r)) = (s.tools[c] # "none")
BY DEF Applied, Changed, Finished

LEMMA ApplyError ==
    ASSUME NEW s
    PROVE  /\ Applied(s, Error) = [s EXCEPT !.phase = "error", !.error = "internal"]
           /\ Changed(s, Error) = TRUE
BY DEF Applied, Changed, Error

LEMMA ApplyMessageEnd ==
    ASSUME NEW s
    PROVE  Applied(s, MessageEnd) = s /\ Changed(s, MessageEnd) = FALSE
BY DEF Applied, Changed, MessageEnd

\* Applying an event to a state gives a state.
LEMMA AppliedType ==
    ASSUME NEW s \in CardState, NEW ev \in Event
    PROVE  Applied(s, ev) \in CardState
<1>1. Applied(s, Delta("thinking")) \in CardState
  <2> DEFINE p == IF s.phase = "idle" THEN "thinking" ELSE s.phase
             n == IF s.thinkingDone THEN s.thinking ELSE s.thinking + 1
  <2>1. Applied(s, Delta("thinking")) = [s EXCEPT !.phase = p, !.thinking = n]
    BY ApplyThinking
  <2>2. p \in {"idle", "thinking", "text", "tools", "done", "error"} /\ n \in Nat
    BY DEF CardState
  <2> HIDE DEF p, n
  <2> QED
    BY <2>1, <2>2 DEF CardState
<1>2. Applied(s, Delta("text")) \in CardState
  <2> DEFINE p == IF s.phase \in {"idle", "thinking"} THEN "text" ELSE s.phase
             n == s.text + 1
  <2>1. Applied(s, Delta("text")) =
            [s EXCEPT !.thinkingDone = TRUE, !.phase = p, !.text = n]
    BY ApplyText
  <2>2. p \in {"idle", "thinking", "text", "tools", "done", "error"} /\ n \in Nat
    BY DEF CardState
  <2> HIDE DEF p, n
  <2>3. [s EXCEPT !.thinkingDone = TRUE, !.phase = p, !.text = n] \in CardState
    BY <2>2, Zenon DEF CardState
  <2> QED
    BY <2>1, <2>3
<1>3. Applied(s, MessageEnd) \in CardState
  BY ApplyMessageEnd
<1>4. Applied(s, Error) \in CardState
  <2>1. [s EXCEPT !.phase = "error", !.error = "internal"] \in CardState
    BY Zenon DEF CardState
  <2> QED
    BY <2>1, ApplyError
<1>5. ASSUME NEW c \in Calls
      PROVE  Applied(s, Start(c)) \in CardState
  <2> DEFINE t == IF s.tools[c] = "none" THEN "running" ELSE s.tools[c]
  <2>1. Applied(s, Start(c)) = [s EXCEPT !.phase = "tools", !.tools[c] = t]
    BY ApplyStart
  <2>2. t \in Stages
    BY DEF CardState, Stages
  <2> HIDE DEF t
  <2>3. [s EXCEPT !.tools[c] = t] \in CardState
    BY <2>2 DEF CardState
  <2>4. [s EXCEPT !.phase = "tools", !.tools[c] = t]
            = [[s EXCEPT !.tools[c] = t] EXCEPT !.phase = "tools"]
    BY DEF CardState
  <2> QED
    BY <2>1, <2>3, <2>4 DEF CardState
<1>6. ASSUME NEW c \in Calls, NEW r \in Results
      PROVE  Applied(s, Finished(c, r)) \in CardState
  BY ApplyFinished DEF CardState, Stages, Results
<1> QED
  BY <1>1, <1>2, <1>3, <1>4, <1>5, <1>6 DEF Event, Results

\* BuildCardJSON shows a state as an error card or as one with content.
LEMMA CardType ==
    ASSUME NEW s \in CardState
    PROVE  Card(s) \in ErrorCard \cup LiveCard
BY DEF Card, CardState, ErrorCard, LiveCard, Stages

\* The terminal state is a state.
LEMMA TerminalType ==
    ASSUME NEW s \in CardState
    PROVE  Terminal(s) \in CardState
BY DEF Terminal, CardState

\* What flush leaves of dirty, lastSnap and the card.
LEMMA FlushType ==
    ASSUME TypeOK, NEW s \in CardState, NEW d \in BOOLEAN, NEW force \in BOOLEAN,
           Flush(s, d, force)
    PROVE  /\ dirty' \in BOOLEAN
           /\ lastSnap' \in AnyCard
           /\ shown' \in AnyCard
<1>1. Card(s) \in AnyCard
  BY CardType DEF AnyCard
<1> QED
  BY <1>1 DEF Flush, TypeOK, PatchCard

-----------------------------------------------------------------------------
(* The inductive invariant.                                                  *)

\* Every call is announced once and ends once, in the channel or in the state.
CallsInv ==
    /\ toStart \cap running = {}
    /\ \A c \in Calls :
          /\ state.tools[c] # "none" => c \in asked /\ c \notin toStart
          /\ state.tools[c] \in Results => c \notin running
    /\ \A c \in Calls, i \in 1 .. Len(chan) : chan[i] = Start(c) =>
          /\ state.tools[c] = "none" /\ c \in asked /\ c \notin toStart
          /\ \A j \in 1 .. Len(chan) : chan[j] = Start(c) => i = j
    /\ \A c \in Calls, r \in Results, i \in 1 .. Len(chan) : chan[i] = Finished(c, r) =>
          /\ state.tools[c] \notin Results
          /\ c \in asked /\ c \notin toStart /\ c \notin running
          /\ \A j \in 1 .. Len(chan), q \in Results : chan[j] = Finished(c, q) => i = j

\* An error is the last event of a run.
ErrorInv ==
    /\ \A i \in 1 .. Len(chan) : chan[i] = Error => i = Len(chan) /\ agent = "returned"
    /\ state.phase = "error" /\ feed = "looping" => chan = <<>> /\ agent = "returned"

\* Text has begun, so the state is not idle.
ThinkingInv == state.thinkingDone => state.phase # "idle"

\* A tool of an older card may be shown as it is in a newer one.
ToolAdvanced(old, new) ==
    \/ old = "none"
    \/ old = "running" /\ new # "none"
    \/ old = new

\* The card is no further than the state.
ShownInv ==
    /\ handler = "returned" => feed = "left"
    /\ state.phase = "done" => handler = "returned"
    /\ shown.kind = "error" => state.phase = "error"
    /\ shown.kind = "final" => handler = "returned"
    /\ shown.kind \in {"initializing", "running", "final"} =>
          /\ shown.text <= state.text
          /\ \A c \in Calls : ToolAdvanced(shown.tools[c], state.tools[c])

\* A run that goes on has a step left.
StepInv == agent # "returned" => step < MaxSteps

PipeInv ==
    /\ TypeOK /\ StepInv
    /\ CallsInv /\ ErrorInv /\ ThinkingInv /\ ShownInv /\ CleanMeansShown

-----------------------------------------------------------------------------
(* The channel.                                                              *)

\* An emit adds its event at the end.
LEMMA EmitType ==
    ASSUME TypeOK, NEW ev \in Event, Emit(ev)
    PROVE  /\ chan' \in Seq(Event) /\ Len(chan') <= BufCap
           /\ Len(chan') = Len(chan) + 1
           /\ \A i \in 1 .. Len(chan') : chan'[i] = IF i <= Len(chan) THEN chan[i] ELSE ev
BY PipeBounds DEF TypeOK, Emit

\* A receive takes the first event away.
LEMMA ReceiveType ==
    ASSUME TypeOK, chan # <<>>, chan' = Tail(chan)
    PROVE  /\ chan' \in Seq(Event) /\ Len(chan') <= BufCap
           /\ Head(chan) \in Event /\ Head(chan) = chan[1] /\ 1 \in 1 .. Len(chan)
           /\ Len(chan') = Len(chan) - 1
           /\ \A i \in 1 .. Len(chan') : i + 1 \in 1 .. Len(chan) /\ chan'[i] = chan[i + 1]
BY PipeBounds DEF TypeOK

\* Events of different kinds, or of different calls, differ.
LEMMA EventsDiffer ==
    /\ \A c, d \in Calls : Start(c) = Start(d) => c = d
    /\ \A c, d \in Calls, r, q \in Results : Finished(c, r) = Finished(d, q) => c = d
    /\ \A c, d \in Calls, r \in Results : Start(c) # Finished(d, r)
    /\ \A c \in Calls, ev \in {Delta("thinking"), Delta("text"), MessageEnd, Error} :
          ev # Start(c) /\ \A r \in Results : ev # Finished(c, r)
    /\ \A c \in Calls, r \in Results : Start(c) # Error /\ Finished(c, r) # Error
    /\ Error \notin {Delta("thinking"), Delta("text"), MessageEnd}
BY DEF Start, Finished, Delta, MessageEnd, Error, Results

\* The forms of the events.
LEMMA EventForms ==
    /\ {Delta("thinking"), Delta("text"), MessageEnd, Error} \subseteq Event
    /\ \A c \in Calls : Start(c) \in Event /\ \A r \in Results : Finished(c, r) \in Event
    /\ \A ev \in Event :
          \/ ev \in {Delta("thinking"), Delta("text"), MessageEnd, Error}
          \/ \E c \in Calls : ev = Start(c)
          \/ \E c \in Calls, r \in Results : ev = Finished(c, r)
BY DEF Event, Results

-----------------------------------------------------------------------------
(* Types are kept.                                                           *)

LEMMA InitTypes == Init => TypeOK /\ StepInv
<1> SUFFICES ASSUME Init PROVE TypeOK /\ StepInv
  OBVIOUS
<1>1. NewState \in CardState
  BY DEF NewState, CardState, Stages
<1>2. chan \in Seq(Event) /\ Len(chan) <= BufCap
  BY PipeBounds DEF Init
<1>3. StepInv /\ step \in 0 .. MaxSteps /\ deltas \in 0 .. MaxDeltas
  BY PipeBounds DEF Init, StepInv
<1>4. lastSnap \in AnyCard /\ shown \in AnyCard
  BY DEF Init, AnyCard
<1> QED
  BY <1>1, <1>2, <1>3, <1>4 DEF Init, TypeOK

\* The agent's steps.
LEMMA AgentTypes ==
    ASSUME TypeOK, StepInv, Agent
    PROVE  TypeOK' /\ StepInv'
<1> USE PipeBounds
<1>1. ASSUME NEW kind \in {"thinking", "text"}, EmitDelta(kind) PROVE TypeOK' /\ StepInv'
  <2>1. chan' \in Seq(Event) /\ Len(chan') <= BufCap
    BY <1>1, EmitType, EventForms DEF EmitDelta
  <2> QED
    BY <1>1, <2>1 DEF EmitDelta, notAgent, feedVars, cardVars, handlerVars, TypeOK, StepInv
<1>2. ASSUME NEW calls \in SUBSET Calls, SaveMessage(calls) PROVE TypeOK' /\ StepInv'
  <2>1. toStart' \subseteq asked' /\ running' \subseteq asked' /\ asked' \subseteq Calls
    BY <1>2 DEF SaveMessage, TypeOK
  <2> QED
    BY <1>2, <2>1 DEF SaveMessage, notAgent, feedVars, cardVars, handlerVars, TypeOK, StepInv
<1>3. ASSUME EmitMessageEnd PROVE TypeOK' /\ StepInv'
  <2>1. chan' \in Seq(Event) /\ Len(chan') <= BufCap
    BY <1>3, EmitType, EventForms DEF EmitMessageEnd
  <2> QED
    BY <1>3, <2>1 DEF EmitMessageEnd, Return, notAgent, feedVars, cardVars, handlerVars, TypeOK, StepInv
<1>4. ASSUME NEW c \in Calls, EmitStart(c) PROVE TypeOK' /\ StepInv'
  <2>1. chan' \in Seq(Event) /\ Len(chan') <= BufCap
    BY <1>4, EmitType, EventForms DEF EmitStart
  <2> QED
    BY <1>4, <2>1 DEF EmitStart, notAgent, feedVars, cardVars, handlerVars, TypeOK, StepInv
<1>5. ASSUME NEW c \in Calls, NEW result \in Results, ToolEnds(c, result) PROVE TypeOK' /\ StepInv'
  <2>1. chan' \in Seq(Event) /\ Len(chan') <= BufCap
    BY <1>5, EmitType, EventForms DEF ToolEnds
  <2> QED
    BY <1>5, <2>1 DEF ToolEnds, notAgent, feedVars, cardVars, handlerVars, TypeOK, StepInv
<1>6. ASSUME NextStep PROVE TypeOK' /\ StepInv'
  <2>1. step \in 0 .. MaxSteps /\ step < MaxSteps /\ step' = step + 1
    BY <1>6 DEF NextStep, TypeOK, StepInv
  <2>2. StepInv' /\ step' \in 0 .. MaxSteps /\ deltas' \in 0 .. MaxDeltas
    BY <1>6, <2>1 DEF NextStep, Return, StepInv
  <2>3. agent' \in {"stream", "returned"} /\ runErr' \in BOOLEAN /\ content' \in BOOLEAN
    BY <1>6 DEF NextStep, Return, TypeOK
  <2>4. UNCHANGED <<chan, toStart, running, asked, said, notAgent>>
    BY <1>6 DEF NextStep
  <2> QED
    BY <2>2, <2>3, <2>4 DEF notAgent, feedVars, cardVars, handlerVars, TypeOK
<1>7. ASSUME RunFails PROVE TypeOK' /\ StepInv'
  <2>1. chan' \in Seq(Event) /\ Len(chan') <= BufCap
    BY <1>7, EmitType, EventForms DEF RunFails, TypeOK
  <2> QED
    BY <1>7, <2>1 DEF RunFails, Return, notAgent, feedVars, cardVars, handlerVars, TypeOK, StepInv
<1> QED
  BY <1>1, <1>2, <1>3, <1>4, <1>5, <1>6, <1>7 DEF Agent, Results

\* The steps of Feed.
LEMMA FeedTypes ==
    ASSUME TypeOK, StepInv, Feed
    PROVE  TypeOK' /\ StepInv'
<1> USE PipeBounds
<1>1. CASE FeedTick
  <2>1. dirty' \in BOOLEAN /\ lastSnap' \in AnyCard /\ shown' \in AnyCard
    BY <1>1, FlushType DEF FeedTick, TypeOK
  <2> QED
    BY <1>1, <2>1 DEF FeedTick, notFeed, agentVars, handlerVars, TypeOK, StepInv
<1>2. CASE FeedEvent
  <2> DEFINE ev == Head(chan)
             d  == dirty \/ Changed(state, ev)
  <2>1. chan' \in Seq(Event) /\ Len(chan') <= BufCap /\ ev \in Event
    BY <1>2, ReceiveType DEF FeedEvent
  <2>2. state' \in CardState
    BY <1>2, <2>1, AppliedType DEF FeedEvent, TypeOK
  <2>3. dirty' \in BOOLEAN /\ lastSnap' \in AnyCard /\ shown' \in AnyCard
    <3>1. d \in BOOLEAN
      OBVIOUS
    <3>2. CASE Urgent(state, ev)
      <4>1. Flush(state', d, TRUE)
        BY <1>2, <3>2 DEF FeedEvent
      <4> HIDE DEF d
      <4> QED
        BY <4>1, <2>2, <3>1, FlushType
    <3>3. CASE ~Urgent(state, ev)
      <4>1. dirty' = d /\ UNCHANGED <<lastSnap, shown>>
        BY <1>2, <3>3 DEF FeedEvent
      <4> QED
        BY <4>1, <3>1 DEF TypeOK
    <3> QED BY <3>2, <3>3
  <2> QED
    BY <1>2, <2>1, <2>2, <2>3 DEF FeedEvent, notFeed, agentVars, handlerVars, TypeOK, StepInv
<1>3. CASE FeedClosed \/ FeedCancelled
  <2>1. dirty' \in BOOLEAN /\ lastSnap' \in AnyCard /\ shown' \in AnyCard
    BY <1>3, FlushType DEF FeedClosed, FeedCancelled, TypeOK
  <2> QED
    BY <1>3, <2>1 DEF FeedClosed, FeedCancelled, notFeed, agentVars, handlerVars, TypeOK, StepInv
<1> QED
  BY <1>1, <1>2, <1>3 DEF Feed

\* Every step keeps every variable within its type.
LEMMA NextTypes == TypeOK /\ StepInv /\ [Next]_vars => TypeOK' /\ StepInv'
<1> SUFFICES ASSUME TypeOK, StepInv, [Next]_vars PROVE TypeOK' /\ StepInv'
  OBVIOUS
<1>1. CASE CtxEnds
  BY <1>1 DEF CtxEnds, agentVars, feedVars, cardVars, handlerVars, TypeOK, StepInv
<1>2. CASE CloseEvents
  BY <1>2 DEF CloseEvents, agentVars, feedVars, cardVars, TypeOK, StepInv
<1>3. CASE WriteFinal
  <2>1. state' \in CardState
    BY <1>3, TerminalType DEF WriteFinal, TypeOK
  <2>2. shown' \in AnyCard /\ finalOk' \in BOOLEAN
    <3>1. Card(state') \in AnyCard
      BY <2>1, CardType DEF AnyCard
    <3> QED
      BY <1>3, <3>1 DEF WriteFinal, PatchCard, TypeOK
  <2> QED
    BY <1>3, <2>1, <2>2 DEF WriteFinal, agentVars, feedVars, TypeOK, StepInv
<1>4. CASE UNCHANGED vars
  BY <1>4 DEF vars, agentVars, feedVars, cardVars, handlerVars, TypeOK, StepInv
<1> QED
  BY <1>1, <1>2, <1>3, <1>4, AgentTypes, FeedTypes DEF Next, Handle, Returned

-----------------------------------------------------------------------------
(* The life of a tool call.                                                  *)

\* The parts of a state after an event.
LEMMA ThinkingFields ==
    ASSUME NEW s \in CardState
    PROVE  LET u == Applied(s, Delta("thinking")) IN
           /\ u.tools = s.tools /\ u.text = s.text /\ u.thinkingDone = s.thinkingDone
           /\ u.phase = IF s.phase = "idle" THEN "thinking" ELSE s.phase
<1> DEFINE p == IF s.phase = "idle" THEN "thinking" ELSE s.phase
           n == IF s.thinkingDone THEN s.thinking ELSE s.thinking + 1
           u == [s EXCEPT !.phase = p, !.thinking = n]
<1>1. Applied(s, Delta("thinking")) = u
  BY ApplyThinking
<1> HIDE DEF p, n
<1>2. u.tools = s.tools /\ u.text = s.text /\ u.thinkingDone = s.thinkingDone /\ u.phase = p
  BY Zenon DEF CardState
<1> QED
  BY <1>1, <1>2 DEF p

LEMMA TextFields ==
    ASSUME NEW s \in CardState
    PROVE  LET u == Applied(s, Delta("text")) IN
           /\ u.tools = s.tools /\ u.text = s.text + 1
           /\ u.phase = IF s.phase \in {"idle", "thinking"} THEN "text" ELSE s.phase
<1> DEFINE p == IF s.phase \in {"idle", "thinking"} THEN "text" ELSE s.phase
           n == s.text + 1
           u == [s EXCEPT !.thinkingDone = TRUE, !.phase = p, !.text = n]
<1>1. Applied(s, Delta("text")) = u
  BY ApplyText
<1> HIDE DEF p, n
<1>2. u.tools = s.tools /\ u.text = n /\ u.phase = p
  BY Zenon DEF CardState
<1> QED
  BY <1>1, <1>2 DEF p, n

LEMMA ErrorFields ==
    ASSUME NEW s \in CardState
    PROVE  LET u == Applied(s, Error) IN
           /\ u.tools = s.tools /\ u.text = s.text /\ u.thinkingDone = s.thinkingDone
           /\ u.phase = "error"
<1> DEFINE u == [s EXCEPT !.phase = "error", !.error = "internal"]
<1>1. Applied(s, Error) = u
  BY ApplyError
<1>2. u.tools = s.tools /\ u.text = s.text /\ u.thinkingDone = s.thinkingDone /\ u.phase = "error"
  BY Zenon DEF CardState
<1> QED
  BY <1>1, <1>2

LEMMA StartFields ==
    ASSUME NEW s \in CardState, NEW c \in Calls
    PROVE  LET u == Applied(s, Start(c)) IN
           /\ u.tools = [s.tools EXCEPT ![c] = IF @ = "none" THEN "running" ELSE @]
           /\ u.text = s.text /\ u.phase = "tools"
<1> DEFINE t == IF s.tools[c] = "none" THEN "running" ELSE s.tools[c]
           u == [s EXCEPT !.phase = "tools", !.tools[c] = t]
<1>1. Applied(s, Start(c)) = u
  BY ApplyStart
<1> HIDE DEF t
<1>2. u.tools = [s.tools EXCEPT ![c] = t] /\ u.text = s.text /\ u.phase = "tools"
  BY Zenon DEF CardState
<1> QED
  BY <1>1, <1>2 DEF t

LEMMA FinishedFields ==
    ASSUME NEW s \in CardState, NEW c \in Calls, NEW r \in Results
    PROVE  LET u == Applied(s, Finished(c, r)) IN
           /\ u.tools = [s.tools EXCEPT ![c] = IF @ = "none" THEN @ ELSE r]
           /\ u.text = s.text /\ u.thinkingDone = s.thinkingDone /\ u.phase = s.phase
BY ApplyFinished DEF CardState

LEMMA TerminalFields ==
    ASSUME NEW s \in CardState
    PROVE  LET u == Terminal(s) IN
           /\ u.tools = s.tools /\ u.text = s.text /\ u.thinkingDone = s.thinkingDone
           /\ u.phase = IF runErr \/ s.phase = "error" THEN "error" ELSE "done"
<1> DEFINE u == [s EXCEPT !.phase = "error", !.error = "friendly"]
           v == [s EXCEPT !.phase = "done"]
<1>1. u.tools = s.tools /\ u.text = s.text /\ u.thinkingDone = s.thinkingDone /\ u.phase = "error"
  BY Zenon DEF CardState
<1>2. v.tools = s.tools /\ v.text = s.text /\ v.thinkingDone = s.thinkingDone /\ v.phase = "done"
  BY Zenon DEF CardState
<1> QED
  BY <1>1, <1>2 DEF Terminal

\* The tools of a state after an event.
LEMMA AppliedTools ==
    ASSUME NEW s \in CardState
    PROVE  /\ \A ev \in {Delta("thinking"), Delta("text"), MessageEnd, Error} :
                 Applied(s, ev).tools = s.tools
           /\ \A c \in Calls : Applied(s, Start(c)).tools =
                 [s.tools EXCEPT ![c] = IF @ = "none" THEN "running" ELSE @]
           /\ \A c \in Calls, r \in Results : Applied(s, Finished(c, r)).tools =
                 [s.tools EXCEPT ![c] = IF @ = "none" THEN @ ELSE r]
<1>1. \A ev \in {Delta("thinking"), Delta("text"), MessageEnd, Error} :
         Applied(s, ev).tools = s.tools
  BY ThinkingFields, TextFields, ErrorFields, ApplyMessageEnd
<1>2. \A c \in Calls : Applied(s, Start(c)).tools =
         [s.tools EXCEPT ![c] = IF @ = "none" THEN "running" ELSE @]
  BY StartFields
<1>3. \A c \in Calls, r \in Results : Applied(s, Finished(c, r)).tools =
         [s.tools EXCEPT ![c] = IF @ = "none" THEN @ ELSE r]
  BY FinishedFields
<1> QED
  BY <1>1, <1>2, <1>3

\* An emit of an event that is about no call.
LEMMA EmitKeepsCalls ==
    ASSUME TypeOK, CallsInv,
           NEW ev \in {Delta("thinking"), Delta("text"), MessageEnd, Error}, Emit(ev),
           UNCHANGED <<toStart, running, asked, state>>
    PROVE  CallsInv'
<1>1. /\ Len(chan) \in Nat /\ Len(chan') = Len(chan) + 1
      /\ \A i \in 1 .. Len(chan') : chan'[i] = IF i <= Len(chan) THEN chan[i] ELSE ev
  BY EmitType, EventForms DEF TypeOK
<1>2. \A c \in Calls : ev # Start(c) /\ \A r \in Results : ev # Finished(c, r)
  BY EventsDiffer
<1>3. \A i \in 1 .. Len(chan'), c \in Calls, r \in Results :
         chan'[i] = Start(c) \/ chan'[i] = Finished(c, r)
            => i \in 1 .. Len(chan) /\ chan'[i] = chan[i]
  BY <1>1, <1>2
<1> QED
  BY <1>3 DEF CallsInv, Results

LEMMA InitCalls == Init => CallsInv
<1> SUFFICES ASSUME Init PROVE CallsInv
  OBVIOUS
<1>1. Len(chan) = 0 /\ toStart = {} /\ \A c \in Calls : state.tools[c] = "none"
  BY DEF Init, NewState
<1> QED
  BY <1>1 DEF CallsInv, Results

LEMMA AgentCalls ==
    ASSUME TypeOK, CallsInv, Agent
    PROVE  CallsInv'
<1>1. ASSUME NEW kind \in {"thinking", "text"}, EmitDelta(kind) PROVE CallsInv'
  BY <1>1, EmitKeepsCalls DEF EmitDelta, notAgent, cardVars
<1>2. ASSUME NEW calls \in SUBSET Calls, SaveMessage(calls) PROVE CallsInv'
  <2>1. /\ toStart' = calls /\ asked' = asked \cup calls /\ calls \cap asked = {}
        /\ UNCHANGED <<chan, running, state>> /\ running \subseteq asked
    BY <1>2 DEF SaveMessage, notAgent, cardVars, TypeOK
  <2> QED
    BY <2>1 DEF CallsInv
<1>3. ASSUME EmitMessageEnd PROVE CallsInv'
  BY <1>3, EmitKeepsCalls DEF EmitMessageEnd, notAgent, cardVars
<1>4. ASSUME NEW c \in Calls, EmitStart(c) PROVE CallsInv'
  <2>1. /\ c \in toStart /\ toStart' = toStart \ {c} /\ running' = running \cup {c}
        /\ UNCHANGED <<asked, state>> /\ toStart \subseteq asked
    BY <1>4 DEF EmitStart, notAgent, cardVars, TypeOK
  <2>2. /\ Len(chan) \in Nat /\ Len(chan') = Len(chan) + 1
        /\ \A i \in 1 .. Len(chan') : chan'[i] = IF i <= Len(chan) THEN chan[i] ELSE Start(c)
    BY <1>4, EmitType, EventForms DEF EmitStart, TypeOK
  <2>3. \A d \in Calls, i \in 1 .. Len(chan) : chan[i] = Start(d) => d # c
    BY <2>1 DEF CallsInv
  <2>4. \A d \in Calls, r \in Results, i \in 1 .. Len(chan) : chan[i] = Finished(d, r) => d # c
    BY <2>1 DEF CallsInv
  <2>5. \A d \in Calls, i \in 1 .. Len(chan') : chan'[i] = Start(d) =>
            \/ d = c /\ i = Len(chan) + 1
            \/ d # c /\ i \in 1 .. Len(chan) /\ chan[i] = Start(d)
    BY <2>2, <2>3, EventsDiffer
  <2>6. \A d \in Calls, r \in Results, i \in 1 .. Len(chan') : chan'[i] = Finished(d, r) =>
            d # c /\ i \in 1 .. Len(chan) /\ chan[i] = Finished(d, r)
    BY <2>2, <2>4, EventsDiffer
  <2>7. state.tools[c] = "none"
    BY <2>1 DEF CallsInv
  <2> QED
    BY <2>1, <2>5, <2>6, <2>7 DEF CallsInv, Results
<1>5. ASSUME NEW c \in Calls, NEW r \in Results, ToolEnds(c, r) PROVE CallsInv'
  <2>1. /\ c \in running /\ running' = running \ {c} /\ running \subseteq asked
        /\ UNCHANGED <<toStart, asked, state>>
    BY <1>5 DEF ToolEnds, notAgent, cardVars, TypeOK
  <2>2. /\ Len(chan) \in Nat /\ Len(chan') = Len(chan) + 1
        /\ \A i \in 1 .. Len(chan') : chan'[i] = IF i <= Len(chan) THEN chan[i] ELSE Finished(c, r)
    BY <1>5, EmitType, EventForms DEF ToolEnds, TypeOK
  <2>3. \A d \in Calls, q \in Results, i \in 1 .. Len(chan) : chan[i] = Finished(d, q) => d # c
    BY <2>1 DEF CallsInv
  <2>4. \A d \in Calls, i \in 1 .. Len(chan') : chan'[i] = Start(d) =>
            i \in 1 .. Len(chan) /\ chan[i] = Start(d)
    BY <2>2, EventsDiffer
  <2>5. \A d \in Calls, q \in Results, i \in 1 .. Len(chan') : chan'[i] = Finished(d, q) =>
            \/ d = c /\ i = Len(chan) + 1
            \/ d # c /\ i \in 1 .. Len(chan) /\ chan[i] = Finished(d, q)
    BY <2>2, <2>3, EventsDiffer
  <2>6. c \notin toStart /\ state.tools[c] \notin Results
    BY <2>1 DEF CallsInv
  <2> QED
    BY <2>1, <2>4, <2>5, <2>6 DEF CallsInv
<1>6. ASSUME NextStep PROVE CallsInv'
  BY <1>6 DEF NextStep, notAgent, cardVars, CallsInv
<1>7. ASSUME RunFails PROVE CallsInv'
  <2>1. UNCHANGED <<toStart, running, asked, state>> /\ (UNCHANGED chan \/ Emit(Error))
    BY <1>7 DEF RunFails, notAgent, cardVars
  <2> QED
    BY <2>1, EmitKeepsCalls DEF CallsInv
<1> QED
  BY <1>1, <1>2, <1>3, <1>4, <1>5, <1>6, <1>7 DEF Agent, Results

\* A receive after which call c, and no other one, is further.
LEMMA ReceiveKeepsCalls ==
    ASSUME CallsInv, UNCHANGED <<toStart, running, asked>>, Len(chan') \in Nat,
           \A i \in 1 .. Len(chan') : i + 1 \in 1 .. Len(chan) /\ chan'[i] = chan[i + 1],
           NEW c \in Calls, c \in asked, c \notin toStart,
           \A d \in Calls : d # c => state'.tools[d] = state.tools[d],
           state'.tools[c] \in Results => c \notin running,
           \A i \in 1 .. Len(chan') : chan'[i] = Start(c) => state'.tools[c] = "none",
           \A i \in 1 .. Len(chan'), q \in Results :
               chan'[i] = Finished(c, q) => state'.tools[c] \notin Results
    PROVE  CallsInv'
<1>1. toStart' \cap running' = {}
  BY DEF CallsInv
<1>2. \A d \in Calls :
         /\ state'.tools[d] # "none" => d \in asked' /\ d \notin toStart'
         /\ state'.tools[d] \in Results => d \notin running'
  BY DEF CallsInv
<1>3. ASSUME NEW d \in Calls, NEW i \in 1 .. Len(chan'), chan'[i] = Start(d)
      PROVE  /\ state'.tools[d] = "none" /\ d \in asked' /\ d \notin toStart'
             /\ \A j \in 1 .. Len(chan') : chan'[j] = Start(d) => i = j
  <2>1. i + 1 \in 1 .. Len(chan) /\ chan[i + 1] = Start(d)
    BY <1>3
  <2>2. /\ state.tools[d] = "none" /\ d \in asked /\ d \notin toStart
        /\ \A k \in 1 .. Len(chan) : chan[k] = Start(d) => i + 1 = k
    BY <2>1 DEF CallsInv
  <2>3. ASSUME NEW j \in 1 .. Len(chan'), chan'[j] = Start(d) PROVE i = j
    BY <2>2, <2>3
  <2> QED
    BY <1>3, <2>2, <2>3
<1>4. ASSUME NEW d \in Calls, NEW r \in Results, NEW i \in 1 .. Len(chan'), chan'[i] = Finished(d, r)
      PROVE  /\ state'.tools[d] \notin Results
             /\ d \in asked' /\ d \notin toStart' /\ d \notin running'
             /\ \A j \in 1 .. Len(chan'), q \in Results : chan'[j] = Finished(d, q) => i = j
  <2>1. i + 1 \in 1 .. Len(chan) /\ chan[i + 1] = Finished(d, r)
    BY <1>4
  <2>2. /\ state.tools[d] \notin Results /\ d \in asked /\ d \notin toStart /\ d \notin running
        /\ \A k \in 1 .. Len(chan), q \in Results : chan[k] = Finished(d, q) => i + 1 = k
    BY <2>1 DEF CallsInv
  <2>3. ASSUME NEW j \in 1 .. Len(chan'), NEW q \in Results, chan'[j] = Finished(d, q) PROVE i = j
    BY <2>2, <2>3
  <2> QED
    BY <1>4, <2>2, <2>3
<1> QED
  BY <1>1, <1>2, <1>3, <1>4 DEF CallsInv

\* An event that is taken from the channel takes the call it is about further.
LEMMA FeedCalls ==
    ASSUME TypeOK, CallsInv, FeedEvent
    PROVE  CallsInv'
<1> DEFINE ev == Head(chan)
<1>1. /\ ev \in Event /\ ev = chan[1] /\ 1 \in 1 .. Len(chan) /\ Len(chan) \in Nat
      /\ Len(chan') = Len(chan) - 1
      /\ \A i \in 1 .. Len(chan') : i + 1 \in 1 .. Len(chan) /\ chan'[i] = chan[i + 1]
  BY ReceiveType DEF FeedEvent, TypeOK
<1>2. UNCHANGED <<toStart, running, asked>> /\ state' = Applied(state, ev)
  BY DEF FeedEvent, notFeed, agentVars
<1>3. state \in CardState /\ state.tools \in [Calls -> Stages]
  BY DEF TypeOK, CardState
<1> HIDE DEF ev
<1>4. CASE ev \in {Delta("thinking"), Delta("text"), MessageEnd, Error}
  <2>1. state'.tools = state.tools
    BY <1>2, <1>3, <1>4, AppliedTools
  <2> QED
    BY <2>1, <1>1, <1>2 DEF CallsInv
<1>5. ASSUME NEW c \in Calls, ev = Start(c) PROVE CallsInv'
  <2>1. state.tools[c] = "none" /\ c \in asked /\ c \notin toStart
    BY <1>1, <1>5 DEF CallsInv
  <2>2. state'.tools = [state.tools EXCEPT ![c] = "running"]
    BY <1>2, <1>3, <1>5, <2>1, AppliedTools
  <2>3. \A i \in 1 .. Len(chan') : chan'[i] # Start(c)
    <3> SUFFICES ASSUME NEW i \in 1 .. Len(chan'), chan'[i] = Start(c) PROVE FALSE
      OBVIOUS
    <3>1. i + 1 \in 1 .. Len(chan) /\ chan[i + 1] = Start(c) /\ chan[1] = Start(c) /\ i + 1 # 1
      BY <1>1, <1>5
    <3> QED
      BY <3>1, <1>1 DEF CallsInv
  <2>4. \A i \in 1 .. Len(chan') : i + 1 \in 1 .. Len(chan) /\ chan'[i] = chan[i + 1]
    BY <1>1
  <2>5. \A d \in Calls : state'.tools[d] = IF d = c THEN "running" ELSE state.tools[d]
    BY <2>2, <1>3
  <2> QED
    BY <1>1, <1>2, <2>1, <2>3, <2>4, <2>5, ReceiveKeepsCalls DEF Results
<1>6. ASSUME NEW c \in Calls, NEW r \in Results, ev = Finished(c, r) PROVE CallsInv'
  <2>0. 1 \in 1 .. Len(chan) /\ chan[1] = Finished(c, r)
    BY <1>1, <1>6
  <2>1. c \in asked /\ c \notin toStart /\ c \notin running
    BY <2>0, <1>6 DEF CallsInv
  <2>2. state'.tools = [state.tools EXCEPT ![c] = IF @ = "none" THEN @ ELSE r]
    BY <1>2, <1>3, <1>6, AppliedTools
  <2>3. \A i \in 1 .. Len(chan'), q \in Results : chan'[i] # Finished(c, q)
    <3> SUFFICES ASSUME NEW i \in 1 .. Len(chan'), NEW q \in Results,
                        chan'[i] = Finished(c, q)
                 PROVE  FALSE
      OBVIOUS
    <3>1. /\ i + 1 \in 1 .. Len(chan) /\ chan[i + 1] = Finished(c, q)
          /\ chan[1] = Finished(c, r) /\ i + 1 # 1
      BY <1>1, <1>6
    <3> QED
      BY <3>1, <1>1 DEF CallsInv
  <2>4. \A i \in 1 .. Len(chan') : chan'[i] = Start(c) => state.tools[c] = "none"
    BY <1>1 DEF CallsInv
  <2>5. /\ \A d \in Calls : d # c => state'.tools[d] = state.tools[d]
        /\ state.tools[c] = "none" => state'.tools[c] = "none"
    BY <2>2, <1>3
  <2> QED
    BY <1>1, <1>2, <2>1, <2>3, <2>4, <2>5, ReceiveKeepsCalls
<1> QED
  BY <1>1, <1>4, <1>5, <1>6, EventForms

LEMMA NextCalls == TypeOK /\ CallsInv /\ [Next]_vars => CallsInv'
<1> SUFFICES ASSUME TypeOK, CallsInv, [Next]_vars PROVE CallsInv'
  OBVIOUS
<1>1. CASE \/ CtxEnds \/ CloseEvents \/ UNCHANGED vars
           \/ FeedTick \/ FeedClosed \/ FeedCancelled
  <2>1. UNCHANGED <<chan, toStart, running, asked, state>>
    BY <1>1 DEF CtxEnds, CloseEvents, FeedTick, FeedClosed, FeedCancelled, notFeed, vars,
         agentVars, cardVars
  <2> QED
    BY <2>1 DEF CallsInv
<1>2. CASE WriteFinal
  <2>1. state'.tools = state.tools /\ UNCHANGED <<chan, toStart, running, asked>>
    BY <1>2, TerminalFields DEF WriteFinal, agentVars, TypeOK
  <2> QED
    BY <2>1 DEF CallsInv
<1> QED
  BY <1>1, <1>2, AgentCalls, FeedCalls DEF Next, Feed, Handle, Returned

-----------------------------------------------------------------------------
(* The state and the card go on, never back.                                 *)

\* An error is the last event of a run: a step of the agent keeps it so.
LEMMA AgentError ==
    ASSUME TypeOK, ErrorInv, Agent
    PROVE  ErrorInv'
<1>1. agent # "returned" /\ UNCHANGED <<state, feed>>
  BY DEF Agent, EmitDelta, SaveMessage, EmitMessageEnd, EmitStart, ToolEnds, NextStep, RunFails,
       notAgent, cardVars, feedVars
<1>2. /\ \A i \in 1 .. Len(chan) : chan[i] # Error
      /\ ~(state'.phase = "error" /\ feed' = "looping")
  BY <1>1 DEF ErrorInv
<1>3. \/ UNCHANGED chan
      \/ \E ev \in Event : Emit(ev) /\ (ev = Error => agent' = "returned")
  <2>1. ASSUME NEW kind \in {"thinking", "text"}, EmitDelta(kind)
        PROVE  Emit(Delta(kind)) /\ Delta(kind) \in Event /\ Delta(kind) # Error
    BY <2>1, EventForms, EventsDiffer DEF EmitDelta
  <2>2. ASSUME EmitMessageEnd PROVE Emit(MessageEnd) /\ MessageEnd \in Event /\ MessageEnd # Error
    BY <2>2, EventForms, EventsDiffer DEF EmitMessageEnd
  <2>3. ASSUME NEW c \in Calls, EmitStart(c)
        PROVE  Emit(Start(c)) /\ Start(c) \in Event /\ Start(c) # Error
    BY <2>3, EventForms, EventsDiffer DEF EmitStart, Results
  <2>4. ASSUME NEW c \in Calls, NEW r \in Results, ToolEnds(c, r)
        PROVE  Emit(Finished(c, r)) /\ Finished(c, r) \in Event /\ Finished(c, r) # Error
    BY <2>4, EventForms, EventsDiffer DEF ToolEnds
  <2>5. ASSUME RunFails
        PROVE  agent' = "returned" /\ Error \in Event /\ (UNCHANGED chan \/ Emit(Error))
    BY <2>5, EventForms DEF RunFails, Return
  <2>6. ASSUME (\E calls \in SUBSET Calls : SaveMessage(calls)) \/ NextStep PROVE UNCHANGED chan
    BY <2>6 DEF SaveMessage, NextStep
  <2> QED
    BY <2>1, <2>2, <2>3, <2>4, <2>5, <2>6 DEF Agent, Results
<1>4. CASE UNCHANGED chan
  BY <1>2, <1>4 DEF ErrorInv
<1>5. ASSUME NEW ev \in Event, Emit(ev), ev = Error => agent' = "returned" PROVE ErrorInv'
  <2>1. /\ Len(chan) \in Nat /\ Len(chan') = Len(chan) + 1
        /\ \A i \in 1 .. Len(chan') : chan'[i] = IF i <= Len(chan) THEN chan[i] ELSE ev
    BY <1>5, EmitType DEF TypeOK
  <2>2. \A i \in 1 .. Len(chan') : chan'[i] = Error => i = Len(chan') /\ ev = Error
    BY <2>1, <1>2
  <2> QED
    BY <2>2, <1>5, <1>2 DEF ErrorInv
<1> QED
  BY <1>3, <1>4, <1>5

\* What an event may do to a state.
LEMMA AppliedAdvances ==
    ASSUME NEW s \in CardState, NEW ev \in Event,
           \A c \in Calls, r \in Results : ev = Finished(c, r) => s.tools[c] \notin Results
    PROVE  LET u == Applied(s, ev) IN
           /\ u.text >= s.text
           /\ \A c \in Calls : ToolAdvanced(s.tools[c], u.tools[c])
           /\ u.phase = "error" => s.phase = "error" \/ ev = Error
           /\ u.phase = "done" => s.phase = "done"
           /\ u.phase = "idle" => s.phase = "idle" /\ u.thinkingDone = s.thinkingDone
<1>0. s.text \in Nat /\ s.tools \in [Calls -> Stages]
  BY DEF CardState
<1>1. CASE ev = Delta("thinking")
  BY <1>0, <1>1, ThinkingFields DEF ToolAdvanced
<1>2. CASE ev = Delta("text")
  BY <1>0, <1>2, TextFields DEF ToolAdvanced
<1>3. CASE ev = MessageEnd
  <2>1. Applied(s, ev) = s
    BY <1>3, ApplyMessageEnd
  <2> QED
    BY <1>0, <2>1 DEF ToolAdvanced
<1>4. CASE ev = Error
  <2>1. /\ Applied(s, ev).tools = s.tools /\ Applied(s, ev).text = s.text
        /\ Applied(s, ev).thinkingDone = s.thinkingDone /\ Applied(s, ev).phase = "error"
    BY <1>4, ErrorFields
  <2> QED
    BY <1>0, <1>4, <2>1 DEF ToolAdvanced
<1>5. ASSUME NEW c \in Calls, ev = Start(c)
      PROVE  /\ Applied(s, ev).text >= s.text /\ Applied(s, ev).phase = "tools"
             /\ \A d \in Calls : ToolAdvanced(s.tools[d], Applied(s, ev).tools[d])
  <2>1. /\ Applied(s, ev).text = s.text /\ Applied(s, ev).phase = "tools"
        /\ Applied(s, ev).tools = [s.tools EXCEPT ![c] = IF @ = "none" THEN "running" ELSE @]
    BY <1>5, StartFields
  <2>2. \A d \in Calls : Applied(s, ev).tools[d] =
           IF d = c /\ s.tools[c] = "none" THEN "running" ELSE s.tools[d]
    BY <1>0, <2>1
  <2> QED
    BY <1>0, <2>1, <2>2 DEF ToolAdvanced
<1>6. ASSUME NEW c \in Calls, NEW r \in Results, ev = Finished(c, r)
      PROVE  /\ Applied(s, ev).text >= s.text /\ Applied(s, ev).phase = s.phase
             /\ Applied(s, ev).thinkingDone = s.thinkingDone
             /\ \A d \in Calls : ToolAdvanced(s.tools[d], Applied(s, ev).tools[d])
  <2>1. /\ Applied(s, ev).text = s.text /\ Applied(s, ev).phase = s.phase
        /\ Applied(s, ev).thinkingDone = s.thinkingDone
        /\ Applied(s, ev).tools = [s.tools EXCEPT ![c] = IF @ = "none" THEN @ ELSE r]
    BY <1>6, FinishedFields
  <2>2. \A d \in Calls : Applied(s, ev).tools[d] =
           IF d = c /\ s.tools[c] # "none" THEN r ELSE s.tools[d]
    BY <1>0, <2>1
  <2>3. s.tools[c] \in {"none", "running"} /\ r # "none"
    BY <1>0, <1>6 DEF Stages, Results
  <2> QED
    BY <1>0, <2>1, <2>2, <2>3 DEF ToolAdvanced
<1>7. CASE ev \in {Delta("thinking"), Delta("text"), MessageEnd, Error}
  BY <1>1, <1>2, <1>3, <1>4, <1>7
<1>8. CASE \E c \in Calls : ev = Start(c)
  BY <1>5, <1>8
<1>9. CASE \E c \in Calls, r \in Results : ev = Finished(c, r)
  BY <1>6, <1>9
<1> QED
  BY <1>7, <1>8, <1>9, EventForms

\* No visible change means no change at all, for the events Feed may meet.
LEMMA UnchangedIsSame ==
    ASSUME NEW s \in CardState, NEW ev \in Event, ~Changed(s, ev),
           s.thinkingDone => s.phase # "idle",
           \A c \in Calls : ev = Start(c) => s.tools[c] = "none"
    PROVE  Applied(s, ev) = s
<1>1. CASE ev = Delta("thinking")
  <2>1. /\ s.thinkingDone /\ s.phase # "idle"
        /\ Applied(s, ev) = [s EXCEPT !.phase = s.phase, !.thinking = s.thinking]
    BY <1>1, ApplyThinking
  <2> QED
    BY <2>1 DEF CardState
<1>2. CASE ev = MessageEnd
  BY <1>2, ApplyMessageEnd
<1>3. ASSUME NEW c \in Calls, NEW r \in Results, ev = Finished(c, r) PROVE Applied(s, ev) = s
  <2>1. s.tools[c] = "none" /\ Applied(s, ev) = [s EXCEPT !.tools[c] = s.tools[c]]
    BY <1>3, ApplyFinished
  <2>2. [s.tools EXCEPT ![c] = s.tools[c]] = s.tools
    BY DEF CardState
  <2> QED
    BY <2>1, <2>2 DEF CardState
<1>4. ev # Delta("text") /\ ev # Error
  BY ApplyText, ApplyError
<1>5. ASSUME NEW c \in Calls, ev = Start(c) PROVE FALSE
  <2>1. s.tools[c] = "none"
    BY <1>5
  <2>2. s.tools[c] # "none"
    BY <1>5 DEF Changed, Start
  <2> QED
    BY <2>1, <2>2
<1> QED
  BY <1>1, <1>2, <1>3, <1>4, <1>5, EventForms

\* The first event of the channel, when Feed takes it.
LEMMA FeedAdvances ==
    ASSUME PipeInv, FeedEvent
    PROVE  LET ev == Head(chan) IN
           /\ ev \in Event /\ state' = Applied(state, ev) /\ state' \in CardState
           /\ state'.text >= state.text
           /\ \A c \in Calls : ToolAdvanced(state.tools[c], state'.tools[c])
           /\ state.phase # "error"
           /\ state'.phase = "error" => ev = Error
           /\ state'.phase = "done" => state.phase = "done"
           /\ ThinkingInv'
           /\ ~Changed(state, ev) => state' = state
<1> DEFINE ev == Head(chan)
<1>1. ev \in Event /\ ev = chan[1] /\ 1 \in 1 .. Len(chan) /\ state' = Applied(state, ev)
  BY ReceiveType DEF FeedEvent, PipeInv
<1>2. state \in CardState
  BY DEF PipeInv, TypeOK
<1>3. state.phase # "error"
  BY DEF PipeInv, ErrorInv, FeedEvent
<1>4. /\ \A c \in Calls, r \in Results : ev = Finished(c, r) => state.tools[c] \notin Results
      /\ \A c \in Calls : ev = Start(c) => state.tools[c] = "none"
  BY <1>1 DEF PipeInv, CallsInv
<1>5. state.thinkingDone => state.phase # "idle"
  BY DEF PipeInv, ThinkingInv
<1> HIDE DEF ev
<1>6. state' \in CardState
  BY <1>1, <1>2, AppliedType
<1>7. ~Changed(state, ev) => state' = state
  BY <1>1, <1>2, <1>4, <1>5, UnchangedIsSame
<1>8. /\ state'.text >= state.text
      /\ \A c \in Calls : ToolAdvanced(state.tools[c], state'.tools[c])
      /\ state'.phase = "error" => ev = Error
      /\ state'.phase = "done" => state.phase = "done"
      /\ state'.phase = "idle" => state.phase = "idle" /\ state'.thinkingDone = state.thinkingDone
  BY <1>1, <1>2, <1>3, <1>4, AppliedAdvances
<1> QED
  BY <1>1, <1>3, <1>5, <1>6, <1>7, <1>8 DEF ev, ThinkingInv

LEMMA NextError == PipeInv /\ [Next]_vars => ErrorInv' /\ ThinkingInv'
<1> SUFFICES ASSUME PipeInv, [Next]_vars PROVE ErrorInv' /\ ThinkingInv'
  OBVIOUS
<1> USE DEF PipeInv
<1>1. CASE Agent
  <2>1. UNCHANGED state
    BY <1>1 DEF Agent, EmitDelta, SaveMessage, EmitMessageEnd, EmitStart, ToolEnds, NextStep,
         RunFails, notAgent, cardVars
  <2> QED
    BY <1>1, <2>1, AgentError DEF ThinkingInv
<1>2. CASE FeedEvent
  <2>1. /\ Len(chan) \in Nat /\ Len(chan') = Len(chan) - 1 /\ 1 \in 1 .. Len(chan)
        /\ Head(chan) = chan[1] /\ chan' \in Seq(Event)
        /\ \A i \in 1 .. Len(chan') : i + 1 \in 1 .. Len(chan) /\ chan'[i] = chan[i + 1]
    BY <1>2, ReceiveType DEF FeedEvent, TypeOK
  <2>2. UNCHANGED agent
    BY <1>2 DEF FeedEvent, notFeed, agentVars
  <2>3. \A i \in 1 .. Len(chan') : chan'[i] = Error => i = Len(chan') /\ agent' = "returned"
    BY <2>1, <2>2 DEF ErrorInv
  <2>4. ASSUME state'.phase = "error" PROVE chan' = <<>> /\ agent' = "returned"
    <3>1. chan[1] = Error
      BY <1>2, <2>1, <2>4, FeedAdvances
    <3>2. Len(chan) = 1 /\ agent = "returned"
      BY <2>1, <3>1 DEF ErrorInv
    <3> QED
      BY <2>1, <2>2, <3>2
  <2> QED
    BY <1>2, <2>3, <2>4, FeedAdvances DEF ErrorInv
<1>3. CASE WriteFinal
  <2>1. /\ UNCHANGED <<chan, agent, feed>> /\ feed = "left"
        /\ state'.phase \in {"error", "done"}
    BY <1>3, TerminalFields DEF WriteFinal, agentVars, feedVars, TypeOK
  <2> QED
    BY <2>1 DEF ErrorInv, ThinkingInv
<1>4. CASE CtxEnds \/ CloseEvents \/ UNCHANGED vars \/ FeedTick \/ FeedClosed \/ FeedCancelled
  <2>1. UNCHANGED <<chan, agent, state>> /\ feed' \in {feed, "left"}
    BY <1>4 DEF CtxEnds, CloseEvents, FeedTick, FeedClosed, FeedCancelled, notFeed, vars,
         agentVars, cardVars, feedVars
  <2> QED
    BY <2>1 DEF ErrorInv, ThinkingInv
<1> QED
  BY <1>1, <1>2, <1>3, <1>4 DEF Next, Feed, Handle, Returned

-----------------------------------------------------------------------------
(* The card.                                                                 *)

\* What a card says of its state.
LEMMA CardFields ==
    ASSUME NEW s \in CardState
    PROVE  /\ s.phase = "error" => Card(s).kind = "error"
           /\ s.phase # "error" =>
                 /\ Card(s).kind \in {"initializing", "running", "final"}
                 /\ Card(s).kind = "final" => s.phase = "done"
                 /\ Card(s).text = s.text /\ Card(s).tools = s.tools
BY DEF Card

\* flush leaves the card alone or replaces it by that of the state; a clean
\* Feed has sent its card or had nothing to send.
LEMMA FlushShown ==
    ASSUME NEW s, NEW d \in BOOLEAN, NEW force \in BOOLEAN, Flush(s, d, force)
    PROVE  /\ shown' \in {shown, Card(s)}
           /\ ~dirty' => shown' = Card(s) \/ ~d
BY DEF Flush, PatchCard

\* What every step does to the card and to the state it is made of.
Advance ==
    /\ shown' \in {shown, Card(state')}
    /\ state'.text >= state.text
    /\ \A c \in Calls : ToolAdvanced(state.tools[c], state'.tools[c])
    /\ state.phase = "error" => state'.phase = "error"
    /\ state'.phase = "done" => handler' = "returned"
    /\ handler' \in {handler, "waiting", "returned"}
    /\ handler = "returned" => handler' = "returned" /\ shown' = shown
    /\ handler' = "returned" => feed' = "left"

LEMMA NextAdvances == PipeInv /\ [Next]_vars => Advance
<1> SUFFICES ASSUME PipeInv, [Next]_vars PROVE Advance
  OBVIOUS
<1>1. /\ TypeOK /\ state.text \in Nat
      /\ handler = "returned" => feed = "left"
      /\ state.phase = "done" => handler = "returned"
  BY DEF PipeInv, TypeOK, CardState, ShownInv
<1>2. CASE FeedEvent
  <2>1. feed = "looping" /\ UNCHANGED <<handler, feed>>
    BY <1>2 DEF FeedEvent, notFeed, handlerVars
  <2>2. shown' \in {shown, Card(state')}
    <3> DEFINE d == dirty \/ Changed(state, Head(chan))
    <3>1. d \in BOOLEAN
      OBVIOUS
    <3>2. Flush(state', d, TRUE) \/ UNCHANGED shown
      BY <1>2 DEF FeedEvent
    <3> HIDE DEF d
    <3> QED
      BY <3>1, <3>2, FlushShown
  <2>3. /\ state'.text >= state.text
        /\ \A c \in Calls : ToolAdvanced(state.tools[c], state'.tools[c])
        /\ state.phase # "error"
        /\ state'.phase = "done" => state.phase = "done"
    BY <1>2, FeedAdvances
  <2> QED
    BY <1>1, <2>1, <2>2, <2>3 DEF Advance
<1>3. CASE WriteFinal
  <2>1. /\ handler = "waiting" /\ handler' = "returned" /\ feed' = "left"
        /\ state' = Terminal(state) /\ shown' \in {shown, Card(state')}
    BY <1>3 DEF WriteFinal, feedVars, PatchCard
  <2>2. /\ state'.text = state.text /\ state'.tools = state.tools
        /\ state.phase = "error" => state'.phase = "error"
    BY <1>1, <2>1, TerminalFields DEF TypeOK
  <2> QED
    BY <1>1, <2>1, <2>2 DEF Advance, ToolAdvanced
<1>4. CASE FeedTick \/ FeedClosed \/ FeedCancelled
  <2>1. /\ feed = "looping" /\ feed' \in {feed, "left"} /\ UNCHANGED <<state, handler>>
        /\ Flush(state, dirty, FALSE) \/ Flush(state, dirty, TRUE)
    BY <1>4 DEF FeedTick, FeedClosed, FeedCancelled, notFeed, handlerVars
  <2>2. shown' \in {shown, Card(state)}
    BY <1>1, <2>1, FlushShown DEF TypeOK
  <2> QED
    BY <1>1, <2>1, <2>2 DEF Advance, ToolAdvanced
<1>5. CASE Agent \/ CtxEnds \/ CloseEvents \/ UNCHANGED vars
  <2>1. /\ UNCHANGED <<state, shown, feed>>
        /\ handler' \in {handler, "waiting"}
        /\ handler = "returned" => handler' = handler
    BY <1>5 DEF Agent, EmitDelta, SaveMessage, EmitMessageEnd, EmitStart, ToolEnds, NextStep,
       RunFails, notAgent, CtxEnds, CloseEvents, vars, cardVars, feedVars, handlerVars
  <2> QED
    BY <1>1, <2>1 DEF Advance, ToolAdvanced
<1> QED
  BY <1>2, <1>3, <1>4, <1>5 DEF Next, Feed, Handle, Returned

LEMMA NextShown == PipeInv /\ [Next]_vars /\ TypeOK' => ShownInv'
<1> SUFFICES ASSUME PipeInv, TypeOK', Advance PROVE ShownInv'
  BY NextAdvances
<1>1. /\ ShownInv /\ state.text \in Nat /\ state'.text \in Nat /\ state' \in CardState
      /\ state.tools \in [Calls -> Stages] /\ shown \in AnyCard /\ shown' \in AnyCard
  BY DEF PipeInv, TypeOK, CardState
<1>2. CASE shown' = shown
  <2>1. ASSUME shown.kind \in {"initializing", "running", "final"}
        PROVE  /\ shown.text <= state'.text
               /\ \A c \in Calls : ToolAdvanced(shown.tools[c], state'.tools[c])
    <3>1. shown.text \in Nat
      BY <1>1, <2>1 DEF AnyCard, InitialCard, ErrorCard, LiveCard
    <3>2. shown.text <= state'.text
      BY <1>1, <2>1, <3>1 DEF ShownInv, Advance
    <3>3. \A c \in Calls : /\ ToolAdvanced(shown.tools[c], state.tools[c])
                           /\ ToolAdvanced(state.tools[c], state'.tools[c])
      BY <1>1, <2>1 DEF ShownInv, Advance
    <3> QED
      BY <3>2, <3>3 DEF ToolAdvanced
  <2> QED
    BY <1>1, <1>2, <2>1 DEF ShownInv, Advance
<1>3. CASE shown' = Card(state')
  BY <1>1, <1>3, CardFields DEF ShownInv, Advance, ToolAdvanced
<1> QED
  BY <1>2, <1>3 DEF Advance

LEMMA NextClean == PipeInv /\ [Next]_vars => CleanMeansShown'
<1> SUFFICES ASSUME PipeInv, [Next]_vars, feed' = "looping", ~dirty'
             PROVE  shown' = Card(state') \/ (shown' = InitialCard /\ state' = NewState)
  BY DEF CleanMeansShown
<1>1. /\ dirty \in BOOLEAN
      /\ feed = "looping" /\ ~dirty =>
            shown = Card(state) \/ (shown = InitialCard /\ state = NewState)
      /\ handler = "returned" => feed = "left"
  BY DEF PipeInv, TypeOK, CleanMeansShown, ShownInv
<1>2. CASE FeedTick
  <2>1. dirty /\ Flush(state, dirty, FALSE) /\ UNCHANGED state
    BY <1>2 DEF FeedTick
  <2> QED
    BY <1>1, <2>1, FlushShown
<1>3. CASE FeedEvent
  <2> DEFINE ev == Head(chan)
             d  == dirty \/ Changed(state, ev)
  <2>1. /\ feed = "looping" /\ d \in BOOLEAN
        /\ \/ Flush(state', d, TRUE)
           \/ dirty' = d /\ UNCHANGED shown
    BY <1>3 DEF FeedEvent
  <2>2. ~d => ~dirty /\ state' = state
    BY <1>3, FeedAdvances
  <2> HIDE DEF d
  <2>3. CASE Flush(state', d, TRUE)
    <3>1. shown' \in {shown, Card(state')} /\ (shown' = Card(state') \/ ~d)
      BY <2>1, <2>3, FlushShown
    <3> QED
      BY <1>1, <2>1, <2>2, <3>1
  <2>4. CASE dirty' = d /\ UNCHANGED shown
    BY <1>1, <2>1, <2>2, <2>4
  <2> QED
    BY <2>1, <2>3, <2>4
<1>4. CASE WriteFinal \/ FeedClosed \/ FeedCancelled
  BY <1>4 DEF WriteFinal, FeedClosed, FeedCancelled, feedVars
<1>5. CASE Agent \/ CtxEnds \/ CloseEvents \/ UNCHANGED vars
  <2>1. UNCHANGED <<state, shown, feed, dirty>>
    BY <1>5 DEF Agent, EmitDelta, SaveMessage, EmitMessageEnd, EmitStart, ToolEnds, NextStep,
       RunFails, notAgent, CtxEnds, CloseEvents, vars, cardVars, feedVars
  <2> QED
    BY <1>1, <2>1
<1> QED
  BY <1>2, <1>3, <1>4, <1>5 DEF Next, Feed, Handle, Returned

LEMMA InitPipe == Init => PipeInv
<1> SUFFICES ASSUME Init PROVE PipeInv
  OBVIOUS
<1>1. TypeOK /\ StepInv /\ CallsInv
  BY InitTypes, InitCalls
<1>2. ErrorInv /\ ThinkingInv /\ ShownInv /\ CleanMeansShown
  BY DEF Init, NewState, InitialCard, ErrorInv, ThinkingInv, ShownInv, CleanMeansShown
<1> QED
  BY <1>1, <1>2 DEF PipeInv

LEMMA NextPipe == PipeInv /\ [Next]_vars => PipeInv'
<1> SUFFICES ASSUME PipeInv, [Next]_vars PROVE PipeInv'
  OBVIOUS
<1>1. TypeOK' /\ StepInv' /\ CallsInv'
  BY NextTypes, NextCalls DEF PipeInv
<1>2. ErrorInv' /\ ThinkingInv'
  BY NextError
<1>3. ShownInv' /\ CleanMeansShown'
  BY <1>1, NextShown, NextClean
<1> QED
  BY <1>1, <1>2, <1>3 DEF PipeInv

-----------------------------------------------------------------------------
(* Theorems.                                                                 *)

\* Every variable stays within its type, the channel within its capacity: the
\* channel of Handle, the counters of Agent.Run, State and both cards.
THEOREM TypeCorrect == Spec => []TypeOK
<1>1. Init => TypeOK /\ StepInv
  BY InitTypes
<1>2. TypeOK /\ StepInv /\ [Next]_vars => (TypeOK /\ StepInv)'
  BY NextTypes
<1> QED
  BY <1>1, <1>2, PTL DEF Spec

\* While Feed has nothing to send, the user sees the state as it is: a PATCH that
\* failed, was limited or lost its reply never leaves a clean flag behind.
THEOREM CleanShown == Spec => []CleanMeansShown
<1>1. PipeInv => CleanMeansShown
  BY DEF PipeInv
<1> QED
  BY <1>1, InitPipe, NextPipe, PTL DEF Spec

\* Whatever is lost, the card never goes back: text stays, a tool that ended does
\* not run again, and nothing replaces the terminal card.
THEOREM CardAdvances == Spec => CardNeverGoesBack
<1>1. PipeInv /\ PipeInv' /\ [Next]_vars =>
         [shown' # shown =>
            \/ shown.kind = "initial"
            \/ shown'.kind = "error"
            \/ /\ shown.kind \in {"initializing", "running"}
               /\ shown'.kind \in {"initializing", "running", "final"}
               /\ shown'.text >= shown.text
               /\ \A c \in Calls :
                    \/ shown.tools[c] = "none"
                    \/ shown.tools[c] = "running" /\ shown'.tools[c] # "none"
                    \/ shown'.tools[c] = shown.tools[c]]_vars
  <2> SUFFICES ASSUME PipeInv, PipeInv', Advance, shown' # shown,
                      shown.kind # "initial", shown'.kind # "error"
               PROVE  /\ shown.kind \in {"initializing", "running"}
                      /\ shown'.kind \in {"initializing", "running", "final"}
                      /\ shown'.text >= shown.text
                      /\ \A c \in Calls :
                           \/ shown.tools[c] = "none"
                           \/ shown.tools[c] = "running" /\ shown'.tools[c] # "none"
                           \/ shown'.tools[c] = shown.tools[c]
    BY NextAdvances
  <2>1. /\ state' \in CardState /\ state'.text \in Nat /\ state.text \in Nat
        /\ shown \in AnyCard /\ ShownInv
    BY DEF PipeInv, TypeOK, CardState
  <2>2. shown' = Card(state') /\ handler # "returned"
    BY DEF Advance
  <2>3. state'.phase # "error" /\ state.phase # "error"
    BY <2>1, <2>2, CardFields DEF Advance
  <2>4. /\ shown'.kind \in {"initializing", "running", "final"}
        /\ shown'.text = state'.text /\ shown'.tools = state'.tools
    BY <2>1, <2>2, <2>3, CardFields
  <2>5. shown.kind \in {"initializing", "running"} /\ shown.text \in Nat
    BY <2>1, <2>2, <2>3 DEF AnyCard, InitialCard, ErrorCard, LiveCard, ShownInv
  <2>6. shown.text <= state'.text
    BY <2>1, <2>5 DEF ShownInv, Advance
  <2>7. \A c \in Calls : /\ ToolAdvanced(shown.tools[c], state.tools[c])
                         /\ ToolAdvanced(state.tools[c], state'.tools[c])
    BY <2>1, <2>5 DEF ShownInv, Advance
  <2> QED
    BY <2>1, <2>4, <2>5, <2>6, <2>7 DEF ToolAdvanced
<1> QED
  BY <1>1, InitPipe, NextPipe, PTL DEF Spec, CardNeverGoesBack

-----------------------------------------------------------------------------
(* The terminal card.                                                        *)

\* How many text deltas wait in a channel.
TextsAt(events) == {i \in 1 .. Len(events) : events[i] = Delta("text")}
Texts(events)   == Cardinality(TextsAt(events))

LEMMA TextsType ==
    ASSUME NEW events \in Seq(Event)
    PROVE  /\ IsFiniteSet(TextsAt(events)) /\ Texts(events) \in Nat
           /\ events = <<>> => Texts(events) = 0
<1>1. PICK n \in Nat : n = Len(events)
  OBVIOUS
<1>2. IsFiniteSet(1 .. n)
  BY FS_Interval
<1>3. TextsAt(events) \in SUBSET (1 .. n)
  BY <1>1 DEF TextsAt
<1>4. IsFiniteSet(TextsAt(events))
  BY <1>2, <1>3, FS_Subset
<1>5. Texts(events) \in Nat
  BY <1>4, FS_CardinalityType DEF Texts
<1>6. events = <<>> => TextsAt(events) = {}
  BY DEF TextsAt
<1> QED
  BY <1>4, <1>5, <1>6, FS_EmptySet DEF Texts

\* An emit adds its own text, if it has any.
LEMMA TextsEmit ==
    ASSUME NEW events \in Seq(Event), NEW new, NEW ev, Len(new) = Len(events) + 1,
           \A i \in 1 .. Len(new) : new[i] = IF i <= Len(events) THEN events[i] ELSE ev
    PROVE  Texts(new) = Texts(events) + (IF ev = Delta("text") THEN 1 ELSE 0)
<1>1. PICK n \in Nat : n = Len(events)
  OBVIOUS
<1>2. IsFiniteSet(TextsAt(events)) /\ Texts(events) \in Nat
  BY TextsType
<1>3. CASE ev = Delta("text")
  <2>1. TextsAt(new) = TextsAt(events) \cup {n + 1} /\ n + 1 \notin TextsAt(events)
    BY <1>1, <1>3 DEF TextsAt
  <2>2. Cardinality(TextsAt(events) \cup {n + 1}) = Cardinality(TextsAt(events)) + 1
    BY <1>2, <2>1, FS_AddElement
  <2> QED
    BY <1>3, <2>1, <2>2 DEF Texts
<1>4. CASE ev # Delta("text")
  <2>1. TextsAt(new) = TextsAt(events)
    BY <1>1, <1>4 DEF TextsAt
  <2> QED
    BY <1>2, <1>4, <2>1 DEF Texts
<1> QED
  BY <1>3, <1>4

\* A receive takes the text of the first event away, if it has any.
LEMMA TextsReceive ==
    ASSUME NEW events \in Seq(Event), events # <<>>, NEW new \in Seq(Event),
           Len(new) = Len(events) - 1,
           \A i \in 1 .. Len(new) : i + 1 \in 1 .. Len(events) /\ new[i] = events[i + 1]
    PROVE  Texts(events) = Texts(new) + (IF events[1] = Delta("text") THEN 1 ELSE 0)
<1>1. PICK n \in Nat : n = Len(events) /\ n > 0
  OBVIOUS
<1>2. /\ IsFiniteSet(TextsAt(events)) /\ Texts(events) \in Nat
      /\ IsFiniteSet(TextsAt(new)) /\ Texts(new) \in Nat
  BY TextsType
<1> DEFINE S == TextsAt(events) \ {1}
           T == TextsAt(new)
           f == [i \in S |-> i - 1]
<1>3. \A i : i \in S <=> i \in 2 .. n /\ events[i] = Delta("text")
  BY <1>1 DEF TextsAt
<1>4. \A i : i \in T <=> i \in 1 .. n - 1 /\ events[i + 1] = Delta("text")
  BY <1>1 DEF TextsAt
<1>5. \A i \in S : i \in Int /\ i - 1 \in T
  BY <1>1, <1>3, <1>4
<1>6. \A j \in T : j \in Int /\ j + 1 \in S /\ (j + 1) - 1 = j
  BY <1>1, <1>3, <1>4
<1> HIDE DEF S, T
<1>7. f \in Bijection(S, T)
  <2>1. f \in [S -> T]
    BY <1>5
  <2>2. IsInjective(f)
    BY <1>5 DEF IsInjective
  <2>3. \A j \in T : \E i \in S : f[i] = j
    BY <1>6
  <2> QED
    BY <2>1, <2>2, <2>3 DEF Bijection, Injection, Surjection
<1>8. IsFiniteSet(S) /\ Cardinality(S) = Cardinality(T)
  <2>1. IsFiniteSet(S)
    BY <1>2, FS_RemoveElement DEF S
  <2>2. ExistsBijection(S, T)
    BY <1>7 DEF ExistsBijection
  <2> QED
    BY <2>1, <2>2, FS_Bijection
<1>9. Cardinality(S) = IF 1 \in TextsAt(events) THEN Texts(events) - 1 ELSE Texts(events)
  BY <1>2, FS_RemoveElement DEF S, Texts
<1>10. 1 \in TextsAt(events) <=> events[1] = Delta("text")
  BY <1>1 DEF TextsAt
<1> QED
  BY <1>2, <1>8, <1>9, <1>10 DEF T, Texts

\* FinalCardComplete is not inductive.  The run: a run without error has said
\* something and leaves no tool behind.
SaidInv ==
    /\ content => said > 0
    /\ agent = "ending" /\ toStart = {} => content
    /\ agent = "returned" /\ ~runErr => said > 0
    /\ agent \in {"stream", "ending", "returned"} => running = {}
    /\ runErr => agent = "returned"

\* The end: Feed leaves when there is nothing more to come, or with the context;
\* only a run that failed emits an error.
EndInv ==
    /\ \A i \in 1 .. Len(chan) : chan[i] = Error => runErr
    /\ state.phase = "error" => runErr
    /\ handler # "running" => agent = "returned"
    /\ closed => agent = "returned"
    /\ feed = "left" => ctxDone \/ (chan = <<>> /\ agent = "returned")
    /\ finalOk => handler = "returned"

\* No text is lost between the agent and the state.
TextInv == said = state.text + Texts(chan)

\* The End of a tool that is shown as running is still to come, after its Start.
OpenInv ==
    \A c \in Calls :
       /\ state.tools[c] = "running" =>
             c \in running \/ \E j \in 1 .. Len(chan), r \in Results : chan[j] = Finished(c, r)
       /\ \A i \in 1 .. Len(chan) : chan[i] = Start(c) =>
             c \in running \/ \E j \in i + 1 .. Len(chan), r \in Results : chan[j] = Finished(c, r)

FinalInv == SaidInv /\ EndInv /\ TextInv /\ OpenInv /\ FinalCardComplete

LEMMA InitFinal == Init => FinalInv
<1> SUFFICES ASSUME Init PROVE FinalInv
  OBVIOUS
<1>1. chan = <<>> /\ chan \in Seq(Event) /\ Len(chan) = 0
  BY DEF Init
<1>2. SaidInv /\ EndInv /\ FinalCardComplete
  BY <1>1 DEF Init, SaidInv, EndInv, FinalCardComplete, NewState
<1>3. TextInv
  <2>1. state.text = 0 /\ said = 0
    BY DEF Init, NewState
  <2>2. Texts(chan) = 0
    BY <1>1, TextsType
  <2> QED
    BY <2>1, <2>2 DEF TextInv
<1>4. OpenInv
  BY <1>1 DEF Init, OpenInv, NewState
<1> QED
  BY <1>2, <1>3, <1>4 DEF FinalInv

\* What an emit does to the texts and to the tools still to end.
LEMMA EmitKeepsFinal ==
    ASSUME TypeOK, TextInv, OpenInv, NEW ev \in Event, Emit(ev), UNCHANGED state,
           said' = said + (IF ev = Delta("text") THEN 1 ELSE 0),
           \A c \in running : c \in running' \/ \E r \in Results : ev = Finished(c, r),
           \A c \in Calls : ev = Start(c) => c \in running'
    PROVE  TextInv' /\ OpenInv'
<1>1. PICK n \in Nat : n = Len(chan)
  BY DEF TypeOK
<1>2. /\ Len(chan') = n + 1 /\ chan \in Seq(Event)
      /\ \A i \in 1 .. n + 1 : chan'[i] = IF i <= n THEN chan[i] ELSE ev
  BY <1>1, EmitType DEF TypeOK
<1>3. TextInv'
  <2>1. Texts(chan') = Texts(chan) + (IF ev = Delta("text") THEN 1 ELSE 0)
    BY <1>1, <1>2, TextsEmit
  <2>2. Texts(chan) \in Nat /\ state.text \in Nat
    BY <1>2, TextsType DEF TypeOK, CardState
  <2> QED
    BY <2>1, <2>2 DEF TextInv
<1>4. /\ \A i \in 1 .. n : i \in 1 .. n + 1 /\ chan'[i] = chan[i]
      /\ n + 1 \in 1 .. n + 1 /\ chan'[n + 1] = ev
  BY <1>2
<1>5. ASSUME NEW c \in Calls, NEW i \in 0 .. n,
             c \in running \/ \E j \in i + 1 .. n, r \in Results : chan[j] = Finished(c, r)
      PROVE  c \in running' \/ \E j \in i + 1 .. n + 1, r \in Results : chan'[j] = Finished(c, r)
  <2>1. CASE c \in running
    <3>1. n + 1 \in i + 1 .. n + 1
      OBVIOUS
    <3> QED
      BY <1>4, <2>1, <3>1
  <2>2. ASSUME NEW j \in i + 1 .. n, NEW r \in Results, chan[j] = Finished(c, r)
        PROVE  \E k \in i + 1 .. n + 1, q \in Results : chan'[k] = Finished(c, q)
    <3>1. j \in 1 .. n /\ j \in i + 1 .. n + 1
      OBVIOUS
    <3> QED
      BY <1>4, <2>2, <3>1
  <2> QED
    BY <1>5, <2>1, <2>2
<1>6. OpenInv'
  <2> SUFFICES ASSUME NEW c \in Calls
               PROVE  /\ state.tools[c] = "running" =>
                            c \in running' \/ \E j \in 1 .. n + 1, r \in Results : chan'[j] = Finished(c, r)
                      /\ \A i \in 1 .. n + 1 : chan'[i] = Start(c) =>
                            c \in running' \/ \E j \in i + 1 .. n + 1, r \in Results : chan'[j] = Finished(c, r)
    BY <1>2 DEF OpenInv
  <2>1. ASSUME state.tools[c] = "running"
        PROVE  c \in running' \/ \E j \in 1 .. n + 1, r \in Results : chan'[j] = Finished(c, r)
    <3>1. c \in running \/ \E j \in 0 + 1 .. n, r \in Results : chan[j] = Finished(c, r)
      BY <1>1, <2>1 DEF OpenInv
    <3>2. c \in running' \/ \E j \in 0 + 1 .. n + 1, r \in Results : chan'[j] = Finished(c, r)
      BY <1>5, <3>1
    <3> QED
      BY <3>2
  <2>2. ASSUME NEW i \in 1 .. n + 1, chan'[i] = Start(c)
        PROVE  c \in running' \/ \E j \in i + 1 .. n + 1, r \in Results : chan'[j] = Finished(c, r)
    <3>1. CASE i = n + 1
      BY <1>4, <2>2, <3>1
    <3>2. CASE i # n + 1
      <4>1. i \in 1 .. n /\ i \in 0 .. n
        BY <3>2
      <4>2. chan[i] = Start(c)
        BY <1>4, <2>2, <4>1
      <4>3. c \in running \/ \E j \in i + 1 .. n, r \in Results : chan[j] = Finished(c, r)
        BY <1>1, <4>1, <4>2 DEF OpenInv
      <4> QED
        BY <1>5, <4>1, <4>3
    <3> QED
      BY <3>1, <3>2
  <2> QED
    BY <2>1, <2>2
<1> QED
  BY <1>3, <1>6

\* The agent's steps: what it said is in the channel, what it started will end.
LEMMA AgentFinal ==
    ASSUME TypeOK, FinalInv, Agent
    PROVE  SaidInv' /\ TextInv' /\ OpenInv'
<1> USE DEF FinalInv
<1>0. said \in Nat /\ state.text \in Nat
  BY DEF TypeOK, CardState
<1>1. ASSUME NEW kind \in {"thinking", "text"}, EmitDelta(kind) PROVE SaidInv' /\ TextInv' /\ OpenInv'
  <2>1. SaidInv'
    <3>1. agent = "stream" /\ UNCHANGED <<agent, toStart, running, runErr>>
      BY <1>1 DEF EmitDelta
    <3>2. content' => content \/ kind = "text"
      BY <1>1 DEF EmitDelta
    <3>3. said' = IF kind = "text" THEN said + 1 ELSE said
      BY <1>1 DEF EmitDelta
    <3>4. content' => said' > 0
      BY <1>0, <3>2, <3>3 DEF SaidInv
    <3> QED
      BY <3>1, <3>4 DEF SaidInv
  <2>2. /\ Emit(Delta(kind)) /\ Delta(kind) \in Event /\ UNCHANGED <<state, running>>
        /\ \A c \in Calls : Delta(kind) # Start(c)
    BY <1>1, EventForms, EventsDiffer DEF EmitDelta, notAgent, cardVars
  <2>3. said' = said + (IF Delta(kind) = Delta("text") THEN 1 ELSE 0)
    BY <1>0, <1>1 DEF EmitDelta, Delta
  <2> QED
    BY <2>1, <2>2, <2>3, EmitKeepsFinal
<1>2. ASSUME NEW calls \in SUBSET Calls, SaveMessage(calls) PROVE SaidInv' /\ TextInv' /\ OpenInv'
  BY <1>2 DEF SaveMessage, notAgent, cardVars, SaidInv, TextInv, OpenInv
<1>3. ASSUME EmitMessageEnd PROVE SaidInv' /\ TextInv' /\ OpenInv'
  <2>1. SaidInv'
    BY <1>0, <1>3 DEF EmitMessageEnd, Return, SaidInv
  <2>2. /\ Emit(MessageEnd) /\ MessageEnd \in Event /\ UNCHANGED <<state, running, said>>
        /\ \A c \in Calls : MessageEnd # Start(c)
    BY <1>3, EventForms, EventsDiffer DEF EmitMessageEnd, notAgent, cardVars
  <2>3. MessageEnd # Delta("text")
    BY DEF MessageEnd, Delta
  <2>4. said' = said + (IF MessageEnd = Delta("text") THEN 1 ELSE 0)
    BY <1>0, <2>2, <2>3
  <2> QED
    BY <2>1, <2>2, <2>4, EmitKeepsFinal
<1>4. ASSUME NEW c \in Calls, EmitStart(c) PROVE SaidInv' /\ TextInv' /\ OpenInv'
  <2>1. SaidInv'
    BY <1>0, <1>4 DEF EmitStart, SaidInv
  <2>2. /\ Emit(Start(c)) /\ Start(c) \in Event /\ UNCHANGED <<state, said>>
        /\ running' = running \cup {c}
    BY <1>4, EventForms DEF EmitStart, notAgent, cardVars
  <2>3. Start(c) # Delta("text") /\ \A d \in Calls : Start(c) = Start(d) => d = c
    BY EventsDiffer
  <2>4. said' = said + (IF Start(c) = Delta("text") THEN 1 ELSE 0)
    BY <1>0, <2>2, <2>3
  <2> QED
    BY <2>1, <2>2, <2>3, <2>4, EmitKeepsFinal
<1>5. ASSUME NEW c \in Calls, NEW r \in Results, ToolEnds(c, r) PROVE SaidInv' /\ TextInv' /\ OpenInv'
  <2>1. SaidInv'
    BY <1>0, <1>5 DEF ToolEnds, SaidInv
  <2>2. /\ Emit(Finished(c, r)) /\ Finished(c, r) \in Event /\ UNCHANGED <<state, said>>
        /\ running' = running \ {c}
    BY <1>5, EventForms DEF ToolEnds, notAgent, cardVars
  <2>3. Finished(c, r) # Delta("text") /\ \A d \in Calls : Finished(c, r) # Start(d)
    BY EventsDiffer
  <2>4. said' = said + (IF Finished(c, r) = Delta("text") THEN 1 ELSE 0)
    BY <1>0, <2>2, <2>3
  <2> QED
    BY <2>1, <2>2, <2>3, <2>4, EmitKeepsFinal
<1>6. ASSUME NextStep PROVE SaidInv' /\ TextInv' /\ OpenInv'
  <2>1. SaidInv'
    BY <1>0, <1>6 DEF NextStep, Return, SaidInv
  <2>2. UNCHANGED <<chan, state, said, running>>
    BY <1>6 DEF NextStep, notAgent, cardVars
  <2> QED
    BY <2>1, <2>2 DEF TextInv, OpenInv
<1>7. ASSUME RunFails PROVE SaidInv' /\ TextInv' /\ OpenInv'
  <2>1. SaidInv'
    BY <1>0, <1>7 DEF RunFails, Return, SaidInv
  <2>2. UNCHANGED <<state, said, running>> /\ (UNCHANGED chan \/ Emit(Error))
    BY <1>7 DEF RunFails, notAgent, cardVars
  <2>3. CASE UNCHANGED chan
    BY <2>1, <2>2, <2>3 DEF TextInv, OpenInv
  <2>4. CASE Emit(Error)
    <3>1. Error \in Event /\ Error # Delta("text") /\ \A c \in Calls : Error # Start(c)
      BY EventForms, EventsDiffer
    <3>2. said' = said + (IF Error = Delta("text") THEN 1 ELSE 0)
      BY <1>0, <2>2, <3>1
    <3> QED
      BY <2>1, <2>2, <2>4, <3>1, <3>2, EmitKeepsFinal
  <2> QED
    BY <2>2, <2>3, <2>4
<1> QED
  BY <1>1, <1>2, <1>3, <1>4, <1>5, <1>6, <1>7 DEF Agent, Results

\* Feed takes an event: its text is in the state, its tool is further.
LEMMA FeedFinal ==
    ASSUME TypeOK, CallsInv, FinalInv, FeedEvent
    PROVE  SaidInv' /\ TextInv' /\ OpenInv'
<1> USE DEF FinalInv
<1> DEFINE ev == Head(chan)
<1>1. PICK n \in Nat : n = Len(chan)
  BY DEF TypeOK
<1>2. /\ ev \in Event /\ ev = chan[1] /\ 1 \in 1 .. n
      /\ Len(chan') = n - 1 /\ chan \in Seq(Event) /\ chan' \in Seq(Event) /\ chan # <<>>
      /\ \A i \in 1 .. n - 1 : i + 1 \in 1 .. n /\ chan'[i] = chan[i + 1]
  BY <1>1, ReceiveType DEF FeedEvent, TypeOK
<1>3. /\ state' = Applied(state, ev)
      /\ UNCHANGED <<agent, toStart, running, content, runErr, said>>
  BY DEF FeedEvent, notFeed, agentVars
<1>4. state \in CardState /\ state.text \in Nat /\ state.tools \in [Calls -> Stages]
  BY DEF TypeOK, CardState
<1> HIDE DEF ev
<1>5. SaidInv'
  BY <1>3 DEF SaidInv
<1>6. state'.text = state.text + (IF ev = Delta("text") THEN 1 ELSE 0)
  <2>1. CASE ev = Delta("text")
    BY <1>3, <1>4, <2>1, TextFields
  <2>2. CASE ev \in {Delta("thinking"), Error}
    <3>1. ev # Delta("text")
      BY <2>2 DEF Delta, Error
    <3> QED
      BY <1>3, <1>4, <2>2, <3>1, ThinkingFields, ErrorFields
  <2>3. CASE ev = MessageEnd
    <3>1. ev # Delta("text") /\ state' = state
      BY <1>3, <2>3, ApplyMessageEnd DEF Delta, MessageEnd
    <3> QED
      BY <1>4, <3>1
  <2>4. ASSUME NEW c \in Calls, ev = Start(c)
        PROVE  ev # Delta("text") /\ state'.text = state.text
    BY <1>3, <1>4, <2>4, StartFields, EventsDiffer
  <2>5. ASSUME NEW c \in Calls, NEW r \in Results, ev = Finished(c, r)
        PROVE  ev # Delta("text") /\ state'.text = state.text
    BY <1>3, <1>4, <2>5, FinishedFields, EventsDiffer
  <2> QED
    BY <1>2, <1>4, <2>1, <2>2, <2>3, <2>4, <2>5, EventForms
<1>7. TextInv'
  <2>1. Texts(chan) = Texts(chan') + (IF ev = Delta("text") THEN 1 ELSE 0)
    BY <1>1, <1>2, TextsReceive
  <2>2. Texts(chan') \in Nat
    BY <1>2, TextsType
  <2> QED
    BY <1>3, <1>4, <1>6, <2>1, <2>2 DEF TextInv
<1>8. ASSUME NEW c \in Calls, NEW i \in 0 .. n - 1,
             c \in running \/ \E j \in i + 2 .. n, r \in Results : chan[j] = Finished(c, r)
      PROVE  c \in running' \/ \E j \in i + 1 .. n - 1, r \in Results : chan'[j] = Finished(c, r)
  <2>1. ASSUME NEW j \in i + 2 .. n, NEW r \in Results, chan[j] = Finished(c, r)
        PROVE  \E k \in i + 1 .. n - 1, q \in Results : chan'[k] = Finished(c, q)
    <3>1. j - 1 \in i + 1 .. n - 1 /\ j - 1 \in 1 .. n - 1 /\ (j - 1) + 1 = j
      OBVIOUS
    <3>2. chan'[j - 1] = chan[j]
      BY <1>2, <3>1
    <3> QED
      BY <2>1, <3>1, <3>2
  <2> QED
    BY <1>3, <1>8, <2>1
<1>9. OpenInv'
  <2> SUFFICES ASSUME NEW c \in Calls
               PROVE  /\ state'.tools[c] = "running" =>
                            c \in running' \/ \E j \in 1 .. n - 1, r \in Results : chan'[j] = Finished(c, r)
                      /\ \A i \in 1 .. n - 1 : chan'[i] = Start(c) =>
                            c \in running' \/ \E j \in i + 1 .. n - 1, r \in Results : chan'[j] = Finished(c, r)
    BY <1>2 DEF OpenInv
  <2>1. ASSUME state'.tools[c] = "running"
        PROVE  c \in running' \/ \E j \in 1 .. n - 1, r \in Results : chan'[j] = Finished(c, r)
    <3>1. CASE ev = Start(c)
      <4>1. c \in running \/ \E j \in 1 + 1 .. n, r \in Results : chan[j] = Finished(c, r)
        BY <1>1, <1>2, <3>1 DEF OpenInv
      <4>2. c \in running \/ \E j \in 0 + 2 .. n, r \in Results : chan[j] = Finished(c, r)
        BY <4>1
      <4>3. 0 \in 0 .. n - 1
        BY <1>2
      <4>4. c \in running' \/ \E j \in 0 + 1 .. n - 1, r \in Results : chan'[j] = Finished(c, r)
        BY <1>8, <4>2, <4>3
      <4> QED
        BY <4>4
    <3>2. CASE ev # Start(c)
      <4>1. state.tools[c] = "running" /\ \A r \in Results : ev # Finished(c, r)
        <5>1. CASE ev \in {Delta("thinking"), Delta("text"), MessageEnd, Error}
          BY <1>3, <1>4, <2>1, <5>1, AppliedTools, EventsDiffer
        <5>2. ASSUME NEW d \in Calls, ev = Start(d)
              PROVE  state.tools[c] = "running" /\ \A r \in Results : ev # Finished(c, r)
          <6>1. d # c /\ state'.tools = [state.tools EXCEPT ![d] = IF @ = "none" THEN "running" ELSE @]
            BY <1>3, <1>4, <3>2, <5>2, AppliedTools
          <6> QED
            BY <1>4, <2>1, <5>2, <6>1, EventsDiffer
        <5>3. ASSUME NEW d \in Calls, NEW q \in Results, ev = Finished(d, q)
              PROVE  state.tools[c] = "running" /\ \A r \in Results : ev # Finished(c, r)
          <6>1. state'.tools = [state.tools EXCEPT ![d] = IF @ = "none" THEN @ ELSE q]
            BY <1>3, <1>4, <5>3, AppliedTools
          <6>2. d # c
            BY <1>4, <2>1, <6>1 DEF Results
          <6> QED
            BY <1>4, <2>1, <5>3, <6>1, <6>2, EventsDiffer
        <5> QED
          BY <1>2, <5>1, <5>2, <5>3, EventForms
      <4>2. c \in running \/ \E j \in 1 .. n, r \in Results : chan[j] = Finished(c, r)
        BY <1>1, <4>1 DEF OpenInv
      <4>3. c \in running \/ \E j \in 0 + 2 .. n, r \in Results : chan[j] = Finished(c, r)
        <5>1. ASSUME NEW j \in 1 .. n, NEW r \in Results, chan[j] = Finished(c, r)
              PROVE  j \in 0 + 2 .. n
          <6>1. j # 1
            BY <1>2, <4>1, <5>1
          <6> QED
            BY <6>1
        <5> QED
          BY <4>2, <5>1
      <4>4. 0 \in 0 .. n - 1
        BY <1>2
      <4>5. c \in running' \/ \E j \in 0 + 1 .. n - 1, r \in Results : chan'[j] = Finished(c, r)
        BY <1>8, <4>3, <4>4
      <4> QED
        BY <4>5
    <3> QED
      BY <3>1, <3>2
  <2>2. ASSUME NEW i \in 1 .. n - 1, chan'[i] = Start(c)
        PROVE  c \in running' \/ \E j \in i + 1 .. n - 1, r \in Results : chan'[j] = Finished(c, r)
    <3>1. i + 1 \in 1 .. n /\ chan[i + 1] = Start(c) /\ i \in 0 .. n - 1 /\ (i + 1) + 1 = i + 2
      BY <1>2, <2>2
    <3>2. c \in running \/ \E j \in (i + 1) + 1 .. n, r \in Results : chan[j] = Finished(c, r)
      BY <1>1, <3>1 DEF OpenInv
    <3>3. c \in running \/ \E j \in i + 2 .. n, r \in Results : chan[j] = Finished(c, r)
      BY <3>1, <3>2
    <3> QED
      BY <1>8, <3>1, <3>3
  <2> QED
    BY <2>1, <2>2
<1> QED
  BY <1>5, <1>7, <1>9

\* A terminal PATCH that succeeds shows the whole answer, or the friendly error.
LEMMA WriteFinalComplete ==
    ASSUME TypeOK, FinalInv, WriteFinal
    PROVE  FinalCardComplete'
<1> USE DEF FinalInv
<1> SUFFICES ASSUME finalOk'
             PROVE  IF runErr'
                    THEN shown' = [kind |-> "error", error |-> "friendly"]
                    ELSE /\ shown'.kind = "final"
                         /\ shown'.text = said' /\ said' > 0
                         /\ \A c \in Calls : shown'.tools[c] # "running"
  BY DEF FinalCardComplete
<1>1. /\ feed = "left" /\ handler = "waiting" /\ UNCHANGED <<chan, agentVars>>
      /\ state' = Terminal(state)
  BY DEF WriteFinal
<1>2. PICK result \in PatchOutcomes : PatchCard(Card(state'), result) /\ finalOk' = (result = "ok")
  BY DEF WriteFinal
<1>3. result = "ok" /\ ~ctxDone /\ shown' = Card(state')
  BY <1>2 DEF PatchOutcomes, PatchCard
<1>4. chan = <<>> /\ agent = "returned" /\ running = {}
  BY <1>1, <1>3 DEF EndInv, SaidInv
<1>5. state \in CardState /\ state.text \in Nat
  BY DEF TypeOK, CardState
<1>6. CASE runErr
  <2>1. state' = [state EXCEPT !.phase = "error", !.error = "friendly"]
    BY <1>1, <1>6 DEF Terminal
  <2>2. state'.phase = "error" /\ state'.error = "friendly"
    BY <1>5, <2>1 DEF CardState
  <2>3. Card(state') = [kind |-> "error", error |-> "friendly"]
    BY <2>2 DEF Card
  <2> QED
    BY <1>1, <1>3, <1>6, <2>3 DEF agentVars
<1>7. CASE ~runErr
  <2>1. /\ state.phase # "error" /\ state' \in CardState /\ state'.phase = "done"
        /\ state'.text = state.text /\ state'.tools = state.tools
    BY <1>1, <1>5, <1>7, TerminalType, TerminalFields DEF EndInv
  <2>2. Card(state').kind = "final" /\ Card(state').text = state.text /\ Card(state').tools = state.tools
    BY <2>1 DEF Card
  <2>3. said = state.text /\ said > 0
    <3>1. Texts(chan) = 0 /\ chan \in Seq(Event)
      BY <1>4, TextsType DEF TypeOK
    <3> QED
      BY <1>4, <1>5, <1>7, <3>1 DEF TextInv, SaidInv
  <2>4. \A c \in Calls : state.tools[c] # "running"
    <3>1. Len(chan) = 0
      BY <1>4
    <3> QED
      BY <1>4, <3>1 DEF OpenInv
  <2> QED
    BY <1>1, <1>3, <1>7, <2>2, <2>3, <2>4 DEF agentVars
<1> QED
  BY <1>6, <1>7

\* Feed leaves with nothing in the channel, or with the context.
LEMMA NextEnd == PipeInv /\ FinalInv /\ [Next]_vars => EndInv'
<1> SUFFICES ASSUME PipeInv, FinalInv, [Next]_vars PROVE EndInv'
  OBVIOUS
<1> USE DEF FinalInv
<1>0. TypeOK /\ state \in CardState
  BY DEF PipeInv, TypeOK
<1>1. CASE Agent
  <2>1. agent # "returned" /\ UNCHANGED notAgent
    BY <1>1 DEF Agent, EmitDelta, SaveMessage, EmitMessageEnd, EmitStart, ToolEnds, NextStep, RunFails
  <2>2. handler = "running" /\ ~closed /\ ~runErr
    BY <1>0, <2>1 DEF EndInv, SaidInv, TypeOK
  <2>3. UNCHANGED <<state, handler, closed, feed, finalOk, ctxDone>>
    BY <2>1 DEF notAgent, feedVars, cardVars, handlerVars
  <2>4. \A i \in 1 .. Len(chan) : chan[i] # Error
    BY <2>2 DEF EndInv
  <2>5. ASSUME NEW ev \in Event, Emit(ev), ev # Error \/ runErr'
        PROVE  \A i \in 1 .. Len(chan') : chan'[i] = Error => runErr'
    <3>1. /\ Len(chan) \in Nat /\ Len(chan') = Len(chan) + 1
          /\ \A i \in 1 .. Len(chan') : chan'[i] = IF i <= Len(chan) THEN chan[i] ELSE ev
      BY <1>0, <2>5, EmitType DEF TypeOK
    <3> QED
      BY <2>4, <2>5, <3>1
  <2>6. \A i \in 1 .. Len(chan') : chan'[i] = Error => runErr'
    <3>1. ASSUME NEW kind \in {"thinking", "text"}, EmitDelta(kind)
          PROVE  Emit(Delta(kind)) /\ Delta(kind) \in Event /\ Delta(kind) # Error
      BY <3>1, EventForms, EventsDiffer DEF EmitDelta
    <3>2. ASSUME EmitMessageEnd PROVE Emit(MessageEnd) /\ MessageEnd \in Event /\ MessageEnd # Error
      BY <3>2, EventForms, EventsDiffer DEF EmitMessageEnd
    <3>3. ASSUME NEW c \in Calls, EmitStart(c)
          PROVE  Emit(Start(c)) /\ Start(c) \in Event /\ Start(c) # Error
      BY <3>3, EventForms, EventsDiffer DEF EmitStart, Results
    <3>4. ASSUME NEW c \in Calls, NEW r \in Results, ToolEnds(c, r)
          PROVE  Emit(Finished(c, r)) /\ Finished(c, r) \in Event /\ Finished(c, r) # Error
      BY <3>4, EventForms, EventsDiffer DEF ToolEnds
    <3>5. ASSUME RunFails PROVE runErr' /\ Error \in Event /\ (UNCHANGED chan \/ Emit(Error))
      BY <3>5, EventForms DEF RunFails, Return
    <3>6. ASSUME (\E calls \in SUBSET Calls : SaveMessage(calls)) \/ NextStep PROVE UNCHANGED chan
      BY <3>6 DEF SaveMessage, NextStep
    <3> QED
      BY <1>1, <2>4, <2>5, <3>1, <3>2, <3>3, <3>4, <3>5, <3>6 DEF Agent, Results
  <2>7. feed = "left" => ctxDone
    BY <2>1 DEF EndInv
  <2> QED
    BY <2>2, <2>3, <2>6, <2>7 DEF EndInv
<1>2. CASE FeedEvent
  <2>1. /\ Len(chan) \in Nat /\ Len(chan') = Len(chan) - 1 /\ 1 \in 1 .. Len(chan)
        /\ Head(chan) = chan[1]
        /\ \A i \in 1 .. Len(chan') : i + 1 \in 1 .. Len(chan) /\ chan'[i] = chan[i + 1]
    BY <1>0, <1>2, ReceiveType DEF FeedEvent, TypeOK
  <2>2. UNCHANGED <<agent, runErr, handler, closed, feed, ctxDone, finalOk>> /\ feed = "looping"
    BY <1>2 DEF FeedEvent, notFeed, agentVars, handlerVars
  <2>3. \A i \in 1 .. Len(chan') : chan'[i] = Error => runErr'
    BY <2>1, <2>2 DEF EndInv
  <2>4. state'.phase = "error" => runErr'
    BY <1>2, <2>1, <2>2, FeedAdvances DEF EndInv
  <2> QED
    BY <2>2, <2>3, <2>4 DEF EndInv
<1>3. CASE FeedClosed \/ FeedCancelled
  <2>1. /\ UNCHANGED <<chan, state, agent, runErr, handler, closed, ctxDone, finalOk>>
        /\ ctxDone \/ (chan = <<>> /\ closed)
    BY <1>3 DEF FeedClosed, FeedCancelled, notFeed, agentVars, handlerVars
  <2> QED
    BY <2>1 DEF EndInv
<1>4. CASE WriteFinal
  <2>1. /\ handler = "waiting" /\ handler' = "returned"
        /\ UNCHANGED <<chan, closed, ctxDone, agent, runErr, feed>>
    BY <1>4 DEF WriteFinal, agentVars, feedVars
  <2>2. state'.phase = "error" => runErr
    BY <1>0, <1>4, TerminalFields DEF WriteFinal, EndInv
  <2> QED
    BY <2>1, <2>2 DEF EndInv
<1>5. CASE CtxEnds \/ CloseEvents \/ FeedTick \/ UNCHANGED vars
  <2>1. UNCHANGED <<chan, state, agent, runErr, feed, finalOk>>
    BY <1>5 DEF CtxEnds, CloseEvents, FeedTick, notFeed, vars, agentVars, feedVars, cardVars, handlerVars
  <2>2. /\ handler' = handler \/ (agent = "returned" /\ handler = "running")
        /\ closed' = closed \/ agent = "returned"
    BY <1>5 DEF CtxEnds, CloseEvents, FeedTick, notFeed, vars, handlerVars
  <2>3. ctxDone => ctxDone'
    BY <1>5 DEF CtxEnds, CloseEvents, FeedTick, notFeed, vars
  <2>4. /\ \A i \in 1 .. Len(chan') : chan'[i] = Error => runErr'
        /\ state'.phase = "error" => runErr'
    BY <2>1 DEF EndInv
  <2>5. /\ handler' # "running" => agent' = "returned"
        /\ finalOk' => handler' = "returned"
    BY <2>1, <2>2 DEF EndInv
  <2>6. (closed' => agent' = "returned")
        /\ (feed' = "left" => ctxDone' \/ (chan' = <<>> /\ agent' = "returned"))
    BY <2>1, <2>2, <2>3 DEF EndInv
  <2> QED
    BY <2>4, <2>5, <2>6 DEF EndInv
<1> QED
  BY <1>1, <1>2, <1>3, <1>4, <1>5 DEF Next, Feed, Handle, Returned

LEMMA NextFinal == PipeInv /\ FinalInv /\ [Next]_vars => FinalInv'
<1> SUFFICES ASSUME PipeInv, FinalInv, [Next]_vars PROVE FinalInv'
  OBVIOUS
<1>0. TypeOK /\ CallsInv
  BY DEF PipeInv
<1>1. EndInv'
  BY NextEnd
<1>2. SaidInv' /\ TextInv' /\ OpenInv'
  <2>1. CASE \/ CtxEnds \/ CloseEvents \/ UNCHANGED vars
             \/ FeedTick \/ FeedClosed \/ FeedCancelled
    <3>1. UNCHANGED <<chan, state, agentVars>>
      BY <2>1 DEF CtxEnds, CloseEvents, FeedTick, FeedClosed, FeedCancelled, notFeed, vars, cardVars
    <3> QED
      BY <3>1 DEF FinalInv, agentVars, SaidInv, TextInv, OpenInv
  <2>2. CASE WriteFinal
    <3>1. state'.text = state.text /\ state'.tools = state.tools /\ UNCHANGED <<chan, agentVars>>
      BY <1>0, <2>2, TerminalFields DEF WriteFinal, TypeOK
    <3> QED
      BY <3>1 DEF FinalInv, agentVars, SaidInv, TextInv, OpenInv
  <2> QED
    BY <1>0, <2>1, <2>2, AgentFinal, FeedFinal DEF Next, Feed, Handle, Returned
<1>3. FinalCardComplete'
  <2>1. CASE WriteFinal
    BY <1>0, <2>1, WriteFinalComplete
  <2>2. CASE ~WriteFinal
    <3>1. UNCHANGED finalOk
      BY <2>2 DEF Next, Agent, EmitDelta, SaveMessage, EmitMessageEnd, EmitStart, ToolEnds, NextStep,
         RunFails, notAgent, CtxEnds, Feed, FeedTick, FeedEvent, FeedClosed, FeedCancelled, notFeed,
         Handle, CloseEvents, Returned, vars, handlerVars
    <3> SUFFICES ASSUME finalOk
                 PROVE  UNCHANGED <<shown, runErr, said>>
      BY <3>1 DEF FinalInv, FinalCardComplete
    <3>2. handler = "returned" /\ agent = "returned"
      BY DEF FinalInv, EndInv
    <3>3. shown' = shown
      BY <3>2, NextAdvances DEF Advance
    <3>4. ~Agent
      BY <3>2 DEF Agent, EmitDelta, SaveMessage, EmitMessageEnd, EmitStart, ToolEnds, NextStep, RunFails
    <3>5. UNCHANGED agentVars
      BY <2>2, <3>4 DEF Next, CtxEnds, Feed, FeedTick, FeedEvent, FeedClosed, FeedCancelled, notFeed,
         Handle, CloseEvents, Returned, vars
    <3> QED
      BY <3>3, <3>5 DEF agentVars
  <2> QED
    BY <2>1, <2>2
<1> QED
  BY <1>1, <1>2, <1>3 DEF FinalInv

\* If the terminal PATCH succeeded, the user is left with all the text the model
\* said and no tool shown as running, or with the friendly error: Stop takes its
\* snapshot after Feed has applied the last event.
THEOREM FinalCardIsComplete == Spec => []FinalCardComplete
<1>1. FinalInv => FinalCardComplete
  BY DEF FinalInv
<1> QED
  BY <1>1, InitPipe, NextPipe, InitFinal, NextFinal, PTL DEF Spec
=============================================================================
