------------------------------ MODULE CardPipe ------------------------------
(***************************************************************************)
(* How the events of one agent run become the card the user sees.          *)
(*                                                                         *)
(* Three parties share a bounded channel and a context:                    *)
(*   - the agent (agent/loop.go) emits events with a plain blocking send;  *)
(*     its tools run concurrently and emit their own End events;           *)
(*   - Feed (render/renderer.go) applies the events to a state and PATCHes *)
(*     the card, on a ticker and at once for some events;                  *)
(*   - the handler (lark/handler.go) closes the channel when the agent     *)
(*     returns, waits for Feed and writes the terminal card.               *)
(* Text is counted in deltas; how a card is laid out is left out.          *)
(***************************************************************************)
EXTENDS Integers, Sequences, FiniteSets

CONSTANTS
    Calls,       \* ids of tool calls
    BufCap,      \* capacity of the event channel: 64 in handler.go
    MaxDeltas,   \* bound: deltas the model emits in one step
    MaxSteps,    \* agent.MaxSteps
    CtxMayEnd,   \* can the turn's context end (deadline, shutdown)?
    PatchResults \* what a PATCH may come to under a live context

ASSUME PipeBounds ==
    /\ BufCap \in Nat \ {0}
    /\ MaxDeltas \in Nat
    /\ MaxSteps \in Nat \ {0}
    /\ CtxMayEnd \in BOOLEAN
    /\ PatchResults \subseteq {"ok", "limited", "error", "lost"}

VARIABLES
    chan,     \* the buffered events
    closed,   \* close(events) was called
    ctxDone,  \* the turn's context has ended
    agent,    \* where Agent.Run is
    toStart,  \* tool calls whose synthetic Start is not emitted yet
    running,  \* tool calls being executed
    asked,    \* ids of the tool calls of the run so far
    step,     \* completed steps
    deltas,   \* deltas of this step
    content,  \* this step has text
    runErr,   \* Run returned an error
    said,     \* history: text deltas emitted in the run
    feed,     \* "looping" or "left"
    dirty,    \* Feed: the state changed since the last successful PATCH
    lastSnap, \* Feed: the card of that PATCH
    state,    \* render.State
    shown,    \* the card at Feishu
    handler,  \* where Handle is
    finalOk   \* the terminal PATCH succeeded

agentVars   == <<agent, toStart, running, asked, step, deltas, content, runErr, said>>
feedVars    == <<feed, dirty, lastSnap>>
cardVars    == <<state, shown>>
handlerVars == <<handler, finalOk>>
vars == <<chan, closed, ctxDone, agentVars, feedVars, cardVars, handlerVars>>

-----------------------------------------------------------------------------
(* render.State and the card made of it.                                     *)

NewState ==
    [phase |-> "idle", thinking |-> 0, thinkingDone |-> FALSE, text |-> 0,
     tools |-> [c \in Calls |-> "none"], error |-> "none"]

Delta(kind)  == [type |-> kind]
Start(c)     == [type |-> "start", call |-> c]
Finished(c, result) == [type |-> "end", call |-> c, result |-> result]
MessageEnd   == [type |-> "messageEnd"]
Error        == [type |-> "error"]

\* State.Apply: the next state ...
Applied(s, ev) ==
    CASE ev.type = "thinking" ->
           [s EXCEPT !.phase = IF @ = "idle" THEN "thinking" ELSE @,
                     !.thinking = IF s.thinkingDone THEN @ ELSE @ + 1]
      [] ev.type = "text" ->
           [s EXCEPT !.thinkingDone = TRUE,
                     !.phase = IF @ \in {"idle", "thinking"} THEN "text" ELSE @,
                     !.text = @ + 1]
      [] ev.type = "start" ->
           [s EXCEPT !.phase = "tools",
                     !.tools[ev.call] = IF @ = "none" THEN "running" ELSE @]
      [] ev.type = "end" ->
           [s EXCEPT !.tools[ev.call] = IF @ = "none" THEN @ ELSE ev.result]
      [] ev.type = "error" ->
           [s EXCEPT !.phase = "error", !.error = "internal"]
      [] ev.type = "messageEnd" -> s

\* ... and whether it reports a visible change.
Changed(s, ev) ==
    CASE ev.type = "thinking"   -> ~s.thinkingDone
      [] ev.type = "text"       -> TRUE
      [] ev.type = "start"      -> s.tools[ev.call] = "none"
      [] ev.type = "end"        -> s.tools[ev.call] # "none"
      [] ev.type = "error"      -> TRUE
      [] ev.type = "messageEnd" -> FALSE

\* BuildCardJSON: an error card shows the error only; thinking is collapsed to
\* a note once text has begun.
Card(s) ==
    IF s.phase = "error"
    THEN [kind |-> "error", error |-> s.error]
    ELSE [kind |-> IF s.phase = "done" THEN "final"
                   ELSE IF s.phase = "idle" /\ s.text = 0 THEN "initializing"
                   ELSE "running",
          thinking |-> IF s.thinkingDone THEN 0 ELSE s.thinking,
          note     |-> s.thinkingDone /\ s.thinking > 0,
          text     |-> s.text,
          tools    |-> s.tools]

\* The card of SendInitialCard.
InitialCard == [kind |-> "initial"]

Init ==
    /\ chan = <<>> /\ closed = FALSE /\ ctxDone = FALSE
    /\ agent = "stream" /\ toStart = {} /\ running = {} /\ asked = {}
    /\ step = 0 /\ deltas = 0 /\ content = FALSE /\ runErr = FALSE /\ said = 0
    /\ feed = "looping" /\ dirty = FALSE /\ lastSnap = InitialCard
    /\ state = NewState /\ shown = InitialCard
    /\ handler = "running" /\ finalOk = FALSE

-----------------------------------------------------------------------------
(* The agent.  Every emit waits for room in the channel, context or not.     *)

\* Fault: a queue without bound instead of the channel.
EmitUnbounded(ev) == chan' = Append(chan, ev)

Emit(ev) == Len(chan) < BufCap /\ chan' = Append(chan, ev)

Return(err) == agent' = "returned" /\ runErr' = err

notAgent == <<closed, ctxDone, feedVars, cardVars, handlerVars>>

EmitDelta(kind) ==
    /\ agent = "stream"
    /\ deltas < MaxDeltas
    /\ Emit(Delta(kind))
    /\ deltas' = deltas + 1
    /\ said' = IF kind = "text" THEN said + 1 ELSE said
    /\ content' = (content \/ kind = "text")
    /\ UNCHANGED <<agent, toStart, running, asked, step, runErr, notAgent>>

\* The model's message is complete: save it.  Ids of tool calls are new ones.  A
\* message without tool calls and text is an error.
SaveMessage(calls) ==
    /\ agent = "stream"
    /\ calls \cap asked = {}
    /\ calls # {} \/ content
    /\ ~ctxDone
    /\ agent' = "ending" /\ toStart' = calls /\ asked' = asked \cup calls
    /\ UNCHANGED <<chan, running, step, deltas, content, runErr, said, notAgent>>

\* MessageEnd is forwarded once the row is saved; a message without tool calls
\* ends the run.
EmitMessageEnd ==
    /\ agent = "ending"
    /\ Emit(MessageEnd)
    /\ IF toStart = {}
       THEN Return(FALSE)
       ELSE agent' = "starting" /\ UNCHANGED runErr
    /\ UNCHANGED <<toStart, running, asked, step, deltas, content, said, notAgent>>

\* The synthetic starts, one per call, then execTools.
EmitStart(c) ==
    /\ agent = "starting"
    /\ c \in toStart
    /\ Emit(Start(c))
    /\ toStart' = toStart \ {c}
    /\ running' = running \cup {c}
    /\ agent' = IF toStart' = {} THEN "tools" ELSE agent
    /\ UNCHANGED <<asked, step, deltas, content, runErr, said, notAgent>>

\* A tool goroutine of execTools: execOne returned in some way, End follows.
ToolEnds(c, result) ==
    /\ agent = "tools"
    /\ c \in running
    /\ Emit(Finished(c, result))
    /\ running' = running \ {c}
    /\ UNCHANGED <<agent, toStart, asked, step, deltas, content, runErr, said, notAgent>>

\* Fault: no wg.Wait.
NextStepAtOnce ==
    /\ agent = "tools"
    /\ ~ctxDone
    /\ step' = step + 1
    /\ deltas' = 0 /\ content' = FALSE
    /\ running' = {}
    /\ IF step + 1 = MaxSteps
       THEN Return(TRUE)
       ELSE agent' = "stream" /\ UNCHANGED runErr
    /\ UNCHANGED <<chan, toStart, asked, said, notAgent>>

\* wg.Wait, the results are saved, the loop goes on or is at its bound.
NextStep ==
    /\ agent = "tools"
    /\ running = {}
    /\ ~ctxDone
    /\ step' = step + 1
    /\ deltas' = 0 /\ content' = FALSE
    /\ IF step + 1 = MaxSteps
       THEN Return(TRUE)
       ELSE agent' = "stream" /\ UNCHANGED runErr
    /\ UNCHANGED <<chan, toStart, running, asked, said, notAgent>>

\* Stream or save errors, and a stream without MessageEnd, end the run at once;
\* EventError, an empty answer and oversized arguments are forwarded first.
RunFails ==
    /\ agent = "stream" \/ (agent = "tools" /\ running = {})
    /\ Return(TRUE)
    /\ UNCHANGED chan \/ (agent = "stream" /\ Emit(Error))
    /\ UNCHANGED <<toStart, running, asked, step, deltas, content, said, notAgent>>

CtxEnds ==
    /\ CtxMayEnd
    /\ ~ctxDone /\ handler # "returned"
    /\ ctxDone' = TRUE
    /\ UNCHANGED <<chan, closed, agentVars, feedVars, cardVars, handlerVars>>

-----------------------------------------------------------------------------
(* Feed.  Its select takes any of the cases that are ready.                  *)

\* A PATCH under a dead context is not sent; a lost reply is an error, too.
PatchOutcomes == IF ctxDone THEN {"error"} ELSE PatchResults

PatchCard(card, result) ==
    shown' = IF result \in {"ok", "lost"} THEN card ELSE shown

\* Fault: a PATCH that failed or was limited counts as sent.
FlushOnce(s, d, force) ==
    IF ~force /\ (~d \/ Card(s) = lastSnap)
    THEN dirty' = d /\ UNCHANGED <<lastSnap, shown>>
    ELSE \E result \in PatchOutcomes :
            /\ PatchCard(Card(s), result)
            /\ dirty' = FALSE
            /\ lastSnap' = IF result = "ok" THEN Card(s) ELSE lastSnap

\* flush(force) with state s and dirty flag d.
Flush(s, d, force) ==
    IF ~force /\ (~d \/ Card(s) = lastSnap)
    THEN dirty' = d /\ UNCHANGED <<lastSnap, shown>>
    ELSE \E result \in PatchOutcomes :
            /\ PatchCard(Card(s), result)
            /\ dirty' = (d /\ result # "ok")
            /\ lastSnap' = IF result = "ok" THEN Card(s) ELSE lastSnap

notFeed == <<closed, ctxDone, agentVars, handlerVars>>

FeedTick ==
    /\ feed = "looping"
    /\ dirty
    /\ Flush(state, dirty, FALSE)
    /\ UNCHANGED <<chan, feed, state, notFeed>>

\* First text, the end of a tool, of a message and an error are shown at once.
Urgent(s, ev) ==
    \/ ev.type = "text" /\ ~s.thinkingDone
    \/ ev.type \in {"end", "error", "messageEnd"}

FeedEvent ==
    /\ feed = "looping"
    /\ chan # <<>>
    /\ chan' = Tail(chan)
    /\ LET ev == Head(chan)
           d  == dirty \/ Changed(state, ev)
       IN /\ state' = Applied(state, ev)
          /\ IF Urgent(state, ev)
             THEN Flush(state', d, TRUE)
             ELSE dirty' = d /\ UNCHANGED <<lastSnap, shown>>
    /\ UNCHANGED <<feed, notFeed>>

FeedClosed ==
    /\ feed = "looping"
    /\ chan = <<>> /\ closed
    /\ feed' = "left"
    /\ Flush(state, dirty, TRUE)
    /\ UNCHANGED <<chan, state, notFeed>>

FeedCancelled ==
    /\ feed = "looping"
    /\ ctxDone
    /\ feed' = "left"
    /\ Flush(state, dirty, TRUE)
    /\ UNCHANGED <<chan, state, notFeed>>

-----------------------------------------------------------------------------
(* Handle, from close(events) on.                                            *)

\* Fault: the channel is not closed.
LeaveOpen ==
    /\ handler = "running"
    /\ agent = "returned"
    /\ handler' = "waiting"
    /\ UNCHANGED <<chan, closed, ctxDone, agentVars, feedVars, cardVars, finalOk>>

CloseEvents ==
    /\ handler = "running"
    /\ agent = "returned"
    /\ closed' = TRUE
    /\ handler' = "waiting"
    /\ UNCHANGED <<chan, ctxDone, agentVars, feedVars, cardVars, finalOk>>

\* MarkError with a friendly text, or nothing; then Stop: MarkDone and PATCH.
Terminal(s) ==
    IF runErr THEN [s EXCEPT !.phase = "error", !.error = "friendly"]
    ELSE IF s.phase = "error" THEN s
    ELSE [s EXCEPT !.phase = "done"]

\* Fault: the terminal card does not wait for Feed.
WriteFinalEarly ==
    /\ handler = "waiting"
    /\ state' = Terminal(state)
    /\ \E result \in PatchOutcomes :
          PatchCard(Card(state'), result) /\ finalOk' = (result = "ok")
    /\ handler' = "returned"
    /\ UNCHANGED <<chan, closed, ctxDone, agentVars, feedVars>>

\* <-feedDone, then the terminal card.
WriteFinal ==
    /\ handler = "waiting"
    /\ feed = "left"
    /\ state' = Terminal(state)
    /\ \E result \in PatchOutcomes :
          PatchCard(Card(state'), result) /\ finalOk' = (result = "ok")
    /\ handler' = "returned"
    /\ UNCHANGED <<chan, closed, ctxDone, agentVars, feedVars>>

Returned ==
    /\ handler = "returned"
    /\ UNCHANGED vars

Agent ==
    \/ \E kind \in {"thinking", "text"} : EmitDelta(kind)
    \/ \E calls \in SUBSET Calls : SaveMessage(calls)
    \/ EmitMessageEnd
    \/ \E c \in Calls : EmitStart(c)
    \/ \E c \in Calls, result \in {"ok", "failed"} : ToolEnds(c, result)
    \/ NextStep
    \/ RunFails

Feed == FeedTick \/ FeedEvent \/ FeedClosed \/ FeedCancelled

Handle == CloseEvents \/ WriteFinal

Next == Agent \/ CtxEnds \/ Feed \/ Handle \/ Returned

Spec == Init /\ [][Next]_vars

\* Goroutines that can go on do; a model's stream ends (it is finite) and tools
\* have a timeout.
FairSpec ==
    /\ Spec
    /\ WF_vars(Agent)
    /\ WF_vars(FeedEvent \/ FeedClosed \/ FeedCancelled)
    /\ WF_vars(Handle)

-----------------------------------------------------------------------------
(* Properties.                                                               *)

Stages    == {"none", "running", "ok", "failed"}
LiveCard  == [kind : {"initializing", "running", "final"}, thinking : Nat,
              note : BOOLEAN, text : Nat, tools : [Calls -> Stages]]
ErrorCard == [kind : {"error"}, error : {"none", "internal", "friendly"}]
AnyCard   == {InitialCard} \cup ErrorCard \cup LiveCard
CardState == [phase : {"idle", "thinking", "text", "tools", "done", "error"},
              thinking : Nat, thinkingDone : BOOLEAN, text : Nat,
              tools : [Calls -> Stages], error : {"none", "internal", "friendly"}]
Event     == {Delta("thinking"), Delta("text"), MessageEnd, Error}
               \cup {Start(c) : c \in Calls}
               \cup {Finished(c, r) : c \in Calls, r \in {"ok", "failed"}}

\* Every variable stays within its type; the channel within its capacity.
TypeOK ==
    /\ chan \in Seq(Event) /\ Len(chan) <= BufCap
    /\ closed \in BOOLEAN /\ ctxDone \in BOOLEAN
    /\ agent \in {"stream", "ending", "starting", "tools", "returned"}
    /\ toStart \subseteq asked /\ running \subseteq asked /\ asked \subseteq Calls
    /\ step \in 0 .. MaxSteps /\ deltas \in 0 .. MaxDeltas /\ content \in BOOLEAN
    /\ runErr \in BOOLEAN /\ said \in Nat
    /\ feed \in {"looping", "left"} /\ dirty \in BOOLEAN
    /\ lastSnap \in AnyCard /\ shown \in AnyCard
    /\ state \in CardState
    /\ handler \in {"running", "waiting", "returned"} /\ finalOk \in BOOLEAN

\* Feed's dirty flag is honest: while it says there is nothing to send, the user
\* sees the state as it is, whatever PATCH failed, was limited or lost its reply.
CleanMeansShown ==
    feed = "looping" /\ ~dirty =>
        \/ shown = Card(state)
        \/ shown = InitialCard /\ state = NewState

\* PATCHes come from two goroutines, Feed and then the handler, and may be lost
\* or late in effect; the card never goes back: no text disappears unless an
\* error replaces it, no finished tool runs again, the last card stays.
CardNeverGoesBack ==
    [][shown' # shown =>
        \/ shown.kind = "initial"
        \/ shown'.kind = "error"
        \/ /\ shown.kind \in {"initializing", "running"}
           /\ shown'.kind \in {"initializing", "running", "final"}
           /\ shown'.text >= shown.text
           /\ \A c \in Calls :
                \/ shown.tools[c] = "none"
                \/ shown.tools[c] = "running" /\ shown'.tools[c] # "none"
                \/ shown'.tools[c] = shown.tools[c]]_vars

\* If the terminal PATCH succeeded, the user is left with the whole answer and
\* no tool shown as running, or, after an error, with the friendly error card:
\* every event was applied before Stop took its snapshot.
FinalCardComplete ==
    finalOk =>
        IF runErr
        THEN shown = [kind |-> "error", error |-> "friendly"]
        ELSE /\ shown.kind = "final"
             /\ shown.text = said /\ said > 0
             /\ \A c \in Calls : shown.tools[c] # "running"

\* As long as the context lives, Handle returns, and with it the lock is released:
\* agent, renderer and handler wait for each other through a bounded channel, but
\* never all at once.
ReturnsWhileLive == []~ctxDone => <>(handler = "returned")
=============================================================================
