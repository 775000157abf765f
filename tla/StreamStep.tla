----------------------------- MODULE StreamStep -----------------------------
(***************************************************************************)
(* One step of the agent loop with the stream it reads: translateStream    *)
(* (llm/eino_adapter.go) turns the chunks of a provider into StreamEvents  *)
(* on a bounded channel; Run (agent/loop.go) puts a message together from  *)
(* them, saves it, runs its tools at once and appends their results.       *)
(*                                                                         *)
(* The model asks for calls 1, 2, ...; call k has the id k, and its        *)
(* arguments arrive in the parts <<k, 1>>, <<k, 2>>, ...: they are JSON    *)
(* when all parts are there, in order, and nothing else.                   *)
(***************************************************************************)
EXTENDS Integers, Sequences, FiniteSets, SequencesExt

CONSTANTS
    Parts,   \* Parts[k] >= 1: the parts the arguments of call k come in
    Caps,    \* the possible limits on the parts of one call (1 MiB in the code)
    BufCap,  \* capacity of the event channel (16)
    Styles   \* how providers mark the chunks of a call

\* "indexed": every chunk has the index of its call, the first one its id;
\* "unindexed": no index, calls follow each other; "nameless": nor any id.
ASSUME StreamParameters ==
    /\ Parts \in Seq(Nat \ {0})
    /\ Caps \subseteq Nat
    /\ BufCap \in Nat \ {0}
    /\ Styles \subseteq {"indexed", "unindexed", "nameless"}

Calls == DOMAIN Parts
NoId == 0

VARIABLES
    style, cap,
    sent,     \* the provider: parts sent of each call, -1 before its first chunk
    reader,   \* translateStream: "open", "ended" after the terminator, "closed"
    slots,    \* byIndex: index -> id
    seen,     \* seenTool: ids whose start was emitted
    pending,  \* events translateStream has yet to send
    chan,     \* the channel
    log,      \* history: everything sent on it
    agent,    \* Run: "reading", "tools", or how the step ended
    order,    \* ids of the calls, as they came
    args,     \* partials: id -> parts
    text,     \* has any text come
    calls,    \* asst.ToolCalls: sequence of [id, args]
    out,      \* execTools: [call index -> id of the result, NoId before]
    results   \* ids of the tool messages, as appended

provider == <<style, cap, sent>>
translator == <<reader, slots, seen, pending>>
message == <<order, args, text>>
tools == <<calls, out, results>>
vars == <<provider, translator, chan, log, agent, message, tools>>

Init ==
    /\ style \in Styles /\ cap \in Caps
    /\ sent = [k \in Calls |-> -1]
    /\ reader = "open" /\ slots = <<>> /\ seen = {} /\ pending = <<>>
    /\ chan = <<>> /\ log = <<>>
    /\ agent = "reading"
    /\ order = <<>> /\ args = <<>> /\ text = FALSE
    /\ calls = <<>> /\ out = <<>> /\ results = <<>>

Event(type, id, part) == [type |-> type, id |-> id, part |-> part]
NoPart == <<0, 0>>

-----------------------------------------------------------------------------
(* translateStream.                                                          *)

Receiving == reader = "open" /\ pending = <<>>

RecvText ==
    /\ Receiving
    /\ \A i \in DOMAIN log : log[i].type # "text"   \* bound: one text chunk
    /\ pending' = <<Event("text", NoId, NoPart)>>
    /\ UNCHANGED <<provider, reader, slots, seen, chan, log, agent, message, tools>>

\* Call k is the provider's turn: calls begin in order; without an index one is
\* complete before the next begins.
MaySend(k) ==
    /\ sent[k] < Parts[k]
    /\ sent[k] = -1 => \A j \in Calls : j < k => sent[j] # -1
    /\ style # "indexed" => \A j \in Calls : j < k => sent[j] = Parts[j]

\* Fault: the index of a chunk is not looked at.
IndexIgnored(k) == 0

\* A chunk without an index belongs to slot 0.
IndexOf(k) == IF style = "indexed" THEN k ELSE 0

\* The id of a slot is the first one that is seen for it.
SlotId(idx, id) ==
    IF idx \notin DOMAIN slots \/ slots[idx] = NoId THEN id ELSE slots[idx]

\* A chunk of call k: its first one, with or without arguments, or more of them.
RecvCall(k) ==
    /\ Receiving /\ MaySend(k)
    /\ \E n \in IF sent[k] = -1 THEN {0, 1} ELSE {sent[k] + 1} :
          LET idx    == IndexOf(k)
              id     == SlotId(idx, IF sent[k] = -1 /\ style # "nameless" THEN k ELSE NoId)
              starts == id # NoId /\ id \notin seen
          IN /\ sent' = [sent EXCEPT ![k] = n]
             /\ slots' = [i \in DOMAIN slots \cup {idx} |-> IF i = idx THEN id ELSE slots[i]]
             /\ seen' = IF starts THEN seen \cup {id} ELSE seen
             /\ pending' =
                    (IF starts THEN <<Event("start", id, NoPart)>> ELSE <<>>) \o
                    (IF n > 0 /\ id # NoId THEN <<Event("args", id, <<k, n>>)>> ELSE <<>>)
    /\ UNCHANGED <<style, cap, reader, chan, log, agent, message, tools>>

\* Fault: the terminator is sent before the ends of the calls.
RecvEOFEndFirst ==
    /\ Receiving
    /\ reader' = "ended"
    /\ \E ends \in SetToSeqs({Event("end", slots[i], NoPart) : i \in DOMAIN slots}) :
          pending' = <<Event("messageEnd", NoId, NoPart)>> \o ends
    /\ UNCHANGED <<provider, slots, seen, chan, log, agent, message, tools>>

\* The stream is over - maybe because it hit the token limit in the middle of a
\* call.  The calls are ended in the order of a map.
RecvEOF ==
    /\ Receiving
    /\ reader' = "ended"
    /\ \E ends \in SetToSeqs({Event("end", slots[i], NoPart) : i \in DOMAIN slots}) :
          pending' = Append(ends, Event("messageEnd", NoId, NoPart))
    /\ UNCHANGED <<provider, slots, seen, chan, log, agent, message, tools>>

\* It fails, or the context of the turn ends.
RecvError ==
    /\ Receiving
    /\ reader' = "ended"
    /\ pending' = <<Event("error", NoId, NoPart)>>
    /\ UNCHANGED <<provider, slots, seen, chan, log, agent, message, tools>>

\* out <- event waits for room.
Send ==
    /\ pending # <<>> /\ Len(chan) < BufCap
    /\ chan' = Append(chan, Head(pending))
    /\ log' = Append(log, Head(pending))
    /\ pending' = Tail(pending)
    /\ UNCHANGED <<provider, reader, slots, seen, agent, message, tools>>

CloseChannel ==
    /\ reader = "ended" /\ pending = <<>>
    /\ reader' = "closed"
    /\ UNCHANGED <<provider, slots, seen, pending, chan, log, agent, message, tools>>

-----------------------------------------------------------------------------
(* Run.                                                                      *)

Take(type) ==
    /\ agent = "reading" /\ chan # <<>> /\ Head(chan).type = type
    /\ chan' = Tail(chan)

OnText ==
    /\ Take("text")
    /\ text' = TRUE
    /\ UNCHANGED <<provider, translator, log, agent, order, args, tools>>

\* The parts an id has so far; the first event of an id makes its entry.
PartsOf(id) == IF id \in DOMAIN args THEN args[id] ELSE <<>>
SetParts(id, parts) ==
    /\ args' = [i \in DOMAIN args \cup {id} |-> IF i = id THEN parts ELSE args[i]]
    /\ order' = IF id \in DOMAIN args THEN order ELSE Append(order, id)

OnStart ==
    /\ Take("start")
    /\ SetParts(Head(chan).id, PartsOf(Head(chan).id))
    /\ UNCHANGED <<provider, translator, log, agent, text, tools>>

\* Fault: what has come is checked, not what it grows to.
OnArgsLate ==
    /\ Take("args")
    /\ LET id == Head(chan).id
       IN IF Len(PartsOf(id)) > cap
          THEN agent' = "too large" /\ UNCHANGED <<order, args>>
          ELSE SetParts(id, Append(PartsOf(id), Head(chan).part)) /\ UNCHANGED agent
    /\ UNCHANGED <<provider, translator, log, text, tools>>

\* Arguments over the limit end the turn; the stream is left as it is.
OnArgs ==
    /\ Take("args")
    /\ LET id == Head(chan).id
       IN IF Len(PartsOf(id)) + 1 > cap
          THEN agent' = "too large" /\ UNCHANGED <<order, args>>
          ELSE SetParts(id, Append(PartsOf(id), Head(chan).part)) /\ UNCHANGED agent
    /\ UNCHANGED <<provider, translator, log, text, tools>>

OnEnd ==
    /\ Take("end")
    /\ UNCHANGED <<provider, translator, log, agent, message, tools>>

Complete(k) == [n \in 1 .. Parts[k] |-> <<k, n>>]
IsJSON(parts) == parts = <<>> \/ \E k \in Calls : parts = Complete(k)

\* asst.ToolCalls.
Assembled == [i \in DOMAIN order |-> [id |-> order[i], args |-> args[order[i]]]]

\* Fault: arguments that are not JSON are saved like any others.
OnMessageEndLenient ==
    /\ Take("messageEnd")
    /\ calls' = Assembled
    /\ out' = [i \in DOMAIN order |-> NoId]
    /\ \/ order = <<>> /\ ~text /\ agent' = "empty"
       \/ order = <<>> /\ text /\ agent' = "answered"
       \/ order # <<>> /\ agent' = "tools"
       \/ (order # <<>> \/ text) /\ agent' = "save failed"
    /\ UNCHANGED <<provider, translator, log, message, results>>

\* The message is complete.  An empty one ends the turn, and so does a save that
\* fails: Redis fails, or arguments are not JSON and cannot be marshalled.
OnMessageEnd ==
    /\ Take("messageEnd")
    /\ calls' = Assembled
    /\ out' = [i \in DOMAIN order |-> NoId]
    /\ \/ order = <<>> /\ ~text /\ agent' = "empty"
       \/ order = <<>> /\ text /\ agent' = "answered"
       \/ order # <<>> /\ (\A id \in DOMAIN args : IsJSON(args[id])) /\ agent' = "tools"
       \/ (order # <<>> \/ text) /\ agent' = "save failed"
    /\ UNCHANGED <<provider, translator, log, message, results>>

OnError ==
    /\ Take("error")
    /\ agent' = "stream failed"
    /\ UNCHANGED <<provider, translator, log, message, tools>>

\* Fault: a tool's result goes to the next free place.
ExecOneNextFree(i) ==
    /\ agent = "tools" /\ \A j \in DOMAIN out : out[j] # calls[i].id
    /\ \E j \in DOMAIN out :
          /\ out[j] = NoId /\ \A h \in DOMAIN out : out[h] = NoId => j <= h
          /\ out' = [out EXCEPT ![j] = calls[i].id]
    /\ UNCHANGED <<provider, translator, chan, log, agent, message, calls, results>>

\* execOne: the i-th tool returns, fails, panics, times out or is unknown; in
\* every case it has a result.
ExecOne(i) ==
    /\ agent = "tools" /\ out[i] = NoId
    /\ out' = [out EXCEPT ![i] = calls[i].id]
    /\ UNCHANGED <<provider, translator, chan, log, agent, message, calls, results>>

\* Fault: one result more is waited for than there are calls.
AppendOneMore ==
    /\ agent = "tools" /\ Cardinality({i \in DOMAIN out : out[i] # NoId}) > Len(calls)
    /\ results' = out
    /\ agent' \in {"next step", "save failed"}
    /\ UNCHANGED <<provider, translator, chan, log, message, calls, out>>

\* The results are appended and saved; then the next step begins.
AppendResults ==
    /\ agent = "tools" /\ \A i \in DOMAIN out : out[i] # NoId
    /\ results' = out
    /\ agent' \in {"next step", "save failed"}
    /\ UNCHANGED <<provider, translator, chan, log, message, calls, out>>

Translate ==
    RecvText \/ (\E k \in Calls : RecvCall(k)) \/ RecvEOF \/ RecvError \/ Send \/ CloseChannel

Run ==
    OnText \/ OnStart \/ OnArgs \/ OnEnd \/ OnMessageEnd \/ OnError
    \/ (\E i \in DOMAIN calls : ExecOne(i)) \/ AppendResults

Next == Translate \/ Run

\* The provider sends or fails before the context of the turn ends, and each tool
\* has a timeout.
Spec == Init /\ [][Next]_vars /\ WF_vars(Translate) /\ WF_vars(Run)

-----------------------------------------------------------------------------
(* Properties.                                                               *)

Outcomes == {"too large", "empty", "answered", "save failed", "stream failed", "next step"}

\* Every variable stays within its type.
TypeOK ==
    /\ style \in Styles /\ cap \in Caps
    /\ \A k \in Calls : sent[k] \in -1 .. Parts[k]
    /\ reader \in {"open", "ended", "closed"}
    /\ \A i \in DOMAIN slots : slots[i] \in {NoId} \cup Calls
    /\ seen \subseteq Calls
    /\ Len(pending) <= Cardinality(Calls) + 1
    /\ Len(chan) <= BufCap
    /\ agent \in {"reading", "tools"} \cup Outcomes
    /\ \A i \in DOMAIN order : order[i] \in Calls
    /\ DOMAIN args = {order[i] : i \in DOMAIN order}
    /\ \A id \in DOMAIN args : Len(args[id]) <= cap

Terminators == {"messageEnd", "error"}
At(type, id) == {i \in DOMAIN log : log[i].type = type /\ log[i].id = id}

\* "Exactly one of EventMessageEnd / EventError is emitted per stream; after
\* either, the channel is closed; ToolCall events arrive in the order Start ->
\* Args* -> End, before EventMessageEnd" (llm/types.go).  A provider that gives no
\* ids makes an End without a Start.
StreamContract ==
    /\ \A i \in DOMAIN log : log[i].type \in Terminators => i = Len(log)
    /\ reader = "closed" => log # <<>> /\ Last(log).type \in Terminators
    /\ \A id \in Calls :
          /\ Cardinality(At("start", id)) <= 1 /\ Cardinality(At("end", id)) <= 1
          /\ \A a \in At("args", id) : \E s \in At("start", id) : s < a
          /\ \A e \in At("end", id) :
                /\ At("start", id) # {}
                /\ \A i \in At("start", id) \cup At("args", id) : i < e

\* A tool runs only with the arguments of its own call, all of them and in order,
\* or with none: chunks of other calls that end up in its slot, and arguments cut
\* off by a token limit, end the turn instead.
ToolsRunOnOwnArguments ==
    agent = "tools" => \A i \in DOMAIN calls : calls[i].args \in {<<>>, Complete(calls[i].id)}

\* From a provider that marks its chunks with an index, a message has every call
\* that was begun, in the order they were begun and with all that was sent of
\* their arguments, however the chunks of the calls alternate.
MessageFaithful ==
    style = "indexed" /\ agent \in {"tools", "answered", "next step"} =>
        /\ Len(calls) = Cardinality({k \in Calls : sent[k] # -1})
        /\ \A i \in DOMAIN calls :
              calls[i].id = i /\ calls[i].args = [n \in 1 .. sent[i] |-> <<i, n>>]

\* Tools may end in any order; the model gets one result per call, in call order.
ResultsInCallOrder ==
    results # <<>> => results = [i \in DOMAIN calls |-> calls[i].id]

\* The step ends, and the translating goroutine with it - unless the arguments were
\* too large: then nobody reads the channel any more.
StepEnds ==
    /\ <>(agent \in Outcomes)
    /\ <>(reader = "closed" \/ agent = "too large")
=============================================================================
