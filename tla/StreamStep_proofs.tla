-------------------------- MODULE StreamStep_proofs --------------------------
(* Theorems about StreamStep, for any calls, limits, capacity and styles.     *)
EXTENDS StreamStep, FiniteSetTheorems, SequenceTheorems, TLAPS

-----------------------------------------------------------------------------
(* The inductive invariant.                                                  *)

\* Every event translateStream has made, sent or not.
Emitted == log \o pending

\* How many of them Run has taken.
Taken == Len(log) - Len(chan)

\* The event at place i has this type.
Is(i, type) == i \in DOMAIN Emitted /\ Emitted[i].type = type

PartSet == Calls \X Nat \cup {NoPart}

EventSet ==
    [type : {"text", "start", "args", "end"} \cup Terminators,
     id   : {NoId} \cup Calls,
     part : PartSet]

\* What the variables hold, beyond TypeOK.
Typed ==
    /\ style \in Styles /\ cap \in Caps
    /\ sent \in [Calls -> Int] /\ \A k \in Calls : sent[k] \in -1 .. Parts[k]
    /\ reader \in {"open", "ended", "closed"}
    /\ seen \subseteq Calls
    /\ log \in Seq(EventSet) /\ pending \in Seq(EventSet) /\ chan \in Seq(EventSet)
    /\ Len(pending) <= Cardinality(Calls) + 1 /\ Len(chan) <= BufCap
    /\ agent \in {"reading", "tools"} \cup Outcomes
    /\ order \in Seq(Calls)
    /\ DOMAIN args = {order[i] : i \in DOMAIN order}
    /\ \A id \in DOMAIN args : args[id] \in Seq(PartSet) /\ Len(args[id]) <= cap

\* Slots: an id there was announced; with an index each call has a slot of its
\* own, without one they share slot 0, which belongs to the first call.
Slots ==
    /\ \A i \in DOMAIN slots : slots[i] # NoId => slots[i] \in seen
    /\ style = "indexed" =>
          /\ DOMAIN slots = {k \in Calls : sent[k] # -1}
          /\ \A k \in DOMAIN slots : slots[k] = k
          /\ seen = DOMAIN slots
          /\ \A k \in DOMAIN slots : \A j \in 1 .. k - 1 : j \in DOMAIN slots
    /\ style # "indexed" =>
          /\ DOMAIN slots \subseteq {0}
          /\ DOMAIN slots = {} <=> \A k \in Calls : sent[k] = -1
          /\ DOMAIN slots # {} => slots[0] = IF style = "nameless" THEN NoId ELSE 1

\* The events keep the contract: starts announce the ids seen, each once; arguments
\* follow their start; ends come once, after everything but the terminator.
Contract ==
    /\ \A i \in DOMAIN Emitted :
          /\ reader = "open" => Emitted[i].type \notin {"end"} \cup Terminators
          /\ Emitted[i].type \in Terminators => i = Len(Emitted)
    /\ reader # "open" => Emitted # <<>> /\ Emitted[Len(Emitted)].type \in Terminators
    /\ reader = "closed" => pending = <<>>
    /\ \A i \in DOMAIN Emitted : Is(i, "start") => Emitted[i].id \in seen
    /\ \A id \in seen : \E i \in DOMAIN Emitted : Is(i, "start") /\ Emitted[i].id = id
    /\ \A i, j \in DOMAIN Emitted :
          Is(i, "start") /\ Is(j, "start") /\ Emitted[i].id = Emitted[j].id => i = j
    /\ \A i \in DOMAIN Emitted :
          Is(i, "args") => \E j \in 1 .. i - 1 : Is(j, "start") /\ Emitted[j].id = Emitted[i].id
    /\ \A i, j \in DOMAIN Emitted :
          Is(i, "end") /\ i < j => Emitted[j].type \in {"end"} \cup Terminators
    /\ \A i, j \in DOMAIN Emitted :
          Is(i, "end") /\ Is(j, "end") /\ Emitted[i].id = Emitted[j].id => i = j
    /\ \A i \in DOMAIN Emitted : Is(i, "end") => Emitted[i].id \in {NoId} \cup seen

\* The first arguments of an id are those of its own call.
FirstOwn ==
    /\ \A i \in DOMAIN Emitted : Is(i, "args") =>
          \/ Emitted[i].part[1] = Emitted[i].id
          \/ \E j \in 1 .. i - 1 : Is(j, "args") /\ Emitted[j].id = Emitted[i].id
    /\ style = "unindexed" => \A k \in Calls : sent[k] > 0 =>
          \E i \in DOMAIN Emitted : Is(i, "args") /\ Emitted[i].id = 1

\* With an index, arguments are those of their own call, all that was sent, in
\* order; calls start in order.
InTheirOrder ==
    style = "indexed" =>
        /\ \A i \in DOMAIN Emitted : Is(i, "args") =>
              /\ Emitted[i].part = <<Emitted[i].id, Emitted[i].part[2]>>
              /\ Emitted[i].part[2] \in 1 .. sent[Emitted[i].id]
        /\ \A i, j \in DOMAIN Emitted :
              i < j /\ Is(i, "args") /\ Is(j, "args") /\ Emitted[i].id = Emitted[j].id =>
                  Emitted[i].part[2] < Emitted[j].part[2]
        /\ \A k \in Calls : \A n \in 1 .. sent[k] :
              \E i \in DOMAIN Emitted : Is(i, "args") /\ Emitted[i].part = <<k, n>>
        /\ \A i, j \in DOMAIN Emitted :
              i < j /\ Is(i, "start") /\ Is(j, "start") => Emitted[i].id < Emitted[j].id

\* The channel holds the latest events sent.
Channel ==
    /\ Len(chan) <= Len(log)
    /\ \A i \in 1 .. Len(chan) : chan[i] = log[Taken + i]

\* What Run has put together is what it has taken: an entry for each id started,
\* its first part its own.
Partial ==
    agent = "reading" =>
        /\ DOMAIN args = {Emitted[i].id : i \in {j \in 1 .. Taken : Is(j, "start")}}
        /\ \A id \in DOMAIN args :
              IF args[id] = <<>>
              THEN \A i \in 1 .. Taken : ~(Is(i, "args") /\ Emitted[i].id = id)
              ELSE args[id][1][1] = id

\* With an index: the calls in order, each with all of its arguments that were
\* taken.
PartialInOrder ==
    agent = "reading" /\ style = "indexed" =>
        /\ \A i \in DOMAIN order : order[i] = i
        /\ \A i \in DOMAIN Emitted : Is(i, "start") =>
              (i <= Taken <=> Emitted[i].id <= Len(order))
        /\ \A id \in DOMAIN args :
              /\ \A n \in DOMAIN args[id] : args[id][n] = <<id, n>>
              /\ Len(args[id]) <= sent[id]
        /\ \A i \in DOMAIN Emitted : Is(i, "args") /\ Emitted[i].id \in DOMAIN args =>
              (i <= Taken <=> Emitted[i].part[2] <= Len(args[Emitted[i].id]))

\* Before the message is complete there are no calls; then each has its own
\* result, or none yet.
Results ==
    /\ agent \in {"reading", "too large", "stream failed"} =>
          calls = <<>> /\ out = <<>> /\ results = <<>>
    /\ agent \in {"tools", "answered", "next step"} => reader # "open"
    /\ calls \in Seq([id : Calls, args : Seq(PartSet)])
    /\ out \in Seq({NoId} \cup Calls) /\ DOMAIN out = DOMAIN calls
    /\ \A i \in DOMAIN calls : out[i] \in {NoId, calls[i].id}
    /\ results # <<>> => results = [i \in DOMAIN calls |-> calls[i].id]

\* What the translator keeps, what Run keeps, and the channel between them.
TranslatorInv == Slots /\ Contract /\ FirstOwn /\ InTheirOrder
RunInv == /\ Partial /\ PartialInOrder /\ Results
          /\ ToolsRunOnOwnArguments /\ MessageFaithful

StreamInv == Typed /\ TranslatorInv /\ Channel /\ RunInv

-----------------------------------------------------------------------------
(* Events, sent and to be sent.                                              *)

LEMMA CallsAre ==
    /\ Len(Parts) \in Nat /\ Calls = 1 .. Len(Parts) /\ IsFiniteSet(Calls)
    /\ Cardinality(Calls) = Len(Parts)
    /\ \A k \in Calls : k \in Nat /\ k # NoId /\ Parts[k] \in Nat /\ Parts[k] > 0
<1>1. Len(Parts) \in Nat /\ Calls = 1 .. Len(Parts)
  BY StreamParameters, LenProperties DEF Calls
<1>2. IsFiniteSet(Calls) /\ Cardinality(Calls) = Len(Parts)
  <2>1. /\ IsFiniteSet(1 .. Len(Parts))
        /\ Cardinality(1 .. Len(Parts)) = IF 1 > Len(Parts) THEN 0 ELSE Len(Parts) - 1 + 1
    BY <1>1, FS_Interval
  <2> QED
    BY <1>1, <2>1
<1> QED
  BY <1>1, <1>2, StreamParameters, ElementOfSeq DEF NoId

LEMMA EmittedIs ==
    ASSUME Typed
    PROVE  /\ Emitted \in Seq(EventSet)
           /\ Len(Emitted) = Len(log) + Len(pending)
           /\ Len(Emitted) \in Nat /\ Len(log) \in Nat /\ Len(pending) \in Nat
           /\ DOMAIN Emitted = 1 .. Len(Emitted)
           /\ \A i \in 1 .. Len(log) : Emitted[i] = log[i]
           /\ \A i \in 1 .. Len(pending) : Emitted[Len(log) + i] = pending[i]
<1>1. log \in Seq(EventSet) /\ pending \in Seq(EventSet)
  BY DEF Typed
<1>2. /\ Emitted \in Seq(EventSet) /\ Len(Emitted) = Len(log) + Len(pending)
      /\ \A i \in 1 .. Len(log) + Len(pending) :
            Emitted[i] = IF i <= Len(log) THEN log[i] ELSE pending[i - Len(log)]
  BY <1>1, ConcatProperties DEF Emitted
<1>3. Len(log) \in Nat /\ Len(pending) \in Nat /\ Len(Emitted) \in Nat
  BY <1>1, <1>2, LenProperties
<1>4. DOMAIN Emitted = 1 .. Len(Emitted)
  BY <1>2, LenProperties
<1> QED
  BY <1>2, <1>3, <1>4

\* What is true of every event.
LEMMA EventIs ==
    ASSUME Typed, NEW i \in 1 .. Len(Emitted)
    PROVE  /\ Emitted[i].type \in {"text", "start", "args", "end"} \cup Terminators
           /\ Emitted[i].id \in {NoId} \cup Calls
           /\ Emitted[i].part \in PartSet
<1>1. Emitted[i] \in EventSet
  BY EmittedIs, ElementOfSeq
<1> QED
  BY <1>1 DEF EventSet

\* Sending an event moves it from those to be sent to those sent.
LEMMA SendKeepsEmitted ==
    ASSUME Typed, Send
    PROVE  /\ Emitted' = Emitted
           /\ log' \in Seq(EventSet) /\ pending' \in Seq(EventSet) /\ chan' \in Seq(EventSet)
           /\ Len(log') = Len(log) + 1 /\ Len(chan') = Len(chan) + 1
           /\ Len(pending') = Len(pending) - 1
           /\ \A i \in 1 .. Len(log) : log'[i] = log[i]
           /\ \A i \in 1 .. Len(chan) : chan'[i] = chan[i]
           /\ log'[Len(log) + 1] = chan'[Len(chan) + 1]
<1>1. /\ log \in Seq(EventSet) /\ pending \in Seq(EventSet) /\ chan \in Seq(EventSet)
      /\ pending # <<>>
  BY DEF Typed, Send
<1>2. /\ Head(pending) \in EventSet /\ Tail(pending) \in Seq(EventSet)
      /\ Len(Tail(pending)) = Len(pending) - 1
      /\ \A i \in 1 .. Len(Tail(pending)) : Tail(pending)[i] = pending[i + 1]
  BY <1>1, HeadTailProperties
<1>3. /\ log' \in Seq(EventSet) /\ chan' \in Seq(EventSet)
      /\ Len(log') = Len(log) + 1 /\ Len(chan') = Len(chan) + 1
      /\ \A i \in 1 .. Len(log) : log'[i] = log[i]
      /\ \A i \in 1 .. Len(chan) : chan'[i] = chan[i]
      /\ log'[Len(log) + 1] = Head(pending) /\ chan'[Len(chan) + 1] = Head(pending)
  BY <1>1, <1>2, AppendProperties DEF Send
<1>4. pending' = Tail(pending)
  BY DEF Send
<1>5. Emitted' = Emitted
  <2>1. /\ Emitted' \in Seq(EventSet) /\ Len(Emitted') = Len(log') + Len(pending')
        /\ \A i \in 1 .. Len(log') + Len(pending') :
              Emitted'[i] = IF i <= Len(log') THEN log'[i] ELSE pending'[i - Len(log')]
    BY <1>2, <1>3, <1>4, ConcatProperties DEF Emitted
  <2>2. Len(Emitted') = Len(Emitted)
    BY <2>1, <1>2, <1>3, <1>4, EmittedIs
  <2>3. Head(pending) = pending[1]
    BY <1>1
  <2>4. ASSUME NEW i \in 1 .. Len(Emitted) PROVE Emitted'[i] = Emitted[i]
    <3>1. CASE i <= Len(log)
      BY <3>1, <2>1, <2>2, <1>3, EmittedIs
    <3>2. CASE i = Len(log) + 1
      <4>1. Emitted'[i] = Head(pending)
        BY <3>2, <2>1, <2>2, <1>3, EmittedIs
      <4>2. Emitted[i] = pending[1]
        BY <3>2, EmittedIs
      <4> QED
        BY <4>1, <4>2, <2>3
    <3>3. CASE i > Len(log) + 1
      <4>1. Emitted'[i] = Tail(pending)[i - Len(log) - 1]
        <5>1. i - Len(log') = i - Len(log) - 1 /\ ~(i <= Len(log'))
          BY <3>3, <1>3, EmittedIs
        <5> QED
          BY <5>1, <2>1, <2>2, <1>4
      <4>2. i - Len(log) - 1 \in 1 .. Len(Tail(pending))
        BY <3>3, <1>2, EmittedIs
      <4>3. Tail(pending)[i - Len(log) - 1] = pending[i - Len(log)]
        BY <4>2, <1>2, EmittedIs
      <4>4. Emitted[i] = pending[i - Len(log)]
        BY <3>3, EmittedIs
      <4> QED
        BY <4>1, <4>3, <4>4
    <3> QED
      BY <3>1, <3>2, <3>3, EmittedIs
  <2> QED
    BY <2>1, <2>2, <2>4, EmittedIs, SeqEqual
<1> QED
  BY <1>2, <1>3, <1>4, <1>5

\* What a chunk makes is added to what was made before.
LEMMA ReceivingAdds ==
    ASSUME Typed, pending = <<>>, UNCHANGED log, pending' \in Seq(EventSet)
    PROVE  /\ Len(Emitted') = Len(Emitted) + Len(pending') /\ Len(pending') \in Nat
           /\ DOMAIN Emitted' = 1 .. Len(Emitted')
           /\ \A i \in 1 .. Len(Emitted) : Emitted'[i] = Emitted[i]
           /\ \A i \in 1 .. Len(pending') : Emitted'[Len(Emitted) + i] = pending'[i]
           /\ Len(Emitted) = Len(log)
<1>1. Emitted = log
  BY ConcatEmptySeq DEF Typed, Emitted
<1>2. /\ Emitted' \in Seq(EventSet) /\ Len(Emitted') = Len(log) + Len(pending')
      /\ \A i \in 1 .. Len(log) + Len(pending') :
            Emitted'[i] = IF i <= Len(log) THEN log[i] ELSE pending'[i - Len(log)]
  BY ConcatProperties DEF Typed, Emitted
<1>3. Len(pending') \in Nat /\ Len(log) \in Nat /\ DOMAIN Emitted' = 1 .. Len(Emitted')
  BY <1>2, LenProperties, EmittedIs
<1> QED
  BY <1>1, <1>2, <1>3

\* Run takes the next event.
LEMMA TakesNext ==
    ASSUME Typed, Channel, NEW type, Take(type), UNCHANGED log
    PROVE  /\ Taken \in Nat /\ Taken + 1 \in 1 .. Len(log) /\ Len(log) <= Len(Emitted)
           /\ Head(chan) = Emitted[Taken + 1] /\ Emitted[Taken + 1].type = type
           /\ Taken' = Taken + 1
           /\ Channel' /\ chan' \in Seq(EventSet) /\ Len(chan') <= BufCap
<1>1. chan \in Seq(EventSet) /\ chan # <<>> /\ chan' = Tail(chan) /\ log' = log
  BY DEF Typed, Take
<1>2. /\ Len(chan) \in Nat \ {0} /\ Head(chan) = chan[1]
      /\ chan' \in Seq(EventSet) /\ Len(chan') = Len(chan) - 1
      /\ \A i \in 1 .. Len(chan') : chan'[i] = chan[i + 1]
  BY <1>1, EmptySeq, HeadTailProperties
<1>3. Len(log) \in Nat /\ Len(chan) <= Len(log) /\ Len(chan) <= BufCap /\ BufCap \in Nat
  BY EmittedIs, StreamParameters DEF Typed, Channel
<1>4. Taken \in Nat /\ Taken + 1 \in 1 .. Len(log) /\ Taken' = Taken + 1
  BY <1>1, <1>2, <1>3 DEF Taken
<1>5. Head(chan) = Emitted[Taken + 1]
  <2>1. chan[1] = log[Taken + 1]
    BY <1>2 DEF Channel
  <2> QED
    BY <2>1, <1>2, <1>4, EmittedIs
<1>6. Channel'
  <2>1. ASSUME NEW i \in 1 .. Len(chan') PROVE chan'[i] = log[Taken + 1 + i]
    <3>1. i + 1 \in 1 .. Len(chan)
      BY <1>2
    <3>2. Taken + (i + 1) = Taken + 1 + i
      BY <1>4
    <3> QED
      BY <3>1, <3>2, <1>2 DEF Channel
  <2>2. Len(chan') <= Len(log')
    BY <1>1, <1>2, <1>3
  <2> QED
    BY <2>1, <2>2, <1>1, <1>4 DEF Channel
<1>7. Emitted[Taken + 1].type = type
  BY <1>5 DEF Take
<1> QED
  BY <1>2, <1>3, <1>4, <1>5, <1>6, <1>7, EmittedIs

-----------------------------------------------------------------------------
(* What a step leaves alone.                                                 *)

LEMMA TranslatorUnmoved ==
    ASSUME TranslatorInv, Emitted' = Emitted, UNCHANGED <<style, sent, reader, slots, seen>>,
           reader = "closed" => pending' = <<>>
    PROVE  TranslatorInv'
<1>1. Slots'
  BY DEF TranslatorInv, Slots
<1>2. Contract'
  BY DEF TranslatorInv, Contract, Is
<1>3. FirstOwn'
  BY DEF TranslatorInv, FirstOwn, Is
<1>4. InTheirOrder'
  BY DEF TranslatorInv, InTheirOrder, Is
<1> QED
  BY <1>1, <1>2, <1>3, <1>4 DEF TranslatorInv

\* New events disturb nothing Run has put together, if calls that start are later
\* ones and arguments are further parts.
LEMMA RunUnmoved ==
    ASSUME Typed, Channel, RunInv, UNCHANGED <<style, agent, message, tools>>, Taken' = Taken,
           Len(Emitted) <= Len(Emitted'), Len(Emitted') \in Nat,
           DOMAIN Emitted' = 1 .. Len(Emitted'),
           \A i \in 1 .. Len(Emitted) : Emitted'[i] = Emitted[i],
           style = "indexed" /\ agent = "reading" =>
              \A i \in Len(Emitted) + 1 .. Len(Emitted') :
                  /\ Emitted'[i].type = "start" => ~(Emitted'[i].id <= Len(order))
                  /\ Emitted'[i].type = "args" /\ Emitted'[i].id \in DOMAIN args =>
                        ~(Emitted'[i].part[2] <= Len(args[Emitted'[i].id])),
           sent' \in [Calls -> Int], \A k \in Calls : sent[k] <= sent'[k],
           reader # "open" => sent' = sent /\ reader' # "open"
    PROVE  RunInv'
<1>1. Taken \in Nat /\ Taken <= Len(Emitted) /\ Len(Emitted) \in Nat /\ DOMAIN Emitted = 1 .. Len(Emitted)
  <2>1. Len(chan) \in Nat /\ Len(chan) <= Len(log)
    BY LenProperties DEF Typed, Channel
  <2> QED
    BY <2>1, EmittedIs DEF Taken
<1>2. UNCHANGED <<style, agent, order, args, calls, out, results>>
  BY DEF message, tools
<1>3. \A i \in 1 .. Taken : Emitted'[i] = Emitted[i] /\ i \in DOMAIN Emitted /\ i \in DOMAIN Emitted'
  BY <1>1
<1>4. Partial'
  <2> SUFFICES ASSUME agent = "reading" PROVE Partial'
    BY <1>2 DEF Partial
  <2>1. /\ DOMAIN args = {Emitted[i].id : i \in {j \in 1 .. Taken : Is(j, "start")}}
        /\ \A id \in DOMAIN args :
              IF args[id] = <<>>
              THEN \A i \in 1 .. Taken : ~(Is(i, "args") /\ Emitted[i].id = id)
              ELSE args[id][1][1] = id
    BY DEF RunInv, Partial
  <2>2. {Emitted[i].id : i \in {j \in 1 .. Taken : Is(j, "start")}}
          = {Emitted'[i].id : i \in {j \in 1 .. Taken : Is(j, "start")'}}
    BY <1>3 DEF Is
  <2>3. \A id \in DOMAIN args : args[id] = <<>> =>
            \A i \in 1 .. Taken : ~(Is(i, "args")' /\ Emitted'[i].id = id)
    BY <2>1, <1>3 DEF Is
  <2> QED
    BY <2>1, <2>2, <2>3, <1>2 DEF Partial
<1>5. PartialInOrder'
  <2> SUFFICES ASSUME agent = "reading", style = "indexed" PROVE PartialInOrder'
    BY <1>2 DEF PartialInOrder
  <2>1. \A i \in DOMAIN order : order[i] = i
    BY DEF RunInv, PartialInOrder
  <2>2. ASSUME NEW i \in DOMAIN Emitted', Is(i, "start")'
        PROVE  i <= Taken <=> Emitted'[i].id <= Len(order)
    <3>1. CASE i <= Len(Emitted)
      BY <2>2, <3>1, <1>1 DEF RunInv, PartialInOrder, Is
    <3>2. CASE i > Len(Emitted)
      BY <2>2, <3>2, <1>1 DEF Is
    <3> QED
      BY <3>1, <3>2, <1>1
  <2>3. \A id \in DOMAIN args :
              /\ \A n \in DOMAIN args[id] : args[id][n] = <<id, n>>
              /\ Len(args[id]) <= sent'[id]
    <3> SUFFICES ASSUME NEW id \in DOMAIN args PROVE Len(args[id]) <= sent'[id]
      BY DEF RunInv, PartialInOrder
    <3>1. id \in Calls /\ Len(args[id]) \in Nat /\ sent[id] \in Int /\ sent'[id] \in Int
      BY ElementOfSeq, LenProperties DEF Typed
    <3> QED
      BY <3>1 DEF RunInv, PartialInOrder
  <2>4. ASSUME NEW i \in DOMAIN Emitted', Is(i, "args")', Emitted'[i].id \in DOMAIN args
        PROVE  i <= Taken <=> Emitted'[i].part[2] <= Len(args[Emitted'[i].id])
    <3>1. CASE i <= Len(Emitted)
      BY <2>4, <3>1, <1>1 DEF RunInv, PartialInOrder, Is
    <3>2. CASE i > Len(Emitted)
      BY <2>4, <3>2, <1>1 DEF Is
    <3> QED
      BY <3>1, <3>2, <1>1
  <2> QED
    BY <2>1, <2>2, <2>3, <2>4, <1>2 DEF PartialInOrder
<1>6. Results'
  BY <1>2 DEF RunInv, Results
<1>7. ToolsRunOnOwnArguments'
  BY <1>2 DEF RunInv, ToolsRunOnOwnArguments
<1>8. MessageFaithful'
  <2> SUFFICES ASSUME agent \in {"tools", "answered", "next step"} PROVE MessageFaithful'
    BY <1>2 DEF MessageFaithful
  <2>1. sent' = sent
    BY DEF RunInv, Results
  <2>2. MessageFaithful
    BY DEF RunInv
  <2> QED
    BY <1>2, <2>1, <2>2 DEF MessageFaithful
<1> QED
  BY <1>4, <1>5, <1>6, <1>7, <1>8 DEF RunInv

-----------------------------------------------------------------------------
(* Chunks of a stream and its end.                                           *)

\* Events may be added behind those there are.
Grown ==
    /\ Len(Emitted) \in Nat /\ Len(Emitted') \in Nat /\ Len(Emitted) <= Len(Emitted')
    /\ DOMAIN Emitted = 1 .. Len(Emitted) /\ DOMAIN Emitted' = 1 .. Len(Emitted')
    /\ \A i \in 1 .. Len(Emitted) : Emitted'[i] = Emitted[i]

Added == Len(Emitted) + 1 .. Len(Emitted')

LEMMA OldOrAdded ==
    ASSUME Grown, NEW i \in DOMAIN Emitted'
    PROVE  \/ i \in DOMAIN Emitted /\ i \notin Added /\ Emitted'[i] = Emitted[i]
           \/ i \in Added /\ i \notin DOMAIN Emitted /\ i > Len(Emitted)
BY DEF Grown, Added

\* A chunk keeps the contract, if it makes no end and no terminator, starts only
\* an id that is new, and first of all.
LEMMA ContractGrows ==
    ASSUME Contract, Grown, reader = "open", reader' = "open",
           \A i \in Added : Emitted'[i].type \in {"text", "start", "args"},
           \A i \in Added : Emitted'[i].type = "start" =>
              i = Len(Emitted) + 1 /\ Emitted'[i].id \notin seen /\ Emitted'[i].id \in seen',
           \A i \in Added : Emitted'[i].type = "args" =>
              \E j \in 1 .. i - 1 : j \in DOMAIN Emitted' /\ Emitted'[j].type = "start"
                                     /\ Emitted'[j].id = Emitted'[i].id,
           seen \subseteq seen',
           \A id \in seen' \ seen : \E i \in Added :
              Emitted'[i].type = "start" /\ Emitted'[i].id = id
    PROVE  Contract'
<1>1. ASSUME NEW i \in DOMAIN Emitted' PROVE Emitted'[i].type \notin {"end"} \cup Terminators
  BY OldOrAdded DEF Contract, Terminators
<1>2. \A i \in DOMAIN Emitted' : Is(i, "start")' => Emitted'[i].id \in seen'
  BY OldOrAdded DEF Contract, Is
<1>3. ASSUME NEW id \in seen' PROVE \E i \in DOMAIN Emitted' : Is(i, "start")' /\ Emitted'[i].id = id
  <2>1. CASE id \in seen
    <3>1. PICK i \in DOMAIN Emitted : Is(i, "start") /\ Emitted[i].id = id
      BY <2>1 DEF Contract
    <3>2. i \in DOMAIN Emitted' /\ Emitted'[i] = Emitted[i]
      BY DEF Grown
    <3> QED
      BY <3>1, <3>2 DEF Is
  <2>2. CASE id \notin seen
    <3>1. PICK i \in Added : Emitted'[i].type = "start" /\ Emitted'[i].id = id
      BY <1>3, <2>2
    <3>2. i \in DOMAIN Emitted'
      BY DEF Grown, Added
    <3> QED
      BY <3>1, <3>2 DEF Is
  <2> QED
    BY <2>1, <2>2
<1>4. ASSUME NEW i \in DOMAIN Emitted', NEW j \in DOMAIN Emitted',
             Is(i, "start")', Is(j, "start")', Emitted'[i].id = Emitted'[j].id
      PROVE  i = j
  <2>1. CASE i \in DOMAIN Emitted /\ j \in DOMAIN Emitted
    BY <1>4, <2>1 DEF Contract, Is, Grown
  <2>2. CASE i \in Added /\ j \in Added
    BY <1>4, <2>2 DEF Is
  <2>3. ASSUME NEW p \in DOMAIN Emitted, NEW q \in Added, Is(p, "start")', Is(q, "start")'
        PROVE  Emitted'[p].id # Emitted'[q].id
    <3>1. Emitted'[p] = Emitted[p]
      BY DEF Grown
    <3>2. Emitted[p].id \in seen
      BY <2>3, <3>1 DEF Contract, Is
    <3> QED
      BY <2>3, <3>1, <3>2 DEF Is
  <2> QED
    BY <1>4, <2>1, <2>2, <2>3, OldOrAdded
<1>5. ASSUME NEW i \in DOMAIN Emitted', Is(i, "args")'
      PROVE  \E j \in 1 .. i - 1 : Is(j, "start")' /\ Emitted'[j].id = Emitted'[i].id
  <2>1. CASE i \in DOMAIN Emitted /\ Emitted'[i] = Emitted[i]
    <3>1. PICK j \in 1 .. i - 1 : Is(j, "start") /\ Emitted[j].id = Emitted[i].id
      BY <1>5, <2>1 DEF Contract, Is
    <3>2. j \in DOMAIN Emitted' /\ Emitted'[j] = Emitted[j]
      BY <3>1 DEF Is, Grown
    <3> QED
      BY <2>1, <3>1, <3>2 DEF Is
  <2>2. CASE i \in Added
    BY <1>5, <2>2 DEF Is
  <2> QED
    BY <2>1, <2>2, OldOrAdded
<1> QED
  BY <1>1, <1>2, <1>3, <1>4, <1>5 DEF Contract, Is

\* The end of the stream keeps the contract: it makes ends of ids seen, each once,
\* then a terminator.
LEMMA ContractEnds ==
    ASSUME Contract, Grown, reader = "open", reader' = "ended", UNCHANGED seen,
           Len(Emitted') > Len(Emitted),
           Emitted'[Len(Emitted')].type \in Terminators,
           \A i \in Added : i # Len(Emitted') =>
              Emitted'[i].type = "end" /\ Emitted'[i].id \in {NoId} \cup seen,
           \A i, j \in Added :
              i # Len(Emitted') /\ j # Len(Emitted') /\ Emitted'[i].id = Emitted'[j].id => i = j
    PROVE  Contract'
<1>1. ASSUME NEW i \in DOMAIN Emitted', Emitted'[i].type \notin {"end"} \cup Terminators
      PROVE  i \in DOMAIN Emitted /\ Emitted'[i] = Emitted[i]
  BY <1>1, OldOrAdded
<1>2. ASSUME NEW i \in DOMAIN Emitted
      PROVE  /\ i \in DOMAIN Emitted' /\ Emitted'[i] = Emitted[i] /\ i \notin Added
             /\ Emitted[i].type \notin {"end"} \cup Terminators
  <2>1. i \in DOMAIN Emitted' /\ Emitted'[i] = Emitted[i] /\ i \notin Added
    <3>1. i \in 1 .. Len(Emitted)
      BY DEF Grown
    <3>2. Len(Emitted) \in Nat /\ Len(Emitted') \in Nat /\ Len(Emitted) <= Len(Emitted')
      BY DEF Grown
    <3>3. i \in 1 .. Len(Emitted') /\ i \notin Len(Emitted) + 1 .. Len(Emitted')
      BY <3>1, <3>2
    <3> QED
      BY <3>1, <3>3 DEF Grown, Added
  <2>2. Emitted[i].type \notin {"end"} \cup Terminators
    BY DEF Contract
  <2> QED
    BY <2>1, <2>2
<1>3. Terminators = {"messageEnd", "error"}
  BY DEF Terminators
<1>4. ASSUME NEW i \in DOMAIN Emitted', Emitted'[i].type \in Terminators PROVE i = Len(Emitted')
  BY <1>2, <1>3, <1>4, OldOrAdded
<1>5. ASSUME NEW i \in DOMAIN Emitted', Is(i, "end")'
      PROVE  i \in Added /\ i # Len(Emitted')
  BY <1>2, <1>3, <1>5, OldOrAdded DEF Is
<1>6. Emitted' # <<>> /\ reader' # "open" /\ reader' # "closed"
  BY DEF Grown
<1>7. \A i \in DOMAIN Emitted' : Is(i, "start")' => Emitted'[i].id \in seen'
  BY <1>1, <1>3 DEF Contract, Is
<1>8. ASSUME NEW id \in seen' PROVE \E i \in DOMAIN Emitted' : Is(i, "start")' /\ Emitted'[i].id = id
  <2>1. PICK i \in DOMAIN Emitted : Is(i, "start") /\ Emitted[i].id = id
    BY DEF Contract
  <2> QED
    BY <2>1, <1>2 DEF Is
<1>9. \A i, j \in DOMAIN Emitted' :
          Is(i, "start")' /\ Is(j, "start")' /\ Emitted'[i].id = Emitted'[j].id => i = j
  BY <1>1, <1>3 DEF Contract, Is
<1>10. ASSUME NEW i \in DOMAIN Emitted', Is(i, "args")'
      PROVE  \E j \in 1 .. i - 1 : Is(j, "start")' /\ Emitted'[j].id = Emitted'[i].id
  <2>1. i \in DOMAIN Emitted /\ Emitted'[i] = Emitted[i]
    BY <1>1, <1>3, <1>10 DEF Is
  <2>2. PICK j \in 1 .. i - 1 : Is(j, "start") /\ Emitted[j].id = Emitted[i].id
    BY <1>10, <2>1 DEF Contract, Is
  <2> QED
    BY <2>1, <2>2, <1>2 DEF Is
<1>11. ASSUME NEW i \in DOMAIN Emitted', NEW j \in DOMAIN Emitted', Is(i, "end")', i < j
       PROVE  Emitted'[j].type \in {"end"} \cup Terminators
  <2>1. i \in Added
    BY <1>5, <1>11
  <2>2. j \in Added
    <3>1. i \in Len(Emitted) + 1 .. Len(Emitted') /\ j \in 1 .. Len(Emitted')
      BY <2>1 DEF Added, Grown
    <3>2. Len(Emitted) \in Nat /\ Len(Emitted') \in Nat /\ i < j
      BY <1>11 DEF Grown
    <3> QED
      BY <3>1, <3>2 DEF Added
  <2> QED
    BY <2>2
<1>12. \A i, j \in DOMAIN Emitted' :
          Is(i, "end")' /\ Is(j, "end")' /\ Emitted'[i].id = Emitted'[j].id => i = j
  BY <1>5
<1>13. \A i \in DOMAIN Emitted' : Is(i, "end")' => Emitted'[i].id \in {NoId} \cup seen'
  BY <1>5
<1> QED
  BY <1>4, <1>6, <1>7, <1>8, <1>9, <1>10, <1>11, <1>12, <1>13 DEF Contract, Is

\* Without new calls or arguments the order of both stays.
LEMMA OrderUnmoved ==
    ASSUME Grown, FirstOwn, InTheirOrder, UNCHANGED <<style, sent>>,
           \A i \in Added : Emitted'[i].type \notin {"start", "args"}
    PROVE  FirstOwn' /\ InTheirOrder'
<1>1. ASSUME NEW i, Is(i, "start")' \/ Is(i, "args")'
      PROVE  i \in DOMAIN Emitted /\ Emitted'[i] = Emitted[i]
  BY <1>1, OldOrAdded DEF Is
<1>2. ASSUME NEW i \in DOMAIN Emitted
      PROVE  i \in DOMAIN Emitted' /\ Emitted'[i] = Emitted[i]
  BY DEF Grown
<1>3. \A i : (Is(i, "args")' <=> Is(i, "args")) /\ (Is(i, "start")' <=> Is(i, "start"))
  BY <1>1, <1>2 DEF Is
<1>4. FirstOwn'
  <2>1. ASSUME NEW i \in DOMAIN Emitted', Is(i, "args")'
        PROVE  \/ Emitted'[i].part[1] = Emitted'[i].id
               \/ \E j \in 1 .. i - 1 : Is(j, "args")' /\ Emitted'[j].id = Emitted'[i].id
    <3>1. i \in DOMAIN Emitted /\ Emitted'[i] = Emitted[i] /\ Is(i, "args")
      BY <2>1, <1>1, <1>3
    <3>2. CASE \E j \in 1 .. i - 1 : Is(j, "args") /\ Emitted[j].id = Emitted[i].id
      BY <3>1, <3>2, <1>1, <1>3
    <3> QED
      BY <3>1, <3>2 DEF FirstOwn
  <2>2. ASSUME style = "unindexed", NEW k \in Calls, sent[k] > 0
        PROVE  \E i \in DOMAIN Emitted' : Is(i, "args")' /\ Emitted'[i].id = 1
    BY <2>2, <1>2, <1>3 DEF FirstOwn
  <2> QED
    BY <2>1, <2>2 DEF FirstOwn
<1>5. InTheirOrder'
  <2> SUFFICES ASSUME style = "indexed" PROVE InTheirOrder'
    BY DEF InTheirOrder
  <2>1. \A i \in DOMAIN Emitted' : Is(i, "args")' =>
              /\ Emitted'[i].part = <<Emitted'[i].id, Emitted'[i].part[2]>>
              /\ Emitted'[i].part[2] \in 1 .. sent[Emitted'[i].id]
    BY <1>1, <1>3 DEF InTheirOrder
  <2>2. \A i, j \in DOMAIN Emitted' :
              i < j /\ Is(i, "args")' /\ Is(j, "args")' /\ Emitted'[i].id = Emitted'[j].id =>
                  Emitted'[i].part[2] < Emitted'[j].part[2]
    BY <1>1, <1>3 DEF InTheirOrder
  <2>3. \A k \in Calls : \A n \in 1 .. sent[k] :
              \E i \in DOMAIN Emitted' : Is(i, "args")' /\ Emitted'[i].part = <<k, n>>
    BY <1>2, <1>3 DEF InTheirOrder
  <2>4. \A i, j \in DOMAIN Emitted' :
              i < j /\ Is(i, "start")' /\ Is(j, "start")' => Emitted'[i].id < Emitted'[j].id
    BY <1>1, <1>3 DEF InTheirOrder
  <2> QED
    BY <2>1, <2>2, <2>3, <2>4 DEF InTheirOrder
<1> QED
  BY <1>4, <1>5

-----------------------------------------------------------------------------
(* A chunk of a call.                                                        *)

\* A chunk of call k with arguments up to part n, in a slot that has this id.
Starts(id) == id # NoId /\ id \notin seen
Gives(n, id) == n > 0 /\ id # NoId

Chunk(k, n, id) ==
    /\ id = CASE style = "indexed" -> k [] style = "unindexed" -> 1 [] OTHER -> NoId
    /\ n \in Nat /\ sent[k] < n /\ n <= Parts[k]
    /\ sent[k] = -1 => n \in {0, 1}
    /\ sent[k] # -1 => n = sent[k] + 1
    /\ sent' = [sent EXCEPT ![k] = n]
    /\ slots' = [i \in DOMAIN slots \cup {IndexOf(k)} |->
                    IF i = IndexOf(k) THEN id ELSE slots[i]]
    /\ seen' = IF Starts(id) THEN seen \cup {id} ELSE seen

ChunkEvents(k, n, id) ==
    /\ Starts(id) =>
          /\ Len(Emitted) + 1 \in Added
          /\ Emitted'[Len(Emitted) + 1] = Event("start", id, NoPart)
    /\ Gives(n, id) =>
          Len(Emitted') \in Added /\ Emitted'[Len(Emitted')] = Event("args", id, <<k, n>>)
    /\ \A i \in Added :
          \/ /\ Starts(id) /\ i = Len(Emitted) + 1
             /\ Emitted'[i] = Event("start", id, NoPart)
          \/ /\ Gives(n, id) /\ i = Len(Emitted')
             /\ Emitted'[i] = Event("args", id, <<k, n>>)
             /\ Starts(id) => i = Len(Emitted) + 2

\* At most one event of each kind, in this order.
LEMMA AtMostTwo ==
    ASSUME NEW S, NEW u \in Seq(S), NEW v \in Seq(S), Len(u) <= 1, Len(v) <= 1
    PROVE  /\ u \o v \in Seq(S) /\ Len(u \o v) \in Nat /\ Len(u \o v) <= 2
           /\ u # <<>> => Len(u \o v) >= 1 /\ (u \o v)[1] = u[1]
           /\ v # <<>> => Len(u \o v) >= 1 /\ (u \o v)[Len(u \o v)] = v[1]
           /\ \A i \in 1 .. Len(u \o v) :
                 \/ u # <<>> /\ i = 1
                 \/ v # <<>> /\ i = Len(u \o v) /\ (u # <<>> => i = 2)
<1>1. PICK m \in {0, 1}, l \in {0, 1} :
         Len(u) = m /\ Len(v) = l /\ (u = <<>> <=> m = 0) /\ (v = <<>> <=> l = 0)
  <2>1. PICK m \in Nat, l \in Nat : Len(u) = m /\ Len(v) = l
    BY LenProperties
  <2>2. m <= 1 /\ l <= 1
    BY <2>1
  <2>3. m \in {0, 1} /\ l \in {0, 1}
    BY <2>2
  <2> QED
    BY <2>1, <2>3, EmptySeq
<1> DEFINE w == u \o v
<1>2. /\ w \in Seq(S) /\ Len(w) = m + l
      /\ \A i \in 1 .. m + l : w[i] = IF i <= m THEN u[i] ELSE v[i - m]
  BY <1>1, ConcatProperties
<1> HIDE DEF w
<1>3. /\ w \in Seq(S) /\ Len(w) \in Nat /\ Len(w) <= 2
      /\ u # <<>> => Len(w) >= 1 /\ w[1] = u[1]
      /\ v # <<>> => Len(w) >= 1 /\ w[Len(w)] = v[1]
      /\ \A i \in 1 .. Len(w) :
            \/ u # <<>> /\ i = 1
            \/ v # <<>> /\ i = Len(w) /\ (u # <<>> => i = 2)
  <2>1. CASE m = 0 /\ l = 0
    BY <1>1, <1>2, <2>1
  <2>2. CASE m = 0 /\ l = 1
    <3>1. w \in Seq(S) /\ Len(w) = 1 /\ w[1] = v[1]
      <4>1. 1 \in 1 .. m + l /\ ~(1 <= m) /\ 1 - m = 1 /\ m + l = 1
        BY <2>2
      <4> QED
        BY <1>2, <4>1
    <3>2. u = <<>> /\ v # <<>>
      BY <1>1, <2>2
    <3> QED
      BY <3>1, <3>2
  <2>3. CASE m = 1 /\ l = 0
    <3>1. w \in Seq(S) /\ Len(w) = 1 /\ w[1] = u[1]
      BY <1>2, <2>3
    <3>2. u # <<>> /\ v = <<>>
      BY <1>1, <2>3
    <3> QED
      BY <3>1, <3>2
  <2>4. CASE m = 1 /\ l = 1
    <3>1. w \in Seq(S) /\ Len(w) = 2 /\ w[1] = u[1] /\ w[2] = v[1]
      <4>1. 1 \in 1 .. m + l /\ 2 \in 1 .. m + l /\ ~(2 <= m) /\ 1 <= m /\ 2 - m = 1 /\ m + l = 2
        BY <2>4
      <4> QED
        BY <1>2, <4>1
    <3>2. u # <<>> /\ v # <<>>
      BY <1>1, <2>4
    <3> QED
      BY <3>1, <3>2
  <2> QED
    BY <2>1, <2>2, <2>3, <2>4
<1> QED
  BY <1>3 DEF w

LEMMA RecvCallIs ==
    ASSUME StreamInv, NEW k \in Calls, RecvCall(k)
    PROVE  \E n \in Nat, id \in {NoId} \cup Calls :
              /\ Chunk(k, n, id) /\ ChunkEvents(k, n, id) /\ Grown
              /\ pending' \in Seq(EventSet) /\ Len(pending') <= 2
<1>1. /\ Receiving /\ MaySend(k) /\ UNCHANGED <<style, cap, reader, chan, log, agent, message, tools>>
  BY DEF RecvCall
<1> DEFINE IdAt == SlotId(IndexOf(k), IF sent[k] = -1 /\ style # "nameless" THEN k ELSE NoId)
<1>2. PICK n \in IF sent[k] = -1 THEN {0, 1} ELSE {sent[k] + 1} :
         /\ sent' = [sent EXCEPT ![k] = n]
         /\ slots' = [i \in DOMAIN slots \cup {IndexOf(k)} |->
                         IF i = IndexOf(k) THEN IdAt ELSE slots[i]]
         /\ seen' = IF IdAt # NoId /\ IdAt \notin seen THEN seen \cup {IdAt} ELSE seen
         /\ pending' =
               (IF IdAt # NoId /\ IdAt \notin seen
                THEN <<Event("start", IdAt, NoPart)>> ELSE <<>>) \o
               (IF n > 0 /\ IdAt # NoId THEN <<Event("args", IdAt, <<k, n>>)>> ELSE <<>>)
  BY Zenon DEF RecvCall
<1>3. /\ sent[k] \in -1 .. Parts[k] /\ sent[k] \in Int /\ Parts[k] \in Nat /\ Parts[k] > 0
      /\ k \in Nat /\ k # NoId /\ sent[k] < Parts[k] /\ NoId = 0
  BY CallsAre, <1>1 DEF StreamInv, Typed, MaySend, NoId
<1>4. n \in Nat /\ sent[k] < n /\ n <= Parts[k] /\ (sent[k] = -1 => n \in {0, 1})
      /\ (sent[k] # -1 => n = sent[k] + 1)
  <2>1. CASE sent[k] = -1
    BY <2>1, <1>2, <1>3
  <2>2. CASE sent[k] # -1
    BY <2>2, <1>2, <1>3
  <2> QED
    BY <2>1, <2>2
<1>5. Slots /\ style \in {"indexed", "unindexed", "nameless"}
  BY StreamParameters DEF StreamInv, TranslatorInv, Typed
<1>6. IdAt = CASE style = "indexed" -> k [] style = "unindexed" -> 1 [] OTHER -> NoId
  <2>1. CASE style = "indexed"
    <3>1. k \in DOMAIN slots <=> sent[k] # -1
      BY <2>1, <1>5 DEF Slots
    <3>2. k \in DOMAIN slots => slots[k] = k
      BY <2>1, <1>5 DEF Slots
    <3> QED
      BY <2>1, <3>1, <3>2, <1>3 DEF IndexOf, SlotId
  <2>2. CASE style = "unindexed"
    <3>1. CASE 0 \notin DOMAIN slots
      <4>1. \A j \in Calls : sent[j] = -1
        BY <2>2, <3>1, <1>5 DEF Slots
      <4>2. \A j \in Calls : ~(j < k)
        BY <4>1, <2>2, <1>1, CallsAre DEF MaySend
      <4>3. k = 1
        BY <4>2, CallsAre
      <4> QED
        BY <2>2, <3>1, <4>1, <4>3 DEF IndexOf, SlotId
    <3>2. CASE 0 \in DOMAIN slots
      BY <2>2, <3>2, <1>3, <1>5 DEF Slots, IndexOf, SlotId
    <3> QED
      BY <3>1, <3>2
  <2>3. CASE style = "nameless"
    BY <2>3, <1>5 DEF Slots, IndexOf, SlotId
  <2> QED
    BY <2>1, <2>2, <2>3, <1>5
<1>7. IdAt \in {NoId} \cup Calls
  BY <1>6, CallsAre, <1>5
<1> HIDE DEF IdAt
<1> DEFINE a == Event("start", IdAt, NoPart)
           b == Event("args", IdAt, <<k, n>>)
<1>8. a \in EventSet /\ b \in EventSet
  BY <1>4, <1>7 DEF Event, EventSet, PartSet, Terminators
<1>9. (IdAt # NoId /\ IdAt \notin seen) = Starts(IdAt) /\ (n > 0 /\ IdAt # NoId) = Gives(n, IdAt)
      /\ Starts(IdAt) \in BOOLEAN /\ Gives(n, IdAt) \in BOOLEAN
  BY DEF Starts, Gives
<1> DEFINE u == IF Starts(IdAt) THEN <<a>> ELSE <<>>
           v == IF Gives(n, IdAt) THEN <<b>> ELSE <<>>
<1>10. pending' = u \o v
  BY <1>2, <1>9
<1> HIDE DEF a, b
<1>11. /\ u \in Seq(EventSet) /\ Len(u) <= 1 /\ (u # <<>> <=> Starts(IdAt))
       /\ u # <<>> => u[1] = a
  <2>1. <<a>> \in Seq(EventSet) /\ Len(<<a>>) = 1 /\ <<a>>[1] = a /\ <<a>> # <<>>
    BY <1>8
  <2> QED
    BY <2>1
<1>18. /\ v \in Seq(EventSet) /\ Len(v) <= 1 /\ (v # <<>> <=> Gives(n, IdAt))
       /\ v # <<>> => v[1] = b
  <2>1. <<b>> \in Seq(EventSet) /\ Len(<<b>>) = 1 /\ <<b>>[1] = b /\ <<b>> # <<>>
    BY <1>8
  <2> QED
    BY <2>1
<1> HIDE DEF u, v
<1>19. /\ pending' \in Seq(EventSet) /\ Len(pending') \in Nat /\ Len(pending') <= 2
       /\ Starts(IdAt) => Len(pending') >= 1 /\ pending'[1] = a
       /\ Gives(n, IdAt) => Len(pending') >= 1 /\ pending'[Len(pending')] = b
       /\ \A i \in 1 .. Len(pending') :
             \/ Starts(IdAt) /\ i = 1
             \/ Gives(n, IdAt) /\ i = Len(pending') /\ (Starts(IdAt) => i = 2)
  BY <1>10, <1>11, <1>18, AtMostTwo
<1>12. /\ Len(Emitted') = Len(Emitted) + Len(pending') /\ Len(pending') \in Nat
       /\ DOMAIN Emitted' = 1 .. Len(Emitted')
       /\ \A i \in 1 .. Len(Emitted) : Emitted'[i] = Emitted[i]
       /\ \A i \in 1 .. Len(pending') : Emitted'[Len(Emitted) + i] = pending'[i]
  BY <1>1, <1>19, ReceivingAdds DEF StreamInv, Receiving
<1>13. Len(Emitted) \in Nat /\ DOMAIN Emitted = 1 .. Len(Emitted)
  BY EmittedIs DEF StreamInv
<1>14. Grown
  BY <1>12, <1>13 DEF Grown
<1>15. ChunkEvents(k, n, IdAt)
  <2>1. ASSUME Starts(IdAt)
        PROVE  Len(Emitted) + 1 \in Added /\ Emitted'[Len(Emitted) + 1] = a
    BY <2>1, <1>9, <1>19, <1>12, <1>13 DEF Added
  <2>2. ASSUME Gives(n, IdAt)
        PROVE  Len(Emitted') \in Added /\ Emitted'[Len(Emitted')] = b
    BY <2>2, <1>9, <1>19, <1>12, <1>13 DEF Added
  <2>3. ASSUME NEW i \in Added
        PROVE  \/ Starts(IdAt) /\ i = Len(Emitted) + 1 /\ Emitted'[i] = a
               \/ /\ Gives(n, IdAt) /\ i = Len(Emitted') /\ Emitted'[i] = b
                  /\ Starts(IdAt) => i = Len(Emitted) + 2
    <3> DEFINE m == i - Len(Emitted)
    <3>1. m \in 1 .. Len(pending') /\ i = Len(Emitted) + m
      BY <1>12, <1>13 DEF Added
    <3>2. Emitted'[i] = pending'[m]
      BY <3>1, <1>12
    <3>3. CASE Starts(IdAt) /\ m = 1
      BY <3>1, <3>2, <3>3, <1>19
    <3>4. CASE Gives(n, IdAt) /\ m = Len(pending') /\ (Starts(IdAt) => m = 2)
      BY <3>1, <3>2, <3>4, <1>12, <1>19
    <3> QED
      BY <3>1, <3>3, <3>4, <1>19
  <2> QED
    BY <2>1, <2>2, <2>3 DEF ChunkEvents, a, b
<1>16. Chunk(k, n, IdAt)
  BY <1>2, <1>4, <1>6, <1>9 DEF Chunk
<1>17. Len(pending') <= 2
  BY <1>19
<1> QED
  BY <1>4, <1>7, <1>19, <1>14, <1>15, <1>16, <1>17

LEMMA ChunkSlots ==
    ASSUME StreamInv, NEW k \in Calls, NEW n \in Nat, NEW id \in {NoId} \cup Calls,
           MaySend(k), Chunk(k, n, id), UNCHANGED style
    PROVE  Slots'
<1> DEFINE at == IndexOf(k)
<1>1. /\ slots' = [i \in DOMAIN slots \cup {at} |-> IF i = at THEN id ELSE slots[i]]
      /\ seen' = IF Starts(id) THEN seen \cup {id} ELSE seen
      /\ Slots /\ IndexOf(k)' = IndexOf(k)
  BY DEF Chunk, StreamInv, TranslatorInv, IndexOf
<1>2. seen \subseteq seen' /\ (id # NoId => id \in seen')
  BY <1>1 DEF Starts
<1>3. /\ DOMAIN slots' = DOMAIN slots \cup {at} /\ slots'[at] = id
      /\ \A i \in DOMAIN slots : i # at => slots'[i] = slots[i]
  BY <1>1
<1>4. \A i \in DOMAIN slots' : slots'[i] # NoId => slots'[i] \in seen'
  BY <1>1, <1>2, <1>3 DEF Slots
<1>5. ASSUME style = "indexed"
      PROVE  /\ DOMAIN slots' = {j \in Calls : sent'[j] # -1}
             /\ \A j \in DOMAIN slots' : slots'[j] = j
             /\ seen' = DOMAIN slots'
             /\ \A j \in DOMAIN slots' : \A h \in 1 .. j - 1 : h \in DOMAIN slots'
  <2>1. at = k /\ id = k /\ k # NoId
    BY <1>5, CallsAre DEF Chunk, IndexOf
  <2>2. /\ DOMAIN slots = {j \in Calls : sent[j] # -1}
        /\ \A j \in DOMAIN slots : slots[j] = j
        /\ seen = DOMAIN slots
        /\ \A j \in DOMAIN slots : \A h \in 1 .. j - 1 : h \in DOMAIN slots
    BY <1>1, <1>5 DEF Slots
  <2>3. /\ sent' = [sent EXCEPT ![k] = n] /\ sent \in [Calls -> Int] /\ n # -1
    BY DEF Chunk, StreamInv, Typed
  <2>4. DOMAIN slots' = {j \in Calls : sent'[j] # -1}
    BY <1>3, <2>1, <2>2, <2>3
  <2>5. \A j \in DOMAIN slots' : slots'[j] = j
    BY <1>3, <2>1, <2>2
  <2>6. seen' = DOMAIN slots'
    BY <1>1, <1>3, <2>1, <2>2 DEF Starts
  <2>7. ASSUME NEW h \in 1 .. k - 1 PROVE h \in DOMAIN slots'
    <3>1. h \in Calls /\ h < k
      BY CallsAre
    <3>2. CASE sent[k] = -1
      BY <3>1, <3>2, <1>3, <2>2 DEF MaySend
    <3>3. CASE sent[k] # -1
      BY <3>3, <1>3, <2>2
    <3> QED
      BY <3>2, <3>3
  <2> QED
    BY <1>3, <2>1, <2>2, <2>4, <2>5, <2>6, <2>7
<1>6. ASSUME style # "indexed"
      PROVE  /\ DOMAIN slots' = {0}
             /\ slots'[0] = IF style = "nameless" THEN NoId ELSE 1
  <2>1. at = 0 /\ DOMAIN slots \subseteq {0}
    BY <1>1, <1>6 DEF IndexOf, Slots
  <2>2. id = IF style = "nameless" THEN NoId ELSE 1
    BY <1>6, StreamParameters DEF Chunk, StreamInv, Typed
  <2> QED
    BY <1>3, <2>1, <2>2
<1>7. sent'[k] # -1
  BY DEF Chunk, StreamInv, Typed
<1> QED
  BY <1>4, <1>5, <1>6, <1>7 DEF Slots

LEMMA ChunkContract ==
    ASSUME StreamInv, NEW k \in Calls, NEW n \in Nat, NEW id \in {NoId} \cup Calls,
           Chunk(k, n, id), ChunkEvents(k, n, id), Grown, reader = "open", reader' = "open"
    PROVE  Contract'
<1>1. Contract
  BY DEF StreamInv, TranslatorInv
<1>2. \A i \in Added : Emitted'[i].type \in {"text", "start", "args"}
  BY DEF ChunkEvents, Event
<1>3. seen \subseteq seen' /\ (Starts(id) => id \in seen' /\ id \notin seen)
      /\ \A j \in seen' \ seen : Starts(id) /\ j = id
  BY DEF Chunk, Starts
<1>4. ASSUME NEW i \in Added, Emitted'[i].type = "start"
      PROVE  i = Len(Emitted) + 1 /\ Emitted'[i].id \notin seen /\ Emitted'[i].id \in seen'
  <2>1. Starts(id) /\ i = Len(Emitted) + 1 /\ Emitted'[i] = Event("start", id, NoPart)
    BY <1>4 DEF ChunkEvents, Event
  <2> QED
    BY <2>1, <1>3 DEF Event
<1>5. ASSUME NEW i \in Added, Emitted'[i].type = "args"
      PROVE  \E j \in 1 .. i - 1 : j \in DOMAIN Emitted' /\ Emitted'[j].type = "start"
                                     /\ Emitted'[j].id = Emitted'[i].id
  <2>1. /\ Gives(n, id) /\ Emitted'[i] = Event("args", id, <<k, n>>)
        /\ Starts(id) => i = Len(Emitted) + 2
    BY <1>5 DEF ChunkEvents, Event
  <2>2. /\ Len(Emitted) \in Nat /\ i \in Len(Emitted) + 1 .. Len(Emitted') /\ Len(Emitted') \in Nat
        /\ DOMAIN Emitted = 1 .. Len(Emitted) /\ DOMAIN Emitted' = 1 .. Len(Emitted')
    BY DEF Grown, Added
  <2>3. CASE Starts(id)
    <3>1. Emitted'[Len(Emitted) + 1] = Event("start", id, NoPart)
      BY <2>3 DEF ChunkEvents
    <3>2. Len(Emitted) + 1 \in 1 .. i - 1 /\ Len(Emitted) + 1 \in DOMAIN Emitted'
      BY <2>1, <2>2, <2>3
    <3> QED
      BY <2>1, <3>1, <3>2 DEF Event
  <2>4. CASE ~Starts(id)
    <3>1. id \in seen
      BY <2>1, <2>4 DEF Starts, Gives
    <3>2. PICK j \in DOMAIN Emitted : Is(j, "start") /\ Emitted[j].id = id
      BY <3>1, <1>1 DEF Contract
    <3>3. j \in DOMAIN Emitted' /\ Emitted'[j] = Emitted[j]
      BY DEF Grown
    <3>4. j \in 1 .. i - 1
      BY <2>2
    <3> QED
      BY <2>1, <3>2, <3>3, <3>4 DEF Event, Is
  <2> QED
    BY <2>3, <2>4
<1>6. ASSUME NEW j \in seen' \ seen
      PROVE  \E i \in Added : Emitted'[i].type = "start" /\ Emitted'[i].id = j
  BY <1>3 DEF ChunkEvents, Event
<1> QED
  BY <1>1, <1>2, <1>3, <1>4, <1>5, <1>6, ContractGrows

\* The events of a chunk keep the order of calls and arguments.
LEMMA ChunkFirstOwn ==
    ASSUME StreamInv, NEW k \in Calls, NEW n \in Nat, NEW id \in {NoId} \cup Calls,
           MaySend(k), Chunk(k, n, id), ChunkEvents(k, n, id), Grown, UNCHANGED style
    PROVE  FirstOwn'
<1>1. FirstOwn /\ style \in {"indexed", "unindexed", "nameless"}
  BY StreamParameters DEF StreamInv, TranslatorInv, Typed
<1>2. \A i : Is(i, "args") => Is(i, "args")' /\ Emitted'[i] = Emitted[i]
  BY DEF Grown, Is
<1>3. ASSUME NEW i \in DOMAIN Emitted', Is(i, "args")'
      PROVE  \/ Emitted'[i].part[1] = Emitted'[i].id
             \/ \E j \in 1 .. i - 1 : Is(j, "args")' /\ Emitted'[j].id = Emitted'[i].id
  <2>1. CASE i \in DOMAIN Emitted /\ Emitted'[i] = Emitted[i]
    <3>1. \/ Emitted[i].part[1] = Emitted[i].id
          \/ \E j \in 1 .. i - 1 : Is(j, "args") /\ Emitted[j].id = Emitted[i].id
      BY <1>1, <1>3, <2>1 DEF FirstOwn, Is
    <3> QED
      BY <2>1, <3>1, <1>2
  <2>2. CASE i \in Added /\ i > Len(Emitted)
    <3>1. Gives(n, id) /\ Emitted'[i] = Event("args", id, <<k, n>>)
      BY <1>3, <2>2 DEF ChunkEvents, Event, Is
    <3>2. CASE id = k
      BY <3>1, <3>2 DEF Event
    <3>3. CASE id # k
      <4>1. style = "unindexed" /\ id = 1
        BY <3>1, <3>3, <1>1 DEF Chunk, Gives
      <4>2. 1 \in Calls /\ 1 < k
        BY <3>3, <4>1, CallsAre
      <4>3. sent[1] > 0
        BY <4>1, <4>2, CallsAre DEF MaySend
      <4>4. PICK j \in DOMAIN Emitted : Is(j, "args") /\ Emitted[j].id = 1
        BY <1>1, <4>1, <4>2, <4>3 DEF FirstOwn
      <4>5. j \in 1 .. i - 1
        <5>1. j \in 1 .. Len(Emitted) /\ i \in Int /\ Len(Emitted) \in Nat
          BY DEF Grown
        <5> QED
          BY <5>1, <2>2
      <4> QED
        BY <3>1, <4>1, <4>4, <4>5, <1>2 DEF Event
    <3> QED
      BY <3>2, <3>3
  <2> QED
    BY <2>1, <2>2, OldOrAdded
<1>4. ASSUME style = "unindexed", NEW j \in Calls, sent'[j] > 0
      PROVE  \E i \in DOMAIN Emitted' : Is(i, "args")' /\ Emitted'[i].id = 1
  <2>1. CASE sent[j] > 0
    <3>1. PICK i \in DOMAIN Emitted : Is(i, "args") /\ Emitted[i].id = 1
      BY <1>1, <1>4, <2>1 DEF FirstOwn
    <3> QED
      BY <3>1, <1>2 DEF Is
  <2>2. CASE ~(sent[j] > 0)
    <3>1. j = k /\ n > 0
      BY <1>4, <2>2 DEF Chunk, StreamInv, Typed
    <3>2. id = 1 /\ Gives(n, id)
      BY <3>1, <1>4 DEF Chunk, Gives, NoId
    <3> DEFINE e == Len(Emitted')
    <3>3. e \in Added /\ Emitted'[e] = Event("args", 1, <<k, n>>)
      BY <3>2 DEF ChunkEvents
    <3>4. e \in DOMAIN Emitted'
      BY <3>3 DEF Grown, Added
    <3> QED
      BY <3>3, <3>4 DEF Event, Is
  <2> QED
    BY <2>1, <2>2
<1> QED
  BY <1>3, <1>4 DEF FirstOwn

LEMMA ChunkInOrder ==
    ASSUME StreamInv, NEW k \in Calls, NEW n \in Nat, NEW id \in {NoId} \cup Calls,
           Chunk(k, n, id), ChunkEvents(k, n, id), Grown, UNCHANGED style
    PROVE  InTheirOrder'
<1> SUFFICES ASSUME style = "indexed" PROVE InTheirOrder'
  BY DEF InTheirOrder
<1>1. id = k /\ k # NoId /\ k \in Nat
  BY CallsAre DEF Chunk
<1>2. /\ sent \in [Calls -> Int] /\ sent[k] \in Int /\ sent[k] < n
      /\ sent[k] >= -1 /\ (sent[k] = -1 => n \in {0, 1}) /\ (sent[k] # -1 => n = sent[k] + 1)
      /\ sent'[k] = n /\ \A j \in Calls : j # k => sent'[j] = sent[j]
  <2>1. Parts[k] \in Nat
    BY CallsAre
  <2> QED
    BY <2>1 DEF Chunk, StreamInv, Typed
<1>3. Contract /\ InTheirOrder /\ Slots /\ seen \subseteq Calls
  BY DEF StreamInv, TranslatorInv, Typed
<1>4. /\ Len(Emitted) \in Nat /\ Len(Emitted') \in Nat
      /\ DOMAIN Emitted = 1 .. Len(Emitted) /\ DOMAIN Emitted' = 1 .. Len(Emitted')
  BY DEF Grown
<1>5. ASSUME NEW i \in DOMAIN Emitted', Is(i, "args")', i \in DOMAIN Emitted, Emitted'[i] = Emitted[i]
      PROVE  /\ Is(i, "args") /\ Emitted[i].id \in Calls
             /\ Emitted[i].part = <<Emitted[i].id, Emitted[i].part[2]>>
             /\ Emitted[i].part[2] \in 1 .. sent[Emitted[i].id]
  <2>1. Is(i, "args")
    BY <1>5 DEF Is
  <2>2. Emitted[i].id \in seen
    BY <2>1, <1>3, <1>5 DEF Contract, Is
  <2> QED
    BY <2>1, <2>2, <1>3, <1>5 DEF InTheirOrder
<1>6. ASSUME NEW i \in Added, Is(i, "args")'
      PROVE  Emitted'[i] = Event("args", k, <<k, n>>) /\ n > 0 /\ i = Len(Emitted')
  BY <1>1, <1>6 DEF ChunkEvents, Event, Is, Gives
<1>7. ASSUME NEW i \in Added, Is(i, "start")'
      PROVE  Emitted'[i] = Event("start", k, NoPart) /\ Starts(k) /\ i = Len(Emitted) + 1
  BY <1>1, <1>7 DEF ChunkEvents, Event, Is
<1>8. ASSUME NEW i \in DOMAIN Emitted', Is(i, "args")'
      PROVE  /\ Emitted'[i].part = <<Emitted'[i].id, Emitted'[i].part[2]>>
             /\ Emitted'[i].part[2] \in 1 .. sent'[Emitted'[i].id]
  <2>1. CASE i \in DOMAIN Emitted /\ Emitted'[i] = Emitted[i]
    <3> DEFINE c == Emitted[i].id
               m == Emitted[i].part[2]
    <3>1. c \in Calls /\ Emitted[i].part = <<c, m>> /\ m \in 1 .. sent[c]
      BY <1>5, <1>8, <2>1
    <3>2. sent[c] \in Int /\ sent'[c] \in Int /\ sent[c] <= sent'[c]
      BY <3>1, <1>2
    <3> HIDE DEF c, m
    <3>3. m \in 1 .. sent'[c]
      BY <3>1, <3>2
    <3> QED
      BY <2>1, <3>1, <3>3 DEF c, m
  <2>2. CASE i \in Added
    <3>1. Emitted'[i] = Event("args", k, <<k, n>>) /\ n > 0
      BY <1>6, <1>8, <2>2
    <3>2. n \in 1 .. sent'[k]
      BY <3>1, <1>2
    <3> QED
      BY <3>1, <3>2 DEF Event
  <2> QED
    BY <2>1, <2>2, OldOrAdded
<1>9. ASSUME NEW i \in DOMAIN Emitted', NEW j \in DOMAIN Emitted', i < j,
             Is(i, "args")', Is(j, "args")', Emitted'[i].id = Emitted'[j].id
      PROVE  Emitted'[i].part[2] < Emitted'[j].part[2]
  <2>1. CASE j \in Added
    <3>1. Emitted'[j] = Event("args", k, <<k, n>>) /\ j = Len(Emitted')
      BY <1>6, <1>9, <2>1
    <3>2. i \in DOMAIN Emitted /\ Emitted'[i] = Emitted[i]
      <4>1. i \notin Added
        BY <1>6, <1>9, <3>1
      <4> QED
        BY <4>1, OldOrAdded
    <3>3. Emitted[i].id = k
      BY <3>1, <3>2, <1>9 DEF Event
    <3>4. Emitted[i].part[2] \in 1 .. sent[k]
      BY <1>5, <1>9, <3>2, <3>3
    <3>5. Emitted[i].part[2] < n
      BY <3>4, <1>2
    <3> QED
      BY <3>1, <3>2, <3>5 DEF Event
  <2>2. CASE j \in DOMAIN Emitted
    <3>1. i \in DOMAIN Emitted
      BY <2>2, <1>4, <1>9
    <3> QED
      BY <3>1, <2>2, <1>3, <1>9 DEF InTheirOrder, Is, Grown
  <2> QED
    BY <2>1, <2>2, OldOrAdded
<1>10. ASSUME NEW c \in Calls, NEW m \in 1 .. sent'[c]
       PROVE  \E i \in DOMAIN Emitted' : Is(i, "args")' /\ Emitted'[i].part = <<c, m>>
  <2>1. CASE c = k /\ m = n
    <3>1. n > 0
      BY <2>1, <1>2
    <3> DEFINE e == Len(Emitted')
    <3>2. e \in Added /\ Emitted'[e] = Event("args", k, <<k, n>>)
      BY <1>1, <3>1 DEF ChunkEvents, Gives
    <3>3. e \in DOMAIN Emitted'
      BY <3>2, <1>4 DEF Added
    <3> QED
      BY <2>1, <3>2, <3>3 DEF Event, Is
  <2>2. CASE c # k \/ m # n
    <3>1. m \in 1 .. sent[c]
      <4>1. CASE c # k
        BY <4>1, <1>2
      <4>2. CASE c = k
        BY <4>2, <2>2, <1>2
      <4> QED
        BY <4>1, <4>2
    <3>2. PICK i \in DOMAIN Emitted : Is(i, "args") /\ Emitted[i].part = <<c, m>>
      BY <3>1, <1>3 DEF InTheirOrder
    <3>3. i \in DOMAIN Emitted' /\ Emitted'[i] = Emitted[i]
      BY DEF Grown
    <3> QED
      BY <3>2, <3>3 DEF Is
  <2> QED
    BY <2>1, <2>2
<1>11. ASSUME NEW i \in DOMAIN Emitted', NEW j \in DOMAIN Emitted', i < j,
              Is(i, "start")', Is(j, "start")'
       PROVE  Emitted'[i].id < Emitted'[j].id
  <2>1. CASE j \in Added
    <3>1. Emitted'[j] = Event("start", k, NoPart) /\ Starts(k) /\ j = Len(Emitted) + 1
      BY <1>7, <1>11, <2>1
    <3>2. i \in DOMAIN Emitted /\ Emitted'[i] = Emitted[i]
      <4>1. i \notin Added
        BY <1>7, <1>11, <3>1
      <4> QED
        BY <4>1, OldOrAdded
    <3>3. Is(i, "start")
      BY <3>2, <1>11 DEF Is
    <3>4. Emitted[i].id \in seen
      BY <3>2, <3>3, <1>3 DEF Contract
    <3> DEFINE c == Emitted[i].id
    <3>5. k \notin DOMAIN slots /\ c \in DOMAIN slots /\ c \in Calls
      BY <3>1, <3>4, <1>3 DEF Slots, Starts
    <3>6. \A h \in 1 .. c - 1 : h \in DOMAIN slots
      BY <3>5, <1>3 DEF Slots
    <3>7. k \in 1 .. Len(Parts) /\ c \in 1 .. Len(Parts) /\ Len(Parts) \in Nat
      BY <3>5, CallsAre
    <3> HIDE DEF c
    <3>8. c < k
      BY <3>5, <3>6, <3>7
    <3> QED
      BY <3>1, <3>2, <3>8 DEF Event, c
  <2>2. CASE j \in DOMAIN Emitted
    <3>1. i \in DOMAIN Emitted
      BY <2>2, <1>4, <1>11
    <3> QED
      BY <3>1, <2>2, <1>3, <1>11 DEF InTheirOrder, Is, Grown
  <2> QED
    BY <2>1, <2>2, OldOrAdded
<1> QED
  BY <1>8, <1>9, <1>10, <1>11 DEF InTheirOrder

\* Nothing a chunk adds disturbs what Run has.
LEMMA ChunkRun ==
    ASSUME StreamInv, NEW k \in Calls, NEW n \in Nat, NEW id \in {NoId} \cup Calls,
           Chunk(k, n, id), ChunkEvents(k, n, id), Grown, Taken' = Taken, reader = "open",
           UNCHANGED <<style, agent, message, tools>>
    PROVE  RunInv'
<1>1. Typed /\ Channel /\ RunInv /\ Contract /\ sent \in [Calls -> Int]
  BY DEF StreamInv, TranslatorInv, Typed
<1>2. /\ sent' \in [Calls -> Int] /\ sent[k] < n /\ \A j \in Calls : sent[j] <= sent'[j]
  <2>1. sent' = [sent EXCEPT ![k] = n] /\ sent[k] < n
    BY DEF Chunk
  <2>2. \A j \in Calls : sent[j] \in Int
    BY <1>1
  <2> QED
    BY <1>1, <2>1, <2>2
<1>3. ASSUME style = "indexed", agent = "reading", NEW i \in Added
      PROVE  /\ Emitted'[i].type = "start" => ~(Emitted'[i].id <= Len(order))
             /\ Emitted'[i].type = "args" /\ Emitted'[i].id \in DOMAIN args =>
                   ~(Emitted'[i].part[2] <= Len(args[Emitted'[i].id]))
  <2>1. id = k /\ k \in Nat /\ k > 0
    BY <1>3, CallsAre DEF Chunk
  <2>2. ASSUME Emitted'[i].type = "start" PROVE ~(Emitted'[i].id <= Len(order))
    <3>1. Starts(k) /\ Emitted'[i].id = k
      BY <2>1, <2>2 DEF ChunkEvents, Event
    <3>2. ASSUME k <= Len(order) PROVE FALSE
      <4>1. k \in DOMAIN order
        <5>1. Len(order) \in Nat /\ DOMAIN order = 1 .. Len(order)
          BY <1>1, LenProperties DEF Typed
        <5> QED
          BY <5>1, <3>2, <2>1
      <4>2. order[k] = k
        BY <4>1, <1>1, <1>3 DEF RunInv, PartialInOrder
      <4>3. k \in DOMAIN args
        BY <4>1, <4>2, <1>1 DEF Typed
      <4>4. PICK j \in 1 .. Taken : Is(j, "start") /\ Emitted[j].id = k
        BY <4>3, <1>1, <1>3 DEF RunInv, Partial
      <4>5. k \in seen
        BY <4>4, <1>1 DEF Contract, Is
      <4> QED
        BY <4>5, <3>1 DEF Starts
    <3> QED
      BY <3>1, <3>2
  <2>3. ASSUME Emitted'[i].type = "args", Emitted'[i].id \in DOMAIN args
        PROVE  ~(Emitted'[i].part[2] <= Len(args[Emitted'[i].id]))
    <3>1. Emitted'[i] = Event("args", k, <<k, n>>)
      BY <2>1, <2>3 DEF ChunkEvents, Event
    <3>2. k \in DOMAIN args /\ Len(args[k]) <= sent[k]
      BY <3>1, <2>3, <1>1, <1>3 DEF RunInv, PartialInOrder, Event
    <3>3. Len(args[k]) \in Nat /\ sent[k] \in Int
      BY <3>2, <1>1, LenProperties DEF Typed
    <3>4. ~(n <= Len(args[k]))
      BY <3>2, <3>3, <1>2
    <3> QED
      BY <3>1, <3>4 DEF Event
  <2> QED
    BY <2>2, <2>3
<1>4. /\ Len(Emitted) <= Len(Emitted') /\ Len(Emitted') \in Nat
      /\ DOMAIN Emitted' = 1 .. Len(Emitted')
      /\ \A i \in 1 .. Len(Emitted) : Emitted'[i] = Emitted[i]
  BY DEF Grown
<1> QED
  BY <1>1, <1>2, <1>3, <1>4, RunUnmoved DEF Added

LEMMA RecvCallKeeps ==
    ASSUME StreamInv, NEW k \in Calls, RecvCall(k) PROVE StreamInv'
<1>1. PICK n \in Nat, id \in {NoId} \cup Calls :
         /\ Chunk(k, n, id) /\ ChunkEvents(k, n, id) /\ Grown
         /\ pending' \in Seq(EventSet) /\ Len(pending') <= 2
  BY RecvCallIs
<1>2. /\ MaySend(k) /\ reader = "open" /\ reader' = "open" /\ Taken' = Taken
      /\ UNCHANGED <<style, cap, chan, log, agent, message, tools>>
  BY DEF RecvCall, Receiving, Taken
<1>3. TranslatorInv'
  BY <1>1, <1>2, ChunkSlots, ChunkContract, ChunkFirstOwn, ChunkInOrder DEF TranslatorInv
<1>4. RunInv'
  BY <1>1, <1>2, ChunkRun
<1>5. Channel'
  BY <1>2 DEF StreamInv, Channel
<1>6. Typed'
  <2>1. Typed
    BY DEF StreamInv
  <2>2. sent' \in [Calls -> Int] /\ \A j \in Calls : sent'[j] \in -1 .. Parts[j]
    <3>1. sent' = [sent EXCEPT ![k] = n] /\ n <= Parts[k]
      BY <1>1 DEF Chunk
    <3>2. n \in -1 .. Parts[k]
      BY <3>1, CallsAre
    <3> QED
      BY <2>1, <3>1, <3>2 DEF Typed
  <2>3. seen' \subseteq Calls
    BY <1>1, <2>1 DEF Chunk, Typed, Starts
  <2>4. Len(pending') <= Cardinality(Calls) + 1
    <3>1. Cardinality(Calls) \in Nat /\ Cardinality(Calls) >= 1
      BY CallsAre
    <3>2. Len(pending') \in Nat
      BY <1>1, LenProperties
    <3> QED
      BY <1>1, <3>1, <3>2
  <2> QED
    BY <1>1, <1>2, <2>1, <2>2, <2>3, <2>4 DEF Typed, message
<1> QED
  BY <1>3, <1>4, <1>5, <1>6 DEF StreamInv

-----------------------------------------------------------------------------
(* Text, the end of the stream, and sending.                                 *)

\* What is not a call leaves what Run has.
LEMMA OthersRun ==
    ASSUME StreamInv, Grown, Taken' = Taken, reader = "open",
           \A i \in Added : Emitted'[i].type \notin {"start", "args"},
           UNCHANGED <<style, sent, agent, message, tools>>
    PROVE  RunInv'
<1>1. Typed /\ Channel /\ RunInv /\ sent \in [Calls -> Int]
  BY DEF StreamInv, Typed
<1>2. sent' \in [Calls -> Int] /\ \A k \in Calls : sent[k] <= sent'[k]
  BY <1>1
<1>3. /\ Len(Emitted) <= Len(Emitted') /\ Len(Emitted') \in Nat
      /\ DOMAIN Emitted' = 1 .. Len(Emitted')
      /\ \A i \in 1 .. Len(Emitted) : Emitted'[i] = Emitted[i]
  BY DEF Grown
<1> QED
  BY <1>1, <1>2, <1>3, RunUnmoved DEF Added

LEMMA NoMoreThanOne ==
    ASSUME NEW e \in EventSet
    PROVE  <<e>> \in Seq(EventSet) /\ Len(<<e>>) = 1 /\ <<e>>[1] = e
           /\ Len(<<e>>) <= Cardinality(Calls) + 1
<1>1. Cardinality(Calls) \in Nat
  BY CallsAre
<1> QED
  BY <1>1

LEMMA OneAdded ==
    ASSUME Typed, pending = <<>>, UNCHANGED log, NEW e \in EventSet, pending' = <<e>>
    PROVE  /\ Grown /\ Added = {Len(Emitted')} /\ Emitted'[Len(Emitted')] = e
           /\ Len(Emitted') > Len(Emitted)
<1>1. pending' \in Seq(EventSet) /\ Len(pending') = 1 /\ pending'[1] = e
  BY NoMoreThanOne
<1>2. /\ Len(Emitted') = Len(Emitted) + 1 /\ DOMAIN Emitted' = 1 .. Len(Emitted')
      /\ \A i \in 1 .. Len(Emitted) : Emitted'[i] = Emitted[i]
      /\ \A i \in 1 .. 1 : Emitted'[Len(Emitted) + i] = pending'[i]
  BY <1>1, ReceivingAdds
<1>3. Len(Emitted) \in Nat /\ DOMAIN Emitted = 1 .. Len(Emitted)
  BY EmittedIs
<1>4. Emitted'[Len(Emitted')] = e
  BY <1>1, <1>2
<1>5. Len(Emitted') > Len(Emitted) /\ Added = {Len(Emitted')}
  BY <1>2, <1>3 DEF Added
<1> QED
  BY <1>2, <1>3, <1>4, <1>5 DEF Grown

LEMMA RecvTextKeeps == ASSUME StreamInv, RecvText PROVE StreamInv'
<1> DEFINE e == Event("text", NoId, NoPart)
<1>1. /\ pending = <<>> /\ reader = "open" /\ pending' = <<e>> /\ Taken' = Taken
      /\ UNCHANGED <<style, cap, sent, reader, slots, seen, chan, log, agent, message, tools>>
  BY DEF RecvText, Receiving, provider, Taken
<1>2. e \in EventSet
  BY DEF EventSet, PartSet, Event, Terminators
<1>3. Typed /\ TranslatorInv
  BY DEF StreamInv
<1>4. /\ Grown /\ \A i \in Added : Emitted'[i].type = "text"
  BY <1>1, <1>2, <1>3, OneAdded DEF Event
<1>5. Contract'
  BY <1>1, <1>3, <1>4, ContractGrows DEF TranslatorInv
<1>6. FirstOwn' /\ InTheirOrder'
  BY <1>1, <1>3, <1>4, OrderUnmoved DEF TranslatorInv
<1>7. Slots'
  BY <1>1, <1>3 DEF TranslatorInv, Slots
<1>8. RunInv'
  BY <1>1, <1>4, OthersRun
<1>9. Channel'
  BY <1>1 DEF StreamInv, Channel
<1>10. Typed'
  BY <1>1, <1>2, <1>3, NoMoreThanOne DEF Typed, message
<1> QED
  BY <1>5, <1>6, <1>7, <1>8, <1>9, <1>10 DEF StreamInv, TranslatorInv

\* What the end of the stream, good or bad, adds: ends of calls, then a terminator.
Ends ==
    /\ Grown /\ Len(Emitted') > Len(Emitted)
    /\ Emitted'[Len(Emitted')].type \in Terminators
    /\ \A i \in Added : i # Len(Emitted') =>
          Emitted'[i].type = "end" /\ Emitted'[i].id \in {NoId} \cup seen
    /\ \A i, j \in Added :
          i # Len(Emitted') /\ j # Len(Emitted') /\ Emitted'[i].id = Emitted'[j].id => i = j

LEMMA EndKeeps ==
    ASSUME StreamInv, Ends, reader = "open", reader' = "ended",
           pending' \in Seq(EventSet), Len(pending') <= Cardinality(Calls) + 1,
           UNCHANGED <<style, cap, sent, slots, seen, chan, log, agent, message, tools>>
    PROVE  StreamInv'
<1>1. Typed /\ TranslatorInv
  BY DEF StreamInv
<1>2. \A i \in Added : Emitted'[i].type \notin {"start", "args"}
  BY DEF Ends, Terminators
<1>3. Taken' = Taken
  BY DEF Taken
<1>4. Contract'
  BY <1>1, ContractEnds DEF TranslatorInv, Ends
<1>5. FirstOwn' /\ InTheirOrder'
  BY <1>1, <1>2, OrderUnmoved DEF TranslatorInv, Ends
<1>6. Slots'
  BY <1>1 DEF TranslatorInv, Slots
<1>7. RunInv'
  BY <1>2, <1>3, OthersRun DEF Ends
<1>8. Channel'
  BY DEF StreamInv, Channel, Taken
<1>9. Typed'
  BY <1>1 DEF Typed, message
<1> QED
  BY <1>4, <1>5, <1>6, <1>7, <1>8, <1>9 DEF StreamInv, TranslatorInv

LEMMA RecvErrorKeeps == ASSUME StreamInv, RecvError PROVE StreamInv'
<1> DEFINE e == Event("error", NoId, NoPart)
<1>1. /\ pending = <<>> /\ reader = "open" /\ reader' = "ended" /\ pending' = <<e>>
      /\ UNCHANGED <<style, cap, sent, slots, seen, chan, log, agent, message, tools>>
  BY DEF RecvError, Receiving, provider
<1>2. e \in EventSet
  BY DEF EventSet, PartSet, Event, Terminators
<1>3. Typed
  BY DEF StreamInv
<1>4. /\ Grown /\ Added = {Len(Emitted')} /\ Emitted'[Len(Emitted')] = e
      /\ Len(Emitted') > Len(Emitted)
  BY <1>1, <1>2, <1>3, OneAdded
<1>5. Ends
  BY <1>4 DEF Ends, Event, Terminators
<1> QED
  BY <1>1, <1>2, <1>5, NoMoreThanOne, EndKeeps

\* There are no more slots than calls, and one end at most for each slot.
EndEvents == {Event("end", slots[i], NoPart) : i \in DOMAIN slots}

LEMMA SlotsAreFew ==
    ASSUME StreamInv
    PROVE  IsFiniteSet(DOMAIN slots) /\ Cardinality(DOMAIN slots) <= Cardinality(Calls)
<1>1. Slots /\ IsFiniteSet(Calls)
  BY CallsAre DEF StreamInv, TranslatorInv
<1>2. CASE style = "indexed"
  <2>1. DOMAIN slots \in SUBSET Calls
    BY <1>1, <1>2 DEF Slots
  <2> QED
    BY <2>1, <1>1, FS_Subset
<1>3. CASE style # "indexed" /\ DOMAIN slots = {}
  <2>1. IsFiniteSet({}) /\ Cardinality({}) = 0
    BY FS_EmptySet
  <2> QED
    BY <1>3, <2>1, CallsAre
<1>4. CASE style # "indexed" /\ DOMAIN slots # {}
  <2>1. DOMAIN slots = {0}
    BY <1>1, <1>4 DEF Slots
  <2>2. Calls # {}
    BY <1>1, <1>4 DEF Slots
  <2>3. Cardinality(Calls) >= 1
    BY <2>2, CallsAre
  <2>4. IsFiniteSet({0}) /\ Cardinality({0}) = 1
    BY FS_Singleton
  <2> QED
    BY <2>1, <2>3, <2>4
<1> QED
  BY <1>2, <1>3, <1>4

LEMMA EndsAreFew ==
    ASSUME StreamInv, NEW ends \in SetToSeqs(EndEvents)
    PROVE  /\ ends \in Seq(EventSet) /\ Len(ends) \in Nat /\ Len(ends) <= Cardinality(Calls)
           /\ \A i \in 1 .. Len(ends) : ends[i].type = "end" /\ ends[i].id \in {NoId} \cup seen
           /\ \A i, j \in 1 .. Len(ends) : ends[i].id = ends[j].id => i = j
<1>1. IsFiniteSet(DOMAIN slots) /\ Cardinality(DOMAIN slots) <= Cardinality(Calls)
  BY SlotsAreFew
<1>2. IsFiniteSet(EndEvents) /\ Cardinality(EndEvents) <= Cardinality(DOMAIN slots)
  <2> DEFINE f == [i \in DOMAIN slots |-> Event("end", slots[i], NoPart)]
  <2>1. f \in Surjection(DOMAIN slots, EndEvents)
    BY DEF Surjection, EndEvents
  <2> HIDE DEF f
  <2> QED
    BY <2>1, <1>1, FS_Surjection
<1> DEFINE c == Cardinality(EndEvents)
<1>3. c \in Nat /\ c <= Cardinality(Calls)
  BY <1>1, <1>2, FS_CardinalityType, CallsAre
<1>4. ends \in [1 .. c -> EndEvents] /\ \A i, j \in 1 .. c : i # j => ends[i] # ends[j]
  BY DEF SetToSeqs
<1>5. \A e \in EndEvents : /\ e \in EventSet /\ e.type = "end" /\ e.id \in {NoId} \cup seen
                           /\ e = Event("end", e.id, NoPart)
  <2>1. ASSUME NEW i \in DOMAIN slots PROVE slots[i] \in {NoId} \cup seen /\ seen \subseteq Calls
    BY DEF StreamInv, TranslatorInv, Slots, Typed
  <2> QED
    BY <2>1 DEF EndEvents, Event, EventSet, PartSet, Terminators
<1>6. ends \in Seq(EventSet) /\ Len(ends) = c
  <2>1. ends \in [1 .. c -> EventSet]
    BY <1>4, <1>5
  <2> QED
    BY <2>1, <1>3
<1>7. ASSUME NEW i \in 1 .. c, NEW j \in 1 .. c, ends[i].id = ends[j].id PROVE i = j
  <2>1. ends[i] = ends[j]
    BY <1>4, <1>5, <1>7
  <2> QED
    BY <2>1, <1>4
<1> QED
  BY <1>3, <1>4, <1>5, <1>6, <1>7

LEMMA RecvEOFKeeps == ASSUME StreamInv, RecvEOF PROVE StreamInv'
<1> DEFINE e == Event("messageEnd", NoId, NoPart)
<1>1. PICK ends \in SetToSeqs(EndEvents) : pending' = Append(ends, e)
  BY DEF RecvEOF, EndEvents
<1>2. /\ pending = <<>> /\ reader = "open" /\ reader' = "ended"
      /\ UNCHANGED <<style, cap, sent, slots, seen, chan, log, agent, message, tools>>
  BY DEF RecvEOF, Receiving, provider
<1>3. e \in EventSet /\ e.type \in Terminators
  BY DEF EventSet, PartSet, Event, Terminators
<1>4. /\ ends \in Seq(EventSet) /\ Len(ends) \in Nat /\ Len(ends) <= Cardinality(Calls)
      /\ \A i \in 1 .. Len(ends) : ends[i].type = "end" /\ ends[i].id \in {NoId} \cup seen
      /\ \A i, j \in 1 .. Len(ends) : ends[i].id = ends[j].id => i = j
  BY EndsAreFew
<1> HIDE DEF e
<1> DEFINE m == Len(ends)
<1>5. /\ pending' \in Seq(EventSet) /\ Len(pending') = m + 1 /\ pending'[m + 1] = e
      /\ \A i \in 1 .. m : pending'[i] = ends[i]
  BY <1>1, <1>3, <1>4, AppendProperties
<1>6. /\ Len(Emitted') = Len(Emitted) + (m + 1) /\ DOMAIN Emitted' = 1 .. Len(Emitted')
      /\ \A i \in 1 .. Len(Emitted) : Emitted'[i] = Emitted[i]
      /\ \A i \in 1 .. m + 1 : Emitted'[Len(Emitted) + i] = pending'[i]
  BY <1>2, <1>5, ReceivingAdds DEF StreamInv
<1>7. Len(Emitted) \in Nat /\ DOMAIN Emitted = 1 .. Len(Emitted) /\ m \in Nat
  BY <1>4, EmittedIs DEF StreamInv
<1>8. Emitted'[Len(Emitted')] = e /\ Len(Emitted') > Len(Emitted)
  BY <1>5, <1>6, <1>7
<1>9. Grown
  BY <1>6, <1>7 DEF Grown
<1>10. ASSUME NEW i \in Added, i # Len(Emitted')
       PROVE  i - Len(Emitted) \in 1 .. m /\ Emitted'[i] = ends[i - Len(Emitted)] /\ i \in Int
  <2> DEFINE h == i - Len(Emitted)
  <2>1. h \in 1 .. m /\ i = Len(Emitted) + h /\ i \in Int
    BY <1>6, <1>7, <1>10 DEF Added
  <2>2. Emitted'[i] = pending'[h]
    BY <2>1, <1>6, <1>7
  <2> QED
    BY <2>1, <2>2, <1>5
<1>11. Ends
  <2>1. \A i \in Added : i # Len(Emitted') =>
          Emitted'[i].type = "end" /\ Emitted'[i].id \in {NoId} \cup seen
    BY <1>4, <1>10
  <2>2. ASSUME NEW i \in Added, NEW j \in Added, i # Len(Emitted'), j # Len(Emitted'),
               Emitted'[i].id = Emitted'[j].id
        PROVE  i = j
    <3>1. i - Len(Emitted) = j - Len(Emitted)
      BY <1>4, <1>10, <2>2
    <3> QED
      BY <3>1, <1>7, <1>10, <2>2
  <2> QED
    BY <2>1, <2>2, <1>3, <1>8, <1>9 DEF Ends
<1>12. Len(pending') <= Cardinality(Calls) + 1
  BY <1>4, <1>5, CallsAre
<1> QED
  BY <1>2, <1>5, <1>11, <1>12, EndKeeps

LEMMA SendKeeps == ASSUME StreamInv, Send PROVE StreamInv'
<1>1. /\ Len(chan) < BufCap /\ pending # <<>>
      /\ UNCHANGED <<style, cap, sent, reader, slots, seen, agent, message, tools>>
  BY DEF Send, provider
<1>2. Typed /\ TranslatorInv /\ Channel /\ RunInv
  BY DEF StreamInv
<1>3. /\ Emitted' = Emitted
      /\ log' \in Seq(EventSet) /\ pending' \in Seq(EventSet) /\ chan' \in Seq(EventSet)
      /\ Len(log') = Len(log) + 1 /\ Len(chan') = Len(chan) + 1
      /\ Len(pending') = Len(pending) - 1
      /\ \A i \in 1 .. Len(log) : log'[i] = log[i]
      /\ \A i \in 1 .. Len(chan) : chan'[i] = chan[i]
      /\ log'[Len(log) + 1] = chan'[Len(chan) + 1]
  BY <1>2, SendKeepsEmitted
<1>4. Len(log) \in Nat /\ Len(chan) \in Nat /\ Len(chan) <= Len(log) /\ Len(pending) \in Nat
  BY <1>2, LenProperties, EmittedIs DEF Typed, Channel
<1>5. Taken' = Taken /\ Taken \in Nat
  BY <1>3, <1>4 DEF Taken
<1>6. reader # "closed"
  BY <1>1, <1>2 DEF TranslatorInv, Contract
<1>7. TranslatorInv'
  BY <1>1, <1>2, <1>3, <1>6, TranslatorUnmoved
<1>8. Channel'
  <2>1. Len(chan') <= Len(log')
    BY <1>3, <1>4
  <2>2. ASSUME NEW i \in 1 .. Len(chan') PROVE chan'[i] = log'[Taken + i]
    <3>1. CASE i = Len(chan) + 1
      <4>1. Taken + i = Len(log) + 1
        BY <3>1, <1>4 DEF Taken
      <4> QED
        BY <3>1, <4>1, <1>3
    <3>2. CASE i \in 1 .. Len(chan)
      <4>1. Taken + i \in 1 .. Len(log)
        BY <3>2, <1>4 DEF Taken
      <4> QED
        BY <3>2, <4>1, <1>2, <1>3 DEF Channel
    <3> QED
      BY <3>1, <3>2, <1>3, <1>4
  <2> QED
    BY <2>1, <2>2, <1>5 DEF Channel
<1>9. Grown /\ Added = {}
  BY <1>2, <1>3, EmittedIs DEF Grown, Added
<1>10. RunInv'
  <2>1. sent' \in [Calls -> Int] /\ \A k \in Calls : sent[k] <= sent'[k]
    BY <1>1, <1>2 DEF Typed
  <2>2. Len(Emitted) \in Nat /\ DOMAIN Emitted = 1 .. Len(Emitted)
    BY <1>2, EmittedIs
  <2>3. \A i \in Len(Emitted) + 1 .. Len(Emitted') : FALSE
    BY <1>9 DEF Added
  <2> QED
    BY <1>1, <1>2, <1>3, <1>5, <2>1, <2>2, <2>3, RunUnmoved
<1>11. Typed'
  <2>1. Len(pending') <= Cardinality(Calls) + 1
    <3>1. Cardinality(Calls) \in Nat
      BY CallsAre
    <3> QED
      BY <3>1, <1>2, <1>3, <1>4 DEF Typed
  <2>2. Len(chan') <= BufCap
    BY <1>1, <1>3, <1>4, StreamParameters
  <2> QED
    BY <1>1, <1>2, <1>3, <2>1, <2>2 DEF Typed, message
<1> QED
  BY <1>2, <1>7, <1>8, <1>10, <1>11 DEF StreamInv

LEMMA CloseChannelKeeps == ASSUME StreamInv, CloseChannel PROVE StreamInv'
<1>1. /\ reader = "ended" /\ pending = <<>> /\ reader' = "closed" /\ pending' = pending
      /\ Emitted' = Emitted /\ Taken' = Taken
      /\ UNCHANGED <<style, cap, sent, slots, seen, chan, log, agent, message, tools>>
  BY DEF CloseChannel, provider, Emitted, Taken
<1>2. Typed /\ TranslatorInv /\ Channel /\ RunInv
  BY DEF StreamInv
<1>3. Slots' /\ FirstOwn' /\ InTheirOrder'
  BY <1>1, <1>2 DEF TranslatorInv, Slots, FirstOwn, InTheirOrder, Is
<1>4. Contract'
  BY <1>1, <1>2 DEF TranslatorInv, Contract, Is
<1>5. Channel'
  BY <1>1, <1>2 DEF Channel
<1>6. Typed'
  BY <1>1, <1>2 DEF Typed, message
<1>7. RunInv'
  <2>1. UNCHANGED <<style, sent, agent, order, args, calls, out, results>>
    BY <1>1 DEF message, tools
  <2>2. Partial' /\ PartialInOrder'
    BY <1>1, <1>2, <2>1 DEF RunInv, Partial, PartialInOrder, Is
  <2>3. Results' /\ ToolsRunOnOwnArguments' /\ MessageFaithful'
    BY <1>1, <1>2, <2>1 DEF RunInv, Results, ToolsRunOnOwnArguments, MessageFaithful
  <2> QED
    BY <2>2, <2>3 DEF RunInv
<1> QED
  BY <1>3, <1>4, <1>5, <1>6, <1>7 DEF StreamInv, TranslatorInv

-----------------------------------------------------------------------------
(* Run.                                                                      *)

\* Whatever Run does, the translator's side stands.
LEMMA RunLeavesTranslator ==
    ASSUME StreamInv, UNCHANGED <<provider, translator, log>>
    PROVE  TranslatorInv' /\ Emitted' = Emitted
<1>1. /\ Emitted' = Emitted /\ pending' = pending
      /\ UNCHANGED <<style, sent, reader, slots, seen>>
  BY DEF provider, translator, Emitted
<1>2. TranslatorInv /\ (reader = "closed" => pending' = <<>>)
  BY <1>1 DEF StreamInv, TranslatorInv, Contract
<1> QED
  BY <1>1, <1>2, TranslatorUnmoved

\* An event that is taken.
LEMMA TakeIs ==
    ASSUME StreamInv, NEW type, Take(type), UNCHANGED <<provider, translator, log>>
    PROVE  /\ Taken \in Nat /\ Taken' = Taken + 1 /\ Taken + 1 \in 1 .. Len(Emitted)
           /\ Len(Emitted) \in Nat /\ DOMAIN Emitted = 1 .. Len(Emitted)
           /\ Is(Taken + 1, type) /\ Head(chan) = Emitted[Taken + 1]
           /\ Emitted' = Emitted /\ TranslatorInv' /\ Channel'
           /\ chan' \in Seq(EventSet) /\ Len(chan') <= BufCap
           /\ agent = "reading" /\ Partial /\ PartialInOrder /\ TranslatorInv /\ Typed
           /\ calls = <<>> /\ out = <<>> /\ results = <<>>
           /\ UNCHANGED <<style, cap, sent, reader, slots, seen, pending>>
<1>1. Typed /\ Channel /\ UNCHANGED log /\ agent = "reading"
  BY DEF StreamInv, Take
<1>2. /\ Taken \in Nat /\ Taken + 1 \in 1 .. Len(log) /\ Len(log) <= Len(Emitted)
      /\ Head(chan) = Emitted[Taken + 1] /\ Emitted[Taken + 1].type = type
      /\ Taken' = Taken + 1
      /\ Channel' /\ chan' \in Seq(EventSet) /\ Len(chan') <= BufCap
  BY <1>1, TakesNext
<1>3. Len(Emitted) \in Nat /\ Len(log) \in Nat /\ DOMAIN Emitted = 1 .. Len(Emitted)
  BY <1>1, EmittedIs
<1>4. Taken + 1 \in 1 .. Len(Emitted)
  BY <1>2, <1>3
<1>5. TranslatorInv' /\ Emitted' = Emitted
  BY RunLeavesTranslator
<1>6. Partial /\ PartialInOrder /\ TranslatorInv /\ calls = <<>> /\ out = <<>> /\ results = <<>>
  BY <1>1 DEF StreamInv, RunInv, Results
<1>7. UNCHANGED <<style, cap, sent, reader, slots, seen, pending>>
  BY DEF provider, translator
<1> QED
  BY <1>1, <1>2, <1>3, <1>4, <1>5, <1>6, <1>7 DEF Is

\* There is nothing between 1 and 0.
LEMMA NoneIn == \A i \in 1 .. 0 : FALSE
OBVIOUS

\* While it reads there are no calls and no results.
LEMMA StillReading ==
    ASSUME agent' = "reading" \/ agent' \in {"too large", "stream failed"},
           calls = <<>>, out = <<>>, results = <<>>, UNCHANGED <<calls, out, results>>
    PROVE  Results' /\ ToolsRunOnOwnArguments' /\ MessageFaithful'
<1>1. <<>> \in Seq([id : Calls, args : Seq(PartSet)]) /\ <<>> \in Seq({NoId} \cup Calls)
  BY EmptySeq
<1>2. Results'
  <2>1. calls' = <<>> /\ out' = <<>> /\ results' = <<>>
    OBVIOUS
  <2>2. calls' \in Seq([id : Calls, args : Seq(PartSet)])
    BY <1>1, <2>1
  <2>3. out' \in Seq({NoId} \cup Calls)
    BY <1>1, <2>1
  <2>4. DOMAIN out' = DOMAIN calls' /\ \A i \in DOMAIN calls' : FALSE
    <3>1. DOMAIN calls' = 1 .. Len(calls')
      BY <2>2, LenProperties
    <3>2. Len(calls') = 0
      BY <2>1, EmptySeq
    <3> QED
      BY <2>1, <3>1, <3>2, NoneIn, Zenon
  <2>5. agent' \notin {"tools", "answered", "next step"}
    OBVIOUS
  <2> QED
    BY <2>1, <2>2, <2>3, <2>4, <2>5 DEF Results
<1> QED
  BY <1>2 DEF ToolsRunOnOwnArguments, MessageFaithful

\* Once the step is over, what was put together no longer matters.
LEMMA ReadingEnds ==
    ASSUME StreamInv, NEW type, Take(type), UNCHANGED <<provider, translator, log, message, tools>>,
           agent' \in {"too large", "stream failed"}
    PROVE  StreamInv'
<1>1. /\ Typed /\ TranslatorInv' /\ Channel' /\ chan' \in Seq(EventSet) /\ Len(chan') <= BufCap
      /\ calls = <<>> /\ out = <<>> /\ results = <<>>
      /\ UNCHANGED <<style, cap, sent, reader, slots, seen, pending>>
  BY TakeIs
<1>2. Results' /\ ToolsRunOnOwnArguments' /\ MessageFaithful'
  BY <1>1, StillReading DEF tools
<1>3. Partial' /\ PartialInOrder'
  BY DEF Partial, PartialInOrder
<1>4. Typed'
  BY <1>1 DEF Typed, message, Outcomes
<1> QED
  BY <1>1, <1>2, <1>3, <1>4 DEF StreamInv, RunInv

\* Events that are no part of a call are passed over.
LEMMA PassesOver ==
    ASSUME StreamInv, NEW type, Take(type), type \notin {"start", "args"},
           UNCHANGED <<provider, translator, log, agent, order, args, tools>>
    PROVE  StreamInv'
<1> DEFINE p == Taken + 1
<1>1. /\ Typed /\ TranslatorInv' /\ Channel' /\ chan' \in Seq(EventSet) /\ Len(chan') <= BufCap
      /\ calls = <<>> /\ out = <<>> /\ results = <<>> /\ Emitted' = Emitted
      /\ Taken \in Nat /\ Taken' = p /\ Is(p, type) /\ agent = "reading"
      /\ Partial /\ PartialInOrder
      /\ DOMAIN Emitted = 1 .. Len(Emitted) /\ Len(Emitted) \in Nat
      /\ UNCHANGED <<style, cap, sent, reader, slots, seen, pending>>
  BY TakeIs
<1>2. Results' /\ ToolsRunOnOwnArguments' /\ MessageFaithful'
  BY <1>1, StillReading DEF tools
<1>3. ~Is(p, "start") /\ ~Is(p, "args")
  BY <1>1 DEF Is
<1>4. \A i \in 1 .. p : i \in 1 .. Taken \/ i = p
  BY <1>1
<1>5. 1 .. Taken \subseteq 1 .. p
  BY <1>1
<1>6. Partial'
  <2>1. {Emitted[i].id : i \in {j \in 1 .. Taken : Is(j, "start")}}
          = {Emitted[i].id : i \in {j \in 1 .. p : Is(j, "start")}}
    BY <1>3, <1>4, <1>5
  <2>2. \A id \in DOMAIN args : args[id] = <<>> =>
            \A i \in 1 .. p : ~(Is(i, "args") /\ Emitted[i].id = id)
    BY <1>1, <1>3, <1>4 DEF Partial
  <2> QED
    BY <1>1, <2>1, <2>2 DEF Partial, Is
<1>7. PartialInOrder'
  <2> SUFFICES ASSUME style = "indexed" PROVE PartialInOrder'
    BY <1>1 DEF PartialInOrder
  <2>1. \A i \in DOMAIN Emitted : Is(i, "start") \/ Is(i, "args") => (i <= Taken <=> i <= p)
    <3> SUFFICES ASSUME NEW i \in DOMAIN Emitted, i # p PROVE i <= Taken <=> i <= p
      BY <1>3
    <3> QED
      BY <1>1
  <2>2. /\ \A i \in DOMAIN Emitted : Is(i, "start") => (i <= p <=> Emitted[i].id <= Len(order))
        /\ \A i \in DOMAIN Emitted : Is(i, "args") /\ Emitted[i].id \in DOMAIN args =>
              (i <= p <=> Emitted[i].part[2] <= Len(args[Emitted[i].id]))
    BY <1>1, <2>1 DEF PartialInOrder
  <2> QED
    BY <1>1, <2>2 DEF PartialInOrder, Is
<1>8. Typed'
  BY <1>1 DEF Typed
<1> QED
  BY <1>1, <1>2, <1>6, <1>7, <1>8 DEF StreamInv, RunInv

LEMMA OnTextKeeps == ASSUME StreamInv, OnText PROVE StreamInv'
BY PassesOver DEF OnText

LEMMA OnEndKeeps == ASSUME StreamInv, OnEnd PROVE StreamInv'
BY PassesOver DEF OnEnd, message

LEMMA OnErrorKeeps == ASSUME StreamInv, OnError PROVE StreamInv'
BY ReadingEnds DEF OnError

\* A start that is taken is the first event of its id; with an index, that of the
\* next call.
LEMMA StartIsNext ==
    ASSUME StreamInv, Take("start"), UNCHANGED <<provider, translator, log>>,
           NEW id, id = Emitted[Taken + 1].id
    PROVE  /\ id \in seen /\ id \in Calls /\ id \notin DOMAIN args
           /\ \A i \in DOMAIN Emitted : Is(i, "args") /\ Emitted[i].id = id => i > Taken + 1
           /\ \A i \in DOMAIN Emitted : Is(i, "start") /\ Emitted[i].id = id => i = Taken + 1
           /\ style = "indexed" => id = Len(order) + 1
<1> DEFINE p == Taken + 1
<1>1. /\ Typed /\ Partial /\ PartialInOrder /\ agent = "reading" /\ Contract /\ Slots /\ InTheirOrder
      /\ Taken \in Nat /\ Is(p, "start") /\ p \in DOMAIN Emitted
      /\ DOMAIN Emitted = 1 .. Len(Emitted) /\ Len(Emitted) \in Nat
  BY TakeIs DEF TranslatorInv, Is
<1>2. id \in seen /\ id \in Calls
  BY <1>1 DEF Contract, Typed
<1>3. \A i \in DOMAIN Emitted : Is(i, "start") /\ Emitted[i].id = id => i = p
  BY <1>1 DEF Contract
<1>4. id \notin DOMAIN args
  <2> SUFFICES ASSUME id \in DOMAIN args PROVE FALSE
    OBVIOUS
  <2>1. PICK j \in 1 .. Taken : Is(j, "start") /\ Emitted[j].id = id
    BY <1>1 DEF Partial
  <2>2. j = p
    BY <2>1, <1>3 DEF Is
  <2> QED
    BY <2>2, <1>1
<1>5. ASSUME NEW i \in DOMAIN Emitted, Is(i, "args"), Emitted[i].id = id PROVE i > p
  <2>1. PICK j \in 1 .. i - 1 : Is(j, "start") /\ Emitted[j].id = id
    BY <1>1, <1>5 DEF Contract
  <2>2. j = p
    BY <2>1, <1>3 DEF Is
  <2> QED
    BY <2>1, <2>2, <1>1
<1>6. ASSUME style = "indexed" PROVE id = Len(order) + 1
  <2> DEFINE m == Len(order)
  <2>1. m \in Nat /\ id \in Nat /\ id > 0 /\ seen = DOMAIN slots
        /\ \A h \in 1 .. id - 1 : h \in DOMAIN slots
    BY <1>1, <1>2, <1>6, CallsAre, LenProperties DEF Typed, Slots
  <2>2. ~(id <= m)
    <3>1. p <= Taken <=> id <= m
      BY <1>1, <1>6 DEF PartialInOrder
    <3> QED
      BY <3>1, <1>1
  <2>3. ASSUME id # m + 1 PROVE FALSE
    <3>1. m + 1 \in 1 .. id - 1
      BY <2>1, <2>2, <2>3
    <3>2. m + 1 \in seen
      BY <3>1, <2>1
    <3>3. PICK j \in DOMAIN Emitted : Is(j, "start") /\ Emitted[j].id = m + 1
      BY <3>2, <1>1 DEF Contract
    <3>4. j < p
      <4>1. j # p
        BY <3>3, <2>3
      <4>2. ~(p < j)
        <5>1. p < j => id < m + 1
          BY <3>3, <1>1, <1>6 DEF InTheirOrder
        <5> QED
          BY <5>1, <2>1, <2>2
      <4> QED
        BY <4>1, <4>2, <1>1
    <3>5. j <= Taken
      BY <3>4, <1>1
    <3>6. m + 1 <= m
      BY <3>3, <3>5, <1>1, <1>6 DEF PartialInOrder
    <3> QED
      BY <3>6, <2>1
  <2> QED
    BY <2>3
<1> QED
  BY <1>2, <1>3, <1>4, <1>5, <1>6

LEMMA OnStartKeeps == ASSUME StreamInv, OnStart PROVE StreamInv'
<1> DEFINE p == Taken + 1
           id == Emitted[p].id
<1>1. Take("start") /\ UNCHANGED <<provider, translator, log, agent, text, tools>>
  BY DEF OnStart
<1>2. /\ Typed /\ TranslatorInv' /\ Channel' /\ chan' \in Seq(EventSet) /\ Len(chan') <= BufCap
      /\ calls = <<>> /\ out = <<>> /\ results = <<>> /\ Emitted' = Emitted
      /\ Taken \in Nat /\ Taken' = p /\ Is(p, "start") /\ agent = "reading"
      /\ Head(chan) = Emitted[p]
      /\ Partial /\ PartialInOrder /\ TranslatorInv
      /\ DOMAIN Emitted = 1 .. Len(Emitted) /\ Len(Emitted) \in Nat
      /\ UNCHANGED <<style, cap, sent, reader, slots, seen, pending>>
  BY <1>1, TakeIs
<1>3. /\ id \in seen /\ id \in Calls /\ id \notin DOMAIN args
      /\ \A i \in DOMAIN Emitted : Is(i, "args") /\ Emitted[i].id = id => i > p
      /\ \A i \in DOMAIN Emitted : Is(i, "start") /\ Emitted[i].id = id => i = p
      /\ style = "indexed" => id = Len(order) + 1
  BY <1>1, StartIsNext
<1>4. /\ args' = [i \in DOMAIN args \cup {id} |-> IF i = id THEN <<>> ELSE args[i]]
      /\ order' = Append(order, id)
  BY <1>2, <1>3 DEF OnStart, SetParts, PartsOf
<1> HIDE DEF id
<1>5. /\ DOMAIN args' = DOMAIN args \cup {id} /\ args'[id] = <<>>
      /\ \A i \in DOMAIN args : args'[i] = args[i]
  BY <1>3, <1>4
<1>6. /\ order \in Seq(Calls) /\ order' \in Seq(Calls) /\ Len(order) \in Nat
      /\ Len(order') = Len(order) + 1 /\ order'[Len(order) + 1] = id
      /\ \A i \in 1 .. Len(order) : order'[i] = order[i]
      /\ DOMAIN order = 1 .. Len(order) /\ DOMAIN order' = 1 .. Len(order')
  <2>1. order \in Seq(Calls)
    BY <1>2 DEF Typed
  <2> QED
    BY <2>1, <1>3, <1>4, AppendProperties, LenProperties
<1>7. \A i : i \in DOMAIN order' <=> i \in DOMAIN order \/ i = Len(order) + 1
  BY <1>6
<1>8. Results' /\ ToolsRunOnOwnArguments' /\ MessageFaithful'
  BY <1>1, <1>2, StillReading DEF tools
<1>9. \A i \in Int : i \in 1 .. p <=> i \in 1 .. Taken \/ i = p
  BY <1>2
<1>10. Partial'
  <2>1. DOMAIN args' = {Emitted[i].id : i \in {j \in 1 .. p : Is(j, "start")}}
    <3>1. DOMAIN args = {Emitted[i].id : i \in {j \in 1 .. Taken : Is(j, "start")}}
      BY <1>2 DEF Partial
    <3> QED
      BY <3>1, <1>2, <1>5, <1>9 DEF id
  <2>2. \A i \in 1 .. p : ~(Is(i, "args") /\ Emitted[i].id = id)
    BY <1>2, <1>3 DEF Is
  <2>3. ASSUME NEW c \in DOMAIN args
        PROVE  IF args'[c] = <<>>
               THEN \A i \in 1 .. p : ~(Is(i, "args") /\ Emitted[i].id = c)
               ELSE args'[c][1][1] = c
    <3>1. ~Is(p, "args")
      BY <1>2 DEF Is
    <3>2. IF args[c] = <<>>
          THEN \A i \in 1 .. Taken : ~(Is(i, "args") /\ Emitted[i].id = c)
          ELSE args[c][1][1] = c
      BY <1>2 DEF Partial
    <3> QED
      BY <3>1, <3>2, <1>5, <1>9
  <2>4. \A c \in DOMAIN args' : IF args'[c] = <<>>
               THEN \A i \in 1 .. p : ~(Is(i, "args") /\ Emitted[i].id = c)
               ELSE args'[c][1][1] = c
    BY <2>2, <2>3, <1>5
  <2> QED
    BY <2>1, <2>4, <1>2 DEF Partial, Is
<1>11. PartialInOrder'
  <2> SUFFICES ASSUME style = "indexed" PROVE PartialInOrder'
    BY <1>2 DEF PartialInOrder
  <2> DEFINE m == Len(order)
  <2>1. id = m + 1 /\ m \in Nat
    BY <1>3, <1>6
  <2>2. /\ \A i \in DOMAIN order : order[i] = i
        /\ \A i \in DOMAIN Emitted : Is(i, "start") => (i <= Taken <=> Emitted[i].id <= m)
        /\ \A c \in DOMAIN args :
              /\ \A n \in DOMAIN args[c] : args[c][n] = <<c, n>>
              /\ Len(args[c]) <= sent[c]
        /\ \A i \in DOMAIN Emitted : Is(i, "args") /\ Emitted[i].id \in DOMAIN args =>
              (i <= Taken <=> Emitted[i].part[2] <= Len(args[Emitted[i].id]))
    BY <1>2 DEF PartialInOrder
  <2>3. \A i \in DOMAIN order' : order'[i] = i
    BY <2>1, <2>2, <1>6, <1>7
  <2>4. ASSUME NEW i \in DOMAIN Emitted, Is(i, "start")
        PROVE  i <= p <=> Emitted[i].id <= Len(order')
    <3>1. CASE i = p
      <4>1. i <= p /\ Emitted[i].id = m + 1 /\ Len(order') = m + 1
        BY <3>1, <2>1, <1>2, <1>6 DEF id
      <4> QED
        BY <4>1, <2>1
    <3>2. CASE i # p
      <4>1. Emitted[i].id # m + 1 /\ Emitted[i].id \in Nat
        <5>1. Emitted[i].id \in Calls
          BY <2>4, <1>2 DEF TranslatorInv, Contract, Typed
        <5> QED
          BY <5>1, <3>2, <2>1, <2>4, <1>3, CallsAre
      <4>2. Emitted[i].id <= m <=> Emitted[i].id <= m + 1
        BY <4>1, <2>1
      <4>3. i <= Taken <=> i <= p
        BY <3>2, <1>2
      <4> QED
        BY <4>2, <4>3, <2>2, <2>4, <1>6
    <3> QED
      BY <3>1, <3>2
  <2>5. ASSUME NEW c \in DOMAIN args'
        PROVE  /\ \A n \in DOMAIN args'[c] : args'[c][n] = <<c, n>>
               /\ Len(args'[c]) <= sent[c]
    <3>1. CASE c \in DOMAIN args
      BY <3>1, <2>2, <1>5
    <3>2. CASE c = id
      <4>1. Len(args'[c]) = 0 /\ DOMAIN args'[c] = 1 .. Len(args'[c])
        BY <3>2, <1>5, EmptySeq, LenProperties
      <4>2. sent[id] # -1 /\ sent[id] \in Int /\ sent[id] >= -1
        <5>1. sent[id] # -1
          BY <1>2, <1>3 DEF TranslatorInv, Slots
        <5>2. sent[id] \in -1 .. Parts[id] /\ Parts[id] \in Nat
          BY <1>2, <1>3, CallsAre DEF Typed
        <5> QED
          BY <5>1, <5>2
      <4>3. 0 <= sent[id]
        BY <4>2
      <4>4. \A n \in DOMAIN args'[c] : FALSE
        BY <4>1, NoneIn, Zenon
      <4> QED
        BY <3>2, <4>1, <4>3, <4>4
    <3> QED
      BY <3>1, <3>2, <1>5
  <2>6. ASSUME NEW i \in DOMAIN Emitted, Is(i, "args"), Emitted[i].id \in DOMAIN args'
        PROVE  i <= p <=> Emitted[i].part[2] <= Len(args'[Emitted[i].id])
    <3>1. CASE Emitted[i].id \in DOMAIN args
      <4>1. i # p
        BY <2>6, <1>2 DEF Is
      <4>2. i <= Taken <=> i <= p
        BY <4>1, <1>2
      <4> QED
        BY <3>1, <4>2, <2>2, <2>6, <1>5
    <3>2. CASE Emitted[i].id = id
      <4>1. i > p
        BY <3>2, <2>6, <1>3
      <4>2. Emitted[i].part[2] \in 1 .. sent[id]
        BY <3>2, <2>6, <1>2 DEF TranslatorInv, InTheirOrder
      <4>3. Len(args'[id]) = 0
        BY <1>5, EmptySeq
      <4>4. ~(Emitted[i].part[2] <= 0)
        <5>1. sent[id] \in Int
          BY <1>2, <1>3 DEF Typed
        <5> QED
          BY <4>2, <5>1
      <4>5. ~(i <= p)
        BY <4>1, <1>2
      <4> QED
        BY <3>2, <4>3, <4>4, <4>5
    <3> QED
      BY <3>1, <3>2, <2>6, <1>5
  <2> QED
    BY <2>3, <2>4, <2>5, <2>6, <1>2 DEF PartialInOrder, Is
<1>12. Typed'
  <2>1. DOMAIN args' = {order'[i] : i \in DOMAIN order'}
    <3>1. DOMAIN args = {order[i] : i \in DOMAIN order}
      BY <1>2 DEF Typed
    <3> QED
      BY <3>1, <1>5, <1>6, <1>7
  <2>2. ASSUME NEW c \in DOMAIN args'
        PROVE  args'[c] \in Seq(PartSet) /\ Len(args'[c]) <= cap
    <3>1. CASE c \in DOMAIN args
      BY <3>1, <1>2, <1>5 DEF Typed
    <3>2. CASE c = id
      <4>1. cap \in Nat
        BY <1>2, StreamParameters DEF Typed
      <4>2. args'[c] \in Seq(PartSet) /\ Len(args'[c]) = 0
        BY <3>2, <1>5, EmptySeq
      <4> QED
        BY <4>1, <4>2
    <3> QED
      BY <3>1, <3>2, <1>5
  <2> QED
    BY <1>1, <1>2, <1>6, <2>1, <2>2 DEF Typed
<1> QED
  BY <1>2, <1>8, <1>10, <1>11, <1>12 DEF StreamInv, RunInv

\* Arguments that are taken belong to a call there is; with an index, they are its
\* next part.
LEMMA ArgsAreNext ==
    ASSUME StreamInv, Take("args"), UNCHANGED <<provider, translator, log>>,
           NEW id, NEW part, id = Emitted[Taken + 1].id, part = Emitted[Taken + 1].part
    PROVE  /\ id \in DOMAIN args /\ part \in PartSet
           /\ args[id] = <<>> => part[1] = id
           /\ style = "indexed" =>
                 /\ part = <<id, Len(args[id]) + 1>> /\ Len(args[id]) + 1 <= sent[id]
                 /\ \A i \in DOMAIN Emitted : Is(i, "args") /\ Emitted[i].id = id =>
                       (i <= Taken + 1 <=> Emitted[i].part[2] <= Len(args[id]) + 1)
<1> DEFINE p == Taken + 1
<1>1. /\ Typed /\ Partial /\ PartialInOrder /\ agent = "reading"
      /\ Contract /\ FirstOwn /\ InTheirOrder
      /\ Taken \in Nat /\ Is(p, "args") /\ p \in DOMAIN Emitted
      /\ DOMAIN Emitted = 1 .. Len(Emitted) /\ Len(Emitted) \in Nat
  BY TakeIs DEF TranslatorInv, Is
<1>2. part \in PartSet
  BY <1>1, EventIs
<1>3. id \in DOMAIN args
  <2>1. PICK j \in 1 .. p - 1 : Is(j, "start") /\ Emitted[j].id = id
    BY <1>1 DEF Contract
  <2>2. j \in 1 .. Taken
    BY <1>1
  <2> QED
    BY <2>1, <2>2, <1>1 DEF Partial
<1>4. ASSUME args[id] = <<>> PROVE part[1] = id
  <2>1. \A i \in 1 .. Taken : ~(Is(i, "args") /\ Emitted[i].id = id)
    BY <1>1, <1>3, <1>4 DEF Partial
  <2>2. 1 .. p - 1 = 1 .. Taken
    BY <1>1
  <2> QED
    BY <2>1, <2>2, <1>1 DEF FirstOwn
<1>5. ASSUME style = "indexed"
      PROVE  /\ part = <<id, Len(args[id]) + 1>> /\ Len(args[id]) + 1 <= sent[id]
             /\ \A i \in DOMAIN Emitted : Is(i, "args") /\ Emitted[i].id = id =>
                   (i <= p <=> Emitted[i].part[2] <= Len(args[id]) + 1)
  <2>1. PICK l \in Nat : l = Len(args[id])
    BY <1>1, <1>3, LenProperties DEF Typed
  <2>2. PICK n \in Int : n = part[2] /\ part = <<id, n>> /\ 1 <= n /\ n <= sent[id] /\ sent[id] \in Int
    <3>1. id \in Calls
      BY <1>1, <1>3 DEF Typed
    <3>2. sent[id] \in Int
      BY <1>1, <3>1 DEF Typed
    <3>3. part = <<id, part[2]>> /\ part[2] \in 1 .. sent[id]
      BY <1>1, <1>5 DEF InTheirOrder
    <3> QED
      BY <3>2, <3>3
  <2>3. \A i \in DOMAIN Emitted : Is(i, "args") /\ Emitted[i].id = id =>
            (i <= Taken <=> Emitted[i].part[2] <= l)
    BY <1>1, <1>3, <1>5, <2>1 DEF PartialInOrder
  <2>4. n > l
    <3>1. ~(p <= Taken)
      BY <1>1
    <3>2. ~(n <= l)
      BY <3>1, <2>2, <2>3, <1>1
    <3> QED
      BY <3>2
  <2>5. \A i, j \in DOMAIN Emitted :
            i < j /\ Is(i, "args") /\ Is(j, "args") /\ Emitted[i].id = id /\ Emitted[j].id = id =>
                Emitted[i].part[2] < Emitted[j].part[2]
    BY <1>1, <1>5 DEF InTheirOrder
  <2>6. ASSUME n # l + 1 PROVE FALSE
    <3>1. l + 1 \in 1 .. sent[id] /\ l + 1 < n
      BY <2>2, <2>4, <2>6
    <3>2. PICK i \in DOMAIN Emitted : Is(i, "args") /\ Emitted[i].part = <<id, l + 1>>
      <4>1. id \in Calls
        BY <1>1, <1>3 DEF Typed
      <4> QED
        BY <3>1, <4>1, <1>1, <1>5 DEF InTheirOrder
    <3>3. Emitted[i].id = id /\ Emitted[i].part[2] = l + 1
      BY <3>2, <1>1, <1>5 DEF InTheirOrder
    <3>4. ~(p < i) /\ i # p
      <4>1. p < i => n < l + 1
        BY <2>2, <2>5, <3>2, <3>3, <1>1
      <4>2. i = p => l + 1 = n
        BY <2>2, <3>3
      <4> QED
        BY <4>1, <4>2, <3>1
    <3>5. i <= Taken
      BY <3>4, <1>1
    <3>6. l + 1 <= l
      BY <3>2, <3>3, <3>5, <2>3
    <3> QED
      BY <3>6
  <2>7. ASSUME NEW i \in DOMAIN Emitted, Is(i, "args"), Emitted[i].id = id
        PROVE  i <= p <=> Emitted[i].part[2] <= l + 1
    <3>1. CASE i = p
      <4>1. Emitted[i].part[2] = l + 1 /\ i <= p
        BY <3>1, <2>2, <2>6, <1>1
      <4> QED
        BY <4>1
    <3>2. CASE i # p
      <4>1. i < p \/ p < i
        BY <3>2, <1>1
      <4>2. Emitted[i].part[2] \in Int
        <5>1. id \in Calls
          BY <1>1, <1>3 DEF Typed
        <5>2. Emitted[i].part[2] \in 1 .. sent[id]
          BY <1>1, <1>5, <2>7 DEF InTheirOrder
        <5> QED
          BY <5>2
      <4>3. Emitted[i].part[2] # l + 1
        <5>1. (i < p => Emitted[i].part[2] < n) /\ (p < i => n < Emitted[i].part[2])
          BY <2>2, <2>5, <2>7, <1>1
        <5> QED
          BY <5>1, <4>1, <4>2, <2>6
      <4>4. i <= Taken <=> i <= p
        BY <3>2, <1>1
      <4>5. Emitted[i].part[2] <= l <=> Emitted[i].part[2] <= l + 1
        BY <4>2, <4>3
      <4> QED
        BY <4>4, <4>5, <2>3, <2>7
    <3> QED
      BY <3>1, <3>2
  <2> QED
    BY <2>1, <2>2, <2>6, <2>7
<1> QED
  BY <1>2, <1>3, <1>4, <1>5

LEMMA OnArgsKeeps == ASSUME StreamInv, OnArgs PROVE StreamInv'
<1> DEFINE p == Taken + 1
           id == Emitted[p].id
           part == Emitted[p].part
<1>1. Take("args") /\ UNCHANGED <<provider, translator, log, text, tools>>
  BY DEF OnArgs
<1>2. /\ Typed /\ TranslatorInv' /\ Channel' /\ chan' \in Seq(EventSet) /\ Len(chan') <= BufCap
      /\ calls = <<>> /\ out = <<>> /\ results = <<>> /\ Emitted' = Emitted
      /\ Taken \in Nat /\ Taken' = p /\ Is(p, "args") /\ agent = "reading"
      /\ Head(chan) = Emitted[p]
      /\ Partial /\ PartialInOrder /\ TranslatorInv
      /\ DOMAIN Emitted = 1 .. Len(Emitted) /\ Len(Emitted) \in Nat
      /\ UNCHANGED <<style, cap, sent, reader, slots, seen, pending>>
  BY <1>1, TakeIs
<1>3. /\ id \in DOMAIN args /\ part \in PartSet
      /\ args[id] = <<>> => part[1] = id
      /\ style = "indexed" =>
            /\ part = <<id, Len(args[id]) + 1>> /\ Len(args[id]) + 1 <= sent[id]
            /\ \A i \in DOMAIN Emitted : Is(i, "args") /\ Emitted[i].id = id =>
                  (i <= p <=> Emitted[i].part[2] <= Len(args[id]) + 1)
  BY <1>1, ArgsAreNext
<1>4. CASE agent' = "too large" /\ UNCHANGED <<order, args>>
  BY <1>1, <1>4, ReadingEnds DEF message
<1>5. CASE /\ ~(Len(args[id]) + 1 > cap) /\ UNCHANGED <<agent, order>>
           /\ args' = [i \in DOMAIN args \cup {id} |->
                          IF i = id THEN Append(args[id], part) ELSE args[i]]
  <2> HIDE DEF id, part
  <2>1. /\ DOMAIN args' = DOMAIN args /\ args'[id] = Append(args[id], part)
        /\ \A i \in DOMAIN args : i # id => args'[i] = args[i]
    BY <1>3, <1>5
  <2>2. PICK l \in Nat : l = Len(args[id]) /\ l + 1 <= cap
    <3>1. Len(args[id]) \in Nat /\ cap \in Nat
      BY <1>2, <1>3, LenProperties, StreamParameters DEF Typed
    <3> QED
      BY <3>1, <1>5
  <2>3. /\ args[id] \in Seq(PartSet) /\ args'[id] \in Seq(PartSet)
        /\ Len(args'[id]) = l + 1 /\ args'[id][l + 1] = part
        /\ \A n \in 1 .. l : args'[id][n] = args[id][n]
        /\ DOMAIN args'[id] = 1 .. l + 1 /\ DOMAIN args[id] = 1 .. l
    <3>1. args[id] \in Seq(PartSet)
      BY <1>2, <1>3 DEF Typed
    <3> QED
      BY <3>1, <2>1, <2>2, <1>3, AppendProperties, LenProperties
  <2>4. Results' /\ ToolsRunOnOwnArguments' /\ MessageFaithful'
    BY <1>1, <1>2, <1>5, StillReading DEF tools
  <2>5. \A i \in Int : i \in 1 .. p <=> i \in 1 .. Taken \/ i = p
    BY <1>2
  <2>6. Partial'
    <3>1. ~Is(p, "start") /\ Emitted[p].id = id
      BY <1>2 DEF Is, id
    <3>2. DOMAIN args' = {Emitted[i].id : i \in {j \in 1 .. p : Is(j, "start")}}
      <4>1. DOMAIN args = {Emitted[i].id : i \in {j \in 1 .. Taken : Is(j, "start")}}
        BY <1>2 DEF Partial
      <4> QED
        BY <4>1, <2>1, <2>5, <3>1
    <3>3. args'[id] # <<>> /\ args'[id][1][1] = id
      <4>1. args'[id] # <<>>
        BY <2>3, EmptySeq
      <4>2. CASE l = 0
        <5>1. args[id] = <<>>
          BY <4>2, <2>2, <2>3, EmptySeq
        <5> QED
          BY <4>1, <4>2, <5>1, <2>3, <1>3
      <4>3. CASE l > 0
        <5>1. args[id] # <<>> /\ 1 \in 1 .. l
          BY <4>3, <2>2, EmptySeq
        <5>2. args[id][1][1] = id
          BY <5>1, <1>2, <1>3 DEF Partial
        <5> QED
          BY <4>1, <5>1, <5>2, <2>3
      <4> QED
        BY <4>2, <4>3
    <3>4. ASSUME NEW c \in DOMAIN args'
          PROVE  IF args'[c] = <<>>
                 THEN \A i \in 1 .. p : ~(Is(i, "args") /\ Emitted[i].id = c)
                 ELSE args'[c][1][1] = c
      <4>1. CASE c = id
        BY <4>1, <3>3
      <4>2. CASE c # id
        <5>1. IF args[c] = <<>>
              THEN \A i \in 1 .. Taken : ~(Is(i, "args") /\ Emitted[i].id = c)
              ELSE args[c][1][1] = c
          BY <2>1, <1>2 DEF Partial
        <5> QED
          BY <4>2, <5>1, <2>1, <2>5, <3>1
      <4> QED
        BY <4>1, <4>2
    <3> QED
      BY <3>2, <3>4, <1>2 DEF Partial, Is
  <2>7. PartialInOrder'
    <3> SUFFICES ASSUME style = "indexed" PROVE PartialInOrder'
      BY <1>2 DEF PartialInOrder
    <3>1. /\ \A i \in DOMAIN order : order[i] = i
          /\ \A i \in DOMAIN Emitted : Is(i, "start") => (i <= Taken <=> Emitted[i].id <= Len(order))
          /\ \A c \in DOMAIN args :
                /\ \A n \in DOMAIN args[c] : args[c][n] = <<c, n>>
                /\ Len(args[c]) <= sent[c]
          /\ \A i \in DOMAIN Emitted : Is(i, "args") /\ Emitted[i].id \in DOMAIN args =>
                (i <= Taken <=> Emitted[i].part[2] <= Len(args[Emitted[i].id]))
      BY <1>2 DEF PartialInOrder
    <3>2. \A i \in DOMAIN Emitted : i # p => (i <= Taken <=> i <= p)
      BY <1>2
    <3>3. \A i \in DOMAIN Emitted : Is(i, "start") => (i <= p <=> Emitted[i].id <= Len(order'))
      <4>1. ~Is(p, "start")
        BY <1>2 DEF Is
      <4> QED
        BY <4>1, <3>1, <3>2, <1>5
    <3>4. ASSUME NEW c \in DOMAIN args'
          PROVE  /\ \A n \in DOMAIN args'[c] : args'[c][n] = <<c, n>>
                 /\ Len(args'[c]) <= sent[c]
      <4>1. CASE c = id
        <5>1. part = <<id, l + 1>> /\ l + 1 <= sent[id]
          BY <1>3, <2>2
        <5>2. \A n \in 1 .. l + 1 : n \in 1 .. l \/ n = l + 1
          OBVIOUS
        <5>3. \A n \in 1 .. l : args[id][n] = <<id, n>>
          BY <3>1, <1>3, <2>3
        <5> QED
          BY <4>1, <5>1, <5>2, <5>3, <2>3
      <4>2. CASE c # id
        BY <4>2, <2>1, <3>1
      <4> QED
        BY <4>1, <4>2
    <3>5. ASSUME NEW i \in DOMAIN Emitted, Is(i, "args"), Emitted[i].id \in DOMAIN args'
          PROVE  i <= p <=> Emitted[i].part[2] <= Len(args'[Emitted[i].id])
      <4>1. CASE Emitted[i].id = id
        BY <4>1, <3>5, <1>3, <2>2, <2>3
      <4>2. CASE Emitted[i].id # id
        <5>1. i # p
          BY <4>2 DEF id
        <5> QED
          BY <4>2, <5>1, <2>1, <3>1, <3>2, <3>5
      <4> QED
        BY <4>1, <4>2
    <3> QED
      BY <3>1, <3>3, <3>4, <3>5, <1>2, <1>5 DEF PartialInOrder, Is
  <2>8. Typed'
    <3>1. ASSUME NEW c \in DOMAIN args'
          PROVE  args'[c] \in Seq(PartSet) /\ Len(args'[c]) <= cap
      BY <2>1, <2>2, <2>3, <1>2 DEF Typed
    <3> QED
      BY <3>1, <1>1, <1>2, <1>5, <2>1 DEF Typed
  <2> QED
    BY <1>2, <2>4, <2>6, <2>7, <2>8 DEF StreamInv, RunInv
<1>6. PartsOf(id) = args[id]
  BY <1>3 DEF PartsOf
<1> QED
  BY <1>2, <1>3, <1>4, <1>5, <1>6 DEF OnArgs, SetParts

\* When the end of the message is taken nothing is left: with an index, every call
\* that was begun has an entry and all that was sent of its arguments.
LEMMA AllWasTaken ==
    ASSUME StreamInv, Take("messageEnd"), UNCHANGED <<provider, translator, log>>
    PROVE  /\ reader # "open"
           /\ style = "indexed" =>
                 /\ {k \in Calls : sent[k] # -1} = 1 .. Len(order)
                 /\ \A i \in DOMAIN order :
                       order[i] = i /\ args[i] = [n \in 1 .. sent[i] |-> <<i, n>>]
<1> DEFINE p == Taken + 1
<1>1. /\ Typed /\ Partial /\ PartialInOrder /\ agent = "reading"
      /\ Contract /\ Slots /\ InTheirOrder
      /\ Taken \in Nat /\ Is(p, "messageEnd") /\ p \in DOMAIN Emitted
      /\ DOMAIN Emitted = 1 .. Len(Emitted) /\ Len(Emitted) \in Nat
  BY TakeIs DEF TranslatorInv, Is
<1>2. p = Len(Emitted) /\ reader # "open"
  BY <1>1 DEF Contract, Is, Terminators
<1>3. \A i \in DOMAIN Emitted : Is(i, "start") \/ Is(i, "args") => i <= Taken
  <2>1. ~Is(p, "start") /\ ~Is(p, "args")
    BY <1>1 DEF Is
  <2>2. \A i \in DOMAIN Emitted : i # p => i <= Taken
    BY <1>1, <1>2
  <2> QED
    BY <2>1, <2>2
<1>4. PICK m \in Nat : m = Len(order) /\ DOMAIN order = 1 .. m
  BY <1>1, LenProperties DEF Typed
<1>5. ASSUME style = "indexed"
      PROVE  /\ {k \in Calls : sent[k] # -1} = 1 .. m
             /\ \A i \in DOMAIN order :
                   order[i] = i /\ args[i] = [n \in 1 .. sent[i] |-> <<i, n>>]
  <2>1. \A i \in DOMAIN order : order[i] = i /\ i \in DOMAIN args /\ i \in Calls
    BY <1>1, <1>5, ElementOfSeq DEF PartialInOrder, Typed
  <2>2. seen = {k \in Calls : sent[k] # -1}
    BY <1>1, <1>5 DEF Slots
  <2>3. ASSUME NEW k \in seen PROVE k \in 1 .. m
    <3>1. PICK i \in DOMAIN Emitted : Is(i, "start") /\ Emitted[i].id = k
      BY <1>1 DEF Contract
    <3>2. k <= m
      BY <3>1, <1>1, <1>3, <1>4, <1>5 DEF PartialInOrder
    <3>3. k \in Nat /\ k > 0
      BY <1>1, CallsAre DEF Typed
    <3> QED
      BY <3>2, <3>3
  <2>4. ASSUME NEW k \in 1 .. m PROVE k \in seen
    <3>1. k \in DOMAIN args
      BY <1>4, <2>1
    <3>2. PICK j \in 1 .. Taken : Is(j, "start") /\ Emitted[j].id = k
      BY <3>1, <1>1 DEF Partial
    <3> QED
      BY <3>2, <1>1 DEF Contract, Is
  <2>5. ASSUME NEW i \in DOMAIN order PROVE args[i] = [n \in 1 .. sent[i] |-> <<i, n>>]
    <3>1. i \in DOMAIN args /\ i \in Calls /\ args[i] \in Seq(PartSet)
      BY <2>1, <1>1 DEF Typed
    <3>2. PICK l \in Nat : l = Len(args[i]) /\ args[i] = [n \in 1 .. l |-> args[i][n]]
      BY <3>1, LenProperties
    <3>3. PICK s \in Int : s = sent[i]
      BY <3>1, <1>1 DEF Typed
    <3>4. l <= s /\ \A n \in 1 .. l : args[i][n] = <<i, n>>
      <4>1. DOMAIN args[i] = 1 .. l
        BY <3>1, <3>2, LenProperties
      <4> QED
        BY <4>1, <3>1, <3>2, <3>3, <1>1, <1>5 DEF PartialInOrder
    <3>5. ASSUME l < s PROVE FALSE
      <4>1. l + 1 \in 1 .. sent[i]
        BY <3>3, <3>5
      <4>2. PICK e \in DOMAIN Emitted : Is(e, "args") /\ Emitted[e].part = <<i, l + 1>>
        BY <4>1, <3>1, <1>1, <1>5 DEF InTheirOrder
      <4>3. Emitted[e].id = i /\ Emitted[e].part[2] = l + 1
        BY <4>2, <1>1, <1>5 DEF InTheirOrder
      <4>4. l + 1 <= l
        BY <4>2, <4>3, <3>1, <3>2, <1>1, <1>3, <1>5 DEF PartialInOrder
      <4> QED
        BY <4>4
    <3>6. l = s
      BY <3>4, <3>5
    <3>7. [n \in 1 .. l |-> args[i][n]] = [n \in 1 .. l |-> <<i, n>>]
      BY <3>4
    <3> QED
      BY <3>2, <3>3, <3>6, <3>7
  <2> QED
    BY <2>1, <2>2, <2>3, <2>4, <2>5
<1> QED
  BY <1>2, <1>4, <1>5

\* Arguments that are JSON are those of their own call.
LEMMA JSONIsOwn ==
    ASSUME Partial, agent = "reading", NEW id \in DOMAIN args, IsJSON(args[id])
    PROVE  args[id] \in {<<>>, Complete(id)}
<1> SUFFICES ASSUME args[id] # <<>> PROVE args[id] = Complete(id)
  OBVIOUS
<1>1. PICK k \in Calls : args[id] = Complete(k)
  BY DEF IsJSON
<1>2. args[id][1][1] = id
  BY DEF Partial
<1>3. 1 \in 1 .. Parts[k]
  BY CallsAre
<1>4. args[id][1] = <<k, 1>>
  BY <1>1, <1>3 DEF Complete
<1> QED
  BY <1>1, <1>2, <1>4

LEMMA IntervalSeq ==
    ASSUME NEW S, NEW m \in Nat, NEW f \in [1 .. m -> S]
    PROVE  f \in Seq(S) /\ Len(f) = m /\ DOMAIN f = 1 .. m
OBVIOUS

LEMMA OnMessageEndKeeps == ASSUME StreamInv, OnMessageEnd PROVE StreamInv'
<1>1. Take("messageEnd") /\ UNCHANGED <<provider, translator, log, message, results>>
  BY DEF OnMessageEnd
<1>2. /\ Typed /\ TranslatorInv' /\ Channel' /\ chan' \in Seq(EventSet) /\ Len(chan') <= BufCap
      /\ results = <<>> /\ agent = "reading" /\ Partial
      /\ UNCHANGED <<style, cap, sent, reader, slots, seen, pending>>
  BY <1>1, TakeIs
<1>3. /\ reader # "open"
      /\ style = "indexed" =>
            /\ {k \in Calls : sent[k] # -1} = 1 .. Len(order)
            /\ \A i \in DOMAIN order :
                  order[i] = i /\ args[i] = [n \in 1 .. sent[i] |-> <<i, n>>]
  BY <1>1, AllWasTaken
<1>4. /\ agent' \in {"empty", "answered", "tools", "save failed"}
      /\ agent' = "tools" => \A id \in DOMAIN args : IsJSON(args[id])
  BY DEF OnMessageEnd
<1>5. PICK m \in Nat : m = Len(order) /\ DOMAIN order = 1 .. m
  BY <1>2, LenProperties DEF Typed
<1>6. /\ calls' = [i \in 1 .. m |-> [id |-> order[i], args |-> args[order[i]]]]
      /\ out' = [i \in 1 .. m |-> NoId]
  BY <1>5 DEF OnMessageEnd, Assembled
<1>7. \A i \in 1 .. m : order[i] \in Calls /\ order[i] \in DOMAIN args /\ args[order[i]] \in Seq(PartSet)
  BY <1>2, <1>5, ElementOfSeq DEF Typed
<1>8. /\ calls' \in Seq([id : Calls, args : Seq(PartSet)]) /\ Len(calls') = m
      /\ out' \in Seq({NoId} \cup Calls)
      /\ DOMAIN calls' = 1 .. m /\ DOMAIN out' = 1 .. m
  <2>1. calls' \in [1 .. m -> [id : Calls, args : Seq(PartSet)]]
    BY <1>6, <1>7
  <2>2. out' \in [1 .. m -> {NoId} \cup Calls]
    BY <1>6
  <2>3. calls' \in Seq([id : Calls, args : Seq(PartSet)]) /\ Len(calls') = m /\ DOMAIN calls' = 1 .. m
    BY <2>1, IntervalSeq, Zenon
  <2>4. out' \in Seq({NoId} \cup Calls) /\ DOMAIN out' = 1 .. m
    BY <2>2, IntervalSeq, Zenon
  <2> QED
    BY <2>3, <2>4
<1>9. Results'
  <2>1. agent' \notin {"reading", "too large", "stream failed"}
    BY <1>4
  <2>2. \A i \in DOMAIN calls' : out'[i] = NoId
    BY <1>6, <1>8
  <2>3. results' = <<>> /\ reader' # "open"
    BY <1>1, <1>2, <1>3
  <2> QED
    BY <2>1, <2>2, <2>3, <1>8 DEF Results
<1>10. ToolsRunOnOwnArguments'
  <2> SUFFICES ASSUME agent' = "tools", NEW i \in 1 .. m
               PROVE  calls'[i].args \in {<<>>, Complete(calls'[i].id)}
    BY <1>8 DEF ToolsRunOnOwnArguments, Complete
  <2>1. calls'[i].id = order[i] /\ calls'[i].args = args[order[i]]
    BY <1>6
  <2> QED
    BY <2>1, <1>2, <1>4, <1>7, JSONIsOwn
<1>11. MessageFaithful'
  <2> SUFFICES ASSUME style = "indexed"
               PROVE  /\ Len(calls') = Cardinality({k \in Calls : sent[k] # -1})
                      /\ \A i \in DOMAIN calls' : calls'[i].id = i
                            /\ calls'[i].args = [n \in 1 .. sent[i] |-> <<i, n>>]
    BY <1>2 DEF MessageFaithful
  <2>1. Cardinality(1 .. m) = m
    <3>1. Cardinality(1 .. m) = IF 1 > m THEN 0 ELSE m - 1 + 1
      BY FS_Interval
    <3> QED
      BY <3>1
  <2>2. \A i \in 1 .. m : calls'[i].id = order[i] /\ calls'[i].args = args[order[i]]
    BY <1>6
  <2>3. Len(calls') = Cardinality({k \in Calls : sent[k] # -1})
    BY <2>1, <1>3, <1>5, <1>8
  <2>4. \A i \in 1 .. m : order[i] = i /\ args[i] = [n \in 1 .. sent[i] |-> <<i, n>>]
    BY <1>3, <1>5
  <2>5. ASSUME NEW i \in 1 .. m
        PROVE  calls'[i].id = i /\ calls'[i].args = [n \in 1 .. sent[i] |-> <<i, n>>]
    <3>1. calls'[i].id = order[i] /\ order[i] = i /\ calls'[i].args = args[order[i]]
      BY <2>2, <2>4
    <3>2. args[i] = [n \in 1 .. sent[i] |-> <<i, n>>]
      BY <2>4
    <3> QED
      BY <3>1, <3>2, Zenon
  <2> QED
    BY <2>3, <2>5, <1>8
<1>12. Partial' /\ PartialInOrder'
  BY <1>4 DEF Partial, PartialInOrder
<1>13. Typed'
  BY <1>1, <1>2, <1>4 DEF Typed, message, Outcomes
<1> QED
  BY <1>2, <1>9, <1>10, <1>11, <1>12, <1>13 DEF StreamInv, RunInv

\* The tools and their results.
LEMMA ExecOneKeeps ==
    ASSUME StreamInv, NEW i \in DOMAIN calls, ExecOne(i) PROVE StreamInv'
<1>1. /\ agent = "tools" /\ out' = [out EXCEPT ![i] = calls[i].id]
      /\ UNCHANGED <<provider, translator, chan, log, agent, message, calls, results>>
  BY DEF ExecOne
<1>2. TranslatorInv' /\ Emitted' = Emitted
  BY <1>1, RunLeavesTranslator
<1>3. Typed /\ Channel /\ RunInv
  BY DEF StreamInv
<1>4. Typed'
  BY <1>1, <1>3 DEF Typed, provider, translator, message
<1>5. Channel'
  BY <1>1, <1>3 DEF Channel, Taken
<1>6. Results'
  <2>1. /\ calls \in Seq([id : Calls, args : Seq(PartSet)])
        /\ out \in Seq({NoId} \cup Calls) /\ DOMAIN out = DOMAIN calls
        /\ \A j \in DOMAIN calls : out[j] \in {NoId, calls[j].id}
        /\ reader # "open"
        /\ results # <<>> => results = [j \in DOMAIN calls |-> calls[j].id]
    BY <1>1, <1>3 DEF RunInv, Results
  <2>2. calls[i].id \in Calls
    <3>1. calls[i] \in [id : Calls, args : Seq(PartSet)]
      BY <2>1, ElementOfSeq, LenProperties
    <3> QED
      BY <3>1
  <2>3. out' \in Seq({NoId} \cup Calls) /\ DOMAIN out' = DOMAIN out
    <3>1. PICK m \in Nat : DOMAIN out = 1 .. m /\ out \in [1 .. m -> {NoId} \cup Calls]
      BY <2>1, LenProperties
    <3>2. out' \in [1 .. m -> {NoId} \cup Calls]
      BY <3>1, <2>2, <1>1
    <3> QED
      BY <3>1, <3>2
  <2>4. \A j \in DOMAIN calls : out'[j] \in {NoId, calls[j].id}
    BY <2>1, <1>1
  <2> QED
    BY <2>1, <2>3, <2>4, <1>1 DEF Results, translator
<1>7. ToolsRunOnOwnArguments' /\ MessageFaithful'
  BY <1>1, <1>3 DEF RunInv, ToolsRunOnOwnArguments, MessageFaithful, provider
<1>8. Partial' /\ PartialInOrder'
  BY <1>1 DEF Partial, PartialInOrder
<1> QED
  BY <1>2, <1>4, <1>5, <1>6, <1>7, <1>8 DEF StreamInv, RunInv

LEMMA AppendResultsKeeps == ASSUME StreamInv, AppendResults PROVE StreamInv'
<1>1. /\ agent = "tools" /\ results' = out /\ agent' \in {"next step", "save failed"}
      /\ \A i \in DOMAIN out : out[i] # NoId
      /\ UNCHANGED <<provider, translator, chan, log, message, calls, out>>
  BY DEF AppendResults
<1>2. TranslatorInv' /\ Emitted' = Emitted
  BY <1>1, RunLeavesTranslator
<1>3. Typed /\ Channel /\ RunInv
  BY DEF StreamInv
<1>4. Typed'
  BY <1>1, <1>3 DEF Typed, provider, translator, message, Outcomes
<1>5. Channel'
  BY <1>1, <1>3 DEF Channel, Taken
<1>6. Results'
  <2>1. /\ calls \in Seq([id : Calls, args : Seq(PartSet)])
        /\ out \in Seq({NoId} \cup Calls) /\ DOMAIN out = DOMAIN calls
        /\ \A j \in DOMAIN calls : out[j] \in {NoId, calls[j].id}
        /\ reader # "open"
    BY <1>1, <1>3 DEF RunInv, Results
  <2>2. out = [j \in DOMAIN calls |-> out[j]]
    <3>1. out = [j \in 1 .. Len(out) |-> out[j]] /\ DOMAIN out = 1 .. Len(out)
      BY <2>1, LenProperties
    <3> QED
      BY <3>1, <2>1
  <2>3. [j \in DOMAIN calls |-> out[j]] = [j \in DOMAIN calls |-> calls[j].id]
    BY <2>1, <1>1
  <2>4. results' = [j \in DOMAIN calls |-> calls[j].id]
    BY <2>2, <2>3, <1>1
  <2> QED
    BY <2>1, <2>4, <1>1 DEF Results, translator
<1>7. ToolsRunOnOwnArguments' /\ MessageFaithful'
  BY <1>1, <1>3 DEF RunInv, ToolsRunOnOwnArguments, MessageFaithful, provider
<1>8. Partial' /\ PartialInOrder'
  BY <1>1 DEF Partial, PartialInOrder
<1> QED
  BY <1>2, <1>4, <1>5, <1>6, <1>7, <1>8 DEF StreamInv, RunInv

-----------------------------------------------------------------------------
(* The theorems.                                                             *)

LEMMA RoomAtFirst == 0 <= Cardinality(Calls) + 1 /\ 0 <= BufCap
<1>1. \A c \in Nat : 0 <= c + 1
  OBVIOUS
<1>2. Cardinality(Calls) \in Nat
  BY CallsAre
<1>3. 0 <= BufCap
  BY StreamParameters
<1> QED
  BY <1>1, <1>2, <1>3, Zenon

LEMMA InitHolds == ASSUME Init PROVE StreamInv
<1>1. /\ style \in Styles /\ cap \in Caps /\ sent = [k \in Calls |-> -1] /\ reader = "open"
      /\ slots = <<>> /\ seen = {} /\ pending = <<>> /\ chan = <<>> /\ log = <<>>
      /\ agent = "reading" /\ order = <<>> /\ args = <<>>
      /\ calls = <<>> /\ out = <<>> /\ results = <<>>
  BY DEF Init
<1>2. Calls = 1 .. Len(Parts) /\ Len(Parts) \in Nat /\ \A k \in Calls : Parts[k] \in Nat
      /\ Cardinality(Calls) \in Nat
  BY CallsAre
<1>3. \A s : s = <<>> => Len(s) = 0 /\ \A i \in DOMAIN s : FALSE
  <2> SUFFICES ASSUME NEW s, s = <<>> PROVE Len(s) = 0 /\ \A i \in DOMAIN s : FALSE
    OBVIOUS
  <2>1. s \in Seq({}) /\ Len(s) = 0
    BY EmptySeq
  <2>2. DOMAIN s = 1 .. Len(s)
    BY <2>1, LenProperties
  <2> QED
    BY <2>1, <2>2, NoneIn, Zenon
<1>4. Emitted = <<>> /\ Taken = 0
  <2>1. log \in Seq(EventSet) /\ log \o <<>> = log
    BY <1>1, EmptySeq, ConcatEmptySeq
  <2>2. Len(log) = 0 /\ Len(chan) = 0
    BY <1>1, <1>3
  <2> QED
    BY <1>1, <2>1, <2>2 DEF Emitted, Taken
<1>5. Typed
  <2>1. sent \in [Calls -> Int] /\ \A k \in Calls : sent[k] \in -1 .. Parts[k]
    BY <1>1, <1>2
  <2>2. /\ log \in Seq(EventSet) /\ pending \in Seq(EventSet) /\ chan \in Seq(EventSet)
        /\ order \in Seq(Calls)
    BY <1>1, EmptySeq
  <2>3. Len(pending) <= Cardinality(Calls) + 1 /\ Len(chan) <= BufCap
    <3>1. Len(pending) = 0 /\ Len(chan) = 0
      BY <1>1, <1>3
    <3>2. 0 <= Cardinality(Calls) + 1 /\ 0 <= BufCap
      BY RoomAtFirst
    <3> QED
      BY <3>1, <3>2, Zenon
  <2>4. DOMAIN args = {order[i] : i \in DOMAIN order} /\ \A id \in DOMAIN args : FALSE
    BY <1>1, <1>3
  <2> QED
    BY <1>1, <2>1, <2>2, <2>3, <2>4 DEF Typed
<1>6. \A i \in DOMAIN Emitted : FALSE
  BY <1>3, <1>4
<1>7. \A k \in Calls : sent[k] = -1
  BY <1>1
<1>8. Slots
  <2>1. \A i \in DOMAIN slots : FALSE
    BY <1>1, <1>3
  <2> QED
    BY <1>1, <1>7, <2>1 DEF Slots
<1>9. Contract
  BY <1>1, <1>6 DEF Contract
<1>10. FirstOwn /\ InTheirOrder
  <2>1. \A k \in Calls : ~(sent[k] > 0) /\ \A n \in 1 .. sent[k] : FALSE
    BY <1>7
  <2> QED
    BY <1>6, <2>1 DEF FirstOwn, InTheirOrder
<1>11. Channel
  <2>1. Len(chan) = 0 /\ Len(log) = 0
    BY <1>1, <1>3
  <2> QED
    BY <2>1, NoneIn DEF Channel
<1>12. Results /\ ToolsRunOnOwnArguments /\ MessageFaithful
  <2>1. /\ calls \in Seq([id : Calls, args : Seq(PartSet)]) /\ out \in Seq({NoId} \cup Calls)
        /\ DOMAIN out = DOMAIN calls /\ \A i \in DOMAIN calls : FALSE
    BY <1>1, <1>3, EmptySeq
  <2> QED
    BY <1>1, <2>1 DEF Results, ToolsRunOnOwnArguments, MessageFaithful
<1>13. Partial /\ PartialInOrder
  <2>1. \A i \in DOMAIN order : FALSE
    BY <1>1, <1>3
  <2>2. \A i \in DOMAIN args : FALSE
    BY <1>1, <1>3
  <2>3. \A i \in 1 .. Taken : FALSE
    BY <1>4, NoneIn
  <2> QED
    BY <1>6, <2>1, <2>2, <2>3 DEF Partial, PartialInOrder
<1> QED
  BY <1>5, <1>8, <1>9, <1>10, <1>11, <1>12, <1>13 DEF StreamInv, TranslatorInv, RunInv

LEMMA NextKeeps == ASSUME StreamInv, [Next]_vars PROVE StreamInv'
<1>1. CASE UNCHANGED vars
  <2>1. UNCHANGED <<style, cap, sent, reader, slots, seen, pending, chan, log, agent,
                    order, args, text, calls, out, results>>
    BY <1>1 DEF vars, provider, translator, message, tools
  <2>2. Emitted' = Emitted /\ Taken' = Taken
    BY <2>1 DEF Emitted, Taken
  <2>3. Typed'
    BY <2>1 DEF StreamInv, Typed
  <2>4. TranslatorInv'
    BY <2>1, <2>2, TranslatorUnmoved DEF StreamInv, TranslatorInv, Contract
  <2>5. Channel'
    BY <2>1, <2>2 DEF StreamInv, Channel
  <2>6. Partial' /\ PartialInOrder'
    BY <2>1, <2>2 DEF StreamInv, RunInv, Partial, PartialInOrder, Is
  <2>7. Results' /\ ToolsRunOnOwnArguments' /\ MessageFaithful'
    BY <2>1 DEF StreamInv, RunInv, Results, ToolsRunOnOwnArguments, MessageFaithful
  <2> QED
    BY <2>3, <2>4, <2>5, <2>6, <2>7 DEF StreamInv, RunInv
<1>2. CASE Translate
  BY <1>2, RecvTextKeeps, RecvCallKeeps, RecvEOFKeeps, RecvErrorKeeps, SendKeeps,
     CloseChannelKeeps DEF Translate
<1>3. CASE Run
  BY <1>3, OnTextKeeps, OnStartKeeps, OnArgsKeeps, OnEndKeeps, OnMessageEndKeeps,
     OnErrorKeeps, ExecOneKeeps, AppendResultsKeeps DEF Run
<1> QED
  BY <1>1, <1>2, <1>3 DEF Next

\* Of translateStream and Run together: what the translator has sent and has yet to
\* send keeps the contract, and Run has what it has taken of it.
THEOREM StreamInvariant == Spec => []StreamInv
<1>1. Init => StreamInv
  BY InitHolds
<1>2. StreamInv /\ [Next]_vars => StreamInv'
  BY NextKeeps
<1> QED
  BY <1>1, <1>2, PTL DEF Spec

\* The variables stay within their types: no more events wait than there are calls
\* and one, and no call has more parts than the limit.
THEOREM StreamTypeCorrect == Spec => []TypeOK
<1>1. StreamInv => TypeOK
  <2> SUFFICES ASSUME StreamInv PROVE TypeOK
    OBVIOUS
  <2>1. Typed /\ Slots
    BY DEF StreamInv, TranslatorInv
  <2>2. \A i \in DOMAIN slots : slots[i] \in {NoId} \cup Calls
    BY <2>1 DEF Typed, Slots
  <2>3. \A i \in DOMAIN order : order[i] \in Calls
    BY <2>1, ElementOfSeq, LenProperties DEF Typed
  <2> QED
    BY <2>1, <2>2, <2>3 DEF Typed, TypeOK
<1> QED
  BY <1>1, StreamInvariant, PTL

LEMMA AtMostOne ==
    ASSUME NEW S, \A x, y \in S : x = y
    PROVE  Cardinality(S) <= 1
<1>1. CASE S = {}
  <2>1. Cardinality({}) = 0
    BY FS_EmptySet
  <2> QED
    BY <1>1, <2>1
<1>2. CASE S # {}
  <2>1. PICK x : S = {x}
    BY <1>2
  <2>2. Cardinality({x}) = 1
    BY FS_Singleton
  <2> QED
    BY <2>1, <2>2
<1> QED
  BY <1>1, <1>2

\* "Exactly one of EventMessageEnd / EventError is emitted per stream; after either,
\* the channel is closed; ToolCall events arrive in the order Start -> Args* -> End,
\* before EventMessageEnd" (llm/types.go), whatever the calls and however their chunks
\* alternate.
THEOREM StreamContractHolds == Spec => []StreamContract
<1>1. ASSUME StreamInv PROVE StreamContract
  <2>1. Typed /\ Contract /\ seen \subseteq Calls
    BY <1>1 DEF StreamInv, TranslatorInv, Typed
  <2>2. PICK n \in Nat, m \in Nat :
           /\ n = Len(log) /\ m = Len(Emitted) /\ n <= m /\ (pending = <<>> => m = n)
           /\ DOMAIN log = 1 .. n /\ DOMAIN Emitted = 1 .. m
    <3>1. /\ Len(log) \in Nat /\ Len(pending) \in Nat /\ Len(Emitted) = Len(log) + Len(pending)
          /\ DOMAIN Emitted = 1 .. Len(Emitted) /\ Len(Emitted) \in Nat
      BY <2>1, EmittedIs
    <3>2. pending = <<>> => Len(pending) = 0
      BY EmptySeq
    <3>3. DOMAIN log = 1 .. Len(log)
      BY <2>1, LenProperties DEF Typed
    <3>4. \A l, q \in Nat : l <= l + q /\ (q = 0 => l + q = l)
      OBVIOUS
    <3>5. Len(log) <= Len(Emitted) /\ (pending = <<>> => Len(Emitted) = Len(log))
      BY <3>1, <3>2, <3>4, Zenon
    <3> QED
      BY <3>1, <3>3, <3>5, Zenon
  <2>3. \A i \in 1 .. n : Emitted[i] = log[i] /\ i \in DOMAIN Emitted
    BY <2>1, <2>2, EmittedIs
  <2>4. ASSUME NEW type, NEW id
        PROVE  \A i : i \in At(type, id) <=> i \in 1 .. n /\ Is(i, type) /\ Emitted[i].id = id
    BY <2>2, <2>3 DEF At, Is
  <2>5. ASSUME NEW i \in DOMAIN log, log[i].type \in Terminators PROVE i = Len(log)
    <3>1. i = m /\ i <= n
      BY <2>1, <2>2, <2>3, <2>5 DEF Contract
    <3> QED
      BY <3>1, <2>2
  <2>6. ASSUME reader = "closed" PROVE log # <<>> /\ Last(log).type \in Terminators
    <3>1. m = n /\ Emitted # <<>> /\ Emitted[m].type \in Terminators
      BY <2>1, <2>2, <2>6 DEF Contract
    <3>2. m # 0
      BY <3>1, <2>1, <2>2, EmittedIs, EmptySeq
    <3>3. Emitted[m] = log[m]
      BY <3>1, <3>2, <2>3
    <3>4. log # <<>>
      BY <3>1, <3>2, <2>2, EmptySeq
    <3> QED
      BY <3>1, <3>3, <3>4, <2>2 DEF Last
  <2>7. ASSUME NEW id \in Calls
        PROVE  /\ Cardinality(At("start", id)) <= 1 /\ Cardinality(At("end", id)) <= 1
               /\ \A a \in At("args", id) : \E s \in At("start", id) : s < a
               /\ \A e \in At("end", id) :
                     /\ At("start", id) # {}
                     /\ \A i \in At("start", id) \cup At("args", id) : i < e
    <3>1. Cardinality(At("start", id)) <= 1
      <4>1. \A x, y \in At("start", id) : x = y
        BY <2>1, <2>3, <2>4 DEF Contract
      <4> QED
        BY <4>1, AtMostOne
    <3>2. Cardinality(At("end", id)) <= 1
      <4>1. \A x, y \in At("end", id) : x = y
        BY <2>1, <2>3, <2>4 DEF Contract
      <4> QED
        BY <4>1, AtMostOne
    <3>3. ASSUME NEW a \in At("args", id) PROVE \E s \in At("start", id) : s < a
      <4>1. a \in 1 .. n /\ Is(a, "args") /\ Emitted[a].id = id
        BY <2>4
      <4>2. PICK s \in 1 .. a - 1 : Is(s, "start") /\ Emitted[s].id = id
        BY <4>1, <2>1, <2>3 DEF Contract
      <4>3. s \in 1 .. n /\ s < a
        BY <4>1
      <4> QED
        BY <4>2, <4>3, <2>4
    <3>4. ASSUME NEW e \in At("end", id), NEW i \in DOMAIN Emitted, Emitted[i].id = id,
                 Is(i, "start") \/ Is(i, "args")
          PROVE  i \in 1 .. n /\ i < e
      <4>1. e \in 1 .. n /\ Is(e, "end") /\ e \in DOMAIN Emitted
        BY <2>3, <2>4
      <4>2. ~(e < i) /\ i # e
        BY <4>1, <3>4, <2>1 DEF Contract, Is, Terminators
      <4> QED
        BY <4>1, <4>2, <2>2
    <3>5. ASSUME NEW e \in At("end", id) PROVE At("start", id) # {}
      <4>1. e \in 1 .. n /\ Is(e, "end") /\ Emitted[e].id = id /\ e \in DOMAIN Emitted
        BY <2>3, <2>4
      <4>2. id \in seen
        BY <4>1, <2>1, CallsAre DEF Contract
      <4>3. PICK i \in DOMAIN Emitted : Is(i, "start") /\ Emitted[i].id = id
        BY <4>2, <2>1 DEF Contract
      <4>4. i \in At("start", id)
        BY <4>3, <3>4, <2>4
      <4> QED
        BY <4>4
    <3>6. ASSUME NEW e \in At("end", id), NEW i \in At("start", id) \cup At("args", id)
          PROVE  i < e
      BY <3>4, <2>3, <2>4
    <3> QED
      BY <3>1, <3>2, <3>3, <3>5, <3>6
  <2> QED
    BY <2>5, <2>6, <2>7 DEF StreamContract
<1> QED
  BY <1>1, StreamInvariant, PTL

\* A tool never runs with arguments of another call, with a part of its own, or with
\* parts out of their order - not even when a provider marks its chunks with no index
\* and they all end up in one slot.
THEOREM ToolsRunOnOwn == Spec => []ToolsRunOnOwnArguments
<1>1. StreamInv => ToolsRunOnOwnArguments
  BY DEF StreamInv, RunInv
<1> QED
  BY <1>1, StreamInvariant, PTL

\* With an index the message that is saved has every call that was begun, in order, with
\* all of its arguments, however their chunks alternated.
THEOREM MessageIsFaithful == Spec => []MessageFaithful
<1>1. StreamInv => MessageFaithful
  BY DEF StreamInv, RunInv
<1> QED
  BY <1>1, StreamInvariant, PTL

\* The model gets a result for each call, in their order, in whatever order the tools
\* end.
THEOREM ResultsAreInOrder == Spec => []ResultsInCallOrder
<1>1. StreamInv => ResultsInCallOrder
  BY DEF StreamInv, RunInv, Results, ResultsInCallOrder
<1> QED
  BY <1>1, StreamInvariant, PTL
=============================================================================
