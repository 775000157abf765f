---------------------------- MODULE SessionTurns ----------------------------
(***************************************************************************)
(* One conversation of the bot: the Redis session record and the Redis     *)
(* lock that belong to one session key, and the handlers (goroutines,      *)
(* possibly of several bot instances) that work on them.                   *)
(*                                                                         *)
(* Every inbound event is handled once, by its own goroutine               *)
(* (cmd/bot/main.go).  A chat message runs one agent turn under the lock   *)
(* (internal/lark/handler.go, internal/agent/loop.go); /clear and /model   *)
(* run without it (internal/lark/commands.go).  All state of one key is    *)
(* disjoint from that of the others, so one key is modelled.               *)
(*                                                                         *)
(* Time is counted in ticks.  The lock and every handler count down, so no *)
(* clock is needed and the state stays finite.                             *)
(***************************************************************************)
EXTENDS Integers, Sequences

CONSTANTS
    Messages,        \* chat messages: each one runs an agent turn
    Clears,          \* /clear commands
    Switches,        \* /model commands; each one selects an alias of its own
    Instances,       \* bot processes, a restarted one counts as another
    InstanceOf,      \* the process that received each event
    LockTTL,         \* LockTTL of handler.go, in ticks
    TurnCap,         \* the 5 minute context of main.go, in ticks
    MaxSteps,        \* agent.DefaultMaxSteps
    MaxMessages,     \* session.MaxMessages
    RedisFaults,     \* may a Redis call fail or lose its reply?
    TurnsFitLease,   \* does every turn end before its lock expires?
    DefaultProvider, \* llm.default_provider
    NoSession,       \* Store.Get returned nil
    NoOwner          \* the lock key does not exist

Handlers == Messages \cup Clears \cup Switches

ASSUME HandlersDisjoint ==
    /\ Messages \cap Clears = {}
    /\ Messages \cap Switches = {}
    /\ Clears \cap Switches = {}
    /\ NoOwner \notin Messages
ASSUME InstanceOfType == InstanceOf \in [Handlers -> Instances]
ASSUME BoundsType ==
    /\ LockTTL \in Nat \ {0}
    /\ TurnCap \in Nat \ {0}
    /\ MaxSteps \in Nat \ {0}
    /\ MaxMessages \in Nat \ {0}
ASSUME FlagsType == RedisFaults \in BOOLEAN /\ TurnsFitLease \in BOOLEAN

VARIABLES
    lock,      \* bot:lock:<key>: the turn whose token is stored, or NoOwner
    lockLeft,  \* ticks until Redis expires the lock key
    store,     \* bot:sess:<key>
    inst,      \* stage of each process
    pc,        \* where each handler is
    sess,      \* the handler's own *session.Session
    step,      \* completed iterations of the agent loop
    budget,    \* ticks left of the turn's context
    reply,     \* what the user got
    lease,     \* history: ticks left of the lock this turn was granted
    orphaned   \* history: turns whose SETNX or release lost its reply or failed

redisVars == <<lock, lockLeft, store>>
turnVars  == <<pc, sess, step, budget, reply>>
history   == <<lease, orphaned>>
vars      == <<redisVars, inst, turnVars, history>>

-----------------------------------------------------------------------------
(* Rows of a transcript.  A row carries the turn that wrote it; `calls` says *)
(* that an assistant row asks for tools.  One tool row stands for the        *)
(* results of one step; StreamStep.tla has the calls one by one.             *)

Row == [role : {"user", "assistant", "tool"}, by : Messages,
        step : 0 .. MaxSteps, calls : BOOLEAN]
Session == [provider : Switches \cup {DefaultProvider}, msgs : Seq(Row)]

\* nil is not a session.
ASSUME NoSessionType == NoSession \notin Session

UserRow(t)        == [role |-> "user", by |-> t, step |-> 0, calls |-> FALSE]
AssistantRow(t, c) == [role |-> "assistant", by |-> t, step |-> step[t], calls |-> c]
ToolRow(t)        == [role |-> "tool", by |-> t, step |-> step[t], calls |-> FALSE]

\* Fault: the oldest row is kept for context.
TrimKeepsFirst(msgs) ==
    IF Len(msgs) > MaxMessages
    THEN <<msgs[1]>> \o SubSeq(msgs, Len(msgs) - MaxMessages + 2, Len(msgs))
    ELSE msgs

TrimMessages(msgs) ==
    IF Len(msgs) > MaxMessages
    THEN SubSeq(msgs, Len(msgs) - MaxMessages + 1, Len(msgs))
    ELSE msgs

\* The stored history; none is as good as an empty one.
Transcript == IF store = NoSession THEN <<>> ELSE store.msgs

-----------------------------------------------------------------------------
(* Handlers and their contexts.                                              *)

\* Between TryAcquire and the deferred Release.  A "stuck" turn is one whose
\* emit never returns (CardPipe.tla): it neither proceeds nor releases.
Holding(t) == pc[t] \in {"load", "card", "user", "stream", "tools",
                         "answered", "failed", "release"}
Stages     == {"idle", "load", "card", "user", "stream", "tools", "answered",
               "failed", "release", "switch", "stuck", "done", "dead"}
Over(h)    == pc[h] \in {"stuck", "done", "dead"}
Running(h) == pc[h] # "idle" /\ ~Over(h)

\* Fault: the deadline of the turn is not passed on.
NoDeadline(h) == inst[InstanceOf[h]] \in {"cancelled", "closed"}

\* Commands make one or two Redis calls and end long before their context.
CtxDone(h) ==
    \/ h \in Messages /\ budget[h] = 0
    \/ inst[InstanceOf[h]] \in {"cancelled", "closed"}
RedisClosed(h) == inst[InstanceOf[h]] = "closed"

Goto(h, stage) == pc' = [pc EXCEPT ![h] = stage]
Answer(h, r)   == reply' = [reply EXCEPT ![h] = r]

\* RedisStore.Save of the session s: trim it in place, then SET.
Stored(h, s, applied) ==
    LET trimmed == [s EXCEPT !.msgs = TrimMessages(@)] IN
    /\ sess' = [sess EXCEPT ![h] = trimmed]
    /\ store' = IF applied THEN trimmed ELSE store
    /\ UNCHANGED <<lock, lockLeft>>

SaveSucceeds(h, s) == ~CtxDone(h) /\ Stored(h, s, TRUE)

\* The call has no effect, or it is applied and its reply is lost.
SaveErrs(h, s) ==
    \/ CtxDone(h) /\ Stored(h, s, FALSE)
    \/ RedisFaults /\ ~CtxDone(h) /\ \E applied \in BOOLEAN : Stored(h, s, applied)

\* Fault: the error of the save is not looked at.
SaveUnchecked(h, s, ok, err) ==
    (SaveSucceeds(h, s) \/ SaveErrs(h, s)) /\ Goto(h, ok)

Save(h, s, ok, err) ==
    \/ SaveSucceeds(h, s) /\ Goto(h, ok)
    \/ SaveErrs(h, s) /\ Goto(h, err)

\* What Get returns; nil becomes a new session in the callers.
Fetched == IF store = NoSession
           THEN [provider |-> DefaultProvider, msgs |-> <<>>]
           ELSE store

DeleteSession == store' = NoSession

\* SET key token NX EX ttl, granted.
GrantLock(t) == lock' = t /\ lockLeft' = LockTTL

\* The release script: DEL if the stored token is the turn's own.
DropLock(t) ==
    /\ lock' = IF lock = t THEN NoOwner ELSE lock
    /\ lockLeft' = IF lock = t THEN 0 ELSE lockLeft

Extend(t, row) == [sess[t] EXCEPT !.msgs = Append(@, row)]

Init ==
    /\ lock = NoOwner
    /\ lockLeft = 0
    /\ store = NoSession
    /\ inst = [i \in Instances |-> "up"]
    /\ pc = [h \in Handlers |-> "idle"]
    /\ sess = [h \in Handlers |-> NoSession]
    /\ step = [t \in Messages |-> 0]
    /\ budget = [t \in Messages |-> TurnCap]
    /\ reply = [h \in Handlers |-> "none"]
    /\ lease = [t \in Messages |-> 0]
    /\ orphaned = {}

-----------------------------------------------------------------------------
(* A chat message: Handler.Handle.                                           *)

\* Fault: SET without NX.
AcquireAlways(t) ==
    /\ pc[t] = "idle"
    /\ \/ /\ ~CtxDone(t)
          /\ GrantLock(t)
          /\ lease' = [lease EXCEPT ![t] = LockTTL]
          /\ Goto(t, "load")
          /\ UNCHANGED <<reply, orphaned>>
       \/ /\ CtxDone(t) \/ RedisFaults
          /\ Goto(t, "done") /\ Answer(t, "failed")
          /\ UNCHANGED <<lock, lockLeft, lease, orphaned>>
    /\ UNCHANGED <<store, inst, sess, step, budget>>

\* Fault: SET NX without an expiry.
AcquireForever(t) ==
    /\ pc[t] = "idle"
    /\ \/ /\ ~CtxDone(t) /\ lock = NoOwner
          /\ lock' = t /\ Goto(t, "load")
          /\ UNCHANGED reply
       \/ /\ ~CtxDone(t) => lock # NoOwner
          /\ Goto(t, "done") /\ Answer(t, "busy")
          /\ UNCHANGED lock
    /\ UNCHANGED <<lockLeft, store, inst, sess, step, budget, history>>

\* SET key token NX EX ttl.  The client retries a call whose reply was lost,
\* so a lost grant shows up as an error or as "held by another".
TryAcquire(t) ==
    /\ pc[t] = "idle"
    /\ \/ /\ ~CtxDone(t) /\ lock = NoOwner
          /\ GrantLock(t)
          /\ lease' = [lease EXCEPT ![t] = LockTTL]
          /\ Goto(t, "load")
          /\ UNCHANGED <<reply, orphaned>>
       \/ /\ ~CtxDone(t) /\ lock # NoOwner
          /\ Goto(t, "done") /\ Answer(t, "busy")
          /\ UNCHANGED <<lock, lockLeft, lease, orphaned>>
       \/ /\ ~CtxDone(t) /\ RedisFaults /\ lock = NoOwner
          /\ GrantLock(t)
          /\ orphaned' = orphaned \cup {t}
          /\ Goto(t, "done") /\ (Answer(t, "busy") \/ Answer(t, "failed"))
          /\ UNCHANGED lease
       \/ /\ CtxDone(t) \/ RedisFaults
          /\ Goto(t, "done") /\ Answer(t, "failed")
          /\ UNCHANGED <<lock, lockLeft, lease, orphaned>>
    /\ UNCHANGED <<store, inst, sess, step, budget>>

\* Fault: a failed load returns before the release is deferred.
LoadKeepsLock(t) ==
    /\ pc[t] = "load"
    /\ \/ /\ ~CtxDone(t)
          /\ sess' = [sess EXCEPT ![t] = Fetched]
          /\ Goto(t, "card")
          /\ UNCHANGED reply
       \/ /\ CtxDone(t) \/ RedisFaults
          /\ Goto(t, "done") /\ Answer(t, "failed")
          /\ UNCHANGED sess
    /\ UNCHANGED <<redisVars, inst, step, budget, history>>

\* Fault: every turn starts a session of its own.
LoadFresh(t) ==
    /\ pc[t] = "load"
    /\ sess' = [sess EXCEPT ![t] = [provider |-> DefaultProvider, msgs |-> <<>>]]
    /\ Goto(t, "card")
    /\ UNCHANGED <<redisVars, inst, step, budget, reply, history>>

LoadSession(t) ==
    /\ pc[t] = "load"
    /\ \/ /\ ~CtxDone(t)
          /\ sess' = [sess EXCEPT ![t] = Fetched]
          /\ Goto(t, "card")
          /\ UNCHANGED reply
       \/ /\ CtxDone(t) \/ RedisFaults
          /\ Goto(t, "release") /\ Answer(t, "failed")
          /\ UNCHANGED sess
    /\ UNCHANGED <<redisVars, inst, step, budget, history>>

\* LLMs.Resolve and SendInitialCard; either may fail.
OpenCard(t) ==
    /\ pc[t] = "card"
    /\ \/ ~CtxDone(t) /\ Goto(t, "user") /\ UNCHANGED reply
       \/ Goto(t, "release") /\ Answer(t, "failed")
    /\ UNCHANGED <<redisVars, inst, sess, step, budget, history>>

-----------------------------------------------------------------------------
(* Agent.Run: the user row, then at most MaxSteps model calls.               *)

SaveUser(t) ==
    /\ pc[t] = "user"
    /\ Save(t, Extend(t, UserRow(t)), "stream", "failed")
    /\ UNCHANGED <<inst, step, budget, reply, history>>

\* The model ends its message with MessageEnd, asking for tools or not.
ModelReplies(t, calls) ==
    /\ pc[t] = "stream"
    /\ Save(t, Extend(t, AssistantRow(t, calls)),
            IF calls THEN "tools" ELSE "answered", "failed")
    /\ UNCHANGED <<inst, step, budget, reply, history>>

\* Stream error, EventError, empty answer, oversized arguments, no MessageEnd.
StreamFails(t) ==
    /\ pc[t] = "stream"
    /\ Goto(t, "failed")
    /\ UNCHANGED <<redisVars, inst, sess, step, budget, reply, history>>

\* Fault: the step bound is off by one.
RunToolsOnceMore(t) ==
    /\ pc[t] = "tools"
    /\ Save(t, Extend(t, ToolRow(t)),
            IF step[t] = MaxSteps THEN "failed" ELSE "stream", "failed")
    /\ step' = [step EXCEPT ![t] = @ + 1]
    /\ UNCHANGED <<inst, budget, reply, history>>

\* Fault: the results are not appended before the save.
RunToolsForgets(t) ==
    /\ pc[t] = "tools"
    /\ Save(t, sess[t], IF step[t] + 1 = MaxSteps THEN "failed" ELSE "stream", "failed")
    /\ step' = [step EXCEPT ![t] = @ + 1]
    /\ UNCHANGED <<inst, budget, reply, history>>

RunTools(t) ==
    /\ pc[t] = "tools"
    /\ Save(t, Extend(t, ToolRow(t)),
            IF step[t] + 1 = MaxSteps THEN "failed" ELSE "stream", "failed")
    /\ step' = [step EXCEPT ![t] = @ + 1]
    /\ UNCHANGED <<inst, budget, reply, history>>

\* Feed has left on ctx.Done and the event channel is full (CardPipe.tla).
EmitBlocks(t) ==
    /\ pc[t] \in {"stream", "tools"}
    /\ CtxDone(t)
    /\ Goto(t, "stuck")
    /\ UNCHANGED <<redisVars, inst, sess, step, budget, reply, history>>

\* The terminal card; a failing PATCH is only logged.
Finish(t) ==
    /\ pc[t] \in {"answered", "failed"}
    /\ Answer(t, pc[t])
    /\ Goto(t, "release")
    /\ UNCHANGED <<redisVars, inst, sess, step, budget, history>>

\* Fault: DEL without comparing the token.
ReleaseUnchecked(t) ==
    /\ pc[t] = "release"
    /\ Goto(t, "done")
    /\ sess' = [sess EXCEPT ![t] = NoSession]
    /\ ~RedisClosed(t)
    /\ lock' = NoOwner /\ lockLeft' = 0
    /\ UNCHANGED <<store, inst, step, budget, reply, history>>

\* The deferred release runs under context.Background(): only a failing or
\* closed Redis client keeps the script from deleting a matching token.
Release(t) ==
    /\ pc[t] = "release"
    /\ Goto(t, "done")
    /\ sess' = [sess EXCEPT ![t] = NoSession]
    /\ \/ /\ ~RedisClosed(t)
          /\ DropLock(t)
          /\ UNCHANGED orphaned
       \/ /\ RedisClosed(t) \/ RedisFaults
          /\ orphaned' = orphaned \cup {t}
          /\ UNCHANGED <<lock, lockLeft>>
    /\ UNCHANGED <<store, inst, step, budget, reply, lease>>

-----------------------------------------------------------------------------
(* /clear and /model <alias>: dispatchCommand, before and without the lock.  *)

Clear(c) ==
    /\ pc[c] = "idle"
    /\ Goto(c, "done")
    /\ \/ /\ ~CtxDone(c)
          /\ DeleteSession
          /\ Answer(c, "ok")
       \/ /\ CtxDone(c) \/ RedisFaults
          /\ UNCHANGED store \/ (~CtxDone(c) /\ DeleteSession)
          /\ Answer(c, "failed")
    /\ UNCHANGED <<lock, lockLeft, inst, sess, step, budget, history>>

SwitchLoad(c) ==
    /\ pc[c] = "idle"
    /\ \/ /\ ~CtxDone(c)
          /\ sess' = [sess EXCEPT ![c] = [Fetched EXCEPT !.provider = c]]
          /\ Goto(c, "switch")
          /\ UNCHANGED reply
       \/ /\ CtxDone(c) \/ RedisFaults
          /\ Goto(c, "done") /\ Answer(c, "failed")
          /\ UNCHANGED sess
    /\ UNCHANGED <<redisVars, inst, step, budget, history>>

SwitchSave(c) ==
    /\ pc[c] = "switch"
    /\ Goto(c, "done")
    /\ \/ SaveSucceeds(c, sess[c]) /\ Answer(c, "ok")
       \/ SaveErrs(c, sess[c]) /\ Answer(c, "failed")
    /\ UNCHANGED <<inst, step, budget, history>>

-----------------------------------------------------------------------------
(* Time, processes, the end of the bounded run.                              *)

Dec(n) == IF n > 0 THEN n - 1 ELSE 0

\* One tick: Redis expires the lock, contexts run out.
Tick ==
    /\ lockLeft > 0 \/ \E t \in Messages : Running(t) /\ budget[t] > 0
    /\ TurnsFitLease => \A t \in Messages : Holding(t) => lease[t] > 1
    /\ lockLeft' = Dec(lockLeft)
    /\ lock' = IF lockLeft = 1 THEN NoOwner ELSE lock
    /\ lease' = [t \in Messages |-> Dec(lease[t])]
    /\ budget' = [t \in Messages |-> IF Running(t) THEN Dec(budget[t]) ELSE budget[t]]
    /\ UNCHANGED <<store, inst, pc, sess, step, reply, orphaned>>

\* The session's 24 hours pass; no turn lives that long.
SessionExpires ==
    /\ store # NoSession
    /\ lock = NoOwner
    /\ \A h \in Handlers : ~Running(h)
    /\ store' = NoSession
    /\ UNCHANGED <<lock, lockLeft, inst, turnVars, history>>

\* Graceful shutdown: cancelRoot(), later rdb.Close(); it waits for no turn.
CancelRoot(i) ==
    /\ inst[i] = "up"
    /\ inst' = [inst EXCEPT ![i] = "cancelled"]
    /\ UNCHANGED <<redisVars, turnVars, history>>

CloseRedis(i) ==
    /\ inst[i] = "cancelled"
    /\ inst' = [inst EXCEPT ![i] = "closed"]
    /\ UNCHANGED <<redisVars, turnVars, history>>

\* The process is gone, after a shutdown or by a crash at any point.
Exit(i) ==
    /\ inst[i] # "down"
    /\ inst' = [inst EXCEPT ![i] = "down"]
    /\ pc' = [h \in Handlers |->
                 IF InstanceOf[h] = i /\ pc[h] # "done" THEN "dead" ELSE pc[h]]
    /\ sess' = [h \in Handlers |-> IF InstanceOf[h] = i THEN NoSession ELSE sess[h]]
    /\ UNCHANGED <<redisVars, step, budget, reply, history>>

\* Every event of the bounded set is dealt with.
Quiescent ==
    /\ \A h \in Handlers : Over(h)
    /\ UNCHANGED vars

Turn(t) ==
    \/ TryAcquire(t) \/ LoadSession(t) \/ OpenCard(t) \/ SaveUser(t)
    \/ \E calls \in BOOLEAN : ModelReplies(t, calls)
    \/ StreamFails(t) \/ RunTools(t) \/ EmitBlocks(t) \/ Finish(t) \/ Release(t)

Command(c) ==
    \/ c \in Clears /\ Clear(c)
    \/ c \in Switches /\ (SwitchLoad(c) \/ SwitchSave(c))

Next ==
    \/ \E t \in Messages : Turn(t)
    \/ \E c \in Clears \cup Switches : Command(c)
    \/ Tick
    \/ SessionExpires
    \/ \E i \in Instances : CancelRoot(i) \/ CloseRedis(i) \/ Exit(i)
    \/ Quiescent

Spec == Init /\ [][Next]_vars

\* The scheduler runs every handler and each call it makes returns (Redis and
\* card calls time out, tools have ToolTimeout).  A model stream may stall for
\* as long as its context lives.  Nothing makes a process stop or a user write.
Progress(t) ==
    \/ LoadSession(t) \/ OpenCard(t) \/ SaveUser(t) \/ RunTools(t)
    \/ CtxDone(t) /\ (StreamFails(t) \/ EmitBlocks(t))
    \/ Finish(t) \/ Release(t)

FairSpec ==
    /\ Spec
    /\ WF_vars(Tick)
    /\ \A t \in Messages : WF_vars(Progress(t))

-----------------------------------------------------------------------------
(* Properties.                                                               *)

\* Every variable stays within its type.
TypeOK ==
    /\ lock \in Messages \cup {NoOwner}
    /\ lockLeft \in 0 .. LockTTL
    /\ store \in Session \cup {NoSession}
    /\ inst \in [Instances -> {"up", "cancelled", "closed", "down"}]
    /\ pc \in [Handlers -> Stages]
    /\ sess \in [Handlers -> Session \cup {NoSession}]
    /\ step \in [Messages -> 0 .. MaxSteps]
    /\ budget \in [Messages -> 0 .. TurnCap]
    /\ reply \in [Handlers -> {"none", "busy", "failed", "answered", "ok"}]
    /\ lease \in [Messages -> 0 .. LockTTL]
    /\ orphaned \subseteq Messages

\* Lock: for LockTTL after SETNX granted it, nothing but the turn itself takes
\* the lock away, whatever slower turns, their late releases, lost replies and
\* crashes do meanwhile (the NX of TryAcquire, the token check of Release).
LeaseExclusive ==
    \A t \in Messages : Holding(t) /\ lease[t] > 0 => lock = t

\* Handle's deferred Release covers every return path: a turn that returned
\* owns the lock only if Redis failed it, so no early return blocks the user.
NoOrphanedLock ==
    \A t \in Messages : lock = t /\ pc[t] = "done" => t \in orphaned

\* FR-012: one turn at a time.
SingleFlight ==
    \A t, u \in Messages : Holding(t) /\ Holding(u) => t = u

\* Every write of the agent loop to the session happens under the turn's lock.
FencedWrites ==
    [][\A t \in Messages : pc'[t] # pc[t] /\ store' # store => lock = t]_vars

\* The lock, the snapshots and the whole-document writes of turns that fit their
\* lease are invisible: together they are one serial history.
Serial == INSTANCE SerialSession WITH
    Turns <- Messages,
    Rows <- Row,
    Cap <- MaxMessages,
    None <- NoOwner,
    current <- lock,
    transcript <- Transcript

\* Turns are served one at a time and only append to the common history.
SerialHistory == Serial!Spec

\* A turn that reaches its final card has its answer in the stored session,
\* as the last row: what the user read is what the next turn continues from.
AnswerStored ==
    \A t \in Messages : pc[t] = "answered" =>
        /\ store # NoSession
        /\ store.msgs # <<>>
        /\ LET last == store.msgs[Len(store.msgs)] IN
             last.by = t /\ last.role = "assistant" /\ ~last.calls

\* Every tool request of turn t in msgs is followed by its results.
CallsAnswered(msgs, t) ==
    \A i \in 1 .. Len(msgs) :
        msgs[i].by = t /\ msgs[i].calls =>
            /\ i < Len(msgs)
            /\ msgs[i + 1] = [msgs[i] EXCEPT !.role = "tool", !.calls = FALSE]

\* An answered turn leaves no unanswered tool request behind, although it
\* stores requests and results in separate writes and trims at each of them.
AnsweredTurnsPaired ==
    \A t \in Messages :
        reply[t] = "answered" /\ store # NoSession => CallsAnswered(store.msgs, t)

\* Every write replaces the whole session by a snapshot extended by its writer.
\* Overlapping turns, /clear and /model may lose or bring back rows, but in what
\* is stored the rows of a turn are in program order and without a gap.
Place(row) == CASE row.role = "user" -> 0
                [] row.role = "assistant" -> 2 * row.step + 1
                [] row.role = "tool" -> 2 * row.step + 2

NoRowSkipped ==
    store # NoSession =>
        \A i, j \in 1 .. Len(store.msgs) :
            LET msgs == store.msgs IN
            /\ i < j
            /\ msgs[i].by = msgs[j].by
            /\ \A k \in i + 1 .. j - 1 : msgs[k].by # msgs[i].by
            => Place(msgs[j]) = Place(msgs[i]) + 1

\* No turn outlives its context by more than its own steps, unless it hangs.
TurnEnds == \A t \in Messages : Running(t) ~> Over(t)

\* Crashed, hung and orphaned owners do not keep the user locked out.
LockFreed == \A t \in Messages : lock = t ~> lock # t
=============================================================================
