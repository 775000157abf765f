------------------------- MODULE SessionTurns_proofs -------------------------
(***************************************************************************)
(* Theorems about SessionTurns: they hold for any number of messages,      *)
(* commands and processes, any lock TTL, turn cap and transcript length.   *)
(***************************************************************************)
EXTENDS SessionTurns, SequenceTheorems, TLAPS

-----------------------------------------------------------------------------
(* Lemmas about the operators.                                               *)

\* Trimming a transcript yields a transcript.
LEMMA TrimType ==
    ASSUME NEW msgs \in Seq(Row)
    PROVE  TrimMessages(msgs) \in Seq(Row)
<1>1. CASE Len(msgs) > MaxMessages
  <2>1. Len(msgs) - MaxMessages + 1 \in 1 .. Len(msgs) + 1
    BY <1>1, BoundsType
  <2>2. SubSeq(msgs, Len(msgs) - MaxMessages + 1, Len(msgs)) \in Seq(Row)
    BY <2>1, SubSeqProperties
  <2> QED
    BY <1>1, <2>2 DEF TrimMessages
<1>2. CASE ~(Len(msgs) > MaxMessages)
  BY <1>2 DEF TrimMessages
<1> QED
  BY <1>1, <1>2

\* Replacing the messages of a session by other messages yields a session.
LEMMA SessionExcept ==
    ASSUME NEW s \in Session, NEW msgs \in Seq(Row)
    PROVE  [s EXCEPT !.msgs = msgs] \in Session
<1> DEFINE S == Seq(Row)
           P == Switches \cup {DefaultProvider}
<1>1. s \in [provider : P, msgs : S] /\ msgs \in S
  BY DEF Session
<1> HIDE DEF S, P
<1>2. [s EXCEPT !.msgs = msgs] \in [provider : P, msgs : S]
  BY <1>1
<1> QED
  BY <1>2 DEF S, P, Session

\* Extending a session by a row, and trimming what is saved, yield sessions.
LEMMA ExtendType ==
    ASSUME NEW t \in Messages, sess[t] \in Session, NEW row \in Row
    PROVE  Extend(t, row) \in Session
<1>1. sess[t].msgs \in Seq(Row)
  BY DEF Session
<1>2. Append(sess[t].msgs, row) \in Seq(Row)
  BY <1>1
<1> QED
  BY <1>2, SessionExcept DEF Extend

LEMMA TrimmedType ==
    ASSUME NEW s \in Session
    PROVE  [s EXCEPT !.msgs = TrimMessages(@)] \in Session
<1>1. s.msgs \in Seq(Row)
  BY DEF Session
<1> QED
  BY <1>1, TrimType, SessionExcept

LEMMA RowTypes ==
    ASSUME NEW t \in Messages, step[t] \in 0 .. MaxSteps, NEW calls \in BOOLEAN
    PROVE  /\ UserRow(t) \in Row
           /\ AssistantRow(t, calls) \in Row
           /\ ToolRow(t) \in Row
  BY BoundsType DEF UserRow, AssistantRow, ToolRow, Row

-----------------------------------------------------------------------------
(* Type correctness.                                                         *)

\* TypeOK is not inductive: a handler that goes on to save has a session, and
\* a turn that goes on to call the model has steps left.
SessionLoaded ==
    \A h \in Handlers :
        pc[h] \in {"card", "user", "stream", "tools", "switch"} => sess[h] \in Session

StepsLeft ==
    \A t \in Messages :
        pc[t] \in {"idle", "load", "card", "user", "stream", "tools"} => step[t] < MaxSteps

TypeInv == TypeOK /\ SessionLoaded /\ StepsLeft

\* The initial state is well typed.
LEMMA InitType == Init => TypeInv
<1> SUFFICES ASSUME Init PROVE TypeInv
  OBVIOUS
<1>1. TypeOK
  BY BoundsType DEF Init, TypeOK, Stages
<1>2. SessionLoaded /\ StepsLeft
  BY BoundsType DEF Init, SessionLoaded, StepsLeft, Handlers
<1> QED
  BY <1>1, <1>2 DEF TypeInv

\* What RedisStore.Save does to the handler's copy and to the store.
LEMMA StoredType ==
    ASSUME TypeInv, NEW h \in Handlers, NEW s \in Session, NEW applied \in BOOLEAN,
           Stored(h, s, applied)
    PROVE  /\ store' \in Session \cup {NoSession}
           /\ sess' \in [Handlers -> Session \cup {NoSession}]
           /\ sess'[h] \in Session
           /\ \A g \in Handlers : g # h => sess'[g] = sess[g]
           /\ UNCHANGED <<lock, lockLeft>>
<1> DEFINE trimmed == [s EXCEPT !.msgs = TrimMessages(@)]
<1>1. trimmed \in Session
  BY TrimmedType
<1>2. /\ sess' = [sess EXCEPT ![h] = trimmed]
      /\ store' = IF applied THEN trimmed ELSE store
      /\ UNCHANGED <<lock, lockLeft>>
  BY DEF Stored
<1>3. store \in Session \cup {NoSession} /\ sess \in [Handlers -> Session \cup {NoSession}]
  BY DEF TypeInv, TypeOK
<1> HIDE DEF trimmed
<1> QED
  BY <1>1, <1>2, <1>3

LEMMA SaveType ==
    ASSUME TypeInv, NEW h \in Handlers, NEW s \in Session,
           NEW ok \in Stages, NEW err \in Stages, Save(h, s, ok, err)
    PROVE  /\ store' \in Session \cup {NoSession}
           /\ sess' \in [Handlers -> Session \cup {NoSession}]
           /\ sess'[h] \in Session
           /\ \A g \in Handlers : g # h => sess'[g] = sess[g]
           /\ pc' = [pc EXCEPT ![h] = ok] \/ pc' = [pc EXCEPT ![h] = err]
           /\ UNCHANGED <<lock, lockLeft>>
<1>1. \E applied \in BOOLEAN : Stored(h, s, applied)
  BY DEF Save, SaveSucceeds, SaveErrs
<1>2. pc' = [pc EXCEPT ![h] = ok] \/ pc' = [pc EXCEPT ![h] = err]
  BY DEF Save, Goto
<1> QED
  BY <1>1, <1>2, StoredType

\* Every step keeps every variable within its type.
LEMMA NextType == TypeInv /\ [Next]_vars => TypeInv'
<1> SUFFICES ASSUME TypeInv, [Next]_vars PROVE TypeInv'
  OBVIOUS
<1> USE DEF TypeInv
<1>a. Messages \subseteq Handlers /\ Clears \subseteq Handlers /\ Switches \subseteq Handlers
  BY DEF Handlers
<1>1. ASSUME NEW t \in Messages, TryAcquire(t) PROVE TypeInv'
  <2>1. TypeOK'
    BY <1>1, <1>a, BoundsType DEF TryAcquire, GrantLock, TypeOK, Goto, Answer, Stages
  <2>2. SessionLoaded' /\ StepsLeft'
    BY <1>1, <1>a DEF TryAcquire, GrantLock, TypeOK, Goto, SessionLoaded, StepsLeft
  <2> QED BY <2>1, <2>2
<1>2. ASSUME NEW t \in Messages, LoadSession(t) PROVE TypeInv'
  <2>1. [provider |-> DefaultProvider, msgs |-> <<>>] \in Session
    BY DEF Session
  <2>2. sess' \in [Handlers -> Session \cup {NoSession}]
    BY <1>2, <1>a, <2>1 DEF LoadSession, Fetched, TypeOK
  <2>3. pc'[t] = "card" => sess'[t] \in Session
    BY <1>2, <1>a, <2>1 DEF LoadSession, Fetched, TypeOK, Goto
  <2>4. TypeOK'
    BY <1>2, <1>a, <2>2 DEF LoadSession, Fetched, TypeOK, Goto, Answer, Stages, redisVars, history
  <2>5. SessionLoaded' /\ StepsLeft'
    BY <1>2, <1>a, <2>3 DEF LoadSession, Fetched, TypeOK, Goto, SessionLoaded, StepsLeft, redisVars, history
  <2> QED BY <2>4, <2>5
<1>3. ASSUME NEW t \in Messages, OpenCard(t) PROVE TypeInv'
  <2>1. TypeOK'
    BY <1>3, <1>a DEF OpenCard, TypeOK, Goto, Answer, Stages, redisVars, history
  <2>2. SessionLoaded' /\ StepsLeft'
    BY <1>3, <1>a DEF OpenCard, TypeOK, Goto, SessionLoaded, StepsLeft, redisVars, history
  <2> QED BY <2>1, <2>2
<1>4. ASSUME NEW t \in Messages, SaveUser(t) PROVE TypeInv'
  <2>1. Extend(t, UserRow(t)) \in Session
    BY <1>4, <1>a, RowTypes, ExtendType DEF SaveUser, SessionLoaded, TypeOK
  <2>2. Save(t, Extend(t, UserRow(t)), "stream", "failed") /\ t \in Handlers
    BY <1>4, <1>a DEF SaveUser
  <2>3. /\ store' \in Session \cup {NoSession}
        /\ sess' \in [Handlers -> Session \cup {NoSession}]
        /\ sess'[t] \in Session
        /\ \A g \in Handlers : g # t => sess'[g] = sess[g]
        /\ pc' = [pc EXCEPT ![t] = "stream"] \/ pc' = [pc EXCEPT ![t] = "failed"]
        /\ UNCHANGED <<lock, lockLeft>>
    BY <2>1, <2>2, SaveType DEF Stages
  <2>4. TypeOK'
    BY <1>4, <1>a, <2>3 DEF SaveUser, TypeOK, Stages, history
  <2>5. SessionLoaded' /\ StepsLeft'
    BY <1>4, <1>a, <2>3 DEF SaveUser, TypeOK, SessionLoaded, StepsLeft
  <2> QED BY <2>4, <2>5
<1>5. ASSUME NEW t \in Messages, NEW calls \in BOOLEAN, ModelReplies(t, calls) PROVE TypeInv'
  <2> DEFINE next == IF calls THEN "tools" ELSE "answered"
  <2>1. Extend(t, AssistantRow(t, calls)) \in Session
    BY <1>5, <1>a, RowTypes, ExtendType DEF ModelReplies, SessionLoaded, TypeOK
  <2>2. Save(t, Extend(t, AssistantRow(t, calls)), next, "failed") /\ t \in Handlers
    BY <1>5, <1>a DEF ModelReplies
  <2>3. next \in Stages /\ next \in {"tools", "answered"}
    BY DEF Stages
  <2> HIDE DEF next
  <2>4. /\ store' \in Session \cup {NoSession}
        /\ sess' \in [Handlers -> Session \cup {NoSession}]
        /\ sess'[t] \in Session
        /\ \A g \in Handlers : g # t => sess'[g] = sess[g]
        /\ pc' = [pc EXCEPT ![t] = next] \/ pc' = [pc EXCEPT ![t] = "failed"]
        /\ UNCHANGED <<lock, lockLeft>>
    BY <2>1, <2>2, <2>3, SaveType DEF Stages
  <2>5. TypeOK'
    BY <1>5, <1>a, <2>3, <2>4 DEF ModelReplies, TypeOK, Stages, history
  <2>6. SessionLoaded' /\ StepsLeft'
    BY <1>5, <1>a, <2>3, <2>4 DEF ModelReplies, TypeOK, SessionLoaded, StepsLeft
  <2> QED BY <2>5, <2>6
<1>6. ASSUME NEW t \in Messages, StreamFails(t) \/ EmitBlocks(t) \/ Finish(t) PROVE TypeInv'
  <2>1. TypeOK'
    BY <1>6, <1>a DEF StreamFails, EmitBlocks, Finish, TypeOK, Goto, Answer, Stages, redisVars, history
  <2>2. SessionLoaded' /\ StepsLeft'
    BY <1>6, <1>a DEF StreamFails, EmitBlocks, Finish, TypeOK, Goto, SessionLoaded, StepsLeft, redisVars, history
  <2> QED BY <2>1, <2>2
<1>7. ASSUME NEW t \in Messages, RunTools(t) PROVE TypeInv'
  <2> DEFINE next == IF step[t] + 1 = MaxSteps THEN "failed" ELSE "stream"
  <2>1. step[t] \in 0 .. MaxSteps /\ step[t] < MaxSteps /\ sess[t] \in Session
    BY <1>7, <1>a DEF RunTools, SessionLoaded, StepsLeft, TypeOK
  <2>2. Extend(t, ToolRow(t)) \in Session
    BY <2>1, RowTypes, ExtendType
  <2>3. Save(t, Extend(t, ToolRow(t)), next, "failed") /\ t \in Handlers
    BY <1>7, <1>a DEF RunTools
  <2>4. next \in Stages /\ next \in {"stream", "failed"} /\ (next = "stream" => step[t] + 1 < MaxSteps)
    BY <2>1, BoundsType DEF Stages
  <2> HIDE DEF next
  <2>5. /\ store' \in Session \cup {NoSession}
        /\ sess' \in [Handlers -> Session \cup {NoSession}]
        /\ sess'[t] \in Session
        /\ \A g \in Handlers : g # t => sess'[g] = sess[g]
        /\ pc' = [pc EXCEPT ![t] = next] \/ pc' = [pc EXCEPT ![t] = "failed"]
        /\ UNCHANGED <<lock, lockLeft>>
    BY <2>2, <2>3, <2>4, SaveType DEF Stages
  <2>6. step' = [step EXCEPT ![t] = step[t] + 1] /\ step[t] + 1 \in 0 .. MaxSteps
    BY <1>7, <2>1, BoundsType DEF RunTools
  <2>7. TypeOK'
    BY <1>7, <1>a, <2>4, <2>5, <2>6 DEF RunTools, TypeOK, Stages, history
  <2>8. SessionLoaded'
    BY <1>7, <1>a, <2>4, <2>5 DEF TypeOK, SessionLoaded
  <2>9. StepsLeft'
    BY <1>7, <1>a, <2>4, <2>5, <2>6 DEF TypeOK, StepsLeft
  <2> QED BY <2>7, <2>8, <2>9
<1>8. ASSUME NEW t \in Messages, Release(t) PROVE TypeInv'
  <2>1. TypeOK'
    BY <1>8, <1>a, BoundsType DEF Release, DropLock, TypeOK, Goto, Stages
  <2>2. SessionLoaded' /\ StepsLeft'
    BY <1>8, <1>a DEF Release, DropLock, TypeOK, Goto, SessionLoaded, StepsLeft
  <2> QED BY <2>1, <2>2
<1>9. ASSUME NEW c \in Clears, Clear(c) PROVE TypeInv'
  <2>1. TypeOK'
    BY <1>9, <1>a DEF Clear, DeleteSession, TypeOK, Goto, Answer, Stages, history
  <2>2. SessionLoaded' /\ StepsLeft'
    BY <1>9, <1>a DEF Clear, DeleteSession, TypeOK, Goto, SessionLoaded, StepsLeft
  <2> QED BY <2>1, <2>2
<1>10. ASSUME NEW c \in Switches, SwitchLoad(c) PROVE TypeInv'
  <2> DEFINE switched == [Fetched EXCEPT !.provider = c]
  <2>1. switched \in Session
    <3>1. Fetched \in Session
      BY DEF Fetched, Session, TypeOK
    <3> QED
      BY <3>1 DEF Session
  <2>2. /\ \/ /\ sess' = [sess EXCEPT ![c] = switched]
              /\ pc' = [pc EXCEPT ![c] = "switch"]
           \/ /\ sess' = sess
              /\ pc' = [pc EXCEPT ![c] = "done"]
        /\ c \in Handlers
    BY <1>10, <1>a DEF SwitchLoad, Goto
  <2>3. /\ reply' \in [Handlers -> {"none", "busy", "failed", "answered", "ok"}]
        /\ UNCHANGED <<lock, lockLeft, store, inst, step, budget, lease, orphaned>>
    BY <1>10, <1>a DEF SwitchLoad, Fetched, Answer, TypeOK, redisVars, history
  <2> HIDE DEF switched
  <2>4. sess' \in [Handlers -> Session \cup {NoSession}] /\ pc' \in [Handlers -> Stages]
    BY <2>1, <2>2 DEF TypeOK, Stages
  <2>5. TypeOK'
    BY <2>3, <2>4 DEF TypeOK
  <2>6. SessionLoaded'
    BY <2>1, <2>2 DEF TypeOK, SessionLoaded
  <2>7. StepsLeft'
    BY <1>a, <2>2, <2>3, HandlersDisjoint DEF TypeOK, StepsLeft
  <2> QED BY <2>5, <2>6, <2>7
<1>11. ASSUME NEW c \in Switches, SwitchSave(c) PROVE TypeInv'
  <2>1. sess[c] \in Session /\ c \in Handlers
    BY <1>11, <1>a DEF SwitchSave, SessionLoaded
  <2>2. \E applied \in BOOLEAN : Stored(c, sess[c], applied)
    BY <1>11 DEF SwitchSave, SaveSucceeds, SaveErrs
  <2>3. /\ store' \in Session \cup {NoSession}
        /\ sess' \in [Handlers -> Session \cup {NoSession}]
        /\ sess'[c] \in Session
        /\ \A g \in Handlers : g # c => sess'[g] = sess[g]
        /\ UNCHANGED <<lock, lockLeft>>
    BY <2>1, <2>2, StoredType
  <2>4. TypeOK'
    BY <1>11, <1>a, <2>3 DEF SwitchSave, TypeOK, Goto, Answer, Stages, history
  <2>5. SessionLoaded' /\ StepsLeft'
    BY <1>11, <1>a, <2>3 DEF SwitchSave, TypeOK, Goto, SessionLoaded, StepsLeft
  <2> QED BY <2>4, <2>5
<1>12. CASE Tick
  <2>1. TypeOK'
    BY <1>12, BoundsType DEF Tick, TypeOK, Dec
  <2>2. SessionLoaded' /\ StepsLeft'
    BY <1>12 DEF Tick, SessionLoaded, StepsLeft
  <2> QED BY <2>1, <2>2
<1>13. CASE SessionExpires
  BY <1>13 DEF SessionExpires, TypeOK, SessionLoaded, StepsLeft, turnVars, history
<1>14. ASSUME NEW i \in Instances, CancelRoot(i) \/ CloseRedis(i) \/ Exit(i) PROVE TypeInv'
  <2>1. TypeOK'
    BY <1>14 DEF CancelRoot, CloseRedis, Exit, TypeOK, Stages, redisVars, turnVars, history
  <2>2. SessionLoaded' /\ StepsLeft'
    BY <1>14, <1>a DEF CancelRoot, CloseRedis, Exit, TypeOK, SessionLoaded, StepsLeft, redisVars, turnVars, history
  <2> QED BY <2>1, <2>2
<1>15. CASE UNCHANGED vars
  BY <1>15 DEF TypeOK, SessionLoaded, StepsLeft, vars, redisVars, turnVars, history
<1> QED
  BY <1>1, <1>2, <1>3, <1>4, <1>5, <1>6, <1>7, <1>8, <1>9, <1>10, <1>11, <1>12, <1>13, <1>14, <1>15
     DEF Next, Turn, Command, Quiescent

\* Every variable of the conversation stays within its type.
THEOREM TypeCorrect == Spec => []TypeOK
<1>1. TypeInv => TypeOK
  BY DEF TypeInv
<1> QED
  BY <1>1, InitType, NextType, PTL DEF Spec

-----------------------------------------------------------------------------
(* The lock.                                                                 *)

\* LeaseExclusive is not inductive: while the lease of a turn lasts, the key in
\* Redis lives exactly as long, and a turn that has not started owns no key.
\* With turns that fit their lease, a lease lasts as long as its turn.
LockInv ==
    /\ lock = NoOwner <=> lockLeft = 0
    /\ \A t \in Messages : Holding(t) /\ lease[t] > 0 => lock = t /\ lockLeft = lease[t]
    /\ \A t \in Messages : pc[t] = "idle" => lock # t
    /\ NoOrphanedLock
    /\ TurnsFitLease => \A t \in Messages : Holding(t) => lease[t] > 0

LEMMA InitLock == Init => LockInv
  BY BoundsType, HandlersDisjoint DEF Init, LockInv, Holding, NoOrphanedLock, Handlers

\* A step that leaves the lock alone and moves a handler that is past
\* TryAcquire to a stage other than "idle" or "done" keeps LockInv; so does any
\* step of a command.
LEMMA LockUntouched ==
    ASSUME TypeInv, LockInv,
           NEW h \in Handlers, NEW stage \in Stages,
           pc' = [pc EXCEPT ![h] = stage],
           UNCHANGED <<lock, lockLeft, lease, orphaned>>,
           h \in Messages => Holding(h) /\ stage \notin {"idle", "done"}
    PROVE  LockInv'
<1>1. \A t \in Messages : pc'[t] = IF t = h THEN stage ELSE pc[t]
  BY DEF TypeInv, TypeOK, Handlers
<1>2. \A t \in Messages : Holding(t)' => Holding(t)
  BY <1>1 DEF Holding
<1>3. \A t \in Messages : pc'[t] = "idle" => pc[t] = "idle"
  BY <1>1
<1>4. \A t \in Messages : pc'[t] = "done" => pc[t] = "done"
  BY <1>1
<1> QED
  BY <1>2, <1>3, <1>4 DEF LockInv, NoOrphanedLock

\* Every step keeps the lock with the turn it was granted to.
LEMMA NextLock == TypeInv /\ LockInv /\ [Next]_vars => LockInv'
<1> SUFFICES ASSUME TypeInv, LockInv, [Next]_vars PROVE LockInv'
  OBVIOUS
<1>a. Messages \subseteq Handlers /\ Clears \subseteq Handlers /\ Switches \subseteq Handlers
  BY DEF Handlers
<1>b. pc \in [Handlers -> Stages] /\ lease \in [Messages -> 0 .. LockTTL] /\ lockLeft \in 0 .. LockTTL
      /\ lock \in Messages \cup {NoOwner}
  BY DEF TypeInv, TypeOK
<1>1. ASSUME NEW t \in Messages, TryAcquire(t) PROVE LockInv'
  <2>1. CASE lock = NoOwner /\ lock' = t /\ lockLeft' = LockTTL /\ pc' = [pc EXCEPT ![t] = "load"]
             /\ lease' = [lease EXCEPT ![t] = LockTTL] /\ orphaned' = orphaned
    <3>1. \A u \in Messages \ {t} : Holding(u)' = Holding(u) /\ lease'[u] = lease[u] /\ pc'[u] = pc[u]
      BY <2>1, <1>a, <1>b DEF Holding
    <3>2. pc'[t] = "load" /\ lease'[t] = LockTTL
      BY <2>1, <1>a, <1>b
    <3> QED
      BY <2>1, <3>1, <3>2, HandlersDisjoint, BoundsType DEF LockInv, NoOrphanedLock
  <2>2. CASE UNCHANGED <<lock, lockLeft, lease, orphaned>> /\ pc' = [pc EXCEPT ![t] = "done"]
    <3>1. \A u \in Messages \ {t} : Holding(u)' = Holding(u) /\ pc'[u] = pc[u]
      BY <2>2, <1>a, <1>b DEF Holding
    <3>2. pc'[t] = "done" /\ ~Holding(t)' /\ pc[t] = "idle"
      BY <1>1, <2>2, <1>a, <1>b DEF Holding, TryAcquire, GrantLock
    <3> QED
      BY <2>2, <3>1, <3>2 DEF LockInv, NoOrphanedLock
  <2>3. CASE lock = NoOwner /\ lock' = t /\ lockLeft' = LockTTL /\ pc' = [pc EXCEPT ![t] = "done"]
             /\ UNCHANGED lease /\ orphaned' = orphaned \cup {t}
    <3>1. \A u \in Messages \ {t} : Holding(u)' = Holding(u) /\ pc'[u] = pc[u]
      BY <2>3, <1>a, <1>b DEF Holding
    <3>2. pc'[t] = "done" /\ ~Holding(t)'
      BY <2>3, <1>a, <1>b DEF Holding
    <3> QED
      BY <2>3, <3>1, <3>2, HandlersDisjoint, BoundsType DEF LockInv, NoOrphanedLock
  <2> QED
    BY <1>1, <2>1, <2>2, <2>3 DEF TryAcquire, GrantLock, Goto
<1>2. ASSUME NEW t \in Messages, LoadSession(t) \/ OpenCard(t) \/ StreamFails(t) \/ EmitBlocks(t) \/ Finish(t)
      PROVE  LockInv'
  <2>1. /\ Holding(t)
        /\ UNCHANGED <<lock, lockLeft, lease, orphaned>>
        /\ \E stage \in Stages \ {"idle", "done"} : pc' = [pc EXCEPT ![t] = stage]
    BY <1>2 DEF LoadSession, Fetched, OpenCard, StreamFails, EmitBlocks, Finish, Holding, Goto, Stages, redisVars, history
  <2> QED
    BY <2>1, <1>a, LockUntouched
<1>3. ASSUME NEW t \in Messages, NEW calls \in BOOLEAN,
             SaveUser(t) \/ ModelReplies(t, calls) \/ RunTools(t)
      PROVE  LockInv'
  <2>1. UNCHANGED <<lock, lockLeft, lease, orphaned>>
    BY <1>3 DEF SaveUser, ModelReplies, RunTools, Save, SaveSucceeds, SaveErrs, Stored, history
  <2>2. Holding(t)
    BY <1>3 DEF SaveUser, ModelReplies, RunTools, Holding
  <2>3. \E stage \in {"stream", "tools", "answered", "failed"} : pc' = [pc EXCEPT ![t] = stage]
    BY <1>3 DEF SaveUser, ModelReplies, RunTools, Save, Goto
  <2> QED
    BY <2>1, <2>2, <2>3, <1>a, LockUntouched DEF Stages
<1>4. ASSUME NEW t \in Messages, Release(t) PROVE LockInv'
  <2>1. \A u \in Messages \ {t} : Holding(u)' = Holding(u) /\ pc'[u] = pc[u]
    BY <1>4, <1>a, <1>b DEF Release, DropLock, Goto, Holding
  <2>2. pc'[t] = "done" /\ ~Holding(t)' /\ UNCHANGED lease
    BY <1>4, <1>a, <1>b DEF Release, DropLock, Goto, Holding
  <2>3. \/ lock = t /\ lock' = NoOwner /\ lockLeft' = 0 /\ UNCHANGED orphaned
        \/ lock # t /\ UNCHANGED <<lock, lockLeft, orphaned>>
        \/ UNCHANGED <<lock, lockLeft>> /\ orphaned' = orphaned \cup {t}
    BY <1>4 DEF Release, DropLock
  <2> QED
    BY <2>1, <2>2, <2>3, HandlersDisjoint DEF LockInv, NoOrphanedLock
<1>5. ASSUME NEW c \in Clears \cup Switches, Command(c) PROVE LockInv'
  <2>1. c \notin Messages /\ c \in Handlers
    BY HandlersDisjoint, <1>a
  <2>2. UNCHANGED <<lock, lockLeft, lease, orphaned>>
    BY <1>5 DEF Command, Clear, DeleteSession, SwitchLoad, Fetched, SwitchSave, SaveSucceeds, SaveErrs, Stored, redisVars, history
  <2>3. \E stage \in {"done", "switch"} : pc' = [pc EXCEPT ![c] = stage]
    BY <1>5 DEF Command, Clear, DeleteSession, SwitchLoad, Fetched, SwitchSave, Goto
  <2> QED
    BY <2>1, <2>2, <2>3, LockUntouched DEF Stages
<1>6. CASE Tick
  <2>1. /\ \A t \in Messages : Holding(t)' = Holding(t) /\ lease'[t] = (IF lease[t] > 0 THEN lease[t] - 1 ELSE 0)
        /\ lockLeft' = (IF lockLeft > 0 THEN lockLeft - 1 ELSE 0)
        /\ lock' = (IF lockLeft = 1 THEN NoOwner ELSE lock)
        /\ UNCHANGED <<pc, orphaned>>
        /\ TurnsFitLease => \A t \in Messages : Holding(t) => lease[t] > 1
    BY <1>6 DEF Tick, Dec, Holding
  <2>2. lock' = NoOwner <=> lockLeft' = 0
    BY <2>1, <1>b, BoundsType, HandlersDisjoint DEF LockInv
  <2>3. \A t \in Messages : Holding(t)' /\ lease'[t] > 0 => lock' = t /\ lockLeft' = lease'[t]
    BY <2>1, <1>b, BoundsType DEF LockInv
  <2>4. (\A t \in Messages : pc'[t] = "idle" => lock' # t) /\ NoOrphanedLock'
    BY <2>1, HandlersDisjoint DEF LockInv, NoOrphanedLock
  <2>5. TurnsFitLease => \A t \in Messages : Holding(t)' => lease'[t] > 0
    BY <2>1, <1>b, BoundsType
  <2> QED
    BY <2>2, <2>3, <2>4, <2>5 DEF LockInv
<1>7. ASSUME NEW i \in Instances, Exit(i) PROVE LockInv'
  <2>1. UNCHANGED <<lock, lockLeft, lease, orphaned>>
    BY <1>7 DEF Exit, redisVars, history
  <2>2. \A t \in Messages : pc'[t] = pc[t] \/ pc'[t] = "dead"
    BY <1>7, <1>a, <1>b DEF Exit
  <2>3. \A t \in Messages : Holding(t)' => Holding(t)
    BY <2>2 DEF Holding
  <2> QED
    BY <2>1, <2>2, <2>3 DEF LockInv, NoOrphanedLock
<1>8. CASE UNCHANGED vars \/ SessionExpires \/ \E i \in Instances : CancelRoot(i) \/ CloseRedis(i)
  <2>1. UNCHANGED <<lock, lockLeft, lease, orphaned, pc>>
    BY <1>8 DEF vars, SessionExpires, CancelRoot, CloseRedis, redisVars, turnVars, history
  <2>2. \A t \in Messages : Holding(t)' = Holding(t)
    BY <2>1 DEF Holding
  <2> QED
    BY <2>1, <2>2 DEF LockInv, NoOrphanedLock
<1> QED
  BY <1>1, <1>2, <1>3, <1>4, <1>5, <1>6, <1>7, <1>8 DEF Next, Turn, Quiescent

\* The inductive invariant of the conversation.
THEOREM LockInvariant == Spec => [](TypeInv /\ LockInv)
  BY InitType, NextType, InitLock, NextLock, PTL DEF Spec

\* For LockTTL after SETNX granted it, the lock is the turn's and nobody else's.
THEOREM LeaseIsExclusive == Spec => []LeaseExclusive
<1>1. LockInv => LeaseExclusive
  BY DEF LockInv, LeaseExclusive
<1> QED
  BY <1>1, LockInvariant, PTL

\* A turn that returned keeps the lock only if its Redis call failed.
THEOREM NoLockIsOrphaned == Spec => []NoOrphanedLock
<1>1. LockInv => NoOrphanedLock
  BY DEF LockInv
<1> QED
  BY <1>1, LockInvariant, PTL

\* FR-012, for turns that end within LockTTL: one turn at a time.
THEOREM OneTurnAtATime ==
    ASSUME TurnsFitLease
    PROVE  Spec => []SingleFlight
<1>1. LockInv => SingleFlight
  BY TurnsFitLease DEF LockInv, SingleFlight
<1> QED
  BY <1>1, LockInvariant, PTL

\* Every write of the agent loop happens under the lock of its turn, when turns
\* end within LockTTL.
LEMMA FencedStep ==
    ASSUME TurnsFitLease
    PROVE  TypeInv /\ LockInv /\ [Next]_vars
             => [\A t \in Messages : pc'[t] # pc[t] /\ store' # store => lock = t]_vars
<1> SUFFICES ASSUME TypeInv, LockInv, Next,
                    NEW t \in Messages, pc'[t] # pc[t], store' # store
             PROVE  lock = t
  BY DEF vars
<1>a. Messages \subseteq Handlers /\ Clears \subseteq Handlers /\ Switches \subseteq Handlers
  BY DEF Handlers
<1>b. pc \in [Handlers -> Stages]
  BY DEF TypeInv, TypeOK
<1>1. \A u \in Messages : Holding(u) => lock = u
  BY TurnsFitLease DEF LockInv
<1>2. ASSUME NEW u \in Messages, Turn(u) PROVE lock = t
  <2>1. u = t
    BY <1>2, <1>a, <1>b DEF Turn, TryAcquire, GrantLock, LoadSession, Fetched, OpenCard, SaveUser, ModelReplies,
       StreamFails, RunTools, EmitBlocks, Finish, Release, DropLock, Save, Goto
  <2>2. Holding(u)
    BY <1>2 DEF Turn, TryAcquire, GrantLock, LoadSession, Fetched, OpenCard, SaveUser, ModelReplies,
       StreamFails, RunTools, EmitBlocks, Finish, Release, DropLock, redisVars, Holding
  <2> QED
    BY <1>1, <2>1, <2>2
<1>3. ASSUME NEW c \in Clears \cup Switches, Command(c) PROVE FALSE
  <2>1. \E stage \in {"done", "switch"} : pc' = [pc EXCEPT ![c] = stage]
    BY <1>3 DEF Command, Clear, DeleteSession, SwitchLoad, Fetched, SwitchSave, Goto
  <2>2. c # t
    BY HandlersDisjoint
  <2> QED
    BY <2>1, <2>2, <1>a, <1>b
<1>4. CASE Tick \/ SessionExpires \/ Quiescent
  BY <1>4 DEF Tick, SessionExpires, Quiescent, vars, turnVars
<1>5. ASSUME NEW i \in Instances, CancelRoot(i) \/ CloseRedis(i) \/ Exit(i) PROVE FALSE
  BY <1>5 DEF CancelRoot, CloseRedis, Exit, redisVars
<1> QED
  BY <1>2, <1>3, <1>4, <1>5 DEF Next

\* For turns that end within LockTTL: whoever writes for a turn has its lock, also
\* when a slower turn, a late release or a crash came in between.
THEOREM WritesAreFenced ==
    ASSUME TurnsFitLease
    PROVE  Spec => FencedWrites
<1>1. TypeInv /\ LockInv /\ [Next]_vars
        => [\A t \in Messages : pc'[t] # pc[t] /\ store' # store => lock = t]_vars
  BY TurnsFitLease, FencedStep
<1> QED
  BY <1>1, LockInvariant, PTL DEF Spec, FencedWrites

-----------------------------------------------------------------------------
(* Refinement: a serial history.                                             *)

\* The turn that holds the lock works on a copy of what is stored.
CopyInv ==
    \A t \in Messages :
        pc[t] \in {"card", "user", "stream", "tools"} => sess[t].msgs = Transcript

LEMMA InitCopy == Init => CopyInv /\ Serial!Init
  BY DEF Init, CopyInv, Serial!Init, Transcript, Handlers

\* A save by turn t writes the history extended by one row of its own, or leaves
\* the history alone and fails the turn.
LEMMA SaveIsWrite ==
    ASSUME TypeInv, NEW t \in Messages, sess[t] \in Session, sess[t].msgs = Transcript,
           lock = t, NEW row \in Row, row.by = t, NEW ok, NEW err,
           Save(t, Extend(t, row), ok, err)
    PROVE  /\ UNCHANGED lock
           /\ \/ /\ Serial!Write(t) /\ sess'[t].msgs = Transcript'
                 /\ Transcript' = TrimMessages(Append(Transcript, row))
                 /\ store' # NoSession
              \/ UNCHANGED store /\ pc' = [pc EXCEPT ![t] = err]
<1> DEFINE s == Extend(t, row)
           trimmed == [s EXCEPT !.msgs = TrimMessages(@)]
<1>1. s \in Session /\ s.msgs = Append(Transcript, row)
  BY ExtendType DEF Extend, Session
<1>2. trimmed \in Session
  BY <1>1, TrimmedType
<1>3. trimmed.msgs = TrimMessages(Append(Transcript, row))
  BY <1>1 DEF Session
<1>4. trimmed # NoSession
  BY <1>2, NoSessionType
<1>5. t \in Handlers /\ sess \in [Handlers -> Session \cup {NoSession}]
  BY DEF TypeInv, TypeOK, Handlers
<1>6. UNCHANGED lock
  BY DEF Save, SaveSucceeds, SaveErrs, Stored
<1>7. CASE Stored(t, s, TRUE)
  <2>1. store' = trimmed /\ sess' = [sess EXCEPT ![t] = trimmed]
    BY <1>7 DEF Stored
  <2> HIDE DEF trimmed, s
  <2>2. Transcript' = TrimMessages(Append(Transcript, row)) /\ sess'[t].msgs = Transcript'
    BY <1>3, <1>4, <1>5, <2>1 DEF Transcript
  <2>3. Serial!Write(t)
    BY <2>2, <1>6 DEF Serial!Write, Serial!LastRows, TrimMessages
  <2> QED
    BY <1>4, <1>6, <2>1, <2>2, <2>3
<1>8. CASE Stored(t, s, FALSE) /\ pc' = [pc EXCEPT ![t] = err]
  BY <1>6, <1>8 DEF Stored
<1> QED
  BY <1>7, <1>8 DEF Save, SaveSucceeds, SaveErrs, Goto

\* Every step of the conversation is a step of the serial history, or none.
LEMMA NextCopy ==
    ASSUME TurnsFitLease, Clears = {}, Switches = {}
    PROVE  TypeInv /\ LockInv /\ CopyInv /\ [Next]_vars
             => CopyInv' /\ [Serial!Next]_(Serial!vars)
<1> SUFFICES ASSUME TypeInv, LockInv, CopyInv, [Next]_vars
             PROVE  CopyInv' /\ [Serial!Next]_(Serial!vars)
  OBVIOUS
<1> DEFINE Copying(t) == pc[t] \in {"card", "user", "stream", "tools"}
<1>a. Messages = Handlers /\ pc \in [Messages -> Stages]
      /\ sess \in [Messages -> Session \cup {NoSession}] /\ lock \in Messages \cup {NoOwner}
  BY DEF TypeInv, TypeOK, Handlers
<1>b. \A u \in Messages : Holding(u) => lock = u
  BY TurnsFitLease DEF LockInv
<1>c. \A u \in Messages : Copying(u) => Holding(u)
  BY DEF Holding
<1>1. ASSUME NEW t \in Messages, TryAcquire(t) PROVE CopyInv' /\ [Serial!Next]_(Serial!vars)
  <2>1. UNCHANGED <<store, sess>> /\ \A u \in Messages : Copying(u)' => Copying(u)
    BY <1>1, <1>a DEF TryAcquire, GrantLock, Goto
  <2>2. (lock = NoOwner /\ lock' = t) \/ UNCHANGED lock
    BY <1>1 DEF TryAcquire, GrantLock
  <2>3. Serial!Begin(t) \/ UNCHANGED Serial!vars
    BY <2>1, <2>2 DEF Serial!Begin, Serial!vars, Transcript
  <2> QED
    BY <2>1, <2>3 DEF CopyInv, Transcript, Serial!Next
<1>2. ASSUME NEW t \in Messages, LoadSession(t) PROVE CopyInv' /\ [Serial!Next]_(Serial!vars)
  <2>1. UNCHANGED <<store, lock>>
    BY <1>2 DEF LoadSession, Fetched, redisVars
  <2>2. \A u \in Messages \ {t} : pc'[u] = pc[u] /\ sess'[u] = sess[u]
    BY <1>2, <1>a DEF LoadSession, Fetched, Goto
  <2>3. Copying(t)' => sess'[t].msgs = Transcript
    BY <1>2, <1>a DEF LoadSession, Fetched, Goto, Transcript
  <2> QED
    BY <2>1, <2>2, <2>3 DEF CopyInv, Transcript, Serial!vars
<1>3. ASSUME NEW t \in Messages, OpenCard(t) \/ StreamFails(t) \/ EmitBlocks(t) \/ Finish(t)
      PROVE  CopyInv' /\ [Serial!Next]_(Serial!vars)
  <2>1. UNCHANGED <<store, lock, sess>> /\ \A u \in Messages : Copying(u)' => Copying(u)
    BY <1>3, <1>a DEF OpenCard, StreamFails, EmitBlocks, Finish, Goto, redisVars
  <2> QED
    BY <2>1 DEF CopyInv, Transcript, Serial!vars
<1>4. ASSUME NEW t \in Messages, NEW row \in Row, row.by = t, Copying(t),
             NEW ok, Save(t, Extend(t, row), ok, "failed")
      PROVE  CopyInv' /\ [Serial!Next]_(Serial!vars)
  <2>1. lock = t /\ sess[t].msgs = Transcript
    BY <1>4, <1>b, <1>c DEF CopyInv
  <2>2. sess[t] \in Session
    BY <1>4, <1>a DEF TypeInv, SessionLoaded
  <2>3. \A u \in Messages \ {t} : ~Copying(u) /\ pc'[u] = pc[u]
    BY <1>4, <1>a, <1>b, <1>c, <2>1 DEF Save, Goto
  <2>4. /\ UNCHANGED lock
        /\ \/ Serial!Write(t) /\ sess'[t].msgs = Transcript'
           \/ UNCHANGED store /\ pc' = [pc EXCEPT ![t] = "failed"]
    BY <1>4, <2>1, <2>2, SaveIsWrite
  <2>5. CASE Serial!Write(t) /\ sess'[t].msgs = Transcript'
    BY <2>3, <2>5 DEF CopyInv, Serial!Next
  <2>6. CASE UNCHANGED store /\ pc' = [pc EXCEPT ![t] = "failed"]
    BY <2>3, <2>4, <2>6, <1>a DEF CopyInv, Transcript, Serial!vars
  <2> QED
    BY <2>4, <2>5, <2>6
<1>5. ASSUME NEW t \in Messages, NEW calls \in BOOLEAN, SaveUser(t) \/ ModelReplies(t, calls) \/ RunTools(t)
      PROVE  CopyInv' /\ [Serial!Next]_(Serial!vars)
  <2>1. step[t] \in 0 .. MaxSteps
    BY DEF TypeInv, TypeOK
  <2>2. /\ UserRow(t) \in Row /\ UserRow(t).by = t
        /\ AssistantRow(t, calls) \in Row /\ AssistantRow(t, calls).by = t
        /\ ToolRow(t) \in Row /\ ToolRow(t).by = t
    BY <2>1, RowTypes DEF UserRow, AssistantRow, ToolRow
  <2>3. Copying(t)
    BY <1>5 DEF SaveUser, ModelReplies, RunTools
  <2> HIDE DEF Copying
  <2>4. \E row \in {UserRow(t), AssistantRow(t, calls), ToolRow(t)} :
          \E ok \in Stages : Save(t, Extend(t, row), ok, "failed")
    BY <1>5 DEF SaveUser, ModelReplies, RunTools, Stages
  <2> QED
    BY <1>4, <2>2, <2>3, <2>4
<1>6. ASSUME NEW t \in Messages, Release(t) PROVE CopyInv' /\ [Serial!Next]_(Serial!vars)
  <2>1. UNCHANGED store /\ \A u \in Messages : Copying(u)' => Copying(u) /\ sess'[u] = sess[u]
    BY <1>6, <1>a DEF Release, DropLock, Goto
  <2>2. (lock = t /\ lock' = NoOwner) \/ UNCHANGED lock
    BY <1>6 DEF Release, DropLock
  <2>3. Serial!End \/ UNCHANGED Serial!vars
    BY <2>1, <2>2, HandlersDisjoint DEF Serial!End, Serial!vars, Transcript
  <2> QED
    BY <2>1, <2>3 DEF CopyInv, Transcript, Serial!Next
<1>7. CASE Tick
  <2>1. UNCHANGED <<store, pc, sess>> /\ (lock' = NoOwner \/ UNCHANGED lock)
    BY <1>7 DEF Tick
  <2>2. Serial!End \/ UNCHANGED Serial!vars
    BY <2>1 DEF Serial!End, Serial!vars, Transcript
  <2> QED
    BY <2>1, <2>2 DEF CopyInv, Transcript, Serial!Next
<1>8. CASE SessionExpires
  <2>1. /\ lock = NoOwner /\ UNCHANGED <<lock, pc, sess>>
        /\ store' = NoSession
        /\ \A u \in Messages : ~Copying(u)
    BY <1>8, <1>a DEF SessionExpires, turnVars, Running, Over
  <2>2. Serial!Expire
    BY <2>1 DEF Serial!Expire, Transcript
  <2> QED
    BY <2>1, <2>2 DEF CopyInv, Serial!Next
<1>9. ASSUME NEW i \in Instances, CancelRoot(i) \/ CloseRedis(i) \/ Exit(i)
      PROVE  CopyInv' /\ [Serial!Next]_(Serial!vars)
  <2>1. UNCHANGED <<store, lock>>
    BY <1>9 DEF CancelRoot, CloseRedis, Exit, redisVars
  <2>2. \A u \in Messages : Copying(u)' => Copying(u) /\ sess'[u] = sess[u]
    BY <1>9, <1>a DEF CancelRoot, CloseRedis, Exit, turnVars
  <2> QED
    BY <2>1, <2>2 DEF CopyInv, Transcript, Serial!vars
<1>10. CASE UNCHANGED vars
  BY <1>10 DEF vars, redisVars, turnVars, CopyInv, Transcript, Serial!vars
<1> QED
  BY <1>1, <1>2, <1>3, <1>5, <1>6, <1>7, <1>8, <1>9, <1>10 DEF Next, Turn, Command, Quiescent

\* FR-012 and FR-072 together, for turns that end within LockTTL and without
\* commands: whatever fails, crashes or restarts, the stored session is the
\* history of turns served one after the other.
THEOREM HistoryIsSerial ==
    ASSUME TurnsFitLease, Clears = {}, Switches = {}
    PROVE  Spec => SerialHistory
<1>1. Init => CopyInv /\ Serial!Init
  BY InitCopy
<1>2. TypeInv /\ LockInv /\ CopyInv /\ [Next]_vars => CopyInv' /\ [Serial!Next]_(Serial!vars)
  BY TurnsFitLease, Clears = {}, Switches = {}, NextCopy
<1> QED
  BY <1>1, <1>2, LockInvariant, PTL DEF Spec, SerialHistory, Serial!Spec

-----------------------------------------------------------------------------
(* Overlapping writers: the rows of a turn have no gap.                      *)

NoneBy(msgs, t) == \A i \in 1 .. Len(msgs) : msgs[i].by # t

\* Rows of one turn that follow each other are consecutive in the program.
Gapless(msgs) ==
    \A i, j \in 1 .. Len(msgs) :
        /\ i < j
        /\ msgs[i].by = msgs[j].by
        /\ \A k \in i + 1 .. j - 1 : msgs[k].by # msgs[i].by
        => Place(msgs[j]) = Place(msgs[i]) + 1

\* A transcript as any writer may have it, while the turns in fresh wrote no row.
RowsOf(msgs, fresh) == Gapless(msgs) /\ \A t \in fresh : NoneBy(msgs, t)

\* The last row of msgs is the one before the place p of turn t.
EndsAt(msgs, t, p) ==
    /\ msgs # <<>>
    /\ msgs[Len(msgs)].by = t
    /\ Place(msgs[Len(msgs)]) + 1 = p

\* NoRowSkipped is not inductive: every snapshot may be written some day, and a
\* turn goes on where its own snapshot ends, whatever others store meanwhile.
FreshTurns   == {t \in Messages : pc[t] \in {"idle", "load", "card", "user"}}
NextPlace(t) == 2 * step[t] + (IF pc[t] = "tools" THEN 2 ELSE 1)

RowInv ==
    /\ store # NoSession => RowsOf(store.msgs, FreshTurns)
    /\ \A h \in Handlers : sess[h] # NoSession => RowsOf(sess[h].msgs, FreshTurns)
    /\ \A t \in FreshTurns : step[t] = 0
    /\ \A t \in Messages :
          pc[t] \in {"stream", "tools"} => EndsAt(sess[t].msgs, t, NextPlace(t))

\* Trimming drops rows at the front, never the last one.
LEMMA TrimIndices ==
    ASSUME NEW msgs \in Seq(Row)
    PROVE  \E d \in Nat :
              /\ Len(TrimMessages(msgs)) = Len(msgs) - d
              /\ msgs # <<>> => Len(TrimMessages(msgs)) > 0
              /\ \A i \in 1 .. Len(msgs) - d :
                    i + d \in 1 .. Len(msgs) /\ TrimMessages(msgs)[i] = msgs[i + d]
<1>1. Len(msgs) \in Nat /\ (msgs # <<>> => Len(msgs) > 0)
  OBVIOUS
<1>2. CASE Len(msgs) > MaxMessages
  <2> DEFINE d == Len(msgs) - MaxMessages
  <2>1. d \in Nat /\ d + 1 \in 1 .. Len(msgs) + 1 /\ Len(msgs) - d = MaxMessages /\ MaxMessages > 0
    BY <1>1, <1>2, BoundsType
  <2>2. TrimMessages(msgs) = SubSeq(msgs, d + 1, Len(msgs))
    BY <1>2 DEF TrimMessages
  <2>3. /\ Len(TrimMessages(msgs)) = Len(msgs) - d
        /\ \A i \in 1 .. Len(msgs) - d : TrimMessages(msgs)[i] = msgs[i + d]
    <3>1. /\ Len(SubSeq(msgs, d + 1, Len(msgs))) = Len(msgs) - (d + 1) + 1
          /\ \A i \in 1 .. Len(msgs) - (d + 1) + 1 :
                SubSeq(msgs, d + 1, Len(msgs))[i] = msgs[(d + 1) + i - 1]
      BY <1>1, <2>1, SubSeqProperties
    <3> QED
      BY <1>1, <2>1, <2>2, <3>1
  <2>4. \A i \in 1 .. Len(msgs) - d : i + d \in 1 .. Len(msgs)
    BY <1>1, <2>1
  <2> QED
    BY <2>1, <2>3, <2>4
<1>3. CASE ~(Len(msgs) > MaxMessages)
  <2>1. TrimMessages(msgs) = msgs
    BY <1>3 DEF TrimMessages
  <2>2. \A i \in 1 .. Len(msgs) - 0 : i + 0 \in 1 .. Len(msgs) /\ TrimMessages(msgs)[i] = msgs[i + 0]
    BY <1>1, <2>1
  <2>3. Len(TrimMessages(msgs)) = Len(msgs) - 0 /\ (msgs # <<>> => Len(TrimMessages(msgs)) > 0)
    BY <1>1, <2>1
  <2> QED
    BY <2>2, <2>3
<1> QED
  BY <1>2, <1>3

\* Trimming opens no gap and keeps the end.
LEMMA TrimRows ==
    ASSUME NEW msgs \in Seq(Row)
    PROVE  /\ \A fresh : RowsOf(msgs, fresh) => RowsOf(TrimMessages(msgs), fresh)
           /\ \A t, p : EndsAt(msgs, t, p) => EndsAt(TrimMessages(msgs), t, p)
<1> DEFINE new == TrimMessages(msgs)
<1>1. PICK m \in Nat : m = Len(msgs)
  OBVIOUS
<1>2. PICK d \in Nat : /\ Len(new) = m - d
                       /\ msgs # <<>> => Len(new) > 0
                       /\ \A i \in 1 .. m - d : i + d \in 1 .. m /\ new[i] = msgs[i + d]
  BY <1>1, TrimIndices
<1>3. new \in Seq(Row)
  BY TrimType
<1> HIDE DEF new
<1>4. ASSUME NEW fresh, RowsOf(msgs, fresh) PROVE RowsOf(new, fresh)
  <2>1. Gapless(msgs) /\ \A t \in fresh : NoneBy(msgs, t)
    BY <1>4 DEF RowsOf
  <2>2. Gapless(new)
    <3> SUFFICES ASSUME NEW i \in 1 .. m - d, NEW j \in 1 .. m - d, i < j,
                        new[i].by = new[j].by,
                        \A k \in i + 1 .. j - 1 : new[k].by # new[i].by
                 PROVE  Place(new[j]) = Place(new[i]) + 1
      BY <1>2 DEF Gapless
    <3>1. /\ i + d \in 1 .. m /\ j + d \in 1 .. m /\ i + d < j + d
          /\ new[i] = msgs[i + d] /\ new[j] = msgs[j + d]
      BY <1>2
    <3>2. ASSUME NEW k \in i + d + 1 .. j + d - 1 PROVE msgs[k].by # msgs[i + d].by
      <4>1. k - d \in i + 1 .. j - 1 /\ k - d \in 1 .. m - d /\ (k - d) + d = k
        OBVIOUS
      <4>2. new[k - d] = msgs[k]
        BY <4>1, <1>2
      <4> QED
        BY <4>1, <4>2, <3>1
    <3> QED
      BY <2>1, <3>1, <3>2, <1>1 DEF Gapless
  <2>3. \A t \in fresh : NoneBy(new, t)
    BY <1>1, <1>2, <2>1 DEF NoneBy
  <2> QED
    BY <2>2, <2>3 DEF RowsOf
<1>5. ASSUME NEW t, NEW p, EndsAt(msgs, t, p) PROVE EndsAt(new, t, p)
  <2>1. msgs # <<>>
    BY <1>5 DEF EndsAt
  <2>2. Len(new) = m - d /\ m - d \in 1 .. m - d /\ new # <<>>
    BY <1>2, <1>3, <2>1
  <2>3. new[Len(new)] = msgs[m]
    <3>1. new[m - d] = msgs[(m - d) + d] /\ (m - d) + d = m
      BY <1>2, <2>2
    <3> QED
      BY <2>2, <3>1
  <2> QED
    BY <1>1, <1>5, <2>2, <2>3 DEF EndsAt
<1> QED
  BY <1>4, <1>5 DEF new

\* A turn that appends its next row opens no gap.
LEMMA AppendRows ==
    ASSUME NEW msgs \in Seq(Row), NEW row \in Row, NEW fresh, RowsOf(msgs, fresh),
           row.by \in fresh \/ EndsAt(msgs, row.by, Place(row))
    PROVE  /\ RowsOf(Append(msgs, row), fresh \ {row.by})
           /\ EndsAt(Append(msgs, row), row.by, Place(row) + 1)
<1> DEFINE new == Append(msgs, row)
<1>1. PICK m \in Nat : m = Len(msgs)
  OBVIOUS
<1>2. /\ new \in Seq(Row) /\ Len(new) = m + 1 /\ new # <<>>
      /\ new[m + 1] = row
      /\ \A i \in 1 .. m : new[i] = msgs[i]
  BY <1>1
<1> HIDE DEF new
<1>3. Gapless(msgs) /\ \A t \in fresh : NoneBy(msgs, t)
  BY DEF RowsOf
<1>4. Gapless(new)
  <2> SUFFICES ASSUME NEW i \in 1 .. m + 1, NEW j \in 1 .. m + 1, i < j,
                      new[i].by = new[j].by,
                      \A k \in i + 1 .. j - 1 : new[k].by # new[i].by
               PROVE  Place(new[j]) = Place(new[i]) + 1
    BY <1>2 DEF Gapless
  <2>1. i \in 1 .. m /\ new[i] = msgs[i]
    BY <1>2
  <2>2. CASE j \in 1 .. m
    <3>0. \A k \in i + 1 .. j - 1 : k \in 1 .. m
      BY <2>1, <2>2
    <3>1. new[j] = msgs[j] /\ \A k \in i + 1 .. j - 1 : new[k] = msgs[k]
      BY <1>2, <2>2, <3>0
    <3> QED
      BY <1>1, <1>3, <2>1, <2>2, <3>1 DEF Gapless
  <2>3. CASE j = m + 1
    <3>1. new[j] = row /\ msgs[i].by = row.by
      BY <1>2, <2>1, <2>3
    <3>2. row.by \notin fresh
      BY <1>1, <1>3, <2>1, <3>1 DEF NoneBy
    <3>3. /\ msgs[m].by = row.by
          /\ Place(msgs[m]) + 1 = Place(row)
      BY <1>1, <3>2 DEF EndsAt
    <3>4. i = m
      <4> SUFFICES ASSUME i # m PROVE FALSE
        OBVIOUS
      <4>1. m \in i + 1 .. j - 1 /\ m \in 1 .. m
        BY <2>1, <2>3
      <4>2. new[m] = msgs[m]
        BY <1>2, <4>1
      <4> QED
        BY <2>1, <3>1, <3>3, <4>1, <4>2
    <3> QED
      BY <2>1, <3>1, <3>3, <3>4
  <2> QED
    BY <2>2, <2>3
<1>5. \A t \in fresh \ {row.by} : NoneBy(new, t)
  <2> SUFFICES ASSUME NEW t \in fresh, t # row.by, NEW i \in 1 .. m + 1 PROVE new[i].by # t
    BY <1>2 DEF NoneBy
  <2>1. i \in 1 .. m \/ i = m + 1
    OBVIOUS
  <2> QED
    BY <1>1, <1>2, <1>3, <2>1 DEF NoneBy
<1> QED
  BY <1>2, <1>4, <1>5 DEF new, RowsOf, EndsAt

\* A step that only adds snapshots with such rows keeps RowInv.
LEMMA RowsKept ==
    ASSUME RowInv,
           FreshTurns' \subseteq FreshTurns,
           store' = store \/ (store' # NoSession => RowsOf(store'.msgs, FreshTurns')),
           \A h \in Handlers :
              sess'[h] = sess[h] \/ (sess'[h] # NoSession => RowsOf(sess'[h].msgs, FreshTurns')),
           \A t \in FreshTurns' : step'[t] = step[t],
           \A t \in Messages : pc'[t] \in {"stream", "tools"} =>
              \/ pc'[t] = pc[t] /\ step'[t] = step[t] /\ sess'[t] = sess[t]
              \/ EndsAt(sess'[t].msgs, t, NextPlace(t)')
    PROVE  RowInv'
<1>1. \A msgs : RowsOf(msgs, FreshTurns) => RowsOf(msgs, FreshTurns')
  BY DEF RowsOf
<1>2. store' # NoSession => RowsOf(store'.msgs, FreshTurns')
  BY <1>1 DEF RowInv
<1>3. \A h \in Handlers : sess'[h] # NoSession => RowsOf(sess'[h].msgs, FreshTurns')
  BY <1>1 DEF RowInv
<1>4. \A t \in FreshTurns' : step'[t] = 0
  BY DEF RowInv
<1>5. \A t \in Messages : pc'[t] \in {"stream", "tools"} => EndsAt(sess'[t].msgs, t, NextPlace(t)')
  BY DEF RowInv, NextPlace
<1> QED
  BY <1>2, <1>3, <1>4, <1>5 DEF RowInv

\* RedisStore.Save of s: the snapshot and perhaps the store become s, trimmed.
LEMMA StoredRows ==
    ASSUME TypeInv, NEW h \in Handlers, NEW s \in Session, NEW applied \in BOOLEAN,
           Stored(h, s, applied)
    PROVE  /\ sess'[h] \in Session /\ sess'[h].msgs = TrimMessages(s.msgs)
           /\ \A g \in Handlers : g # h => sess'[g] = sess[g]
           /\ store' \in {store, sess'[h]}
           /\ applied => store' = sess'[h]
<1> DEFINE trimmed == [s EXCEPT !.msgs = TrimMessages(@)]
<1>1. trimmed \in Session /\ trimmed.msgs = TrimMessages(s.msgs)
  BY TrimmedType DEF Session
<1>2. /\ sess' = [sess EXCEPT ![h] = trimmed]
      /\ store' = IF applied THEN trimmed ELSE store
  BY DEF Stored
<1>3. sess \in [Handlers -> Session \cup {NoSession}]
  BY DEF TypeInv, TypeOK
<1> HIDE DEF trimmed
<1> QED
  BY <1>1, <1>2, <1>3

\* A turn saves its snapshot with its next row.
LEMMA SaveRows ==
    ASSUME TypeInv, RowInv, NEW t \in Messages, sess[t] \in Session,
           NEW row \in Row, row.by = t,
           t \in FreshTurns \/ EndsAt(sess[t].msgs, t, Place(row)),
           NEW ok \in Stages, NEW err \in Stages, Save(t, Extend(t, row), ok, err)
    PROVE  /\ RowsOf(sess'[t].msgs, FreshTurns \ {t})
           /\ EndsAt(sess'[t].msgs, t, Place(row) + 1)
           /\ store' \in {store, sess'[t]}
           /\ sess'[t] \in Session
           /\ \A g \in Handlers : g # t => sess'[g] = sess[g]
<1> DEFINE msgs == sess[t].msgs
           s    == Extend(t, row)
<1>1. msgs \in Seq(Row) /\ t \in Handlers /\ sess[t] # NoSession
  BY NoSessionType DEF Session, Handlers
<1>2. s \in Session /\ s.msgs = Append(msgs, row)
  BY ExtendType DEF Extend, Session
<1>3. RowsOf(msgs, FreshTurns)
  BY <1>1 DEF RowInv
<1>4. PICK applied \in BOOLEAN : Stored(t, s, applied)
  BY DEF Save, SaveSucceeds, SaveErrs
<1> HIDE DEF msgs, s
<1>5. /\ RowsOf(Append(msgs, row), FreshTurns \ {t})
      /\ EndsAt(Append(msgs, row), t, Place(row) + 1)
  BY <1>1, <1>3, AppendRows DEF msgs
<1>6. Append(msgs, row) \in Seq(Row)
  BY <1>1
<1>7. /\ RowsOf(TrimMessages(Append(msgs, row)), FreshTurns \ {t})
      /\ EndsAt(TrimMessages(Append(msgs, row)), t, Place(row) + 1)
  BY <1>5, <1>6, TrimRows
<1>8. /\ sess'[t] \in Session /\ sess'[t].msgs = TrimMessages(s.msgs)
      /\ \A g \in Handlers : g # t => sess'[g] = sess[g]
      /\ store' \in {store, sess'[t]}
  BY <1>1, <1>2, <1>4, StoredRows
<1>9. sess'[t].msgs = TrimMessages(Append(msgs, row))
  BY <1>2, <1>8
<1> QED
  BY <1>7, <1>8, <1>9

\* The places of the rows a turn writes.
LEMMA RowPlaces ==
    ASSUME NEW t \in Messages, NEW calls \in BOOLEAN, step[t] \in Nat
    PROVE  /\ Place(UserRow(t)) = 0 /\ UserRow(t).by = t
           /\ Place(AssistantRow(t, calls)) = 2 * step[t] + 1 /\ AssistantRow(t, calls).by = t
           /\ Place(ToolRow(t)) = 2 * step[t] + 2 /\ ToolRow(t).by = t
BY DEF Place, UserRow, AssistantRow, ToolRow

LEMMA InitRows == Init => RowInv
BY DEF Init, RowInv, FreshTurns, Handlers

\* Every step, of whatever handler, keeps the rows of every turn without a gap.
LEMMA NextRows == TypeInv /\ RowInv /\ [Next]_vars => RowInv'
<1> SUFFICES ASSUME TypeInv, RowInv, [Next]_vars PROVE RowInv'
  OBVIOUS
<1>a. Messages \subseteq Handlers /\ Clears \subseteq Handlers /\ Switches \subseteq Handlers
  BY DEF Handlers
<1>b. /\ pc \in [Handlers -> Stages] /\ sess \in [Handlers -> Session \cup {NoSession}]
      /\ store \in Session \cup {NoSession} /\ step \in [Messages -> 0 .. MaxSteps]
  BY DEF TypeInv, TypeOK
<1>c. \A f : RowsOf(<<>>, f)
  BY DEF RowsOf, Gapless, NoneBy
<1>1. ASSUME NEW t \in Messages, TryAcquire(t) \/ OpenCard(t) \/ StreamFails(t) \/ EmitBlocks(t) \/ Finish(t)
      PROVE  RowInv'
  <2>1. /\ UNCHANGED <<store, sess, step>>
        /\ \E stage \in Stages \ {"idle", "stream", "tools"} :
              /\ pc' = [pc EXCEPT ![t] = stage]
              /\ stage \in {"idle", "load", "card", "user"} =>
                    pc[t] \in {"idle", "load", "card", "user"}
    BY <1>1 DEF TryAcquire, GrantLock, OpenCard, StreamFails, EmitBlocks, Finish, Goto, Stages, redisVars
  <2>2. FreshTurns' \subseteq FreshTurns
    BY <2>1, <1>a, <1>b DEF FreshTurns
  <2>3. \A u \in Messages : pc'[u] \in {"stream", "tools"} => pc'[u] = pc[u]
    BY <2>1, <1>a, <1>b
  <2> QED
    BY <2>1, <2>2, <2>3, RowsKept DEF FreshTurns
<1>2. ASSUME NEW t \in Messages, LoadSession(t) PROVE RowInv'
  <2>1. /\ UNCHANGED <<store, step>> /\ pc[t] = "load"
        /\ \/ sess' = [sess EXCEPT ![t] = Fetched] /\ pc' = [pc EXCEPT ![t] = "card"]
           \/ sess' = sess /\ pc' = [pc EXCEPT ![t] = "release"]
    BY <1>2 DEF LoadSession, Goto, redisVars
  <2>2. FreshTurns' \subseteq FreshTurns
    BY <2>1, <1>a, <1>b DEF FreshTurns
  <2>3. RowsOf(Fetched.msgs, FreshTurns')
    <3>1. RowsOf(Fetched.msgs, FreshTurns)
      BY <1>c DEF Fetched, RowInv
    <3> QED
      BY <2>2, <3>1 DEF RowsOf
  <2>4. \A h \in Handlers :
           sess'[h] = sess[h] \/ (sess'[h] # NoSession => RowsOf(sess'[h].msgs, FreshTurns'))
    <3> HIDE DEF Fetched
    <3> QED
      BY <2>1, <2>3, <1>a, <1>b
  <2>5. \A u \in Messages : pc'[u] \in {"stream", "tools"} => pc'[u] = pc[u] /\ sess'[u] = sess[u]
    BY <2>1, <1>a, <1>b
  <2> QED
    BY <2>1, <2>2, <2>4, <2>5, RowsKept DEF FreshTurns
<1>3. ASSUME NEW t \in Messages, NEW row \in Row, row.by = t, sess[t] \in Session,
             t \in FreshTurns \/ EndsAt(sess[t].msgs, t, Place(row)),
             NEW ok \in Stages \ {"idle", "load", "card", "user"},
             Save(t, Extend(t, row), ok, "failed"),
             \A u \in Messages \ {t} : step'[u] = step[u],
             ok \in {"stream", "tools"} /\ pc'[t] = ok => NextPlace(t)' = Place(row) + 1
      PROVE  RowInv'
  <2>1. /\ RowsOf(sess'[t].msgs, FreshTurns \ {t})
        /\ EndsAt(sess'[t].msgs, t, Place(row) + 1)
        /\ store' \in {store, sess'[t]}
        /\ \A g \in Handlers : g # t => sess'[g] = sess[g]
    <3>1. ok \in Stages /\ "failed" \in Stages
      BY <1>3 DEF Stages
    <3> QED
      BY <1>3, <3>1, SaveRows
  <2>2. pc' = [pc EXCEPT ![t] = ok] \/ pc' = [pc EXCEPT ![t] = "failed"]
    BY <1>3 DEF Save, Goto
  <2>3. FreshTurns' = FreshTurns \ {t}
    BY <2>2, <1>3, <1>a, <1>b DEF FreshTurns
  <2>4. \A u \in Messages : pc'[u] \in {"stream", "tools"} =>
           \/ pc'[u] = pc[u] /\ step'[u] = step[u] /\ sess'[u] = sess[u]
           \/ EndsAt(sess'[u].msgs, u, NextPlace(u)')
    <3>1. ASSUME NEW u \in Messages, u # t PROVE pc'[u] = pc[u] /\ step'[u] = step[u] /\ sess'[u] = sess[u]
      BY <1>3, <2>1, <2>2, <3>1, <1>a, <1>b
    <3>2. ASSUME pc'[t] \in {"stream", "tools"} PROVE EndsAt(sess'[t].msgs, t, NextPlace(t)')
      <4>1. pc'[t] = ok
        BY <2>2, <3>2, <1>a, <1>b
      <4> QED
        BY <1>3, <2>1, <3>2, <4>1
    <3> QED
      BY <3>1, <3>2
  <2>5. /\ store' = store \/ RowsOf(store'.msgs, FreshTurns')
        /\ \A h \in Handlers : sess'[h] = sess[h] \/ RowsOf(sess'[h].msgs, FreshTurns')
    BY <2>1, <2>3
  <2>6. \A u \in FreshTurns' : step'[u] = step[u]
    BY <1>3, <2>3 DEF FreshTurns
  <2> QED
    BY <2>3, <2>4, <2>5, <2>6, RowsKept
<1>4. ASSUME NEW t \in Messages, SaveUser(t) PROVE RowInv'
  <2>0. pc[t] = "user" /\ UNCHANGED step
    BY <1>4 DEF SaveUser
  <2>1. t \in FreshTurns /\ step[t] = 0 /\ sess[t] \in Session
    BY <2>0, <1>a DEF FreshTurns, RowInv, TypeInv, SessionLoaded
  <2>2. UserRow(t) \in Row /\ UserRow(t).by = t /\ Place(UserRow(t)) = 0
    BY BoundsType DEF UserRow, Row, Place
  <2>3. pc'[t] = "stream" => NextPlace(t)' = 0 + 1
    BY <2>0, <2>1 DEF NextPlace
  <2>4. Save(t, Extend(t, UserRow(t)), "stream", "failed")
    BY <1>4 DEF SaveUser
  <2>5. "stream" \in Stages \ {"idle", "load", "card", "user"}
    BY DEF Stages
  <2> QED
    BY <1>3, <2>0, <2>1, <2>2, <2>3, <2>4, <2>5
<1>5. ASSUME NEW t \in Messages, NEW calls \in BOOLEAN, ModelReplies(t, calls) PROVE RowInv'
  <2> DEFINE row == AssistantRow(t, calls)
             ok  == IF calls THEN "tools" ELSE "answered"
  <2>1. pc[t] = "stream" /\ step[t] \in Nat /\ sess[t] \in Session /\ UNCHANGED step
    BY <1>5, <1>a, <1>b DEF ModelReplies, TypeInv, SessionLoaded
  <2>2. row \in Row /\ row.by = t /\ Place(row) = 2 * step[t] + 1
    BY <2>1, <1>b, RowTypes, RowPlaces
  <2>3. EndsAt(sess[t].msgs, t, Place(row))
    BY <2>1, <2>2 DEF RowInv, NextPlace
  <2>4. ok \in {"stream", "tools"} /\ pc'[t] = ok => NextPlace(t)' = Place(row) + 1
    BY <2>1, <2>2 DEF NextPlace
  <2>5. Save(t, Extend(t, row), ok, "failed") /\ ok \in Stages \ {"idle", "load", "card", "user"}
    BY <1>5 DEF ModelReplies, Stages
  <2> HIDE DEF row, ok
  <2> QED
    BY <1>3, <2>1, <2>2, <2>3, <2>4, <2>5
<1>6. ASSUME NEW t \in Messages, RunTools(t) PROVE RowInv'
  <2> DEFINE row == ToolRow(t)
             ok  == IF step[t] + 1 = MaxSteps THEN "failed" ELSE "stream"
  <2>1. /\ pc[t] = "tools" /\ step[t] \in Nat /\ sess[t] \in Session
        /\ step' = [step EXCEPT ![t] = step[t] + 1]
    BY <1>6, <1>a, <1>b DEF RunTools, TypeInv, SessionLoaded
  <2>2. row \in Row /\ row.by = t /\ Place(row) = 2 * step[t] + 2
    BY <2>1, <1>b, RowTypes, RowPlaces
  <2>3. EndsAt(sess[t].msgs, t, Place(row))
    BY <2>1, <2>2 DEF RowInv, NextPlace
  <2>4. ok \in {"stream", "tools"} /\ pc'[t] = ok => NextPlace(t)' = Place(row) + 1
    BY <2>1, <2>2, <1>b DEF NextPlace
  <2>5. Save(t, Extend(t, row), ok, "failed") /\ ok \in Stages \ {"idle", "load", "card", "user"}
    BY <1>6 DEF RunTools, Stages
  <2>6. \A u \in Messages \ {t} : step'[u] = step[u]
    BY <2>1, <1>b
  <2> HIDE DEF row, ok
  <2> QED
    BY <1>3, <2>1, <2>2, <2>3, <2>4, <2>5, <2>6
<1>7. ASSUME NEW t \in Messages, Release(t) PROVE RowInv'
  <2>1. /\ UNCHANGED <<store, step>> /\ pc' = [pc EXCEPT ![t] = "done"]
        /\ sess' = [sess EXCEPT ![t] = NoSession]
    BY <1>7 DEF Release, Goto
  <2>2. FreshTurns' \subseteq FreshTurns
    BY <2>1, <1>a, <1>b DEF FreshTurns
  <2>3. /\ \A h \in Handlers : sess'[h] \in {sess[h], NoSession}
        /\ \A u \in Messages : pc'[u] \in {"stream", "tools"} => pc'[u] = pc[u] /\ sess'[u] = sess[u]
    BY <2>1, <1>a, <1>b
  <2> QED
    BY <2>1, <2>2, <2>3, RowsKept DEF FreshTurns
<1>8. ASSUME NEW c \in Clears \cup Switches, Command(c) PROVE RowInv'
  <2>1. c \in Handlers /\ c \notin Messages
    BY <1>a, HandlersDisjoint
  <2>2. (\E stage \in {"done", "switch"} : pc' = [pc EXCEPT ![c] = stage]) /\ UNCHANGED step
    BY <1>8 DEF Command, Clear, DeleteSession, SwitchLoad, Fetched, SwitchSave, Goto
  <2>3. \A u \in Messages : pc'[u] = pc[u]
    BY <2>1, <2>2, <1>a, <1>b
  <2>4. FreshTurns' = FreshTurns
    BY <2>3 DEF FreshTurns
  <2>5. CASE Clear(c)
    <3>1. store' \in {store, NoSession} /\ UNCHANGED sess
      BY <2>5 DEF Clear, DeleteSession
    <3> QED
      BY <2>2, <2>3, <2>4, <3>1, RowsKept
  <2>6. CASE SwitchLoad(c)
    <3> DEFINE switched == [Fetched EXCEPT !.provider = c]
    <3>1. UNCHANGED store /\ (sess' = sess \/ sess' = [sess EXCEPT ![c] = switched])
      BY <2>6 DEF SwitchLoad, redisVars
    <3>2. switched.msgs = Fetched.msgs
      BY <1>b DEF Fetched, Session
    <3>3. RowsOf(switched.msgs, FreshTurns')
      BY <1>c, <2>4, <3>2 DEF Fetched, RowInv
    <3> HIDE DEF switched
    <3>4. \A h \in Handlers :
             \/ sess'[h] = sess[h]
             \/ h = c /\ RowsOf(sess'[h].msgs, FreshTurns')
      BY <2>1, <3>1, <3>3, <1>b
    <3> QED
      BY <2>1, <2>2, <2>3, <2>4, <3>1, <3>4, <1>a, RowsKept
  <2>7. CASE SwitchSave(c)
    <3>1. sess[c] \in Session /\ sess[c] # NoSession
      BY <2>1, <2>7, NoSessionType DEF SwitchSave, TypeInv, SessionLoaded
    <3>2. PICK applied \in BOOLEAN : Stored(c, sess[c], applied)
      BY <2>7 DEF SwitchSave, SaveSucceeds, SaveErrs
    <3>3. /\ sess'[c].msgs = TrimMessages(sess[c].msgs)
          /\ \A g \in Handlers : g # c => sess'[g] = sess[g]
          /\ store' \in {store, sess'[c]}
      BY <2>1, <3>1, <3>2, StoredRows
    <3>4. sess[c].msgs \in Seq(Row) /\ RowsOf(sess[c].msgs, FreshTurns')
      BY <2>1, <2>4, <3>1 DEF Session, RowInv
    <3>5. RowsOf(sess'[c].msgs, FreshTurns')
      BY <3>3, <3>4, TrimRows
    <3> QED
      BY <2>1, <2>2, <2>3, <2>4, <3>3, <3>5, <1>a, RowsKept
  <2> QED
    BY <1>8, <2>5, <2>6, <2>7 DEF Command
<1>9. ASSUME NEW i \in Instances, Exit(i) PROVE RowInv'
  <2>1. /\ UNCHANGED <<store, step>>
        /\ \A h \in Handlers : pc'[h] \in {pc[h], "dead"}
        /\ \A h \in Handlers : sess'[h] \in {sess[h], NoSession}
        /\ \A h \in Handlers : pc'[h] # "dead" => pc'[h] = "done" \/ sess'[h] = sess[h]
    BY <1>9, <1>b DEF Exit, redisVars
  <2>2. FreshTurns' \subseteq FreshTurns
    BY <2>1, <1>a DEF FreshTurns
  <2> QED
    BY <2>1, <2>2, <1>a, RowsKept DEF FreshTurns
<1>10. CASE UNCHANGED vars \/ Tick \/ SessionExpires \/ \E i \in Instances : CancelRoot(i) \/ CloseRedis(i)
  <2>1. store' \in {store, NoSession} /\ UNCHANGED <<sess, step, pc>>
    BY <1>10 DEF vars, Tick, SessionExpires, CancelRoot, CloseRedis, redisVars, turnVars
  <2>2. FreshTurns' = FreshTurns
    BY <2>1 DEF FreshTurns
  <2> QED
    BY <2>1, <2>2, RowsKept
<1> QED
  BY <1>1, <1>2, <1>4, <1>5, <1>6, <1>7, <1>8, <1>9, <1>10 DEF Next, Turn, Quiescent

\* Whatever overlapping turns, /clear, /model, failing saves and crashes lose or
\* bring back: what is stored of a turn is in program order and has no gap.
THEOREM NoRowIsSkipped == Spec => []NoRowSkipped
<1>1. RowInv => NoRowSkipped
  BY DEF RowInv, RowsOf, Gapless, NoRowSkipped
<1> QED
  BY <1>1, InitType, NextType, InitRows, NextRows, PTL DEF Spec

-----------------------------------------------------------------------------
(* What an answered turn leaves behind.                                      *)

\* The row that answers a request.
ResultOf(row) == [row EXCEPT !.role = "tool", !.calls = FALSE]

\* Every tool request of turn t is followed by its results, but for the last row.
CallsPending(msgs, t, row) ==
    /\ msgs # <<>>
    /\ msgs[Len(msgs)] = row
    /\ \A i \in 1 .. Len(msgs) - 1 :
          msgs[i].by = t /\ msgs[i].calls => msgs[i + 1] = ResultOf(msgs[i])

EndsWith(msgs, row) == msgs # <<>> /\ msgs[Len(msgs)] = row

\* Trimming at each write takes no results from a request that is kept.
LEMMA TrimAnswers ==
    ASSUME NEW msgs \in Seq(Row), NEW t, NEW row
    PROVE  /\ CallsAnswered(msgs, t) => CallsAnswered(TrimMessages(msgs), t)
           /\ CallsPending(msgs, t, row) => CallsPending(TrimMessages(msgs), t, row)
           /\ EndsWith(msgs, row) => EndsWith(TrimMessages(msgs), row)
<1> DEFINE new == TrimMessages(msgs)
<1>1. PICK m \in Nat : m = Len(msgs)
  OBVIOUS
<1>2. PICK d \in Nat : /\ Len(new) = m - d
                       /\ msgs # <<>> => Len(new) > 0
                       /\ \A i \in 1 .. m - d : i + d \in 1 .. m /\ new[i] = msgs[i + d]
  BY <1>1, TrimIndices
<1>3. new \in Seq(Row)
  BY TrimType
<1> HIDE DEF new
<1>4. ASSUME CallsAnswered(msgs, t) PROVE CallsAnswered(new, t)
  <2> SUFFICES ASSUME NEW i \in 1 .. m - d, new[i].by = t, new[i].calls
               PROVE  i < m - d /\ new[i + 1] = ResultOf(new[i])
    BY <1>2 DEF CallsAnswered, ResultOf
  <2>1. i + d \in 1 .. m /\ new[i] = msgs[i + d]
    BY <1>2
  <2>2. i + d < m /\ msgs[(i + d) + 1] = ResultOf(msgs[i + d])
    BY <1>1, <1>4, <2>1 DEF CallsAnswered, ResultOf
  <2>3. i + 1 \in 1 .. m - d /\ (i + 1) + d = (i + d) + 1
    BY <2>2
  <2>4. new[i + 1] = msgs[(i + d) + 1]
    BY <1>2, <2>3
  <2> QED
    BY <2>1, <2>2, <2>3, <2>4
<1>5. ASSUME EndsWith(msgs, row) PROVE EndsWith(new, row)
  <2>1. m - d \in 1 .. m - d /\ (m - d) + d = m /\ new # <<>>
    BY <1>2, <1>3, <1>5 DEF EndsWith
  <2>2. new[m - d] = msgs[(m - d) + d]
    BY <1>2, <2>1
  <2> QED
    BY <1>1, <1>2, <1>5, <2>1, <2>2 DEF EndsWith
<1>6. ASSUME CallsPending(msgs, t, row) PROVE CallsPending(new, t, row)
  <2>1. EndsWith(new, row)
    BY <1>5, <1>6 DEF CallsPending, EndsWith
  <2>2. ASSUME NEW i \in 1 .. (m - d) - 1, new[i].by = t, new[i].calls
        PROVE  new[i + 1] = ResultOf(new[i])
    <3>1. i \in 1 .. m - d /\ i + 1 \in 1 .. m - d /\ (i + 1) + d = (i + d) + 1 /\ i + d \in 1 .. m - 1
      OBVIOUS
    <3>2. new[i] = msgs[i + d] /\ new[i + 1] = msgs[(i + d) + 1]
      BY <1>2, <3>1
    <3>3. msgs[(i + d) + 1] = ResultOf(msgs[i + d])
      BY <1>1, <1>6, <2>2, <3>1, <3>2 DEF CallsPending
    <3> QED
      BY <3>2, <3>3
  <2> QED
    BY <1>2, <2>1, <2>2 DEF CallsPending, EndsWith
<1> QED
  BY <1>4, <1>5, <1>6 DEF new

\* What appending a row does to the requests of turn t.
LEMMA AppendAnswers ==
    ASSUME NEW msgs \in Seq(Row), NEW row \in Row, NEW t
    PROVE  /\ EndsWith(Append(msgs, row), row)
           /\ CallsAnswered(msgs, t) /\ ~(row.by = t /\ row.calls)
                => CallsAnswered(Append(msgs, row), t)
           /\ CallsAnswered(msgs, t) => CallsPending(Append(msgs, row), t, row)
           /\ \A req : CallsPending(msgs, t, req) /\ row = ResultOf(req) /\ ~row.calls
                => CallsAnswered(Append(msgs, row), t)
<1> DEFINE new == Append(msgs, row)
<1>1. PICK m \in Nat : m = Len(msgs)
  OBVIOUS
<1>2. /\ new \in Seq(Row) /\ Len(new) = m + 1 /\ new # <<>>
      /\ new[m + 1] = row
      /\ \A i \in 1 .. m : new[i] = msgs[i]
  BY <1>1
<1> HIDE DEF new
<1>3. EndsWith(new, row)
  BY <1>2 DEF EndsWith
<1>4. ASSUME CallsAnswered(msgs, t), NEW i \in 1 .. m, new[i].by = t, new[i].calls
      PROVE  new[i + 1] = ResultOf(new[i])
  <2>1. i < m /\ msgs[i + 1] = ResultOf(msgs[i])
    BY <1>1, <1>2, <1>4 DEF CallsAnswered, ResultOf
  <2>2. i + 1 \in 1 .. m
    BY <2>1
  <2> QED
    BY <1>2, <2>1, <2>2
<1>5. ASSUME CallsAnswered(msgs, t), ~(row.by = t /\ row.calls) PROVE CallsAnswered(new, t)
  <2> SUFFICES ASSUME NEW i \in 1 .. m + 1, new[i].by = t, new[i].calls
               PROVE  i < m + 1 /\ new[i + 1] = ResultOf(new[i])
    BY <1>2 DEF CallsAnswered, ResultOf
  <2>1. i # m + 1
    BY <1>2, <1>5
  <2>2. i \in 1 .. m /\ i < m + 1
    BY <2>1
  <2> QED
    BY <1>4, <1>5, <2>2
<1>6. ASSUME CallsAnswered(msgs, t) PROVE CallsPending(new, t, row)
  <2>1. 1 .. (m + 1) - 1 = 1 .. m
    OBVIOUS
  <2> QED
    BY <1>2, <1>4, <1>6, <2>1 DEF CallsPending
<1>7. ASSUME NEW req, CallsPending(msgs, t, req), row = ResultOf(req), ~row.calls
      PROVE  CallsAnswered(new, t)
  <2> SUFFICES ASSUME NEW i \in 1 .. m + 1, new[i].by = t, new[i].calls
               PROVE  i < m + 1 /\ new[i + 1] = ResultOf(new[i])
    BY <1>2 DEF CallsAnswered, ResultOf
  <2>1. i # m + 1
    BY <1>2, <1>7
  <2>2. i \in 1 .. m /\ i < m + 1 /\ new[i] = msgs[i]
    BY <1>2, <2>1
  <2>3. CASE i = m
    BY <1>1, <1>2, <1>7, <2>2, <2>3 DEF CallsPending
  <2>4. CASE i # m
    <3>1. i \in 1 .. m - 1 /\ i + 1 \in 1 .. m
      BY <2>2, <2>4
    <3>2. msgs[i + 1] = ResultOf(msgs[i])
      BY <1>1, <1>7, <2>2, <3>1 DEF CallsPending
    <3> QED
      BY <1>2, <2>2, <3>1, <3>2
  <2> QED
    BY <2>3, <2>4
<1> QED
  BY <1>3, <1>5, <1>6, <1>7 DEF new

\* What appending and trimming do together.
LEMMA WriteAnswers ==
    ASSUME NEW msgs \in Seq(Row), NEW row \in Row, NEW t
    PROVE  LET new == TrimMessages(Append(msgs, row)) IN
           /\ EndsWith(new, row)
           /\ CallsAnswered(msgs, t) /\ ~(row.by = t /\ row.calls) => CallsAnswered(new, t)
           /\ CallsAnswered(msgs, t) => CallsPending(new, t, row)
           /\ \A req : CallsPending(msgs, t, req) /\ row = ResultOf(req) /\ ~row.calls
                => CallsAnswered(new, t)
<1>1. Append(msgs, row) \in Seq(Row)
  OBVIOUS
<1> QED
  BY <1>1, AppendAnswers, TrimAnswers

\* AnsweredTurnsPaired is not inductive: until a turn has its answer, nothing is
\* left open but the request whose tools it runs, and that is the last row.  A
\* turn writes its copy back over whatever /clear left, so the copy counts too.
Settled(t) ==
    \/ pc[t] \in {"idle", "load", "card", "user", "stream", "answered"}
    \/ reply[t] = "answered"

Copying(t) == pc[t] \in {"card", "user", "stream", "tools"}

SettledAnswered(msgs) == \A u \in Messages : Settled(u) => CallsAnswered(msgs, u)

PairInv ==
    /\ SettledAnswered(Transcript)
    /\ \A t \in Messages : Copying(t) => SettledAnswered(sess[t].msgs)
    /\ \A t \in Messages :
          pc[t] = "tools" => CallsPending(sess[t].msgs, t, AssistantRow(t, TRUE))
    /\ \A t \in Messages : reply[t] = "answered" => pc[t] \in {"release", "done", "dead"}

LEMMA InitPair == Init => PairInv
BY DEF Init, PairInv, SettledAnswered, Settled, Copying, CallsAnswered, Transcript, Handlers

\* A step that only forgets, or takes a copy of what is stored, keeps PairInv.
LEMMA PairKept ==
    ASSUME PairInv, Transcript' \in {Transcript, <<>>},
           \A u \in Messages : Settled(u)' => Settled(u),
           \A u \in Messages : Copying(u)' =>
              \/ Copying(u) /\ sess'[u] = sess[u]
              \/ sess'[u].msgs = Transcript,
           \A u \in Messages : pc'[u] = "tools" =>
              pc[u] = "tools" /\ step'[u] = step[u] /\ sess'[u] = sess[u],
           \A u \in Messages : reply'[u] = "answered" => pc'[u] \in {"release", "done", "dead"}
    PROVE  PairInv'
<1>1. SettledAnswered(Transcript) /\ SettledAnswered(<<>>)
  <2>1. \A u : CallsAnswered(<<>>, u)
    BY DEF CallsAnswered
  <2> QED
    BY <2>1 DEF PairInv, SettledAnswered
<1>2. \A msgs : SettledAnswered(msgs) =>
         \A u \in Messages : Settled(u)' => CallsAnswered(msgs, u)
  BY DEF SettledAnswered
<1>3. SettledAnswered(Transcript)'
  <2>1. \A u \in Messages : Settled(u)' => CallsAnswered(Transcript', u)
    BY <1>1, <1>2
  <2> QED
    BY <2>1 DEF SettledAnswered, CallsAnswered
<1>4. ASSUME NEW t \in Messages, Copying(t)' PROVE SettledAnswered(sess[t].msgs)'
  <2>1. SettledAnswered(sess'[t].msgs)
    BY <1>1, <1>4 DEF PairInv
  <2>2. \A u \in Messages : Settled(u)' => CallsAnswered(sess'[t].msgs, u)
    BY <1>2, <2>1
  <2> QED
    BY <2>2 DEF SettledAnswered, CallsAnswered
<1>5. ASSUME NEW t \in Messages, pc'[t] = "tools"
      PROVE  CallsPending(sess[t].msgs, t, AssistantRow(t, TRUE))'
  <2>1. CallsPending(sess[t].msgs, t, AssistantRow(t, TRUE))
    BY <1>5 DEF PairInv
  <2>2. AssistantRow(t, TRUE)' = AssistantRow(t, TRUE) /\ sess'[t] = sess[t]
    BY <1>5 DEF AssistantRow
  <2> QED
    BY <2>1, <2>2 DEF CallsPending
<1> QED
  BY <1>3, <1>4, <1>5 DEF PairInv

\* What a save of turn t leaves: its copy with the row, trimmed; the store holds
\* that, or what it held, and holds it if the turn goes on.
LEMMA SaveCopies ==
    ASSUME TypeInv, NEW t \in Messages, sess[t] \in Session,
           NEW row \in Row, NEW ok, NEW err, Save(t, Extend(t, row), ok, err)
    PROVE  /\ sess'[t] \in Session
           /\ sess'[t].msgs = TrimMessages(Append(sess[t].msgs, row))
           /\ \A u \in Messages : u # t => sess'[u] = sess[u] /\ pc'[u] = pc[u]
           /\ \/ store' = sess'[t] /\ pc'[t] = ok
              \/ store' \in {store, sess'[t]} /\ pc'[t] = err
<1> DEFINE s == Extend(t, row)
<1>1. s \in Session /\ s.msgs = Append(sess[t].msgs, row)
  BY ExtendType DEF Extend, Session
<1>2. t \in Handlers /\ Messages \subseteq Handlers /\ pc \in [Handlers -> Stages]
  BY DEF TypeInv, TypeOK, Handlers
<1>3. \/ Stored(t, s, TRUE) /\ pc' = [pc EXCEPT ![t] = ok]
      \/ \E applied \in BOOLEAN : Stored(t, s, applied) /\ pc' = [pc EXCEPT ![t] = err]
  BY DEF Save, SaveSucceeds, SaveErrs, Goto
<1> HIDE DEF s
<1>4. \A applied \in BOOLEAN : Stored(t, s, applied) =>
         /\ sess'[t] \in Session /\ sess'[t].msgs = TrimMessages(s.msgs)
         /\ \A g \in Handlers : g # t => sess'[g] = sess[g]
         /\ store' \in {store, sess'[t]}
         /\ applied => store' = sess'[t]
  BY <1>1, <1>2, StoredRows
<1> QED
  BY <1>1, <1>2, <1>3, <1>4

\* A turn saves a row under its lock: it settles what was open, opens a request
\* or fails, and leaves the requests of all others answered.
LEMMA SavePairs ==
    ASSUME TurnsFitLease, TypeInv, LockInv, PairInv,
           NEW t \in Messages, pc[t] \in {"user", "stream", "tools"},
           NEW row \in Row, row.by = t, NEW ok \in {"stream", "tools", "answered", "failed"},
           Save(t, Extend(t, row), ok, "failed"),
           UNCHANGED reply,
           ok = "tools" => pc[t] = "stream" /\ row = AssistantRow(t, TRUE)',
           ok \in {"stream", "answered"} =>
              \/ pc[t] \in {"user", "stream"} /\ ~row.calls
              \/ pc[t] = "tools" /\ row = ResultOf(AssistantRow(t, TRUE)) /\ ~row.calls
    PROVE  PairInv'
<1> DEFINE msgs == sess[t].msgs
           new  == sess'[t].msgs
<1>a. sess[t] \in Session /\ msgs \in Seq(Row)
  BY DEF TypeInv, SessionLoaded, TypeOK, Session, Handlers
<1>b. \A u \in Messages \ {t} : ~Holding(u)
  BY DEF LockInv, Holding
<1>c. /\ \A u \in Messages : Settled(u) => CallsAnswered(msgs, u)
      /\ \A u \in Messages : Settled(u) => CallsAnswered(Transcript, u)
      /\ pc[t] = "tools" => CallsPending(msgs, t, AssistantRow(t, TRUE))
      /\ reply[t] # "answered"
  BY DEF PairInv, SettledAnswered, Copying
<1>1. /\ sess'[t] \in Session /\ new = TrimMessages(Append(msgs, row))
      /\ \A u \in Messages : u # t => sess'[u] = sess[u] /\ pc'[u] = pc[u]
      /\ \/ store' = sess'[t] /\ pc'[t] = ok
         \/ store' \in {store, sess'[t]} /\ pc'[t] = "failed"
  BY <1>a, SaveCopies
<1>2. /\ \A u : CallsAnswered(msgs, u) /\ ~(row.by = u /\ row.calls) => CallsAnswered(new, u)
      /\ \A u : CallsAnswered(msgs, u) => CallsPending(new, u, row)
      /\ \A u, req : CallsPending(msgs, u, req) /\ row = ResultOf(req) /\ ~row.calls
           => CallsAnswered(new, u)
  BY <1>1, <1>a, WriteAnswers
<1>3. Transcript' = new \/ (Transcript' = Transcript /\ pc'[t] = "failed")
  BY <1>1, NoSessionType DEF Transcript
<1> HIDE DEF new, msgs
<1>4. \A u \in Messages \ {t} :
         (Settled(u)' => Settled(u)) /\ ~Copying(u)' /\ pc'[u] # "tools"
  BY <1>1, <1>b DEF Settled, Copying, Holding
<1>5. ASSUME NEW u \in Messages, Settled(u)' PROVE CallsAnswered(new, u)
  <2>1. CASE u # t
    BY <1>2, <1>4, <1>5, <1>c, <2>1
  <2>2. CASE u = t
    <3>1. pc'[t] = ok /\ ok \in {"stream", "answered"}
      BY <1>1, <1>5, <1>c, <2>2 DEF Settled
    <3>2. CASE pc[t] \in {"user", "stream"} /\ ~row.calls
      <4>1. CallsAnswered(msgs, t)
        BY <1>c, <3>2 DEF Settled
      <4> QED
        BY <1>2, <2>2, <3>2, <4>1
    <3>3. CASE pc[t] = "tools" /\ row = ResultOf(AssistantRow(t, TRUE)) /\ ~row.calls
      BY <1>2, <1>c, <2>2, <3>3
    <3> QED
      BY <3>1, <3>2, <3>3
  <2> QED
    BY <2>1, <2>2
<1>6. ASSUME NEW u \in Messages, Settled(u)' PROVE CallsAnswered(Transcript', u)
  <2>1. CASE Transcript' = new
    BY <1>5, <1>6, <2>1
  <2>2. CASE Transcript' = Transcript /\ pc'[t] = "failed"
    <3>1. u # t
      BY <1>6, <1>c, <2>2 DEF Settled
    <3> QED
      BY <1>4, <1>6, <1>c, <2>2, <3>1
  <2> QED
    BY <1>3, <2>1, <2>2
<1>7. SettledAnswered(Transcript)'
  BY <1>6 DEF SettledAnswered, CallsAnswered
<1>8. ASSUME NEW u \in Messages, Copying(u)' PROVE SettledAnswered(sess[u].msgs)'
  <2>1. u = t
    BY <1>4, <1>8
  <2>2. \A v \in Messages : Settled(v)' => CallsAnswered(sess'[u].msgs, v)
    BY <1>5, <2>1 DEF new
  <2> QED
    BY <2>2 DEF SettledAnswered, CallsAnswered
<1>9. ASSUME NEW u \in Messages, pc'[u] = "tools"
      PROVE  CallsPending(sess[u].msgs, u, AssistantRow(u, TRUE))'
  <2>1. u = t /\ ok = "tools"
    BY <1>1, <1>4, <1>9
  <2>2. CallsAnswered(msgs, t)
    BY <1>c, <2>1 DEF Settled
  <2>3. CallsPending(new, t, row)
    BY <1>2, <2>2
  <2> QED
    BY <2>1, <2>3 DEF CallsPending, new
<1>10. \A u \in Messages : reply'[u] = "answered" => pc'[u] \in {"release", "done", "dead"}
  BY <1>1, <1>c DEF PairInv
<1> QED
  BY <1>7, <1>8, <1>9, <1>10 DEF PairInv

\* The rows a turn writes, as SavePairs needs them.
LEMMA RowKinds ==
    ASSUME TypeInv, NEW t \in Messages, NEW calls \in BOOLEAN
    PROVE  /\ UserRow(t) \in Row /\ UserRow(t).by = t /\ ~UserRow(t).calls
           /\ AssistantRow(t, calls) \in Row /\ AssistantRow(t, calls).by = t
           /\ AssistantRow(t, calls).role = "assistant" /\ AssistantRow(t, calls).calls = calls
           /\ ToolRow(t) \in Row /\ ToolRow(t).by = t /\ ~ToolRow(t).calls
           /\ ToolRow(t) = ResultOf(AssistantRow(t, TRUE))
<1>1. step[t] \in 0 .. MaxSteps
  BY DEF TypeInv, TypeOK
<1>2. /\ UserRow(t) \in Row /\ UserRow(t).by = t /\ ~UserRow(t).calls
      /\ ToolRow(t) \in Row /\ ToolRow(t).by = t /\ ~ToolRow(t).calls
      /\ AssistantRow(t, calls) \in Row /\ AssistantRow(t, calls).by = t
      /\ AssistantRow(t, calls).role = "assistant" /\ AssistantRow(t, calls).calls = calls
  BY <1>1, RowTypes, BoundsType DEF UserRow, ToolRow, AssistantRow, Row
<1>3. ToolRow(t) = ResultOf(AssistantRow(t, TRUE))
  <2> DEFINE result == ResultOf(AssistantRow(t, TRUE))
  <2>1. AssistantRow(t, TRUE) \in Row
    BY <1>1 DEF AssistantRow, Row
  <2>2. /\ result \in Row /\ result.by = t /\ result.step = step[t]
        /\ result.role = "tool" /\ result.calls = FALSE
    BY <2>1 DEF ResultOf, AssistantRow, Row
  <2> HIDE DEF result
  <2>3. result = [role |-> "tool", by |-> t, step |-> step[t], calls |-> FALSE]
    BY <2>2 DEF Row
  <2> QED
    BY <2>3 DEF ToolRow, result
<1> QED
  BY <1>2, <1>3

LEMMA NextPair ==
    ASSUME TurnsFitLease, Switches = {}
    PROVE  TypeInv /\ LockInv /\ PairInv /\ [Next]_vars => PairInv'
<1> SUFFICES ASSUME TypeInv, LockInv, PairInv, [Next]_vars PROVE PairInv'
  OBVIOUS
<1>a. /\ Messages \subseteq Handlers /\ pc \in [Handlers -> Stages]
      /\ sess \in [Handlers -> Session \cup {NoSession}]
      /\ reply \in [Handlers -> {"none", "busy", "failed", "answered", "ok"}]
  BY DEF TypeInv, TypeOK, Handlers
<1>b. \A u \in Messages : reply[u] = "answered" => pc[u] \in {"release", "done", "dead"}
  BY DEF PairInv
<1>1. ASSUME NEW t \in Messages,
             TryAcquire(t) \/ LoadSession(t) \/ OpenCard(t) \/ StreamFails(t) \/ EmitBlocks(t)
      PROVE  PairInv'
  <2>1. /\ UNCHANGED <<store, step>> /\ pc[t] \in {"idle", "load", "card", "stream", "tools"}
        /\ \/ /\ pc' = [pc EXCEPT ![t] = "load"] /\ UNCHANGED <<reply, sess>>
              /\ pc[t] = "idle"
           \/ /\ pc' = [pc EXCEPT ![t] = "card"] /\ UNCHANGED reply
              /\ pc[t] = "load" /\ sess' = [sess EXCEPT ![t] = Fetched]
           \/ /\ pc' = [pc EXCEPT ![t] = "user"] /\ UNCHANGED <<reply, sess>>
              /\ pc[t] = "card"
           \/ \E stage \in {"done", "release", "failed", "stuck"}, r \in {"busy", "failed"} :
                 /\ pc' = [pc EXCEPT ![t] = stage] /\ UNCHANGED sess
                 /\ reply' = reply \/ reply' = [reply EXCEPT ![t] = r]
    BY <1>1 DEF TryAcquire, GrantLock, LoadSession, OpenCard, StreamFails, EmitBlocks,
       Goto, Answer, redisVars
  <2>2. \A u \in Messages \ {t} :
           pc'[u] = pc[u] /\ reply'[u] = reply[u] /\ sess'[u] = sess[u]
    BY <2>1, <1>a
  <2>3. Transcript' = Transcript /\ Fetched.msgs = Transcript
    BY <2>1 DEF Transcript, Fetched
  <2>4. /\ pc'[t] # "tools" /\ reply'[t] # "answered"
        /\ pc'[t] \in {"idle", "load", "card", "user", "stream", "answered"} =>
              pc[t] \in {"idle", "load", "card", "user", "stream", "answered"}
        /\ Copying(t)' => (Copying(t) /\ sess'[t] = sess[t]) \/ sess'[t].msgs = Transcript
    BY <2>1, <2>3, <1>a, <1>b DEF Copying
  <2> QED
    BY <2>1, <2>2, <2>3, <2>4, <1>b, PairKept DEF Settled, Copying
<1>2. ASSUME NEW t \in Messages, Finish(t) \/ Release(t) PROVE PairInv'
  <2>1. /\ UNCHANGED <<store, step>>
        /\ \A u \in Messages \ {t} : sess'[u] = sess[u]
        /\ \/ /\ pc[t] \in {"answered", "failed"} /\ reply' = [reply EXCEPT ![t] = pc[t]]
              /\ pc' = [pc EXCEPT ![t] = "release"]
           \/ UNCHANGED reply /\ pc' = [pc EXCEPT ![t] = "done"]
    BY <1>2, <1>a DEF Finish, Release, Goto, Answer, redisVars
  <2>2. \A u \in Messages \ {t} : pc'[u] = pc[u] /\ reply'[u] = reply[u]
    BY <2>1, <1>a
  <2>3. /\ pc'[t] \in {"release", "done"} /\ Transcript' = Transcript
        /\ reply'[t] = "answered" => Settled(t)
    BY <2>1, <1>a DEF Settled, Transcript
  <2> QED
    BY <2>1, <2>2, <2>3, <1>b, PairKept DEF Settled, Copying
<1>3. ASSUME NEW t \in Messages, SaveUser(t) PROVE PairInv'
  <2>1. /\ Save(t, Extend(t, UserRow(t)), "stream", "failed")
        /\ pc[t] = "user" /\ UNCHANGED reply
    BY <1>3 DEF SaveUser
  <2> QED
    BY <2>1, RowKinds, TurnsFitLease, SavePairs
<1>4. ASSUME NEW t \in Messages, NEW calls \in BOOLEAN, ModelReplies(t, calls) PROVE PairInv'
  <2> DEFINE row == AssistantRow(t, calls)
             ok  == IF calls THEN "tools" ELSE "answered"
  <2>1. Save(t, Extend(t, row), ok, "failed") /\ pc[t] = "stream" /\ UNCHANGED <<reply, step>>
    BY <1>4 DEF ModelReplies
  <2>2. /\ row \in Row /\ row.by = t /\ row.calls = calls
        /\ calls => row = AssistantRow(t, TRUE)'
    BY <2>1, RowKinds DEF AssistantRow
  <2>3. ok \in {"tools", "answered"} /\ (ok = "tools" <=> calls)
    OBVIOUS
  <2> HIDE DEF row, ok
  <2> QED
    BY <2>1, <2>2, <2>3, TurnsFitLease, SavePairs
<1>5. ASSUME NEW t \in Messages, RunTools(t) PROVE PairInv'
  <2> DEFINE ok == IF step[t] + 1 = MaxSteps THEN "failed" ELSE "stream"
  <2>1. Save(t, Extend(t, ToolRow(t)), ok, "failed") /\ pc[t] = "tools" /\ UNCHANGED reply
    BY <1>5 DEF RunTools
  <2>2. ok \in {"stream", "failed"}
    OBVIOUS
  <2> HIDE DEF ok
  <2>3. /\ ToolRow(t) \in Row /\ ToolRow(t).by = t /\ ~ToolRow(t).calls
        /\ ToolRow(t) = ResultOf(AssistantRow(t, TRUE))
    BY RowKinds
  <2> QED
    BY <2>1, <2>2, <2>3, TurnsFitLease, SavePairs
<1>6. ASSUME NEW c \in Clears, Clear(c) PROVE PairInv'
  <2>1. UNCHANGED <<sess, step>> /\ store' \in {store, NoSession}
    BY <1>6 DEF Clear, DeleteSession
  <2>2. \A u \in Messages : pc'[u] = pc[u] /\ reply'[u] = reply[u]
    BY <1>6, <1>a, HandlersDisjoint DEF Clear, Goto, Answer
  <2>3. Transcript' \in {Transcript, <<>>}
    BY <2>1 DEF Transcript
  <2> QED
    BY <2>1, <2>2, <2>3, <1>b, PairKept DEF Settled, Copying
<1>7. CASE SessionExpires
  <2>1. store' = NoSession /\ UNCHANGED <<pc, reply, step, sess>>
    BY <1>7 DEF SessionExpires, turnVars
  <2>2. Transcript' = <<>>
    BY <2>1 DEF Transcript
  <2> QED
    BY <2>1, <2>2, <1>b, PairKept DEF Settled, Copying
<1>8. ASSUME NEW i \in Instances, Exit(i) PROVE PairInv'
  <2>1. /\ UNCHANGED <<store, step, reply>>
        /\ \A u \in Messages : (pc'[u] = pc[u] /\ sess'[u] = sess[u]) \/ pc'[u] \in {"dead", "done"}
    BY <1>8, <1>a DEF Exit, redisVars
  <2>2. Transcript' = Transcript
    BY <2>1 DEF Transcript
  <2> QED
    BY <2>1, <2>2, <1>b, PairKept DEF Settled, Copying
<1>9. CASE UNCHANGED vars \/ Tick \/ \E i \in Instances : CancelRoot(i) \/ CloseRedis(i)
  <2>1. UNCHANGED <<store, step, reply, pc, sess>>
    BY <1>9 DEF vars, Tick, CancelRoot, CloseRedis, redisVars, turnVars
  <2>2. Transcript' = Transcript
    BY <2>1 DEF Transcript
  <2> QED
    BY <2>1, <2>2, <1>b, PairKept DEF Settled, Copying
<1> QED
  BY <1>1, <1>2, <1>3, <1>4, <1>5, <1>6, <1>7, <1>8, <1>9, Switches = {}
     DEF Next, Turn, Command, Quiescent

\* For turns that end within LockTTL, and whenever the user clears: an answered
\* turn leaves no request without its results in the stored session, however
\* often that is trimmed, and whatever fails or crashes.
THEOREM AnsweredTurnsArePaired ==
    ASSUME TurnsFitLease, Switches = {}
    PROVE  Spec => []AnsweredTurnsPaired
<1>1. TypeInv /\ LockInv /\ PairInv /\ [Next]_vars => PairInv'
  BY TurnsFitLease, Switches = {}, NextPair
<1>2. PairInv => AnsweredTurnsPaired
  BY DEF PairInv, SettledAnswered, Settled, Transcript, AnsweredTurnsPaired
<1> QED
  BY <1>1, <1>2, InitPair, LockInvariant, PTL DEF Spec

-----------------------------------------------------------------------------
(* What the user reads is stored.                                            *)

\* Until its card is final a turn holds the lock, so nobody writes after it.
LEMMA NextAnswer ==
    ASSUME TurnsFitLease, Clears = {}, Switches = {}
    PROVE  TypeInv /\ LockInv /\ AnswerStored /\ [Next]_vars => AnswerStored'
<1> SUFFICES ASSUME TypeInv, LockInv, AnswerStored, [Next]_vars,
                    NEW t \in Messages, pc'[t] = "answered"
             PROVE  /\ store' # NoSession
                    /\ EndsWith(store'.msgs, store'.msgs[Len(store'.msgs)])
                    /\ LET last == store'.msgs[Len(store'.msgs)] IN
                         last.by = t /\ last.role = "assistant" /\ ~last.calls
  BY DEF AnswerStored, EndsWith
<1>a. Messages = Handlers /\ pc \in [Messages -> Stages]
  BY DEF TypeInv, TypeOK, Handlers
<1>1. ASSUME store' = store, pc[t] = "answered"
      PROVE  /\ store' # NoSession
             /\ EndsWith(store'.msgs, store'.msgs[Len(store'.msgs)])
             /\ LET last == store'.msgs[Len(store'.msgs)] IN
                  last.by = t /\ last.role = "assistant" /\ ~last.calls
  BY <1>1 DEF AnswerStored, EndsWith
<1>2. CASE pc[t] = "answered"
  <2>1. Holding(t) /\ Running(t)
    BY <1>2 DEF Holding, Running, Over
  <2>2. \A u \in Messages \ {t} : pc[u] \notin {"user", "stream", "tools"}
    BY <2>1 DEF LockInv, Holding
  <2>3. store' = store
    BY <1>2, <1>a, <2>1, <2>2, Clears = {}, Switches = {}
       DEF Next, Turn, Command, Quiescent, TryAcquire, LoadSession, OpenCard, SaveUser,
           ModelReplies, StreamFails, RunTools, EmitBlocks, Finish, Release, Tick,
           SessionExpires, CancelRoot, CloseRedis, Exit, redisVars, turnVars, vars
  <2> QED
    BY <1>1, <1>2, <2>3
<1>3. CASE pc[t] # "answered"
  <2>1. ModelReplies(t, FALSE)
    BY <1>3, <1>a, Clears = {}, Switches = {}
       DEF Next, Turn, Command, Quiescent, TryAcquire, LoadSession, OpenCard, SaveUser,
           ModelReplies, StreamFails, RunTools, EmitBlocks, Finish, Release, Tick,
           SessionExpires, CancelRoot, CloseRedis, Exit, Save, Goto, turnVars, vars
  <2> DEFINE row == AssistantRow(t, FALSE)
  <2>2. pc[t] = "stream" /\ Save(t, Extend(t, row), "answered", "failed")
    BY <2>1 DEF ModelReplies
  <2>3. sess[t] \in Session /\ sess[t].msgs \in Seq(Row)
    BY <2>2, <1>a DEF TypeInv, TypeOK, SessionLoaded, Session
  <2>4. row \in Row /\ row.by = t /\ row.role = "assistant" /\ ~row.calls
    BY RowKinds
  <2> HIDE DEF row
  <2>5. /\ sess'[t] \in Session
        /\ sess'[t].msgs = TrimMessages(Append(sess[t].msgs, row))
        /\ \/ store' = sess'[t] /\ pc'[t] = "answered"
           \/ store' \in {store, sess'[t]} /\ pc'[t] = "failed"
    BY <2>2, <2>3, <2>4, SaveCopies
  <2>6. store' = sess'[t]
    BY <2>5
  <2>7. EndsWith(store'.msgs, row)
    BY <2>3, <2>4, <2>5, <2>6, WriteAnswers
  <2> QED
    BY <2>4, <2>5, <2>6, <2>7, NoSessionType DEF EndsWith
<1> QED
  BY <1>2, <1>3

\* For turns that end within LockTTL, without commands: whatever fails or
\* crashes, a turn that is about to tell the user its answer has stored it last.
THEOREM AnswerIsStored ==
    ASSUME TurnsFitLease, Clears = {}, Switches = {}
    PROVE  Spec => []AnswerStored
<1>1. Init => AnswerStored
  BY DEF Init, AnswerStored, Handlers
<1>2. TypeInv /\ LockInv /\ AnswerStored /\ [Next]_vars => AnswerStored'
  BY TurnsFitLease, Clears = {}, Switches = {}, NextAnswer
<1> QED
  BY <1>1, <1>2, LockInvariant, PTL DEF Spec
=============================================================================
