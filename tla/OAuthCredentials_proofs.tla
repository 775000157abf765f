----------------------- MODULE OAuthCredentials_proofs -----------------------
(* Theorems about OAuthCredentials, for any calls, callbacks and pairs.      *)
EXTENDS OAuthCredentials, TLAPS

-----------------------------------------------------------------------------
(* Types.                                                                    *)

\* Labels at which an operation has a pair in its hands, and those at which the
\* pair is known to be of no use.
Carrying == {"loaded", "post", "set", "expire", "touch", "touchExpire", "use", "notify"}
Refused == {"invalidate", "reauthorize", "ask"}

\* Only pairs that were issued are stored or lapse, no lapsed refresh token is
\* taken, without offline_access there is none.
PairsKnown ==
    /\ saved \subseteq 1 .. issued
    /\ lapsed \subseteq 1 .. issued
    /\ lapsed \cap usable = {}
    /\ ~offline => usable = {}
    /\ \A o \in Ops : at[o] \in Carrying => held[o] # None

Typed == TypeOK /\ PairsKnown

\* A step of one operation moves that operation only.
LEMMA GoToMoves ==
    ASSUME TypeOK, NEW o \in Ops, NEW label, NEW p, GoTo(o, label, p)
    PROVE  /\ at'[o] = label /\ held'[o] = p
           /\ \A q \in Ops : q # o => at'[q] = at[q] /\ held'[q] = held[q]
           /\ at' = [at EXCEPT ![o] = label]
           /\ held' = [held EXCEPT ![o] = p]
BY DEF GoTo, TypeOK

LEMMA EndMoves ==
    ASSUME TypeOK, NEW o \in Ops, NEW what, End(o, what)
    PROVE  /\ at'[o] \in {"idle", "over"} /\ held'[o] = None
           /\ \A q \in Ops : q # o => at'[q] = at[q] /\ held'[q] = held[q]
           /\ \E label \in {"idle", "over"} : GoTo(o, label, None)
           /\ reply' = [reply EXCEPT ![o] = what]
BY GoToMoves DEF End

\* The types of what a step of an operation sets.
LEMMA GoToType ==
    ASSUME TypeOK, NEW o \in Ops, NEW label \in Labels, NEW p \in 0 .. issued',
           issued' \in 0 .. MaxPairs, issued <= issued',
           GoTo(o, label, p), label \in Carrying => p # None, PairsKnown
    PROVE  /\ at' \in [Ops -> Labels]
           /\ held' \in [Ops -> 0 .. issued']
           /\ \A q \in Ops : at'[q] \in Carrying => held'[q] # None
<1>1. \A q \in Ops : held[q] \in 0 .. issued'
  BY CredentialParameters DEF TypeOK
<1>2. held' \in [Ops -> 0 .. issued']
  BY <1>1 DEF GoTo, TypeOK
<1> QED
  BY <1>2, GoToMoves DEF TypeOK, PairsKnown

LEMMA EndType ==
    ASSUME TypeOK, NEW o \in Ops, NEW what \in Replies,
           issued' \in 0 .. MaxPairs, issued <= issued', End(o, what), PairsKnown
    PROVE  /\ at' \in [Ops -> Labels]
           /\ held' \in [Ops -> 0 .. issued']
           /\ reply' \in [Ops -> Replies]
           /\ \A q \in Ops : at'[q] \in Carrying => held'[q] # None
<1>1. PICK label \in {"idle", "over"} : GoTo(o, label, None)
  BY EndMoves
<1>2. label \in Labels /\ label \notin Carrying
  BY DEF Labels, Carrying
<1>3. None \in 0 .. issued'
  BY CredentialParameters DEF None
<1>4. reply' \in [Ops -> Replies]
  BY EndMoves DEF TypeOK
<1> QED
  BY <1>1, <1>2, <1>3, <1>4, GoToType

\* What Feishu does when it issues a pair.
LEMMA IssueEffect ==
    ASSUME Typed, Exchanged \/ (\E p : Rotated(p))
    PROVE  /\ issued' = issued + 1 /\ issued' \in 0 .. MaxPairs /\ issued' \in Pairs
           /\ usable' \subseteq 1 .. issued'
           /\ issued' \notin saved
           /\ (lapsed' \cap usable' = {}) /\ (~offline' => usable' = {})
           /\ lapsed' \subseteq 1 .. issued' /\ lapsed' \subseteq Pairs
           /\ UNCHANGED <<offline, ended, lapsed>>
<1> USE DEF Typed, TypeOK, PairsKnown, Pairs
<1>1. issued' = issued + 1 /\ issued' \in 1 .. MaxPairs /\ UNCHANGED <<offline, ended, lapsed>>
  BY CredentialParameters DEF Exchanged, Rotated
<1>2. usable' \subseteq usable \cup {issued + 1}
  BY DEF Exchanged, Rotated
<1>3. usable' \subseteq 1 .. issued'
  BY <1>1, <1>2
<1>4. ~offline' => usable' = {}
  BY <1>1 DEF Exchanged, Rotated
<1>5. issued + 1 \notin lapsed /\ issued' \notin saved
  BY <1>1
<1>6. lapsed' \cap usable' = {}
  BY <1>1, <1>2, <1>5
<1>7. lapsed' \subseteq 1 .. issued'
  BY <1>1
<1> QED
  BY <1>1, <1>3, <1>4, <1>5, <1>6, <1>7, CredentialParameters

LEMMA IssuedLater ==
    ASSUME Typed, UNCHANGED feishu \/ issued' = issued + 1,
           issued' \in 0 .. MaxPairs
    PROVE  /\ issued <= issued' /\ saved \subseteq 1 .. issued'
           /\ cred \in 0 .. issued' /\ ttl \in 0 .. issued'
BY CredentialParameters DEF Typed, TypeOK, PairsKnown, feishu

\* Typed from its parts, for the steps of operations.
LEMMA TypedParts ==
    ASSUME offline' \in BOOLEAN, links' \in BOOLEAN, overlapped' \in BOOLEAN,
           issued' \in 0 .. MaxPairs, usable' \subseteq 1 .. issued',
           ended' \subseteq Pairs, lapsed' \subseteq Pairs, saved' \subseteq Pairs,
           cred' \in 0 .. issued', ttl' \in 0 .. issued',
           at' \in [Ops -> Labels], held' \in [Ops -> 0 .. issued'],
           reply' \in [Ops -> Replies],
           saved' \subseteq 1 .. issued', lapsed' \subseteq 1 .. issued',
           lapsed' \cap usable' = {}, ~offline' => usable' = {},
           \A o \in Ops : at'[o] \in Carrying => held'[o] # None
    PROVE  Typed'
BY DEF Typed, TypeOK, PairsKnown

LEMMA BeginType ==
    ASSUME TypeOK, NEW o \in Ops, Begin(o)
    PROVE  overlapped' \in BOOLEAN /\ at[o] = "idle"
BY DEF Begin, TypeOK

\* Steps that end an operation and change nothing else but links.
LEMMA TypedEnd ==
    ASSUME Typed, NEW o \in Ops, NEW what \in Replies, End(o, what),
           UNCHANGED <<feishu, redis>>, overlapped' \in BOOLEAN, links' \in BOOLEAN
    PROVE  Typed'
<1> USE DEF Typed
<1>1. issued' = issued /\ issued' \in 0 .. MaxPairs /\ issued <= issued'
  BY CredentialParameters DEF feishu, TypeOK
<1>2. /\ at' \in [Ops -> Labels] /\ held' \in [Ops -> 0 .. issued'] /\ reply' \in [Ops -> Replies]
      /\ \A q \in Ops : at'[q] \in Carrying => held'[q] # None
  BY <1>1, EndType
<1> QED
  BY <1>1, <1>2, TypedParts DEF feishu, redis, TypeOK, PairsKnown

LEMMA TypedGet ==
    ASSUME Typed, NEW c \in Calls, Get(c) PROVE Typed'
<1> USE DEF Typed
<1>1. c \in Ops /\ UNCHANGED <<feishu, redis, links>> /\ Begin(c)
  BY DEF Ops, Get
<1>2. CASE End(c, "failed")
  BY <1>1, <1>2, BeginType, TypedEnd DEF Replies, TypeOK
<1>3. CASE /\ GoTo(c, IF cred = None THEN "ask" ELSE "loaded", cred)
           /\ reply' = [reply EXCEPT ![c] = "none"]
  <2>1. PICK label \in {"ask", "loaded"} :
          GoTo(c, label, cred) /\ (label = "loaded" => cred # None)
    BY <1>3
  <2>2. label \in Labels /\ (label \in Carrying => cred # None)
    BY <2>1 DEF Labels, Carrying
  <2>3. /\ issued' = issued /\ cred \in 0 .. issued'
        /\ issued' \in 0 .. MaxPairs /\ issued <= issued'
    BY <1>1, CredentialParameters DEF feishu, TypeOK
  <2>4. reply' \in [Ops -> Replies]
    BY <1>3 DEF TypeOK, Replies
  <2>5. /\ at' \in [Ops -> Labels] /\ held' \in [Ops -> 0 .. issued']
        /\ \A q \in Ops : at'[q] \in Carrying => held'[q] # None
    BY <1>1, <2>1, <2>2, <2>3, GoToType
  <2> QED
    BY <1>1, <2>3, <2>4, <2>5, BeginType, TypedParts DEF feishu, redis, TypeOK, PairsKnown
<1> QED
  BY <1>2, <1>3 DEF Get

\* Steps that change the pair in the store.
LEMMA TypedSet ==
    ASSUME Typed, NEW o \in Ops, Set(o) PROVE Typed'
<1> USE DEF Typed
<1>1. at[o] \in {"set", "touch"} /\ UNCHANGED <<feishu, links, reply, overlapped>>
      /\ cred' = held[o] /\ ttl' = None /\ saved' = saved \cup {held[o]}
  BY DEF Set
<1>2. PICK label \in {"expire", "touchExpire"} : GoTo(o, label, held[o])
  BY DEF Set
<1>3. label \in Labels /\ held[o] # None
  BY <1>1, <1>2 DEF Labels, Carrying, PairsKnown
<1>4. issued' = issued /\ held[o] \in 0 .. issued' /\ issued' \in 0 .. MaxPairs /\ issued <= issued'
  BY <1>1, CredentialParameters DEF feishu, TypeOK
<1>5. held[o] \in 1 .. issued /\ held[o] \in Pairs
  BY <1>3, <1>4, CredentialParameters DEF None, Pairs, TypeOK
<1>6. /\ at' \in [Ops -> Labels] /\ held' \in [Ops -> 0 .. issued']
      /\ \A q \in Ops : at'[q] \in Carrying => held'[q] # None
  BY <1>2, <1>3, <1>4, GoToType
<1>7. None \in 0 .. issued'
  BY <1>4, CredentialParameters DEF None
<1> QED
  BY <1>1, <1>4, <1>5, <1>6, <1>7, TypedParts DEF feishu, TypeOK, PairsKnown

LEMMA TypedExpireAt ==
    ASSUME Typed, NEW o \in Ops, ExpireAt(o) PROVE Typed'
<1> USE DEF Typed
<1>1. at[o] \in {"expire", "touchExpire"} /\ UNCHANGED <<feishu, saved, links, reply, overlapped>>
      /\ cred' \in {None, cred} /\ ttl' \in {None, held[o]}
  BY DEF ExpireAt
<1>2. PICK label \in {"notify", "touch", "use"} : GoTo(o, label, held[o])
  BY DEF ExpireAt
<1>3. label \in Labels /\ held[o] # None
  BY <1>1, <1>2 DEF Labels, Carrying, PairsKnown
<1>4. issued' = issued /\ held[o] \in 0 .. issued' /\ issued' \in 0 .. MaxPairs /\ issued <= issued'
  BY <1>1, CredentialParameters DEF feishu, TypeOK
<1>5. None \in 0 .. issued'
  BY <1>4, CredentialParameters DEF None
<1>6. /\ at' \in [Ops -> Labels] /\ held' \in [Ops -> 0 .. issued']
      /\ \A q \in Ops : at'[q] \in Carrying => held'[q] # None
  BY <1>2, <1>3, <1>4, GoToType
<1> QED
  BY <1>1, <1>4, <1>5, <1>6, TypedParts DEF feishu, TypeOK, PairsKnown

LEMMA TypedSaveFails ==
    ASSUME Typed, NEW o \in Ops, SaveFails(o) PROVE Typed'
<1> USE DEF Typed
<1>1. at[o] \in {"set", "expire", "touch", "touchExpire"}
      /\ UNCHANGED <<feishu, redis, links, overlapped>>
  BY DEF SaveFails
<1>2. issued' = issued /\ held[o] \in 0 .. issued' /\ issued' \in 0 .. MaxPairs /\ issued <= issued'
  BY <1>1, CredentialParameters DEF feishu, TypeOK
<1>3. held[o] # None /\ "use" \in Labels /\ "failed" \in Replies
  BY <1>1 DEF Carrying, PairsKnown, Labels, Replies
<1>4. \/ GoTo(o, "use", held[o]) /\ UNCHANGED reply
      \/ End(o, "failed")
  BY DEF SaveFails
<1>5. /\ at' \in [Ops -> Labels] /\ held' \in [Ops -> 0 .. issued'] /\ reply' \in [Ops -> Replies]
      /\ \A q \in Ops : at'[q] \in Carrying => held'[q] # None
  <2>1. CASE GoTo(o, "use", held[o]) /\ UNCHANGED reply
    <3>1. reply' \in [Ops -> Replies]
      BY <2>1 DEF TypeOK
    <3> QED
      BY <2>1, <3>1, <1>2, <1>3, GoToType
  <2>2. CASE End(o, "failed")
    BY <2>2, <1>2, <1>3, EndType
  <2> QED
    BY <1>4, <2>1, <2>2
<1> QED
  BY <1>1, <1>2, <1>5, TypedParts DEF feishu, redis, TypeOK, PairsKnown

LEMMA TypedDelete ==
    ASSUME Typed, NEW c \in Calls, Delete(c) PROVE Typed'
<1> USE DEF Typed
<1>1. c \in Ops /\ UNCHANGED <<feishu, saved, links, reply, overlapped>>
      /\ cred' \in {None, cred} /\ ttl' \in {None, ttl}
  BY DEF Ops, Delete
<1>2. PICK label \in {"reauthorize", "ask"} : GoTo(c, label, held[c])
  BY DEF Delete
<1>3. label \in Labels /\ label \notin Carrying
  BY <1>2 DEF Labels, Carrying
<1>4. issued' = issued /\ held[c] \in 0 .. issued' /\ issued' \in 0 .. MaxPairs /\ issued <= issued'
      /\ None \in 0 .. issued'
  BY <1>1, CredentialParameters DEF feishu, TypeOK, None
<1>5. /\ at' \in [Ops -> Labels] /\ held' \in [Ops -> 0 .. issued']
      /\ \A q \in Ops : at'[q] \in Carrying => held'[q] # None
  BY <1>1, <1>2, <1>3, <1>4, GoToType
<1> QED
  BY <1>1, <1>4, <1>5, TypedParts DEF feishu, TypeOK, PairsKnown

LEMMA TypedRefreshIfNeeded ==
    ASSUME Typed, NEW c \in Calls, RefreshIfNeeded(c) PROVE Typed'
<1> USE DEF Typed
<1>1. c \in Ops /\ at[c] = "loaded" /\ UNCHANGED <<feishu, redis, links, reply, overlapped>>
  BY DEF Ops, RefreshIfNeeded
<1>2. PICK label \in {"touch", "reauthorize", "post"} : GoTo(c, label, held[c])
  BY DEF RefreshIfNeeded
<1>3. label \in Labels /\ held[c] # None
  BY <1>1, <1>2 DEF Labels, Carrying, PairsKnown
<1>4. issued' = issued /\ held[c] \in 0 .. issued' /\ issued' \in 0 .. MaxPairs /\ issued <= issued'
  BY <1>1, CredentialParameters DEF feishu, TypeOK
<1>5. /\ at' \in [Ops -> Labels] /\ held' \in [Ops -> 0 .. issued']
      /\ \A q \in Ops : at'[q] \in Carrying => held'[q] # None
  BY <1>1, <1>2, <1>3, <1>4, GoToType
<1> QED
  BY <1>1, <1>4, <1>5, TypedParts DEF feishu, redis, TypeOK, PairsKnown

LEMMA TypedEnds ==
    ASSUME Typed
    PROVE  /\ \A c \in Calls : Ask(c) \/ UseToken(c) => Typed'
           /\ \A b \in Callbacks : NotifyUser(b) => Typed'
           /\ \A o \in Ops : CutOff(o) => Typed'
<1>1. ASSUME NEW c \in Calls, Ask(c) PROVE Typed'
  BY <1>1, TypedEnd DEF Ask, Ops, Replies, Typed, TypeOK
<1>2. ASSUME NEW c \in Calls, UseToken(c) PROVE Typed'
  <2>1. PICK answer \in Answers : End(c, MapFeishu(answer))
    BY <1>2 DEF UseToken
  <2>2. MapFeishu(answer) \in Replies
    BY <2>1 DEF MapFeishu, Answers, Replies
  <2>3. UNCHANGED <<feishu, redis>> /\ overlapped' \in BOOLEAN /\ links' \in BOOLEAN /\ c \in Ops
    BY <1>2 DEF UseToken, Typed, TypeOK, Ops
  <2> QED
    BY <2>1, <2>2, <2>3, TypedEnd
<1>3. ASSUME NEW b \in Callbacks, NotifyUser(b) PROVE Typed'
  BY <1>3, TypedEnd DEF NotifyUser, Ops, Replies, Typed, TypeOK
<1>4. ASSUME NEW o \in Ops, CutOff(o) PROVE Typed'
  BY <1>4, TypedEnd DEF CutOff, Replies, Typed, TypeOK
<1> QED
  BY <1>1, <1>2, <1>3, <1>4

\* A step at Feishu, followed by what the operation makes of it.
LEMMA TypedFeishu ==
    ASSUME Typed, NEW o \in Ops, UNCHANGED <<redis, links>>, overlapped' \in BOOLEAN,
           \/ /\ Exchanged \/ (\E p : Rotated(p))
              /\ GoTo(o, "set", issued + 1) /\ UNCHANGED reply
           \/ /\ Exchanged \/ (\E p : Rotated(p)) \/ UNCHANGED feishu
              /\ End(o, "failed")
           \/ GoTo(o, "invalidate", held[o]) /\ UNCHANGED <<feishu, reply>>
    PROVE  Typed'
<1> USE DEF Typed
<1>1. /\ UNCHANGED feishu \/ issued' = issued + 1
      /\ issued' \in 0 .. MaxPairs /\ usable' \subseteq 1 .. issued'
      /\ lapsed' \cap usable' = {} /\ (~offline' => usable' = {})
      /\ lapsed' \subseteq 1 .. issued' /\ lapsed' \subseteq Pairs
      /\ ended' \subseteq Pairs /\ offline' \in BOOLEAN
  BY IssueEffect DEF feishu, TypeOK, PairsKnown
<1>2. /\ issued <= issued' /\ saved' \subseteq 1 .. issued' /\ saved' \subseteq Pairs
      /\ cred' \in 0 .. issued' /\ ttl' \in 0 .. issued' /\ links' \in BOOLEAN
  BY <1>1, IssuedLater DEF redis, TypeOK
<1>3. /\ at' \in [Ops -> Labels] /\ held' \in [Ops -> 0 .. issued'] /\ reply' \in [Ops -> Replies]
      /\ \A q \in Ops : at'[q] \in Carrying => held'[q] # None
  <2>1. CASE /\ Exchanged \/ (\E p : Rotated(p))
             /\ GoTo(o, "set", issued + 1) /\ UNCHANGED reply
    <3>1. issued' = issued + 1 /\ issued' \in Pairs
      BY <2>1, IssueEffect
    <3>2. issued + 1 \in 0 .. issued' /\ issued + 1 # None /\ "set" \in Labels
      BY <3>1, CredentialParameters DEF Pairs, None, Labels
    <3>3. reply' \in [Ops -> Replies]
      BY <2>1 DEF TypeOK
    <3> QED
      BY <1>1, <1>2, <2>1, <3>2, <3>3, GoToType
  <2>2. CASE End(o, "failed")
    BY <1>1, <1>2, <2>2, EndType DEF Replies
  <2>3. CASE GoTo(o, "invalidate", held[o]) /\ UNCHANGED <<feishu, reply>>
    <3>1. held[o] \in 0 .. issued' /\ "invalidate" \in Labels \ Carrying /\ reply' \in [Ops -> Replies]
      BY <2>3 DEF feishu, TypeOK, Labels, Carrying
    <3> QED
      BY <1>1, <1>2, <2>3, <3>1, GoToType
  <2> QED
    BY <2>1, <2>2, <2>3
<1> QED
  BY <1>1, <1>2, <1>3, TypedParts

LEMMA TypedPostRefresh ==
    ASSUME Typed, NEW c \in Calls, PostRefresh(c) PROVE Typed'
<1>1. c \in Ops /\ UNCHANGED <<redis, links>> /\ overlapped' \in BOOLEAN
  BY DEF Ops, PostRefresh, Typed, TypeOK
<1>2. \/ /\ Exchanged \/ (\E p : Rotated(p))
         /\ GoTo(c, "set", issued + 1) /\ UNCHANGED reply
      \/ /\ Exchanged \/ (\E p : Rotated(p)) \/ UNCHANGED feishu
         /\ End(c, "failed")
      \/ GoTo(c, "invalidate", held[c]) /\ UNCHANGED <<feishu, reply>>
  BY DEF PostRefresh
<1> QED
  BY <1>1, <1>2, TypedFeishu

LEMMA TypedHandleCallback ==
    ASSUME Typed, NEW b \in Callbacks, HandleCallback(b) PROVE Typed'
<1>1. b \in Ops /\ UNCHANGED <<redis, links>> /\ overlapped' \in BOOLEAN
  BY BeginType DEF Ops, HandleCallback, Typed, TypeOK
<1>2. \/ /\ Exchanged \/ (\E p : Rotated(p))
         /\ GoTo(b, "set", issued + 1) /\ UNCHANGED reply
      \/ /\ Exchanged \/ (\E p : Rotated(p)) \/ UNCHANGED feishu
         /\ End(b, "failed")
      \/ GoTo(b, "invalidate", held[b]) /\ UNCHANGED <<feishu, reply>>
  BY DEF HandleCallback
<1> QED
  BY <1>1, <1>2, TypedFeishu

LEMMA TypedTime ==
    ASSUME Typed
    PROVE  /\ \A p \in Pairs : AccessEnds(p) \/ RefreshLapses(p) => Typed'
           /\ Revoke => Typed'
<1> USE DEF Typed
<1>1. ASSUME NEW p \in Pairs, AccessEnds(p) PROVE Typed'
  BY <1>1 DEF AccessEnds, TypeOK, PairsKnown, redis
<1>2. ASSUME NEW p \in Pairs, RefreshLapses(p) PROVE Typed'
  <2>1. /\ p \in 1 .. issued /\ lapsed' = lapsed \cup {p} /\ usable' = usable \ {p}
        /\ cred' \in {None, cred} /\ ttl' \in {None, ttl}
        /\ UNCHANGED <<offline, issued, ended, saved, links, at, held, reply, overlapped>>
    BY <1>2 DEF RefreshLapses, Pairs, TypeOK
  <2>2. None \in 0 .. issued
    BY CredentialParameters DEF None, TypeOK
  <2> QED
    BY <2>1, <2>2 DEF TypeOK, PairsKnown
<1>3. ASSUME Revoke PROVE Typed'
  BY <1>3 DEF Revoke, TypeOK, PairsKnown, redis
<1> QED
  BY <1>1, <1>2, <1>3

LEMMA TypedInvariant == Spec => []Typed
<1>1. Init => Typed
  <2> SUFFICES ASSUME Init PROVE Typed
    OBVIOUS
  <2>1. 0 \in 0 .. MaxPairs /\ 0 \in 0 .. issued
    BY CredentialParameters DEF Init
  <2>2. /\ at \in [Ops -> Labels] /\ held \in [Ops -> 0 .. issued] /\ reply \in [Ops -> Replies]
    BY <2>1 DEF Init, None, Labels, Replies
  <2>3. TypeOK
    BY <2>1, <2>2 DEF Init, TypeOK, None
  <2>4. PairsKnown
    BY DEF Init, PairsKnown, Carrying
  <2> QED
    BY <2>3, <2>4 DEF Typed
<1>2. Typed /\ [Next]_vars => Typed'
  <2> SUFFICES ASSUME Typed, [Next]_vars PROVE Typed'
    OBVIOUS
  <2>1. CASE Next
    BY <2>1, TypedGet, TypedRefreshIfNeeded, TypedPostRefresh, TypedDelete, TypedEnds,
       TypedHandleCallback, TypedSet, TypedExpireAt, TypedSaveFails, TypedTime
    DEF Next
  <2>2. CASE UNCHANGED vars
    BY <2>2 DEF vars, feishu, redis, Typed, TypeOK, PairsKnown
  <2> QED
    BY <2>1, <2>2
<1> QED
  BY <1>1, <1>2, PTL DEF Spec

\* The type invariant.
THEOREM TypeCorrect == Spec => []TypeOK
<1>1. Typed => TypeOK
  BY DEF Typed
<1> QED
  BY <1>1, TypedInvariant, PTL

-----------------------------------------------------------------------------
(* While operations have not overlapped.                                     *)

\* The newest pair is used up, revoked, lapsed or was never stored.
NewestGone == issued \notin usable \/ issued \notin saved

\* The store holds the newest pair that reached it, or none, and is without it
\* only when it is of no use; the key expires with that pair or not at all.
StoreOK ==
    /\ cred \in {None} \cup saved
    /\ cred # None => \A p \in saved : p <= cred
    /\ ttl \in {None, cred}
    /\ NewestGone \/ cred = issued

\* An operation holds no older pair than any that was stored; what it knows of
\* the store between two steps.
OpOK(o) ==
    /\ at[o] \in Carrying => \A p \in saved : p <= held[o]
    /\ at[o] \in {"loaded", "post", "touch"} => cred \in {None, held[o]}
    /\ at[o] \in {"expire", "touchExpire"} => cred = held[o] /\ ttl = None
    /\ at[o] \in Refused => NewestGone
    /\ at[o] = "notify" =>
         ~offline \/ held[o] \in lapsed \/ (cred = held[o] /\ ttl = held[o])

Single == \A o, p \in Ops : UnderWay(o) /\ UnderWay(p) => o = p

Alone == Single /\ StoreOK /\ \A o \in Ops : OpOK(o)

CredInv == overlapped \/ Alone

Others(o) == \A q \in Ops : q # o => ~UnderWay(q)

LEMMA IdleIsOK ==
    ASSUME NEW o, ~UnderWay(o)
    PROVE  OpOK(o)
BY DEF OpOK, UnderWay, Carrying, Refused

\* What is left to show of a step of o.
LEMMA Assemble ==
    ASSUME NEW o \in Ops, Others(o), StoreOK', OpOK(o)',
           \A q \in Ops : q # o => at'[q] = at[q]
    PROVE  Alone'
<1>1. \A q \in Ops : q # o => ~UnderWay(q)'
  BY DEF Others, UnderWay
<1>2. \A q \in Ops : OpOK(q)'
  BY <1>1 DEF OpOK, UnderWay, Carrying, Refused
<1> QED
  BY <1>1, <1>2 DEF Alone, Single

\* Who steps is alone.
LEMMA AloneBegins ==
    ASSUME NEW o \in Ops, Begin(o), ~overlapped', CredInv
    PROVE  Others(o) /\ Alone
BY DEF Begin, CredInv, Others

LEMMA AloneGoesOn ==
    ASSUME NEW o \in Ops, UnderWay(o), UNCHANGED overlapped, ~overlapped', CredInv
    PROVE  Others(o) /\ Alone
BY DEF CredInv, Alone, Single, Others

\* Ending an operation is safe when the store stays sound.
LEMMA EndKeeps ==
    ASSUME Typed, NEW o \in Ops, NEW what, End(o, what), Others(o), StoreOK'
    PROVE  Alone'
<1>1. at'[o] \in {"idle", "over"} /\ \A q \in Ops : q # o => at'[q] = at[q]
  BY EndMoves DEF Typed
<1>2. OpOK(o)'
  BY <1>1 DEF OpOK, Carrying, Refused
<1> QED
  BY <1>1, <1>2, Assemble

\* Steps that change neither Feishu nor Redis.
LEMMA StoreStays ==
    ASSUME StoreOK, UNCHANGED <<feishu, redis>> PROVE StoreOK' /\ NewestGone' = NewestGone
BY DEF StoreOK, NewestGone, feishu, redis

LEMMA KeepsGet ==
    ASSUME Typed, CredInv, ~overlapped', NEW c \in Calls, Get(c)
    PROVE  Alone'
<1>1. c \in Ops /\ Begin(c) /\ UNCHANGED <<feishu, redis>>
  BY DEF Ops, Get
<1>2. Others(c) /\ Alone
  BY <1>1, AloneBegins
<1>3. StoreOK' /\ NewestGone' = NewestGone
  BY <1>1, <1>2, StoreStays DEF Alone
<1>4. CASE End(c, "failed")
  BY <1>1, <1>2, <1>3, <1>4, EndKeeps
<1>5. CASE GoTo(c, IF cred = None THEN "ask" ELSE "loaded", cred)
  <2>1. PICK label \in {"ask", "loaded"} :
          GoTo(c, label, cred) /\ (label = "loaded" <=> cred # None)
    BY <1>5
  <2>2. at'[c] = label /\ held'[c] = cred /\ \A q \in Ops : q # c => at'[q] = at[q]
    BY <1>1, <2>1, GoToMoves DEF Typed
  <2>3. CASE label = "loaded"
    <3>1. OpOK(c)'
      BY <1>1, <1>2, <2>1, <2>2, <2>3 DEF OpOK, Alone, StoreOK, Carrying, Refused, redis
    <3> QED
      BY <1>1, <1>2, <1>3, <2>2, <3>1, Assemble
  <2>4. CASE label = "ask"
    <3>1. cred = None /\ (NewestGone \/ cred = issued)
      BY <1>2, <2>1, <2>4 DEF Alone, StoreOK
    <3>2. issued = None => issued \notin usable
      BY DEF Typed, TypeOK, None
    <3>3. NewestGone'
      BY <1>3, <3>1, <3>2 DEF NewestGone
    <3>4. OpOK(c)'
      BY <2>2, <2>4, <3>3 DEF OpOK, Carrying, Refused
    <3> QED
      BY <1>1, <1>2, <1>3, <2>2, <3>4, Assemble
  <2> QED
    BY <2>3, <2>4
<1> QED
  BY <1>4, <1>5 DEF Get

LEMMA KeepsSet ==
    ASSUME Typed, CredInv, ~overlapped', NEW o \in Ops, Set(o)
    PROVE  Alone'
<1>1. /\ at[o] \in {"set", "touch"} /\ UNCHANGED <<feishu, overlapped>>
      /\ cred' = held[o] /\ ttl' = None /\ saved' = saved \cup {held[o]}
  BY DEF Set
<1>2. Others(o) /\ Alone
  BY <1>1, AloneGoesOn DEF UnderWay
<1>3. at'[o] \in {"expire", "touchExpire"} /\ held'[o] = held[o]
      /\ \A q \in Ops : q # o => at'[q] = at[q]
  BY GoToMoves DEF Set, Typed
<1>4. /\ held[o] \in 1 .. issued /\ issued \in Nat /\ saved \subseteq 1 .. issued
      /\ \A p \in saved : p <= held[o]
  <2>1. held[o] \in 0 .. issued /\ held[o] # 0 /\ issued \in Nat
    BY <1>1, CredentialParameters DEF Typed, TypeOK, PairsKnown, Carrying, None
  <2> QED
    BY <1>1, <1>2, <2>1 DEF Alone, OpOK, Carrying, Typed, PairsKnown
<1>5. \A p \in saved' : p <= held[o]
  BY <1>1, <1>4
<1>6. StoreOK'
  <2>1. NewestGone' \/ cred' = issued'
    <3>1. issued' = issued
      BY <1>1 DEF feishu
    <3>2. issued \in saved' => held[o] = issued
      BY <1>4, <1>5
    <3> QED
      BY <1>1, <3>1, <3>2 DEF NewestGone
  <2> QED
    BY <1>1, <1>5, <2>1 DEF StoreOK
<1>7. OpOK(o)'
  BY <1>1, <1>3, <1>5 DEF OpOK, Carrying, Refused
<1> QED
  BY <1>2, <1>3, <1>6, <1>7, Assemble

LEMMA KeepsExpireAt ==
    ASSUME Typed, CredInv, ~overlapped', NEW o \in Ops, ExpireAt(o)
    PROVE  Alone'
<1>1. at[o] \in {"expire", "touchExpire"} /\ UNCHANGED <<feishu, saved, overlapped>>
  BY DEF ExpireAt
<1>2. Others(o) /\ Alone
  BY <1>1, AloneGoesOn DEF UnderWay
<1>3. /\ cred = held[o] /\ ttl = None /\ StoreOK
      /\ \A p \in saved : p <= held[o]
      /\ held[o] # None
  BY <1>1, <1>2 DEF Alone, OpOK, Carrying, Typed, PairsKnown
<1>4. at'[o] \in {"notify", "touch", "use"} /\ held'[o] = held[o]
      /\ \A q \in Ops : q # o => at'[q] = at[q]
  BY GoToMoves DEF ExpireAt, Typed
<1>5. CASE held[o] \in lapsed \/ ~offline
  <2>1. cred' = None /\ ttl' = None
    BY <1>5 DEF ExpireAt
  <2>2. held[o] \notin usable
    BY <1>5 DEF Typed, PairsKnown
  <2>3. NewestGone
    BY <1>3, <2>2 DEF StoreOK, NewestGone
  <2>4. StoreOK'
    BY <1>1, <2>1, <2>3 DEF StoreOK, NewestGone, feishu
  <2>5. OpOK(o)'
    BY <1>1, <1>3, <1>4, <1>5, <2>1 DEF OpOK, Carrying, Refused, feishu
  <2> QED
    BY <1>2, <1>4, <2>4, <2>5, Assemble
<1>6. CASE ~(held[o] \in lapsed \/ ~offline)
  <2>1. cred' = held[o] /\ ttl' = held[o]
    BY <1>3, <1>6 DEF ExpireAt
  <2>2. StoreOK'
    BY <1>1, <1>3, <2>1 DEF StoreOK, NewestGone, feishu
  <2>3. OpOK(o)'
    BY <1>1, <1>3, <1>4, <2>1 DEF OpOK, Carrying, Refused, feishu
  <2> QED
    BY <1>2, <1>4, <2>2, <2>3, Assemble
<1> QED
  BY <1>5, <1>6

LEMMA KeepsSaveFails ==
    ASSUME Typed, CredInv, ~overlapped', NEW o \in Ops, SaveFails(o)
    PROVE  Alone'
<1>1. at[o] \in {"set", "expire", "touch", "touchExpire"}
      /\ UNCHANGED <<feishu, redis, overlapped>>
  BY DEF SaveFails
<1>2. Others(o) /\ Alone
  BY <1>1, AloneGoesOn DEF UnderWay
<1>3. StoreOK'
  BY <1>1, <1>2, StoreStays DEF Alone
<1>4. CASE GoTo(o, "use", held[o])
  <2>1. at'[o] = "use" /\ held'[o] = held[o] /\ \A q \in Ops : q # o => at'[q] = at[q]
    BY <1>4, GoToMoves DEF Typed
  <2>2. OpOK(o)'
    BY <1>1, <1>2, <2>1 DEF OpOK, Alone, Carrying, Refused, redis
  <2> QED
    BY <1>2, <1>3, <2>1, <2>2, Assemble
<1>5. CASE End(o, "failed")
  BY <1>2, <1>3, <1>5, EndKeeps
<1> QED
  BY <1>4, <1>5 DEF SaveFails

LEMMA KeepsDelete ==
    ASSUME Typed, CredInv, ~overlapped', NEW c \in Calls, Delete(c)
    PROVE  Alone'
<1>1. /\ c \in Ops /\ at[c] \in {"invalidate", "reauthorize"}
      /\ UNCHANGED <<feishu, saved, overlapped>>
      /\ (cred' = None /\ ttl' = None) \/ UNCHANGED <<cred, ttl>>
  BY DEF Ops, Delete
<1>2. Others(c) /\ Alone
  BY <1>1, AloneGoesOn DEF UnderWay
<1>3. NewestGone /\ NewestGone'
  BY <1>1, <1>2 DEF Alone, OpOK, Refused, NewestGone, feishu
<1>4. StoreOK'
  BY <1>1, <1>2, <1>3 DEF Alone, StoreOK, feishu
<1>5. at'[c] \in {"reauthorize", "ask"} /\ \A q \in Ops : q # c => at'[q] = at[q]
  BY <1>1, GoToMoves DEF Delete, Typed
<1>6. OpOK(c)'
  BY <1>3, <1>5 DEF OpOK, Carrying, Refused
<1> QED
  BY <1>1, <1>2, <1>4, <1>5, <1>6, Assemble

\* A pair that is loaded and no longer taken was the newest that counts.
LEMMA LoadedOutdated ==
    ASSUME Typed, Alone, NEW c \in Ops, at[c] \in {"loaded", "post"}, held[c] \notin usable
    PROVE  NewestGone
<1>1. cred \in {None, held[c]} /\ (NewestGone \/ cred = issued)
  BY DEF Alone, OpOK, StoreOK
<1>2. None \notin usable
  BY DEF Typed, TypeOK, None
<1> QED
  BY <1>1, <1>2 DEF NewestGone

LEMMA KeepsRefreshIfNeeded ==
    ASSUME Typed, CredInv, ~overlapped', NEW c \in Calls, RefreshIfNeeded(c)
    PROVE  Alone'
<1>1. c \in Ops /\ at[c] = "loaded" /\ UNCHANGED <<feishu, redis, overlapped>>
  BY DEF Ops, RefreshIfNeeded
<1>2. Others(c) /\ Alone
  BY <1>1, AloneGoesOn DEF UnderWay
<1>3. StoreOK' /\ NewestGone' = NewestGone
  BY <1>1, <1>2, StoreStays DEF Alone
<1>4. PICK label \in {"touch", "reauthorize", "post"} :
        GoTo(c, label, held[c]) /\ (label = "reauthorize" => ~offline)
  BY DEF RefreshIfNeeded
<1>5. at'[c] = label /\ held'[c] = held[c] /\ \A q \in Ops : q # c => at'[q] = at[q]
  BY <1>1, <1>4, GoToMoves DEF Typed
<1>6. label = "reauthorize" => NewestGone
  BY <1>1, <1>2, <1>4, LoadedOutdated DEF Typed, PairsKnown
<1>7. OpOK(c)'
  BY <1>1, <1>2, <1>3, <1>5, <1>6, <1>4 DEF OpOK, Alone, Carrying, Refused, redis
<1> QED
  BY <1>1, <1>2, <1>3, <1>5, <1>7, Assemble

\* A pair is issued to an operation that is alone.
LEMMA KeepsIssue ==
    ASSUME Typed, Alone, NEW o \in Ops, Others(o), UNCHANGED redis,
           Exchanged \/ (\E p : Rotated(p)),
           GoTo(o, "set", issued + 1) \/ End(o, "failed")
    PROVE  Alone'
<1>1. issued' = issued + 1 /\ issued' \notin saved /\ saved' = saved
  BY IssueEffect DEF redis
<1>2. StoreOK'
  BY <1>1 DEF Alone, StoreOK, NewestGone, redis
<1>3. CASE GoTo(o, "set", issued + 1)
  <2>1. at'[o] = "set" /\ held'[o] = issued + 1 /\ \A q \in Ops : q # o => at'[q] = at[q]
    BY <1>3, GoToMoves DEF Typed
  <2>2. \A p \in saved : p <= issued + 1
    BY CredentialParameters DEF Typed, TypeOK, PairsKnown
  <2>3. OpOK(o)'
    BY <1>1, <2>1, <2>2 DEF OpOK, Carrying, Refused
  <2> QED
    BY <1>2, <2>1, <2>3, Assemble
<1>4. CASE End(o, "failed")
  BY <1>2, <1>4, EndKeeps
<1> QED
  BY <1>3, <1>4

LEMMA KeepsPostRefresh ==
    ASSUME Typed, CredInv, ~overlapped', NEW c \in Calls, PostRefresh(c)
    PROVE  Alone'
<1>1. c \in Ops /\ at[c] = "post" /\ UNCHANGED <<redis, overlapped>>
  BY DEF Ops, PostRefresh
<1>2. Others(c) /\ Alone
  BY <1>1, AloneGoesOn DEF UnderWay
<1>3. CASE \E p : Rotated(p)
  <2>1. GoTo(c, "set", issued + 1) \/ End(c, "failed")
    BY <1>1, <1>3 DEF PostRefresh, Rotated, feishu, Typed, TypeOK
  <2> QED
    BY <1>1, <1>2, <1>3, <2>1, KeepsIssue
<1>4. CASE held[c] \notin usable /\ GoTo(c, "invalidate", held[c]) /\ UNCHANGED feishu
  <2>1. NewestGone
    BY <1>1, <1>2, <1>4, LoadedOutdated
  <2>2. StoreOK' /\ NewestGone'
    BY <1>1, <1>2, <1>4, <2>1, StoreStays DEF Alone
  <2>3. at'[c] = "invalidate" /\ \A q \in Ops : q # c => at'[q] = at[q]
    BY <1>1, <1>4, GoToMoves DEF Typed
  <2>4. OpOK(c)'
    BY <2>2, <2>3 DEF OpOK, Carrying, Refused
  <2> QED
    BY <1>1, <1>2, <2>2, <2>3, <2>4, Assemble
<1>5. CASE UNCHANGED feishu /\ End(c, "failed")
  BY <1>1, <1>2, <1>5, StoreStays, EndKeeps DEF Alone
<1> QED
  BY <1>3, <1>4, <1>5 DEF PostRefresh

LEMMA KeepsHandleCallback ==
    ASSUME Typed, CredInv, ~overlapped', NEW b \in Callbacks, HandleCallback(b)
    PROVE  Alone'
<1>1. b \in Ops /\ Begin(b) /\ UNCHANGED redis
  BY DEF Ops, HandleCallback
<1>2. Others(b) /\ Alone
  BY <1>1, AloneBegins
<1>3. CASE Exchanged
  <2>1. issued' = issued + 1 /\ issued \in Nat
    BY <1>3, CredentialParameters DEF Exchanged, Typed, TypeOK
  <2>2. GoTo(b, "set", issued + 1) \/ End(b, "failed")
    BY DEF HandleCallback
  <2> QED
    BY <1>1, <1>2, <1>3, <2>2, KeepsIssue
<1>4. CASE UNCHANGED feishu /\ End(b, "failed")
  BY <1>1, <1>2, <1>4, StoreStays, EndKeeps DEF Alone
<1> QED
  BY <1>3, <1>4 DEF HandleCallback

LEMMA KeepsEnds ==
    ASSUME Typed, CredInv, ~overlapped', NEW o \in Ops, UnderWay(o), NEW what,
           End(o, what), UNCHANGED <<feishu, redis, overlapped>>
    PROVE  Alone'
<1>1. Others(o) /\ Alone
  BY AloneGoesOn
<1> QED
  BY <1>1, StoreStays, EndKeeps DEF Alone

\* Steps of time and of the user change no operation.
LEMMA KeepsTime ==
    ASSUME Typed, Alone
    PROVE  /\ \A p \in Pairs : AccessEnds(p) \/ RefreshLapses(p) => Alone'
           /\ Revoke => Alone'
<1>1. ASSUME NEW p \in Pairs, AccessEnds(p) PROVE Alone'
  BY <1>1 DEF AccessEnds, redis, Alone, Single, StoreOK, OpOK, NewestGone, UnderWay
<1>2. ASSUME NEW p \in Pairs, RefreshLapses(p) PROVE Alone'
  <2>1. /\ p \in 1 .. issued /\ lapsed' = lapsed \cup {p} /\ usable' = usable \ {p}
        /\ UNCHANGED <<offline, issued, ended, saved, links, at, held, reply, overlapped>>
        /\ \/ ttl = p /\ cred' = None /\ ttl' = None
           \/ ttl # p /\ UNCHANGED <<cred, ttl>>
    BY <1>2 DEF RefreshLapses, Pairs, Typed, TypeOK
  <2>2. p # None /\ (ttl = p => cred = p)
    BY <2>1 DEF None, Alone, StoreOK
  <2>3. NewestGone => NewestGone'
    BY <2>1 DEF NewestGone
  <2>4. StoreOK'
    <3>1. CASE ttl = p
      <4>1. NewestGone'
        BY <2>1, <2>2, <2>3, <3>1 DEF Alone, StoreOK, NewestGone
      <4> QED
        BY <2>1, <3>1, <4>1 DEF StoreOK
    <3>2. CASE ttl # p
      BY <2>1, <2>3, <3>2 DEF Alone, StoreOK
    <3> QED
      BY <3>1, <3>2
  <2>5. ASSUME NEW o \in Ops PROVE OpOK(o)'
    BY <2>1, <2>2, <2>3 DEF Alone, OpOK
  <2> QED
    BY <2>1, <2>4, <2>5 DEF Alone, Single, UnderWay
<1>3. ASSUME Revoke PROVE Alone'
  <2>1. NewestGone'
    BY <1>3 DEF Revoke, NewestGone
  <2> QED
    BY <1>3, <2>1 DEF Revoke, redis, Alone, Single, StoreOK, OpOK, UnderWay
<1> QED
  BY <1>1, <1>2, <1>3

LEMMA CredInvStep == Typed /\ CredInv /\ [Next]_vars => CredInv'
<1> SUFFICES ASSUME Typed, CredInv, [Next]_vars, ~overlapped' PROVE Alone'
  BY DEF CredInv
<1>1. ASSUME NEW c \in Calls,
             Get(c) \/ RefreshIfNeeded(c) \/ PostRefresh(c) \/ Delete(c) \/ Ask(c) \/ UseToken(c)
      PROVE  Alone'
  <2>1. CASE Ask(c) \/ UseToken(c)
    BY <2>1, KeepsEnds DEF Ask, UseToken, Ops, UnderWay
  <2> QED
    BY <1>1, <2>1, KeepsGet, KeepsRefreshIfNeeded, KeepsPostRefresh, KeepsDelete
<1>2. ASSUME NEW b \in Callbacks, HandleCallback(b) \/ NotifyUser(b) PROVE Alone'
  <2>1. CASE NotifyUser(b)
    BY <2>1, KeepsEnds DEF NotifyUser, Ops, UnderWay
  <2> QED
    BY <1>2, <2>1, KeepsHandleCallback
<1>3. ASSUME NEW o \in Ops, Set(o) \/ ExpireAt(o) \/ SaveFails(o) \/ CutOff(o) PROVE Alone'
  <2>1. CASE CutOff(o)
    BY <2>1, KeepsEnds DEF CutOff
  <2> QED
    BY <1>3, <2>1, KeepsSet, KeepsExpireAt, KeepsSaveFails
<1>4. ASSUME (\E p \in Pairs : AccessEnds(p) \/ RefreshLapses(p)) \/ Revoke PROVE Alone'
  <2>1. UNCHANGED overlapped
    BY <1>4 DEF AccessEnds, RefreshLapses, Revoke
  <2>2. Alone
    BY <2>1 DEF CredInv
  <2> QED
    BY <1>4, <2>2, KeepsTime
<1>5. CASE UNCHANGED vars
  BY <1>5 DEF vars, feishu, redis, CredInv, Alone, Single, StoreOK, OpOK, NewestGone, UnderWay
<1> QED
  BY <1>1, <1>2, <1>3, <1>4, <1>5 DEF Next

LEMMA CredInvariant == Spec => [](Typed /\ CredInv)
<1>1. Init => CredInv
  BY DEF Init, CredInv, Alone, Single, StoreOK, OpOK, NewestGone, UnderWay, Carrying, Refused
<1> QED
  BY <1>1, CredInvStep, TypedInvariant, PTL DEF Spec

-----------------------------------------------------------------------------
(* What follows.                                                             *)

\* While operations do not overlap no user whose newest pair was stored and is
\* still good is sent to authorize again.
THEOREM NobodyAskedInVain == Spec => []AskedOnlyIfNeeded
<1>1. Typed /\ CredInv => AskedOnlyIfNeeded
  BY DEF CredInv, Alone, OpOK, Refused, NewestGone, AskedOnlyIfNeeded, Ops
<1> QED
  BY <1>1, CredInvariant, PTL

\* While nothing is under way the store holds the newest pair that reached it, or
\* none.
THEOREM StoreIsCurrent == Spec => []StoredIsCurrent
<1>1. Typed /\ CredInv => StoredIsCurrent
  BY DEF CredInv, Alone, StoreOK, StoredIsCurrent
<1> QED
  BY <1>1, CredInvariant, PTL

\* Who is told that the authorization worked has a stored credential that expires
\* with its own refresh token.
THEOREM NotifiedHasCredential == Spec => []NotifiedUserHasCredential
<1>1. Typed /\ CredInv => NotifiedUserHasCredential
  BY DEF CredInv, Alone, OpOK, NotifiedUserHasCredential, Ops
<1> QED
  BY <1>1, CredInvariant, PTL

\* While operations do not overlap no stored pair is replaced by an older one.
THEOREM StoreNeverOlder == Spec => NeverOlder
<1>1. Typed /\ CredInv /\ [Next]_vars => [cred' # None /\ cred' < cred => overlapped']_vars
  <2> SUFFICES ASSUME Typed, CredInv, Next, cred' # None, cred' < cred, ~overlapped'
               PROVE  FALSE
    BY Zenon
  <2>1. PICK o \in Ops : Set(o)
    <3>1. cred' # cred
      BY CredentialParameters DEF Typed, TypeOK
    <3>2. ASSUME NEW c \in Calls, Get(c) \/ RefreshIfNeeded(c) \/ PostRefresh(c) \/ Delete(c)
                                  \/ Ask(c) \/ UseToken(c)
          PROVE  FALSE
      BY <3>1, <3>2 DEF Get, RefreshIfNeeded, PostRefresh, Delete, Ask, UseToken, redis
    <3>3. ASSUME NEW b \in Callbacks, HandleCallback(b) \/ NotifyUser(b) PROVE FALSE
      BY <3>1, <3>3 DEF HandleCallback, NotifyUser, redis
    <3>4. ASSUME NEW o \in Ops, ExpireAt(o) \/ SaveFails(o) \/ CutOff(o) PROVE FALSE
      BY <3>1, <3>4 DEF ExpireAt, SaveFails, CutOff, redis
    <3>5. ASSUME (\E p \in Pairs : AccessEnds(p) \/ RefreshLapses(p)) \/ Revoke PROVE FALSE
      BY <3>1, <3>5 DEF AccessEnds, RefreshLapses, Revoke, redis
    <3> QED
      BY <3>2, <3>3, <3>4, <3>5 DEF Next
  <2>2. /\ at[o] \in {"set", "touch"} /\ UnderWay(o) /\ cred' = held[o]
        /\ UNCHANGED overlapped
    BY <2>1 DEF Set, UnderWay
  <2>3. Alone
    BY <2>2 DEF CredInv
  <2>4. (\A p \in saved : p <= held[o]) /\ cred \in {None} \cup saved
    BY <2>2, <2>3 DEF Alone, OpOK, StoreOK, Carrying
  <2>5. held[o] \in Nat /\ cred \in Nat
    BY CredentialParameters DEF Typed, TypeOK
  <2> QED
    BY <2>2, <2>4, <2>5 DEF None
<1> QED
  BY <1>1, CredInvariant, PTL DEF Spec, NeverOlder
=============================================================================
