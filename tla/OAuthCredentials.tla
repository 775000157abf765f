-------------------------- MODULE OAuthCredentials --------------------------
(***************************************************************************)
(* The Feishu credential of one user: oauth/tokens.go, oauth/store.go,     *)
(* oauth/state.go, the callback of oauth/server.go and the two document    *)
(* tools of tool/builtin/feishu_doc.go.                                    *)
(*                                                                         *)
(* Feishu issues token pairs, numbered as issued: an access token and,     *)
(* when the scopes hold offline_access, a refresh token that can be used   *)
(* once.  A tool call takes the stored pair, refreshes it if it must,      *)
(* stores it again as "used" and reads the document; a request to          *)
(* /oauth/callback stores a new pair.  A Save is two Redis calls, SET      *)
(* (which clears the TTL) and EXPIREAT.                                    *)
(***************************************************************************)
EXTENDS Integers, FiniteSets

CONSTANTS
    Calls,      \* slots for tool calls of the user; a slot is used again and again
    Callbacks,  \* requests to /oauth/callback, each with a code of its own
    MaxPairs    \* bound: pairs Feishu issues

ASSUME CredentialParameters ==
    /\ Calls \cap Callbacks = {}
    /\ MaxPairs \in Nat

Ops == Calls \cup Callbacks
Pairs == 1 .. MaxPairs
None == 0

VARIABLES
    offline,     \* do the scopes hold offline_access
    issued,      \* Feishu: the newest pair
    usable,      \* Feishu: pairs whose refresh token is still taken
    ended,       \* pairs whose access token has ended, or will within 60 s
    lapsed,      \* pairs whose refresh token is past its lifetime
    cred,        \* Redis: the pair under bot:oauth:<open_id>
    ttl,         \* Redis: the pair the expiry of that key was taken from
    links,       \* has the user been sent a link to authorize
    at,          \* where each operation is
    held,        \* the pair it holds
    reply,       \* what the last operation of a slot came to
    saved,       \* history: pairs that reached Redis
    overlapped   \* history: have two operations been under way at once

feishu == <<offline, issued, usable, ended, lapsed>>
redis == <<cred, ttl, saved>>
vars == <<feishu, redis, links, at, held, reply, overlapped>>

Init ==
    /\ offline \in BOOLEAN
    /\ issued = 0 /\ usable = {} /\ ended = {} /\ lapsed = {}
    /\ cred = None /\ ttl = None /\ saved = {}
    /\ links = FALSE
    /\ at = [o \in Ops |-> "idle"]
    /\ held = [o \in Ops |-> None]
    /\ reply = [o \in Ops |-> "none"]
    /\ overlapped = FALSE

UnderWay(o) == at[o] \notin {"idle", "over"}

Begin(o) ==
    /\ at[o] = "idle"
    /\ overlapped' = (overlapped \/ \E p \in Ops : UnderWay(p))

\* o goes on to label with pair p in its hands.
GoTo(o, label, p) ==
    /\ at' = [at EXCEPT ![o] = label]
    /\ held' = [held EXCEPT ![o] = p]

\* o is over, and what it came to; a callback has used its code.
End(o, what) ==
    /\ GoTo(o, IF o \in Calls THEN "idle" ELSE "over", None)
    /\ reply' = [reply EXCEPT ![o] = what]

-----------------------------------------------------------------------------
(* Store.                                                                    *)

\* Fault: a missing credential is not noticed.
GetUnchecked(c) ==
    /\ Begin(c)
    /\ GoTo(c, "loaded", cred)
    /\ reply' = [reply EXCEPT ![c] = "none"]
    /\ UNCHANGED <<feishu, redis, links>>

\* requireCredential, Store.Get: Redis fails, or no credential means that the
\* user is asked.
Get(c) ==
    /\ Begin(c)
    /\ \/ /\ GoTo(c, IF cred = None THEN "ask" ELSE "loaded", cred)
          /\ reply' = [reply EXCEPT ![c] = "none"]
       \/ End(c, "failed")
    /\ UNCHANGED <<feishu, redis, links>>

\* Fault: SET keeps the expiry of the key.
SetKeepsTtl(o) ==
    /\ at[o] \in {"set", "touch"}
    /\ cred' = held[o] /\ UNCHANGED ttl /\ saved' = saved \cup {held[o]}
    /\ GoTo(o, IF at[o] = "set" THEN "expire" ELSE "touchExpire", held[o])
    /\ UNCHANGED <<feishu, links, reply, overlapped>>

\* Store.Save, SET.
Set(o) ==
    /\ at[o] \in {"set", "touch"}
    /\ cred' = held[o] /\ ttl' = None /\ saved' = saved \cup {held[o]}
    /\ GoTo(o, IF at[o] = "set" THEN "expire" ELSE "touchExpire", held[o])
    /\ UNCHANGED <<feishu, links, reply, overlapped>>

\* Fault: a call that refreshed goes on with the pair it had.
ExpireAtOldPair(o) ==
    /\ at[o] \in {"expire", "touchExpire"}
    /\ IF held[o] \in lapsed \/ ~offline
       THEN cred' = None /\ ttl' = None
       ELSE UNCHANGED cred /\ ttl' = IF cred = None THEN None ELSE held[o]
    /\ GoTo(o, CASE o \in Callbacks -> "notify"
                 [] at[o] = "expire" -> "touch"
                 [] OTHER -> "use",
               IF at[o] = "expire" /\ o \in Calls /\ held[o] > 1 THEN held[o] - 1 ELSE held[o])
    /\ UNCHANGED <<feishu, saved, links, reply, overlapped>>

\* Store.Save, EXPIREAT: a time that has passed deletes the key (a pair without
\* a refresh token "expires" when it is issued); no key, no effect.
ExpireAt(o) ==
    /\ at[o] \in {"expire", "touchExpire"}
    /\ IF held[o] \in lapsed \/ ~offline
       THEN cred' = None /\ ttl' = None
       ELSE UNCHANGED cred /\ ttl' = IF cred = None THEN None ELSE held[o]
    /\ GoTo(o, CASE o \in Callbacks -> "notify"
                 [] at[o] = "expire" -> "touch"
                 [] OTHER -> "use", held[o])
    /\ UNCHANGED <<feishu, saved, links, reply, overlapped>>

\* Fault: the callback overlooks that a save failed.
SaveFailsUnseen(o) ==
    /\ at[o] \in {"set", "expire", "touch", "touchExpire"}
    /\ CASE at[o] \in {"touch", "touchExpire"} ->
                GoTo(o, "use", held[o]) /\ UNCHANGED reply
         [] o \in Callbacks -> GoTo(o, "notify", held[o]) /\ UNCHANGED reply
         [] OTHER -> End(o, "failed")
    /\ UNCHANGED <<feishu, redis, links, overlapped>>

\* A Redis call of Save fails.  That of the "last used" time does not matter to
\* requireCredential, any other one ends the operation.
SaveFails(o) ==
    /\ at[o] \in {"set", "expire", "touch", "touchExpire"}
    /\ IF at[o] \in {"touch", "touchExpire"}
       THEN GoTo(o, "use", held[o]) /\ UNCHANGED reply
       ELSE End(o, "failed")
    /\ UNCHANGED <<feishu, redis, links, overlapped>>

\* Store.Delete, once by RefreshIfNeeded and once by reauthorize; its error is
\* ignored.
Delete(c) ==
    /\ at[c] \in {"invalidate", "reauthorize"}
    /\ \/ cred' = None /\ ttl' = None
       \/ UNCHANGED <<cred, ttl>>
    /\ GoTo(c, IF at[c] = "invalidate" THEN "reauthorize" ELSE "ask", held[c])
    /\ UNCHANGED <<feishu, saved, links, reply, overlapped>>

-----------------------------------------------------------------------------
(* TokenRefresher.                                                           *)

\* The head of RefreshIfNeeded.
RefreshIfNeeded(c) ==
    /\ at[c] = "loaded"
    /\ GoTo(c, CASE held[c] \notin ended -> "touch"
                 [] ~offline -> "reauthorize"
                 [] OTHER -> "post", held[c])
    /\ UNCHANGED <<feishu, redis, links, reply, overlapped>>

\* Feishu takes a refresh token: it is used up, and a new pair is issued.
Rotated(p) ==
    /\ p \in usable /\ issued < MaxPairs
    /\ issued' = issued + 1
    /\ usable' = (usable \ {p}) \cup {issued + 1}
    /\ UNCHANGED <<offline, ended, lapsed>>

\* Fault: a call that fails is taken for a refusal.
PostRefreshAnyFailure(c) ==
    /\ at[c] = "post"
    /\ \/ Rotated(held[c]) /\ GoTo(c, "set", issued + 1) /\ UNCHANGED reply
       \/ GoTo(c, "invalidate", held[c]) /\ UNCHANGED <<feishu, reply>>
    /\ UNCHANGED <<redis, links, overlapped>>

\* The POST of RefreshIfNeeded: Feishu issues a pair, refuses the token (4xx), or
\* the call fails, with or without effect at Feishu.
PostRefresh(c) ==
    /\ at[c] = "post"
    /\ \/ Rotated(held[c]) /\ GoTo(c, "set", issued + 1) /\ UNCHANGED reply
       \/ /\ held[c] \notin usable
          /\ GoTo(c, "invalidate", held[c]) /\ UNCHANGED <<feishu, reply>>
       \/ /\ Rotated(held[c]) \/ UNCHANGED feishu
          /\ End(c, "failed")
    /\ UNCHANGED <<redis, links, overlapped>>

-----------------------------------------------------------------------------
(* The document tools.                                                       *)

\* oauthStartError, or the ReauthorizeError: the reply holds a signed link.
Ask(c) ==
    /\ at[c] = "ask"
    /\ links' = TRUE
    /\ End(c, "authorize")
    /\ UNCHANGED <<feishu, redis, overlapped>>

\* What Feishu answers to a request for a document: a code, or the call fails.
Answers == {"success", "403", "404", "invalid token", "timeout", "other"}

\* mapFeishuCode and mapFeishuErr.
MapFeishu(answer) ==
    CASE answer = "success" -> "document"
      [] answer \in {"403", "invalid token"} -> "no access"
      [] answer = "404" -> "no document"
      [] answer = "timeout" -> "try later"
      [] OTHER -> "failed"

\* fetchFeishuDocContent or searchFeishuDocs, with the access token held.
UseToken(c) ==
    /\ at[c] = "use"
    /\ \E answer \in Answers : End(c, MapFeishu(answer))
    /\ UNCHANGED <<feishu, redis, links, overlapped>>

-----------------------------------------------------------------------------
(* The callback.                                                             *)

\* Verify passes the state of a link that Sign signed for the user, however often
\* and however late it is used.
ValidState == links

\* exchange: Feishu issues a pair for a code.
Exchanged ==
    /\ issued < MaxPairs
    /\ issued' = issued + 1
    /\ usable' = IF offline THEN usable \cup {issued + 1} ELSE usable
    /\ UNCHANGED <<offline, ended, lapsed>>

\* handleCallback up to Save: the exchange works, or fails with or without effect.
HandleCallback(b) ==
    /\ Begin(b) /\ ValidState
    /\ \/ Exchanged /\ GoTo(b, "set", issued + 1) /\ UNCHANGED reply
       \/ (Exchanged \/ UNCHANGED feishu) /\ End(b, "failed")
    /\ UNCHANGED <<redis, links>>

\* handleCallback after Save: the user is told that the authorization worked.
NotifyUser(b) ==
    /\ at[b] = "notify"
    /\ End(b, "authorized")
    /\ UNCHANGED <<feishu, redis, links, overlapped>>

-----------------------------------------------------------------------------
(* Time, Feishu and crashes.                                                 *)

AccessEnds(p) ==
    /\ p <= issued /\ p \notin ended
    /\ ended' = ended \cup {p}
    /\ UNCHANGED <<offline, issued, usable, lapsed, redis, links, at, held, reply, overlapped>>

\* A refresh token gets too old; Redis deletes the key that expires with it.
RefreshLapses(p) ==
    /\ offline /\ p <= issued /\ p \in ended \ lapsed
    /\ lapsed' = lapsed \cup {p}
    /\ usable' = usable \ {p}
    /\ IF ttl = p THEN cred' = None /\ ttl' = None ELSE UNCHANGED <<cred, ttl>>
    /\ UNCHANGED <<offline, issued, ended, saved, links, at, held, reply, overlapped>>

\* The user takes the authorization back.
Revoke ==
    /\ usable # {}
    /\ usable' = {}
    /\ UNCHANGED <<offline, issued, ended, lapsed, redis, links, at, held, reply, overlapped>>

\* The process dies, or the context of the operation ends, before its next step.
CutOff(o) ==
    /\ UnderWay(o)
    /\ End(o, "failed")
    /\ UNCHANGED <<feishu, redis, links, overlapped>>

Next ==
    \/ \E c \in Calls : \/ Get(c) \/ RefreshIfNeeded(c) \/ PostRefresh(c)
                        \/ Delete(c) \/ Ask(c) \/ UseToken(c)
    \/ \E b \in Callbacks : HandleCallback(b) \/ NotifyUser(b)
    \/ \E o \in Ops : Set(o) \/ ExpireAt(o) \/ SaveFails(o) \/ CutOff(o)
    \/ \E p \in Pairs : AccessEnds(p) \/ RefreshLapses(p)
    \/ Revoke

Spec == Init /\ [][Next]_vars

-----------------------------------------------------------------------------
(* Properties.                                                               *)

Labels == {"idle", "loaded", "post", "invalidate", "reauthorize", "ask", "set",
           "expire", "touch", "touchExpire", "use", "notify", "over"}

Replies == {"none", "authorize", "document", "no access", "no document",
            "try later", "failed", "authorized"}

\* Every variable stays within its type.
TypeOK ==
    /\ offline \in BOOLEAN /\ links \in BOOLEAN /\ overlapped \in BOOLEAN
    /\ issued \in 0 .. MaxPairs
    /\ usable \subseteq 1 .. issued
    /\ ended \subseteq Pairs /\ lapsed \subseteq Pairs /\ saved \subseteq Pairs
    /\ cred \in 0 .. issued /\ ttl \in 0 .. issued
    /\ at \in [Ops -> Labels]
    /\ held \in [Ops -> 0 .. issued]
    /\ reply \in [Ops -> Replies]

\* A user whose newest pair was stored and is still good is not sent to authorize
\* again, through failing calls, crashes between any two steps, rotations whose
\* answer is lost and credentials that expire - unless operations overlap.
AskedOnlyIfNeeded ==
    \A c \in Calls : at[c] = "ask" =>
        overlapped \/ issued \notin usable \/ issued \notin saved

\* "Calls of an authorized user need no new authorization" (spec.md, SC-009), as
\* the code does not keep it: two document tools of one step refresh the same
\* single-use token, and the one Feishu refuses deletes what the other stored.
NeverAskedAgain ==
    \A c \in Calls : at[c] = "ask" /\ held[c] # None =>
        issued \notin usable \/ issued \notin saved

\* The stored pair is never replaced by an older one - unless operations overlap.
NeverOlder ==
    [][cred' # None /\ cred' < cred => overlapped']_vars

\* While nothing is under way the store holds the newest pair that reached it, or
\* none, and its key does not expire with another pair's refresh token - a
\* crash between SET and EXPIREAT may leave it without expiry.
StoredIsCurrent ==
    (\A o \in Ops : ~UnderWay(o)) /\ ~overlapped =>
        /\ cred \in {None} \cup saved
        /\ cred # None => \A p \in saved : p <= cred
        /\ ttl \in {None, cred}

\* "Authorized, go on asking" is sent only once the pair is stored and expires
\* with its own refresh token - if the scopes hold offline_access, its lifetime
\* is not over and operations do not overlap.
NotifiedUserHasCredential ==
    \A b \in Callbacks : at[b] = "notify" =>
        \/ overlapped \/ ~offline \/ held[b] \in lapsed
        \/ cred = held[b] /\ ttl = held[b]
=============================================================================
