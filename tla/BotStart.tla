------------------------------ MODULE BotStart ------------------------------
(***************************************************************************)
(* Start-up and shutdown of the process: run of cmd/bot/main.go with       *)
(* config.Load, llm.NewRegistry, tool.Registry, and mcp.Manager.           *)
(*                                                                         *)
(* main is one goroutine that walks through the stages below; while it     *)
(* waits in "running", goroutines of the HTTP server serve /oauth/callback *)
(* and turns call the tools of MCP servers.                                *)
(***************************************************************************)
EXTENDS Integers, Sequences, FiniteSets

CONSTANTS
    Aliases,        \* llm.providers of the configuration
    DefaultAlias,   \* llm.default_provider
    Builtins,       \* names of the built-in tools
    Configs,        \* the possible mcp_servers: sequences of [name, enabled]
    ToolDefs,       \* tools an MCP server may list
    PrefixedName,   \* prefixedToolName: <<server name, tool>> -> name, not always injective
    Callbacks       \* requests to /oauth/callback

ASSUME BotParameters ==
    \A config \in Configs :
        /\ Len(config) \in Nat /\ DOMAIN config = 1 .. Len(config)
        /\ \A i \in DOMAIN config, d \in ToolDefs :   \* the prefix mcp__ is reserved
              PrefixedName[<<config[i].name, d>>] \notin Builtins

VARIABLES
    stage,      \* where main is
    providers,  \* llm.Registry
    tools,      \* tool.Registry: [name, client]; the client of a builtin is 0
    mcp,        \* cfg.MCPServers
    loading,    \* LoadAll: the next configuration
    servers,    \* Manager.servers: name -> [client, adapted], client 0 if not connected
    queue,      \* names of servers whose Tools are not registered yet
    open,       \* MCP clients that are open, by the index of their configuration
    callbacks,  \* callbacks that are being served
    calls,      \* tools of MCP servers that turns are calling
    cancelled,  \* is rootCtx, the parent of every turn's context, done
    timedOut    \* did oauthSrv.Shutdown give up on requests

vars == <<stage, providers, tools, mcp, loading, servers, queue, open,
          callbacks, calls, cancelled, timedOut>>

manager == <<loading, servers, queue>>
serving == <<callbacks, calls, cancelled, timedOut>>

Init ==
    /\ stage = "config"
    /\ providers = {} /\ tools = {}
    /\ mcp \in Configs
    /\ loading = 1 /\ servers = <<>> /\ queue = {} /\ open = {}
    /\ callbacks = {} /\ calls = {} /\ cancelled = FALSE /\ timedOut = FALSE

-----------------------------------------------------------------------------
(* Start-up.                                                                 *)

\* config.Load and validate: a field that is required is missing, or not.
LoadConfig ==
    /\ stage = "config"
    /\ stage' \in {"redis", "failed"}
    /\ UNCHANGED <<providers, tools, mcp, manager, open, serving>>

PingRedis ==
    /\ stage = "redis"
    /\ stage' \in {"keys", "failed"}
    /\ UNCHANGED <<providers, tools, mcp, manager, open, serving>>

\* NewEncryptor and NewStateSigner: no start without both keys.
ReadKeys ==
    /\ stage = "keys"
    /\ stage' \in {"llm", "failed"}
    /\ UNCHANGED <<providers, tools, mcp, manager, open, serving>>

\* llm.NewRegistry: providers without a key, or that cannot be made, are left out;
\* the default one must be there.
BuildLLMRegistry ==
    /\ stage = "llm"
    /\ \E enabled \in SUBSET Aliases :
          /\ providers' = enabled
          /\ stage' = IF DefaultAlias \in enabled THEN "builtins" ELSE "failed"
    /\ UNCHANGED <<tools, mcp, manager, open, serving>>

\* The builtin tools, registered one after the other; the names are distinct.
RegisterBuiltins ==
    /\ stage = "builtins"
    /\ tools' = {[name |-> n, client |-> 0] : n \in Builtins}
    /\ stage' = "mcp"
    /\ UNCHANGED <<providers, mcp, manager, open, serving>>

\* A managedServer that is not connected.
Failed == [client |-> 0, adapted |-> {}]

\* setServer.
SetServer(name, managed) ==
    servers' = [n \in DOMAIN servers \cup {name} |->
                   IF n = name THEN managed ELSE servers[n]]

\* Fault: a client that could not list its tools is kept open.
LoadOneLeaks(i) ==
    \/ SetServer(mcp[i].name, Failed) /\ open' \in {open, open \cup {i}}
    \/ /\ mcp[i].enabled
       /\ \E listed \in SUBSET ToolDefs :
             SetServer(mcp[i].name, [client |-> i, adapted |-> listed])
       /\ open' = open \cup {i}

\* loadOne: the client cannot be made, initialized or asked for its tools within
\* its timeout (then it is closed again), or the server is connected.
LoadOne(i) ==
    \/ SetServer(mcp[i].name, Failed) /\ UNCHANGED open
    \/ /\ mcp[i].enabled
       /\ \E listed \in SUBSET ToolDefs :
             SetServer(mcp[i].name, [client |-> i, adapted |-> listed])
       /\ open' = open \cup {i}

\* Fault: the configuration after a disabled one is passed over.
LoadAllSkips ==
    /\ stage = "mcp" /\ loading <= Len(mcp)
    /\ LoadOne(loading)
    /\ loading' = IF mcp[loading].enabled THEN loading + 1 ELSE loading + 2
    /\ UNCHANGED <<stage, providers, tools, mcp, queue, serving>>

\* LoadAll, one configuration.
LoadAll ==
    /\ stage = "mcp" /\ loading <= Len(mcp)
    /\ LoadOne(loading)
    /\ loading' = loading + 1
    /\ UNCHANGED <<stage, providers, tools, mcp, queue, serving>>

\* Fault: a server that is not connected ends the listing.
ListToolsStops ==
    /\ stage = "mcp" /\ loading > Len(mcp)
    /\ queue' = IF \E n \in DOMAIN servers : servers[n].client = 0 THEN {} ELSE DOMAIN servers
    /\ stage' = "register"
    /\ UNCHANGED <<providers, tools, mcp, loading, servers, open, serving>>

\* Manager.Tools: those of the servers that are connected.
ListTools ==
    /\ stage = "mcp" /\ loading > Len(mcp)
    /\ queue' = {n \in DOMAIN servers : servers[n].client # 0}
    /\ stage' = "register"
    /\ UNCHANGED <<providers, tools, mcp, loading, servers, open, serving>>

\* The tools that servers[n] adapts, under their prefixed names.
Adapted(n) ==
    {[name |-> PrefixedName[<<n, d>>], client |-> servers[n].client] : d \in servers[n].adapted}

\* Fault: Register does not look whether a name is taken.
RegisterAny(new) == tools \cup new

\* Register refuses a name that is taken.
Register(new) ==
    tools \cup {t \in new : \A u \in tools : u.name # t.name}

\* The tools of one server; the map gives the servers in any order.
RegisterServer(n) ==
    /\ stage = "register" /\ n \in queue
    /\ tools' = Register(Adapted(n))
    /\ queue' = queue \ {n}
    /\ UNCHANGED <<stage, providers, mcp, loading, servers, open, serving>>

\* The HTTP server and the long connection are started.
Serve ==
    /\ stage = "register" /\ queue = {}
    /\ stage' = "running"
    /\ UNCHANGED <<providers, tools, mcp, manager, open, serving>>

-----------------------------------------------------------------------------
(* Running.                                                                  *)

\* handleCallback; its last use of Redis is Save.
CallbackBegins(b) ==
    /\ stage = "running" /\ b \notin callbacks
    /\ callbacks' = callbacks \cup {b}
    /\ UNCHANGED <<stage, providers, tools, mcp, manager, open, calls, cancelled, timedOut>>

CallbackEnds(b) ==
    /\ b \in callbacks /\ stage # "exited"
    /\ callbacks' = callbacks \ {b}
    /\ UNCHANGED <<stage, providers, tools, mcp, manager, open, calls, cancelled, timedOut>>

\* A turn calls a tool of an MCP server; turns go on while the HTTP server drains.
CallBegins(t) ==
    /\ stage \in {"running", "draining"} /\ ~cancelled
    /\ t \in tools /\ t.client # 0
    /\ calls' = calls \cup {t}
    /\ UNCHANGED <<stage, providers, tools, mcp, manager, open, callbacks, cancelled, timedOut>>

CallEnds(t) ==
    /\ t \in calls /\ stage # "exited"
    /\ calls' = calls \ {t}
    /\ UNCHANGED <<stage, providers, tools, mcp, manager, open, callbacks, cancelled, timedOut>>

\* The provider of a session (llm.Registry.Resolve).
Resolve(alias) == IF alias \in providers THEN alias ELSE DefaultAlias

-----------------------------------------------------------------------------
(* Shutdown.                                                                 *)

\* A signal, or the end of the HTTP server or of the long connection.
Terminate ==
    /\ stage = "running"
    /\ stage' = "draining"
    /\ UNCHANGED <<providers, tools, mcp, manager, open, serving>>

\* Fault: Shutdown does not wait for requests.
ShutdownAtOnce ==
    /\ stage = "draining"
    /\ stage' = "cancel"
    /\ UNCHANGED <<providers, tools, mcp, manager, open, serving>>

\* oauthSrv.Shutdown waits for the requests being served, at most 10 seconds.
ShutdownServer ==
    /\ stage = "draining"
    /\ stage' = "cancel"
    /\ timedOut' = (callbacks # {})
    /\ UNCHANGED <<providers, tools, mcp, manager, open, callbacks, calls, cancelled>>

\* Fault: the root context is left to the deferred call.
CancelRootLater ==
    /\ stage = "cancel"
    /\ stage' = "close"
    /\ UNCHANGED <<providers, tools, mcp, manager, open, serving>>

CancelRoot ==
    /\ stage = "cancel"
    /\ cancelled' = TRUE
    /\ stage' = "close"
    /\ UNCHANGED <<providers, tools, mcp, manager, open, callbacks, calls, timedOut>>

\* Manager.Close: the clients of all servers in the map.
CloseManager ==
    /\ stage = "close"
    /\ open' = open \ {servers[n].client : n \in DOMAIN servers}
    /\ stage' = "closeRedis"
    /\ UNCHANGED <<providers, tools, mcp, manager, serving>>

\* rdb.Close; main returns.
CloseRedis ==
    /\ stage = "closeRedis"
    /\ stage' = "exited"
    /\ UNCHANGED <<providers, tools, mcp, manager, open, serving>>

Gone ==
    /\ stage \in {"failed", "exited"}
    /\ UNCHANGED vars

Main ==
    \/ LoadConfig \/ PingRedis \/ ReadKeys \/ BuildLLMRegistry \/ RegisterBuiltins
    \/ LoadAll \/ ListTools \/ (\E n \in queue : RegisterServer(n)) \/ Serve
    \/ ShutdownServer \/ CancelRoot \/ CloseManager \/ CloseRedis

Next ==
    \/ Main \/ Terminate \/ Gone
    \/ \E b \in Callbacks : CallbackBegins(b) \/ CallbackEnds(b)
    \/ \E t \in tools : CallBegins(t) \/ CallEnds(t)

Spec == Init /\ [][Next]_vars

-----------------------------------------------------------------------------
(* Properties.                                                               *)

Stages == {"config", "redis", "keys", "llm", "builtins", "mcp", "register", "running",
           "draining", "cancel", "close", "closeRedis", "exited", "failed"}

Serving == stage \in {"running", "draining"}

\* Every variable stays within its type.
TypeOK ==
    /\ stage \in Stages
    /\ providers \subseteq Aliases
    /\ \A t \in tools : t.client \in {0} \cup DOMAIN mcp
    /\ mcp \in Configs
    /\ loading \in 1 .. Len(mcp) + 1
    /\ DOMAIN servers \subseteq {mcp[i].name : i \in DOMAIN mcp}
    /\ queue \subseteq DOMAIN servers
    /\ open \subseteq DOMAIN mcp
    /\ callbacks \subseteq Callbacks /\ calls \subseteq tools
    /\ cancelled \in BOOLEAN /\ timedOut \in BOOLEAN

\* No other configuration has the name of the i-th.
NameIsUnique(i) == \A j \in DOMAIN mcp : mcp[j].name = mcp[i].name => j = i

\* "Any MCP server that is unavailable must not make the bot unavailable; other
\* tools and servers work as usual" (FR-062): in a bot that serves, every model a
\* session may name, even one whose provider was left out, resolves to a provider
\* that is there, every builtin is there under its own name, and so is every tool
\* of every server that connected, unless another server claims its prefixed name.
OneBadServerIsHarmless ==
    Serving =>
        /\ \A alias \in Aliases : Resolve(alias) \in providers
        /\ \A n \in Builtins : [name |-> n, client |-> 0] \in tools
        /\ \A i \in open : NameIsUnique(i) =>
              LET n == mcp[i].name
              IN /\ n \in DOMAIN servers /\ servers[n].client = i
                 /\ \A t \in Adapted(n) :
                       \/ t \in tools
                       \/ \E m \in DOMAIN servers \ {n} : \E u \in Adapted(m) : u.name = t.name

\* All configurations have been tried when the bot serves, and each name the model
\* can call stands for one tool, whose client is open: no tool of a server that
\* failed, or of one whose place another with its name has taken.
RegisteredToolsLive ==
    Serving =>
        /\ loading > Len(mcp)
        /\ DOMAIN servers = {mcp[i].name : i \in DOMAIN mcp}
        /\ \A t, u \in tools : t.name = u.name => t = u
        /\ \A t \in tools : t.client # 0 => t.client \in open

\* No MCP client is left open by a start that fails or by a shutdown, unless two
\* configurations have one name: the second takes the place of the first, whose
\* client nobody closes.
NoClientLeft ==
    stage \in {"failed", "exited"} =>
        \A i \in open : ~NameIsUnique(i)

\* Redis is closed under a callback only if it outlived the 10 seconds of Shutdown:
\* no authorization is lost because the bot restarts.
CallbacksDrained ==
    stage \in {"cancel", "close", "closeRedis", "exited"} /\ callbacks # {} => timedOut

\* A client is closed under a running call only after the call's context is done.
CancelledBeforeClosed ==
    \A t \in calls : t.client \in open \/ cancelled
=============================================================================
