--------------------------- MODULE BotStart_proofs ---------------------------
(* Theorems about BotStart, for any configuration, tools and callbacks.      *)
EXTENDS BotStart, TLAPS

-----------------------------------------------------------------------------
(* The inductive invariant.                                                  *)

Early == {"config", "redis", "keys", "llm", "builtins", "failed"}
Late == {"register", "running", "draining", "cancel", "close", "closeRedis", "exited"}
Closed == {"closeRedis", "exited"}

\* Variables the other parts do not speak of.
Simple ==
    /\ stage \in Early \cup {"mcp"} \cup Late
    /\ providers \subseteq Aliases
    /\ mcp \in Configs
    /\ loading \in 1 .. Len(mcp) + 1
    /\ open \subseteq DOMAIN mcp
    /\ callbacks \subseteq Callbacks
    /\ cancelled \in BOOLEAN /\ timedOut \in BOOLEAN

\* Nothing is there before its stage, and what a stage brings stays.
InStages ==
    /\ stage \in Early =>
          tools = {} /\ open = {} /\ DOMAIN servers = {} /\ queue = {} /\ loading = 1
    /\ stage = "mcp" => queue = {} /\ \A t \in tools : t.client = 0
    /\ stage \in Late => loading = Len(mcp) + 1
    /\ stage \in {"builtins", "mcp"} \cup Late => DefaultAlias \in providers
    /\ stage \in {"mcp"} \cup Late => \A n \in Builtins : [name |-> n, client |-> 0] \in tools
    /\ stage \in Late \ {"register"} => queue = {}

\* The servers are those of the configurations that were tried; a connected one
\* has the client of one of them.
Servers ==
    /\ DOMAIN servers = {mcp[i].name : i \in 1 .. loading - 1}
    /\ \A n \in DOMAIN servers :
          /\ servers[n].adapted \subseteq ToolDefs
          /\ servers[n].client # 0 =>
                servers[n].client \in 1 .. loading - 1 /\ mcp[servers[n].client].name = n
    /\ queue \subseteq {n \in DOMAIN servers : servers[n].client # 0}

\* The clients of servers are open until the manager is closed; each open client
\* is that of its server, unless another configuration took its place.
Clients ==
    /\ open \subseteq 1 .. loading - 1
    /\ stage \notin Closed =>
          \A n \in DOMAIN servers : servers[n].client # 0 => servers[n].client \in open
    /\ \A i \in open : NameIsUnique(i) => servers[mcp[i].name].client = i
    /\ stage \in Closed => \A i \in open : ~NameIsUnique(i)

\* A tool is a builtin or one that a connected server adapts; names are distinct;
\* a tool of a server whose turn has come is there unless its name was taken.
Origin(t) ==
    \/ t.client = 0 /\ t.name \in Builtins
    \/ \E n \in DOMAIN servers : servers[n].client # 0 /\ t \in Adapted(n)

Registry ==
    /\ \A t \in tools : Origin(t)
    /\ \A t, u \in tools : t.name = u.name => t = u
    /\ stage \in Late =>
          \A n \in DOMAIN servers : servers[n].client # 0 /\ n \notin queue =>
              \A t \in Adapted(n) : \E u \in tools : u.name = t.name

\* Calls and callbacks.
Traffic ==
    /\ \A t \in calls : t \in tools /\ t.client # 0
    /\ stage \in {"close"} \cup Closed => cancelled
    /\ stage \in {"cancel", "close"} \cup Closed /\ callbacks # {} => timedOut

BotInv == Simple /\ InStages /\ Servers /\ Clients /\ Registry /\ Traffic

\* The tools of a server have its client, and names it derives from its own.
LEMMA AdaptedAre ==
    ASSUME NEW n, NEW t \in Adapted(n)
    PROVE  /\ t.client = servers[n].client
           /\ t = [name |-> t.name, client |-> t.client]
           /\ \E d \in servers[n].adapted : t.name = PrefixedName[<<n, d>>]
<1>1. PICK d \in servers[n].adapted :
        t = [name |-> PrefixedName[<<n, d>>], client |-> servers[n].client]
  BY DEF Adapted
<1>2. t.name = PrefixedName[<<n, d>>] /\ t.client = servers[n].client
  BY <1>1
<1> QED
  BY <1>1, <1>2

LEMMA InitBot == Init => BotInv
<1> SUFFICES ASSUME Init PROVE BotInv
  OBVIOUS
<1>1. mcp \in Configs /\ Len(mcp) \in Nat /\ loading = 1
  BY BotParameters DEF Init
<1>2. Simple
  <2>1. loading \in 1 .. Len(mcp) + 1
    BY <1>1
  <2> QED
    BY <1>1, <2>1 DEF Init, Simple, Early
<1>3. DOMAIN servers = {}
  BY DEF Init
<1>4. InStages
  BY <1>3 DEF Init, InStages, Early, Late
<1>5. 1 .. loading - 1 = {}
  BY <1>1
<1>6. Servers /\ Clients
  <2>1. {mcp[i].name : i \in 1 .. loading - 1} = {}
    BY <1>5
  <2>2. queue = {} /\ open = {} /\ stage \notin Closed
    BY DEF Init, Closed
  <2> QED
    BY <1>3, <2>1, <2>2 DEF Servers, Clients
<1>7. Registry /\ Traffic
  BY <1>3 DEF Init, Registry, Traffic, Late, Closed
<1> QED
  BY <1>2, <1>4, <1>6, <1>7 DEF BotInv

-----------------------------------------------------------------------------
(* Steps that move the stage only.                                           *)

Rest == <<tools, mcp, loading, servers, queue, open, callbacks, calls, cancelled, timedOut>>

LEMMA RegistryStays ==
    ASSUME Registry, UNCHANGED <<tools, servers, queue>>, stage \in Late \/ stage' \notin Late
    PROVE  Registry'
<1>1. ASSUME NEW n PROVE Adapted(n)' = Adapted(n)
  BY DEF Adapted
<1>2. ASSUME NEW t PROVE Origin(t)' <=> Origin(t)
  BY <1>1 DEF Origin
<1>3. (\A t \in tools : Origin(t))'
  BY <1>2 DEF Registry
<1>4. (\A t, u \in tools : t.name = u.name => t = u)'
  BY DEF Registry
<1>5. (stage \in Late =>
          \A n \in DOMAIN servers : servers[n].client # 0 /\ n \notin queue =>
              \A t \in Adapted(n) : \E u \in tools : u.name = t.name)'
  BY <1>1 DEF Registry
<1> QED
  BY <1>3, <1>4, <1>5 DEF Registry

LEMMA RestStays ==
    ASSUME BotInv, UNCHANGED Rest, stage' \notin Closed
    PROVE  /\ Servers'
           /\ stage \notin Closed => Clients'
           /\ (stage \in Late \/ stage' \notin Late) => Registry'
<1>1. Servers'
  BY DEF BotInv, Rest, Servers
<1>2. stage \notin Closed => Clients'
  BY DEF BotInv, Rest, Clients, NameIsUnique
<1>3. (stage \in Late \/ stage' \notin Late) => Registry'
  BY RegistryStays DEF BotInv, Rest
<1> QED
  BY <1>1, <1>2, <1>3

LEMMA EarlyStep ==
    ASSUME BotInv, LoadConfig \/ PingRedis \/ ReadKeys \/ BuildLLMRegistry
    PROVE  BotInv'
<1>1. /\ stage \in {"config", "redis", "keys", "llm"}
      /\ stage' \in {"redis", "keys", "llm", "builtins", "failed"}
      /\ UNCHANGED Rest
      /\ providers' \subseteq Aliases
      /\ stage' = "builtins" => DefaultAlias \in providers'
  BY DEF LoadConfig, PingRedis, ReadKeys, BuildLLMRegistry, Rest, manager, serving,
         BotInv, Simple
<1>2. Simple'
  BY <1>1 DEF BotInv, Simple, Early, Late, Rest
<1>3. InStages'
  BY <1>1 DEF BotInv, InStages, Early, Late, Rest
<1>4. Servers' /\ Clients' /\ Registry'
  BY <1>1, RestStays DEF Closed, Late
<1>5. Traffic'
  BY <1>1 DEF BotInv, Traffic, Closed, Rest
<1> QED
  BY <1>2, <1>3, <1>4, <1>5 DEF BotInv

LEMMA LateStep ==
    ASSUME BotInv, Serve \/ Terminate \/ ShutdownServer \/ CancelRoot
    PROVE  BotInv'
<1>1. /\ stage \in {"register", "running", "draining", "cancel"}
      /\ stage' \in {"running", "draining", "cancel", "close"}
      /\ UNCHANGED <<providers, tools, mcp, loading, servers, queue, open, callbacks, calls>>
      /\ cancelled' \in BOOLEAN /\ timedOut' \in BOOLEAN
      /\ stage' # "register" => queue' = {}
      /\ stage' = "close" => cancelled'
      /\ stage' \in {"cancel", "close"} /\ callbacks' # {} => timedOut'
  BY DEF Serve, Terminate, ShutdownServer, CancelRoot, manager, serving, BotInv, Simple,
         InStages, Late, Traffic
<1>2. Simple'
  BY <1>1 DEF BotInv, Simple, Early, Late
<1>3. InStages'
  BY <1>1 DEF BotInv, InStages, Early, Late
<1>4. Servers'
  BY <1>1 DEF BotInv, Servers
<1>5. Clients'
  BY <1>1 DEF BotInv, Clients, NameIsUnique, Closed
<1>6. Registry'
  BY <1>1, RegistryStays DEF BotInv, Late
<1>7. Traffic'
  BY <1>1 DEF BotInv, Traffic, Closed
<1> QED
  BY <1>2, <1>3, <1>4, <1>5, <1>6, <1>7 DEF BotInv

-----------------------------------------------------------------------------
(* Building the registry of tools.                                           *)

LEMMA KeepsBuiltins ==
    ASSUME BotInv, RegisterBuiltins PROVE BotInv'
<1>1. /\ stage = "builtins" /\ stage' = "mcp"
      /\ tools' = {[name |-> n, client |-> 0] : n \in Builtins}
      /\ UNCHANGED <<providers, mcp, loading, servers, queue, open, callbacks, calls,
                     cancelled, timedOut>>
  BY DEF RegisterBuiltins, manager, serving
<1>2. tools = {} /\ open = {} /\ queue = {} /\ DOMAIN servers = {} /\ calls = {}
  BY <1>1 DEF BotInv, InStages, Early, Traffic
<1>3. Simple'
  BY <1>1 DEF BotInv, Simple
<1>4. InStages'
  BY <1>1, <1>2 DEF BotInv, InStages, Early, Late
<1>5. Servers' /\ Clients'
  BY <1>1, <1>2 DEF BotInv, Servers, Clients, Closed
<1>6. Registry'
  <2>1. \A t \in tools' : t.client = 0 /\ t.name \in Builtins /\ t = [name |-> t.name, client |-> 0]
    BY <1>1
  <2>2. (\A t \in tools : Origin(t))'
    BY <2>1 DEF Origin
  <2>3. \A t, u \in tools' : t.name = u.name => t = u
    BY <2>1
  <2> QED
    BY <1>1, <2>2, <2>3 DEF Registry, Late
<1>7. Traffic'
  BY <1>1, <1>2 DEF BotInv, Traffic, Closed
<1> QED
  BY <1>3, <1>4, <1>5, <1>6, <1>7 DEF BotInv

LEMMA KeepsLoadAll ==
    ASSUME BotInv, LoadAll PROVE BotInv'
<1> DEFINE new == mcp[loading].name
<1>1. /\ stage = "mcp" /\ stage' = "mcp" /\ loading <= Len(mcp) /\ loading' = loading + 1
      /\ UNCHANGED <<providers, tools, mcp, queue, callbacks, calls, cancelled, timedOut>>
      /\ LoadOne(loading)
  BY DEF LoadAll, serving
<1>2. PICK managed :
        /\ SetServer(new, managed)
        /\ managed.adapted \subseteq ToolDefs
        /\ \/ managed.client = 0 /\ open' = open
           \/ managed.client = loading /\ open' = open \cup {loading}
  <2>1. CASE SetServer(new, Failed) /\ UNCHANGED open
    BY <2>1 DEF Failed
  <2>2. CASE \E listed \in SUBSET ToolDefs :
                 SetServer(new, [client |-> loading, adapted |-> listed])
                 /\ open' = open \cup {loading}
    <3>1. PICK listed \in SUBSET ToolDefs :
            SetServer(new, [client |-> loading, adapted |-> listed])
            /\ open' = open \cup {loading}
      BY <2>2
    <3>2. /\ [client |-> loading, adapted |-> listed].adapted \subseteq ToolDefs
          /\ [client |-> loading, adapted |-> listed].client = loading
      OBVIOUS
    <3> QED
      BY <3>1, <3>2
  <2> QED
    BY <1>1, <2>1, <2>2 DEF LoadOne
<1>3. /\ DOMAIN servers' = DOMAIN servers \cup {new}
      /\ servers'[new] = managed
      /\ \A n \in DOMAIN servers : n # new => servers'[n] = servers[n]
  BY <1>2 DEF SetServer
<1>4. /\ Len(mcp) \in Nat /\ DOMAIN mcp = 1 .. Len(mcp) /\ loading \in 1 .. Len(mcp)
      /\ loading' - 1 = loading /\ 1 .. loading' - 1 = 1 .. loading - 1 \cup {loading}
      /\ loading \notin 1 .. loading - 1 /\ loading # 0
  BY <1>1, BotParameters DEF BotInv, Simple
<1>5. Simple'
  BY <1>1, <1>2, <1>4 DEF BotInv, Simple
<1>6. InStages'
  BY <1>1 DEF BotInv, InStages, Early, Late
<1>7. Servers'
  <2>1. DOMAIN servers' = {mcp[i].name : i \in 1 .. loading' - 1}
    BY <1>3, <1>4 DEF BotInv, Servers
  <2>2. \A n \in DOMAIN servers' :
          /\ servers'[n].adapted \subseteq ToolDefs
          /\ servers'[n].client # 0 =>
                servers'[n].client \in 1 .. loading' - 1 /\ mcp[servers'[n].client].name = n
    BY <1>2, <1>3, <1>4 DEF BotInv, Servers
  <2>3. queue' = {}
    BY <1>1 DEF BotInv, InStages
  <2> QED
    BY <1>1, <2>1, <2>2, <2>3 DEF Servers
<1>8. Clients'
  <2>1. open' \subseteq 1 .. loading' - 1
    BY <1>2, <1>4 DEF BotInv, Clients
  <2>2. \A n \in DOMAIN servers' : servers'[n].client # 0 => servers'[n].client \in open'
    BY <1>1, <1>2, <1>3 DEF BotInv, Clients, Closed
  <2>3. ASSUME NEW i \in open', NameIsUnique(i)
        PROVE  servers'[mcp[i].name].client = i
    <3>1. CASE i \in open
      <4>1. i \in 1 .. loading - 1 /\ servers[mcp[i].name].client = i
        BY <2>3, <3>1 DEF BotInv, Clients
      <4>2. mcp[i].name # new
        BY <2>3, <4>1, <1>4 DEF NameIsUnique
      <4>3. mcp[i].name \in DOMAIN servers
        BY <4>1 DEF BotInv, Servers
      <4> QED
        BY <4>1, <4>2, <4>3, <1>3
    <3>2. CASE i = loading /\ managed.client = loading
      BY <3>2, <1>3
    <3> QED
      BY <1>2, <2>3, <3>1, <3>2
  <2> QED
    BY <1>1, <2>1, <2>2, <2>3 DEF Clients, NameIsUnique, Closed
<1>9. Registry'
  <2>1. \A t \in tools : t.client = 0 /\ t.name \in Builtins
    <3>1. \A t \in tools : t.client = 0 /\ Origin(t)
      BY <1>1 DEF BotInv, InStages, Registry
    <3>2. ASSUME NEW t \in tools, NEW n \in DOMAIN servers, servers[n].client # 0, t \in Adapted(n)
          PROVE  FALSE
      BY <3>1, <3>2, AdaptedAre
    <3> QED
      BY <3>1, <3>2 DEF Origin
  <2>2. (\A t \in tools : Origin(t))'
    BY <1>1, <2>1 DEF Origin
  <2> QED
    BY <1>1, <2>2 DEF BotInv, Registry, Late
<1>10. Traffic'
  BY <1>1 DEF BotInv, Traffic, Closed
<1> QED
  BY <1>5, <1>6, <1>7, <1>8, <1>9, <1>10 DEF BotInv

LEMMA KeepsListTools ==
    ASSUME BotInv, ListTools PROVE BotInv'
<1>1. /\ stage = "mcp" /\ stage' = "register" /\ loading > Len(mcp)
      /\ queue' = {n \in DOMAIN servers : servers[n].client # 0}
      /\ UNCHANGED <<providers, tools, mcp, loading, servers, open, callbacks, calls,
                     cancelled, timedOut>>
  BY DEF ListTools, serving
<1>2. Simple'
  BY <1>1 DEF BotInv, Simple, Late
<1>3. loading = Len(mcp) + 1
  BY <1>1, BotParameters DEF BotInv, Simple
<1>4. InStages'
  BY <1>1, <1>3 DEF BotInv, InStages, Early, Late
<1>5. Servers'
  BY <1>1 DEF BotInv, Servers
<1>6. Clients'
  BY <1>1 DEF BotInv, Clients, NameIsUnique, Closed
<1>7. Registry'
  <2>1. ASSUME NEW n PROVE Adapted(n)' = Adapted(n)
    BY <1>1 DEF Adapted
  <2>2. (\A t \in tools : Origin(t))'
    BY <1>1, <2>1 DEF BotInv, Registry, Origin
  <2> QED
    BY <1>1, <2>2 DEF BotInv, Registry
<1>8. Traffic'
  BY <1>1 DEF BotInv, Traffic, Closed
<1> QED
  BY <1>2, <1>4, <1>5, <1>6, <1>7, <1>8 DEF BotInv

\* Register adds the tools whose name is free, and so takes every name.
LEMMA RegisterEffect ==
    ASSUME NEW new, NEW t \in Register(new)
    PROVE  t \in tools \/ (t \in new /\ \A u \in tools : u.name # t.name)
BY DEF Register

LEMMA KeepsRegisterServer ==
    ASSUME BotInv, NEW n \in queue, RegisterServer(n) PROVE BotInv'
<1>1. /\ stage = "register" /\ stage' = "register"
      /\ tools' = Register(Adapted(n)) /\ queue' = queue \ {n}
      /\ UNCHANGED <<providers, mcp, loading, servers, open, callbacks, calls, cancelled, timedOut>>
  BY DEF RegisterServer, serving
<1>2. n \in DOMAIN servers /\ servers[n].client # 0
  BY DEF BotInv, Servers
<1>3. tools \subseteq tools'
  BY <1>1 DEF Register
<1>4. Simple'
  BY <1>1 DEF BotInv, Simple
<1>5. InStages'
  BY <1>1, <1>3 DEF BotInv, InStages, Early, Late
<1>6. Servers'
  BY <1>1 DEF BotInv, Servers
<1>7. Clients'
  BY <1>1 DEF BotInv, Clients, NameIsUnique
<1>8. Registry'
  <2>1. ASSUME NEW m PROVE Adapted(m)' = Adapted(m)
    BY <1>1 DEF Adapted
  <2>2. (\A t \in tools : Origin(t))'
    <3>1. \A t \in tools' : Origin(t)
      BY <1>1, <1>2, RegisterEffect DEF BotInv, Registry, Origin
    <3> QED
      BY <1>1, <2>1, <3>1 DEF Origin
  <2>3. ASSUME NEW t \in tools', NEW u \in tools', t.name = u.name
        PROVE  t = u
    <3>1. CASE t \in tools /\ u \in tools
      BY <2>3, <3>1 DEF BotInv, Registry
    <3>2. CASE t \notin tools /\ u \notin tools
      <4>1. t \in Adapted(n) /\ u \in Adapted(n)
        BY <1>1, <3>2, RegisterEffect
      <4> QED
        BY <2>3, <4>1, AdaptedAre
    <3>3. CASE t \in tools /\ u \notin tools
      BY <1>1, <2>3, <3>3, RegisterEffect
    <3>4. CASE t \notin tools /\ u \in tools
      BY <1>1, <2>3, <3>4, RegisterEffect
    <3> QED
      BY <3>1, <3>2, <3>3, <3>4
  <2>4. ASSUME NEW m \in DOMAIN servers, servers[m].client # 0, m \notin queue',
               NEW t \in Adapted(m)
        PROVE  \E u \in tools' : u.name = t.name
    <3>1. CASE m = n
      BY <1>1, <2>4, <3>1 DEF Register
    <3>2. CASE m # n
      <4>1. \E u \in tools : u.name = t.name
        BY <1>1, <2>4, <3>2 DEF BotInv, Registry, Late
      <4> QED
        BY <4>1, <1>3
    <3> QED
      BY <3>1, <3>2
  <2> QED
    BY <1>1, <2>1, <2>2, <2>3, <2>4 DEF Registry
<1>9. Traffic'
  BY <1>1, <1>3 DEF BotInv, Traffic, Closed
<1> QED
  BY <1>4, <1>5, <1>6, <1>7, <1>8, <1>9 DEF BotInv

-----------------------------------------------------------------------------
(* Traffic and shutdown.                                                     *)

LEMMA KeepsTraffic ==
    ASSUME BotInv,
           \/ \E b \in Callbacks : CallbackBegins(b) \/ CallbackEnds(b)
           \/ \E t \in tools : CallBegins(t) \/ CallEnds(t)
    PROVE  BotInv'
<1>1. /\ UNCHANGED <<stage, providers, tools, mcp, loading, servers, queue, open, cancelled, timedOut>>
      /\ callbacks' \subseteq Callbacks
      /\ stage # "running" => callbacks' \subseteq callbacks
      /\ \A t \in calls' : t \in tools /\ t.client # 0
  BY DEF CallbackBegins, CallbackEnds, CallBegins, CallEnds, manager, BotInv, Simple, Traffic
<1>2. Simple' /\ InStages'
  BY <1>1 DEF BotInv, Simple, InStages
<1>3. Servers'
  BY <1>1 DEF BotInv, Servers
<1>4. Clients'
  BY <1>1 DEF BotInv, Clients, NameIsUnique
<1>5. Registry'
  BY <1>1, RegistryStays DEF BotInv
<1>6. Traffic'
  BY <1>1 DEF BotInv, Traffic, Closed
<1> QED
  BY <1>2, <1>3, <1>4, <1>5, <1>6 DEF BotInv

LEMMA KeepsClose ==
    ASSUME BotInv, CloseManager \/ CloseRedis PROVE BotInv'
<1>1. /\ stage \in {"close", "closeRedis"} /\ stage' \in Closed
      /\ UNCHANGED <<providers, tools, mcp, loading, servers, queue, callbacks, calls,
                     cancelled, timedOut>>
      /\ \/ stage = "close" /\ open' = open \ {servers[n].client : n \in DOMAIN servers}
         \/ stage = "closeRedis" /\ open' = open
  BY DEF CloseManager, CloseRedis, Closed, manager, serving
<1>2. Simple' /\ InStages'
  BY <1>1 DEF BotInv, Simple, InStages, Closed, Early, Late
<1>3. Servers'
  BY <1>1 DEF BotInv, Servers
<1>4. Clients'
  <2>1. \A i \in open' : ~NameIsUnique(i)
    <3>1. CASE stage = "close"
      <4> SUFFICES ASSUME NEW i \in open', NameIsUnique(i) PROVE FALSE
        OBVIOUS
      <4>1. i \in open /\ i \in 1 .. loading - 1 /\ servers[mcp[i].name].client = i
        BY <1>1, <3>1 DEF BotInv, Clients
      <4>2. mcp[i].name \in DOMAIN servers
        BY <4>1 DEF BotInv, Servers
      <4> QED
        BY <1>1, <3>1, <4>1, <4>2
    <3>2. CASE stage = "closeRedis"
      BY <1>1, <3>2 DEF BotInv, Clients, Closed
    <3> QED
      BY <1>1, <3>1, <3>2
  <2>2. open' \subseteq 1 .. loading - 1
    BY <1>1 DEF BotInv, Clients
  <2> QED
    BY <1>1, <2>1, <2>2 DEF Clients, NameIsUnique, Closed
<1>5. Registry'
  BY <1>1, RegistryStays DEF BotInv, Late
<1>6. Traffic'
  BY <1>1 DEF BotInv, Traffic, Closed
<1> QED
  BY <1>2, <1>3, <1>4, <1>5, <1>6 DEF BotInv

LEMMA BotStep == BotInv /\ [Next]_vars => BotInv'
<1> SUFFICES ASSUME BotInv, [Next]_vars PROVE BotInv'
  OBVIOUS
<1>1. CASE Main
  BY <1>1, EarlyStep, LateStep, KeepsBuiltins, KeepsLoadAll, KeepsListTools,
     KeepsRegisterServer, KeepsClose DEF Main
<1>2. CASE Terminate
  BY <1>2, LateStep
<1>3. CASE Gone \/ UNCHANGED vars
  <2>1. UNCHANGED <<stage, providers>> /\ UNCHANGED Rest
    BY <1>3 DEF Gone, vars, Rest
  <2>2. Registry'
    BY <2>1, RegistryStays DEF BotInv, Rest
  <2>3. Simple' /\ InStages'
    BY <2>1 DEF Rest, BotInv, Simple, InStages
  <2>4. Servers' /\ Traffic'
    BY <2>1 DEF Rest, BotInv, Servers, Traffic
  <2>5. Clients'
    BY <2>1 DEF Rest, BotInv, Clients, NameIsUnique
  <2> QED
    BY <2>2, <2>3, <2>4, <2>5 DEF BotInv
<1> QED
  BY <1>1, <1>2, <1>3, KeepsTraffic DEF Next

LEMMA BotInvariant == Spec => []BotInv
BY InitBot, BotStep, PTL DEF Spec

-----------------------------------------------------------------------------
(* What follows.                                                             *)

\* Where the client of a tool comes from.
LEMMA ClientOfTool ==
    ASSUME BotInv, NEW t \in tools, t.client # 0, stage \in Late
    PROVE  \E n \in DOMAIN servers : servers[n].client # 0 /\ t \in Adapted(n) /\ t.client = servers[n].client
BY AdaptedAre DEF BotInv, Registry, Origin

\* The type invariant.
THEOREM TypeCorrect == Spec => []TypeOK
<1>1. BotInv => TypeOK
  <2> SUFFICES ASSUME BotInv PROVE TypeOK
    OBVIOUS
  <2>1. stage \in Stages
    BY DEF BotInv, Simple, Early, Late, Stages
  <2>2. 1 .. loading - 1 \subseteq DOMAIN mcp
    BY BotParameters DEF BotInv, Simple
  <2>3. \A t \in tools : t.client \in {0} \cup DOMAIN mcp
    BY <2>2, AdaptedAre DEF BotInv, Registry, Origin, Servers
  <2>4. DOMAIN servers \subseteq {mcp[i].name : i \in DOMAIN mcp} /\ queue \subseteq DOMAIN servers
    BY <2>2 DEF BotInv, Servers
  <2> QED
    BY <2>1, <2>3, <2>4 DEF BotInv, Simple, Traffic, TypeOK
<1> QED
  BY <1>1, BotInvariant, PTL

\* In a bot that serves every server has been tried, every name is one tool, and
\* every tool's client is open.
THEOREM ToolsAreLive == Spec => []RegisteredToolsLive
<1>1. BotInv => RegisteredToolsLive
  <2> SUFFICES ASSUME BotInv, Serving PROVE
        /\ loading > Len(mcp)
        /\ DOMAIN servers = {mcp[i].name : i \in DOMAIN mcp}
        /\ \A t, u \in tools : t.name = u.name => t = u
        /\ \A t \in tools : t.client # 0 => t.client \in open
    BY DEF RegisteredToolsLive
  <2>1. stage \in Late /\ stage \notin Closed /\ loading = Len(mcp) + 1
    BY DEF Serving, Late, Closed, BotInv, InStages
  <2>2. loading > Len(mcp) /\ DOMAIN mcp = 1 .. loading - 1
    BY <2>1, BotParameters DEF BotInv, Simple
  <2>3. \A t \in tools : t.client # 0 => t.client \in open
    BY <2>1, ClientOfTool DEF BotInv, Clients
  <2> QED
    BY <2>2, <2>3 DEF BotInv, Servers, Registry
<1> QED
  BY <1>1, BotInvariant, PTL

\* Every provider and builtin is there, and every tool of every server that
\* connected, whatever the others did.
THEOREM BadServersAreHarmless == Spec => []OneBadServerIsHarmless
<1>1. BotInv => OneBadServerIsHarmless
  <2> SUFFICES ASSUME BotInv, Serving PROVE OneBadServerIsHarmless
    BY DEF OneBadServerIsHarmless
  <2>1. stage \in Late /\ queue = {}
    BY DEF Serving, Late, BotInv, InStages
  <2>2. \A alias \in Aliases : Resolve(alias) \in providers
    BY <2>1 DEF Resolve, BotInv, InStages
  <2>3. \A n \in Builtins : [name |-> n, client |-> 0] \in tools
    BY <2>1 DEF BotInv, InStages
  <2>4. ASSUME NEW i \in open, NameIsUnique(i), NEW n, n = mcp[i].name
        PROVE  /\ n \in DOMAIN servers /\ servers[n].client = i
               /\ \A t \in Adapted(n) :
                     \/ t \in tools
                     \/ \E m \in DOMAIN servers \ {n} : \E u \in Adapted(m) : u.name = t.name
    <3>1. i \in 1 .. loading - 1 /\ servers[n].client = i
      BY <2>4 DEF BotInv, Clients
    <3>2. n \in DOMAIN servers /\ i # 0 /\ i \in DOMAIN mcp
      BY <2>4, <3>1 DEF BotInv, Servers, Simple
    <3>3. ASSUME NEW t \in Adapted(n), t \notin tools
          PROVE  \E m \in DOMAIN servers \ {n} : \E u \in Adapted(m) : u.name = t.name
      <4>1. PICK u \in tools : u.name = t.name
        BY <2>1, <3>1, <3>2 DEF BotInv, Registry
      <4>2. t.name \notin Builtins
        <5>1. PICK d \in servers[n].adapted : t.name = PrefixedName[<<n, d>>]
          BY AdaptedAre
        <5>2. d \in ToolDefs /\ mcp \in Configs
          BY <3>2, <5>1 DEF BotInv, Servers, Simple
        <5> QED
          BY <2>4, <3>2, <5>1, <5>2, BotParameters
      <4>3. PICK m \in DOMAIN servers : u \in Adapted(m)
        BY <4>1, <4>2 DEF BotInv, Registry, Origin
      <4>4. m # n
        BY <3>3, <4>1, <4>3, AdaptedAre
      <4> QED
        BY <4>1, <4>3, <4>4
    <3> QED
      BY <3>1, <3>2, <3>3
  <2> QED
    BY <2>2, <2>3, <2>4 DEF OneBadServerIsHarmless
<1> QED
  BY <1>1, BotInvariant, PTL

\* No start and no shutdown leaves a client open, unless two servers share a name.
THEOREM ClientsAreClosed == Spec => []NoClientLeft
<1>1. BotInv => NoClientLeft
  BY DEF BotInv, InStages, Clients, Early, Closed, NoClientLeft
<1> QED
  BY <1>1, BotInvariant, PTL

\* Redis is closed under a callback only if it outlived the time Shutdown waits.
THEOREM CallbacksAreDrained == Spec => []CallbacksDrained
<1>1. BotInv => CallbacksDrained
  BY DEF BotInv, Traffic, Closed, CallbacksDrained
<1> QED
  BY <1>1, BotInvariant, PTL

\* A client is closed under a running call only when the call's context is done.
THEOREM CancelledFirst == Spec => []CancelledBeforeClosed
<1>1. BotInv => CancelledBeforeClosed
  <2> SUFFICES ASSUME BotInv, NEW t \in calls, ~cancelled PROVE t.client \in open
    BY DEF CancelledBeforeClosed
  <2>1. t \in tools /\ t.client # 0 /\ stage \notin Closed
    BY DEF BotInv, Traffic
  <2>2. stage \in Late
    BY <2>1 DEF BotInv, Simple, InStages
  <2> QED
    BY <2>1, <2>2, ClientOfTool DEF BotInv, Clients
<1> QED
  BY <1>1, BotInvariant, PTL
=============================================================================
