------------------------------ MODULE RemoteLink ------------------------------
(* The remote control of one session: a phone talks through the relay to the
   agent process of a computer.

   Three parties are composed. The phone has several connections (Peer), each a
   websocket to the relay. The relay keeps the agent's current connection
   (`registry`, agents[user/device]), the phone's authenticated connections and
   one route for each request in flight. The agent has one connection at a time
   (Conn, fresh for every dial), a reader goroutine on each that handles frames
   one by one, and one goroutine for each chat, regeneration or plan request.

   `cancel` and `mu` are the two fields of the session's runtime: the cancel
   function of the run in progress, and the lock that plans and regenerations
   hold for the whole run and every setting handler takes on the reader.

   Left out: several sessions and devices, the 30-minute life of a route, frames
   that carry no decision (deltas, heartbeat acks, pushed events), and what a run
   does to its session (ParentTurns, PlanExecution). *)
EXTENDS Naturals, Sequences, FiniteSets

CONSTANTS
  Req,       \* requests of the phone, each sent once
  Mixes,     \* the assignments of a kind to each request that are considered
  Asking,    \* the requests whose run uses a tool that needs permission
  Peer,      \* connections of the phone
  Conn,      \* connections of the agent
  None,      \* no connection, no request
  MaxFaults  \* transports lost (phone and agent) and failed authorization lookups

ASSUME MixesAssumption == Mixes \subseteq [Req -> {"user", "plan", "set", "pause"}]
ASSUME NameAssumption == None \notin Req \cup Peer \cup Conn /\ Peer \cap Conn = {}

VARIABLES
  registry,    \* relay: the agent's current connection
  routes,      \* relay: [Req -> NoRoute, or the route's connection]
  connections, \* relay: the phone's registered connections
  link,        \* [Peer \cup Conn -> "new", "up", "down" or "gone" (its handler returned)]
  current,     \* agent: the connection of runConnection
  down,        \* [Conn -> frames the relay has written to it]
  up,          \* [Conn -> frames the agent has written to it]
  blocked,     \* [Conn -> the request its reader handles and cannot lock `mu` for]
  at,          \* agent: [Req -> where the request stands]
  via,         \* agent: [Req -> the connection it was read from]
  cancel,      \* sessionRuntime.cancel: the run it belongs to
  mu,          \* sessionRuntime.mu: the run that holds it
  stopped,     \* runs whose context is canceled
  kind,        \* phone: [Req -> what it asks for]
  sent,        \* phone: requests it has sent
  asks,        \* [Req -> "no", "asked", "shown", "answered"]: the permission of a run
  losses, revokes  \* faults so far

relayVars == <<registry, routes, connections>>
agentVars == <<blocked, at, via, cancel, mu, stopped>>
fixed     == <<kind, losses, revokes>>
vars == <<relayVars, link, current, down, up, agentVars, sent, asks, fixed>>

NoRoute == "no route"
ASSUME RouteAssumption == NoRoute \notin Peer \cup {None}

Busy    == {"running", "asking", "replied"}
Place   == {"none", "start", "lock", "reader", "done"} \cup Busy

Online   == [type |-> "online", req |-> None]
Ask(r)   == [type |-> "ask", req |-> r]
Final(r) == [type |-> "final", req |-> r]
Request(r) == [type |-> "request", req |-> r]
Grant(r) == [type |-> "grant", req |-> r]

Prefixes(s) == {SubSeq(s, 1, n) : n \in 0 .. Len(s)}

Init ==
  /\ registry = None /\ current = None /\ cancel = None /\ mu = None
  /\ routes = [r \in Req |-> NoRoute]
  /\ connections = {} /\ stopped = {} /\ sent = {} /\ kind \in Mixes
  /\ link = [c \in Peer \cup Conn |-> "new"]
  /\ down = [c \in Conn |-> <<>>] /\ up = [c \in Conn |-> <<>>]
  /\ blocked = [c \in Conn |-> None]
  /\ at = [r \in Req |-> "none"] /\ via = [r \in Req |-> None]
  /\ asks = [r \in Req |-> "no"]
  /\ losses = 0 /\ revokes = 0

-----------------------------------------------------------------------------
(* The phone and the relay's handler of its connections. *)

\* The phone opens a websocket and announces itself by a heartbeat, which registers
\* the connection. Connections are taken in one order: they only differ by name.
PhoneConnects(p) ==
  /\ link[p] = "new" /\ p = CHOOSE q \in Peer : link[q] = "new"
  /\ link' = [link EXCEPT ![p] = "up"]
  /\ connections' = connections \cup {p}
  /\ UNCHANGED <<registry, routes, current, down, up, agentVars, sent, asks, fixed>>

\* forwardToAgent: write to the registered connection, whose transport may be
\* gone: then the write fails, or the frame is lost with the connection.
ForwardToAgent(m) ==
  IF registry # None /\ link[registry] = "up"
    THEN down' = [down EXCEPT ![registry] = Append(@, m)]
    ELSE UNCHANGED down

\* A request opens its route before it is forwarded. If the agent cannot be
\* reached the phone is told so and the route stays.
PhoneSends(p, r) ==
  /\ link[p] = "up" /\ r \notin sent
  /\ sent' = sent \cup {r}
  /\ routes' = [routes EXCEPT ![r] = p]
  /\ connections' = connections \cup {p}
  /\ ForwardToAgent(Request(r))
  /\ UNCHANGED <<registry, link, current, up, agentVars, asks, fixed>>

\* permission_result: it belongs to the request that asked, so it may only move
\* that request's route to the connection it came on.
PhoneAnswers(p, r) ==
  /\ link[p] = "up" /\ asks[r] = "shown"
  /\ asks' = [asks EXCEPT ![r] = "answered"]
  /\ connections' = connections \cup {p}
  /\ IF routes[r] = NoRoute
       THEN UNCHANGED <<routes, down>>
       ELSE routes' = [routes EXCEPT ![r] = p] /\ ForwardToAgent(Grant(r))
  /\ UNCHANGED <<registry, link, current, up, agentVars, sent, fixed>>

\* Variant with a bug: routes are dropped with their connection.
DetachedForgotten(p) == [r \in Req |-> IF routes[r] = p THEN NoRoute ELSE routes[r]]

\* unregisterClientPeer: routes outlive the connections they were opened on.
Detached(p) == [r \in Req |-> IF routes[r] = p THEN None ELSE routes[r]]

\* The relay's read from the phone fails: its handler returns.
PhoneEnds(p) ==
  /\ link[p] = "down"
  /\ link' = [link EXCEPT ![p] = "gone"]
  /\ routes' = Detached(p)
  /\ connections' = connections \ {p}
  /\ UNCHANGED <<registry, current, down, up, agentVars, sent, asks, fixed>>

PeerLost(p) ==
  /\ link[p] = "up" /\ losses + revokes < MaxFaults
  /\ link' = [link EXCEPT ![p] = "down"]
  /\ losses' = losses + 1
  /\ UNCHANGED <<relayVars, current, down, up, agentVars, sent, asks, kind, revokes>>

-----------------------------------------------------------------------------
(* The relay's handler of the agent's connections. *)

\* The connections clientPeerForMessage may pick for a route that is at p.
Targets(p, registered) == IF p \in registered THEN {p} ELSE registered

\* What the phone sees of a frame that reaches it on a live connection.
Shown(m) ==
  IF m.type = "ask" /\ asks[m.req] = "asked"
    THEN asks' = [asks EXCEPT ![m.req] = "shown"] ELSE UNCHANGED asks

\* The write to p returns without an error, though a transport that is down loses
\* the frame. An answer releases its route.
Written(p, m, table) ==
  /\ routes' = [table EXCEPT ![m.req] = IF m.type = "final" THEN NoRoute ELSE p]
  /\ IF link[p] = "up" THEN Shown(m) ELSE UNCHANGED asks

Refused(table) == routes' = table /\ UNCHANGED asks

\* The write to p fails: p is retired, and one other connection is tried.
Retried(p, m) ==
  LET rest == connections \ {p} IN
  /\ link[p] # "up"
  /\ connections' = rest
  /\ IF rest = {} THEN Refused(Detached(p))
     ELSE \E q \in rest :
            \/ Written(q, m, Detached(p))
            \/ link[q] # "up" /\ Refused([Detached(p) EXCEPT ![m.req] = q])

\* forwardToClient: to the route's connection, or to another one of the phone.
ForwardToClient(m) ==
  IF routes[m.req] = NoRoute \/ connections = {}
    THEN /\ Refused([routes EXCEPT ![m.req] = IF @ = NoRoute THEN @ ELSE None])
         /\ UNCHANGED connections
    ELSE \E p \in Targets(routes[m.req], connections) :
           \/ Written(p, m, routes) /\ UNCHANGED connections
           \/ Retried(p, m)

\* registerAgent: the newest registration wins and the connection it supersedes
\* is closed.
Register(c) ==
  /\ registry' = c
  /\ link' = IF registry \in {None, c} THEN link ELSE [link EXCEPT ![registry] = "down"]
  /\ up' = [up EXCEPT ![c] = Tail(@)]
  /\ UNCHANGED <<routes, connections, asks>>

\* One frame of an agent connection. A superseded connection only registers.
RelayReads(c) ==
  /\ link[c] \in {"up", "down"} /\ up[c] # <<>>
  /\ LET m == Head(up[c]) IN
       IF m.type = "online" THEN Register(c)
       ELSE /\ up' = [up EXCEPT ![c] = Tail(@)]
            /\ IF registry # c
                 THEN UNCHANGED <<routes, connections, asks>>
                 ELSE ForwardToClient(m)
            /\ UNCHANGED <<registry, link>>
  /\ UNCHANGED <<current, down, agentVars, sent, fixed>>

\* The lookup of the phone's authorization fails while a frame is forwarded, for
\* whatever reason: every route and connection of the phone is dropped.
AuthorizationFails(c) ==
  /\ link[c] \in {"up", "down"} /\ up[c] # <<>> /\ registry = c
  /\ Head(up[c]).type # "online" /\ routes[Head(up[c]).req] # NoRoute
  /\ connections # {} /\ losses + revokes < MaxFaults
  /\ up' = [up EXCEPT ![c] = Tail(@)]
  /\ routes' = [r \in Req |-> NoRoute]
  /\ link' = [p \in Peer \cup Conn |-> IF p \in connections THEN "down" ELSE link[p]]
  /\ connections' = {}
  /\ revokes' = revokes + 1
  /\ UNCHANGED <<registry, current, down, agentVars, sent, asks, kind, losses>>

\* Variant with a bug: the handler withdraws whatever connection is registered.
UnregisterAny(c) == registry' = None

\* unregisterAgent: a handler that returns only withdraws its own connection.
Unregister(c) == registry' = IF registry = c THEN None ELSE registry

\* The relay's read from an agent connection fails: its handler returns.
AgentHandlerEnds(c) ==
  /\ link[c] = "down" /\ up[c] = <<>>
  /\ link' = [link EXCEPT ![c] = "gone"]
  /\ Unregister(c)
  /\ UNCHANGED <<routes, connections, current, down, up, agentVars, sent, asks, fixed>>

\* The transport is lost, with the frames that had not yet arrived.
ConnLost(c) ==
  /\ link[c] = "up" /\ losses + revokes < MaxFaults
  /\ link' = [link EXCEPT ![c] = "down"]
  /\ losses' = losses + 1
  /\ \E s \in Prefixes(up[c]) : up' = [up EXCEPT ![c] = s]
  /\ \E s \in Prefixes(down[c]) : down' = [down EXCEPT ![c] = s]
  /\ UNCHANGED <<relayVars, current, agentVars, sent, asks, kind, revokes>>

-----------------------------------------------------------------------------
(* The agent. *)

\* Run dials a fresh connection and announces itself on it.
AgentConnects(c) ==
  /\ current = None /\ link[c] = "new" /\ c = CHOOSE d \in Conn : link[d] = "new"
  /\ current' = c
  /\ link' = [link EXCEPT ![c] = "up"]
  /\ up' = [up EXCEPT ![c] = <<Online>>]
  /\ UNCHANGED <<relayVars, down, agentVars, sent, asks, fixed>>

\* runConnection returns on a failed read or heartbeat. The runs go on, and so
\* does a reader that is blocked.
AgentDrops(c) ==
  /\ current = c /\ link[c] # "up"
  /\ current' = None
  /\ down' = [down EXCEPT ![c] = <<>>]
  /\ UNCHANGED <<relayVars, link, up, agentVars, sent, asks, fixed>>

\* A write of the agent on the connection a request came from; it fails, and
\* the frame is gone, once that connection is.
Write(c, m) == IF link[c] = "up" THEN up' = [up EXCEPT ![c] = Append(@, m)] ELSE UNCHANGED up

\* A setting is handled on the reader, under the runtime's lock.
ReadSetting(c, r) ==
  IF mu = None
    THEN /\ at' = [at EXCEPT ![r] = "done"]
         /\ Write(c, Final(r))
         /\ UNCHANGED blocked
    ELSE /\ at' = [at EXCEPT ![r] = "reader"]
         /\ blocked' = [blocked EXCEPT ![c] = r]
         /\ UNCHANGED up

\* A pause is handled on the reader too, but needs no lock: it cancels the run
\* in progress and confirms.
ReadPause(c, r) ==
  /\ stopped' = IF cancel = None THEN stopped ELSE stopped \cup {cancel}
  /\ at' = [at EXCEPT ![r] = "done"]
  /\ Write(c, Final(r))

\* The reader takes one frame: chats and plans get a goroutine of their own,
\* everything else is handled before the next frame is read.
Read(c) ==
  /\ current = c /\ down[c] # <<>> /\ blocked[c] = None
  /\ down' = [down EXCEPT ![c] = Tail(@)]
  /\ LET m == Head(down[c])
         r == m.req
     IN IF m.type = "grant"
          THEN /\ at' = [at EXCEPT ![r] = IF @ = "asking" THEN "running" ELSE @]
               /\ UNCHANGED <<via, blocked, stopped, up>>
          ELSE /\ via' = [via EXCEPT ![r] = c]
               /\ \/ /\ kind[r] = "user"
                     /\ at' = [at EXCEPT ![r] = "start"]
                     /\ UNCHANGED <<blocked, stopped, up>>
                  \/ /\ kind[r] = "plan"
                     /\ at' = [at EXCEPT ![r] = "lock"]
                     /\ UNCHANGED <<blocked, stopped, up>>
                  \/ kind[r] = "set" /\ ReadSetting(c, r) /\ UNCHANGED stopped
                  \/ kind[r] = "pause" /\ ReadPause(c, r) /\ UNCHANGED blocked
  /\ UNCHANGED <<relayVars, link, current, cancel, mu, sent, asks, fixed>>

\* The lock is free: the blocked reader goes on.
Unblock(c) ==
  /\ blocked[c] # None /\ mu = None
  /\ at' = [at EXCEPT ![blocked[c]] = "done"]
  /\ Write(c, Final(blocked[c]))
  /\ blocked' = [blocked EXCEPT ![c] = None]
  /\ UNCHANGED <<relayVars, link, current, down, via, cancel, mu, stopped, sent, asks, fixed>>

\* Variant with a bug: the deferred finish is installed before the run is admitted.
StartUserFinished(r) ==
  /\ at[r] = "start"
  /\ IF cancel = None
       THEN /\ cancel' = r /\ at' = [at EXCEPT ![r] = "running"]
            /\ UNCHANGED up
       ELSE /\ at' = [at EXCEPT ![r] = "done"] /\ Write(via[r], Final(r))
            /\ cancel' = None
  /\ UNCHANGED <<relayVars, link, current, down, blocked, via, mu, stopped, sent, asks, fixed>>

\* processUserMessage: start admits one run; a message that finds one in
\* progress is queued for it and confirmed.
StartUser(r) ==
  /\ at[r] = "start"
  /\ IF cancel = None
       THEN /\ cancel' = r /\ at' = [at EXCEPT ![r] = "running"]
            /\ UNCHANGED up
       ELSE /\ at' = [at EXCEPT ![r] = "done"] /\ Write(via[r], Final(r))
            /\ UNCHANGED cancel
  /\ UNCHANGED <<relayVars, link, current, down, blocked, via, mu, stopped, sent, asks, fixed>>

\* Variant with a bug: the refusal returns without releasing the lock.
StartPlanLocked(r) ==
  /\ at[r] = "lock" /\ mu = None
  /\ mu' = r
  /\ IF cancel = None
       THEN /\ cancel' = r /\ at' = [at EXCEPT ![r] = "running"]
            /\ UNCHANGED up
       ELSE /\ at' = [at EXCEPT ![r] = "done"] /\ Write(via[r], Final(r))
            /\ UNCHANGED cancel
  /\ UNCHANGED <<relayVars, link, current, down, blocked, via, stopped, sent, asks, fixed>>

\* processPlanExecuteMessage and processRegenerateMessage: the lock is held until
\* the run has ended; a session that is busy with a chat refuses.
StartPlan(r) ==
  /\ at[r] = "lock" /\ mu = None
  /\ IF cancel = None
       THEN /\ cancel' = r /\ mu' = r /\ at' = [at EXCEPT ![r] = "running"]
            /\ UNCHANGED up
       ELSE /\ at' = [at EXCEPT ![r] = "done"] /\ Write(via[r], Final(r))
            /\ UNCHANGED <<cancel, mu>>
  /\ UNCHANGED <<relayVars, link, current, down, blocked, via, stopped, sent, asks, fixed>>

\* askToolPermission: the run waits for the phone's answer. An ask that cannot be
\* written is a refusal.
AskPermission(r) ==
  /\ r \in Asking /\ at[r] = "running" /\ asks[r] = "no" /\ r \notin stopped
  /\ asks' = [asks EXCEPT ![r] = "asked"]
  /\ at' = [at EXCEPT ![r] = IF link[via[r]] = "up" THEN "asking" ELSE @]
  /\ Write(via[r], Ask(r))
  /\ UNCHANGED <<relayVars, link, current, down, blocked, via, cancel, mu, stopped, sent, fixed>>

\* The wait for the permission ends by its timeout, or by a pause.
AskEnds(r) ==
  /\ at[r] = "asking"
  /\ at' = [at EXCEPT ![r] = "running"]
  /\ UNCHANGED <<relayVars, link, current, down, up, blocked, via, cancel, mu, stopped, sent,
                 asks, fixed>>

\* The run has ended (answered, failed or canceled) and its last frame is written.
RunEnds(r) ==
  /\ at[r] = "running"
  /\ at' = [at EXCEPT ![r] = "replied"]
  /\ Write(via[r], Final(r))
  /\ UNCHANGED <<relayVars, link, current, down, blocked, via, cancel, mu, stopped, sent, asks, fixed>>

\* The deferred finish clears `cancel`, whosever it is, and the lock is released.
Finish(r) ==
  /\ at[r] = "replied"
  /\ at' = [at EXCEPT ![r] = "done"]
  /\ cancel' = None
  /\ mu' = IF mu = r THEN None ELSE mu
  /\ stopped' = stopped \ {r}
  /\ UNCHANGED <<relayVars, link, current, down, up, blocked, via, sent, asks, fixed>>

-----------------------------------------------------------------------------
Agent == \/ \E c \in Conn : Unblock(c)
         \/ \E r \in Req : \/ StartUser(r) \/ StartPlan(r) \/ AskEnds(r)
                           \/ RunEnds(r) \/ Finish(r)

Next ==
  \/ \E p \in Peer : PhoneConnects(p) \/ PhoneEnds(p) \/ PeerLost(p)
  \/ \E p \in Peer, r \in Req : PhoneSends(p, r) \/ PhoneAnswers(p, r)
  \/ \E c \in Conn : \/ RelayReads(c) \/ AuthorizationFails(c) \/ AgentHandlerEnds(c)
                     \/ ConnLost(c) \/ AgentConnects(c) \/ AgentDrops(c) \/ Read(c)
  \/ \E r \in Req : AskPermission(r)
  \/ Agent

Spec == Init /\ [][Next]_vars /\ WF_vars(Agent)

-----------------------------------------------------------------------------
DownFrame == [type : {"request", "grant"}, req : Req]
UpFrame   == [type : {"ask", "final"}, req : Req] \cup {Online}

\* Every variable has its type.
TypeOK ==
  /\ registry \in Conn \cup {None} /\ current \in Conn \cup {None}
  /\ routes \in [Req -> Peer \cup {None, NoRoute}]
  /\ connections \subseteq Peer
  /\ link \in [Peer \cup Conn -> {"new", "up", "down", "gone"}]
  /\ down \in [Conn -> Seq(DownFrame)]
  /\ up \in [Conn -> Seq(UpFrame)]
  /\ blocked \in [Conn -> Req \cup {None}]
  /\ at \in [Req -> Place] /\ via \in [Req -> Conn \cup {None}]
  /\ cancel \in Req \cup {None} /\ mu \in Req \cup {None}
  /\ stopped \subseteq Req /\ sent \subseteq Req
  /\ asks \in [Req -> {"no", "asked", "shown", "answered"}]
  /\ kind \in Mixes /\ losses \in Nat /\ revokes \in Nat

\* A pause reaches the run in progress: `cancel` is always the run's own cancel
\* function, and there is no second run beside it (sessionRuntime.start, finish).
RunCancellable == \A r \in Req : at[r] \in Busy <=> cancel = r

\* The agent can be reached on the connection it listens on, however the ends of
\* earlier connections overtake its registration (registerAgent, unregisterAgent).
AgentReachable ==
  \A c \in Conn : current = c /\ link[c] = "up"
                    => registry = c \/ (up[c] # <<>> /\ Head(up[c]) = Online)

\* An answer on the agent's registered connection is refused only if no live
\* connection of the phone is registered, or two that are gone: forwardToClient tries
\* one replacement, and a route outlives its connection.
RefusedOnlyOffline ==
  [][\A c \in Conn :
       /\ registry = c /\ up[c] # <<>> /\ up'[c] = Tail(up[c])
       /\ Head(up[c]).type = "final" /\ revokes = 0 /\ UNCHANGED fixed
       /\ \E p \in connections : link[p] = "up"
       /\ \A p, q \in connections : link[p] # "up" /\ link[q] # "up" => p = q
       => routes[Head(up[c]).req] # NoRoute /\ routes'[Head(up[c]).req] = NoRoute]_vars

\* Every request the agent has read is brought to its end, though one lock is held
\* through whole runs and taken by the reader.
RequestsEnd == []<>(\A r \in Req : at[r] \in {"none", "done"})

\* The reader is not held up by a run, so pauses and permission answers are read
\* while it goes on (catalog_handlers.go:20, session_runtime.go:11).
ReaderFree == \A c \in Conn : blocked[c] # None => cancel = None
=============================================================================
