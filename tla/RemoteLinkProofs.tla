--------------------------- MODULE RemoteLinkProofs ---------------------------
(* Proofs about RemoteLink, for any requests, connections and number of faults. *)
EXTENDS RemoteLink, SequenceTheorems, TLAPS

\* A request that is on its way has been sent, is not yet known to the agent, and is
\* on its way once.
Delivered ==
  /\ \A r \in Req : r \notin sent => at[r] = "none"
  /\ \A c \in Conn, r \in Req : \A i \in 1 .. Len(down[c]) :
       down[c][i] = Request(r) => r \in sent /\ at[r] = "none"
  /\ \A c, d \in Conn, r \in Req : \A i \in 1 .. Len(down[c]), k \in 1 .. Len(down[d]) :
       down[c][i] = Request(r) /\ down[d][k] = Request(r) => c = d /\ i = k

\* What a reader is blocked on is none of the runs.
BlockedOnSetting == \A c \in Conn : blocked[c] # None => at[blocked[c]] \in {"reader", "done"}

IInv == TypeOK /\ Delivered /\ BlockedOnSetting /\ RunCancellable /\ AgentReachable

-----------------------------------------------------------------------------
LEMMA InvInit == ASSUME Init PROVE IInv
<1> USE NameAssumption
<1>1. TypeOK
  BY MixesAssumption, EmptySeq DEF Init, TypeOK, Place, Busy, NoRoute
<1>2. Delivered /\ BlockedOnSetting /\ RunCancellable /\ AgentReachable
  BY EmptySeq DEF Init, Delivered, BlockedOnSetting, RunCancellable, AgentReachable, Busy
<1> QED
  BY <1>1, <1>2 DEF IInv

\* A prefix of what has been written to a connection.
LEMMA PrefixOf ==
  ASSUME NEW S, NEW s \in Seq(S), NEW t \in Prefixes(s)
  PROVE  t \in Seq(S) /\ Len(t) <= Len(s) /\ \A i \in 1 .. Len(t) : t[i] = s[i]
<1>1. PICK n \in 0 .. Len(s) : t = SubSeq(s, 1, n)
  BY DEF Prefixes
<1>2. Len(s) \in Nat
  BY LenProperties
<1> QED
  BY <1>1, <1>2, SubSeqProperties

\* What Write does to the frames of the connection, and leaves of those of others.
LEMMA WriteFrame ==
  ASSUME TypeOK, NEW c \in Conn \cup {None}, NEW m \in UpFrame, Write(c, m)
  PROVE  /\ up' \in [Conn -> Seq(UpFrame)]
         /\ \A d \in Conn : up[d] # <<>> => up'[d] # <<>> /\ Head(up'[d]) = Head(up[d])
<1>1. \A d \in Conn : up[d] \in Seq(UpFrame)
  BY DEF TypeOK
<1>2. ASSUME NEW d \in Conn
      PROVE  /\ Append(up[d], m) \in Seq(UpFrame) /\ Append(up[d], m) # <<>>
             /\ up[d] # <<>> => Head(Append(up[d], m)) = Head(up[d])
  <2> DEFINE s == Append(up[d], m)
  <2>1. s \in Seq(UpFrame) /\ Len(s) = Len(up[d]) + 1 /\ \A i \in 1 .. Len(up[d]) : s[i] = up[d][i]
    BY <1>1, AppendProperties
  <2>2. Len(up[d]) \in Nat /\ (up[d] # <<>> => Len(up[d]) > 0)
    BY <1>1, LenProperties, EmptySeq
  <2>3. s # <<>>
    BY <1>1, AppendProperties
  <2>4. up[d] # <<>> => Head(s) = s[1] /\ Head(up[d]) = up[d][1]
    BY <2>1, <2>3, <1>1
  <2> HIDE DEF s
  <2>5. up[d] # <<>> => Head(s) = Head(up[d])
    BY <2>1, <2>2, <2>4
  <2> QED
    BY <2>1, <2>3, <2>5 DEF s
<1>3. CASE up' = up
  BY <1>3 DEF TypeOK
<1>4. CASE up' = [up EXCEPT ![c] = Append(@, m)]
  <2>1. \A d \in Conn : up'[d] = IF d = c THEN Append(up[d], m) ELSE up[d]
    BY <1>4 DEF TypeOK
  <2>2. \A d \in Conn : up'[d] \in Seq(UpFrame)
    BY <2>1, <1>1, <1>2
  <2>3. up' \in [Conn -> Seq(UpFrame)]
    BY <2>2, <1>4 DEF TypeOK
  <2> QED
    BY <2>1, <2>3, <1>2
<1> QED
  BY <1>3, <1>4 DEF Write

\* The relay writes to the agent at the end of a connection's frames.
LEMMA ForwardFrame ==
  ASSUME TypeOK, NEW m \in DownFrame, ForwardToAgent(m)
  PROVE  /\ down' \in [Conn -> Seq(DownFrame)]
         /\ \/ down' = down
            \/ registry \in Conn /\ down' = [down EXCEPT ![registry] = Append(@, m)]
<1>1. \A d \in Conn : down[d] \in Seq(DownFrame)
  BY DEF TypeOK
<1>2. \A d \in Conn : Append(down[d], m) \in Seq(DownFrame)
  BY <1>1, AppendProperties
<1> QED
  BY <1>1, <1>2 DEF TypeOK, ForwardToAgent

\* What the relay does with a frame for the phone touches the route and the asks only.
LEMMA ForwardType ==
  ASSUME TypeOK, NEW m \in UpFrame, m.req \in Req, ForwardToClient(m)
  PROVE  /\ routes' \in [Req -> Peer \cup {None, NoRoute}] /\ connections' \subseteq Peer
         /\ asks' \in [Req -> {"no", "asked", "shown", "answered"}]
<1>1. ASSUME Shown(m) PROVE asks' \in [Req -> {"no", "asked", "shown", "answered"}]
  BY <1>1 DEF TypeOK, Shown
<1> DEFINE Table == [Req -> Peer \cup {None, NoRoute}]
           Asks == [Req -> {"no", "asked", "shown", "answered"}]
<1>2. ASSUME NEW p \in Peer, NEW t \in Table, Written(p, m, t) PROVE routes' \in Table /\ asks' \in Asks
  BY <1>2, <1>1 DEF TypeOK, Written
<1>3. ASSUME NEW t \in Table, Refused(t) PROVE routes' \in Table /\ asks' \in Asks
  BY <1>3 DEF TypeOK, Refused
<1>4. routes \in Table /\ \A p \in Peer : Detached(p) \in Table
  BY DEF TypeOK, Detached
<1>5. ASSUME NEW p \in Peer, Retried(p, m)
      PROVE  routes' \in Table /\ asks' \in Asks /\ connections' \subseteq Peer
  <2>1. connections' = connections \ {p} /\ connections \subseteq Peer
    BY <1>5 DEF Retried, TypeOK
  <2>2. CASE Refused(Detached(p))
    BY <2>1, <2>2, <1>3, <1>4
  <2>3. CASE \E q \in connections \ {p} : Written(q, m, Detached(p))
    BY <2>1, <2>3, <1>2, <1>4
  <2>4. CASE \E q \in connections \ {p} : Refused([Detached(p) EXCEPT ![m.req] = q])
    <3>1. ASSUME NEW q \in Peer PROVE [Detached(p) EXCEPT ![m.req] = q] \in Table
      BY <1>4
    <3> QED
      BY <2>1, <2>4, <3>1, <1>3
  <2> QED
    BY <1>5, <2>2, <2>3, <2>4 DEF Retried
<1>6. CASE routes[m.req] = NoRoute \/ connections = {}
  <2>1. [routes EXCEPT ![m.req] = IF @ = NoRoute THEN @ ELSE None] \in Table
    BY <1>4
  <2> QED
    BY <1>6, <2>1, <1>3 DEF ForwardToClient, TypeOK
<1>7. CASE ~(routes[m.req] = NoRoute \/ connections = {})
  <2>1. PICK p \in Targets(routes[m.req], connections) :
          (Written(p, m, routes) /\ UNCHANGED connections) \/ Retried(p, m)
    BY <1>7 DEF ForwardToClient
  <2>2. p \in Peer
    BY <2>1 DEF Targets, TypeOK
  <2> QED
    BY <2>1, <2>2, <1>2, <1>4, <1>5 DEF TypeOK
<1> QED
  BY <1>6, <1>7

\* A frame read from a connection: the others stay behind it.
LEMMA ReadFrame ==
  ASSUME NEW S, NEW s \in Seq(S), s # <<>>
  PROVE  /\ Head(s) \in S /\ Tail(s) \in Seq(S) /\ Len(s) \in Nat /\ Len(Tail(s)) = Len(s) - 1
         /\ Head(s) = s[1] /\ Len(s) > 0 /\ \A i \in 1 .. Len(Tail(s)) : Tail(s)[i] = s[i + 1]
BY HeadTailProperties, EmptySeq, LenProperties

\* Every action keeps the types.
LEMMA TypeStep == ASSUME TypeOK, [Next]_vars PROVE TypeOK'
<1> USE NameAssumption DEF relayVars, agentVars, fixed
<1>1. CASE UNCHANGED vars
  BY <1>1 DEF vars, TypeOK
<1>2. ASSUME NEW p \in Peer, PhoneConnects(p) \/ PhoneEnds(p) \/ PeerLost(p) PROVE TypeOK'
  <2>1. CASE PhoneConnects(p)
    BY <2>1 DEF PhoneConnects, TypeOK
  <2>2. CASE PhoneEnds(p)
    <3>1. routes' \in [Req -> Peer \cup {None, NoRoute}]
      BY <2>2 DEF PhoneEnds, Detached, TypeOK
    <3>2. link' \in [Peer \cup Conn -> {"new", "up", "down", "gone"}] /\ connections' \subseteq Peer
      BY <2>2 DEF PhoneEnds, TypeOK
    <3> QED
      BY <2>2, <3>1, <3>2 DEF PhoneEnds, TypeOK
  <2>3. CASE PeerLost(p)
    BY <2>3 DEF PeerLost, TypeOK
  <2> QED
    BY <1>2, <2>1, <2>2, <2>3
<1>3. ASSUME NEW p \in Peer, NEW r \in Req, PhoneSends(p, r) PROVE TypeOK'
  <2>1. Request(r) \in DownFrame
    BY DEF Request, DownFrame
  <2>2. down' \in [Conn -> Seq(DownFrame)]
    BY <1>3, <2>1, ForwardFrame DEF PhoneSends
  <2> QED
    BY <1>3, <2>2 DEF PhoneSends, TypeOK
<1>4. ASSUME NEW p \in Peer, NEW r \in Req, PhoneAnswers(p, r) PROVE TypeOK'
  <2>1. Grant(r) \in DownFrame
    BY DEF Grant, DownFrame
  <2>2. down' \in [Conn -> Seq(DownFrame)]
    BY <1>4, <2>1, ForwardFrame DEF PhoneAnswers, TypeOK
  <2>3. connections' \subseteq Peer /\ asks' \in [Req -> {"no", "asked", "shown", "answered"}]
    BY <1>4 DEF PhoneAnswers, TypeOK
  <2>4. routes' = routes \/ routes' = [routes EXCEPT ![r] = p]
    BY <1>4 DEF PhoneAnswers
  <2>5. routes' \in [Req -> Peer \cup {None, NoRoute}]
    <3>1. routes \in [Req -> Peer \cup {None, NoRoute}]
      BY DEF TypeOK
    <3> QED
      BY <2>4, <3>1
  <2> QED
    BY <1>4, <2>2, <2>3, <2>5 DEF PhoneAnswers, TypeOK
<1>5. ASSUME NEW c \in Conn, RelayReads(c) PROVE TypeOK'
  <2>1. up[c] \in Seq(UpFrame) /\ up[c] # <<>>
    BY <1>5 DEF RelayReads, TypeOK
  <2>2. Head(up[c]) \in UpFrame /\ Tail(up[c]) \in Seq(UpFrame)
    BY <2>1, ReadFrame
  <2> DEFINE Typed ==
        /\ registry' \in Conn \cup {None} /\ link' \in [Peer \cup Conn -> {"new", "up", "down", "gone"}]
        /\ routes' \in [Req -> Peer \cup {None, NoRoute}] /\ connections' \subseteq Peer
        /\ asks' \in [Req -> {"no", "asked", "shown", "answered"}]
  <2>6. up' \in [Conn -> Seq(UpFrame)]
    <3>1. up' = [up EXCEPT ![c] = Tail(@)]
      BY <1>5 DEF RelayReads, Register
    <3> QED
      BY <2>2, <3>1 DEF TypeOK
  <2>3. ASSUME Head(up[c]).type = "online" PROVE Typed
    <3>1. Register(c)
      BY <1>5, <2>3 DEF RelayReads
    <3> QED
      BY <3>1 DEF Register, TypeOK
  <2>4. ASSUME Head(up[c]).type # "online" /\ registry = c PROVE Typed
    <3>1. Head(up[c]).req \in Req
      BY <2>2, <2>4 DEF UpFrame, Online
    <3>2. ForwardToClient(Head(up[c]))
      BY <1>5, <2>4 DEF RelayReads
    <3>3. /\ routes' \in [Req -> Peer \cup {None, NoRoute}] /\ connections' \subseteq Peer
          /\ asks' \in [Req -> {"no", "asked", "shown", "answered"}]
      BY <2>2, <3>1, <3>2, ForwardType
    <3>4. registry' = registry /\ link' = link
      BY <1>5, <2>4 DEF RelayReads
    <3> QED
      BY <3>3, <3>4 DEF TypeOK
  <2>5. ASSUME Head(up[c]).type # "online" /\ registry # c PROVE Typed
    <3>1. UNCHANGED <<registry, link, routes, connections, asks>>
      BY <1>5, <2>5 DEF RelayReads
    <3> QED
      BY <3>1 DEF TypeOK
  <2>7. Typed
    BY <2>3, <2>4, <2>5
  <2>8. UNCHANGED <<current, down, agentVars, sent, fixed>>
    BY <1>5 DEF RelayReads
  <2> QED
    BY <2>6, <2>7, <2>8 DEF TypeOK
<1>6. ASSUME NEW c \in Conn, AuthorizationFails(c) PROVE TypeOK'
  <2>1. up[c] \in Seq(UpFrame) /\ up[c] # <<>>
    BY <1>6 DEF AuthorizationFails, TypeOK
  <2>2. Tail(up[c]) \in Seq(UpFrame)
    BY <2>1, ReadFrame
  <2> QED
    BY <1>6, <2>2 DEF AuthorizationFails, TypeOK
<1>7. ASSUME NEW c \in Conn, AgentHandlerEnds(c) PROVE TypeOK'
  BY <1>7 DEF AgentHandlerEnds, Unregister, TypeOK
<1>8. ASSUME NEW c \in Conn, ConnLost(c) PROVE TypeOK'
  <2>1. PICK s \in Prefixes(up[c]) : up' = [up EXCEPT ![c] = s]
    BY <1>8 DEF ConnLost
  <2>2. PICK t \in Prefixes(down[c]) : down' = [down EXCEPT ![c] = t]
    BY <1>8 DEF ConnLost
  <2>3. s \in Seq(UpFrame) /\ t \in Seq(DownFrame)
    BY PrefixOf DEF TypeOK
  <2> QED
    BY <1>8, <2>1, <2>2, <2>3 DEF ConnLost, TypeOK
<1>9. ASSUME NEW c \in Conn, AgentConnects(c) \/ AgentDrops(c) PROVE TypeOK'
  <2>1. <<Online>> \in Seq(UpFrame) /\ <<>> \in Seq(DownFrame)
    BY EmptySeq DEF UpFrame
  <2> QED
    <3>1. CASE AgentConnects(c)
      <4>1. up' \in [Conn -> Seq(UpFrame)]
        BY <2>1, <3>1 DEF AgentConnects, TypeOK
      <4>2. current' \in Conn \cup {None} /\ link' \in [Peer \cup Conn -> {"new", "up", "down", "gone"}]
        BY <3>1 DEF AgentConnects, TypeOK
      <4> QED
        BY <3>1, <4>1, <4>2 DEF AgentConnects, TypeOK
    <3>2. CASE AgentDrops(c)
      <4>1. down' \in [Conn -> Seq(DownFrame)]
        BY <2>1, <3>2 DEF AgentDrops, TypeOK
      <4> QED
        BY <3>2, <4>1 DEF AgentDrops, TypeOK
    <3> QED
      BY <1>9, <3>1, <3>2
<1>10. ASSUME NEW c \in Conn, Read(c) PROVE TypeOK'
  <2> DEFINE m == Head(down[c])
  <2>1. down[c] \in Seq(DownFrame) /\ down[c] # <<>>
    BY <1>10 DEF Read, TypeOK
  <2>2. m \in DownFrame /\ m.req \in Req /\ Tail(down[c]) \in Seq(DownFrame)
    <3>1. m \in DownFrame /\ Tail(down[c]) \in Seq(DownFrame)
      BY <2>1, ReadFrame
    <3> QED
      BY <3>1 DEF DownFrame
  <2>3. Final(m.req) \in UpFrame
    BY <2>2 DEF Final, UpFrame
  <2> HIDE DEF m
  <2> DEFINE Typed ==
        /\ up' \in [Conn -> Seq(UpFrame)] /\ blocked' \in [Conn -> Req \cup {None}]
        /\ at' \in [Req -> Place] /\ via' \in [Req -> Conn \cup {None}] /\ stopped' \subseteq Req
  <2>4. ASSUME m.type = "grant" PROVE Typed
    <3>1. /\ UNCHANGED <<via, blocked, stopped, up>>
          /\ at' = [at EXCEPT ![m.req] = IF @ = "asking" THEN "running" ELSE @]
      BY <1>10, <2>4 DEF Read, m
    <3> QED
      BY <3>1, <2>2 DEF TypeOK, Place, Busy
  <2>9. ASSUME m.type # "grant" PROVE via' \in [Req -> Conn \cup {None}]
    <3>1. via' = [via EXCEPT ![m.req] = c]
      BY <1>10, <2>9 DEF Read, m
    <3> QED
      BY <3>1, <2>2 DEF TypeOK
  <2>5. ASSUME m.type # "grant" /\ kind[m.req] \in {"user", "plan"} PROVE Typed
    <3>1. UNCHANGED <<blocked, stopped, up>> /\ \E q \in {"start", "lock"} : at' = [at EXCEPT ![m.req] = q]
      BY <1>10, <2>5 DEF Read, m
    <3>2. PICK q \in {"start", "lock"} : at' = [at EXCEPT ![m.req] = q]
      BY <3>1
    <3>3. at' \in [Req -> Place]
      BY <3>2, <2>2 DEF TypeOK, Place
    <3> QED
      BY <3>1, <3>3, <2>5, <2>9 DEF TypeOK
  <2>6. ASSUME m.type # "grant" /\ kind[m.req] = "set" PROVE Typed
    <3>1. ReadSetting(c, m.req) /\ stopped' = stopped
      BY <1>10, <2>6 DEF Read, m
    <3>2. up' \in [Conn -> Seq(UpFrame)]
      BY <3>1, <2>3, WriteFrame DEF ReadSetting, TypeOK
    <3>3. at' \in [Req -> Place] /\ blocked' \in [Conn -> Req \cup {None}]
      BY <3>1, <2>2 DEF ReadSetting, TypeOK, Place
    <3> QED
      BY <3>1, <3>2, <3>3, <2>6, <2>9 DEF TypeOK
  <2>7. ASSUME m.type # "grant" /\ kind[m.req] = "pause" PROVE Typed
    <3>1. ReadPause(c, m.req) /\ blocked' = blocked
      BY <1>10, <2>7 DEF Read, m
    <3>2. up' \in [Conn -> Seq(UpFrame)]
      BY <3>1, <2>3, WriteFrame DEF ReadPause
    <3>3. at' \in [Req -> Place] /\ stopped' \subseteq Req
      BY <3>1, <2>2 DEF ReadPause, TypeOK, Place
    <3> QED
      BY <3>1, <3>2, <3>3, <2>7, <2>9 DEF TypeOK
  <2>8. kind[m.req] \in {"user", "plan", "set", "pause"}
    BY <2>2, MixesAssumption DEF TypeOK
  <2>10. Typed
    BY <2>4, <2>5, <2>6, <2>7, <2>8
  <2>11. down' = [down EXCEPT ![c] = Tail(@)]
    BY <1>10 DEF Read
  <2>12. down' \in [Conn -> Seq(DownFrame)]
    BY <2>2, <2>11 DEF TypeOK
  <2>13. UNCHANGED <<relayVars, link, current, cancel, mu, sent, asks, fixed>>
    BY <1>10 DEF Read
  <2> QED
    BY <2>10, <2>12, <2>13 DEF TypeOK
<1>11. ASSUME NEW c \in Conn, Unblock(c) PROVE TypeOK'
  <2>1. blocked[c] \in Req
    BY <1>11 DEF Unblock, TypeOK
  <2>2. Final(blocked[c]) \in UpFrame
    BY <2>1 DEF Final, UpFrame
  <2>3. up' \in [Conn -> Seq(UpFrame)]
    BY <1>11, <2>2, WriteFrame DEF Unblock
  <2> QED
    BY <1>11, <2>1, <2>3 DEF Unblock, TypeOK, Place
<1>12. ASSUME NEW r \in Req, StartUser(r) \/ StartPlan(r) \/ AskPermission(r) \/ RunEnds(r)
       PROVE  TypeOK'
  <2>1. Final(r) \in UpFrame /\ Ask(r) \in UpFrame /\ via[r] \in Conn \cup {None}
    BY DEF Final, Ask, UpFrame, TypeOK
  <2>2. up' \in [Conn -> Seq(UpFrame)]
    BY <1>12, <2>1, WriteFrame DEF StartUser, StartPlan, AskPermission, RunEnds, TypeOK
  <2> QED
    BY <1>12, <2>2, ZenonT(40) DEF StartUser, StartPlan, AskPermission, RunEnds, TypeOK, Place, Busy
<1>13. ASSUME NEW r \in Req, AskEnds(r) \/ Finish(r) PROVE TypeOK'
  BY <1>13 DEF AskEnds, Finish, TypeOK, Place, Busy
<1> QED
  BY <1>1, <1>2, <1>3, <1>4, <1>5, <1>6, <1>7, <1>8, <1>9, <1>10, <1>11, <1>12, <1>13
     DEF Next, Agent

\* The agent forgets nothing of a request, and only Read takes up a new one.
LEMMA AtStep ==
  ASSUME TypeOK, BlockedOnSetting, [Next]_vars
  PROVE  \/ \E c \in Conn : Read(c)
         \/ \A r \in Req : at[r] = "none" => at'[r] = "none"
<1> USE DEF TypeOK, relayVars, agentVars, fixed
<1>1. CASE UNCHANGED vars
  BY <1>1 DEF vars
<1>2. CASE \E p \in Peer : PhoneConnects(p) \/ PhoneEnds(p) \/ PeerLost(p)
  BY <1>2 DEF PhoneConnects, PhoneEnds, PeerLost
<1>3. CASE \E p \in Peer, r \in Req : PhoneSends(p, r) \/ PhoneAnswers(p, r)
  BY <1>3 DEF PhoneSends, PhoneAnswers
<1>4. ASSUME NEW c \in Conn, \/ RelayReads(c) \/ AuthorizationFails(c) \/ AgentHandlerEnds(c)
                            \/ ConnLost(c) \/ AgentConnects(c) \/ AgentDrops(c)
      PROVE  at' = at
  BY <1>4 DEF RelayReads, AuthorizationFails, AgentHandlerEnds, ConnLost, AgentConnects, AgentDrops
<1>5. ASSUME NEW c \in Conn, Unblock(c) PROVE \A r \in Req : at[r] = "none" => at'[r] = "none"
  BY <1>5 DEF Unblock, BlockedOnSetting
<1>6. ASSUME NEW r \in Req, \/ StartUser(r) \/ StartPlan(r) \/ AskPermission(r)
                           \/ AskEnds(r) \/ RunEnds(r) \/ Finish(r)
      PROVE  \A q \in Req : at[q] = "none" => at'[q] = "none"
  BY <1>6 DEF StartUser, StartPlan, AskPermission, AskEnds, RunEnds, Finish
<1> QED
  BY <1>1, <1>2, <1>3, <1>4, <1>5, <1>6 DEF Next, Agent

\* What the agent's reader takes from its connection.
LEMMA ReadStep ==
  ASSUME TypeOK, NEW c \in Conn, Read(c)
  PROVE  /\ Head(down[c]).req \in Req /\ down[c] # <<>> /\ down' = [down EXCEPT ![c] = Tail(@)]
         /\ Head(down[c]).type = "grant" =>
              at' = [at EXCEPT ![Head(down[c]).req] = IF @ = "asking" THEN "running" ELSE @]
         /\ Head(down[c]).type # "grant" =>
              /\ Head(down[c]) = Request(Head(down[c]).req)
              /\ \E q \in {"start", "lock", "reader", "done"} :
                   at' = [at EXCEPT ![Head(down[c]).req] = q]
<1> DEFINE m == Head(down[c])
<1>1. down[c] \in Seq(DownFrame) /\ down[c] # <<>> /\ down' = [down EXCEPT ![c] = Tail(@)]
  BY DEF Read, TypeOK
<1>2. m \in DownFrame
  BY <1>1, ReadFrame
<1>3. m.req \in Req /\ (m.type # "grant" => m = Request(m.req))
  BY <1>2 DEF DownFrame, Request
<1> HIDE DEF m
<1>4. m.type = "grant" => at' = [at EXCEPT ![m.req] = IF @ = "asking" THEN "running" ELSE @]
  BY DEF Read, m
<1>5. ASSUME m.type # "grant"
      PROVE  \E q \in {"start", "lock", "reader", "done"} : at' = [at EXCEPT ![m.req] = q]
  BY <1>5 DEF Read, ReadSetting, ReadPause, m
<1> QED
  BY <1>1, <1>3, <1>4, <1>5 DEF m

\* What becomes of the frames on their way to the agent.
LEMMA DownStep ==
  ASSUME TypeOK, [Next]_vars
  PROVE  \/ down' = down /\ sent' = sent
         \/ \E p \in Peer, r \in Req : PhoneSends(p, r) \/ PhoneAnswers(p, r)
         \/ \E c \in Conn : ConnLost(c) \/ AgentDrops(c) \/ Read(c)
<1> USE DEF relayVars, agentVars, fixed
<1>1. CASE UNCHANGED vars
  BY <1>1 DEF vars
<1>2. CASE \E p \in Peer : PhoneConnects(p) \/ PhoneEnds(p) \/ PeerLost(p)
  BY <1>2 DEF PhoneConnects, PhoneEnds, PeerLost
<1>3. ASSUME NEW c \in Conn,
             RelayReads(c) \/ AuthorizationFails(c) \/ AgentHandlerEnds(c) \/ AgentConnects(c)
      PROVE  down' = down /\ sent' = sent
  BY <1>3 DEF RelayReads, AuthorizationFails, AgentHandlerEnds, AgentConnects
<1>4. ASSUME NEW c \in Conn, Unblock(c) PROVE down' = down /\ sent' = sent
  BY <1>4 DEF Unblock
<1>5. ASSUME NEW r \in Req, \/ StartUser(r) \/ StartPlan(r) \/ AskPermission(r)
                           \/ AskEnds(r) \/ RunEnds(r) \/ Finish(r)
      PROVE  down' = down /\ sent' = sent
  BY <1>5 DEF StartUser, StartPlan, AskPermission, AskEnds, RunEnds, Finish
<1> QED
  BY <1>1, <1>2, <1>3, <1>4, <1>5 DEF Next, Agent

LEMMA DeliveredStep ==
  ASSUME TypeOK, TypeOK', Delivered, BlockedOnSetting, [Next]_vars PROVE Delivered'
<1>1. \A c \in Conn : down[c] \in Seq(DownFrame) /\ Len(down[c]) \in Nat
  BY LenProperties DEF TypeOK
<1>2. ASSUME NEW c \in Conn, Read(c) PROVE Delivered'
  <2> DEFINE m == Head(down[c])
  <2>1. /\ m.req \in Req /\ down[c] # <<>> /\ down' = [down EXCEPT ![c] = Tail(@)]
        /\ m.type = "grant" => at' = [at EXCEPT ![m.req] = IF @ = "asking" THEN "running" ELSE @]
        /\ m.type # "grant" => m = Request(m.req)
        /\ m.type # "grant" => \A r \in Req : r # m.req => at'[r] = at[r]
    <3>1. ASSUME m.type # "grant" PROVE \A r \in Req : r # m.req => at'[r] = at[r]
      <4>1. PICK q \in {"start", "lock", "reader", "done"} : at' = [at EXCEPT ![m.req] = q]
        BY <1>2, <3>1, ReadStep
      <4> QED
        BY <4>1 DEF TypeOK
    <3> QED
      BY <1>2, <3>1, ReadStep
  <2>2. sent' = sent
    BY <1>2 DEF Read
  <2>3. /\ Len(Tail(down[c])) = Len(down[c]) - 1 /\ m = down[c][1] /\ Len(down[c]) > 0
        /\ \A i \in 1 .. Len(Tail(down[c])) : Tail(down[c])[i] = down[c][i + 1]
    BY <1>1, <2>1, ReadFrame
  <2> HIDE DEF m
  <2>4. ASSUME NEW r \in Req, at[r] = "none", m.type = "grant" \/ r # m.req PROVE at'[r] = "none"
    BY <2>1, <2>4 DEF TypeOK
  <2>5. m.type # "grant" => m.req \in sent
    BY <1>1, <2>1, <2>3 DEF Delivered
  <2>6. \A r \in Req : r \notin sent' => at'[r] = "none"
    BY <2>2, <2>4, <2>5 DEF Delivered
  <2>7. \A d \in Conn : down'[d] = IF d = c THEN Tail(down[c]) ELSE down[d]
    BY <2>1 DEF TypeOK
  <2>8. ASSUME NEW i \in 1 .. Len(down'[c])
        PROVE  i + 1 \in 2 .. Len(down[c]) /\ down'[c][i] = down[c][i + 1] /\ i \in Int
    <3>1. /\ Len(down'[c]) = Len(down[c]) - 1
          /\ \A k \in 1 .. Len(down'[c]) : down'[c][k] = down[c][k + 1]
      BY <2>3, <2>7
    <3> QED
      BY <1>1, <2>8, <3>1
  <2>11. ASSUME NEW d \in Conn, NEW i \in 1 .. Len(down'[d])
         PROVE  \E k \in 1 .. Len(down[d]) :
                  down[d][k] = down'[d][i] /\ (d = c => k = i + 1) /\ (d # c => k = i)
    <3>1. CASE d = c
      BY <2>8, <3>1, <1>1
    <3>2. CASE d # c
      BY <2>7, <3>2
    <3> QED
      BY <3>1, <3>2
  <2>9. ASSUME NEW d \in Conn, NEW r \in Req, NEW i \in 1 .. Len(down'[d]), down'[d][i] = Request(r)
        PROVE  r \in sent' /\ at'[r] = "none"
    <3>1. r \in sent /\ at[r] = "none"
      <4>1. PICK k \in 1 .. Len(down[d]) : down[d][k] = Request(r)
        BY <2>9, <2>11
      <4> QED
        BY <4>1 DEF Delivered
    <3>2. ASSUME m = Request(r) PROVE FALSE
      <4>1. PICK k \in 1 .. Len(down[d]) :
              down[d][k] = Request(r) /\ (d = c => k = i + 1) /\ (d # c => k = i)
        BY <2>9, <2>11
      <4>2. 1 \in 1 .. Len(down[c]) /\ down[c][1] = Request(r)
        BY <1>1, <2>3, <3>2
      <4>3. d = c /\ k = 1
        BY <4>1, <4>2 DEF Delivered
      <4> QED
        BY <4>1, <4>3, <2>9, <1>1, <2>8
    <3> QED
      BY <2>1, <2>2, <2>4, <3>1, <3>2
  <2>10. ASSUME NEW d \in Conn, NEW e \in Conn, NEW r \in Req, NEW i \in 1 .. Len(down'[d]),
                NEW k \in 1 .. Len(down'[e]), down'[d][i] = Request(r), down'[e][k] = Request(r)
         PROVE  d = e /\ i = k
    <3>1. PICK x \in 1 .. Len(down[d]) :
            down[d][x] = Request(r) /\ (d = c => x = i + 1) /\ (d # c => x = i)
      BY <2>10, <2>11
    <3>2. PICK y \in 1 .. Len(down[e]) :
            down[e][y] = Request(r) /\ (e = c => y = k + 1) /\ (e # c => y = k)
      BY <2>10, <2>11, ZenonT(60)
    <3>3. d = e /\ x = y
      BY <3>1, <3>2 DEF Delivered
    <3>4. i \in Int /\ k \in Int
      OBVIOUS
    <3> QED
      BY <3>1, <3>2, <3>3, <3>4
  <2> QED
    BY <2>6, <2>9, <2>10 DEF Delivered
<1>3. ASSUME \A r \in Req : at[r] = "none" => at'[r] = "none", down' = down, sent' = sent
      PROVE  Delivered'
  BY <1>3 DEF Delivered
<1>4. ASSUME NEW c \in Conn, ConnLost(c) \/ AgentDrops(c) PROVE Delivered'
  <2>1. at' = at /\ sent' = sent
    BY <1>4 DEF ConnLost, AgentDrops, agentVars
  <2>2. ASSUME NEW d \in Conn, NEW i \in 1 .. Len(down'[d])
        PROVE  i \in 1 .. Len(down[d]) /\ down'[d][i] = down[d][i]
    <3>1. CASE AgentDrops(c)
      BY <2>2, <3>1, <1>1, EmptySeq DEF AgentDrops, TypeOK
    <3>2. CASE ConnLost(c)
      <4>1. PICK t \in Prefixes(down[c]) : down' = [down EXCEPT ![c] = t]
        BY <3>2 DEF ConnLost
      <4>2. Len(t) <= Len(down[c]) /\ (\A k \in 1 .. Len(t) : t[k] = down[c][k]) /\ Len(t) \in Nat
        BY <1>1, PrefixOf, LenProperties
      <4> QED
        BY <2>2, <4>1, <4>2, <1>1 DEF TypeOK
    <3> QED
      BY <1>4, <3>1, <3>2
  <2> QED
    <3>1. \A r \in Req : r \notin sent' => at'[r] = "none"
      BY <2>1 DEF Delivered
    <3>2. \A d \in Conn, r \in Req : \A i \in 1 .. Len(down'[d]) :
            down'[d][i] = Request(r) => r \in sent' /\ at'[r] = "none"
      BY <2>1, <2>2 DEF Delivered
    <3>3. \A d, e \in Conn, r \in Req : \A i \in 1 .. Len(down'[d]), k \in 1 .. Len(down'[e]) :
            down'[d][i] = Request(r) /\ down'[e][k] = Request(r) => d = e /\ i = k
      BY <2>2, SMTT(30) DEF Delivered
    <3> QED
      BY <3>1, <3>2, <3>3 DEF Delivered
<1>5. ASSUME NEW p \in Peer, NEW r \in Req, PhoneSends(p, r) \/ PhoneAnswers(p, r) PROVE Delivered'
  <2>1. at' = at /\ sent' = IF PhoneSends(p, r) /\ r \notin sent THEN sent \cup {r} ELSE sent
    BY <1>5 DEF PhoneSends, PhoneAnswers, agentVars
  <2>2. PICK m \in {Request(r), Grant(r)} :
          /\ down' = down \/ (registry \in Conn /\ down' = [down EXCEPT ![registry] = Append(@, m)])
          /\ m = Request(r) => r \notin sent /\ r \in sent'
    <3>1. Request(r) \in DownFrame /\ Grant(r) \in DownFrame /\ Request(r) # Grant(r)
      BY DEF Request, Grant, DownFrame
    <3>2. CASE PhoneSends(p, r)
      BY <3>1, <3>2, ForwardFrame DEF PhoneSends
    <3>3. CASE PhoneAnswers(p, r)
      BY <3>1, <3>3, ForwardFrame DEF PhoneAnswers
    <3> QED
      BY <1>5, <3>2, <3>3
  <2>3. CASE down' = down
    BY <2>1, <2>3 DEF Delivered
  <2>4. CASE registry \in Conn /\ down' = [down EXCEPT ![registry] = Append(@, m)]
    <3> DEFINE n == Len(down[registry]) + 1
    <3>1. m \in DownFrame /\ \A q \in Req : Grant(r) # Request(q)
      BY DEF Request, Grant, DownFrame
    <3>2. /\ Len(down'[registry]) = n /\ down'[registry][n] = m
          /\ \A i \in 1 .. Len(down[registry]) : down'[registry][i] = down[registry][i]
      BY <1>1, <2>4, <3>1, AppendProperties DEF TypeOK
    <3>3. ASSUME NEW d \in Conn, NEW q \in Req, NEW i \in 1 .. Len(down'[d]), down'[d][i] = Request(q)
          PROVE  \/ i \in 1 .. Len(down[d]) /\ down[d][i] = Request(q)
                 \/ d = registry /\ i = n /\ q = r /\ r \notin sent /\ r \in sent'
      <4>1. CASE d = registry /\ i = n
        <5>1. m = Request(q)
          BY <3>2, <3>3, <4>1
        <5>2. m = Request(r) /\ q = r
          BY <5>1, <3>1 DEF Request
        <5> QED
          BY <5>2, <2>2, <4>1
      <4>2. CASE d = registry /\ i # n
        BY <1>1, <3>2, <3>3, <4>2, <2>4
      <4>3. CASE d # registry
        BY <3>3, <4>3, <2>4 DEF TypeOK
      <4> QED
        BY <4>1, <4>2, <4>3
    <3>4. \A q \in Req : q \notin sent' => at'[q] = "none"
      BY <2>1 DEF Delivered
    <3> HIDE DEF n
    <3> QED
      BY <2>1, <3>3, <3>4 DEF Delivered
  <2> QED
    BY <2>2, <2>3, <2>4
<1> QED
  BY <1>2, <1>3, <1>4, <1>5, AtStep, DownStep

\* What the steps of the phone, the relay and the connections leave alone.
LEMMA OutsideStep ==
  ASSUME [Next]_vars
  PROVE  \/ UNCHANGED <<at, cancel, blocked>>
         \/ \E c \in Conn : Read(c) \/ Unblock(c)
         \/ \E r \in Req : \/ StartUser(r) \/ StartPlan(r) \/ AskPermission(r)
                            \/ AskEnds(r) \/ RunEnds(r) \/ Finish(r)
<1> USE DEF relayVars, agentVars, fixed
<1>1. CASE UNCHANGED vars
  BY <1>1 DEF vars
<1>2. CASE \E p \in Peer : PhoneConnects(p) \/ PhoneEnds(p) \/ PeerLost(p)
  BY <1>2 DEF PhoneConnects, PhoneEnds, PeerLost
<1>3. CASE \E p \in Peer, r \in Req : PhoneSends(p, r) \/ PhoneAnswers(p, r)
  BY <1>3 DEF PhoneSends, PhoneAnswers
<1>4. ASSUME NEW c \in Conn, \/ RelayReads(c) \/ AuthorizationFails(c) \/ AgentHandlerEnds(c)
                            \/ ConnLost(c) \/ AgentConnects(c) \/ AgentDrops(c)
      PROVE  UNCHANGED <<at, cancel, blocked>>
  BY <1>4 DEF RelayReads, AuthorizationFails, AgentHandlerEnds, ConnLost, AgentConnects, AgentDrops
<1> QED
  BY <1>1, <1>2, <1>3, <1>4 DEF Next, Agent

\* A request that is read is new: no run and no reader has it yet.
LEMMA NewRequest ==
  ASSUME TypeOK, Delivered, NEW c \in Conn, Read(c), Head(down[c]).type # "grant"
  PROVE  at[Head(down[c]).req] = "none"
<1>1. down[c] \in Seq(DownFrame) /\ down[c] # <<>>
  BY DEF Read, TypeOK
<1>2. Head(down[c]).req \in Req /\ Head(down[c]) = Request(Head(down[c]).req)
  BY ReadStep
<1>3. Head(down[c]) = down[c][1] /\ Len(down[c]) \in Nat /\ Len(down[c]) > 0
  BY <1>1, ReadFrame
<1>4. 1 \in 1 .. Len(down[c])
  BY <1>3
<1> QED
  BY <1>2, <1>3, <1>4 DEF Delivered

LEMMA BlockedStep ==
  ASSUME TypeOK, TypeOK', Delivered, BlockedOnSetting, RunCancellable, [Next]_vars
  PROVE  BlockedOnSetting'
<1> USE NameAssumption
<1>1. CASE UNCHANGED <<at, cancel, blocked>>
  BY <1>1 DEF BlockedOnSetting
<1>2. ASSUME NEW c \in Conn, Unblock(c) PROVE BlockedOnSetting'
  BY <1>2 DEF Unblock, BlockedOnSetting, TypeOK
<1>3. ASSUME NEW c \in Conn, Read(c) PROVE BlockedOnSetting'
  <2> DEFINE r == Head(down[c]).req
  <2>1. r \in Req
    BY <1>3, ReadStep
  <2>2. CASE Head(down[c]).type = "grant"
    <3>1. at' = [at EXCEPT ![r] = IF @ = "asking" THEN "running" ELSE @] /\ blocked' = blocked
      BY <1>3, <2>2, ReadStep DEF Read
    <3> QED
      BY <2>1, <3>1 DEF BlockedOnSetting, TypeOK
  <2>3. CASE Head(down[c]).type # "grant"
    <3>1. at[r] = "none"
      BY <1>3, <2>3, NewRequest
    <3>2. PICK q \in {"start", "lock", "reader", "done"} : at' = [at EXCEPT ![r] = q]
      BY <1>3, <2>3, ReadStep
    <3>3. blocked' = blocked \/ (blocked' = [blocked EXCEPT ![c] = r] /\ at' = [at EXCEPT ![r] = "reader"])
      BY <1>3, <2>3 DEF Read, ReadSetting
    <3> QED
      BY <2>1, <3>1, <3>2, <3>3 DEF BlockedOnSetting, TypeOK
  <2> QED
    BY <2>2, <2>3
<1>4. ASSUME NEW r \in Req, \/ StartUser(r) \/ StartPlan(r) \/ AskPermission(r)
                           \/ AskEnds(r) \/ RunEnds(r) \/ Finish(r)
      PROVE  BlockedOnSetting'
  <2>1. blocked' = blocked /\ at[r] \notin {"reader", "done"}
    BY <1>4 DEF StartUser, StartPlan, AskPermission, AskEnds, RunEnds, Finish
  <2>2. \A q \in Req : q # r => at'[q] = at[q]
    BY <1>4 DEF StartUser, StartPlan, AskPermission, AskEnds, RunEnds, Finish, TypeOK
  <2> QED
    BY <2>1, <2>2 DEF BlockedOnSetting, TypeOK
<1> QED
  BY <1>1, <1>2, <1>3, <1>4, OutsideStep

\* One run at a time, and `cancel` is its own.
LEMMA CancellableStep ==
  ASSUME TypeOK, TypeOK', Delivered, BlockedOnSetting, RunCancellable, [Next]_vars
  PROVE  RunCancellable'
<1> USE NameAssumption DEF Busy
<1>1. CASE UNCHANGED <<at, cancel, blocked>>
  BY <1>1 DEF RunCancellable
<1>2. ASSUME NEW c \in Conn, Unblock(c) PROVE RunCancellable'
  <2>1. blocked[c] \in Req /\ at[blocked[c]] \notin Busy /\ cancel' = cancel
    BY <1>2 DEF Unblock, BlockedOnSetting, TypeOK
  <2> QED
    BY <1>2, <2>1 DEF Unblock, RunCancellable, TypeOK
<1>3. ASSUME NEW c \in Conn, Read(c) PROVE RunCancellable'
  <2> DEFINE r == Head(down[c]).req
  <2>1. r \in Req /\ cancel' = cancel
    BY <1>3, ReadStep DEF Read
  <2>2. CASE Head(down[c]).type = "grant"
    <3>1. at' = [at EXCEPT ![r] = IF @ = "asking" THEN "running" ELSE @]
      BY <1>3, <2>2, ReadStep
    <3> QED
      BY <2>1, <3>1 DEF RunCancellable, TypeOK
  <2>3. CASE Head(down[c]).type # "grant"
    <3>1. at[r] = "none"
      BY <1>3, <2>3, NewRequest
    <3>2. PICK q \in {"start", "lock", "reader", "done"} : at' = [at EXCEPT ![r] = q]
      BY <1>3, <2>3, ReadStep
    <3> QED
      BY <2>1, <3>1, <3>2 DEF RunCancellable, TypeOK
  <2> QED
    BY <2>2, <2>3
<1>4. ASSUME NEW r \in Req, StartUser(r) \/ StartPlan(r) PROVE RunCancellable'
  BY <1>4 DEF StartUser, StartPlan, RunCancellable, TypeOK
<1>5. ASSUME NEW r \in Req, AskPermission(r) \/ AskEnds(r) \/ RunEnds(r) PROVE RunCancellable'
  BY <1>5 DEF AskPermission, AskEnds, RunEnds, RunCancellable, TypeOK
<1>6. ASSUME NEW r \in Req, Finish(r) PROVE RunCancellable'
  BY <1>6 DEF Finish, RunCancellable, TypeOK
<1> QED
  BY <1>1, <1>2, <1>3, <1>4, <1>5, <1>6, OutsideStep

\* What is left of the frames the relay reads from an agent connection.
LEMMA ReachableStep ==
  ASSUME TypeOK, TypeOK', BlockedOnSetting, AgentReachable, [Next]_vars
  PROVE  AgentReachable'
<1> USE NameAssumption DEF relayVars, agentVars, fixed
<1> DEFINE Kept == \A c \in Conn : up[c] # <<>> => up'[c] # <<>> /\ Head(up'[c]) = Head(up[c])
           Same == registry' = registry /\ current' = current /\ link' = link
<1>1. ASSUME Kept, Same PROVE AgentReachable'
  BY <1>1 DEF AgentReachable
<1>2. CASE UNCHANGED vars
  BY <1>2, <1>1 DEF vars
<1>3. ASSUME NEW p \in Peer, PhoneConnects(p) \/ PhoneEnds(p) \/ PeerLost(p) PROVE AgentReachable'
  BY <1>3 DEF PhoneConnects, PhoneEnds, PeerLost, AgentReachable, TypeOK
<1>4. ASSUME NEW p \in Peer, NEW r \in Req, PhoneSends(p, r) \/ PhoneAnswers(p, r)
      PROVE  Kept /\ Same
  BY <1>4 DEF PhoneSends, PhoneAnswers
<1>5. ASSUME NEW c \in Conn, RelayReads(c) PROVE AgentReachable'
  <2>1. CASE Head(up[c]).type = "online"
    BY <1>5, <2>1 DEF RelayReads, Register, AgentReachable, TypeOK
  <2>2. CASE Head(up[c]).type # "online"
    <3>1. up' = [up EXCEPT ![c] = Tail(@)] /\ Same /\ Head(up[c]) # Online
      BY <1>5, <2>2 DEF RelayReads, Online
    <3> QED
      BY <3>1 DEF AgentReachable, TypeOK
  <2> QED
    BY <2>1, <2>2
<1>6. ASSUME NEW c \in Conn, AuthorizationFails(c) PROVE AgentReachable'
  BY <1>6 DEF AuthorizationFails, AgentReachable, TypeOK
<1>7. ASSUME NEW c \in Conn, AgentHandlerEnds(c) \/ AgentDrops(c) PROVE AgentReachable'
  BY <1>7 DEF AgentHandlerEnds, AgentDrops, Unregister, AgentReachable, TypeOK
<1>8. ASSUME NEW c \in Conn, ConnLost(c) PROVE AgentReachable'
  BY <1>8 DEF ConnLost, AgentReachable, TypeOK
<1>9. ASSUME NEW c \in Conn, AgentConnects(c) PROVE AgentReachable'
  BY <1>9 DEF AgentConnects, AgentReachable, TypeOK
<1>10. ASSUME NEW c \in Conn, Read(c) PROVE AgentReachable'
  <2> DEFINE r == Head(down[c]).req
  <2>1. r \in Req
    BY <1>10, ReadStep
  <2>2. Final(r) \in UpFrame
    BY <2>1 DEF Final, UpFrame
  <2>3. up' = up \/ Write(c, Final(r))
    BY <1>10, MixesAssumption DEF Read, ReadSetting, ReadPause
  <2> QED
    BY <1>10, <1>1, <2>2, <2>3, WriteFrame DEF Read
<1>11. ASSUME NEW c \in Conn, Unblock(c) PROVE AgentReachable'
  <2>1. Final(blocked[c]) \in UpFrame
    BY <1>11 DEF Unblock, Final, UpFrame, TypeOK
  <2> QED
    BY <1>11, <1>1, <2>1, WriteFrame DEF Unblock
<1>12. ASSUME NEW r \in Req, \/ StartUser(r) \/ StartPlan(r) \/ AskPermission(r)
                            \/ AskEnds(r) \/ RunEnds(r) \/ Finish(r)
       PROVE  AgentReachable'
  <2>1. Final(r) \in UpFrame /\ Ask(r) \in UpFrame /\ via[r] \in Conn \cup {None}
    BY DEF Final, Ask, UpFrame, TypeOK
  <2>2. up' = up \/ Write(via[r], Final(r)) \/ Write(via[r], Ask(r))
    BY <1>12 DEF StartUser, StartPlan, AskPermission, AskEnds, RunEnds, Finish
  <2>3. Same
    BY <1>12 DEF StartUser, StartPlan, AskPermission, AskEnds, RunEnds, Finish
  <2> QED
    BY <1>1, <2>1, <2>2, <2>3, WriteFrame
<1> QED
  BY <1>1, <1>2, <1>3, <1>4, <1>5, <1>6, <1>7, <1>8, <1>9, <1>10, <1>11, <1>12 DEF Next, Agent

LEMMA Invariant == Spec => []IInv
<1>1. Init => IInv
  BY InvInit
<1>2. IInv /\ [Next]_vars => IInv'
  BY TypeStep, DeliveredStep, BlockedStep, CancellableStep, ReachableStep DEF IInv
<1> QED
  BY <1>1, <1>2, PTL DEF Spec

-----------------------------------------------------------------------------
\* Every variable has its type, the frames on their way included.
THEOREM TypeCorrect == Spec => []TypeOK
<1>1. IInv => TypeOK
  BY DEF IInv
<1> QED
  BY <1>1, Invariant, PTL

\* A pause always reaches the one run in progress (sessionRuntime.start, finish).
THEOREM RunsCancellable == Spec => []RunCancellable
<1>1. IInv => RunCancellable
  BY DEF IInv
<1> QED
  BY <1>1, Invariant, PTL

\* The relay has, or is about to read, the registration of the connection the agent
\* listens on (registerAgent, unregisterAgent).
THEOREM AgentsReachable == Spec => []AgentReachable
<1>1. IInv => AgentReachable
  BY DEF IInv
<1> QED
  BY <1>1, Invariant, PTL

-----------------------------------------------------------------------------
(* The answers on their way to the phone. *)

\* The relay has a route for what it was sent and nobody has answered yet.
Routed ==
  revokes = 0 => \A r \in sent : at[r] \notin {"replied", "done"} => routes[r] # NoRoute

\* An answer that is on its way is the only one, and the relay still has its route.
Answers ==
  /\ \A c \in Conn, r \in Req : \A i \in 1 .. Len(up[c]) :
       up[c][i] = Final(r) =>
         at[r] \in {"replied", "done"} /\ (revokes = 0 => routes[r] # NoRoute)
  /\ \A c, d \in Conn, r \in Req : \A i \in 1 .. Len(up[c]), k \in 1 .. Len(up[d]) :
       up[c][i] = Final(r) /\ up[d][k] = Final(r) => c = d /\ i = k

\* A setting blocks one reader.
BlockedOnce ==
  /\ \A c \in Conn : blocked[c] # None => at[blocked[c]] = "reader"
  /\ \A c, d \in Conn : blocked[c] # None /\ blocked[c] = blocked[d] => c = d

\* Nothing has been written to a connection that is yet to be opened.
Unused == \A c \in Conn : link[c] = "new" => up[c] = <<>>

AnswerInv == Routed /\ Answers /\ BlockedOnce /\ Unused

\* Of the frames of each connection the first or the last ones may be gone.
Fewer ==
  \A c \in Conn : \E k \in {0, 1} : \A i \in 1 .. Len(up'[c]) :
    i + k \in 1 .. Len(up[c]) /\ up'[c][i] = up[c][i + k]

\* A step that adds no frame.
LEMMA AnswersKept ==
  ASSUME TypeOK, TypeOK', Answers, Fewer,
         \A r \in Req : at[r] \in {"replied", "done"} => at'[r] \in {"replied", "done"},
         \A c \in Conn, r \in Req : \A i \in 1 .. Len(up'[c]) :
           up'[c][i] = Final(r) /\ revokes' = 0 /\ (revokes = 0 => routes[r] # NoRoute)
             => routes'[r] # NoRoute
  PROVE  Answers'
<1>1. ASSUME NEW c \in Conn, NEW r \in Req, NEW i \in 1 .. Len(up'[c]), up'[c][i] = Final(r)
      PROVE  at'[r] \in {"replied", "done"} /\ (revokes' = 0 => routes'[r] # NoRoute)
  <2>1. PICK j \in 1 .. Len(up[c]) : up[c][j] = Final(r)
    BY <1>1 DEF Fewer
  <2> QED
    BY <1>1, <2>1 DEF Answers
<1>2. ASSUME NEW c \in Conn, NEW d \in Conn, NEW r \in Req,
             NEW i \in 1 .. Len(up'[c]), NEW k \in 1 .. Len(up'[d]),
             up'[c][i] = Final(r), up'[d][k] = Final(r)
      PROVE  c = d /\ i = k
  <2>1. PICK x \in {0, 1} : \A n \in 1 .. Len(up'[c]) :
          n + x \in 1 .. Len(up[c]) /\ up'[c][n] = up[c][n + x]
    BY DEF Fewer
  <2>2. PICK y \in {0, 1} : \A n \in 1 .. Len(up'[d]) :
          n + y \in 1 .. Len(up[d]) /\ up'[d][n] = up[d][n + y]
    BY DEF Fewer
  <2>3. i + x \in 1 .. Len(up[c]) /\ up[c][i + x] = Final(r)
    BY <1>2, <2>1
  <2>4. k + y \in 1 .. Len(up[d]) /\ up[d][k + y] = Final(r)
    BY <1>2, <2>2
  <2>5. c = d /\ i + x = k + y
    BY <2>3, <2>4 DEF Answers
  <2>6. i \in Int /\ k \in Int
    OBVIOUS
  <2>7. k + x \in 1 .. Len(up[c]) /\ up[c][k + x] = Final(r)
    BY <1>2, <2>1, <2>5
  <2>8. k + x = k + y
    BY <2>4, <2>5, <2>7 DEF Answers
  <2> QED
    BY <2>5, <2>6, <2>8
<1> QED
  BY <1>1, <1>2 DEF Answers

\* The frames stay.
LEMMA FewerSame == ASSUME TypeOK, up' = up PROVE Fewer
BY DEF Fewer, TypeOK

\* The first frame of a connection is read.
LEMMA FewerRead ==
  ASSUME TypeOK, NEW c \in Conn, up[c] # <<>>, up' = [up EXCEPT ![c] = Tail(@)]
  PROVE  Fewer
<1>1. up[c] \in Seq(UpFrame)
  BY DEF TypeOK
<1>2. /\ Len(up[c]) \in Nat /\ Len(Tail(up[c])) = Len(up[c]) - 1
      /\ \A i \in 1 .. Len(Tail(up[c])) : Tail(up[c])[i] = up[c][i + 1]
  BY <1>1, ReadFrame
<1>3. ASSUME NEW d \in Conn
      PROVE  \E k \in {0, 1} : \A i \in 1 .. Len(up'[d]) :
               i + k \in 1 .. Len(up[d]) /\ up'[d][i] = up[d][i + k]
  <2>1. CASE d = c
    <3>1. \A i \in 1 .. Len(up'[c]) : i + 1 \in 1 .. Len(up[c]) /\ up'[c][i] = up[c][i + 1]
      BY <1>2 DEF TypeOK
    <3> QED
      BY <2>1, <3>1
  <2>2. CASE d # c
    BY <2>2 DEF TypeOK
  <2> QED
    BY <2>1, <2>2
<1> QED
  BY <1>3 DEF Fewer

\* A connection is lost with its last frames.
LEMMA FewerLost ==
  ASSUME TypeOK, NEW c \in Conn, NEW s \in Prefixes(up[c]), up' = [up EXCEPT ![c] = s]
  PROVE  Fewer
<1>1. /\ s \in Seq(UpFrame) /\ Len(s) <= Len(up[c]) /\ Len(s) \in Nat /\ Len(up[c]) \in Nat
      /\ \A i \in 1 .. Len(s) : s[i] = up[c][i]
  BY PrefixOf, LenProperties DEF TypeOK
<1>2. ASSUME NEW d \in Conn
      PROVE  \A i \in 1 .. Len(up'[d]) : i + 0 \in 1 .. Len(up[d]) /\ up'[d][i] = up[d][i + 0]
  <2>1. CASE d = c
    BY <1>1, <2>1 DEF TypeOK
  <2>2. CASE d # c
    BY <2>2 DEF TypeOK
  <2> QED
    BY <2>1, <2>2
<1> QED
  BY <1>2 DEF Fewer

\* An answer is written, or a question.
LEMMA AnswerWritten ==
  ASSUME TypeOK, TypeOK', Answers, Routed, NEW c \in Conn \cup {None}, NEW m \in UpFrame, Write(c, m),
         routes' = routes, revokes' = revokes, NEW r \in sent, m.type = "final" => m = Final(r),
         m.type = "final" => at[r] \notin {"replied", "done"} /\ at'[r] \in {"replied", "done"},
         \A q \in Req : at[q] \in {"replied", "done"} => at'[q] \in {"replied", "done"}
  PROVE  Answers'
<1> DEFINE n(d) == Len(up[d]) + 1
<1>0. \A q \in Req : Final(q).type = "final" /\ Final(q).req = q
  BY DEF Final
<1>2. r \in Req /\ (m = Final(r) => at[r] \notin {"replied", "done"})
  BY <1>0 DEF TypeOK
<1>1. ASSUME NEW d \in Conn, NEW q \in Req, NEW i \in 1 .. Len(up'[d]), up'[d][i] = Final(q)
      PROVE  \/ i \in 1 .. Len(up[d]) /\ up[d][i] = Final(q)
             \/ d = c /\ i = n(d) /\ q = r /\ m = Final(r)
  <2>1. CASE up'[d] = up[d]
    BY <1>1, <2>1
  <2>2. CASE d = c /\ up'[d] = Append(up[d], m)
    <3>1. /\ Len(up'[d]) = n(d) /\ up'[d][n(d)] = m /\ Len(up[d]) \in Nat
          /\ \A k \in 1 .. Len(up[d]) : up'[d][k] = up[d][k]
      BY <2>2, AppendProperties, LenProperties DEF TypeOK
    <3>2. CASE i = n(d)
      <4>1. m = Final(q)
        BY <1>1, <3>1, <3>2
      <4>2. m = Final(r) /\ q = r
        <5>1. m.type = "final" /\ m.req = q
          BY <4>1, <1>0
        <5>2. m = Final(r) /\ r \in Req
          BY <5>1, <1>2
        <5> QED
          BY <5>1, <5>2, <1>0
      <4> QED
        BY <2>2, <3>2, <4>2
    <3>3. CASE i # n(d)
      BY <1>1, <3>1, <3>3
    <3> QED
      BY <3>2, <3>3
  <2> QED
    BY <2>1, <2>2 DEF Write, TypeOK
<1> HIDE DEF n
<1>3. \A d \in Conn, q \in Req : \A i \in 1 .. Len(up'[d]) :
        up'[d][i] = Final(q) => at'[q] \in {"replied", "done"} /\ (revokes' = 0 => routes'[q] # NoRoute)
  BY <1>0, <1>1, <1>2 DEF Answers, Routed
<1>4. ASSUME NEW d \in Conn, NEW e \in Conn, NEW q \in Req,
             NEW i \in 1 .. Len(up'[d]), NEW k \in 1 .. Len(up'[e]),
             up'[d][i] = Final(q), up'[e][k] = Final(q)
      PROVE  d = e /\ i = k
  BY <1>1, <1>2, <1>4 DEF Answers
<1> QED
  BY <1>3, <1>4 DEF Answers

\* The relay keeps the routes of what it forwards, but that of an answer.
LEMMA ForwardRoutes ==
  ASSUME TypeOK, NEW m \in UpFrame, m.req \in Req, ForwardToClient(m), NEW r \in Req,
         routes[r] # NoRoute, routes'[r] = NoRoute
  PROVE  r = m.req /\ m.type = "final"
<1> USE RouteAssumption
<1> DEFINE Table == [Req -> Peer \cup {None, NoRoute}]
<1>1. routes \in Table /\ \A p \in Peer : Detached(p) \in Table /\ Detached(p)[r] # NoRoute
  BY DEF TypeOK, Detached
<1>2. ASSUME NEW p \in Peer, NEW t \in Table, t[r] # NoRoute, Written(p, m, t)
      PROVE  r = m.req /\ m.type = "final"
  BY <1>2 DEF Written
<1>3. ASSUME NEW t \in Table, t[r] # NoRoute, Refused(t) PROVE FALSE
  BY <1>3 DEF Refused
<1>4. CASE routes[m.req] = NoRoute \/ connections = {}
  <2> DEFINE t == [routes EXCEPT ![m.req] = IF @ = NoRoute THEN @ ELSE None]
  <2>1. t \in Table /\ t[r] # NoRoute
    BY <1>1
  <2>2. Refused(t)
    BY <1>4 DEF ForwardToClient
  <2> QED
    BY <2>1, <2>2, <1>3
<1>5. CASE ~(routes[m.req] = NoRoute \/ connections = {})
  <2>1. PICK p \in Targets(routes[m.req], connections) :
          (Written(p, m, routes) /\ UNCHANGED connections) \/ Retried(p, m)
    BY <1>5 DEF ForwardToClient
  <2>2. p \in Peer /\ connections \subseteq Peer
    BY <2>1 DEF Targets, TypeOK
  <2>3. CASE Written(p, m, routes)
    BY <2>2, <2>3, <1>1, <1>2
  <2>4. CASE Retried(p, m)
    <3>1. ASSUME NEW q \in Peer
          PROVE  /\ [Detached(p) EXCEPT ![m.req] = q] \in Table
                 /\ [Detached(p) EXCEPT ![m.req] = q][r] # NoRoute
      BY <1>1, <2>2
    <3>2. \/ Refused(Detached(p))
          \/ \E q \in Peer : Written(q, m, Detached(p))
          \/ \E q \in Peer : Refused([Detached(p) EXCEPT ![m.req] = q])
      BY <2>2, <2>4 DEF Retried
    <3> QED
      BY <1>1, <1>2, <1>3, <2>2, <3>1, <3>2
  <2> QED
    BY <2>1, <2>3, <2>4
<1> QED
  BY <1>4, <1>5

\* A request that has been answered stays so.
LEMMA DoneStep ==
  ASSUME TypeOK, Delivered, BlockedOnce, [Next]_vars, NEW r \in Req, at[r] \in {"replied", "done"}
  PROVE  at'[r] \in {"replied", "done"}
<1>1. CASE UNCHANGED <<at, cancel, blocked>>
  BY <1>1
<1>2. ASSUME NEW c \in Conn, Unblock(c) PROVE at'[r] \in {"replied", "done"}
  BY <1>2 DEF Unblock, TypeOK
<1>3. ASSUME NEW c \in Conn, Read(c) PROVE at'[r] \in {"replied", "done"}
  <2> DEFINE q == Head(down[c]).req
  <2>1. q \in Req
    BY <1>3, ReadStep
  <2>2. CASE Head(down[c]).type = "grant"
    <3>1. at' = [at EXCEPT ![q] = IF @ = "asking" THEN "running" ELSE @]
      BY <1>3, <2>2, ReadStep
    <3> QED
      BY <2>1, <3>1 DEF TypeOK
  <2>3. CASE Head(down[c]).type # "grant"
    <3>1. at[q] = "none" /\ \E l \in {"start", "lock", "reader", "done"} : at' = [at EXCEPT ![q] = l]
      BY <1>3, <2>3, NewRequest, ReadStep
    <3> QED
      BY <2>1, <3>1 DEF TypeOK
  <2> QED
    BY <2>2, <2>3
<1>4. ASSUME NEW q \in Req, \/ StartUser(q) \/ StartPlan(q) \/ AskPermission(q)
                           \/ AskEnds(q) \/ RunEnds(q) \/ Finish(q)
      PROVE  at'[r] \in {"replied", "done"}
  BY <1>4 DEF StartUser, StartPlan, AskPermission, AskEnds, RunEnds, Finish, TypeOK
<1> QED
  BY <1>1, <1>2, <1>3, <1>4, OutsideStep

\* The steps that touch the routes, the requests sent and the authorization.
LEMMA RouteStep ==
  ASSUME TypeOK, [Next]_vars
  PROVE  \/ UNCHANGED <<routes, sent, revokes>>
         \/ \E p \in Peer : PhoneEnds(p)
         \/ \E p \in Peer, r \in Req : PhoneSends(p, r) \/ PhoneAnswers(p, r)
         \/ \E c \in Conn : RelayReads(c) \/ AuthorizationFails(c)
<1> USE DEF relayVars, agentVars, fixed
<1>1. CASE UNCHANGED vars
  BY <1>1 DEF vars
<1>2. CASE \E p \in Peer : PhoneConnects(p) \/ PeerLost(p)
  BY <1>2 DEF PhoneConnects, PeerLost
<1>3. ASSUME NEW c \in Conn, \/ AgentHandlerEnds(c) \/ ConnLost(c) \/ AgentConnects(c)
                            \/ AgentDrops(c) \/ Read(c) \/ Unblock(c)
      PROVE  UNCHANGED <<routes, sent, revokes>>
  BY <1>3 DEF AgentHandlerEnds, ConnLost, AgentConnects, AgentDrops, Read, Unblock
<1>4. ASSUME NEW r \in Req, \/ StartUser(r) \/ StartPlan(r) \/ AskPermission(r)
                           \/ AskEnds(r) \/ RunEnds(r) \/ Finish(r)
      PROVE  UNCHANGED <<routes, sent, revokes>>
  BY <1>4 DEF StartUser, StartPlan, AskPermission, AskEnds, RunEnds, Finish
<1> QED
  BY <1>1, <1>2, <1>3, <1>4 DEF Next, Agent

\* A frame that is not a registration is a question or an answer about a request.
LEMMA FrameOf ==
  ASSUME TypeOK, NEW c \in Conn, up[c] # <<>>, Head(up[c]).type # "online"
  PROVE  /\ Head(up[c]) \in UpFrame /\ Head(up[c]).req \in Req
         /\ Head(up[c]).type = "final" => Head(up[c]) = Final(Head(up[c]).req)
         /\ 1 \in 1 .. Len(up[c]) /\ Head(up[c]) = up[c][1]
<1>1. up[c] \in Seq(UpFrame)
  BY DEF TypeOK
<1>2. Head(up[c]) \in UpFrame /\ Head(up[c]) = up[c][1] /\ Len(up[c]) \in Nat /\ Len(up[c]) > 0
  BY <1>1, ReadFrame
<1> QED
  BY <1>2 DEF UpFrame, Online, Final

\* The relay gives a route up with the answer, or them all.
LEMMA RouteKept ==
  ASSUME TypeOK, [Next]_vars, revokes' = 0, NEW r \in Req, routes[r] # NoRoute
  PROVE  /\ revokes = 0
         /\ \/ routes'[r] # NoRoute
            \/ \E c \in Conn : /\ RelayReads(c) /\ registry = c /\ up[c] # <<>>
                               /\ Head(up[c]) = Final(r)
<1> USE RouteAssumption
<1>1. CASE UNCHANGED <<routes, sent, revokes>>
  BY <1>1
<1>2. ASSUME NEW p \in Peer, PhoneEnds(p) PROVE revokes = 0 /\ routes'[r] # NoRoute
  BY <1>2 DEF PhoneEnds, Detached, fixed
<1>3. ASSUME NEW p \in Peer, NEW q \in Req, PhoneSends(p, q) \/ PhoneAnswers(p, q)
      PROVE  revokes = 0 /\ routes'[r] # NoRoute
  <2>1. revokes' = revokes /\ (routes' = routes \/ routes' = [routes EXCEPT ![q] = p])
    BY <1>3 DEF PhoneSends, PhoneAnswers, fixed
  <2> QED
    BY <2>1 DEF TypeOK
<1>4. ASSUME NEW c \in Conn, AuthorizationFails(c) PROVE FALSE
  BY <1>4 DEF AuthorizationFails, TypeOK
<1>5. ASSUME NEW c \in Conn, RelayReads(c)
      PROVE  /\ revokes = 0
             /\ routes'[r] # NoRoute \/ (registry = c /\ up[c] # <<>> /\ Head(up[c]) = Final(r))
  <2>1. revokes' = revokes /\ up[c] # <<>>
    BY <1>5 DEF RelayReads, fixed
  <2>2. CASE Head(up[c]).type = "online" \/ registry # c
    BY <1>5, <2>1, <2>2 DEF RelayReads, Register
  <2>3. CASE Head(up[c]).type # "online" /\ registry = c
    <3>1. ForwardToClient(Head(up[c]))
      BY <1>5, <2>3 DEF RelayReads
    <3> QED
      BY <2>1, <2>3, <3>1, FrameOf, ForwardRoutes
  <2> QED
    BY <2>1, <2>2, <2>3
<1> QED
  BY <1>1, <1>2, <1>3, <1>4, <1>5, RouteStep

\* A request is routed until it is answered.
LEMMA RoutedStep ==
  ASSUME TypeOK, TypeOK', Delivered, AnswerInv, [Next]_vars
  PROVE  Routed'
<1> USE RouteAssumption
<1> SUFFICES ASSUME NEW r \in sent', revokes' = 0, at'[r] \notin {"replied", "done"}
             PROVE  routes'[r] # NoRoute
  BY DEF Routed
<1>1. r \in Req /\ at[r] \notin {"replied", "done"}
  <2>1. r \in Req
    BY DEF TypeOK
  <2> QED
    BY <2>1, DoneStep DEF AnswerInv
<1>2. CASE r \in sent
  <2>1. ASSUME NEW c \in Conn, up[c] # <<>>, Head(up[c]) = Final(r) PROVE FALSE
    <3>1. Head(up[c]).type = "final"
      BY <2>1 DEF Final
    <3>2. 1 \in 1 .. Len(up[c]) /\ up[c][1] = Final(r)
      BY <2>1, <3>1, FrameOf
    <3> QED
      BY <1>1, <3>2 DEF AnswerInv, Answers
  <2>2. revokes = 0
    <3>1. revokes' = revokes \/ revokes' = revokes + 1
      BY RouteStep DEF PhoneEnds, PhoneSends, PhoneAnswers, RelayReads, AuthorizationFails, fixed
    <3> QED
      BY <3>1 DEF TypeOK
  <2>3. routes[r] # NoRoute
    BY <1>1, <1>2, <2>2 DEF AnswerInv, Routed
  <2> QED
    BY <1>1, <2>1, <2>3, RouteKept
<1>3. CASE r \notin sent
  <2>1. ASSUME NEW p \in Peer, NEW q \in Req, PhoneSends(p, q) PROVE routes'[r] # NoRoute
    BY <1>1, <1>3, <2>1 DEF PhoneSends, TypeOK
  <2> QED
    BY <1>3, <2>1, RouteStep DEF PhoneEnds, PhoneAnswers, RelayReads, AuthorizationFails
<1> QED
  BY <1>2, <1>3

\* One reader is blocked on a setting.
LEMMA BlockedOnceStep ==
  ASSUME TypeOK, TypeOK', Delivered, BlockedOnce, [Next]_vars
  PROVE  BlockedOnce'
<1> USE NameAssumption
<1>1. CASE UNCHANGED <<at, cancel, blocked>>
  BY <1>1 DEF BlockedOnce
<1>2. ASSUME NEW c \in Conn, Unblock(c) PROVE BlockedOnce'
  BY <1>2 DEF Unblock, BlockedOnce, TypeOK
<1>3. ASSUME NEW c \in Conn, Read(c) PROVE BlockedOnce'
  <2> DEFINE r == Head(down[c]).req
  <2>1. r \in Req /\ blocked[c] = None
    BY <1>3, ReadStep DEF Read
  <2>2. CASE Head(down[c]).type = "grant"
    <3>1. at' = [at EXCEPT ![r] = IF @ = "asking" THEN "running" ELSE @] /\ blocked' = blocked
      BY <1>3, <2>2, ReadStep DEF Read
    <3> QED
      BY <2>1, <3>1 DEF BlockedOnce, TypeOK
  <2>3. CASE Head(down[c]).type # "grant"
    <3>1. at[r] = "none"
      BY <1>3, <2>3, NewRequest
    <3>2. PICK q \in {"start", "lock", "reader", "done"} : at' = [at EXCEPT ![r] = q]
      BY <1>3, <2>3, ReadStep
    <3>3. blocked' = blocked \/ (blocked' = [blocked EXCEPT ![c] = r] /\ at' = [at EXCEPT ![r] = "reader"])
      BY <1>3, <2>3 DEF Read, ReadSetting
    <3> HIDE DEF r
    <3>4. CASE blocked' = blocked
      BY <2>1, <3>1, <3>2, <3>4 DEF BlockedOnce, TypeOK
    <3>5. CASE blocked' = [blocked EXCEPT ![c] = r] /\ at' = [at EXCEPT ![r] = "reader"]
      <4>1. \A d \in Conn : blocked[d] # None => blocked[d] # r
        BY <3>1 DEF BlockedOnce
      <4>2. \A d \in Conn : blocked'[d] = IF d = c THEN r ELSE blocked[d]
        BY <3>5 DEF TypeOK
      <4>3. \A d \in Conn : blocked'[d] # None => at'[blocked'[d]] = "reader"
        BY <2>1, <3>5, <4>1, <4>2, ZenonT(60) DEF BlockedOnce, TypeOK
      <4>4. \A d, e \in Conn : blocked'[d] # None /\ blocked'[d] = blocked'[e] => d = e
        BY <4>1, <4>2 DEF BlockedOnce
      <4> QED
        BY <4>3, <4>4 DEF BlockedOnce
    <3> QED
      BY <3>3, <3>4, <3>5
  <2> QED
    BY <2>2, <2>3
<1>4. ASSUME NEW r \in Req, \/ StartUser(r) \/ StartPlan(r) \/ AskPermission(r)
                           \/ AskEnds(r) \/ RunEnds(r) \/ Finish(r)
      PROVE  BlockedOnce'
  <2>1. blocked' = blocked /\ at[r] # "reader"
    BY <1>4 DEF StartUser, StartPlan, AskPermission, AskEnds, RunEnds, Finish
  <2>2. \A q \in Req : q # r => at'[q] = at[q]
    BY <1>4 DEF StartUser, StartPlan, AskPermission, AskEnds, RunEnds, Finish, TypeOK
  <2> QED
    BY <2>1, <2>2 DEF BlockedOnce, TypeOK
<1> QED
  BY <1>1, <1>2, <1>3, <1>4, OutsideStep

\* What a step does to the frames on their way to the relay.
LEMMA UpStep ==
  ASSUME TypeOK, TypeOK', Delivered, AnswerInv, [Next]_vars
  PROVE  \/ up' = up
         \/ \E c \in Conn : /\ link[c] \in {"up", "down"} /\ up[c] # <<>>
                            /\ up' = [up EXCEPT ![c] = Tail(@)]
                            /\ RelayReads(c) \/ AuthorizationFails(c)
         \/ \E c \in Conn : ConnLost(c)
         \/ \E c \in Conn : AgentConnects(c)
         \/ /\ routes' = routes /\ revokes' = revokes /\ link' = link
            /\ \E c \in Conn \cup {None}, m \in UpFrame, r \in sent :
                 /\ Write(c, m)
                 /\ m.type = "final" => m = Final(r)
                 /\ m.type = "final" =>
                      at[r] \notin {"replied", "done"} /\ at'[r] \in {"replied", "done"}
<1> USE DEF relayVars, agentVars, fixed
<1> DEFINE Writes ==
      /\ routes' = routes /\ revokes' = revokes /\ link' = link
      /\ \E c \in Conn \cup {None}, m \in UpFrame, r \in sent :
           /\ Write(c, m)
           /\ m.type = "final" => m = Final(r)
           /\ m.type = "final" =>
                at[r] \notin {"replied", "done"} /\ at'[r] \in {"replied", "done"}
<1>0. \A r \in Req : /\ Final(r) \in UpFrame /\ Ask(r) \in UpFrame /\ Final(r).type = "final"
                     /\ Ask(r).type = "ask"
  BY DEF Final, Ask, UpFrame
<1>1. ASSUME UNCHANGED vars PROVE up' = up
  BY <1>1 DEF vars
<1>2. ASSUME \E p \in Peer : PhoneConnects(p) \/ PhoneEnds(p) \/ PeerLost(p)
      PROVE  up' = up
  BY <1>2 DEF PhoneConnects, PhoneEnds, PeerLost
<1>3. ASSUME \E p \in Peer, r \in Req : PhoneSends(p, r) \/ PhoneAnswers(p, r)
      PROVE  up' = up
  BY <1>3 DEF PhoneSends, PhoneAnswers
<1>4. ASSUME \E c \in Conn : AgentHandlerEnds(c) \/ AgentDrops(c)
      PROVE  up' = up
  BY <1>4 DEF AgentHandlerEnds, AgentDrops
<1>5. ASSUME NEW c \in Conn, RelayReads(c) \/ AuthorizationFails(c)
      PROVE  link[c] \in {"up", "down"} /\ up[c] # <<>> /\ up' = [up EXCEPT ![c] = Tail(@)]
  BY <1>5 DEF RelayReads, Register, AuthorizationFails
<1>6. ASSUME NEW c \in Conn, NEW r \in sent, Write(c, Final(r)), at[r] \notin {"replied", "done"},
             at'[r] \in {"replied", "done"}, UNCHANGED <<routes, revokes, link>>
      PROVE  Writes
  BY <1>0, <1>6 DEF TypeOK
<1>7. ASSUME NEW c \in Conn, Unblock(c) PROVE Writes
  <2>1. /\ blocked[c] \in Req /\ at[blocked[c]] = "reader" /\ Write(c, Final(blocked[c]))
        /\ at'[blocked[c]] = "done" /\ UNCHANGED <<routes, revokes, link>>
    BY <1>7 DEF Unblock, AnswerInv, BlockedOnce, TypeOK
  <2>2. blocked[c] \in sent
    BY <2>1 DEF Delivered
  <2> QED
    BY <2>1, <2>2, <1>6
<1>8. ASSUME NEW c \in Conn, Read(c) PROVE up' = up \/ Writes
  <2> DEFINE r == Head(down[c]).req
  <2>1. r \in Req /\ UNCHANGED <<routes, revokes, link>>
    BY <1>8, ReadStep DEF Read
  <2>2. CASE Head(down[c]).type = "grant"
    BY <1>8, <2>2 DEF Read
  <2>3. CASE Head(down[c]).type # "grant"
    <3>1. Head(down[c]) = Request(r) /\ at[r] = "none"
      BY <1>8, <2>3, NewRequest, ReadStep
    <3>2. r \in sent
      <4>1. down[c] \in Seq(DownFrame) /\ down[c] # <<>>
        BY <1>8 DEF Read, TypeOK
      <4>2. 1 \in 1 .. Len(down[c]) /\ down[c][1] = Request(r)
        BY <3>1, <4>1, ReadFrame
      <4> QED
        BY <2>1, <4>2 DEF Delivered
    <3>3. up' = up \/ (Write(c, Final(r)) /\ at' = [at EXCEPT ![r] = "done"])
      BY <1>8, <2>3 DEF Read, ReadSetting, ReadPause
    <3> HIDE DEF r
    <3>4. ASSUME Write(c, Final(r)), at' = [at EXCEPT ![r] = "done"] PROVE Writes
      BY <1>6, <2>1, <3>1, <3>2, <3>4 DEF TypeOK
    <3> QED
      BY <3>3, <3>4
  <2> QED
    BY <2>2, <2>3
<1>9. ASSUME NEW r \in Req, \/ StartUser(r) \/ StartPlan(r) \/ AskPermission(r)
                           \/ AskEnds(r) \/ RunEnds(r) \/ Finish(r)
      PROVE  up' = up \/ Writes
  <2>1. UNCHANGED <<routes, revokes, link>> /\ at[r] \notin {"none", "done"} /\ via[r] \in Conn \cup {None}
    BY <1>9 DEF StartUser, StartPlan, AskPermission, AskEnds, RunEnds, Finish, TypeOK
  <2>2. r \in sent
    BY <2>1 DEF Delivered
  <2>3. \/ up' = up
        \/ Write(via[r], Ask(r))
        \/ Write(via[r], Final(r)) /\ at[r] # "replied" /\ at'[r] \in {"replied", "done"}
    BY <1>9 DEF StartUser, StartPlan, AskPermission, AskEnds, RunEnds, Finish, TypeOK
  <2>4. ASSUME Write(via[r], Ask(r)) PROVE Writes
    BY <1>0, <2>1, <2>2, <2>4
  <2>5. ASSUME Write(via[r], Final(r)), at[r] # "replied", at'[r] \in {"replied", "done"} PROVE Writes
    BY <1>0, <2>1, <2>2, <2>5
  <2> QED
    BY <2>3, <2>4, <2>5
<1> HIDE DEF Writes
<1>10. up' = up \/ Writes
         \/ \E c \in Conn : RelayReads(c) \/ AuthorizationFails(c) \/ ConnLost(c) \/ AgentConnects(c)
  <2>1. \/ UNCHANGED vars
        \/ \E p \in Peer : PhoneConnects(p) \/ PhoneEnds(p) \/ PeerLost(p)
        \/ \E p \in Peer, r \in Req : PhoneSends(p, r) \/ PhoneAnswers(p, r)
        \/ \E c \in Conn : AgentHandlerEnds(c) \/ AgentDrops(c)
        \/ \E c \in Conn : RelayReads(c) \/ AuthorizationFails(c) \/ ConnLost(c) \/ AgentConnects(c)
        \/ \E c \in Conn : Unblock(c)
        \/ \E c \in Conn : Read(c)
        \/ \E r \in Req : \/ StartUser(r) \/ StartPlan(r) \/ AskPermission(r)
                           \/ AskEnds(r) \/ RunEnds(r) \/ Finish(r)
    BY DEF Next, Agent
  <2> QED
    BY <2>1, <1>1, <1>2, <1>3, <1>4, <1>7, <1>8, <1>9
<1> QED
  BY <1>5, <1>10 DEF Writes

\* Answers stay single and routed.
LEMMA AnswersStep ==
  ASSUME TypeOK, TypeOK', Delivered, AnswerInv, [Next]_vars
  PROVE  Answers'
<1>1. \A r \in Req : at[r] \in {"replied", "done"} => at'[r] \in {"replied", "done"}
  BY DoneStep DEF AnswerInv
<1>2. ASSUME Fewer,
             \A c \in Conn, d \in Conn, r \in Req : \A i \in 1 .. Len(up'[d]) :
               RelayReads(c) /\ up[c] # <<>> /\ Head(up[c]) = Final(r) => up'[d][i] # Final(r)
      PROVE  Answers'
  <2>1. \A c \in Conn, r \in Req : \A i \in 1 .. Len(up'[c]) :
          up'[c][i] = Final(r) /\ revokes' = 0 /\ (revokes = 0 => routes[r] # NoRoute)
            => routes'[r] # NoRoute
    <3> SUFFICES ASSUME NEW c \in Conn, NEW r \in Req, NEW i \in 1 .. Len(up'[c]),
                        up'[c][i] = Final(r), revokes' = 0, revokes = 0 => routes[r] # NoRoute
                 PROVE  routes'[r] # NoRoute
      OBVIOUS
    <3>1. revokes = 0
      <4>1. revokes' = revokes \/ revokes' = revokes + 1
        BY RouteStep DEF PhoneEnds, PhoneSends, PhoneAnswers, RelayReads, AuthorizationFails, fixed
      <4> QED
        BY <4>1 DEF TypeOK
    <3> QED
      BY <1>2, <3>1, RouteKept
  <2> QED
    BY <1>1, <1>2, <2>1, AnswersKept DEF AnswerInv
<1>3. ASSUME NEW c \in Conn, RelayReads(c) PROVE up' = [up EXCEPT ![c] = Tail(@)] /\ up[c] # <<>>
  BY <1>3 DEF RelayReads, Register
<1>4. CASE up' = up
  <2>1. ASSUME NEW c \in Conn, RelayReads(c) PROVE FALSE
    <3>1. up[c] \in Seq(UpFrame) /\ up[c] # <<>> /\ Tail(up[c]) = up[c]
      BY <1>3, <1>4, <2>1 DEF TypeOK
    <3>2. Len(Tail(up[c])) = Len(up[c]) - 1 /\ Len(up[c]) \in Nat
      BY <3>1, ReadFrame
    <3>3. Len(up[c]) = Len(up[c]) - 1
      BY <3>1, <3>2, Zenon
    <3> QED
      BY <3>2, <3>3
  <2> QED
    BY <1>2, <1>4, <2>1, FewerSame
<1>5. ASSUME NEW c \in Conn, up[c] # <<>>, up' = [up EXCEPT ![c] = Tail(@)],
             RelayReads(c) \/ AuthorizationFails(c)
      PROVE  Answers'
  <2>1. /\ up[c] \in Seq(UpFrame) /\ Len(up[c]) \in Nat /\ Len(Tail(up[c])) = Len(up[c]) - 1
        /\ Head(up[c]) = up[c][1] /\ Len(up[c]) > 0
        /\ \A i \in 1 .. Len(Tail(up[c])) : Tail(up[c])[i] = up[c][i + 1]
    BY <1>5, ReadFrame DEF TypeOK
  <2>2. ASSUME NEW d \in Conn, RelayReads(d) PROVE d = c
    <3>1. up[d] \in Seq(UpFrame) /\ up[d] # <<>>
      BY <1>3, <2>2 DEF TypeOK
    <3>2. Len(Tail(up[d])) = Len(up[d]) - 1 /\ Len(up[d]) \in Nat
      BY <3>1, ReadFrame
    <3>3. up'[d] = Tail(up[d]) /\ (d # c => up'[d] = up[d])
      BY <1>3, <1>5, <2>2 DEF TypeOK
    <3>4. d # c => Len(up[d]) = Len(up[d]) - 1
      BY <3>2, <3>3, Zenon
    <3> QED
      BY <3>2, <3>4
  <2>3. ASSUME NEW d \in Conn, NEW r \in Req, NEW i \in 1 .. Len(up'[d]), Head(up[c]) = Final(r),
               up'[d][i] = Final(r)
        PROVE  FALSE
    <3>1. 1 \in 1 .. Len(up[c]) /\ up[c][1] = Final(r)
      BY <2>1, <2>3
    <3>2. CASE d = c
      <4>1. i + 1 \in 1 .. Len(up[c]) /\ up[c][i + 1] = Final(r) /\ i \in Nat /\ i > 0
        BY <1>5, <2>1, <2>3, <3>2 DEF TypeOK
      <4>2. i + 1 = 1
        BY <3>1, <4>1 DEF AnswerInv, Answers
      <4> QED
        BY <4>1, <4>2
    <3>3. CASE d # c
      <4>1. up'[d] = up[d]
        BY <1>5, <3>3 DEF TypeOK
      <4> QED
        BY <2>3, <3>1, <3>3, <4>1 DEF AnswerInv, Answers
    <3> QED
      BY <3>2, <3>3
  <2> QED
    BY <1>2, <1>5, <2>2, <2>3, FewerRead
<1>6. ASSUME NEW c \in Conn, ConnLost(c) PROVE Answers'
  <2>1. PICK s \in Prefixes(up[c]) : up' = [up EXCEPT ![c] = s]
    BY <1>6 DEF ConnLost
  <2>2. Fewer
    BY <2>1, FewerLost
  <2>3. routes' = routes /\ revokes' = revokes
    BY <1>6 DEF ConnLost, relayVars
  <2> QED
    BY <1>1, <2>2, <2>3, AnswersKept DEF AnswerInv
<1>7. ASSUME NEW c \in Conn, AgentConnects(c) PROVE Answers'
  <2>1. up' = [up EXCEPT ![c] = <<Online>>] /\ routes' = routes /\ revokes' = revokes
    BY <1>7 DEF AgentConnects, relayVars, fixed
  <2>2. ASSUME NEW d \in Conn, NEW r \in Req, NEW i \in 1 .. Len(up'[d]), up'[d][i] = Final(r)
        PROVE  i \in 1 .. Len(up[d]) /\ up[d][i] = Final(r)
    <3>1. CASE d = c
      <4>1. Len(up'[d]) = 1 /\ up'[d][1] = Online
        BY <2>1, <3>1 DEF TypeOK
      <4> QED
        BY <2>2, <4>1 DEF Online, Final
    <3>2. CASE d # c
      BY <2>1, <2>2, <3>2 DEF TypeOK
    <3> QED
      BY <3>1, <3>2
  <2> QED
    BY <1>1, <2>1, <2>2 DEF AnswerInv, Answers
<1>8. ASSUME routes' = routes, revokes' = revokes, NEW c \in Conn \cup {None}, NEW m \in UpFrame,
             NEW r \in sent, Write(c, m), m.type = "final" => m = Final(r),
             m.type = "final" => at[r] \notin {"replied", "done"} /\ at'[r] \in {"replied", "done"}
      PROVE  Answers'
  BY <1>1, <1>8, AnswerWritten DEF AnswerInv
<1> QED
  BY <1>4, <1>5, <1>6, <1>7, <1>8, UpStep

\* Nothing is written to a connection before it is opened.
LEMMA UnusedStep ==
  ASSUME TypeOK, TypeOK', Delivered, AnswerInv, [Next]_vars
  PROVE  Unused'
<1> USE NameAssumption
<1>1. \A c \in Conn : link'[c] = "new" => link[c] = "new"
  <2> USE DEF relayVars, agentVars, fixed
  <2>1. CASE UNCHANGED vars
    BY <2>1 DEF vars
  <2>2. ASSUME NEW p \in Peer, PhoneConnects(p) \/ PhoneEnds(p) \/ PeerLost(p)
        PROVE  \A c \in Conn : link'[c] = "new" => link[c] = "new"
    BY <2>2 DEF PhoneConnects, PhoneEnds, PeerLost, TypeOK
  <2>3. CASE \E p \in Peer, r \in Req : PhoneSends(p, r) \/ PhoneAnswers(p, r)
    BY <2>3 DEF PhoneSends, PhoneAnswers
  <2>4. ASSUME NEW c \in Conn, \/ RelayReads(c) \/ AuthorizationFails(c) \/ AgentHandlerEnds(c)
                              \/ ConnLost(c) \/ AgentConnects(c)
        PROVE  \A d \in Conn : link'[d] = "new" => link[d] = "new"
    BY <2>4 DEF RelayReads, Register, AuthorizationFails, AgentHandlerEnds, ConnLost, AgentConnects,
                TypeOK
  <2>5. ASSUME NEW c \in Conn, AgentDrops(c) \/ Read(c) \/ Unblock(c) PROVE link' = link
    BY <2>5 DEF AgentDrops, Read, Unblock
  <2>6. ASSUME NEW r \in Req, \/ StartUser(r) \/ StartPlan(r) \/ AskPermission(r)
                             \/ AskEnds(r) \/ RunEnds(r) \/ Finish(r)
        PROVE  link' = link
    BY <2>6 DEF StartUser, StartPlan, AskPermission, AskEnds, RunEnds, Finish
  <2> QED
    BY <2>1, <2>2, <2>3, <2>4, <2>5, <2>6 DEF Next, Agent
<1>2. CASE up' = up
  BY <1>1, <1>2 DEF AnswerInv, Unused
<1>3. ASSUME NEW c \in Conn, link[c] # "new" \/ link'[c] # "new", \E s : up' = [up EXCEPT ![c] = s]
      PROVE  Unused'
  BY <1>1, <1>3 DEF AnswerInv, Unused, TypeOK
<1>4. ASSUME NEW c \in Conn, ConnLost(c) PROVE Unused'
  <2>1. link[c] # "new" /\ \E s : up' = [up EXCEPT ![c] = s]
    BY <1>4 DEF ConnLost
  <2> QED
    BY <2>1, <1>3
<1>5. ASSUME NEW c \in Conn, AgentConnects(c) PROVE Unused'
  <2>1. link'[c] # "new" /\ \E s : up' = [up EXCEPT ![c] = s]
    BY <1>5 DEF AgentConnects, TypeOK
  <2> QED
    BY <2>1, <1>3
<1>6. ASSUME NEW c \in Conn \cup {None}, NEW m \in UpFrame, Write(c, m), link' = link PROVE Unused'
  <2>1. CASE link[c] = "up"
    BY <1>6, <2>1, <1>1 DEF Write, AnswerInv, Unused, TypeOK
  <2>2. CASE link[c] # "up"
    BY <1>6, <2>2, <1>2 DEF Write
  <2> QED
    BY <2>1, <2>2
<1>7. ASSUME NEW c \in Conn, link[c] \in {"up", "down"}, up' = [up EXCEPT ![c] = Tail(@)]
      PROVE  Unused'
  <2>1. link[c] # "new" /\ \E s : up' = [up EXCEPT ![c] = s]
    BY <1>7
  <2> QED
    BY <2>1, <1>3
<1> QED
  BY <1>2, <1>4, <1>5, <1>6, <1>7, UpStep

LEMMA AnswerInit == ASSUME Init PROVE AnswerInv
BY EmptySeq, NameAssumption DEF Init, AnswerInv, Routed, Answers, BlockedOnce, Unused

LEMMA AnswerInvariant == Spec => [](IInv /\ AnswerInv)
<1>1. Init => IInv /\ AnswerInv
  BY InvInit, AnswerInit
<1>2. IInv /\ AnswerInv /\ [Next]_vars => IInv' /\ AnswerInv'
  <2> SUFFICES ASSUME IInv, AnswerInv, [Next]_vars PROVE IInv' /\ AnswerInv'
    OBVIOUS
  <2>1. IInv'
    BY TypeStep, DeliveredStep, BlockedStep, CancellableStep, ReachableStep DEF IInv
  <2>2. Routed' /\ Answers' /\ BlockedOnce' /\ Unused'
    BY <2>1, RoutedStep, AnswersStep, BlockedOnceStep, UnusedStep DEF IInv, AnswerInv
  <2> QED
    BY <2>1, <2>2 DEF AnswerInv
<1> QED
  BY <1>1, <1>2, PTL DEF Spec

\* Only the relay takes the first frame of a connection.
LEMMA TakenByRelay ==
  ASSUME TypeOK, TypeOK', Delivered, AnswerInv, [Next]_vars, UNCHANGED fixed,
         NEW c \in Conn, up[c] # <<>>, up'[c] = Tail(up[c])
  PROVE  RelayReads(c)
<1>1. /\ up[c] \in Seq(UpFrame) /\ Len(up[c]) \in Nat /\ Len(Tail(up[c])) = Len(up[c]) - 1
  BY ReadFrame DEF TypeOK
<1>2. Len(up'[c]) = Len(up[c]) - 1
  BY <1>1, Zenon
<1>3. ASSUME up'[c] = up[c] PROVE FALSE
  <2>1. Len(up[c]) = Len(up[c]) - 1
    BY <1>2, <1>3, Zenon
  <2> QED
    BY <1>1, <2>1
<1>4. losses' = losses /\ revokes' = revokes /\ losses \in Nat /\ revokes \in Nat
  BY DEF fixed, TypeOK
<1>5. ASSUME NEW d \in Conn, up' = [up EXCEPT ![d] = Tail(@)], RelayReads(d) \/ AuthorizationFails(d)
      PROVE  RelayReads(c)
  <2>1. d = c
    BY <1>3, <1>5 DEF TypeOK
  <2>2. ~AuthorizationFails(d)
    BY <1>4 DEF AuthorizationFails
  <2> QED
    BY <1>5, <2>1, <2>2
<1>6. ASSUME NEW d \in Conn, ConnLost(d) PROVE FALSE
  BY <1>4, <1>6 DEF ConnLost
<1>7. ASSUME NEW d \in Conn, AgentConnects(d) PROVE FALSE
  <2>1. d # c
    BY <1>7 DEF AgentConnects, AnswerInv, Unused
  <2>2. up'[c] = up[c]
    BY <1>7, <2>1 DEF AgentConnects, TypeOK
  <2> QED
    BY <1>3, <2>2
<1>8. ASSUME NEW d \in Conn \cup {None}, NEW m \in UpFrame, Write(d, m) PROVE FALSE
  <2>1. up'[c] = up[c] \/ up'[c] = Append(up[c], m)
    <3>1. CASE up' = up
      BY <3>1
    <3>2. CASE d = c /\ up' = [up EXCEPT ![d] = Append(@, m)]
      BY <3>2 DEF TypeOK
    <3>3. CASE d # c /\ up' = [up EXCEPT ![d] = Append(@, m)]
      BY <3>3 DEF TypeOK
    <3> QED
      BY <1>8, <3>1, <3>2, <3>3 DEF Write
  <2>2. Len(Append(up[c], m)) = Len(up[c]) + 1
    BY <1>1, AppendProperties
  <2>3. CASE up'[c] = Append(up[c], m)
    <3>1. Len(up[c]) - 1 = Len(up[c]) + 1
      BY <1>2, <2>2, <2>3, Zenon
    <3> QED
      BY <1>1, <3>1
  <2> QED
    BY <1>3, <2>1, <2>3
<1>9. up' # up
  BY <1>3
<1> QED
  BY <1>5, <1>6, <1>7, <1>8, <1>9, UpStep

\* forwardToClient finds a live connection if at most one of those registered is gone.
LEMMA Delivery ==
  ASSUME TypeOK, NEW m \in UpFrame, m.req \in Req, m.type = "final", ForwardToClient(m),
         routes[m.req] # NoRoute, \E p \in connections : link[p] = "up",
         \A p, q \in connections : link[p] # "up" /\ link[q] # "up" => p = q
  PROVE  routes'[m.req] = NoRoute
<1>1. ASSUME NEW p \in Peer, NEW t, m.req \in DOMAIN t, Written(p, m, t)
      PROVE  routes'[m.req] = NoRoute
  BY <1>1 DEF Written
<1>2. m.req \in DOMAIN routes /\ \A p \in Peer : m.req \in DOMAIN Detached(p)
  BY DEF TypeOK, Detached
<1>3. PICK p \in Targets(routes[m.req], connections) :
        (Written(p, m, routes) /\ UNCHANGED connections) \/ Retried(p, m)
  BY DEF ForwardToClient
<1>4. p \in connections /\ connections \subseteq Peer
  BY <1>3 DEF Targets, TypeOK
<1>5. CASE Retried(p, m)
  <2>1. link[p] # "up" /\ connections \ {p} # {}
    BY <1>5 DEF Retried
  <2>2. PICK q \in connections \ {p} : Written(q, m, Detached(p)) \/ link[q] # "up"
    BY <1>5, <2>1 DEF Retried
  <2>3. Written(q, m, Detached(p))
    BY <1>4, <2>1, <2>2
  <2> QED
    BY <1>1, <1>2, <1>4, <2>2, <2>3
<1> QED
  BY <1>1, <1>2, <1>3, <1>4, <1>5

\* An answer reaches a connection of the phone, whichever of its connections end and
\* begin meanwhile, unless none is live or two are gone (forwardToClient, unregisterClientPeer).
THEOREM AnswersDelivered == Spec => RefusedOnlyOffline
<1> DEFINE Body ==
      \A c \in Conn :
        /\ registry = c /\ up[c] # <<>> /\ up'[c] = Tail(up[c])
        /\ Head(up[c]).type = "final" /\ revokes = 0 /\ UNCHANGED fixed
        /\ \E p \in connections : link[p] = "up"
        /\ \A p, q \in connections : link[p] # "up" /\ link[q] # "up" => p = q
        => routes[Head(up[c]).req] # NoRoute /\ routes'[Head(up[c]).req] = NoRoute
<1>1. IInv /\ IInv' /\ AnswerInv /\ [Next]_vars => Body
  <2> SUFFICES ASSUME IInv, IInv', AnswerInv, [Next]_vars, NEW c \in Conn,
                      registry = c, up[c] # <<>>, up'[c] = Tail(up[c]),
                      Head(up[c]).type = "final", revokes = 0, UNCHANGED fixed,
                      \E p \in connections : link[p] = "up",
                      \A p, q \in connections : link[p] # "up" /\ link[q] # "up" => p = q
               PROVE  routes[Head(up[c]).req] # NoRoute /\ routes'[Head(up[c]).req] = NoRoute
    OBVIOUS
  <2>0. TypeOK /\ TypeOK' /\ Delivered
    BY DEF IInv
  <2> DEFINE m == Head(up[c])
  <2>1. /\ m \in UpFrame /\ m.req \in Req /\ m = Final(m.req)
        /\ 1 \in 1 .. Len(up[c]) /\ up[c][1] = m
    BY <2>0, FrameOf
  <2>2. routes[m.req] # NoRoute
    BY <2>1 DEF AnswerInv, Answers
  <2>3. RelayReads(c)
    BY <2>0, TakenByRelay
  <2>4. ForwardToClient(m)
    BY <2>3 DEF RelayReads
  <2> QED
    BY <2>0, <2>1, <2>2, <2>4, Delivery
<1> QED
  BY <1>1, AnswerInvariant, PTL DEF Spec, RefusedOnlyOffline
=============================================================================
