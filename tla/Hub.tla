-------------------------------- MODULE Hub --------------------------------
(***************************************************************************)
(* The connection registry of lark-server: websocket/hub.go, the           *)
(* connection object of websocket/conn.go, the agent lifecycle handlers of *)
(* websocket/agent.go, and the WebSocket and HTTP handlers that drive them *)
(* (api/handlers_ws.go, api/handlers_channel.go).                          *)
(*                                                                         *)
(* Threads.  Every connection has a ReadPump goroutine that runs the       *)
(* handlers of its frames one after the other; pc[c] is where it is.  A    *)
(* second goroutine per connection is the authentication timeout           *)
(* (timer[c]).  HTTP requests that remove a channel member run in their    *)
(* own goroutines (kick[r]).  One action is one critical section of        *)
(* Hub.mu, Conn.mu or the single database connection; between two of them  *)
(* any other thread may run.                                               *)
(***************************************************************************)
EXTENDS Naturals, FiniteSets

CONSTANTS
    Conns,             \* connection objects, each used for one upgrade
    Members,           \* member ids
    Agents,            \* the members of type agent
    Names,             \* member names
    NameOf,            \* the name of each member
    Channels,          \* channel ids
    Roster,            \* the members of each channel at start
    Kickers,           \* HTTP requests that change channel membership, at most this many at once
    NoConn,            \* nil *Conn
    NoMember,          \* the empty member id of an unauthenticated connection
    NoChannel,         \* no channel
    MaxSubscriptions,  \* conn.go: MaxSubscriptions (200)
    MaxLogins,         \* bound: auth.login frames accepted per connection
    DaemonConns,       \* bound: the connections that send daemon.register
    TimedConns         \* bound: the connections that see 30 s go by

ASSUME HubAssumption ==
    /\ Agents \subseteq Members
    /\ NameOf \in [Members -> Names]
    /\ Roster \in [Channels -> SUBSET Members]
    /\ NoConn \notin Conns
    /\ NoMember \notin Members
    /\ NoChannel \notin Channels
    /\ DaemonConns \subseteq Conns
    /\ TimedConns \subseteq Conns
    /\ MaxSubscriptions \in Nat
    /\ MaxLogins \in Nat

VARIABLES
    \* Hub
    connections,   \* member id -> Conn
    agents,        \* agent id -> Conn
    agentNames,    \* agent name -> Conn
    channels,      \* channel id -> member id -> Conn
    presence,      \* member id -> status, "offline" when the map has no entry
    daemons,       \* the connections of the proxies in Hub.daemons
    daemonAgents,  \* agent name -> Conn of the daemon that hosts it
    \* Conn
    id,            \* member id set by SetIdentity
    closed,        \* Conn.closed
    subs,          \* Conn.channels
    logins,        \* how many auth.login frames succeeded on the connection
    \* goroutines
    pc,            \* where the ReadPump of the connection is
    old,           \* Add's local: the connection it replaced
    todo,          \* channels the running handler has still to subscribe
    cur,           \* the channel it is subscribing or leaving
    timer,         \* the authentication timeout
    kick,          \* the HTTP requests that remove a channel member
    toClose,       \* Hub.Close's local: the connections it has still to close
    stopping,      \* Hub.Close has run
    \* database
    members,       \* channel_members
    \* history
    crossed        \* the subscriptions made while a removal of the member was in its last step

registry == <<connections, agents, agentNames, channels, presence>>
daemonVars == <<daemons, daemonAgents>>
identity == <<id, logins>>
pump == <<pc, old, todo, cur>>
serverVars == <<kick, toClose, stopping, members>>
vars == <<registry, daemonVars, crossed, identity, closed, subs, pump, timer, serverVars>>

-----------------------------------------------------------------------------

MaybeConn == Conns \cup {NoConn}
MaybeChannel == Channels \cup {NoChannel}
Status == {"online", "offline", "sleeping"}

\* The handler a ReadPump is in, and the point it has reached in it.
PumpState == {"unborn",         \* not upgraded yet
              "reading",        \* in ReadMessage, no handler running
              "adding",         \* auth.login: identity set, before Hub.Add
              "replacing",      \* Hub.Add: lock released, before old.Close
              "listing",        \* before ListMemberChannelIDs
              "subscribing",    \* before Conn.Subscribe of a channel in todo
              "hubSubscribing", \* between Conn.Subscribe and Hub.SubscribeChannel
              "leaving",        \* between Conn.Unsubscribe and Hub.UnsubscribeChannel
              "removed",        \* Hub.Remove done, before Conn.Close
              "exited"}

NoKick == [at |-> "idle", ch |-> NoChannel, mem |-> NoMember, conn |-> NoConn]
KickState == [at : {"idle", "lookup", "unsubscribe", "hub"},
              ch : MaybeChannel, mem : Members \cup {NoMember}, conn : MaybeConn]

TypeOK ==
    /\ connections \in [Members -> MaybeConn]
    /\ agents \in [Members -> MaybeConn]
    /\ agentNames \in [Names -> MaybeConn]
    /\ channels \in [Channels -> [Members -> MaybeConn]]
    /\ presence \in [Members -> Status]
    /\ daemons \subseteq Conns
    /\ daemonAgents \in [Names -> MaybeConn]
    /\ id \in [Conns -> Members \cup {NoMember}]
    /\ closed \in [Conns -> BOOLEAN]
    /\ subs \in [Conns -> SUBSET Channels]
    /\ logins \in [Conns -> Nat]
    /\ pc \in [Conns -> PumpState]
    /\ old \in [Conns -> MaybeConn]
    /\ todo \in [Conns -> SUBSET Channels]
    /\ cur \in [Conns -> MaybeChannel]
    /\ timer \in [Conns -> {"idle", "armed", "firing", "done"}]
    /\ kick \in [Kickers -> KickState]
    /\ toClose \subseteq Conns
    /\ stopping \in BOOLEAN
    /\ members \in [Channels -> SUBSET Members]
    /\ crossed \subseteq Conns \X Channels

Init ==
    /\ connections = [m \in Members |-> NoConn]
    /\ agents = [m \in Members |-> NoConn]
    /\ agentNames = [n \in Names |-> NoConn]
    /\ channels = [ch \in Channels |-> [m \in Members |-> NoConn]]
    /\ presence = [m \in Members |-> "offline"]
    /\ daemons = {}
    /\ daemonAgents = [n \in Names |-> NoConn]
    /\ id = [c \in Conns |-> NoMember]
    /\ closed = [c \in Conns |-> FALSE]
    /\ subs = [c \in Conns |-> {}]
    /\ logins = [c \in Conns |-> 0]
    /\ pc = [c \in Conns |-> "unborn"]
    /\ old = [c \in Conns |-> NoConn]
    /\ todo = [c \in Conns |-> {}]
    /\ cur = [c \in Conns |-> NoChannel]
    /\ timer = [c \in Conns |-> "idle"]
    /\ kick = [r \in Kickers |-> NoKick]
    /\ toClose = {}
    /\ stopping = FALSE
    /\ members = Roster
    /\ crossed = {}

-----------------------------------------------------------------------------
\* Conn.IsAuthenticated: SetIdentity and SetAuthenticated(true) run together
\* and nothing clears either.
Authenticated(c) == id[c] # NoMember

\* Conn.IsAgent
IsAgent(c) == id[c] \in Agents

\* Conn.Close: a closed connection also has its context cancelled, so that a
\* handler of a frame still in the read buffer fails at its first query.
CloseConn(c) == closed' = [closed EXCEPT ![c] = TRUE]

\* The HTTP upgrade: a connection without identity, its pumps, and the timeout.
Connect(c) ==
    /\ ~stopping
    /\ pc[c] = "unborn"
    /\ pc' = [pc EXCEPT ![c] = "reading"]
    /\ timer' = [timer EXCEPT ![c] = "armed"]
    /\ UNCHANGED <<registry, daemonVars, crossed, identity, closed, subs, old, todo, cur, serverVars>>

\* After 30 s the timeout goroutine reads IsAuthenticated ...
TimeoutCheck(c) ==
    /\ c \in TimedConns
    /\ timer[c] = "armed"
    /\ timer' = [timer EXCEPT ![c] = IF Authenticated(c) THEN "done" ELSE "firing"]
    /\ UNCHANGED <<registry, daemonVars, crossed, identity, closed, subs, pump, serverVars>>

\* Mutant: the timeout sends its error event and forgets to close.
TimeoutOnlySends(c) ==
    /\ timer[c] = "firing"
    /\ timer' = [timer EXCEPT ![c] = "done"]
    /\ UNCHANGED <<registry, daemonVars, crossed, identity, closed, subs, pump, serverVars>>

\* ... and then closes the connection.
TimeoutClose(c) ==
    /\ timer[c] = "firing"
    /\ timer' = [timer EXCEPT ![c] = "done"]
    /\ CloseConn(c)
    /\ UNCHANGED <<registry, daemonVars, crossed, identity, subs, pump, serverVars>>

\* auth.login with a valid token or API key of m.  The lookup runs under the
\* connection's context; a refused login changes nothing.
AuthLogin(c, m) ==
    /\ pc[c] = "reading"
    /\ ~closed[c]
    /\ logins[c] < MaxLogins
    /\ id' = [id EXCEPT ![c] = m]
    /\ logins' = [logins EXCEPT ![c] = @ + 1]
    /\ pc' = [pc EXCEPT ![c] = "adding"]
    /\ UNCHANGED <<registry, daemonVars, crossed, closed, subs, old, todo, cur, timer, serverVars>>

\* Hub.Add under Hub.mu.
HubAdd(c) ==
    /\ pc[c] = "adding"
    /\ old' = [old EXCEPT ![c] = connections[id[c]]]
    /\ connections' = [connections EXCEPT ![id[c]] = c]
    /\ agents' = IF IsAgent(c) THEN [agents EXCEPT ![id[c]] = c] ELSE agents
    /\ agentNames' = IF IsAgent(c) THEN [agentNames EXCEPT ![NameOf[id[c]]] = c]
                                   ELSE agentNames
    /\ presence' = [presence EXCEPT ![id[c]] = "online"]
    /\ pc' = [pc EXCEPT ![c] = IF connections[id[c]] = NoConn THEN "listing" ELSE "replacing"]
    /\ UNCHANGED <<channels, daemonVars, crossed, identity, closed, subs, todo, cur, timer, serverVars>>

\* Hub.Add after the unlock: old.Close().
CloseOld(c) ==
    /\ pc[c] = "replacing"
    /\ CloseConn(old[c])
    /\ old' = [old EXCEPT ![c] = NoConn]
    /\ pc' = [pc EXCEPT ![c] = "listing"]
    /\ UNCHANGED <<registry, daemonVars, crossed, identity, subs, todo, cur, timer, serverVars>>

\* subscribeMemberChannels: the query fails on a closed connection.
ListChannels(c) ==
    /\ pc[c] = "listing"
    /\ LET mine == IF closed[c] THEN {} ELSE {ch \in Channels : id[c] \in members[ch]}
       IN  /\ todo' = [todo EXCEPT ![c] = mine]
           /\ pc' = [pc EXCEPT ![c] = IF mine = {} THEN "reading" ELSE "subscribing"]
    /\ UNCHANGED <<registry, daemonVars, crossed, identity, closed, subs, old, cur, timer, serverVars>>

\* channel.join: the membership check; the frame of a closed connection fails it.
ChannelJoin(c, ch) ==
    /\ pc[c] = "reading"
    /\ ~closed[c]
    /\ Authenticated(c)
    /\ id[c] \in members[ch]
    /\ todo' = [todo EXCEPT ![c] = {ch}]
    /\ pc' = [pc EXCEPT ![c] = "subscribing"]
    /\ UNCHANGED <<registry, daemonVars, crossed, identity, closed, subs, old, cur, timer, serverVars>>

\* A request that removes m from ch has passed Conn.Unsubscribe, or found no
\* connection, and has still to call Hub.UnsubscribeChannel.
RemovalPending(ch, m) ==
    \E r \in Kickers : kick[r].at = "hub" /\ kick[r].ch = ch /\ kick[r].mem = m

\* Conn.Subscribe refuses at the limit, a channel it already has included.
Subscribe(c, ch) ==
    /\ pc[c] = "subscribing"
    /\ ch \in todo[c]
    /\ todo' = [todo EXCEPT ![c] = @ \ {ch}]
    /\ IF Cardinality(subs[c]) >= MaxSubscriptions
       THEN /\ pc' = [pc EXCEPT ![c] = IF todo[c] = {ch} THEN "reading" ELSE "subscribing"]
            /\ UNCHANGED <<subs, cur, crossed>>
       ELSE /\ pc' = [pc EXCEPT ![c] = "hubSubscribing"]
            /\ subs' = [subs EXCEPT ![c] = @ \cup {ch}]
            /\ cur' = [cur EXCEPT ![c] = ch]
            /\ crossed' = IF RemovalPending(ch, id[c]) THEN crossed \cup {<<c, ch>>}
                                                       ELSE crossed \ {<<c, ch>>}
    /\ UNCHANGED <<registry, daemonVars, identity, closed, old, timer, serverVars>>

\* Hub.SubscribeChannel, then on to the next channel or back to reading.
HubSubscribe(c) ==
    /\ pc[c] = "hubSubscribing"
    /\ channels' = [channels EXCEPT ![cur[c]][id[c]] = c]
    /\ pc' = [pc EXCEPT ![c] = IF todo[c] = {} THEN "reading" ELSE "subscribing"]
    /\ cur' = [cur EXCEPT ![c] = NoChannel]
    /\ UNCHANGED <<connections, agents, agentNames, presence, daemonVars, crossed, identity, closed,
                   subs, old, todo, timer, serverVars>>

\* Conn.Unsubscribe
Unsubscribe(c, ch) ==
    /\ subs' = [subs EXCEPT ![c] = @ \ {ch}]
    /\ crossed' = crossed \ {<<c, ch>>}

\* channel.leave: Conn.Unsubscribe.  It makes no query, so the frame is handled
\* on a closed connection too.
ChannelLeave(c, ch) ==
    /\ pc[c] = "reading"
    /\ Authenticated(c)
    /\ Unsubscribe(c, ch)
    /\ cur' = [cur EXCEPT ![c] = ch]
    /\ pc' = [pc EXCEPT ![c] = "leaving"]
    /\ UNCHANGED <<registry, daemonVars, identity, closed, old, todo, timer, serverVars>>

\* Mutant: the whole channel is dropped.
DropChannel(ch, m) ==
    channels' = [channels EXCEPT ![ch] = [x \in Members |-> NoConn]]

\* Hub.UnsubscribeChannel(ch, m) drops whichever connection is subscribed as m.
DropSubscriber(ch, m) == channels' = [channels EXCEPT ![ch][m] = NoConn]

HubUnsubscribe(c) ==
    /\ pc[c] = "leaving"
    /\ DropSubscriber(cur[c], id[c])
    /\ pc' = [pc EXCEPT ![c] = "reading"]
    /\ cur' = [cur EXCEPT ![c] = NoChannel]
    /\ UNCHANGED <<connections, agents, agentNames, presence, daemonVars, crossed, identity, closed,
                   subs, old, todo, timer, serverVars>>

-----------------------------------------------------------------------------
\* Hub.SetPresence
SetPresence(m, status) ==
    /\ presence' = [presence EXCEPT ![m] = status]
    /\ UNCHANGED <<connections, agents, agentNames, channels, daemonVars, crossed, identity, closed,
                   subs, pump, timer, serverVars>>

\* Mutant: the agent's lifecycle state is stored as its presence.
HelloStoresAwake(c) == pc[c] = "reading" /\ Authenticated(c) /\ SetPresence(id[c], "awake")

\* agent.hello; the role card it stores is not modelled here.
AgentHello(c) == pc[c] = "reading" /\ Authenticated(c) /\ SetPresence(id[c], "online")

\* Mutant: the handler runs in a goroutine of its own and may outlive the pump.
SleepOutlivesPump(c) ==
    pc[c] \in {"reading", "removed"} /\ IsAgent(c) /\ SetPresence(id[c], "sleeping")

\* agent.sleep
AgentSleep(c) == pc[c] = "reading" /\ IsAgent(c) /\ SetPresence(id[c], "sleeping")

\* daemon.register for the agent names ns.  The daemon id has the time in it,
\* so that a proxy is never replaced.
DaemonRegister(c, ns) ==
    /\ pc[c] = "reading"
    /\ Authenticated(c)
    /\ c \in DaemonConns
    /\ ns # {}
    /\ daemons' = daemons \cup {c}
    /\ daemonAgents' = [n \in Names |-> IF n \in ns THEN c ELSE daemonAgents[n]]
    /\ agentNames' = [n \in Names |-> IF n \in ns THEN c ELSE agentNames[n]]
    /\ UNCHANGED <<connections, agents, channels, presence, crossed, identity, closed, subs,
                   pump, timer, serverVars>>

-----------------------------------------------------------------------------
\* delete(m, k) on a Go map; a key the map does not have changes nothing.
Delete(f, k) == [x \in DOMAIN f |-> IF x = k THEN NoConn ELSE f[x]]

\* Mutant: Remove leaves the channel subscriptions behind.
KeepSubscriptions(c) == UNCHANGED channels

\* Hub.Remove's loop over the channels.
DropSubscriptions(c) == channels' = [ch \in Channels |-> Delete(channels[ch], id[c])]

\* Hub.Remove's deletions for an agent, by id and by name.
DropAgent(c) ==
    IF IsAgent(c)
    THEN /\ agents' = Delete(agents, id[c])
         /\ agentNames' = Delete(agentNames, NameOf[id[c]])
    ELSE UNCHANGED <<agents, agentNames>>

\* Mutant: the pump does not notice that its connection was closed.
ReadEndsWhileOpen(c) == pc[c] = "reading" /\ ~closed[c]

\* ReadMessage can fail whenever the pump is in it.
ReadEnds(c) == pc[c] = "reading"

\* The read loop ends, at a read error or because the connection was closed,
\* and its deferred function calls Hub.Remove: everything under the id and the
\* name goes, whichever connection it leads to.  The empty id of an
\* unauthenticated connection is no key of the maps.
PumpRemove(c) ==
    /\ ReadEnds(c)
    /\ connections' = Delete(connections, id[c])
    /\ DropAgent(c)
    /\ DropSubscriptions(c)
    /\ presence' = [m \in Members |-> IF m = id[c] THEN "offline" ELSE presence[m]]
    /\ pc' = [pc EXCEPT ![c] = "removed"]
    /\ UNCHANGED <<daemonVars, crossed, identity, closed, subs, old, todo, cur, timer, serverVars>>

\* The deferred function's Conn.Close.
PumpClose(c) ==
    /\ pc[c] = "removed"
    /\ CloseConn(c)
    /\ pc' = [pc EXCEPT ![c] = "exited"]
    /\ UNCHANGED <<registry, daemonVars, crossed, identity, subs, old, todo, cur, timer, serverVars>>

-----------------------------------------------------------------------------
\* handleAddChannelMember only writes the table.
AddChannelMember(r, ch, m) ==
    /\ ~stopping
    /\ kick[r].at = "idle"
    /\ m \notin members[ch]
    /\ members' = [members EXCEPT ![ch] = @ \cup {m}]
    /\ UNCHANGED <<registry, daemonVars, crossed, identity, closed, subs, pump, timer, kick, toClose, stopping>>

\* handleRemoveChannelMember: the table, then GetConn, Conn.Unsubscribe and
\* Hub.UnsubscribeChannel, each under its own lock.
KickDelete(r, ch, m) ==
    /\ ~stopping
    /\ kick[r].at = "idle"
    /\ members' = [members EXCEPT ![ch] = @ \ {m}]
    /\ kick' = [kick EXCEPT ![r] = [at |-> "lookup", ch |-> ch, mem |-> m, conn |-> NoConn]]
    /\ UNCHANGED <<registry, daemonVars, crossed, identity, closed, subs, pump, timer, toClose, stopping>>

KickLookup(r) ==
    /\ kick[r].at = "lookup"
    /\ LET c == connections[kick[r].mem]
       IN  kick' = [kick EXCEPT ![r].conn = c,
                                ![r].at = IF c = NoConn THEN "hub" ELSE "unsubscribe"]
    /\ UNCHANGED <<registry, daemonVars, crossed, identity, closed, subs, pump, timer, toClose, stopping, members>>

KickUnsubscribe(r) ==
    /\ kick[r].at = "unsubscribe"
    /\ Unsubscribe(kick[r].conn, kick[r].ch)
    /\ kick' = [kick EXCEPT ![r].at = "hub"]
    /\ UNCHANGED <<registry, daemonVars, identity, closed, pump, timer, toClose, stopping, members>>

KickHub(r) ==
    /\ kick[r].at = "hub"
    /\ DropSubscriber(kick[r].ch, kick[r].mem)
    /\ kick' = [kick EXCEPT ![r] = NoKick]
    /\ UNCHANGED <<connections, agents, agentNames, presence, daemonVars, crossed, identity, closed,
                   subs, pump, timer, toClose, stopping, members>>

-----------------------------------------------------------------------------
\* Hub.Close at shutdown, after the HTTP server stopped accepting: new maps, the
\* daemon maps excepted, ...
HubClose ==
    /\ ~stopping
    /\ stopping' = TRUE
    /\ toClose' = {connections[m] : m \in Members} \ {NoConn}
    /\ connections' = [m \in Members |-> NoConn]
    /\ agents' = [m \in Members |-> NoConn]
    /\ agentNames' = [n \in Names |-> NoConn]
    /\ channels' = [ch \in Channels |-> [m \in Members |-> NoConn]]
    /\ presence' = [m \in Members |-> "offline"]
    /\ UNCHANGED <<daemonVars, crossed, identity, closed, subs, pump, timer, kick, members>>

\* ... then CloseWithMessage on each connection it held.
HubCloseConn(c) ==
    /\ c \in toClose
    /\ toClose' = toClose \ {c}
    /\ CloseConn(c)
    /\ UNCHANGED <<registry, daemonVars, crossed, identity, subs, pump, timer, kick, stopping, members>>

-----------------------------------------------------------------------------
\* The steps a ReadPump takes inside a handler, once a frame has started it.
HandlerStep(c) ==
    \/ HubAdd(c)
    \/ CloseOld(c)
    \/ ListChannels(c)
    \/ \E ch \in Channels : Subscribe(c, ch)
    \/ HubSubscribe(c)
    \/ HubUnsubscribe(c)
    \/ PumpClose(c)

\* The frames a client may send.
Frame(c) ==
    \/ \E m \in Members : AuthLogin(c, m)
    \/ \E ch \in Channels : ChannelJoin(c, ch) \/ ChannelLeave(c, ch)
    \/ AgentHello(c)
    \/ AgentSleep(c)
    \/ \E ns \in SUBSET Names : DaemonRegister(c, ns)

ConnStep(c) ==
    \/ Connect(c)
    \/ Frame(c)
    \/ HandlerStep(c)
    \/ PumpRemove(c)
    \/ TimeoutCheck(c)
    \/ TimeoutClose(c)
    \/ HubCloseConn(c)

KickStep(r) == KickLookup(r) \/ KickUnsubscribe(r) \/ KickHub(r)

Next ==
    \/ \E c \in Conns : ConnStep(c)
    \/ \E r \in Kickers :
          \/ \E ch \in Channels, m \in Members : AddChannelMember(r, ch, m) \/ KickDelete(r, ch, m)
          \/ KickStep(r)
    \/ HubClose

Spec == Init /\ [][Next]_vars

(***************************************************************************)
(* Goroutines are scheduled: a handler that runs gets on, a timeout fires, *)
(* Hub.Close and the requests finish.  A closed connection has a finite    *)
(* read buffer, so that however often a buffered frame is handled first,   *)
(* ReadMessage fails in the end: strong fairness.  Nothing makes a client  *)
(* connect, send or disconnect.                                            *)
(***************************************************************************)
Fairness ==
    /\ \A c \in Conns :
          /\ WF_vars(HandlerStep(c))
          /\ SF_vars(closed[c] /\ PumpRemove(c))
          /\ WF_vars(TimeoutCheck(c))
          /\ WF_vars(TimeoutClose(c))
          /\ WF_vars(HubCloseConn(c))
    /\ \A r \in Kickers : WF_vars(KickStep(r))

FairSpec == Spec /\ Fairness

-----------------------------------------------------------------------------
(***************************************************************************)
(* Properties.                                                             *)
(***************************************************************************)
\* The pump of c has run Hub.Remove (conn.go: ReadPump's deferred function).
Gone(c) == pc[c] \in {"removed", "exited"}

\* No connection has changed its identity: each logged in once at most, as
\* PROTOCOL.md asks of a client.
SingleLogin == \A c \in Conns : logins[c] <= 1

\* c is the only connection that ever had its id.
Sole(c) == \A d \in Conns \ {c} : id[d] # id[c]

\* A connection whose pump ran Hub.Remove stays reachable through no map of the
\* hub: not after a replacement, not when a handler was subscribing while it was
\* closed, not through a late buffered frame.  Only a name it registered as a
\* daemon may still lead to it (Remove knows nothing of daemons).
GoneUnreachable ==
    \A c \in Conns : Gone(c) /\ logins[c] <= 1 =>
        /\ \A m \in Members : connections[m] # c /\ agents[m] # c
        /\ \A ch \in Channels, m \in Members : channels[ch][m] # c
        /\ c \notin daemons => \A n \in Names : agentNames[n] # c /\ daemonAgents[n] # c

\* A member none of whose connections is left is offline: no agent.hello or
\* agent.sleep of a replaced connection, and no Add, leaves a presence behind
\* (hub.go: Add, Remove, SetPresence; agent.go).
AllGoneOffline ==
    \A m \in Members :
        SingleLogin /\ (\A c \in Conns : id[c] = m => Gone(c)) => presence[m] = "offline"

\* A connection that is alone under its id and is at rest is where the hub looks
\* for the member and for each channel the connection believes it is subscribed
\* to, whatever the connections of other members and the requests that add and
\* remove channel members do (hub.go: GetConn, GetAgent, BroadcastToChannel;
\* handlers_ws.go: handleWSMessageSend asks IsSubscribed).  Asked for until the
\* server stops and while every connection logged in once at most; a channel is
\* left out only where Conn.Subscribe ran between a removal's Conn.Unsubscribe
\* (or its failed GetConn) and its Hub.UnsubscribeChannel.
SoleConnReachable ==
    SingleLogin /\ ~stopping =>
        \A c \in Conns : pc[c] = "reading" /\ Authenticated(c) /\ Sole(c) =>
            /\ connections[id[c]] = c /\ (IsAgent(c) => agents[id[c]] = c)
            /\ \A ch \in subs[c] : channels[ch][id[c]] = c \/ <<c, ch>> \in crossed

\* A closed connection's pump always comes to its end, whatever handler it was
\* in and whatever frames were buffered (conn.go: ReadPump).
ClosedExits == \A c \in Conns : closed[c] ~> pc[c] = "exited"

\* No connection stays open without authenticating (handlers_ws.go:
\* handleWebSocket's timeout goroutine).
SilentConnExits ==
    \A c \in TimedConns : pc[c] = "reading" /\ ~Authenticated(c) ~> Authenticated(c) \/ pc[c] = "exited"

\* PROTOCOL.md, Reconnection: "If a connection with the same ID exists, the
\* server closes the old one": the connection that replaced the others is the
\* one the hub keeps.  (Violated: the old one's ReadPump removes the entry.)
ReconnectKeepsNewConnection ==
    SingleLogin /\ ~stopping =>
        \A c \in Conns :
            /\ pc[c] = "reading" /\ Authenticated(c) /\ ~closed[c]
            /\ \A d \in Conns \ {c} : id[d] = id[c] => closed[d]
            => connections[id[c]] = c

\* handlers_channel.go: "Unsubscribe from WebSocket channel if connected".
\* Once the request is done, a connection at rest is subscribed to no channel
\* its member was removed from.  (Violated: channel.join and the subscription
\* at login check membership first and subscribe later.)
RemovedMemberUnsubscribed ==
    SingleLogin /\ ~stopping /\ (\A r \in Kickers : kick[r].at = "idle") =>
        \A c \in Conns : pc[c] = "reading" /\ ~closed[c] =>
            \A ch \in subs[c] : id[c] \in members[ch]
=============================================================================
