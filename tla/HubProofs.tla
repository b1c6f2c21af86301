----------------------------- MODULE HubProofs ------------------------------
(***************************************************************************)
(* Proofs about Hub, for any numbers of connections, members, agents,      *)
(* names, channels and membership requests.                                *)
(***************************************************************************)
EXTENDS Hub, TLAPS

\* Where a pump may be while its connection has no identity.
AnonymousState == {"unborn", "reading", "removed", "exited"}

\* What the pumps know: a handler past the login has an identity, and one that
\* is subscribing or leaving has a channel.
PumpOK ==
    \A c \in Conns :
        /\ pc[c] \notin AnonymousState => Authenticated(c)
        /\ pc[c] \in {"hubSubscribing", "leaving"} => cur[c] \in Channels
        /\ logins[c] = 0 <=> ~Authenticated(c)
        /\ pc[c] = "unborn" => ~Authenticated(c)
        /\ pc[c] = "replacing" => old[c] \in Conns

\* What a running membership request knows.
KickOK ==
    \A r \in Kickers : kick[r].at # "idle" =>
        /\ kick[r].mem \in Members
        /\ kick[r].ch \in Channels
        /\ kick[r].at = "unsubscribe" => kick[r].conn \in Conns

TypeInv == TypeOK /\ PumpOK /\ KickOK

\* Where a connection that logged in once can be found: under its own id and
\* its own name, and under the names it registered as a daemon.
Owner ==
    \A c \in Conns : logins[c] <= 1 =>
        /\ \A m \in Members : connections[m] = c => id[c] = m
        /\ \A m \in Members : agents[m] = c => id[c] = m /\ IsAgent(c)
        /\ \A ch \in Channels, m \in Members : channels[ch][m] = c => id[c] = m
        /\ \A n \in Names : agentNames[n] = c =>
              c \in daemons \/ (IsAgent(c) /\ NameOf[id[c]] = n)
        /\ \A n \in Names : daemonAgents[n] = c => c \in daemons

\* Hub.agents is the part of Hub.connections that belongs to agents, whatever
\* the order of replacements, removals and second logins (hub.go: Add, Remove,
\* Close, which update the two maps separately).
AgentsAreConnections ==
    \A m \in Members : agents[m] = IF m \in Agents THEN connections[m] ELSE NoConn

\* handleRemoveChannelMember unsubscribes the connection GetConn returned
\* before: that connection is still the removed member's.
KickHitsItsMember ==
    \A r \in Kickers : kick[r].at = "unsubscribe" /\ logins[kick[r].conn] <= 1 =>
        id[kick[r].conn] = kick[r].mem

\* SoleConnReachable in the middle of a handler too: only the channel a handler
\* is subscribing may be missing from the hub, and a channel whose removal is in
\* its last step is either unsubscribed or was subscribed since.
SoleInv ==
    SingleLogin /\ ~stopping =>
        \A c \in Conns :
            /\ ~Authenticated(c) \/ pc[c] = "adding" => subs[c] = {}
            /\ pc[c] = "leaving" => cur[c] \notin subs[c]
            /\ pc[c] \notin {"unborn", "adding", "removed", "exited"}
                  /\ Authenticated(c) /\ Sole(c) =>
                  /\ connections[id[c]] = c
                  /\ \A ch \in subs[c] :
                        \/ channels[ch][id[c]] = c
                        \/ pc[c] = "hubSubscribing" /\ ch = cur[c]
                        \/ <<c, ch>> \in crossed
                  /\ \A ch \in subs[c] :
                        RemovalPending(ch, id[c]) => <<c, ch>> \in crossed

USE DEF MaybeConn, MaybeChannel, Status, PumpState, KickState, AnonymousState,
        Authenticated, IsAgent,
        vars, registry, daemonVars, identity, pump, serverVars


\* The tables are empty when the server starts.
LEMMA TypeInvInit == Init => TypeInv
<1> SUFFICES ASSUME Init PROVE TypeInv
  OBVIOUS
<1>1. TypeOK
  <2>1. NoKick \in KickState
    BY DEF NoKick
  <2> QED BY <2>1, HubAssumption DEF Init, TypeOK
<1>2. PumpOK
  BY DEF Init, PumpOK
<1>3. KickOK
  BY DEF Init, KickOK, NoKick
<1> QED BY <1>1, <1>2, <1>3 DEF TypeInv

\* Every critical section keeps the types, and what its goroutine relies on later.
LEMMA TypeInvStep == TypeInv /\ [Next]_vars => TypeInv'
<1> SUFFICES ASSUME TypeInv, [Next]_vars PROVE TypeInv'
  OBVIOUS
<1>1. ASSUME NEW c \in Conns, Connect(c) PROVE TypeInv'
  BY <1>1, HubAssumption DEF Connect, TypeInv, TypeOK, PumpOK, KickOK
<1>2. ASSUME NEW c \in Conns, TimeoutCheck(c) PROVE TypeInv'
  BY <1>2, HubAssumption DEF TimeoutCheck, TypeInv, TypeOK, PumpOK, KickOK
<1>3. ASSUME NEW c \in Conns, TimeoutClose(c) PROVE TypeInv'
  BY <1>3, HubAssumption DEF TimeoutClose, CloseConn, TypeInv, TypeOK, PumpOK, KickOK
<1>4. ASSUME NEW c \in Conns, NEW m \in Members, AuthLogin(c, m) PROVE TypeInv'
  BY <1>4, HubAssumption DEF AuthLogin, TypeInv, TypeOK, PumpOK, KickOK
<1>5. ASSUME NEW c \in Conns, HubAdd(c) PROVE TypeInv'
  BY <1>5, HubAssumption DEF HubAdd, TypeInv, TypeOK, PumpOK, KickOK
<1>6. ASSUME NEW c \in Conns, CloseOld(c) PROVE TypeInv'
  BY <1>6, HubAssumption DEF CloseOld, CloseConn, TypeInv, TypeOK, PumpOK, KickOK
<1>7. ASSUME NEW c \in Conns, ListChannels(c) PROVE TypeInv'
  BY <1>7, HubAssumption DEF ListChannels, TypeInv, TypeOK, PumpOK, KickOK
<1>8. ASSUME NEW c \in Conns, NEW ch \in Channels, ChannelJoin(c, ch) PROVE TypeInv'
  BY <1>8, HubAssumption DEF ChannelJoin, TypeInv, TypeOK, PumpOK, KickOK
<1>9. ASSUME NEW c \in Conns, NEW ch \in Channels, Subscribe(c, ch) PROVE TypeInv'
  <2>1. CASE Cardinality(subs[c]) >= MaxSubscriptions
    <3>1. TypeOK'
      BY <1>9, <2>1 DEF Subscribe, TypeInv, TypeOK
    <3>2. PumpOK' /\ KickOK'
      BY <1>9, <2>1 DEF Subscribe, TypeInv, TypeOK, PumpOK, KickOK
    <3> QED BY <3>1, <3>2 DEF TypeInv
  <2>2. CASE ~(Cardinality(subs[c]) >= MaxSubscriptions)
    <3>0. /\ subs \in [Conns -> SUBSET Channels]
          /\ todo \in [Conns -> SUBSET Channels]
          /\ cur \in [Conns -> MaybeChannel]
          /\ pc \in [Conns -> PumpState]
      BY DEF TypeInv, TypeOK
    <3>1. /\ subs' \in [Conns -> SUBSET Channels]
          /\ todo' \in [Conns -> SUBSET Channels]
          /\ cur' \in [Conns -> MaybeChannel]
          /\ pc' \in [Conns -> PumpState]
      BY <1>9, <2>2, <3>0 DEF Subscribe
    <3>2. UNCHANGED <<registry, daemonVars, identity, closed, old, timer, serverVars>>
          /\ crossed' \subseteq Conns \X Channels
      BY <1>9 DEF Subscribe, TypeInv, TypeOK
    <3>3. TypeOK'
      BY <3>1, <3>2 DEF TypeInv, TypeOK
    <3>4. PumpOK' /\ KickOK'
      BY <1>9, <2>2 DEF Subscribe, TypeInv, TypeOK, PumpOK, KickOK
    <3> QED BY <3>3, <3>4 DEF TypeInv
  <2> QED BY <2>1, <2>2
<1>10. ASSUME NEW c \in Conns, HubSubscribe(c) PROVE TypeInv'
  BY <1>10, HubAssumption DEF HubSubscribe, TypeInv, TypeOK, PumpOK, KickOK
<1>11. ASSUME NEW c \in Conns, NEW ch \in Channels, ChannelLeave(c, ch) PROVE TypeInv'
  BY <1>11, HubAssumption DEF ChannelLeave, Unsubscribe, TypeInv, TypeOK, PumpOK, KickOK
<1>12. ASSUME NEW c \in Conns, HubUnsubscribe(c) PROVE TypeInv'
  BY <1>12, HubAssumption DEF HubUnsubscribe, DropSubscriber, TypeInv, TypeOK, PumpOK, KickOK
<1>13. ASSUME NEW c \in Conns, AgentHello(c) PROVE TypeInv'
  BY <1>13, HubAssumption DEF AgentHello, SetPresence, TypeInv, TypeOK, PumpOK, KickOK
<1>14. ASSUME NEW c \in Conns, AgentSleep(c) PROVE TypeInv'
  BY <1>14, HubAssumption DEF AgentSleep, SetPresence, TypeInv, TypeOK, PumpOK, KickOK
<1>15. ASSUME NEW c \in Conns, NEW ns \in SUBSET Names, DaemonRegister(c, ns) PROVE TypeInv'
  BY <1>15, HubAssumption DEF DaemonRegister, TypeInv, TypeOK, PumpOK, KickOK
<1>16. ASSUME NEW c \in Conns, PumpRemove(c) PROVE TypeInv'
  BY <1>16, HubAssumption DEF PumpRemove, ReadEnds, DropAgent, DropSubscriptions, Delete, TypeInv, TypeOK, PumpOK, KickOK
<1>17. ASSUME NEW c \in Conns, PumpClose(c) PROVE TypeInv'
  BY <1>17, HubAssumption DEF PumpClose, CloseConn, TypeInv, TypeOK, PumpOK, KickOK
<1>18. ASSUME NEW c \in Conns, HubCloseConn(c) PROVE TypeInv'
  BY <1>18, HubAssumption DEF HubCloseConn, CloseConn, TypeInv, TypeOK, PumpOK, KickOK
<1>19. ASSUME NEW r \in Kickers, NEW ch \in Channels, NEW m \in Members, AddChannelMember(r, ch, m) PROVE TypeInv'
  BY <1>19, HubAssumption DEF AddChannelMember, TypeInv, TypeOK, PumpOK, KickOK
<1>20. ASSUME NEW r \in Kickers, NEW ch \in Channels, NEW m \in Members, KickDelete(r, ch, m) PROVE TypeInv'
  BY <1>20, HubAssumption DEF KickDelete, TypeInv, TypeOK, PumpOK, KickOK
<1>21. ASSUME NEW r \in Kickers, KickLookup(r) PROVE TypeInv'
  BY <1>21, HubAssumption DEF KickLookup, TypeInv, TypeOK, PumpOK, KickOK
<1>22. ASSUME NEW r \in Kickers, KickUnsubscribe(r) PROVE TypeInv'
  <2>1. kick[r].conn \in Conns /\ kick[r] \in KickState
    BY <1>22 DEF KickUnsubscribe, Unsubscribe, TypeInv, TypeOK, KickOK
  <2>2. subs' \in [Conns -> SUBSET Channels]
    BY <1>22, <2>1 DEF KickUnsubscribe, Unsubscribe, TypeInv, TypeOK
  <2>3. kick' = [kick EXCEPT ![r] = [@ EXCEPT !.at = "hub"]]
    BY <1>22 DEF KickUnsubscribe, Unsubscribe
  <2>4. kick' \in [Kickers -> KickState]
    BY <2>1, <2>3 DEF TypeInv, TypeOK
  <2>5. TypeOK'
    BY <1>22, <2>2, <2>4 DEF KickUnsubscribe, Unsubscribe, TypeInv, TypeOK
  <2>6. PumpOK' /\ KickOK'
    BY <1>22, <2>1, <2>3 DEF KickUnsubscribe, Unsubscribe, TypeInv, TypeOK, PumpOK, KickOK
  <2> QED BY <2>5, <2>6 DEF TypeInv
<1>23. ASSUME NEW r \in Kickers, KickHub(r) PROVE TypeInv'
  BY <1>23, HubAssumption DEF KickHub, DropSubscriber, NoKick, TypeInv, TypeOK, PumpOK, KickOK
<1>24. ASSUME HubClose PROVE TypeInv'
  BY <1>24, HubAssumption DEF HubClose, TypeInv, TypeOK, PumpOK, KickOK
<1>25. CASE UNCHANGED vars
  BY <1>25, HubAssumption DEF TypeInv, TypeOK, PumpOK, KickOK
<1> QED BY <1>1, <1>2, <1>3, <1>4, <1>5, <1>6, <1>7, <1>8, <1>9, <1>10, <1>11, <1>12, <1>13, <1>14, <1>15, <1>16, <1>17, <1>18, <1>19, <1>20, <1>21, <1>22, <1>23, <1>24, <1>25 DEF Next, ConnStep, HandlerStep, Frame, KickStep

\* Every state of every behaviour has the types TypeOK gives: no handler
\* indexes the hub's maps with the identity of an anonymous connection, and no
\* request uses a connection it did not find.
THEOREM TypeCorrect == Spec => []TypeOK
<1>1. TypeInv => TypeOK
  BY DEF TypeInv
<1> QED BY <1>1, TypeInvInit, TypeInvStep, PTL DEF Spec

\* Hub.Add, Hub.Remove and Hub.Close write both maps alike.
LEMMA AgentsStep == TypeInv /\ AgentsAreConnections /\ [Next]_vars => AgentsAreConnections'
<1> SUFFICES ASSUME TypeInv, AgentsAreConnections, [Next]_vars PROVE AgentsAreConnections'
  OBVIOUS
<1>1. CASE UNCHANGED <<connections, agents>>
  BY <1>1 DEF AgentsAreConnections
<1>2. ASSUME NEW c \in Conns, HubAdd(c) PROVE AgentsAreConnections'
  BY <1>2 DEF HubAdd, AgentsAreConnections, TypeInv, TypeOK, PumpOK
<1>3. ASSUME NEW c \in Conns, PumpRemove(c) PROVE AgentsAreConnections'
  BY <1>3 DEF PumpRemove, ReadEnds, DropAgent, DropSubscriptions, Delete, AgentsAreConnections, TypeInv, TypeOK, PumpOK
<1>4. ASSUME HubClose PROVE AgentsAreConnections'
  BY <1>4 DEF HubClose, AgentsAreConnections, TypeInv, TypeOK, PumpOK
<1> QED BY <1>1, <1>2, <1>3, <1>4 DEF Next, ConnStep, HandlerStep, Frame, KickStep, Connect, TimeoutCheck, TimeoutClose, AuthLogin, CloseOld, ListChannels, ChannelJoin, Subscribe, HubSubscribe, ChannelLeave, HubUnsubscribe, AgentHello, AgentSleep, DaemonRegister, PumpClose, HubCloseConn, AddChannelMember, KickDelete, KickLookup, KickUnsubscribe, KickHub, SetPresence

\* Hub.Add and Hub.SubscribeChannel enter a connection under the id it has, and
\* the id changes only at a login.
LEMMA OwnerStep == TypeInv /\ Owner /\ [Next]_vars => Owner'
<1> SUFFICES ASSUME TypeInv, Owner, [Next]_vars PROVE Owner'
  OBVIOUS
<1>1. CASE UNCHANGED <<connections, agents, agentNames, channels, daemons, daemonAgents, id, logins>>
  BY <1>1 DEF Owner
<1>2. ASSUME NEW c \in Conns, NEW m \in Members, AuthLogin(c, m) PROVE Owner'
  <2>1. \A d \in Conns : /\ logins'[d] <= 1 => logins[d] <= 1
                         /\ d # c => id'[d] = id[d]
    BY <1>2 DEF AuthLogin, TypeInv, TypeOK
  <2>2. logins'[c] <= 1 => logins[c] = 0 /\ id[c] = NoMember
    BY <1>2 DEF AuthLogin, TypeInv, TypeOK, PumpOK
  <2> QED BY <1>2, <2>1, <2>2, HubAssumption DEF AuthLogin, Owner, TypeInv, TypeOK
<1>3. ASSUME NEW c \in Conns, HubAdd(c) PROVE Owner'
  BY <1>3, HubAssumption DEF HubAdd, Owner, TypeInv, TypeOK, PumpOK
<1>4. ASSUME NEW c \in Conns, HubSubscribe(c) PROVE Owner'
  BY <1>4, HubAssumption DEF HubSubscribe, Owner, TypeInv, TypeOK, PumpOK
<1>5. ASSUME NEW c \in Conns, HubUnsubscribe(c) PROVE Owner'
  BY <1>5, HubAssumption DEF HubUnsubscribe, DropSubscriber, Owner, TypeInv, TypeOK, PumpOK
<1>6. ASSUME NEW c \in Conns, NEW ns \in SUBSET Names, DaemonRegister(c, ns) PROVE Owner'
  BY <1>6, HubAssumption DEF DaemonRegister, Owner, TypeInv, TypeOK, PumpOK
<1>7. ASSUME NEW c \in Conns, PumpRemove(c) PROVE Owner'
  BY <1>7, HubAssumption DEF PumpRemove, ReadEnds, DropAgent, DropSubscriptions, Delete, Owner, TypeInv, TypeOK, PumpOK
<1>8. ASSUME NEW r \in Kickers, KickHub(r) PROVE Owner'
  BY <1>8, HubAssumption DEF KickHub, DropSubscriber, NoKick, Owner, TypeInv, TypeOK, PumpOK
<1>9. ASSUME HubClose PROVE Owner'
  BY <1>9, HubAssumption DEF HubClose, Owner, TypeInv, TypeOK, PumpOK
<1> QED BY <1>1, <1>2, <1>3, <1>4, <1>5, <1>6, <1>7, <1>8, <1>9 DEF Next, ConnStep, HandlerStep, Frame, KickStep, Connect, TimeoutCheck, TimeoutClose, CloseOld, ListChannels, ChannelJoin, Subscribe, ChannelLeave, AgentHello, AgentSleep, PumpClose, HubCloseConn, AddChannelMember, KickDelete, KickLookup, KickUnsubscribe, SetPresence

\* Hub.Remove deletes everything a connection can be found under (Owner), and
\* no handler of the connection runs after it.
LEMMA GoneStep == TypeInv /\ Owner /\ GoneUnreachable /\ [Next]_vars => GoneUnreachable'
<1> SUFFICES ASSUME TypeInv, Owner, GoneUnreachable, [Next]_vars PROVE GoneUnreachable'
  OBVIOUS
<1>1. CASE UNCHANGED <<connections, agents, agentNames, channels, daemons, daemonAgents, logins, pc>>
  BY <1>1 DEF GoneUnreachable, Gone
<1>2. ASSUME NEW c \in Conns, Connect(c) PROVE GoneUnreachable'
  BY <1>2, HubAssumption DEF Connect, GoneUnreachable, Gone, Owner, TypeInv, TypeOK, PumpOK
<1>3. ASSUME NEW c \in Conns, NEW m \in Members, AuthLogin(c, m) PROVE GoneUnreachable'
  BY <1>3, HubAssumption DEF AuthLogin, GoneUnreachable, Gone, Owner, TypeInv, TypeOK, PumpOK
<1>4. ASSUME NEW c \in Conns, HubAdd(c) PROVE GoneUnreachable'
  BY <1>4, HubAssumption DEF HubAdd, GoneUnreachable, Gone, Owner, TypeInv, TypeOK, PumpOK
<1>5. ASSUME NEW c \in Conns, CloseOld(c) PROVE GoneUnreachable'
  BY <1>5, HubAssumption DEF CloseOld, CloseConn, GoneUnreachable, Gone, Owner, TypeInv, TypeOK, PumpOK
<1>6. ASSUME NEW c \in Conns, ListChannels(c) PROVE GoneUnreachable'
  BY <1>6, HubAssumption DEF ListChannels, GoneUnreachable, Gone, Owner, TypeInv, TypeOK, PumpOK
<1>7. ASSUME NEW c \in Conns, NEW ch \in Channels, ChannelJoin(c, ch) PROVE GoneUnreachable'
  BY <1>7, HubAssumption DEF ChannelJoin, GoneUnreachable, Gone, Owner, TypeInv, TypeOK, PumpOK
<1>8. ASSUME NEW c \in Conns, NEW ch \in Channels, Subscribe(c, ch) PROVE GoneUnreachable'
  BY <1>8, HubAssumption DEF Subscribe, GoneUnreachable, Gone, Owner, TypeInv, TypeOK, PumpOK
<1>9. ASSUME NEW c \in Conns, HubSubscribe(c) PROVE GoneUnreachable'
  BY <1>9, HubAssumption DEF HubSubscribe, GoneUnreachable, Gone, Owner, TypeInv, TypeOK, PumpOK
<1>10. ASSUME NEW c \in Conns, NEW ch \in Channels, ChannelLeave(c, ch) PROVE GoneUnreachable'
  BY <1>10, HubAssumption DEF ChannelLeave, Unsubscribe, GoneUnreachable, Gone, Owner, TypeInv, TypeOK, PumpOK
<1>11. ASSUME NEW c \in Conns, HubUnsubscribe(c) PROVE GoneUnreachable'
  BY <1>11, HubAssumption DEF HubUnsubscribe, DropSubscriber, GoneUnreachable, Gone, Owner, TypeInv, TypeOK, PumpOK
<1>12. ASSUME NEW c \in Conns, NEW ns \in SUBSET Names, DaemonRegister(c, ns) PROVE GoneUnreachable'
  BY <1>12, HubAssumption DEF DaemonRegister, GoneUnreachable, Gone, Owner, TypeInv, TypeOK, PumpOK
<1>13. ASSUME NEW c \in Conns, PumpRemove(c) PROVE GoneUnreachable'
  <2> SUFFICES ASSUME NEW d \in Conns, Gone(d)', logins'[d] <= 1
               PROVE /\ \A m \in Members : connections'[m] # d /\ agents'[m] # d
                     /\ \A ch \in Channels, m \in Members : channels'[ch][m] # d
                     /\ d \notin daemons' => \A n \in Names : agentNames'[n] # d /\ daemonAgents'[n] # d
    BY DEF GoneUnreachable
  <2>0. UNCHANGED <<id, logins, daemons, daemonAgents>> /\ NoConn # d
    BY <1>13, HubAssumption DEF PumpRemove
  <2>1. \A m \in Members : /\ connections'[m] = d => connections[m] = d /\ m # id[c]
                           /\ agents'[m] = d => agents[m] = d /\ (IsAgent(c) => m # id[c])
    BY <1>13, <2>0 DEF PumpRemove, DropAgent, Delete, TypeInv, TypeOK
  <2>2. \A ch \in Channels, m \in Members : channels'[ch][m] = d => channels[ch][m] = d /\ m # id[c]
    BY <1>13, <2>0 DEF PumpRemove, DropSubscriptions, Delete, TypeInv, TypeOK
  <2>3. \A n \in Names : agentNames'[n] = d => agentNames[n] = d /\ (IsAgent(c) => n # NameOf[id[c]])
    BY <1>13, <2>0 DEF PumpRemove, DropAgent, Delete, TypeInv, TypeOK
  <2>4. CASE d = c
    <3>1. \A m \in Members : connections'[m] # d /\ agents'[m] # d
      BY <2>0, <2>1, <2>4 DEF Owner
    <3> QED BY <3>1, <2>0, <2>2, <2>3, <2>4 DEF Owner
  <2>5. CASE d # c
    <3>1. Gone(d)
      BY <1>13, <2>5 DEF PumpRemove, Gone, TypeInv, TypeOK
    <3> QED BY <3>1, <2>0, <2>1, <2>2, <2>3 DEF GoneUnreachable
  <2> QED BY <2>4, <2>5
<1>14. ASSUME NEW c \in Conns, PumpClose(c) PROVE GoneUnreachable'
  BY <1>14, HubAssumption DEF PumpClose, CloseConn, GoneUnreachable, Gone, Owner, TypeInv, TypeOK, PumpOK
<1>15. ASSUME NEW r \in Kickers, KickHub(r) PROVE GoneUnreachable'
  BY <1>15, HubAssumption DEF KickHub, DropSubscriber, NoKick, GoneUnreachable, Gone, Owner, TypeInv, TypeOK, PumpOK
<1>16. ASSUME HubClose PROVE GoneUnreachable'
  BY <1>16, HubAssumption DEF HubClose, GoneUnreachable, Gone, Owner, TypeInv, TypeOK, PumpOK
<1> QED BY <1>1, <1>2, <1>3, <1>4, <1>5, <1>6, <1>7, <1>8, <1>9, <1>10, <1>11, <1>12, <1>13, <1>14, <1>15, <1>16 DEF Next, ConnStep, HandlerStep, Frame, KickStep, TimeoutCheck, TimeoutClose, AgentHello, AgentSleep, HubCloseConn, AddChannelMember, KickDelete, KickLookup, KickUnsubscribe, SetPresence

\* Hub.Remove clears the presence of a member, and while a connection of it is
\* left the property asks for nothing.
LEMMA OfflineStep == TypeInv /\ AllGoneOffline /\ [Next]_vars => AllGoneOffline'
<1> SUFFICES ASSUME TypeInv, AllGoneOffline, [Next]_vars PROVE AllGoneOffline'
  OBVIOUS
<1>1. CASE UNCHANGED <<presence, id, logins, pc>>
  BY <1>1 DEF AllGoneOffline, SingleLogin, Gone
<1>2. ASSUME NEW c \in Conns, Connect(c) PROVE AllGoneOffline'
  BY <1>2, HubAssumption DEF Connect, AllGoneOffline, SingleLogin, Gone, TypeInv, TypeOK, PumpOK
<1>3. ASSUME NEW c \in Conns, NEW m \in Members, AuthLogin(c, m) PROVE AllGoneOffline'
  <2>1. \A d \in Conns : /\ logins'[d] <= 1 => logins[d] <= 1
                         /\ d # c => id'[d] = id[d]
    BY <1>3 DEF AuthLogin, TypeInv, TypeOK
  <2>2. logins'[c] <= 1 => logins[c] = 0 /\ id[c] = NoMember
    BY <1>3 DEF AuthLogin, TypeInv, TypeOK, PumpOK
  <2>3. pc'[c] = "adding" /\ (\A d \in Conns : d # c => pc'[d] = pc[d]) /\ presence' = presence
    BY <1>3 DEF AuthLogin, TypeInv, TypeOK
  <2> QED BY <1>3, <2>1, <2>2, <2>3, HubAssumption DEF AuthLogin, AllGoneOffline, SingleLogin, Gone, TypeInv, TypeOK
<1>4. ASSUME NEW c \in Conns, HubAdd(c) PROVE AllGoneOffline'
  <2>1. /\ UNCHANGED <<id, logins>>
        /\ \A m \in Members : m # id[c] => presence'[m] = presence[m]
        /\ ~Gone(c)' /\ (\A d \in Conns : d # c => (Gone(d)' <=> Gone(d)))
        /\ ~Gone(c)
    BY <1>4 DEF HubAdd, Gone, TypeInv, TypeOK
  <2> QED BY <2>1 DEF AllGoneOffline, SingleLogin
<1>5. ASSUME NEW c \in Conns, CloseOld(c) PROVE AllGoneOffline'
  BY <1>5, HubAssumption DEF CloseOld, CloseConn, AllGoneOffline, SingleLogin, Gone, TypeInv, TypeOK, PumpOK
<1>6. ASSUME NEW c \in Conns, ListChannels(c) PROVE AllGoneOffline'
  BY <1>6, HubAssumption DEF ListChannels, AllGoneOffline, SingleLogin, Gone, TypeInv, TypeOK, PumpOK
<1>7. ASSUME NEW c \in Conns, NEW ch \in Channels, ChannelJoin(c, ch) PROVE AllGoneOffline'
  BY <1>7, HubAssumption DEF ChannelJoin, AllGoneOffline, SingleLogin, Gone, TypeInv, TypeOK, PumpOK
<1>8. ASSUME NEW c \in Conns, NEW ch \in Channels, Subscribe(c, ch) PROVE AllGoneOffline'
  BY <1>8, HubAssumption DEF Subscribe, AllGoneOffline, SingleLogin, Gone, TypeInv, TypeOK, PumpOK
<1>9. ASSUME NEW c \in Conns, HubSubscribe(c) PROVE AllGoneOffline'
  BY <1>9, HubAssumption DEF HubSubscribe, AllGoneOffline, SingleLogin, Gone, TypeInv, TypeOK, PumpOK
<1>10. ASSUME NEW c \in Conns, NEW ch \in Channels, ChannelLeave(c, ch) PROVE AllGoneOffline'
  BY <1>10, HubAssumption DEF ChannelLeave, Unsubscribe, AllGoneOffline, SingleLogin, Gone, TypeInv, TypeOK, PumpOK
<1>11. ASSUME NEW c \in Conns, HubUnsubscribe(c) PROVE AllGoneOffline'
  BY <1>11, HubAssumption DEF HubUnsubscribe, DropSubscriber, AllGoneOffline, SingleLogin, Gone, TypeInv, TypeOK, PumpOK
<1>12. ASSUME NEW c \in Conns, AgentHello(c) PROVE AllGoneOffline'
  BY <1>12, HubAssumption DEF AgentHello, SetPresence, AllGoneOffline, SingleLogin, Gone, TypeInv, TypeOK, PumpOK
<1>13. ASSUME NEW c \in Conns, AgentSleep(c) PROVE AllGoneOffline'
  BY <1>13, HubAssumption DEF AgentSleep, SetPresence, AllGoneOffline, SingleLogin, Gone, TypeInv, TypeOK, PumpOK
<1>14. ASSUME NEW c \in Conns, PumpRemove(c) PROVE AllGoneOffline'
  BY <1>14, HubAssumption DEF PumpRemove, ReadEnds, DropAgent, DropSubscriptions, Delete, AllGoneOffline, SingleLogin, Gone, TypeInv, TypeOK, PumpOK
<1>15. ASSUME NEW c \in Conns, PumpClose(c) PROVE AllGoneOffline'
  BY <1>15, HubAssumption DEF PumpClose, CloseConn, AllGoneOffline, SingleLogin, Gone, TypeInv, TypeOK, PumpOK
<1>16. ASSUME HubClose PROVE AllGoneOffline'
  BY <1>16, HubAssumption DEF HubClose, AllGoneOffline, SingleLogin, Gone, TypeInv, TypeOK, PumpOK
<1> QED BY <1>1, <1>2, <1>3, <1>4, <1>5, <1>6, <1>7, <1>8, <1>9, <1>10, <1>11, <1>12, <1>13, <1>14, <1>15, <1>16 DEF Next, ConnStep, HandlerStep, Frame, KickStep, TimeoutCheck, TimeoutClose, DaemonRegister, HubCloseConn, AddChannelMember, KickDelete, KickLookup, KickUnsubscribe, KickHub

\* Hub.GetConn returns a connection of the member, and a connection that logs
\* in for the first time is in no map.
LEMMA KickHitsStep == TypeInv /\ Owner /\ KickHitsItsMember /\ [Next]_vars => KickHitsItsMember'
<1> SUFFICES ASSUME TypeInv, Owner, KickHitsItsMember, [Next]_vars PROVE KickHitsItsMember'
  OBVIOUS
<1>1. CASE UNCHANGED <<kick, id, logins>>
  BY <1>1 DEF KickHitsItsMember
<1>2. ASSUME NEW c \in Conns, NEW m \in Members, AuthLogin(c, m) PROVE KickHitsItsMember'
  <2>1. \A d \in Conns : /\ logins'[d] <= 1 => logins[d] <= 1
                         /\ d # c => id'[d] = id[d]
    BY <1>2 DEF AuthLogin, TypeInv, TypeOK
  <2>2. logins'[c] <= 1 => logins[c] = 0 /\ id[c] = NoMember
    BY <1>2 DEF AuthLogin, TypeInv, TypeOK, PumpOK
  <2> SUFFICES ASSUME NEW r \in Kickers, kick[r].at = "unsubscribe", logins'[kick[r].conn] <= 1
               PROVE id'[kick[r].conn] = kick[r].mem
    BY <1>2 DEF AuthLogin, KickHitsItsMember
  <2>3. kick[r].conn \in Conns /\ kick[r].mem \in Members
    BY DEF TypeInv, KickOK
  <2>4. id[kick[r].conn] = kick[r].mem
    BY <2>1, <2>3 DEF KickHitsItsMember
  <2> QED BY <2>1, <2>2, <2>3, <2>4, HubAssumption
<1>3. ASSUME NEW r \in Kickers, NEW ch \in Channels, NEW m \in Members, KickDelete(r, ch, m) PROVE KickHitsItsMember'
  BY <1>3, HubAssumption DEF KickDelete, KickHitsItsMember, Owner, TypeInv, TypeOK, PumpOK, KickOK
<1>4. ASSUME NEW r \in Kickers, KickLookup(r) PROVE KickHitsItsMember'
  BY <1>4, HubAssumption DEF KickLookup, KickHitsItsMember, Owner, TypeInv, TypeOK, PumpOK, KickOK
<1>5. ASSUME NEW r \in Kickers, KickUnsubscribe(r) PROVE KickHitsItsMember'
  BY <1>5, HubAssumption DEF KickUnsubscribe, Unsubscribe, KickHitsItsMember, Owner, TypeInv, TypeOK, PumpOK, KickOK
<1>6. ASSUME NEW r \in Kickers, KickHub(r) PROVE KickHitsItsMember'
  BY <1>6, HubAssumption DEF KickHub, DropSubscriber, NoKick, KickHitsItsMember, Owner, TypeInv, TypeOK, PumpOK, KickOK
<1> QED BY <1>1, <1>2, <1>3, <1>4, <1>5, <1>6 DEF Next, ConnStep, HandlerStep, Frame, KickStep, Connect, TimeoutCheck, TimeoutClose, HubAdd, CloseOld, ListChannels, ChannelJoin, Subscribe, HubSubscribe, ChannelLeave, HubUnsubscribe, AgentHello, AgentSleep, DaemonRegister, PumpRemove, PumpClose, HubCloseConn, AddChannelMember, HubClose, SetPresence

\* Only its own handlers enter or delete what is under the id of a connection
\* that is alone under it, or a removal of the member whose lookup found it.
LEMMA SoleStep == TypeInv /\ KickHitsItsMember /\ SoleInv /\ [Next]_vars => SoleInv'
<1> SUFFICES ASSUME TypeInv, KickHitsItsMember, SoleInv, [Next]_vars PROVE SoleInv'
  OBVIOUS
<1>1. CASE UNCHANGED <<connections, channels, subs, id, logins, pc, cur, stopping, crossed, kick>>
  BY <1>1 DEF SoleInv, SingleLogin, Sole, RemovalPending
<1>2. ASSUME NEW c \in Conns, Connect(c) PROVE SoleInv'
  BY <1>2, HubAssumption DEF Connect, SoleInv, SingleLogin, Sole, RemovalPending, TypeInv, TypeOK, PumpOK
<1>3. ASSUME NEW c \in Conns, NEW m \in Members, AuthLogin(c, m) PROVE SoleInv'
  BY <1>3, HubAssumption DEF AuthLogin, SoleInv, SingleLogin, Sole, RemovalPending, TypeInv, TypeOK, PumpOK
<1>4. ASSUME NEW c \in Conns, HubAdd(c) PROVE SoleInv'
  BY <1>4, HubAssumption DEF HubAdd, SoleInv, SingleLogin, Sole, RemovalPending, TypeInv, TypeOK, PumpOK
<1>5. ASSUME NEW c \in Conns, CloseOld(c) PROVE SoleInv'
  BY <1>5, HubAssumption DEF CloseOld, CloseConn, SoleInv, SingleLogin, Sole, RemovalPending, TypeInv, TypeOK, PumpOK
<1>6. ASSUME NEW c \in Conns, ListChannels(c) PROVE SoleInv'
  BY <1>6, HubAssumption DEF ListChannels, SoleInv, SingleLogin, Sole, RemovalPending, TypeInv, TypeOK, PumpOK
<1>7. ASSUME NEW c \in Conns, NEW ch \in Channels, ChannelJoin(c, ch) PROVE SoleInv'
  BY <1>7, HubAssumption DEF ChannelJoin, SoleInv, SingleLogin, Sole, RemovalPending, TypeInv, TypeOK, PumpOK
<1>8. ASSUME NEW c \in Conns, NEW ch \in Channels, Subscribe(c, ch) PROVE SoleInv'
  <2>0. /\ UNCHANGED <<connections, channels, id, logins, stopping, kick>>
        /\ pc[c] = "subscribing"
        /\ \A d \in Conns : d # c => pc'[d] = pc[d] /\ subs'[d] = subs[d] /\ cur'[d] = cur[d]
    BY <1>8 DEF Subscribe, TypeInv, TypeOK
  <2>1. \/ subs'[c] = subs[c] /\ pc'[c] \in {"reading", "subscribing"} /\ crossed' = crossed
        \/ /\ subs'[c] = subs[c] \cup {ch} /\ pc'[c] = "hubSubscribing" /\ cur'[c] = ch
           /\ crossed' = IF RemovalPending(ch, id[c]) THEN crossed \cup {<<c, ch>>}
                                                      ELSE crossed \ {<<c, ch>>}
    BY <1>8 DEF Subscribe, TypeInv, TypeOK
  <2>2. Authenticated(c)
    BY <2>0 DEF TypeInv, PumpOK
  <2>3. \A d \in Conns, g \in Channels : <<d, g>> # <<c, ch>> =>
            (<<d, g>> \in crossed' <=> <<d, g>> \in crossed)
    BY <2>1
  <2>4. subs'[c] # subs[c] /\ RemovalPending(ch, id[c]) => <<c, ch>> \in crossed'
    BY <2>1
  <2>5. \A g \in Channels, m \in Members : RemovalPending(g, m)' <=> RemovalPending(g, m)
    BY <2>0 DEF RemovalPending
  <2>6. \A d \in Conns : subs[d] \subseteq Channels /\ subs'[d] \subseteq Channels
                         /\ (Authenticated(d) => id[d] \in Members)
    BY <2>0, <2>1 DEF TypeInv, TypeOK
  <2> QED BY <2>0, <2>1, <2>2, <2>3, <2>4, <2>5, <2>6 DEF SoleInv, SingleLogin, Sole
<1>9. ASSUME NEW c \in Conns, HubSubscribe(c) PROVE SoleInv'
  BY <1>9, HubAssumption DEF HubSubscribe, SoleInv, SingleLogin, Sole, RemovalPending, TypeInv, TypeOK, PumpOK
<1>10. ASSUME NEW c \in Conns, NEW ch \in Channels, ChannelLeave(c, ch) PROVE SoleInv'
  BY <1>10, HubAssumption DEF ChannelLeave, Unsubscribe, SoleInv, SingleLogin, Sole, RemovalPending, TypeInv, TypeOK, PumpOK
<1>11. ASSUME NEW c \in Conns, HubUnsubscribe(c) PROVE SoleInv'
  BY <1>11, HubAssumption DEF HubUnsubscribe, DropSubscriber, SoleInv, SingleLogin, Sole, RemovalPending, TypeInv, TypeOK, PumpOK
<1>12. ASSUME NEW c \in Conns, PumpRemove(c) PROVE SoleInv'
  BY <1>12, HubAssumption DEF PumpRemove, ReadEnds, DropAgent, DropSubscriptions, Delete, SoleInv, SingleLogin, Sole, RemovalPending, TypeInv, TypeOK, PumpOK
<1>13. ASSUME NEW c \in Conns, PumpClose(c) PROVE SoleInv'
  BY <1>13, HubAssumption DEF PumpClose, CloseConn, SoleInv, SingleLogin, Sole, RemovalPending, TypeInv, TypeOK, PumpOK
<1>17. ASSUME NEW r \in Kickers, NEW ch \in Channels, NEW m \in Members, KickDelete(r, ch, m) PROVE SoleInv'
  BY <1>17, HubAssumption DEF KickDelete, SoleInv, SingleLogin, Sole, RemovalPending, TypeInv, TypeOK, PumpOK
<1>18. ASSUME NEW r \in Kickers, KickLookup(r) PROVE SoleInv'
  BY <1>18, HubAssumption DEF KickLookup, KickOK, SoleInv, SingleLogin, Sole, RemovalPending, TypeInv, TypeOK, PumpOK
<1>14. ASSUME NEW r \in Kickers, KickUnsubscribe(r) PROVE SoleInv'
  <2>1. PICK d \in Conns, g \in Channels, m \in Members :
            d = kick[r].conn /\ g = kick[r].ch /\ m = kick[r].mem
    BY <1>14 DEF KickUnsubscribe, TypeInv, KickOK
  <2>2. /\ UNCHANGED <<connections, channels, id, logins, stopping, pc, cur>>
        /\ subs'[d] = subs[d] \ {g}
        /\ \A e \in Conns : e # d => subs'[e] = subs[e]
        /\ crossed' = crossed \ {<<d, g>>}
    BY <1>14, <2>1 DEF KickUnsubscribe, Unsubscribe, TypeInv, TypeOK
  <2>3. \A f \in Channels, n \in Members :
            RemovalPending(f, n)' => RemovalPending(f, n) \/ (f = g /\ n = m)
    BY <1>14, <2>1 DEF KickUnsubscribe, RemovalPending, TypeInv, TypeOK
  <2>4. SingleLogin => id[d] = m
    BY <1>14, <2>1 DEF KickUnsubscribe, KickHitsItsMember, SingleLogin
  <2>5. \A e \in Conns, f \in Channels : f \in subs'[e] =>
            f \in subs[e] /\ <<e, f>> # <<d, g>> /\ (<<e, f>> \in crossed => <<e, f>> \in crossed')
    BY <2>2
  <2>6. \A e \in Conns : subs'[e] \subseteq subs[e] /\ subs[e] \subseteq Channels
                         /\ (Authenticated(e) => id[e] \in Members)
    BY <2>2 DEF TypeInv, TypeOK
  <2>7. ASSUME SingleLogin, ~stopping, NEW e \in Conns, Authenticated(e), Sole(e),
               pc[e] \notin {"unborn", "adding", "removed", "exited"}
        PROVE  \A f \in subs'[e] : RemovalPending(f, id[e])' => <<e, f>> \in crossed'
    <3> SUFFICES ASSUME NEW f \in subs'[e], RemovalPending(f, id[e])'
                 PROVE  <<e, f>> \in crossed'
      OBVIOUS
    <3>0. f \in Channels /\ f \in subs[e] /\ id[e] \in Members
      BY <2>6, <2>7
    <3>1. CASE RemovalPending(f, id[e])
      BY <3>0, <3>1, <2>5, <2>7 DEF SoleInv
    <3>2. CASE f = g /\ id[e] = m
      BY <3>0, <3>2, <2>4, <2>5, <2>7 DEF Sole
    <3> QED BY <3>0, <3>1, <3>2, <2>2, <2>3
  <2> QED BY <2>2, <2>5, <2>6, <2>7 DEF SoleInv, SingleLogin, Sole
<1>15. ASSUME NEW r \in Kickers, KickHub(r) PROVE SoleInv'
  BY <1>15, HubAssumption DEF KickHub, DropSubscriber, NoKick, SoleInv, SingleLogin, Sole, RemovalPending, TypeInv, TypeOK, PumpOK
<1>16. ASSUME HubClose PROVE SoleInv'
  BY <1>16, HubAssumption DEF HubClose, SoleInv, SingleLogin, Sole, RemovalPending, TypeInv, TypeOK, PumpOK
<1> QED BY <1>1, <1>2, <1>3, <1>4, <1>5, <1>6, <1>7, <1>8, <1>9, <1>10, <1>11, <1>12, <1>13, <1>14, <1>15, <1>16, <1>17, <1>18 DEF Next, ConnStep, HandlerStep, Frame, KickStep, TimeoutCheck, TimeoutClose, AgentHello, AgentSleep, DaemonRegister, HubCloseConn, AddChannelMember, SetPresence

-----------------------------------------------------------------------------
\* Hub.agents and Hub.connections agree on the agents for every number of
\* connections and logins (hub.go: Add, Remove, Close).
THEOREM AgentsAgree == Spec => []AgentsAreConnections
<1>1. Init => AgentsAreConnections
  BY DEF Init, AgentsAreConnections
<1> QED BY <1>1, TypeInvInit, TypeInvStep, AgentsStep, PTL DEF Spec

\* A connection is only ever found under the id and name it logged in with, or
\* under a name it registered as a daemon (hub.go: Add, SubscribeChannel,
\* RegisterDaemon).
THEOREM OwnerInvariant == Spec => []Owner
<1>1. Init => Owner
  BY HubAssumption DEF Init, Owner
<1> QED BY <1>1, TypeInvInit, TypeInvStep, OwnerStep, PTL DEF Spec

\* No map of the hub leads to a connection whose pump ran Hub.Remove.
THEOREM RemovedStaysRemoved == Spec => []GoneUnreachable
<1>1. Init => GoneUnreachable
  BY DEF Init, GoneUnreachable, Gone
<1> QED BY <1>1, TypeInvInit, TypeInvStep, OwnerInvariant, GoneStep, PTL DEF Spec

\* A member without a connection left is offline.
THEOREM OfflineWhenGone == Spec => []AllGoneOffline
<1>1. Init => AllGoneOffline
  BY DEF Init, AllGoneOffline
<1> QED BY <1>1, TypeInvInit, TypeInvStep, OfflineStep, PTL DEF Spec

\* The removal of a channel member unsubscribes no connection of another member.
THEOREM RemovalHitsItsMember == Spec => []KickHitsItsMember
<1>1. Init => KickHitsItsMember
  BY DEF Init, KickHitsItsMember, NoKick
<1> QED BY <1>1, TypeInvInit, TypeInvStep, OwnerInvariant, KickHitsStep, PTL DEF Spec

\* Until the server stops, and while every connection logged in once at most, the
\* hub finds a connection that is alone under its id, and finds it in every channel
\* it is subscribed to, a subscription that crossed a removal's last step excepted.
THEOREM SoleReachable == Spec => []SoleConnReachable
<1>1. Init => SoleInv
  BY HubAssumption DEF Init, SoleInv, SingleLogin
<1>2. TypeInv /\ AgentsAreConnections /\ SoleInv => SoleConnReachable
  <2> SUFFICES ASSUME TypeInv, AgentsAreConnections, SoleInv, SingleLogin, ~stopping,
                      NEW c \in Conns, pc[c] = "reading", Authenticated(c), Sole(c)
               PROVE  /\ connections[id[c]] = c /\ (IsAgent(c) => agents[id[c]] = c)
                      /\ \A ch \in subs[c] : channels[ch][id[c]] = c \/ <<c, ch>> \in crossed
    BY DEF SoleConnReachable
  <2>1. connections[id[c]] = c
        /\ \A ch \in subs[c] : channels[ch][id[c]] = c \/ <<c, ch>> \in crossed
    BY DEF SoleInv
  <2>2. id[c] \in Members
    BY DEF TypeInv, TypeOK
  <2> QED BY <2>1, <2>2 DEF AgentsAreConnections
<1> QED BY <1>1, <1>2, TypeInvInit, TypeInvStep, AgentsAgree, RemovalHitsItsMember, SoleStep, PTL
        DEF Spec
=============================================================================
