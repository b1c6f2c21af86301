------------------------------- MODULE Bridge -------------------------------
(***************************************************************************)
(* The agent bridge (cmd/lark-agent and internal/agent) and the handlers   *)
(* of the server it talks to.  The bridge logs in, announces itself and    *)
(* then reads frames: each agent.wake starts a goroutine that runs a       *)
(* command and posts what it printed, by way of a held draft.              *)
(*                                                                         *)
(* The frames of one connection are handled in order at both ends.  What   *)
(* the server sends waits in a buffer of 256 frames, which all broadcasts  *)
(* share, so that any frame may find it full and be dropped.  What makes   *)
(* the server refuse a draft or a message is the subject of HeldDrafts and *)
(* left open here.                                                         *)
(***************************************************************************)
EXTENDS Naturals, Sequences, FiniteSets

CONSTANTS
    Runs,      \* the times the agent is woken: each names a run, its draft
               \* and the notification that goes with it
    NoRun,     \* no run
    MaxStarts, \* bound: starts of the process
    MaxFaults  \* bound: frames that are dropped and inbox queries that fail

ASSUME BridgeAssumption ==
    /\ NoRun \notin Runs
    /\ IsFiniteSet(Runs)
    /\ MaxStarts \in Nat
    /\ MaxFaults \in Nat

VARIABLES
    phase,       \* the process: how far Bridge.Run is
    starts,      \* how often it was started
    run,         \* the goroutines in spawnAgent
    how,         \* history: how a run got past the wait for its draft.ack
    asked,       \* history: the drafts the bridge asked the server to send
    pendingAck,  \* the channel pendingDraftAck, which holds one draft
    toServer,    \* frames on their way to the server
    toBridge,    \* frames in the server's buffer and on their way to the bridge
    presence,    \* Hub.presence of the agent
    inbox,       \* the row of notifications that goes with a mention
    draft,       \* held_drafts.status of the draft of a run
    posted,      \* messages made from the response of a run
    faults       \* frames dropped and inbox queries failed so far

vars == <<phase, starts, run, how, asked, pendingAck, toServer, toBridge,
          presence, inbox, draft, posted, faults>>

process == <<phase, starts, run, how, asked, pendingAck>>
server == <<presence, inbox, draft, posted>>

-----------------------------------------------------------------------------

Phase == {"off", "login", "ready", "exited"}

RunState == {"none",
             "working",    \* the command runs
             "waiting",    \* in the select after draft.create
             "ended"}

How == {"none", "acked", "timedOut", "expired", "killed"}

\* A frame and the runs it is about.
ServerFrames ==
    [type : {"auth.login", "agent.hello", "draft.create", "draft.send", "message.send",
             "agent.sleep", "inbox.poll", "inbox.ack"},
     runs : SUBSET Runs]

BridgeFrames ==
    [type : {"auth.success", "auth.fail", "other"}, runs : {{}}]
    \cup [type : {"agent.wake", "draft.ack", "inbox.items"}, runs : SUBSET Runs]

TypeOK ==
    /\ phase \in Phase
    /\ starts \in 0..MaxStarts
    /\ run \in [Runs -> RunState]
    /\ how \in [Runs -> How]
    /\ asked \subseteq Runs
    /\ pendingAck \in Runs \cup {NoRun}
    /\ toServer \in Seq(ServerFrames)
    /\ toBridge \in Seq(BridgeFrames)
    /\ presence \in {"offline", "online", "sleeping"}
    /\ inbox \in [Runs -> {"absent", "failed", "unread", "read"}]
    /\ draft \in [Runs -> {"none", "held", "sent"}]
    /\ posted \in [Runs -> Nat]
    /\ faults \in 0..MaxFaults

Init ==
    /\ phase = "off" /\ starts = 0
    /\ run = [r \in Runs |-> "none"]
    /\ how = [r \in Runs |-> "none"]
    /\ asked = {} /\ pendingAck = NoRun
    /\ toServer = <<>> /\ toBridge = <<>>
    /\ presence = "offline"
    /\ inbox = [r \in Runs |-> "absent"]
    /\ draft = [r \in Runs |-> "none"]
    /\ posted = [r \in Runs |-> 0]
    /\ faults = 0

Active(r) == run[r] \in {"working", "waiting"}

-----------------------------------------------------------------------------
\* Frames

Frame(type, runs) == [type |-> type, runs |-> runs]

\* Bridge.send while the connection is open.
Send(type, runs) == toServer' = Append(toServer, Frame(type, runs))

\* Conn.Send: the frame is put into the buffer, or dropped when that is full.
Push(type, runs) ==
    \/ toBridge' = Append(toBridge, Frame(type, runs)) /\ UNCHANGED faults
    \/ faults < MaxFaults /\ faults' = faults + 1 /\ UNCHANGED toBridge

Quiet == UNCHANGED <<toBridge, faults>>

\* The server handles the next frame of the given type.
Takes(type) ==
    /\ toServer # <<>>
    /\ Head(toServer).type = type
    /\ toServer' = Tail(toServer)

\* The bridge does.
Reads(type) ==
    /\ toBridge # <<>>
    /\ Head(toBridge).type = type
    /\ toBridge' = Tail(toBridge)
    /\ UNCHANGED faults

-----------------------------------------------------------------------------
\* Start and end of the process

\* main and Run up to authenticate, if a runtime was detected.
Start ==
    /\ phase = "off" /\ starts < MaxStarts
    /\ phase' = "login" /\ starts' = starts + 1
    /\ Send("auth.login", {})
    /\ Quiet
    /\ UNCHANGED <<run, how, asked, pendingAck>>
    /\ UNCHANGED server

\* The goroutines end with the process.
Exits ==
    /\ phase' = "exited"
    /\ run' = [r \in Runs |-> IF Active(r) THEN "ended" ELSE run[r]]
    /\ how' = [r \in Runs |-> IF Active(r) THEN "killed" ELSE how[r]]
    /\ UNCHANGED <<starts, asked, pendingAck>>

\* authenticate reads one frame, and sendHello follows if it is the right one.
LoggedIn ==
    /\ phase = "login"
    /\ Reads("auth.success")
    /\ phase' = "ready"
    /\ Send("agent.hello", {})
    /\ UNCHANGED <<starts, run, how, asked, pendingAck>>
    /\ UNCHANGED server

\* Any other frame ends the process, a broadcast that came first as well.
LoginFails ==
    /\ phase = "login"
    /\ Reads("auth.fail") \/ Reads("other")
    /\ Exits
    /\ UNCHANGED toServer
    /\ UNCHANGED server

\* No answer within ten seconds, a read error, or a signal: the process ends.
\* There is no attempt to connect again.
Exit ==
    /\ phase \in {"login", "ready"}
    /\ Exits
    /\ Quiet
    /\ UNCHANGED toServer
    /\ UNCHANGED server

\* The server finds the connection closed: Hub.Remove.  The frames that are left
\* are gone.  Only then is the bridge started again.
Closed ==
    /\ phase = "exited"
    /\ phase' = "off"
    /\ toServer' = <<>> /\ toBridge' = <<>>
    /\ presence' = "offline"
    /\ pendingAck' = NoRun
    /\ UNCHANGED <<starts, run, how, asked, inbox, draft, posted, faults>>

-----------------------------------------------------------------------------
\* The runs

\* handleWake: agent.thinking (which only shows as typing) and a goroutine; or
\* the frame is invalid, or the command does not start, and nothing is sent.
ReadWake ==
    /\ phase = "ready"
    /\ Reads("agent.wake")
    /\ \E r \in Head(toBridge).runs :
          run' = [run EXCEPT ![r] = "working"] \/ run' = [run EXCEPT ![r] = "ended"]
    /\ UNCHANGED <<phase, starts, how, asked, pendingAck, toServer>>
    /\ UNCHANGED server

\* spawnAgent: the command has ended, by itself or killed when the five minutes
\* are over; what it printed becomes a draft either way.
Finish(r) ==
    /\ run[r] = "working"
    /\ run' = [run EXCEPT ![r] = "waiting"]
    /\ Send("draft.create", {r})
    /\ Quiet
    /\ UNCHANGED <<phase, starts, how, asked, pendingAck>>
    /\ UNCHANGED server

\* handleEvent puts the draft into the channel, or drops it when one is there.
ReadAck ==
    /\ phase = "ready"
    /\ Reads("draft.ack")
    /\ pendingAck' \in IF pendingAck = NoRun THEN Head(toBridge).runs ELSE {pendingAck}
    /\ UNCHANGED <<phase, starts, run, how, asked, toServer>>
    /\ UNCHANGED server

\* The run sends its outcome and agent.sleep, whatever the other runs do.
Ends(r, way, frames) ==
    /\ run[r] = "waiting"
    /\ run' = [run EXCEPT ![r] = "ended"]
    /\ how' = [how EXCEPT ![r] = way]
    /\ toServer' = toServer \o frames \o <<Frame("agent.sleep", {})>>
    /\ Quiet
    /\ UNCHANGED <<phase, starts>>
    /\ UNCHANGED server

\* Mutant: the draft is looked at and left in the channel.
TakeAckPeeks(r) ==
    /\ pendingAck # NoRun
    /\ Ends(r, "acked", <<Frame("draft.send", {pendingAck})>>)
    /\ asked' = asked \cup {pendingAck}
    /\ UNCHANGED pendingAck

\* Mutant: a run that gets the draft of another sends its response directly too.
TakeAckMatches(r) ==
    /\ pendingAck # NoRun
    /\ Ends(r, "acked", <<Frame("draft.send", {pendingAck})>>
                        \o (IF pendingAck = r THEN <<>> ELSE <<Frame("message.send", {r})>>))
    /\ asked' = asked \cup {pendingAck}
    /\ pendingAck' = NoRun

\* The first case of the select: whichever draft is in the channel is sent.
TakeAck(r) ==
    /\ pendingAck # NoRun
    /\ Ends(r, "acked", <<Frame("draft.send", {pendingAck})>>)
    /\ asked' = asked \cup {pendingAck}
    /\ pendingAck' = NoRun

\* Mutant: the run is over once its response is sent directly.
AckTimeoutReturns(r) ==
    /\ run[r] = "waiting"
    /\ run' = [run EXCEPT ![r] = "ended"]
    /\ how' = [how EXCEPT ![r] = "timedOut"]
    /\ Send("message.send", {r})
    /\ Quiet
    /\ UNCHANGED <<phase, starts, asked, pendingAck>>
    /\ UNCHANGED server

\* Mutant: there is no timeout; the run waits for a draft.
AckTimeoutNever(r) == FALSE /\ UNCHANGED vars

\* The second: five seconds have passed, and the response is sent directly.  The
\* draft is not withdrawn, and its acknowledgement may still come.
AckTimeout(r) ==
    /\ Ends(r, "timedOut", <<Frame("message.send", {r})>>)
    /\ UNCHANGED <<asked, pendingAck>>

\* The third: the five minutes of the run are over, which may be when the wait
\* begins.  Nothing is sent.
GiveUp(r) ==
    /\ run[r] = "waiting"
    /\ run' = [run EXCEPT ![r] = "ended"]
    /\ how' = [how EXCEPT ![r] = "expired"]
    /\ Quiet
    /\ UNCHANGED <<phase, starts, asked, pendingAck, toServer>>
    /\ UNCHANGED server

-----------------------------------------------------------------------------
\* The inbox

\* pollInbox, every 30 seconds.  The model leaves out polls that find nothing, and
\* waits for the answer to the last one.
Poll ==
    /\ phase = "ready"
    /\ \E r \in Runs : inbox[r] = "unread"
    /\ \A i \in DOMAIN toServer : toServer[i].type \notin {"inbox.poll", "inbox.ack"}
    /\ \A i \in DOMAIN toBridge : toBridge[i].type # "inbox.items"
    /\ Send("inbox.poll", {})
    /\ Quiet
    /\ UNCHANGED process
    /\ UNCHANGED server

\* Mutant: an item is acknowledged by the run it belongs to.
ReadItemsOfRuns ==
    /\ phase = "ready"
    /\ Reads("inbox.items")
    /\ Send("inbox.ack", {r \in Head(toBridge).runs : run[r] # "none"})
    /\ UNCHANGED process
    /\ UNCHANGED server

\* handleInboxItems acknowledges each item, one frame after the other (one frame
\* here); it does nothing else about it.
ReadItems ==
    /\ phase = "ready"
    /\ Reads("inbox.items")
    /\ Send("inbox.ack", Head(toBridge).runs)
    /\ UNCHANGED process
    /\ UNCHANGED server

-----------------------------------------------------------------------------
\* The server

\* A mention of the agent (handleMentions): it is woken if it is connected, and
\* gets a notification unless the insert fails.
Mention(r) ==
    /\ inbox[r] = "absent"
    /\ IF presence = "offline" THEN Quiet ELSE Push("agent.wake", {r})
    /\ \E n \in {"failed", "unread"} : inbox' = [inbox EXCEPT ![r] = n]
    /\ UNCHANGED process
    /\ UNCHANGED <<toServer, presence, draft, posted>>

\* handleWSAuthLogin: Hub.Add comes before auth.success, so that a broadcast may
\* get in between.  (An answer that is dropped is an answer that is late.)
ServeLogin ==
    /\ Takes("auth.login")
    /\ \/ presence' = "online"
          /\ \E early \in {<<>>, <<Frame("other", {})>>} :
                toBridge' = toBridge \o early \o <<Frame("auth.success", {})>>
       \/ toBridge' = Append(toBridge, Frame("auth.fail", {})) /\ UNCHANGED presence
    /\ UNCHANGED process
    /\ UNCHANGED <<inbox, draft, posted, faults>>

\* HandleAgentHello
ServeHello ==
    /\ Takes("agent.hello")
    /\ presence' = "online"
    /\ Quiet
    /\ UNCHANGED process
    /\ UNCHANGED <<inbox, draft, posted>>

\* Mutant: the presence of a sleeping agent has a name the client does not know.
ServeSleepAway ==
    /\ Takes("agent.sleep")
    /\ presence' = "away"
    /\ Quiet
    /\ UNCHANGED process
    /\ UNCHANGED <<inbox, draft, posted>>

\* HandleAgentSleep
ServeSleep ==
    /\ Takes("agent.sleep")
    /\ presence' = "sleeping"
    /\ Quiet
    /\ UNCHANGED process
    /\ UNCHANGED <<inbox, draft, posted>>

\* handleWSDraftCreate; an error frame instead of the acknowledgement is only logged.
ServeCreate ==
    /\ Takes("draft.create")
    /\ \E r \in Head(toServer).runs :
       \/ draft' = [draft EXCEPT ![r] = "held"] /\ Push("draft.ack", {r})
       \/ UNCHANGED draft /\ Quiet
    /\ UNCHANGED process
    /\ UNCHANGED <<presence, inbox, posted>>

\* handleWSDraftSend: only a held draft becomes a message, and not when it is
\* stale or a query fails; it stays held if only its update fails.
ServeSend ==
    /\ Takes("draft.send")
    /\ \E r \in Head(toServer).runs :
       \/ /\ draft[r] = "held"
          /\ posted' = [posted EXCEPT ![r] = @ + 1]
          /\ \E d \in {"held", "sent"} : draft' = [draft EXCEPT ![r] = d]
       \/ UNCHANGED <<posted, draft>>
    /\ Quiet
    /\ UNCHANGED process
    /\ UNCHANGED <<presence, inbox>>

\* handleWSMessageSend: a message if the agent is subscribed and the insert succeeds.
ServeDirect ==
    /\ Takes("message.send")
    /\ \E r \in Head(toServer).runs : posted' \in {[posted EXCEPT ![r] = @ + 1], posted}
    /\ Quiet
    /\ UNCHANGED process
    /\ UNCHANGED <<presence, inbox, draft>>

\* handleWSInboxPoll: the unread rows, or an error.
ServePoll ==
    /\ Takes("inbox.poll")
    /\ Push("inbox.items", {r \in Runs : inbox[r] = "unread"})
    /\ UNCHANGED process
    /\ UNCHANGED server

\* handleWSInboxAck, item by item; an update may fail.
ServeAck ==
    /\ Takes("inbox.ack")
    /\ LET items == Head(toServer).runs IN
       \/ inbox' = [r \in Runs |-> IF r \in items THEN "read" ELSE inbox[r]] /\ UNCHANGED faults
       \/ /\ faults < MaxFaults /\ faults' = faults + 1
          /\ \E r \in items : inbox' = [s \in Runs |-> IF s \in items \ {r} THEN "read" ELSE inbox[s]]
    /\ UNCHANGED process
    /\ UNCHANGED <<toBridge, presence, draft, posted>>

-----------------------------------------------------------------------------

RunGoesOn(r) == Finish(r) \/ TakeAck(r) \/ AckTimeout(r)

\* readLoop, one frame at a time.
Read == LoggedIn \/ LoginFails \/ ReadWake \/ ReadAck \/ ReadItems

\* Conn.ReadPump, one frame at a time.
Serve ==
    \/ ServeLogin \/ ServeHello \/ ServeSleep
    \/ ServeCreate \/ ServeSend \/ ServeDirect
    \/ ServePoll \/ ServeAck

Next ==
    \/ Start \/ Exit \/ Closed
    \/ Read \/ Serve \/ Poll
    \/ \E r \in Runs : Mention(r) \/ RunGoesOn(r) \/ GiveUp(r)

Spec == Init /\ [][Next]_vars

\* Both ends read what has arrived, the goroutines of the bridge are scheduled,
\* and its ticker goes on ticking.
FairSpec ==
    /\ Spec
    /\ WF_vars(Read) /\ WF_vars(Serve) /\ WF_vars(Poll)
    /\ \A r \in Runs : WF_vars(RunGoesOn(r))

-----------------------------------------------------------------------------
\* Acknowledgements carry no run, so two runs may send each other's drafts.  As many
\* responses are left behind (their run was acknowledged, their draft is not asked
\* for) as drafts are asked for whose run timed out, expired, was killed or still
\* waits (bridge.go: handleEvent and the select of spawnAgent).  Without timeouts,
\* nothing is lost.
MixUpsBalance ==
    LET acked == {r \in Runs : how[r] = "acked"} IN
    Cardinality(acked \ asked) = Cardinality(asked \ acked)

\* A response is posted twice only when its run stopped waiting for the draft.ack
\* after five seconds, and never more often (bridge.go: spawnAgent falls back to
\* message.send and leaves the draft held), also when the server fails to mark a
\* draft as sent.
TwiceOnlyLate == \A r \in Runs :
    /\ posted[r] <= 2
    /\ posted[r] = 2 => how[r] = "timedOut"

\* When nothing is on its way to the server, an agent one of whose runs has ended
\* with a report is shown as asleep, and no later frame of the bridge wakes it up
\* (bridge.go: spawnAgent; agent.go: HandleAgentSleep).
AsleepAfterReport ==
    phase = "ready" /\ starts = 1 /\ toServer = <<>>
        /\ (\E r \in Runs : run[r] = "ended" /\ how[r] \in {"acked", "timedOut"})
    => presence = "sleeping"

\* Every run comes to an end, whatever happens to its draft and to the connection
\* (bridge.go: spawnAgent waits five seconds for an acknowledgement that may have
\* been dropped at either end).
EveryRunEnds == \A r \in Runs : Active(r) ~> ~Active(r)

\* While the bridge stays connected, every notification is read in the end, also
\* those of mentions it was not woken by (bridge.go: inboxPollLoop) and those
\* whose frames were dropped.
InboxDrained ==
    \A r \in Runs : (inbox[r] = "unread" /\ phase = "ready")
                    ~> (inbox[r] = "read" \/ phase # "ready")
=============================================================================
