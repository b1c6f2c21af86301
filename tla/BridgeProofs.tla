---------------------------- MODULE BridgeProofs ----------------------------
(***************************************************************************)
(* Theorems about Bridge, for all sets of runs and any number of starts    *)
(* and faults.                                                             *)
(***************************************************************************)
EXTENDS Bridge, FiniteSetTheorems, SequenceTheorems, TLAPS

-----------------------------------------------------------------------------
\* Invariants

\* The queue q holds a frame of the given type about run r, and no more than one.
Holds(q, type, r) == \E i \in DOMAIN q : q[i].type = type /\ r \in q[i].runs

Once(q, type, r) == \A i, j \in DOMAIN q :
    /\ q[i].type = type /\ r \in q[i].runs
    /\ q[j].type = type /\ r \in q[j].runs
    => i = j

\* A run is woken once, by the one notification of its mention.
WokenOnce(r) ==
    /\ Once(toBridge, "agent.wake", r)
    /\ Holds(toBridge, "agent.wake", r) => run[r] = "none" /\ inbox[r] # "absent"
    /\ run[r] # "none" => inbox[r] # "absent"

\* The draft of a run is created, acknowledged, put into the channel and asked for
\* in this order; it is in one of these places at most, and once.
DraftPasses(r) ==
    /\ Once(toServer, "draft.create", r)
    /\ Once(toBridge, "draft.ack", r)
    /\ Holds(toServer, "draft.create", r) => ~Holds(toBridge, "draft.ack", r)
    /\ Holds(toServer, "draft.create", r) \/ Holds(toBridge, "draft.ack", r)
       => pendingAck # r
    /\ Holds(toServer, "draft.create", r) \/ Holds(toBridge, "draft.ack", r) \/ pendingAck = r
       => r \notin asked /\ run[r] \in {"waiting", "ended"}
    /\ r \in asked => run[r] \in {"waiting", "ended"}

\* The frames that may post a response: one for a draft that is asked for, one for a
\* run that did not wait any longer.
PostsOnce(r) ==
    /\ Once(toServer, "draft.send", r)
    /\ Once(toServer, "message.send", r)
    /\ Holds(toServer, "draft.send", r) => r \in asked
    /\ Holds(toServer, "message.send", r) => how[r] = "timedOut"
    /\ how[r] # "none" => run[r] = "ended"

\* What has been posted was asked for by a frame that has been handled.
Posted(r) ==
    posted[r] <= (IF r \in asked /\ ~Holds(toServer, "draft.send", r) THEN 1 ELSE 0)
               + (IF how[r] = "timedOut" /\ ~Holds(toServer, "message.send", r) THEN 1 ELSE 0)

RunInv(r) == WokenOnce(r) /\ DraftPasses(r) /\ PostsOnce(r) /\ Posted(r)

AllRuns == \A r \in Runs : RunInv(r)

\* As many runs got a draft as drafts were asked for.
Acked == {r \in Runs : how[r] = "acked"}

Balanced == Cardinality(Acked) = Cardinality(asked)

\* Frames that wake the agent up, and the last of the others that came after them.
Rousing == {"auth.login", "agent.hello"}

Reported == \E r \in Runs : run[r] = "ended" /\ how[r] \in {"acked", "timedOut"}

FallsAsleep ==
    \/ /\ presence = "sleeping"
       /\ \A i \in DOMAIN toServer : toServer[i].type \notin Rousing
    \/ \E i \in DOMAIN toServer :
          /\ toServer[i].type = "agent.sleep"
          /\ \A j \in DOMAIN toServer : j > i => toServer[j].type \notin Rousing

SleepInv ==
    /\ starts = 0 => phase = "off"
    /\ starts = 0 \/ (starts = 1 /\ phase = "login") => \A r \in Runs : run[r] = "none"
    /\ starts = 1 /\ phase = "ready" /\ Reported => FallsAsleep

-----------------------------------------------------------------------------
\* Queues

LEMMA Appended ==
    ASSUME NEW S, NEW q \in Seq(S), NEW f \in S
    PROVE  /\ Append(q, f) \in Seq(S) /\ Append(q, f) # <<>>
           /\ DOMAIN q = 1..Len(q) /\ Len(q) \in Nat
           /\ DOMAIN Append(q, f) = 1..(Len(q) + 1)
           /\ \A i \in 1..Len(q) : Append(q, f)[i] = q[i]
           /\ Append(q, f)[Len(q) + 1] = f
<1>1. Append(q, f) \in Seq(S) /\ Len(Append(q, f)) = Len(q) + 1
  BY AppendProperties
<1> QED BY <1>1, AppendProperties, LenProperties, EmptySeq

LEMMA Shortened ==
    ASSUME NEW S, NEW q \in Seq(S), q # <<>>
    PROVE  /\ Tail(q) \in Seq(S) /\ Head(q) \in S /\ Head(q) = q[1]
           /\ DOMAIN q = 1..Len(q) /\ Len(q) \in Nat \ {0}
           /\ DOMAIN Tail(q) = 1..(Len(q) - 1)
           /\ \A i \in 1..(Len(q) - 1) : Tail(q)[i] = q[i + 1]
<1>1. Tail(q) \in Seq(S) /\ Head(q) \in S /\ Len(Tail(q)) = Len(q) - 1
      /\ \A i \in 1..Len(Tail(q)) : Tail(q)[i] = q[i + 1]
  BY HeadTailProperties
<1>2. Len(q) \in Nat \ {0} /\ DOMAIN q = 1..Len(q) /\ DOMAIN Tail(q) = 1..Len(Tail(q))
  BY <1>1, EmptySeq, LenProperties
<1>3. Head(q) = q[1]
  BY <1>2
<1> QED BY <1>1, <1>2, <1>3

LEMMA OneByOne ==
    ASSUME NEW S, NEW q \in Seq(S), NEW a \in S, NEW b \in S
    PROVE  /\ q \o <<a>> = Append(q, a)
           /\ q \o <<a>> \o <<b>> = Append(Append(q, a), b)
           /\ q \o <<>> \o <<b>> = Append(q, b)
<1>1. \A p \in Seq(S), c \in S : p \o <<c>> = Append(p, c)
  BY AppendIsConcat
<1>2. Append(q, a) \in Seq(S)
  BY AppendProperties
<1>3. q \o <<>> = q
  BY ConcatEmptySeq
<1> QED BY <1>1, <1>2, <1>3

LEMMA AppendHolds ==
    ASSUME NEW S, NEW q \in Seq(S), NEW f \in S, NEW type, NEW r
    PROVE  /\ Holds(Append(q, f), type, r) <=> Holds(q, type, r) \/ (f.type = type /\ r \in f.runs)
           /\ Once(q, type, r) /\ ~(Holds(q, type, r) /\ f.type = type /\ r \in f.runs)
              => Once(Append(q, f), type, r)
<1> DEFINE p == Append(q, f)
<1>1. /\ DOMAIN q = 1..Len(q) /\ Len(q) \in Nat /\ DOMAIN p = 1..(Len(q) + 1)
      /\ \A i \in 1..Len(q) : p[i] = q[i]
      /\ p[Len(q) + 1] = f
  BY Appended
<1> HIDE DEF p
<1>2. /\ \A i \in DOMAIN q : i \in DOMAIN p /\ p[i] = q[i]
      /\ Len(q) + 1 \in DOMAIN p
      /\ \A i \in DOMAIN p : i \in DOMAIN q \/ i = Len(q) + 1
  BY <1>1
<1>3. Holds(p, type, r) <=> Holds(q, type, r) \/ (f.type = type /\ r \in f.runs)
  BY <1>1, <1>2 DEF Holds
<1>4. Once(q, type, r) /\ ~(Holds(q, type, r) /\ f.type = type /\ r \in f.runs) => Once(p, type, r)
  BY <1>1, <1>2 DEF Holds, Once
<1> QED BY <1>3, <1>4 DEF p

LEMMA TailHolds ==
    ASSUME NEW S, NEW q \in Seq(S), q # <<>>, NEW type, NEW r
    PROVE  /\ Holds(Tail(q), type, r) => Holds(q, type, r)
           /\ Head(q).type = type /\ r \in Head(q).runs => Holds(q, type, r)
           /\ Once(q, type, r) => Once(Tail(q), type, r)
           /\ Once(q, type, r) /\ Head(q).type = type /\ r \in Head(q).runs
              => ~Holds(Tail(q), type, r)
<1> DEFINE p == Tail(q)
<1>1. /\ Head(q) = q[1] /\ DOMAIN q = 1..Len(q) /\ Len(q) \in Nat \ {0}
      /\ DOMAIN p = 1..(Len(q) - 1)
      /\ \A i \in 1..(Len(q) - 1) : p[i] = q[i + 1]
  BY Shortened
<1> HIDE DEF p
<1>2. /\ 1 \in DOMAIN q
      /\ \A i \in DOMAIN p : i + 1 \in DOMAIN q /\ p[i] = q[i + 1] /\ i + 1 # 1
      /\ \A i, j \in DOMAIN p : i + 1 = j + 1 => i = j
  BY <1>1
<1>3. Holds(p, type, r) => Holds(q, type, r)
  BY <1>2 DEF Holds
<1>4. Head(q).type = type /\ r \in Head(q).runs => Holds(q, type, r)
  BY <1>1, <1>2 DEF Holds
<1>5. Once(q, type, r) => Once(p, type, r)
  BY <1>2 DEF Once
<1>6. Once(q, type, r) /\ Head(q).type = type /\ r \in Head(q).runs => ~Holds(p, type, r)
  BY <1>1, <1>2 DEF Holds, Once
<1> QED BY <1>3, <1>4, <1>5, <1>6 DEF p

LEMMA NoneHeld ==
    ASSUME NEW type, NEW r
    PROVE  ~Holds(<<>>, type, r) /\ Once(<<>>, type, r)
BY DEF Holds, Once

-----------------------------------------------------------------------------
\* Types

LEMMA FrameTypes ==
    /\ \A r \in Runs : \A type \in {"draft.create", "draft.send", "message.send"} :
          Frame(type, {r}) \in ServerFrames
    /\ \A type \in {"auth.login", "agent.hello", "agent.sleep", "inbox.poll"} :
          Frame(type, {}) \in ServerFrames
    /\ \A runs \in SUBSET Runs : Frame("inbox.ack", runs) \in ServerFrames
    /\ \A runs \in SUBSET Runs : \A type \in {"agent.wake", "draft.ack", "inbox.items"} :
          Frame(type, runs) \in BridgeFrames
    /\ \A type \in {"auth.success", "auth.fail", "other"} : Frame(type, {}) \in BridgeFrames
    /\ \A f \in ServerFrames \cup BridgeFrames : f.runs \in SUBSET Runs
    /\ \A type, runs : Frame(type, runs).type = type /\ Frame(type, runs).runs = runs
BY DEF Frame, ServerFrames, BridgeFrames

LEMMA TakesTypes ==
    ASSUME TypeOK, NEW type, Takes(type)
    PROVE  /\ toServer' \in Seq(ServerFrames)
           /\ Head(toServer) \in ServerFrames /\ Head(toServer).runs \in SUBSET Runs
BY HeadTailProperties, FrameTypes DEF TypeOK, Takes

LEMMA ReadsTypes ==
    ASSUME TypeOK, NEW type, Reads(type)
    PROVE  /\ toBridge' \in Seq(BridgeFrames) /\ faults' \in 0..MaxFaults
           /\ Head(toBridge) \in BridgeFrames /\ Head(toBridge).runs \in SUBSET Runs
BY HeadTailProperties, FrameTypes DEF TypeOK, Reads

LEMMA SendTypes ==
    ASSUME TypeOK, NEW type, NEW runs, Frame(type, runs) \in ServerFrames, Send(type, runs)
    PROVE  toServer' \in Seq(ServerFrames)
BY AppendProperties DEF TypeOK, Send

LEMMA PushTypes ==
    ASSUME TypeOK, NEW type, NEW runs, Frame(type, runs) \in BridgeFrames, Push(type, runs)
    PROVE  toBridge' \in Seq(BridgeFrames) /\ faults' \in 0..MaxFaults
<1>1. CASE toBridge' = Append(toBridge, Frame(type, runs)) /\ UNCHANGED faults
  BY <1>1, AppendProperties DEF TypeOK
<1>2. CASE faults < MaxFaults /\ faults' = faults + 1 /\ UNCHANGED toBridge
  BY <1>2, BridgeAssumption DEF TypeOK
<1> QED BY <1>1, <1>2 DEF Push

LEMMA QuietTypes ==
    ASSUME TypeOK, Quiet
    PROVE  toBridge' \in Seq(BridgeFrames) /\ faults' \in 0..MaxFaults
BY DEF TypeOK, Quiet

LEMMA ExitsTypes ==
    ASSUME TypeOK, Exits
    PROVE  /\ phase' \in Phase /\ starts' \in 0..MaxStarts
           /\ run' \in [Runs -> RunState] /\ how' \in [Runs -> How]
           /\ asked' \subseteq Runs /\ pendingAck' \in Runs \cup {NoRun}
<1>1. phase' \in Phase /\ starts' = starts /\ asked' = asked /\ pendingAck' = pendingAck
  BY DEF Exits, Phase
<1>2. run' \in [Runs -> RunState] /\ how' \in [Runs -> How]
  BY DEF TypeOK, Exits, RunState, How
<1> QED BY <1>1, <1>2 DEF TypeOK


LEMMA EndsQueue ==
    ASSUME TypeOK, NEW r \in Runs, NEW way, NEW f \in ServerFrames, Ends(r, way, <<f>>)
    PROVE  /\ Append(toServer, f) \in Seq(ServerFrames)
           /\ toServer' = Append(Append(toServer, f), Frame("agent.sleep", {}))
           /\ toServer' \in Seq(ServerFrames)
<1>1. toServer' = toServer \o <<f>> \o <<Frame("agent.sleep", {})>>
  BY DEF Ends
<1>2. toServer \in Seq(ServerFrames) /\ Frame("agent.sleep", {}) \in ServerFrames
  BY FrameTypes DEF TypeOK
<1>3. Append(toServer, f) \in Seq(ServerFrames)
  BY <1>2, AppendProperties
<1>4. toServer' = Append(Append(toServer, f), Frame("agent.sleep", {}))
  BY <1>1, <1>2, OneByOne
<1> QED BY <1>2, <1>3, <1>4, AppendProperties

LEMMA EndsTypes ==
    ASSUME TypeOK, NEW r \in Runs, NEW way \in How, NEW f \in ServerFrames, Ends(r, way, <<f>>)
    PROVE  /\ phase' \in Phase /\ starts' \in 0..MaxStarts
           /\ run' \in [Runs -> RunState] /\ how' \in [Runs -> How]
           /\ toServer' \in Seq(ServerFrames)
           /\ toBridge' \in Seq(BridgeFrames) /\ faults' \in 0..MaxFaults
           /\ UNCHANGED server
<1>1. phase' = phase /\ starts' = starts /\ Quiet /\ UNCHANGED server
  BY DEF Ends
<1>2. run' \in [Runs -> RunState] /\ how' \in [Runs -> How]
  BY DEF Ends, TypeOK, RunState
<1> QED BY <1>1, <1>2, EndsQueue, QuietTypes DEF TypeOK

LEMMA LoginQueue ==
    ASSUME TypeOK, NEW early \in {<<>>, <<Frame("other", {})>>},
           toBridge' = toBridge \o early \o <<Frame("auth.success", {})>>
    PROVE  /\ Append(toBridge, Frame("other", {})) \in Seq(BridgeFrames)
           /\ \/ toBridge' = Append(toBridge, Frame("auth.success", {}))
              \/ toBridge' = Append(Append(toBridge, Frame("other", {})), Frame("auth.success", {}))
           /\ toBridge' \in Seq(BridgeFrames)
<1>1. /\ toBridge \in Seq(BridgeFrames)
      /\ Frame("other", {}) \in BridgeFrames /\ Frame("auth.success", {}) \in BridgeFrames
  BY FrameTypes DEF TypeOK
<1>2. Append(toBridge, Frame("other", {})) \in Seq(BridgeFrames)
  BY <1>1, AppendProperties
<1>3. \/ toBridge' = Append(toBridge, Frame("auth.success", {}))
      \/ toBridge' = Append(Append(toBridge, Frame("other", {})), Frame("auth.success", {}))
  BY <1>1, OneByOne
<1>4. \A q \in Seq(BridgeFrames) : Append(q, Frame("auth.success", {})) \in Seq(BridgeFrames)
  BY <1>1, AppendProperties
<1> QED BY <1>1, <1>2, <1>3, <1>4

LEMMA StepTypes ==
    ASSUME TypeOK, Next
    PROVE  TypeOK'
<1> USE DEF Phase, RunState, How
<1>1. CASE Start
  <2>1. Quiet /\ Send("auth.login", {}) /\ starts' \in 0..MaxStarts
    BY <1>1, BridgeAssumption DEF Start, TypeOK
  <2>2. toServer' \in Seq(ServerFrames)
    BY <2>1, SendTypes, FrameTypes
  <2> QED BY <1>1, <2>1, <2>2, QuietTypes DEF Start, TypeOK, server
<1>2. CASE Exit
  <2>1. Exits /\ Quiet
    BY <1>2 DEF Exit
  <2> QED BY <1>2, <2>1, ExitsTypes, QuietTypes DEF Exit, TypeOK, server
<1>3. CASE Closed
  <2>1. toServer' \in Seq(ServerFrames) /\ toBridge' \in Seq(BridgeFrames)
    BY <1>3 DEF Closed
  <2> QED BY <1>3, <2>1 DEF Closed, TypeOK
<1>4. CASE LoggedIn
  <2>1. Reads("auth.success") /\ Send("agent.hello", {})
    BY <1>4 DEF LoggedIn
  <2>2. toServer' \in Seq(ServerFrames)
    BY <2>1, SendTypes, FrameTypes
  <2> QED BY <1>4, <2>1, <2>2, ReadsTypes DEF LoggedIn, TypeOK, server
<1>5. CASE LoginFails
  <2>1. Exits /\ (Reads("auth.fail") \/ Reads("other"))
    BY <1>5 DEF LoginFails
  <2>2. toBridge' \in Seq(BridgeFrames) /\ faults' \in 0..MaxFaults
    BY <2>1, ReadsTypes
  <2> QED BY <1>5, <2>1, <2>2, ExitsTypes DEF LoginFails, TypeOK, server
<1>6. CASE ReadWake
  <2>1. Reads("agent.wake")
    BY <1>6 DEF ReadWake
  <2>2. run' \in [Runs -> RunState]
    BY <1>6 DEF ReadWake, TypeOK
  <2> QED BY <1>6, <2>1, <2>2, ReadsTypes DEF ReadWake, TypeOK, server
<1>7. CASE ReadAck
  <2>1. Reads("draft.ack")
    BY <1>7 DEF ReadAck
  <2>2. pendingAck' \in Runs \cup {NoRun}
    BY <1>7, <2>1, ReadsTypes DEF ReadAck, TypeOK
  <2> QED BY <1>7, <2>1, <2>2, ReadsTypes DEF ReadAck, TypeOK, server
<1>8. CASE ReadItems
  <2>1. Reads("inbox.items") /\ Send("inbox.ack", Head(toBridge).runs)
    BY <1>8 DEF ReadItems
  <2>2. toServer' \in Seq(ServerFrames)
    BY <2>1, ReadsTypes, SendTypes, FrameTypes
  <2> QED BY <1>8, <2>1, <2>2, ReadsTypes DEF ReadItems, TypeOK, process, server
<1>9. CASE Poll
  <2>1. Send("inbox.poll", {}) /\ Quiet
    BY <1>9 DEF Poll
  <2>2. toServer' \in Seq(ServerFrames)
    BY <2>1, SendTypes, FrameTypes
  <2> QED BY <1>9, <2>1, <2>2, QuietTypes DEF Poll, TypeOK, process, server
<1>10. CASE ServeLogin
  <2>1. Takes("auth.login")
    BY <1>10 DEF ServeLogin
  <2>2. toBridge' \in Seq(BridgeFrames)
    <3>1. CASE toBridge' = Append(toBridge, Frame("auth.fail", {}))
      BY <3>1, FrameTypes, AppendProperties DEF TypeOK
    <3>2. CASE \E early \in {<<>>, <<Frame("other", {})>>} :
                  toBridge' = toBridge \o early \o <<Frame("auth.success", {})>>
      BY <3>2, LoginQueue
    <3> QED BY <1>10, <3>1, <3>2 DEF ServeLogin
  <2>3. presence' \in {"offline", "online", "sleeping"}
    BY <1>10 DEF ServeLogin, TypeOK
  <2> QED BY <1>10, <2>1, <2>2, <2>3, TakesTypes DEF ServeLogin, TypeOK, process
<1>11. CASE ServeHello
  <2>1. Takes("agent.hello") /\ Quiet
    BY <1>11 DEF ServeHello
  <2> QED BY <1>11, <2>1, TakesTypes, QuietTypes DEF ServeHello, TypeOK, process
<1>12. CASE ServeSleep
  <2>1. Takes("agent.sleep") /\ Quiet
    BY <1>12 DEF ServeSleep
  <2> QED BY <1>12, <2>1, TakesTypes, QuietTypes DEF ServeSleep, TypeOK, process
<1>13. CASE ServeCreate
  <2>1. Takes("draft.create")
    BY <1>13 DEF ServeCreate
  <2>2. PICK r \in Head(toServer).runs :
           \/ draft' = [draft EXCEPT ![r] = "held"] /\ Push("draft.ack", {r})
           \/ UNCHANGED draft /\ Quiet
    BY <1>13 DEF ServeCreate
  <2>3. r \in Runs
    BY <2>1, TakesTypes
  <2>4. toBridge' \in Seq(BridgeFrames) /\ faults' \in 0..MaxFaults
    BY <2>2, <2>3, PushTypes, QuietTypes, FrameTypes
  <2>5. draft' \in [Runs -> {"none", "held", "sent"}]
    BY <2>2, <2>3 DEF TypeOK
  <2> QED BY <1>13, <2>1, <2>4, <2>5, TakesTypes DEF ServeCreate, TypeOK, process
<1>14. CASE ServeSend
  <2>1. Takes("draft.send") /\ Quiet
    BY <1>14 DEF ServeSend
  <2>2. PICK r \in Head(toServer).runs :
           \/ /\ posted' = [posted EXCEPT ![r] = @ + 1]
              /\ \E d \in {"held", "sent"} : draft' = [draft EXCEPT ![r] = d]
           \/ UNCHANGED <<posted, draft>>
    BY <1>14 DEF ServeSend
  <2>3. r \in Runs
    BY <2>1, TakesTypes
  <2>4. posted[r] + 1 \in Nat
    BY <2>3 DEF TypeOK
  <2>5. posted' \in [Runs -> Nat]
    BY <2>2, <2>4 DEF TypeOK
  <2>6. draft' \in [Runs -> {"none", "held", "sent"}]
    BY <2>2 DEF TypeOK
  <2> QED BY <1>14, <2>1, <2>5, <2>6, TakesTypes, QuietTypes DEF ServeSend, TypeOK, process
<1>15. CASE ServeDirect
  <2>1. Takes("message.send") /\ Quiet
    BY <1>15 DEF ServeDirect
  <2>2. PICK r \in Head(toServer).runs : posted' \in {[posted EXCEPT ![r] = @ + 1], posted}
    BY <1>15 DEF ServeDirect
  <2>3. r \in Runs
    BY <2>1, TakesTypes
  <2>4. posted[r] + 1 \in Nat
    BY <2>3 DEF TypeOK
  <2>5. posted' \in [Runs -> Nat]
    BY <2>2, <2>4 DEF TypeOK
  <2> QED BY <1>15, <2>1, <2>5, TakesTypes, QuietTypes DEF ServeDirect, TypeOK, process
<1>16. CASE ServePoll
  <2>1. Takes("inbox.poll") /\ Push("inbox.items", {r \in Runs : inbox[r] = "unread"})
    BY <1>16 DEF ServePoll
  <2>2. toBridge' \in Seq(BridgeFrames) /\ faults' \in 0..MaxFaults
    BY <2>1, PushTypes, FrameTypes
  <2> QED BY <1>16, <2>1, <2>2, TakesTypes DEF ServePoll, TypeOK, process, server
<1>17. CASE ServeAck
  <2>1. Takes("inbox.ack")
    BY <1>17 DEF ServeAck
  <2>2. faults' \in 0..MaxFaults /\ inbox' \in [Runs -> {"absent", "failed", "unread", "read"}]
    BY <1>17, BridgeAssumption DEF ServeAck, TypeOK
  <2> QED BY <1>17, <2>1, <2>2, TakesTypes DEF ServeAck, TypeOK, process
<1>18. ASSUME NEW r \in Runs, Mention(r)
       PROVE  TypeOK'
  <2>1. toBridge' \in Seq(BridgeFrames) /\ faults' \in 0..MaxFaults
    BY <1>18, PushTypes, QuietTypes, FrameTypes DEF Mention
  <2>2. inbox' \in [Runs -> {"absent", "failed", "unread", "read"}]
    BY <1>18 DEF Mention, TypeOK
  <2> QED BY <1>18, <2>1, <2>2 DEF Mention, TypeOK, process
<1>19. ASSUME NEW r \in Runs, Finish(r)
       PROVE  TypeOK'
  <2>1. Send("draft.create", {r}) /\ Quiet
    BY <1>19 DEF Finish
  <2>2. toServer' \in Seq(ServerFrames)
    BY <2>1, SendTypes, FrameTypes
  <2>3. run' \in [Runs -> RunState]
    BY <1>19 DEF Finish, TypeOK
  <2> QED BY <1>19, <2>1, <2>2, <2>3, QuietTypes DEF Finish, TypeOK, server
<1>20. ASSUME NEW r \in Runs, TakeAck(r)
       PROVE  TypeOK'
  <2>1. /\ pendingAck \in Runs /\ Frame("draft.send", {pendingAck}) \in ServerFrames
        /\ Ends(r, "acked", <<Frame("draft.send", {pendingAck})>>)
    BY <1>20, FrameTypes DEF TakeAck, TypeOK
  <2>2. asked' \subseteq Runs /\ pendingAck' \in Runs \cup {NoRun}
    BY <1>20, <2>1 DEF TakeAck, TypeOK
  <2> QED BY <2>1, <2>2, EndsTypes DEF TypeOK, server
<1>21. ASSUME NEW r \in Runs, AckTimeout(r)
       PROVE  TypeOK'
  <2>1. /\ Frame("message.send", {r}) \in ServerFrames
        /\ Ends(r, "timedOut", <<Frame("message.send", {r})>>)
    BY <1>21, FrameTypes DEF AckTimeout
  <2> QED BY <1>21, <2>1, EndsTypes DEF AckTimeout, TypeOK, server
<1>22. ASSUME NEW r \in Runs, GiveUp(r)
       PROVE  TypeOK'
  <2>1. Quiet /\ run' \in [Runs -> RunState] /\ how' \in [Runs -> How]
    BY <1>22 DEF GiveUp, TypeOK
  <2> QED BY <1>22, <2>1, QuietTypes DEF GiveUp, TypeOK, server
<1> QED
  BY <1>1, <1>2, <1>3, <1>4, <1>5, <1>6, <1>7, <1>8, <1>9, <1>10, <1>11, <1>12, <1>13, <1>14,
     <1>15, <1>16, <1>17, <1>18, <1>19, <1>20, <1>21, <1>22
  DEF Next, Read, Serve, RunGoesOn

\* The variables keep their types whatever happens at either end: only frames that
\* the server and the bridge know of are ever on their way, each about runs that
\* there are (bridge.go: readLoop; the handlers of handlers_ws.go).
THEOREM TypeCorrect == Spec => []TypeOK
<1>1. Init => TypeOK
  <2> SUFFICES ASSUME Init PROVE TypeOK
    OBVIOUS
  <2>1. toServer \in Seq(ServerFrames) /\ toBridge \in Seq(BridgeFrames)
    BY DEF Init
  <2> QED BY <2>1, BridgeAssumption DEF Init, TypeOK, Phase, RunState, How
<1>2. TypeOK /\ [Next]_vars => TypeOK'
  <2> SUFFICES ASSUME TypeOK, [Next]_vars PROVE TypeOK'
    OBVIOUS
  <2>1. CASE Next
    BY <2>1, StepTypes
  <2>2. CASE UNCHANGED vars
    BY <2>2 DEF vars, TypeOK
  <2> QED BY <2>1, <2>2
<1> QED BY <1>1, <1>2, PTL DEF Spec

-----------------------------------------------------------------------------
\* A step that has nothing to do with a run

\* The types of the frames that the invariant of a run is about.
Tracked == {"agent.wake", "draft.create", "draft.ack", "draft.send", "message.send"}

\* The queue p holds no frame about run r that the queue q does not hold.
Fewer(q, p, r) == \A type \in Tracked :
    /\ Holds(p, type, r) => Holds(q, type, r)
    /\ Once(q, type, r) => Once(p, type, r)

\* The run goes on as it was, or ends without a message of its own.
Progress(r) ==
    \/ run'[r] = run[r] /\ how'[r] = how[r]
    \/ Active(r) /\ run'[r] = "ended" /\ how'[r] \notin {"none", "timedOut"}

LeftAlone(r) ==
    /\ Fewer(toServer, toServer', r) /\ Fewer(toBridge, toBridge', r)
    /\ Progress(r)
    /\ r \in asked' <=> r \in asked
    /\ pendingAck' = r => pendingAck = r
    /\ inbox[r] # "absent" => inbox'[r] # "absent"
    /\ posted'[r] = posted[r]

LEMMA FewerSame == \A q, r : Fewer(q, q, r)
BY DEF Fewer

LEMMA FewerTail ==
    ASSUME NEW S, NEW q \in Seq(S), q # <<>>, NEW r
    PROVE  Fewer(q, Tail(q), r)
BY TailHolds DEF Fewer

LEMMA FewerNone == \A q, r : Fewer(q, <<>>, r)
BY NoneHeld DEF Fewer

LEMMA FewerAppend ==
    ASSUME NEW S, NEW q \in Seq(S), NEW f \in S, NEW r, f.type \notin Tracked \/ r \notin f.runs
    PROVE  Fewer(q, Append(q, f), r)
BY AppendHolds DEF Fewer

LEMMA FewerTwice ==
    ASSUME NEW q, NEW p, NEW o, NEW r, Fewer(q, p, r), Fewer(p, o, r)
    PROVE  Fewer(q, o, r)
BY DEF Fewer

LEMMA FewerTaken ==
    ASSUME TypeOK, NEW type, Takes(type), NEW r
    PROVE  Fewer(toServer, toServer', r)
BY FewerTail DEF TypeOK, Takes

LEMMA FewerRead ==
    ASSUME TypeOK, NEW type, Reads(type), NEW r
    PROVE  Fewer(toBridge, toBridge', r)
BY FewerTail DEF TypeOK, Reads

LEMMA FewerSent ==
    ASSUME TypeOK, NEW type, NEW runs, Frame(type, runs) \in ServerFrames, Send(type, runs),
           NEW r, type \notin Tracked \/ r \notin runs
    PROVE  Fewer(toServer, toServer', r)
<1>1. Frame(type, runs).type \notin Tracked \/ r \notin Frame(type, runs).runs
  BY FrameTypes
<1>2. toServer \in Seq(ServerFrames) /\ toServer' = Append(toServer, Frame(type, runs))
  BY DEF TypeOK, Send
<1> QED BY <1>1, <1>2, FewerAppend

LEMMA FewerPushed ==
    ASSUME TypeOK, NEW type, NEW runs, Frame(type, runs) \in BridgeFrames, Push(type, runs),
           NEW r, type \notin Tracked \/ r \notin runs
    PROVE  Fewer(toBridge, toBridge', r)
<1>1. CASE toBridge' = Append(toBridge, Frame(type, runs))
  <2>1. Frame(type, runs).type \notin Tracked \/ r \notin Frame(type, runs).runs
    BY FrameTypes
  <2>2. toBridge \in Seq(BridgeFrames)
    BY DEF TypeOK
  <2> QED BY <1>1, <2>1, <2>2, FewerAppend
<1>2. CASE toBridge' = toBridge
  BY <1>2, FewerSame
<1> QED BY <1>1, <1>2 DEF Push

LEMMA FewerQuiet ==
    ASSUME Quiet, NEW r
    PROVE  Fewer(toBridge, toBridge', r)
BY FewerSame DEF Quiet

LEMMA FewerSilent ==
    ASSUME toServer' = toServer, NEW r
    PROVE  Fewer(toServer, toServer', r)
BY FewerSame

LEMMA ProgressExits ==
    ASSUME TypeOK, Exits, NEW r \in Runs
    PROVE  Progress(r) /\ asked' = asked /\ pendingAck' = pendingAck
BY DEF TypeOK, Exits, Progress

LEMMA RunKept ==
    ASSUME TypeOK, TypeOK', NEW r \in Runs, RunInv(r), LeftAlone(r)
    PROVE  RunInv(r)'
<1> USE DEF RunInv
<1>1. /\ \A type \in Tracked : Holds(toServer', type, r) => Holds(toServer, type, r)
      /\ \A type \in Tracked : Once(toServer, type, r) => Once(toServer', type, r)
      /\ \A type \in Tracked : Holds(toBridge', type, r) => Holds(toBridge, type, r)
      /\ \A type \in Tracked : Once(toBridge, type, r) => Once(toBridge', type, r)
  BY DEF LeftAlone, Fewer
<1>2. /\ "agent.wake" \in Tracked /\ "draft.create" \in Tracked /\ "draft.ack" \in Tracked
      /\ "draft.send" \in Tracked /\ "message.send" \in Tracked
  BY DEF Tracked
<1>3. WokenOnce(r)'
  BY <1>1, <1>2 DEF WokenOnce, LeftAlone, Progress, Active
<1>4. DraftPasses(r)'
  BY <1>1, <1>2 DEF DraftPasses, LeftAlone, Progress, Active
<1>5. PostsOnce(r)'
  BY <1>1, <1>2 DEF PostsOnce, LeftAlone, Progress, Active
<1>6. Posted(r)'
  <2>1. how[r] = "timedOut" => how'[r] = "timedOut"
    BY DEF LeftAlone, Progress, Active, PostsOnce
  <2>2. posted[r] \in Nat /\ posted'[r] = posted[r] /\ (r \in asked => r \in asked')
    BY DEF TypeOK, LeftAlone
  <2> QED BY <1>1, <1>2, <2>1, <2>2 DEF Posted
<1> QED BY <1>3, <1>4, <1>5, <1>6

-----------------------------------------------------------------------------
\* The steps and the runs they are about

RunsInv == TypeOK /\ AllRuns

\* One step and what it does to the run it is about; all others are left alone.
LEMMA OneRun ==
    ASSUME RunsInv, TypeOK', NEW r \in Runs, RunInv(r)',
           \A x \in Runs \ {r} : LeftAlone(x)
    PROVE  AllRuns'
BY RunKept DEF RunsInv, AllRuns

LEMMA NoRunAtAll ==
    ASSUME RunsInv, TypeOK', \A x \in Runs : LeftAlone(x)
    PROVE  AllRuns'
BY RunKept DEF RunsInv, AllRuns

\* Process, inbox and connection steps.
LEMMA ProcessRuns ==
    ASSUME RunsInv, TypeOK', Start \/ Exit \/ Closed \/ LoggedIn \/ LoginFails
    PROVE  AllRuns'
<1> USE DEF RunsInv
<1> SUFFICES ASSUME NEW x \in Runs PROVE LeftAlone(x)
  BY NoRunAtAll
<1>1. CASE Start
  <2>1. Quiet /\ Send("auth.login", {}) /\ Progress(x)
    BY <1>1 DEF Start, Progress
  <2>2. Fewer(toServer, toServer', x)
    BY <2>1, FewerSent, FrameTypes
  <2> QED BY <1>1, <2>1, <2>2, FewerQuiet DEF Start, LeftAlone, server
<1>2. CASE Exit
  <2>1. Exits /\ Quiet /\ toServer' = toServer
    BY <1>2 DEF Exit
  <2> QED BY <1>2, <2>1, ProgressExits, FewerQuiet, FewerSilent DEF Exit, LeftAlone, server
<1>3. CASE Closed
  <2>1. toServer' = <<>> /\ toBridge' = <<>> /\ Progress(x) /\ pendingAck' = NoRun
    BY <1>3 DEF Closed, Progress
  <2>2. Fewer(toServer, toServer', x) /\ Fewer(toBridge, toBridge', x)
    BY <2>1, FewerNone
  <2> QED BY <1>3, <2>1, <2>2, BridgeAssumption DEF Closed, LeftAlone
<1>4. CASE LoggedIn
  <2>1. Reads("auth.success") /\ Send("agent.hello", {}) /\ Progress(x)
    BY <1>4 DEF LoggedIn, Progress
  <2>2. Fewer(toServer, toServer', x)
    BY <2>1, FewerSent, FrameTypes
  <2> QED BY <1>4, <2>1, <2>2, FewerRead DEF LoggedIn, LeftAlone, server
<1>5. CASE LoginFails
  <2>1. Exits /\ (Reads("auth.fail") \/ Reads("other")) /\ toServer' = toServer
    BY <1>5 DEF LoginFails
  <2> QED BY <1>5, <2>1, ProgressExits, FewerRead, FewerSilent DEF LoginFails, LeftAlone, server
<1> QED BY <1>1, <1>2, <1>3, <1>4, <1>5

LEMMA InboxRuns ==
    ASSUME RunsInv, TypeOK', Poll \/ ReadItems \/ ServePoll \/ ServeAck
    PROVE  AllRuns'
<1> USE DEF RunsInv
<1> SUFFICES ASSUME NEW x \in Runs PROVE LeftAlone(x)
  BY NoRunAtAll
<1>1. CASE Poll
  <2>1. Quiet /\ Send("inbox.poll", {})
    BY <1>1 DEF Poll
  <2>2. Fewer(toServer, toServer', x)
    BY <2>1, FewerSent, FrameTypes
  <2> QED BY <1>1, <2>1, <2>2, FewerQuiet DEF Poll, LeftAlone, Progress, process, server
<1>2. CASE ReadItems
  <2>1. Reads("inbox.items") /\ Send("inbox.ack", Head(toBridge).runs)
    BY <1>2 DEF ReadItems
  <2>2. Frame("inbox.ack", Head(toBridge).runs) \in ServerFrames
    BY <2>1, ReadsTypes, FrameTypes
  <2>3. Fewer(toServer, toServer', x)
    BY <2>1, <2>2, FewerSent DEF Tracked
  <2> QED BY <1>2, <2>1, <2>3, FewerRead DEF ReadItems, LeftAlone, Progress, process, server
<1>3. CASE ServePoll
  <2> DEFINE unread == {r \in Runs : inbox[r] = "unread"}
  <2>1. Takes("inbox.poll") /\ Push("inbox.items", unread)
    BY <1>3 DEF ServePoll
  <2>2. Frame("inbox.items", unread) \in BridgeFrames
    BY FrameTypes
  <2>3. Fewer(toBridge, toBridge', x)
    BY <2>1, <2>2, FewerPushed DEF Tracked
  <2> QED BY <1>3, <2>1, <2>3, FewerTaken DEF ServePoll, LeftAlone, Progress, process, server
<1>4. CASE ServeAck
  <2>1. Takes("inbox.ack") /\ toBridge' = toBridge
    BY <1>4 DEF ServeAck
  <2>2. inbox[x] # "absent" => inbox'[x] # "absent"
    BY <1>4 DEF ServeAck
  <2>3. Fewer(toBridge, toBridge', x)
    BY <2>1, FewerSame
  <2> QED BY <1>4, <2>1, <2>2, <2>3, FewerTaken DEF ServeAck, LeftAlone, Progress, process
<1> QED BY <1>1, <1>2, <1>3, <1>4

LEMMA PresenceRuns ==
    ASSUME RunsInv, TypeOK', ServeLogin \/ ServeHello \/ ServeSleep
    PROVE  AllRuns'
<1> USE DEF RunsInv
<1> SUFFICES ASSUME NEW x \in Runs PROVE LeftAlone(x)
  BY NoRunAtAll
<1>1. CASE ServeLogin
  <2>1. /\ toBridge \in Seq(BridgeFrames)
        /\ \A type \in {"auth.success", "auth.fail", "other"} :
              Frame(type, {}) \in BridgeFrames /\ Frame(type, {}).type \notin Tracked
    BY FrameTypes DEF TypeOK, Tracked
  <2>2. \A type \in {"auth.success", "auth.fail", "other"} :
           Fewer(toBridge, Append(toBridge, Frame(type, {})), x)
    BY <2>1, FewerAppend
  <2>3. ASSUME NEW early \in {<<>>, <<Frame("other", {})>>},
               toBridge' = toBridge \o early \o <<Frame("auth.success", {})>>
        PROVE  Fewer(toBridge, toBridge', x)
    <3> DEFINE q == Append(toBridge, Frame("other", {}))
    <3>1. /\ q \in Seq(BridgeFrames)
          /\ \/ toBridge' = Append(toBridge, Frame("auth.success", {}))
             \/ toBridge' = Append(q, Frame("auth.success", {}))
      BY <2>3, LoginQueue
    <3>2. Fewer(toBridge, q, x)
      BY <2>2
    <3> HIDE DEF q
    <3>3. Fewer(q, Append(q, Frame("auth.success", {})), x)
      BY <2>1, <3>1, FewerAppend
    <3> QED BY <2>2, <3>1, <3>2, <3>3, FewerTwice
  <2>4. Takes("auth.login") /\ Fewer(toBridge, toBridge', x)
    BY <1>1, <2>2, <2>3 DEF ServeLogin
  <2> QED BY <1>1, <2>4, FewerTaken DEF ServeLogin, LeftAlone, Progress, process
<1>2. CASE ServeHello
  <2>1. Takes("agent.hello") /\ Quiet
    BY <1>2 DEF ServeHello
  <2> QED BY <1>2, <2>1, FewerTaken, FewerQuiet DEF ServeHello, LeftAlone, Progress, process
<1>3. CASE ServeSleep
  <2>1. Takes("agent.sleep") /\ Quiet
    BY <1>3 DEF ServeSleep
  <2> QED BY <1>3, <2>1, FewerTaken, FewerQuiet DEF ServeSleep, LeftAlone, Progress, process
<1> QED BY <1>1, <1>2, <1>3

\* Waking.
LEMMA MentionRuns ==
    ASSUME RunsInv, TypeOK', NEW r \in Runs, Mention(r)
    PROVE  AllRuns'
<1> USE DEF RunsInv
<1>1. /\ inbox[r] = "absent" /\ inbox'[r] # "absent"
      /\ \A x \in Runs \ {r} : inbox'[x] = inbox[x]
      /\ UNCHANGED <<run, how, asked, pendingAck, toServer, posted>>
      /\ Quiet \/ Push("agent.wake", {r})
  BY DEF Mention, process, TypeOK
<1>2. ASSUME NEW x \in Runs \ {r}
      PROVE  LeftAlone(x)
  <2>1. Frame("agent.wake", {r}) \in BridgeFrames
    BY FrameTypes
  <2>2. Fewer(toBridge, toBridge', x)
    BY <1>1, <2>1, FewerQuiet, FewerPushed
  <2> QED BY <1>1, <2>2, FewerSilent DEF LeftAlone, Progress
<1>3. run[r] = "none" /\ ~Holds(toBridge, "agent.wake", r)
  BY <1>1 DEF AllRuns, RunInv, WokenOnce, TypeOK
<1>4. /\ Once(toBridge', "agent.wake", r)
      /\ Holds(toBridge', "draft.ack", r) => Holds(toBridge, "draft.ack", r)
      /\ Once(toBridge', "draft.ack", r)
  <2>1. CASE toBridge' = toBridge
    BY <2>1 DEF AllRuns, RunInv, WokenOnce, DraftPasses
  <2>2. CASE toBridge' = Append(toBridge, Frame("agent.wake", {r}))
    <3>1. /\ toBridge \in Seq(BridgeFrames) /\ Frame("agent.wake", {r}) \in BridgeFrames
          /\ Frame("agent.wake", {r}).type = "agent.wake"
      BY FrameTypes DEF TypeOK
    <3>2. Once(toBridge, "agent.wake", r) /\ Once(toBridge, "draft.ack", r)
      BY DEF AllRuns, RunInv, WokenOnce, DraftPasses
    <3> QED BY <1>3, <2>2, <3>1, <3>2, AppendHolds
  <2> QED BY <1>1, <2>1, <2>2 DEF Quiet, Push
<1>5. RunInv(r)
  BY DEF AllRuns
<1>6. WokenOnce(r)'
  BY <1>1, <1>3, <1>4 DEF WokenOnce
<1>7. DraftPasses(r)'
  BY <1>1, <1>4, <1>5 DEF RunInv, DraftPasses
<1>8. PostsOnce(r)' /\ Posted(r)'
  BY <1>1, <1>5 DEF RunInv, PostsOnce, Posted
<1>9. RunInv(r)'
  BY <1>6, <1>7, <1>8 DEF RunInv
<1> QED BY <1>2, <1>9, OneRun

LEMMA ReadWakeRuns ==
    ASSUME RunsInv, TypeOK', ReadWake
    PROVE  AllRuns'
<1> USE DEF RunsInv
<1>1. Reads("agent.wake") /\ UNCHANGED <<how, asked, pendingAck, toServer, inbox, posted>>
  BY DEF ReadWake, server
<1>2. PICK r \in Head(toBridge).runs :
         run' = [run EXCEPT ![r] = "working"] \/ run' = [run EXCEPT ![r] = "ended"]
  BY DEF ReadWake
<1>3. r \in Runs
  BY <1>1, ReadsTypes
<1>4. ASSUME NEW x \in Runs \ {r}
      PROVE  LeftAlone(x)
  <2>1. run'[x] = run[x]
    BY <1>2 DEF TypeOK
  <2> QED BY <1>1, <2>1, FewerRead, FewerSilent DEF LeftAlone, Progress
<1>5. RunInv(r)
  BY <1>3 DEF AllRuns
<1>6. /\ toBridge \in Seq(BridgeFrames) /\ toBridge # <<>> /\ toBridge' = Tail(toBridge)
      /\ Head(toBridge).type = "agent.wake"
  BY <1>1 DEF Reads, TypeOK
<1>7. Holds(toBridge, "agent.wake", r) /\ ~Holds(toBridge', "agent.wake", r)
      /\ Once(toBridge', "agent.wake", r)
  BY <1>2, <1>5, <1>6, TailHolds DEF RunInv, WokenOnce
<1>8. run[r] = "none" /\ inbox[r] # "absent" /\ run'[r] \in {"working", "ended"}
  BY <1>2, <1>3, <1>5, <1>7 DEF RunInv, WokenOnce, TypeOK
<1>9. Fewer(toBridge, toBridge', r)
  BY <1>1, FewerRead
<1>10. WokenOnce(r)'
  BY <1>1, <1>7, <1>8 DEF WokenOnce
<1>11. DraftPasses(r)'
  BY <1>1, <1>5, <1>8, <1>9 DEF RunInv, DraftPasses, Fewer, Tracked
<1>12. PostsOnce(r)' /\ Posted(r)'
  BY <1>1, <1>5, <1>8 DEF RunInv, PostsOnce, Posted
<1>13. RunInv(r)'
  BY <1>10, <1>11, <1>12 DEF RunInv
<1> QED BY <1>3, <1>4, <1>13, OneRun

\* The draft of a run.
LEMMA FinishRuns ==
    ASSUME RunsInv, TypeOK', NEW r \in Runs, Finish(r)
    PROVE  AllRuns'
<1> USE DEF RunsInv
<1>1. /\ run[r] = "working" /\ run'[r] = "waiting"
      /\ \A x \in Runs \ {r} : run'[x] = run[x]
      /\ UNCHANGED <<how, asked, pendingAck, toBridge, inbox, posted>>
      /\ Send("draft.create", {r}) /\ Frame("draft.create", {r}) \in ServerFrames
  BY FrameTypes DEF Finish, TypeOK, Quiet, server
<1>2. ASSUME NEW x \in Runs \ {r}
      PROVE  LeftAlone(x)
  <2>1. Fewer(toServer, toServer', x)
    BY <1>1, FewerSent
  <2>2. Fewer(toBridge, toBridge', x)
    BY <1>1, FewerSame
  <2> QED BY <1>1, <2>1, <2>2 DEF LeftAlone, Progress
<1>3. RunInv(r)
  BY DEF AllRuns
<1>4. /\ toServer \in Seq(ServerFrames) /\ toServer' = Append(toServer, Frame("draft.create", {r}))
      /\ Frame("draft.create", {r}).type = "draft.create"
  BY <1>1, FrameTypes DEF TypeOK, Send
<1>5. /\ ~Holds(toServer, "draft.create", r) /\ ~Holds(toBridge, "draft.ack", r)
      /\ pendingAck # r /\ r \notin asked
  BY <1>1, <1>3 DEF RunInv, DraftPasses
<1>6. /\ Once(toServer', "draft.create", r)
      /\ \A type \in {"draft.send", "message.send"} :
            /\ Holds(toServer', type, r) <=> Holds(toServer, type, r)
            /\ Once(toServer', type, r)
  <2>1. /\ Once(toServer, "draft.create", r)
        /\ Once(toServer, "draft.send", r) /\ Once(toServer, "message.send", r)
    BY <1>3 DEF RunInv, DraftPasses, PostsOnce
  <2> QED BY <1>1, <1>4, <1>5, <2>1, AppendHolds
<1>7. WokenOnce(r)'
  BY <1>1, <1>3 DEF RunInv, WokenOnce
<1>8. DraftPasses(r)'
  BY <1>1, <1>3, <1>5, <1>6 DEF RunInv, DraftPasses
<1>9. PostsOnce(r)' /\ Posted(r)'
  BY <1>1, <1>3, <1>6 DEF RunInv, PostsOnce, Posted
<1>10. RunInv(r)'
  BY <1>7, <1>8, <1>9 DEF RunInv
<1> QED BY <1>2, <1>10, OneRun

LEMMA ServeCreateRuns ==
    ASSUME RunsInv, TypeOK', ServeCreate
    PROVE  AllRuns'
<1> USE DEF RunsInv
<1>1. Takes("draft.create") /\ UNCHANGED <<run, how, asked, pendingAck, inbox, posted>>
  BY DEF ServeCreate, process
<1>2. PICK r \in Head(toServer).runs : Push("draft.ack", {r}) \/ Quiet
  BY DEF ServeCreate
<1>3. r \in Runs /\ Frame("draft.ack", {r}) \in BridgeFrames
      /\ Frame("draft.ack", {r}).type = "draft.ack"
  BY <1>1, TakesTypes, FrameTypes
<1>4. ASSUME NEW x \in Runs \ {r}
      PROVE  LeftAlone(x)
  <2>1. Fewer(toBridge, toBridge', x)
    BY <1>2, <1>3, FewerQuiet, FewerPushed
  <2> QED BY <1>1, <2>1, FewerTaken DEF LeftAlone, Progress
<1>5. RunInv(r)
  BY <1>3 DEF AllRuns
<1>6. /\ toServer \in Seq(ServerFrames) /\ toServer # <<>> /\ toServer' = Tail(toServer)
      /\ Head(toServer).type = "draft.create"
  BY <1>1 DEF Takes, TypeOK
<1>7. Holds(toServer, "draft.create", r) /\ ~Holds(toServer', "draft.create", r)
  BY <1>2, <1>5, <1>6, TailHolds DEF RunInv, DraftPasses
<1>8. Fewer(toServer, toServer', r)
  BY <1>1, FewerTaken
<1>9. /\ Once(toBridge', "draft.ack", r) /\ Once(toBridge', "agent.wake", r)
      /\ Holds(toBridge', "agent.wake", r) => Holds(toBridge, "agent.wake", r)
  <2>1. /\ Once(toBridge, "draft.ack", r) /\ Once(toBridge, "agent.wake", r)
        /\ ~Holds(toBridge, "draft.ack", r)
    BY <1>5, <1>7 DEF RunInv, DraftPasses, WokenOnce
  <2>2. CASE toBridge' = Append(toBridge, Frame("draft.ack", {r}))
    BY <1>3, <2>1, <2>2, AppendHolds DEF TypeOK
  <2>3. CASE toBridge' = toBridge
    BY <2>1, <2>3
  <2> QED BY <1>2, <2>2, <2>3 DEF Push, Quiet
<1>10. r \notin asked /\ pendingAck # r /\ run[r] \in {"waiting", "ended"}
  BY <1>5, <1>7 DEF RunInv, DraftPasses
<1>11. WokenOnce(r)'
  BY <1>1, <1>5, <1>9 DEF RunInv, WokenOnce
<1>12. DraftPasses(r)'
  BY <1>1, <1>5, <1>7, <1>8, <1>9, <1>10 DEF RunInv, DraftPasses, Fewer, Tracked
<1>13. PostsOnce(r)' /\ Posted(r)'
  <2>1. PostsOnce(r)'
    BY <1>1, <1>5, <1>8 DEF RunInv, PostsOnce, Fewer, Tracked
  <2>2. posted[r] \in Nat
    BY <1>3 DEF TypeOK
  <2>3. Posted(r)'
    BY <1>1, <1>5, <1>8, <2>2 DEF RunInv, Posted, Fewer, Tracked
  <2> QED BY <2>1, <2>3
<1>14. RunInv(r)'
  BY <1>11, <1>12, <1>13 DEF RunInv
<1> QED BY <1>3, <1>4, <1>14, OneRun

LEMMA ReadAckRuns ==
    ASSUME RunsInv, TypeOK', ReadAck
    PROVE  AllRuns'
<1> USE DEF RunsInv
<1>1. /\ Reads("draft.ack") /\ UNCHANGED <<run, how, asked, toServer, inbox, posted>>
      /\ pendingAck' \in IF pendingAck = NoRun THEN Head(toBridge).runs ELSE {pendingAck}
  BY DEF ReadAck, server
<1>2. ASSUME NEW x \in Runs, pendingAck' = x => pendingAck = x
      PROVE  LeftAlone(x)
  BY <1>1, <1>2, FewerRead, FewerSilent DEF LeftAlone, Progress
<1>3. CASE pendingAck' = pendingAck
  BY <1>2, <1>3, NoRunAtAll
<1>4. CASE pendingAck' # pendingAck
  <2>1. pendingAck' \in Head(toBridge).runs /\ pendingAck' \in Runs
    BY <1>1, <1>4, ReadsTypes
  <2>2. PICK r \in Runs : r \in Head(toBridge).runs /\ pendingAck' = r
    BY <2>1
  <2>3. \A x \in Runs \ {r} : LeftAlone(x)
    BY <1>2, <2>2
  <2>4. RunInv(r)
    BY DEF AllRuns
  <2>5. /\ toBridge \in Seq(BridgeFrames) /\ toBridge # <<>> /\ toBridge' = Tail(toBridge)
        /\ Head(toBridge).type = "draft.ack"
    BY <1>1 DEF Reads, TypeOK
  <2>6. Holds(toBridge, "draft.ack", r) /\ ~Holds(toBridge', "draft.ack", r)
    BY <2>2, <2>4, <2>5, TailHolds DEF RunInv, DraftPasses
  <2>7. Fewer(toBridge, toBridge', r)
    BY <1>1, FewerRead
  <2>8. WokenOnce(r)'
    BY <1>1, <2>4, <2>7 DEF RunInv, WokenOnce, Fewer, Tracked
  <2>9. DraftPasses(r)'
    BY <1>1, <2>2, <2>4, <2>6, <2>7 DEF RunInv, DraftPasses, Fewer, Tracked
  <2>10. PostsOnce(r)' /\ Posted(r)'
    BY <1>1, <2>4 DEF RunInv, PostsOnce, Posted
  <2>11. RunInv(r)'
    BY <2>8, <2>9, <2>10 DEF RunInv
  <2> QED BY <2>3, <2>11, OneRun
<1> QED BY <1>3, <1>4

LEMMA GiveUpRuns ==
    ASSUME RunsInv, TypeOK', NEW r \in Runs, GiveUp(r)
    PROVE  AllRuns'
<1> USE DEF RunsInv
<1> SUFFICES ASSUME NEW x \in Runs PROVE LeftAlone(x)
  BY NoRunAtAll
<1>1. Progress(x)
  BY DEF GiveUp, Progress, Active, TypeOK
<1>2. toServer' = toServer /\ Quiet
  BY DEF GiveUp
<1> QED BY <1>1, <1>2, FewerSilent, FewerQuiet DEF GiveUp, LeftAlone, server

\* Responses.
LEMMA TakeAckRuns ==
    ASSUME RunsInv, TypeOK', NEW r \in Runs, TakeAck(r)
    PROVE  AllRuns'
<1> USE DEF RunsInv
<1>0. PICK d \in Runs : d = pendingAck
  BY DEF TakeAck, TypeOK
<1> DEFINE f == Frame("draft.send", {d})
           q == Append(toServer, f)
           sleep == Frame("agent.sleep", {})
<1>1. /\ f \in ServerFrames
      /\ Ends(r, "acked", <<f>>) /\ asked' = asked \cup {d} /\ pendingAck' = NoRun
  BY <1>0, FrameTypes DEF TakeAck
<1>2. UNCHANGED <<toBridge, inbox, posted>>
  BY <1>1 DEF Ends, Quiet, server
<1>3. \A x \in Runs : Progress(x)
  BY <1>1 DEF Ends, Progress, Active, TypeOK
<1>4. /\ toServer \in Seq(ServerFrames) /\ q \in Seq(ServerFrames) /\ sleep \in ServerFrames
      /\ toServer' = Append(q, sleep)
      /\ f.type = "draft.send" /\ f.runs = {d} /\ sleep.type = "agent.sleep"
  BY <1>1, EndsQueue, FrameTypes DEF TypeOK
<1> HIDE DEF f, q, sleep
<1>5. q = Append(toServer, f)
  BY DEF q
<1>6. ASSUME NEW x \in Runs \ {d}
      PROVE  LeftAlone(x)
  <2>1. Fewer(toServer, q, x)
    BY <1>1, <1>4, <1>5, FewerAppend
  <2>2. Fewer(q, toServer', x)
    BY <1>4, FewerAppend DEF Tracked
  <2>3. Fewer(toServer, toServer', x) /\ Fewer(toBridge, toBridge', x)
    BY <1>2, <2>1, <2>2, FewerTwice, FewerSame
  <2>4. x # NoRun
    BY BridgeAssumption
  <2> QED BY <1>1, <1>2, <1>3, <2>3, <2>4 DEF LeftAlone
<1>7. RunInv(d)
  BY DEF AllRuns
<1>8. /\ ~Holds(toServer, "draft.create", d) /\ ~Holds(toBridge, "draft.ack", d)
      /\ d \notin asked /\ run[d] \in {"waiting", "ended"}
      /\ ~Holds(toServer, "draft.send", d)
  BY <1>0, <1>7 DEF RunInv, DraftPasses, PostsOnce
<1>9. /\ \A type \in {"draft.create", "message.send"} :
            /\ Holds(toServer', type, d) <=> Holds(toServer, type, d)
            /\ Once(toServer', type, d)
      /\ Once(toServer', "draft.send", d)
      /\ Holds(toServer', "draft.send", d)
  <2>1. /\ Once(toServer, "draft.create", d)
        /\ Once(toServer, "draft.send", d) /\ Once(toServer, "message.send", d)
    BY <1>7 DEF RunInv, DraftPasses, PostsOnce
  <2>2. /\ \A type \in {"draft.create", "message.send"} :
              /\ Holds(q, type, d) <=> Holds(toServer, type, d)
              /\ Once(q, type, d)
        /\ Once(q, "draft.send", d)
        /\ Holds(q, "draft.send", d)
    BY <1>1, <1>4, <1>5, <1>8, <2>1, AppendHolds
  <2> QED BY <1>4, <2>2, AppendHolds
<1>10. how'[d] = "timedOut" <=> how[d] = "timedOut"
  BY <1>1, <1>3, <1>7 DEF Progress, RunInv, PostsOnce, Active
<1>11. WokenOnce(d)'
  BY <1>1, <1>2, <1>3, <1>7 DEF Progress, Active, RunInv, WokenOnce
<1>12. DraftPasses(d)'
  <2>1. run'[d] \in {"waiting", "ended"} /\ pendingAck' # d
    BY <1>1, <1>3, <1>8, BridgeAssumption DEF Progress
  <2>2. ~Holds(toBridge', "draft.ack", d) /\ Once(toBridge', "draft.ack", d)
    BY <1>2, <1>7, <1>8 DEF RunInv, DraftPasses
  <2> QED BY <1>8, <1>9, <2>1, <2>2 DEF DraftPasses
<1>13. PostsOnce(d)'
  <2>1. d \in asked' /\ (how'[d] # "none" => run'[d] = "ended")
    BY <1>1, <1>3, <1>7 DEF Progress, RunInv, PostsOnce
  <2> QED BY <1>7, <1>9, <1>10, <2>1 DEF RunInv, PostsOnce
<1>14. Posted(d)'
  BY <1>2, <1>7, <1>8, <1>9, <1>10 DEF RunInv, Posted
<1>15. RunInv(d)'
  BY <1>11, <1>12, <1>13, <1>14 DEF RunInv
<1> QED BY <1>6, <1>15, OneRun

LEMMA AckTimeoutRuns ==
    ASSUME RunsInv, TypeOK', NEW r \in Runs, AckTimeout(r)
    PROVE  AllRuns'
<1> USE DEF RunsInv
<1> DEFINE f == Frame("message.send", {r})
           q == Append(toServer, f)
           sleep == Frame("agent.sleep", {})
<1>1. /\ f \in ServerFrames /\ Ends(r, "timedOut", <<f>>)
      /\ UNCHANGED <<asked, pendingAck>>
  BY FrameTypes DEF AckTimeout
<1>2. UNCHANGED <<toBridge, inbox, posted>>
  BY <1>1 DEF Ends, Quiet, server
<1>3. /\ run[r] = "waiting" /\ run'[r] = "ended" /\ how'[r] = "timedOut"
      /\ \A x \in Runs \ {r} : Progress(x)
  BY <1>1 DEF Ends, Progress, TypeOK
<1>4. /\ toServer \in Seq(ServerFrames) /\ q \in Seq(ServerFrames) /\ sleep \in ServerFrames
      /\ toServer' = Append(q, sleep)
      /\ f.type = "message.send" /\ f.runs = {r} /\ sleep.type = "agent.sleep"
  BY <1>1, EndsQueue, FrameTypes DEF TypeOK
<1> HIDE DEF f, q, sleep
<1>5. q = Append(toServer, f)
  BY DEF q
<1>6. ASSUME NEW x \in Runs \ {r}
      PROVE  LeftAlone(x)
  <2>1. Fewer(toServer, q, x)
    BY <1>1, <1>4, <1>5, FewerAppend
  <2>2. Fewer(q, toServer', x)
    BY <1>4, FewerAppend DEF Tracked
  <2>3. Fewer(toServer, toServer', x) /\ Fewer(toBridge, toBridge', x)
    BY <1>2, <2>1, <2>2, FewerTwice, FewerSame
  <2> QED BY <1>1, <1>2, <1>3, <2>3 DEF LeftAlone
<1>7. RunInv(r)
  BY DEF AllRuns
<1>8. how[r] = "none" /\ ~Holds(toServer, "message.send", r)
  BY <1>3, <1>7 DEF RunInv, PostsOnce
<1>9. /\ \A type \in {"draft.create", "draft.send"} :
            /\ Holds(toServer', type, r) <=> Holds(toServer, type, r)
            /\ Once(toServer', type, r)
      /\ Once(toServer', "message.send", r)
      /\ Holds(toServer', "message.send", r)
  <2>1. /\ Once(toServer, "draft.create", r)
        /\ Once(toServer, "draft.send", r) /\ Once(toServer, "message.send", r)
    BY <1>7 DEF RunInv, DraftPasses, PostsOnce
  <2>2. /\ \A type \in {"draft.create", "draft.send"} :
              /\ Holds(q, type, r) <=> Holds(toServer, type, r)
              /\ Once(q, type, r)
        /\ Once(q, "message.send", r)
        /\ Holds(q, "message.send", r)
    BY <1>1, <1>4, <1>5, <1>8, <2>1, AppendHolds
  <2> QED BY <1>4, <2>2, AppendHolds
<1>10. WokenOnce(r)'
  BY <1>2, <1>3, <1>7 DEF RunInv, WokenOnce
<1>11. DraftPasses(r)'
  BY <1>1, <1>2, <1>3, <1>7, <1>9 DEF RunInv, DraftPasses
<1>12. PostsOnce(r)' /\ Posted(r)'
  BY <1>1, <1>2, <1>3, <1>7, <1>8, <1>9 DEF RunInv, PostsOnce, Posted
<1>13. RunInv(r)'
  BY <1>10, <1>11, <1>12 DEF RunInv
<1> QED BY <1>6, <1>13, OneRun

LEMMA ServeSendRuns ==
    ASSUME RunsInv, TypeOK', ServeSend
    PROVE  AllRuns'
<1> USE DEF RunsInv
<1>1. Takes("draft.send") /\ Quiet /\ UNCHANGED <<run, how, asked, pendingAck, inbox, toBridge>>
  BY DEF ServeSend, process, Quiet
<1>2. PICK r \in Head(toServer).runs : posted' = [posted EXCEPT ![r] = @ + 1] \/ posted' = posted
  BY DEF ServeSend
<1>3. r \in Runs /\ posted[r] \in Nat /\ posted'[r] \in Nat
      /\ \A x \in Runs : x # r => posted'[x] = posted[x]
  BY <1>1, <1>2, TakesTypes DEF TypeOK
<1>4. posted'[r] <= posted[r] + 1
  BY <1>2, <1>3 DEF TypeOK
<1>5. ASSUME NEW x \in Runs \ {r}
      PROVE  LeftAlone(x)
  BY <1>1, <1>3, FewerTaken, FewerQuiet DEF LeftAlone, Progress
<1>6. RunInv(r) /\ Fewer(toServer, toServer', r)
  BY <1>1, <1>3, FewerTaken DEF AllRuns
<1>7. /\ toServer \in Seq(ServerFrames) /\ toServer # <<>> /\ toServer' = Tail(toServer)
      /\ Head(toServer).type = "draft.send"
  BY <1>1 DEF Takes, TypeOK
<1>8. Holds(toServer, "draft.send", r) /\ ~Holds(toServer', "draft.send", r) /\ r \in asked
  BY <1>2, <1>6, <1>7, TailHolds DEF RunInv, PostsOnce
<1>9. WokenOnce(r)' /\ DraftPasses(r)' /\ PostsOnce(r)'
  BY <1>1, <1>6 DEF RunInv, WokenOnce, DraftPasses, PostsOnce, Fewer, Tracked
<1>10. Posted(r)'
  <2>1. Holds(toServer', "message.send", r) => Holds(toServer, "message.send", r)
    BY <1>6 DEF Fewer, Tracked
  <2>2. Posted(r)
    BY <1>6 DEF RunInv
  <2> QED BY <1>1, <1>3, <1>4, <1>8, <2>1, <2>2 DEF Posted
<1>11. RunInv(r)'
  BY <1>9, <1>10 DEF RunInv
<1> QED BY <1>3, <1>5, <1>11, OneRun

LEMMA ServeDirectRuns ==
    ASSUME RunsInv, TypeOK', ServeDirect
    PROVE  AllRuns'
<1> USE DEF RunsInv
<1>1. Takes("message.send") /\ Quiet /\ UNCHANGED <<run, how, asked, pendingAck, inbox, toBridge>>
  BY DEF ServeDirect, process, Quiet
<1>2. PICK r \in Head(toServer).runs : posted' \in {[posted EXCEPT ![r] = @ + 1], posted}
  BY DEF ServeDirect
<1>3. r \in Runs /\ posted[r] \in Nat /\ posted'[r] \in Nat
      /\ \A x \in Runs : x # r => posted'[x] = posted[x]
  BY <1>1, <1>2, TakesTypes DEF TypeOK
<1>4. posted'[r] <= posted[r] + 1
  BY <1>2, <1>3 DEF TypeOK
<1>5. ASSUME NEW x \in Runs \ {r}
      PROVE  LeftAlone(x)
  BY <1>1, <1>3, FewerTaken, FewerQuiet DEF LeftAlone, Progress
<1>6. RunInv(r) /\ Fewer(toServer, toServer', r)
  BY <1>1, <1>3, FewerTaken DEF AllRuns
<1>7. /\ toServer \in Seq(ServerFrames) /\ toServer # <<>> /\ toServer' = Tail(toServer)
      /\ Head(toServer).type = "message.send"
  BY <1>1 DEF Takes, TypeOK
<1>8. Holds(toServer, "message.send", r) /\ ~Holds(toServer', "message.send", r)
      /\ how[r] = "timedOut"
  BY <1>2, <1>6, <1>7, TailHolds DEF RunInv, PostsOnce
<1>9. WokenOnce(r)' /\ DraftPasses(r)' /\ PostsOnce(r)'
  BY <1>1, <1>6 DEF RunInv, WokenOnce, DraftPasses, PostsOnce, Fewer, Tracked
<1>10. Posted(r)'
  <2>1. Holds(toServer', "draft.send", r) => Holds(toServer, "draft.send", r)
    BY <1>6 DEF Fewer, Tracked
  <2>2. Posted(r)
    BY <1>6 DEF RunInv
  <2> QED BY <1>1, <1>3, <1>4, <1>8, <2>1, <2>2 DEF Posted
<1>11. RunInv(r)'
  BY <1>9, <1>10 DEF RunInv
<1> QED BY <1>3, <1>5, <1>11, OneRun

LEMMA StepRuns ==
    ASSUME RunsInv, [Next]_vars
    PROVE  RunsInv'
<1>1. CASE Next
  <2>1. TypeOK'
    BY <1>1, StepTypes DEF RunsInv
  <2>2. AllRuns'
    BY <1>1, <2>1, ProcessRuns, InboxRuns, PresenceRuns, MentionRuns, ReadWakeRuns, FinishRuns,
       ServeCreateRuns, ReadAckRuns, GiveUpRuns, TakeAckRuns, AckTimeoutRuns, ServeSendRuns,
       ServeDirectRuns
    DEF Next, Read, Serve, RunGoesOn
  <2> QED BY <2>1, <2>2 DEF RunsInv
<1>2. CASE UNCHANGED vars
  BY <1>2 DEF vars, RunsInv, TypeOK, AllRuns, RunInv, WokenOnce, DraftPasses, PostsOnce, Posted
<1> QED BY <1>1, <1>2

LEMMA InitRuns == Init => RunsInv
<1> SUFFICES ASSUME Init PROVE RunsInv
  OBVIOUS
<1>1. TypeOK
  <2>1. toServer \in Seq(ServerFrames) /\ toBridge \in Seq(BridgeFrames)
    BY DEF Init
  <2> QED BY <2>1, BridgeAssumption DEF Init, TypeOK, Phase, RunState, How
<1>2. ASSUME NEW r \in Runs
      PROVE  RunInv(r)
  <2>1. \A type : /\ ~Holds(toServer, type, r) /\ Once(toServer, type, r)
                  /\ ~Holds(toBridge, type, r) /\ Once(toBridge, type, r)
    BY NoneHeld DEF Init
  <2>2. /\ run[r] = "none" /\ how[r] = "none" /\ asked = {} /\ posted[r] = 0
        /\ pendingAck # r
    BY BridgeAssumption DEF Init
  <2> QED BY <2>1, <2>2 DEF RunInv, WokenOnce, DraftPasses, PostsOnce, Posted
<1> QED BY <1>1, <1>2 DEF RunsInv, AllRuns

LEMMA RunsCorrect == Spec => []RunsInv
BY InitRuns, StepRuns, PTL DEF Spec

\* A response is posted twice at most, and only when its run stopped waiting for the
\* acknowledgement of its draft, however many runs there are, however the frames of
\* their drafts and responses mingle, and whichever the server refuses or fails
\* halfway through (bridge.go: spawnAgent; handlers_ws.go: handleWSDraftSend).
THEOREM TwiceAtMost == Spec => []TwiceOnlyLate
<1>1. RunsInv => TwiceOnlyLate
  <2> SUFFICES ASSUME RunsInv, NEW r \in Runs
               PROVE  posted[r] <= 2 /\ (posted[r] = 2 => how[r] = "timedOut")
    BY DEF TwiceOnlyLate
  <2>1. posted[r] \in Nat /\ Posted(r)
    BY DEF RunsInv, TypeOK, AllRuns, RunInv
  <2> QED BY <2>1 DEF Posted
<1> QED BY <1>1, RunsCorrect, PTL

-----------------------------------------------------------------------------
\* Drafts that are asked for and runs that got one

LEMMA StepBalanced ==
    ASSUME RunsInv, TypeOK', Balanced, [Next]_vars
    PROVE  Balanced'
<1> USE DEF RunsInv
<1>1. ASSUME \A x \in Runs : how'[x] = "acked" <=> how[x] = "acked", asked' = asked
      PROVE  Balanced'
  BY <1>1 DEF Balanced, Acked
<1>2. ASSUME NEW r \in Runs, TakeAck(r)
      PROVE  Balanced'
  <2>1. /\ pendingAck \in Runs /\ asked' = asked \cup {pendingAck}
        /\ Ends(r, "acked", <<Frame("draft.send", {pendingAck})>>)
    BY <1>2 DEF TakeAck, TypeOK
  <2>2. Acked' = Acked \cup {r}
    BY <2>1 DEF Ends, Acked, TypeOK
  <2>3. r \notin Acked /\ pendingAck \notin asked
    BY <2>1 DEF AllRuns, RunInv, PostsOnce, DraftPasses, Acked, Ends
  <2>4. IsFiniteSet(Acked) /\ IsFiniteSet(asked)
    BY FS_Subset, BridgeAssumption DEF Acked, TypeOK
  <2>5. /\ Cardinality(Acked') = Cardinality(Acked) + 1
        /\ Cardinality(asked') = Cardinality(asked) + 1
    BY <2>1, <2>2, <2>3, <2>4, FS_AddElement
  <2> QED BY <2>5 DEF Balanced
<1>3. ASSUME NEW r \in Runs, AckTimeout(r) \/ GiveUp(r)
      PROVE  Balanced'
  <2>1. /\ run[r] = "waiting" /\ asked' = asked
        /\ how' = [how EXCEPT ![r] = "timedOut"] \/ how' = [how EXCEPT ![r] = "expired"]
    BY <1>3 DEF AckTimeout, Ends, GiveUp
  <2>2. how[r] = "none"
    BY <2>1 DEF AllRuns, RunInv, PostsOnce
  <2>3. \A x \in Runs : how'[x] = "acked" <=> how[x] = "acked"
    BY <2>1, <2>2 DEF TypeOK
  <2> QED BY <1>1, <2>1, <2>3
<1>4. CASE Exits
  <2>1. \A x \in Runs : how'[x] = "acked" <=> how[x] = "acked"
    BY <1>4 DEF Exits, AllRuns, RunInv, PostsOnce, Active
  <2> QED BY <1>1, <1>4, <2>1 DEF Exits
<1>5. CASE UNCHANGED <<how, asked>>
  BY <1>1, <1>5
<1>6. CASE UNCHANGED vars
  BY <1>5, <1>6 DEF vars
<1>7. CASE Next
  <2>1. Start \/ Closed \/ Poll \/ LoggedIn \/ ReadWake \/ ReadAck \/ ReadItems \/ Serve
        => UNCHANGED <<how, asked>>
    BY DEF Start, Closed, Poll, LoggedIn, ReadWake, ReadAck, ReadItems, Serve, ServeLogin,
       ServeHello, ServeSleep, ServeCreate, ServeSend, ServeDirect, ServePoll, ServeAck, process
  <2>2. \A r \in Runs : Mention(r) \/ Finish(r) => UNCHANGED <<how, asked>>
    BY DEF Mention, Finish, process
  <2>3. Exit \/ LoginFails => Exits
    BY DEF Exit, LoginFails
  <2> QED BY <1>2, <1>3, <1>4, <1>5, <1>7, <2>1, <2>2, <2>3 DEF Next, Read, RunGoesOn
<1> QED BY <1>6, <1>7

\* As many responses are left behind by runs that took another's draft as drafts are
\* asked for whose own run did not take one: every acknowledgement that is taken out
\* of the channel is of a draft that no run had taken before (bridge.go: handleEvent
\* and the select of spawnAgent).
THEOREM MixUpsCancel == Spec => []MixUpsBalance
<1>1. Init => Balanced
  <2> SUFFICES ASSUME Init PROVE Balanced
    OBVIOUS
  <2>1. Acked = {} /\ asked = {}
    BY DEF Init, Acked
  <2> QED BY <2>1 DEF Balanced
<1>2. RunsInv /\ RunsInv' /\ Balanced /\ [Next]_vars => Balanced'
  BY StepBalanced DEF RunsInv
<1>3. RunsInv /\ Balanced => MixUpsBalance
  <2> SUFFICES ASSUME RunsInv, Balanced
               PROVE  Cardinality(Acked \ asked) = Cardinality(asked \ Acked)
    BY DEF MixUpsBalance, Acked
  <2>1. IsFiniteSet(Acked) /\ IsFiniteSet(asked)
    BY FS_Subset, BridgeAssumption DEF RunsInv, TypeOK, Acked
  <2>2. /\ Cardinality(Acked \ asked) = Cardinality(Acked) - Cardinality(Acked \cap asked)
        /\ Cardinality(asked \ Acked) = Cardinality(asked) - Cardinality(asked \cap Acked)
    BY <2>1, FS_Difference
  <2>3. Acked \cap asked = asked \cap Acked
    OBVIOUS
  <2> QED BY <2>2, <2>3 DEF Balanced
<1> QED BY <1>1, <1>2, <1>3, RunsCorrect, PTL DEF Spec

-----------------------------------------------------------------------------
\* The presence of an agent that has reported

LEMMA SleepSent ==
    ASSUME TypeOK, FallsAsleep, presence' = presence, NEW f \in ServerFrames,
           f.type \notin Rousing, toServer' = Append(toServer, f)
    PROVE  FallsAsleep'
<1>1. /\ DOMAIN toServer = 1..Len(toServer) /\ Len(toServer) \in Nat
      /\ DOMAIN toServer' = 1..(Len(toServer) + 1)
      /\ \A i \in 1..Len(toServer) : toServer'[i] = toServer[i]
      /\ toServer'[Len(toServer) + 1] = f
  BY Appended DEF TypeOK
<1>2. /\ \A i \in DOMAIN toServer : i \in DOMAIN toServer' /\ toServer'[i] = toServer[i]
      /\ \A i \in DOMAIN toServer' : i \in DOMAIN toServer \/ toServer'[i].type \notin Rousing
  BY <1>1
<1> QED BY <1>2 DEF FallsAsleep

\* Whatever was on its way, agent.sleep comes after it.
LEMMA SleepEnds ==
    ASSUME TypeOK, NEW r \in Runs, NEW way, NEW f \in ServerFrames, Ends(r, way, <<f>>)
    PROVE  FallsAsleep'
<1> DEFINE q == Append(toServer, f)
           sleep == Frame("agent.sleep", {})
<1>1. /\ q \in Seq(ServerFrames) /\ toServer' = Append(q, sleep) /\ sleep \in ServerFrames
      /\ sleep.type = "agent.sleep"
  BY EndsQueue, FrameTypes
<1> HIDE DEF q, sleep
<1>2. /\ Len(q) \in Nat /\ DOMAIN toServer' = 1..(Len(q) + 1)
      /\ toServer'[Len(q) + 1] = sleep
  BY <1>1, Appended
<1>3. /\ Len(q) + 1 \in DOMAIN toServer' /\ toServer'[Len(q) + 1].type = "agent.sleep"
      /\ \A j \in DOMAIN toServer' : ~(j > Len(q) + 1)
  BY <1>1, <1>2
<1> QED BY <1>3 DEF FallsAsleep

LEMMA SleepTaken ==
    ASSUME TypeOK, FallsAsleep, NEW type, Takes(type),
           \/ type \in Rousing
           \/ type = "agent.sleep" /\ presence' = "sleeping"
           \/ type # "agent.sleep" /\ presence' = presence
    PROVE  FallsAsleep'
<1>1. /\ Head(toServer) = toServer[1] /\ DOMAIN toServer = 1..Len(toServer)
      /\ Len(toServer) \in Nat \ {0}
      /\ DOMAIN toServer' = 1..(Len(toServer) - 1)
      /\ \A i \in 1..(Len(toServer) - 1) : toServer'[i] = toServer[i + 1]
      /\ toServer[1].type = type
  BY Shortened DEF TypeOK, Takes
<1>2. /\ 1 \in DOMAIN toServer
      /\ \A i \in DOMAIN toServer' : i + 1 \in DOMAIN toServer /\ toServer'[i] = toServer[i + 1]
  BY <1>1
<1>3. CASE presence = "sleeping" /\ \A i \in DOMAIN toServer : toServer[i].type \notin Rousing
  <2>1. type \notin Rousing
    BY <1>1, <1>2, <1>3
  <2>2. presence' = "sleeping"
    BY <1>3, <2>1
  <2>3. \A i \in DOMAIN toServer' : toServer'[i].type \notin Rousing
    BY <1>2, <1>3
  <2> QED BY <2>2, <2>3 DEF FallsAsleep
<1>4. ASSUME NEW i \in DOMAIN toServer, toServer[i].type = "agent.sleep",
             \A j \in DOMAIN toServer : j > i => toServer[j].type \notin Rousing
      PROVE  FallsAsleep'
  <2>1. CASE i = 1
    <3>1. presence' = "sleeping"
      BY <1>1, <1>4, <2>1 DEF Rousing
    <3>2. \A j \in DOMAIN toServer' : j + 1 \in DOMAIN toServer /\ j + 1 > i
      BY <1>1, <2>1
    <3>3. \A j \in DOMAIN toServer' : toServer'[j].type \notin Rousing
      BY <1>2, <1>4, <3>2
    <3> QED BY <3>1, <3>3 DEF FallsAsleep
  <2>2. CASE i # 1
    <3>1. i - 1 \in DOMAIN toServer' /\ toServer'[i - 1] = toServer[i]
      BY <1>1, <2>2
    <3>2. \A j \in DOMAIN toServer' : j > i - 1 => j + 1 \in DOMAIN toServer /\ j + 1 > i
      BY <1>1, <2>2
    <3>3. \A j \in DOMAIN toServer' : j > i - 1 => toServer'[j].type \notin Rousing
      BY <1>2, <1>4, <3>2
    <3> QED BY <1>4, <3>1, <3>3 DEF FallsAsleep
  <2> QED BY <2>1, <2>2
<1> QED BY <1>3, <1>4 DEF FallsAsleep

\* A step that makes no run report and does not restart the process.
Uneventful == phase' = phase /\ starts' = starts /\ (Reported' => Reported)
              /\ \A r \in Runs : run[r] = "none" /\ phase # "ready" => run'[r] = "none"

LEMMA SleepKept ==
    ASSUME SleepInv, Uneventful, FallsAsleep => FallsAsleep'
    PROVE  SleepInv'
BY DEF SleepInv, Uneventful

LEMMA SleepServed ==
    ASSUME RunsInv, Serve, FallsAsleep
    PROVE  FallsAsleep'
<1>1. TypeOK
  BY DEF RunsInv
<1>2. CASE ServeLogin
  BY <1>1, <1>2, SleepTaken DEF ServeLogin, Rousing
<1>3. CASE ServeHello
  BY <1>1, <1>3, SleepTaken DEF ServeHello, Rousing
<1>4. CASE ServeSleep
  BY <1>1, <1>4, SleepTaken DEF ServeSleep
<1>5. CASE ServeCreate
  BY <1>1, <1>5, SleepTaken DEF ServeCreate
<1>6. CASE ServeSend
  BY <1>1, <1>6, SleepTaken DEF ServeSend
<1>7. CASE ServeDirect
  BY <1>1, <1>7, SleepTaken DEF ServeDirect
<1>8. CASE ServePoll
  BY <1>1, <1>8, SleepTaken DEF ServePoll, server
<1>9. CASE ServeAck
  BY <1>1, <1>9, SleepTaken DEF ServeAck
<1> QED BY <1>2, <1>3, <1>4, <1>5, <1>6, <1>7, <1>8, <1>9 DEF Serve

LEMMA SleepStep ==
    ASSUME RunsInv, SleepInv, [Next]_vars
    PROVE  SleepInv'
<1>1. TypeOK
  BY DEF RunsInv
<1>2. ASSUME UNCHANGED <<phase, starts, run, how>>
      PROVE  Uneventful
  BY <1>2 DEF Uneventful, Reported
<1>3. CASE UNCHANGED vars
  BY <1>3 DEF vars, SleepInv, Reported, FallsAsleep
<1>4. CASE Start
  <2>1. phase' = "login" /\ starts' = starts + 1 /\ run' = run
    BY <1>4 DEF Start
  <2>2. starts' # 0 /\ (starts' = 1 => starts = 0)
    BY <1>1, <2>1, BridgeAssumption DEF TypeOK
  <2> QED BY <2>1, <2>2 DEF SleepInv
<1>5. CASE Exits /\ phase # "off"
  <2>1. phase' = "exited" /\ starts' = starts /\ phase # "off"
    BY <1>5 DEF Exits
  <2> QED BY <2>1 DEF SleepInv
<1>6. CASE Closed
  BY <1>6 DEF Closed, SleepInv
<1>7. CASE LoggedIn
  <2>1. phase = "login" /\ phase' = "ready" /\ starts' = starts /\ UNCHANGED <<run, how>>
    BY <1>7 DEF LoggedIn
  <2>2. ~Reported' \/ starts # 1
    BY <2>1 DEF SleepInv, Reported
  <2> QED BY <2>1, <2>2 DEF SleepInv
<1>8. CASE ReadWake
  <2>1. /\ phase = "ready" /\ Reads("agent.wake")
        /\ UNCHANGED <<phase, starts, how, toServer, presence>>
    BY <1>8 DEF ReadWake, server
  <2>2. PICK r \in Head(toBridge).runs :
           run' = [run EXCEPT ![r] = "working"] \/ run' = [run EXCEPT ![r] = "ended"]
    BY <1>8 DEF ReadWake
  <2>3. r \in Runs /\ Holds(toBridge, "agent.wake", r)
    BY <1>1, <2>1, <2>2, ReadsTypes, TailHolds DEF Reads, TypeOK
  <2>4. how[r] = "none"
    BY <2>3 DEF RunsInv, AllRuns, RunInv, WokenOnce, PostsOnce
  <2>5. \A x \in Runs : x # r => run'[x] = run[x]
    BY <1>1, <2>2 DEF TypeOK
  <2>6. Reported' => Reported
    BY <2>1, <2>4, <2>5 DEF Reported
  <2>7. Uneventful
    BY <2>1, <2>6 DEF Uneventful
  <2>8. FallsAsleep => FallsAsleep'
    BY <2>1 DEF FallsAsleep
  <2> QED BY <2>7, <2>8, SleepKept
<1>9. CASE ReadAck
  BY <1>2, <1>9, SleepKept DEF ReadAck, server, FallsAsleep
<1>10. CASE ReadItems
  <2> DEFINE f == Frame("inbox.ack", Head(toBridge).runs)
  <2>1. f \in ServerFrames /\ f.type \notin Rousing /\ toServer' = Append(toServer, f)
    BY <1>1, <1>10, ReadsTypes, FrameTypes DEF ReadItems, Send, Rousing
  <2>2. UNCHANGED <<phase, starts, run, how, presence>>
    BY <1>10 DEF ReadItems, process, server
  <2> QED BY <1>1, <1>2, <2>1, <2>2, SleepSent, SleepKept
<1>11. CASE Poll
  <2> DEFINE f == Frame("inbox.poll", {})
  <2>1. f \in ServerFrames /\ f.type \notin Rousing /\ toServer' = Append(toServer, f)
    BY <1>11, FrameTypes DEF Poll, Send, Rousing
  <2>2. UNCHANGED <<phase, starts, run, how, presence>>
    BY <1>11 DEF Poll, process, server
  <2> QED BY <1>1, <1>2, <2>1, <2>2, SleepSent, SleepKept
<1>12. CASE Serve
  <2>1. UNCHANGED <<phase, starts, run, how>>
    BY <1>12 DEF Serve, ServeLogin, ServeHello, ServeSleep, ServeCreate, ServeSend, ServeDirect,
       ServePoll, ServeAck, process
  <2> QED BY <1>2, <1>12, <2>1, SleepServed, SleepKept
<1>13. ASSUME NEW r \in Runs, Mention(r)
       PROVE  SleepInv'
  BY <1>2, <1>13, SleepKept DEF Mention, process, FallsAsleep
<1>14. ASSUME NEW r \in Runs, Finish(r)
       PROVE  SleepInv'
  <2> DEFINE f == Frame("draft.create", {r})
  <2>1. f \in ServerFrames /\ f.type \notin Rousing /\ toServer' = Append(toServer, f)
    BY <1>14, FrameTypes DEF Finish, Send, Rousing
  <2>2. /\ UNCHANGED <<phase, starts, how, presence>> /\ run[r] = "working" /\ run'[r] = "waiting"
        /\ \A x \in Runs : x # r => run'[x] = run[x]
    BY <1>1, <1>14 DEF Finish, server, TypeOK
  <2>3. Uneventful
    BY <2>2 DEF Uneventful, Reported
  <2> QED BY <1>1, <2>1, <2>2, <2>3, SleepSent, SleepKept
<1>15. ASSUME NEW r \in Runs, NEW way, NEW f \in ServerFrames, Ends(r, way, <<f>>)
       PROVE  SleepInv'
  <2>1. FallsAsleep'
    BY <1>1, <1>15, SleepEnds
  <2>2. /\ phase' = phase /\ starts' = starts /\ run[r] = "waiting"
    BY <1>15 DEF Ends
  <2> QED BY <2>1, <2>2 DEF SleepInv
<1>16. ASSUME NEW r \in Runs, TakeAck(r) \/ AckTimeout(r)
       PROVE  SleepInv'
  <2>1. pendingAck \in Runs => Frame("draft.send", {pendingAck}) \in ServerFrames
    BY FrameTypes
  <2>2. Frame("message.send", {r}) \in ServerFrames
    BY FrameTypes
  <2> QED BY <1>1, <1>15, <1>16, <2>1, <2>2 DEF TakeAck, AckTimeout, TypeOK
<1>17. ASSUME NEW r \in Runs, GiveUp(r)
       PROVE  SleepInv'
  <2>1. /\ UNCHANGED <<phase, starts, toServer, presence>>
        /\ run[r] = "waiting" /\ run'[r] = "ended" /\ how'[r] = "expired"
        /\ \A x \in Runs : x # r => run'[x] = run[x] /\ how'[x] = how[x]
    BY <1>1, <1>17 DEF GiveUp, server, TypeOK
  <2>2. Uneventful
    BY <2>1 DEF Uneventful, Reported
  <2>3. FallsAsleep => FallsAsleep'
    BY <2>1 DEF FallsAsleep
  <2> QED BY <2>2, <2>3, SleepKept
<1>18. CASE Next
  <2>1. Exit \/ LoginFails => Exits /\ phase # "off"
    BY DEF Exit, LoginFails
  <2> QED BY <1>4, <1>5, <1>6, <1>7, <1>8, <1>9, <1>10, <1>11, <1>12, <1>13, <1>14, <1>16, <1>17,
             <1>18, <2>1
          DEF Next, Read, RunGoesOn
<1> QED BY <1>3, <1>18

\* Once a report has been sent in the first session of the bridge, no frame that is
\* still on its way makes the agent look awake again: when all have been handled it
\* is shown as asleep (bridge.go: spawnAgent; agent.go: HandleAgentSleep).
THEOREM SleepsInTheEnd == Spec => []AsleepAfterReport
<1>1. Init => SleepInv
  BY DEF Init, SleepInv
<1>2. SleepInv => AsleepAfterReport
  <2> SUFFICES ASSUME SleepInv, phase = "ready", starts = 1, toServer = <<>>, Reported
               PROVE  presence = "sleeping"
    BY DEF AsleepAfterReport, Reported
  <2>1. FallsAsleep
    BY DEF SleepInv
  <2>2. DOMAIN toServer = {}
    OBVIOUS
  <2> QED BY <2>1, <2>2 DEF FallsAsleep
<1>3. RunsInv /\ SleepInv /\ [Next]_vars => SleepInv'
  BY SleepStep
<1> QED BY <1>1, <1>2, <1>3, RunsCorrect, PTL DEF Spec

=============================================================================
