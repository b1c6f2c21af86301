----------------------------- MODULE HeldDrafts -----------------------------
(***************************************************************************)
(* Held drafts: an agent creates a draft that remembers the version of the *)
(* room, and sends it later if the room has not moved on.  The HTTP        *)
(* handlers of api/handlers_draft.go and the WebSocket handlers of         *)
(* api/handlers_ws.go take the same steps over the same table              *)
(* (store/sqlite.go), and server.go expires drafts every two minutes.      *)
(*                                                                         *)
(* A request is one HTTP request or one frame; each of its queries is one  *)
(* action, since the only database connection is free between two of them. *)
(***************************************************************************)
EXTENDS Naturals, FiniteSets

CONSTANTS
    Drafts,      \* draft ids
    Channels,    \* channel ids
    ChannelOf,   \* the channel a draft is for
    Requests,    \* the requests that run at the same time
    NoDraft,     \* no draft
    MaxDelta,    \* how many messages a draft may be behind (5)
    MaxVersion   \* bound: messages of a channel

ASSUME DraftAssumption ==
    /\ ChannelOf \in [Drafts -> Channels]
    /\ NoDraft \notin Drafts
    /\ IsFiniteSet(Requests)
    /\ MaxDelta \in Nat
    /\ MaxVersion \in Nat

VARIABLES
    roomVersion,   \* channels.room_version
    status,        \* held_drafts.status, "none" before the row is there
    version,       \* held_drafts.room_version
    due,           \* held_drafts.expires_at has passed
    req,           \* the requests: the step they are at, and their draft
    posted,        \* history: messages made from the draft
    lost           \* history: a message was made and the status update failed

vars == <<roomVersion, status, version, due, req, posted, lost>>

-----------------------------------------------------------------------------

\* proto.HeldDraftStatus
Status == {"none", "held", "sent", "expired", "cancelled"}

\* The query a request makes next.
Step == {"idle",
         "inserting",  \* CreateDraft
         "checking",   \* handleSendDraft: GetChannelRoomVersion
         "posting",    \* handleSendDraft: CreateMessage
         "marking"}    \* handleSendDraft: UpdateDraftStatus

Idle == [at |-> "idle", draft |-> NoDraft, force |-> FALSE, read |-> 0]
Request == [at : Step, draft : Drafts \cup {NoDraft}, force : BOOLEAN, read : Nat]

TypeOK ==
    /\ roomVersion \in [Channels -> Nat]
    /\ status \in [Drafts -> Status]
    /\ version \in [Drafts -> Nat]
    /\ due \in [Drafts -> BOOLEAN]
    /\ req \in [Requests -> Request]
    /\ posted \in [Drafts -> Nat]
    /\ lost \in [Drafts -> BOOLEAN]

Init ==
    /\ roomVersion = [ch \in Channels |-> 0]
    /\ status = [d \in Drafts |-> "none"]
    /\ version = [d \in Drafts |-> 0]
    /\ due = [d \in Drafts |-> FALSE]
    /\ req = [r \in Requests |-> Idle]
    /\ posted = [d \in Drafts |-> 0]
    /\ lost = [d \in Drafts |-> FALSE]

Room(d) == roomVersion[ChannelOf[d]]

\* The request ends.
Done(r) == req' = [req EXCEPT ![r] = Idle]

-----------------------------------------------------------------------------
\* Mutant: the draft gets the version its own message will have.
CreateReadsNext(r, d) ==
    /\ req[r].at = "idle"
    /\ status[d] = "none"
    /\ \A q \in Requests : req[q].draft # d
    /\ req' = [req EXCEPT ![r] = [at |-> "inserting", draft |-> d, force |-> FALSE, read |-> Room(d) + 1]]
    /\ UNCHANGED <<roomVersion, status, version, due, posted, lost>>

\* handleCreateDraft reads the version of the room; a failed read ends it.
\* The id of the draft is new.
CreateRead(r, d) ==
    /\ req[r].at = "idle"
    /\ status[d] = "none"
    /\ \A q \in Requests : req[q].draft # d
    /\ req' = [req EXCEPT ![r] = [at |-> "inserting", draft |-> d, force |-> FALSE, read |-> Room(d)]]
    /\ UNCHANGED <<roomVersion, status, version, due, posted, lost>>

\* CreateDraft inserts the row with the version read before.
CreateInsert(r) ==
    /\ req[r].at = "inserting"
    /\ status' = [status EXCEPT ![req[r].draft] = "held"]
    /\ version' = [version EXCEPT ![req[r].draft] = req[r].read]
    /\ Done(r)
    /\ UNCHANGED <<roomVersion, due, posted, lost>>

\* Mutant: the status of the draft is not looked at.
SendGetAny(r, d, force) ==
    /\ req[r].at = "idle"
    /\ status[d] # "none"
    /\ req' = [req EXCEPT ![r] = [at |-> "checking", draft |-> d, force |-> force, read |-> 0]]
    /\ UNCHANGED <<roomVersion, status, version, due, posted, lost>>

\* handleSendDraft gets the draft and goes on if it is held.
SendGet(r, d, force) ==
    /\ req[r].at = "idle"
    /\ status[d] = "held"
    /\ req' = [req EXCEPT ![r] = [at |-> "checking", draft |-> d, force |-> force, read |-> 0]]
    /\ UNCHANGED <<roomVersion, status, version, due, posted, lost>>

\* Whether a draft is too far behind a room at version v.
Stale(d, v) == v > version[d] + MaxDelta

\* It reads the version of the room; the error of a failed read is dropped and
\* the version is 0 then.
SendCheck(r) ==
    /\ req[r].at = "checking"
    /\ \E v \in {Room(req[r].draft), 0} :
          IF Stale(req[r].draft, v) /\ ~req[r].force
          THEN Done(r)
          ELSE req' = [req EXCEPT ![r].at = "posting"]
    /\ UNCHANGED <<roomVersion, status, version, due, posted, lost>>

\* Mutant: the message is made again while the request waits.
SendPostAgain(r) ==
    /\ req[r].at = "posting"
    /\ Room(req[r].draft) < MaxVersion
    /\ roomVersion' = [roomVersion EXCEPT ![ChannelOf[req[r].draft]] = @ + 1]
    /\ posted' = [posted EXCEPT ![req[r].draft] = @ + 1]
    /\ UNCHANGED <<status, version, due, req, lost>>

\* CreateMessage, with the trigger that counts the room's messages.
SendPost(r) ==
    /\ req[r].at = "posting"
    /\ Room(req[r].draft) < MaxVersion
    /\ roomVersion' = [roomVersion EXCEPT ![ChannelOf[req[r].draft]] = @ + 1]
    /\ posted' = [posted EXCEPT ![req[r].draft] = @ + 1]
    /\ req' = [req EXCEPT ![r].at = "marking"]
    /\ UNCHANGED <<status, version, due, lost>>

\* UpdateDraftStatus(sent), whatever the status is by now.
SendMark(r) ==
    /\ req[r].at = "marking"
    /\ status' = [status EXCEPT ![req[r].draft] = "sent"]
    /\ Done(r)
    /\ UNCHANGED <<roomVersion, version, due, posted, lost>>

\* Mutant: a draft whose update failed is opened again.
MarkFailsAndReopens(r) ==
    /\ req[r].at = "marking"
    /\ lost' = [lost EXCEPT ![req[r].draft] = TRUE]
    /\ status' = [status EXCEPT ![req[r].draft] = "held"]
    /\ Done(r)
    /\ UNCHANGED <<roomVersion, version, due, posted>>

\* The update fails and its error is dropped.
SendMarkFails(r) ==
    /\ req[r].at = "marking"
    /\ lost' = [lost EXCEPT ![req[r].draft] = TRUE]
    /\ Done(r)
    /\ UNCHANGED <<roomVersion, status, version, due, posted>>

\* CreateDraft or CreateMessage fails: the request ends with an error.
Fail(r) ==
    /\ req[r].at \in {"inserting", "posting"}
    /\ Done(r)
    /\ UNCHANGED <<roomVersion, status, version, due, posted, lost>>

\* Mutant: the status is spelt as that of a subscription.
CancelMisspelt(d) ==
    /\ status[d] # "none"
    /\ status' = [status EXCEPT ![d] = "canceled"]
    /\ UNCHANGED <<roomVersion, version, due, req, posted, lost>>

\* handleCancelDraft: one update, whatever the status.
Cancel(d) ==
    /\ status[d] # "none"
    /\ status' = [status EXCEPT ![d] = "cancelled"]
    /\ UNCHANGED <<roomVersion, version, due, req, posted, lost>>

-----------------------------------------------------------------------------
\* Ten minutes have passed since the draft was created.
Elapse(d) ==
    /\ status[d] # "none"
    /\ ~due[d]
    /\ due' = [due EXCEPT ![d] = TRUE]
    /\ UNCHANGED <<roomVersion, status, version, req, posted, lost>>

\* Mutant: the sweep selects the wrong status.
ExpireSent ==
    /\ status' = [d \in Drafts |-> IF status[d] = "sent" /\ due[d] THEN "expired" ELSE status[d]]
    /\ UNCHANGED <<roomVersion, version, due, req, posted, lost>>

\* ExpireDrafts, on a tick of the sweep.
ExpireDrafts ==
    /\ status' = [d \in Drafts |-> IF status[d] = "held" /\ due[d] THEN "expired" ELSE status[d]]
    /\ UNCHANGED <<roomVersion, version, due, req, posted, lost>>

\* Somebody else posts in the channel.
OtherMessage(ch) ==
    /\ roomVersion[ch] < MaxVersion
    /\ roomVersion' = [roomVersion EXCEPT ![ch] = @ + 1]
    /\ UNCHANGED <<status, version, due, req, posted, lost>>

\* The server stops; the requests are gone, the tables stay.
Crash ==
    /\ \E r \in Requests : req[r].at # "idle"
    /\ lost' = [d \in Drafts |-> lost[d] \/ \E r \in Requests : req[r].at = "marking" /\ req[r].draft = d]
    /\ req' = [r \in Requests |-> Idle]
    /\ UNCHANGED <<roomVersion, status, version, due, posted>>

-----------------------------------------------------------------------------

RequestStep(r) ==
    \/ \E d \in Drafts : CreateRead(r, d)
    \/ CreateInsert(r)
    \/ \E d \in Drafts, force \in BOOLEAN : SendGet(r, d, force)
    \/ SendCheck(r)
    \/ SendPost(r)
    \/ SendMark(r)
    \/ SendMarkFails(r)
    \/ Fail(r)

Next ==
    \/ \E r \in Requests : RequestStep(r)
    \/ \E d \in Drafts : Cancel(d) \/ Elapse(d)
    \/ ExpireDrafts
    \/ \E ch \in Channels : OtherMessage(ch)
    \/ Crash

Spec == Init /\ [][Next]_vars

\* The ticker of server.go goes on; a sweep that fails is tried again at the
\* next tick.  Nothing else is promised.
FairSpec == Spec /\ WF_vars(ExpireDrafts)

-----------------------------------------------------------------------------
\* The requests that found the draft held and have not posted yet.
Admitted(d) == {r \in Requests : req[r].draft = d /\ req[r].at \in {"checking", "posting"}}

\* A draft remembers a version its room has had, so that the difference the
\* handlers compute is never negative after a successful read (handlers_draft.go:
\* handleCreateDraft reads the version before it inserts the draft).
NotFromFuture == \A d \in Drafts : version[d] <= Room(d)

\* However cancellations, expiry and sends of the draft overlap, it is posted no
\* more often than requests run at the same time, unless a status update got
\* lost (handlers_draft.go: handleSendDraft checks the status first and updates
\* it last).
PostsBounded == \A d \in Drafts : ~lost[d] => posted[d] <= Cardinality(Requests)

\* The draft is sent, cancelled or expired, and no request is on its way to post it.
Settled(d) == status[d] \notin {"none", "held"} /\ Admitted(d) = {}

\* A settled draft stays settled and is never posted again: not by a late status
\* update, a failed one, a cancellation, the sweep or a restart.
SettledForGood ==
    [][\A d \in Drafts : Settled(d) => Settled(d)' /\ posted'[d] = posted[d]]_vars

\* A held draft whose time is over leaves the held state (server.go: the sweep).
HeldDraftsExpire == \A d \in Drafts : status[d] = "held" /\ due[d] ~> status[d] # "held"

\* Held drafts are a DraftBox.
Box == INSTANCE DraftBox WITH
    Senders <- Requests,
    state <- [d \in Drafts |-> IF status[d] \in {"none", "held"} THEN status[d] ELSE "closed"],
    admitted <- [d \in Drafts |-> Admitted(d)]

\* handlers_draft.go takes every step a DraftBox may take and no other: a post
\* uses up an admission, an admission needs a held draft, and nothing reopens one.
ImplementsBox == Box!BoxSpec

\* handlers_draft.go: a second send is refused with "draft is not in held
\* status", so that a draft makes one message.  (Violated: two requests may both
\* find it held.)
DraftSentOnce == \A d \in Drafts : ~lost[d] => posted[d] <= 1
=============================================================================
