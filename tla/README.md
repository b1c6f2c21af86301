# lark-daemon: TLA+ models and proofs

`lark-daemon` is a Go server (`cmd/lark-server`) through which people and AI
agents exchange messages, and a client (`cmd/lark-agent`) that runs an agent on
a user's machine. The server keeps its data in SQLite behind one connection and
its live connections in memory. This directory models the parts of it whose
order of events matters, checks the models with TLC on small instances and
proves the main results with TLAPS for all instances.

Paths below are relative to `src/internal/server/` unless they start with `src/`.

## 1. Inventory

### Components

| Component | State | Operations | Hard because |
|---|---|---|---|
| Hub (`websocket/hub.go`) | maps: member id → connection (`connections`, `agents`), name → connection (`agentNames`, `daemonAgents`), channel → member → connection (`channels`), `presence`, `daemons` | `Add`, `Remove`, `SubscribeChannel`, `UnsubscribeChannel`, `SetPresence`, `RegisterDaemon`, `Close`, broadcasts, wakes | called by all connections and HTTP requests; each call is one critical section, a handler makes several |
| Connection (`websocket/conn.go`) | identity, `authenticated`, `closed`, subscriptions, a 256-slot send channel | `SetIdentity`, `Subscribe`, `Unsubscribe`, `Send`, `Close`, `ReadPump`, `WritePump` | two goroutines per connection; frames are still buffered when it is closed |
| Agent lifecycle (`websocket/agent.go`) | presence | `agent.hello`, `agent.sleep` | late frames |
| WebSocket handlers (`api/handlers_ws.go`) | – | login, join, leave, messages, calls, approvals, drafts, reviews, daemon registration; a 30 s authentication timeout | check first, act later |
| Channel membership (`api/handlers_channel.go`) | `channel_members` | add, remove | database first, hub later |
| Held drafts (`api/handlers_draft.go`, `handlers_ws.go`, `server.go`) | `held_drafts`, `channels.room_version` | create, validate, send, cancel, two-minute sweep | four queries per send, dropped errors, restarts |
| Agent bridge (`src/internal/agent/bridge.go`) | connection, one channel of draft acknowledgements | wake → spawn → draft → send, inbox poll | concurrent runs, timeouts and late answers |
| Workflow engine (`api/handlers_workflow.go`) | `workflows`, `workflow_runs` | trigger, cron loop, event, steps | five-minute context, disabling, restarts |
| Approvals, reviews, calls, tasks (`api/handlers_approval.go`, `handlers_review.go`, `handlers_call.go`, `handlers_task.go`, `handlers_ws.go`) | one row each with a status, and who has been told of it | create, decide, answer, end, update, delete | read, change, write the whole row, tell; nothing holds these together |
| Messages, threads, reactions, pins (`api/handlers_message.go`, `handlers_reaction.go`, `handlers_pin.go`, `handlers_ws.go`) | `messages` with reply and edit counts, `reactions`, `pinned_messages`, edit history, notifications of mentions | post, reply, edit, delete, attach, detach | HTTP and WebSocket handlers differ; frames are dropped; cascades and triggers |
| Direct messages (`api/handlers_dm.go`) | `direct_messages` | create | creating one always fails |
| Rate limiter (`api/ratelimit.go`) | bucket per address | `Allow`, cleanup | truncation |
| Billing (`api/handlers_billing.go`, `service/stripe.go`) | `billing_customers` | checkout, webhook | events repeated, late, out of order, overlapping; several subscriptions and one row |
| Accounts (`api/handlers_auth.go`, `handlers_sso.go`, `handlers_member.go`, `websocket/auth.go`) | members, identities, OAuth states in memory, tokens and their blacklist | register, log in, OAuth, single sign-on, provision, log out, delete | look up, find nothing, make one: several statements; nothing is unique |
| Metrics (`metrics/metrics.go`) | wake counter in agent memory | `RecordWake` | read, increment, write |
| Files (`api/handlers_file.go`, `storage/storage.go`) | row and bytes | upload, delete | two stores, one failing |
| Agent workspace and memory (`api/handlers_agent_workspace.go`, `handlers_agent.go`) | items, keys | create, update, delete | read, change, write |
| Encryption keys, webhooks, integrations, templates | rows | single statements | – |
| Notifications and inbox | `notifications` | poll, acknowledge | lost frames |
| Store (`store/sqlite.go`) | SQLite, `SetMaxOpenConns(1)` | one statement or transaction per call | free between two calls |

### Interaction

A WebSocket upgrade makes a connection with a `ReadPump` that handles its frames
one by one, a `WritePump` and the timeout goroutine. Handlers call the store
(synchronously) and the hub (under `Hub.mu`). HTTP requests run in their own
goroutines, use the same store and reach connections through the hub
(`GetConn`, `UnsubscribeChannel`, broadcasts). `Hub.Add` closes a replaced
connection; the `ReadPump` of a closed connection fails to read and calls
`Hub.Remove` from its deferred function. `server.go` sweeps drafts on a ticker
and shuts down in the order HTTP server, hub, store.

### What makes each component correct

* Hub: the maps agree with each other; a connection that is gone is reachable
  through none of them; a member who is gone is offline; a live connection is
  where the hub looks for it; closed and silent connections end.
* Membership: removing a member ends the member's subscription, and nobody else's.
* Held drafts: a draft is sent once; a draft that is sent, cancelled or expired
  stays so and makes no further message; an unsent draft expires.
* Bridge: every run ends; responses are neither lost nor doubled except where a
  timeout explains it; the agent's presence and inbox follow what it does.
* Workflow: every run ends in `completed` or `failed`; an enabled cron workflow keeps running.
* Messages: counts are those of the rows, nothing refers to what is gone, every
  mention is noted, and readers see what is stored.
* Accounts: a person gets to the same account by the same door; an identity
  belongs to its person; what was used up or signed out is refused.
* Records: a decision that was told stays; what was told last is what is stored;
  files have bytes, the counter counts, the plan follows a subscription.
* Rate limiter: never more than `limit` tokens; a client that waits gets tokens back.

The hazards, each at its line and with the properties that cover it, are in
`PROJECT.json`.

### What the properties leave out

Much of this code drops errors and lets requests overlap, so that many of these claims
hold only with exceptions. Where that is so a history variable (`crossed`, `lost`,
`astray`, `kept`, `muddled`) records exactly when the exception happened, the property
names it, and says that nothing *else* breaks the claim. The exception itself is not
covered by such a property: it is in the model, and the notes of the hazards name it. For
four claims that the repository states without exceptions a run shows the violation.

## 2. Plan

| # | Module | Composes | Specification it implements | State |
|---|---|---|---|---|
| 1 | `Hub` | connection, registry, membership, agent presence | – | modelled, checked, proved |
| 2 | `DraftBox`, `HeldDrafts` | draft handlers, sweep, restarts | `DraftBox` | modelled, checked, proved |
| 3 | `Workflow` | trigger, engine, cron, restart | – | modelled, checked, proved |
| 4 | `Bridge` | the bridge process, its runs, the frames both ways and the server's handlers | – | modelled, checked, proved |
| 5 | `Messages` | HTTP and WebSocket handlers, triggers, cascades, readers | – | modelled, checked, proved |
| 6 | `Accounts` | registration, login, OAuth, single sign-on, provisioning, tokens, removals | – | modelled, checked, proved |
| 7 | `Records` | approvals, reviews, calls, tasks, items, files, wake counter, billing | – | modelled, checked, proved |
| 8 | `RateLimiter` | bucket and cleanup | an ideal bucket | not modelled |

Each run answers one question. Every safety property of the passing runs is
also proved (section 10). What could still be stated and proved: an abstract
specification of `Bridge` (a response is posted, or left behind as a held draft) and of
`Messages` (what a reader is shown is some stored text of the message), with
refinements; and lemmas on which rows the exceptions of `Records` and `Accounts` leave.

Modules that hold theorems, and those they extend, use no RECURSIVE operator.

## 3. Hub

`Hub.tla` has one variable per field of `Hub` and `Conn` (the comments name
them), and one per goroutine's position:

* `pc[c]` is where the `ReadPump` of `c` is inside the running handler, with the
  handler's locals `old`, `todo`, `cur`; `timer[c]` is the 30 s timeout;
  `kick[r]` an HTTP request that changes channel membership; `toClose` the
  connections `Hub.Close` has still to close.
* One action is one critical section of `Hub.mu` or `Conn.mu`, or one query.
  `auth.login` is `AuthLogin; HubAdd; CloseOld; ListChannels;` then `Subscribe;
  HubSubscribe` per channel. `channel.join` is `ChannelJoin; Subscribe;
  HubSubscribe`, `channel.leave` is `ChannelLeave; HubUnsubscribe`. The end of the pump is
  `PumpRemove; PumpClose`. The removal of a member is `KickDelete; KickLookup;
  KickUnsubscribe; KickHub`.
* Closing a connection also cancels its context: its next query fails, which is
  why `AuthLogin`, `ListChannels` and `ChannelJoin` look at `closed` and `ChannelLeave`,
  `AgentHello` and `DaemonRegister` do not.
* The maps are total functions with `NoConn` for a missing entry; a `presence`
  entry that is missing reads as `offline`, as `GetPresence` returns.

| Run | Instance | Shows |
|---|---|---|
| `hub_sessions` | two connections, one login each, shared name, one daemon, one timed connection, shutdown, no membership change; liveness, hence no symmetry | `GoneUnreachable`, `AllGoneOffline` hold, `ClosedExits` and `SilentConnExits` hold under `FairSpec` |
| `hub_rooms` | two connections, two logins each, one channel, a membership request that adds and removes again and again, subscription limit 1, shutdown | `TypeOK`, `GoneUnreachable`, `SoleConnReachable` |
| `hub_reconnect` | two connections of one member | **violated**: `ReconnectKeepsNewConnection` |
| `hub_removal` | a connection and a membership request | **violated**: `RemovedMemberUnsubscribed` |

Bounds. Two connections are enough for a replacement, which is the only way one
connection acts on another; the proofs below remove the bound for the safety
properties. `MaxLogins` bounds successful logins per connection, `DaemonConns` and
`TimedConns` say which connections register a daemon or see the timeout pass.
`MaxSubscriptions` stands for 200; at the limit of `hub_rooms` a connection cannot
subscribe to its one channel again while it is subscribed, which the proof covers.

What the two violations are. `Hub.Remove` deletes by member id
(`websocket/hub.go:122`). When a member reconnects, `Add` stores the new
connection and closes the old one; the old one's `ReadPump` then runs `Remove`
and deletes the *new* entry, all its subscriptions and sets the member offline,
while `PROTOCOL.md:564` describes reconnection as replacing the connection. And
a join checks membership before it subscribes (`api/handlers_ws.go:230`): a
removal in between leaves the connection subscribed.

There is a third disagreement, between the two sides of a subscription. A removal takes
the channel from the connection first (`Conn.Unsubscribe`) and from the hub later
(`Hub.UnsubscribeChannel`, `api/handlers_channel.go:176-179`). A member who is added back
and joins in between is subscribed as far as the connection knows and not as far as
the hub does, for good, and is sent no `message.new`.

Consequently the properties that hold have conditions, all of them stated in the
properties:

* `SoleConnReachable` is about a connection at rest that is the only one of its
  member, until the server stops and while every connection logged in once at
  most. Membership may change at any time. The history variable `crossed` holds the
  subscriptions that were made while a removal of the same member from the same channel had
  only its `Hub.UnsubscribeChannel` left, until the connection leaves the channel or
  subscribes again without such a removal; for these alone the two sides may differ.
* `GoneUnreachable` and `AllGoneOffline` are about the other direction, and about
  connections that logged in once: a second login under another identity leaves
  the first entry behind (`handlers_ws.go:189`). Names registered by a daemon are
  left out because `UnregisterDaemon` has no caller.
* That a removal hits no connection of another member is proved
  (`RemovalHitsItsMember`). It may miss the connection that the member has by then.

Fairness. Goroutines are scheduled, so a running handler, the timeout, `Hub.Close`
and a request go on (`WF`). A closed connection's `ReadMessage` fails once the
finite read buffer is used up; a buffered frame may be handled first and take the
pump out of `reading`, so this is strong fairness (`SF_vars(closed[c] /\ PumpRemove(c))`).
No fairness is assumed of clients. The runs do not check deadlock: connections are
used up, and clients may be silent for ever.

## 4. Held drafts

`HeldDrafts.tla` models the two tables columns that matter (`status`, `version` of a
draft; `roomVersion` of a channel), the time of expiry (`due`) and the running
requests (`req[r].at` is the query a request makes next). HTTP and WebSocket
handlers take the same steps. Every query is one action because the only
database connection is free between queries:

* create: `CreateRead` (room version), `CreateInsert`;
* send: `SendGet` (status must be `held`), `SendCheck` (staleness; a failed read
  counts as version 0), `SendPost` (message and trigger), `SendMark` (status
  `sent`) or `SendMarkFails` (error dropped);
* `Fail`, `Cancel`, `Elapse`, `ExpireDrafts`, `OtherMessage`, and `Crash`, after
  which requests are gone and the tables are as they were.

`posted` and `lost` are history variables: the messages made from a draft, and
whether a message was made whose status update failed.

`DraftBox.tla` is what the component promises: senders are *admitted* while the
draft is held, each admission pays for one post, and a closed draft stays
closed. `HeldDrafts` implements it with `admitted[d]` = the requests between the
status check and the post (`ImplementsBox`).

| Run | Instance | Shows |
|---|---|---|
| `drafts` | two drafts of one channel, two overlapping requests, staleness limit 1 (5 in the code), at most 3 messages | `TypeOK`, `NotFromFuture`, `PostsBounded`, `SettledForGood`, `ImplementsBox`, and `HeldDraftsExpire` under `FairSpec` |
| `drafts_twice` | the same | **violated**: `DraftSentOnce` |

Bounds: two requests are the least that overlap; one channel makes the drafts
compete for the room version; with limit 1 and three messages a draft can be
fresh, at the limit and stale. `MaxVersion` only bounds messages.

The violation: two sends of one draft both pass the check at
`api/handlers_draft.go:97` and both post. `PostsBounded` is what remains true: no
more posts than overlapping requests.

Fairness is `WF_vars(ExpireDrafts)` alone: the ticker of `server.go` goes on, and a
sweep that fails is repeated at the next tick. Requests need no fairness: a
request that never continues can still do no harm to the properties. Deadlock is
checked (the sweep is always possible).

Left out: reading lists of drafts, `DeleteDraft` (no caller), the cascades that
delete the drafts of a deleted agent or channel.

## 5. Workflows

`Workflow.tla` models the rows (`flow`: whether a workflow is there and enabled,
`isCron`, `status` and `runOf` of a run) and the goroutines: `exec[r]` is the one in
`executeWorkflow`, with the steps it has `left`, whether one has `failed`, and
whether its five-minute context has `expired`; `loop[w]` is the one in
`runCronWorkflow`; `req[q]` a request between two queries. `late` is a history
variable, the cron runs created since the workflow was disabled.

* Requests: `CreateWorkflow`, `UpdateRead; UpdateWrite` (the whole row is written
  back), `DeleteWorkflow` (runs are deleted with it), `TriggerRead; TriggerCreate`.
* Execution: `ExecStep` (succeeds, fails and goes on, fails and ends the loop),
  `ExecLeave` (after the last step, or at the deadline), `ExecSave` (fails once the
  context has expired), `Panic; PanicSave`, `Expire`, `SaveFails`. Steps that
  cannot be read start at `saving` with `failed` set.
* Cron: `StartCron` once after a start, `CronTick`, `CronCreate`, `CronContinue`. A
  loop ends at a tick when the query fails or the workflow is not enabled, which is
  why `CronTick` may always end it.
* `Crash` ends all goroutines and lets the server start again.

| Run | Instance | Shows |
|---|---|---|
| `workflow` | one workflow, two runs, one request at a time, at most one step | `TypeOK`, `RowTellsOutcome`, `CronSequential`, `LateCronOnce`, and `LoopEnds`, `RunsEnd` under `FairSpec` |
| `workflow_deadline` | the same | **violated**: `OutcomeRecorded` |

Bounds: two runs are the least that could overlap or both be late; requests and
the cron loop already race with one request. One step is enough for every
outcome (it succeeds, fails, panics, or is cut off); the proofs cover more steps.

The violation: the outcome is written with the context that bounds the run
(`api/handlers_workflow.go:304`), so a run that is cut off stays `running`. Using
another context there is not enough to repair it: the steps that are cut off
are `skipped`, not `failed`, and `RowTellsOutcome` would no longer hold (this is
the mutant of that property).

Fairness: an execution and a cron loop go on. Steps end, at the deadline at the
latest, because they use the context or sleep for at most 300 s. Nothing is
assumed about clients, restarts or the passing of the deadline. Deadlock is
checked (the server can always restart).

The handlers that create, change, delete and trigger workflows are on no route yet (section
11). Left out: what steps do elsewhere; `TriggerWorkflowByEvent`, which nothing calls. A
cron workflow that is created or enabled after the start gets a loop only
at the next start (`StartCron` is the only action that begins one), and a workflow
that is no longer of the cron type keeps its loop (`CronTick` ignores `isCron`);
the model shows both, no property speaks of them.

## 6. Agent bridge

`Bridge.tla` has both ends of one connection. `toServer` and `toBridge` are the
frames on their way; each end handles them in order. What the server sends waits
in a buffer that all broadcasts share, so `Push` may drop a frame. `phase` is how
far `Bridge.Run` is, `run[r]` the goroutine of `spawnAgent`, `pendingAck` the channel
of one draft; `presence`, `inbox`, `draft` and `posted` are the server's state. A
member of `Runs` stands for a mention with its wake, notification, run and draft.

* Process: `Start`, `LoggedIn`, `LoginFails`, `Exit`, `Closed` (the server notices). One
  frame of `readLoop` is `ReadWake`, `ReadAck` or `ReadItems`.
* Run: `Finish` (the command ended), then one of `TakeAck`, `AckTimeout`, `GiveUp`.
* Server: one `Serve...` action per handler, and `Mention`. Why a draft or a
  message is refused is left open here; it is the subject of section 4.
* `how` and `asked` are history variables: how a run's wait ended, and which drafts
  the bridge asked the server to send.

| Run | Instance | Shows |
|---|---|---|
| `bridge` | two runs, two starts, one fault (a dropped frame or a failed update of the inbox) | `TypeOK`, `MixUpsBalance`, `TwiceOnlyLate`, `AsleepAfterReport`, and `EveryRunEnds`, `InboxDrained` under `FairSpec` |

Bounds: two runs are the least that can take each other's acknowledgement or
report the agent asleep while the other works; a second start shows what is left
of the first. `MaxFaults` is needed because a frame that is dropped for ever
drains no inbox; one fault already reaches every outcome of a run.

Fairness: both ends read what has arrived, the goroutines of runs are scheduled
and the ticker of `inboxPollLoop` ticks (`WF`). No fairness is assumed of the
command, except that it ends: `spawnAgent` kills it after five minutes. Deadlock is
not checked: a bridge that has left does not connect again.

What the model shows of the code. An acknowledgement carries no run: runs send
each other's drafts, and a response is left behind for each draft that is sent on
behalf of a run that no longer waits (`MixUpsBalance` states the balance). After the
five seconds (`bridge.go:395`) the response is sent directly and the draft may be
sent as well. Any frame that arrives before `auth.success` ends the process
(`LoginFails`). Items of the inbox are acknowledged without being handled
(`bridge.go:454`). A run that ends reports the agent asleep while another works;
`AsleepAfterReport` says that nothing wakes it up again.

## 7. Messages

`Messages.tla` has the rows (`row`, with the reply and edit counts the triggers and
handlers keep), what hangs on them (`attached`), the notifications of mentions
(`note`), the running requests, the answers a connected reader waits for (`answer`) and
what it was shown (`shown`). A text is a number. `astray` is a history variable: the
messages for which a frame was dropped or not meant to be sent, whose writes overlapped,
or of which an answer came after a newer frame. Only `ReadersAgree` depends on it.

* `Post; Announce; Mention...; MentionsDone`, for messages and thread replies.
  `Mention` stores the notification, or a query of `handleMentions` fails and its error
  is dropped (`unstored`), or the member or message is gone by then (`gone`).
* `Edit; Trace; Save; Show` over HTTP, without `Trace` over WebSocket.
* `Delete`, followed over WebSocket by `Unshow`.
* `List; Tell`: the query, and its answer, which any frames may overtake. A page (`Pages`)
  is any part of the messages that are no replies (`ListMessages` selects those without
  `thread_id`, with a limit), or a message with its replies (`ListThreadMessages`).
  It changes what the reader knows of the messages it shows and of no others.
* `Attach`, `Detach` (reactions, pins, encrypted copies), `RemoveMember`, `Fails`,
  `Crash`. Frames of one connection are handled one at a time (`Begins`).

After a restart, readers know nothing of the messages there are (`Unseen`): a reply may
stay so, because no list shows it unless the reader asks for its thread.

| Run | Instance | Shows |
|---|---|---|
| `messages` | two messages of two members, one of whom is connected and lists, two overlapping requests, pins and edit histories, one edit | `TypeOK`, `RepliesCounted`, `NothingDangles`, `MentionsNoted`, `ReadersAgree` |

Bounds: two messages are a parent and its reply, two members an author who is
removed and one who stays, two requests the least that overlap; one reader is enough
because readers do not affect each other. One edit per row is enough for overlapping
edits, because both read the count before either writes. Reactions and encrypted
copies are guarded by the same foreign keys as pins. What readers are shown has no
effect on pins and mentions, nor they on it: the constraint `ReadersApart` follows
pins and mentions only while no frame and no answer arrives. The view `Remembered`
makes no difference between states that differ only in what was shown of messages
that are `astray`, which nothing looks at until a restart replaces it. Deadlock is
not checked: messages and members are used up.

What the two last properties promise. `MentionsNoted`: every mention of a
stored message has an outcome, and is lost only for the reasons above or a
restart, never because of what another request does; a stored notification
stays while the member does. `ReadersAgree`: once nobody is at work on a message that is
not `astray`, whoever was told of it was last told what is stored. A reader whose frame
was dropped, and two edits at once, are not covered by it.

What the model shows of the code. A deletion over HTTP is announced to nobody
(`handlers_message.go:161`), a WebSocket edit keeps no history, and the history
an HTTP edit keeps is of the new text, not of the old one. A message with replies
cannot be deleted (`messages.thread_id` has no `ON DELETE`), nor can a member whose
messages others have replied to. Overlapping edits are counted once.

## 8. Accounts

`Accounts.tla` models members, identities at providers, the row of the
single sign-on provider, `oauthStateStore` (`oauth`), tokens with their blacklist,
and requests that look an account up, find none and make one. `home`, `astray`,
`spent`, `kept` and `again` are history variables: where a door last led, for whom
account-making requests overlapped, what must not be accepted, for which tokens
the sign-out failed to say so, and what was accepted all the same.

* States: `BeginOAuth`, `Age`, `SweepStates`, `TakeState` in the callbacks.
* Doors: `Register`, `Login`, `GithubCallback`, `OAuthCallback`, `SSOCallback`, `Provision`,
  which go on with `AskByIdentity`, `AskSSO`, `AskByName` or `AskByEmail`, then `Join`,
  `Link`, `Issue`, one or two queries each, or `Fail`.
* Tokens: `Authenticate`, `Logout`, `Expire`. `Logout` answers "logged out" whether or not
  `BlacklistToken`, which runs under the request's context, stored the token. Rows: `CreateMember`, `DeleteMember`,
  `DeleteOffice`, `ConfigureSSO`. `Crash` empties the memory of states.

Abstractions: one workspace of agents and single sign-on (the office), with an
owner who is not followed, exists at the start; a workspace founded at
registration is made together with its member (that the workspace is left alone
when the member's insert fails is not followed); a single sign-on provider is
configured once; a slot of a state or token is used again when it is free.

| Run | Instance | Shows |
|---|---|---|
| `accounts` | one person, one agent, GitHub and Google, two overlapping requests, one state, one token, two members | `TypeOK`, `IdentitiesHold`, `SpentStaysSpent`, `SameDoor` |

Bounds: accounts of different people share no row but the office, so one person
with every door is the case that matters; two members are the least between
which a door could choose. With one state and two requests a state is offered
twice. Microsoft is handled by the handler that handles Google. Deadlock is
checked (`SweepStates` and `Crash` are always possible).

`handleLogout` drops the error of `BlacklistToken` (`handlers_auth.go:159`), although its
comment says "Blacklist the token until its natural expiry": the token it answered
for may be accepted until it expires. `SpentStaysSpent` leaves out such tokens (`kept`), until a second sign-out
stores them or they expire; it is about all that may make the other tokens and the
states pass again: two callbacks at once, ten minutes, the sweep, restarts.

What the model shows of the code. Nothing makes email addresses or names unique:
two callbacks at once make two accounts, a second registration with an email
makes an account that login never reaches (`GetMemberByEmail` takes the first), and
two provisions make two agents of one name. When the identity of a new single
sign-on member is not stored (the error is dropped, `handlers_sso.go:344`) the
next sign-in makes another member. These are the exceptions of `SameDoor`. A
member that OAuth makes has the role `user`: the workspace founded for it has no
owner.

## 9. Records

`Records.tla` models the rows that handlers read, change, write back whole and then
tell someone about: tasks, approvals, reviews, calls, items of an agent's
workspace; and uploaded files, the wake counter and billing. `row[x]` is the row in
slot `x`, `req[r]` a request with its copy, `told[x]` the copy told last, `bytes` the
files in the storage, `stripe` the checkout sessions of a workspace with their
subscriptions, `mail` the events to be delivered. `muddled` is a history variable: rows
on which requests overlapped, a step failed or an event came out of order.

* `CreateTask`, `UpdateTask`, `ReviewApproval`, `CallAnswer` ... load a copy, each
  with the guard its handler has; `WriteRow` or `WriteFails`, then `Tell`, follow.
* `Written` is what the UPDATE makes of a copy: the channel of a task and the namespace of
  an item (`Places`) are in the copy and are told, but are no columns of the UPDATE
  (`store/sqlite.go:1194`, `2889`).
* Files: `Upload; StoreFile`, `SaveFails`, `DeleteFile; RemoveFile`.
* Counter: `RecordWake; WriteMemory`, `SetMemory`, `DeleteMemory`.
* Billing: `CreateCheckout`, `StripeWebhook; WriteBilling`. A workspace may check out again
  and again (`MaxCheckouts`), whether a subscription lives or has ended; each session
  makes a customer and a subscription of its own, and the row is found by the customer
  whose start was written last. `Subscription` is Stripe's own part.
* `Cascade` is the deletion of a workspace, channel or member; `Crash` a restart.

| Run | Instance | Shows |
|---|---|---|
| `records` | one row of any table, a second one where rows must differ (items, billing); two overlapping requests, three wakes, two checkouts of one workspace | `TypeOK`, `DecisionsStand`, `ToldAsStored`, `FilesHaveBytes`, `WakesCounted`, `PlansFollowStripe` |

Bounds: rows of one table at a time (`Free`), since tables share no state. Two requests
are the least that overlap. Three wakes can be lost once and counted twice. Two
checkouts are the least of which the row can follow the wrong one; the second
workspace is there for the unique customer, and opens none (`Payers`). Deadlock is checked.

What the properties promise:

* `DecisionsStand`, `ToldAsStored`, `WakesCounted` are about any number of requests one
  after the other, with crashes, deletions and failing writes between them. Two
  reviewers at once, two updates at once and two wakes at once are `muddled`.
  `ToldAsStored` compares the columns that the UPDATE has.
* `FilesHaveBytes` leaves out a file whose bytes are gone and whose row could not be deleted.
* `PlansFollowStripe` says of a workspace whose events are all delivered that its plan is
  paid exactly while the subscription lives that its row follows. A failed write (the
  answer is 200), a start that comes after the end and two different events handled at
  once are `muddled`. Of two living subscriptions the row follows one; the end of that
  one ends the plan while the other is paid for.

What the model shows of the code. The status of an approval is checked on the
copy, so two reviewers both decide (`handlers_approval.go:97`); the result of a
review is not checked at all; an answer that comes late revives a call that was
ended. `stripe_customer_id` is stored as `''` and is `UNIQUE`: while one workspace has
a checkout that is not completed, no other can begin one. The webhook answers 200
also when it found or wrote nothing. A deleted workspace leaves its subscription
at Stripe and the bytes of its files. Uploads leave bytes behind when a step
fails. A changed channel of a task or namespace of an item is told to all and not
stored.

## 10. Proofs

Each component's theorems are in a module of their own. They hold for all values of
the constants that the module's assumption allows; the assumptions say:

| Assumption | Beyond the types of the constants |
|---|---|
| `HubAssumption`, `WorkflowAssumption` | nothing: the instances are arbitrary, also infinite |
| `DraftAssumption` | `Requests` is finite: posts are compared with a number of requests |
| `BridgeAssumption` | `Runs` is finite: `MixUpsBalance` compares numbers of runs |
| `MessagesAssumption` | `Messages` is finite (replies are counted); `"history"` is one of `Kinds`, because the edit over HTTP always inserts a row of the history |
| `AccountsAssumption` | people are not agents, states are not tokens; there is room for one member |
| `RecordsAssumption` | `Requests` is finite: a counter of wakes stays within its bound because those on their way are counted with it |

All of these hold of the server: at any time it has finitely many requests, rows and runs.

`HubProofs.tla`

* `TypeCorrect`, from `TypeInv`: besides the types, that a handler past the login
  has an identity, that `cur` and `old` are set where they are used, and that a
  membership request names a channel and a member where it uses them. The types alone
  are not inductive: `connections[id[c]]` needs an identity.
* `AgentsAgree`: `Hub.agents` is `Hub.connections` restricted to agents, whatever
  logs in, is replaced or removed.
* `OwnerInvariant`: a connection that logged in once is found only under its own
  id and name. `GoneUnreachable` alone is not inductive: `Remove` deletes by id,
  so one must know that a connection has no entry under another id.
* `RemovedStaysRemoved`, `OfflineWhenGone`, `RemovalHitsItsMember` follow from it.
* `SoleReachable`, from `SoleInv`, which adds the moments inside a handler at
  which the two sides of a subscription differ, and that a subscription whose removal
  has only its last step left was made since and is in `crossed`. It holds for any
  number of membership requests; that the hub finds agents as it finds connections is
  `AgentsAgree`.

`HeldDraftsProofs.tla`

* `TypeCorrect`, from `TypeInv`: a running request has a draft, and a draft
  without a row is only that of its inserting request.
* `DraftNotFromFuture`.
* `DraftPostsBounded`, from `CountInv`: while a draft is held its posts are exactly
  the requests that have still to mark it, and posts plus admitted requests are
  never more than there are requests. The second part is needed once the draft
  is closed and requests are still on their way.
* `DraftsImplementBox`: the refinement, one step per action.
* `DraftsSettleForGood` follows from the refinement: a closed box with no
  admitted sender stays closed and posts nothing.

`WorkflowProofs.tla`

* `TypeCorrect`: `TypeOK` is inductive as it stands.
* `OutcomeTold`, from `OutcomeInv`: besides what rows say, that an execution saves
  with steps left only after a failure or the deadline, and that an execution
  whose row has an outcome has ended; and from the lemma `RunningExplained`, the part about
  rows that say `running`, which is inductive with the types. `OtherSteps` is the frame
  lemma used for every step that is not the run's own.
* `CronRunsInTurn`, from `CronInv`: a run of a cron loop that is being executed is
  the one its loop waits for, and there are loops only after `StartCron`. The
  second part is needed because `StartCron` overwrites all loops.
* `OneLateCronRun`, from `LateInv`: the count is zero while the workflow is enabled,
  and while a loop has still to create the run for which it found it so.

`BridgeProofs.tla`

* `TypeCorrect`: `TypeOK` is inductive as it stands; its leaves are lemmas on what
  `Send`, `Push`, `Takes`, `Reads` and `Ends` make of a queue.
* `TwiceAtMost`, from `AllRuns`: the draft of a run is in one place at most, in the
  order `draft.create`, `draft.ack`, the channel, `asked` (`DraftPasses`); there is one
  wake (`WokenOnce`), one `draft.send` for a draft that was asked for and one
  `message.send` for a run that did not wait (`PostsOnce`); and what is posted was asked
  for by a frame that has been handled (`Posted`). `TwiceOnlyLate` says nothing of
  the frames on their way, which is why it is not inductive. `RunKept` is the frame
  lemma: a step that adds no frame about a run (`Fewer`) leaves its invariant alone.
* `MixUpsCancel`, from `Balanced`: as many runs were acknowledged as drafts are asked
  for. That each `TakeAck` adds a new element to both sets is `AllRuns` again; the
  equality of the two differences follows from their cardinalities.
* `SleepsInTheEnd`, from `SleepInv`: after a report either the agent is asleep and
  nothing in the queue wakes it up, or an `agent.sleep` is in the queue after
  everything that does; and before the first `auth.success` no run has begun.

`MessagesProofs.tla`

* `TypeCorrect`, from `TypeInv`: besides the types, that a request at work has a
  message and only one at `mentioning` has mentions left.
* `CountsCorrect` and `ReferencesHold`, from `RowsInv`, their conjunction with
  `TypeInv`: a message that a deletion takes away has no stored reply, so the trigger
  counts down what was counted up; and an insert finds the rows that it refers to.
* `MentionsAlwaysNoted`, from `MentionsInv`: nobody has worked on a message that is not
  there yet, so its mentions begin with its own request; and a message that is gone is
  not stored again (`Aged`).
* `ReadersAlwaysAgree`, from `ShownInv` of every message: a frame that a request has
  yet to send carries what is stored, a request that goes on editing has found the
  message stored, and nobody is at work on a message that is not there yet.
  An answer that arrives shows what is stored, or the message is astray, or a frame is
  still to come. `ShownKept` is the frame lemma for all other messages.

`AccountsProofs.tla`

* `TypeCorrect`, from `TypeOK` and `Named`, the shape of the locals of requests.
* `NothingSpentAccepted`, from `SpentInv`: besides that nothing was accepted again,
  that no state that is still fresh is spent, and no token that would validate, unless
  its sign-out failed.
* `IdentitiesCorrect`, from `LinkInv`: a request that is about to store an identity
  has found or made a row of the same person, which may be gone by then. The
  foreign key looks only whether the member exists.
* `DoorsLeadHome`, an action property, from `DoorInv`: rows are made in the order
  of their ids (`InOrder`), requests go through the steps of their door (`Ways`) and,
  unless the person is astray, with the row that a query would choose (`Tracks`), the
  last visit led to the row that the next one will (`Homes`), and an identity leads
  where the email does (`Identities`). The order is needed because a query takes the
  first row: a row that is made later does not come before it.

`RecordsProofs.tla`

* `TypeCorrect`, from `TypeInv`: besides the shape of the locals, that wakes counted
  and wakes on their way are within the bound together.
* `DecisionsFinal`, `ToldAlwaysStored`, `FilesAlwaysHaveBytes`, `WakesAlwaysCounted` and
  `PlansAlwaysFollow`, from `SlotInv` of every slot, one conjunct per kind of row: `ToldInv`
  (while a row is not muddled one request is at work on it, and what it tells has the
  content of the row), `FileInv` (the bytes are there before the row and until a
  request removes them), `MemoryInv` (the only request is one wake ahead) and
  `BillingInv`. Its part `Follows` says of every checkout (`SessionInv`) what its
  subscription at Stripe means for the events still to be delivered and for the row:
  before it begins no event and no row names it (`NotBegun`), while it lives the row that
  follows it is paid (`Lives`), and once it is over its end is still to be delivered
  or has been written (`Ended`). A step of one checkout leaves the others' alone
  (`SessionKept`). `SlotsKept` is the frame lemma for the slots a step leaves alone.

Only model-checked: the liveness properties (`ClosedExits`, `SilentConnExits`,
`HeldDraftsExpire`, `LoopEnds`, `RunsEnd`, `EveryRunEnds`, `InboxDrained`), which need
fairness and `ENABLED` and so are beyond the proof system. The two hub violations,
`DraftSentOnce` and `OutcomeRecorded` are counterexamples found by TLC.

Two things came out of the proofs. None of the arguments about `Bridge` looks at
`draft` or counts faults: its safety properties hold whatever the server drops, refuses
or executes halfway. And `TypeOK` of `Messages` fails when the table of edit histories
is left out of `Kinds`, hence the assumption.

## 11. Not modelled

* `Router`, middleware, configuration, logging, the commands and the launcher: no
  state that a property could be about, except `authenticate` (section 8). Handler
  panics end a connection as a read error does.
* The `WritePump` and its pings; the order of frames is that of the send channel, and
  a full channel is in `Bridge` and `Messages`.
* Direct messages: `CreateDM` (`store/sqlite.go`) inserts eight columns with seven values
  and always fails. The backup of the administration fails as well: its path
  is relative and refused.
* Encryption keys, webhooks, integrations and templates: single statements on rows
  nobody else touches.
* The rate limiter: a sequential function of the clock. `Allow` truncates the
  elapsed time to seconds and always moves `lastCheck` (`api/ratelimit.go:71`), which
  is listed as a hazard.
* Reads and lists, search, read marks, bookmarks, generated text.
* Names, avatars and passwords of members: `UpdateMember` writes no password, so
  `ChangePassword` answers 204 and changes nothing.

Some handlers are registered on no route of `api/router.go`: those that create, list,
change, delete and trigger workflows, the HTTP handlers of reviews, `handleReviewApproval`,
`handleGetCall`, `handleListCalls`, and those of single sign-on providers and
templates. They are modelled as they are written, as callers of the same store;
until a route exists, a workflow or a provider has to be in the database already.
Until then an approval stays pending, and a review is answered over WebSocket only.
