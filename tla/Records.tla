------------------------------ MODULE Records -------------------------------
(***************************************************************************)
(* The records beside the conversation: tasks, approvals, reviews, calls,  *)
(* the items of an agent's workspace, uploaded files, the counter of an    *)
(* agent's wakes and the billing of a workspace with its Stripe webhook    *)
(* (the handlers_*.go of api/ named below, metrics/metrics.go,             *)
(* storage/storage.go).                                                    *)
(*                                                                         *)
(* Most handlers do the same: read a row, change the copy, write the whole *)
(* copy back, tell someone.  Nothing keeps two of them from interleaving,  *)
(* and the server may stop between any two steps.  Checks that a request   *)
(* is well formed and comes from the right member guard the actions and    *)
(* are left out.                                                           *)
(***************************************************************************)
EXTENDS Integers, FiniteSets

CONSTANTS
    Rows,      \* slots for rows
    NoRowId,   \* no row
    Requests,  \* the requests that run at the same time
    Tables,    \* bound: the tables a slot may hold a row of
    Payers,    \* bound: workspaces (slots) that check out
    MaxCheckouts, \* bound: checkout sessions of a workspace
    MaxWakes   \* bound: wakes of an agent

AllTables == {"task", "approval", "review", "call", "item", "file", "memory", "billing"}

ASSUME RecordsAssumption ==
    /\ NoRowId \notin Rows
    /\ IsFiniteSet(Requests)
    /\ Tables \in [Rows -> SUBSET AllTables]
    /\ Payers \subseteq Rows
    /\ MaxCheckouts \in Nat
    /\ MaxWakes \in Nat

VARIABLES
    row,      \* the rows
    bytes,    \* files whose bytes are in the storage
    req,      \* the requests, with their locals
    told,     \* the row as it was told last (frame, notification or answer)
    stripe,   \* the checkout sessions at Stripe, and their subscriptions
    mail,     \* events that Stripe has to deliver, or to deliver again
    wakes,    \* wakes recorded for an agent since its counter was started
    muddled   \* history: rows on which two requests overlapped, a step failed, or
              \* an event came after a later one

vars == <<row, bytes, req, told, stripe, mail, wakes, muddled>>

-----------------------------------------------------------------------------

NoRow == [table |-> "none"]

\* The channel of a task, the namespace of an item
Places == {"here", "there"}

TaskRow == [table : {"task"}, status : {"todo", "in_progress", "review", "done"}, place : Places]

ApprovalRow == [table : {"approval"}, status : {"pending", "approved", "denied"}]

ReviewRow == [table : {"review"}, reviewed : BOOLEAN,
              status : {"pending", "in_review", "approved", "changes_requested", "cancelled"}]

CallRow == [table : {"call"}, status : {"ringing", "answered", "ended"}, ended : BOOLEAN]

\* The status of an item is its name, unique within its agent and namespace.
ItemRow == [table : {"item"}, status : {"notes", "plan"}, place : Places]

\* What is told of a file is that it counts as usage of the workspace (recordUsage).
FileRow == [table : {"file"}, status : {"stored"}]

\* agent_memory, key wake_count
MemoryRow == [table : {"memory"}, count : 0..(2 * MaxWakes)]

Checkouts == 1..MaxCheckouts

\* Pro and enterprise are "paid".
BillingRow == [table : {"billing"}, status : {"active", "past_due", "canceled", "trialing"},
               paid : BOOLEAN,         \* plan
               subscription : BOOLEAN, \* stripe_subscription_id
               customer : {0} \cup Checkouts]  \* stripe_customer_id, '' or made by a checkout

\* The rows that are told to others.
ToldRow == TaskRow \cup ApprovalRow \cup ReviewRow \cup CallRow \cup ItemRow \cup FileRow

RowOf == ToldRow \cup MemoryRow \cup BillingRow \cup {NoRow}

\* Every checkout makes a customer and a subscription of its own at Stripe.
Events == Checkouts \X {"completed", "updated", "deleted"}

NoEvent == <<0, "none">>

Sessions == [Checkouts -> {"none", "open", "live", "over"}]

NoCheckout == [k \in Checkouts |-> "none"]

Request == [at : {"idle",
                  "writing",   \* the UPDATE (or upsert) of the copy is next
                  "telling",   \* the frame, notification or answer
                  "storing",   \* Save is done, CreateFile is next
                  "removing"}, \* Delete is done, DeleteFile is next
            row : Rows \cup {NoRowId}, copy : RowOf, event : Events \cup {NoEvent}]

Idle == [at |-> "idle", row |-> NoRowId, copy |-> NoRow, event |-> NoEvent]

TypeOK ==
    /\ row \in [Rows -> RowOf]
    /\ bytes \subseteq Rows
    /\ req \in [Requests -> Request]
    /\ told \in [Rows -> ToldRow \cup {NoRow}]
    /\ stripe \in [Rows -> Sessions]
    /\ mail \subseteq Rows \X Events
    /\ wakes \in [Rows -> 0..MaxWakes]
    /\ muddled \subseteq Rows

Init ==
    /\ row = [x \in Rows |-> NoRow]
    /\ bytes = {}
    /\ req = [r \in Requests |-> Idle]
    /\ told = [x \in Rows |-> NoRow]
    /\ stripe = [x \in Rows |-> NoCheckout]
    /\ mail = {}
    /\ wakes = [x \in Rows |-> 0]
    /\ muddled = {}

Is(x, table) == x \in Rows /\ row[x].table = table

At(x) == {r \in Requests : req[r].row = x}

Quiet(x) == At(x) = {}

-----------------------------------------------------------------------------
\* Steps that the handlers share

\* Bound: rows of one table at a time; tables share no state.
Free(x, table) ==
    /\ row[x] = NoRow /\ Quiet(x) /\ x \notin bytes
    /\ table \in Tables[x]
    /\ \A y \in Rows : row[y].table \in {"none", table}

\* INSERT, then the handler tells of it.
Insert(r, x, first) ==
    /\ req[r] = Idle /\ Free(x, first.table)
    /\ row' = [row EXCEPT ![x] = first]
    /\ req' = [req EXCEPT ![r] = [at |-> "telling", row |-> x, copy |-> first, event |-> NoEvent]]
    /\ UNCHANGED <<bytes, told, stripe, mail, wakes, muddled>>

\* The row of x has been read; copy is what will be written.
Load(r, x, copy) ==
    /\ req[r] = Idle
    /\ req' = [req EXCEPT ![r] = [at |-> "writing", row |-> x, copy |-> copy, event |-> NoEvent]]
    /\ muddled' = IF Quiet(x) THEN muddled ELSE muddled \cup {x}
    /\ UNCHANGED <<row, bytes, told, stripe, mail, wakes>>

Done(r) == req' = [req EXCEPT ![r] = Idle]

\* Requests that may bring the row of x back when it is gone (SetMemory)
Upserts(x, requests) == \E r \in Requests : /\ requests[r].row = x
                                            /\ requests[r].copy \in MemoryRow

\* Steps of requests on the rows X failed, or were lost; req' is given.
Spoil(X) == muddled' = {x \in muddled \cup X : row[x] # NoRow \/ Upserts(x, req')}

\* The row of x goes, with what is known of it.
Forget(x) ==
    /\ row' = [row EXCEPT ![x] = NoRow]
    /\ told' = [told EXCEPT ![x] = NoRow]
    /\ stripe' = [stripe EXCEPT ![x] = NoCheckout]
    /\ mail' = {e \in mail : e[1] # x}
    /\ wakes' = [wakes EXCEPT ![x] = 0]
    /\ muddled' = IF Upserts(x, req) THEN muddled \cup {x} ELSE muddled \ {x}

\* Workspaces, channels and members go, and rows with them (ON DELETE CASCADE), but
\* not the bytes of files nor subscriptions at Stripe, whose events find no row then.
Cascade(x) ==
    /\ row[x] # NoRow /\ ~Is(x, "memory")
    /\ Forget(x)
    /\ UNCHANGED <<bytes, req>>

-----------------------------------------------------------------------------
\* Tasks

\* Mutant: the status is stored as it is given, empty.
CreateTaskBlank(r, x) == Insert(r, x, [table |-> "task", status |-> "", place |-> "here"])

CreateTask(r, x) ==
    \E p \in Places : Insert(r, x, [table |-> "task", status |-> "todo", place |-> p])

\* Any status, and any field but those that decodeAndProtect restores: the channel, too.
\* (The step of a workflow that updates a task does the same and tells nobody.)
UpdateTask(r, x) ==
    /\ Is(x, "task")
    /\ \E t \in TaskRow : Load(r, x, t)

\* No frame tells of it.
DeleteTask(x) ==
    /\ Is(x, "task")
    /\ Forget(x)
    /\ UNCHANGED <<bytes, req>>

-----------------------------------------------------------------------------
\* Approvals

\* handleCreateApproval, handleWSApprovalRequest
CreateApproval(r, x) == Insert(r, x, [table |-> "approval", status |-> "pending"])

\* Mutant: a request that was decided is decided again.
ReviewApprovalAgain(r, x) ==
    /\ Is(x, "approval")
    /\ \E s \in {"approved", "denied"} : Load(r, x, [row[x] EXCEPT !.status = s])

\* "already reviewed" is answered from the copy.
ReviewApproval(r, x) ==
    /\ Is(x, "approval") /\ row[x].status = "pending"
    /\ \E s \in {"approved", "denied"} : Load(r, x, [row[x] EXCEPT !.status = s])

-----------------------------------------------------------------------------
\* Reviews

\* handleCreateReview, handleWSReviewRequest
CreateReview(r, x) ==
    Insert(r, x, [table |-> "review", reviewed |-> FALSE, status |-> "pending"])

\* handleUpdateReview, and handleWSReviewResult for the reviewer: any status, from
\* any status; reviewed_at once set stays.
UpdateReview(r, x) ==
    /\ Is(x, "review")
    /\ \E s \in {v.status : v \in ReviewRow} :
          Load(r, x, [row[x] EXCEPT !.status = s,
                                    !.reviewed = @ \/ s \in {"approved", "changes_requested"}])

-----------------------------------------------------------------------------
\* Calls

\* handleWSCallOffer
CallOffer(r, x) == Insert(r, x, [table |-> "call", status |-> "ringing", ended |-> FALSE])

\* handleWSCallAnswer does not look at the status: it answers an ended call, too.
CallAnswer(r, x) ==
    /\ Is(x, "call")
    /\ Load(r, x, [row[x] EXCEPT !.status = "answered"])

\* handleWSCallEnd, by either side
CallEnd(r, x) ==
    /\ Is(x, "call")
    /\ Load(r, x, [row[x] EXCEPT !.status = "ended", !.ended = TRUE])

-----------------------------------------------------------------------------
\* Items of an agent's workspace

\* UNIQUE(agent_id, namespace, name)
NameTaken(x, i) == \E y \in Rows \ {x} : row[y] = i

\* handleCreateWorkspaceItem, handleWSWorkspaceUpdate
CreateItem(r, x) ==
    \E i \in ItemRow : ~NameTaken(x, i) /\ Insert(r, x, i)

\* handleUpdateWorkspaceItem, handleWSWorkspaceUpdate with an item id: any name and any
\* namespace go into the copy.
UpdateItem(r, x) ==
    /\ Is(x, "item")
    /\ \E i \in ItemRow : Load(r, x, i)

DeleteItem(x) ==
    /\ Is(x, "item")
    /\ Forget(x)
    /\ UNCHANGED <<bytes, req>>

-----------------------------------------------------------------------------
\* The step that most handlers end with

\* The columns that the UPDATE has: neither channel_id of tasks nor namespace of
\* agent_workspace is among them, though the handler goes on with what it was given.
Written(old, copy) ==
    IF copy.table \in {"task", "item"} /\ old.table = copy.table
    THEN [copy EXCEPT !.place = old.place]
    ELSE copy

\* UPDATE ... WHERE id: no error when the row is gone.
WriteRow(r) ==
    LET x == req[r].row  new == Written(row[x], req[r].copy) IN
    /\ req[r].at = "writing" /\ req[r].copy \in ToldRow
    /\ row[x] # NoRow /\ new.table = "item" => ~NameTaken(x, new)
    /\ row' = IF row[x] = NoRow THEN row ELSE [row EXCEPT ![x] = new]
    /\ req' = [req EXCEPT ![r].at = "telling"]
    /\ UNCHANGED <<bytes, told, stripe, mail, wakes, muddled>>

\* An error is answered, but an error of UpdateCall is dropped.
WriteFails(r) ==
    /\ req[r].at = "writing" /\ req[r].copy \in ToldRow
    /\ \/ /\ req[r].copy.table # "call"
          /\ Done(r)
          /\ UNCHANGED muddled
       \/ /\ req[r].copy.table = "call"
          /\ req' = [req EXCEPT ![r].at = "telling"]
          /\ Spoil({req[r].row})
    /\ UNCHANGED <<row, bytes, told, stripe, mail, wakes>>

\* Mutant: only the first of them is sent.
TellFirst(r) ==
    LET x == req[r].row IN
    /\ req[r].at = "telling"
    /\ Done(r)
    /\ told' = IF row[x] = NoRow \/ told[x] # NoRow THEN told ELSE [told EXCEPT ![x] = req[r].copy]
    /\ UNCHANGED <<row, bytes, stripe, mail, wakes, muddled>>

\* Frames to all or to the peer, the message and the notification that go with a
\* review, the answer to an agent, the count of an upload; or nothing of it arrives.
Tell(r) ==
    LET x == req[r].row IN
    /\ req[r].at = "telling"
    /\ Done(r)
    /\ \/ /\ told' = IF row[x] = NoRow THEN told ELSE [told EXCEPT ![x] = req[r].copy]
          /\ UNCHANGED muddled
       \/ Spoil({x}) /\ UNCHANGED told
    /\ UNCHANGED <<row, bytes, stripe, mail, wakes>>

-----------------------------------------------------------------------------
\* Files

\* Mutant: an error of Save is not looked at.
UploadUnsaved(r, x) ==
    /\ req[r] = Idle /\ Free(x, "file")
    /\ bytes' \in {bytes, bytes \cup {x}}
    /\ req' = [req EXCEPT ![r] = [at |-> "storing", row |-> x,
                                  copy |-> [table |-> "file", status |-> "stored"],
                                  event |-> NoEvent]]
    /\ UNCHANGED <<row, told, stripe, mail, wakes, muddled>>

\* handleUploadFile: the bytes come first.
Upload(r, x) ==
    /\ req[r] = Idle /\ Free(x, "file")
    /\ bytes' = bytes \cup {x}
    /\ req' = [req EXCEPT ![r] = [at |-> "storing", row |-> x,
                                  copy |-> [table |-> "file", status |-> "stored"],
                                  event |-> NoEvent]]
    /\ UNCHANGED <<row, told, stripe, mail, wakes, muddled>>

\* localStore.Save stops halfway and leaves what it has written.
SaveFails(x) ==
    /\ Free(x, "file")
    /\ bytes' = bytes \cup {x}
    /\ UNCHANGED <<row, req, told, stripe, mail, wakes, muddled>>

\* CreateFile; if it fails the bytes are deleted, as far as that succeeds.
StoreFile(r) ==
    LET x == req[r].row IN
    /\ req[r].at = "storing"
    /\ \/ /\ row' = [row EXCEPT ![x] = req[r].copy]
          /\ req' = [req EXCEPT ![r].at = "telling"]
          /\ UNCHANGED bytes
       \/ /\ Done(r)
          /\ bytes' \in {bytes, bytes \ {x}}
          /\ UNCHANGED row
    /\ UNCHANGED <<told, stripe, mail, wakes, muddled>>

\* handleDeleteFile: the bytes first, if they are still there.
DeleteFile(r, x) ==
    /\ req[r] = Idle /\ Is(x, "file")
    /\ bytes' = bytes \ {x}
    /\ req' = [req EXCEPT ![r] = [at |-> "removing", row |-> x, copy |-> NoRow, event |-> NoEvent]]
    /\ UNCHANGED <<row, told, stripe, mail, wakes, muddled>>

RemoveFile(r) ==
    /\ req[r].at = "removing"
    /\ Done(r)
    /\ \/ Forget(req[r].row)
       \/ Spoil({req[r].row}) /\ UNCHANGED <<row, told, stripe, mail, wakes>>
    /\ UNCHANGED bytes

-----------------------------------------------------------------------------
\* The counter of an agent's wakes

Counted(x) == IF Is(x, "memory") THEN row[x].count ELSE 0

\* Collector.RecordWake, from the callback of the hub: GetMemory
RecordWake(r, x) ==
    /\ \/ Is(x, "memory")
       \/ Free(x, "memory")
       \/ row[x] = NoRow /\ \E q \in At(x) : req[q].copy.table = "memory"
    /\ wakes[x] + Cardinality(At(x)) < MaxWakes /\ Counted(x) < 2 * MaxWakes
    /\ Load(r, x, [table |-> "memory", count |-> Counted(x) + 1])

\* Mutant: a key that is there is kept.
WriteMemoryOnce(r) ==
    LET x == req[r].row  copy == req[r].copy IN
    /\ req[r].at = "writing" /\ copy \in MemoryRow
    /\ Done(r)
    /\ \/ /\ row' = IF row[x] = NoRow THEN [row EXCEPT ![x] = copy] ELSE row
          /\ wakes' = [wakes EXCEPT ![x] = @ + 1]
          /\ muddled' = IF row[x] = NoRow /\ copy.count > 1 THEN muddled \cup {x} ELSE muddled
       \/ Spoil({}) /\ UNCHANGED <<row, wakes>>
    /\ UNCHANGED <<bytes, told, stripe, mail>>

\* SetMemory inserts or updates; it brings back a counter that was deleted meanwhile.
WriteMemory(r) ==
    LET x == req[r].row  copy == req[r].copy IN
    /\ req[r].at = "writing" /\ copy \in MemoryRow
    /\ Done(r)
    /\ \/ /\ row' = [row EXCEPT ![x] = copy]
          /\ wakes' = [wakes EXCEPT ![x] = @ + 1]
          /\ muddled' = IF row[x] = NoRow /\ copy.count > 1 THEN muddled \cup {x} ELSE muddled
       \/ Spoil({}) /\ UNCHANGED <<row, wakes>>
    /\ UNCHANGED <<bytes, told, stripe, mail>>

\* handleSetMemory: the agent writes to the key itself, what Atoi takes for 0.
SetMemory(x) ==
    /\ Is(x, "memory") \/ Free(x, "memory")
    /\ row' = [row EXCEPT ![x] = [table |-> "memory", count |-> 0]]
    /\ muddled' = muddled \cup {x}
    /\ UNCHANGED <<bytes, req, told, stripe, mail, wakes>>

\* handleDeleteMemory
DeleteMemory(x) ==
    /\ Is(x, "memory")
    /\ Forget(x)
    /\ UNCHANGED <<bytes, req>>

-----------------------------------------------------------------------------
\* Billing

\* handleCreateCheckout: the row of the workspace is made once.  The id of the
\* customer is stored as '' and is UNIQUE: one row at a time may be without one.  A
\* session is opened whether there is a subscription or not, if Stripe answers.
CreateCheckout(x) ==
    /\ \/ /\ Free(x, "billing")
          /\ \A y \in Rows : Is(y, "billing") => row[y].customer # 0
          /\ row' = [row EXCEPT ![x] = [table |-> "billing", status |-> "active", paid |-> FALSE,
                                        subscription |-> FALSE, customer |-> 0]]
       \/ Is(x, "billing") /\ UNCHANGED row
    /\ \/ UNCHANGED stripe
       \/ \E k \in Checkouts :
             /\ x \in Payers /\ stripe[x][k] = "none"
             /\ stripe' = [stripe EXCEPT ![x][k] = "open"]
    /\ UNCHANGED <<bytes, req, told, mail, wakes, muddled>>

\* The subscription of a session at Stripe: it begins with the payment, changes and ends.
Subscription(x) ==
    /\ Is(x, "billing")
    /\ \E e \in Events :
        /\ stripe[x][e[1]] = IF e[2] = "completed" THEN "open" ELSE "live"
        /\ stripe' = [stripe EXCEPT ![x][e[1]] = IF e[2] = "deleted" THEN "over" ELSE "live"]
        /\ mail' = mail \cup {<<x, e>>}
    /\ UNCHANGED <<row, bytes, req, told, wakes, muddled>>

Started(x, k) == [row[x] EXCEPT !.status = "active", !.paid = TRUE, !.subscription = TRUE,
                                !.customer = k]

\* Mutant: the end of a subscription leaves the plan.
AfterEventKeepingPlan(x, e) ==
    IF e[2] = "completed" THEN {Started(x, e[1])}
    ELSE {[row[x] EXCEPT !.status = s] : s \in {b.status : b \in BillingRow}}

\* What the webhook makes of the row.
AfterEvent(x, e) ==
    IF e[2] = "completed" THEN {Started(x, e[1])}
    ELSE IF e[2] = "updated" THEN {[row[x] EXCEPT !.status = s] : s \in {b.status : b \in BillingRow}}
    ELSE {[row[x] EXCEPT !.status = "canceled", !.paid = FALSE, !.subscription = FALSE]}

\* The start comes after the end, or while another event is being handled.
OutOfOrder(x, e) ==
    \/ e[2] = "completed" /\ stripe[x][e[1]] = "over" /\ <<x, <<e[1], "deleted">>>> \notin mail
    \/ \E q \in At(x) : req[q].event # e

\* handleStripeWebhook: the row is found by workspace at first, then by customer, which
\* is that of the checkout whose start was written last.
StripeWebhook(r, x, e) ==
    /\ req[r] = Idle /\ <<x, e>> \in mail
    /\ \/ /\ Is(x, "billing") /\ (e[2] = "completed" \/ row[x].customer = e[1])
          /\ \E copy \in AfterEvent(x, e) :
                req' = [req EXCEPT ![r] = [at |-> "writing", row |-> x, copy |-> copy, event |-> e]]
          /\ UNCHANGED mail
       \/ /\ e[2] # "completed" /\ row[x].customer # e[1]
          /\ mail' = mail \ {<<x, e>>}
          /\ UNCHANGED req
    /\ muddled' = IF OutOfOrder(x, e) THEN muddled \cup {x} ELSE muddled
    /\ UNCHANGED <<row, bytes, told, stripe, wakes>>

\* UpdateBillingCustomer.  Whether it succeeds or not the answer is 200; when the
\* answer is lost Stripe delivers the event again.
WriteBilling(r) ==
    LET x == req[r].row  e == <<x, req[r].event>> IN
    /\ req[r].at = "writing" /\ req[r].copy \in BillingRow
    /\ Done(r)
    /\ mail' \in {mail, mail \ {e}}
    /\ \/ /\ row' = IF row[x] = NoRow THEN row ELSE [row EXCEPT ![x] = req[r].copy]
          /\ UNCHANGED muddled
       \/ /\ Spoil(IF e \in mail' THEN {} ELSE {x})
          /\ UNCHANGED row
    /\ UNCHANGED <<bytes, told, stripe, wakes>>

-----------------------------------------------------------------------------

\* The server stops and starts again.
Crash ==
    /\ \E r \in Requests : req[r] # Idle
    /\ req' = [r \in Requests |-> Idle]
    /\ Spoil({req[r].row : r \in {q \in Requests : req[q].at \in {"telling", "removing"}}})
    /\ UNCHANGED <<row, bytes, told, stripe, mail, wakes>>

Next ==
    \/ \E r \in Requests, x \in Rows :
        \/ CreateTask(r, x) \/ UpdateTask(r, x)
        \/ CreateApproval(r, x) \/ ReviewApproval(r, x)
        \/ CreateReview(r, x) \/ UpdateReview(r, x)
        \/ CallOffer(r, x) \/ CallAnswer(r, x) \/ CallEnd(r, x)
        \/ CreateItem(r, x) \/ UpdateItem(r, x)
        \/ Upload(r, x) \/ DeleteFile(r, x)
        \/ RecordWake(r, x)
        \/ \E e \in Events : StripeWebhook(r, x, e)
    \/ \E r \in Requests :
        \/ WriteRow(r) \/ WriteFails(r) \/ Tell(r)
        \/ StoreFile(r) \/ RemoveFile(r) \/ WriteMemory(r) \/ WriteBilling(r)
    \/ \E x \in Rows :
        \/ DeleteTask(x) \/ DeleteItem(x) \/ DeleteMemory(x) \/ Cascade(x)
        \/ SetMemory(x) \/ SaveFails(x) \/ CreateCheckout(x) \/ Subscription(x)
    \/ Crash

Spec == Init /\ [][Next]_vars

-----------------------------------------------------------------------------
(* Properties *)

\* An agent that was told "approved" or "denied" can act on it: handleReviewApproval
\* refuses a request that is decided, so the row stays as it was told, unless two
\* reviewers had both found it pending (or the server stopped on the way).
DecisionsStand ==
    \A x \in Rows :
        Is(x, "approval") /\ x \notin muddled /\ told[x] \in ApprovalRow /\ told[x].status # "pending"
            => row[x] = told[x]

\* What the UPDATE of a row can change
Content(d) == [f \in DOMAIN d \ {"place"} |-> d[f]]

\* Whoever is told of a task, approval, review, call or item last is told what is
\* stored, in the columns that the UPDATE has, if no two requests for it overlapped and
\* no step failed: the handlers tell what they wrote, after they wrote it.  The channel
\* of a task and the namespace of an item are told as the update gave them, but stay.
ToldAsStored ==
    \A x \in Rows : row[x] \in ToldRow /\ Quiet(x) /\ x \notin muddled
                        => told[x] # NoRow /\ Content(told[x]) = Content(row[x])

\* A file that is listed can be downloaded: Save comes before CreateFile, and where
\* handleDeleteFile stopped between bytes and row it can be repeated.
FilesHaveBytes ==
    \A x \in Rows : Is(x, "file") /\ x \notin muddled
        => x \in bytes \/ \E r \in At(x) : req[r].at = "removing"

\* RecordWake loses no wake while no two of them overlap and the agent does not
\* write to the key itself.
WakesCounted ==
    \A x \in Rows : Is(x, "memory") /\ x \notin muddled => row[x].count = wakes[x]

\* A workspace has a paid plan exactly while the subscription lives whose start was
\* written last, once Stripe has nothing to deliver; without one, none lives.  Events may
\* be delivered twice, and again after a crash, but a failed write, a start after the end
\* and two events at once are not made good.  (handleCreateCheckout does not ask whether
\* a subscription lives.  Of two, the row follows one, and the end of that one ends the
\* plan.)
PlansFollowStripe ==
    \A x \in Rows : Is(x, "billing") =>
        /\ row[x].paid = row[x].subscription
        /\ Quiet(x) /\ x \notin muddled /\ (\A e \in mail : e[1] # x)
              => LET k == row[x].customer IN
                 IF k = 0 THEN ~row[x].paid /\ (\A j \in Checkouts : stripe[x][j] # "live")
                 ELSE row[x].paid <=> stripe[x][k] = "live"
=============================================================================
