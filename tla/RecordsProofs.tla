--------------------------- MODULE RecordsProofs ----------------------------
(***************************************************************************)
(* Theorems about Records, for all rows, requests, tables and workspaces   *)
(* that pay, and any number of checkouts and of wakes.                     *)
(***************************************************************************)
EXTENDS Records, FiniteSetTheorems, TLAPS

-----------------------------------------------------------------------------
\* Invariants

\* The table that a request is about.
Kind(q) == IF q.at = "removing" THEN "file" ELSE q.copy.table

Copied == {"task", "approval", "review", "call", "item"}

\* The locals of a request fit the step that it is at.
Shaped(q) ==
    /\ q.at = "idle" <=> q = Idle
    /\ q.at # "idle" => q.row \in Rows
    /\ q.at = "writing" => q.copy.table \in Copied \cup {"memory", "billing"}
    /\ q.at = "telling" => q.copy.table \in Copied \cup {"file"}
    /\ q.at = "storing" => q.copy.table = "file"
    /\ q.at = "removing" => q.copy = NoRow
    /\ q.at # "idle" /\ Kind(q) = "billing" => q.event \in Events

\* Wakes that are counted or will be.
Counting(x) == {r \in Requests : req[r].row = x /\ req[r].copy.table = "memory"}

WakesBounded == \A x \in Rows : wakes[x] + Cardinality(Counting(x)) <= MaxWakes

\* All requests for a slot are about the table of its row.
OneKind(x) ==
    /\ \A r, s \in At(x) : Kind(req[r]) = Kind(req[s])
    /\ row[x] # NoRow => \A r \in At(x) : Kind(req[r]) = row[x].table

\* Nothing is known of a row that is not there; only billing has to do with Stripe.
Unknown(x) ==
    /\ row[x] = NoRow => told[x] = NoRow /\ wakes[x] = 0
    /\ ~Is(x, "billing") => stripe[x] = NoCheckout /\ \A e \in Events : <<x, e>> \notin mail

\* What was told is that the request was approved or denied.
Decided(d) == d \in ApprovalRow /\ d.status # "pending"

\* One request at a time is at work on a row, and tells what it has written.
ToldInv(x) ==
    x \notin muddled /\ row[x].table \in Copied \cup {"file"} =>
        /\ row[x].table # "file" => \A r, s \in At(x) : r = s
        /\ \A r \in At(x) : req[r].at = "telling" => Content(req[r].copy) = Content(row[x])
        /\ (\A r \in At(x) : req[r].at # "telling")
              => told[x] # NoRow /\ Content(told[x]) = Content(row[x])
        /\ row[x].table = "approval" /\ ~Quiet(x) => ~Decided(told[x])

\* The bytes of a file are there before its row and until it is being removed.
FileInv(x) ==
    /\ \A r \in At(x) : req[r].at = "storing" => row[x] = NoRow /\ x \in bytes /\ At(x) = {r}
    /\ Is(x, "file") /\ x \notin muddled => x \in bytes \/ \E r \in At(x) : req[r].at = "removing"

\* A counter goes up by the one wake that is being recorded.
MemoryInv(x) ==
    x \notin muddled =>
        /\ \A r \in At(x) : req[r].copy.table = "memory" => At(x) = {r} /\ req[r].copy.count = wakes[x] + 1
        /\ Is(x, "memory") => row[x].count = wakes[x]

\* What the subscription of checkout k and its events make of the workspace's plan.
NotBegun(x, k) ==
    /\ row[x].customer # k
    /\ \A n \in {"completed", "updated", "deleted"} : <<x, <<k, n>>>> \notin mail
    /\ \A r \in At(x) : req[r].event[1] # k

Lives(x, k) ==
    /\ <<x, <<k, "deleted">>>> \notin mail
    /\ row[x].customer = k => row[x].paid
    /\ row[x].customer = 0 => <<x, <<k, "completed">>>> \in mail
    /\ \A r \in At(x) : req[r].event[1] = k => req[r].copy.paid

Ended(x, k) ==
    \/ <<x, <<k, "deleted">>>> \in mail
    \/ /\ row[x].customer = k => ~row[x].paid
       /\ \A r \in At(x) : req[r].event[1] = k => ~req[r].copy.paid

SessionInv(x, k) ==
    /\ stripe[x][k] \in {"none", "open"} => NotBegun(x, k)
    /\ stripe[x][k] = "live" => Lives(x, k)
    /\ stripe[x][k] = "over" => Ended(x, k)

Follows(x) ==
    /\ \A r, s \in At(x) : req[r].event = req[s].event
    /\ \A k \in Checkouts : SessionInv(x, k)

BillingInv(x) ==
    Is(x, "billing") =>
        /\ row[x].paid = row[x].subscription
        /\ row[x].customer = 0 => ~row[x].paid
        /\ \A r \in At(x) : /\ req[r].copy.paid = req[r].copy.subscription
                            /\ req[r].copy.customer = req[r].event[1]
                            /\ req[r].event[2] = "deleted" => ~req[r].copy.paid
        /\ x \notin muddled => Follows(x)

SlotInv(x) ==
    /\ OneKind(x) /\ Unknown(x) /\ ToldInv(x) /\ FileInv(x) /\ MemoryInv(x) /\ BillingInv(x)

-----------------------------------------------------------------------------
\* Types

TypeInv == TypeOK /\ (\A r \in Requests : Shaped(req[r])) /\ WakesBounded

\* The table names the kind of the row.
LEMMA TableOfRow ==
    ASSUME NEW c \in RowOf
    PROVE  /\ c.table \in AllTables \cup {"none"}
           /\ c.table = "none" <=> c = NoRow
           /\ c.table = "task" <=> c \in TaskRow
           /\ c.table = "approval" <=> c \in ApprovalRow
           /\ c.table = "review" <=> c \in ReviewRow
           /\ c.table = "call" <=> c \in CallRow
           /\ c.table = "item" <=> c \in ItemRow
           /\ c.table = "file" <=> c \in FileRow
           /\ c.table = "memory" <=> c \in MemoryRow
           /\ c.table = "billing" <=> c \in BillingRow
<1>a. \A d \in TaskRow : d.table = "task"
  BY DEF TaskRow
<1>b. \A d \in ApprovalRow : d.table = "approval"
  BY DEF ApprovalRow
<1>c. \A d \in ReviewRow : d.table = "review"
  BY DEF ReviewRow
<1>d. \A d \in CallRow : d.table = "call"
  BY DEF CallRow
<1>e. \A d \in ItemRow : d.table = "item"
  BY DEF ItemRow
<1>f. \A d \in FileRow : d.table = "file"
  BY DEF FileRow
<1>g. \A d \in MemoryRow : d.table = "memory"
  BY DEF MemoryRow
<1>h. \A d \in BillingRow : d.table = "billing"
  BY DEF BillingRow
<1>i. NoRow.table = "none"
  BY DEF NoRow
<1>2. c \in TaskRow \/ c \in ApprovalRow \/ c \in ReviewRow \/ c \in CallRow \/ c \in ItemRow
        \/ c \in FileRow \/ c \in MemoryRow \/ c \in BillingRow \/ c = NoRow
  BY DEF RowOf, ToldRow
<1> QED BY <1>a, <1>b, <1>c, <1>d, <1>e, <1>f, <1>g, <1>h, <1>i, <1>2 DEF AllTables

LEMMA ToldOfRow ==
    ASSUME NEW c \in RowOf
    PROVE  /\ c.table \in Copied \cup {"file"} <=> c \in ToldRow
           /\ c \in ToldRow => c # NoRow
<1>1. c.table \in Copied \cup {"file"} <=>
        c \in TaskRow \/ c \in ApprovalRow \/ c \in ReviewRow \/ c \in CallRow \/ c \in ItemRow
          \/ c \in FileRow
  BY TableOfRow DEF Copied
<1>2. ASSUME c \in ToldRow PROVE c.table # "none"
  BY <1>1, <1>2 DEF Copied, ToldRow
<1> QED BY <1>1, <1>2, TableOfRow DEF ToldRow

LEMMA Constants ==
    /\ Idle \in Request /\ Shaped(Idle) /\ Idle.at = "idle" /\ Idle.row = NoRowId /\ Idle.row \notin Rows
    /\ Idle.copy = NoRow /\ NoRow \in RowOf /\ NoRow.table = "none" /\ ~Decided(NoRow)
<1>1. \A d \in ApprovalRow : d.table = "approval"
  BY DEF ApprovalRow
<1>2. NoRow.table = "none"
  BY DEF NoRow
<1> QED BY <1>1, <1>2, RecordsAssumption DEF Idle, Request, Shaped, NoRow, RowOf, Kind, Decided

\* Every event is about a checkout, and checkouts are counted from one.
LEMMA EventsOfCheckouts ==
    /\ Checkouts \subseteq Nat /\ 0 \notin Checkouts /\ NoEvent \notin Events
    /\ \A e \in Events : /\ e[1] \in Checkouts /\ e[2] \in {"completed", "updated", "deleted"}
                         /\ e = <<e[1], e[2]>>
    /\ \A k \in Checkouts : \A n \in {"completed", "updated", "deleted"} : <<k, n>> \in Events
    /\ NoCheckout \in Sessions /\ \A k \in Checkouts : NoCheckout[k] = "none"
    /\ \A s \in Sessions, k \in Checkouts, n \in {"none", "open", "live", "over"} :
          [s EXCEPT ![k] = n] \in Sessions
BY RecordsAssumption DEF Checkouts, Events, NoEvent, NoCheckout, Sessions

\* Content leaves the table and the status, and all of an approval.
LEMMA ContentOf ==
    ASSUME NEW d \in ToldRow
    PROVE  /\ Content(d).status = d.status
           /\ Content(d).table = d.table
           /\ d \in ApprovalRow => Content(d) = d
<1>1. CASE d \in TaskRow
  BY <1>1 DEF Content, TaskRow, ApprovalRow
<1>2. CASE d \in ApprovalRow
  BY <1>2 DEF Content, ApprovalRow
<1>3. CASE d \in ReviewRow
  BY <1>3 DEF Content, ReviewRow, ApprovalRow
<1>4. CASE d \in CallRow
  BY <1>4 DEF Content, CallRow, ApprovalRow
<1>5. CASE d \in ItemRow
  BY <1>5 DEF Content, ItemRow, ApprovalRow
<1>6. CASE d \in FileRow
  BY <1>6 DEF Content, FileRow, ApprovalRow
<1> QED BY <1>1, <1>2, <1>3, <1>4, <1>5, <1>6 DEF ToldRow

\* What the UPDATE of a row writes is a row of the same table, and is what the request
\* has in all that Content has.
LEMMA WrittenRow ==
    ASSUME NEW old \in RowOf, NEW copy \in ToldRow
    PROVE  /\ Written(old, copy) \in ToldRow
           /\ Written(old, copy).table = copy.table
           /\ Content(Written(old, copy)) = Content(copy)
<1>1. copy \in RowOf
  BY DEF RowOf
<1>2. CASE copy.table = "task" /\ old.table = "task"
  <2>1. copy \in TaskRow /\ old \in TaskRow
    BY <1>1, <1>2, TableOfRow
  <2>2. Written(old, copy) = [copy EXCEPT !.place = old.place]
    BY <1>2 DEF Written
  <2>3. [copy EXCEPT !.place = old.place] \in TaskRow
    BY <2>1 DEF TaskRow
  <2>4. Content([copy EXCEPT !.place = old.place]) = Content(copy)
    BY <2>1 DEF Content, TaskRow
  <2> QED BY <2>1, <2>2, <2>3, <2>4 DEF TaskRow, ToldRow
<1>3. CASE copy.table = "item" /\ old.table = "item"
  <2>1. copy \in ItemRow /\ old \in ItemRow
    BY <1>1, <1>3, TableOfRow
  <2>2. Written(old, copy) = [copy EXCEPT !.place = old.place]
    BY <1>3 DEF Written
  <2>3. [copy EXCEPT !.place = old.place] \in ItemRow
    BY <2>1 DEF ItemRow
  <2>4. Content([copy EXCEPT !.place = old.place]) = Content(copy)
    BY <2>1 DEF Content, ItemRow
  <2> QED BY <2>1, <2>2, <2>3, <2>4 DEF ItemRow, ToldRow
<1>4. CASE ~(copy.table \in {"task", "item"} /\ old.table = copy.table)
  BY <1>4 DEF Written
<1> QED BY <1>2, <1>3, <1>4

\* What is written is a row of the same table.
LEMMA ChangedRow ==
    ASSUME NEW d
    PROVE  /\ \A s \in {"pending", "approved", "denied"} :
                 d \in ApprovalRow => [d EXCEPT !.status = s] \in ApprovalRow
           /\ \A s \in {v.status : v \in ReviewRow} : d \in ReviewRow =>
                 [d EXCEPT !.status = s,
                           !.reviewed = @ \/ s \in {"approved", "changes_requested"}] \in ReviewRow
           /\ d \in CallRow => /\ [d EXCEPT !.status = "answered"] \in CallRow
                               /\ [d EXCEPT !.status = "ended", !.ended = TRUE] \in CallRow
<1>1. \A s \in {v.status : v \in ReviewRow} : d \in ReviewRow =>
                 [d EXCEPT !.status = s,
                           !.reviewed = @ \/ s \in {"approved", "changes_requested"}] \in ReviewRow
  BY DEF ReviewRow
<1>2. d \in CallRow => /\ [d EXCEPT !.status = "answered"] \in CallRow
                       /\ [d EXCEPT !.status = "ended", !.ended = TRUE] \in CallRow
  BY DEF CallRow
<1>3. \A s \in {"pending", "approved", "denied"} :
                 d \in ApprovalRow => [d EXCEPT !.status = s] \in ApprovalRow
  BY DEF ApprovalRow
<1> QED BY <1>1, <1>2, <1>3

LEMMA ChangedPlan ==
    ASSUME NEW x, NEW e \in Events, row[x] \in BillingRow, NEW c \in AfterEvent(x, e)
    PROVE  /\ c \in BillingRow
           /\ e[2] = "completed" => c.paid = TRUE /\ c.subscription = TRUE /\ c.customer = e[1]
           /\ e[2] = "updated" => /\ c.paid = row[x].paid /\ c.subscription = row[x].subscription
                                  /\ c.customer = row[x].customer
           /\ e[2] = "deleted" => /\ c.paid = FALSE /\ c.subscription = FALSE
                                  /\ c.customer = row[x].customer
<1>1. e[1] \in Checkouts /\ e[2] \in {"completed", "updated", "deleted"}
  BY EventsOfCheckouts
<1>2. CASE e[2] = "completed"
  BY <1>1, <1>2 DEF AfterEvent, Started, BillingRow
<1>3. CASE e[2] = "updated"
  BY <1>3 DEF AfterEvent, BillingRow
<1>4. CASE e[2] = "deleted"
  BY <1>4 DEF AfterEvent, BillingRow
<1> QED BY <1>1, <1>2, <1>3, <1>4

-----------------------------------------------------------------------------
\* What one request does

\* One request is given new locals, and the others keep theirs.
Becomes(r, q) == req' = [req EXCEPT ![r] = q]

LEMMA RequestsKept ==
    ASSUME TypeInv, NEW r \in Requests, NEW q \in Request, Shaped(q), Becomes(r, q)
    PROVE  /\ req' \in [Requests -> Request]
           /\ \A s \in Requests : Shaped(req[s])'
           /\ req'[r] = q
           /\ \A s \in Requests \ {r} : req'[s] = req[s]
<1>1. /\ req' \in [Requests -> Request]
      /\ req'[r] = q
      /\ \A s \in Requests \ {r} : req'[s] = req[s]
  BY DEF TypeInv, TypeOK, Becomes
<1>2. ASSUME NEW s \in Requests PROVE Shaped(req[s])'
  <2>1. Shaped(req'[s])
    BY <1>1 DEF TypeInv
  <2> QED BY <2>1 DEF Shaped, Kind, Idle, NoRow
<1> QED BY <1>1, <1>2

\* The request goes on to tell.
LEMMA Telling ==
    ASSUME TypeInv, NEW r \in Requests, req[r].at # "idle", req[r].copy.table \in Copied \cup {"file"}
    PROVE  LET q == [req[r] EXCEPT !.at = "telling"] IN
           /\ q \in Request /\ Shaped(q)
           /\ q.at = "telling" /\ q.row = req[r].row /\ q.copy = req[r].copy /\ q.event = req[r].event
<1> DEFINE q == [req[r] EXCEPT !.at = "telling"]
<1>1. req[r] \in Request /\ Shaped(req[r])
  BY DEF TypeInv, TypeOK
<1>2. /\ q \in Request
      /\ q.at = "telling" /\ q.row = req[r].row /\ q.copy = req[r].copy /\ q.event = req[r].event
  BY <1>1 DEF Request
<1>3. q # Idle
  BY <1>2 DEF Idle
<1>4. Shaped(q)
  <2> HIDE DEF q
  <2> QED BY <1>1, <1>2, <1>3 DEF Shaped, Kind, Copied
<1> QED BY <1>2, <1>4

\* A request is given locals.
LEMMA Given ==
    ASSUME NEW a \in {"writing", "telling", "storing", "removing"}, NEW x \in Rows, NEW c \in RowOf,
           NEW e \in Events \cup {NoEvent},
           a = "writing" => c.table \in Copied \cup {"memory", "billing"},
           a = "telling" => c.table \in Copied \cup {"file"},
           a = "storing" => c.table = "file",
           a = "removing" => c = NoRow,
           a # "removing" /\ c.table = "billing" => e \in Events
    PROVE  LET q == [at |-> a, row |-> x, copy |-> c, event |-> e] IN
           q \in Request /\ Shaped(q)
<1> DEFINE q == [at |-> a, row |-> x, copy |-> c, event |-> e]
<1>1. q \in Request /\ q # Idle /\ q.at = a /\ q.row = x /\ q.copy = c /\ q.event = e
  BY DEF Request, Idle
<1>2. Shaped(q)
  <2> HIDE DEF q
  <2> QED BY <1>1 DEF Shaped, Kind
<1> QED BY <1>1, <1>2

\* Wakes that are counted or will be are not more than before.
LEMMA WakesKept ==
    ASSUME TypeInv, wakes' \in [Rows -> 0..MaxWakes],
           \A x \in Rows : wakes'[x] <= wakes[x] /\ Counting(x)' \subseteq Counting(x)
    PROVE  WakesBounded'
<1> SUFFICES ASSUME NEW x \in Rows
             PROVE  wakes'[x] + Cardinality(Counting(x)') <= MaxWakes
  BY DEF WakesBounded
<1>1. IsFiniteSet(Counting(x))
  BY FS_Subset, RecordsAssumption DEF Counting
<1>2. Cardinality(Counting(x)') <= Cardinality(Counting(x)) /\ IsFiniteSet(Counting(x)')
  BY <1>1, FS_Subset
<1>3. Cardinality(Counting(x)) \in Nat /\ Cardinality(Counting(x)') \in Nat
  BY <1>1, <1>2, FS_CardinalityType
<1>4. wakes[x] + Cardinality(Counting(x)) <= MaxWakes
  BY DEF TypeInv, WakesBounded
<1> QED BY <1>2, <1>3, <1>4, RecordsAssumption DEF TypeInv, TypeOK

\* A request that does not begin to count leaves the others counting.
LEMMA NoneBeginsCounting ==
    ASSUME TypeInv, NEW r \in Requests, NEW q \in Request, Shaped(q), Becomes(r, q),
           q.copy.table # "memory" \/ (q.row = req[r].row /\ q.copy = req[r].copy)
    PROVE  \A x \in Rows : Counting(x)' \subseteq Counting(x)
BY RequestsKept DEF Counting

-----------------------------------------------------------------------------
\* Types of each step

\* What is left to show of a step in which one request does something.
LEMMA TypesKept ==
    ASSUME TypeInv, NEW r \in Requests, NEW q \in Request, Shaped(q), Becomes(r, q),
           q.copy.table # "memory" \/ (q.row = req[r].row /\ q.copy = req[r].copy),
           row' \in [Rows -> RowOf], bytes' \subseteq Rows, mail' \subseteq Rows \X Events,
           told' \in [Rows -> ToldRow \cup {NoRow}],
           stripe' \in [Rows -> Sessions],
           wakes' \in [Rows -> 0..MaxWakes], \A x \in Rows : wakes'[x] <= wakes[x],
           muddled' \subseteq Rows
    PROVE  TypeInv'
<1>1. WakesBounded'
  BY NoneBeginsCounting, WakesKept
<1>2. TypeOK'
  BY RequestsKept DEF TypeOK
<1>3. (\A s \in Requests : Shaped(req[s]))'
  BY RequestsKept
<1> QED BY <1>1, <1>2, <1>3 DEF TypeInv

\* The same when no request does anything.
LEMMA TypesKeptQuietly ==
    ASSUME TypeInv, req' = req,
           row' \in [Rows -> RowOf], bytes' \subseteq Rows, mail' \subseteq Rows \X Events,
           told' \in [Rows -> ToldRow \cup {NoRow}],
           stripe' \in [Rows -> Sessions],
           wakes' \in [Rows -> 0..MaxWakes], \A x \in Rows : wakes'[x] <= wakes[x],
           muddled' \subseteq Rows
    PROVE  TypeInv'
<1>1. \A x \in Rows : Counting(x)' \subseteq Counting(x)
  BY DEF Counting
<1>2. WakesBounded'
  BY <1>1, WakesKept
<1>3. TypeOK'
  BY DEF TypeOK, TypeInv
<1>4. (\A s \in Requests : Shaped(req[s]))'
  BY DEF TypeInv, Shaped, Kind, Idle, NoRow
<1> QED BY <1>2, <1>3, <1>4 DEF TypeInv

LEMMA WakesCompare ==
    TypeInv => \A x \in Rows : wakes[x] \in Int /\ wakes[x] <= wakes[x] /\ 0 <= wakes[x]
BY RecordsAssumption DEF TypeInv, TypeOK

LEMMA InsertTypes ==
    ASSUME TypeInv, NEW r \in Requests, NEW x \in Rows, NEW first \in RowOf,
           first.table \in Copied, Insert(r, x, first)
    PROVE  TypeInv'
<1> DEFINE q == [at |-> "telling", row |-> x, copy |-> first, event |-> NoEvent]
<1>1. q \in Request /\ Shaped(q) /\ q.copy.table # "memory" /\ Becomes(r, q)
  BY Given DEF Copied, Insert, Becomes
<1>2. row' \in [Rows -> RowOf]
  BY DEF TypeInv, TypeOK, Insert
<1> HIDE DEF q
<1> QED BY <1>1, <1>2, TypesKept, WakesCompare DEF TypeInv, TypeOK, Insert

LEMMA LoadTypes ==
    ASSUME TypeInv, NEW r \in Requests, NEW x \in Rows, NEW copy \in RowOf,
           copy.table \in Copied, Load(r, x, copy)
    PROVE  TypeInv'
<1> DEFINE q == [at |-> "writing", row |-> x, copy |-> copy, event |-> NoEvent]
<1>1. q \in Request /\ Shaped(q) /\ q.copy.table # "memory" /\ Becomes(r, q)
  BY Given DEF Copied, Load, Becomes
<1> HIDE DEF q
<1> QED BY <1>1, TypesKept, WakesCompare DEF TypeInv, TypeOK, Load

LEMMA ForgetTypes ==
    ASSUME TypeInv, NEW x \in Rows, Forget(x)
    PROVE  /\ row' \in [Rows -> RowOf] /\ mail' \subseteq Rows \X Events
           /\ told' \in [Rows -> ToldRow \cup {NoRow}]
           /\ stripe' \in [Rows -> Sessions]
           /\ wakes' \in [Rows -> 0..MaxWakes] /\ \A y \in Rows : wakes'[y] <= wakes[y]
           /\ muddled' \subseteq Rows
BY Constants, EventsOfCheckouts, WakesCompare, RecordsAssumption DEF Forget, TypeInv, TypeOK

LEMMA DeleteTypes ==
    ASSUME TypeInv, NEW x \in Rows, Forget(x), UNCHANGED <<bytes, req>>
    PROVE  TypeInv'
BY ForgetTypes, TypesKeptQuietly DEF TypeInv, TypeOK

LEMMA IdleAgain ==
    ASSUME TypeInv, NEW r \in Requests, Done(r)
    PROVE  Becomes(r, Idle) /\ Idle \in Request /\ Shaped(Idle) /\ Idle.copy.table # "memory"
BY Constants DEF Done, Becomes

LEMMA SpoilTypes ==
    ASSUME TypeInv, NEW X \in SUBSET Rows, Spoil(X)
    PROVE  muddled' \subseteq Rows
BY DEF Spoil, TypeInv, TypeOK

LEMMA WriteRowTypes ==
    ASSUME TypeInv, NEW r \in Requests, WriteRow(r)
    PROVE  TypeInv'
<1>1. req[r] \in Request /\ req[r].at = "writing" /\ req[r].copy \in RowOf /\ req[r].row \in Rows
  BY DEF TypeInv, TypeOK, WriteRow, Request, Shaped
<1>2. req[r].copy.table \in Copied \cup {"file"}
  BY <1>1, ToldOfRow DEF WriteRow
<1> DEFINE q == [req[r] EXCEPT !.at = "telling"]
<1>3. /\ q \in Request /\ Shaped(q) /\ q.row = req[r].row /\ q.copy = req[r].copy /\ Becomes(r, q)
  BY <1>1, <1>2, Telling DEF WriteRow, Becomes
<1>4. Written(row[req[r].row], req[r].copy) \in RowOf
  BY <1>1, WrittenRow DEF TypeInv, TypeOK, WriteRow, RowOf
<1>5. row' \in [Rows -> RowOf]
  BY <1>1, <1>4 DEF TypeInv, TypeOK, WriteRow
<1> HIDE DEF q
<1> QED BY <1>3, <1>5, TypesKept, WakesCompare DEF TypeInv, TypeOK, WriteRow

LEMMA WriteFailsTypes ==
    ASSUME TypeInv, NEW r \in Requests, WriteFails(r)
    PROVE  TypeInv'
<1>1. req[r] \in Request /\ req[r].at = "writing" /\ req[r].copy \in RowOf /\ req[r].row \in Rows
  BY DEF TypeInv, TypeOK, WriteFails, Request, Shaped
<1>2. UNCHANGED <<row, bytes, told, stripe, mail, wakes>>
  BY DEF WriteFails
<1>3. CASE Done(r) /\ UNCHANGED muddled
  BY <1>2, <1>3, IdleAgain, TypesKept, WakesCompare DEF TypeInv, TypeOK
<1>4. CASE /\ req[r].copy.table = "call"
           /\ req' = [req EXCEPT ![r].at = "telling"]
           /\ Spoil({req[r].row})
  <2> DEFINE q == [req[r] EXCEPT !.at = "telling"]
  <2>1. /\ q \in Request /\ Shaped(q) /\ q.row = req[r].row /\ q.copy = req[r].copy /\ Becomes(r, q)
    BY <1>1, <1>4, Telling DEF Copied, Becomes
  <2>2. muddled' \subseteq Rows
    BY <1>1, <1>4, SpoilTypes
  <2> HIDE DEF q
  <2> QED BY <1>2, <2>1, <2>2, TypesKept, WakesCompare DEF TypeInv, TypeOK
<1> QED BY <1>3, <1>4 DEF WriteFails

LEMMA TellTypes ==
    ASSUME TypeInv, NEW r \in Requests, Tell(r)
    PROVE  TypeInv'
<1>1. req[r] \in Request /\ req[r].at = "telling" /\ req[r].copy \in RowOf /\ req[r].row \in Rows
         /\ req[r].copy.table \in Copied \cup {"file"}
  BY DEF TypeInv, TypeOK, Tell, Request, Shaped
<1>2. req[r].copy \in ToldRow
  BY <1>1, ToldOfRow
<1>3. told' \in [Rows -> ToldRow \cup {NoRow}]
  BY <1>2 DEF Tell, TypeInv, TypeOK
<1>4. muddled' \subseteq Rows
  <2>1. CASE UNCHANGED muddled
    BY <2>1 DEF TypeInv, TypeOK
  <2>2. CASE Spoil({req[r].row})
    BY <1>1, <2>2, SpoilTypes
  <2> QED BY <2>1, <2>2 DEF Tell
<1> QED BY <1>3, <1>4, IdleAgain, TypesKept, WakesCompare DEF TypeInv, TypeOK, Tell

LEMMA UploadTypes ==
    ASSUME TypeInv, NEW r \in Requests, NEW x \in Rows, Upload(r, x)
    PROVE  TypeInv'
<1> DEFINE file == [table |-> "file", status |-> "stored"]
           q == [at |-> "storing", row |-> x, copy |-> file, event |-> NoEvent]
<1>1. file \in RowOf /\ file.table = "file"
  BY DEF RowOf, ToldRow, FileRow
<1>2. q \in Request /\ Shaped(q) /\ q.copy.table # "memory" /\ Becomes(r, q)
  <2> HIDE DEF file
  <2>1. q \in Request /\ Shaped(q) /\ q.copy.table # "memory"
    BY <1>1, Given
  <2> QED BY <2>1 DEF Upload, Becomes, file
<1> HIDE DEF q
<1> QED BY <1>2, TypesKept, WakesCompare DEF TypeInv, TypeOK, Upload

LEMMA StoreFileTypes ==
    ASSUME TypeInv, NEW r \in Requests, StoreFile(r)
    PROVE  TypeInv'
<1>1. /\ req[r] \in Request /\ req[r].at = "storing" /\ req[r].copy \in RowOf /\ req[r].row \in Rows
      /\ req[r].copy.table = "file"
  BY DEF TypeInv, TypeOK, StoreFile, Request, Shaped
<1>2. UNCHANGED <<told, stripe, mail, wakes, muddled>>
  BY DEF StoreFile
<1>3. CASE Done(r) /\ bytes' \in {bytes, bytes \ {req[r].row}} /\ UNCHANGED row
  BY <1>2, <1>3, IdleAgain, TypesKept, WakesCompare DEF TypeInv, TypeOK
<1>4. CASE /\ row' = [row EXCEPT ![req[r].row] = req[r].copy]
           /\ req' = [req EXCEPT ![r].at = "telling"]
           /\ UNCHANGED bytes
  <2> DEFINE q == [req[r] EXCEPT !.at = "telling"]
  <2>1. /\ q \in Request /\ Shaped(q) /\ q.row = req[r].row /\ q.copy = req[r].copy /\ Becomes(r, q)
    BY <1>1, <1>4, Telling DEF Becomes
  <2>2. row' \in [Rows -> RowOf]
    BY <1>1, <1>4 DEF TypeInv, TypeOK
  <2> HIDE DEF q
  <2> QED BY <1>2, <1>4, <2>1, <2>2, TypesKept, WakesCompare DEF TypeInv, TypeOK
<1> QED BY <1>3, <1>4 DEF StoreFile

LEMMA DeleteFileTypes ==
    ASSUME TypeInv, NEW r \in Requests, NEW x \in Rows, DeleteFile(r, x)
    PROVE  TypeInv'
<1> DEFINE q == [at |-> "removing", row |-> x, copy |-> NoRow, event |-> NoEvent]
<1>1. q \in Request /\ Shaped(q) /\ q.copy.table # "memory" /\ Becomes(r, q)
  BY Constants, Given DEF DeleteFile, Becomes
<1> HIDE DEF q
<1> QED BY <1>1, TypesKept, WakesCompare DEF TypeInv, TypeOK, DeleteFile

LEMMA RemoveFileTypes ==
    ASSUME TypeInv, NEW r \in Requests, RemoveFile(r)
    PROVE  TypeInv'
<1>1. req[r].row \in Rows
  BY DEF TypeInv, RemoveFile, Shaped
<1>2. /\ row' \in [Rows -> RowOf] /\ mail' \subseteq Rows \X Events
      /\ told' \in [Rows -> ToldRow \cup {NoRow}]
      /\ stripe' \in [Rows -> Sessions]
      /\ wakes' \in [Rows -> 0..MaxWakes] /\ \A y \in Rows : wakes'[y] <= wakes[y]
      /\ muddled' \subseteq Rows
  <2>1. CASE Forget(req[r].row)
    BY <1>1, <2>1, ForgetTypes
  <2>2. CASE Spoil({req[r].row}) /\ UNCHANGED <<row, told, stripe, mail, wakes>>
    BY <1>1, <2>2, SpoilTypes, WakesCompare DEF TypeInv, TypeOK
  <2> QED BY <2>1, <2>2 DEF RemoveFile
<1>3. Done(r) /\ UNCHANGED bytes
  BY DEF RemoveFile
<1> QED BY <1>2, <1>3, IdleAgain, TypesKept DEF TypeInv, TypeOK

\* A wake begins to count only while there is room for one more.
LEMMA RecordWakeTypes ==
    ASSUME TypeInv, NEW r \in Requests, NEW x \in Rows, RecordWake(r, x)
    PROVE  /\ TypeInv'
           /\ [table |-> "memory", count |-> Counted(x) + 1] \in MemoryRow
<1> DEFINE copy == [table |-> "memory", count |-> Counted(x) + 1]
           q == [at |-> "writing", row |-> x, copy |-> copy, event |-> NoEvent]
<1>1. Counted(x) \in 0..(2 * MaxWakes) /\ Counted(x) < 2 * MaxWakes
  <2>1. CASE Is(x, "memory")
    <3>1. row[x] \in MemoryRow
      BY <2>1, TableOfRow DEF Is, TypeInv, TypeOK
    <3> QED BY <2>1, <3>1 DEF Counted, MemoryRow, RecordWake
  <2>2. CASE ~Is(x, "memory")
    BY <2>2, RecordsAssumption DEF Counted, RecordWake
  <2> QED BY <2>1, <2>2
<1>2. copy \in MemoryRow /\ copy \in RowOf /\ copy.table = "memory"
  <2>1. copy \in MemoryRow
    BY <1>1, RecordsAssumption DEF MemoryRow
  <2> QED BY <2>1 DEF RowOf
<1> HIDE DEF copy
<1>3. q \in Request /\ Shaped(q) /\ q.row = x /\ q.copy = copy
  BY <1>2, Given
<1>4. Becomes(r, q)
  BY DEF RecordWake, Load, Becomes, copy
<1> HIDE DEF q
<1>5. /\ req[r].row = NoRowId /\ req'[r] = q /\ \A s \in Requests \ {r} : req'[s] = req[s]
      /\ req' \in [Requests -> Request] /\ (\A s \in Requests : Shaped(req[s])')
  BY <1>3, <1>4, RequestsKept DEF RecordWake, Load, Idle
<1>6. UNCHANGED <<row, bytes, told, stripe, mail, wakes>> /\ muddled' \subseteq Rows
  BY DEF RecordWake, Load, TypeInv, TypeOK
<1>7. ASSUME NEW y \in Rows PROVE wakes'[y] + Cardinality(Counting(y)') <= MaxWakes
  <2>1. CASE y # x
    <3>1. Counting(y)' = Counting(y)
      BY <1>3, <1>5, <2>1, RecordsAssumption DEF Counting
    <3> QED BY <1>6, <3>1 DEF TypeInv, WakesBounded
  <2>2. CASE y = x
    <3>1. Counting(x)' \subseteq At(x) \cup {r} /\ r \notin At(x)
      BY <1>3, <1>5, RecordsAssumption DEF Counting, At
    <3>2. IsFiniteSet(At(x))
      BY FS_Subset, RecordsAssumption DEF At
    <3>3. Cardinality(At(x) \cup {r}) = Cardinality(At(x)) + 1 /\ IsFiniteSet(At(x) \cup {r})
      BY <3>1, <3>2, FS_AddElement
    <3>4. Cardinality(Counting(x)') <= Cardinality(At(x)) + 1 /\ IsFiniteSet(Counting(x)')
      BY <3>1, <3>3, FS_Subset
    <3>5. Cardinality(At(x)) \in Nat /\ Cardinality(Counting(x)') \in Nat
      BY <3>2, <3>4, FS_CardinalityType
    <3>6. wakes[x] + Cardinality(At(x)) < MaxWakes
      BY DEF RecordWake
    <3> QED BY <1>6, <2>2, <3>4, <3>5, <3>6, WakesCompare, RecordsAssumption
  <2> QED BY <2>1, <2>2
<1>8. WakesBounded'
  BY <1>7 DEF WakesBounded
<1>9. TypeOK'
  BY <1>5, <1>6 DEF TypeOK, TypeInv
<1> QED BY <1>2, <1>5, <1>8, <1>9 DEF TypeInv, copy

LEMMA WriteMemoryTypes ==
    ASSUME TypeInv, NEW r \in Requests, WriteMemory(r)
    PROVE  TypeInv'
<1>1. /\ req[r] \in Request /\ req[r].at = "writing" /\ req[r].copy \in RowOf /\ req[r].row \in Rows
      /\ req[r].copy \in MemoryRow /\ req[r].copy.table = "memory"
  BY DEF TypeInv, TypeOK, WriteMemory, Request, Shaped, MemoryRow
<1>2. Done(r) /\ UNCHANGED <<bytes, told, stripe, mail>>
  BY DEF WriteMemory
<1>3. CASE Spoil({}) /\ UNCHANGED <<row, wakes>>
  <2>1. muddled' \subseteq Rows
    BY <1>3, SpoilTypes
  <2> QED BY <1>2, <1>3, <2>1, IdleAgain, TypesKept, WakesCompare DEF TypeInv, TypeOK
<1>4. CASE /\ row' = [row EXCEPT ![req[r].row] = req[r].copy]
           /\ wakes' = [wakes EXCEPT ![req[r].row] = @ + 1]
           /\ muddled' = IF row[req[r].row] = NoRow /\ req[r].copy.count > 1
                         THEN muddled \cup {req[r].row} ELSE muddled
  <2> PICK x \in Rows : x = req[r].row
    BY <1>1
  <2>1. /\ req'[r] = Idle /\ \A s \in Requests \ {r} : req'[s] = req[s]
        /\ req' \in [Requests -> Request] /\ (\A s \in Requests : Shaped(req[s])')
    BY <1>2, IdleAgain, RequestsKept
  <2>2. \A y \in Rows : IsFiniteSet(Counting(y)) /\ Cardinality(Counting(y)) \in Nat
    BY FS_Subset, FS_CardinalityType, RecordsAssumption DEF Counting
  <2>3. \A y \in Rows \ {x} : Counting(y)' = Counting(y) /\ wakes'[y] = wakes[y]
    BY <1>1, <1>4, <2>1, Constants DEF Counting, TypeInv, TypeOK
  <2>4. Counting(x)' = Counting(x) \ {r} /\ r \in Counting(x) /\ wakes'[x] = wakes[x] + 1
    BY <1>1, <1>4, <2>1, Constants DEF Counting, TypeInv, TypeOK
  <2>5. Cardinality(Counting(x)') = Cardinality(Counting(x)) - 1
    BY <2>2, <2>4, FS_RemoveElement
  <2>6. WakesBounded'
    <3> SUFFICES ASSUME NEW y \in Rows PROVE wakes'[y] + Cardinality(Counting(y)') <= MaxWakes
      BY DEF WakesBounded
    <3>1. wakes[y] + Cardinality(Counting(y)) <= MaxWakes
      BY DEF TypeInv, WakesBounded
    <3>2. CASE y # x
      BY <2>3, <3>1, <3>2
    <3>3. CASE y = x
      <4>1. MaxWakes \in Int /\ wakes[x] \in Int /\ Cardinality(Counting(x)) \in Int
        BY <2>2, WakesCompare, RecordsAssumption
      <4>2. wakes'[x] = wakes[x] + 1 /\ Cardinality(Counting(x)') = Cardinality(Counting(x)) - 1
        BY <2>4, <2>5
      <4> QED BY <3>1, <3>3, <4>1, <4>2
    <3> QED BY <3>2, <3>3
  <2>7. wakes[x] + 1 \in 0..MaxWakes
    <3>1. wakes[x] + Cardinality(Counting(x)) <= MaxWakes
      BY DEF TypeInv, WakesBounded
    <3>2. Cardinality(Counting(x)) # 0
      BY <2>2, <2>4, FS_EmptySet
    <3> QED BY <2>2, <3>1, <3>2, WakesCompare, RecordsAssumption
  <2>8. TypeOK'
    BY <1>1, <1>2, <1>4, <2>1, <2>7 DEF TypeOK, TypeInv
  <2> QED BY <2>1, <2>6, <2>8 DEF TypeInv
<1> QED BY <1>3, <1>4 DEF WriteMemory

LEMMA StripeWebhookTypes ==
    ASSUME TypeInv, NEW r \in Requests, NEW x \in Rows, NEW e \in Events, StripeWebhook(r, x, e)
    PROVE  TypeInv'
<1>1. UNCHANGED <<row, bytes, told, stripe, wakes>>
  BY DEF StripeWebhook
<1>2. muddled' \subseteq Rows
  BY DEF StripeWebhook, TypeInv, TypeOK
<1>3. CASE UNCHANGED req /\ mail' = mail \ {<<x, e>>}
  BY <1>1, <1>2, <1>3, TypesKeptQuietly, WakesCompare DEF TypeInv, TypeOK
<1>4. CASE /\ Is(x, "billing") /\ (e[2] = "completed" \/ row[x].customer = e[1])
           /\ \E copy \in AfterEvent(x, e) :
                req' = [req EXCEPT ![r] = [at |-> "writing", row |-> x, copy |-> copy, event |-> e]]
           /\ UNCHANGED mail
  <2>1. PICK copy \in AfterEvent(x, e) :
          req' = [req EXCEPT ![r] = [at |-> "writing", row |-> x, copy |-> copy, event |-> e]]
    BY <1>4
  <2>2. row[x] \in BillingRow
    BY <1>4, TableOfRow DEF Is, TypeInv, TypeOK
  <2>3. copy \in RowOf /\ copy.table = "billing"
    <3>1. copy \in BillingRow
      BY <2>2, ChangedPlan
    <3>2. copy \in RowOf
      BY <3>1 DEF RowOf
    <3> QED BY <3>1, <3>2, TableOfRow
  <2> DEFINE q == [at |-> "writing", row |-> x, copy |-> copy, event |-> e]
  <2>4. q \in Request /\ Shaped(q) /\ q.copy.table # "memory" /\ Becomes(r, q)
    BY <2>1, <2>3, Given DEF Becomes
  <2> HIDE DEF q
  <2> QED BY <1>1, <1>2, <1>4, <2>4, TypesKept, WakesCompare DEF TypeInv, TypeOK
<1> QED BY <1>3, <1>4 DEF StripeWebhook

LEMMA WriteBillingTypes ==
    ASSUME TypeInv, NEW r \in Requests, WriteBilling(r)
    PROVE  TypeInv'
<1>1. req[r].row \in Rows /\ req[r].copy \in RowOf
  BY DEF TypeInv, TypeOK, WriteBilling, Request, Shaped
<1>2. Done(r) /\ UNCHANGED <<bytes, told, stripe, wakes>> /\ mail' \subseteq Rows \X Events
  BY DEF WriteBilling, TypeInv, TypeOK
<1>3. row' \in [Rows -> RowOf]
  BY <1>1 DEF WriteBilling, TypeInv, TypeOK
<1>4. muddled' \subseteq Rows
  BY <1>1, SpoilTypes DEF WriteBilling, TypeInv, TypeOK
<1> QED BY <1>2, <1>3, <1>4, IdleAgain, TypesKept, WakesCompare DEF TypeInv, TypeOK

LEMMA CrashTypes ==
    ASSUME TypeInv, Crash
    PROVE  TypeInv'
<1>1. \A s \in Requests : req'[s] = Idle
  BY DEF Crash
<1>2. req' \in [Requests -> Request] /\ \A s \in Requests : Shaped(req[s])'
  <2>1. \A s \in Requests : Shaped(req'[s])
    BY <1>1, Constants
  <2>2. \A s \in Requests : Shaped(req[s])'
    BY <2>1 DEF Shaped, Kind, Idle, NoRow
  <2> QED BY <2>2, Constants DEF Crash
<1>3. \A x \in Rows : Counting(x)' \subseteq Counting(x)
  BY <1>1, Constants DEF Counting
<1>4. muddled' \subseteq Rows
  <2>1. \A q \in Requests : req[q].at \in {"telling", "removing"} => req[q].row \in Rows
    BY DEF TypeInv, Shaped
  <2> QED BY <2>1 DEF Crash, Spoil, TypeInv, TypeOK
<1>5. UNCHANGED <<row, bytes, told, stripe, mail, wakes>>
  BY DEF Crash
<1>6. WakesBounded'
  BY <1>3, <1>5, WakesKept, WakesCompare DEF TypeInv, TypeOK
<1>7. TypeOK'
  BY <1>2, <1>4, <1>5 DEF TypeInv, TypeOK
<1> QED BY <1>2, <1>6, <1>7 DEF TypeInv

LEMMA SetMemoryTypes ==
    ASSUME TypeInv, NEW x \in Rows, SetMemory(x)
    PROVE  TypeInv'
<1>1. [table |-> "memory", count |-> 0] \in RowOf
  BY RecordsAssumption DEF RowOf, MemoryRow
<1> QED BY <1>1, TypesKeptQuietly, WakesCompare DEF SetMemory, TypeInv, TypeOK

LEMMA CreateCheckoutTypes ==
    ASSUME TypeInv, NEW x \in Rows, CreateCheckout(x)
    PROVE  TypeInv'
<1> DEFINE first == [table |-> "billing", status |-> "active", paid |-> FALSE,
                     subscription |-> FALSE, customer |-> 0]
<1>1. first \in RowOf
  BY DEF RowOf, BillingRow
<1>2. row' = [row EXCEPT ![x] = first] \/ row' = row
  BY DEF CreateCheckout
<1> HIDE DEF first
<1>3. row' \in [Rows -> RowOf]
  BY <1>1, <1>2 DEF TypeInv, TypeOK
<1>4. stripe' \in [Rows -> Sessions]
  <2>1. CASE UNCHANGED stripe
    BY <2>1 DEF TypeInv, TypeOK
  <2>2. CASE \E k \in Checkouts : stripe' = [stripe EXCEPT ![x][k] = "open"]
    <3>1. PICK k \in Checkouts : stripe' = [stripe EXCEPT ![x][k] = "open"]
      BY <2>2
    <3>2. [stripe[x] EXCEPT ![k] = "open"] \in Sessions
      BY EventsOfCheckouts DEF TypeInv, TypeOK
    <3> QED BY <3>1, <3>2 DEF TypeInv, TypeOK
  <2> QED BY <2>1, <2>2 DEF CreateCheckout
<1>5. UNCHANGED <<bytes, req, told, mail, wakes, muddled>>
  BY DEF CreateCheckout
<1> QED BY <1>3, <1>4, <1>5, TypesKeptQuietly, WakesCompare DEF TypeInv, TypeOK

LEMMA SubscriptionTypes ==
    ASSUME TypeInv, NEW x \in Rows, Subscription(x)
    PROVE  TypeInv'
<1>1. PICK e \in Events :
        /\ stripe' = [stripe EXCEPT ![x][e[1]] = IF e[2] = "deleted" THEN "over" ELSE "live"]
        /\ mail' = mail \cup {<<x, e>>}
  BY DEF Subscription
<1>2. stripe' \in [Rows -> Sessions]
  BY <1>1, EventsOfCheckouts DEF TypeInv, TypeOK
<1>3. UNCHANGED <<row, bytes, req, told, wakes, muddled>>
  BY DEF Subscription
<1> QED BY <1>1, <1>2, <1>3, TypesKeptQuietly, WakesCompare DEF TypeInv, TypeOK

\* The rows that are inserted, by table.
LEMMA FirstRow ==
    /\ \A p \in Places : [table |-> "task", status |-> "todo", place |-> p] \in TaskRow
    /\ [table |-> "approval", status |-> "pending"] \in ApprovalRow
    /\ [table |-> "review", reviewed |-> FALSE, status |-> "pending"] \in ReviewRow
    /\ [table |-> "call", status |-> "ringing", ended |-> FALSE] \in CallRow
BY DEF TaskRow, ApprovalRow, ReviewRow, CallRow

\* Every insertion that is told of is an Insert of such a row.
LEMMA Inserts ==
    ASSUME NEW r, NEW x,
           CreateTask(r, x) \/ CreateApproval(r, x) \/ CreateReview(r, x) \/ CallOffer(r, x)
             \/ CreateItem(r, x)
    PROVE  \E first \in RowOf : first.table \in Copied /\ Insert(r, x, first)
<1>1. \A d \in TaskRow \cup ApprovalRow \cup ReviewRow \cup CallRow \cup ItemRow :
        d \in RowOf /\ d.table \in Copied
  BY DEF RowOf, ToldRow, TaskRow, ApprovalRow, ReviewRow, CallRow, ItemRow, Copied
<1>2. CASE CreateTask(r, x)
  BY <1>1, <1>2, FirstRow DEF CreateTask
<1>3. CASE CreateApproval(r, x)
  BY <1>1, <1>3, FirstRow DEF CreateApproval
<1>4. CASE CreateReview(r, x)
  BY <1>1, <1>4, FirstRow DEF CreateReview
<1>5. CASE CallOffer(r, x)
  BY <1>1, <1>5, FirstRow DEF CallOffer
<1>6. CASE CreateItem(r, x)
  BY <1>1, <1>6 DEF CreateItem
<1> QED BY <1>2, <1>3, <1>4, <1>5, <1>6

\* Every handler that changes a row that is told of reads it first, and an approval
\* only while it is pending.
LEMMA Loads ==
    ASSUME TypeInv, NEW r \in Requests, NEW x \in Rows,
           UpdateTask(r, x) \/ ReviewApproval(r, x) \/ UpdateReview(r, x) \/ CallAnswer(r, x)
             \/ CallEnd(r, x) \/ UpdateItem(r, x)
    PROVE  \E copy \in RowOf : /\ copy.table \in Copied /\ row[x].table = copy.table
                               /\ copy.table = "approval" => row[x].status = "pending"
                               /\ Load(r, x, copy)
<1>1. row[x] \in RowOf
  BY DEF TypeInv, TypeOK
<1>2. CASE UpdateTask(r, x)
  <2>1. PICK t \in TaskRow : Load(r, x, t)
    BY <1>2 DEF UpdateTask
  <2>2. t \in RowOf /\ t.table = "task"
    BY DEF RowOf, ToldRow, TaskRow
  <2> QED BY <1>2, <2>1, <2>2 DEF UpdateTask, Is, Copied
<1>3. CASE ReviewApproval(r, x)
  <2>1. PICK s \in {"approved", "denied"} : Load(r, x, [row[x] EXCEPT !.status = s])
    BY <1>3 DEF ReviewApproval
  <2>2. [row[x] EXCEPT !.status = s] \in ApprovalRow
    BY <1>1, <1>3, TableOfRow, ChangedRow DEF ReviewApproval, Is
  <2>3. [row[x] EXCEPT !.status = s] \in RowOf
    BY <2>2 DEF RowOf, ToldRow
  <2>4. [row[x] EXCEPT !.status = s].table = "approval"
    BY <2>2 DEF ApprovalRow
  <2> QED BY <1>3, <2>1, <2>3, <2>4 DEF ReviewApproval, Is, Copied
<1>4. CASE UpdateReview(r, x)
  <2>1. PICK s \in {v.status : v \in ReviewRow} :
          Load(r, x, [row[x] EXCEPT !.status = s,
                                    !.reviewed = @ \/ s \in {"approved", "changes_requested"}])
    BY <1>4 DEF UpdateReview
  <2> DEFINE copy == [row[x] EXCEPT !.status = s,
                                    !.reviewed = @ \/ s \in {"approved", "changes_requested"}]
  <2>2. copy \in ReviewRow
    BY <1>1, <1>4, TableOfRow, ChangedRow DEF UpdateReview, Is
  <2>3. Load(r, x, copy)
    BY <2>1
  <2> HIDE DEF copy
  <2>4. copy \in RowOf /\ copy.table = "review"
    BY <2>2 DEF RowOf, ToldRow, ReviewRow
  <2> QED BY <1>4, <2>3, <2>4 DEF UpdateReview, Is, Copied
<1>5. CASE CallAnswer(r, x)
  <2> DEFINE copy == [row[x] EXCEPT !.status = "answered"]
  <2>1. copy \in CallRow /\ Load(r, x, copy)
    BY <1>1, <1>5, TableOfRow, ChangedRow DEF CallAnswer, Is
  <2> HIDE DEF copy
  <2>2. copy \in RowOf /\ copy.table = "call"
    BY <2>1 DEF RowOf, ToldRow, CallRow
  <2> QED BY <1>5, <2>1, <2>2 DEF CallAnswer, Is, Copied
<1>6. CASE CallEnd(r, x)
  <2> DEFINE copy == [row[x] EXCEPT !.status = "ended", !.ended = TRUE]
  <2>1. copy \in CallRow /\ Load(r, x, copy)
    BY <1>1, <1>6, TableOfRow, ChangedRow DEF CallEnd, Is
  <2> HIDE DEF copy
  <2>2. copy \in RowOf /\ copy.table = "call"
    BY <2>1 DEF RowOf, ToldRow, CallRow
  <2> QED BY <1>6, <2>1, <2>2 DEF CallEnd, Is, Copied
<1>7. CASE UpdateItem(r, x)
  <2>1. PICK i \in ItemRow : Load(r, x, i)
    BY <1>7 DEF UpdateItem
  <2>2. i \in RowOf /\ i.table = "item"
    BY DEF RowOf, ToldRow, ItemRow
  <2> QED BY <1>7, <2>1, <2>2 DEF UpdateItem, Is, Copied
<1> QED BY <1>2, <1>3, <1>4, <1>5, <1>6, <1>7

\* Rows go together with all that is known of them.
LEMMA Deletes ==
    ASSUME NEW x, DeleteTask(x) \/ DeleteItem(x) \/ DeleteMemory(x) \/ Cascade(x)
    PROVE  Forget(x) /\ UNCHANGED <<bytes, req>>
BY DEF DeleteTask, DeleteItem, DeleteMemory, Cascade

LEMMA SaveFailsTypes ==
    ASSUME TypeInv, NEW x \in Rows, SaveFails(x)
    PROVE  TypeInv'
BY TypesKeptQuietly, WakesCompare DEF SaveFails, TypeInv, TypeOK

LEMMA TypesBegin == Init => TypeInv
<1> SUFFICES ASSUME Init PROVE TypeInv
  OBVIOUS
<1>1. TypeOK
  BY Constants, EventsOfCheckouts, RecordsAssumption DEF Init, TypeOK
<1>2. \A r \in Requests : Shaped(req[r])
  BY Constants DEF Init
<1>3. \A x \in Rows : Counting(x) = {}
  BY Constants DEF Init, Counting
<1>4. WakesBounded
  <2>1. MaxWakes \in Nat
    BY RecordsAssumption
  <2>2. \A x \in Rows : wakes[x] = 0 /\ Cardinality(Counting(x)) = 0
    BY <1>3, FS_EmptySet DEF Init
  <2> QED BY <2>1, <2>2 DEF WakesBounded
<1> QED BY <1>1, <1>2, <1>4 DEF TypeInv

LEMMA TypesStep == TypeInv /\ [Next]_vars => TypeInv'
<1> SUFFICES ASSUME TypeInv, [Next]_vars PROVE TypeInv'
  OBVIOUS
<1>1. ASSUME NEW r \in Requests, NEW x \in Rows,
             CreateTask(r, x) \/ CreateApproval(r, x) \/ CreateReview(r, x) \/ CallOffer(r, x)
               \/ CreateItem(r, x)
      PROVE  TypeInv'
  BY <1>1, Inserts, InsertTypes
<1>2. ASSUME NEW r \in Requests, NEW x \in Rows,
             UpdateTask(r, x) \/ ReviewApproval(r, x) \/ UpdateReview(r, x) \/ CallAnswer(r, x)
               \/ CallEnd(r, x) \/ UpdateItem(r, x)
      PROVE  TypeInv'
  BY <1>2, Loads, LoadTypes
<1>3. ASSUME NEW r \in Requests, NEW x \in Rows,
             Upload(r, x) \/ DeleteFile(r, x) \/ RecordWake(r, x)
               \/ \E e \in Events : StripeWebhook(r, x, e)
      PROVE  TypeInv'
  BY <1>3, UploadTypes, DeleteFileTypes, RecordWakeTypes, StripeWebhookTypes
<1>4. ASSUME NEW r \in Requests,
             \/ WriteRow(r) \/ WriteFails(r) \/ Tell(r)
             \/ StoreFile(r) \/ RemoveFile(r) \/ WriteMemory(r) \/ WriteBilling(r)
      PROVE  TypeInv'
  BY <1>4, WriteRowTypes, WriteFailsTypes, TellTypes, StoreFileTypes, RemoveFileTypes,
     WriteMemoryTypes, WriteBillingTypes
<1>5. ASSUME NEW x \in Rows, DeleteTask(x) \/ DeleteItem(x) \/ DeleteMemory(x) \/ Cascade(x)
      PROVE  TypeInv'
  BY <1>5, Deletes, DeleteTypes
<1>6. ASSUME NEW x \in Rows, SetMemory(x) \/ SaveFails(x) \/ CreateCheckout(x) \/ Subscription(x)
      PROVE  TypeInv'
  BY <1>6, SetMemoryTypes, SaveFailsTypes, CreateCheckoutTypes, SubscriptionTypes
<1>7. CASE UNCHANGED vars
  BY <1>7, TypesKeptQuietly, WakesCompare DEF vars, TypeInv, TypeOK
<1> QED BY <1>1, <1>2, <1>3, <1>4, <1>5, <1>6, <1>7, CrashTypes DEF Next

\* The rows are what the INSERTs and UPDATEs of the handlers put there, a counter of
\* wakes never counts beyond its bound, and a request that is at work has a row
\* (handlers_*.go of api/, metrics.go).
THEOREM TypeCorrect == Spec => []TypeOK
<1>1. TypeInv => TypeOK
  BY DEF TypeInv
<1> QED BY <1>1, TypesBegin, TypesStep, PTL DEF Spec

-----------------------------------------------------------------------------
\* Slots that a step leaves alone

Slots == \A x \in Rows : SlotInv(x)

\* Nothing happens to the slot y; a row that is not there may stop being muddled.
LeftAlone(y) ==
    /\ row'[y] = row[y] /\ told'[y] = told[y] /\ stripe'[y] = stripe[y] /\ wakes'[y] = wakes[y]
    /\ y \in bytes' <=> y \in bytes
    /\ \A e \in Events : <<y, e>> \in mail' <=> <<y, e>> \in mail
    /\ \A r \in Requests : req'[r] = req[r] \/ (req'[r].row # y /\ req[r].row # y)
    /\ y \notin muddled' =>
         y \notin muddled \/ (row[y] = NoRow /\ \A r \in At(y) : req[r].copy.table # "memory")

Only(x) == \A y \in Rows \ {x} : LeftAlone(y)

\* A subscription whose events stay as they are, while requests only go.
LEMMA SessionKept ==
    ASSUME NEW x \in Rows, NEW k \in Checkouts, SessionInv(x, k),
           row'[x] = row[x], stripe'[x][k] = stripe[x][k],
           \A n \in {"completed", "updated", "deleted"} :
              <<x, <<k, n>>>> \in mail' => <<x, <<k, n>>>> \in mail,
           \A n \in {"completed", "deleted"} : <<x, <<k, n>>>> \in mail => <<x, <<k, n>>>> \in mail',
           \A s \in Requests : s \in At(x)' => s \in At(x) /\ req'[s] = req[s]
    PROVE  SessionInv(x, k)'
<1>1. \A s \in At(x)' : s \in At(x) /\ req'[s] = req[s]
  BY DEF At
<1>2. NotBegun(x, k) => NotBegun(x, k)'
  BY <1>1 DEF NotBegun
<1>3. Lives(x, k) => Lives(x, k)'
  BY <1>1 DEF Lives
<1>4. Ended(x, k) => Ended(x, k)'
  BY <1>1 DEF Ended
<1> QED BY <1>2, <1>3, <1>4 DEF SessionInv

LEMMA SlotLeftAlone ==
    ASSUME NEW y \in Rows, SlotInv(y), LeftAlone(y)
    PROVE  SlotInv(y)'
<1>0. /\ \A r \in Requests : r \in At(y)' <=> r \in At(y)
      /\ \A r \in At(y) : req'[r] = req[r]
  BY DEF LeftAlone, At
<1>1. OneKind(y)'
  BY <1>0 DEF SlotInv, LeftAlone, OneKind, Kind, At, NoRow
<1>2. Unknown(y)'
  BY DEF SlotInv, LeftAlone, Unknown, Is, NoRow, Events
<1>3. ToldInv(y)'
  BY <1>0 DEF SlotInv, LeftAlone, ToldInv, At, Copied, NoRow, Quiet
<1>4. FileInv(y)'
  BY <1>0 DEF SlotInv, LeftAlone, FileInv, At, Is, NoRow
<1>5. MemoryInv(y)'
  BY <1>0 DEF SlotInv, LeftAlone, MemoryInv, At, Is, NoRow
<1>6. BillingInv(y)'
  <2> SUFFICES ASSUME Is(y, "billing")' PROVE BillingInv(y)'
    BY DEF BillingInv
  <2>1. Is(y, "billing") /\ row'[y] = row[y] /\ (y \notin muddled' => y \notin muddled)
    BY DEF Is, LeftAlone, NoRow
  <2>2. y \notin muddled' => Follows(y)'
    <3> SUFFICES ASSUME y \notin muddled' PROVE Follows(y)'
      OBVIOUS
    <3>1. Follows(y)
      BY <2>1 DEF SlotInv, BillingInv
    <3>2. \A e \in Events : <<y, e>> \in mail' <=> <<y, e>> \in mail
      BY DEF LeftAlone
    <3>3. stripe'[y] = stripe[y]
      BY DEF LeftAlone
    <3>4. ASSUME NEW k \in Checkouts PROVE SessionInv(y, k)'
      <4>1. SessionInv(y, k)
        BY <3>1 DEF Follows
      <4> QED BY <1>0, <2>1, <3>2, <3>3, <4>1, EventsOfCheckouts, SessionKept
    <3>5. (\A r, s \in At(y) : req[r].event = req[s].event)'
      BY <1>0, <3>1 DEF Follows, At
    <3> QED BY <3>4, <3>5 DEF Follows
  <2> QED BY <1>0, <2>1, <2>2 DEF SlotInv, BillingInv, At
<1> QED BY <1>1, <1>2, <1>3, <1>4, <1>5, <1>6 DEF SlotInv

LEMMA SlotsKept ==
    ASSUME Slots, NEW x \in Rows, Only(x), SlotInv(x)'
    PROVE  Slots'
<1>1. \A y \in Rows : SlotInv(y)'
  BY SlotLeftAlone DEF Slots, Only
<1> QED BY <1>1 DEF Slots

-----------------------------------------------------------------------------
\* The slot that a step is about: the rows that are told of

\* A slot whose row is neither billing nor a counter, nor becomes one.
LEMMA NotCounted ==
    ASSUME NEW x \in Rows, OneKind(x)', Unknown(x)', ToldInv(x)', FileInv(x)',
           row'[x].table \notin {"memory", "billing"},
           \A s \in Requests : s \in At(x)' => req'[s].copy.table # "memory"
    PROVE  SlotInv(x)'
<1>1. MemoryInv(x)'
  BY DEF MemoryInv, Is, At
<1>2. BillingInv(x)'
  BY DEF BillingInv, Is
<1> QED BY <1>1, <1>2 DEF SlotInv

LEMMA InsertSlots ==
    ASSUME TypeInv, Slots, NEW r \in Requests, NEW x \in Rows, NEW first \in RowOf,
           first.table \in Copied, Insert(r, x, first)
    PROVE  Slots'
<1> DEFINE q == [at |-> "telling", row |-> x, copy |-> first, event |-> NoEvent]
<1>1. q \in Request /\ Shaped(q) /\ Becomes(r, q) /\ q.at = "telling" /\ q.row = x /\ q.copy = first
  BY Given DEF Copied, Insert, Becomes
<1> HIDE DEF q
<1>2. req'[r] = q /\ (\A s \in Requests \ {r} : req'[s] = req[s]) /\ req[r].row = NoRowId
  BY <1>1, RequestsKept DEF Insert, Idle
<1>3. row[x] = NoRow /\ (\A s \in Requests : req[s].row # x) /\ told[x] = NoRow
  BY Constants DEF Insert, Free, Quiet, At, Slots, SlotInv, Unknown
<1>4. /\ row'[x] = first /\ \A y \in Rows \ {x} : row'[y] = row[y]
      /\ UNCHANGED <<bytes, told, stripe, mail, wakes, muddled>>
  BY DEF Insert, TypeInv, TypeOK
<1>5. Only(x)
  BY <1>1, <1>2, <1>4, RecordsAssumption DEF Only, LeftAlone
<1>6. \A s \in Requests : s \in At(x)' <=> s = r
  BY <1>1, <1>2, <1>3 DEF At
<1>7. first.table \notin {"none", "file", "memory", "billing"} /\ first # NoRow
  BY TableOfRow DEF Copied
<1>8. OneKind(x)'
  BY <1>1, <1>2, <1>4, <1>6 DEF OneKind, Kind, At
<1>9. Unknown(x)'
  BY <1>3, <1>4, <1>7, Constants DEF Unknown, Is, Slots, SlotInv
<1>10. ToldInv(x)'
  BY <1>1, <1>2, <1>3, <1>4, <1>6, Constants DEF ToldInv, At
<1>11. FileInv(x)'
  BY <1>1, <1>2, <1>4, <1>6, <1>7 DEF FileInv, At, Is
<1>12. SlotInv(x)'
  BY <1>1, <1>2, <1>4, <1>6, <1>7, <1>8, <1>9, <1>10, <1>11, NotCounted
<1> QED BY <1>5, <1>12, SlotsKept

LEMMA LoadSlots ==
    ASSUME TypeInv, Slots, NEW r \in Requests, NEW x \in Rows, NEW copy \in RowOf,
           copy.table \in Copied, row[x].table = copy.table,
           copy.table = "approval" => row[x].status = "pending",
           Load(r, x, copy)
    PROVE  Slots'
<1> DEFINE q == [at |-> "writing", row |-> x, copy |-> copy, event |-> NoEvent]
<1>1. q \in Request /\ Shaped(q) /\ Becomes(r, q) /\ q.at = "writing" /\ q.row = x /\ q.copy = copy
  BY Given DEF Copied, Load, Becomes
<1> HIDE DEF q
<1>2. req'[r] = q /\ (\A s \in Requests \ {r} : req'[s] = req[s]) /\ req[r].row = NoRowId
  BY <1>1, RequestsKept DEF Load, Idle
<1>3. UNCHANGED <<row, bytes, told, stripe, mail, wakes>>
  BY DEF Load
<1>4. \A y \in Rows : y \in muddled' <=> y \in muddled \/ (y = x /\ ~Quiet(x))
  BY DEF Load
<1>5. Only(x)
  BY <1>1, <1>2, <1>3, <1>4, RecordsAssumption DEF Only, LeftAlone
<1>6. \A s \in Requests : s \in At(x)' <=> s = r \/ s \in At(x)
  BY <1>1, <1>2 DEF At
<1>7. copy.table \notin {"none", "file", "memory", "billing"} /\ row[x] # NoRow
  BY Constants, TableOfRow DEF Copied
<1>8. SlotInv(x) /\ r \notin At(x)
  BY <1>2, RecordsAssumption DEF Slots, At
<1>9. \A s \in At(x) : Kind(req[s]) = copy.table /\ req'[s] = req[s]
  BY <1>2, <1>7, <1>8 DEF SlotInv, OneKind, At
<1>10. Kind(req[r])' = copy.table
  BY <1>1, <1>2 DEF Kind
<1>11. \A s \in At(x)' : Kind(req[s])' = copy.table
  BY <1>6, <1>9, <1>10 DEF Kind, At
<1>12. OneKind(x)'
  BY <1>3, <1>11 DEF OneKind
<1>13. Unknown(x)'
  BY <1>3, <1>8 DEF Unknown, Is, SlotInv, NoRow
<1>14. ToldInv(x)'
  <2> SUFFICES ASSUME x \notin muddled' PROVE ToldInv(x)'
    BY DEF ToldInv
  <2>1. x \notin muddled /\ Quiet(x)
    BY <1>4
  <2>2. told[x] # NoRow /\ Content(told[x]) = Content(row[x])
    BY <1>8, <2>1 DEF SlotInv, ToldInv, Quiet
  <2>3. \A s \in Requests : s \in At(x)' <=> s = r
    BY <1>6, <2>1 DEF Quiet
  <2>4. row[x].table = "approval" => ~Decided(told[x])
    <3>1. told[x] \in ToldRow /\ row[x] \in ToldRow
      BY <2>2, ToldOfRow DEF TypeInv, TypeOK
    <3> QED BY <2>2, <3>1, ContentOf DEF Decided
  <2> QED BY <1>1, <1>2, <1>3, <2>2, <2>3, <2>4 DEF ToldInv, At
<1>15. FileInv(x)'
  <2>1. \A s \in At(x)' : req'[s].at # "storing"
    BY <1>1, <1>2, <1>6, <1>7, <1>8, <1>9 DEF SlotInv, FileInv, At
  <2> QED BY <1>3, <1>7, <2>1 DEF FileInv, Is, At
<1>16. \A s \in Requests : s \in At(x)' => req'[s].copy.table # "memory"
  <2>1. \A s \in At(x) : req[s].at = "removing" => req[s].copy = NoRow
    BY DEF TypeInv, Shaped, At
  <2> QED BY <1>1, <1>2, <1>6, <1>7, <1>9, <2>1, Constants DEF Kind
<1>17. SlotInv(x)'
  BY <1>3, <1>7, <1>12, <1>13, <1>14, <1>15, <1>16, NotCounted
<1> QED BY <1>5, <1>17, SlotsKept

\* A row goes: requests that still come for it find no row.
LEMMA ForgetSlots ==
    ASSUME TypeInv, Slots, NEW x \in Rows, Forget(x), bytes' = bytes,
           \A s \in At(x) : req[s].at # "storing",
           \A s \in Requests : req'[s] = req[s] \/ (req'[s] = Idle /\ req[s].row = x)
    PROVE  Slots'
<1>1. /\ row'[x] = NoRow /\ \A y \in Rows \ {x} : row'[y] = row[y]
      /\ told'[x] = NoRow /\ \A y \in Rows \ {x} : told'[y] = told[y]
      /\ stripe'[x] = NoCheckout /\ \A y \in Rows \ {x} : stripe'[y] = stripe[y]
      /\ wakes'[x] = 0 /\ \A y \in Rows \ {x} : wakes'[y] = wakes[y]
      /\ \A e \in Events : <<x, e>> \notin mail'
      /\ \A y \in Rows \ {x} : \A e \in Events : <<y, e>> \in mail' <=> <<y, e>> \in mail
  BY DEF Forget, TypeInv, TypeOK
<1>2. /\ \A y \in Rows \ {x} : y \in muddled' <=> y \in muddled
      /\ x \notin muddled' => \A s \in At(x) : req[s].copy.table # "memory"
  <2>1. \A s \in Requests : req[s].copy \in RowOf
    BY DEF TypeInv, TypeOK, Request
  <2> QED BY <2>1, TableOfRow DEF Forget, Upserts, At
<1>3. Only(x)
  BY <1>1, <1>2, Constants DEF Only, LeftAlone
<1>4. \A s \in Requests : s \in At(x)' => s \in At(x) /\ req'[s] = req[s]
  BY Constants DEF At
<1>5. SlotInv(x)
  BY DEF Slots
<1>6. OneKind(x)'
  BY <1>1, <1>4, <1>5 DEF SlotInv, OneKind, Kind, At
<1>7. Unknown(x)'
  BY <1>1 DEF Unknown
<1>8. row'[x].table = "none"
  BY <1>1, Constants
<1>9. ToldInv(x)'
  BY <1>8 DEF ToldInv, Copied
<1>10. FileInv(x)'
  BY <1>4, <1>8 DEF FileInv, Is, At
<1>11. MemoryInv(x)'
  BY <1>2, <1>4, <1>8 DEF MemoryInv, Is, At
<1>12. BillingInv(x)'
  BY <1>8 DEF BillingInv, Is
<1> QED BY <1>3, <1>6, <1>7, <1>9, <1>10, <1>11, <1>12, SlotsKept DEF SlotInv

LEMMA DeleteSlots ==
    ASSUME TypeInv, Slots, NEW x \in Rows,
           DeleteTask(x) \/ DeleteItem(x) \/ DeleteMemory(x) \/ Cascade(x)
    PROVE  Slots'
<1>1. Forget(x) /\ UNCHANGED <<bytes, req>>
  BY Deletes
<1>2. row[x] # NoRow
  BY Constants DEF DeleteTask, DeleteItem, DeleteMemory, Cascade, Is
<1>3. \A s \in At(x) : req[s].at # "storing"
  BY <1>2 DEF Slots, SlotInv, FileInv
<1> QED BY <1>1, <1>3, ForgetSlots

LEMMA WriteRowSlots ==
    ASSUME TypeInv, Slots, NEW r \in Requests, WriteRow(r)
    PROVE  Slots'
<1>1. PICK x \in Rows : x = req[r].row
  BY DEF TypeInv, WriteRow, Shaped
<1>2. PICK copy \in RowOf : copy = req[r].copy
  BY DEF TypeInv, TypeOK, Request
<1>3. /\ req[r].at = "writing" /\ copy \in ToldRow /\ copy.table \in Copied
      /\ copy.table \notin {"none", "file", "memory", "billing"} /\ copy # NoRow
  <2>1. req[r].at = "writing" /\ copy \in ToldRow
    BY <1>2 DEF WriteRow
  <2>2. copy.table \in Copied \cup {"memory", "billing"}
    BY <1>2, <2>1 DEF TypeInv, Shaped
  <2>3. copy.table \in Copied
    BY <2>1, <2>2, ToldOfRow DEF Copied
  <2> QED BY <2>1, <2>3, Constants DEF Copied
<1> DEFINE q == [req[r] EXCEPT !.at = "telling"]
<1>4. /\ q \in Request /\ Shaped(q) /\ Becomes(r, q)
      /\ q.at = "telling" /\ q.row = x /\ q.copy = copy
  BY <1>1, <1>2, <1>3, Telling DEF WriteRow, Becomes
<1> HIDE DEF q
<1>5. req'[r] = q /\ (\A s \in Requests \ {r} : req'[s] = req[s])
  BY <1>4, RequestsKept
<1>a. PICK new \in ToldRow : /\ new = Written(row[x], copy) /\ new.table = copy.table
                            /\ Content(new) = Content(copy)
  BY <1>3, WrittenRow DEF TypeInv, TypeOK
<1>6. /\ row'[x] = IF row[x] = NoRow THEN row[x] ELSE new
      /\ \A y \in Rows \ {x} : row'[y] = row[y]
      /\ UNCHANGED <<bytes, told, stripe, mail, wakes, muddled>>
  BY <1>1, <1>2, <1>a DEF WriteRow, TypeInv, TypeOK
<1>7. Only(x)
  BY <1>1, <1>4, <1>5, <1>6 DEF Only, LeftAlone
<1>8. SlotInv(x) /\ r \in At(x) /\ \A s \in Requests : s \in At(x)' <=> s \in At(x)
  BY <1>1, <1>4, <1>5 DEF Slots, At
<1>9. Kind(req[r]) = copy.table
  BY <1>2, <1>3 DEF Kind
<1>10. /\ \A s \in At(x) : Kind(req[s]) = copy.table
       /\ row[x] # NoRow => row[x].table = copy.table
  BY <1>8, <1>9 DEF SlotInv, OneKind
<1>11. \A s \in At(x)' : Kind(req[s])' = copy.table
  BY <1>3, <1>4, <1>5, <1>8, <1>10 DEF Kind, At
<1>12. OneKind(x)'
  BY <1>6, <1>11, <1>a DEF OneKind
<1>13. row[x].table # "billing" /\ row'[x].table \notin {"memory", "billing", "file"}
  BY <1>3, <1>6, <1>10, <1>a, Constants
<1>14. Unknown(x)'
  <2>1. row'[x] = NoRow => row[x] = NoRow
    BY <1>3, <1>6, <1>a, Constants
  <2> QED BY <1>6, <1>8, <1>13, <2>1 DEF SlotInv, Unknown, Is
<1>15. ToldInv(x)'
  <2> SUFFICES ASSUME x \notin muddled, row[x] # NoRow PROVE ToldInv(x)'
    BY <1>6, Constants DEF ToldInv, Copied
  <2>1. row'[x].table = row[x].table /\ row[x].table = copy.table /\ Content(row[x])' = Content(copy)
    <3>1. row'[x] = new
      BY <1>6
    <3> QED BY <3>1, <1>10, <1>a DEF Content
  <2>2. /\ \A s \in At(x) : s = r
        /\ row[x].table = "approval" => ~Decided(told[x])
    BY <1>3, <1>6, <1>8, <2>1 DEF SlotInv, ToldInv, Quiet
  <2>3. Content(req[r].copy)' = Content(copy)
    BY <1>4, <1>5 DEF Content
  <2>4. \A s \in Requests : s \in At(x)' => s = r /\ req'[s].at = "telling"
    BY <1>4, <1>5, <1>8, <2>2 DEF At
  <2> QED BY <1>6, <1>8, <2>1, <2>2, <2>3, <2>4 DEF ToldInv, Quiet, At, Decided
<1>16. FileInv(x)'
  <2>1. \A s \in At(x)' : req'[s].at # "storing"
    BY <1>3, <1>4, <1>5, <1>8 DEF SlotInv, FileInv, At
  <2> QED BY <1>13, <2>1 DEF FileInv, Is, At
<1>17. \A s \in Requests : s \in At(x)' => req'[s].copy.table # "memory"
  <2>1. \A s \in At(x) : req[s].at = "removing" => req[s].copy = NoRow
    BY DEF TypeInv, Shaped, At
  <2> QED BY <1>3, <1>4, <1>5, <1>8, <1>10, <2>1, Constants DEF Kind
<1>18. SlotInv(x)'
  BY <1>12, <1>13, <1>14, <1>15, <1>16, <1>17, NotCounted
<1> QED BY <1>7, <1>18, SlotsKept

\* Only a row that is not there, and that no request brings back, stops being muddled.
LEMMA Spoiled ==
    ASSUME TypeInv', NEW X, Spoil(X), NEW y \in Rows, y \notin muddled'
    PROVE  /\ \/ y \notin muddled
              \/ row[y] = NoRow /\ \A s \in Requests : req'[s].row = y => req'[s].copy.table # "memory"
           /\ y \in X =>
                row[y] = NoRow /\ \A s \in Requests : req'[s].row = y => req'[s].copy.table # "memory"
<1>1. \A s \in Requests : req'[s].copy \in RowOf
  BY DEF TypeInv, TypeOK, Request
<1>2. \A s \in Requests : req'[s].copy.table = "memory" => req'[s].copy \in MemoryRow
  BY <1>1, TableOfRow
<1> QED BY <1>2 DEF Spoil, Upserts

LEMMA WriteFailsSlots ==
    ASSUME TypeInv, TypeInv', Slots, NEW r \in Requests, WriteFails(r)
    PROVE  Slots'
<1>1. PICK x \in Rows : x = req[r].row
  BY DEF TypeInv, WriteFails, Shaped
<1>2. PICK copy \in RowOf : copy = req[r].copy
  BY DEF TypeInv, TypeOK, Request
<1>3. /\ req[r].at = "writing" /\ copy.table \in Copied
      /\ copy.table \notin {"none", "file", "memory", "billing"} /\ copy # NoRow
  <2>1. req[r].at = "writing" /\ copy \in ToldRow
    BY <1>2 DEF WriteFails
  <2>2. copy.table \in Copied \cup {"memory", "billing"}
    BY <1>2, <2>1 DEF TypeInv, Shaped
  <2>3. copy.table \in Copied
    BY <2>1, <2>2, ToldOfRow DEF Copied
  <2> QED BY <2>1, <2>3, Constants DEF Copied
<1>4. UNCHANGED <<row, bytes, told, stripe, mail, wakes>>
  BY DEF WriteFails
<1>5. SlotInv(x) /\ r \in At(x) /\ Kind(req[r]) = copy.table
  BY <1>1, <1>2, <1>3 DEF Slots, At, Kind
<1>6. /\ \A s \in At(x) : Kind(req[s]) = copy.table
      /\ row[x] # NoRow => row[x].table = copy.table
  BY <1>5 DEF SlotInv, OneKind
<1>7. row[x].table \notin {"memory", "billing", "file"}
  BY <1>3, <1>6, Constants
<1>8. Unknown(x)'
  BY <1>4, <1>5 DEF SlotInv, Unknown, Is, NoRow
<1>9. \A s \in At(x) : req[s].copy.table # "memory" /\ req[s].at # "storing"
  <2>1. \A s \in At(x) : req[s].at = "removing" => req[s].copy = NoRow
    BY DEF TypeInv, Shaped, At
  <2>2. \A s \in At(x) : req[s].copy.table # "memory"
    BY <1>3, <1>6, <2>1, Constants DEF Kind
  <2> QED BY <1>3, <1>5, <2>2 DEF SlotInv, FileInv
<1>10. CASE Done(r) /\ UNCHANGED muddled
  <2>1. req'[r] = Idle /\ (\A s \in Requests \ {r} : req'[s] = req[s]) /\ r \notin At(x)'
    BY <1>10, IdleAgain, RequestsKept, Constants DEF At
  <2>2. Only(x)
    BY <1>1, <1>4, <1>10, <2>1, Constants DEF Only, LeftAlone
  <2>3. \A s \in Requests : s \in At(x)' => s \in At(x) /\ s # r /\ req'[s] = req[s]
    BY <2>1 DEF At
  <2>4. OneKind(x)'
    BY <1>4, <1>6, <2>3, Constants DEF OneKind, Kind, At
  <2>5. ToldInv(x)'
    <3> SUFFICES ASSUME x \notin muddled, row[x] # NoRow PROVE ToldInv(x)'
      BY <1>4, <1>10, Constants DEF ToldInv, Copied
    <3>1. \A s \in At(x) : s = r
      BY <1>3, <1>5, <1>6 DEF SlotInv, ToldInv
    <3>2. told[x] # NoRow /\ Content(told[x]) = Content(row[x])
      BY <1>3, <1>5, <1>6, <3>1 DEF SlotInv, ToldInv
    <3>3. \A s \in Requests : s \notin At(x)'
      BY <2>3, <3>1
    <3> QED BY <1>4, <3>2, <3>3 DEF ToldInv, Quiet, At
  <2>6. FileInv(x)'
    BY <1>4, <1>7, <1>9, <2>3 DEF FileInv, Is, At
  <2>7. \A s \in Requests : s \in At(x)' => req'[s].copy.table # "memory"
    BY <1>9, <2>3
  <2> QED BY <1>4, <1>7, <1>8, <2>2, <2>4, <2>5, <2>6, <2>7, NotCounted, SlotsKept
<1>11. CASE /\ req[r].copy.table = "call"
            /\ req' = [req EXCEPT ![r].at = "telling"]
            /\ Spoil({x})
  <2> DEFINE q == [req[r] EXCEPT !.at = "telling"]
  <2>1. /\ q \in Request /\ Shaped(q) /\ Becomes(r, q)
        /\ q.at = "telling" /\ q.row = x /\ q.copy = copy
    BY <1>1, <1>2, <1>3, <1>11, Telling DEF Becomes
  <2> HIDE DEF q
  <2>2. req'[r] = q /\ (\A s \in Requests \ {r} : req'[s] = req[s])
    BY <2>1, RequestsKept
  <2>3. \A s \in Requests : s \in At(x)' <=> s \in At(x)
    BY <1>1, <2>1, <2>2 DEF At
  <2>4. Only(x)
    <3> SUFFICES ASSUME NEW y \in Rows \ {x} PROVE LeftAlone(y)
      BY DEF Only
    <3>1. \A s \in Requests : req'[s] = req[s] \/ (req'[s].row # y /\ req[s].row # y)
      BY <1>1, <2>1, <2>2
    <3> QED BY <1>4, <1>11, <3>1, Spoiled DEF LeftAlone, At
  <2>5. x \notin muddled' => row[x] = NoRow
    BY <1>11, Spoiled
  <2>6. OneKind(x)'
    BY <1>3, <1>4, <1>6, <2>1, <2>2, <2>3 DEF OneKind, Kind, At
  <2>7. ToldInv(x)'
    BY <1>4, <2>5, Constants DEF ToldInv, Copied
  <2>8. FileInv(x)'
    BY <1>4, <1>7, <1>9, <2>1, <2>2, <2>3 DEF FileInv, Is, At
  <2>9. \A s \in Requests : s \in At(x)' => req'[s].copy.table # "memory"
    BY <1>3, <1>9, <2>1, <2>2, <2>3
  <2> QED BY <1>4, <1>7, <1>8, <2>4, <2>6, <2>7, <2>8, <2>9, NotCounted, SlotsKept
<1> QED BY <1>1, <1>10, <1>11 DEF WriteFails

LEMMA TellSlots ==
    ASSUME TypeInv, TypeInv', Slots, NEW r \in Requests, Tell(r)
    PROVE  Slots'
<1>1. PICK x \in Rows : x = req[r].row
  BY DEF TypeInv, Tell, Shaped
<1>2. PICK copy \in RowOf : copy = req[r].copy
  BY DEF TypeInv, TypeOK, Request
<1>3. /\ req[r].at = "telling" /\ copy.table \in Copied \cup {"file"}
      /\ copy.table \notin {"none", "memory", "billing"}
  BY <1>2 DEF Tell, TypeInv, Shaped, Copied
<1>4. UNCHANGED <<row, bytes, stripe, mail, wakes>> /\ Done(r)
  BY DEF Tell
<1>5. req'[r] = Idle /\ (\A s \in Requests \ {r} : req'[s] = req[s]) /\ r \notin At(x)'
  BY <1>4, IdleAgain, RequestsKept, Constants DEF At
<1>6. \A s \in Requests : s \in At(x)' <=> s \in At(x) /\ s # r
  BY <1>5 DEF At
<1>7. SlotInv(x) /\ r \in At(x) /\ Kind(req[r]) = copy.table
  BY <1>1, <1>2, <1>3 DEF Slots, At, Kind
<1>8. /\ \A s \in At(x) : Kind(req[s]) = copy.table
      /\ row[x] # NoRow => row[x].table = copy.table
  BY <1>7 DEF SlotInv, OneKind
<1>9. row[x].table \notin {"memory", "billing"}
  BY <1>3, <1>8, Constants
<1>10. \A s \in At(x) : req[s].copy.table # "memory" /\ req[s].at # "storing"
  <2>1. \A s \in At(x) : req[s].at = "removing" => req[s].copy = NoRow
    BY DEF TypeInv, Shaped, At
  <2>2. \A s \in At(x) : req[s].copy.table # "memory"
    BY <1>3, <1>8, <2>1, Constants DEF Kind
  <2> QED BY <1>3, <1>7, <2>2 DEF SlotInv, FileInv
<1>11. OneKind(x)'
  BY <1>4, <1>5, <1>6, <1>8, Constants DEF OneKind, Kind, At
<1>12. \A s \in Requests : s \in At(x)' => req'[s].copy.table # "memory"
  BY <1>5, <1>6, <1>10
<1>13. ASSUME x \notin muddled' => x \notin muddled \/ row[x] = NoRow PROVE FileInv(x)'
  <2>1. \A s \in At(x)' : req'[s].at # "storing"
    BY <1>5, <1>6, <1>10 DEF At
  <2>2. ASSUME Is(x, "file"), x \notin muddled PROVE x \in bytes \/ \E s \in At(x)' : req'[s].at = "removing"
    <3>1. x \in bytes \/ \E s \in At(x) : req[s].at = "removing"
      BY <1>7, <2>2 DEF SlotInv, FileInv
    <3>2. \A s \in At(x) : req[s].at = "removing" => s \in At(x)' /\ req'[s] = req[s]
      BY <1>3, <1>5, <1>6 DEF At
    <3> QED BY <3>1, <3>2
  <2>3. row[x] = NoRow => ~Is(x, "file")
    BY Constants DEF Is
  <2> QED BY <1>4, <1>13, <2>1, <2>2, <2>3 DEF FileInv, Is
<1>14. CASE /\ told' = IF row[x] = NoRow THEN told ELSE [told EXCEPT ![x] = req[r].copy]
            /\ UNCHANGED muddled
  <2>1. /\ told'[x] = IF row[x] = NoRow THEN told[x] ELSE copy
        /\ \A y \in Rows \ {x} : told'[y] = told[y]
    BY <1>2, <1>14 DEF TypeInv, TypeOK
  <2>2. Only(x)
    BY <1>1, <1>4, <1>5, <1>14, <2>1, Constants DEF Only, LeftAlone
  <2>3. Unknown(x)'
    BY <1>4, <1>7, <2>1 DEF SlotInv, Unknown, Is
  <2>4. ToldInv(x)'
    <3> SUFFICES ASSUME x \notin muddled, row[x] # NoRow PROVE ToldInv(x)'
      BY <1>4, <1>14, Constants DEF ToldInv, Copied
    <3>1. row[x].table = copy.table
      BY <1>8
    <3>2. told'[x] = copy /\ copy # NoRow /\ Content(copy) = Content(row[x])
      BY <1>2, <1>3, <1>7, <2>1, <3>1, Constants DEF SlotInv, ToldInv
    <3>3. \A s \in At(x) : req[s].at = "telling" => Content(req[s].copy) = Content(row[x])
      BY <1>3, <1>7, <3>1 DEF SlotInv, ToldInv
    <3>4. copy.table # "file" => \A s \in Requests : s \notin At(x)'
      BY <1>3, <1>6, <1>7, <3>1 DEF SlotInv, ToldInv
    <3> QED BY <1>4, <1>5, <1>6, <3>1, <3>2, <3>3, <3>4 DEF ToldInv, Quiet, At
  <2>5. FileInv(x)'
    BY <1>13, <1>14
  <2> QED BY <1>4, <1>9, <1>11, <1>12, <2>2, <2>3, <2>4, <2>5, NotCounted, SlotsKept
<1>15. CASE Spoil({x}) /\ UNCHANGED told
  <2>1. Only(x)
    <3> SUFFICES ASSUME NEW y \in Rows \ {x} PROVE LeftAlone(y)
      BY DEF Only
    <3>1. \A s \in Requests : req'[s] = req[s] \/ (req'[s].row # y /\ req[s].row # y)
      BY <1>1, <1>5, Constants
    <3> QED BY <1>4, <1>15, <3>1, Spoiled DEF LeftAlone, At
  <2>2. x \notin muddled' => row[x] = NoRow
    BY <1>15, Spoiled
  <2>3. Unknown(x)'
    BY <1>4, <1>7, <1>15 DEF SlotInv, Unknown, Is, NoRow
  <2>4. ToldInv(x)'
    BY <1>4, <2>2, Constants DEF ToldInv, Copied
  <2>5. FileInv(x)'
    BY <1>13, <2>2
  <2> QED BY <1>4, <1>9, <1>11, <1>12, <2>1, <2>3, <2>4, <2>5, NotCounted, SlotsKept
<1> QED BY <1>1, <1>14, <1>15 DEF Tell

-----------------------------------------------------------------------------
\* Files

LEMMA FreeSlot ==
    ASSUME Slots, NEW x \in Rows, NEW t, Free(x, t)
    PROVE  /\ row[x] = NoRow /\ (\A s \in Requests : req[s].row # x /\ s \notin At(x)) /\ x \notin bytes
           /\ told[x] = NoRow /\ wakes[x] = 0 /\ stripe[x] = NoCheckout
           /\ \A e \in Events : <<x, e>> \notin mail
BY Constants DEF Free, Quiet, At, Slots, SlotInv, Unknown, Is

LEMMA UploadSlots ==
    ASSUME TypeInv, Slots, NEW r \in Requests, NEW x \in Rows, Upload(r, x)
    PROVE  Slots'
<1> DEFINE file == [table |-> "file", status |-> "stored"]
           q == [at |-> "storing", row |-> x, copy |-> file, event |-> NoEvent]
<1>1. file \in RowOf /\ file.table = "file"
  BY DEF RowOf, ToldRow, FileRow
<1>2. Becomes(r, q) /\ q.at = "storing" /\ q.row = x /\ q.copy = file
  BY DEF Upload, Becomes
<1> HIDE DEF file
<1>3. q \in Request /\ Shaped(q)
  BY <1>1, Given
<1> HIDE DEF q
<1>4. req'[r] = q /\ (\A s \in Requests \ {r} : req'[s] = req[s]) /\ req[r].row = NoRowId
  BY <1>2, <1>3, RequestsKept DEF Upload, Idle
<1>5. /\ UNCHANGED <<row, told, stripe, mail, wakes, muddled>> /\ bytes' = bytes \cup {x}
      /\ Free(x, "file")
  BY DEF Upload
<1>6. Only(x)
  BY <1>2, <1>4, <1>5, RecordsAssumption DEF Only, LeftAlone
<1>7. row'[x] = NoRow /\ row'[x].table = "none" /\ \A s \in Requests : s \in At(x)' <=> s = r
  BY <1>2, <1>4, <1>5, FreeSlot, Constants DEF At
<1>8. OneKind(x)'
  BY <1>4, <1>7 DEF OneKind, At
<1>9. Unknown(x)'
  BY <1>5, FreeSlot DEF Unknown
<1>10. ToldInv(x)'
  BY <1>7 DEF ToldInv, Copied
<1>11. FileInv(x)'
  BY <1>5, <1>7 DEF FileInv, Is, At
<1>12. \A s \in Requests : s \in At(x)' => req'[s].copy.table # "memory"
  BY <1>1, <1>2, <1>4, <1>7
<1> QED BY <1>6, <1>7, <1>8, <1>9, <1>10, <1>11, <1>12, NotCounted, SlotsKept

LEMMA SaveFailsSlots ==
    ASSUME TypeInv, Slots, NEW x \in Rows, SaveFails(x)
    PROVE  Slots'
<1>1. /\ UNCHANGED <<row, req, told, stripe, mail, wakes, muddled>> /\ bytes' = bytes \cup {x}
      /\ Free(x, "file")
  BY DEF SaveFails
<1>2. Only(x)
  BY <1>1 DEF Only, LeftAlone
<1>3. row'[x] = NoRow /\ row'[x].table = "none" /\ \A s \in Requests : s \notin At(x)'
  BY <1>1, FreeSlot, Constants DEF At
<1>4. Unknown(x)'
  BY <1>1, FreeSlot DEF Unknown
<1>5. OneKind(x)' /\ ToldInv(x)' /\ FileInv(x)'
  BY <1>3 DEF OneKind, ToldInv, Copied, FileInv, Is, At
<1> QED BY <1>2, <1>3, <1>4, <1>5, NotCounted, SlotsKept

LEMMA StoreFileSlots ==
    ASSUME TypeInv, Slots, NEW r \in Requests, StoreFile(r)
    PROVE  Slots'
<1>1. PICK x \in Rows : x = req[r].row
  BY DEF TypeInv, StoreFile, Shaped
<1>2. PICK copy \in RowOf : copy = req[r].copy
  BY DEF TypeInv, TypeOK, Request
<1>3. /\ req[r].at = "storing" /\ copy.table = "file" /\ copy # NoRow
      /\ UNCHANGED <<told, stripe, mail, wakes, muddled>>
  BY <1>2, Constants DEF StoreFile, TypeInv, Shaped
<1>4. r \in At(x) /\ SlotInv(x) /\ ~Is(x, "billing")
  BY <1>1, <1>2, <1>3, Constants DEF At, Slots, SlotInv, FileInv, Is
<1>5. row[x] = NoRow /\ x \in bytes /\ \A s \in Requests : s \in At(x) => s = r
  BY <1>3, <1>4 DEF SlotInv, FileInv
<1>6. CASE /\ row' = [row EXCEPT ![x] = copy]
           /\ req' = [req EXCEPT ![r].at = "telling"]
           /\ UNCHANGED bytes
  <2> DEFINE q == [req[r] EXCEPT !.at = "telling"]
  <2>1. /\ q \in Request /\ Shaped(q) /\ Becomes(r, q)
        /\ q.at = "telling" /\ q.row = x /\ q.copy = copy
    BY <1>1, <1>2, <1>3, <1>6, Telling DEF Becomes
  <2> HIDE DEF q
  <2>2. req'[r] = q /\ (\A s \in Requests \ {r} : req'[s] = req[s])
    BY <2>1, RequestsKept
  <2>3. row'[x] = copy /\ \A y \in Rows \ {x} : row'[y] = row[y]
    BY <1>6 DEF TypeInv, TypeOK
  <2>4. Only(x)
    BY <1>1, <1>3, <1>6, <2>1, <2>2, <2>3 DEF Only, LeftAlone
  <2>5. \A s \in Requests : s \in At(x)' <=> s = r
    BY <1>5, <2>1, <2>2 DEF At
  <2>6. OneKind(x)'
    BY <2>1, <2>2, <2>3, <2>5 DEF OneKind, Kind, At
  <2>7. Unknown(x)'
    BY <1>3, <1>4, <2>3 DEF SlotInv, Unknown
  <2>8. ToldInv(x)'
    BY <1>3, <2>1, <2>2, <2>3, <2>5 DEF ToldInv, At
  <2>9. FileInv(x)'
    BY <1>5, <1>6, <2>1, <2>2, <2>5 DEF FileInv, At
  <2>10. \A s \in Requests : s \in At(x)' => req'[s].copy.table # "memory"
    BY <1>3, <2>1, <2>2, <2>5
  <2> QED BY <1>3, <2>3, <2>4, <2>6, <2>7, <2>8, <2>9, <2>10, NotCounted, SlotsKept
<1>7. CASE Done(r) /\ bytes' \in {bytes, bytes \ {x}} /\ UNCHANGED row
  <2>1. req'[r] = Idle /\ (\A s \in Requests \ {r} : req'[s] = req[s])
    BY <1>7, IdleAgain, RequestsKept
  <2>2. Only(x)
    BY <1>1, <1>3, <1>7, <2>1, Constants DEF Only, LeftAlone
  <2>3. row'[x] = NoRow /\ row'[x].table = "none" /\ \A s \in Requests : s \notin At(x)'
    BY <1>5, <1>7, <2>1, Constants DEF At
  <2>4. Unknown(x)'
    BY <1>3, <1>4, <1>5 DEF SlotInv, Unknown
  <2>5. OneKind(x)' /\ ToldInv(x)' /\ FileInv(x)'
    BY <2>3 DEF OneKind, ToldInv, Copied, FileInv, Is, At
  <2> QED BY <2>2, <2>3, <2>4, <2>5, NotCounted, SlotsKept
<1> QED BY <1>1, <1>2, <1>6, <1>7 DEF StoreFile

LEMMA DeleteFileSlots ==
    ASSUME TypeInv, Slots, NEW r \in Requests, NEW x \in Rows, DeleteFile(r, x)
    PROVE  Slots'
<1> DEFINE q == [at |-> "removing", row |-> x, copy |-> NoRow, event |-> NoEvent]
<1>1. q \in Request /\ Shaped(q) /\ Becomes(r, q) /\ q.at = "removing" /\ q.row = x /\ q.copy = NoRow
  BY Constants, Given DEF DeleteFile, Becomes
<1> HIDE DEF q
<1>2. req'[r] = q /\ (\A s \in Requests \ {r} : req'[s] = req[s]) /\ req[r].row = NoRowId
  BY <1>1, RequestsKept DEF DeleteFile, Idle
<1>3. /\ UNCHANGED <<row, told, stripe, mail, wakes, muddled>> /\ bytes' = bytes \ {x}
      /\ row[x].table = "file" /\ row[x] # NoRow
  BY Constants DEF DeleteFile, Is
<1>4. Only(x)
  BY <1>1, <1>2, <1>3, RecordsAssumption DEF Only, LeftAlone
<1>5. SlotInv(x) /\ r \notin At(x) /\ \A s \in Requests : s \in At(x)' <=> s = r \/ s \in At(x)
  BY <1>1, <1>2, RecordsAssumption DEF Slots, At
<1>6. \A s \in At(x) : Kind(req[s]) = "file" /\ req[s].at # "storing" /\ req'[s] = req[s]
  <2>1. \A s \in At(x) : s \in Requests \ {r}
    BY <1>5 DEF At
  <2> QED BY <1>2, <1>3, <1>5, <2>1 DEF SlotInv, OneKind, FileInv
<1>7. OneKind(x)'
  BY <1>1, <1>2, <1>3, <1>5, <1>6 DEF OneKind, Kind, At
<1>8. Unknown(x)'
  BY <1>3, <1>5 DEF SlotInv, Unknown, Is
<1>9. ToldInv(x)'
  <2> SUFFICES ASSUME x \notin muddled PROVE ToldInv(x)'
    BY <1>3 DEF ToldInv
  <2>1. /\ \A s \in At(x) : req[s].at = "telling" => Content(req[s].copy) = Content(row[x])
        /\ (\A s \in At(x) : req[s].at # "telling")
              => told[x] # NoRow /\ Content(told[x]) = Content(row[x])
    BY <1>3, <1>5 DEF SlotInv, ToldInv
  <2> QED BY <1>1, <1>2, <1>3, <1>5, <1>6, <2>1 DEF ToldInv, At
<1>10. FileInv(x)'
  BY <1>1, <1>2, <1>5, <1>6 DEF FileInv, At
<1>11. \A s \in Requests : s \in At(x)' => req'[s].copy.table # "memory"
  <2>1. \A s \in At(x) : req[s].at = "removing" => req[s].copy = NoRow
    BY DEF TypeInv, Shaped, At
  <2> QED BY <1>1, <1>2, <1>5, <1>6, <2>1, Constants DEF Kind
<1> QED BY <1>3, <1>4, <1>7, <1>8, <1>9, <1>10, <1>11, NotCounted, SlotsKept

LEMMA RemoveFileSlots ==
    ASSUME TypeInv, TypeInv', Slots, NEW r \in Requests, RemoveFile(r)
    PROVE  Slots'
<1>1. PICK x \in Rows : x = req[r].row
  BY DEF TypeInv, RemoveFile, Shaped
<1>2. req[r].at = "removing" /\ Done(r) /\ UNCHANGED bytes
  BY DEF RemoveFile
<1>3. req'[r] = Idle /\ (\A s \in Requests \ {r} : req'[s] = req[s])
  BY <1>2, IdleAgain, RequestsKept
<1>4. r \in At(x) /\ SlotInv(x) /\ Kind(req[r]) = "file"
  BY <1>1, <1>2 DEF At, Slots, Kind
<1>5. \A s \in At(x) : Kind(req[s]) = "file" /\ req[s].at # "storing"
  BY <1>2, <1>4 DEF SlotInv, OneKind, FileInv
<1>6. CASE Forget(x)
  BY <1>1, <1>2, <1>3, <1>5, <1>6, ForgetSlots
<1>7. CASE Spoil({x}) /\ UNCHANGED <<row, told, stripe, mail, wakes>>
  <2>1. Only(x)
    <3> SUFFICES ASSUME NEW y \in Rows \ {x} PROVE LeftAlone(y)
      BY DEF Only
    <3>1. \A s \in Requests : req'[s] = req[s] \/ (req'[s].row # y /\ req[s].row # y)
      BY <1>1, <1>3, Constants
    <3> QED BY <1>2, <1>7, <3>1, Spoiled DEF LeftAlone, At
  <2>2. x \notin muddled' => row[x].table = "none"
    BY <1>7, Spoiled, Constants
  <2>3. \A s \in Requests : s \in At(x)' => s \in At(x) /\ req'[s] = req[s]
    BY <1>3, Constants DEF At
  <2>4. OneKind(x)'
    BY <1>4, <1>7, <2>3 DEF SlotInv, OneKind, Kind, At
  <2>5. Unknown(x)'
    BY <1>4, <1>7 DEF SlotInv, Unknown, Is, NoRow
  <2>6. ToldInv(x)'
    BY <1>7, <2>2 DEF ToldInv, Copied
  <2>7. FileInv(x)'
    BY <1>5, <1>7, <2>2, <2>3 DEF FileInv, Is, At
  <2>8. \A s \in Requests : s \in At(x)' => req'[s].copy.table # "memory"
    <3>1. \A s \in At(x) : req[s].at = "removing" => req[s].copy = NoRow
      BY DEF TypeInv, Shaped, At
    <3> QED BY <1>5, <2>3, <3>1, Constants DEF Kind
  <2>9. row[x].table \notin {"memory", "billing"}
    BY <1>4, Constants DEF SlotInv, OneKind
  <2> QED BY <1>7, <2>1, <2>4, <2>5, <2>6, <2>7, <2>8, <2>9, NotCounted, SlotsKept
<1> QED BY <1>1, <1>6, <1>7 DEF RemoveFile

-----------------------------------------------------------------------------
\* The counter of wakes

\* A slot whose row is a counter, or none, and whose requests are all about the counter.
LEMMA OnlyCounted ==
    ASSUME TypeInv', NEW x \in Rows, Unknown(x)', MemoryInv(x)',
           row'[x] = NoRow \/ row'[x].table = "memory",
           \A s \in Requests : s \in At(x)' => Kind(req'[s]) = "memory"
    PROVE  SlotInv(x)'
<1>1. OneKind(x)'
  <2>1. \A s \in Requests : s \in At(x)' => Kind(req[s])' = "memory"
    BY DEF Kind
  <2> QED BY <2>1 DEF OneKind, At
<1>2. ToldInv(x)'
  BY Constants DEF ToldInv, Copied
<1>3. FileInv(x)'
  <2>1. \A s \in Requests : s \in At(x)' => req'[s].at # "storing"
    BY DEF TypeInv, Shaped, Kind
  <2> QED BY <2>1, Constants DEF FileInv, Is, At
<1>4. BillingInv(x)'
  BY Constants DEF BillingInv, Is
<1> QED BY <1>1, <1>2, <1>3, <1>4 DEF SlotInv

LEMMA RecordWakeSlots ==
    ASSUME TypeInv, TypeInv', Slots, NEW r \in Requests, NEW x \in Rows, RecordWake(r, x)
    PROVE  Slots'
<1> DEFINE c == [table |-> "memory", count |-> Counted(x) + 1]
<1>1. PICK copy \in MemoryRow : copy = c
  BY RecordWakeTypes
<1>2. copy \in RowOf /\ copy.table = "memory" /\ copy.count = Counted(x) + 1
  BY <1>1 DEF RowOf
<1>3. Load(r, x, copy)
  BY <1>1 DEF RecordWake
<1> HIDE DEF c
<1> DEFINE q == [at |-> "writing", row |-> x, copy |-> copy, event |-> NoEvent]
<1>4. q \in Request /\ Shaped(q) /\ Becomes(r, q) /\ q.at = "writing" /\ q.row = x /\ q.copy = copy
  BY <1>2, <1>3, Given DEF Load, Becomes
<1> HIDE DEF q
<1>5. req'[r] = q /\ (\A s \in Requests \ {r} : req'[s] = req[s]) /\ req[r].row = NoRowId
  BY <1>3, <1>4, RequestsKept DEF Load, Idle
<1>6. UNCHANGED <<row, bytes, told, stripe, mail, wakes>>
  BY <1>3 DEF Load
<1>7. \A y \in Rows : y \in muddled' <=> y \in muddled \/ (y = x /\ ~Quiet(x))
  BY <1>3 DEF Load
<1>8. Only(x)
  BY <1>4, <1>5, <1>6, <1>7, RecordsAssumption DEF Only, LeftAlone
<1>9. SlotInv(x) /\ \A s \in Requests : s \in At(x)' <=> s = r \/ (s # r /\ s \in At(x))
  BY <1>4, <1>5 DEF At, Slots
<1>10. /\ row[x] = NoRow \/ row[x].table = "memory"
       /\ \A s \in At(x) : Kind(req[s]) = "memory"
  <2>1. CASE Is(x, "memory")
    BY <1>9, <2>1, Constants DEF SlotInv, OneKind, Is
  <2>2. CASE Free(x, "memory")
    BY <2>2, FreeSlot, Constants DEF At
  <2>3. CASE row[x] = NoRow /\ \E s \in At(x) : req[s].copy.table = "memory"
    <3>1. PICK s \in At(x) : req[s].copy.table = "memory"
      BY <2>3
    <3>2. req[s].at # "removing"
      BY <3>1, Constants DEF TypeInv, Shaped, At
    <3> QED BY <1>9, <2>3, <3>1, <3>2, Constants DEF SlotInv, OneKind, Kind
  <2> QED BY <2>1, <2>2, <2>3 DEF RecordWake
<1>11. \A s \in Requests : s \in At(x)' => Kind(req'[s]) = "memory"
  BY <1>2, <1>4, <1>5, <1>9, <1>10 DEF Kind
<1>12. Unknown(x)'
  BY <1>6, <1>9 DEF SlotInv, Unknown, Is, NoRow
<1>13. MemoryInv(x)'
  <2> SUFFICES ASSUME x \notin muddled' PROVE MemoryInv(x)'
    BY DEF MemoryInv
  <2>1. x \notin muddled /\ At(x) = {}
    BY <1>7 DEF Quiet
  <2>2. At(x)' = {r}
    BY <1>9, <2>1 DEF At
  <2>3. Counted(x) = wakes[x]
    <3>1. CASE Is(x, "memory")
      BY <1>9, <2>1, <3>1 DEF SlotInv, MemoryInv, Counted
    <3>2. CASE ~Is(x, "memory")
      <4>1. row[x] = NoRow
        BY <1>10, <3>2, TableOfRow DEF Is, TypeInv, TypeOK
      <4> QED BY <1>9, <3>2, <4>1 DEF SlotInv, Unknown, Counted
    <3> QED BY <3>1, <3>2
  <2>4. row[x].table = "memory" => row[x].count = wakes[x]
    BY <1>9, <2>1 DEF SlotInv, MemoryInv, Is
  <2> QED BY <1>2, <1>4, <1>5, <1>6, <2>2, <2>3, <2>4 DEF MemoryInv, Is
<1> QED BY <1>6, <1>8, <1>10, <1>11, <1>12, <1>13, OnlyCounted, SlotsKept

LEMMA WriteMemorySlots ==
    ASSUME TypeInv, TypeInv', Slots, NEW r \in Requests, WriteMemory(r)
    PROVE  Slots'
<1>1. PICK x \in Rows : x = req[r].row
  BY DEF TypeInv, WriteMemory, Shaped
<1>2. PICK copy \in MemoryRow : copy = req[r].copy
  BY DEF WriteMemory
<1>3. req[r].at = "writing" /\ copy.table = "memory" /\ copy \in RowOf /\ copy # NoRow
  BY <1>2, Constants DEF WriteMemory, MemoryRow, RowOf
<1>4. UNCHANGED <<bytes, told, stripe, mail>> /\ Done(r)
  BY DEF WriteMemory
<1>5. req'[r] = Idle /\ (\A s \in Requests \ {r} : req'[s] = req[s])
  BY <1>4, IdleAgain, RequestsKept
<1>6. SlotInv(x) /\ r \in At(x) /\ \A s \in Requests : s \in At(x)' <=> s # r /\ s \in At(x)
  BY <1>1, <1>5, Constants DEF At, Slots
<1>7. /\ \A s \in At(x) : Kind(req[s]) = "memory"
      /\ row[x] # NoRow => row[x].table = "memory" /\ Is(x, "memory")
  <2>1. Kind(req[r]) = "memory"
    BY <1>2, <1>3 DEF Kind
  <2>2. \A s \in At(x) : Kind(req[s]) = "memory"
    BY <1>6, <2>1 DEF SlotInv, OneKind
  <2>3. row[x] # NoRow => row[x].table = "memory"
    BY <1>6, <2>1 DEF SlotInv, OneKind
  <2> QED BY <2>2, <2>3 DEF Is
<1>8. \A s \in Requests : s \in At(x)' => Kind(req'[s]) = "memory"
  BY <1>5, <1>6, <1>7
<1>9. stripe[x] = NoCheckout /\ \A e \in Events : <<x, e>> \notin mail
  BY <1>6, <1>7, Constants DEF SlotInv, Unknown, Is
<1>10. CASE /\ row' = [row EXCEPT ![x] = copy]
            /\ wakes' = [wakes EXCEPT ![x] = @ + 1]
            /\ muddled' = IF row[x] = NoRow /\ copy.count > 1 THEN muddled \cup {x} ELSE muddled
  <2>1. /\ row'[x] = copy /\ \A y \in Rows \ {x} : row'[y] = row[y]
        /\ wakes'[x] = wakes[x] + 1 /\ \A y \in Rows \ {x} : wakes'[y] = wakes[y]
    BY <1>10 DEF TypeInv, TypeOK
  <2>2. Only(x)
    BY <1>1, <1>4, <1>5, <1>10, <2>1, Constants DEF Only, LeftAlone
  <2>3. Unknown(x)'
    BY <1>3, <1>4, <1>9, <2>1 DEF Unknown
  <2>4. MemoryInv(x)'
    <3> SUFFICES ASSUME x \notin muddled PROVE MemoryInv(x)'
      BY <1>10 DEF MemoryInv
    <3>1. copy.count = wakes[x] + 1 /\ At(x) = {r}
      BY <1>2, <1>3, <1>6 DEF SlotInv, MemoryInv
    <3>2. \A s \in Requests : s \notin At(x)'
      BY <1>6, <3>1
    <3> QED BY <2>1, <3>1, <3>2 DEF MemoryInv, Is, At
  <2> QED BY <1>3, <1>8, <2>1, <2>2, <2>3, <2>4, OnlyCounted, SlotsKept
<1>11. CASE Spoil({}) /\ UNCHANGED <<row, wakes>>
  <2>1. Only(x)
    <3> SUFFICES ASSUME NEW y \in Rows \ {x} PROVE LeftAlone(y)
      BY DEF Only
    <3>1. \A s \in Requests : req'[s] = req[s] \/ (req'[s].row # y /\ req[s].row # y)
      BY <1>1, <1>5, Constants
    <3> QED BY <1>4, <1>11, <3>1, Spoiled DEF LeftAlone, At
  <2>2. Unknown(x)'
    BY <1>4, <1>6, <1>9, <1>11 DEF SlotInv, Unknown
  <2>3. MemoryInv(x)'
    <3> SUFFICES ASSUME x \notin muddled' PROVE MemoryInv(x)'
      BY DEF MemoryInv
    <3>1. CASE x \notin muddled
      <4>1. At(x) = {r} /\ (Is(x, "memory") => row[x].count = wakes[x])
        BY <1>2, <1>3, <1>6, <3>1 DEF SlotInv, MemoryInv
      <4>2. \A s \in Requests : s \notin At(x)'
        BY <1>6, <4>1
      <4> QED BY <1>11, <4>1, <4>2 DEF MemoryInv, Is, At
    <3>2. CASE x \in muddled
      <4>1. row[x] = NoRow /\ \A s \in Requests : req'[s].row = x => req'[s].copy.table # "memory"
        BY <1>11, <3>2, Spoiled
      <4> QED BY <1>11, <4>1, Constants DEF MemoryInv, Is, At
    <3> QED BY <3>1, <3>2
  <2> QED BY <1>7, <1>8, <1>11, <2>1, <2>2, <2>3, OnlyCounted, SlotsKept
<1> QED BY <1>1, <1>2, <1>10, <1>11 DEF WriteMemory

LEMMA SetMemorySlots ==
    ASSUME TypeInv, TypeInv', Slots, NEW x \in Rows, SetMemory(x)
    PROVE  Slots'
<1> DEFINE zero == [table |-> "memory", count |-> 0]
<1>1. /\ UNCHANGED <<bytes, req, told, stripe, mail, wakes>> /\ muddled' = muddled \cup {x}
      /\ row'[x] = zero /\ \A y \in Rows \ {x} : row'[y] = row[y]
  BY DEF SetMemory, TypeInv, TypeOK
<1>2. zero.table = "memory" /\ zero # NoRow
  BY Constants
<1> HIDE DEF zero
<1>3. Only(x)
  BY <1>1 DEF Only, LeftAlone
<1>4. /\ \A s \in At(x) : Kind(req[s]) = "memory"
      /\ stripe[x] = NoCheckout /\ \A e \in Events : <<x, e>> \notin mail
  <2>1. CASE Is(x, "memory")
    BY <2>1, Constants DEF Slots, SlotInv, OneKind, Unknown, Is
  <2>2. CASE Free(x, "memory")
    BY <2>2, FreeSlot DEF At
  <2> QED BY <2>1, <2>2 DEF SetMemory
<1>5. \A s \in Requests : s \in At(x)' => Kind(req'[s]) = "memory"
  BY <1>1, <1>4 DEF At
<1>6. Unknown(x)' /\ MemoryInv(x)'
  BY <1>1, <1>2, <1>4 DEF Unknown, MemoryInv
<1> QED BY <1>1, <1>2, <1>3, <1>5, <1>6, OnlyCounted, SlotsKept

-----------------------------------------------------------------------------
\* Billing

\* A slot whose row is that of a workspace, or none.
LEMMA OnlyBilling ==
    ASSUME TypeInv', NEW x \in Rows, Unknown(x)', BillingInv(x)',
           row'[x] = NoRow \/ row'[x].table = "billing",
           \A s \in Requests : s \in At(x)' => Kind(req'[s]) = "billing"
    PROVE  SlotInv(x)'
<1>1. OneKind(x)'
  <2>1. \A s \in Requests : s \in At(x)' => Kind(req[s])' = "billing"
    BY DEF Kind
  <2> QED BY <2>1 DEF OneKind, At
<1>2. ToldInv(x)'
  BY Constants DEF ToldInv, Copied
<1>3. FileInv(x)'
  <2>1. \A s \in Requests : s \in At(x)' => req'[s].at # "storing"
    BY DEF TypeInv, Shaped, Kind
  <2> QED BY <2>1, Constants DEF FileInv, Is, At
<1>4. MemoryInv(x)'
  <2>1. \A s \in Requests : s \in At(x)' => req'[s].copy.table # "memory"
    BY Constants DEF TypeInv, Shaped, Kind
  <2> QED BY <2>1, Constants DEF MemoryInv, Is, At
<1> QED BY <1>1, <1>2, <1>3, <1>4 DEF SlotInv

LEMMA CreateCheckoutSlots ==
    ASSUME TypeInv, TypeInv', Slots, NEW x \in Rows, CreateCheckout(x)
    PROVE  Slots'
<1>1. UNCHANGED <<bytes, req, told, mail, wakes, muddled>>
  BY DEF CreateCheckout
<1>2. \A y \in Rows \ {x} : row'[y] = row[y] /\ stripe'[y] = stripe[y]
  BY DEF CreateCheckout, TypeInv, TypeOK
<1>3. \A k \in Checkouts : \/ stripe'[x][k] = stripe[x][k]
                           \/ stripe[x][k] = "none" /\ stripe'[x][k] = "open"
  BY DEF CreateCheckout, TypeInv, TypeOK, Sessions
<1>4. Only(x)
  BY <1>1, <1>2 DEF Only, LeftAlone
<1>5. CASE /\ Free(x, "billing")
           /\ row' = [row EXCEPT ![x] = [table |-> "billing", status |-> "active", paid |-> FALSE,
                                         subscription |-> FALSE, customer |-> 0]]
  <2>1. /\ row'[x].table = "billing" /\ row'[x] # NoRow
        /\ row'[x].paid = FALSE /\ row'[x].subscription = FALSE /\ row'[x].customer = 0
    BY <1>5, Constants DEF TypeInv, TypeOK
  <2>2. \A s \in Requests : s \notin At(x)'
    BY <1>1, <1>5, FreeSlot DEF At
  <2>3. Unknown(x)'
    BY <2>1 DEF Unknown, Is
  <2>4. ASSUME NEW k \in Checkouts PROVE SessionInv(x, k)'
    <3>1. stripe'[x][k] \in {"none", "open"}
      BY <1>3, <1>5, FreeSlot, EventsOfCheckouts
    <3>2. NotBegun(x, k)'
      BY <1>1, <1>5, <2>1, <2>2, FreeSlot, EventsOfCheckouts DEF NotBegun, At
    <3> QED BY <3>1, <3>2 DEF SessionInv
  <2>5. BillingInv(x)'
    <3>1. Follows(x)'
      BY <2>2, <2>4 DEF Follows, At
    <3> QED BY <2>1, <2>2, <3>1 DEF BillingInv, At
  <2> QED BY <1>4, <2>1, <2>2, <2>3, <2>5, OnlyBilling, SlotsKept
<1>6. CASE Is(x, "billing") /\ UNCHANGED row
  <2>1. SlotInv(x) /\ BillingInv(x) /\ row[x].table = "billing" /\ row[x] # NoRow
    BY <1>6, Constants DEF Slots, SlotInv, Is
  <2>2. \A s \in Requests : s \in At(x)' <=> s \in At(x)
    BY <1>1 DEF At
  <2>3. \A s \in Requests : s \in At(x)' => Kind(req'[s]) = "billing"
    BY <1>1, <2>1, <2>2 DEF SlotInv, OneKind
  <2>4. Unknown(x)'
    BY <1>6, <2>1 DEF Unknown, Is
  <2>5. x \notin muddled => Follows(x)'
    <3> SUFFICES ASSUME Follows(x) PROVE Follows(x)'
      BY <2>1, <1>6 DEF BillingInv
    <3>1. ASSUME NEW k \in Checkouts PROVE SessionInv(x, k)'
      <4>1. SessionInv(x, k)
        BY DEF Follows
      <4>2. CASE stripe'[x][k] = stripe[x][k]
        BY <1>1, <1>6, <2>2, <4>1, <4>2, SessionKept
      <4>3. CASE stripe[x][k] = "none" /\ stripe'[x][k] = "open"
        <5>1. NotBegun(x, k)
          BY <4>1, <4>3 DEF SessionInv
        <5>2. NotBegun(x, k)'
          BY <1>1, <1>6, <2>2, <5>1 DEF NotBegun, At
        <5> QED BY <4>3, <5>2 DEF SessionInv
      <4> QED BY <1>3, <4>2, <4>3
    <3> QED BY <1>1, <2>2, <3>1 DEF Follows, At
  <2>6. BillingInv(x)'
    BY <1>1, <1>6, <2>1, <2>2, <2>5 DEF BillingInv, Is, At
  <2> QED BY <1>4, <1>6, <2>1, <2>3, <2>4, <2>6, OnlyBilling, SlotsKept
<1> QED BY <1>5, <1>6 DEF CreateCheckout

LEMMA SubscriptionSlots ==
    ASSUME TypeInv, TypeInv', Slots, NEW x \in Rows, Subscription(x)
    PROVE  Slots'
<1>1. PICK e \in Events :
        /\ stripe[x][e[1]] = IF e[2] = "completed" THEN "open" ELSE "live"
        /\ stripe' = [stripe EXCEPT ![x][e[1]] = IF e[2] = "deleted" THEN "over" ELSE "live"]
        /\ mail' = mail \cup {<<x, e>>}
  BY DEF Subscription
<1> PICK j \in Checkouts, n \in {"completed", "updated", "deleted"} : j = e[1] /\ n = e[2]
  BY EventsOfCheckouts
<1>2. UNCHANGED <<row, bytes, req, told, wakes, muddled>> /\ row[x].table = "billing" /\ row[x] # NoRow
  BY Constants DEF Subscription, Is
<1>3. /\ stripe'[x][j] = (IF n = "deleted" THEN "over" ELSE "live")
      /\ \A k \in Checkouts \ {j} : stripe'[x][k] = stripe[x][k]
      /\ \A y \in Rows \ {x} : stripe'[y] = stripe[y]
      /\ e = <<j, n>>
  BY <1>1, EventsOfCheckouts DEF TypeInv, TypeOK, Sessions
<1>4. Only(x)
  BY <1>1, <1>2, <1>3 DEF Only, LeftAlone
<1>5. SlotInv(x) /\ BillingInv(x) /\ Is(x, "billing")
  BY <1>2 DEF Slots, SlotInv, Is
<1>6. \A s \in Requests : s \in At(x)' <=> s \in At(x)
  BY <1>2 DEF At
<1>7. \A s \in Requests : s \in At(x)' => Kind(req'[s]) = "billing"
  BY <1>2, <1>5, <1>6 DEF SlotInv, OneKind
<1>8. Unknown(x)'
  BY <1>2 DEF Unknown, Is
<1>9. x \notin muddled => Follows(x)'
  <2> SUFFICES ASSUME Follows(x) PROVE Follows(x)'
    BY <1>5 DEF BillingInv
  <2>1. ASSUME NEW k \in Checkouts \ {j} PROVE SessionInv(x, k)'
    <3>1. SessionInv(x, k)
      BY DEF Follows
    <3>2. \A m \in {"completed", "updated", "deleted"} :
            <<x, <<k, m>>>> \in mail' <=> <<x, <<k, m>>>> \in mail
      BY <1>1, <1>3
    <3> QED BY <1>2, <1>3, <1>6, <3>1, <3>2, SessionKept
  <2>2. SessionInv(x, j)'
    <3>1. SessionInv(x, j)
      BY DEF Follows
    <3>2. CASE n = "completed"
      <4>1. NotBegun(x, j)
        BY <1>1, <3>1, <3>2 DEF SessionInv
      <4>2. Lives(x, j)'
        BY <1>1, <1>2, <1>3, <1>6, <3>2, <4>1 DEF NotBegun, Lives, At
      <4> QED BY <1>3, <3>2, <4>2 DEF SessionInv
    <3>3. CASE n = "updated"
      <4>1. Lives(x, j)
        BY <1>1, <3>1, <3>3 DEF SessionInv
      <4>2. Lives(x, j)'
        BY <1>1, <1>2, <1>3, <1>6, <3>3, <4>1 DEF Lives, At
      <4> QED BY <1>3, <3>3, <4>2 DEF SessionInv
    <3>4. CASE n = "deleted"
      <4>1. Ended(x, j)'
        BY <1>1, <1>3, <3>4 DEF Ended
      <4> QED BY <1>3, <3>4, <4>1 DEF SessionInv
    <3> QED BY <3>2, <3>3, <3>4
  <2> QED BY <1>2, <1>6, <2>1, <2>2 DEF Follows, At
<1>10. BillingInv(x)'
  BY <1>2, <1>5, <1>6, <1>9 DEF BillingInv, Is, At
<1> QED BY <1>2, <1>4, <1>7, <1>8, <1>10, OnlyBilling, SlotsKept

\* An event in the mail says that the subscription has begun; while nothing is muddled
\* all events that are being handled at once are the same event.
LEMMA StripeWebhookSlots ==
    ASSUME TypeInv, TypeInv', Slots, NEW r \in Requests, NEW x \in Rows, NEW e \in Events,
           StripeWebhook(r, x, e)
    PROVE  Slots'
<1>1. /\ UNCHANGED <<row, bytes, told, stripe, wakes>> /\ <<x, e>> \in mail /\ req[r].row = NoRowId
      /\ muddled' = IF OutOfOrder(x, e) THEN muddled \cup {x} ELSE muddled
      /\ SlotInv(x)
  BY DEF StripeWebhook, Slots, Idle
<1>2. row[x].table = "billing" /\ Is(x, "billing") /\ BillingInv(x)
  BY <1>1 DEF SlotInv, Unknown, Is
<1>3. Unknown(x)' /\ (row[x] = NoRow \/ row[x].table = "billing")
  BY <1>1, <1>2, Constants DEF Unknown, Is
<1>4. \A s \in At(x) : Kind(req[s]) = "billing"
  BY <1>1, <1>2, Constants DEF SlotInv, OneKind
<1>5. x \notin muddled' => Follows(x) /\ ~OutOfOrder(x, e)
  BY <1>1, <1>2 DEF BillingInv
<1> PICK j \in Checkouts, n \in {"completed", "updated", "deleted"} : j = e[1] /\ n = e[2]
  BY EventsOfCheckouts
<1>6. e = <<j, n>> /\ \A k \in Checkouts : stripe[x][k] \in {"none", "open", "live", "over"}
  BY EventsOfCheckouts DEF TypeInv, TypeOK, Sessions
<1>7. CASE /\ n = "completed" \/ row[x].customer = j
           /\ \E copy \in AfterEvent(x, e) :
                req' = [req EXCEPT ![r] = [at |-> "writing", row |-> x, copy |-> copy, event |-> e]]
           /\ UNCHANGED mail
  <2>1. PICK copy \in AfterEvent(x, e) :
          req' = [req EXCEPT ![r] = [at |-> "writing", row |-> x, copy |-> copy, event |-> e]]
    BY <1>7
  <2>2. row[x] \in BillingRow
    BY <1>2, TableOfRow DEF TypeInv, TypeOK
  <2>3. /\ copy \in BillingRow
        /\ n = "completed" => copy.paid = TRUE /\ copy.subscription = TRUE
        /\ n = "updated" => copy.paid = row[x].paid /\ copy.subscription = row[x].subscription
        /\ n = "deleted" => copy.paid = FALSE /\ copy.subscription = FALSE
        /\ copy.customer = j
    <3>1. /\ copy \in BillingRow
          /\ n = "completed" => copy.paid = TRUE /\ copy.subscription = TRUE /\ copy.customer = j
          /\ n = "updated" => /\ copy.paid = row[x].paid /\ copy.subscription = row[x].subscription
                             /\ copy.customer = row[x].customer
          /\ n = "deleted" => /\ copy.paid = FALSE /\ copy.subscription = FALSE
                             /\ copy.customer = row[x].customer
      BY <2>2, ChangedPlan
    <3> QED BY <1>7, <3>1
  <2>4. copy \in RowOf /\ copy.table = "billing"
    BY <2>3 DEF RowOf, BillingRow
  <2> DEFINE q == [at |-> "writing", row |-> x, copy |-> copy, event |-> e]
  <2>5. /\ q \in Request /\ Shaped(q) /\ Becomes(r, q)
        /\ q.at = "writing" /\ q.row = x /\ q.copy = copy /\ q.event = e
    BY <2>1, <2>4, Given DEF Becomes
  <2> HIDE DEF q
  <2>6. req'[r] = q /\ (\A s \in Requests \ {r} : req'[s] = req[s])
    BY <2>5, RequestsKept
  <2>7. Only(x)
    BY <1>1, <1>7, <2>5, <2>6, RecordsAssumption DEF Only, LeftAlone
  <2>8. r \notin At(x) /\ \A s \in Requests : s \in At(x)' <=> s = r \/ s \in At(x)
    BY <1>1, <2>5, <2>6, RecordsAssumption DEF At
  <2>9. \A s \in At(x) : s \in Requests \ {r} /\ req'[s] = req[s]
    BY <2>6, <2>8 DEF At
  <2>10. \A s \in Requests : s \in At(x)' => Kind(req'[s]) = "billing"
    BY <1>4, <2>4, <2>5, <2>6, <2>8, <2>9 DEF Kind
  <2>11. copy.paid = copy.subscription /\ (n = "deleted" => ~copy.paid)
    BY <1>2, <2>3 DEF BillingInv
  <2>12. req'[r].event = e /\ req'[r].copy = copy /\ \A s \in At(x)' : s = r \/ s \in At(x)
    BY <2>5, <2>6, <2>8 DEF At
  <2>13. ASSUME x \notin muddled', NEW k \in Checkouts PROVE SessionInv(x, k)'
    <3>1. SessionInv(x, k) /\ ~OutOfOrder(x, e)
      BY <1>5, <2>13 DEF Follows
    <3>2. CASE stripe[x][k] \in {"none", "open"}
      <4>1. NotBegun(x, k) /\ j # k
        BY <1>1, <1>6, <3>1, <3>2 DEF SessionInv, NotBegun
      <4>2. \A s \in At(x)' : req'[s].event[1] # k
        BY <2>9, <2>12, <4>1 DEF NotBegun
      <4>3. NotBegun(x, k)'
        BY <1>1, <1>7, <4>1, <4>2 DEF NotBegun
      <4> QED BY <1>1, <3>2, <4>3 DEF SessionInv
    <3>3. CASE stripe[x][k] = "live"
      <4>1. Lives(x, k)
        BY <3>1, <3>3 DEF SessionInv
      <4>2. j = k => copy.paid
        BY <1>1, <1>6, <1>7, <2>3, <4>1 DEF Lives
      <4>3. \A s \in At(x)' : req'[s].event[1] = k => req'[s].copy.paid
        BY <2>9, <2>12, <4>1, <4>2 DEF Lives
      <4>4. Lives(x, k)'
        BY <1>1, <1>7, <4>1, <4>3 DEF Lives
      <4> QED BY <1>1, <3>3, <4>4 DEF SessionInv
    <3>4. CASE stripe[x][k] = "over"
      <4>1. Ended(x, k)
        BY <3>1, <3>4 DEF SessionInv
      <4>2. CASE <<x, <<k, "deleted">>>> \in mail
        BY <1>1, <1>7, <3>4, <4>2 DEF SessionInv, Ended
      <4>3. CASE <<x, <<k, "deleted">>>> \notin mail
        <5>1. j = k => ~copy.paid
          BY <1>7, <2>3, <3>1, <3>4, <4>1, <4>3 DEF Ended, OutOfOrder
        <5>2. \A s \in At(x)' : req'[s].event[1] = k => ~req'[s].copy.paid
          BY <2>9, <2>12, <4>1, <4>3, <5>1 DEF Ended
        <5>3. Ended(x, k)'
          BY <1>1, <4>1, <4>3, <5>2 DEF Ended
        <5> QED BY <1>1, <3>4, <5>3 DEF SessionInv
      <4> QED BY <4>2, <4>3
    <3> QED BY <1>6, <3>2, <3>3, <3>4
  <2>14. ASSUME x \notin muddled' PROVE Follows(x)'
    <3>1. \A s \in At(x)' : req'[s].event = e
      BY <1>5, <2>9, <2>12, <2>14 DEF OutOfOrder
    <3> QED BY <2>13, <2>14, <3>1 DEF Follows
  <2>15. BillingInv(x)'
    <3>1. \A s \in At(x)' : /\ req'[s].copy.paid = req'[s].copy.subscription
                            /\ req'[s].copy.customer = req'[s].event[1]
                            /\ req'[s].event[2] = "deleted" => ~req'[s].copy.paid
      <4>1. \A s \in At(x) : /\ req[s].copy.paid = req[s].copy.subscription
                             /\ req[s].copy.customer = req[s].event[1]
                             /\ req[s].event[2] = "deleted" => ~req[s].copy.paid
        BY <1>2 DEF BillingInv
      <4> QED BY <2>3, <2>9, <2>11, <2>12, <4>1
    <3>2. row'[x].paid = row'[x].subscription /\ (row'[x].customer = 0 => ~row'[x].paid)
      BY <1>1, <1>2 DEF BillingInv
    <3> QED BY <2>14, <3>1, <3>2 DEF BillingInv
  <2> QED BY <1>1, <1>3, <2>7, <2>10, <2>15, OnlyBilling, SlotsKept
<1>8. CASE n # "completed" /\ row[x].customer # j /\ mail' = mail \ {<<x, e>>} /\ UNCHANGED req
  <2>1. Only(x)
    BY <1>1, <1>8 DEF Only, LeftAlone
  <2>2. \A s \in Requests : s \in At(x)' <=> s \in At(x)
    BY <1>8 DEF At
  <2>3. \A s \in Requests : s \in At(x)' => Kind(req'[s]) = "billing"
    BY <1>4, <1>8, <2>2
  <2>4. ASSUME x \notin muddled', NEW k \in Checkouts PROVE SessionInv(x, k)'
    <3>1. SessionInv(x, k) /\ ~OutOfOrder(x, e)
      BY <1>5, <2>4 DEF Follows
    <3>2. CASE k = j /\ n = "deleted"
      <4>1. stripe'[x][k] = "over"
        BY <1>1, <1>6, <3>1, <3>2 DEF SessionInv, NotBegun, Lives
      <4>2. \A s \in At(x)' : s \in At(x) /\ req'[s] = req[s] /\ req[s].event = e
        BY <1>8, <2>2, <3>1 DEF OutOfOrder, At
      <4>3. \A s \in At(x)' : ~req'[s].copy.paid
        BY <1>2, <1>6, <3>2, <4>2 DEF BillingInv
      <4>4. Ended(x, k)'
        BY <1>1, <1>8, <3>2, <4>3 DEF Ended
      <4> QED BY <4>1, <4>4 DEF SessionInv
    <3>3. CASE ~(k = j /\ n = "deleted")
      <4>1. /\ \A m \in {"completed", "updated", "deleted"} :
                  <<x, <<k, m>>>> \in mail' => <<x, <<k, m>>>> \in mail
            /\ \A m \in {"completed", "deleted"} : <<x, <<k, m>>>> \in mail => <<x, <<k, m>>>> \in mail'
        BY <1>6, <1>8, <3>3
      <4> QED BY <1>1, <1>8, <2>2, <3>1, <4>1, SessionKept
    <3> QED BY <3>2, <3>3
  <2>5. ASSUME x \notin muddled' PROVE Follows(x)'
    BY <1>5, <1>8, <2>2, <2>4, <2>5 DEF Follows, At
  <2>6. BillingInv(x)'
    BY <1>1, <1>2, <1>8, <2>2, <2>5 DEF BillingInv, Is, At
  <2> QED BY <1>1, <1>3, <2>1, <2>3, <2>6, OnlyBilling, SlotsKept
<1> QED BY <1>7, <1>8 DEF StripeWebhook

LEMMA WriteBillingSlots ==
    ASSUME TypeInv, TypeInv', Slots, NEW r \in Requests, WriteBilling(r)
    PROVE  Slots'
<1>1. PICK x \in Rows : x = req[r].row
  BY DEF TypeInv, WriteBilling, Shaped
<1>2. PICK copy \in BillingRow : copy = req[r].copy
  BY DEF WriteBilling
<1>3. PICK e \in Events : e = req[r].event
  BY <1>2 DEF WriteBilling, TypeInv, Shaped, Kind, BillingRow
<1>4. /\ req[r].at = "writing" /\ copy.table = "billing" /\ UNCHANGED <<bytes, told, stripe, wakes>>
      /\ Done(r) /\ mail' \in {mail, mail \ {<<x, e>>}}
  BY <1>1, <1>2, <1>3 DEF WriteBilling, BillingRow
<1>5. req'[r] = Idle /\ (\A s \in Requests \ {r} : req'[s] = req[s])
  BY <1>4, IdleAgain, RequestsKept
<1>6. SlotInv(x) /\ r \in At(x) /\ \A s \in Requests : s \in At(x)' <=> s # r /\ s \in At(x)
  BY <1>1, <1>5, Constants DEF At, Slots
<1>7. \A s \in At(x)' : s \in At(x) /\ req'[s] = req[s]
  BY <1>5, <1>6 DEF At
<1>8. Kind(req[r]) = "billing"
  BY <1>2, <1>4 DEF Kind
<1>9. \A s \in At(x) : Kind(req[s]) = "billing"
  BY <1>6, <1>8 DEF SlotInv, OneKind
<1>10. row[x] # NoRow => row[x].table = "billing" /\ Is(x, "billing") /\ BillingInv(x)
  BY <1>6, <1>8 DEF SlotInv, OneKind, Is
<1>11. \A s \in Requests : s \in At(x)' => Kind(req'[s]) = "billing"
  BY <1>5, <1>6, <1>9
<1>12. \A y \in Rows : \A f \in Events : /\ <<y, f>> \in mail' => <<y, f>> \in mail
                                         /\ y # x \/ f # e => (<<y, f>> \in mail' <=> <<y, f>> \in mail)
  BY <1>4
<1> PICK j \in Checkouts, n \in {"completed", "updated", "deleted"} : j = e[1] /\ n = e[2]
  BY EventsOfCheckouts
<1>13. e = <<j, n>> /\ j # 0 /\ \A k \in Checkouts : stripe[x][k] \in {"none", "open", "live", "over"}
  BY EventsOfCheckouts DEF TypeInv, TypeOK, Sessions
<1>14. CASE /\ row' = IF row[x] = NoRow THEN row ELSE [row EXCEPT ![x] = copy]
            /\ UNCHANGED muddled
  <2>1. /\ row'[x] = (IF row[x] = NoRow THEN row[x] ELSE copy)
        /\ \A y \in Rows \ {x} : row'[y] = row[y]
    BY <1>14 DEF TypeInv, TypeOK
  <2>2. Only(x)
    BY <1>1, <1>4, <1>5, <1>12, <1>14, <2>1, Constants DEF Only, LeftAlone
  <2>3. row'[x] = NoRow \/ row'[x].table = "billing"
    BY <1>4, <2>1
  <2>4. Unknown(x)'
    <3>1. row'[x] = NoRow => row[x] = NoRow
      BY <1>4, <2>1, Constants
    <3>2. row[x] # NoRow => Is(x, "billing")'
      BY <1>4, <2>1 DEF Is
    <3>3. row[x] = NoRow => stripe[x] = NoCheckout /\ \A f \in Events : <<x, f>> \notin mail
      BY <1>6, Constants DEF SlotInv, Unknown, Is
    <3> QED BY <1>4, <1>6, <1>12, <3>1, <3>2, <3>3 DEF SlotInv, Unknown
  <2>5. BillingInv(x)'
    <3> SUFFICES ASSUME row[x] # NoRow PROVE BillingInv(x)'
      BY <2>1, Constants DEF BillingInv, Is
    <3>1. row'[x] = copy /\ BillingInv(x) /\ Is(x, "billing")
      BY <1>10, <2>1
    <3>2. /\ \A s \in At(x) : /\ req[s].copy.paid = req[s].copy.subscription
                              /\ req[s].copy.customer = req[s].event[1]
                              /\ req[s].event[2] = "deleted" => ~req[s].copy.paid
          /\ copy.paid = copy.subscription /\ copy.customer = j /\ (n = "deleted" => ~copy.paid)
      BY <1>2, <1>3, <1>6, <3>1 DEF BillingInv
    <3>3. ASSUME x \notin muddled, NEW k \in Checkouts PROVE SessionInv(x, k)'
      <4>1. Follows(x) /\ SessionInv(x, k)
        BY <3>1, <3>3 DEF BillingInv, Follows
      <4>2. \A m \in {"completed", "updated", "deleted"} :
              /\ <<x, <<k, m>>>> \in mail' => <<x, <<k, m>>>> \in mail
              /\ ~(k = j /\ m = n) => (<<x, <<k, m>>>> \in mail' <=> <<x, <<k, m>>>> \in mail)
        BY <1>4, <1>13
      <4>3. CASE stripe[x][k] \in {"none", "open"}
        <5>1. NotBegun(x, k) /\ j # k
          BY <1>3, <1>6, <4>1, <4>3 DEF SessionInv, NotBegun
        <5>2. NotBegun(x, k)'
          BY <1>7, <3>1, <3>2, <4>2, <5>1 DEF NotBegun
        <5> QED BY <1>4, <4>3, <5>2 DEF SessionInv
      <4>4. CASE stripe[x][k] = "live"
        <5>1. Lives(x, k) /\ (j = k => copy.paid)
          BY <1>2, <1>3, <1>6, <4>1, <4>4 DEF SessionInv, Lives
        <5>2. Lives(x, k)'
          BY <1>7, <1>13, <3>1, <3>2, <4>2, <5>1 DEF Lives
        <5> QED BY <1>4, <4>4, <5>2 DEF SessionInv
      <4>5. CASE stripe[x][k] = "over"
        <5>1. Ended(x, k)
          BY <4>1, <4>5 DEF SessionInv
        <5>2. CASE <<x, <<k, "deleted">>>> \in mail'
          BY <1>4, <4>5, <5>2 DEF SessionInv, Ended
        <5>3. CASE <<x, <<k, "deleted">>>> \notin mail'
          <6>1. (j = k => ~copy.paid) /\ \A s \in At(x) : req[s].event[1] = k => ~req[s].copy.paid
            <7>1. CASE <<x, <<k, "deleted">>>> \in mail
              <8>1. k = j /\ n = "deleted"
                BY <4>2, <5>3, <7>1
              <8>2. \A s \in At(x) : req[s].event = e
                BY <1>3, <1>6, <4>1 DEF Follows
              <8> QED BY <3>2, <8>1, <8>2
            <7>2. CASE <<x, <<k, "deleted">>>> \notin mail
              BY <1>2, <1>3, <1>6, <5>1, <7>2 DEF Ended
            <7> QED BY <7>1, <7>2
          <6>2. Ended(x, k)'
            BY <1>7, <3>1, <3>2, <6>1 DEF Ended
          <6> QED BY <1>4, <4>5, <6>2 DEF SessionInv
        <5> QED BY <5>2, <5>3
      <4> QED BY <1>13, <4>3, <4>4, <4>5
    <3>4. ASSUME x \notin muddled PROVE Follows(x)'
      <4>1. Follows(x)
        BY <3>1, <3>4 DEF BillingInv
      <4>2. \A s, t \in At(x)' : req'[s].event = req'[t].event
        BY <1>7, <4>1 DEF Follows
      <4> QED BY <3>3, <3>4, <4>2 DEF Follows
    <3>5. \A s \in At(x)' : /\ req'[s].copy.paid = req'[s].copy.subscription
                            /\ req'[s].copy.customer = req'[s].event[1]
                            /\ req'[s].event[2] = "deleted" => ~req'[s].copy.paid
      BY <1>7, <3>2
    <3> QED BY <1>13, <1>14, <3>1, <3>2, <3>4, <3>5 DEF BillingInv
  <2> QED BY <1>11, <2>2, <2>3, <2>4, <2>5, OnlyBilling, SlotsKept
<1>15. CASE /\ Spoil(IF <<x, e>> \in mail' THEN {} ELSE {x})
            /\ UNCHANGED row
  <2>1. Only(x)
    <3> SUFFICES ASSUME NEW y \in Rows \ {x} PROVE LeftAlone(y)
      BY DEF Only
    <3>1. \A s \in Requests : req'[s] = req[s] \/ (req'[s].row # y /\ req[s].row # y)
      BY <1>1, <1>5, Constants
    <3> QED BY <1>4, <1>12, <1>15, <3>1, Spoiled DEF LeftAlone, At
  <2>2. Unknown(x)'
    BY <1>4, <1>6, <1>12, <1>15 DEF SlotInv, Unknown, Is, NoRow
  <2>3. BillingInv(x)'
    <3> SUFFICES ASSUME row[x] # NoRow PROVE BillingInv(x)'
      BY <1>15, Constants DEF BillingInv, Is
    <3>1. row'[x] = row[x] /\ BillingInv(x) /\ Is(x, "billing")
      BY <1>10, <1>15
    <3>2. ASSUME x \notin muddled' PROVE Follows(x)'
      <4>1. x \notin muddled /\ <<x, e>> \in mail'
        BY <1>15, <3>2, Spoiled
      <4>2. Follows(x) /\ mail' = mail
        BY <1>4, <3>1, <4>1 DEF BillingInv
      <4>3. \A s, t \in At(x)' : req'[s].event = req'[t].event
        BY <1>7, <4>2 DEF Follows
      <4>4. ASSUME NEW k \in Checkouts PROVE SessionInv(x, k)'
        <5>1. SessionInv(x, k)
          BY <4>2 DEF Follows
        <5> QED BY <1>4, <1>7, <3>1, <4>2, <5>1, SessionKept
      <4> QED BY <4>3, <4>4 DEF Follows
    <3>3. /\ row'[x].paid = row'[x].subscription /\ (row'[x].customer = 0 => ~row'[x].paid)
          /\ \A s \in At(x)' : /\ req'[s].copy.paid = req'[s].copy.subscription
                               /\ req'[s].copy.customer = req'[s].event[1]
                               /\ req'[s].event[2] = "deleted" => ~req'[s].copy.paid
      BY <1>7, <3>1 DEF BillingInv
    <3> QED BY <3>2, <3>3 DEF BillingInv
  <2> QED BY <1>10, <1>11, <1>15, <2>1, <2>2, <2>3, OnlyBilling, SlotsKept
<1> QED BY <1>1, <1>2, <1>3, <1>14, <1>15 DEF WriteBilling

-----------------------------------------------------------------------------
\* Crashes, and all the steps together

LEMMA CrashSlots ==
    ASSUME TypeInv, TypeInv', Slots, Crash
    PROVE  Slots'
<1> DEFINE X == {req[s].row : s \in {t \in Requests : req[t].at \in {"telling", "removing"}}}
<1>1. /\ UNCHANGED <<row, bytes, told, stripe, mail, wakes>> /\ Spoil(X)
      /\ \A s \in Requests : req'[s] = Idle
  BY DEF Crash
<1>2. \A s \in Requests : req[s].at \in {"telling", "removing"} => req[s].row \in X
  OBVIOUS
<1> HIDE DEF X
<1> SUFFICES ASSUME NEW x \in Rows PROVE SlotInv(x)'
  BY DEF Slots
<1>3. SlotInv(x) /\ \A s \in Requests : s \notin At(x)'
  BY <1>1, Constants DEF At, Slots
<1>4. x \notin muddled' /\ row[x] # NoRow =>
        x \notin muddled /\ \A s \in At(x) : req[s].at \notin {"telling", "removing"}
  BY <1>1, <1>2, Spoiled DEF At
<1>5. OneKind(x)'
  BY <1>3 DEF OneKind, At
<1>6. Unknown(x)'
  BY <1>1, <1>3 DEF SlotInv, Unknown, Is, NoRow
<1>7. ToldInv(x)'
  <2> SUFFICES ASSUME x \notin muddled', row[x].table \in Copied \cup {"file"} PROVE ToldInv(x)'
    BY <1>1 DEF ToldInv, Copied
  <2>1. row[x] # NoRow
    BY Constants DEF Copied
  <2>2. told[x] # NoRow /\ Content(told[x]) = Content(row[x])
    BY <1>3, <1>4, <2>1 DEF SlotInv, ToldInv
  <2> QED BY <1>1, <1>3, <2>2 DEF ToldInv, Quiet, At
<1>8. FileInv(x)'
  <2>1. Is(x, "file") /\ x \notin muddled' => x \in bytes
    BY <1>3, <1>4, Constants DEF SlotInv, FileInv, Is
  <2> QED BY <1>1, <1>3, <2>1 DEF FileInv, Is, At
<1>9. MemoryInv(x)'
  <2>1. Is(x, "memory") /\ x \notin muddled' => row[x].count = wakes[x]
    BY <1>3, <1>4, Constants DEF SlotInv, MemoryInv, Is
  <2> QED BY <1>1, <1>3, <2>1 DEF MemoryInv, Is, At
<1>10. BillingInv(x)'
  <2> SUFFICES ASSUME Is(x, "billing") PROVE BillingInv(x)'
    BY <1>1 DEF BillingInv, Is
  <2>1. BillingInv(x) /\ row[x] # NoRow
    BY <1>3, Constants DEF SlotInv, Is
  <2>2. x \notin muddled' => Follows(x)'
    <3> SUFFICES ASSUME Follows(x) PROVE Follows(x)'
      BY <1>4, <2>1 DEF BillingInv
    <3>1. ASSUME NEW k \in Checkouts PROVE SessionInv(x, k)'
      <4>1. SessionInv(x, k)
        BY DEF Follows
      <4> QED BY <1>1, <1>3, <4>1, SessionKept
    <3> QED BY <1>3, <3>1 DEF Follows, At
  <2> QED BY <1>1, <1>3, <2>1, <2>2 DEF BillingInv, At
<1> QED BY <1>5, <1>6, <1>7, <1>8, <1>9, <1>10 DEF SlotInv

LEMMA SlotsBegin == Init => Slots
<1> SUFFICES ASSUME Init, NEW x \in Rows PROVE SlotInv(x)
  BY DEF Slots
<1>1. row[x] = NoRow /\ row[x].table = "none" /\ (\A s \in Requests : s \notin At(x))
        /\ told[x] = NoRow /\ wakes[x] = 0 /\ stripe[x] = NoCheckout /\ mail = {}
  BY Constants DEF Init, At
<1>2. OneKind(x) /\ Unknown(x)
  BY <1>1 DEF OneKind, Unknown, At
<1>3. ToldInv(x) /\ FileInv(x) /\ MemoryInv(x) /\ BillingInv(x)
  BY <1>1 DEF ToldInv, Copied, FileInv, MemoryInv, BillingInv, Is, At
<1> QED BY <1>2, <1>3 DEF SlotInv

LEMMA SlotsStep == TypeInv /\ TypeInv' /\ Slots /\ [Next]_vars => Slots'
<1> SUFFICES ASSUME TypeInv, TypeInv', Slots, [Next]_vars PROVE Slots'
  OBVIOUS
<1>1. ASSUME NEW r \in Requests, NEW x \in Rows,
             CreateTask(r, x) \/ CreateApproval(r, x) \/ CreateReview(r, x) \/ CallOffer(r, x)
               \/ CreateItem(r, x)
      PROVE  Slots'
  BY <1>1, Inserts, InsertSlots
<1>2. ASSUME NEW r \in Requests, NEW x \in Rows,
             UpdateTask(r, x) \/ ReviewApproval(r, x) \/ UpdateReview(r, x) \/ CallAnswer(r, x)
               \/ CallEnd(r, x) \/ UpdateItem(r, x)
      PROVE  Slots'
  BY <1>2, Loads, LoadSlots
<1>3. ASSUME NEW r \in Requests, NEW x \in Rows,
             Upload(r, x) \/ DeleteFile(r, x) \/ RecordWake(r, x)
               \/ \E e \in Events : StripeWebhook(r, x, e)
      PROVE  Slots'
  BY <1>3, UploadSlots, DeleteFileSlots, RecordWakeSlots, StripeWebhookSlots
<1>4. ASSUME NEW r \in Requests,
             \/ WriteRow(r) \/ WriteFails(r) \/ Tell(r)
             \/ StoreFile(r) \/ RemoveFile(r) \/ WriteMemory(r) \/ WriteBilling(r)
      PROVE  Slots'
  BY <1>4, WriteRowSlots, WriteFailsSlots, TellSlots, StoreFileSlots, RemoveFileSlots,
     WriteMemorySlots, WriteBillingSlots
<1>5. ASSUME NEW x \in Rows, DeleteTask(x) \/ DeleteItem(x) \/ DeleteMemory(x) \/ Cascade(x)
      PROVE  Slots'
  BY <1>5, DeleteSlots
<1>6. ASSUME NEW x \in Rows, SetMemory(x) \/ SaveFails(x) \/ CreateCheckout(x) \/ Subscription(x)
      PROVE  Slots'
  BY <1>6, SetMemorySlots, SaveFailsSlots, CreateCheckoutSlots, SubscriptionSlots
<1>7. CASE UNCHANGED vars
  <2> SUFFICES ASSUME NEW x \in Rows PROVE LeftAlone(x)
    BY SlotLeftAlone DEF Slots
  <2> QED BY <1>7 DEF vars, LeftAlone
<1> QED BY <1>1, <1>2, <1>3, <1>4, <1>5, <1>6, <1>7, CrashSlots DEF Next

LEMMA SlotsAlways == Spec => [](TypeInv /\ Slots)
BY TypesBegin, TypesStep, SlotsBegin, SlotsStep, PTL DEF Spec

-----------------------------------------------------------------------------
\* What the slots show

\* Without two overlapping reviews, a failed step or a crash on the way, a request
\* for approval stays as its agent was told that it was decided: handleReviewApproval
\* finds it decided and refuses.
THEOREM DecisionsFinal == Spec => []DecisionsStand
<1>1. TypeInv /\ Slots => DecisionsStand
  <2> SUFFICES ASSUME TypeInv, Slots, NEW x \in Rows, Is(x, "approval"), x \notin muddled,
                      told[x] \in ApprovalRow, told[x].status # "pending"
               PROVE  row[x] = told[x]
    BY DEF DecisionsStand
  <2>1. ToldInv(x) /\ row[x].table = "approval" /\ row[x] \in ApprovalRow
    BY TableOfRow DEF Slots, SlotInv, Is, TypeInv, TypeOK
  <2>2. Quiet(x)
    BY <2>1 DEF ToldInv, Copied, Decided
  <2>3. Content(told[x]) = Content(row[x])
    BY <2>1, <2>2 DEF ToldInv, Copied, Quiet
  <2> QED BY <2>1, <2>3, ContentOf DEF ToldRow
<1> QED BY <1>1, SlotsAlways, PTL

\* What is told of a task, approval, review, call or item last is what is stored of it,
\* in the columns that the UPDATE has (the handlers of each, which tell after they wrote),
\* while requests for one row do not overlap and no step of them fails.
THEOREM ToldAlwaysStored == Spec => []ToldAsStored
<1>1. TypeInv /\ Slots => ToldAsStored
  <2> SUFFICES ASSUME TypeInv, Slots, NEW x \in Rows, row[x] \in ToldRow, Quiet(x), x \notin muddled
               PROVE  told[x] # NoRow /\ Content(told[x]) = Content(row[x])
    BY DEF ToldAsStored
  <2>1. row[x].table \in Copied \cup {"file"}
    BY ToldOfRow DEF TypeInv, TypeOK
  <2> QED BY <2>1 DEF Slots, SlotInv, ToldInv, Quiet
<1> QED BY <1>1, SlotsAlways, PTL

\* A file that is listed can be downloaded, also after an upload or a deletion that
\* stopped halfway, but for a deletion whose row could not be deleted
\* (handleUploadFile, handleDeleteFile).
THEOREM FilesAlwaysHaveBytes == Spec => []FilesHaveBytes
<1>1. Slots => FilesHaveBytes
  BY DEF Slots, SlotInv, FileInv, FilesHaveBytes
<1> QED BY <1>1, SlotsAlways, PTL

\* Wakes that do not overlap are all counted, also when some are lost to a failed write
\* and after the counter was deleted (RecordWake).
THEOREM WakesAlwaysCounted == Spec => []WakesCounted
<1>1. Slots => WakesCounted
  BY DEF Slots, SlotInv, MemoryInv, WakesCounted
<1> QED BY <1>1, SlotsAlways, PTL

\* A workspace whose events were all handled, one after the other and its start before
\* its end, has the plan of the subscription that was started last, for any number of
\* checkouts (handleCreateCheckout, handleStripeWebhook).
THEOREM PlansAlwaysFollow == Spec => []PlansFollowStripe
<1>1. TypeInv /\ Slots => PlansFollowStripe
  <2> SUFFICES ASSUME TypeInv, Slots, NEW x \in Rows, Is(x, "billing")
               PROVE  /\ row[x].paid = row[x].subscription
                      /\ Quiet(x) /\ x \notin muddled /\ (\A e \in mail : e[1] # x)
                            => LET k == row[x].customer IN
                               IF k = 0 THEN ~row[x].paid /\ (\A j \in Checkouts : stripe[x][j] # "live")
                               ELSE row[x].paid <=> stripe[x][k] = "live"
    BY DEF PlansFollowStripe
  <2>1. BillingInv(x) /\ row[x].customer \in {0} \cup Checkouts
    BY TableOfRow DEF Slots, SlotInv, TypeInv, TypeOK, Is, BillingRow
  <2>2. ASSUME Quiet(x), x \notin muddled, \A e \in mail : e[1] # x
        PROVE  LET k == row[x].customer IN
               IF k = 0 THEN ~row[x].paid /\ (\A j \in Checkouts : stripe[x][j] # "live")
               ELSE row[x].paid <=> stripe[x][k] = "live"
    <3>1. Follows(x) /\ (row[x].customer = 0 => ~row[x].paid)
      BY <2>1, <2>2 DEF BillingInv
    <3>2. \A e \in Events : <<x, e>> \notin mail
      BY <2>2
    <3>3. \A k \in Checkouts : stripe[x][k] \in {"none", "open", "live", "over"}
      BY DEF TypeInv, TypeOK, Sessions
    <3>4. \A j \in Checkouts : stripe[x][j] = "live" => row[x].customer # 0
      BY <3>1, <3>2, EventsOfCheckouts DEF Follows, SessionInv, Lives
    <3>5. ASSUME NEW k \in Checkouts, row[x].customer = k
          PROVE  row[x].paid <=> stripe[x][k] = "live"
      <4>1. CASE stripe[x][k] \in {"none", "open"}
        BY <3>1, <3>5, <4>1 DEF Follows, SessionInv, NotBegun
      <4>2. CASE stripe[x][k] = "live"
        <5>1. row[x].paid
          BY <3>1, <3>5, <4>2 DEF Follows, SessionInv, Lives
        <5> QED BY <4>2, <5>1
      <4>3. CASE stripe[x][k] = "over"
        <5>1. Ended(x, k) /\ <<x, <<k, "deleted">>>> \notin mail
          BY <3>1, <3>2, <4>3, EventsOfCheckouts DEF Follows, SessionInv
        <5>2. ~row[x].paid
          BY <3>5, <5>1 DEF Ended
        <5> QED BY <4>3, <5>2
      <4> QED BY <3>3, <4>1, <4>2, <4>3
    <3>6. CASE row[x].customer = 0
      BY <3>1, <3>4, <3>6
    <3>7. CASE row[x].customer # 0
      <4>1. PICK k \in Checkouts : row[x].customer = k
        BY <2>1, <3>7
      <4> QED BY <3>5, <3>7, <4>1
    <3> QED BY <3>6, <3>7
  <2> QED BY <2>1, <2>2 DEF BillingInv
<1> QED BY <1>1, SlotsAlways, PTL
=============================================================================
