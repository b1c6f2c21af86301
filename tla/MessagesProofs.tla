--------------------------- MODULE MessagesProofs ---------------------------
(***************************************************************************)
(* Theorems about Messages, for all messages, members, readers and         *)
(* requests, and any number of edits.                                      *)
(***************************************************************************)
EXTENDS Messages, FiniteSetTheorems, TLAPS

-----------------------------------------------------------------------------
\* Invariants

\* The locals of a request fit the step that it is at.
Shaped(q) ==
    /\ q.at = "idle" <=> q = Idle
    /\ q.at # "idle" => q.msg \in Messages
    /\ q.at # "mentioning" => q.todo = {}

TypeInv == TypeOK /\ \A r \in Requests : Shaped(req[r])

\* A request that has yet to send a frame, and the text that it will show.
Pending(q) == q.at \in {"announcing", "showing", "erasing"}

Framed(q) == IF q.at = "announcing" THEN 0 ELSE IF q.at = "erasing" THEN Nothing ELSE q.text

\* A reader was last told what is stored, or nothing of a message that was there before.
Agrees(u, m) == shown[u][m] = Listed[m] \/ (Stored(m) /\ shown[u][m] = Unseen)

\* Nobody is at work on a message that is not there yet.  While a message is not
\* astray, whoever has written it shows what is stored, and who has not found it stored.
ShownInv(m) ==
    /\ row[m].state = "none" => \A r \in Requests : req[r].msg # m
    /\ m \notin astray =>
         /\ \A r \in Requests : req[r].msg = m =>
               /\ req[r].at \in {"tracing", "saving"} => Stored(m)
               /\ Pending(req[r]) => Framed(req[r]) = Listed[m]
         /\ (\A r \in Requests : ~(req[r].msg = m /\ Pending(req[r])))
               => \A u \in Readers : Agrees(u, m)

\* Nobody has worked on a message that is not there yet.
Untouched(m) ==
    row[m].state = "none" => /\ \A r \in Requests : req[r].msg # m
                             /\ \A u \in Members : note[m][u] = "none"

\* The rows hang together.
RowsInv == TypeInv /\ RepliesCounted /\ NothingDangles

-----------------------------------------------------------------------------
\* Requests

LEMMA Constants ==
    /\ Idle \in Request /\ Shaped(Idle) /\ Idle.at = "idle" /\ Idle.msg = NoMessage /\ Idle.todo = {}
    /\ Idle.msg \notin Messages /\ Idle.text = 0
    /\ NoRow \in Row /\ NoRow.state = "none" /\ NoRow.parent = NoMessage /\ NoRow.replies = 0
    /\ NoRow.text = 0
    /\ 0 \in Texts /\ Nothing \notin Texts /\ Texts \subseteq Int /\ Nothing \in Int
    /\ Unseen \notin Texts /\ Unseen # Nothing
    /\ NoAnswer \in [Messages -> Texts \cup {Nothing}]
BY MessagesAssumption DEF Idle, Request, Shaped, NoRow, Row, Texts, Nothing, Unseen, NoAnswer

\* One request is given new locals, and the others keep theirs.
Becomes(r, q) == req' = [req EXCEPT ![r] = q]

LEMMA RequestsKept ==
    ASSUME TypeInv, NEW r \in Requests, NEW q \in Request, Shaped(q), Becomes(r, q)
    PROVE  /\ req' \in [Requests -> Request]
           /\ (\A s \in Requests : Shaped(req[s]))'
           /\ req'[r] = q
           /\ \A s \in Requests \ {r} : req'[s] = req[s]
<1>1. /\ req' \in [Requests -> Request]
      /\ req'[r] = q
      /\ \A s \in Requests \ {r} : req'[s] = req[s]
  BY DEF TypeInv, TypeOK, Becomes
<1>2. ASSUME NEW s \in Requests PROVE Shaped(req[s])'
  <2>1. Shaped(req'[s])
    BY <1>1 DEF TypeInv
  <2> QED BY <2>1 DEF Shaped, Idle
<1> QED BY <1>1, <1>2

\* A request goes on to its next step.
LEMMA GoingOn ==
    ASSUME TypeInv, NEW r \in Requests, req[r].at \notin {"idle", "mentioning"},
           NEW at \in {"saving", "showing"}, To(r, at)
    PROVE  \E q \in Request : /\ Shaped(q) /\ Becomes(r, q)
                              /\ q.at = at /\ q.via = req[r].via /\ q.msg = req[r].msg
                              /\ q.text = req[r].text /\ q.edits = req[r].edits /\ q.todo = {}
<1> DEFINE q == [req[r] EXCEPT !.at = at]
<1>1. req[r] \in Request /\ Shaped(req[r])
  BY DEF TypeInv, TypeOK
<1>2. /\ q \in Request /\ q.at = at /\ q.via = req[r].via /\ q.msg = req[r].msg
      /\ q.text = req[r].text /\ q.edits = req[r].edits /\ q.todo = req[r].todo
  BY <1>1 DEF Request
<1>3. Becomes(r, q)
  BY DEF To, Becomes
<1> HIDE DEF q
<1>4. Shaped(q)
  BY <1>1, <1>2, Constants DEF Shaped
<1> QED BY <1>1, <1>2, <1>3, <1>4 DEF Shaped

\* The mentions of a request are changed.
LEMMA TodoChanged ==
    ASSUME TypeInv, NEW r \in Requests, req[r].at \in {"announcing", "mentioning"},
           NEW todo \in SUBSET Members
    PROVE  LET q == [req[r] EXCEPT !.at = "mentioning", !.todo = todo] IN
           q \in Request /\ Shaped(q) /\ q.at = "mentioning" /\ q.msg = req[r].msg /\ q.todo = todo
<1> DEFINE q == [req[r] EXCEPT !.at = "mentioning", !.todo = todo]
<1>1. req[r] \in Request /\ Shaped(req[r])
  BY DEF TypeInv, TypeOK
<1>2. q \in Request /\ q.at = "mentioning" /\ q.msg = req[r].msg /\ q.todo = todo
  BY <1>1 DEF Request
<1> HIDE DEF q
<1>3. Shaped(q)
  BY <1>1, <1>2, Constants DEF Shaped
<1> QED BY <1>2, <1>3 DEF q

LEMMA IdleAgain ==
    ASSUME NEW r, Done(r)
    PROVE  Becomes(r, Idle) /\ Idle \in Request /\ Shaped(Idle)
BY Constants DEF Done, Becomes

LEMMA AtWork ==
    TypeInv => \A r \in Requests : /\ req[r].at # "idle" => req[r].msg \in Messages
                                   /\ req[r].at = "idle" => req[r] = Idle
                                   /\ req[r].text \in Texts
                                   /\ req[r].at # "mentioning" => req[r].todo = {}
BY DEF TypeInv, TypeOK, Shaped, Request

-----------------------------------------------------------------------------
\* Rows

LEMMA RowFields ==
    TypeInv => \A m \in Messages : /\ row[m].state \in {"none", "stored", "deleted"}
                                   /\ row[m].parent \in Messages \cup {NoMessage}
                                   /\ row[m].text \in Texts /\ row[m].edits \in Nat
                                   /\ row[m].replies \in Nat
BY DEF TypeInv, TypeOK, Row

\* A row is changed.
LEMMA RowCounted ==
    ASSUME NEW d \in Row, NEW n \in Nat
    PROVE  LET e == [d EXCEPT !.replies = n] IN
           /\ e \in Row /\ e.state = d.state /\ e.text = d.text /\ e.parent = d.parent
           /\ e.replies = n
BY DEF Row

LEMMA RowStored ==
    ASSUME NEW d \in Row, NEW p \in Messages \cup {NoMessage}
    PROVE  LET e == [d EXCEPT !.state = "stored", !.parent = p] IN
           /\ e \in Row /\ e.state = "stored" /\ e.text = d.text /\ e.parent = p
           /\ e.replies = d.replies
BY DEF Row

LEMMA RowDeleted ==
    ASSUME NEW d \in Row
    PROVE  LET e == [d EXCEPT !.state = "deleted"] IN
           e \in Row /\ e.state = "deleted"
BY DEF Row

\* CreateMessage stores the message with no text changed and no reply, and counts it.
LEMMA RowsPosted ==
    ASSUME TypeInv, NEW m \in Messages, NEW p \in Messages \cup {NoMessage}, row' = RowsWith(m, p),
           p # m
    PROVE  /\ row' \in [Messages -> Row]
           /\ row'[m].state = "stored" /\ row'[m].parent = p /\ row'[m].text = 0 /\ row'[m].replies = 0
           /\ \A x \in Messages \ {m} : /\ row'[x].state = row[x].state /\ row'[x].text = row[x].text
                                        /\ row'[x].parent = row[x].parent
                                        /\ row'[x].replies = IF x = p THEN row[x].replies + 1
                                                             ELSE row[x].replies
<1> DEFINE first == [NoRow EXCEPT !.state = "stored", !.parent = p]
<1>1. /\ first \in Row /\ first.state = "stored" /\ first.parent = p
      /\ first.text = 0 /\ first.replies = 0
  BY Constants, RowStored
<1>2. \A x \in Messages : row[x] \in Row
  BY DEF TypeInv, TypeOK
<1>3. \A x \in Messages : LET d == [row[x] EXCEPT !.replies = @ + 1] IN
        /\ d \in Row /\ d.state = row[x].state /\ d.text = row[x].text /\ d.parent = row[x].parent
        /\ d.replies = row[x].replies + 1
  BY <1>2 DEF Row
<1>4. row' = [x \in Messages |-> IF x = m THEN first
                                 ELSE IF x = p THEN [row[x] EXCEPT !.replies = @ + 1] ELSE row[x]]
  BY DEF RowsWith
<1> HIDE DEF first
<1>5. row' \in [Messages -> Row]
  BY <1>1, <1>2, <1>3, <1>4
<1>6. row'[m] = first
  BY <1>4
<1>7. ASSUME NEW x \in Messages \ {m}
      PROVE  /\ row'[x].state = row[x].state /\ row'[x].text = row[x].text
             /\ row'[x].parent = row[x].parent
             /\ row'[x].replies = IF x = p THEN row[x].replies + 1 ELSE row[x].replies
  <2>1. CASE x = p
    <3>1. row'[x] = [row[x] EXCEPT !.replies = @ + 1]
      BY <1>4, <2>1
    <3> QED BY <1>3, <2>1, <3>1
  <2>2. CASE x # p
    BY <1>4, <2>2
  <2> QED BY <2>1, <2>2
<1> QED BY <1>1, <1>5, <1>6, <1>7

\* When rows go, the counts of the others go down by their replies that go.
LEMMA RowsLeft ==
    ASSUME RowsInv, NEW gone \in SUBSET Messages, \A m \in gone : Stored(m), Deletable(gone),
           row' = RowsWithout(gone)
    PROVE  /\ row' \in [Messages -> Row]
           /\ \A m \in gone : row'[m].state = "deleted"
           /\ \A m \in Messages \ gone :
                /\ row'[m].state = row[m].state /\ row'[m].text = row[m].text
                /\ row'[m].parent = row[m].parent
                /\ Stored(m) => row'[m].replies = Cardinality(Replies(m) \ gone)
<1>1. ASSUME NEW m \in Messages \ gone
      PROVE  LET n == row[m].replies - Cardinality(Replies(m) \cap gone) IN
             n \in Nat /\ (Stored(m) => n = Cardinality(Replies(m) \ gone))
  <2>1. IsFiniteSet(Replies(m)) /\ Cardinality(Replies(m)) \in Nat
    BY FS_Subset, FS_CardinalityType, MessagesAssumption DEF Replies
  <2>2. CASE Stored(m)
    <3>1. row[m].replies = Cardinality(Replies(m))
      BY <2>2 DEF RowsInv, RepliesCounted
    <3>2. Cardinality(Replies(m) \ gone) = Cardinality(Replies(m)) - Cardinality(Replies(m) \cap gone)
      BY <2>1, FS_Difference
    <3>3. IsFiniteSet(Replies(m) \ gone) /\ Cardinality(Replies(m) \ gone) \in Nat
      BY <2>1, FS_Difference, FS_CardinalityType
    <3> QED BY <3>1, <3>2, <3>3
  <2>3. CASE ~Stored(m)
    <3>1. Replies(m) \cap gone = {}
      BY <2>3, MessagesAssumption DEF RowsInv, NothingDangles, Replies, Stored
    <3>2. Cardinality(Replies(m) \cap gone) = 0
      BY <3>1, FS_EmptySet
    <3>3. row[m].replies \in Nat
      BY RowFields DEF RowsInv
    <3> QED BY <2>3, <3>2, <3>3
  <2> QED BY <2>2, <2>3
<1>2. \A x \in Messages : row[x] \in Row
  BY DEF RowsInv, TypeInv, TypeOK
<1> DEFINE last == [NoRow EXCEPT !.state = "deleted"]
<1>3. last \in Row /\ last.state = "deleted"
  BY Constants, RowDeleted
<1>5. \A m \in gone : row'[m] = last
  BY DEF RowsWithout
<1> HIDE DEF last
<1>6. ASSUME NEW m \in Messages \ gone
      PROVE  row'[m] = [row[m] EXCEPT !.replies = row[m].replies - Cardinality(Replies(m) \cap gone)]
  BY DEF RowsWithout
<1>7. DOMAIN row' = Messages /\ row' = [m \in Messages |-> row'[m]]
  BY DEF RowsWithout
<1>8. ASSUME NEW m \in Messages \ gone
      PROVE  /\ row'[m] \in Row /\ row'[m].state = row[m].state /\ row'[m].text = row[m].text
             /\ row'[m].parent = row[m].parent
             /\ Stored(m) => row'[m].replies = Cardinality(Replies(m) \ gone)
  <2>1. PICK n \in Nat : /\ n = row[m].replies - Cardinality(Replies(m) \cap gone)
                         /\ Stored(m) => n = Cardinality(Replies(m) \ gone)
    BY <1>1
  <2>2. row'[m] = [row[m] EXCEPT !.replies = n]
    BY <1>6, <2>1
  <2>3. row[m] \in Row
    BY <1>2
  <2> QED BY <2>1, <2>2, <2>3, RowCounted
<1>9. row' \in [Messages -> Row]
  <2>1. \A m \in Messages : row'[m] \in Row
    BY <1>3, <1>5, <1>8
  <2> QED BY <1>7, <2>1
<1> QED BY <1>3, <1>5, <1>8, <1>9

-----------------------------------------------------------------------------
\* A request begins

\* What holds of a request that has begun at a step with a message.
Begun(r, at, m) ==
    /\ req[r] = Idle
    /\ \E q \in Request : /\ Shaped(q) /\ Becomes(r, q)
                          /\ q.at = at /\ q.msg = m /\ q.todo = {} /\ q.text \in Texts

LEMMA PostBegins ==
    ASSUME TypeInv, NEW r \in Requests, NEW via \in {"http", "ws"}, NEW m \in Messages, NEW p,
           Post(r, via, m, p)
    PROVE  Begun(r, "announcing", m) /\ Author[m] \in member
<1> DEFINE q == [Idle EXCEPT !.at = "announcing", !.via = via, !.msg = m]
<1>1. q \in Request /\ q.at = "announcing" /\ q.msg = m /\ q.text = 0 /\ q.todo = {}
  BY Constants DEF Request
<1>2. req[r].at = "idle" /\ Becomes(r, q) /\ Author[m] \in member
  BY DEF Post, Begins, Busy, Becomes
<1> HIDE DEF q
<1>3. Shaped(q)
  BY <1>1, Constants DEF Shaped
<1> QED BY <1>1, <1>2, <1>3, Constants, AtWork DEF Begun

LEMMA EditBegins ==
    ASSUME TypeInv, NEW r \in Requests, NEW via \in {"http", "ws"}, NEW m \in Messages,
           Edit(r, via, m)
    PROVE  \E at \in {"tracing", "saving"} : Begun(r, at, m)
<1> DEFINE at == IF via = "http" THEN "tracing" ELSE "saving"
<1>1. PICK text \in 1..MaxEdits :
        Begins(r, Author[m], via, [Idle EXCEPT !.at = at, !.via = via,
                                               !.msg = m, !.text = text, !.edits = row[m].edits + 1])
  BY DEF Edit
<1> DEFINE edits == row[m].edits + 1
           q == [Idle EXCEPT !.at = at, !.via = via, !.msg = m, !.text = text, !.edits = edits]
<1>2. edits \in Nat /\ at \in {"tracing", "saving"} /\ text \in Texts
  BY RowFields, MessagesAssumption DEF Texts
<1>3. req[r].at = "idle" /\ Becomes(r, q)
  BY <1>1 DEF Begins, Busy, Becomes
<1>4. q \in Request /\ q.at = at /\ q.msg = m /\ q.text = text /\ q.todo = {}
  <2> HIDE DEF edits, at
  <2> QED BY <1>2, Constants DEF Request
<1> HIDE DEF q, at
<1>5. Shaped(q)
  BY <1>2, <1>4, Constants DEF Shaped
<1> QED BY <1>2, <1>3, <1>4, <1>5, Constants, AtWork DEF Begun

LEMMA DeleteBegins ==
    ASSUME TypeInv, NEW r \in Requests, NEW m \in Messages, Delete(r, "ws", m)
    PROVE  Begun(r, "erasing", m)
<1> DEFINE q == [Idle EXCEPT !.at = "erasing", !.via = "ws", !.msg = m]
<1>1. q \in Request /\ q.at = "erasing" /\ q.msg = m /\ q.text = 0 /\ q.todo = {}
  BY Constants DEF Request
<1>2. req[r].at = "idle" /\ Becomes(r, q)
  BY DEF Delete, Begins, Busy, Becomes
<1> HIDE DEF q
<1>3. Shaped(q)
  BY <1>1, Constants DEF Shaped
<1> QED BY <1>1, <1>2, <1>3, Constants, AtWork DEF Begun

LEMMA BegunKept ==
    ASSUME TypeInv, NEW r \in Requests, NEW at, NEW m, Begun(r, at, m)
    PROVE  /\ req' \in [Requests -> Request] /\ (\A s \in Requests : Shaped(req[s]))'
           /\ req[r].msg = NoMessage /\ req[r].todo = {}
           /\ req'[r].at = at /\ req'[r].msg = m /\ req'[r].todo = {}
           /\ \A s \in Requests \ {r} : req'[s] = req[s]
BY RequestsKept, Constants DEF Begun

-----------------------------------------------------------------------------
\* Types, counts and references of each step

\* Nothing happens to rows and members.
LEMMA RowsSame ==
    ASSUME RowsInv, row' = row, member' = member, attached' = attached
    PROVE  RepliesCounted' /\ NothingDangles'
<1>1. \A m \in Messages : (Stored(m)' <=> Stored(m)) /\ Replies(m)' = Replies(m)
  BY DEF Stored, Replies
<1>2. RepliesCounted'
  BY <1>1 DEF RowsInv, RepliesCounted
<1>3. NothingDangles'
  BY DEF RowsInv, NothingDangles, Stored
<1> QED BY <1>2, <1>3

LEMMA BroadcastTypes ==
    ASSUME TypeInv, NEW m \in Messages, NEW text \in Texts \cup {Nothing}, Broadcast(m, text)
    PROVE  /\ shown' \in [Readers -> [Messages -> Texts \cup {Nothing, Unseen}]]
           /\ astray' \subseteq Messages
<1>1. \A u \in Readers : shown[u] \in [Messages -> Texts \cup {Nothing, Unseen}]
  BY DEF TypeInv, TypeOK
<1>2. \A u \in Readers : [shown[u] EXCEPT ![m] = text] \in [Messages -> Texts \cup {Nothing, Unseen}]
  BY <1>1
<1>3. astray \subseteq Messages
  BY DEF TypeInv, TypeOK
<1> QED BY <1>1, <1>2, <1>3 DEF Broadcast

\* A request does something to frames and notifications only.
LEMMA RowsInvKept ==
    ASSUME RowsInv, row' = row, member' = member, attached' = attached,
           req' \in [Requests -> Request], (\A s \in Requests : Shaped(req[s]))',
           note' \in [Messages -> [Members -> NoteState]],
           answer' \in [Readers -> [Messages -> Texts \cup {Nothing}]],
           shown' \in [Readers -> [Messages -> Texts \cup {Nothing, Unseen}]],
           astray' \subseteq Messages
    PROVE  RowsInv'
<1>1. TypeOK'
  BY DEF RowsInv, TypeInv, TypeOK
<1> QED BY <1>1, RowsSame DEF RowsInv, TypeInv

LEMMA TypesBefore ==
    RowsInv => /\ TypeInv /\ note \in [Messages -> [Members -> NoteState]]
               /\ answer \in [Readers -> [Messages -> Texts \cup {Nothing}]]
               /\ shown \in [Readers -> [Messages -> Texts \cup {Nothing, Unseen}]]
               /\ astray \subseteq Messages /\ req \in [Requests -> Request]
               /\ member \subseteq Members /\ attached \subseteq Kinds \X Messages \X Members
               /\ row \in [Messages -> Row]
BY DEF RowsInv, TypeInv, TypeOK

LEMMA PostRows ==
    ASSUME RowsInv, NEW r \in Requests, NEW via \in {"http", "ws"}, NEW m \in Messages,
           NEW p \in Messages \cup {NoMessage}, Post(r, via, m, p)
    PROVE  RowsInv'
<1>1. /\ row[m].state = "none" /\ (p = NoMessage \/ Stored(p)) /\ row' = RowsWith(m, p)
      /\ UNCHANGED <<member, attached, note, answer, shown, astray>>
  BY DEF Post
<1>2. p # m
  BY <1>1, MessagesAssumption DEF Stored
<1>3. /\ row' \in [Messages -> Row]
      /\ row'[m].state = "stored" /\ row'[m].parent = p /\ row'[m].replies = 0
      /\ \A x \in Messages \ {m} : /\ row'[x].state = row[x].state
                                   /\ row'[x].parent = row[x].parent
                                   /\ row'[x].replies = IF x = p THEN row[x].replies + 1
                                                        ELSE row[x].replies
  BY <1>1, <1>2, RowsPosted DEF RowsInv
<1>4. req' \in [Requests -> Request] /\ (\A s \in Requests : Shaped(req[s]))'
        /\ Author[m] \in member
  BY PostBegins, BegunKept DEF RowsInv
<1>5. \A x \in Messages : Stored(x)' <=> Stored(x) \/ x = m
  BY <1>3 DEF Stored
<1>6. ~Stored(m) /\ Replies(m) = {}
  BY <1>1, MessagesAssumption DEF RowsInv, NothingDangles, Replies, Stored
<1>7. \A x \in Messages : Replies(x)' = IF x = p THEN Replies(x) \cup {m} ELSE Replies(x)
  BY <1>3, <1>5, <1>6 DEF Replies
<1>8. ASSUME NEW x \in Messages, Stored(x)' PROVE row'[x].replies = Cardinality(Replies(x)')
  <2>1. CASE x = m
    BY <1>2, <1>3, <1>6, <1>7, <2>1, FS_EmptySet
  <2>2. CASE x # m /\ x = p
    <3>1. row[x].replies = Cardinality(Replies(x))
      BY <1>5, <1>8, <2>2 DEF RowsInv, RepliesCounted
    <3>2. IsFiniteSet(Replies(x)) /\ m \notin Replies(x)
      BY <1>6, FS_Subset, MessagesAssumption DEF Replies
    <3>3. Cardinality(Replies(x) \cup {m}) = Cardinality(Replies(x)) + 1
      BY <3>2, FS_AddElement
    <3> QED BY <1>3, <1>7, <2>2, <3>1, <3>3
  <2>3. CASE x # m /\ x # p
    BY <1>3, <1>5, <1>7, <1>8, <2>3 DEF RowsInv, RepliesCounted
  <2> QED BY <2>1, <2>2, <2>3
<1>9. RepliesCounted'
  BY <1>8 DEF RepliesCounted
<1>10. NothingDangles'
  <2>1. \A a \in attached' : Stored(a[2])' /\ a[3] \in member'
    BY <1>1, <1>5 DEF RowsInv, NothingDangles, Stored
  <2>2. ASSUME NEW x \in Messages, Stored(x)'
        PROVE  Author[x] \in member' /\ (row'[x].parent = NoMessage \/ Stored(row[x].parent)')
    <3>1. CASE x = m
      BY <1>1, <1>3, <1>4, <1>5, <3>1 DEF Stored
    <3>2. CASE x # m
      BY <1>1, <1>3, <1>5, <2>2, <3>2 DEF RowsInv, NothingDangles, Stored
    <3> QED BY <3>1, <3>2
  <2>3. \A a, b \in attached' : a[1] = "pin" /\ b[1] = "pin" /\ a[2] = b[2] => a = b
    BY <1>1 DEF RowsInv, NothingDangles
  <2> QED BY <2>1, <2>2, <2>3 DEF NothingDangles, Stored
<1>11. TypeOK'
  BY <1>1, <1>3, <1>4, TypesBefore DEF TypeOK
<1> QED BY <1>4, <1>9, <1>10, <1>11 DEF RowsInv, TypeInv

\* Messages go, with what hangs on them.
LEMMA RowsGone ==
    ASSUME RowsInv, NEW gone \in SUBSET Messages, \A m \in gone : Stored(m), Deletable(gone),
           row' = RowsWithout(gone), member' \subseteq Members,
           \A a \in attached' : a \in attached /\ a[2] \notin gone /\ a[3] \in member',
           \A m \in Messages \ gone : Stored(m) => Author[m] \in member'
    PROVE  row' \in [Messages -> Row] /\ RepliesCounted' /\ NothingDangles'
<1>1. /\ row' \in [Messages -> Row]
      /\ \A m \in gone : row'[m].state = "deleted"
      /\ \A m \in Messages \ gone :
           /\ row'[m].state = row[m].state /\ row'[m].parent = row[m].parent
           /\ Stored(m) => row'[m].replies = Cardinality(Replies(m) \ gone)
  BY RowsLeft
<1>2. \A m \in Messages : Stored(m)' <=> Stored(m) /\ m \notin gone
  BY <1>1 DEF Stored
<1>3. \A m \in Messages : Replies(m)' = Replies(m) \ gone
  BY <1>1, <1>2 DEF Replies
<1>4. RepliesCounted'
  BY <1>1, <1>2, <1>3 DEF RepliesCounted
<1>5. \A a \in attached' : Stored(a[2])' /\ a[3] \in member'
  BY <1>2 DEF RowsInv, NothingDangles, Stored
<1>6. ASSUME NEW m \in Messages, Stored(m)'
      PROVE  Author[m] \in member' /\ (row'[m].parent = NoMessage \/ Stored(row[m].parent)')
  <2>1. Stored(m) /\ m \notin gone /\ row'[m].parent = row[m].parent
    BY <1>1, <1>2, <1>6
  <2>2. row[m].parent = NoMessage \/ Stored(row[m].parent)
    BY <2>1 DEF RowsInv, NothingDangles
  <2>3. ASSUME Stored(row[m].parent) PROVE row[m].parent \notin gone
    BY <2>1, <2>3 DEF Deletable, Replies
  <2>4. Stored(row[m].parent) => Stored(row[m].parent)'
    <3>1. SUFFICES ASSUME Stored(row[m].parent) PROVE Stored(row[m].parent)'
      OBVIOUS
    <3>2. PICK p \in Messages : p = row[m].parent
      BY <3>1 DEF Stored
    <3>3. Stored(p)'
      BY <1>2, <2>3, <3>1, <3>2
    <3> QED BY <2>1, <3>2, <3>3 DEF Stored
  <2> QED BY <2>1, <2>2, <2>4
<1>7. \A a, b \in attached' : a[1] = "pin" /\ b[1] = "pin" /\ a[2] = b[2] => a = b
  BY DEF RowsInv, NothingDangles
<1>8. NothingDangles'
  BY <1>5, <1>6, <1>7 DEF NothingDangles, Stored
<1> QED BY <1>1, <1>4, <1>8

LEMMA DeleteRows ==
    ASSUME RowsInv, NEW r \in Requests, NEW via \in {"http", "ws"}, NEW m \in Messages,
           Delete(r, via, m)
    PROVE  RowsInv'
<1>1. /\ Stored(m) /\ Deletable({m}) /\ row' = RowsWithout({m})
      /\ attached' = {a \in attached : a[2] # m} /\ UNCHANGED <<member, note, answer, shown>>
  BY DEF Delete
<1>2. /\ \A a \in attached' : a \in attached /\ a[2] \notin {m} /\ a[3] \in member'
      /\ \A x \in Messages \ {m} : Stored(x) => Author[x] \in member'
  BY <1>1 DEF RowsInv, NothingDangles
<1>3. row' \in [Messages -> Row] /\ RepliesCounted' /\ NothingDangles'
  <2>1. member' \subseteq Members
    BY <1>1, TypesBefore
  <2> QED BY <1>1, <1>2, <2>1, RowsGone
<1>4. /\ req' \in [Requests -> Request] /\ (\A s \in Requests : Shaped(req[s]))'
      /\ astray' \subseteq Messages
  <2>1. CASE via = "ws"
    <3>1. req' \in [Requests -> Request] /\ (\A s \in Requests : Shaped(req[s]))'
      BY <2>1, DeleteBegins, BegunKept DEF RowsInv
    <3>2. astray' \subseteq Messages
      BY <2>1, TypesBefore DEF Delete, Writes
    <3> QED BY <3>1, <3>2
  <2>2. CASE via = "http"
    <3>1. req' = req /\ astray' = astray \cup {m}
      BY <2>2 DEF Delete
    <3> QED BY <3>1, TypesBefore DEF TypeInv, Shaped, Idle
  <2> QED BY <2>1, <2>2
<1>5. TypeOK'
  BY <1>1, <1>3, <1>4, TypesBefore DEF TypeOK
<1> QED BY <1>3, <1>4, <1>5 DEF RowsInv, TypeInv

LEMMA RemoveMemberRows ==
    ASSUME RowsInv, NEW u \in Members, RemoveMember(u)
    PROVE  RowsInv'
<1> DEFINE gone == {m \in Messages : Stored(m) /\ Author[m] = u}
<1>1. /\ Deletable(gone) /\ member' = member \ {u} /\ row' = RowsWithout(gone)
      /\ attached' = {a \in attached : a[2] \notin gone /\ a[3] # u}
      /\ note' = [m \in Messages |-> [note[m] EXCEPT ![u] = IF @ = "none" THEN @ ELSE "gone"]]
      /\ astray' = astray \cup gone
      /\ UNCHANGED <<req, answer, shown>>
  BY DEF RemoveMember
<1>2. gone \in SUBSET Messages /\ \A m \in gone : Stored(m)
  OBVIOUS
<1>3. /\ \A a \in attached' : a \in attached /\ a[2] \notin gone /\ a[3] \in member'
      /\ \A x \in Messages \ gone : Stored(x) => Author[x] \in member'
  BY <1>1 DEF RowsInv, NothingDangles
<1> HIDE DEF gone
<1>4. row' \in [Messages -> Row] /\ RepliesCounted' /\ NothingDangles'
  <2>1. member' \subseteq Members
    BY <1>1, TypesBefore
  <2> QED BY <1>1, <1>2, <1>3, <2>1, RowsGone
<1>5. note' \in [Messages -> [Members -> NoteState]]
  <2>1. \A m \in Messages : note[m] \in [Members -> NoteState]
    BY TypesBefore
  <2>2. \A m \in Messages :
          [note[m] EXCEPT ![u] = IF @ = "none" THEN @ ELSE "gone"] \in [Members -> NoteState]
    BY <2>1 DEF NoteState
  <2> QED BY <1>1, <2>2
<1>6. (\A s \in Requests : Shaped(req[s]))'
  BY <1>1, TypesBefore DEF TypeInv, Shaped, Idle
<1>7. TypeOK'
  BY <1>1, <1>2, <1>4, <1>5, TypesBefore DEF TypeOK
<1> QED BY <1>4, <1>6, <1>7 DEF RowsInv, TypeInv

\* Texts change and counts of edits, which no other column depends on.
LEMMA SaveRows ==
    ASSUME RowsInv, NEW r \in Requests, Save(r)
    PROVE  RowsInv'
<1>1. PICK m \in Messages : m = req[r].msg
  BY AtWork DEF RowsInv, Save
<1>2. /\ row' = IF Stored(m)
                THEN [row EXCEPT ![m].text = req[r].text, ![m].edits = req[r].edits] ELSE row
      /\ Writes(r, m) /\ UNCHANGED <<member, attached, note, answer, shown>>
      /\ req[r].at = "saving" /\ To(r, "showing")
  BY <1>1 DEF Save
<1>3. /\ row' \in [Messages -> Row]
      /\ \A x \in Messages : /\ row'[x].state = row[x].state /\ row'[x].parent = row[x].parent
                             /\ row'[x].replies = row[x].replies
  <2>1. row[m] \in Row /\ row \in [Messages -> Row]
    BY TypesBefore
  <2>2. req[r].text \in Texts /\ req[r].edits \in Nat
    BY TypesBefore DEF Request
  <2>3. CASE Stored(m)
    <3> DEFINE d == [row[m] EXCEPT !.text = req[r].text, !.edits = req[r].edits]
    <3>1. /\ d \in Row /\ d.state = row[m].state /\ d.parent = row[m].parent
          /\ d.replies = row[m].replies
      BY <2>1, <2>2 DEF Row
    <3>2. row' = [row EXCEPT ![m] = d]
      BY <1>2, <2>1, <2>3
    <3> HIDE DEF d
    <3> QED BY <2>1, <3>1, <3>2
  <2>4. CASE ~Stored(m)
    BY <1>2, <2>1, <2>4
  <2> QED BY <2>3, <2>4
<1>4. \A x \in Messages : (Stored(x)' <=> Stored(x)) /\ Replies(x)' = Replies(x)
  BY <1>3 DEF Stored, Replies
<1>5. RepliesCounted'
  BY <1>3, <1>4 DEF RowsInv, RepliesCounted
<1>6. NothingDangles'
  <2>1. \A a \in attached' : Stored(a[2])' /\ a[3] \in member'
    BY <1>2, <1>4 DEF RowsInv, NothingDangles, Stored
  <2>2. ASSUME NEW x \in Messages, Stored(x)'
        PROVE  Author[x] \in member' /\ (row'[x].parent = NoMessage \/ Stored(row[x].parent)')
    BY <1>2, <1>3, <1>4, <2>2 DEF RowsInv, NothingDangles, Stored
  <2>3. \A a, b \in attached' : a[1] = "pin" /\ b[1] = "pin" /\ a[2] = b[2] => a = b
    BY <1>2 DEF RowsInv, NothingDangles
  <2> QED BY <2>1, <2>2, <2>3 DEF NothingDangles, Stored
<1>7. req' \in [Requests -> Request] /\ (\A s \in Requests : Shaped(req[s]))'
  BY <1>2, GoingOn, RequestsKept, TypesBefore
<1>8. astray' \subseteq Messages
  BY <1>2, TypesBefore DEF Writes
<1>9. TypeOK'
  BY <1>2, <1>3, <1>7, <1>8, TypesBefore DEF TypeOK
<1> QED BY <1>5, <1>6, <1>7, <1>9 DEF RowsInv, TypeInv

\* Something is put on a message, or taken away.
LEMMA AttachedKept ==
    ASSUME RowsInv, row' = row, member' = member, note' = note, shown' = shown, astray' = astray,
           answer' = answer,
           req' \in [Requests -> Request], (\A s \in Requests : Shaped(req[s]))',
           attached' \subseteq Kinds \X Messages \X Members,
           \A a \in attached' : a \in attached \/ (Stored(a[2]) /\ a[3] \in member),
           \A a, b \in attached' : a[1] = "pin" /\ b[1] = "pin" /\ a[2] = b[2] => a = b
    PROVE  RowsInv'
<1>1. \A m \in Messages : (Stored(m)' <=> Stored(m)) /\ Replies(m)' = Replies(m)
  BY DEF Stored, Replies
<1>2. RepliesCounted'
  BY <1>1 DEF RowsInv, RepliesCounted
<1>3. NothingDangles'
  BY DEF RowsInv, NothingDangles, Stored
<1>4. TypeOK'
  BY TypesBefore DEF TypeOK
<1> QED BY <1>2, <1>3, <1>4 DEF RowsInv, TypeInv

LEMMA TraceRows ==
    ASSUME RowsInv, NEW r \in Requests, Trace(r)
    PROVE  RowsInv'
<1>1. PICK m \in Messages : m = req[r].msg
  BY AtWork DEF RowsInv, Trace
<1>2. /\ req[r].at = "tracing" /\ To(r, "saving")
      /\ UNCHANGED <<member, row, note, answer, shown, astray>>
      /\ \/ attached' = attached
         \/ Stored(m) /\ attached' = attached \cup {<<"history", m, Author[m]>>}
  BY <1>1 DEF Trace
<1>3. req' \in [Requests -> Request] /\ (\A s \in Requests : Shaped(req[s]))'
  BY <1>2, GoingOn, RequestsKept, TypesBefore
<1>4. Author[m] \in Members /\ (Stored(m) => Author[m] \in member)
  BY MessagesAssumption DEF RowsInv, NothingDangles
<1>5. attached' \subseteq Kinds \X Messages \X Members
  BY <1>2, <1>4, TypesBefore, MessagesAssumption
<1>6. \A a \in attached' : a \in attached \/ (a[1] = "history" /\ Stored(a[2]) /\ a[3] \in member)
  BY <1>2, <1>4
<1>7. \A a, b \in attached' : a[1] = "pin" /\ b[1] = "pin" /\ a[2] = b[2] => a = b
  BY <1>6 DEF RowsInv, NothingDangles
<1> QED BY <1>2, <1>3, <1>5, <1>6, <1>7, AttachedKept

LEMMA AttachRows ==
    ASSUME RowsInv, NEW u \in Members, NEW kind \in Kinds, NEW m \in Messages, Attach(u, kind, m)
    PROVE  RowsInv'
<1>1. /\ Stored(m) /\ u \in member /\ attached' = attached \cup {<<kind, m, u>>}
      /\ kind = "pin" => \A a \in attached : ~(a[1] = "pin" /\ a[2] = m)
      /\ UNCHANGED <<member, row, note, req, answer, shown, astray>>
  BY DEF Attach
<1>2. \A a \in attached' : a \in attached \/ a = <<kind, m, u>>
  BY <1>1
<1>3. \A a, b \in attached' : a[1] = "pin" /\ b[1] = "pin" /\ a[2] = b[2] => a = b
  BY <1>1, <1>2 DEF RowsInv, NothingDangles
<1>4. (\A s \in Requests : Shaped(req[s]))' /\ req' \in [Requests -> Request]
  BY <1>1, TypesBefore DEF TypeInv, Shaped, Idle
<1>5. attached' \subseteq Kinds \X Messages \X Members
  BY <1>1, TypesBefore
<1> QED BY <1>1, <1>2, <1>3, <1>4, <1>5, AttachedKept

LEMMA DetachRows ==
    ASSUME RowsInv, NEW a \in attached, Detach(a)
    PROVE  RowsInv'
<1>1. attached' = attached \ {a} /\ UNCHANGED <<member, row, note, req, answer, shown, astray>>
  BY DEF Detach
<1>2. \A b, c \in attached' : b[1] = "pin" /\ c[1] = "pin" /\ b[2] = c[2] => b = c
  BY <1>1 DEF RowsInv, NothingDangles
<1>3. (\A s \in Requests : Shaped(req[s]))' /\ req' \in [Requests -> Request]
  BY <1>1, TypesBefore DEF TypeInv, Shaped, Idle
<1>4. attached' \subseteq Kinds \X Messages \X Members
  BY <1>1, TypesBefore
<1> QED BY <1>1, <1>2, <1>3, <1>4, AttachedKept

LEMMA EditRows ==
    ASSUME RowsInv, NEW r \in Requests, NEW via \in {"http", "ws"}, NEW m \in Messages,
           Edit(r, via, m)
    PROVE  RowsInv'
<1>1. UNCHANGED <<member, row, attached, note, answer, shown, astray>>
  BY DEF Edit
<1>2. req' \in [Requests -> Request] /\ (\A s \in Requests : Shaped(req[s]))'
  BY EditBegins, BegunKept DEF RowsInv
<1> QED BY <1>1, <1>2, TypesBefore, RowsInvKept

\* What a broadcast of SendNewMessage and the mentions leave behind.
LEMMA AnnounceStep ==
    ASSUME TypeInv, NEW r \in Requests, Announce(r)
    PROVE  \E m \in Messages, q \in Request :
             /\ m = req[r].msg /\ req[r].at = "announcing" /\ Shaped(q) /\ Becomes(r, q)
             /\ q.at = "mentioning" /\ q.msg = m
             /\ Broadcast(m, 0)
             /\ note' = [note EXCEPT ![m] = [u \in Members |-> IF u \in q.todo THEN "due" ELSE "none"]]
             /\ UNCHANGED <<member, row, attached, answer>>
<1>1. PICK m \in Messages : m = req[r].msg
  BY AtWork DEF Announce
<1>2. PICK mentioned \in SUBSET (Members \ {Author[req[r].msg]}) :
          /\ req' = [req EXCEPT ![r].at = "mentioning", ![r].todo = mentioned]
          /\ note' = [note EXCEPT ![req[r].msg] =
                         [u \in Members |-> IF u \in mentioned THEN "due" ELSE "none"]]
  BY DEF Announce
<1>3. req[r].at = "announcing" /\ Broadcast(m, 0) /\ UNCHANGED <<member, row, attached, answer>>
  BY <1>1 DEF Announce
<1> DEFINE q == [req[r] EXCEPT !.at = "mentioning", !.todo = mentioned]
<1>4. q \in Request /\ Shaped(q) /\ q.at = "mentioning" /\ q.msg = m /\ q.todo = mentioned
  BY <1>1, <1>2, <1>3, TodoChanged
<1>5. Becomes(r, q)
  BY <1>2 DEF TypeInv, TypeOK, Becomes
<1> HIDE DEF q
<1> QED BY <1>1, <1>2, <1>3, <1>4, <1>5

LEMMA AnnounceRows ==
    ASSUME RowsInv, NEW r \in Requests, Announce(r)
    PROVE  RowsInv'
<1>1. PICK m \in Messages, q \in Request :
             /\ Shaped(q) /\ Becomes(r, q) /\ Broadcast(m, 0)
             /\ note' = [note EXCEPT ![m] = [u \in Members |-> IF u \in q.todo THEN "due" ELSE "none"]]
             /\ UNCHANGED <<member, row, attached, answer>>
  BY AnnounceStep, TypesBefore
<1>2. req' \in [Requests -> Request] /\ (\A s \in Requests : Shaped(req[s]))'
  BY <1>1, RequestsKept, TypesBefore
<1>3. note' \in [Messages -> [Members -> NoteState]]
  BY <1>1, TypesBefore DEF NoteState
<1>4. /\ shown' \in [Readers -> [Messages -> Texts \cup {Nothing, Unseen}]]
      /\ astray' \subseteq Messages
  BY <1>1, BroadcastTypes, TypesBefore, Constants
<1> QED BY <1>1, <1>2, <1>3, <1>4, TypesBefore, RowsInvKept

\* One of the mentions has been handled.
LEMMA MentionStep ==
    ASSUME TypeInv, NEW r \in Requests, NEW u \in Members, Mention(r, u)
    PROVE  \E m \in Messages, q \in Request, n \in {"stored", "unstored", "gone"} :
             /\ m = req[r].msg /\ req[r].at = "mentioning" /\ Shaped(q) /\ Becomes(r, q)
             /\ q.at = "mentioning" /\ q.msg = m /\ q.todo = req[r].todo \ {u}
             /\ note' = [note EXCEPT ![m][u] = n]
             /\ n = "gone" <=> ~(u \in member /\ Stored(m))
             /\ UNCHANGED <<member, row, attached, answer, shown, astray>>
<1>1. PICK m \in Messages : m = req[r].msg
  BY AtWork DEF Mention
<1>2. /\ req' = [req EXCEPT ![r].todo = @ \ {u}] /\ req[r].at = "mentioning"
      /\ UNCHANGED <<member, row, attached, answer, shown, astray>>
  BY <1>1 DEF Mention
<1> DEFINE todo == req[r].todo \ {u}
           q == [req[r] EXCEPT !.at = "mentioning", !.todo = todo]
<1>3. todo \in SUBSET Members
  BY DEF TypeInv, TypeOK, Request
<1>4. q \in Request /\ Shaped(q) /\ q.at = "mentioning" /\ q.msg = m /\ q.todo = todo
  <2> HIDE DEF todo
  <2> QED BY <1>1, <1>2, <1>3, TodoChanged
<1>5. Becomes(r, q)
  <2>1. req[r] \in Request /\ req \in [Requests -> Request]
    BY DEF TypeInv, TypeOK
  <2>2. [req[r] EXCEPT !.todo = req[r].todo \ {u}] = q
    BY <1>2, <2>1 DEF Request
  <2> QED BY <1>2, <2>1, <2>2 DEF Becomes
<1>6. PICK n \in {"stored", "unstored", "gone"} :
        note' = [note EXCEPT ![m][u] = n] /\ (n = "gone" <=> ~(u \in member /\ Stored(m)))
  BY <1>1 DEF Mention
<1> HIDE DEF q
<1> QED BY <1>1, <1>2, <1>3, <1>4, <1>5, <1>6

LEMMA MentionRows ==
    ASSUME RowsInv, NEW r \in Requests, NEW u \in Members, Mention(r, u)
    PROVE  RowsInv'
<1>1. PICK m \in Messages, q \in Request, n \in {"stored", "unstored", "gone"} :
             /\ m = req[r].msg /\ req[r].at = "mentioning" /\ Shaped(q) /\ Becomes(r, q)
             /\ q.at = "mentioning" /\ q.msg = m /\ q.todo = req[r].todo \ {u}
             /\ note' = [note EXCEPT ![m][u] = n]
             /\ n = "gone" <=> ~(u \in member /\ Stored(m))
             /\ UNCHANGED <<member, row, attached, answer, shown, astray>>
  <2>1. TypeInv
    BY TypesBefore
  <2> QED BY <2>1, MentionStep, Zenon
<1>2. req' \in [Requests -> Request] /\ (\A s \in Requests : Shaped(req[s]))'
  BY <1>1, RequestsKept, TypesBefore
<1>3. note' \in [Messages -> [Members -> NoteState]]
  BY <1>1, TypesBefore DEF NoteState
<1> QED BY <1>1, <1>2, <1>3, TypesBefore, RowsInvKept

LEMMA DoneRows ==
    ASSUME RowsInv, NEW r \in Requests, MentionsDone(r) \/ Show(r) \/ Unshow(r) \/ Fails(r)
    PROVE  RowsInv'
<1>1. Done(r) /\ UNCHANGED <<member, row, attached, note, answer>>
  BY DEF MentionsDone, Show, Unshow, Fails
<1>2. req' \in [Requests -> Request] /\ (\A s \in Requests : Shaped(req[s]))'
  BY <1>1, IdleAgain, RequestsKept, TypesBefore
<1>3. /\ shown' \in [Readers -> [Messages -> Texts \cup {Nothing, Unseen}]]
      /\ astray' \subseteq Messages
  <2>1. CASE MentionsDone(r) \/ Fails(r)
    BY <2>1, TypesBefore DEF MentionsDone, Fails
  <2>2. CASE Show(r)
    BY <2>2, BroadcastTypes, TypesBefore, AtWork DEF Show
  <2>3. CASE Unshow(r)
    BY <2>3, BroadcastTypes, TypesBefore, AtWork DEF Unshow
  <2> QED BY <2>1, <2>2, <2>3
<1> QED BY <1>1, <1>2, <1>3, TypesBefore, RowsInvKept

LEMMA ListedType == TypeInv => Listed \in [Messages -> Texts \cup {Nothing}]
BY RowFields DEF Listed

\* A query takes the text of messages, or nothing of them.
LEMMA ListStep ==
    ASSUME TypeInv, NEW u \in Readers, List(u)
    PROVE  /\ answer' \in [Readers -> [Messages -> Texts \cup {Nothing}]]
           /\ UNCHANGED <<member, row, attached, note, req, shown, astray>>
<1>1. PICK page \in Pages :
          answer' = [answer EXCEPT ![u] =
                        [m \in Messages |-> IF m \in page THEN Listed[m] ELSE Nothing]]
  BY DEF List
<1> DEFINE told == [m \in Messages |-> IF m \in page THEN Listed[m] ELSE Nothing]
<1>2. told \in [Messages -> Texts \cup {Nothing}]
  BY ListedType
<1> HIDE DEF told
<1>3. answer' = [answer EXCEPT ![u] = told]
  BY <1>1 DEF told
<1>4. answer \in [Readers -> [Messages -> Texts \cup {Nothing}]]
  BY DEF TypeInv, TypeOK
<1>5. answer' \in [Readers -> [Messages -> Texts \cup {Nothing}]]
  BY <1>2, <1>3, <1>4
<1> QED BY <1>5 DEF List

\* An answer is told: the messages of which it is older than the row are astray, or a
\* frame follows.
LEMMA TellStep ==
    ASSUME TypeInv, NEW u \in Readers, Tell(u)
    PROVE  /\ answer' \in [Readers -> [Messages -> Texts \cup {Nothing}]]
           /\ shown' \in [Readers -> [Messages -> Texts \cup {Nothing, Unseen}]]
           /\ astray' \subseteq Messages
           /\ UNCHANGED <<member, row, attached, note, req>>
           /\ \A m \in Messages :
                /\ \A v \in Readers : \/ shown'[v][m] = shown[v][m]
                                       \/ shown'[v][m] = Listed[m]
                                       \/ m \in astray' \/ Framing(m)
                /\ m \notin astray' => m \notin astray
<1> DEFINE told == [m \in Messages |-> IF answer[u][m] = Nothing THEN shown[u][m] ELSE answer[u][m]]
<1>1. /\ answer \in [Readers -> [Messages -> Texts \cup {Nothing}]]
      /\ shown \in [Readers -> [Messages -> Texts \cup {Nothing, Unseen}]]
      /\ astray \subseteq Messages
  BY DEF TypeInv, TypeOK
<1>2. told \in [Messages -> Texts \cup {Nothing, Unseen}]
  BY <1>1
<1>3. \A m \in Messages : told[m] = shown[u][m] \/ (told[m] = answer[u][m] /\ told[m] # Nothing)
  OBVIOUS
<1> HIDE DEF told
<1>4. /\ shown' = [shown EXCEPT ![u] = told]
      /\ answer' = [answer EXCEPT ![u] = NoAnswer]
      /\ astray' = astray \cup {m \in Messages : /\ answer[u][m] \notin {Nothing, Listed[m]}
                                                /\ ~Framing(m)}
      /\ UNCHANGED <<member, row, attached, note, req>>
  BY DEF Tell, told
<1>5. answer' \in [Readers -> [Messages -> Texts \cup {Nothing}]]
  BY <1>1, <1>4, Constants
<1>6. shown' \in [Readers -> [Messages -> Texts \cup {Nothing, Unseen}]]
  BY <1>1, <1>2, <1>4
<1>7. ASSUME NEW m \in Messages, NEW v \in Readers
      PROVE  \/ shown'[v][m] = shown[v][m] \/ shown'[v][m] = Listed[m]
             \/ m \in astray' \/ Framing(m)
  <2>1. CASE v = u
    <3>1. shown'[v] = told
      BY <1>1, <1>4, <2>1
    <3> QED BY <1>3, <1>4, <2>1, <3>1
  <2>2. CASE v # u
    BY <1>1, <1>4, <2>2
  <2> QED BY <2>1, <2>2
<1>8. astray' \subseteq Messages /\ \A m \in Messages : m \notin astray' => m \notin astray
  BY <1>1, <1>4
<1> QED BY <1>4, <1>5, <1>6, <1>7, <1>8

LEMMA ListRows ==
    ASSUME RowsInv, NEW u \in Readers, List(u) \/ Tell(u)
    PROVE  RowsInv'
<1>1. /\ answer' \in [Readers -> [Messages -> Texts \cup {Nothing}]]
      /\ shown' \in [Readers -> [Messages -> Texts \cup {Nothing, Unseen}]]
      /\ astray' \subseteq Messages
      /\ UNCHANGED <<member, row, attached, note, req>>
  BY ListStep, TellStep, TypesBefore
<1>2. (\A s \in Requests : Shaped(req[s]))'
  BY <1>1, TypesBefore DEF TypeInv, Shaped, Idle
<1> QED BY <1>1, <1>2, TypesBefore, RowsInvKept

LEMMA CrashRows ==
    ASSUME RowsInv, Crash
    PROVE  RowsInv'
<1>1. /\ req' = [r \in Requests |-> Idle] /\ answer' = [u \in Readers |-> NoAnswer]
      /\ shown' = [u \in Readers |-> [m \in Messages |-> IF Stored(m) THEN Unseen ELSE Nothing]]
      /\ astray' = {}
      /\ note' = [m \in Messages |->
                    [u \in Members |-> IF note[m][u] = "due" THEN "stopped" ELSE note[m][u]]]
      /\ UNCHANGED <<member, row, attached>>
  BY DEF Crash
<1>2. req' \in [Requests -> Request] /\ (\A s \in Requests : Shaped(req[s]))'
  <2>1. \A s \in Requests : Shaped(req'[s])
    BY <1>1, Constants
  <2> QED BY <1>1, <2>1, Constants DEF Shaped, Idle
<1>3. /\ answer' \in [Readers -> [Messages -> Texts \cup {Nothing}]]
      /\ shown' \in [Readers -> [Messages -> Texts \cup {Nothing, Unseen}]]
  BY <1>1, Constants
<1>4. note' \in [Messages -> [Members -> NoteState]]
  BY <1>1, TypesBefore DEF NoteState
<1> QED BY <1>1, <1>2, <1>3, <1>4, RowsInvKept

LEMMA RowsBegin == Init => RowsInv
<1> SUFFICES ASSUME Init PROVE RowsInv
  OBVIOUS
<1>1. TypeOK
  BY Constants DEF Init, TypeOK, NoteState
<1>2. \A r \in Requests : Shaped(req[r])
  BY Constants DEF Init
<1>3. (\A m \in Messages : ~Stored(m)) /\ attached = {}
  BY Constants DEF Init, Stored
<1>4. RepliesCounted /\ NothingDangles
  BY <1>3 DEF RepliesCounted, NothingDangles
<1> QED BY <1>1, <1>2, <1>4 DEF RowsInv, TypeInv

LEMMA RowsStep == RowsInv /\ [Next]_vars => RowsInv'
<1> SUFFICES ASSUME RowsInv, [Next]_vars PROVE RowsInv'
  OBVIOUS
<1>1. ASSUME NEW r \in Requests, NEW m \in Messages, NEW via \in {"http", "ws"},
             \/ \E p \in Messages \cup {NoMessage} : Post(r, via, m, p)
             \/ Edit(r, via, m) \/ Delete(r, via, m)
      PROVE  RowsInv'
  BY <1>1, PostRows, EditRows, DeleteRows
<1>2. ASSUME NEW u \in Members, NEW kind \in Kinds, NEW m \in Messages, Attach(u, kind, m)
      PROVE  RowsInv'
  BY <1>2, AttachRows
<1>3. ASSUME NEW r \in Requests, GoesOn(r) \/ Fails(r)
      PROVE  RowsInv'
  BY <1>3, AnnounceRows, DoneRows, MentionRows, TraceRows, SaveRows DEF GoesOn
<1>4. ASSUME NEW a \in attached, Detach(a)
      PROVE  RowsInv'
  BY <1>4, DetachRows
<1>5. ASSUME NEW u \in Members, RemoveMember(u)
      PROVE  RowsInv'
  BY <1>5, RemoveMemberRows
<1>6. ASSUME NEW u \in Readers, List(u) \/ Tell(u)
      PROVE  RowsInv'
  BY <1>6, ListRows
<1>7. CASE UNCHANGED vars
  <2>1. (\A s \in Requests : Shaped(req[s]))'
    BY <1>7, TypesBefore DEF vars, TypeInv, Shaped, Idle
  <2> QED BY <1>7, <2>1, TypesBefore, RowsInvKept DEF vars
<1> QED BY <1>1, <1>2, <1>3, <1>4, <1>5, <1>6, <1>7, CrashRows DEF Next

LEMMA RowsAlways == Spec => []RowsInv
BY RowsBegin, RowsStep, PTL DEF Spec

\* Rows, notifications and requests are what the handlers put there; a count of replies
\* never falls below zero (the triggers of migrations.go).
THEOREM TypeCorrect == Spec => []TypeOK
<1>1. RowsInv => TypeOK
  BY DEF RowsInv, TypeInv
<1> QED BY <1>1, RowsAlways, PTL

\* reply_count is the number of replies, whatever is posted, edited from an old copy or
\* deleted, by itself or with its author (the triggers of migrations.go, UpdateMessage).
THEOREM CountsCorrect == Spec => []RepliesCounted
<1>1. RowsInv => RepliesCounted
  BY DEF RowsInv
<1> QED BY <1>1, RowsAlways, PTL

\* No reaction, pin, history, encrypted copy or reply is left of a message or member that
\* is gone, and a message has one pin (the foreign keys of migrations.go).
THEOREM ReferencesHold == Spec => []NothingDangles
<1>1. RowsInv => NothingDangles
  BY DEF RowsInv
<1> QED BY <1>1, RowsAlways, PTL

-----------------------------------------------------------------------------
\* Mentions

\* Messages are only ever stored anew, and never unmade.
Aged == \A m \in Messages : /\ Stored(m)' => Stored(m) \/ row[m].state = "none"
                            /\ row'[m].state = "none" => row[m].state = "none"

MentionsInv == MentionsNoted /\ \A m \in Messages : Untouched(m)

LEMMA AgedSame == row' = row => Aged
BY DEF Aged, Stored

LEMMA AgedPost ==
    ASSUME RowsInv, NEW r \in Requests, NEW via \in {"http", "ws"}, NEW m \in Messages,
           NEW p \in Messages \cup {NoMessage}, Post(r, via, m, p)
    PROVE  Aged /\ Stored(m)'
<1>1. row[m].state = "none" /\ row' = RowsWith(m, p) /\ (p = NoMessage \/ Stored(p))
  BY DEF Post
<1>2. p # m
  BY <1>1, MessagesAssumption DEF Stored
<1>3. row'[m].state = "stored" /\ \A x \in Messages \ {m} : row'[x].state = row[x].state
  BY <1>1, <1>2, RowsPosted DEF RowsInv
<1> QED BY <1>1, <1>3 DEF Aged, Stored

LEMMA AgedGone ==
    ASSUME RowsInv, NEW gone \in SUBSET Messages, \A m \in gone : Stored(m), Deletable(gone),
           row' = RowsWithout(gone)
    PROVE  Aged
<1>1. /\ \A m \in gone : row'[m].state = "deleted"
      /\ \A m \in Messages \ gone : row'[m].state = row[m].state
  BY RowsLeft
<1> QED BY <1>1 DEF Aged, Stored

LEMMA AgedSave ==
    ASSUME RowsInv, NEW r \in Requests, Save(r)
    PROVE  Aged
<1>1. PICK m \in Messages : m = req[r].msg
  BY AtWork DEF RowsInv, Save
<1>2. row' = IF Stored(m)
             THEN [row EXCEPT ![m].text = req[r].text, ![m].edits = req[r].edits] ELSE row
  BY <1>1 DEF Save
<1>3. row[m] \in Row /\ row \in [Messages -> Row]
  BY TypesBefore
<1> DEFINE d == [row[m] EXCEPT !.text = req[r].text, !.edits = req[r].edits]
<1>4. d.state = row[m].state
  BY <1>3 DEF Row
<1>5. Stored(m) => row' = [row EXCEPT ![m] = d]
  BY <1>2, <1>3
<1> HIDE DEF d
<1>6. \A x \in Messages : row'[x].state = row[x].state
  BY <1>2, <1>3, <1>4, <1>5
<1> QED BY <1>6 DEF Aged, Stored

\* Whatever begins or goes on keeps the mentions that are still to be handled, and who is
\* at work has found the message stored.
LEMMA TodoKept ==
    ASSUME TypeInv, MentionsInv, Aged, note' = note, member' = member,
           \A s \in Requests : \/ req[s].todo = {}
                               \/ req'[s].msg = req[s].msg /\ req[s].todo \subseteq req'[s].todo,
           \A s \in Requests, m \in Messages :
              req'[s].msg = m => req[s].msg = m \/ row'[m].state # "none"
    PROVE  MentionsInv'
<1>1. ASSUME NEW m \in Messages, NEW u \in Members
      PROVE  /\ note'[m][u] = "due" => \E s \in Requests : req'[s].msg = m /\ u \in req'[s].todo
             /\ note'[m][u] = "gone" => u \notin member' \/ ~Stored(m)'
             /\ note'[m][u] = "stored" => u \in member'
  <2>1. note'[m][u] = "due" => \E s \in Requests : req'[s].msg = m /\ u \in req'[s].todo
    BY DEF MentionsInv, MentionsNoted
  <2>2. note'[m][u] = "gone" => u \notin member' \/ ~Stored(m)'
    <3>1. Untouched(m) /\ (Stored(m)' => Stored(m) \/ row[m].state = "none")
      BY DEF Aged, MentionsInv
    <3>2. note[m][u] = "gone" => u \notin member \/ ~Stored(m)
      BY DEF MentionsInv, MentionsNoted
    <3>3. note[m][u] = "gone" => row[m].state # "none"
      BY <3>1 DEF Untouched
    <3> QED BY <3>1, <3>2, <3>3
  <2>3. note'[m][u] = "stored" => u \in member'
    BY DEF MentionsInv, MentionsNoted
  <2> QED BY <2>1, <2>2, <2>3
<1>2. MentionsNoted'
  BY <1>1 DEF MentionsNoted, Stored
<1>3. \A m \in Messages : Untouched(m)'
  BY DEF MentionsInv, Untouched, Aged
<1> QED BY <1>2, <1>3 DEF MentionsInv

LEMMA MentionsBegin == Init => MentionsInv
BY Constants DEF Init, MentionsInv, MentionsNoted, Untouched

LEMMA PostMentions ==
    ASSUME RowsInv, MentionsInv, NEW r \in Requests, NEW m \in Messages,
           NEW via \in {"http", "ws"},
           \/ \E p \in Messages \cup {NoMessage} : Post(r, via, m, p)
           \/ Edit(r, via, m) \/ Delete(r, via, m)
    PROVE  MentionsInv'
<1>1. note' = note /\ member' = member
  BY DEF Post, Edit, Delete
<1>2. Aged /\ row'[m].state # "none"
  <2>1. CASE \E p \in Messages \cup {NoMessage} : Post(r, via, m, p)
    BY <2>1, AgedPost DEF Stored
  <2>2. CASE Edit(r, via, m)
    BY <2>2, AgedSame DEF Edit, Stored
  <2>3. CASE Delete(r, via, m)
    <3>1. Stored(m) /\ Deletable({m}) /\ row' = RowsWithout({m})
      BY <2>3 DEF Delete
    <3>2. Aged
      BY <3>1, AgedGone
    <3> QED BY <3>1, <3>2 DEF Aged, Stored
  <2> QED BY <2>1, <2>2, <2>3
<1>3. ASSUME \E at : Begun(r, at, m)
      PROVE  MentionsInv'
  <2>1. req[r].todo = {} /\ req'[r].msg = m /\ \A s \in Requests \ {r} : req'[s] = req[s]
    BY <1>3, BegunKept, TypesBefore
  <2>2. \A s \in Requests : \/ req[s].todo = {}
                            \/ req'[s].msg = req[s].msg /\ req[s].todo \subseteq req'[s].todo
    BY <2>1
  <2>3. \A s \in Requests, x \in Messages :
           req'[s].msg = x => req[s].msg = x \/ row'[x].state # "none"
    BY <1>2, <2>1
  <2> QED BY <1>1, <1>2, <2>2, <2>3, TodoKept, TypesBefore
<1>4. CASE Delete(r, via, m) /\ via = "http"
  <2>1. req' = req
    BY <1>4 DEF Delete
  <2> QED BY <1>1, <1>2, <2>1, TodoKept, TypesBefore
<1>5. CASE Delete(r, via, m) /\ via = "ws"
  BY <1>3, <1>5, DeleteBegins, TypesBefore
<1>6. CASE Edit(r, via, m)
  BY <1>3, <1>6, EditBegins, TypesBefore
<1>7. CASE \E p \in Messages \cup {NoMessage} : Post(r, via, m, p)
  BY <1>3, <1>7, PostBegins, TypesBefore
<1> QED BY <1>4, <1>5, <1>6, <1>7

\* A request changes notifications of its message only.
LEMMA UntouchedStill ==
    ASSUME MentionsInv, NEW r \in Requests, NEW m \in Messages, m = req[r].msg, row' = row,
           req'[r].msg = m, \A s \in Requests \ {r} : req'[s] = req[s],
           \A x \in Messages \ {m} : note'[x] = note[x]
    PROVE  \A x \in Messages : Untouched(x)'
<1> SUFFICES ASSUME NEW x \in Messages, row[x].state = "none"
             PROVE  /\ \A s \in Requests : req'[s].msg # x
                    /\ \A u \in Members : note'[x][u] = "none"
  BY DEF Untouched
<1>1. Untouched(x)
  BY DEF MentionsInv
<1>2. x # m
  BY <1>1 DEF Untouched
<1> QED BY <1>1, <1>2 DEF Untouched

\* The notifications of a message are due to the members that its request has to notify.
LEMMA AnnounceMentions ==
    ASSUME RowsInv, MentionsInv, NEW r \in Requests, Announce(r)
    PROVE  MentionsInv'
<1>1. TypeInv
  BY TypesBefore
<1>2. PICK m \in Messages, q \in Request :
             /\ m = req[r].msg /\ req[r].at = "announcing" /\ Shaped(q) /\ Becomes(r, q)
             /\ q.at = "mentioning" /\ q.msg = m
             /\ Broadcast(m, 0)
             /\ note' = [note EXCEPT ![m] = [u \in Members |-> IF u \in q.todo THEN "due" ELSE "none"]]
             /\ UNCHANGED <<member, row, attached, answer>>
  BY <1>1, AnnounceStep, Zenon
<1>3. req'[r] = q /\ \A s \in Requests \ {r} : req'[s] = req[s]
  BY <1>1, <1>2, RequestsKept
<1>4. /\ note'[m] = [v \in Members |-> IF v \in q.todo THEN "due" ELSE "none"]
      /\ \A x \in Messages \ {m} : note'[x] = note[x]
  BY <1>2, TypesBefore
<1>5. \A x \in Messages : Untouched(x)'
  BY <1>2, <1>3, <1>4, UntouchedStill
<1>6. ASSUME NEW x \in Messages, NEW u \in Members
      PROVE  /\ note'[x][u] = "due" => \E s \in Requests : req'[s].msg = x /\ u \in req'[s].todo
             /\ note'[x][u] = "gone" => u \notin member' \/ ~Stored(x)'
             /\ note'[x][u] = "stored" => u \in member'
  <2>1. CASE x = m
    <3>1. note'[x][u] = IF u \in q.todo THEN "due" ELSE "none"
      BY <1>4, <2>1
    <3> QED BY <1>2, <1>3, <2>1, <3>1
  <2>2. CASE x # m
    <3>1. note'[x] = note[x] /\ (Stored(x)' <=> Stored(x)) /\ member' = member
      BY <1>2, <1>4, <2>2 DEF Stored
    <3>2. ASSUME note[x][u] = "due"
          PROVE  \E s \in Requests : req'[s].msg = x /\ u \in req'[s].todo
      <4>1. PICK s \in Requests : req[s].msg = x /\ u \in req[s].todo
        BY <3>2 DEF MentionsInv, MentionsNoted
      <4> QED BY <1>2, <1>3, <2>2, <4>1
    <3> QED BY <3>1, <3>2 DEF MentionsInv, MentionsNoted
  <2> QED BY <2>1, <2>2
<1>7. MentionsNoted'
  BY <1>6 DEF MentionsNoted, Stored
<1> QED BY <1>5, <1>7 DEF MentionsInv

LEMMA MentionMentions ==
    ASSUME RowsInv, MentionsInv, NEW r \in Requests, NEW u \in Members, Mention(r, u)
    PROVE  MentionsInv'
<1>1. TypeInv
  BY TypesBefore
<1>2. PICK m \in Messages, q \in Request, n \in {"stored", "unstored", "gone"} :
             /\ m = req[r].msg /\ req[r].at = "mentioning" /\ Shaped(q) /\ Becomes(r, q)
             /\ q.at = "mentioning" /\ q.msg = m /\ q.todo = req[r].todo \ {u}
             /\ note' = [note EXCEPT ![m][u] = n]
             /\ n = "gone" <=> ~(u \in member /\ Stored(m))
             /\ UNCHANGED <<member, row, attached, answer, shown, astray>>
  BY <1>1, MentionStep, Zenon
<1>3. req'[r] = q /\ \A s \in Requests \ {r} : req'[s] = req[s]
  BY <1>1, <1>2, RequestsKept
<1>4. /\ note'[m][u] = n
      /\ \A x \in Messages, v \in Members : x # m \/ v # u => note'[x][v] = note[x][v]
      /\ \A x \in Messages \ {m} : note'[x] = note[x]
  BY <1>2, TypesBefore
<1>5. \A x \in Messages : Untouched(x)'
  BY <1>2, <1>3, <1>4, UntouchedStill
<1>6. ASSUME NEW x \in Messages, NEW v \in Members
      PROVE  /\ note'[x][v] = "due" => \E s \in Requests : req'[s].msg = x /\ v \in req'[s].todo
             /\ note'[x][v] = "gone" => v \notin member' \/ ~Stored(x)'
             /\ note'[x][v] = "stored" => v \in member'
  <2>1. (Stored(x)' <=> Stored(x)) /\ member' = member
    BY <1>2 DEF Stored
  <2>2. CASE x = m /\ v = u
    BY <1>2, <1>4, <2>1, <2>2
  <2>3. CASE x # m \/ v # u
    <3>1. note'[x][v] = note[x][v]
      BY <1>4, <2>3
    <3>2. ASSUME note[x][v] = "due"
          PROVE  \E s \in Requests : req'[s].msg = x /\ v \in req'[s].todo
      <4>1. PICK s \in Requests : req[s].msg = x /\ v \in req[s].todo
        BY <3>2 DEF MentionsInv, MentionsNoted
      <4> QED BY <1>2, <1>3, <2>3, <4>1
    <3> QED BY <2>1, <3>1, <3>2 DEF MentionsInv, MentionsNoted
  <2> QED BY <2>2, <2>3
<1>7. MentionsNoted'
  BY <1>6 DEF MentionsNoted, Stored
<1> QED BY <1>5, <1>7 DEF MentionsInv

LEMMA GoesOnMentions ==
    ASSUME RowsInv, MentionsInv, NEW r \in Requests,
           MentionsDone(r) \/ Trace(r) \/ Save(r) \/ Show(r) \/ Unshow(r) \/ Fails(r)
    PROVE  MentionsInv'
<1>1. note' = note /\ member' = member
  BY DEF MentionsDone, Trace, Save, Show, Unshow, Fails
<1>2. req[r].todo = {}
  BY AtWork, TypesBefore DEF MentionsDone, Trace, Save, Show, Unshow, Fails
<1>3. \A s \in Requests \ {r} : req'[s] = req[s]
  BY TypesBefore DEF MentionsDone, Trace, Save, Show, Unshow, Fails, Done, To
<1>4. Aged
  BY AgedSame, AgedSave DEF MentionsDone, Trace, Show, Unshow, Fails
<1>5. req'[r].msg = req[r].msg \/ req'[r].msg \notin Messages
  <2>1. CASE MentionsDone(r) \/ Show(r) \/ Unshow(r) \/ Fails(r)
    <3>1. req'[r] = Idle
      BY <2>1, TypesBefore DEF MentionsDone, Show, Unshow, Fails, Done
    <3> QED BY <3>1, Constants
  <2>2. CASE Trace(r) \/ Save(r)
    <3>1. \E at \in {"saving", "showing"} : To(r, at) /\ req[r].at \in {"tracing", "saving"}
      BY <2>2 DEF Trace, Save
    <3>2. PICK q \in Request : Shaped(q) /\ Becomes(r, q) /\ q.msg = req[r].msg
      BY <3>1, GoingOn, TypesBefore
    <3>3. req'[r] = q
      BY <3>2, RequestsKept, TypesBefore
    <3> QED BY <3>2, <3>3
  <2> QED BY <2>1, <2>2
<1>6. \A s \in Requests, x \in Messages :
         req'[s].msg = x => req[s].msg = x \/ row'[x].state # "none"
  BY <1>3, <1>5
<1> QED BY <1>1, <1>2, <1>3, <1>4, <1>6, TodoKept, TypesBefore

LEMMA RemoveMemberMentions ==
    ASSUME RowsInv, MentionsInv, NEW u \in Members, RemoveMember(u)
    PROVE  MentionsInv'
<1> DEFINE gone == {m \in Messages : Stored(m) /\ Author[m] = u}
<1>1. /\ Deletable(gone) /\ member' = member \ {u} /\ row' = RowsWithout(gone)
      /\ note' = [m \in Messages |-> [note[m] EXCEPT ![u] = IF @ = "none" THEN @ ELSE "gone"]]
      /\ req' = req
  BY DEF RemoveMember
<1>2. Aged
  BY <1>1, AgedGone
<1> HIDE DEF gone
<1>3. \A m \in Messages : note[m] \in [Members -> NoteState]
  BY TypesBefore
<1>4. \A m \in Messages, v \in Members :
         note'[m][v] = IF v = u /\ note[m][u] # "none" THEN "gone" ELSE note[m][v]
  BY <1>1, <1>3
<1>5. ASSUME NEW m \in Messages, NEW v \in Members
      PROVE  /\ note'[m][v] = "due" => \E s \in Requests : req'[s].msg = m /\ v \in req'[s].todo
             /\ note'[m][v] = "gone" => v \notin member' \/ ~Stored(m)'
             /\ note'[m][v] = "stored" => v \in member'
  <2>1. Untouched(m) /\ (Stored(m)' => Stored(m) \/ row[m].state = "none")
    BY <1>2 DEF Aged, MentionsInv
  <2>2. CASE v = u
    <3>1. note'[m][v] \in {"none", "gone"} /\ v \notin member'
      BY <1>1, <1>4, <2>2
    <3> QED BY <3>1
  <2>3. CASE v # u
    <3>1. note'[m][v] = note[m][v] /\ (v \in member' <=> v \in member)
      BY <1>1, <1>4, <2>3
    <3>2. note[m][v] = "gone" => v \notin member' \/ ~Stored(m)'
      <4>1. note[m][v] = "gone" => v \notin member \/ ~Stored(m)
        BY DEF MentionsInv, MentionsNoted
      <4>2. note[m][v] = "gone" => row[m].state # "none"
        BY <2>1 DEF Untouched
      <4> QED BY <2>1, <3>1, <4>1, <4>2
    <3> QED BY <1>1, <3>1, <3>2 DEF MentionsInv, MentionsNoted
  <2> QED BY <2>2, <2>3
<1>6. MentionsNoted'
  BY <1>5 DEF MentionsNoted, Stored
<1>7. \A m \in Messages : Untouched(m)'
  BY <1>1, <1>2, <1>4 DEF MentionsInv, Untouched, Aged
<1> QED BY <1>6, <1>7 DEF MentionsInv

LEMMA CrashMentions ==
    ASSUME RowsInv, MentionsInv, Crash
    PROVE  MentionsInv'
<1>1. /\ req' = [r \in Requests |-> Idle] /\ row' = row /\ member' = member
      /\ \A m \in Messages, u \in Members :
            note'[m][u] = IF note[m][u] = "due" THEN "stopped" ELSE note[m][u]
  BY DEF Crash
<1>2. MentionsNoted'
  BY <1>1 DEF MentionsInv, MentionsNoted, Stored
<1>3. \A m \in Messages : Untouched(m)'
  BY <1>1, Constants DEF MentionsInv, Untouched
<1> QED BY <1>2, <1>3 DEF MentionsInv

LEMMA MentionsStep == RowsInv /\ MentionsInv /\ [Next]_vars => MentionsInv'
<1> SUFFICES ASSUME RowsInv, MentionsInv, [Next]_vars PROVE MentionsInv'
  OBVIOUS
<1>1. ASSUME NEW r \in Requests, NEW m \in Messages, NEW via \in {"http", "ws"},
             \/ \E p \in Messages \cup {NoMessage} : Post(r, via, m, p)
             \/ Edit(r, via, m) \/ Delete(r, via, m)
      PROVE  MentionsInv'
  BY <1>1, PostMentions
<1>2. ASSUME req' = req, note' = note, row' = row, member' = member
      PROVE  MentionsInv'
  BY <1>2, AgedSame, TodoKept, TypesBefore
<1>3. ASSUME NEW r \in Requests, GoesOn(r) \/ Fails(r)
      PROVE  MentionsInv'
  BY <1>3, AnnounceMentions, MentionMentions, GoesOnMentions DEF GoesOn
<1>4. ASSUME NEW u \in Members, RemoveMember(u)
      PROVE  MentionsInv'
  BY <1>4, RemoveMemberMentions
<1>5. ASSUME NEW u \in Members, NEW kind \in Kinds, NEW m \in Messages, Attach(u, kind, m)
      PROVE  MentionsInv'
  BY <1>2, <1>5 DEF Attach
<1>6. ASSUME NEW a \in attached, Detach(a)
      PROVE  MentionsInv'
  BY <1>2, <1>6 DEF Detach
<1>7. ASSUME NEW u \in Readers, List(u) \/ Tell(u)
      PROVE  MentionsInv'
  BY <1>2, <1>7 DEF List, Tell
<1>8. CASE UNCHANGED vars
  BY <1>2, <1>8 DEF vars
<1> QED BY <1>1, <1>3, <1>4, <1>5, <1>6, <1>7, <1>8, CrashMentions DEF Next

\* A mention is not forgotten while its request is at work, and whether it led to a
\* notification depends on the member, the message, the queries of handleMentions and the
\* server only, not on what other requests do.
THEOREM MentionsAlwaysNoted == Spec => []MentionsNoted
<1>1. MentionsInv => MentionsNoted
  BY DEF MentionsInv
<1> QED BY <1>1, MentionsBegin, MentionsStep, RowsAlways, PTL DEF Spec

-----------------------------------------------------------------------------
\* What readers are shown

AllShown == \A m \in Messages : ShownInv(m)

\* Nothing happens to the message m.
LeftAlone(m) ==
    /\ row'[m].state = row[m].state /\ row'[m].text = row[m].text
    /\ \A s \in Requests : req'[s] = req[s] \/ (req'[s].msg # m /\ req[s].msg # m)
    /\ \A u \in Readers : shown'[u][m] = shown[u][m]
    /\ m \notin astray' => m \notin astray

Only(m) == \A x \in Messages \ {m} : LeftAlone(x)

LEMMA ListedAt ==
    ASSUME NEW m \in Messages
    PROVE  /\ Listed[m] = IF row[m].state = "stored" THEN row[m].text ELSE Nothing
           /\ Listed'[m] = IF row'[m].state = "stored" THEN row'[m].text ELSE Nothing
BY DEF Listed, Stored

LEMMA ShownLeftAlone ==
    ASSUME NEW m \in Messages, ShownInv(m), LeftAlone(m)
    PROVE  ShownInv(m)'
BY ListedAt DEF ShownInv, LeftAlone, Agrees, Stored, Pending, Framed

LEMMA ShownKept ==
    ASSUME AllShown, NEW m \in Messages, Only(m), ShownInv(m)'
    PROVE  AllShown'
<1>1. \A x \in Messages : ShownInv(x)'
  BY ShownLeftAlone DEF AllShown, Only
<1> QED BY <1>1 DEF AllShown

LEMMA BroadcastShows ==
    ASSUME TypeInv, NEW m \in Messages, NEW text, Broadcast(m, text)
    PROVE  /\ \A x \in Messages \ {m} : /\ x \in astray' <=> x \in astray
                                        /\ \A u \in Readers : shown'[u][x] = shown[u][x]
           /\ m \notin astray' => m \notin astray /\ \A u \in Readers : shown'[u][m] = text
<1>1. PICK full \in SUBSET Readers :
        /\ shown' = [u \in Readers |-> IF u \in full THEN shown[u]
                                       ELSE [shown[u] EXCEPT ![m] = text]]
        /\ astray' = IF full = {} THEN astray ELSE astray \cup {m}
  BY DEF Broadcast
<1>2. \A u \in Readers : shown[u] \in [Messages -> Texts \cup {Nothing, Unseen}]
  BY DEF TypeInv, TypeOK
<1>3. \A u \in Readers : /\ u \in full => shown'[u] = shown[u]
                         /\ u \notin full => shown'[u] = [shown[u] EXCEPT ![m] = text]
  BY <1>1
<1> QED BY <1>1, <1>2, <1>3

LEMMA PostShown ==
    ASSUME RowsInv, AllShown, NEW r \in Requests, NEW via \in {"http", "ws"}, NEW m \in Messages,
           NEW p \in Messages \cup {NoMessage}, Post(r, via, m, p)
    PROVE  AllShown'
<1>1. /\ row[m].state = "none" /\ (p = NoMessage \/ Stored(p)) /\ row' = RowsWith(m, p)
      /\ UNCHANGED <<shown, astray>>
  BY DEF Post
<1>2. p # m
  BY <1>1, MessagesAssumption DEF Stored
<1>3. /\ row'[m].state = "stored" /\ row'[m].text = 0
      /\ \A x \in Messages \ {m} : row'[x].state = row[x].state /\ row'[x].text = row[x].text
  BY <1>1, <1>2, RowsPosted, TypesBefore
<1>4. /\ req[r].msg = NoMessage /\ req'[r].at = "announcing" /\ req'[r].msg = m
      /\ \A s \in Requests \ {r} : req'[s] = req[s]
  BY PostBegins, BegunKept, TypesBefore
<1>5. Only(m)
  BY <1>1, <1>3, <1>4, MessagesAssumption DEF Only, LeftAlone
<1>6. \A s \in Requests : req[s].msg # m
  BY <1>1 DEF AllShown, ShownInv
<1>7. ShownInv(m)'
  BY <1>3, <1>4, <1>6, ListedAt DEF ShownInv, Stored, Pending, Framed
<1> QED BY <1>5, <1>7, ShownKept

LEMMA EditShown ==
    ASSUME RowsInv, AllShown, NEW r \in Requests, NEW via \in {"http", "ws"}, NEW m \in Messages,
           Edit(r, via, m)
    PROVE  AllShown'
<1>1. Stored(m) /\ UNCHANGED <<row, answer, shown, astray>>
  BY DEF Edit
<1>2. /\ req[r].msg = NoMessage /\ req'[r].at \in {"tracing", "saving"} /\ req'[r].msg = m
      /\ \A s \in Requests \ {r} : req'[s] = req[s]
  BY EditBegins, BegunKept, TypesBefore
<1>3. Only(m)
  BY <1>1, <1>2, MessagesAssumption DEF Only, LeftAlone
<1>4. ShownInv(m) /\ req[r].msg # m
  BY <1>2, MessagesAssumption DEF AllShown
<1>5. /\ Listed'[m] = Listed[m]
      /\ \A u \in Readers : Agrees(u, m)' <=> Agrees(u, m)
  BY <1>1, ListedAt DEF Agrees, Stored
<1>6. /\ ~Pending(req'[r])
      /\ \A s \in Requests : s = r \/ (req'[s] = req[s] /\ (Pending(req'[s]) <=> Pending(req[s])))
  BY <1>2 DEF Pending
<1>7. ASSUME m \notin astray
      PROVE  /\ \A s \in Requests : req'[s].msg = m =>
                  /\ req'[s].at \in {"tracing", "saving"} => Stored(m)
                  /\ Pending(req'[s]) => Framed(req'[s]) = Listed[m]
             /\ (\A s \in Requests : ~(req'[s].msg = m /\ Pending(req'[s])))
                  => \A u \in Readers : Agrees(u, m)
  BY <1>1, <1>4, <1>6, <1>7 DEF ShownInv
<1>8. row[m].state # "none"
  BY <1>1 DEF Stored
<1>9. ShownInv(m)'
  BY <1>1, <1>5, <1>7, <1>8 DEF ShownInv, Stored, Pending, Framed
<1> QED BY <1>3, <1>9, ShownKept

\* A request sends its frame.
LEMMA FrameShown ==
    ASSUME TypeInv, AllShown, NEW r \in Requests, NEW m \in Messages, m = req[r].msg,
           Pending(req[r]), Broadcast(m, Framed(req[r])), row' = row,
           \A s \in Requests \ {r} : req'[s] = req[s],
           req'[r].msg = m \/ req'[r].msg \notin Messages, req'[r].at \in {"idle", "mentioning"}
    PROVE  AllShown'
<1>1. /\ \A x \in Messages \ {m} : /\ x \in astray' <=> x \in astray
                                   /\ \A u \in Readers : shown'[u][x] = shown[u][x]
      /\ m \notin astray' =>
            m \notin astray /\ \A u \in Readers : shown'[u][m] = Framed(req[r])
  BY BroadcastShows
<1>2. Only(m)
  BY <1>1 DEF Only, LeftAlone
<1>3. ShownInv(m)
  BY DEF AllShown
<1>4. Listed'[m] = Listed[m] /\ row'[m] = row[m]
  BY ListedAt
<1>5. row[m].state # "none"
  BY <1>3 DEF ShownInv
<1>6. ASSUME m \notin astray'
      PROVE  /\ \A s \in Requests : req'[s].msg = m =>
                  /\ req'[s].at \in {"tracing", "saving"} => Stored(m)
                  /\ Pending(req'[s]) => Framed(req'[s]) = Listed[m]
             /\ \A u \in Readers : shown'[u][m] = Listed[m]
  <2>1. m \notin astray /\ \A u \in Readers : shown'[u][m] = Framed(req[r])
    BY <1>1, <1>6
  <2>2. Framed(req[r]) = Listed[m]
    BY <1>3, <2>1 DEF ShownInv
  <2>3. \A s \in Requests : req[s].msg = m =>
                  /\ req[s].at \in {"tracing", "saving"} => Stored(m)
                  /\ Pending(req[s]) => Framed(req[s]) = Listed[m]
    BY <1>3, <2>1 DEF ShownInv
  <2>4. \A s \in Requests : s = r \/ req'[s] = req[s]
    OBVIOUS
  <2>5. ~Pending(req'[r]) /\ req'[r].at \notin {"tracing", "saving"}
    BY DEF Pending
  <2> QED BY <2>1, <2>2, <2>3, <2>4, <2>5
<1>7. ShownInv(m)'
  BY <1>4, <1>5, <1>6 DEF ShownInv, Agrees, Stored, Pending, Framed
<1> QED BY <1>2, <1>7, ShownKept

LEMMA AnnounceShown ==
    ASSUME RowsInv, AllShown, NEW r \in Requests, Announce(r)
    PROVE  AllShown'
<1>1. TypeInv
  BY TypesBefore
<1>2. PICK m \in Messages, q \in Request :
             /\ m = req[r].msg /\ req[r].at = "announcing" /\ Shaped(q) /\ Becomes(r, q)
             /\ q.at = "mentioning" /\ q.msg = m
             /\ Broadcast(m, 0)
             /\ note' = [note EXCEPT ![m] = [u \in Members |-> IF u \in q.todo THEN "due" ELSE "none"]]
             /\ UNCHANGED <<member, row, attached, answer>>
  BY <1>1, AnnounceStep, Zenon
<1>3. req'[r] = q /\ \A s \in Requests \ {r} : req'[s] = req[s]
  BY <1>1, <1>2, RequestsKept
<1>4. Pending(req[r]) /\ Framed(req[r]) = 0
  BY <1>2 DEF Pending, Framed
<1> QED BY <1>1, <1>2, <1>3, <1>4, FrameShown

LEMMA ShowShown ==
    ASSUME RowsInv, AllShown, NEW r \in Requests, Show(r) \/ Unshow(r)
    PROVE  AllShown'
<1>1. TypeInv
  BY TypesBefore
<1>2. PICK m \in Messages : m = req[r].msg
  BY <1>1, AtWork DEF Show, Unshow
<1>3. Done(r) /\ row' = row
  BY DEF Show, Unshow
<1>4. req'[r] = Idle /\ \A s \in Requests \ {r} : req'[s] = req[s]
  BY <1>1, <1>3, IdleAgain, RequestsKept
<1>5. Pending(req[r]) /\ Broadcast(m, Framed(req[r]))
  BY <1>2 DEF Show, Unshow, Pending, Framed
<1> QED BY <1>1, <1>2, <1>3, <1>4, <1>5, Constants, FrameShown

\* A request without a frame to send goes on, or is through.
LEMMA OthersShown ==
    ASSUME TypeInv, AllShown, NEW r \in Requests, row' = row, shown' = shown, astray' = astray,
           \A s \in Requests \ {r} : req'[s] = req[s],
           ~Pending(req[r]), ~Pending(req'[r]),
           req'[r].msg = req[r].msg \/ req'[r].msg \notin Messages,
           req'[r].at \in {"tracing", "saving"} => req[r].at \in {"tracing", "saving"}
    PROVE  AllShown'
<1> SUFFICES ASSUME NEW m \in Messages PROVE ShownInv(m)'
  BY DEF AllShown
<1>1. ShownInv(m) /\ Listed'[m] = Listed[m]
  BY ListedAt DEF AllShown
<1>2. \A s \in Requests : req'[s].msg = m =>
        /\ req[s].msg = m /\ (Pending(req'[s]) => req'[s] = req[s])
        /\ req'[s].at \in {"tracing", "saving"} => req[s].at \in {"tracing", "saving"}
  OBVIOUS
<1>3. row[m].state = "none" => \A s \in Requests : req'[s].msg # m
  BY <1>1, <1>2 DEF ShownInv
<1>4. ASSUME m \notin astray
      PROVE  /\ \A s \in Requests : req'[s].msg = m =>
                  /\ req'[s].at \in {"tracing", "saving"} => Stored(m)
                  /\ Pending(req'[s]) => Framed(req'[s]) = Listed[m]
             /\ (\A s \in Requests : ~(req'[s].msg = m /\ Pending(req'[s])))
                  => \A u \in Readers : Agrees(u, m)
  <2>1. \A s \in Requests : req'[s].msg = m =>
                  /\ req'[s].at \in {"tracing", "saving"} => Stored(m)
                  /\ Pending(req'[s]) => Framed(req'[s]) = Listed[m]
    BY <1>1, <1>2, <1>4 DEF ShownInv
  <2>2. ASSUME \A s \in Requests : ~(req'[s].msg = m /\ Pending(req'[s]))
        PROVE  \A s \in Requests : ~(req[s].msg = m /\ Pending(req[s]))
    BY <2>2
  <2> QED BY <1>1, <1>4, <2>1, <2>2 DEF ShownInv
<1> QED BY <1>1, <1>3, <1>4 DEF ShownInv, Agrees, Stored, Pending, Framed

LEMMA MentionShown ==
    ASSUME RowsInv, AllShown, NEW r \in Requests, NEW u \in Members, Mention(r, u)
    PROVE  AllShown'
<1>1. TypeInv
  BY TypesBefore
<1>2. PICK m \in Messages, q \in Request, n \in {"stored", "unstored", "gone"} :
             /\ m = req[r].msg /\ req[r].at = "mentioning" /\ Shaped(q) /\ Becomes(r, q)
             /\ q.at = "mentioning" /\ q.msg = m /\ q.todo = req[r].todo \ {u}
             /\ note' = [note EXCEPT ![m][u] = n]
             /\ n = "gone" <=> ~(u \in member /\ Stored(m))
             /\ UNCHANGED <<member, row, attached, answer, shown, astray>>
  BY <1>1, MentionStep, Zenon
<1>3. req'[r] = q /\ \A s \in Requests \ {r} : req'[s] = req[s]
  BY <1>1, <1>2, RequestsKept
<1>4. ~Pending(req[r]) /\ ~Pending(q)
  BY <1>2 DEF Pending
<1> QED BY <1>1, <1>2, <1>3, <1>4, OthersShown

LEMMA DoneShown ==
    ASSUME RowsInv, AllShown, NEW r \in Requests, MentionsDone(r) \/ Fails(r)
    PROVE  AllShown'
<1>1. TypeInv
  BY TypesBefore
<1>2. /\ Done(r) /\ UNCHANGED <<row, answer, shown, astray>> /\ req[r].at \in {"mentioning", "saving"}
  BY DEF MentionsDone, Fails
<1>3. req'[r] = Idle /\ \A s \in Requests \ {r} : req'[s] = req[s]
  BY <1>1, <1>2, IdleAgain, RequestsKept
<1>4. ~Pending(req[r]) /\ ~Pending(Idle)
  BY <1>2, Constants DEF Pending
<1> QED BY <1>1, <1>2, <1>3, <1>4, Constants, OthersShown

LEMMA TraceShown ==
    ASSUME RowsInv, AllShown, NEW r \in Requests, Trace(r)
    PROVE  AllShown'
<1>1. TypeInv
  BY TypesBefore
<1>2. To(r, "saving") /\ UNCHANGED <<row, answer, shown, astray>> /\ req[r].at = "tracing"
  BY DEF Trace
<1>3. PICK q \in Request : Shaped(q) /\ Becomes(r, q) /\ q.at = "saving" /\ q.msg = req[r].msg
  BY <1>1, <1>2, GoingOn
<1>4. req'[r] = q /\ \A s \in Requests \ {r} : req'[s] = req[s]
  BY <1>1, <1>3, RequestsKept
<1>5. ~Pending(req[r]) /\ ~Pending(q)
  BY <1>2, <1>3 DEF Pending
<1> QED BY <1>1, <1>2, <1>3, <1>4, <1>5, OthersShown

\* The text is written: it is the one to be shown, or the message is astray.
LEMMA SaveShown ==
    ASSUME RowsInv, AllShown, NEW r \in Requests, Save(r)
    PROVE  AllShown'
<1>1. TypeInv
  BY TypesBefore
<1>2. PICK m \in Messages : m = req[r].msg
  BY <1>1, AtWork DEF Save
<1>3. /\ req[r].at = "saving" /\ Writes(r, m) /\ To(r, "showing") /\ shown' = shown
      /\ row' = IF Stored(m)
                THEN [row EXCEPT ![m].text = req[r].text, ![m].edits = req[r].edits] ELSE row
  BY <1>2 DEF Save
<1>4. PICK q \in Request : /\ Shaped(q) /\ Becomes(r, q) /\ q.at = "showing" /\ q.msg = m
                           /\ q.text = req[r].text
  BY <1>1, <1>2, <1>3, GoingOn
<1>5. req'[r] = q /\ \A s \in Requests \ {r} : req'[s] = req[s]
  BY <1>1, <1>4, RequestsKept
<1>6. /\ \A x \in Messages \ {m} : row'[x] = row[x]
      /\ row'[m].state = row[m].state
      /\ Stored(m) => row'[m].text = q.text
  <2>1. row[m] \in Row /\ row \in [Messages -> Row]
    BY TypesBefore
  <2> DEFINE d == [row[m] EXCEPT !.text = req[r].text, !.edits = req[r].edits]
  <2>2. d.state = row[m].state /\ d.text = req[r].text
    BY <2>1 DEF Row
  <2>3. Stored(m) => row' = [row EXCEPT ![m] = d]
    BY <1>3, <2>1
  <2> HIDE DEF d
  <2> QED BY <1>3, <1>4, <2>1, <2>2, <2>3
<1>7. /\ m \notin astray' => m \notin astray /\ ~Overlaps(r, m)
      /\ \A x \in Messages \ {m} : x \in astray' <=> x \in astray
  BY <1>3 DEF Writes
<1>8. Only(m)
  BY <1>2, <1>3, <1>4, <1>5, <1>6, <1>7 DEF Only, LeftAlone
<1>9. ShownInv(m)
  BY DEF AllShown
<1>10. row'[m].state # "none"
  BY <1>2, <1>6, <1>9 DEF ShownInv
<1>11. ASSUME m \notin astray'
       PROVE  /\ Stored(m)' /\ Listed'[m] = q.text
              /\ \A s \in Requests \ {r} : req'[s].msg = m => req'[s].at = "mentioning"
  <2>1. m \notin astray /\ ~Overlaps(r, m)
    BY <1>7, <1>11
  <2>2. Stored(m)
    BY <1>2, <1>3, <1>9, <2>1 DEF ShownInv
  <2>3. Stored(m)' /\ Listed'[m] = q.text
    BY <1>6, <2>2, ListedAt DEF Stored
  <2> QED BY <1>5, <2>1, <2>3 DEF Overlaps
<1>12. ShownInv(m)'
  BY <1>4, <1>5, <1>10, <1>11 DEF ShownInv, Pending, Framed
<1> QED BY <1>8, <1>12, ShownKept

\* The rows of messages go; they are astray, or their deletion will be shown.
LEMMA GoneShown ==
    ASSUME RowsInv, AllShown, NEW gone \in SUBSET Messages, \A m \in gone : Stored(m),
           Deletable(gone), row' = RowsWithout(gone), shown' = shown
    PROVE  /\ \A m \in gone : row'[m].state = "deleted"
           /\ \A m \in Messages \ gone :
                row'[m].state = row[m].state /\ row'[m].text = row[m].text
BY RowsLeft

LEMMA DeleteShown ==
    ASSUME RowsInv, AllShown, NEW r \in Requests, NEW via \in {"http", "ws"}, NEW m \in Messages,
           Delete(r, via, m)
    PROVE  AllShown'
<1>1. TypeInv
  BY TypesBefore
<1>2. Stored(m) /\ Deletable({m}) /\ row' = RowsWithout({m}) /\ shown' = shown
  BY DEF Delete
<1>3. /\ row'[m].state = "deleted"
      /\ \A x \in Messages \ {m} : row'[x].state = row[x].state /\ row'[x].text = row[x].text
  BY <1>2, GoneShown
<1>4. CASE via = "http"
  <2>1. req' = req /\ astray' = astray \cup {m}
    BY <1>4 DEF Delete
  <2>2. Only(m)
    BY <1>2, <1>3, <2>1 DEF Only, LeftAlone
  <2>3. ShownInv(m)'
    BY <1>3, <2>1 DEF ShownInv
  <2> QED BY <2>2, <2>3, ShownKept
<1>5. CASE via = "ws"
  <2>1. /\ req[r].msg = NoMessage /\ req'[r].at = "erasing" /\ req'[r].msg = m
        /\ \A s \in Requests \ {r} : req'[s] = req[s]
    BY <1>1, <1>5, DeleteBegins, BegunKept
  <2>2. /\ m \notin astray' => ~Overlaps(r, m)
        /\ \A x \in Messages \ {m} : x \in astray' <=> x \in astray
    BY <1>5 DEF Delete, Writes
  <2>3. ASSUME NEW x \in Messages \ {m}
        PROVE  LeftAlone(x)
    <3>1. x # NoMessage
      BY MessagesAssumption
    <3>2. \A s \in Requests : req'[s] = req[s] \/ (req'[s].msg # x /\ req[s].msg # x)
      BY <2>1, <3>1
    <3> QED BY <1>2, <1>3, <2>2, <3>2 DEF LeftAlone
  <2>4. Listed'[m] = Nothing
    BY <1>3, ListedAt
  <2>5. m \notin astray' => \A s \in Requests \ {r} : req'[s].msg = m => req'[s].at = "mentioning"
    BY <2>1, <2>2 DEF Overlaps
  <2>6. ShownInv(m)'
    BY <1>3, <2>1, <2>4, <2>5 DEF ShownInv, Pending, Framed
  <2>7. Only(m)
    BY <2>3 DEF Only
  <2> QED BY <2>6, <2>7, ShownKept
<1> QED BY <1>4, <1>5

LEMMA RemoveMemberShown ==
    ASSUME RowsInv, AllShown, NEW u \in Members, RemoveMember(u)
    PROVE  AllShown'
<1> DEFINE gone == {m \in Messages : Stored(m) /\ Author[m] = u}
<1>1. /\ Deletable(gone) /\ row' = RowsWithout(gone) /\ astray' = astray \cup gone
      /\ UNCHANGED <<req, answer, shown>>
  BY DEF RemoveMember
<1>2. gone \in SUBSET Messages /\ \A m \in gone : Stored(m)
  OBVIOUS
<1> HIDE DEF gone
<1>3. /\ \A m \in gone : row'[m].state = "deleted"
      /\ \A m \in Messages \ gone : row'[m].state = row[m].state /\ row'[m].text = row[m].text
  BY <1>1, <1>2, GoneShown
<1>4. ASSUME NEW m \in gone PROVE ShownInv(m)'
  BY <1>1, <1>3 DEF ShownInv
<1>5. ASSUME NEW m \in Messages \ gone PROVE ShownInv(m)'
  <2>1. LeftAlone(m)
    BY <1>1, <1>3 DEF LeftAlone
  <2> QED BY <2>1, ShownLeftAlone DEF AllShown
<1> QED BY <1>4, <1>5 DEF AllShown

LEMMA ListShown ==
    ASSUME RowsInv, AllShown, NEW u \in Readers, List(u)
    PROVE  AllShown'
<1>1. UNCHANGED <<row, req, shown, astray>>
  BY DEF List
<1>2. ASSUME NEW m \in Messages PROVE LeftAlone(m)
  BY <1>1 DEF LeftAlone
<1> QED BY <1>2, ShownLeftAlone DEF AllShown

\* What is told is the row, or a newer frame follows, or the message is astray.
LEMMA TellShown ==
    ASSUME RowsInv, AllShown, NEW u \in Readers, Tell(u)
    PROVE  AllShown'
<1> SUFFICES ASSUME NEW m \in Messages PROVE ShownInv(m)'
  BY DEF AllShown
<1>1. /\ row' = row /\ req' = req
      /\ \A v \in Readers : \/ shown'[v][m] = shown[v][m] \/ shown'[v][m] = Listed[m]
                             \/ m \in astray' \/ Framing(m)
      /\ m \notin astray' => m \notin astray
  BY TellStep, TypesBefore
<1>2. ShownInv(m) /\ Listed'[m] = Listed[m]
  BY <1>1, ListedAt DEF AllShown
<1>3. (\A r \in Requests : ~(req[r].msg = m /\ Pending(req[r]))) => ~Framing(m)
  BY DEF Framing, Pending
<1>4. ASSUME m \notin astray', \A r \in Requests : ~(req[r].msg = m /\ Pending(req[r])),
             NEW v \in Readers
      PROVE  Agrees(v, m)'
  <2>1. Agrees(v, m)
    BY <1>1, <1>2, <1>4 DEF ShownInv
  <2>2. shown'[v][m] = shown[v][m] \/ shown'[v][m] = Listed[m]
    BY <1>1, <1>3, <1>4
  <2> QED BY <1>1, <1>2, <2>1, <2>2 DEF Agrees, Stored
<1> QED BY <1>1, <1>2, <1>4 DEF ShownInv, Stored, Pending, Framed

LEMMA CrashShown ==
    ASSUME RowsInv, AllShown, Crash
    PROVE  AllShown'
<1>1. /\ req' = [r \in Requests |-> Idle] /\ row' = row
      /\ shown' = [u \in Readers |-> [m \in Messages |-> IF Stored(m) THEN Unseen ELSE Nothing]]
  BY DEF Crash
<1> SUFFICES ASSUME NEW m \in Messages PROVE ShownInv(m)'
  BY DEF AllShown
<1>2. Listed'[m] = IF Stored(m)' THEN row'[m].text ELSE Nothing
  BY ListedAt DEF Stored
<1>3. \A u \in Readers : shown'[u][m] = IF Stored(m) THEN Unseen ELSE Nothing
  BY <1>1
<1>4. \A u \in Readers : Agrees(u, m)'
  BY <1>1, <1>2, <1>3 DEF Agrees, Stored
<1> QED BY <1>1, <1>4, Constants DEF ShownInv, Pending

LEMMA ShownBegin == Init => AllShown
<1> SUFFICES ASSUME Init, NEW m \in Messages PROVE ShownInv(m)
  BY DEF AllShown
<1>1. Listed[m] = Nothing
  BY ListedAt, Constants DEF Init
<1> QED BY <1>1, Constants DEF Init, ShownInv, Agrees, Pending

LEMMA ShownStep == RowsInv /\ AllShown /\ [Next]_vars => AllShown'
<1> SUFFICES ASSUME RowsInv, AllShown, [Next]_vars PROVE AllShown'
  OBVIOUS
<1>1. ASSUME NEW r \in Requests, NEW m \in Messages, NEW via \in {"http", "ws"},
             \/ \E p \in Messages \cup {NoMessage} : Post(r, via, m, p)
             \/ Edit(r, via, m) \/ Delete(r, via, m)
      PROVE  AllShown'
  BY <1>1, PostShown, EditShown, DeleteShown
<1>2. ASSUME row' = row, req' = req, shown' = shown, astray' = astray
      PROVE  AllShown'
  <2> SUFFICES ASSUME NEW m \in Messages PROVE LeftAlone(m)
    BY ShownLeftAlone DEF AllShown
  <2> QED BY <1>2 DEF LeftAlone
<1>3. ASSUME NEW r \in Requests, GoesOn(r) \/ Fails(r)
      PROVE  AllShown'
  BY <1>3, AnnounceShown, DoneShown, MentionShown, TraceShown, SaveShown, ShowShown DEF GoesOn
<1>4. ASSUME NEW u \in Members, NEW kind \in Kinds, NEW m \in Messages, Attach(u, kind, m)
      PROVE  AllShown'
  BY <1>2, <1>4 DEF Attach
<1>5. ASSUME NEW a \in attached, Detach(a)
      PROVE  AllShown'
  BY <1>2, <1>5 DEF Detach
<1>6. ASSUME NEW u \in Members, RemoveMember(u)
      PROVE  AllShown'
  BY <1>6, RemoveMemberShown
<1>7. ASSUME NEW u \in Readers, List(u) \/ Tell(u)
      PROVE  AllShown'
  BY <1>7, ListShown, TellShown
<1>8. CASE UNCHANGED vars
  BY <1>2, <1>8 DEF vars
<1> QED BY <1>1, <1>3, <1>4, <1>5, <1>6, <1>7, <1>8, CrashShown DEF Next

\* When nobody is at work on a message that is not astray, all readers were last told what
\* is stored, or have not been told of it: each broadcast carries what its handler has
\* written, and no answer takes it back (handlers_message.go, handlers_ws.go).
THEOREM ReadersAlwaysAgree == Spec => []ReadersAgree
<1>1. AllShown => ReadersAgree
  <2> SUFFICES ASSUME AllShown, NEW u \in Readers, NEW m \in Messages,
                      \A r \in Requests : req[r].msg # m, m \notin astray
               PROVE  shown[u][m] = Listed[m] \/ (Stored(m) /\ shown[u][m] = Unseen)
    BY DEF ReadersAgree
  <2>1. ShownInv(m)
    BY DEF AllShown
  <2> QED BY <2>1 DEF ShownInv, Agrees
<1> QED BY <1>1, ShownBegin, ShownStep, RowsAlways, PTL DEF Spec
====================================================================================================
