------------------------------ MODULE Messages ------------------------------
(***************************************************************************)
(* The messages of a channel: posting, thread replies, mentions, editing   *)
(* and deleting, over HTTP (api/handlers_message.go) and over WebSocket    *)
(* (api/handlers_ws.go), what hangs on a message (reactions, pins, edit    *)
(* history, encrypted copies), and what a connected client is told, by the *)
(* frames of its connection and by the answers to its queries.             *)
(*                                                                         *)
(* A handler is a request that goes on from query to query and to the      *)
(* broadcasts; the requests of one connection follow one another, all      *)
(* others interleave.  The foreign keys and triggers are those of          *)
(* store/migrations.go.  A text is a number; the first text of a message   *)
(* is 0.                                                                   *)
(***************************************************************************)
EXTENDS Integers, FiniteSets

CONSTANTS
    Messages,   \* message ids
    Members,    \* the members of the channel
    Author,     \* who sends a message
    Readers,    \* the members who are connected and subscribed
    Requests,   \* the requests that run at the same time
    NoMessage,  \* no message
    Kinds,      \* the tables with rows that hang on a message
    MaxEdits    \* bound: edits of a message

ASSUME MessagesAssumption ==
    /\ Readers \subseteq Members
    /\ IsFiniteSet(Messages)
    /\ NoMessage \notin Messages
    /\ Author \in [Messages -> Members]
    /\ Kinds \subseteq {"reaction", "pin", "history", "encrypted"} /\ "history" \in Kinds
    /\ MaxEdits \in Nat

VARIABLES
    member,    \* the rows of members
    row,       \* the rows of messages
    attached,  \* what hangs on a message, and whose it is
    note,      \* the notification of a member that a message mentions
    req,       \* the requests, with their locals
    answer,    \* what a query of a reader has found and not told yet
    shown,     \* the text a reader was last told, by an answer or by a frame
    astray     \* history: messages of which a frame was dropped, or was not meant to
               \* be sent, that were written while another request had yet to send
               \* its frame, or of which an answer came after a frame that was
               \* newer; since the last start of the server

vars == <<member, row, attached, note, req, answer, shown, astray>>

-----------------------------------------------------------------------------

Texts == 0..MaxEdits

Row == [state : {"none", "stored", "deleted"},
        parent : Messages \cup {NoMessage}, text : Texts,
        edits : Nat,      \* edit_count
        replies : Nat]    \* reply_count

Request == [at : {"idle",
                  "announcing", \* SendNewMessage is next
                  "mentioning", \* handleMentions
                  "tracing",    \* CreateEditHistory
                  "saving",     \* UpdateMessage
                  "showing",    \* the broadcast of message.edit
                  "erasing"},   \* the broadcast of message.delete
            via : {"http", "ws"}, msg : Messages \cup {NoMessage},
            text : Texts, edits : Nat, todo : SUBSET Members]

NoRow == [state |-> "none", parent |-> NoMessage, text |-> 0,
          edits |-> 0, replies |-> 0]

Idle == [at |-> "idle", via |-> "http", msg |-> NoMessage, text |-> 0, edits |-> 0, todo |-> {}]

Nothing == MaxEdits + 1   \* no message, as far as the reader was told

Unseen == MaxEdits + 2    \* there when the reader connected, and not told of since

NoteState == {"none",
              "due",       \* mentioned in a message that is stored
              "stored",
              "unstored",  \* a query failed and nobody was told
              "gone",      \* the member or the message was gone
              "stopped"}   \* the server stopped first

NoAnswer == [m \in Messages |-> Nothing]

TypeOK ==
    /\ member \subseteq Members
    /\ row \in [Messages -> Row]
    /\ attached \subseteq Kinds \X Messages \X Members
    /\ note \in [Messages -> [Members -> NoteState]]
    /\ req \in [Requests -> Request]
    /\ answer \in [Readers -> [Messages -> Texts \cup {Nothing}]]
    /\ shown \in [Readers -> [Messages -> Texts \cup {Nothing, Unseen}]]
    /\ astray \subseteq Messages

Init ==
    /\ member = Members
    /\ row = [m \in Messages |-> NoRow]
    /\ attached = {}
    /\ note = [m \in Messages |-> [u \in Members |-> "none"]]
    /\ req = [r \in Requests |-> Idle]
    /\ answer = [u \in Readers |-> NoAnswer]
    /\ shown = [u \in Readers |-> [m \in Messages |-> Nothing]]
    /\ astray = {}

Stored(m) == m \in Messages /\ row[m].state = "stored"

Replies(m) == {x \in Messages : Stored(x) /\ row[x].parent = m}

Busy(r) == req[r].at # "idle"

-----------------------------------------------------------------------------
\* Helpers of the handlers

\* A request of member u begins, for a message of u; over a connection only when
\* the last is done.
Begins(r, u, via, first) ==
    /\ ~Busy(r) /\ u \in member
    /\ via = "ws" => \A q \in Requests :
                        ~(Busy(q) /\ req[q].via = "ws" /\ Author[req[q].msg] = u)
    /\ req' = [req EXCEPT ![r] = first]

To(r, at) == req' = [req EXCEPT ![r].at = at]

Done(r) == req' = [req EXCEPT ![r] = Idle]

\* A write to m by request r, while others may be about to write or broadcast.
Overlaps(r, m) == \E q \in Requests \ {r} : req[q].msg = m /\ req[q].at # "mentioning"

Writes(r, m) == astray' = IF Overlaps(r, m) THEN astray \cup {m} ELSE astray

\* BroadcastToChannel: each reader gets the frame, or its buffer is full.
Broadcast(m, text) ==
    \E full \in SUBSET Readers :
        /\ shown' = [u \in Readers |-> IF u \in full THEN shown[u]
                                       ELSE [shown[u] EXCEPT ![m] = text]]
        /\ astray' = IF full = {} THEN astray ELSE astray \cup {m}

\* Mutant: a deletion is not counted.
RowsWithoutSilent(gone) ==
    [m \in Messages |-> IF m \in gone THEN [NoRow EXCEPT !.state = "deleted"] ELSE row[m]]

\* Rows of messages go, with what hangs on them (ON DELETE CASCADE); triggers
\* count the replies that are left.  Notifications only lose their reference.
RowsWithout(gone) ==
    [m \in Messages |->
        IF m \in gone THEN [NoRow EXCEPT !.state = "deleted"]
        ELSE [row[m] EXCEPT !.replies = @ - Cardinality(Replies(m) \cap gone)]]

\* messages.thread_id has no ON DELETE: the replies must go with the message.
Deletable(gone) == \A m \in gone : Replies(m) \subseteq gone

-----------------------------------------------------------------------------
\* Posting

\* Mutant: only deletions are counted.
RowsWithSilent(m, p) == [row EXCEPT ![m] = [NoRow EXCEPT !.state = "stored", !.parent = p]]

\* CreateMessage, with the trigger that counts a reply.
RowsWith(m, p) ==
    [x \in Messages |->
        IF x = m THEN [NoRow EXCEPT !.state = "stored", !.parent = p]
        ELSE IF x = p THEN [row[x] EXCEPT !.replies = @ + 1]
        ELSE row[x]]

\* handleCreateMessage, handleWSMessageSend and handleWSThreadReply up to the
\* insert, which fails if the parent is not there.
Post(r, via, m, p) ==
    /\ row[m].state = "none"
    /\ p = NoMessage \/ Stored(p)
    /\ row' = RowsWith(m, p)
    /\ Begins(r, Author[m], via, [Idle EXCEPT !.at = "announcing", !.via = via, !.msg = m])
    /\ UNCHANGED <<member, attached, note, answer, shown, astray>>

\* SendNewMessage; which members are mentioned the text of the message says.
Announce(r) ==
    /\ req[r].at = "announcing"
    /\ Broadcast(req[r].msg, 0)
    /\ \E mentioned \in SUBSET (Members \ {Author[req[r].msg]}) :
          /\ req' = [req EXCEPT ![r].at = "mentioning", ![r].todo = mentioned]
          /\ note' = [note EXCEPT ![req[r].msg] =
                         [u \in Members |-> IF u \in mentioned THEN "due" ELSE "none"]]
    /\ UNCHANGED <<member, row, attached, answer>>

\* Mutant: a name is passed over when the member is not connected.
MentionReaders(r, u) ==
    /\ req[r].at = "mentioning" /\ u \in req[r].todo
    /\ req' = [req EXCEPT ![r].todo = @ \ {u}]
    /\ note' = [note EXCEPT ![req[r].msg][u] =
                   IF u \in Readers \cap member /\ Stored(req[r].msg) THEN "stored" ELSE @]
    /\ UNCHANGED <<member, row, attached, answer, shown, astray>>

\* handleMentions for one of the names.  The notification cannot be stored when the
\* member or the message is gone.  The errors of GetChannel, GetMemberByName and
\* CreateNotification are dropped, and the notification with them.  (The frame that
\* tells the member may be dropped too.)
Mention(r, u) ==
    /\ req[r].at = "mentioning" /\ u \in req[r].todo
    /\ req' = [req EXCEPT ![r].todo = @ \ {u}]
    /\ \E n \in IF u \in member /\ Stored(req[r].msg) THEN {"stored", "unstored"} ELSE {"gone"} :
          note' = [note EXCEPT ![req[r].msg][u] = n]
    /\ UNCHANGED <<member, row, attached, answer, shown, astray>>

MentionsDone(r) ==
    /\ req[r].at = "mentioning" /\ req[r].todo = {}
    /\ Done(r)
    /\ UNCHANGED <<member, row, attached, note, answer, shown, astray>>

-----------------------------------------------------------------------------
\* Editing and deleting, by the author

\* handleUpdateMessage and handleWSMessageEdit read the row; the new text and the
\* count of edits go into the copy.  Only over HTTP a history is kept.
Edit(r, via, m) ==
    /\ Stored(m) /\ row[m].edits < MaxEdits
    /\ \E text \in 1..MaxEdits :
          Begins(r, Author[m], via,
                 [Idle EXCEPT !.at = IF via = "http" THEN "tracing" ELSE "saving", !.via = via,
                              !.msg = m, !.text = text, !.edits = row[m].edits + 1])
    /\ UNCHANGED <<member, row, attached, note, answer, shown, astray>>

\* CreateEditHistory, of the new text; its error is dropped.
Trace(r) ==
    /\ req[r].at = "tracing"
    /\ attached' \in {attached} \cup
          (IF Stored(req[r].msg) THEN {attached \cup {<<"history", req[r].msg, Author[req[r].msg]>>}} ELSE {})
    /\ To(r, "saving")
    /\ UNCHANGED <<member, row, note, answer, shown, astray>>

\* UpdateMessage writes the text and the count of the copy, if the row is there;
\* that it was not is no error.
Save(r) ==
    LET m == req[r].msg IN
    /\ req[r].at = "saving"
    /\ row' = IF Stored(m)
              THEN [row EXCEPT ![m].text = req[r].text, ![m].edits = req[r].edits]
              ELSE row
    /\ Writes(r, m)
    /\ To(r, "showing")
    /\ UNCHANGED <<member, attached, note, answer, shown>>

\* Mutant: no frame for an edit over HTTP.
ShowOne(r) ==
    /\ req[r].at = "showing"
    /\ IF req[r].via = "ws" THEN Broadcast(req[r].msg, req[r].text) ELSE UNCHANGED <<shown, astray>>
    /\ Done(r)
    /\ UNCHANGED <<member, row, attached, note, answer>>

\* The broadcast of message.edit, also when the message is gone.
Show(r) ==
    /\ req[r].at = "showing"
    /\ Broadcast(req[r].msg, req[r].text)
    /\ Done(r)
    /\ UNCHANGED <<member, row, attached, note, answer>>

\* handleDeleteMessage and handleWSMessageDelete: it fails for a message with
\* replies.  Over HTTP no frame is sent.
Delete(r, via, m) ==
    /\ Stored(m) /\ Deletable({m})
    /\ row' = RowsWithout({m})
    /\ attached' = {a \in attached : a[2] # m}
    /\ IF via = "ws"
       THEN /\ Begins(r, Author[m], via, [Idle EXCEPT !.at = "erasing", !.via = via, !.msg = m])
            /\ Writes(r, m)
       ELSE UNCHANGED req /\ astray' = astray \cup {m}
    /\ UNCHANGED <<member, note, answer, shown>>

\* The broadcast of message.delete.
Unshow(r) ==
    /\ req[r].at = "erasing"
    /\ Broadcast(req[r].msg, Nothing)
    /\ Done(r)
    /\ UNCHANGED <<member, row, attached, note, answer>>

-----------------------------------------------------------------------------
\* What hangs on a message

\* Mutant: the message may be gone.
AttachLoose(u, kind, m) ==
    /\ row[m].state # "none" /\ kind # "history"
    /\ attached' = attached \cup {<<kind, m, u>>}
    /\ UNCHANGED <<member, row, note, req, answer, shown, astray>>

\* handleAddReaction, handlePinMessage and handleSendEncrypted do not look at the
\* message; the foreign keys and the one pin for a message are the table's.  The
\* broadcasts of reactions and pins follow.
Attach(u, kind, m) ==
    /\ Stored(m) /\ u \in member /\ kind # "history"
    /\ kind = "pin" => \A a \in attached : ~(a[1] = "pin" /\ a[2] = m)
    /\ attached' = attached \cup {<<kind, m, u>>}
    /\ UNCHANGED <<member, row, note, req, answer, shown, astray>>

\* handleRemoveReaction of one's own, handleUnpinMessage of whoever pinned it.
Detach(a) ==
    /\ a[1] \in {"reaction", "pin"}
    /\ attached' = attached \ {a}
    /\ UNCHANGED <<member, row, note, req, answer, shown, astray>>

-----------------------------------------------------------------------------
\* Readers and members

\* What a query finds of each message.
Listed == [m \in Messages |-> IF Stored(m) THEN row[m].text ELSE Nothing]

\* A page of the messages that are no replies, of any size (ListMessages), or a
\* message with its replies (ListThreadMessages).
Pages == SUBSET {m \in Messages : Stored(m) /\ row[m].parent = NoMessage}
         \cup {{p} \cup Replies(p) : p \in {m \in Messages : Stored(m)}}

\* handleListMessages or handleGetThread, up to the query.
List(u) ==
    /\ answer[u] = NoAnswer
    /\ \E page \in Pages :
          answer' = [answer EXCEPT ![u] =
                        [m \in Messages |-> IF m \in page THEN Listed[m] ELSE Nothing]]
    /\ UNCHANGED <<member, row, attached, note, req, shown, astray>>

\* Whether a frame about m is still to be sent.
Framing(m) == \E r \in Requests : req[r].msg = m /\ req[r].at \in {"showing", "erasing"}

\* The answer arrives.  Frames may have overtaken it.
Tell(u) ==
    /\ answer[u] # NoAnswer
    /\ shown' = [shown EXCEPT ![u] =
                    [m \in Messages |-> IF answer[u][m] = Nothing THEN shown[u][m] ELSE answer[u][m]]]
    /\ astray' = astray \cup {m \in Messages : answer[u][m] \notin {Nothing, Listed[m]} /\ ~Framing(m)}
    /\ answer' = [answer EXCEPT ![u] = NoAnswer]
    /\ UNCHANGED <<member, row, attached, note, req>>

\* handleDeleteMember: the member's messages, reactions, pins and notifications go
\* too, or nothing does because another member replied to one of the messages.
RemoveMember(u) ==
    LET gone == {m \in Messages : Stored(m) /\ Author[m] = u} IN
    /\ u \in member /\ u \notin Readers
    /\ Deletable(gone)
    /\ member' = member \ {u}
    /\ row' = RowsWithout(gone)
    /\ attached' = {a \in attached : a[2] \notin gone /\ a[3] # u}
    /\ note' = [m \in Messages |-> [note[m] EXCEPT ![u] = IF @ = "none" THEN @ ELSE "gone"]]
    /\ astray' = astray \cup gone
    /\ UNCHANGED <<req, answer, shown>>

\* UpdateMessage fails, or the client has gone away.
Fails(r) ==
    /\ req[r].at = "saving"
    /\ Done(r)
    /\ UNCHANGED <<member, row, attached, note, answer, shown, astray>>

\* The server stops and starts again; the readers connect, and know nothing of the
\* messages that are there.
Crash ==
    /\ \E r \in Requests : Busy(r)
    /\ req' = [r \in Requests |-> Idle]
    /\ answer' = [u \in Readers |-> NoAnswer]
    /\ shown' = [u \in Readers |-> [m \in Messages |-> IF Stored(m) THEN Unseen ELSE Nothing]]
    /\ astray' = {}
    /\ note' = [m \in Messages |-> [u \in Members |-> IF note[m][u] = "due" THEN "stopped" ELSE note[m][u]]]
    /\ UNCHANGED <<member, row, attached>>

-----------------------------------------------------------------------------

GoesOn(r) ==
    \/ Announce(r) \/ MentionsDone(r)
    \/ \E u \in Members : Mention(r, u)
    \/ Trace(r) \/ Save(r) \/ Show(r)
    \/ Unshow(r)

Next ==
    \/ \E r \in Requests, m \in Messages :
          \/ \E via \in {"http", "ws"}, p \in Messages \cup {NoMessage} : Post(r, via, m, p)
          \/ \E via \in {"http", "ws"} : Edit(r, via, m) \/ Delete(r, via, m)
    \/ \E u \in Members, kind \in Kinds, m \in Messages : Attach(u, kind, m)
    \/ \E r \in Requests : GoesOn(r) \/ Fails(r)
    \/ \E a \in attached : Detach(a)
    \/ \E u \in Members : RemoveMember(u)
    \/ \E u \in Readers : List(u) \/ Tell(u)
    \/ Crash

Spec == Init /\ [][Next]_vars

-----------------------------------------------------------------------------
\* reply_count is the number of replies there are, whatever is deleted
\* (also with its author) or edited at the same time: the triggers of migrations.go
\* keep it, and UpdateMessage, which writes back a row read earlier, leaves it alone.
RepliesCounted == \A m \in Messages : Stored(m) => row[m].replies = Cardinality(Replies(m))

\* Reactions, pins, histories and encrypted copies belong to messages and members
\* that are there, and so do replies; a message has one pin (migrations.go: the
\* foreign keys).  None of the handlers looks at the message when it inserts.
NothingDangles ==
    /\ \A a \in attached : Stored(a[2]) /\ a[3] \in member
    /\ \A m \in Messages : Stored(m) => Author[m] \in member /\
                                        (row[m].parent = NoMessage \/ Stored(row[m].parent))
    /\ \A a, b \in attached : a[1] = "pin" /\ b[1] = "pin" /\ a[2] = b[2] => a = b

\* No mention is forgotten: until its request has handled it a request has it to do, and
\* it has led to a notification, which stays while the member does, unless the member
\* or the message was gone by then, a query of handleMentions failed, whose error the
\* code drops, or the server stopped (handlers_ws.go: handleMentions).
MentionsNoted == \A m \in Messages, u \in Members :
    /\ note[m][u] = "due" => \E r \in Requests : req[r].msg = m /\ u \in req[r].todo
    /\ note[m][u] = "gone" => u \notin member \/ ~Stored(m)
    /\ note[m][u] = "stored" => u \in member

\* When nobody is at work on a message, the readers were last told the text that is
\* stored, or that it is deleted, or have been told nothing of it since they connected
\* (a list is a page and has no replies); unless a frame was dropped, the message was
\* deleted over HTTP or with its author, two requests overlapped, or an answer came
\* after a newer frame (handlers_message.go, handlers_ws.go: the broadcast follows the
\* write, and a deletion over HTTP has none).
ReadersAgree == \A u \in Readers, m \in Messages :
    (\A r \in Requests : req[r].msg # m) /\ m \notin astray =>
        shown[u][m] = Listed[m] \/ (Stored(m) /\ shown[u][m] = Unseen)
=============================================================================
