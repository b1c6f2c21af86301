------------------------- MODULE HeldDraftsProofs -------------------------
(***************************************************************************)
(* Proofs about HeldDrafts, for any drafts, channels and finite set of     *)
(* requests, and any limit on how far a draft may be behind.               *)
(***************************************************************************)
EXTENDS HeldDrafts, FiniteSetTheorems, TLAPS

\* A running request has a draft, and the version it read is one the room has had.
RequestOK ==
    \A r \in Requests :
        /\ req[r].at # "idle" => req[r].draft \in Drafts
        /\ req[r].at = "inserting" => req[r].read <= Room(req[r].draft)

\* The only request with a draft that has no row yet is the one that inserts it.
InsertOK ==
    \A r \in Requests :
        /\ req[r].at = "inserting" =>
              /\ status[req[r].draft] = "none"
              /\ \A q \in Requests : q # r => req[q].draft # req[r].draft
        /\ req[r].at \in {"checking", "posting", "marking"} => status[req[r].draft] # "none"

TypeInv == TypeOK /\ RequestOK /\ InsertOK

\* The requests that have posted the draft and not marked it yet.
Marking(d) == {r \in Requests : req[r].draft = d /\ req[r].at = "marking"}

\* While a draft is held its posts are those of the requests that have still to
\* mark it; and every post leaves room for those on their way.
CountOK(d) ==
    ~lost[d] =>
        /\ status[d] \in {"none", "held"} => posted[d] = Cardinality(Marking(d))
        /\ posted[d] + Cardinality(Admitted(d)) <= Cardinality(Requests)

CountInv == \A d \in Drafts : CountOK(d)

USE DEF Status, Step, Idle, Request, Room, Done, vars

-----------------------------------------------------------------------------
\* The tables are empty and no request runs when the server starts first.
LEMMA TypeInvInit == Init => TypeInv
  BY DraftAssumption DEF Init, TypeInv, TypeOK, RequestOK, InsertOK

\* Every query of a handler keeps the types and what the request relies on.
LEMMA TypeInvStep == TypeInv /\ [Next]_vars => TypeInv'
<1> SUFFICES ASSUME TypeInv, [Next]_vars PROVE TypeInv'
  OBVIOUS
<1>1. ASSUME NEW r \in Requests, NEW d \in Drafts, CreateRead(r, d) PROVE TypeInv'
  BY <1>1, DraftAssumption DEF CreateRead, TypeInv, TypeOK, RequestOK, InsertOK
<1>2. ASSUME NEW r \in Requests, CreateInsert(r) PROVE TypeInv'
  BY <1>2, DraftAssumption DEF CreateInsert, TypeInv, TypeOK, RequestOK, InsertOK
<1>3. ASSUME NEW r \in Requests, NEW d \in Drafts, NEW force \in BOOLEAN, SendGet(r, d, force)
      PROVE TypeInv'
  BY <1>3, DraftAssumption DEF SendGet, TypeInv, TypeOK, RequestOK, InsertOK
<1>4. ASSUME NEW r \in Requests, SendCheck(r) PROVE TypeInv'
  <2>1. req[r].at = "checking" /\ req[r] \in Request
    BY <1>4 DEF SendCheck, TypeInv, TypeOK
  <2>2. \/ req' = [req EXCEPT ![r] = Idle]
        \/ req' = [req EXCEPT ![r] = [@ EXCEPT !.at = "posting"]]
    BY <1>4 DEF SendCheck
  <2>3. /\ req' \in [Requests -> Request]
        /\ \A q \in Requests : q # r => req'[q] = req[q]
        /\ req'[r].at \in {"idle", "posting"}
        /\ req'[r].at # "idle" => req'[r].draft = req[r].draft
        /\ req'[r].draft \in {NoDraft, req[r].draft}
    <3>1. CASE req' = [req EXCEPT ![r] = Idle]
      BY <3>1 DEF TypeInv, TypeOK
    <3>2. CASE req' = [req EXCEPT ![r] = [@ EXCEPT !.at = "posting"]]
      BY <2>1, <3>2 DEF TypeInv, TypeOK
    <3> QED BY <2>2, <3>1, <3>2
  <2>4. TypeOK'
    BY <1>4, <2>3 DEF SendCheck, TypeInv, TypeOK
  <2>5. RequestOK'
    BY <1>4, <2>1, <2>3 DEF SendCheck, TypeInv, TypeOK, RequestOK
  <2>6. InsertOK'
    BY <1>4, <2>1, <2>3, DraftAssumption DEF SendCheck, TypeInv, TypeOK, RequestOK, InsertOK
  <2> QED BY <2>4, <2>5, <2>6 DEF TypeInv
<1>5. ASSUME NEW r \in Requests, SendPost(r) PROVE TypeInv'
  <2>1. req[r].at = "posting" /\ req[r] \in Request /\ req[r].draft \in Drafts
    BY <1>5 DEF SendPost, TypeInv, TypeOK, RequestOK
  <2>2. req' = [req EXCEPT ![r] = [@ EXCEPT !.at = "marking"]]
    BY <1>5 DEF SendPost
  <2>3. /\ req' \in [Requests -> Request]
        /\ \A q \in Requests : q # r => req'[q] = req[q]
        /\ req'[r].at = "marking" /\ req'[r].draft = req[r].draft
    BY <2>1, <2>2 DEF TypeInv, TypeOK
  <2>4. /\ roomVersion' \in [Channels -> Nat]
        /\ \A ch \in Channels : roomVersion[ch] <= roomVersion'[ch]
        /\ posted' \in [Drafts -> Nat]
    <3>1. ChannelOf[req[r].draft] \in Channels
      BY <2>1, DraftAssumption
    <3>2. roomVersion' = [roomVersion EXCEPT ![ChannelOf[req[r].draft]] = @ + 1]
      BY <1>5 DEF SendPost
    <3>3. posted' = [posted EXCEPT ![req[r].draft] = @ + 1]
      BY <1>5 DEF SendPost
    <3> QED BY <2>1, <3>1, <3>2, <3>3 DEF TypeInv, TypeOK
  <2>5. TypeOK'
    BY <1>5, <2>3, <2>4 DEF SendPost, TypeInv, TypeOK
  <2>6. RequestOK'
    BY <2>1, <2>3, <2>4, DraftAssumption DEF TypeInv, TypeOK, RequestOK
  <2>7. InsertOK'
    BY <1>5, <2>1, <2>3 DEF SendPost, TypeInv, TypeOK, RequestOK, InsertOK
  <2> QED BY <2>5, <2>6, <2>7 DEF TypeInv
<1>6. ASSUME NEW r \in Requests, SendMark(r) PROVE TypeInv'
  BY <1>6, DraftAssumption DEF SendMark, TypeInv, TypeOK, RequestOK, InsertOK
<1>7. ASSUME NEW r \in Requests, SendMarkFails(r) PROVE TypeInv'
  BY <1>7, DraftAssumption DEF SendMarkFails, TypeInv, TypeOK, RequestOK, InsertOK
<1>8. ASSUME NEW r \in Requests, Fail(r) PROVE TypeInv'
  BY <1>8, DraftAssumption DEF Fail, TypeInv, TypeOK, RequestOK, InsertOK
<1>9. ASSUME NEW d \in Drafts, Cancel(d) PROVE TypeInv'
  BY <1>9, DraftAssumption DEF Cancel, TypeInv, TypeOK, RequestOK, InsertOK
<1>10. ASSUME NEW d \in Drafts, Elapse(d) PROVE TypeInv'
  BY <1>10, DraftAssumption DEF Elapse, TypeInv, TypeOK, RequestOK, InsertOK
<1>11. ASSUME ExpireDrafts PROVE TypeInv'
  BY <1>11, DraftAssumption DEF ExpireDrafts, TypeInv, TypeOK, RequestOK, InsertOK
<1>12. ASSUME NEW ch \in Channels, OtherMessage(ch) PROVE TypeInv'
  BY <1>12, DraftAssumption DEF OtherMessage, TypeInv, TypeOK, RequestOK, InsertOK
<1>13. ASSUME Crash PROVE TypeInv'
  BY <1>13, DraftAssumption DEF Crash, TypeInv, TypeOK, RequestOK, InsertOK
<1>14. CASE UNCHANGED vars
  BY <1>14 DEF TypeInv, TypeOK, RequestOK, InsertOK
<1> QED BY <1>1, <1>2, <1>3, <1>4, <1>5, <1>6, <1>7, <1>8, <1>9, <1>10, <1>11, <1>12, <1>13, <1>14
        DEF Next, RequestStep

\* Every row has a status of the CHECK constraint and every request is at one of
\* the handlers' queries.
THEOREM TypeCorrect == Spec => []TypeOK
<1>1. TypeInv => TypeOK
  BY DEF TypeInv
<1> QED BY <1>1, TypeInvInit, TypeInvStep, PTL DEF Spec

-----------------------------------------------------------------------------
\* A room's version only grows, and a draft takes it from the request.
LEMMA NotFromFutureStep == TypeInv /\ NotFromFuture /\ [Next]_vars => NotFromFuture'
<1> SUFFICES ASSUME TypeInv, NotFromFuture, [Next]_vars PROVE NotFromFuture'
  OBVIOUS
<1>1. CASE UNCHANGED <<roomVersion, version>>
  BY <1>1 DEF NotFromFuture
<1>2. ASSUME NEW r \in Requests, CreateInsert(r) PROVE NotFromFuture'
  BY <1>2, DraftAssumption DEF CreateInsert, NotFromFuture, TypeInv, TypeOK, RequestOK
<1>3. ASSUME NEW r \in Requests, SendPost(r) PROVE NotFromFuture'
  BY <1>3, DraftAssumption DEF SendPost, NotFromFuture, TypeInv, TypeOK, RequestOK
<1>4. ASSUME NEW ch \in Channels, OtherMessage(ch) PROVE NotFromFuture'
  BY <1>4, DraftAssumption DEF OtherMessage, NotFromFuture, TypeInv, TypeOK
<1> QED BY <1>1, <1>2, <1>3, <1>4
        DEF Next, RequestStep, CreateRead, SendGet, SendCheck, SendMark, SendMarkFails, Fail, Cancel,
            Elapse, ExpireDrafts, Crash

\* A draft is never ahead of its room (handleCreateDraft reads before it inserts).
THEOREM DraftNotFromFuture == Spec => []NotFromFuture
<1>1. Init => NotFromFuture
  BY DraftAssumption DEF Init, NotFromFuture
<1> QED BY <1>1, TypeInvInit, TypeInvStep, NotFromFutureStep, PTL DEF Spec
-----------------------------------------------------------------------------
\* A request of handleSendDraft is either on its way to the post or past it, so
\* that both kinds together are no more than there are requests.
LEMMA RequestSplit ==
    ASSUME NEW d \in Drafts
    PROVE  /\ IsFiniteSet(Admitted(d)) /\ Cardinality(Admitted(d)) \in Nat
           /\ IsFiniteSet(Marking(d)) /\ Cardinality(Marking(d)) \in Nat
           /\ Cardinality(Requests) \in Nat
           /\ Cardinality(Admitted(d)) + Cardinality(Marking(d)) <= Cardinality(Requests)
<1> DEFINE A == Admitted(d)
           M == Marking(d)
<1>1. /\ A \subseteq Requests /\ M \subseteq Requests /\ A \cup M \subseteq Requests
      /\ A \cap M = {}
  BY DEF Admitted, Marking
<1>2. /\ IsFiniteSet(A) /\ IsFiniteSet(M) /\ IsFiniteSet(A \cup M)
      /\ Cardinality(A \cup M) <= Cardinality(Requests)
  BY <1>1, FS_Subset, DraftAssumption
<1>3. /\ Cardinality(A) \in Nat /\ Cardinality(M) \in Nat /\ Cardinality(A \cup M) \in Nat
      /\ Cardinality(Requests) \in Nat
  BY <1>2, FS_CardinalityType, DraftAssumption
<1>4. Cardinality(A \cup M) = Cardinality(A) + Cardinality(M) - Cardinality(A \cap M)
  BY <1>2, FS_Union
<1>5. Cardinality(A \cap M) = 0
  BY <1>1, FS_EmptySet
<1> HIDE DEF A, M
<1>6. Cardinality(A) + Cardinality(M) <= Cardinality(Requests)
  BY <1>2, <1>3, <1>4, <1>5
<1> QED BY <1>2, <1>3, <1>6 DEF A, M

\* The same in the next state.
LEMMA RequestSplitNext ==
    ASSUME NEW d \in Drafts
    PROVE  /\ IsFiniteSet(Admitted(d)') /\ Cardinality(Admitted(d)') \in Nat
           /\ IsFiniteSet(Marking(d)') /\ Cardinality(Marking(d)') \in Nat
           /\ Cardinality(Admitted(d)') + Cardinality(Marking(d)') <= Cardinality(Requests)
<1> DEFINE A == Admitted(d)'
           M == Marking(d)'
<1>1. /\ A \subseteq Requests /\ M \subseteq Requests /\ A \cup M \subseteq Requests
      /\ A \cap M = {}
  BY DEF Admitted, Marking
<1> HIDE DEF A, M
<1>2. /\ IsFiniteSet(A) /\ IsFiniteSet(M) /\ IsFiniteSet(A \cup M)
      /\ Cardinality(A \cup M) <= Cardinality(Requests)
  BY <1>1, FS_Subset, DraftAssumption
<1>3. /\ Cardinality(A) \in Nat /\ Cardinality(M) \in Nat /\ Cardinality(A \cup M) \in Nat
      /\ Cardinality(Requests) \in Nat
  BY <1>2, FS_CardinalityType, DraftAssumption
<1>4. Cardinality(A \cup M) = Cardinality(A) + Cardinality(M) - Cardinality(A \cap M)
  BY <1>2, FS_Union
<1>5. Cardinality(A \cap M) = 0
  BY <1>1, FS_EmptySet
<1>6. Cardinality(A) + Cardinality(M) <= Cardinality(Requests)
  BY <1>2, <1>3, <1>4, <1>5
<1> QED BY <1>2, <1>3, <1>6 DEF A, M

\* A step that neither admits nor posts the draft d, and reopens it for nobody,
\* keeps its count.
LEMMA CountFrame ==
    ASSUME TypeInv, NEW d \in Drafts, CountOK(d), posted'[d] = posted[d],
           Admitted(d)' \subseteq Admitted(d),
           lost[d] => lost'[d],
           ~lost'[d] /\ status'[d] \in {"none", "held"} =>
               status[d] \in {"none", "held"} /\ Marking(d)' = Marking(d)
    PROVE  CountOK(d)'
<1>1. /\ Cardinality(Admitted(d)) \in Nat
      /\ Cardinality(Requests) \in Nat
      /\ Cardinality(Admitted(d)') \in Nat
      /\ Cardinality(Admitted(d)') <= Cardinality(Admitted(d))
  BY RequestSplit, RequestSplitNext, FS_Subset
<1>2. posted[d] \in Nat
  BY DEF TypeInv, TypeOK
<1>3. lost[d] \/ posted[d] + Cardinality(Admitted(d)) <= Cardinality(Requests)
  BY DEF CountOK
<1>4. lost'[d] \/ posted'[d] + Cardinality(Admitted(d)') <= Cardinality(Requests)
  BY <1>1, <1>2, <1>3
<1>5. lost'[d] \/ (status'[d] \in {"none", "held"} => posted'[d] = Cardinality(Marking(d)'))
  BY DEF CountOK
<1> QED BY <1>4, <1>5 DEF CountOK

\* Every query of a handler keeps the count of every draft.
LEMMA CountInvStep == TypeInv /\ TypeInv' /\ CountInv /\ [Next]_vars => CountInv'
<1> SUFFICES ASSUME TypeInv, TypeInv', CountInv, [Next]_vars, NEW d \in Drafts PROVE CountOK(d)'
  BY DEF CountInv
<1>0. CountOK(d) /\ posted[d] \in Nat /\ d # NoDraft
  BY DraftAssumption DEF CountInv, TypeInv, TypeOK
<1>1. ASSUME NEW r \in Requests, NEW c \in Drafts, CreateRead(r, c) PROVE CountOK(d)'
  <2>1. Admitted(d)' = Admitted(d) /\ Marking(d)' = Marking(d)
    BY <1>1 DEF CreateRead, Admitted, Marking, TypeInv, TypeOK
  <2> QED BY <1>0, <1>1, <2>1, CountFrame DEF CreateRead
<1>2. ASSUME NEW r \in Requests, CreateInsert(r) PROVE CountOK(d)'
  <2>1. Admitted(d)' = Admitted(d) /\ Marking(d)' = Marking(d)
    BY <1>2, <1>0 DEF CreateInsert, Admitted, Marking, TypeInv, TypeOK
  <2>2. status'[d] = status[d] \/ status[d] = "none"
    BY <1>2 DEF CreateInsert, TypeInv, TypeOK, InsertOK
  <2> QED BY <1>0, <1>2, <2>1, <2>2, CountFrame DEF CreateInsert
<1>3. ASSUME NEW r \in Requests, NEW c \in Drafts, NEW force \in BOOLEAN, SendGet(r, c, force)
      PROVE CountOK(d)'
  <2>1. CASE c = d
    <3>1. Marking(d)' = Marking(d)
      BY <1>3 DEF SendGet, Marking, TypeInv, TypeOK
    <3>2. lost[d] \/ posted[d] = Cardinality(Marking(d))
      BY <1>0, <1>3, <2>1 DEF CountOK, SendGet
    <3>3. lost' = lost /\ posted' = posted
      BY <1>3 DEF SendGet
    <3>4. lost'[d] \/ posted'[d] + Cardinality(Admitted(d)') <= Cardinality(Requests)
      BY <1>0, <3>1, <3>2, <3>3, RequestSplit, RequestSplitNext
    <3> QED BY <3>1, <3>2, <3>3, <3>4 DEF CountOK
  <2>2. CASE c # d
    <3>1. Admitted(d)' = Admitted(d) /\ Marking(d)' = Marking(d)
      BY <1>0, <1>3, <2>2 DEF SendGet, Admitted, Marking, TypeInv, TypeOK
    <3> QED BY <1>0, <1>3, <3>1, CountFrame DEF SendGet
  <2> QED BY <2>1, <2>2
<1>4. ASSUME NEW r \in Requests, SendCheck(r) PROVE CountOK(d)'
  <2>1. req[r].at = "checking" /\ req[r] \in Request
    BY <1>4 DEF SendCheck, TypeInv, TypeOK
  <2>2. \/ req' = [req EXCEPT ![r] = Idle]
        \/ req' = [req EXCEPT ![r] = [@ EXCEPT !.at = "posting"]]
    BY <1>4 DEF SendCheck
  <2>3. /\ \A q \in Requests : q # r => req'[q] = req[q]
        /\ req'[r].at \in {"idle", "posting"}
        /\ req'[r].at # "idle" => req'[r].draft = req[r].draft
    BY <2>1, <2>2 DEF TypeInv, TypeOK
  <2>4. Admitted(d)' \subseteq Admitted(d) /\ Marking(d)' = Marking(d)
    BY <2>1, <2>3 DEF Admitted, Marking
  <2> QED BY <1>0, <1>4, <2>4, CountFrame DEF SendCheck
<1>5. ASSUME NEW r \in Requests, SendPost(r) PROVE CountOK(d)'
  <2>1. req[r].at = "posting" /\ req[r] \in Request /\ req[r].draft \in Drafts
    BY <1>5 DEF SendPost, TypeInv, TypeOK, RequestOK
  <2>2. /\ \A q \in Requests : q # r => req'[q] = req[q]
        /\ req'[r].at = "marking" /\ req'[r].draft = req[r].draft
    BY <1>5, <2>1 DEF SendPost, TypeInv, TypeOK
  <2>3. /\ lost' = lost /\ status' = status
        /\ posted' = [posted EXCEPT ![req[r].draft] = posted[req[r].draft] + 1]
    BY <1>5 DEF SendPost
  <2>4. CASE req[r].draft = d
    <3>1. /\ Admitted(d)' = Admitted(d) \ {r} /\ r \in Admitted(d)
          /\ Marking(d)' = Marking(d) \cup {r} /\ r \notin Marking(d)
      BY <2>1, <2>2, <2>4 DEF Admitted, Marking
    <3>2. Cardinality(Admitted(d)') = Cardinality(Admitted(d)) - 1
      BY <3>1, RequestSplit, FS_RemoveElement
    <3>3. Cardinality(Marking(d)') = Cardinality(Marking(d)) + 1
      BY <3>1, RequestSplit, FS_AddElement
    <3>4. posted'[d] = posted[d] + 1
      BY <2>3, <2>4 DEF TypeInv, TypeOK
    <3>5. lost'[d] \/ posted'[d] + Cardinality(Admitted(d)') <= Cardinality(Requests)
      BY <1>0, <2>3, <3>2, <3>4, RequestSplit DEF CountOK
    <3>6. lost'[d] \/ (status'[d] \in {"none", "held"} => posted'[d] = Cardinality(Marking(d)'))
      BY <1>0, <2>3, <3>3, <3>4 DEF CountOK
    <3> QED BY <3>5, <3>6 DEF CountOK
  <2>5. CASE req[r].draft # d
    <3>1. Admitted(d)' = Admitted(d) /\ Marking(d)' = Marking(d)
      BY <2>2, <2>5 DEF Admitted, Marking
    <3>2. posted'[d] = posted[d]
      BY <2>3, <2>5 DEF TypeInv, TypeOK
    <3> QED BY <1>0, <2>3, <3>1, <3>2, CountFrame
  <2> QED BY <2>4, <2>5
<1>6. ASSUME NEW r \in Requests, SendMark(r) PROVE CountOK(d)'
  <2>1. req[r].at = "marking" /\ req[r].draft \in Drafts
    BY <1>6 DEF SendMark, TypeInv, RequestOK
  <2>2. Admitted(d)' = Admitted(d)
    BY <1>0, <1>6 DEF SendMark, Admitted, TypeInv, TypeOK
  <2>3. CASE req[r].draft = d
    <3>1. status'[d] = "sent"
      BY <1>6, <2>3 DEF SendMark, TypeInv, TypeOK
    <3> QED BY <1>0, <1>6, <2>2, <3>1, CountFrame DEF SendMark
  <2>4. CASE req[r].draft # d
    <3>1. status'[d] = status[d]
      BY <1>6, <2>4 DEF SendMark, TypeInv, TypeOK
    <3>2. Marking(d)' = Marking(d)
      BY <1>0, <1>6, <2>4 DEF SendMark, Marking, TypeInv, TypeOK
    <3> QED BY <1>0, <1>6, <2>2, <3>1, <3>2, CountFrame DEF SendMark
  <2> QED BY <2>3, <2>4
<1>7. ASSUME NEW r \in Requests, SendMarkFails(r) PROVE CountOK(d)'
  <2>1. Admitted(d)' = Admitted(d)
    BY <1>0, <1>7 DEF SendMarkFails, Admitted, TypeInv, TypeOK
  <2>2. CASE req[r].draft = d
    <3>1. lost'[d]
      BY <1>7, <2>2 DEF SendMarkFails, TypeInv, TypeOK
    <3> QED BY <3>1 DEF CountOK
  <2>3. CASE req[r].draft # d
    <3>1. lost'[d] = lost[d]
      BY <1>7, <2>3 DEF SendMarkFails, TypeInv, TypeOK
    <3>2. Marking(d)' = Marking(d)
      BY <1>0, <1>7, <2>3 DEF SendMarkFails, Marking, TypeInv, TypeOK
    <3> QED BY <1>0, <1>7, <2>1, <3>1, <3>2, CountFrame DEF SendMarkFails
  <2> QED BY <2>2, <2>3
<1>8. ASSUME NEW r \in Requests, Fail(r) PROVE CountOK(d)'
  <2>1. Admitted(d)' \subseteq Admitted(d) /\ Marking(d)' = Marking(d)
    BY <1>0, <1>8 DEF Fail, Admitted, Marking, TypeInv, TypeOK
  <2> QED BY <1>0, <1>8, <2>1, CountFrame DEF Fail
<1>9. CASE UNCHANGED <<req, posted, lost>> /\
           (status'[d] \in {"none", "held"} => status[d] \in {"none", "held"})
  <2>1. Admitted(d)' = Admitted(d) /\ Marking(d)' = Marking(d)
    BY <1>9 DEF Admitted, Marking
  <2> QED BY <1>0, <1>9, <2>1, CountFrame
<1>10. ASSUME NEW c \in Drafts, Cancel(c) PROVE CountOK(d)'
  BY <1>9, <1>10 DEF Cancel, TypeInv, TypeOK
<1>11. ASSUME ExpireDrafts PROVE CountOK(d)'
  BY <1>9, <1>11 DEF ExpireDrafts
<1>12. ASSUME NEW c \in Drafts, Elapse(c) PROVE CountOK(d)'
  BY <1>9, <1>12 DEF Elapse
<1>13. ASSUME NEW ch \in Channels, OtherMessage(ch) PROVE CountOK(d)'
  BY <1>9, <1>13 DEF OtherMessage
<1>14. ASSUME Crash PROVE CountOK(d)'
  <2>1. Admitted(d)' = {} /\ Marking(d)' = {}
    BY <1>0, <1>14 DEF Crash, Admitted, Marking
  <2>2. lost[d] \/ Marking(d) # {} => lost'[d]
    BY <1>14 DEF Crash, Marking
  <2> QED BY <1>0, <1>14, <2>1, <2>2, CountFrame DEF Crash
<1>15. CASE UNCHANGED vars
  BY <1>9, <1>15
<1> QED BY <1>1, <1>2, <1>3, <1>4, <1>5, <1>6, <1>7, <1>8, <1>10, <1>11, <1>12, <1>13, <1>14, <1>15
        DEF Next, RequestStep

\* handleSendDraft checks the status first and updates it last: a draft is posted
\* by every request that found it held, but no more often than there are requests
\* at the same time, as long as no update got lost.
THEOREM DraftPostsBounded == Spec => []PostsBounded
<1>1. Init => CountInv
  <2> SUFFICES ASSUME Init, NEW d \in Drafts PROVE CountOK(d)
    BY DEF CountInv
  <2>1. Admitted(d) = {} /\ Marking(d) = {}
    BY DEF Init, Admitted, Marking
  <2>2. Cardinality({}) = 0
    BY FS_EmptySet
  <2>3. Cardinality(Requests) \in Nat
    BY DraftAssumption, FS_CardinalityType
  <2> QED BY <2>1, <2>2, <2>3 DEF Init, CountOK
<1>2. TypeInv /\ CountInv => PostsBounded
  <2> SUFFICES ASSUME TypeInv, CountInv, NEW d \in Drafts, ~lost[d]
               PROVE  posted[d] <= Cardinality(Requests)
    BY DEF PostsBounded
  <2> QED BY RequestSplit DEF CountInv, CountOK, TypeInv, TypeOK
<1> QED BY <1>1, <1>2, TypeInvInit, TypeInvStep, CountInvStep, PTL DEF Spec
-----------------------------------------------------------------------------
\* The state of a draft in the box.
BoxState == [d \in Drafts |-> IF status[d] \in {"none", "held"} THEN status[d] ELSE "closed"]

\* The requests the box has admitted.
BoxAdmitted == [d \in Drafts |-> Admitted(d)]

\* Every query of a handler is a step of the box or leaves the box as it is.
LEMMA BoxStep == TypeInv /\ [Next]_vars => [Box!BoxNext]_(Box!box)
<1> SUFFICES ASSUME TypeInv, [Next]_vars PROVE [Box!BoxNext]_(Box!box)
  OBVIOUS
<1> USE DEF Box!box
<1>0. ASSUME BoxState' = BoxState, BoxAdmitted' = BoxAdmitted, posted' = posted
      PROVE  UNCHANGED Box!box
  BY <1>0 DEF BoxState, BoxAdmitted
<1>1. ASSUME status' = status PROVE BoxState' = BoxState
  BY <1>1 DEF BoxState
<1>2. ASSUME \A d \in Drafts : Admitted(d)' = Admitted(d) PROVE BoxAdmitted' = BoxAdmitted
  BY <1>2 DEF BoxAdmitted
<1>3. ASSUME req' = req PROVE BoxAdmitted' = BoxAdmitted
  BY <1>3 DEF BoxAdmitted, Admitted
<1>4. ASSUME NEW gone \in SUBSET Requests, status' = status, posted' = posted,
             \A d \in Drafts : Admitted(d)' = Admitted(d) \ gone
      PROVE  Box!Withdraw(gone)
  BY <1>4 DEF Box!Withdraw
<1>5. ASSUME NEW some \in SUBSET Drafts, req' = req \/ (\A d \in Drafts : Admitted(d)' = Admitted(d)),
             posted' = posted, status' \in [Drafts -> Status],
             \A d \in some : status[d] = "held" /\ status'[d] \notin {"none", "held"},
             \A d \in Drafts \ some :
                 \/ status'[d] = status[d]
                 \/ status[d] \notin {"none", "held"} /\ status'[d] \notin {"none", "held"}
      PROVE  Box!Close(some)
  <2>1. BoxAdmitted' = BoxAdmitted
    BY <1>2, <1>3, <1>5
  <2>2. BoxState' = [d \in Drafts |-> IF d \in some THEN "closed" ELSE BoxState[d]]
    BY <1>5 DEF BoxState
  <2>3. \A d \in some : BoxState[d] = "held"
    BY <1>5 DEF BoxState
  <2> QED BY <1>5, <2>1, <2>2, <2>3 DEF Box!Close, BoxState, BoxAdmitted
<1>6. ASSUME NEW r \in Requests, NEW c \in Drafts, CreateRead(r, c) PROVE UNCHANGED Box!box
  <2>1. \A d \in Drafts : Admitted(d)' = Admitted(d)
    BY <1>6 DEF CreateRead, Admitted, TypeInv, TypeOK
  <2> QED BY <1>0, <1>1, <1>2, <1>6, <2>1 DEF CreateRead
<1>7. ASSUME NEW r \in Requests, CreateInsert(r) PROVE Box!BoxNext
  <2>1. PICK c \in Drafts : c = req[r].draft /\ status[c] = "none"
    BY <1>7 DEF CreateInsert, TypeInv, RequestOK, InsertOK
  <2>2. \A d \in Drafts : Admitted(d)' = Admitted(d)
    BY <1>7, DraftAssumption DEF CreateInsert, Admitted, TypeInv, TypeOK
  <2>3. BoxState' = [BoxState EXCEPT ![c] = "held"]
    BY <1>7, <2>1 DEF CreateInsert, BoxState, TypeInv, TypeOK
  <2>4. BoxState[c] = "none" /\ posted' = posted
    BY <1>7, <2>1 DEF BoxState, CreateInsert
  <2>5. Box!Hold(c)
    BY <1>2, <2>2, <2>3, <2>4 DEF Box!Hold, BoxState, BoxAdmitted
  <2> QED BY <2>1, <2>5 DEF Box!BoxNext
<1>8. ASSUME NEW r \in Requests, NEW c \in Drafts, NEW force \in BOOLEAN, SendGet(r, c, force)
      PROVE Box!BoxNext
  <2>1. BoxAdmitted' = [BoxAdmitted EXCEPT ![c] = BoxAdmitted[c] \cup {r}]
    <3>1. /\ \A q \in Requests : q # r => req'[q] = req[q]
          /\ req'[r].at = "checking" /\ req'[r].draft = c
          /\ req[r].at = "idle"
      BY <1>8 DEF SendGet, TypeInv, TypeOK
    <3>2. Admitted(c)' = Admitted(c) \cup {r}
      BY <3>1 DEF Admitted
    <3>3. \A d \in Drafts : d # c => Admitted(d)' = Admitted(d)
      BY <3>1 DEF Admitted
    <3> QED BY <3>2, <3>3 DEF BoxAdmitted
  <2>2. BoxState[c] = "held" /\ BoxState' = BoxState /\ posted' = posted
    BY <1>1, <1>8 DEF SendGet, BoxState
  <2>3. Box!Admit(c, r)
    BY <2>1, <2>2 DEF Box!Admit, BoxState, BoxAdmitted
  <2> QED BY <2>3 DEF Box!BoxNext
<1>9. ASSUME NEW r \in Requests, SendCheck(r) PROVE [Box!BoxNext]_(Box!box)
  <2>1. /\ req[r].at = "checking" /\ req[r] \in Request
        /\ status' = status /\ posted' = posted
    BY <1>9 DEF SendCheck, TypeInv, TypeOK
  <2>2. CASE req' = [req EXCEPT ![r] = Idle]
    <3>1. \A d \in Drafts : Admitted(d)' = Admitted(d) \ {r}
      BY <2>2, DraftAssumption DEF Admitted, TypeInv, TypeOK
    <3> QED BY <1>4, <2>1, <3>1 DEF Box!BoxNext
  <2>3. CASE req' = [req EXCEPT ![r] = [@ EXCEPT !.at = "posting"]]
    <3>1. /\ \A q \in Requests : q # r => req'[q] = req[q]
          /\ req'[r].at = "posting" /\ req'[r].draft = req[r].draft
      BY <2>1, <2>3 DEF TypeInv, TypeOK
    <3>2. \A d \in Drafts : Admitted(d)' = Admitted(d)
      BY <2>1, <3>1 DEF Admitted
    <3> QED BY <1>0, <1>1, <1>2, <2>1, <3>2
  <2> QED BY <1>9, <2>2, <2>3 DEF SendCheck
<1>10. ASSUME NEW r \in Requests, SendPost(r) PROVE Box!BoxNext
  <2>1. req[r].at = "posting" /\ req[r] \in Request /\ req[r].draft \in Drafts
    BY <1>10 DEF SendPost, TypeInv, TypeOK, RequestOK
  <2>2. /\ \A q \in Requests : q # r => req'[q] = req[q]
        /\ req'[r].at = "marking"
    BY <1>10, <2>1 DEF SendPost, TypeInv, TypeOK
  <2>3. BoxAdmitted' = [BoxAdmitted EXCEPT ![req[r].draft] = BoxAdmitted[req[r].draft] \ {r}]
    BY <2>1, <2>2 DEF BoxAdmitted, Admitted
  <2>4. r \in BoxAdmitted[req[r].draft]
    BY <2>1 DEF BoxAdmitted, Admitted
  <2>5. BoxState' = BoxState /\ posted' = [posted EXCEPT ![req[r].draft] = posted[req[r].draft] + 1]
    BY <1>1, <1>10 DEF SendPost
  <2>6. Box!Post(req[r].draft, r)
    BY <2>3, <2>4, <2>5 DEF Box!Post, BoxState, BoxAdmitted
  <2> QED BY <2>1, <2>6 DEF Box!BoxNext
<1>11. ASSUME NEW r \in Requests, SendMark(r) PROVE Box!BoxNext
  <2>1. req[r].draft \in Drafts /\ status[req[r].draft] # "none"
    BY <1>11 DEF SendMark, TypeInv, RequestOK, InsertOK
  <2>2. \A d \in Drafts : Admitted(d)' = Admitted(d)
    BY <1>11, DraftAssumption DEF SendMark, Admitted, TypeInv, TypeOK
  <2>3. /\ posted' = posted /\ status' \in [Drafts -> Status]
        /\ status'[req[r].draft] = "sent"
        /\ \A d \in Drafts : d # req[r].draft => status'[d] = status[d]
    BY <1>11, <2>1 DEF SendMark, TypeInv, TypeOK
  <2>4. PICK some \in SUBSET Drafts : some = {d \in {req[r].draft} : status[d] = "held"}
    BY <2>1
  <2>5. \A d \in Drafts : d \in some <=> d = req[r].draft /\ status[d] = "held"
    BY <2>1, <2>4
  <2>6. Box!Close(some)
    BY <1>5, <2>1, <2>2, <2>3, <2>5 DEF TypeInv, TypeOK
  <2> QED BY <2>6 DEF Box!BoxNext
<1>12. ASSUME NEW r \in Requests, SendMarkFails(r) PROVE UNCHANGED Box!box
  <2>1. \A d \in Drafts : Admitted(d)' = Admitted(d)
    BY <1>12, DraftAssumption DEF SendMarkFails, Admitted, TypeInv, TypeOK
  <2> QED BY <1>0, <1>1, <1>2, <1>12, <2>1 DEF SendMarkFails
<1>13. ASSUME NEW r \in Requests, Fail(r) PROVE Box!BoxNext
  <2>1. \A d \in Drafts : Admitted(d)' = Admitted(d) \ {r}
    BY <1>13, DraftAssumption DEF Fail, Admitted, TypeInv, TypeOK
  <2> QED BY <1>4, <1>13, <2>1 DEF Fail, Box!BoxNext
<1>14. ASSUME NEW c \in Drafts, Cancel(c) PROVE Box!BoxNext
  <2>1. /\ posted' = posted /\ req' = req /\ status' \in [Drafts -> Status]
        /\ status[c] # "none" /\ status'[c] = "cancelled"
        /\ \A d \in Drafts : d # c => status'[d] = status[d]
    BY <1>14 DEF Cancel, TypeInv, TypeOK
  <2>2. PICK some \in SUBSET Drafts : some = {d \in {c} : status[d] = "held"}
    OBVIOUS
  <2>3. \A d \in Drafts : d \in some <=> d = c /\ status[d] = "held"
    BY <2>2
  <2>4. Box!Close(some)
    BY <1>5, <2>1, <2>3 DEF TypeInv, TypeOK
  <2> QED BY <2>4 DEF Box!BoxNext
<1>15. ASSUME ExpireDrafts PROVE Box!BoxNext
  <2>1. /\ posted' = posted /\ req' = req /\ status' \in [Drafts -> Status]
        /\ \A d \in Drafts : status'[d] = IF status[d] = "held" /\ due[d] THEN "expired" ELSE status[d]
    BY <1>15 DEF ExpireDrafts, TypeInv, TypeOK
  <2>2. PICK some \in SUBSET Drafts : some = {d \in Drafts : status[d] = "held" /\ due[d]}
    OBVIOUS
  <2>3. \A d \in Drafts : d \in some <=> status[d] = "held" /\ due[d]
    BY <2>2
  <2>4. Box!Close(some)
    BY <1>5, <2>1, <2>3
  <2> QED BY <2>4 DEF Box!BoxNext
<1>16. ASSUME NEW c \in Drafts, Elapse(c) PROVE UNCHANGED Box!box
  BY <1>0, <1>1, <1>3, <1>16 DEF Elapse
<1>17. ASSUME NEW ch \in Channels, OtherMessage(ch) PROVE UNCHANGED Box!box
  BY <1>0, <1>1, <1>3, <1>17 DEF OtherMessage
<1>18. ASSUME Crash PROVE Box!BoxNext
  <2>1. \A d \in Drafts : Admitted(d)' = Admitted(d) \ Requests
    BY <1>18, DraftAssumption DEF Crash, Admitted
  <2> QED BY <1>4, <1>18, <2>1 DEF Crash, Box!BoxNext
<1>19. CASE UNCHANGED vars
  BY <1>0, <1>1, <1>3, <1>19
<1> HIDE DEF Box!box
<1> QED BY <1>6, <1>7, <1>8, <1>9, <1>10, <1>11, <1>12, <1>13, <1>14, <1>15, <1>16, <1>17, <1>18, <1>19
        DEF Next, RequestStep

\* The draft handlers and the sweep implement DraftBox: a post uses up an
\* admission, an admission needs a held draft, and nothing reopens a draft.
THEOREM DraftsImplementBox == Spec => ImplementsBox
<1>1. Init => Box!BoxInit
  BY DraftAssumption DEF Init, Box!BoxInit, Admitted
<1> QED BY <1>1, TypeInvInit, TypeInvStep, BoxStep, PTL DEF Spec, ImplementsBox, Box!BoxSpec

\* A draft that is sent, cancelled or expired, with no send on its way, stays so
\* and makes no message: the box closes a draft once, and posts for the admitted.
THEOREM DraftsSettleForGood == Spec => SettledForGood
<1> DEFINE StaysSettled(d) == Settled(d) => Settled(d)' /\ posted'[d] = posted[d]
<1>1. ASSUME TypeInv, TypeInv', [Box!BoxNext]_(Box!box), NEW d \in Drafts PROVE StaysSettled(d)
  <2> SUFFICES ASSUME Settled(d) PROVE Settled(d)' /\ posted'[d] = posted[d]
    OBVIOUS
  <2>1. BoxState[d] = "closed" /\ BoxAdmitted[d] = {} /\ BoxState \in [Drafts -> {"none", "held", "closed"}]
    BY DEF Settled, BoxState, BoxAdmitted
  <2>2. /\ BoxState'[d] = "closed" /\ BoxAdmitted'[d] = {} /\ posted'[d] = posted[d]
    <3>1. CASE UNCHANGED Box!box
      BY <2>1, <3>1 DEF Box!box, BoxState, BoxAdmitted
    <3>2. ASSUME NEW c \in Drafts, Box!Hold(c)
          PROVE  BoxState'[d] = "closed" /\ BoxAdmitted' = BoxAdmitted /\ posted' = posted
      <4>1. /\ BoxState[c] = "none" /\ BoxState' = [BoxState EXCEPT ![c] = "held"]
            /\ BoxAdmitted' = BoxAdmitted /\ posted' = posted
        BY <3>2 DEF Box!Hold, BoxState, BoxAdmitted
      <4> QED BY <2>1, <4>1
    <3>3. ASSUME NEW c \in Drafts, NEW s \in Requests, Box!Admit(c, s)
          PROVE  BoxState' = BoxState /\ BoxAdmitted'[d] = {} /\ posted' = posted
      <4>1. /\ BoxState[c] = "held" /\ BoxState' = BoxState /\ posted' = posted
            /\ BoxAdmitted' = [BoxAdmitted EXCEPT ![c] = @ \cup {s}]
        BY <3>3 DEF Box!Admit, BoxState, BoxAdmitted
      <4> QED BY <2>1, <4>1
    <3>4. ASSUME NEW c \in Drafts, NEW s \in Requests, Box!Post(c, s)
          PROVE  BoxState' = BoxState /\ BoxAdmitted'[d] = {} /\ posted'[d] = posted[d]
      <4>1. /\ s \in BoxAdmitted[c] /\ BoxState' = BoxState
            /\ BoxAdmitted' = [BoxAdmitted EXCEPT ![c] = @ \ {s}]
            /\ posted' = [posted EXCEPT ![c] = @ + 1]
        BY <3>4 DEF Box!Post, BoxState, BoxAdmitted
      <4> QED BY <2>1, <4>1 DEF TypeInv, TypeOK
    <3>5. ASSUME NEW gone \in SUBSET Requests, Box!Withdraw(gone)
          PROVE  BoxState' = BoxState /\ BoxAdmitted'[d] = {} /\ posted' = posted
      <4>1. /\ BoxState' = BoxState /\ posted' = posted
            /\ BoxAdmitted' = [c \in Drafts |-> BoxAdmitted[c] \ gone]
        BY <3>5 DEF Box!Withdraw, BoxState, BoxAdmitted
      <4> QED BY <2>1, <4>1
    <3>6. ASSUME NEW some \in SUBSET Drafts, Box!Close(some)
          PROVE  BoxState'[d] = "closed" /\ BoxAdmitted' = BoxAdmitted /\ posted' = posted
      <4>1. /\ BoxState' = [c \in Drafts |-> IF c \in some THEN "closed" ELSE BoxState[c]]
            /\ BoxAdmitted' = BoxAdmitted /\ posted' = posted
        BY <3>6 DEF Box!Close, BoxState, BoxAdmitted
      <4> QED BY <2>1, <4>1
    <3> QED BY <1>1, <2>1, <3>1, <3>2, <3>3, <3>4, <3>5, <3>6 DEF Box!BoxNext
  <2>3. Settled(d)'
    BY <2>2 DEF Settled, BoxState, BoxAdmitted
  <2> QED BY <2>2, <2>3
<1>2. TypeInv /\ TypeInv' /\ [Box!BoxNext]_(Box!box) => \A d \in Drafts : StaysSettled(d)
  BY <1>1
<1>3. TypeInv /\ TypeInv' /\ [Next]_vars => [\A d \in Drafts : StaysSettled(d)]_vars
  BY <1>2, BoxStep
<1> QED BY <1>3, TypeInvInit, TypeInvStep, PTL DEF Spec, SettledForGood
=============================================================================
