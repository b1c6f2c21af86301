--------------------------- MODULE AccountsProofs ---------------------------
(***************************************************************************)
(* Theorems about Accounts, for all people, providers, requests, states,   *)
(* tokens and numbers of members.                                          *)
(***************************************************************************)
EXTENDS Accounts, WellFoundedInduction, TLAPS

-----------------------------------------------------------------------------
\* What a query finds

\* x is the first of the rows S.
IsFirst(x, S) == x \in S /\ \A y \in S : x <= y

Less == OpToRel(<, Nat)

\* A query that finds rows returns the first of them; otherwise none.
LEMMA FirstOfRows ==
    ASSUME NEW S \in SUBSET MemberIds
    PROVE  /\ First(S) \in 0..MaxMembers
           /\ First(S) # 0 <=> S # {}
           /\ S # {} => IsFirst(First(S), S)
<1>1. MaxMembers \in Nat /\ S \subseteq Nat /\ 0 \notin S
  BY AccountsAssumption DEF MemberIds
<1>2. CASE S = {}
  BY <1>1, <1>2 DEF First
<1>3. CASE S # {}
  <2>1. IsWellFoundedOn(Less, Nat)
    BY NatLessThanWellFounded DEF Less
  <2>2. \A i, j \in Nat : i < j => <<i, j>> \in Less
    BY DEF Less, OpToRel
  <2>3. PICK x \in S : \A y \in S : ~(<<y, x>> \in Less)
    BY <1>1, <1>3, <2>1, WFMin
  <2>4. \A y \in S : x <= y
    <3> TAKE y \in S
    <3>1. x \in Nat /\ y \in Nat /\ ~(y < x)
      BY <1>1, <2>2, <2>3
    <3> QED BY <3>1
  <2>5. Min(S) \in S /\ \A y \in S : Min(S) =< y
    BY <2>4, Zenon DEF Min
  <2>6. First(S) = Min(S)
    BY <1>3 DEF First
  <2>7. IsFirst(First(S), S)
    BY <2>5, <2>6 DEF IsFirst
  <2>8. First(S) \in S
    BY <2>7 DEF IsFirst
  <2>9. First(S) \in 0..MaxMembers /\ First(S) # 0
    <3>1. First(S) \in MemberIds
      BY <2>8
    <3> HIDE DEF First
    <3> QED BY <1>1, <3>1 DEF MemberIds
  <2> QED BY <1>3, <2>7, <2>9
<1> QED BY <1>2, <1>3

\* There is one first row.
LEMMA OneFirst ==
    ASSUME NEW S \in SUBSET MemberIds, NEW x, NEW y, IsFirst(x, S), IsFirst(y, S)
    PROVE  x = y
<1>1. x \in Nat /\ y \in Nat
  BY AccountsAssumption DEF IsFirst, MemberIds
<1> QED BY <1>1 DEF IsFirst

-----------------------------------------------------------------------------
\* Types

At == {"asking", "mailing", "joining", "linking", "issuing"}

\* A request that is under way knows for whom.
Named(q) == q.at # "idle" => q.who \in Names

TypeInv == TypeOK /\ \A r \in Requests : Named(req[r])

LEMMA Constants ==
    /\ Idle \in Request /\ Idle.at = "idle" /\ Named(Idle)
    /\ NoRow \in MemberRow /\ NoRow.state = "none" /\ NoRow.who = NoOne
    /\ NoToken \in Token /\ NoToken.member = 0 /\ NoToken.blacklisted = FALSE
    /\ MaxMembers \in Nat
BY AccountsAssumption DEF Idle, Request, Doors, Names, Named, NoRow, MemberRow, NoToken, Token

\* What a request may go over to.
LEMMA RequestSet ==
    ASSUME TypeInv, NEW r \in Requests, NEW q \in Request, Named(q),
           req' = [req EXCEPT ![r] = q]
    PROVE  req' \in [Requests -> Request] /\ \A x \in Requests : Named(req'[x])
BY DEF TypeInv, TypeOK

LEMMA RequestDone ==
    ASSUME TypeInv, NEW r \in Requests, req' = [req EXCEPT ![r] = Idle]
    PROVE  req' \in [Requests -> Request] /\ \A x \in Requests : Named(req'[x])
BY Constants, RequestSet

LEMMA RequestBegins ==
    ASSUME TypeInv, NEW r \in Requests, NEW at \in At, NEW door \in Doors \cup {"register"},
           NEW who \in Names, Begin(r, at, door, who)
    PROVE  req' \in [Requests -> Request] /\ \A x \in Requests : Named(req'[x])
<1> DEFINE q == [at |-> at, door |-> door, who |-> who, member |-> 0]
<1>1. q \in Request /\ Named(q)
  BY AccountsAssumption DEF Request, At, Named
<1> QED BY <1>1, RequestSet DEF Begin

LEMMA RequestFound ==
    ASSUME TypeInv, NEW r \in Requests, NEW at \in At, NEW m \in 0..MaxMembers,
           req[r].at # "idle", Found(r, m, at)
    PROVE  req' \in [Requests -> Request] /\ \A x \in Requests : Named(req'[x])
<1> DEFINE q == [req[r] EXCEPT !.at = at, !.member = m]
<1>1. q \in Request /\ Named(q)
  BY DEF Request, At, Named, TypeInv, TypeOK
<1>2. req' = [req EXCEPT ![r] = q]
  BY DEF Found, TypeInv, TypeOK, Request
<1> QED BY <1>1, <1>2, RequestSet

LEMMA RequestTo ==
    ASSUME TypeInv, NEW r \in Requests, NEW at \in At, req[r].at # "idle", To(r, at)
    PROVE  req' \in [Requests -> Request] /\ \A x \in Requests : Named(req'[x])
<1> DEFINE q == [req[r] EXCEPT !.at = at]
<1>1. q \in Request /\ Named(q)
  BY DEF Request, At, Named, TypeInv, TypeOK
<1>2. req' = [req EXCEPT ![r] = q]
  BY DEF To, TypeInv, TypeOK, Request
<1> QED BY <1>1, <1>2, RequestSet

-----------------------------------------------------------------------------
\* Inserting and removing rows

\* The row of a new member takes the place after the last, for who asked.
LEMMA RowInserted ==
    ASSUME TypeInv, NEW others, NEW who \in Names, NEW door, Insert(others, who, door)
    PROVE  \E m \in MemberIds :
             /\ m = First({x \in MemberIds : member[x].state = "none"})
             /\ member[m].state = "none"
             /\ \A x \in MemberIds : member[x].state = "none" => m <= x
             /\ member' = [member EXCEPT ![m] = NewMember(who, door)]
             /\ NewMember(who, door) \in MemberRow
             /\ member' \in [MemberIds -> MemberRow]
             /\ astray' \subseteq Names
<1> DEFINE S == {x \in MemberIds : member[x].state = "none"}
<1>1. PICK m \in MemberIds : m = First(S) /\ member' = [member EXCEPT ![m] = NewMember(who, door)]
  BY DEF Insert
<1>2. m # 0
  BY AccountsAssumption DEF MemberIds
<1>3. IsFirst(m, S)
  BY <1>1, <1>2, FirstOfRows
<1>4. NewMember(who, door) \in MemberRow
  BY DEF NewMember, MemberRow, Founds
<1>5. astray' \subseteq Names
  BY DEF Insert, TypeInv, TypeOK
<1>6. member' \in [MemberIds -> MemberRow]
  BY <1>1, <1>4 DEF TypeInv, TypeOK
<1> QED BY <1>1, <1>3, <1>4, <1>5, <1>6 DEF IsFirst

LEMMA RowsRemoved ==
    ASSUME TypeInv, NEW M, Remove(M)
    PROVE  /\ member' \in [MemberIds -> MemberRow]
           /\ identity' \in [Doors \X Names -> 0..MaxMembers]
           /\ home' \in [Doors \X Names -> 0..MaxMembers]
<1>1. NoRow \in MemberRow /\ [NoRow EXCEPT !.state = "gone"] \in MemberRow
  BY Constants DEF MemberRow
<1>2. member' \in [MemberIds -> MemberRow]
  BY <1>1 DEF TypeInv, TypeOK, Remove
<1>3. 0 \in 0..MaxMembers
  BY Constants
<1>4. identity' \in [Doors \X Names -> 0..MaxMembers]
  <2>1. identity \in [Doors \X Names -> 0..MaxMembers]
    BY DEF TypeInv, TypeOK
  <2> QED BY <1>3, <2>1 DEF Remove
<1>5. home' \in [Doors \X Names -> 0..MaxMembers]
  <2>1. home \in [Doors \X Names -> 0..MaxMembers]
    BY DEF TypeInv, TypeOK
  <2> QED BY <1>3, <2>1 DEF Remove
<1> QED BY <1>2, <1>4, <1>5

\* The queries for a member.
LEMMA Queries ==
    ASSUME TypeInv, NEW who \in Names
    PROVE  /\ GetMemberByEmail(who) \in 0..MaxMembers
           /\ GetMemberByEmail(who) # 0 =>
                IsFirst(GetMemberByEmail(who),
                        {m \in MemberIds : Live(m) /\ member[m].email /\ member[m].who = who})
           /\ GetMemberByName(who) \in 0..MaxMembers
           /\ GetMemberByName(who) # 0 =>
                IsFirst(GetMemberByName(who),
                        {m \in MemberIds : Live(m) /\ member[m].ws = "office" /\ member[m].who = who})
BY FirstOfRows DEF GetMemberByEmail, GetMemberByName

-----------------------------------------------------------------------------
LEMMA TypeInvariant == Spec => []TypeInv
<1>1. Init => TypeInv
  <2> SUFFICES ASSUME Init PROVE TypeInv
    OBVIOUS
  <2>1. req \in [Requests -> Request] /\ \A r \in Requests : Named(req[r])
    BY Constants DEF Init
  <2>2. member \in [MemberIds -> MemberRow] /\ token \in [Tokens -> Token]
    BY Constants DEF Init
  <2>3. identity \in [Doors \X Names -> 0..MaxMembers] /\ home \in [Doors \X Names -> 0..MaxMembers]
    BY Constants DEF Init
  <2> QED BY <2>1, <2>2, <2>3 DEF Init, TypeInv, TypeOK
<1>2. TypeInv /\ [Next]_vars => TypeInv'
  <2> SUFFICES ASSUME TypeInv, [Next]_vars PROVE TypeInv'
    OBVIOUS
  <2>a. ASSUME NEW s \in States, BeginOAuth(s) \/ Age(s) PROVE TypeInv'
    BY <2>a DEF BeginOAuth, Age, TypeInv, TypeOK
  <2>b. CASE SweepStates
    BY <2>b DEF SweepStates, TypeInv, TypeOK
  <2>c. ASSUME NEW r \in Requests, NEW p \in People, Register(r, p) PROVE TypeInv'
    <3>1. p \in Names
      BY DEF Names
    <3>2. req' \in [Requests -> Request] /\ \A x \in Requests : Named(req'[x])
      BY <2>c, <3>1, RequestBegins DEF Register, At
    <3> QED BY <2>c, <3>2 DEF Register, TypeInv, TypeOK
  <2>d. ASSUME NEW r \in Requests, NEW p \in People, Login(r, p) PROVE TypeInv'
    <3> DEFINE q == [at |-> "issuing", door |-> "login", who |-> p, member |-> GetMemberByEmail(p)]
    <3>1. p \in Names
      BY DEF Names
    <3>2. GetMemberByEmail(p) \in 0..MaxMembers
      BY <3>1, Queries
    <3>3. q \in Request /\ Named(q)
      BY <3>1, <3>2 DEF Request, Named, Doors
    <3>4. req' \in [Requests -> Request] /\ \A x \in Requests : Named(req'[x])
      BY <2>d, <3>3, RequestSet DEF Login
    <3> QED BY <2>d, <3>4 DEF Login, TypeInv, TypeOK
  <2>e. ASSUME NEW r \in Requests, NEW p \in People, SSOCallback(r, p) PROVE TypeInv'
    <3>1. p \in Names /\ "sso" \in Doors
      BY DEF Names, Doors
    <3>2. req' \in [Requests -> Request] /\ \A x \in Requests : Named(req'[x])
      BY <2>e, <3>1, RequestBegins DEF SSOCallback, At
    <3> QED BY <2>e, <3>2 DEF SSOCallback, TypeInv, TypeOK
  <2>f. ASSUME NEW r \in Requests, NEW p \in People, NEW s \in States, NEW at \in At,
               NEW d \in Providers, Callback(r, at, d, p, s)
        PROVE  TypeInv'
    <3>1. p \in Names /\ d \in Doors
      BY DEF Names, Doors
    <3>2. req' \in [Requests -> Request] /\ \A x \in Requests : Named(req'[x])
      <4>1. CASE oauth[s] = "fresh"
        BY <2>f, <3>1, <4>1, RequestBegins DEF Callback
      <4>2. CASE oauth[s] # "fresh"
        BY <2>f, <4>2 DEF Callback, TypeInv, TypeOK
      <4> QED BY <4>1, <4>2
    <3> QED BY <2>f, <3>2 DEF Callback, TakeState, TypeInv, TypeOK
  <2>g. ASSUME NEW r \in Requests, NEW b \in Bots, Provision(r, b) PROVE TypeInv'
    <3>1. b \in Names /\ "agent" \in Doors
      BY DEF Names, Doors
    <3>2. req' \in [Requests -> Request] /\ \A x \in Requests : Named(req'[x])
      BY <2>g, <3>1, RequestBegins DEF Provision, At
    <3> QED BY <2>g, <3>2 DEF Provision, TypeInv, TypeOK
  <2>h. ASSUME NEW r \in Requests, AskByIdentity(r) PROVE TypeInv'
    <3> DEFINE m == identity[<<req[r].door, req[r].who>>]
    <3>1. req[r].at # "idle" /\ req[r].who \in Names /\ req[r].door \in Doors
      BY <2>h DEF AskByIdentity, TypeInv, Named, Doors
    <3>2. m \in 0..MaxMembers
      BY <3>1 DEF TypeInv, TypeOK
    <3>3. req' \in [Requests -> Request] /\ \A x \in Requests : Named(req'[x])
      BY <2>h, <3>1, <3>2, RequestFound, RequestTo DEF AskByIdentity, At
    <3> QED BY <2>h, <3>3 DEF AskByIdentity, TypeInv, TypeOK
  <2>i. ASSUME NEW r \in Requests, AskSSO(r) PROVE TypeInv'
    <3> DEFINE m == identity[<<"sso", req[r].who>>]
    <3>1. req[r].at # "idle" /\ req[r].who \in Names /\ "sso" \in Doors
      BY <2>i DEF AskSSO, TypeInv, Named, Doors
    <3>2. m \in 0..MaxMembers
      BY <3>1 DEF TypeInv, TypeOK
    <3>3. req' \in [Requests -> Request] /\ \A x \in Requests : Named(req'[x])
      BY <2>i, <3>1, <3>2, RequestFound, RequestTo DEF AskSSO, At
    <3> QED BY <2>i, <3>3 DEF AskSSO, TypeInv, TypeOK
  <2>j. ASSUME NEW r \in Requests, AskByName(r) PROVE TypeInv'
    <3>1. req[r].at # "idle" /\ req[r].who \in Names
      BY <2>j DEF AskByName, TypeInv, Named
    <3>2. GetMemberByName(req[r].who) \in 0..MaxMembers
      BY <3>1, Queries
    <3>3. req' \in [Requests -> Request] /\ \A x \in Requests : Named(req'[x])
      BY <2>j, <3>1, <3>2, RequestFound, RequestTo DEF AskByName, At
    <3> QED BY <2>j, <3>3 DEF AskByName, TypeInv, TypeOK
  <2>k. ASSUME NEW r \in Requests, AskByEmail(r) PROVE TypeInv'
    <3>1. req[r].at # "idle" /\ req[r].who \in Names
      BY <2>k DEF AskByEmail, TypeInv, Named
    <3>2. GetMemberByEmail(req[r].who) \in 0..MaxMembers
      BY <3>1, Queries
    <3>3. req' \in [Requests -> Request] /\ \A x \in Requests : Named(req'[x])
      <4> DEFINE at == IF req[r].door = "github" THEN "issuing" ELSE "linking"
      <4>1. at \in At
        BY DEF At
      <4>2. CASE GetMemberByEmail(req[r].who) = 0
        BY <2>k, <3>1, <4>2, RequestTo DEF AskByEmail, At
      <4>3. CASE GetMemberByEmail(req[r].who) # 0
        BY <2>k, <3>1, <3>2, <4>1, <4>3, RequestFound DEF AskByEmail
      <4> QED BY <4>2, <4>3
    <3> QED BY <2>k, <3>3 DEF AskByEmail, TypeInv, TypeOK
  <2>l. ASSUME NEW r \in Requests, Join(r) PROVE TypeInv'
    <3> DEFINE S == {x \in MemberIds : member[x].state = "none"}
               at == IF req[r].door \in {"google", "microsoft", "sso"} THEN "linking" ELSE "issuing"
    <3>1. req[r].at # "idle" /\ req[r].who \in Names /\ at \in At
      BY <2>l DEF Join, TypeInv, Named, At
    <3>2. First(S) \in 0..MaxMembers
      BY FirstOfRows
    <3>3. CASE Founds(req[r].door) \/ office
      <4>1. Insert(Requests \ {r}, req[r].who, req[r].door) /\ Found(r, First(S), at)
        BY <2>l, <3>3 DEF Join
      <4>2. req' \in [Requests -> Request] /\ \A x \in Requests : Named(req'[x])
        BY <3>1, <3>2, <4>1, RequestFound
      <4>3. member' \in [MemberIds -> MemberRow] /\ astray' \subseteq Names
        BY <3>1, <4>1, RowInserted
      <4> QED BY <2>l, <4>2, <4>3 DEF Join, TypeInv, TypeOK
    <3>4. CASE ~(Founds(req[r].door) \/ office)
      <4>1. req' \in [Requests -> Request] /\ \A x \in Requests : Named(req'[x])
        BY <2>l, <3>4, RequestDone DEF Join
      <4> QED BY <2>l, <3>4, <4>1 DEF Join, TypeInv, TypeOK
    <3> QED BY <3>3, <3>4
  <2>m. ASSUME NEW r \in Requests, Link(r) PROVE TypeInv'
    <3>1. req[r].at # "idle" /\ req[r].who \in Names
      BY <2>m DEF Link, TypeInv, Named
    <3>2. req' \in [Requests -> Request] /\ \A x \in Requests : Named(req'[x])
      BY <2>m, <3>1, RequestTo DEF Link, At
    <3>3. req[r].member \in 0..MaxMembers
      BY DEF TypeInv, TypeOK, Request
    <3>4. identity' \in [Doors \X Names -> 0..MaxMembers]
      BY <2>m, <3>3 DEF Link, TypeInv, TypeOK
    <3>5. astray' \subseteq Names
      BY <2>m, <3>1 DEF Link, TypeInv, TypeOK
    <3> QED BY <2>m, <3>2, <3>4, <3>5 DEF Link, TypeInv, TypeOK
  <2>n. ASSUME NEW r \in Requests, Issue(r) PROVE TypeInv'
    <3>1. req' \in [Requests -> Request] /\ \A x \in Requests : Named(req'[x])
      BY <2>n, RequestDone DEF Issue
    <3>2. req[r].member \in 0..MaxMembers
      BY DEF TypeInv, TypeOK, Request
    <3>3. home' \in [Doors \X Names -> 0..MaxMembers]
      BY <2>n, <3>2 DEF Issue, TypeInv, TypeOK
    <3>4. token' \in [Tokens -> Token] /\ spent' \subseteq States \cup Tokens
      BY <2>n, <3>2 DEF Issue, TypeInv, TypeOK, Token
    <3> QED BY <2>n, <3>1, <3>3, <3>4 DEF Issue, TypeInv, TypeOK
  <2>o. ASSUME NEW r \in Requests, Fail(r) PROVE TypeInv'
    <3>1. req' \in [Requests -> Request] /\ \A x \in Requests : Named(req'[x])
      BY <2>o, RequestDone DEF Fail
    <3> QED BY <2>o, <3>1 DEF Fail, TypeInv, TypeOK
  <2>p. ASSUME NEW t \in Tokens, Authenticate(t) \/ Logout(t) \/ Expire(t) PROVE TypeInv'
    <3>1. CASE Authenticate(t)
      BY <3>1 DEF Authenticate, TypeInv, TypeOK
    <3>2. CASE Logout(t)
      BY <3>2 DEF Logout, TypeInv, TypeOK, Token
    <3>3. CASE Expire(t)
      BY <3>3, Constants DEF Expire, TypeInv, TypeOK
    <3> QED BY <2>p, <3>1, <3>2, <3>3
  <2>q. ASSUME NEW b \in Bots, CreateMember(b) PROVE TypeInv'
    <3>1. member' \in [MemberIds -> MemberRow] /\ astray' \subseteq Names
      BY <2>q, RowInserted DEF CreateMember, Names
    <3> QED BY <2>q, <3>1 DEF CreateMember, TypeInv, TypeOK
  <2>r. ASSUME NEW m \in MemberIds, DeleteMember(m) PROVE TypeInv'
    BY <2>r, RowsRemoved DEF DeleteMember, TypeInv, TypeOK
  <2>s. CASE DeleteOffice
    BY <2>s, RowsRemoved DEF DeleteOffice, TypeInv, TypeOK
  <2>t. CASE ConfigureSSO
    BY <2>t DEF ConfigureSSO, TypeInv, TypeOK
  <2>u. CASE Crash
    BY <2>u, Constants DEF Crash, TypeInv, TypeOK
  <2>v. CASE UNCHANGED vars
    BY <2>v DEF vars, TypeInv, TypeOK
  <2>w. ASSUME NEW r \in Requests, NEW p \in People, NEW s \in States,
               GithubCallback(r, p, s) \/ OAuthCallback(r, p, s)
        PROVE  TypeInv'
    BY <2>f, <2>w DEF GithubCallback, OAuthCallback, At
  <2> QED BY <2>a, <2>b, <2>c, <2>d, <2>e, <2>g, <2>h, <2>i, <2>j, <2>k, <2>l, <2>m, <2>n,
             <2>o, <2>p, <2>q, <2>r, <2>s, <2>t, <2>u, <2>v, <2>w DEF Next
<1> QED BY <1>1, <1>2, PTL DEF Spec

\* The tables, the locals of the requests, the OAuth states and the tokens of the
\* handlers keep their types.
THEOREM TypeCorrect == Spec => []TypeOK
<1>1. TypeInv => TypeOK
  BY DEF TypeInv
<1> QED BY <1>1, TypeInvariant, PTL

-----------------------------------------------------------------------------
\* Invariants

\* A member that an identity is about to be stored for was found or made for the
\* person: whoever it is, it is not the row of another.
LinkInv ==
    \A r \in Requests : req[r].at = "linking" =>
        /\ req[r].member \in MemberIds
        /\ member[req[r].member].state # "none"
        /\ Live(req[r].member) => member[req[r].member].who = req[r].who

\* What would be accepted is not spent, or its sign-out failed.
SpentInv ==
    /\ again = {}
    /\ \A s \in States : oauth[s] = "fresh" => s \notin spent
    /\ \A t \in Tokens : ValidateToken(t) => t \notin spent \ kept

\* The rows that the query behind a door chooses from.
Leads(d, w) ==
    IF d = "sso" THEN {m \in MemberIds : identity[<<"sso", w>>] = m}
    ELSE IF d = "agent" THEN {m \in MemberIds : Live(m) /\ member[m].ws = "office" /\ member[m].who = w}
    ELSE {m \in MemberIds : Live(m) /\ member[m].email /\ member[m].who = w}

\* Rows are made in the order of their ids.
InOrder ==
    \A i, j \in MemberIds : i < j /\ member[i].state = "none" => member[j].state = "none"

\* The row m is there, or was.
Made(m) == m \in MemberIds /\ member[m].state # "none"

\* Requests go through the steps of their door, with a member that was found or made.
OnItsWay(q) ==
    /\ q.at = "mailing" => q.door \in Providers
    /\ q.at = "joining" => q.door \in Providers \cup {"register", "sso", "agent"}
    /\ q.at = "linking" => q.door \in Providers \cup {"sso"}
    /\ q.at \in {"linking", "issuing"} => Made(q.member)

\* A request for somebody who is not astray has found what its door leads to.
OnTrack(q) ==
    /\ (q.at = "joining" /\ q.door # "register") \/ (q.at = "linking" /\ q.door = "sso")
          => Leads(q.door, q.who) = {}
    /\ ((q.at = "linking" /\ q.door \in Providers) \/ (q.at = "issuing" /\ q.door \in Doors))
          /\ Live(q.member)
          => IsFirst(q.member, Leads(q.door, q.who))

Ways == \A r \in Requests : OnItsWay(req[r])

Tracks == \A r \in Requests : req[r].who \notin astray => OnTrack(req[r])

\* The last visit led to the row that the next one will lead to.
Homes ==
    \A d \in Doors, w \in Names :
        /\ home[<<d, w>>] # 0 => Made(home[<<d, w>>])
        /\ w \notin astray /\ Live(home[<<d, w>>]) => IsFirst(home[<<d, w>>], Leads(d, w))

\* An identity leads where the email would.
Identities ==
    \A d \in Providers, w \in Names \ astray :
        identity[<<d, w>>] # 0 => IsFirst(identity[<<d, w>>], Leads(d, w))

DoorInv == InOrder /\ Ways /\ Tracks /\ Homes /\ Identities

-----------------------------------------------------------------------------
\* What is spent

LEMMA SpentStep == TypeInv /\ SpentInv /\ [Next]_vars => SpentInv'
<1> SUFFICES ASSUME TypeInv, SpentInv, [Next]_vars PROVE SpentInv'
  OBVIOUS
<1> USE DEF SpentInv, ValidateToken
<1>0. oauth \in [States -> {"none", "fresh", "old"}] /\ token \in [Tokens -> Token] /\ States \cap Tokens = {}
  BY AccountsAssumption DEF TypeInv, TypeOK
<1>1. ASSUME NEW s \in States, BeginOAuth(s) PROVE SpentInv'
  BY <1>0, <1>1 DEF BeginOAuth
<1>2. ASSUME NEW s \in States, Age(s) PROVE SpentInv'
  BY <1>0, <1>2 DEF Age
<1>3. CASE SweepStates
  BY <1>0, <1>3 DEF SweepStates
<1>4. ASSUME NEW s \in States, TakeState(s), UNCHANGED <<token, kept>> PROVE SpentInv'
  BY <1>0, <1>4 DEF TakeState
<1>5. ASSUME NEW r \in Requests, NEW p \in People, NEW s \in States,
             GithubCallback(r, p, s) \/ OAuthCallback(r, p, s)
      PROVE  SpentInv'
  BY <1>4, <1>5 DEF GithubCallback, OAuthCallback, Callback
<1>6. ASSUME NEW r \in Requests, Issue(r) PROVE SpentInv'
  <2>1. CASE UNCHANGED <<token, spent>>
    BY <1>6, <2>1 DEF Issue
  <2>2. ASSUME NEW t \in Tokens, token' = [token EXCEPT ![t].member = req[r].member],
               spent' = spent \ {t}
        PROVE  SpentInv'
    <3>1. \A u \in Tokens : ValidateToken(u)' => u = t \/ ValidateToken(u)
      BY <1>0, <2>2
    <3> QED BY <1>6, <2>2, <3>1 DEF Issue
  <2> QED BY <1>6, <2>1, <2>2 DEF Issue
<1>7. ASSUME NEW t \in Tokens, Authenticate(t) PROVE SpentInv'
  BY <1>7 DEF Authenticate
<1>8. ASSUME NEW t \in Tokens, Logout(t) PROVE SpentInv'
  <2>1. ASSUME token' = [token EXCEPT ![t].blacklisted = TRUE], kept' = kept \ {t} PROVE SpentInv'
    <3>1. \A u \in Tokens : ValidateToken(u)' => u # t /\ ValidateToken(u)
      BY <1>0, <2>1 DEF Token
    <3> QED BY <1>0, <1>8, <2>1, <3>1 DEF Logout
  <2>2. CASE kept' = kept \cup {t} /\ UNCHANGED token
    BY <1>0, <1>8, <2>2 DEF Logout
  <2> QED BY <1>8, <2>1, <2>2 DEF Logout
<1>9. ASSUME NEW t \in Tokens, Expire(t) PROVE SpentInv'
  <2>1. \A u \in Tokens : ValidateToken(u)' => u # t /\ ValidateToken(u)
    BY <1>0, <1>9, Constants DEF Expire
  <2> QED BY <1>0, <1>9, <2>1 DEF Expire
<1>10. CASE Crash
  BY <1>0, <1>10 DEF Crash
<1>11. CASE UNCHANGED <<oauth, token, spent, kept, again>>
  BY <1>11
<1>12. ASSUME NEW r \in Requests, NEW p \in People, Register(r, p) \/ Login(r, p) \/ SSOCallback(r, p)
       PROVE  SpentInv'
  BY <1>11, <1>12 DEF Register, Login, SSOCallback
<1>13. ASSUME NEW r \in Requests, NEW b \in Bots, Provision(r, b) PROVE SpentInv'
  BY <1>11, <1>13 DEF Provision
<1>14. ASSUME NEW r \in Requests,
              \/ AskByIdentity(r) \/ AskSSO(r) \/ AskByName(r) \/ AskByEmail(r)
              \/ Join(r) \/ Link(r) \/ Fail(r)
       PROVE  SpentInv'
  BY <1>11, <1>14 DEF AskByIdentity, AskSSO, AskByName, AskByEmail, Join, Link, Fail
<1>15. ASSUME NEW b \in Bots, CreateMember(b) PROVE SpentInv'
  BY <1>11, <1>15 DEF CreateMember
<1>16. ASSUME NEW m \in MemberIds, DeleteMember(m) PROVE SpentInv'
  BY <1>11, <1>16 DEF DeleteMember
<1>17. CASE DeleteOffice \/ ConfigureSSO \/ UNCHANGED vars
  BY <1>11, <1>17 DEF DeleteOffice, ConfigureSSO, vars
<1> QED BY <1>1, <1>2, <1>3, <1>5, <1>6, <1>7, <1>8, <1>9, <1>10, <1>12, <1>13, <1>14, <1>15,
           <1>16, <1>17 DEF Next

\* No OAuth state lets a second callback in, and none after ten minutes; no token that
\* has expired, or that a sign-out stored in token_blacklist, passes authenticate
\* (handlers_auth.go, websocket/auth.go), through any number of restarts.  A token whose
\* sign-out dropped the error of BlacklistToken is accepted, but not after it expires.
THEOREM NothingSpentAccepted == Spec => []SpentStaysSpent
<1>1. Init => SpentInv
  BY Constants DEF Init, SpentInv, ValidateToken
<1>2. SpentInv => SpentStaysSpent
  BY DEF SpentInv, SpentStaysSpent
<1> QED BY <1>1, <1>2, SpentStep, TypeInvariant, PTL DEF Spec

-----------------------------------------------------------------------------
\* Identities

\* What the helpers do to the locals of the requests.
LEMMA Moved ==
    ASSUME TypeInv, NEW r \in Requests
    PROVE  /\ \A at : To(r, at) =>
                /\ \A x \in Requests \ {r} : req'[x] = req[x]
                /\ req'[r].at = at /\ req'[r].door = req[r].door
                /\ req'[r].who = req[r].who /\ req'[r].member = req[r].member
           /\ \A at, m : Found(r, m, at) =>
                /\ \A x \in Requests \ {r} : req'[x] = req[x]
                /\ req'[r].at = at /\ req'[r].door = req[r].door
                /\ req'[r].who = req[r].who /\ req'[r].member = m
           /\ \A at, door, who : Begin(r, at, door, who) =>
                /\ \A x \in Requests \ {r} : req'[x] = req[x]
                /\ req'[r].at = at /\ req'[r].door = door
                /\ req'[r].who = who /\ req'[r].member = 0
<1>1. req \in [Requests -> Request] /\ req[r] \in Request
  BY DEF TypeInv, TypeOK
<1>2. ASSUME NEW at, To(r, at)
      PROVE  /\ \A x \in Requests \ {r} : req'[x] = req[x]
             /\ req'[r].at = at /\ req'[r].door = req[r].door
             /\ req'[r].who = req[r].who /\ req'[r].member = req[r].member
  BY <1>1, <1>2 DEF To, Request
<1>3. ASSUME NEW at, NEW m, Found(r, m, at)
      PROVE  /\ \A x \in Requests \ {r} : req'[x] = req[x]
             /\ req'[r].at = at /\ req'[r].door = req[r].door
             /\ req'[r].who = req[r].who /\ req'[r].member = m
  BY <1>1, <1>3 DEF Found, Request
<1>4. ASSUME NEW at, NEW door, NEW who, Begin(r, at, door, who)
      PROVE  /\ \A x \in Requests \ {r} : req'[x] = req[x]
             /\ req'[r].at = at /\ req'[r].door = door
             /\ req'[r].who = who /\ req'[r].member = 0
  BY <1>1, <1>4 DEF Begin
<1> QED BY <1>2, <1>3, <1>4

\* A step that makes no request a linking one, and leaves rows and identities alone.
LEMMA LinksKept ==
    ASSUME IdentitiesHold, LinkInv, UNCHANGED <<member, identity>>,
           \A x \in Requests : req'[x].at = "linking" => req'[x] = req[x]
    PROVE  IdentitiesHold' /\ LinkInv'
BY DEF IdentitiesHold, LinkInv, Live

\* A new row is nobody's that an identity or a linking request leads to.
LEMMA LinksInserted ==
    ASSUME TypeInv, IdentitiesHold, LinkInv,
           NEW others, NEW who \in Names, NEW door, Insert(others, who, door),
           UNCHANGED identity
    PROVE  /\ IdentitiesHold'
           /\ \A x \in Requests : req'[x].at = "linking" /\ req'[x] = req[x] =>
                /\ req'[x].member \in MemberIds
                /\ member'[req'[x].member].state # "none"
                /\ Live(req[x].member)' => member'[req'[x].member].who = req'[x].who
<1>1. PICK m \in MemberIds : /\ member[m].state = "none"
                             /\ member' = [member EXCEPT ![m] = NewMember(who, door)]
  BY RowInserted
<1>2. \A x \in MemberIds : member[x].state # "none" => member'[x] = member[x]
  BY <1>1 DEF TypeInv, TypeOK
<1>3. IdentitiesHold'
  BY <1>2 DEF IdentitiesHold, Live
<1> QED BY <1>2, <1>3 DEF LinkInv, Live

\* Rows that go take the identities that lead to them along.
LEMMA LinksRemoved ==
    ASSUME TypeInv, IdentitiesHold, LinkInv, NEW M, Remove(M), UNCHANGED req
    PROVE  IdentitiesHold' /\ LinkInv'
<1>1. \A x \in MemberIds : IF x \in M THEN member'[x].state = "gone" ELSE member'[x] = member[x]
  BY Constants DEF Remove, MemberRow
<1>2. \A k \in DOMAIN identity : identity'[k] = IF identity[k] \in M THEN 0 ELSE identity[k]
  BY DEF Remove
<1>3. DOMAIN identity' = DOMAIN identity
  BY DEF Remove
<1>4. IdentitiesHold'
  <2> SUFFICES ASSUME NEW k \in DOMAIN identity', identity'[k] # 0
               PROVE  Live(identity[k])' /\ member'[identity'[k]].who = k[2]
    BY DEF IdentitiesHold
  <2>1. identity[k] \notin M /\ identity'[k] = identity[k]
    BY <1>2, <1>3
  <2> QED BY <1>1, <1>3, <2>1 DEF IdentitiesHold, Live
<1>5. LinkInv'
  BY <1>1 DEF LinkInv, Live
<1> QED BY <1>4, <1>5

LEMMA IdentityStep == TypeInv /\ IdentitiesHold /\ LinkInv /\ [Next]_vars => IdentitiesHold' /\ LinkInv'
<1> DEFINE Inv == IdentitiesHold /\ LinkInv
<1> SUFFICES ASSUME TypeInv, Inv, [Next]_vars PROVE Inv'
  OBVIOUS
<1>1. ASSUME NEW r \in Requests, UNCHANGED <<member, identity>>, req'[r].at # "linking",
             \A x \in Requests \ {r} : req'[x] = req[x]
      PROVE  Inv'
  BY <1>1, LinksKept
<1>2. CASE UNCHANGED <<member, identity, req>>
  BY <1>2, LinksKept
<1>3. ASSUME NEW r \in Requests, req' = [req EXCEPT ![r] = Idle] \/ req[r] = Idle
      PROVE  req' = [req EXCEPT ![r] = Idle] =>
                req'[r].at # "linking" /\ \A x \in Requests \ {r} : req'[x] = req[x]
  BY Constants DEF TypeInv, TypeOK
<1>4. ASSUME NEW r \in Requests, NEW p \in People, Register(r, p) \/ SSOCallback(r, p) PROVE Inv'
  BY <1>1, <1>4, Moved DEF Register, SSOCallback
<1>5. ASSUME NEW r \in Requests, NEW p \in People, Login(r, p) PROVE Inv'
  <2>1. req'[r].at # "linking" /\ \A x \in Requests \ {r} : req'[x] = req[x]
    BY <1>5 DEF Login, TypeInv, TypeOK
  <2> QED BY <1>1, <1>5, <2>1 DEF Login
<1>6. ASSUME NEW r \in Requests, NEW p \in People, NEW s \in States,
             GithubCallback(r, p, s) \/ OAuthCallback(r, p, s)
      PROVE  Inv'
  <2>1. PICK at \in {"asking", "mailing"}, d \in Providers : Callback(r, at, d, p, s)
    BY <1>6 DEF GithubCallback, OAuthCallback
  <2>2. CASE oauth[s] = "fresh"
    BY <1>1, <2>1, <2>2, Moved DEF Callback
  <2>3. CASE oauth[s] # "fresh"
    BY <1>2, <2>1, <2>3 DEF Callback
  <2> QED BY <2>2, <2>3
<1>7. ASSUME NEW r \in Requests, NEW b \in Bots, Provision(r, b) PROVE Inv'
  BY <1>1, <1>7, Moved DEF Provision
<1>8. ASSUME NEW r \in Requests, AskByIdentity(r) \/ AskSSO(r) \/ AskByName(r) PROVE Inv'
  BY <1>1, <1>8, Moved DEF AskByIdentity, AskSSO, AskByName
<1>9. ASSUME NEW r \in Requests, AskByEmail(r) PROVE Inv'
  <2> DEFINE m == GetMemberByEmail(req[r].who)
  <2>1. CASE m = 0
    BY <1>1, <1>9, <2>1, Moved DEF AskByEmail
  <2>2. CASE m # 0
    <3>1. req[r].who \in Names
      BY <1>9 DEF AskByEmail, TypeInv, Named
    <3>2. m \in MemberIds /\ Live(m) /\ member[m].who = req[r].who
      BY <2>2, <3>1, Queries DEF IsFirst
    <3>3. /\ \A x \in Requests \ {r} : req'[x] = req[x]
          /\ req'[r].who = req[r].who /\ req'[r].member = m
      BY <1>9, <2>2, Moved DEF AskByEmail
    <3>4. UNCHANGED <<member, identity>>
      BY <1>9 DEF AskByEmail
    <3>5. IdentitiesHold'
      BY <3>4 DEF IdentitiesHold, Live
    <3>6. LinkInv'
      BY <3>2, <3>3, <3>4 DEF LinkInv, Live
    <3> QED BY <3>5, <3>6
  <2> QED BY <2>1, <2>2
<1>10. ASSUME NEW r \in Requests, Join(r) PROVE Inv'
  <2> DEFINE q == req[r]
             S == {x \in MemberIds : member[x].state = "none"}
  <2>0. q.who \in Names
    BY <1>10 DEF Join, TypeInv, Named
  <2>1. CASE Founds(q.door) \/ office
    <3>1. PICK at : Insert(Requests \ {r}, q.who, q.door) /\ Found(r, First(S), at) /\ UNCHANGED identity
      BY <1>10, <2>1 DEF Join
    <3>2. /\ \A x \in Requests \ {r} : req'[x] = req[x]
          /\ req'[r].who = q.who /\ req'[r].member = First(S)
      BY <3>1, Moved
    <3>3. First(S) \in MemberIds /\ member' = [member EXCEPT ![First(S)] = NewMember(q.who, q.door)]
      BY <2>0, <3>1, RowInserted
    <3>4. member'[First(S)].state = "live" /\ member'[First(S)].who = q.who
      BY <3>3 DEF TypeInv, TypeOK, NewMember
    <3>5. /\ IdentitiesHold'
          /\ \A x \in Requests \ {r} : req'[x].at = "linking" =>
                /\ req'[x].member \in MemberIds
                /\ member'[req'[x].member].state # "none"
                /\ Live(req[x].member)' => member'[req'[x].member].who = req'[x].who
      BY <2>0, <3>1, <3>2, LinksInserted
    <3> QED BY <3>2, <3>3, <3>4, <3>5 DEF LinkInv
  <2>2. CASE ~(Founds(q.door) \/ office)
    BY <1>1, <1>3, <1>10, <2>2 DEF Join
  <2> QED BY <2>1, <2>2
<1>11. ASSUME NEW r \in Requests, Link(r) PROVE Inv'
  <2> DEFINE q == req[r]
  <2>1. q.at = "linking" /\ To(r, "issuing") /\ UNCHANGED member
    BY <1>11 DEF Link
  <2>2. /\ \A x \in Requests \ {r} : req'[x] = req[x]
        /\ req'[r].at = "issuing"
    BY <2>1, Moved
  <2>3. LinkInv'
    BY <2>1, <2>2 DEF LinkInv, Live
  <2>4. CASE identity' = identity
    BY <2>1, <2>3, <2>4 DEF IdentitiesHold, Live
  <2>5. CASE Live(q.member) /\ identity' = [identity EXCEPT ![<<q.door, q.who>>] = q.member]
    <3>1. member[q.member].who = q.who
      BY <2>1, <2>5 DEF LinkInv
    <3>2. DOMAIN identity' = DOMAIN identity
      BY <2>5 DEF TypeInv, TypeOK
    <3>3. \A k \in DOMAIN identity :
             IF k = <<q.door, q.who>> THEN identity'[k] = q.member ELSE identity'[k] = identity[k]
      BY <2>5 DEF TypeInv, TypeOK
    <3>4. IdentitiesHold'
      BY <2>1, <2>5, <3>1, <3>2, <3>3 DEF IdentitiesHold, Live
    <3> QED BY <2>3, <3>4
  <2> QED BY <1>11, <2>4, <2>5 DEF Link
<1>12. ASSUME NEW r \in Requests, Issue(r) \/ Fail(r) PROVE Inv'
  BY <1>1, <1>3, <1>12 DEF Issue, Fail
<1>13. ASSUME NEW s \in States, BeginOAuth(s) \/ Age(s) PROVE Inv'
  BY <1>2, <1>13 DEF BeginOAuth, Age
<1>14. ASSUME NEW t \in Tokens, Authenticate(t) \/ Logout(t) \/ Expire(t) PROVE Inv'
  BY <1>2, <1>14 DEF Authenticate, Logout, Expire
<1>15. ASSUME NEW b \in Bots, CreateMember(b) PROVE Inv'
  <2>1. b \in Names /\ Insert(Requests, b, "member") /\ UNCHANGED <<identity, req>>
    BY <1>15 DEF CreateMember, Names
  <2> QED BY <2>1, LinksInserted DEF LinkInv
<1>16. ASSUME NEW m \in MemberIds, DeleteMember(m) PROVE Inv'
  BY <1>16, LinksRemoved DEF DeleteMember
<1>17. CASE DeleteOffice
  BY <1>17, LinksRemoved DEF DeleteOffice
<1>18. CASE Crash
  BY <1>18, LinksKept, Constants DEF Crash
<1>19. CASE SweepStates \/ ConfigureSSO \/ UNCHANGED vars
  BY <1>2, <1>19 DEF SweepStates, ConfigureSSO, vars
<1> QED BY <1>4, <1>5, <1>6, <1>7, <1>8, <1>9, <1>10, <1>11, <1>12, <1>13, <1>14, <1>15, <1>16,
           <1>17, <1>18, <1>19 DEF Next

\* Every stored identity leads to a member that exists and is the person's own: the
\* foreign key takes identities away with the member, and CreateOAuthIdentity stores one
\* only for the row that was found or made for the same person.
THEOREM IdentitiesCorrect == Spec => []IdentitiesHold
<1>1. Init => IdentitiesHold /\ LinkInv
  BY Constants DEF Init, IdentitiesHold, LinkInv
<1> QED BY <1>1, IdentityStep, TypeInvariant, PTL DEF Spec

-----------------------------------------------------------------------------
\* Doors

\* The rows behind a door are rows, and those that are looked up by name or email live.
LEMMA LeadsToRows ==
    ASSUME NEW d, NEW w
    PROVE  /\ Leads(d, w) \in SUBSET MemberIds
           /\ d # "sso" => \A m \in Leads(d, w) : Live(m)
BY DEF Leads

LEMMA FirstStays ==
    ASSUME NEW S, NEW T, NEW x, IsFirst(x, S), x \in T, \A y \in T \ S : x <= y
    PROVE  IsFirst(x, T)
BY DEF IsFirst

\* A step of one request that leaves rows, identities and history alone.
LEMMA DoorKept ==
    ASSUME DoorInv, NEW r \in Requests, UNCHANGED <<member, identity, home, astray>>,
           \A x \in Requests \ {r} : req'[x] = req[x],
           OnItsWay(req[r])', req'[r].who \notin astray => OnTrack(req[r])'
    PROVE  DoorInv'
<1>1. \A d, w : Leads(d, w)' = Leads(d, w)
  BY DEF Leads, Live
<1>2. \A m : Made(m)' = Made(m) /\ Live(m)' = Live(m)
  BY DEF Made, Live
<1>3. InOrder' /\ Homes' /\ Identities'
  BY <1>1, <1>2 DEF DoorInv, InOrder, Homes, Identities
<1>4. ASSUME NEW x \in Requests, x # r
      PROVE  OnItsWay(req[x])' /\ (req'[x].who \notin astray => OnTrack(req[x])')
  BY <1>1, <1>2, <1>4 DEF DoorInv, Ways, Tracks, OnItsWay, OnTrack
<1>5. Ways' /\ Tracks'
  BY <1>4 DEF Ways, Tracks
<1> QED BY <1>3, <1>5 DEF DoorInv

\* Steps that touch none of it, or only end requests.
LEMMA DoorIdle ==
    ASSUME DoorInv, UNCHANGED <<member, identity, home, astray>>,
           \A x \in Requests : req'[x] = req[x] \/ req'[x] = Idle
    PROVE  DoorInv'
<1>1. \A d, w : Leads(d, w)' = Leads(d, w)
  BY DEF Leads, Live
<1>2. \A m : Made(m)' = Made(m) /\ Live(m)' = Live(m)
  BY DEF Made, Live
<1>3. InOrder' /\ Homes' /\ Identities'
  BY <1>1, <1>2 DEF DoorInv, InOrder, Homes, Identities
<1>4. ASSUME NEW x \in Requests
      PROVE  OnItsWay(req[x])' /\ (req'[x].who \notin astray => OnTrack(req[x])')
  <2>1. CASE req'[x] = req[x]
    BY <1>1, <1>2, <2>1 DEF DoorInv, Ways, Tracks, OnItsWay, OnTrack
  <2>2. CASE req'[x] = Idle
    BY <2>2, Constants DEF OnItsWay, OnTrack
  <2> QED BY <2>1, <2>2
<1>5. Ways' /\ Tracks'
  BY <1>4 DEF Ways, Tracks
<1> QED BY <1>3, <1>5 DEF DoorInv

\* The row m is made for who, by a door: the last row, and behind which doors.
NewRow(m, who, door) ==
    /\ m = First({x \in MemberIds : member[x].state = "none"})
    /\ ~Made(m) /\ Made(m)' /\ Live(m)'
    /\ \A x : x # m => Live(x)' = Live(x) /\ Made(x)' = Made(x)
    /\ \A x \in MemberIds : Made(x) => x <= m
    /\ \A d, w : \/ Leads(d, w)' = Leads(d, w)
                 \/ d # "sso" /\ w = who /\ Leads(d, w)' = Leads(d, w) \cup {m}
    /\ door \in Providers \/ door = "agent" => Leads(door, who)' = Leads(door, who) \cup {m}

\* What an insert does to the rows behind a door.
LEMMA LeadsInserted ==
    ASSUME TypeInv, InOrder, NEW others, NEW who \in Names, NEW door,
           Insert(others, who, door), UNCHANGED identity
    PROVE  InOrder' /\ \E m \in MemberIds : NewRow(m, who, door)
<1>1. PICK m \in MemberIds :
        /\ m = First({x \in MemberIds : member[x].state = "none"})
        /\ member[m].state = "none"
        /\ \A x \in MemberIds : member[x].state = "none" => m <= x
        /\ member' = [member EXCEPT ![m] = NewMember(who, door)]
  BY RowInserted
<1>2. /\ member'[m] = NewMember(who, door)
      /\ \A x \in MemberIds \ {m} : member'[x] = member[x]
  BY <1>1 DEF TypeInv, TypeOK
<1>3. MemberIds \subseteq Nat
  BY AccountsAssumption DEF MemberIds
<1>4. ~Made(m) /\ Made(m)' /\ Live(m)' /\ ~Live(m)
  BY <1>1, <1>2 DEF Made, Live, NewMember
<1>5. \A x : x # m => Live(x)' = Live(x) /\ Made(x)' = Made(x)
  BY <1>2 DEF Made, Live
<1>6. \A x \in MemberIds : Made(x) => x <= m
  BY <1>1, <1>3 DEF Made, InOrder
<1>7. ASSUME NEW d, NEW w
      PROVE  Leads(d, w)' = Leads(d, w) \/ (d # "sso" /\ w = who /\ Leads(d, w)' = Leads(d, w) \cup {m})
  <2>1. CASE d = "sso"
    BY <2>1 DEF Leads
  <2>2. CASE d # "sso" /\ w # who
    <3>1. member'[m].who = who
      BY <1>2 DEF NewMember
    <3>2. CASE d = "agent"
      BY <1>2, <1>4, <1>5, <2>2, <3>1, <3>2 DEF Leads
    <3>3. CASE d # "agent"
      BY <1>2, <1>4, <1>5, <2>2, <3>1, <3>3 DEF Leads
    <3> QED BY <3>2, <3>3
  <2>3. CASE d # "sso" /\ w = who
    BY <1>2, <1>4, <1>5, <2>3 DEF Leads
  <2> QED BY <2>1, <2>2, <2>3
<1>8. ASSUME door \in Providers \/ door = "agent" PROVE Leads(door, who)' = Leads(door, who) \cup {m}
  <2>1. door # "sso"
    BY <1>8, AccountsAssumption
  <2>2. CASE door = "agent"
    BY <1>2, <1>4, <1>5, <2>2, AccountsAssumption DEF Leads, NewMember, Founds
  <2>3. CASE door # "agent"
    <3>1. Founds(door) /\ member'[m].email = Founds(door) /\ member'[m].who = who
      BY <1>2, <1>8, <2>3 DEF NewMember, Founds
    <3> QED BY <1>2, <1>4, <1>5, <2>1, <2>3, <3>1 DEF Leads
  <2> QED BY <2>2, <2>3
<1>9. InOrder'
  <2> SUFFICES ASSUME NEW i \in MemberIds, NEW j \in MemberIds, i < j, member'[i].state = "none"
               PROVE  member'[j].state = "none"
    BY DEF InOrder
  <2>1. i # m /\ member[i].state = "none"
    BY <1>2 DEF NewMember
  <2>2. j # m
    BY <1>1, <1>3, <2>1
  <2> QED BY <1>2, <2>1, <2>2 DEF InOrder
<1> QED BY <1>1, <1>4, <1>5, <1>6, <1>7, <1>8, <1>9 DEF NewRow

\* An insert disturbs nobody who is not led astray by it.
LEMMA DoorInserted ==
    ASSUME TypeInv, DoorInv, NEW others \in SUBSET Requests, NEW who \in Names, NEW door,
           Insert(others, who, door), UNCHANGED <<identity, home>>,
           \A x \in others : req'[x] = req[x]
    PROVE  /\ InOrder' /\ Homes' /\ Identities'
           /\ \A x \in others : OnItsWay(req[x])' /\ (req'[x].who \notin astray' => OnTrack(req[x])')
<1>1. InOrder' /\ \E m \in MemberIds : NewRow(m, who, door)
  BY LeadsInserted DEF DoorInv
<1>a. PICK m \in MemberIds : NewRow(m, who, door)
  BY <1>1
<1>2. astray \subseteq astray' /\ (Overlaps(others, who) => who \in astray')
  BY DEF Insert
<1>3. \A x, d, w : Made(x) /\ IsFirst(x, Leads(d, w)) => IsFirst(x, Leads(d, w))'
  BY <1>a DEF IsFirst, Made, NewRow
<1>4. \A x : Live(x) => Made(x)
  BY DEF Live, Made
<1>5. Homes'
  <2> SUFFICES ASSUME NEW d \in Doors, NEW w \in Names
               PROVE  /\ home[<<d, w>>] # 0 => Made(home[<<d, w>>])'
                      /\ w \notin astray' /\ Live(home[<<d, w>>])' => IsFirst(home[<<d, w>>], Leads(d, w))'
    BY DEF Homes
  <2> DEFINE h == home[<<d, w>>]
  <2>1. /\ h # 0 => Made(h)
        /\ w \notin astray /\ Live(h) => IsFirst(h, Leads(d, w))
    BY DEF DoorInv, Homes
  <2>2. h # 0 => Made(h)'
    BY <1>a, <2>1 DEF NewRow
  <2>3. ASSUME w \notin astray', Live(h)' PROVE IsFirst(h, Leads(d, w))'
    <3>1. h # 0
      BY <2>3, AccountsAssumption DEF Live, MemberIds
    <3>2. Made(h) /\ Live(h)
      BY <1>a, <2>1, <2>3, <3>1 DEF NewRow
    <3> QED BY <1>2, <1>3, <2>1, <2>3, <3>2
  <2> QED BY <2>2, <2>3
<1>6. Identities'
  <2> SUFFICES ASSUME NEW d \in Providers, NEW w \in Names \ astray', identity[<<d, w>>] # 0
               PROVE  IsFirst(identity[<<d, w>>], Leads(d, w))'
    BY DEF Identities
  <2>1. IsFirst(identity[<<d, w>>], Leads(d, w)) /\ d # "sso"
    BY <1>2, AccountsAssumption DEF DoorInv, Identities
  <2>2. Made(identity[<<d, w>>])
    BY <1>4, <2>1, LeadsToRows DEF IsFirst
  <2> QED BY <1>3, <2>1, <2>2
<1>7. ASSUME NEW x \in others
      PROVE  OnItsWay(req[x])' /\ (req'[x].who \notin astray' => OnTrack(req[x])')
  <2> DEFINE q == req[x]
  <2>1. req'[x] = q /\ OnItsWay(q) /\ (q.who \notin astray => OnTrack(q))
    BY DEF DoorInv, Ways, Tracks
  <2>2. OnItsWay(req[x])'
    BY <1>a, <2>1 DEF OnItsWay, NewRow
  <2>3. ASSUME q.who \notin astray' PROVE OnTrack(req[x])'
    <3>1. OnTrack(q) /\ (q.who = who => ~Overlaps(others, who))
      BY <1>2, <2>1, <2>3
    <3>2. ASSUME (q.at = "joining" /\ q.door # "register") \/ (q.at = "linking" /\ q.door = "sso")
          PROVE  Leads(q.door, q.who)' = {}
      <4>1. Leads(q.door, q.who) = {}
        BY <3>1, <3>2 DEF OnTrack
      <4>2. q.who # who \/ q.door = "sso"
        BY <3>1, <3>2 DEF Overlaps
      <4> QED BY <1>a, <4>1, <4>2 DEF NewRow
    <3>3. ASSUME (q.at = "linking" /\ q.door \in Providers) \/ (q.at = "issuing" /\ q.door \in Doors),
                 Live(q.member)'
          PROVE  IsFirst(q.member, Leads(q.door, q.who)')
      <4>1. Made(q.member)
        BY <2>1, <3>3 DEF OnItsWay
      <4>2. Live(q.member)
        BY <1>a, <3>3, <4>1 DEF NewRow
      <4>3. IsFirst(q.member, Leads(q.door, q.who))
        BY <3>1, <3>3, <4>2 DEF OnTrack
      <4> QED BY <1>3, <4>1, <4>3
    <3> QED BY <2>1, <3>2, <3>3 DEF OnTrack, IsFirst
  <2> QED BY <2>2, <2>3
<1> QED BY <1>1, <1>5, <1>6, <1>7

\* Rows that go leave the other rows behind the doors as they are.
LEMMA DoorRemoved ==
    ASSUME TypeInv, DoorInv, NEW M \in SUBSET MemberIds, \A m \in M : Live(m), Remove(M),
           UNCHANGED <<req, astray>>
    PROVE  DoorInv'
<1>1. \A x \in MemberIds : IF x \in M THEN member'[x].state = "gone" ELSE member'[x] = member[x]
  BY Constants DEF Remove, MemberRow
<1>2. 0 \notin M
  BY AccountsAssumption DEF MemberIds
<1>3. \A d \in Doors, w \in Names :
        /\ identity'[<<d, w>>] = IF identity[<<d, w>>] \in M THEN 0 ELSE identity[<<d, w>>]
        /\ home'[<<d, w>>] = IF home[<<d, w>>] \in M THEN 0 ELSE home[<<d, w>>]
  BY DEF Remove, TypeInv, TypeOK
<1>4. \A x : (Made(x) => Made(x)') /\ (Live(x)' <=> Live(x) /\ x \notin M)
  BY <1>1 DEF Made, Live
<1>5. \A d, w : w \in Names => Leads(d, w)' = Leads(d, w) \ M
  <2> TAKE d, w
  <2> HAVE w \in Names
  <2>1. CASE d = "sso"
    <3>1. "sso" \in Doors
      BY DEF Doors
    <3>2. \A x \in MemberIds : identity'[<<"sso", w>>] = x <=> identity[<<"sso", w>>] = x /\ x \notin M
      BY <1>3, <3>1, AccountsAssumption DEF MemberIds
    <3> QED BY <2>1, <3>2 DEF Leads
  <2>2. CASE d = "agent"
    BY <1>1, <1>4, <2>2 DEF Leads
  <2>3. CASE d # "sso" /\ d # "agent"
    BY <1>1, <1>4, <2>3 DEF Leads
  <2> QED BY <2>1, <2>2, <2>3
<1>6. \A x, d, w : w \in Names /\ x \notin M /\ IsFirst(x, Leads(d, w)) => IsFirst(x, Leads(d, w))'
  BY <1>5 DEF IsFirst
<1>7. InOrder'
  <2> SUFFICES ASSUME NEW i \in MemberIds, NEW j \in MemberIds, i < j, member'[i].state = "none"
               PROVE  member'[j].state = "none"
    BY DEF InOrder
  <2>1. i \notin M /\ member[i].state = "none"
    BY <1>1
  <2>2. member[j].state = "none"
    BY <2>1 DEF DoorInv, InOrder
  <2>3. j \notin M
    BY <2>2 DEF Live
  <2> QED BY <1>1, <2>2, <2>3
<1>8. Homes'
  <2> SUFFICES ASSUME NEW d \in Doors, NEW w \in Names
               PROVE  /\ home'[<<d, w>>] # 0 => Made(home[<<d, w>>])'
                      /\ w \notin astray' /\ Live(home[<<d, w>>])' => IsFirst(home[<<d, w>>], Leads(d, w))'
    BY DEF Homes
  <2>1. CASE home[<<d, w>>] \in M
    BY <1>2, <1>3, <2>1, AccountsAssumption DEF Live, MemberIds
  <2>2. CASE home[<<d, w>>] \notin M
    <3>0. PICK h : h = home[<<d, w>>]
      OBVIOUS
    <3>1. home'[<<d, w>>] = h
      BY <1>3, <2>2, <3>0
    <3>2. /\ h # 0 => Made(h)
          /\ w \notin astray /\ Live(h) => IsFirst(h, Leads(d, w))
      BY <3>0 DEF DoorInv, Homes
    <3>3. h # 0 => Made(h)'
      BY <1>4, <3>2
    <3>4. ASSUME w \notin astray, Live(h)' PROVE IsFirst(h, Leads(d, w))'
      BY <1>4, <1>6, <2>2, <3>0, <3>2, <3>4
    <3> QED BY <3>1, <3>3, <3>4 DEF Made, Live, IsFirst
  <2> QED BY <2>1, <2>2
<1>9. Identities'
  <2> SUFFICES ASSUME NEW d \in Providers, NEW w \in Names \ astray, identity'[<<d, w>>] # 0
               PROVE  IsFirst(identity[<<d, w>>], Leads(d, w))'
    BY DEF Identities
  <2>1. identity[<<d, w>>] \notin M /\ identity'[<<d, w>>] = identity[<<d, w>>]
    BY <1>3 DEF Doors
  <2>2. IsFirst(identity[<<d, w>>], Leads(d, w))
    BY <2>1 DEF DoorInv, Identities
  <2>3. IsFirst(identity[<<d, w>>], Leads(d, w)')
    BY <1>5, <2>1, <2>2 DEF IsFirst
  <2> QED BY <2>1, <2>3 DEF IsFirst
<1>10. ASSUME NEW x \in Requests
       PROVE  OnItsWay(req[x])' /\ (req[x].who \notin astray => OnTrack(req[x])')
  <2> DEFINE q == req[x]
  <2>1. OnItsWay(q) /\ (q.who \notin astray => OnTrack(q))
    BY DEF DoorInv, Ways, Tracks
  <2>2. OnItsWay(q)'
    BY <1>4, <2>1 DEF OnItsWay
  <2>3. ASSUME q.who \notin astray PROVE OnTrack(q)'
    <3>1. q.at # "idle" => q.who \in Names
      BY DEF TypeInv, Named
    <3>2. ASSUME (q.at = "joining" /\ q.door # "register") \/ (q.at = "linking" /\ q.door = "sso")
          PROVE  Leads(q.door, q.who)' = {}
      BY <1>5, <2>1, <2>3, <3>1, <3>2 DEF OnTrack
    <3>3. ASSUME (q.at = "linking" /\ q.door \in Providers) \/ (q.at = "issuing" /\ q.door \in Doors),
                 Live(q.member)'
          PROVE  IsFirst(q.member, Leads(q.door, q.who))'
      BY <1>4, <1>6, <2>1, <2>3, <3>1, <3>3 DEF OnTrack
    <3> QED BY <3>2, <3>3 DEF OnTrack
  <2> QED BY <2>2, <2>3
<1>11. Ways' /\ Tracks'
  BY <1>10 DEF Ways, Tracks
<1> QED BY <1>7, <1>8, <1>9, <1>11 DEF DoorInv

\* An identity of a provider leads where the email does, one of single sign-on nowhere
\* that another leads to.
LEMMA DoorLinked ==
    ASSUME TypeInv, DoorInv, NEW r \in Requests, Link(r)
    PROVE  DoorInv'
<1> DEFINE q == req[r]
           m == q.member
<1>1. /\ q.at = "linking" /\ UNCHANGED <<member, home>> /\ q \in Request /\ q.who \in Names
      /\ astray \subseteq astray'
  BY DEF Link, TypeInv, TypeOK, Named
<1>2. /\ \A x \in Requests \ {r} : req'[x] = req[x]
      /\ req'[r].at = "issuing" /\ req'[r].door = q.door /\ req'[r].who = q.who /\ req'[r].member = m
  BY Moved DEF Link
<1>3. OnItsWay(q) /\ (q.who \notin astray => OnTrack(q))
  BY DEF DoorInv, Ways, Tracks
<1>4. \A x : Made(x)' = Made(x) /\ Live(x)' = Live(x)
  BY <1>1 DEF Made, Live
<1>5. q.door \in Doors /\ "sso" \notin Providers
  BY <1>1, <1>3, AccountsAssumption DEF OnItsWay, Doors
<1>6. InOrder'
  BY <1>1 DEF DoorInv, InOrder
<1>7. Ways'
  BY <1>1, <1>2, <1>3, <1>4 DEF DoorInv, Ways, OnItsWay
<1>8. CASE q.door # "sso"
  <2>1. q.door \in Providers /\ astray' = astray
    BY <1>1, <1>3, <1>8 DEF Link, OnItsWay
  <2>2. \A w : w \in Names => identity'[<<"sso", w>>] = identity[<<"sso", w>>]
    BY <1>8 DEF Link, TypeInv, TypeOK, Doors
  <2>3. \A d, w : w \in Names => Leads(d, w)' = Leads(d, w)
    <3> TAKE d, w
    <3> HAVE w \in Names
    <3>1. CASE d = "sso"
      BY <2>2, <3>1 DEF Leads
    <3>2. CASE d # "sso"
      BY <1>1, <1>4, <3>2 DEF Leads
    <3> QED BY <3>1, <3>2
  <2>4. Homes'
    BY <1>1, <1>4, <2>1, <2>3 DEF DoorInv, Homes
  <2>5. Identities'
    <3> SUFFICES ASSUME NEW d \in Providers, NEW w \in Names \ astray, identity'[<<d, w>>] # 0
                 PROVE  IsFirst(identity'[<<d, w>>], Leads(d, w))
      BY <2>1, <2>3 DEF Identities, IsFirst
    <3>1. CASE identity'[<<d, w>>] = identity[<<d, w>>]
      BY <3>1 DEF DoorInv, Identities
    <3>2. CASE identity'[<<d, w>>] # identity[<<d, w>>]
      <4>1. d = q.door /\ w = q.who /\ Live(m) /\ identity'[<<d, w>>] = m
        BY <3>2 DEF Link, TypeInv, TypeOK, Doors
      <4> QED BY <1>1, <1>3, <2>1, <4>1 DEF OnTrack
    <3> QED BY <3>1, <3>2
  <2>6. ASSUME NEW x \in Requests, req'[x].who \notin astray' PROVE OnTrack(req[x])'
    <3>1. CASE x = r
      BY <1>1, <1>2, <1>3, <1>4, <2>1, <2>3, <2>6, <3>1 DEF OnTrack
    <3>2. CASE x # r
      <4>1. OnTrack(req[x]) /\ req'[x] = req[x]
        BY <1>2, <2>1, <2>6, <3>2 DEF DoorInv, Tracks
      <4>2. req[x].at # "idle" => req[x].who \in Names
        BY DEF TypeInv, Named
      <4> QED BY <1>4, <2>3, <4>1, <4>2 DEF OnTrack
    <3> QED BY <3>1, <3>2
  <2> QED BY <1>6, <1>7, <2>4, <2>5, <2>6 DEF DoorInv, Tracks
<1>9. CASE q.door = "sso"
  <2>1. \A d, w : d # "sso" => Leads(d, w)' = Leads(d, w)
    BY <1>1, <1>4 DEF Leads
  <2>2. \A w : w \in Names /\ w # q.who => Leads("sso", w)' = Leads("sso", w)
    <3>1. \A w : w \in Names /\ w # q.who => identity'[<<"sso", w>>] = identity[<<"sso", w>>]
      BY DEF Link, TypeInv, TypeOK, Doors
    <3> QED BY <3>1 DEF Leads
  <2>3. q.who \notin astray' =>
          /\ Leads("sso", q.who) = {} /\ ~Overlaps(Requests \ {r}, q.who)
          /\ Live(m) => IsFirst(m, Leads("sso", q.who)')
    <3> SUFFICES ASSUME q.who \notin astray'
                 PROVE  /\ Leads("sso", q.who) = {} /\ ~Overlaps(Requests \ {r}, q.who)
                        /\ Live(m) => IsFirst(m, Leads("sso", q.who)')
      OBVIOUS
    <3>1. Leads("sso", q.who) = {} /\ ~Overlaps(Requests \ {r}, q.who)
      BY <1>1, <1>3, <1>9 DEF OnTrack, Link
    <3>2. Live(m) => identity' = [identity EXCEPT ![<<"sso", q.who>>] = m]
      BY <1>9 DEF Link
    <3>3. ASSUME Live(m) PROVE IsFirst(m, Leads("sso", q.who)')
      <4>1. identity'[<<"sso", q.who>>] = m
        BY <1>1, <3>2, <3>3 DEF TypeInv, TypeOK, Doors
      <4>2. m \in MemberIds /\ m <= m
        BY <3>3, AccountsAssumption DEF Live, MemberIds
      <4>3. Leads("sso", q.who)' = {x \in MemberIds : x = m}
        BY <1>2, <4>1 DEF Leads
      <4> QED BY <4>2, <4>3 DEF IsFirst
    <3> QED BY <3>1, <3>3
  <2>4. Homes'
    <3> SUFFICES ASSUME NEW d \in Doors, NEW w \in Names
                 PROVE  /\ home[<<d, w>>] # 0 => Made(home[<<d, w>>])
                        /\ w \notin astray' /\ Live(home[<<d, w>>])
                              => IsFirst(home[<<d, w>>], Leads(d, w)')
      BY <1>1, <1>4 DEF Homes, IsFirst
    <3>1. /\ home[<<d, w>>] # 0 => Made(home[<<d, w>>])
          /\ w \notin astray /\ Live(home[<<d, w>>]) => IsFirst(home[<<d, w>>], Leads(d, w))
      BY DEF DoorInv, Homes
    <3>2. CASE d = "sso" /\ w = q.who
      BY <1>1, <2>3, <3>1, <3>2 DEF IsFirst
    <3>3. CASE d # "sso" \/ w # q.who
      BY <1>1, <2>1, <2>2, <3>1, <3>3
    <3> QED BY <3>2, <3>3
  <2>5. Identities'
    <3> SUFFICES ASSUME NEW d \in Providers, NEW w \in Names \ astray', identity'[<<d, w>>] # 0
                 PROVE  IsFirst(identity'[<<d, w>>], Leads(d, w))
      BY <1>5, <2>1 DEF Identities, IsFirst
    <3>1. identity'[<<d, w>>] = identity[<<d, w>>]
      BY <1>5, <1>9 DEF Link, TypeInv, TypeOK, Doors
    <3> QED BY <1>1, <3>1 DEF DoorInv, Identities
  <2>6. ASSUME NEW x \in Requests, req'[x].who \notin astray' PROVE OnTrack(req[x])'
    <3>1. CASE x = r
      BY <1>2, <1>4, <1>9, <2>3, <2>6, <3>1, <1>5 DEF OnTrack, IsFirst
    <3>2. CASE x # r
      <4>1. OnTrack(req[x]) /\ req'[x] = req[x]
        BY <1>1, <1>2, <2>6, <3>2 DEF DoorInv, Tracks
      <4>2. req[x].at # "idle" => req[x].who \in Names
        BY DEF TypeInv, Named
      <4>3. CASE req[x].door = "sso" /\ req[x].who = q.who
        <5>1. ~((req[x].at = "joining" /\ req[x].door # "register") \/ (req[x].at = "linking" /\ req[x].door = "sso"))
          BY <2>3, <2>6, <3>2, <4>1, <4>3 DEF Overlaps
        <5>2. ~(req[x].at = "issuing" /\ Live(req[x].member))
          BY <2>3, <2>6, <1>5, <1>9, <4>1, <4>3 DEF OnTrack, IsFirst
        <5> QED BY <1>4, <1>5, <4>1, <4>3, <5>1, <5>2 DEF OnTrack
      <4>4. CASE ~(req[x].door = "sso" /\ req[x].who = q.who)
        <5>1. req[x].at # "idle" => Leads(req[x].door, req[x].who)' = Leads(req[x].door, req[x].who)
          BY <2>1, <2>2, <4>1, <4>2, <4>4
        <5> QED BY <1>4, <4>1, <5>1 DEF OnTrack
      <4> QED BY <4>3, <4>4
    <3> QED BY <3>1, <3>2
  <2> QED BY <1>6, <1>7, <2>4, <2>5, <2>6 DEF DoorInv, Tracks
<1> QED BY <1>8, <1>9

\* Who answers a request ends at the row that the door led to the last time.
LEMMA DoorIssued ==
    ASSUME TypeInv, DoorInv, NEW r \in Requests, Issue(r)
    PROVE  /\ DoorInv'
           /\ \A k \in DOMAIN home : Live(home[k]) /\ home'[k] # home[k] => k[2] \in astray
<1> DEFINE q == req[r]
           k0 == <<q.door, q.who>>
<1>1. q.at = "issuing" /\ UNCHANGED <<member, identity, astray>> /\ q \in Request /\ q.who \in Names
  BY DEF Issue, TypeInv, TypeOK, Named
<1>2. \A x \in Requests : req'[x] = req[x] \/ req'[x] = Idle
  BY DEF Issue, TypeInv, TypeOK
<1>3. OnItsWay(q) /\ (q.who \notin astray => OnTrack(q))
  BY DEF DoorInv, Ways, Tracks
<1>4. CASE home' = home
  BY <1>1, <1>2, <1>4, DoorIdle
<1>5. CASE /\ q.door \in Doors /\ q.who \notin astray /\ Live(q.member)
           /\ home' = [home EXCEPT ![k0] = q.member]
  <2>1. IsFirst(q.member, Leads(q.door, q.who)) /\ Made(q.member)
    BY <1>1, <1>3, <1>5 DEF OnTrack, OnItsWay
  <2>2. \A d, w : Leads(d, w)' = Leads(d, w)
    BY <1>1 DEF Leads, Live
  <2>3. \A m : Made(m)' = Made(m) /\ Live(m)' = Live(m)
    BY <1>1 DEF Made, Live
  <2>4. \A d \in Doors, w \in Names :
           home'[<<d, w>>] = IF d = q.door /\ w = q.who THEN q.member ELSE home[<<d, w>>]
    BY <1>5 DEF TypeInv, TypeOK
  <2>5. Homes'
    <3> SUFFICES ASSUME NEW d \in Doors, NEW w \in Names
                 PROVE  /\ home'[<<d, w>>] # 0 => Made(home'[<<d, w>>])
                        /\ w \notin astray /\ Live(home'[<<d, w>>])
                              => IsFirst(home'[<<d, w>>], Leads(d, w))
      BY <1>1, <2>2, <2>3 DEF Homes
    <3>1. CASE d = q.door /\ w = q.who
      BY <2>1, <2>4, <3>1
    <3>2. CASE ~(d = q.door /\ w = q.who)
      BY <2>4, <3>2 DEF DoorInv, Homes
    <3> QED BY <3>1, <3>2
  <2>6. InOrder' /\ Identities'
    BY <1>1, <2>2 DEF DoorInv, InOrder, Identities
  <2>7. ASSUME NEW x \in Requests
        PROVE  OnItsWay(req[x])' /\ (req'[x].who \notin astray => OnTrack(req[x])')
    <3>1. CASE req'[x] = req[x]
      BY <2>2, <2>3, <3>1 DEF DoorInv, Ways, Tracks, OnItsWay, OnTrack
    <3>2. CASE req'[x] = Idle
      BY <3>2, Constants DEF OnItsWay, OnTrack
    <3> QED BY <1>2, <3>1, <3>2
  <2>8. Ways' /\ Tracks'
    BY <1>1, <2>7 DEF Ways, Tracks
  <2>9. ASSUME NEW k \in DOMAIN home, Live(home[k]), home'[k] # home[k] PROVE k[2] \in astray
    <3>1. PICK d \in Doors, w \in Names : k = <<d, w>>
      BY DEF TypeInv, TypeOK
    <3>2. d = q.door /\ w = q.who /\ home'[k] = q.member
      BY <2>4, <2>9, <3>1
    <3>3. IsFirst(home[k], Leads(d, w))
      BY <1>5, <2>9, <3>1, <3>2 DEF DoorInv, Homes
    <3> QED BY <2>1, <2>9, <3>2, <3>3, OneFirst, LeadsToRows
  <2> QED BY <2>5, <2>6, <2>8, <2>9 DEF DoorInv
<1> QED BY <1>4, <1>5 DEF Issue

LEMMA DoorStep == TypeInv /\ IdentitiesHold /\ DoorInv /\ [Next]_vars => DoorInv'
<1> SUFFICES ASSUME TypeInv, IdentitiesHold, DoorInv, [Next]_vars PROVE DoorInv'
  OBVIOUS
<1>1. ASSUME NEW r \in Requests, UNCHANGED <<member, identity, home, astray>>,
             \A x \in Requests \ {r} : req'[x] = req[x],
             req'[r].at = "asking" \/ (req'[r].at = "mailing" /\ req'[r].door \in Providers)
                \/ (req'[r].at = "joining" /\ req'[r].door = "register")
      PROVE  DoorInv'
  BY <1>1, DoorKept DEF OnItsWay, OnTrack
<1>2. CASE /\ UNCHANGED <<member, identity, home, astray>>
           /\ \A x \in Requests : req'[x] = req[x] \/ req'[x] = Idle
  BY <1>2, DoorIdle
<1>3. CASE UNCHANGED <<member, identity, home, astray, req>>
  BY <1>3, DoorIdle
<1>4. ASSUME NEW r \in Requests, req' = [req EXCEPT ![r] = Idle]
      PROVE  \A x \in Requests : req'[x] = req[x] \/ req'[x] = Idle
  BY <1>4 DEF TypeInv, TypeOK
\* A request finds the first of the rows behind its door.
<1>5. ASSUME NEW r \in Requests, UNCHANGED <<member, identity, home, astray>>,
             \A x \in Requests \ {r} : req'[x] = req[x],
             req'[r].at \in {"linking", "issuing"},
             req'[r].at = "linking" => req'[r].door \in Providers,
             req'[r].who \notin astray => IsFirst(req'[r].member, Leads(req'[r].door, req'[r].who)),
             Made(req'[r].member)
      PROVE  DoorInv'
  <2>1. \A d, w : Leads(d, w)' = Leads(d, w)
    BY <1>5 DEF Leads, Live
  <2>2. OnItsWay(req[r])'
    BY <1>5 DEF OnItsWay, Made
  <2>3. req'[r].who \notin astray => OnTrack(req[r])'
    BY <1>5, <2>1, AccountsAssumption DEF OnTrack, IsFirst
  <2> QED BY <1>5, <2>2, <2>3, DoorKept
\* It finds none and goes on to make one.
<1>6. ASSUME NEW r \in Requests, UNCHANGED <<member, identity, home, astray>>,
             \A x \in Requests \ {r} : req'[x] = req[x],
             req'[r].at = "joining", req'[r].door \in Providers \cup {"sso", "agent"},
             Leads(req'[r].door, req'[r].who) = {}
      PROVE  DoorInv'
  <2>1. \A d, w : Leads(d, w)' = Leads(d, w)
    BY <1>6 DEF Leads, Live
  <2> QED BY <1>6, <2>1, DoorKept DEF OnItsWay, OnTrack
<1>7. ASSUME NEW r \in Requests, NEW p \in People, Register(r, p) \/ SSOCallback(r, p) PROVE DoorInv'
  BY <1>1, <1>7, Moved DEF Register, SSOCallback
<1>8. ASSUME NEW r \in Requests, NEW p \in People, Login(r, p) PROVE DoorInv'
  <2> DEFINE m == GetMemberByEmail(p)
  <2>1. p \in Names /\ m # 0 /\ UNCHANGED <<member, identity, home, astray>>
    BY <1>8 DEF Login, Names
  <2>2. IsFirst(m, Leads("login", p))
    BY <2>1, Queries DEF Leads
  <2>3. Made(m)
    BY <2>2, LeadsToRows DEF IsFirst, Made, Live
  <2>4. /\ \A x \in Requests \ {r} : req'[x] = req[x]
        /\ req'[r] = [at |-> "issuing", door |-> "login", who |-> p, member |-> m]
    BY <1>8 DEF Login, TypeInv, TypeOK
  <2> QED BY <1>5, <2>1, <2>2, <2>3, <2>4
<1>9. ASSUME NEW r \in Requests, NEW p \in People, NEW s \in States,
             GithubCallback(r, p, s) \/ OAuthCallback(r, p, s)
      PROVE  DoorInv'
  <2>1. PICK at \in {"asking", "mailing"}, d \in Providers : Callback(r, at, d, p, s)
    BY <1>9 DEF GithubCallback, OAuthCallback
  <2>2. CASE oauth[s] = "fresh"
    BY <1>1, <2>1, <2>2, Moved DEF Callback
  <2>3. CASE oauth[s] # "fresh"
    BY <1>3, <2>1, <2>3 DEF Callback
  <2> QED BY <2>2, <2>3
<1>10. ASSUME NEW r \in Requests, NEW b \in Bots, Provision(r, b) PROVE DoorInv'
  BY <1>1, <1>10, Moved DEF Provision
<1>11. ASSUME NEW r \in Requests, AskByIdentity(r) PROVE DoorInv'
  <2> DEFINE q == req[r]
             m == identity[<<q.door, q.who>>]
  <2>1. /\ q.who \in Names /\ q.door \in Providers
        /\ UNCHANGED <<member, identity, home, astray>>
    BY <1>11 DEF AskByIdentity, TypeInv, Named
  <2>2. CASE m = 0
    BY <1>1, <1>11, <2>1, <2>2, Moved DEF AskByIdentity
  <2>3. CASE m # 0
    <3>1. /\ \A x \in Requests \ {r} : req'[x] = req[x]
          /\ req'[r].at = "issuing" /\ req'[r].door = q.door /\ req'[r].who = q.who /\ req'[r].member = m
      BY <1>11, <2>3, Moved DEF AskByIdentity
    <3>2. Made(m)
      BY <2>1, <2>3 DEF IdentitiesHold, TypeInv, TypeOK, Doors, Live, Made
    <3>3. q.who \notin astray => IsFirst(m, Leads(q.door, q.who))
      BY <2>1, <2>3 DEF DoorInv, Identities
    <3> QED BY <1>5, <2>1, <3>1, <3>2, <3>3
  <2> QED BY <2>2, <2>3
<1>12. ASSUME NEW r \in Requests, AskSSO(r) PROVE DoorInv'
  <2> DEFINE q == req[r]
             m == identity[<<"sso", q.who>>]
  <2>1. /\ q.who \in Names /\ q.door = "sso" /\ m \in 0..MaxMembers
        /\ UNCHANGED <<member, identity, home, astray>>
    BY <1>12 DEF AskSSO, TypeInv, TypeOK, Named, Doors
  <2>2. CASE m = 0
    <3>1. /\ \A x \in Requests \ {r} : req'[x] = req[x]
          /\ req'[r].at = "joining" /\ req'[r].door = q.door /\ req'[r].who = q.who
      BY <1>12, <2>2, Moved DEF AskSSO
    <3>2. Leads("sso", q.who) = {}
      BY <2>2, AccountsAssumption DEF Leads, MemberIds
    <3> QED BY <1>6, <2>1, <3>1, <3>2
  <2>3. CASE m # 0
    <3>1. /\ \A x \in Requests \ {r} : req'[x] = req[x]
          /\ req'[r].at = "issuing" /\ req'[r].door = q.door /\ req'[r].who = q.who /\ req'[r].member = m
      BY <1>12, <2>3, Moved DEF AskSSO
    <3>2. Made(m)
      BY <2>1, <2>3 DEF IdentitiesHold, TypeInv, TypeOK, Doors, Live, Made
    <3>3. Leads("sso", q.who) = {x \in MemberIds : x = m}
      BY DEF Leads
    <3>4. IsFirst(m, Leads("sso", q.who))
      BY <3>2, <3>3, AccountsAssumption DEF IsFirst, Made, MemberIds
    <3> QED BY <1>5, <2>1, <3>1, <3>2, <3>4
  <2> QED BY <2>2, <2>3
<1>13. ASSUME NEW r \in Requests, AskByName(r) PROVE DoorInv'
  <2> DEFINE q == req[r]
             m == GetMemberByName(q.who)
  <2>1. /\ q.who \in Names /\ q.door = "agent"
        /\ UNCHANGED <<member, identity, home, astray>>
    BY <1>13 DEF AskByName, TypeInv, Named
  <2>2. m # 0 => IsFirst(m, Leads("agent", q.who))
    BY <2>1, Queries DEF Leads
  <2>3. m = 0 => Leads("agent", q.who) = {}
    BY FirstOfRows DEF Leads, GetMemberByName
  <2>4. CASE m = 0
    <3>1. /\ \A x \in Requests \ {r} : req'[x] = req[x]
          /\ req'[r].at = "joining" /\ req'[r].door = q.door /\ req'[r].who = q.who
      BY <1>13, <2>4, Moved DEF AskByName
    <3> QED BY <1>6, <2>1, <2>3, <2>4, <3>1
  <2>5. CASE m # 0
    <3>1. /\ \A x \in Requests \ {r} : req'[x] = req[x]
          /\ req'[r].at = "issuing" /\ req'[r].door = q.door /\ req'[r].who = q.who /\ req'[r].member = m
      BY <1>13, <2>5, Moved DEF AskByName
    <3>2. Made(m)
      BY <2>2, <2>5, LeadsToRows DEF IsFirst, Made, Live
    <3> QED BY <1>5, <2>1, <2>2, <2>5, <3>1, <3>2
  <2> QED BY <2>4, <2>5
<1>14. ASSUME NEW r \in Requests, AskByEmail(r) PROVE DoorInv'
  <2> DEFINE q == req[r]
             m == GetMemberByEmail(q.who)
  <2>1. /\ q.who \in Names /\ q.door \in Providers /\ q.door # "sso" /\ q.door # "agent"
        /\ UNCHANGED <<member, identity, home, astray>>
    BY <1>14, AccountsAssumption DEF AskByEmail, TypeInv, Named, DoorInv, Ways, OnItsWay
  <2>2. m # 0 => IsFirst(m, Leads(q.door, q.who))
    BY <2>1, Queries DEF Leads
  <2>3. m = 0 => Leads(q.door, q.who) = {}
    BY <2>1, FirstOfRows DEF Leads, GetMemberByEmail
  <2>4. CASE m = 0
    <3>1. /\ \A x \in Requests \ {r} : req'[x] = req[x]
          /\ req'[r].at = "joining" /\ req'[r].door = q.door /\ req'[r].who = q.who
      BY <1>14, <2>4, Moved DEF AskByEmail
    <3> QED BY <1>6, <2>1, <2>3, <2>4, <3>1
  <2>5. CASE m # 0
    <3>1. /\ \A x \in Requests \ {r} : req'[x] = req[x]
          /\ req'[r].at \in {"linking", "issuing"}
          /\ req'[r].door = q.door /\ req'[r].who = q.who /\ req'[r].member = m
      BY <1>14, <2>5, Moved DEF AskByEmail
    <3>2. Made(m)
      BY <2>1, <2>2, <2>5, LeadsToRows DEF IsFirst, Made, Live
    <3> QED BY <1>5, <2>1, <2>2, <2>5, <3>1, <3>2
  <2> QED BY <2>4, <2>5
<1>15. ASSUME NEW r \in Requests, Join(r) PROVE DoorInv'
  <2> DEFINE q == req[r]
             m0 == First({x \in MemberIds : member[x].state = "none"})
             at == IF q.door \in {"google", "microsoft", "sso"} THEN "linking" ELSE "issuing"
  <2>1. /\ q.at = "joining" /\ q.who \in Names /\ UNCHANGED <<identity, home>>
        /\ q.door \in Providers \cup {"register", "sso", "agent"}
    BY <1>15 DEF Join, TypeInv, Named, DoorInv, Ways, OnItsWay
  <2>2. CASE Founds(q.door) \/ office
    <3>1. Insert(Requests \ {r}, q.who, q.door) /\ Found(r, m0, at)
      BY <1>15, <2>2 DEF Join
    <3>2. /\ \A x \in Requests \ {r} : req'[x] = req[x]
          /\ req'[r].at = at /\ req'[r].door = q.door /\ req'[r].who = q.who /\ req'[r].member = m0
      BY <3>1, Moved
    <3>3. /\ InOrder' /\ Homes' /\ Identities'
          /\ \A x \in Requests \ {r} : OnItsWay(req[x])' /\ (req'[x].who \notin astray' => OnTrack(req[x])')
      BY <2>1, <3>1, <3>2, DoorInserted
    <3>4. PICK d, w : d = q.door /\ w = q.who
      OBVIOUS
    <3>5. PICK m \in MemberIds : NewRow(m, w, d)
      BY <2>1, <3>1, <3>4, LeadsInserted DEF DoorInv
    <3>a. /\ Made(m)' /\ Live(m)'
          /\ req'[r].at = at /\ req'[r].door = d /\ req'[r].who = w /\ req'[r].member = m
      BY <3>2, <3>4, <3>5 DEF NewRow
    <3>6. OnItsWay(req[r])'
      BY <2>1, <3>4, <3>a, AccountsAssumption DEF OnItsWay, Made
    <3>7. ASSUME req'[r].who \notin astray' PROVE OnTrack(req[r])'
      <4>1. w \notin astray
        BY <3>1, <3>a, <3>7 DEF Insert
      <4>2. d # "register" => Leads(d, w) = {}
        BY <2>1, <3>4, <4>1 DEF DoorInv, Tracks, OnTrack
      <4>3. CASE d = "register"
        BY <3>4, <3>a, <4>3, AccountsAssumption DEF OnTrack, Doors
      <4>4. CASE d = "sso"
        <5>1. Leads(d, w)' = {}
          BY <3>5, <4>2, <4>4 DEF NewRow
        <5> QED BY <3>4, <3>a, <4>4, <5>1, AccountsAssumption DEF OnTrack
      <4>5. CASE d \in Providers \/ d = "agent"
        <5>1. Leads(d, w)' = {m}
          BY <3>5, <4>2, <4>5, AccountsAssumption DEF NewRow
        <5>2. IsFirst(m, {m})
          BY AccountsAssumption DEF IsFirst, MemberIds
        <5> QED BY <3>4, <3>a, <4>5, <5>1, <5>2, AccountsAssumption DEF OnTrack, IsFirst
      <4> QED BY <2>1, <3>4, <4>3, <4>4, <4>5
    <3>8. Ways' /\ Tracks'
      BY <3>3, <3>6, <3>7 DEF Ways, Tracks
    <3> QED BY <3>3, <3>8 DEF DoorInv
  <2>3. CASE ~(Founds(q.door) \/ office)
    BY <1>2, <1>4, <1>15, <2>3 DEF Join
  <2> QED BY <2>2, <2>3
<1>16. ASSUME NEW r \in Requests, Fail(r) PROVE DoorInv'
  BY <1>2, <1>4, <1>16 DEF Fail
<1>17. ASSUME NEW s \in States, BeginOAuth(s) \/ Age(s) PROVE DoorInv'
  BY <1>3, <1>17 DEF BeginOAuth, Age
<1>18. ASSUME NEW t \in Tokens, Authenticate(t) \/ Logout(t) \/ Expire(t) PROVE DoorInv'
  BY <1>3, <1>18 DEF Authenticate, Logout, Expire
<1>19. ASSUME NEW b \in Bots, CreateMember(b) PROVE DoorInv'
  <2>1. b \in Names /\ Insert(Requests, b, "member") /\ UNCHANGED <<identity, home, req>>
    BY <1>19 DEF CreateMember, Names
  <2>2. /\ InOrder' /\ Homes' /\ Identities'
        /\ \A x \in Requests : OnItsWay(req[x])' /\ (req'[x].who \notin astray' => OnTrack(req[x])')
    BY <2>1, DoorInserted
  <2> QED BY <2>2 DEF DoorInv, Ways, Tracks
<1>20. ASSUME NEW m \in MemberIds, DeleteMember(m) PROVE DoorInv'
  BY <1>20, DoorRemoved DEF DeleteMember
<1>21. CASE DeleteOffice
  <2> DEFINE M == {m \in MemberIds : Live(m) /\ member[m].ws = "office"}
  <2>1. M \in SUBSET MemberIds /\ \A m \in M : Live(m)
    OBVIOUS
  <2>2. Remove(M) /\ UNCHANGED <<req, astray>>
    BY <1>21 DEF DeleteOffice
  <2> QED BY <2>1, <2>2, DoorRemoved
<1>22. CASE Crash
  BY <1>2, <1>22 DEF Crash
<1>23. CASE SweepStates \/ ConfigureSSO \/ UNCHANGED vars
  BY <1>3, <1>23 DEF SweepStates, ConfigureSSO, vars
<1> QED BY <1>7, <1>8, <1>9, <1>10, <1>11, <1>12, <1>13, <1>14, <1>15, <1>16, <1>17, <1>18, <1>19,
           <1>20, <1>21, <1>22, <1>23, DoorLinked, DoorIssued DEF Next

\* A step changes where a door has led to only with the row, or for somebody astray.
LEMMA HomeStep ==
    ASSUME TypeInv, DoorInv, [Next]_vars
    PROVE  \A k \in DOMAIN home :
              Live(home[k]) /\ home'[k] # home[k] /\ home'[k] # 0 => k[2] \in astray'
<1> DEFINE Prop == \A k \in DOMAIN home :
                      Live(home[k]) /\ home'[k] # home[k] /\ home'[k] # 0 => k[2] \in astray'
<1>1. ASSUME NEW r \in Requests, Issue(r) PROVE Prop
  BY <1>1, DoorIssued DEF Issue
<1>2. ASSUME NEW M, Remove(M) PROVE Prop
  BY <1>2 DEF Remove
<1>3. CASE UNCHANGED home
  BY <1>3
<1>4. ASSUME NEW r \in Requests,
             \/ \E p \in People :
                  \/ Register(r, p) \/ Login(r, p) \/ SSOCallback(r, p)
                  \/ \E s \in States : GithubCallback(r, p, s) \/ OAuthCallback(r, p, s)
             \/ \E b \in Bots : Provision(r, b)
      PROVE  Prop
  BY <1>3, <1>4 DEF Register, Login, SSOCallback, GithubCallback, OAuthCallback, Callback, Provision
<1>5. ASSUME NEW r \in Requests,
             \/ AskByIdentity(r) \/ AskSSO(r) \/ AskByName(r) \/ AskByEmail(r)
             \/ Join(r) \/ Link(r) \/ Fail(r)
      PROVE  Prop
  BY <1>3, <1>5 DEF AskByIdentity, AskSSO, AskByName, AskByEmail, Join, Link, Fail
<1>6. CASE \/ \E s \in States : BeginOAuth(s) \/ Age(s)
           \/ \E t \in Tokens : Authenticate(t) \/ Logout(t) \/ Expire(t)
           \/ \E b \in Bots : CreateMember(b)
  BY <1>3, <1>6 DEF BeginOAuth, Age, Authenticate, Logout, Expire, CreateMember
<1>7. CASE SweepStates \/ ConfigureSSO \/ Crash \/ UNCHANGED vars
  BY <1>3, <1>7 DEF SweepStates, ConfigureSSO, Crash, vars
<1>8. CASE DeleteOffice \/ \E m \in MemberIds : DeleteMember(m)
  BY <1>2, <1>8 DEF DeleteOffice, DeleteMember
<1> QED BY <1>1, <1>4, <1>5, <1>6, <1>7, <1>8 DEF Next

\* A door leads a person to the account that it led to the last time, as long as that
\* account exists, whatever accounts of the same email, name or identity are made and
\* removed and in whatever order the statements of the requests run, but for those
\* whose account-making requests overlapped or whose SSO identity was lost
\* (handlers_auth.go, handlers_sso.go, handlers_member.go).
THEOREM DoorsLeadHome == Spec => SameDoor
<1>1. Init => IdentitiesHold /\ LinkInv
  BY Constants DEF Init, IdentitiesHold, LinkInv
<1>2. Init => DoorInv
  <2> SUFFICES ASSUME Init PROVE DoorInv
    OBVIOUS
  <2>1. InOrder /\ Ways /\ Tracks
    BY Constants DEF Init, InOrder, Ways, Tracks, OnItsWay, OnTrack
  <2>2. Homes /\ Identities
    BY AccountsAssumption DEF Init, Homes, Identities, Live, MemberIds, Doors
  <2> QED BY <2>1, <2>2 DEF DoorInv
<1>3. TypeInv /\ DoorInv /\ [Next]_vars =>
        [\A k \in DOMAIN home :
            Live(home[k]) /\ home'[k] # home[k] /\ home'[k] # 0 => k[2] \in astray']_vars
  BY HomeStep
<1> QED BY <1>1, <1>2, <1>3, IdentityStep, DoorStep, TypeInvariant, PTL DEF Spec, SameDoor

=============================================================================
