------------------------------ MODULE Accounts ------------------------------
(***************************************************************************)
(* Accounts and the doors that lead to them: registration and login, the   *)
(* OAuth callbacks (api/handlers_auth.go), single sign-on                  *)
(* (api/handlers_sso.go), provisioning of agents (api/handlers_member.go), *)
(* the tokens these give out (websocket/auth.go, api/router.go), and the   *)
(* removal of members and workspaces.                                      *)
(*                                                                         *)
(* A handler is a request that looks an account up, finds none and makes   *)
(* one, in several statements; nothing holds the statements together, and  *)
(* members has no unique index on email or name.  A person has one email   *)
(* address, one password and one id at each provider.                      *)
(***************************************************************************)
EXTENDS Integers, FiniteSets, FiniteSetsExt

CONSTANTS
    People,      \* the people who sign in
    Bots,        \* the names of agents
    NoOne,       \* neither
    Providers,   \* the configured OAuth providers
    Requests,    \* the requests that run at the same time
    States,      \* places for OAuth states
    Tokens,      \* places for JWTs
    MaxMembers   \* bound: members ever made

ASSUME AccountsAssumption ==
    /\ People \cap Bots = {} /\ NoOne \notin People \cup Bots
    /\ Providers \subseteq {"github", "google", "microsoft"}
    /\ States \cap Tokens = {}
    /\ MaxMembers \in Nat \ {0}

VARIABLES
    office,    \* the workspace of the agents and of single sign-on exists
    member,    \* the rows of members, in the order of their creation
    identity,  \* oauth_identities: the member of a person at a provider, or 0
    sso,       \* the row of sso_providers of that workspace
    oauth,     \* oauthStateStore, in memory
    token,     \* the tokens given out, and token_blacklist
    req,       \* the requests, with their locals
    home,      \* history: the member that a door led to the last time, or 0; not
               \* followed for the names in astray
    astray,    \* history: for whom account-making requests overlapped, or an SSO
               \* identity was lost
    spent,     \* history: the states and tokens that must not be accepted: not given
               \* out, used, too old, signed out
    kept,      \* history: the tokens signed out that BlacklistToken failed to store,
               \* until they expire
    again      \* history: what was accepted although spent and not kept

vars == <<office, member, identity, sso, oauth, token, req,
          home, astray, spent, kept, again>>

-----------------------------------------------------------------------------

Names == People \cup Bots

MemberIds == 1..MaxMembers

Doors == Providers \cup {"login", "sso", "agent"}

MemberRow == [state : {"none", "live", "gone"}, who : Names \cup {NoOne},
              ws : {"office", "own"},  \* the office, or one founded for the member
              email : BOOLEAN, password : BOOLEAN, role : {"user", "owner"}]

NoRow == [state |-> "none", who |-> NoOne, ws |-> "own",
          email |-> FALSE, password |-> FALSE, role |-> "user"]

Request == [at : {"idle",
                  "asking",    \* GetOAuthIdentity and GetMember, or GetMemberByName,
                               \* once the provider has said who it is
                  "mailing",   \* GetMemberByEmail
                  "joining",   \* CreateWorkspace, if it founds one, and CreateMember
                  "linking",   \* CreateOAuthIdentity
                  "issuing"},  \* GenerateToken and the answer
            door : Doors \cup {"register"}, who : Names \cup {NoOne},
            member : 0..MaxMembers]

Idle == [at |-> "idle", door |-> "register", who |-> NoOne, member |-> 0]

Token == [member : 0..MaxMembers, blacklisted : BOOLEAN]

NoToken == [member |-> 0, blacklisted |-> FALSE]

TypeOK ==
    /\ office \in BOOLEAN
    /\ member \in [MemberIds -> MemberRow]
    /\ identity \in [Doors \X Names -> 0..MaxMembers]
    /\ sso \in {"none", "stored", "gone"}
    /\ oauth \in [States -> {"none", "fresh", "old"}]
    /\ token \in [Tokens -> Token]
    /\ req \in [Requests -> Request]
    /\ home \in [Doors \X Names -> 0..MaxMembers]
    /\ astray \subseteq Names
    /\ spent \subseteq States \cup Tokens
    /\ kept \subseteq Tokens
    /\ again \subseteq States \cup Tokens

Init ==
    /\ office = TRUE
    /\ member = [m \in MemberIds |-> NoRow]
    /\ identity = [k \in Doors \X Names |-> 0]
    /\ sso = "none"
    /\ oauth = [s \in States |-> "none"]
    /\ token = [t \in Tokens |-> NoToken]
    /\ req = [r \in Requests |-> Idle]
    /\ home = [k \in Doors \X Names |-> 0]
    /\ astray = {} /\ spent = States \cup Tokens /\ kept = {} /\ again = {}

Live(m) == m \in MemberIds /\ member[m].state = "live"

-----------------------------------------------------------------------------
\* Helpers of the handlers

Begin(r, at, door, who) ==
    /\ req[r].at = "idle"
    /\ req' = [req EXCEPT ![r] = [at |-> at, door |-> door, who |-> who, member |-> 0]]

To(r, at) == req' = [req EXCEPT ![r].at = at]

Found(r, m, at) == req' = [req EXCEPT ![r].at = at, ![r].member = m]

\* QueryRow: the first row in the order of the table, or none.
First(S) == IF S = {} THEN 0 ELSE Min(S)

\* Mutant: the newest row is taken.
ByEmailNewest(who) ==
    LET S == {m \in MemberIds : Live(m) /\ member[m].email /\ member[m].who = who}
    IN  IF S = {} THEN 0 ELSE Max(S)

GetMemberByEmail(who) ==
    First({m \in MemberIds : Live(m) /\ member[m].email /\ member[m].who = who})

GetMemberByName(who) ==
    First({m \in MemberIds : Live(m) /\ member[m].ws = "office" /\ member[m].who = who})

\* Other requests are about to make an account for who as well.
Overlaps(others, who) ==
    \E q \in others : /\ req[q].who = who /\ req[q].door # "register"
                      /\ \/ req[q].at = "joining"
                         \/ req[q].at = "linking" /\ req[q].door = "sso"

\* A new person is given a workspace; SSO, agents and plain members join the office.
Founds(door) == door \in Providers \cup {"register"}

\* Mutant: the role is stored as it is given, empty.
NewMemberRoleless(who, door) ==
    [state |-> "live", who |-> who, ws |-> IF Founds(door) THEN "own" ELSE "office",
     email |-> Founds(door),
     password |-> door = "register",
     role |-> IF door = "register" THEN "owner" ELSE ""]

\* CreateMember: only registration names a role, the others get the default.
NewMember(who, door) ==
    [state |-> "live", who |-> who, ws |-> IF Founds(door) THEN "own" ELSE "office",
     email |-> Founds(door),
     password |-> door = "register",
     role |-> IF door = "register" THEN "owner" ELSE "user"]

\* INSERT INTO members
Insert(others, who, door) ==
    \E m \in MemberIds :
        /\ m = First({x \in MemberIds : member[x].state = "none"})
        /\ member' = [member EXCEPT ![m] = NewMember(who, door)]
        /\ astray' = IF Overlaps(others, who) THEN astray \cup {who} ELSE astray

\* Mutant: the identities of a removed member stay.
RemoveKeepingIdentities(M) ==
    /\ member' = [m \in MemberIds |-> IF m \in M THEN [NoRow EXCEPT !.state = "gone"] ELSE member[m]]
    /\ home' = [k \in DOMAIN home |-> IF home[k] \in M THEN 0 ELSE home[k]]
    /\ UNCHANGED identity

\* Rows of members go, with their identities (ON DELETE CASCADE).
Remove(M) ==
    /\ member' = [m \in MemberIds |-> IF m \in M THEN [NoRow EXCEPT !.state = "gone"] ELSE member[m]]
    /\ identity' = [k \in DOMAIN identity |-> IF identity[k] \in M THEN 0 ELSE identity[k]]
    /\ home' = [k \in DOMAIN home |-> IF home[k] \in M THEN 0 ELSE home[k]]

-----------------------------------------------------------------------------
\* OAuth states

\* handleGithubLogin, handleGoogleLogin, handleMicrosoftLogin
BeginOAuth(s) ==
    /\ oauth[s] = "none"
    /\ oauth' = [oauth EXCEPT ![s] = "fresh"]
    /\ spent' = spent \ {s}
    /\ UNCHANGED <<office, member, identity, sso, token, req, home, astray, kept, again>>

\* Ten minutes pass.
Age(s) ==
    /\ oauth[s] = "fresh"
    /\ oauth' = [oauth EXCEPT ![s] = "old"]
    /\ spent' = spent \cup {s}
    /\ UNCHANGED <<office, member, identity, sso, token, req, home, astray, kept, again>>

\* The goroutine of init
SweepStates ==
    /\ oauth' = [s \in States |-> IF oauth[s] = "old" THEN "none" ELSE oauth[s]]
    /\ UNCHANGED <<office, member, identity, sso, token, req, home, astray, spent, kept, again>>

\* Mutant: the state is read but not deleted.
TakeStateKeeping(s) ==
    /\ spent' = spent \cup {s}
    /\ again' = IF oauth[s] = "fresh" THEN again \cup ({s} \cap spent) ELSE again
    /\ UNCHANGED oauth

\* A callback takes the state out of the store, under the lock.
TakeState(s) ==
    /\ oauth' = [oauth EXCEPT ![s] = "none"]
    /\ spent' = spent \cup {s}
    /\ again' = IF oauth[s] = "fresh" THEN again \cup ({s} \cap spent) ELSE again

\* A callback begins, with a fresh state; otherwise the answer is 400.
Callback(r, at, provider, who, s) ==
    /\ TakeState(s)
    /\ IF oauth[s] = "fresh" THEN Begin(r, at, provider, who)
                             ELSE req[r].at = "idle" /\ UNCHANGED req
    /\ UNCHANGED <<office, member, identity, sso, token, home, astray, kept>>

\* handleGithubCallback: GitHub's accounts are known by their email only.
GithubCallback(r, who, s) == "github" \in Providers /\ Callback(r, "mailing", "github", who, s)

\* handleGoogleCallback, handleMicrosoftCallback
OAuthCallback(r, who, s) ==
    \E d \in Providers \ {"github"} : Callback(r, "asking", d, who, s)

-----------------------------------------------------------------------------
\* The doors

\* handleRegister looks for no account of the same email.
Register(r, who) ==
    /\ Begin(r, "joining", "register", who)
    /\ UNCHANGED <<office, member, identity, sso, oauth, token, home, astray, spent, kept, again>>

\* handleLogin: the first member of the email must have the password.
Login(r, who) ==
    LET m == GetMemberByEmail(who) IN
    /\ m # 0 /\ member[m].password
    /\ req[r].at = "idle"
    /\ req' = [req EXCEPT ![r] = [at |-> "issuing", door |-> "login",
                                  who |-> who, member |-> m]]
    /\ UNCHANGED <<office, member, identity, sso, oauth, token, home, astray, spent, kept, again>>

\* handleSSOCallback: no state is kept for it; the provider must exist.
SSOCallback(r, who) ==
    /\ sso = "stored"
    /\ Begin(r, "asking", "sso", who)
    /\ UNCHANGED <<office, member, identity, sso, oauth, token, home, astray, spent, kept, again>>

\* handleAgentProvision, up to the check of the workspace's token
Provision(r, bot) ==
    /\ office
    /\ Begin(r, "asking", "agent", bot)
    /\ UNCHANGED <<office, member, identity, sso, oauth, token, home, astray, spent, kept, again>>

\* handleOAuthCallback: the provider's id of the person is looked up first.
AskByIdentity(r) ==
    LET m == identity[<<req[r].door, req[r].who>>] IN
    /\ req[r].at = "asking" /\ req[r].door \in Providers
    /\ IF m # 0 THEN Found(r, m, "issuing") ELSE To(r, "mailing")
    /\ UNCHANGED <<office, member, identity, sso, oauth, token, home, astray, spent, kept, again>>

\* findOrCreateSSOMember looks for the identity only; it stores no email.
AskSSO(r) ==
    LET m == identity[<<"sso", req[r].who>>] IN
    /\ req[r].at = "asking" /\ req[r].door = "sso"
    /\ IF m # 0 THEN Found(r, m, "issuing") ELSE To(r, "joining")
    /\ UNCHANGED <<office, member, identity, sso, oauth, token, home, astray, spent, kept, again>>

\* handleAgentProvision: is there a member of that name?
AskByName(r) ==
    LET m == GetMemberByName(req[r].who) IN
    /\ req[r].at = "asking" /\ req[r].door = "agent"
    /\ IF m # 0 THEN Found(r, m, "issuing") ELSE To(r, "joining")
    /\ UNCHANGED <<office, member, identity, sso, oauth, token, home, astray, spent, kept, again>>

\* handleOAuthCallback and handleGithubCallback look for the email.
AskByEmail(r) ==
    LET m == GetMemberByEmail(req[r].who) IN
    /\ req[r].at = "mailing"
    /\ IF m = 0 THEN To(r, "joining")
       ELSE Found(r, m, IF req[r].door = "github" THEN "issuing" ELSE "linking")
    /\ UNCHANGED <<office, member, identity, sso, oauth, token, home, astray, spent, kept, again>>

\* The member is made, in a workspace of its own (nobody is in it yet who could remove
\* it) or in the office, if that is still there (a foreign key).
Join(r) ==
    LET q == req[r]
        m == First({x \in MemberIds : member[x].state = "none"})
    IN
    /\ q.at = "joining"
    /\ IF Founds(q.door) \/ office
       THEN /\ Insert(Requests \ {r}, q.who, q.door)
            /\ Found(r, m, IF q.door \in {"google", "microsoft", "sso"} THEN "linking" ELSE "issuing")
       ELSE req' = [req EXCEPT ![r] = Idle] /\ UNCHANGED <<member, astray>>
    /\ UNCHANGED <<office, identity, sso, oauth, token, home, spent, kept, again>>

\* CreateOAuthIdentity replaces the identity; its error is dropped, so a fault, or a
\* member removed in the meantime, leaves the identities as they are.
Link(r) ==
    LET q == req[r] IN
    /\ q.at = "linking"
    /\ To(r, "issuing")
    /\ \E ok \in BOOLEAN :
         /\ identity' = IF ok /\ Live(q.member) THEN [identity EXCEPT ![<<q.door, q.who>>] = q.member]
                                                ELSE identity
         /\ astray' = IF q.door = "sso" /\ (~ok \/ Overlaps(Requests \ {r}, q.who))
                      THEN astray \cup {q.who} ELSE astray
    /\ UNCHANGED <<office, member, sso, oauth, token, home, spent, kept, again>>

\* The answer, with a new token (or the agent's API key)
Issue(r) ==
    LET q == req[r] IN
    /\ q.at = "issuing"
    /\ req' = [req EXCEPT ![r] = Idle]
    /\ home' = IF q.door \in Doors /\ q.who \notin astray /\ Live(q.member)
               THEN [home EXCEPT ![<<q.door, q.who>>] = q.member] ELSE home
    /\ \/ /\ q.door # "agent"
          /\ \E t \in Tokens : /\ token[t] = NoToken
                               /\ token' = [token EXCEPT ![t].member = q.member]
                               /\ spent' = spent \ {t}
       \/ /\ q.door # "agent" => \A t \in Tokens : token[t] # NoToken
          /\ UNCHANGED <<token, spent>>
    /\ UNCHANGED <<office, member, identity, sso, oauth, astray, kept, again>>

\* A query or the provider fails, or the client is gone and its context cancelled.
Fail(r) ==
    /\ req[r].at # "idle"
    /\ req' = [req EXCEPT ![r] = Idle]
    /\ UNCHANGED <<office, member, identity, sso, oauth, token, home, astray, spent, kept, again>>

-----------------------------------------------------------------------------
\* Tokens

\* ValidateToken, with the blacklist
ValidateToken(t) == token[t].member # 0 /\ ~token[t].blacklisted

\* authenticate, before an HTTP handler or in handleWSAuthLogin
Authenticate(t) ==
    /\ ValidateToken(t) /\ Live(token[t].member)
    /\ again' = again \cup ({t} \cap (spent \ kept))
    /\ UNCHANGED <<office, member, identity, sso, oauth, token, req, home, astray, spent, kept>>

\* Mutant: the answer is given without a call of BlacklistToken.
LogoutForgets(t) ==
    /\ ValidateToken(t) /\ Live(token[t].member)
    /\ spent' = spent \cup {t}
    /\ UNCHANGED <<office, member, identity, sso, oauth, token, req, home, astray, kept, again>>

\* handleLogout answers "logged out" also when BlacklistToken fails: the database, or
\* the request's context, which ends with the client's connection.
Logout(t) ==
    /\ ValidateToken(t) /\ Live(token[t].member)
    /\ spent' = spent \cup {t}
    /\ \/ token' = [token EXCEPT ![t].blacklisted = TRUE] /\ kept' = kept \ {t}
       \/ kept' = kept \cup {t} /\ UNCHANGED token
    /\ UNCHANGED <<office, member, identity, sso, oauth, req, home, astray, again>>

\* 24 hours pass: the signature's claims no longer hold.
Expire(t) ==
    /\ token[t].member # 0
    /\ token' = [token EXCEPT ![t] = NoToken]
    /\ spent' = spent \cup {t}
    /\ kept' = kept \ {t}
    /\ UNCHANGED <<office, member, identity, sso, oauth, req, home, astray, again>>

-----------------------------------------------------------------------------
\* Members and workspaces.  The callers are members, by token or by API key; the
\* office is never without one, its owner is not among the members followed here.

\* handleCreateMember: the name may be taken; a human made like this has no email,
\* and no door leads to it.
CreateMember(bot) ==
    /\ office
    /\ Insert(Requests, bot, "member")
    /\ UNCHANGED <<office, identity, sso, oauth, token, req, home, spent, kept, again>>

\* handleDeleteMember, by a member of the same workspace or by itself;
\* handleDeleteWorkspace, by the owner whom it was founded for
DeleteMember(m) ==
    /\ Live(m)
    /\ Remove({m})
    /\ UNCHANGED <<office, sso, oauth, token, req, astray, spent, kept, again>>

\* handleDeleteWorkspace: the rows that refer to the office go as well.
DeleteOffice ==
    /\ office /\ office' = FALSE
    /\ Remove({m \in MemberIds : Live(m) /\ member[m].ws = "office"})
    /\ sso' = "gone"
    /\ UNCHANGED <<oauth, token, req, astray, spent, kept, again>>

\* handleCreateSSOProvider, handleDeleteSSOProvider: by the owner
ConfigureSSO ==
    /\ office
    /\ \/ sso = "none" /\ sso' = "stored"
       \/ sso = "stored" /\ sso' = "gone"
    /\ UNCHANGED <<office, member, identity, oauth, token, req, home, astray, spent, kept, again>>

\* The server dies and is started again: the store stays, oauthStateStore does not.
Crash ==
    /\ req' = [r \in Requests |-> Idle]
    /\ oauth' = [s \in States |-> "none"]
    /\ spent' = spent \cup States
    /\ UNCHANGED <<office, member, identity, sso, token, home, astray, kept, again>>

-----------------------------------------------------------------------------

Next ==
    \/ \E s \in States : BeginOAuth(s) \/ Age(s)
    \/ SweepStates
    \/ \E r \in Requests :
         \/ \E p \in People :
              \/ Register(r, p) \/ Login(r, p) \/ SSOCallback(r, p)
              \/ \E s \in States : GithubCallback(r, p, s) \/ OAuthCallback(r, p, s)
         \/ \E b \in Bots : Provision(r, b)
         \/ AskByIdentity(r) \/ AskSSO(r) \/ AskByName(r) \/ AskByEmail(r)
         \/ Join(r) \/ Link(r) \/ Issue(r) \/ Fail(r)
    \/ \E t \in Tokens : Authenticate(t) \/ Logout(t) \/ Expire(t)
    \/ \E b \in Bots : CreateMember(b)
    \/ \E m \in MemberIds : DeleteMember(m)
    \/ DeleteOffice
    \/ ConfigureSSO
    \/ Crash

Spec == Init /\ [][Next]_vars

-----------------------------------------------------------------------------

\* An account that a door led to is where it leads the next time, as long as the
\* account exists: identities and emails must not lead a person elsewhere, in
\* whatever order accounts of the same person are registered, signed in to and
\* removed.  The exceptions are what astray records: requests that made accounts for
\* the same person at the same time, each having found none (handleOAuthCallback,
\* handleGithubCallback, findOrCreateSSOMember, handleAgentProvision), and an SSO
\* identity that was not stored, whose member nothing leads to again.
SameDoor ==
    [][\A k \in DOMAIN home :
         Live(home[k]) /\ home'[k] # home[k] /\ home'[k] # 0 => k[2] \in astray']_vars

\* An identity leads to a member that exists and is the person's own, although
\* CreateOAuthIdentity runs after the member was looked up or made, and members and
\* workspaces are removed meanwhile.
IdentitiesHold ==
    \A k \in DOMAIN identity :
        identity[k] # 0 => Live(identity[k]) /\ member[identity[k]].who = k[2]

\* What is spent is not accepted again: an OAuth state lets one callback in, within
\* ten minutes; a token signed out or expired passes authenticate no more, also after
\* a restart of the server.  The exception is a token whose sign-out failed to store it
\* in token_blacklist (handleLogout drops the error): it is accepted until a second
\* sign-out stores it, or until it expires, and not after.
SpentStaysSpent == again = {}
=============================================================================
