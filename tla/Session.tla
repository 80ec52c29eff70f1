------------------------------ MODULE Session ------------------------------
(***************************************************************************)
(* Logins and the sessions of one browser (routers/auth.py,                *)
(* middleware/auth_middleware.py, user.py).                                *)
(*                                                                         *)
(* The session is a signed cookie: a request works on the copy it was sent *)
(* with, and its response replaces the cookie in the browser.  Requests of *)
(* several tabs interleave, at every call of the identity provider (IdP)   *)
(* and at every transaction of the user store.                             *)
(***************************************************************************)
EXTENDS Naturals, FiniteSets

CONSTANTS
  Users,
  Requests,        \* requests the browser may have under way
  Asks,            \* bound: the paths each of them may be for
  None,
  UseRefresh,      \* config.OIDC_USE_REFRESH_TOKEN
  AlwaysToken,     \* the IdP issues a refresh token at every login
  Rotates,         \* the IdP replaces a refresh token when it is used
  Dated,           \* the IdP says when its tokens expire
  Lifetime,        \* after how long they do
  Leeway,          \* config.OIDC_SESSION_EXPIRY_LEEWAY_SECONDS
  MaxTime,         \* bound: time
  MaxLogins,       \* bound: logins started
  MaxTokens,       \* bound: refresh tokens issued
  MaxEvents        \* bound: changes at the IdP and in the user store, failing calls

VARIABLES
  cookie,      \* the session in the browser
  req,         \* the requests
  db,          \* the users of the plugin: None or [admin, groups]
  role,        \* what the groups at the IdP entitle each user to
  owner,       \* refresh tokens issued, by number, with their users
  live,        \* the refresh tokens the IdP accepts
  ended,       \* those it has revoked
  states,      \* number of OAuth states given out
  now,
  events,
  faults,
  changedAt,   \* history: when the user's role at the IdP last changed
  endedAt,     \* history: when the IdP ended the user's session; None since a login
  loggedOut,   \* history: the last session written to the browser was a logout's
  stragglers,  \* history: requests that were under way when it was written
  floor,       \* history: states given out until then
  shared,      \* history: refresh tokens that two requests under way were sent with
  inherited    \* history: refresh tokens that came to another user's session

idp == <<role, owner, live, ended>>
clocks == <<now, events, faults>>
logouts == <<loggedOut, stragglers, floor>>
history == <<changedAt, endedAt, logouts, shared, inherited>>
vars == <<cookie, req, db, idp, states, clocks, history>>

-----------------------------------------------------------------------------
Roles == {"none", "member", "admin"}
Paths == {"login", "callback", "page", "logout"}
Tokens == 1 .. MaxTokens
Times == 0 .. (MaxTime + Lifetime)

Sessions ==
  [state : (0 .. MaxLogins), user : Users \cup {None},
   expires : Times \cup {None}, token : Tokens \cup {None}]

Empty == [state |-> 0, user |-> None, expires |-> None, token |-> None]

Account == [admin : BOOLEAN, groups : Roles]

ASSUME ConstantsAssumption ==
  /\ None \notin Users /\ None \notin Nat /\ None \notin Account
  /\ {UseRefresh, AlwaysToken, Rotates, Dated} \subseteq BOOLEAN
  /\ {Lifetime, Leeway, MaxTime, MaxLogins, MaxTokens, MaxEvents} \subseteq Nat
  /\ Asks \in [Requests -> SUBSET Paths]

(* A request: its path, where it stands, its copy of the session, whether  *)
(* it was sent with one and with which refresh token (history), and, for a *)
(* callback, the state it carries, what the IdP says and whether the code  *)
(* was tried before.  Of an answer only the session is left.               *)
Phases == {"login", "callback", "exchange", "decide", "look", "create", "update", "sync",
           "persist", "check", "refresh", "logout"}

Active ==
  [path : Paths, pc : Phases, s : Sessions, had : BOOLEAN, sent : Tokens \cup {None},
   state : 0 .. MaxLogins, who : Users \cup {None}, role : Roles,
   expires : Times \cup {None}, token : Tokens \cup {None}, tried : BOOLEAN]

Idle == [pc |-> "idle"]

Answers == {"rejected", "expired", "served", "out", "in", "redirected"}

Answered == [pc : Answers, s : Sessions, had : BOOLEAN, sent : Tokens \cup {None}]

Init ==
  /\ cookie = Empty
  /\ req = [r \in Requests |-> Idle]
  /\ db = [u \in Users |-> None]
  /\ role = [u \in Users |-> "admin"]
  /\ owner = [k \in Tokens |-> None] /\ live = {} /\ ended = {}
  /\ states = 0
  /\ now = 0 /\ events = 0 /\ faults = 0
  /\ changedAt = [u \in Users |-> 0] /\ endedAt = [u \in Users |-> None]
  /\ loggedOut = TRUE /\ stragglers = {} /\ floor = 0
  /\ shared = {} /\ inherited = {}

-----------------------------------------------------------------------------
(* A request is sent with the browser's cookie, and answered with a new    *)
(* one.  Starlette writes every session that is not empty, and deletes the *)
(* cookie when the request came with one and its session was emptied.      *)

(* dispatch lets /login and /callback through and checks the session of    *)
(* everything else first, of /logout too.                                  *)
FirstPhase(path) == IF path \in {"login", "callback"} THEN path ELSE "check"

New(path, state, who) ==
  [path |-> path, pc |-> FirstPhase(path), s |-> cookie, had |-> cookie # Empty,
   sent |-> cookie.token, state |-> state, who |-> who,
   role |-> "none", expires |-> None, token |-> None, tried |-> FALSE]

UnderWay(r) == req[r] # Idle

Send(r, path, state, who) ==
  /\ ~UnderWay(r)
  /\ req' = [req EXCEPT ![r] = New(path, state, who)]
  /\ shared' = IF \E q \in Requests : UnderWay(q) /\ req[q].sent = cookie.token
               THEN shared \cup ({cookie.token} \ {None}) ELSE shared
  /\ UNCHANGED <<cookie, db, idp, states, clocks, changedAt, endedAt, logouts, inherited>>

(* A straggler that still has a session undoes the logout.                 *)
Undoes(r) == req[r].pc = "in" \/ (r \in stragglers /\ req[r].s # Empty)

Respond(r) ==
  /\ req[r].pc \in Answers
  /\ cookie' = IF req[r].s # Empty \/ req[r].had THEN req[r].s ELSE cookie
  /\ req' = [req EXCEPT ![r] = Idle]
  /\ loggedOut' = (req[r].pc = "out" \/ (loggedOut /\ ~Undoes(r)))
  /\ stragglers' = IF req[r].pc = "out" THEN {q \in Requests \ {r} : UnderWay(q)}
                   ELSE IF loggedOut' THEN stragglers \ {r} ELSE {}
  /\ floor' = IF req[r].pc = "out" THEN states ELSE IF loggedOut' THEN floor ELSE 0
  /\ UNCHANGED <<db, idp, states, clocks, changedAt, endedAt, shared, inherited>>

GotoWith(r, pc, s) ==
  req' = [req EXCEPT ![r] =
            IF pc \in Answers THEN [pc |-> pc, s |-> s, had |-> @.had, sent |-> @.sent]
            ELSE [@ EXCEPT !.pc = pc, !.s = s]]
Goto(r, pc) == GotoWith(r, pc, req[r].s)

Fault == events + faults < MaxEvents /\ faults' = faults + 1 /\ UNCHANGED <<now, events>>

-----------------------------------------------------------------------------
(* /login stores a new state in the session; /logout empties the session   *)

Login(r) ==
  /\ req[r].pc = "login" /\ states < MaxLogins
  /\ states' = states + 1
  /\ GotoWith(r, "redirected", [req[r].s EXCEPT !.state = states + 1])
  /\ UNCHANGED <<cookie, db, idp, clocks, history>>

(* Mistake: logging out forgets the tokens, but not the user.              *)
LogoutOfIdp(r) ==
  /\ req[r].pc = "logout"
  /\ GotoWith(r, "out", [req[r].s EXCEPT !.token = None])
  /\ UNCHANGED <<cookie, db, idp, states, clocks, history>>

Logout(r) ==
  /\ req[r].pc = "logout"
  /\ GotoWith(r, "out", Empty)
  /\ UNCHANGED <<cookie, db, idp, states, clocks, history>>

-----------------------------------------------------------------------------
(* /callback: the state must be the session's, and is used up              *)

CheckState(r) ==
  /\ req[r].pc = "callback"
  /\ LET s == req[r].s
     IN  IF s.state = 0 \/ s.state # req[r].state THEN Goto(r, "rejected")
         ELSE GotoWith(r, "exchange", [s EXCEPT !.state = 0])
  /\ UNCHANGED <<cookie, db, idp, states, clocks, history>>

(* _extract_session_expiry                                                 *)
Expiry == IF Dated THEN now + Lifetime ELSE None

(* A refresh token no one has had.  At the bound the IdP refuses logins and*)
(* stops rotating.                                                         *)
Fresh == {k \in Tokens : owner[k] = None /\ \A j \in Tokens : j < k => owner[j] # None}

AtLogin == IF ~UseRefresh THEN {None} ELSE IF AlwaysToken THEN Fresh ELSE Fresh \cup {None}
AtRefresh == IF Rotates /\ Fresh # {} THEN Fresh ELSE {None}

Issue(u, k, old) ==
  /\ owner' = IF k = None THEN owner ELSE [owner EXCEPT ![k] = u]
  /\ live' = (live \ old) \cup ({k} \ {None})
  /\ UNCHANGED ended

(* authorize_access_token and userinfo answer with tokens and groups       *)
Exchange(r) ==
  /\ req[r].pc = "exchange"
  /\ \/ \E k \in AtLogin :
          /\ Issue(req[r].who, k, {})
          /\ req' = [req EXCEPT ![r].pc = "decide", ![r].role = role[req[r].who],
                                ![r].expires = Expiry, ![r].token = k]
          /\ endedAt' = [endedAt EXCEPT ![req[r].who] = None]
     \/ AtLogin = {} /\ Goto(r, "rejected")
        /\ UNCHANGED <<owner, live, ended, endedAt>>
  /\ UNCHANGED <<cookie, db, role, states, clocks, changedAt, logouts, shared, inherited>>

(* A failed exchange is tried once more after the keys were fetched anew.  *)
ExchangeFails(r) ==
  /\ req[r].pc = "exchange" /\ Fault
  /\ IF req[r].tried THEN Goto(r, "rejected") ELSE req' = [req EXCEPT ![r].tried = TRUE]
  /\ UNCHANGED <<cookie, db, idp, states, history>>

Cleared(a) == IF a = None THEN None ELSE [a EXCEPT !.groups = "none"]

(* Users in none of the groups are turned away, and lose their groups.     *)
Decide(r) ==
  /\ req[r].pc = "decide"
  /\ LET u == req[r].who
     IN  IF req[r].role # "none" THEN Goto(r, "look") /\ UNCHANGED <<db, clocks>>
         ELSE /\ Goto(r, "rejected")
              /\ \/ db' = [db EXCEPT ![u] = Cleared(@)] /\ UNCHANGED clocks
                 \/ Fault /\ UNCHANGED db
  /\ UNCHANGED <<cookie, idp, states, history>>

(* user.create_user looks for the user, then updates or creates it         *)
LookForUser(r) ==
  /\ req[r].pc = "look"
  /\ Goto(r, IF db[req[r].who] = None THEN "create" ELSE "update")
  /\ UNCHANGED <<cookie, db, idp, states, clocks, history>>

UpdateUser(r) ==
  /\ req[r].pc = "update"
  /\ LET u == req[r].who
     IN  IF db[u] = None THEN Goto(r, "create") /\ UNCHANGED db
         ELSE /\ db' = [db EXCEPT ![u] = [@ EXCEPT !.admin = (req[r].role = "admin")]]
              /\ Goto(r, "sync")
  /\ UNCHANGED <<cookie, idp, states, clocks, history>>

CreateUser(r) ==
  /\ req[r].pc = "create"
  /\ LET u == req[r].who
     IN  IF db[u] # None THEN Goto(r, "rejected") /\ UNCHANGED db
         ELSE /\ db' = [db EXCEPT ![u] = [admin |-> req[r].role = "admin", groups |-> "none"]]
              /\ Goto(r, "sync")
  /\ UNCHANGED <<cookie, idp, states, clocks, history>>

(* set_user_groups; a failure is logged and left to the next login         *)
SyncGroups(r) ==
  /\ req[r].pc = "sync"
  /\ Goto(r, "persist")
  /\ LET u == req[r].who
     IN  \/ /\ db[u] # None /\ db' = [db EXCEPT ![u] = [@ EXCEPT !.groups = req[r].role]]
            /\ UNCHANGED clocks
         \/ db[u] = None /\ UNCHANGED <<db, clocks>>
         \/ Fault /\ UNCHANGED db
  /\ UNCHANGED <<cookie, idp, states, history>>

(* Mistake: the old refresh token is kept even if there is a new one.      *)
PersistedOnce(s, expires, token) ==
  [s EXCEPT !.expires = expires,
            !.token = IF ~UseRefresh THEN None ELSE IF @ # None THEN @ ELSE token]

(* _persist_session_auth: without a new refresh token the old one is kept. *)
Persisted(s, expires, token) ==
  [s EXCEPT !.expires = expires,
            !.token = IF ~UseRefresh THEN None ELSE IF token # None THEN token ELSE @]

(* The token kept is that of whoever was logged in before.                 *)
Inherits(r) ==
  UseRefresh /\ req[r].token = None /\ req[r].s.token # None /\ req[r].s.user # req[r].who

Persist(r) ==
  /\ req[r].pc = "persist"
  /\ GotoWith(r, "in", [Persisted(req[r].s, req[r].expires, req[r].token)
                          EXCEPT !.user = req[r].who])
  /\ inherited' = IF Inherits(r) THEN inherited \cup {req[r].s.token} ELSE inherited
  /\ UNCHANGED <<cookie, db, idp, states, clocks, changedAt, endedAt, logouts, shared>>

-----------------------------------------------------------------------------
(* Any other path: the session must name a user and must not have expired; *)
(* an expired one is refreshed with the IdP, or emptied.                   *)

(* Mistake: the expiry is ignored.                                         *)
NeverExpired(s) == FALSE

IsExpired(s) == s.expires # None /\ now + Leeway >= s.expires

(* What comes after the check: a page, or the handler of /logout.          *)
Authenticated(r) == IF req[r].path = "logout" THEN "logout" ELSE "served"

CheckSession(r) ==
  /\ req[r].pc = "check"
  /\ LET s == req[r].s
     IN  IF s.user = None THEN Goto(r, "rejected")
         ELSE IF ~IsExpired(s) THEN Goto(r, Authenticated(r))
         ELSE IF UseRefresh /\ s.token # None THEN Goto(r, "refresh")
         ELSE GotoWith(r, "expired", Empty)
  /\ UNCHANGED <<cookie, db, idp, states, clocks, history>>

(* Mistake: the answer of the IdP is not stored, the token is spent.       *)
RefreshedLate(r) ==
  /\ req[r].pc = "refresh"
  /\ IF req[r].s.token \in live
     THEN Goto(r, Authenticated(r)) /\ live' = live \ {req[r].s.token} /\ UNCHANGED <<owner, ended>>
     ELSE GotoWith(r, "expired", Empty) /\ UNCHANGED <<owner, live, ended>>
  /\ UNCHANGED <<cookie, db, role, states, clocks, history>>

(* refresh_session_with_idp                                                *)
Refresh(r) ==
  /\ req[r].pc = "refresh"
  /\ LET s == req[r].s
     IN  IF s.token \in live
         THEN \E k \in AtRefresh :
                /\ Issue(owner[s.token], k, IF k # None THEN {s.token} ELSE {})
                /\ GotoWith(r, Authenticated(r), Persisted(s, Expiry, k))
                /\ inherited' = inherited \cup IF s.token \in inherited THEN {k} \ {None} ELSE {}
         ELSE GotoWith(r, "expired", Empty) /\ UNCHANGED <<owner, live, ended, inherited>>
  /\ UNCHANGED <<cookie, db, role, states, clocks, changedAt, endedAt, logouts, shared>>

RefreshFails(r) ==
  /\ req[r].pc = "refresh" /\ Fault
  /\ GotoWith(r, "expired", Empty)
  /\ UNCHANGED <<cookie, db, idp, states, history>>

-----------------------------------------------------------------------------
(* Meanwhile, at the IdP, in the user administration and on the clock      *)

Event ==
  /\ events + faults < MaxEvents /\ events' = events + 1
  /\ UNCHANGED <<cookie, req, states, now, faults>>

ChangeRole(u, x) ==
  /\ Event
  /\ role[u] # x /\ role' = [role EXCEPT ![u] = x]
  /\ changedAt' = [changedAt EXCEPT ![u] = now]
  /\ UNCHANGED <<db, owner, live, ended, endedAt, logouts, shared, inherited>>

EndIdpSession(u) ==
  /\ Event
  /\ live' = {k \in live : owner[k] # u}
  /\ ended' = ended \cup (live \ live')
  /\ endedAt' = [endedAt EXCEPT ![u] = now]
  /\ UNCHANGED <<db, role, owner, changedAt, logouts, shared, inherited>>

DeleteUser(u) ==
  /\ Event
  /\ db[u] # None /\ db' = [db EXCEPT ![u] = None]
  /\ UNCHANGED <<idp, history>>

Tick ==
  /\ now < MaxTime /\ now' = now + 1
  /\ UNCHANGED <<cookie, req, db, idp, states, events, faults, history>>

Handle(r) ==
  \/ Login(r) \/ Logout(r) \/ CheckState(r) \/ Exchange(r) \/ ExchangeFails(r) \/ Decide(r)
  \/ LookForUser(r) \/ UpdateUser(r) \/ CreateUser(r) \/ SyncGroups(r) \/ Persist(r)
  \/ CheckSession(r) \/ Refresh(r) \/ RefreshFails(r) \/ Respond(r)

Browse(r) ==
  \/ \E path \in Asks[r] \cap {"page", "logout"} : Send(r, path, 0, None)
  \/ "login" \in Asks[r] /\ states < MaxLogins /\ Send(r, "login", 0, None)
  \/ "callback" \in Asks[r] /\ \E state \in 1 .. states, u \in Users : Send(r, "callback", state, u)

Outside ==
  \/ \E u \in Users : (\E x \in Roles : ChangeRole(u, x)) \/ EndIdpSession(u) \/ DeleteUser(u)
  \/ Tick

Next == (\E r \in Requests : Browse(r) \/ Handle(r)) \/ Outside

Spec == Init /\ [][Next]_vars

-----------------------------------------------------------------------------
(* The variables' types: the cookie, the requests, the accounts, the tokens *)
(* at the IdP and the bounds.                                              *)
TypeOK ==
  /\ cookie \in Sessions
  /\ req \in [Requests -> {Idle} \cup Active \cup Answered]
  /\ db \in [Users -> Account \cup {None}]
  /\ role \in [Users -> Roles]
  /\ owner \in [Tokens -> Users \cup {None}]
  /\ live \subseteq Tokens /\ ended \subseteq Tokens
  /\ states \in 0 .. MaxLogins /\ now \in 0 .. MaxTime
  /\ {events, faults} \subseteq Nat
  /\ changedAt \in [Users -> 0 .. MaxTime]
  /\ endedAt \in [Users -> (0 .. MaxTime) \cup {None}]
  /\ loggedOut \in BOOLEAN /\ stragglers \subseteq Requests /\ floor \in 0 .. MaxLogins
  /\ shared \subseteq Tokens /\ inherited \subseteq Tokens

(* "Clear session and redirect to OIDC provider logout": after a logout the*)
(* browser stays logged out until a login, and no login that began before  *)
(* the logout can be completed any more, whatever other tabs ask for.  Only*)
(* a request that was under way when the logout was answered can bring its *)
(* session back.                                                           *)
LogoutSticks == loggedOut => cookie.user = None /\ (cookie.state = 0 \/ cookie.state > floor)

(* A session is refreshed with the refresh token of its own user, and with *)
(* no one else's, unless it took over that of the user logged in before:   *)
(* then, and along all its rotations, it was inherited.                    *)
OwnRefreshToken ==
  cookie.user # None /\ cookie.token # None =>
    owner[cookie.token] = cookie.user \/ cookie.token \in inherited

(* "Expired sessions are silently refreshed against the IdP without forcing*)
(* a visible login": a refresh is turned down only when the IdP has revoked*)
(* the user's grant, or when two tabs were under way with the same token.  *)
SilentRefresh ==
  [][\A r \in Requests :
       req[r].pc = "refresh" /\ req'[r].pc = "expired" /\ faults' = faults
         => req[r].s.token \in ended \cup shared]_vars

(* "A session cannot outlive the underlying token": once the IdP has ended *)
(* a user's session, no request is authenticated as that user for longer   *)
(* than the lifetime of a token, unless there is a new login or the refresh*)
(* token is another user's.                                                *)
Admitted(r) == req[r].pc \in {"check", "refresh"} /\ req'[r].pc \in {"served", "logout"}

GrantEndsSession ==
  [][\A r \in Requests :
       LET s == req[r].s
       IN  Dated /\ Admitted(r) /\ endedAt[s.user] # None /\ s.token \notin inherited
             => now + Leeway < endedAt[s.user] + Lifetime]_vars

-----------------------------------------------------------------------------
(* What the documentation says and the code does not keep.                 *)

(* "Clear session": no answer but that of a login brings a user into a     *)
(* browser without one.                                                    *)
OnlyLoginsLogIn ==
  [][cookie.user = None /\ cookie'.user # None =>
       \E r \in Requests : req[r].pc = "in" /\ req'[r] = Idle]_vars

(* "A session cannot outlive the underlying token": its own user's.        *)
NoOthersToken ==
  cookie.user # None /\ cookie.token # None => owner[cookie.token] = cookie.user

(* "Expired sessions are silently refreshed": unless the grant was revoked.*)
RefreshedUnlessRevoked ==
  [][\A r \in Requests :
       req[r].pc = "refresh" /\ req'[r].pc = "expired" /\ faults' = faults
         => req[r].s.token \in ended]_vars

(* "IdP-side changes (deactivation, group changes, MFA enrollment) take    *)
(* effect within the token's lifetime": whoever is served later than that  *)
(* after a change has the groups the IdP has given them.                   *)
GroupsCurrent ==
  [][\A r \in Requests :
       LET u == req'[r].s.user
       IN  req[r].pc # "served" /\ req'[r].pc = "served" /\ db[u] # None
             /\ now > changedAt[u] + Lifetime
           => db[u].groups = role[u]]_vars

(* "Revoke group memberships in the auth DB so a previously-authorized user*)
(* whose OIDC groups have been removed does not retain access": who is     *)
(* turned away is left without groups and without the admin flag.          *)
AccessRevoked ==
  [][\A r \in Requests :
       LET a == db'[req[r].who]
       IN  req[r].pc = "decide" /\ req'[r].pc = "rejected" /\ faults' = faults /\ a # None
           => a = [admin |-> FALSE, groups |-> "none"]]_vars
=============================================================================
