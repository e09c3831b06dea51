------------------------------ MODULE Accounts ------------------------------
(***************************************************************************)
(* Accounts, sessions and the websockets that live on them (auth.py, the   *)
(* account endpoints of app.py, the account tables of terminal_store.py).  *)
(*                                                                         *)
(* A handler runs without awaiting, so inside one process it is one step.  *)
(* Registration is two: it counts the users first and inserts later, and   *)
(* during a rolling deployment another process may insert in between.      *)
(* Passwords and codes are right or the request changes nothing.           *)
(***************************************************************************)
EXTENDS Integers, FiniteSets

CONSTANTS
  Email,        \* addresses people register with
  Browser,      \* browsers: one cookie jar each
  Replica,      \* processes of the gateway
  GrantedRole,  \* roles an administrator gives
  SessionLife,  \* SESSION_MAX_AGE_SECONDS
  Recheck,      \* WS_SESSION_RECHECK_SECONDS
  SessionId,    \* bound: sessions of the run
  LastInstant   \* bound: end of the run

ASSUME LivesArePositive == SessionLife \in Nat \ {0} /\ Recheck \in Nat \ {0} /\ SessionId \subseteq Nat \ {0}

\* VALID_ROLES
Role == {"ADMIN", "TRADER", "VIEWER"}

ASSUME RolesAreValid == GrantedRole \subseteq Role /\ LastInstant \in Nat

VARIABLES
  instant,     \* the time of day
  users,       \* email -> [role, origin]: origin is who let the account in
  sessions,    \* session id -> [user, expires, ended]; ended < 0: not revoked
  jar,         \* browser -> [account, owner]: its session cookie and the time
               \*   its owner cookie was issued
  registering, \* replica -> the registration it is in the middle of
  socket       \* browser -> its websocket, with the cookies of the handshake;
               \*   sending: its coroutine awaits send_json; late (history): a
               \*   timer fell due while it did, and has not been served

accountVars == <<instant, users, sessions, jar, registering, socket>>

None     == 0
Owner    == "legacy-owner"
NoCookie == [account |-> None, owner |-> -1]
Idle     == [email |-> "", browser |-> None, first |-> FALSE]
NoSocket == [open |-> FALSE, cookies |-> NoCookie, user |-> "", expires |-> 0, recheck |-> 0,
             sending |-> FALSE, late |-> FALSE]

\* Fault: a revoked session is honoured until it expires.
FaultyValid(s) == s \in DOMAIN sessions /\ sessions[s].expires > instant

\* get_user_session: not revoked, not expired.
Valid(s) == s \in DOMAIN sessions /\ sessions[s].ended < 0 /\ sessions[s].expires > instant

OwnerValid(cookies) == cookies.owner >= 0 /\ instant - cookies.owner <= SessionLife

\* request_principal: the account of the session cookie, or else the owner of
\* an owner cookie, which no table knows and nothing can revoke.
PrincipalOf(cookies) ==
  IF Valid(cookies.account) THEN sessions[cookies.account].user
  ELSE IF OwnerValid(cookies) THEN Owner ELSE ""

RoleOf(user) == IF user = Owner THEN "ADMIN" ELSE users[user].role
IsAdmin(b) == PrincipalOf(jar[b]) # "" /\ RoleOf(PrincipalOf(jar[b])) = "ADMIN"

Fresh == SessionId \ DOMAIN sessions

\* create_account_session and _account_response: a new session, its cookie in
\* the jar; the session the browser had before is left as it is.
SignIn(b, user) ==
  \E s \in Fresh :
    /\ \A r \in Fresh : s <= r
    /\ sessions' = [r \in DOMAIN sessions \cup {s} |->
                      IF r = s THEN [user |-> user, expires |-> instant + SessionLife, ended |-> -1]
                      ELSE sessions[r]]
    /\ jar' = [jar EXCEPT ![b] = [account |-> s, owner |-> -1]]

Revoked(s) ==
  IF s \in DOMAIN sessions THEN [sessions EXCEPT ![s].ended = instant] ELSE sessions

\* register_account up to its first write: the first account needs the owner
\* token, every later one the invite code; either way the right one is given.
BeginRegister(r, b, e) ==
  /\ registering[r] = Idle
  /\ registering' = [registering EXCEPT ![r] = [email |-> e, browser |-> b, first |-> DOMAIN users = {}]]
  /\ UNCHANGED <<instant, users, sessions, jar, socket>>

\* Fault: the bootstrap is not serialised, the count read earlier decides.
FaultyMayInsert(e, requireFirst) == e \notin DOMAIN users

\* create_user, in one transaction: addresses are unique, and require_first
\* counts the users again under the advisory lock.
MayInsert(e, requireFirst) == e \notin DOMAIN users /\ (requireFirst => DOMAIN users = {})

Inserted(e, role, origin) ==
  [u \in DOMAIN users \cup {e} |-> IF u = e THEN [role |-> role, origin |-> origin] ELSE users[u]]

FinishRegister(r) ==
  /\ registering[r] # Idle
  /\ LET q == registering[r] IN
     \/ /\ MayInsert(q.email, q.first)
        /\ users' = IF q.first THEN Inserted(q.email, "ADMIN", "setup")
                    ELSE Inserted(q.email, "TRADER", "invite")
        /\ SignIn(q.browser, q.email)
     \/ /\ ~MayInsert(q.email, q.first)
        /\ UNCHANGED <<users, sessions, jar>>
  /\ registering' = [registering EXCEPT ![r] = Idle]
  /\ UNCHANGED <<instant, socket>>

\* The process dies between the two writes: the account exists, nobody is
\* signed in; or before them: nothing happened.
Killed(r) ==
  /\ registering[r] # Idle
  /\ registering' = [registering EXCEPT ![r] = Idle]
  /\ LET q == registering[r] IN
     \/ UNCHANGED users
     \/ MayInsert(q.email, q.first) /\ users' = IF q.first THEN Inserted(q.email, "ADMIN", "setup")
                                                ELSE Inserted(q.email, "TRADER", "invite")
  /\ UNCHANGED <<instant, sessions, jar, socket>>

\* create_account: an administrator adds an account of any role.
AddAccount(b, e, role) ==
  /\ IsAdmin(b) /\ MayInsert(e, FALSE)
  /\ users' = Inserted(e, role, "admin")
  /\ UNCHANGED <<instant, sessions, jar, registering, socket>>

\* create_auth_session with an address: the password was right.
LogIn(b, e) ==
  /\ e \in DOMAIN users
  /\ SignIn(b, e)
  /\ UNCHANGED <<instant, users, registering, socket>>

\* create_auth_session with the owner token: the account session is revoked.
OwnerLogIn(b) ==
  /\ sessions' = Revoked(jar[b].account)
  /\ jar' = [jar EXCEPT ![b] = [account |-> None, owner |-> instant]]
  /\ UNCHANGED <<instant, users, registering, socket>>

\* delete_auth_session
LogOut(b) ==
  /\ jar[b] # NoCookie
  /\ sessions' = Revoked(jar[b].account)
  /\ jar' = [jar EXCEPT ![b] = NoCookie]
  /\ UNCHANGED <<instant, users, registering, socket>>

-----------------------------------------------------------------------------
(* The websocket: an expiry timer, a recheck timer, the queue of events    *)
(* and the client.  One coroutine serves them in turn, and it stands still *)
(* for as long as the client does not read what it is being sent.          *)

ExpiryOf(cookies) ==
  IF Valid(cookies.account) THEN sessions[cookies.account].expires ELSE cookies.owner + SessionLife

Connect(b) ==
  /\ ~socket[b].open /\ PrincipalOf(jar[b]) # ""
  /\ socket' = [socket EXCEPT ![b] =
                 [open |-> TRUE, cookies |-> jar[b], user |-> PrincipalOf(jar[b]),
                  expires |-> ExpiryOf(jar[b]), recheck |-> instant + Recheck,
                  sending |-> FALSE, late |-> FALSE]]
  /\ UNCHANGED <<instant, users, sessions, jar, registering>>

Due(b) == socket[b].expires <= instant \/ socket[b].recheck <= instant

\* The timers that are due: expiry closes, a recheck closes unless the cookies
\* of the handshake still name the same user.
ServeTimers(b) ==
  /\ socket[b].open /\ ~socket[b].sending
  /\ \/ /\ socket[b].expires <= instant
        /\ socket' = [socket EXCEPT ![b] = NoSocket]
     \/ /\ socket[b].expires > instant /\ socket[b].recheck <= instant
        /\ socket' = IF PrincipalOf(socket[b].cookies) = socket[b].user
                     THEN [socket EXCEPT ![b].recheck = instant + Recheck, ![b].late = FALSE]
                     ELSE [socket EXCEPT ![b] = NoSocket]
  /\ UNCHANGED <<instant, users, sessions, jar, registering>>

\* Fault: the queue is served before the timers.
FaultyMayHand(b) == TRUE

\* A turn of the loop serves the timers that are due before it takes an event.
MayHand(b) == ~Due(b)

\* await send_json: an event is handed to the client, who may take any time to
\* read it; meanwhile the coroutine serves no timer.
SendEvent(b) ==
  /\ socket[b].open /\ ~socket[b].sending /\ MayHand(b)
  /\ socket' = [socket EXCEPT ![b].sending = TRUE]
  /\ UNCHANGED <<instant, users, sessions, jar, registering>>

\* The client has read on, send_json returns.
Sent(b) ==
  /\ socket[b].open /\ socket[b].sending
  /\ socket' = [socket EXCEPT ![b].sending = FALSE]
  /\ UNCHANGED <<instant, users, sessions, jar, registering>>

Disconnect(b) ==
  /\ socket[b].open
  /\ socket' = [socket EXCEPT ![b] = NoSocket]
  /\ UNCHANGED <<instant, users, sessions, jar, registering>>

\* Time passes; the event loop does not fall behind its timers, but a coroutine
\* whose client does not read does.
PassTime ==
  /\ instant < LastInstant
  /\ \A b \in Browser : socket[b].open /\ ~socket[b].sending => ~Due(b)
  /\ instant' = instant + 1
  /\ socket' = [b \in Browser |->
                  [socket[b] EXCEPT !.late = @ \/ (socket[b].open /\ socket[b].sending /\ Due(b))]]
  /\ UNCHANGED <<users, sessions, jar, registering>>

AccountInit ==
  /\ instant = 0
  /\ users = [e \in {} |-> {}] /\ sessions = [s \in {} |-> {}]
  /\ jar = [b \in Browser |-> NoCookie]
  /\ registering = [r \in Replica |-> Idle]
  /\ socket = [b \in Browser |-> NoSocket]

AccountNext ==
  \/ PassTime
  \/ \E r \in Replica : FinishRegister(r) \/ Killed(r) \/ \E b \in Browser, e \in Email : BeginRegister(r, b, e)
  \/ \E b \in Browser :
       \/ OwnerLogIn(b) \/ LogOut(b) \/ Connect(b)
       \/ ServeTimers(b) \/ SendEvent(b) \/ Sent(b) \/ Disconnect(b)
       \/ \E e \in Email : LogIn(b, e) \/ \E role \in GrantedRole : AddAccount(b, e, role)

AccountSpec == AccountInit /\ [][AccountNext]_accountVars
-----------------------------------------------------------------------------
AccountTypeOK ==
  /\ instant \in 0..LastInstant
  /\ DOMAIN users \subseteq Email /\ \A e \in DOMAIN users : users[e].role \in Role
  /\ \A s \in DOMAIN sessions : sessions[s].user \in DOMAIN users
  /\ \A b \in Browser : jar[b].account \in DOMAIN sessions \cup {None}

\* Two bootstrap requests never both become administrator, whichever process
\* they meet, whatever is inserted between their count and their insert, and
\* although a process may die in the middle.
OneBootstrap == Cardinality({e \in DOMAIN users : users[e].origin = "setup"}) <= 1

\* The stream of an account ends at the latest one recheck after its session
\* was revoked, and at once when the session expires, although the browser may
\* have signed in as somebody else meanwhile: while its client reads what it
\* is sent, or at least until a timer is overdue.
StreamEndsWithSession ==
  \A b \in Browser :
    socket[b].open /\ socket[b].user # Owner /\ ~socket[b].late =>
      LET s == sessions[socket[b].cookies.account] IN
      /\ s.user = socket[b].user
      /\ instant <= s.expires
      /\ s.ended >= 0 => instant <= s.ended + Recheck

\* However long a client leaves the coroutine suspended, and whatever has
\* waited in its queue meanwhile: no event is handed to a stream whose session
\* has expired, nor one recheck or more after it was revoked.
NoEventAfterSession ==
  [][\A b \in Browser :
       socket'[b].sending /\ ~socket[b].sending /\ socket[b].user # Owner =>
         LET s == sessions[socket[b].cookies.account] IN
         /\ instant < s.expires
         /\ s.ended >= 0 => instant < s.ended + Recheck]_accountVars
=============================================================================
