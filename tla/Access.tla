------------------------------- MODULE Access -------------------------------
(***************************************************************************)
(* Accounts, login, sessions and the login limiter (auth.go, login.go,     *)
(* sessions.go, auth_server.go) with several browsers that register, log   *)
(* in, ask who they are and log out at the same time.                      *)
(*                                                                         *)
(* A step is what one request handler does under one lock.  PBKDF2 runs    *)
(* outside every lock, so registering and logging in take several steps,   *)
(* between which other handlers run.                                       *)
(*                                                                         *)
(* Abstracted: a password hash is the password and whether the hash has    *)
(* the current number of iterations (verifyPassword compares the two); a   *)
(* session id is the number of the session (ids are 256 random bits, taken *)
(* to be fresh).  A session also records the password its owner presented  *)
(* and when it was last used, which only the properties read.              *)
(***************************************************************************)
EXTENDS Integers, Sequences, FiniteSets

CONSTANTS
  Clients,        \* browsers; each has one request in progress at a time
  Emails,         \* normalized addresses
  Admitted,       \* those that validateEmail accepts
  Passwords,
  TTL,            \* sessionStore.ttl
  Window,         \* loginWindow
  MaxFailures,    \* loginMaxFailures
  MaxTime,        \* bound: the clock
  MaxSessions,    \* bound: sessions created
  MaxRestarts     \* bound: restarts of the server

ASSUME AccessAssumption ==
  /\ IsFiniteSet(Clients) /\ Admitted \subseteq Emails
  /\ "" \notin Emails /\ "" \notin Passwords
  /\ TTL \in Nat \ {0} /\ Window \in Nat \ {0} /\ MaxFailures \in Nat \ {0}
  /\ MaxTime \in Nat /\ MaxSessions \in Nat /\ MaxRestarts \in Nat

VARIABLES
  now,
  users,          \* State.Users
  stored,         \* the accounts as the Store has them
  sessions,       \* sessionStore.byID
  created,        \* history: number of sessions created
  failures,       \* loginLimiter.failures
  cookie,         \* the session cookie of each browser, and until when it lives
  req,            \* the request each browser has in progress
  restarts

vars == <<now, users, stored, sessions, created, failures, cookie, req, restarts>>

Account == [password : Passwords, strong : BOOLEAN]
NoAccount == [password |-> "", strong |-> FALSE]
Session == [email : Emails, expiresAt : Nat, password : Passwords, used : Nat]
Request(at, e, p) == [at |-> at, email |-> e, password |-> p, account |-> NoAccount]
Idle == Request("idle", "", "")
NoCookie == [id |-> 0, dies |-> 0]

Init ==
  /\ now = 0
  \* the accounts of an earlier version may have weaker hashes
  /\ users \in [Emails -> {NoAccount} \cup [password : Passwords, strong : {FALSE}]]
  /\ stored = users
  /\ sessions = <<>> /\ created = 0
  /\ failures = [e \in Emails |-> <<>>]
  /\ cookie = [c \in Clients |-> NoCookie]
  /\ req = [c \in Clients |-> Idle]
  /\ restarts = 0

At(c, place) == req[c].at = place
Goto(c, place) == req' = [req EXCEPT ![c].at = place]
Answer(c) == req' = [req EXCEPT ![c] = Idle]

-----------------------------------------------------------------------------
(* Accounts.                                                               *)

\* Register, before the lock: validation and hashing.
Register(c, e, p) ==
  /\ At(c, "idle")
  /\ e \in Admitted
  /\ req' = [req EXCEPT ![c] = Request("register", e, p)]
  /\ UNCHANGED <<now, users, stored, sessions, created, failures, cookie, restarts>>

\* Register, under the lock: a taken address is refused.  A board that saves
\* within each call and cannot answers with the error, and keeps the account.
CreateUser(c) ==
  /\ At(c, "register")
  /\ LET e == req[c].email
     IN  IF users[e] # NoAccount
           THEN Answer(c) /\ UNCHANGED users
           ELSE /\ users' = [users EXCEPT ![e] =
                               [password |-> req[c].password, strong |-> TRUE]]
                /\ Goto(c, "session") \/ Answer(c)
  /\ UNCHANGED <<now, stored, sessions, created, failures, cookie, restarts>>

\* Authenticate, first part: the credentials are copied under the lock.
CopyCredentials(c) ==
  /\ At(c, "login")
  /\ req' = [req EXCEPT ![c].at = "verify", ![c].account = users[req[c].email]]
  /\ UNCHANGED <<now, users, stored, sessions, created, failures, cookie, restarts>>

\* Variant: the account with a weak hash is let in before it is verified.
VerifyWeakLate(c) ==
  /\ At(c, "verify")
  /\ LET a == req[c].account
     IN  Goto(c, IF a = NoAccount THEN "failed"
                 ELSE IF ~a.strong THEN "rehash"
                 ELSE IF a.password = req[c].password THEN "success" ELSE "failed")
  /\ UNCHANGED <<now, users, stored, sessions, created, failures, cookie, restarts>>

\* Authenticate, second part: an unknown address and a wrong password fail
\* alike; a hash with too few iterations is to be replaced.
Verify(c) ==
  /\ At(c, "verify")
  /\ LET a == req[c].account
     IN  Goto(c, IF a = NoAccount \/ a.password # req[c].password THEN "failed"
                 ELSE IF a.strong THEN "success" ELSE "rehash")
  /\ UNCHANGED <<now, users, stored, sessions, created, failures, cookie, restarts>>

\* rehash, under the lock.
Rehash(c) ==
  /\ At(c, "rehash")
  /\ LET e == req[c].email
     IN  IF users[e] = NoAccount
           THEN UNCHANGED users
           ELSE users' = [users EXCEPT ![e] =
                            [password |-> req[c].password, strong |-> TRUE]]
  /\ Goto(c, "success")
  /\ UNCHANGED <<now, stored, sessions, created, failures, cookie, restarts>>

-----------------------------------------------------------------------------
(* handleLogin and the limiter.                                            *)

\* The loop of allowed over the failures of an address.
Recent(e) ==
  LET kept[i \in 0 .. Len(failures[e])] ==
        IF i = 0 THEN <<>>
        ELSE IF failures[e][i] > now - Window
               THEN Append(kept[i - 1], failures[e][i])
               ELSE kept[i - 1]
  IN  kept[Len(failures[e])]

\* Variant: one failure too many is allowed.
AllowedOneMore(e) == Len(Recent(e)) <= MaxFailures

Allowed(e) == Len(Recent(e)) < MaxFailures

\* handleLogin begins: allowed prunes the old failures and decides.
Login(c, e, p) ==
  /\ At(c, "idle")
  /\ failures' = [failures EXCEPT ![e] = Recent(e)]
  /\ IF Allowed(e)
       THEN req' = [req EXCEPT ![c] = Request("login", e, p)]
       ELSE UNCHANGED req
  /\ UNCHANGED <<now, users, stored, sessions, created, cookie, restarts>>

RecordFailure(c) ==
  /\ At(c, "failed")
  /\ failures' = [failures EXCEPT ![req[c].email] = Append(@, now)]
  /\ Answer(c)
  /\ UNCHANGED <<now, users, stored, sessions, created, cookie, restarts>>

RecordSuccess(c) ==
  /\ At(c, "success")
  /\ failures' = [failures EXCEPT ![req[c].email] = <<>>]
  /\ Goto(c, "session")
  /\ UNCHANGED <<now, users, stored, sessions, created, cookie, restarts>>

-----------------------------------------------------------------------------
(* Sessions.                                                               *)

Without(ids) == [i \in DOMAIN sessions \ ids |-> sessions[i]]

\* startSession, after a registration or a login: the cookie is given the age
\* that the session has now.
StartSession(c) ==
  /\ At(c, "session")
  /\ created < MaxSessions
  /\ created' = created + 1
  /\ sessions' = [i \in DOMAIN sessions \cup {created'} |->
                    IF i = created'
                      THEN [email |-> req[c].email, expiresAt |-> now + TTL,
                            password |-> req[c].password, used |-> now]
                      ELSE sessions[i]]
  /\ cookie' = [cookie EXCEPT ![c] = [id |-> created', dies |-> now + TTL]]
  /\ Answer(c)
  /\ UNCHANGED <<now, users, stored, failures, restarts>>

\* Variant: the validated session is written back without looking whether it
\* has been ended.
MeWritesBack(c) ==
  /\ At(c, "idle") /\ cookie[c].id # 0
  /\ sessions' = [i \in DOMAIN sessions \cup {cookie[c].id} |->
                    IF i = cookie[c].id
                      THEN [email |-> CHOOSE e \in Emails : TRUE, expiresAt |-> now + TTL,
                            password |-> CHOOSE p \in Passwords : TRUE, used |-> now]
                      ELSE sessions[i]]
  /\ UNCHANGED <<now, users, stored, created, failures, cookie, req, restarts>>

\* Variant: using a session does not extend it.
MeNoSlide(c) ==
  /\ At(c, "idle") /\ cookie[c].id \in DOMAIN sessions
  /\ sessions' = IF now > sessions[cookie[c].id].expiresAt
                   THEN Without({cookie[c].id})
                   ELSE [sessions EXCEPT ![cookie[c].id].used = now]
  /\ UNCHANGED <<now, users, stored, created, failures, cookie, req, restarts>>

\* handleMe: validate ends an expired session and extends a live one, whose
\* cookie stays as it is; the cookie of an account that is gone is cleared.
Me(c) ==
  /\ At(c, "idle") /\ cookie[c].id \in DOMAIN sessions
  /\ LET id == cookie[c].id
     IN  IF now > sessions[id].expiresAt
           THEN sessions' = Without({id}) /\ UNCHANGED cookie
           ELSE /\ sessions' = [sessions EXCEPT ![id].expiresAt = now + TTL,
                                                 ![id].used = now]
                /\ cookie' = IF users[sessions[id].email] = NoAccount
                               THEN [cookie EXCEPT ![c] = NoCookie]
                               ELSE cookie
  /\ UNCHANGED <<now, users, stored, created, failures, req, restarts>>

Logout(c) ==
  /\ At(c, "idle") /\ cookie[c].id # 0
  /\ sessions' = Without({cookie[c].id})
  /\ cookie' = [cookie EXCEPT ![c] = NoCookie]
  /\ UNCHANGED <<now, users, stored, created, failures, req, restarts>>

\* sessionStore.sweep, run by the server's ticker.
SweepSessions ==
  /\ \E i \in DOMAIN sessions : now > sessions[i].expiresAt
  /\ sessions' = Without({i \in DOMAIN sessions : now > sessions[i].expiresAt})
  /\ UNCHANGED <<now, users, stored, created, failures, cookie, req, restarts>>

-----------------------------------------------------------------------------
(* The environment.                                                        *)

\* Time passes; a browser drops a cookie that has reached its age.
Tick ==
  /\ now < MaxTime
  /\ now' = now + 1
  /\ cookie' = [c \in Clients |->
                  IF cookie[c].dies < now + 1 THEN NoCookie ELSE cookie[c]]
  /\ UNCHANGED <<users, stored, sessions, created, failures, req, restarts>>

SaveUsers ==
  /\ stored # users
  /\ stored' = users
  /\ UNCHANGED <<now, users, sessions, created, failures, cookie, req, restarts>>

\* The server crashes and starts again: sessions and failures are not stored,
\* an account that was not saved is lost and one whose new hash was not saved
\* has the old one again, requests in progress are cut off.
Restart ==
  /\ restarts < MaxRestarts
  /\ restarts' = restarts + 1
  /\ users' = stored
  /\ sessions' = <<>>
  /\ failures' = [e \in Emails |-> <<>>]
  /\ req' = [c \in Clients |-> Idle]
  /\ UNCHANGED <<now, stored, created, cookie>>

Next ==
  \/ Tick \/ SaveUsers \/ Restart \/ SweepSessions
  \/ \E c \in Clients :
       \/ \E e \in Emails, p \in Passwords : Register(c, e, p) \/ Login(c, e, p)
       \/ CreateUser(c) \/ CopyCredentials(c) \/ Verify(c) \/ Rehash(c)
       \/ RecordFailure(c) \/ RecordSuccess(c)
       \/ StartSession(c) \/ Me(c) \/ Logout(c)

Spec == Init /\ [][Next]_vars

-----------------------------------------------------------------------------
(* Properties.                                                             *)

Places == {"idle", "register", "login", "verify", "rehash", "failed", "success",
           "session"}

Requests == [at : Places, email : Emails \cup {""}, password : Passwords \cup {""},
             account : Account \cup {NoAccount}]

\* A request past the first step has an address and a password.
RequestsOK ==
  /\ req \in [Clients -> Requests]
  /\ \A c \in Clients :
       ~At(c, "idle") => req[c].email \in Emails /\ req[c].password \in Passwords

\* A session has a number that was given out.
SessionsOK ==
  /\ created \in Nat
  /\ DOMAIN sessions \subseteq 1..created
  /\ \A i \in DOMAIN sessions : sessions[i] \in Session

\* The variables have their types.
TypeOK ==
  /\ now \in Nat /\ restarts \in Nat
  /\ users \in [Emails -> Account \cup {NoAccount}]
  /\ stored \in [Emails -> Account \cup {NoAccount}]
  /\ failures \in [Emails -> Seq(Nat)]
  /\ cookie \in [Clients -> [id : Nat, dies : Nat]]
  /\ RequestsOK /\ SessionsOK

\* Whoever has a session knows the password of its account, which exists:
\* neither a race of two registrations for one address, nor a login that
\* overtakes one, nor a restart that loses an account leaves a session for
\* somebody else's account.
SessionNeedsPassword ==
  \A i \in DOMAIN sessions :
    /\ users[sessions[i].email] # NoAccount
    /\ users[sessions[i].email].password = sessions[i].password

Trying(e) == {c \in Clients : req[c].email = e
                                /\ req[c].at \in {"login", "verify", "failed"}}

\* The limiter is checked before the password and told of a failure after it,
\* so logins in progress together may all pass.  However they interleave, the
\* failures counted for an address never exceed the limit by more than the
\* other logins in progress.
FailuresBounded ==
  \A e \in Emails :
    Len(failures[e]) + Cardinality(Trying(e)) <= MaxFailures - 1 + Cardinality(Clients)

\* A session that has ended, by logout, by expiry or by a restart, never comes
\* back, whatever requests with its cookie were on their way.
EndedStaysEnded ==
  [][\A i \in 1..created : i \notin DOMAIN sessions => i \notin DOMAIN sessions']_vars

\* A session ends only by the logout of the browser that has its cookie, by a
\* restart, or when it has not been used for longer than its time to live.
SessionEndsForAReason ==
  [][\A i \in DOMAIN sessions : i \in DOMAIN sessions'
       \/ restarts' # restarts
       \/ (\E c \in Clients : cookie[c].id = i /\ cookie'[c] = NoCookie)
       \/ now > sessions[i].used + TTL]_vars
=============================================================================
