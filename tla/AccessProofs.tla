---------------------------- MODULE AccessProofs ----------------------------
(***************************************************************************)
(* Proofs about Access, for any browsers, addresses, passwords, windows    *)
(* and limits: whoever has a session knows the password of its account,    *)
(* the failures counted by the limiter are bounded, an ended session stays *)
(* ended, and none ends without a reason.                                  *)
(*                                                                         *)
(* The argument follows the credentials through the steps of a login.  The *)
(* password of an account never changes while the server runs (rehash puts *)
(* the same one back), so what was verified against a copy outside the     *)
(* lock still holds when the session is made; a restart, which may lose    *)
(* the account, also loses every login in progress and every session.      *)
(***************************************************************************)
EXTENDS Access, FiniteSetTheorems, WellFoundedInduction, TLAPS

-----------------------------------------------------------------------------
(* Induction over the naturals, for sets instead of predicates: the        *)
(* provers can instantiate a set.                                          *)

\* Every set of naturals that is not empty has a least element.
LEMMA LeastNat ==
  ASSUME NEW T, T \subseteq Nat, T # {}
  PROVE  \E x \in T : \A y \in T : x <= y
<1> DEFINE R == OpToRel(<, Nat)
<1>1. IsWellFoundedOn(R, Nat)
  BY NatLessThanWellFounded
<1>2. \A y, x \in Nat : y < x => <<y, x>> \in R
  BY DEF OpToRel
<1> HIDE DEF R
<1>3. PICK x \in T : \A y \in T : ~ (<<y, x>> \in R)
  BY <1>1, WFMin
<1>4. ASSUME NEW y \in T PROVE x <= y
  <2>1. x \in Nat /\ y \in Nat /\ ~(y < x)
    BY <1>2, <1>3
  <2>2. QED
    BY <2>1
<1>5. QED
  BY <1>4

\* A set that has 0 and with a natural its successor has all naturals.
LEMMA NatSetInduction ==
  ASSUME NEW S, 0 \in S, \A n \in Nat : n \in S => n + 1 \in S
  PROVE  Nat \subseteq S
<1> SUFFICES ASSUME ~(Nat \subseteq S) PROVE FALSE
  OBVIOUS
<1> DEFINE T == Nat \ S
<1>1. PICK x \in T : \A y \in T : x <= y
  BY LeastNat
<1>2. x # 0 /\ x - 1 \in Nat /\ x - 1 \notin T
  BY <1>1
<1>3. QED
  BY <1>1, <1>2

-----------------------------------------------------------------------------
(* The loop of allowed.                                                    *)

\* One turn: a failure that is not old is kept.
Keep(kept, t, old) == IF t > old THEN Append(kept, t) ELSE kept

\* g is what the loop over s has kept after each of its first n turns.
IsLoop(g, s, old, n) ==
  g = [i \in 0 .. n |-> IF i = 0 THEN <<>> ELSE Keep(g[i - 1], s[i], old)]

\* The turns of a loop, one by one.
LEMMA LoopTurns ==
  ASSUME NEW g, NEW s, NEW old, NEW n \in Nat, IsLoop(g, s, old, n)
  PROVE  /\ g[0] = <<>>
         /\ \A i \in 1 .. n : g[i] = Keep(g[i - 1], s[i], old)
<1>1. \A i \in 0 .. n : g[i] = IF i = 0 THEN <<>> ELSE Keep(g[i - 1], s[i], old)
  BY Zenon DEF IsLoop
<1>2. QED
  BY <1>1

\* The recursion has a solution: a loop of n turns can take one more.
LEMMA LoopExists ==
  ASSUME NEW s, NEW old
  PROVE  \A n \in Nat : \E g : IsLoop(g, s, old, n)
<1> DEFINE S == {n \in Nat : \E g : IsLoop(g, s, old, n)}
<1>1. 0 \in S
  <2> DEFINE g == [i \in 0 .. 0 |-> <<>>]
  <2>1. IsLoop(g, s, old, 0)
    BY DEF IsLoop
  <2>2. QED
    BY <2>1
<1>2. ASSUME NEW n \in Nat, n \in S PROVE n + 1 \in S
  <2>1. PICK g : IsLoop(g, s, old, n)
    BY <1>2
  <2>2. /\ g[0] = <<>>
        /\ \A i \in 1 .. n : g[i] = Keep(g[i - 1], s[i], old)
    BY <2>1, LoopTurns
  <2> DEFINE h == [i \in 0 .. n + 1 |->
                     IF i <= n THEN g[i] ELSE Keep(g[n], s[n + 1], old)]
  <2>3. ASSUME NEW i \in 0 .. n + 1
        PROVE  h[i] = IF i = 0 THEN <<>> ELSE Keep(h[i - 1], s[i], old)
    <3>1. CASE i = 0
      BY <2>2, <3>1
    <3>2. CASE i \in 1 .. n
      BY <2>2, <3>2
    <3>3. CASE i = n + 1
      BY <3>3
    <3>4. QED
      BY <3>1, <3>2, <3>3
  <2>4. IsLoop(h, s, old, n + 1)
    BY <2>3 DEF IsLoop
  <2>5. QED
    BY <2>4
<1> HIDE DEF S
<1>3. Nat \subseteq S
  BY <1>1, <1>2, NatSetInduction
<1>4. QED
  BY <1>3 DEF S

\* Every turn keeps at most one failure.
LEMMA LoopShrinks ==
  ASSUME NEW s \in Seq(Nat), NEW old, NEW g, IsLoop(g, s, old, Len(s))
  PROVE  g[Len(s)] \in Seq(Nat) /\ Len(g[Len(s)]) <= Len(s)
<1> DEFINE Good(n) == g[n] \in Seq(Nat) /\ Len(g[n]) <= n
           S == {n \in Nat : n <= Len(s) => Good(n)}
<1>1. /\ g[0] = <<>>
      /\ \A i \in 1 .. Len(s) : g[i] = Keep(g[i - 1], s[i], old)
  BY LoopTurns
<1>2. 0 \in S
  <2>1. <<>> \in Seq(Nat) /\ Len(<<>>) <= 0
    OBVIOUS
  <2>2. Good(0)
    BY <1>1, <2>1, Zenon
  <2>3. QED
    BY <2>2
<1>3. ASSUME NEW n \in Nat, n \in S PROVE n + 1 \in S
  <2>1. SUFFICES ASSUME n + 1 <= Len(s) PROVE Good(n + 1)
    OBVIOUS
  <2>2. Good(n) /\ s[n + 1] \in Nat
    BY <1>3, <2>1
  <2>3. g[n + 1] = Keep(g[n], s[n + 1], old)
    BY <1>1, <2>1
  <2>4. CASE g[n + 1] = g[n]
    BY <2>2, <2>4
  <2>5. CASE g[n + 1] = Append(g[n], s[n + 1])
    BY <2>2, <2>5
  <2>6. QED
    BY <2>3, <2>4, <2>5 DEF Keep
<1> HIDE DEF S
<1>4. Nat \subseteq S
  BY <1>2, <1>3, NatSetInduction
<1>5. QED
  BY <1>4 DEF S

\* Pruning makes the list of an address no longer.
LEMMA RecentShrinks ==
  ASSUME failures \in [Emails -> Seq(Nat)], NEW e \in Emails
  PROVE  Recent(e) \in Seq(Nat) /\ Len(Recent(e)) <= Len(failures[e])
<1> DEFINE s == failures[e]
           old == now - Window
           kept == CHOOSE g : IsLoop(g, s, old, Len(s))
<1>1. s \in Seq(Nat) /\ Len(s) \in Nat
  OBVIOUS
<1>2. Recent(e) = kept[Len(s)]
  BY DEF Recent, IsLoop, Keep
<1> HIDE DEF s, old
<1>3. \E g : IsLoop(g, s, old, Len(s))
  BY <1>1, LoopExists
<1>4. IsLoop(kept, s, old, Len(s))
  BY <1>3, Zenon
<1> HIDE DEF kept
<1>5. kept[Len(s)] \in Seq(Nat) /\ Len(kept[Len(s)]) <= Len(s)
  BY <1>1, <1>4, LoopShrinks
<1>6. QED
  BY <1>2, <1>5 DEF s

-----------------------------------------------------------------------------
(* The inductive invariant.                                                *)

\* What a login has found out about the password still holds: the copy it
\* verifies has the account's password, and past the check its own password is
\* the account's.
Credentials(c) ==
  /\ (At(c, "verify") /\ req[c].account # NoAccount)
       => users[req[c].email].password = req[c].account.password
  /\ req[c].at \in {"rehash", "success", "session"}
       => users[req[c].email].password = req[c].password

CredentialsHold == \A c \in Clients : Credentials(c)

\* Whoever has a session knows the password of its account.
OwnersKnow ==
  \A i \in DOMAIN sessions : users[sessions[i].email].password = sessions[i].password

\* A session expires a time to live after its last use.
SessionsSlide ==
  \A i \in DOMAIN sessions : sessions[i].expiresAt = sessions[i].used + TTL

\* The parts that the clock, the accounts and the sessions need.
AccessInv == TypeOK /\ CredentialsHold /\ OwnersKnow /\ SessionsSlide /\ FailuresBounded

-----------------------------------------------------------------------------
(* Types.                                                                  *)

\* An account has a password, and no account has none.
LEMMA NoPassword == NoAccount \notin Account /\ NoAccount.password \notin Passwords
  BY AccessAssumption DEF NoAccount, Account

\* What a session and its cookie are given for an end is a time.
LEMMA EndIsATime ==
  ASSUME TypeOK
  PROVE  now \in Nat /\ now + TTL \in Nat
<1>1. now \in Nat /\ TTL \in Nat
  BY AccessAssumption DEF TypeOK
<1>2. QED
  BY <1>1

\* A browser's request may be set to anything that is a request.
LEMMA SetRequest ==
  ASSUME RequestsOK, NEW c \in Clients, NEW r \in Requests,
         r.at # "idle" => r.email \in Emails /\ r.password \in Passwords,
         req' = [req EXCEPT ![c] = r]
  PROVE  RequestsOK'
  BY DEF RequestsOK, At

\* A request in progress may go to any place.
LEMMA GotoKeepsType ==
  ASSUME RequestsOK, NEW c \in Clients, ~At(c, "idle"), NEW place \in Places,
         Goto(c, place)
  PROVE  RequestsOK'
<1> DEFINE r == [req[c] EXCEPT !.at = place]
<1>1. r \in Requests /\ r.email = req[c].email /\ r.password = req[c].password
  BY DEF RequestsOK, Requests
<1>2. req' = [req EXCEPT ![c] = r]
  BY DEF Goto
<1> HIDE DEF r
<1>3. QED
  BY <1>1, <1>2, SetRequest DEF RequestsOK, At

\* A request may begin, and end.
LEMMA RequestTypes ==
  /\ Idle \in Requests /\ Idle.at = "idle"
  /\ \A e \in Emails, p \in Passwords, at \in Places :
       /\ Request(at, e, p) \in Requests
       /\ Request(at, e, p).email = e /\ Request(at, e, p).password = p
       /\ Request(at, e, p).at = at /\ Request(at, e, p).account = NoAccount
<1>1. Idle \in Requests /\ Idle.at = "idle"
  BY DEF Idle, Request, Requests, Places
<1>2. ASSUME NEW e \in Emails, NEW p \in Passwords, NEW at \in Places
      PROVE  /\ Request(at, e, p) \in Requests
             /\ Request(at, e, p).email = e /\ Request(at, e, p).password = p
             /\ Request(at, e, p).at = at /\ Request(at, e, p).account = NoAccount
  BY DEF Request, Requests
<1>3. QED
  BY <1>1, <1>2

\* The answer ends a request.
LEMMA AnswerKeepsType ==
  ASSUME RequestsOK, NEW c \in Clients, Answer(c)
  PROVE  RequestsOK'
  BY RequestTypes, SetRequest DEF Answer

\* What is left of the sessions keeps its type.
LEMMA WithoutKeepsType ==
  ASSUME SessionsOK, NEW ids, sessions' = Without(ids), UNCHANGED created
  PROVE  SessionsOK'
  BY DEF SessionsOK, Without

\* Every step keeps the types.
LEMMA TypeStep ==
  ASSUME TypeOK, [Next]_vars
  PROVE  TypeOK'
<1>1. CASE Tick
  <2>1. now' \in Nat /\ cookie' \in [Clients -> [id : Nat, dies : Nat]]
    BY <1>1 DEF Tick, TypeOK, NoCookie
  <2>2. QED
    BY <1>1, <2>1 DEF Tick, TypeOK, RequestsOK, SessionsOK, At
<1>2. CASE SaveUsers
  BY <1>2 DEF SaveUsers, TypeOK, RequestsOK, SessionsOK, At
<1>3. CASE Restart
  <2>1. users' \in [Emails -> Account \cup {NoAccount}]
    BY <1>3 DEF Restart, TypeOK
  <2>2. failures' \in [Emails -> Seq(Nat)]
    BY <1>3 DEF Restart
  <2>3. RequestsOK'
    BY <1>3, RequestTypes DEF Restart, RequestsOK, At
  <2>4. SessionsOK'
    BY <1>3 DEF Restart, TypeOK, SessionsOK
  <2>5. QED
    BY <1>3, <2>1, <2>2, <2>3, <2>4 DEF Restart, TypeOK
<1>4. CASE SweepSessions
  <2>1. SessionsOK'
    BY <1>4, WithoutKeepsType DEF SweepSessions, TypeOK
  <2>2. QED
    BY <1>4, <2>1 DEF SweepSessions, TypeOK, RequestsOK, At
<1>5. ASSUME NEW c \in Clients, NEW e \in Emails, NEW p \in Passwords, Register(c, e, p)
      PROVE  TypeOK'
  <2> DEFINE r == Request("register", e, p)
  <2>1. r \in Requests /\ r.email = e /\ r.password = p
    BY RequestTypes DEF Places
  <2>2. req' = [req EXCEPT ![c] = r] /\ RequestsOK
    BY <1>5 DEF Register, TypeOK
  <2> HIDE DEF r
  <2>3. RequestsOK'
    BY <2>1, <2>2, SetRequest
  <2>4. QED
    BY <1>5, <2>3 DEF Register, TypeOK, SessionsOK
<1>6. ASSUME NEW c \in Clients, NEW e \in Emails, NEW p \in Passwords, Login(c, e, p)
      PROVE  TypeOK'
  <2>1. RequestsOK'
    <3> DEFINE r == Request("login", e, p)
    <3>1. CASE Allowed(e)
      <4>1. r \in Requests /\ r.email = e /\ r.password = p
        BY RequestTypes DEF Places
      <4>2. req' = [req EXCEPT ![c] = r] /\ RequestsOK
        BY <1>6, <3>1 DEF Login, TypeOK
      <4> HIDE DEF r
      <4>3. QED
        BY <4>1, <4>2, SetRequest
    <3>2. CASE ~Allowed(e)
      BY <1>6, <3>2 DEF Login, TypeOK, RequestsOK, At
    <3>3. QED
      BY <3>1, <3>2
  <2>2. failures' \in [Emails -> Seq(Nat)]
    BY <1>6, RecentShrinks DEF Login, TypeOK
  <2>3. QED
    BY <1>6, <2>1, <2>2 DEF Login, TypeOK, SessionsOK
<1>7. ASSUME NEW c \in Clients, CreateUser(c)
      PROVE  TypeOK'
  <2>1. RequestsOK'
    <3>1. CASE Goto(c, "session")
      BY <1>7, <3>1, GotoKeepsType DEF CreateUser, TypeOK, Places, At
    <3>2. CASE Answer(c)
      BY <1>7, <3>2, AnswerKeepsType DEF CreateUser, TypeOK
    <3>3. QED
      BY <1>7, <3>1, <3>2 DEF CreateUser
  <2>2. req[c].email \in Emails /\ req[c].password \in Passwords
    BY <1>7 DEF CreateUser, TypeOK, RequestsOK, At
  <2>3. users' \in [Emails -> Account \cup {NoAccount}] /\ stored' = stored
    <3> DEFINE a == [password |-> req[c].password, strong |-> TRUE]
    <3>1. a \in Account
      BY <2>2 DEF Account
    <3>2. \/ UNCHANGED users
          \/ users' = [users EXCEPT ![req[c].email] = a]
      BY <1>7 DEF CreateUser
    <3> HIDE DEF a
    <3>3. users' \in [Emails -> Account \cup {NoAccount}]
      BY <2>2, <3>1, <3>2 DEF TypeOK
    <3>4. QED
      BY <1>7, <3>3 DEF CreateUser
  <2>4. QED
    BY <1>7, <2>1, <2>3 DEF CreateUser, TypeOK, SessionsOK
<1>8. ASSUME NEW c \in Clients, CopyCredentials(c)
      PROVE  TypeOK'
  <2> DEFINE r == [req[c] EXCEPT !.at = "verify", !.account = users[req[c].email]]
  <2>1. req[c] \in Requests /\ req[c].email \in Emails /\ req[c].password \in Passwords
    BY <1>8 DEF CopyCredentials, TypeOK, RequestsOK, At
  <2>2. r \in Requests /\ r.email \in Emails /\ r.password \in Passwords
    BY <2>1 DEF Requests, Places, TypeOK
  <2>3. req' = [req EXCEPT ![c] = r]
    BY <1>8 DEF CopyCredentials
  <2> HIDE DEF r
  <2>4. RequestsOK'
    BY <2>2, <2>3, SetRequest DEF TypeOK
  <2>5. QED
    BY <1>8, <2>4 DEF CopyCredentials, TypeOK, SessionsOK
<1>9. ASSUME NEW c \in Clients, Verify(c)
      PROVE  TypeOK'
  <2>1. \E place \in {"failed", "success", "rehash"} : Goto(c, place)
    BY <1>9 DEF Verify
  <2>2. RequestsOK'
    BY <1>9, <2>1, GotoKeepsType DEF Verify, TypeOK, Places, At
  <2>3. QED
    BY <1>9, <2>2 DEF Verify, TypeOK, SessionsOK
<1>10. ASSUME NEW c \in Clients, Rehash(c)
      PROVE  TypeOK'
  <2>1. RequestsOK'
    BY <1>10, GotoKeepsType DEF Rehash, TypeOK, Places, At
  <2>2. req[c].email \in Emails /\ req[c].password \in Passwords
    BY <1>10 DEF Rehash, TypeOK, RequestsOK, At
  <2>3. users' \in [Emails -> Account \cup {NoAccount}] /\ stored' = stored
    <3> DEFINE a == [password |-> req[c].password, strong |-> TRUE]
    <3>1. a \in Account
      BY <2>2 DEF Account
    <3>2. \/ UNCHANGED users
          \/ users' = [users EXCEPT ![req[c].email] = a]
      BY <1>10 DEF Rehash
    <3> HIDE DEF a
    <3>3. users' \in [Emails -> Account \cup {NoAccount}]
      BY <2>2, <3>1, <3>2 DEF TypeOK
    <3>4. QED
      BY <1>10, <3>3 DEF Rehash
  <2>4. QED
    BY <1>10, <2>1, <2>3 DEF Rehash, TypeOK, SessionsOK
<1>11. ASSUME NEW c \in Clients, RecordFailure(c)
      PROVE  TypeOK'
  <2>1. RequestsOK'
    BY <1>11, AnswerKeepsType DEF RecordFailure, TypeOK
  <2>2. failures' \in [Emails -> Seq(Nat)]
    <3>1. now \in Nat /\ failures \in [Emails -> Seq(Nat)] /\ req[c].email \in Emails
      BY <1>11 DEF RecordFailure, TypeOK, RequestsOK, At
    <3>2. Append(failures[req[c].email], now) \in Seq(Nat)
      BY <3>1
    <3>3. QED
      BY <1>11, <3>1, <3>2 DEF RecordFailure
  <2>3. QED
    BY <1>11, <2>1, <2>2 DEF RecordFailure, TypeOK, SessionsOK
<1>12. ASSUME NEW c \in Clients, RecordSuccess(c)
      PROVE  TypeOK'
  <2>1. RequestsOK'
    BY <1>12, GotoKeepsType DEF RecordSuccess, TypeOK, Places, At
  <2>2. failures' \in [Emails -> Seq(Nat)]
    <3>1. <<>> \in Seq(Nat)
      OBVIOUS
    <3>2. QED
      BY <1>12, <3>1 DEF RecordSuccess, TypeOK
  <2>3. QED
    BY <1>12, <2>1, <2>2 DEF RecordSuccess, TypeOK, SessionsOK
<1>13. ASSUME NEW c \in Clients, StartSession(c)
      PROVE  TypeOK'
  <2>1. RequestsOK'
    BY <1>13, AnswerKeepsType DEF StartSession, TypeOK
  <2>2. req[c].email \in Emails /\ req[c].password \in Passwords
    BY <1>13 DEF StartSession, TypeOK, RequestsOK, At
  <2>3. SessionsOK'
    <3> DEFINE s == [email |-> req[c].email, expiresAt |-> now + TTL,
                     password |-> req[c].password, used |-> now]
    <3>1. s \in Session /\ created + 1 \in Nat
      BY <2>2, EndIsATime DEF Session, TypeOK, SessionsOK
    <3>2. /\ created' = created + 1
          /\ sessions' = [i \in DOMAIN sessions \cup {created + 1} |->
                            IF i = created + 1 THEN s ELSE sessions[i]]
      BY <1>13 DEF StartSession
    <3> HIDE DEF s
    <3>3. QED
      BY <3>1, <3>2 DEF TypeOK, SessionsOK
  <2>4. cookie' \in [Clients -> [id : Nat, dies : Nat]]
    <3>1. [id |-> created + 1, dies |-> now + TTL] \in [id : Nat, dies : Nat]
      BY EndIsATime DEF TypeOK, SessionsOK
    <3>2. cookie' = [cookie EXCEPT ![c] = [id |-> created + 1, dies |-> now + TTL]]
      BY <1>13 DEF StartSession
    <3>3. QED
      BY <3>1, <3>2 DEF TypeOK
  <2>5. QED
    BY <1>13, <2>1, <2>3, <2>4 DEF StartSession, TypeOK
<1>14. ASSUME NEW c \in Clients, Me(c)
      PROVE  TypeOK'
  <2> DEFINE id == cookie[c].id
  <2>1. SessionsOK'
    <3>1. CASE now > sessions[id].expiresAt
      BY <1>14, <3>1, WithoutKeepsType DEF Me, TypeOK
    <3>2. CASE ~(now > sessions[id].expiresAt)
      <4> DEFINE s == [sessions[id] EXCEPT !.expiresAt = now + TTL, !.used = now]
      <4>1. s \in Session
        <5>1. sessions[id] \in Session
          BY <1>14 DEF Me, TypeOK, SessionsOK
        <5>2. QED
          BY <5>1, EndIsATime DEF Session
      <4>2. sessions' = [sessions EXCEPT ![id] = s] /\ created' = created
        BY <1>14, <3>2 DEF Me
      <4> HIDE DEF s
      <4>3. QED
        BY <4>1, <4>2 DEF TypeOK, SessionsOK
    <3>3. QED
      BY <3>1, <3>2
  <2>2. cookie' \in [Clients -> [id : Nat, dies : Nat]]
    <3>1. cookie' = cookie \/ cookie' = [cookie EXCEPT ![c] = NoCookie]
      BY <1>14 DEF Me
    <3>2. NoCookie \in [id : Nat, dies : Nat]
      BY DEF NoCookie
    <3>3. cookie \in [Clients -> [id : Nat, dies : Nat]]
      BY DEF TypeOK
    <3>4. QED
      BY <3>1, <3>2, <3>3
  <2>3. QED
    BY <1>14, <2>1, <2>2 DEF Me, TypeOK, RequestsOK, At
<1>15. ASSUME NEW c \in Clients, Logout(c)
      PROVE  TypeOK'
  <2>1. SessionsOK'
    BY <1>15, WithoutKeepsType DEF Logout, TypeOK
  <2>2. cookie' \in [Clients -> [id : Nat, dies : Nat]]
    BY <1>15 DEF Logout, TypeOK, NoCookie
  <2>3. QED
    BY <1>15, <2>1, <2>2 DEF Logout, TypeOK, RequestsOK, At
<1>16. CASE UNCHANGED vars
  BY <1>16 DEF vars, TypeOK, RequestsOK, SessionsOK, At
<1>17. QED
  BY <1>1, <1>2, <1>3, <1>4, <1>5, <1>6, <1>7, <1>8,
     <1>9, <1>10, <1>11, <1>12, <1>13, <1>14, <1>15, <1>16 DEF Next

-----------------------------------------------------------------------------
(* Passwords and sessions.                                                 *)

\* The step leaves every account its password.
SamePasswords ==
  \A e \in Emails : users[e] # NoAccount => users'[e].password = users[e].password

\* Registering changes no password: the address was free.
LEMMA CreateKeepsPasswords ==
  ASSUME TypeOK, NEW c \in Clients, CreateUser(c)
  PROVE  SamePasswords
  BY DEF CreateUser, SamePasswords, TypeOK

\* Nor does a stronger hash: it is the hash of the same password.
LEMMA RehashKeepsPasswords ==
  ASSUME TypeOK, CredentialsHold, NEW c \in Clients, Rehash(c)
  PROVE  SamePasswords
<1>1. users[req[c].email].password = req[c].password
  BY DEF Rehash, CredentialsHold, Credentials, At
<1> DEFINE a == [password |-> req[c].password, strong |-> TRUE]
<1>2. users' = users \/ users' = [users EXCEPT ![req[c].email] = a]
  BY DEF Rehash
<1>3. a.password = req[c].password
  OBVIOUS
<1> HIDE DEF a
<1>4. QED
  BY <1>1, <1>2, <1>3 DEF SamePasswords, TypeOK

\* An account has a password, and where the password is right there is one.
LEMMA PasswordMeansAccount ==
  ASSUME TypeOK, NEW e \in Emails
  PROVE  /\ users[e] # NoAccount => (users[e] \in Account /\ users[e].password \in Passwords)
         /\ users[e].password \in Passwords => users[e] # NoAccount
<1>1. users[e] \in Account \cup {NoAccount}
  BY DEF TypeOK
<1>2. QED
  BY <1>1, NoPassword DEF Account

\* A step that leaves a request alone leaves what it has found out.
LEMMA OtherCredentials ==
  ASSUME TypeOK, CredentialsHold, SamePasswords, NEW d \in Clients, req'[d] = req[d]
  PROVE  Credentials(d)'
<1>1. ~At(d, "idle") => /\ req[d].email \in Emails /\ req[d].password \in Passwords
                        /\ req[d].account \in Account \cup {NoAccount}
  BY DEF TypeOK, RequestsOK, Requests
<1>2. ASSUME At(d, "verify"), req[d].account # NoAccount
      PROVE  users'[req[d].email].password = req[d].account.password
  <2>1. req[d].account.password \in Passwords /\ req[d].email \in Emails
    BY <1>1, <1>2 DEF At, Account
  <2>2. users[req[d].email].password = req[d].account.password
    BY <1>2 DEF CredentialsHold, Credentials
  <2>3. QED
    BY <2>1, <2>2, PasswordMeansAccount DEF SamePasswords
<1>3. ASSUME req[d].at \in {"rehash", "success", "session"}
      PROVE  users'[req[d].email].password = req[d].password
  <2>1. req[d].password \in Passwords /\ req[d].email \in Emails
    BY <1>1, <1>3 DEF At
  <2>2. users[req[d].email].password = req[d].password
    BY <1>3 DEF CredentialsHold, Credentials
  <2>3. QED
    BY <2>1, <2>2, PasswordMeansAccount DEF SamePasswords
<1>4. QED
  BY <1>2, <1>3 DEF Credentials, At

\* A step of one request need only show what that request knows.
LEMMA OneRequest ==
  ASSUME TypeOK, CredentialsHold, SamePasswords,
         NEW c \in Clients, NEW r, req' = [req EXCEPT ![c] = r], Credentials(c)'
  PROVE  CredentialsHold'
<1>1. ASSUME NEW d \in Clients PROVE Credentials(d)'
  <2>1. CASE d = c
    BY <2>1
  <2>2. CASE d # c
    <3>1. req'[d] = req[d]
      BY <2>2 DEF TypeOK, RequestsOK
    <3>2. QED
      BY <3>1, OtherCredentials
  <2>3. QED
    BY <2>1, <2>2
<1>2. QED
  BY <1>1 DEF CredentialsHold

\* Every step keeps what the logins in progress have found out.
LEMMA CredentialsStep ==
  ASSUME TypeOK, CredentialsHold, [Next]_vars
  PROVE  CredentialsHold'
<1>1. CASE Tick
  BY <1>1 DEF Tick, CredentialsHold, Credentials, At
<1>2. CASE SaveUsers
  BY <1>2 DEF SaveUsers, CredentialsHold, Credentials, At
<1>3. CASE Restart
  <2>1. \A c \in Clients : req'[c].at = "idle"
    BY <1>3, RequestTypes DEF Restart
  <2>2. QED
    BY <2>1 DEF CredentialsHold, Credentials, At
<1>4. CASE SweepSessions
  BY <1>4 DEF SweepSessions, Without, CredentialsHold, Credentials, At
<1>5. ASSUME NEW c \in Clients, NEW e \in Emails, NEW p \in Passwords, Register(c, e, p)
      PROVE  CredentialsHold'
  <2> DEFINE r == Request("register", e, p)
  <2>1. req' = [req EXCEPT ![c] = r]
    BY <1>5 DEF Register
  <2>2. req'[c] = r
    BY <2>1 DEF TypeOK, RequestsOK
  <2>3. Credentials(c)'
    BY <2>2 DEF Credentials, At, Request
  <2>4. SamePasswords
    BY <1>5 DEF Register, SamePasswords
  <2> HIDE DEF r
  <2>5. QED
    BY <2>1, <2>3, <2>4, OneRequest
<1>6. ASSUME NEW c \in Clients, NEW e \in Emails, NEW p \in Passwords, Login(c, e, p)
      PROVE  CredentialsHold'
  <2>1. CASE Allowed(e)
    <3> DEFINE r == Request("login", e, p)
    <3>1. req' = [req EXCEPT ![c] = r]
      BY <1>6, <2>1 DEF Login
    <3>2. req'[c] = r
      BY <3>1 DEF TypeOK, RequestsOK
    <3>3. Credentials(c)'
      BY <3>2 DEF Credentials, At, Request
    <3>4. SamePasswords
      BY <1>6 DEF Login, SamePasswords
    <3> HIDE DEF r
    <3>5. QED
      BY <3>1, <3>3, <3>4, OneRequest
  <2>2. CASE ~Allowed(e)
    BY <1>6, <2>2 DEF Login, CredentialsHold, Credentials, At
  <2>3. QED
    BY <2>1, <2>2
<1>7. ASSUME NEW c \in Clients, CreateUser(c)
      PROVE  CredentialsHold'
  <2>1. SamePasswords
    BY <1>7, CreateKeepsPasswords
  <2>2. CASE Answer(c)
    <3>1. req' = [req EXCEPT ![c] = Idle]
      BY <2>2 DEF Answer
    <3>2. req'[c].at = "idle"
      BY <3>1, RequestTypes DEF TypeOK, RequestsOK
    <3>3. Credentials(c)'
      BY <3>2 DEF Credentials, At
    <3>4. QED
      BY <2>1, <3>1, <3>3, OneRequest
  <2>3. CASE users[req[c].email] = NoAccount /\ Goto(c, "session")
    <3> DEFINE r == [req[c] EXCEPT !.at = "session"]
    <3>1. req' = [req EXCEPT ![c] = r]
      BY <2>3 DEF Goto
    <3>2. /\ req'[c] = r /\ r.at = "session" /\ r.email = req[c].email
          /\ r.password = req[c].password
      BY <3>1 DEF TypeOK, RequestsOK, Requests
    <3> HIDE DEF r
    <3>3. users'[req[c].email].password = req[c].password
      BY <1>7, <2>3 DEF CreateUser, TypeOK, RequestsOK, At
    <3>4. Credentials(c)'
      BY <3>2, <3>3 DEF Credentials, At
    <3>5. QED
      BY <2>1, <3>1, <3>4, OneRequest
  <2>4. QED
    BY <1>7, <2>2, <2>3 DEF CreateUser
<1>8. ASSUME NEW c \in Clients, CopyCredentials(c)
      PROVE  CredentialsHold'
  <2> DEFINE r == [req[c] EXCEPT !.at = "verify", !.account = users[req[c].email]]
  <2>1. req' = [req EXCEPT ![c] = r]
    BY <1>8 DEF CopyCredentials
  <2>2. req'[c] = r
    BY <2>1 DEF TypeOK, RequestsOK
  <2>3. Credentials(c)'
    <3>1. r.at = "verify" /\ r.account = users[req[c].email] /\ r.email = req[c].email
      BY DEF TypeOK, RequestsOK, Requests
    <3>2. users' = users
      BY <1>8 DEF CopyCredentials
    <3> HIDE DEF r
    <3>3. QED
      BY <2>2, <3>1, <3>2 DEF Credentials, At
  <2>4. SamePasswords
    BY <1>8 DEF CopyCredentials, SamePasswords
  <2> HIDE DEF r
  <2>5. QED
    BY <2>1, <2>3, <2>4, OneRequest
<1>9. ASSUME NEW c \in Clients, Verify(c)
      PROVE  CredentialsHold'
  <2>1. PICK place \in {"failed", "success", "rehash"} :
           /\ Goto(c, place)
           /\ place # "failed" => /\ req[c].account # NoAccount
                                  /\ req[c].account.password = req[c].password
    BY <1>9 DEF Verify
  <2> DEFINE r == [req[c] EXCEPT !.at = place]
  <2>2. req' = [req EXCEPT ![c] = r]
    BY <2>1 DEF Goto
  <2>3. /\ req'[c] = r /\ r.at = place /\ r.email = req[c].email
        /\ r.password = req[c].password
    BY <2>2 DEF TypeOK, RequestsOK, Requests
  <2> HIDE DEF r
  <2>4. place # "failed" => users'[req[c].email].password = req[c].password
    BY <1>9, <2>1 DEF Verify, CredentialsHold, Credentials
  <2>5. Credentials(c)'
    BY <2>1, <2>3, <2>4 DEF Credentials, At
  <2>6. SamePasswords
    BY <1>9 DEF Verify, SamePasswords
  <2>7. QED
    BY <2>2, <2>5, <2>6, OneRequest
<1>10. ASSUME NEW c \in Clients, Rehash(c)
      PROVE  CredentialsHold'
  <2>1. SamePasswords
    BY <1>10, RehashKeepsPasswords
  <2> DEFINE r == [req[c] EXCEPT !.at = "success"]
  <2>2. req' = [req EXCEPT ![c] = r]
    BY <1>10 DEF Rehash, Goto
  <2>3. /\ req'[c] = r /\ r.at = "success" /\ r.email = req[c].email
        /\ r.password = req[c].password
    BY <2>2 DEF TypeOK, RequestsOK, Requests
  <2> HIDE DEF r
  <2>4. users'[req[c].email].password = req[c].password
    BY <1>10 DEF Rehash, CredentialsHold, Credentials, TypeOK, RequestsOK, At
  <2>5. Credentials(c)'
    BY <2>3, <2>4 DEF Credentials, At
  <2>6. QED
    BY <2>1, <2>2, <2>5, OneRequest
<1>11. ASSUME NEW c \in Clients, RecordFailure(c)
      PROVE  CredentialsHold'
  <2>1. req' = [req EXCEPT ![c] = Idle]
    BY <1>11 DEF RecordFailure, Answer
  <2>2. req'[c].at = "idle"
    BY <2>1, RequestTypes DEF TypeOK, RequestsOK
  <2>3. Credentials(c)'
    BY <2>2 DEF Credentials, At
  <2>4. SamePasswords
    BY <1>11 DEF RecordFailure, SamePasswords
  <2>5. QED
    BY <2>1, <2>3, <2>4, OneRequest
<1>12. ASSUME NEW c \in Clients, RecordSuccess(c)
      PROVE  CredentialsHold'
  <2>1. SamePasswords
    BY <1>12 DEF RecordSuccess, SamePasswords
  <2> DEFINE r == [req[c] EXCEPT !.at = "session"]
  <2>2. req' = [req EXCEPT ![c] = r]
    BY <1>12 DEF RecordSuccess, Goto
  <2>3. /\ req'[c] = r /\ r.at = "session" /\ r.email = req[c].email
        /\ r.password = req[c].password
    BY <2>2 DEF TypeOK, RequestsOK, Requests
  <2> HIDE DEF r
  <2>4. users'[req[c].email].password = req[c].password
    BY <1>12 DEF RecordSuccess, CredentialsHold, Credentials, At
  <2>5. Credentials(c)'
    BY <2>3, <2>4 DEF Credentials, At
  <2>6. QED
    BY <2>1, <2>2, <2>5, OneRequest
<1>13. ASSUME NEW c \in Clients, StartSession(c)
      PROVE  CredentialsHold'
  <2>1. req' = [req EXCEPT ![c] = Idle]
    BY <1>13 DEF StartSession, Answer
  <2>2. req'[c].at = "idle"
    BY <2>1, RequestTypes DEF TypeOK, RequestsOK
  <2>3. Credentials(c)'
    BY <2>2 DEF Credentials, At
  <2>4. SamePasswords
    BY <1>13 DEF StartSession, SamePasswords
  <2>5. QED
    BY <2>1, <2>3, <2>4, OneRequest
<1>14. ASSUME NEW c \in Clients, Me(c)
      PROVE  CredentialsHold'
  BY <1>14 DEF Me, Without, CredentialsHold, Credentials, At
<1>15. ASSUME NEW c \in Clients, Logout(c)
      PROVE  CredentialsHold'
  BY <1>15 DEF Logout, Without, CredentialsHold, Credentials, At
<1>16. CASE UNCHANGED vars
  BY <1>16 DEF vars, CredentialsHold, Credentials, At
<1>17. QED
  BY <1>1, <1>2, <1>3, <1>4, <1>5, <1>6, <1>7, <1>8,
     <1>9, <1>10, <1>11, <1>12, <1>13, <1>14, <1>15, <1>16 DEF Next

\* Sessions that stay with their owner and password are still known.
LEMMA OwnersStay ==
  ASSUME TypeOK, OwnersKnow, SamePasswords,
         \A i \in DOMAIN sessions' :
           /\ i \in DOMAIN sessions
           /\ sessions'[i].email = sessions[i].email
           /\ sessions'[i].password = sessions[i].password
  PROVE  OwnersKnow'
<1>1. ASSUME NEW i \in DOMAIN sessions'
      PROVE  users'[sessions'[i].email].password = sessions'[i].password
  <2>1. /\ i \in DOMAIN sessions
        /\ sessions[i].email \in Emails /\ sessions[i].password \in Passwords
    BY DEF TypeOK, SessionsOK, Session
  <2>2. users[sessions[i].email].password = sessions[i].password
    BY <2>1 DEF OwnersKnow
  <2>3. QED
    BY <2>1, <2>2, PasswordMeansAccount DEF SamePasswords
<1>2. QED
  BY <1>1 DEF OwnersKnow

\* Every step keeps sessions with those who know the password.
LEMMA OwnersStep ==
  ASSUME TypeOK, CredentialsHold, OwnersKnow, [Next]_vars
  PROVE  OwnersKnow'
<1>1. CASE Tick
  BY <1>1 DEF Tick, OwnersKnow
<1>2. CASE SaveUsers
  BY <1>2 DEF SaveUsers, OwnersKnow
<1>3. CASE Restart
  BY <1>3 DEF Restart, OwnersKnow
<1>4. CASE SweepSessions
  <2>1. /\ DOMAIN sessions' \subseteq DOMAIN sessions
        /\ \A i \in DOMAIN sessions' : sessions'[i] = sessions[i]
    BY <1>4 DEF SweepSessions, Without
  <2>2. SamePasswords
    BY <1>4 DEF SweepSessions, SamePasswords
  <2>3. QED
    BY <2>1, <2>2, OwnersStay
<1>5. ASSUME NEW c \in Clients, NEW e \in Emails, NEW p \in Passwords, Register(c, e, p)
      PROVE  OwnersKnow'
  BY <1>5 DEF Register, Request, OwnersKnow
<1>6. ASSUME NEW c \in Clients, NEW e \in Emails, NEW p \in Passwords, Login(c, e, p)
      PROVE  OwnersKnow'
  BY <1>6 DEF Login, Request, OwnersKnow
<1>7. ASSUME NEW c \in Clients, CreateUser(c)
      PROVE  OwnersKnow'
  <2>1. SamePasswords /\ sessions' = sessions
    BY <1>7, CreateKeepsPasswords DEF CreateUser
  <2>2. QED
    BY <2>1, OwnersStay
<1>8. ASSUME NEW c \in Clients, CopyCredentials(c)
      PROVE  OwnersKnow'
  BY <1>8 DEF CopyCredentials, OwnersKnow
<1>9. ASSUME NEW c \in Clients, Verify(c)
      PROVE  OwnersKnow'
  BY <1>9 DEF Verify, Goto, OwnersKnow
<1>10. ASSUME NEW c \in Clients, Rehash(c)
      PROVE  OwnersKnow'
  <2>1. SamePasswords /\ sessions' = sessions
    BY <1>10, RehashKeepsPasswords DEF Rehash
  <2>2. QED
    BY <2>1, OwnersStay
<1>11. ASSUME NEW c \in Clients, RecordFailure(c)
      PROVE  OwnersKnow'
  BY <1>11 DEF RecordFailure, Answer, Idle, Request, OwnersKnow
<1>12. ASSUME NEW c \in Clients, RecordSuccess(c)
      PROVE  OwnersKnow'
  BY <1>12 DEF RecordSuccess, Goto, OwnersKnow
<1>13. ASSUME NEW c \in Clients, StartSession(c)
      PROVE  OwnersKnow'
  <2>1. /\ users' = users
        /\ DOMAIN sessions' = DOMAIN sessions \cup {created + 1}
        /\ sessions'[created + 1].email = req[c].email
        /\ sessions'[created + 1].password = req[c].password
        /\ \A i \in DOMAIN sessions \ {created + 1} : sessions'[i] = sessions[i]
    BY <1>13 DEF StartSession
  <2>2. users[req[c].email].password = req[c].password
    BY <1>13 DEF StartSession, CredentialsHold, Credentials, At
  <2>3. QED
    BY <2>1, <2>2 DEF OwnersKnow
<1>14. ASSUME NEW c \in Clients, Me(c)
      PROVE  OwnersKnow'
  <2> DEFINE id == cookie[c].id
  <2>1. SamePasswords
    BY <1>14 DEF Me, SamePasswords
  <2>2. ASSUME NEW i \in DOMAIN sessions'
        PROVE  /\ i \in DOMAIN sessions
               /\ sessions'[i].email = sessions[i].email
               /\ sessions'[i].password = sessions[i].password
    <3>1. CASE now > sessions[id].expiresAt
      BY <1>14, <3>1 DEF Me, Without
    <3>2. CASE ~(now > sessions[id].expiresAt)
      <4> DEFINE s == [sessions[id] EXCEPT !.expiresAt = now + TTL, !.used = now]
      <4>1. id \in DOMAIN sessions /\ sessions[id] \in Session
        BY <1>14 DEF Me, TypeOK, SessionsOK
      <4>2. s.email = sessions[id].email /\ s.password = sessions[id].password
        BY <4>1 DEF Session
      <4>3. sessions' = [sessions EXCEPT ![id] = s]
        BY <1>14, <3>2 DEF Me
      <4> HIDE DEF s
      <4>4. QED
        BY <4>1, <4>2, <4>3
    <3>3. QED
      BY <3>1, <3>2
  <2>3. QED
    BY <2>1, <2>2, OwnersStay
<1>15. ASSUME NEW c \in Clients, Logout(c)
      PROVE  OwnersKnow'
  <2>1. /\ DOMAIN sessions' \subseteq DOMAIN sessions
        /\ \A i \in DOMAIN sessions' : sessions'[i] = sessions[i]
    BY <1>15 DEF Logout, Without
  <2>2. SamePasswords
    BY <1>15 DEF Logout, SamePasswords
  <2>3. QED
    BY <2>1, <2>2, OwnersStay
<1>16. CASE UNCHANGED vars
  BY <1>16 DEF vars, OwnersKnow
<1>17. QED
  BY <1>1, <1>2, <1>3, <1>4, <1>5, <1>6, <1>7, <1>8,
     <1>9, <1>10, <1>11, <1>12, <1>13, <1>14, <1>15, <1>16 DEF Next

\* Every step keeps the sessions sliding.
LEMMA SlideStep ==
  ASSUME TypeOK, SessionsSlide, [Next]_vars
  PROVE  SessionsSlide'
<1>1. CASE Tick
  BY <1>1 DEF Tick, SessionsSlide
<1>2. CASE SaveUsers
  BY <1>2 DEF SaveUsers, SessionsSlide
<1>3. CASE Restart
  BY <1>3 DEF Restart, SessionsSlide
<1>4. CASE SweepSessions
  BY <1>4 DEF SweepSessions, Without, SessionsSlide
<1>5. ASSUME NEW c \in Clients, NEW e \in Emails, NEW p \in Passwords, Register(c, e, p)
      PROVE  SessionsSlide'
  BY <1>5 DEF Register, Request, SessionsSlide
<1>6. ASSUME NEW c \in Clients, NEW e \in Emails, NEW p \in Passwords, Login(c, e, p)
      PROVE  SessionsSlide'
  BY <1>6 DEF Login, Request, SessionsSlide
<1>7. ASSUME NEW c \in Clients, CreateUser(c)
      PROVE  SessionsSlide'
  BY <1>7 DEF CreateUser, Goto, Answer, Idle, Request, SessionsSlide
<1>8. ASSUME NEW c \in Clients, CopyCredentials(c)
      PROVE  SessionsSlide'
  BY <1>8 DEF CopyCredentials, SessionsSlide
<1>9. ASSUME NEW c \in Clients, Verify(c)
      PROVE  SessionsSlide'
  BY <1>9 DEF Verify, Goto, SessionsSlide
<1>10. ASSUME NEW c \in Clients, Rehash(c)
      PROVE  SessionsSlide'
  BY <1>10 DEF Rehash, Goto, SessionsSlide
<1>11. ASSUME NEW c \in Clients, RecordFailure(c)
      PROVE  SessionsSlide'
  BY <1>11 DEF RecordFailure, Answer, Idle, Request, SessionsSlide
<1>12. ASSUME NEW c \in Clients, RecordSuccess(c)
      PROVE  SessionsSlide'
  BY <1>12 DEF RecordSuccess, Goto, SessionsSlide
<1>13. ASSUME NEW c \in Clients, StartSession(c)
      PROVE  SessionsSlide'
  <2>1. /\ DOMAIN sessions' = DOMAIN sessions \cup {created + 1}
        /\ sessions'[created + 1].expiresAt = now + TTL
        /\ sessions'[created + 1].used = now
        /\ \A i \in DOMAIN sessions \ {created + 1} : sessions'[i] = sessions[i]
    BY <1>13 DEF StartSession
  <2>2. QED
    BY <2>1 DEF SessionsSlide
<1>14. ASSUME NEW c \in Clients, Me(c)
      PROVE  SessionsSlide'
  <2> DEFINE id == cookie[c].id
  <2>1. CASE now > sessions[id].expiresAt
    BY <1>14, <2>1 DEF Me, Without, SessionsSlide
  <2>2. CASE ~(now > sessions[id].expiresAt)
    <3> DEFINE s == [sessions[id] EXCEPT !.expiresAt = now + TTL, !.used = now]
    <3>1. id \in DOMAIN sessions /\ sessions[id] \in Session
      BY <1>14 DEF Me, TypeOK, SessionsOK
    <3>2. s.expiresAt = now + TTL /\ s.used = now
      BY <3>1 DEF Session
    <3>3. sessions' = [sessions EXCEPT ![id] = s]
      BY <1>14, <2>2 DEF Me
    <3> HIDE DEF s
    <3>4. QED
      BY <3>1, <3>2, <3>3 DEF SessionsSlide
  <2>3. QED
    BY <2>1, <2>2
<1>15. ASSUME NEW c \in Clients, Logout(c)
      PROVE  SessionsSlide'
  BY <1>15 DEF Logout, Without, SessionsSlide
<1>16. CASE UNCHANGED vars
  BY <1>16 DEF vars, SessionsSlide
<1>17. QED
  BY <1>1, <1>2, <1>3, <1>4, <1>5, <1>6, <1>7, <1>8,
     <1>9, <1>10, <1>11, <1>12, <1>13, <1>14, <1>15, <1>16 DEF Next

-----------------------------------------------------------------------------
(* The limiter.                                                            *)

\* The logins in progress for an address are finitely many, at most one for
\* each browser.
LEMMA TryingIsFinite ==
  ASSUME NEW e
  PROVE  /\ IsFiniteSet(Trying(e)) /\ Cardinality(Trying(e)) \in Nat
         /\ Cardinality(Trying(e)) <= Cardinality(Clients)
         /\ Cardinality(Clients) \in Nat
<1>1. IsFiniteSet(Clients)
  BY AccessAssumption
<1>2. Trying(e) \in SUBSET Clients
  BY DEF Trying
<1>3. IsFiniteSet(Trying(e)) /\ Cardinality(Trying(e)) <= Cardinality(Clients)
  BY <1>1, <1>2, FS_Subset
<1>4. QED
  BY <1>1, <1>3, FS_CardinalityType

\* The same after a step.
LEMMA TryingStaysFinite ==
  ASSUME NEW e
  PROVE  /\ IsFiniteSet(Trying(e)') /\ Cardinality(Trying(e)') \in Nat
         /\ Cardinality(Trying(e)') <= Cardinality(Clients)
<1>1. IsFiniteSet(Clients)
  BY AccessAssumption
<1>2. Trying(e)' \in SUBSET Clients
  BY DEF Trying
<1>3. IsFiniteSet(Trying(e)') /\ Cardinality(Trying(e)') <= Cardinality(Clients)
  BY <1>1, <1>2, FS_Subset
<1>4. QED
  BY <1>3, FS_CardinalityType

\* The bound for one address.
Bounded(e) ==
  Len(failures[e]) + Cardinality(Trying(e)) <= MaxFailures - 1 + Cardinality(Clients)

\* A request that is not a login for the address adds none.
LEMMA NoMoreTrying ==
  ASSUME RequestsOK, NEW c \in Clients, NEW r, req' = [req EXCEPT ![c] = r], NEW f,
         ~(r.email = f /\ r.at \in {"login", "verify", "failed"})
  PROVE  Trying(f)' \subseteq Trying(f)
  BY DEF Trying, RequestsOK

\* Fewer failures and fewer logins in progress keep it.
LEMMA FewerIsBounded ==
  ASSUME TypeOK, TypeOK', NEW e \in Emails, Bounded(e),
         Len(failures'[e]) <= Len(failures[e]), Trying(e)' \subseteq Trying(e)
  PROVE  Bounded(e)'
<1>1. Cardinality(Trying(e)') <= Cardinality(Trying(e))
  BY TryingIsFinite, FS_Subset
<1>2. Cardinality(Trying(e)') \in Nat /\ Cardinality(Trying(e)) \in Nat /\ Cardinality(Clients) \in Nat
  BY TryingIsFinite, TryingStaysFinite
<1>3. Len(failures'[e]) \in Nat /\ Len(failures[e]) \in Nat
  BY DEF TypeOK
<1>4. MaxFailures \in Nat
  BY AccessAssumption
<1>5. \A k, l, t, u, m, n \in Nat :
        (k <= l /\ t <= u /\ l + u <= m - 1 + n) => k + t <= m - 1 + n
  OBVIOUS
<1>6. QED
  BY <1>1, <1>2, <1>3, <1>4, <1>5 DEF Bounded

\* A list shorter than the limit keeps it, whoever is logging in.
LEMMA AllowedIsBounded ==
  ASSUME TypeOK', NEW e \in Emails, Len(failures'[e]) < MaxFailures
  PROVE  Bounded(e)'
<1>1. /\ Cardinality(Trying(e)') \in Nat /\ Cardinality(Clients) \in Nat
      /\ Cardinality(Trying(e)') <= Cardinality(Clients)
  BY TryingIsFinite, TryingStaysFinite
<1>2. Len(failures'[e]) \in Nat
  BY DEF TypeOK
<1>3. MaxFailures \in Nat
  BY AccessAssumption
<1>4. QED
  BY <1>1, <1>2, <1>3 DEF Bounded

\* A login that fails is counted, and it is no longer in progress.
LEMMA FailureIsBounded ==
  ASSUME TypeOK, TypeOK', NEW c \in Clients, RecordFailure(c),
         NEW e \in Emails, e = req[c].email, Bounded(e)
  PROVE  Bounded(e)'
<1>1. c \in Trying(e)
  BY DEF RecordFailure, At, Trying
<1>2. Trying(e)' \subseteq Trying(e) \ {c}
  BY RequestTypes DEF RecordFailure, Answer, Trying, TypeOK, RequestsOK
<1>3. Len(failures'[e]) = Len(failures[e]) + 1
  BY DEF RecordFailure, TypeOK
<1>4. Cardinality(Trying(e)') <= Cardinality(Trying(e)) - 1
  <2>1. IsFiniteSet(Trying(e) \ {c}) /\ Cardinality(Trying(e) \ {c}) = Cardinality(Trying(e)) - 1
    BY <1>1, TryingIsFinite, FS_RemoveElement
  <2>2. QED
    BY <1>2, <2>1, FS_Subset
<1>5. Cardinality(Trying(e)') \in Nat /\ Cardinality(Trying(e)) \in Nat /\ Cardinality(Clients) \in Nat
  BY TryingIsFinite, TryingStaysFinite
<1>6. Len(failures[e]) \in Nat
  BY DEF TypeOK
<1>7. MaxFailures \in Nat
  BY AccessAssumption
<1>8. \A l, t, u, m, n \in Nat :
        (t <= u - 1 /\ l + u <= m - 1 + n) => l + 1 + t <= m - 1 + n
  OBVIOUS
<1>9. QED
  BY <1>3, <1>4, <1>5, <1>6, <1>7, <1>8 DEF Bounded

\* Every step keeps the bound.
LEMMA BoundStep ==
  ASSUME TypeOK, TypeOK', FailuresBounded, [Next]_vars
  PROVE  FailuresBounded'
<1>1. CASE Tick
  <2>1. \A f \in Emails : Trying(f)' \subseteq Trying(f)
    BY <1>1 DEF Tick, Trying
  <2>2. \A f \in Emails : Len(failures'[f]) <= Len(failures[f])
    BY <1>1 DEF Tick, TypeOK
  <2>3. QED
    BY <2>1, <2>2, FewerIsBounded DEF FailuresBounded, Bounded
<1>2. CASE SaveUsers
  <2>1. \A f \in Emails : Trying(f)' \subseteq Trying(f)
    BY <1>2 DEF SaveUsers, Trying
  <2>2. \A f \in Emails : Len(failures'[f]) <= Len(failures[f])
    BY <1>2 DEF SaveUsers, TypeOK
  <2>3. QED
    BY <2>1, <2>2, FewerIsBounded DEF FailuresBounded, Bounded
<1>3. CASE Restart
  <2>1. \A f \in Emails : Trying(f)' \subseteq Trying(f)
    BY <1>3, RequestTypes DEF Restart, Trying
  <2>2. \A f \in Emails : Len(failures'[f]) <= Len(failures[f])
    <3>1. Len(<<>>) = 0 /\ \A f \in Emails : Len(failures[f]) \in Nat
      BY DEF TypeOK
    <3>2. \A f \in Emails : failures'[f] = <<>> \/ failures'[f] = failures[f]
      BY <1>3 DEF Restart, TypeOK
    <3>3. QED
      BY <3>1, <3>2
  <2>3. QED
    BY <2>1, <2>2, FewerIsBounded DEF FailuresBounded, Bounded
<1>4. CASE SweepSessions
  <2>1. \A f \in Emails : Trying(f)' \subseteq Trying(f)
    BY <1>4 DEF SweepSessions, Trying
  <2>2. \A f \in Emails : Len(failures'[f]) <= Len(failures[f])
    BY <1>4 DEF SweepSessions, TypeOK
  <2>3. QED
    BY <2>1, <2>2, FewerIsBounded DEF FailuresBounded, Bounded
<1>5. ASSUME NEW c \in Clients, NEW e \in Emails, NEW p \in Passwords, Register(c, e, p)
      PROVE  FailuresBounded'
  <2>1. \A f \in Emails : Trying(f)' \subseteq Trying(f)
    BY <1>5, RequestTypes DEF Register, Trying, TypeOK, RequestsOK, Places
  <2>2. \A f \in Emails : Len(failures'[f]) <= Len(failures[f])
    BY <1>5 DEF Register, TypeOK
  <2>3. QED
    BY <2>1, <2>2, FewerIsBounded DEF FailuresBounded, Bounded
<1>6. ASSUME NEW c \in Clients, NEW e \in Emails, NEW p \in Passwords, Login(c, e, p)
      PROVE  FailuresBounded'
  <2>1. ASSUME NEW f \in Emails PROVE Bounded(f)'
    <3>1. Bounded(f)
      BY DEF FailuresBounded, Bounded
    <3>2. failures'[e] = Recent(e) /\ \A g \in Emails \ {e} : failures'[g] = failures[g]
      BY <1>6 DEF Login, TypeOK
    <3>3. CASE f = e /\ Allowed(e)
      BY <3>2, <3>3, AllowedIsBounded DEF Allowed
    <3>4. CASE f # e \/ ~Allowed(e)
      <4>1. Trying(f)' \subseteq Trying(f)
        <5>1. CASE ~Allowed(e)
          BY <1>6, <5>1 DEF Login, Trying
        <5>2. CASE f # e /\ Allowed(e)
          <6> DEFINE r == Request("login", e, p)
          <6>1. req' = [req EXCEPT ![c] = r] /\ RequestsOK
            BY <1>6, <5>2 DEF Login, TypeOK
          <6>2. r.email # f
            BY <5>2 DEF Request
          <6> HIDE DEF r
          <6>3. QED
            BY <6>1, <6>2, NoMoreTrying
        <5>3. QED
          BY <3>4, <5>1, <5>2
      <4>2. Len(failures'[f]) <= Len(failures[f])
        <5>1. Len(failures[f]) \in Nat /\ Len(Recent(e)) <= Len(failures[e])
          BY RecentShrinks DEF TypeOK
        <5>2. QED
          BY <3>2, <5>1
      <4>3. QED
        BY <3>1, <4>1, <4>2, FewerIsBounded
    <3>5. QED
      BY <3>3, <3>4
  <2>2. QED
    BY <2>1 DEF FailuresBounded, Bounded
<1>7. ASSUME NEW c \in Clients, CreateUser(c)
      PROVE  FailuresBounded'
  <2>1. \A f \in Emails : Trying(f)' \subseteq Trying(f)
    <3>1. CASE Answer(c)
      BY <3>1, RequestTypes, NoMoreTrying DEF Answer, TypeOK
    <3>2. CASE Goto(c, "session")
      BY <3>2 DEF Goto, Trying, TypeOK, RequestsOK
    <3>3. QED
      BY <1>7, <3>1, <3>2 DEF CreateUser
  <2>2. \A f \in Emails : Len(failures'[f]) <= Len(failures[f])
    BY <1>7 DEF CreateUser, TypeOK
  <2>3. QED
    BY <2>1, <2>2, FewerIsBounded DEF FailuresBounded, Bounded
<1>8. ASSUME NEW c \in Clients, CopyCredentials(c)
      PROVE  FailuresBounded'
  <2>1. \A f \in Emails : Trying(f)' \subseteq Trying(f)
    BY <1>8 DEF CopyCredentials, Trying, At, TypeOK, RequestsOK
  <2>2. \A f \in Emails : Len(failures'[f]) <= Len(failures[f])
    BY <1>8 DEF CopyCredentials, TypeOK
  <2>3. QED
    BY <2>1, <2>2, FewerIsBounded DEF FailuresBounded, Bounded
<1>9. ASSUME NEW c \in Clients, Verify(c)
      PROVE  FailuresBounded'
  <2>1. \A f \in Emails : Trying(f)' \subseteq Trying(f)
    BY <1>9 DEF Verify, Trying, Goto, At, TypeOK, RequestsOK
  <2>2. \A f \in Emails : Len(failures'[f]) <= Len(failures[f])
    BY <1>9 DEF Verify, TypeOK
  <2>3. QED
    BY <2>1, <2>2, FewerIsBounded DEF FailuresBounded, Bounded
<1>10. ASSUME NEW c \in Clients, Rehash(c)
      PROVE  FailuresBounded'
  <2>1. \A f \in Emails : Trying(f)' \subseteq Trying(f)
    BY <1>10 DEF Rehash, Trying, Goto, At, TypeOK, RequestsOK
  <2>2. \A f \in Emails : Len(failures'[f]) <= Len(failures[f])
    BY <1>10 DEF Rehash, TypeOK
  <2>3. QED
    BY <2>1, <2>2, FewerIsBounded DEF FailuresBounded, Bounded
<1>11. ASSUME NEW c \in Clients, RecordFailure(c)
      PROVE  FailuresBounded'
  <2>1. ASSUME NEW f \in Emails PROVE Bounded(f)'
    <3>1. Bounded(f)
      BY DEF FailuresBounded, Bounded
    <3>2. CASE f = req[c].email
      BY <1>11, <3>1, <3>2, FailureIsBounded
    <3>3. CASE f # req[c].email
      <4>1. Trying(f)' \subseteq Trying(f)
        BY <1>11, RequestTypes DEF RecordFailure, Answer, Trying, TypeOK, RequestsOK
      <4>2. Len(failures'[f]) <= Len(failures[f])
        BY <1>11, <3>3 DEF RecordFailure, TypeOK
      <4>3. QED
        BY <3>1, <4>1, <4>2, FewerIsBounded
    <3>4. QED
      BY <3>2, <3>3
  <2>2. QED
    BY <2>1 DEF FailuresBounded, Bounded
<1>12. ASSUME NEW c \in Clients, RecordSuccess(c)
      PROVE  FailuresBounded'
  <2>1. \A f \in Emails : Trying(f)' \subseteq Trying(f)
    BY <1>12 DEF RecordSuccess, Trying, Goto, At, TypeOK, RequestsOK
  <2>2. \A f \in Emails : Len(failures'[f]) <= Len(failures[f])
    <3>1. Len(<<>>) = 0 /\ \A f \in Emails : Len(failures[f]) \in Nat
      BY DEF TypeOK
    <3>2. \A f \in Emails : failures'[f] = <<>> \/ failures'[f] = failures[f]
      BY <1>12 DEF RecordSuccess, TypeOK
    <3>3. QED
      BY <3>1, <3>2
  <2>3. QED
    BY <2>1, <2>2, FewerIsBounded DEF FailuresBounded, Bounded
<1>13. ASSUME NEW c \in Clients, StartSession(c)
      PROVE  FailuresBounded'
  <2>1. \A f \in Emails : Trying(f)' \subseteq Trying(f)
    BY <1>13, RequestTypes DEF StartSession, Trying, Answer, At, TypeOK, RequestsOK
  <2>2. \A f \in Emails : Len(failures'[f]) <= Len(failures[f])
    BY <1>13 DEF StartSession, TypeOK
  <2>3. QED
    BY <2>1, <2>2, FewerIsBounded DEF FailuresBounded, Bounded
<1>14. ASSUME NEW c \in Clients, Me(c)
      PROVE  FailuresBounded'
  <2>1. \A f \in Emails : Trying(f)' \subseteq Trying(f)
    BY <1>14 DEF Me, Trying
  <2>2. \A f \in Emails : Len(failures'[f]) <= Len(failures[f])
    BY <1>14 DEF Me, TypeOK
  <2>3. QED
    BY <2>1, <2>2, FewerIsBounded DEF FailuresBounded, Bounded
<1>15. ASSUME NEW c \in Clients, Logout(c)
      PROVE  FailuresBounded'
  <2>1. \A f \in Emails : Trying(f)' \subseteq Trying(f)
    BY <1>15 DEF Logout, Trying
  <2>2. \A f \in Emails : Len(failures'[f]) <= Len(failures[f])
    BY <1>15 DEF Logout, TypeOK
  <2>3. QED
    BY <2>1, <2>2, FewerIsBounded DEF FailuresBounded, Bounded
<1>16. CASE UNCHANGED vars
  BY <1>16 DEF vars, FailuresBounded, Trying
<1>17. QED
  BY <1>1, <1>2, <1>3, <1>4, <1>5, <1>6, <1>7, <1>8,
     <1>9, <1>10, <1>11, <1>12, <1>13, <1>14, <1>15, <1>16 DEF Next

-----------------------------------------------------------------------------
(* The theorems.                                                           *)

\* The invariant holds at first, when nobody is logged in.
LEMMA AccessInvInit == Init => AccessInv
<1> SUFFICES ASSUME Init PROVE AccessInv
  OBVIOUS
<1>1. RequestsOK /\ \A c \in Clients : req[c].at = "idle"
  BY RequestTypes DEF Init, RequestsOK, At
<1>2. SessionsOK /\ DOMAIN sessions = {}
  BY DEF Init, SessionsOK
<1>3. TypeOK
  <2>1. users \in [Emails -> Account \cup {NoAccount}]
    BY DEF Init, Account
  <2>2. failures \in [Emails -> Seq(Nat)] /\ cookie \in [Clients -> [id : Nat, dies : Nat]]
    BY DEF Init, NoCookie
  <2>3. QED
    BY <1>1, <1>2, <2>1, <2>2 DEF Init, TypeOK
<1>4. CredentialsHold /\ OwnersKnow /\ SessionsSlide
  BY <1>1, <1>2 DEF CredentialsHold, Credentials, OwnersKnow, SessionsSlide, At
<1>5. ASSUME NEW e \in Emails PROVE Bounded(e)
  <2>1. Len(failures[e]) = 0
    BY DEF Init
  <2>2. /\ Cardinality(Trying(e)) \in Nat /\ Cardinality(Clients) \in Nat
        /\ Cardinality(Trying(e)) <= Cardinality(Clients)
    BY TryingIsFinite
  <2>3. MaxFailures \in Nat /\ MaxFailures # 0
    BY AccessAssumption
  <2>4. QED
    BY <2>1, <2>2, <2>3 DEF Bounded
<1>6. QED
  BY <1>3, <1>4, <1>5 DEF AccessInv, FailuresBounded, Bounded

\* Every step keeps the invariant.
LEMMA AccessInvStep == AccessInv /\ [Next]_vars => AccessInv'
<1> SUFFICES ASSUME AccessInv, [Next]_vars PROVE AccessInv'
  OBVIOUS
<1>1. TypeOK'
  BY TypeStep DEF AccessInv
<1>2. CredentialsHold'
  BY CredentialsStep DEF AccessInv
<1>3. OwnersKnow'
  BY OwnersStep DEF AccessInv
<1>4. SessionsSlide'
  BY SlideStep DEF AccessInv
<1>5. FailuresBounded'
  BY <1>1, BoundStep DEF AccessInv
<1>6. QED
  BY <1>1, <1>2, <1>3, <1>4, <1>5 DEF AccessInv

\* The invariant holds throughout.
LEMMA AccessInvariant == Spec => []AccessInv
  BY AccessInvInit, AccessInvStep, PTL DEF Spec

\* The accounts, sessions, cookies, failures and requests keep their types.
THEOREM AccessTypeCorrect == Spec => []TypeOK
<1>1. AccessInv => TypeOK
  BY DEF AccessInv
<1>2. QED
  BY <1>1, AccessInvariant, PTL

\* Whoever has a session, through startSession after Register or Authenticate,
\* knows the password of its account, which exists, whatever registrations,
\* logins and rehashes run between the copy of the credentials and the session,
\* and whatever accounts a restart has lost.
THEOREM SessionsNeedPasswords == Spec => []SessionNeedsPassword
<1>1. AccessInv => SessionNeedsPassword
  <2> SUFFICES ASSUME AccessInv, NEW i \in DOMAIN sessions
               PROVE  /\ users[sessions[i].email] # NoAccount
                      /\ users[sessions[i].email].password = sessions[i].password
    BY DEF SessionNeedsPassword
  <2>1. sessions[i].email \in Emails /\ sessions[i].password \in Passwords
    BY DEF AccessInv, TypeOK, SessionsOK, Session
  <2>2. users[sessions[i].email].password = sessions[i].password
    BY DEF AccessInv, OwnersKnow
  <2>3. QED
    BY <2>1, <2>2, PasswordMeansAccount DEF AccessInv
<1>2. QED
  BY <1>1, AccessInvariant, PTL

\* However the logins for an address interleave between allowed and
\* recordFailure, the failures counted for it stay within the limit and the
\* other logins in progress.
THEOREM FailuresAreBounded == Spec => []FailuresBounded
<1>1. AccessInv => FailuresBounded
  BY DEF AccessInv
<1>2. QED
  BY <1>1, AccessInvariant, PTL

\* No step brings a session back.
LEMMA EndedStep ==
  ASSUME TypeOK, [Next]_vars
  PROVE  \A i \in 1..created : i \notin DOMAIN sessions => i \notin DOMAIN sessions'
<1>1. CASE Tick
  BY <1>1 DEF Tick, TypeOK
<1>2. CASE SaveUsers
  BY <1>2 DEF SaveUsers, TypeOK
<1>3. CASE Restart
  BY <1>3 DEF Restart
<1>4. CASE SweepSessions
  BY <1>4 DEF SweepSessions, Without
<1>5. ASSUME NEW c \in Clients, NEW e \in Emails, NEW p \in Passwords, Register(c, e, p)
      PROVE  \A i \in 1..created : i \notin DOMAIN sessions => i \notin DOMAIN sessions'
  BY <1>5 DEF Register, Request, TypeOK
<1>6. ASSUME NEW c \in Clients, NEW e \in Emails, NEW p \in Passwords, Login(c, e, p)
      PROVE  \A i \in 1..created : i \notin DOMAIN sessions => i \notin DOMAIN sessions'
  BY <1>6 DEF Login, Request, TypeOK
<1>7. ASSUME NEW c \in Clients, CreateUser(c)
      PROVE  \A i \in 1..created : i \notin DOMAIN sessions => i \notin DOMAIN sessions'
  BY <1>7 DEF CreateUser, Goto, Answer, Idle, Request, TypeOK
<1>8. ASSUME NEW c \in Clients, CopyCredentials(c)
      PROVE  \A i \in 1..created : i \notin DOMAIN sessions => i \notin DOMAIN sessions'
  BY <1>8 DEF CopyCredentials, TypeOK
<1>9. ASSUME NEW c \in Clients, Verify(c)
      PROVE  \A i \in 1..created : i \notin DOMAIN sessions => i \notin DOMAIN sessions'
  BY <1>9 DEF Verify, Goto, TypeOK
<1>10. ASSUME NEW c \in Clients, Rehash(c)
      PROVE  \A i \in 1..created : i \notin DOMAIN sessions => i \notin DOMAIN sessions'
  BY <1>10 DEF Rehash, Goto, TypeOK
<1>11. ASSUME NEW c \in Clients, RecordFailure(c)
      PROVE  \A i \in 1..created : i \notin DOMAIN sessions => i \notin DOMAIN sessions'
  BY <1>11 DEF RecordFailure, Answer, Idle, Request, TypeOK
<1>12. ASSUME NEW c \in Clients, RecordSuccess(c)
      PROVE  \A i \in 1..created : i \notin DOMAIN sessions => i \notin DOMAIN sessions'
  BY <1>12 DEF RecordSuccess, Goto, TypeOK
<1>13. ASSUME NEW c \in Clients, StartSession(c)
      PROVE  \A i \in 1..created : i \notin DOMAIN sessions => i \notin DOMAIN sessions'
  <2>1. DOMAIN sessions' = DOMAIN sessions \cup {created + 1} /\ created \in Nat
    BY <1>13 DEF StartSession, TypeOK, SessionsOK
  <2>2. QED
    BY <2>1
<1>14. ASSUME NEW c \in Clients, Me(c)
      PROVE  \A i \in 1..created : i \notin DOMAIN sessions => i \notin DOMAIN sessions'
  <2>1. DOMAIN sessions' \subseteq DOMAIN sessions
    BY <1>14 DEF Me, Without
  <2>2. QED
    BY <2>1
<1>15. ASSUME NEW c \in Clients, Logout(c)
      PROVE  \A i \in 1..created : i \notin DOMAIN sessions => i \notin DOMAIN sessions'
  BY <1>15 DEF Logout, Without
<1>16. CASE UNCHANGED vars
  BY <1>16 DEF vars, TypeOK
<1>17. QED
  BY <1>1, <1>2, <1>3, <1>4, <1>5, <1>6, <1>7, <1>8,
     <1>9, <1>10, <1>11, <1>12, <1>13, <1>14, <1>15, <1>16 DEF Next

\* A session that has ended, by logout, expiry or restart, never comes back:
\* validate extends only a session that it finds, and an id is given out once.
THEOREM EndedSessionsStayEnded == Spec => EndedStaysEnded
<1>1. AccessInv /\ [Next]_vars
        => [\A i \in 1..created : i \notin DOMAIN sessions => i \notin DOMAIN sessions']_vars
  BY EndedStep DEF AccessInv
<1>2. QED
  BY <1>1, AccessInvariant, PTL DEF Spec, EndedStaysEnded

\* The session is still there after the step, or there is a reason.
Excused(i) ==
  \/ i \in DOMAIN sessions'
  \/ restarts' # restarts
  \/ \E c \in Clients : cookie[c].id = i /\ cookie'[c] = NoCookie
  \/ now > sessions[i].used + TTL

\* No step ends a session without a reason.
LEMMA ReasonStep ==
  ASSUME TypeOK, SessionsSlide, [Next]_vars
  PROVE  \A i \in DOMAIN sessions : Excused(i)
<1>1. CASE Tick
  BY <1>1 DEF Tick, Excused
<1>2. CASE SaveUsers
  BY <1>2 DEF SaveUsers, Excused
<1>3. CASE Restart
  BY <1>3 DEF Restart, Excused, TypeOK
<1>4. CASE SweepSessions
  <2>1. \A i \in DOMAIN sessions : now > sessions[i].expiresAt => now > sessions[i].used + TTL
    BY DEF SessionsSlide
  <2>2. QED
    BY <1>4, <2>1 DEF SweepSessions, Without, Excused
<1>5. ASSUME NEW c \in Clients, NEW e \in Emails, NEW p \in Passwords, Register(c, e, p)
      PROVE  \A i \in DOMAIN sessions : Excused(i)
  BY <1>5 DEF Register, Request, Excused
<1>6. ASSUME NEW c \in Clients, NEW e \in Emails, NEW p \in Passwords, Login(c, e, p)
      PROVE  \A i \in DOMAIN sessions : Excused(i)
  BY <1>6 DEF Login, Request, Excused
<1>7. ASSUME NEW c \in Clients, CreateUser(c)
      PROVE  \A i \in DOMAIN sessions : Excused(i)
  BY <1>7 DEF CreateUser, Goto, Answer, Idle, Request, Excused
<1>8. ASSUME NEW c \in Clients, CopyCredentials(c)
      PROVE  \A i \in DOMAIN sessions : Excused(i)
  BY <1>8 DEF CopyCredentials, Excused
<1>9. ASSUME NEW c \in Clients, Verify(c)
      PROVE  \A i \in DOMAIN sessions : Excused(i)
  BY <1>9 DEF Verify, Goto, Excused
<1>10. ASSUME NEW c \in Clients, Rehash(c)
      PROVE  \A i \in DOMAIN sessions : Excused(i)
  BY <1>10 DEF Rehash, Goto, Excused
<1>11. ASSUME NEW c \in Clients, RecordFailure(c)
      PROVE  \A i \in DOMAIN sessions : Excused(i)
  BY <1>11 DEF RecordFailure, Answer, Idle, Request, Excused
<1>12. ASSUME NEW c \in Clients, RecordSuccess(c)
      PROVE  \A i \in DOMAIN sessions : Excused(i)
  BY <1>12 DEF RecordSuccess, Goto, Excused
<1>13. ASSUME NEW c \in Clients, StartSession(c)
      PROVE  \A i \in DOMAIN sessions : Excused(i)
  BY <1>13 DEF StartSession, Excused
<1>14. ASSUME NEW c \in Clients, Me(c)
      PROVE  \A i \in DOMAIN sessions : Excused(i)
  <2>1. \A i \in DOMAIN sessions : now > sessions[i].expiresAt => now > sessions[i].used + TTL
    BY DEF SessionsSlide
  <2>2. QED
    BY <1>14, <2>1 DEF Me, Without, Excused
<1>15. ASSUME NEW c \in Clients, Logout(c)
      PROVE  \A i \in DOMAIN sessions : Excused(i)
  <2>1. cookie'[c] = NoCookie
    BY <1>15 DEF Logout, TypeOK
  <2>2. \A i \in DOMAIN sessions \ {cookie[c].id} : i \in DOMAIN sessions'
    BY <1>15 DEF Logout, Without
  <2>3. QED
    BY <2>1, <2>2 DEF Excused
<1>16. CASE UNCHANGED vars
  BY <1>16 DEF vars, Excused
<1>17. QED
  BY <1>1, <1>2, <1>3, <1>4, <1>5, <1>6, <1>7, <1>8,
     <1>9, <1>10, <1>11, <1>12, <1>13, <1>14, <1>15, <1>16 DEF Next

\* A session ends only by the logout of the browser that has its cookie, by a
\* restart, or when validate or sweep finds it unused for longer than its time
\* to live.
THEOREM SessionsEndForAReason == Spec => SessionEndsForAReason
<1>1. AccessInv /\ [Next]_vars
        => [\A i \in DOMAIN sessions : i \in DOMAIN sessions'
              \/ restarts' # restarts
              \/ (\E c \in Clients : cookie[c].id = i /\ cookie'[c] = NoCookie)
              \/ now > sessions[i].used + TTL]_vars
  BY ReasonStep DEF AccessInv, Excused
<1>2. QED
  BY <1>1, AccessInvariant, PTL DEF Spec, SessionEndsForAReason

=============================================================================
