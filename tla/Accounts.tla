------------------------------- MODULE Accounts -------------------------------
(***************************************************************************)
(* Registration, login and the rotation of refresh tokens: app/users and   *)
(* app/auth, as requests that run at the same time, each in a database     *)
(* session of its own.  One action is the code from one statement to the   *)
(* next.  A login names a user whose password it knows: any other changes  *)
(* nothing.  Users are never deleted.                                      *)
(***************************************************************************)
EXTENDS Integers, FiniteSets

CONSTANTS
  Users,     \* the ids users get (uuid4)
  Emails,
  NoEmail,   \* the email of a user who is not registered
  Tokens,    \* the refresh tokens that may be issued (a fresh jti each)
  NoToken,   \* no token: the parent of one issued by a login
  NoUser,    \* the owner of a token that is not issued
  Requests,  \* the requests that run at the same time
  Second,      \* the instants of the clock in a second
  RefreshTTL,  \* refresh_ttl_in_minutes
  MaxTime      \* bound on the clock

ASSUME AccountsAssumption ==
  /\ NoEmail \notin Emails
  /\ NoToken \notin Tokens
  /\ NoUser \notin Users
  /\ Second \in Nat \ {0}
  /\ RefreshTTL \in Nat \ {0}
  /\ MaxTime \in Nat

VARIABLES
  email,    \* table users: the email of each user
  token,    \* table refresh_tokens
  request,  \* the coroutines of create_user, login and refresh
  now       \* the clock

vars == <<email, token, request, now>>

-----------------------------------------------------------------------------
\* A row of refresh_tokens, with the exp claim of the token itself.  parent and raced
\* are history, not columns: the token it was issued in exchange for, and whether
\* requests for that one overlapped.
RefreshToken ==
  [user : Users \cup {NoUser}, issuedAt : Nat, expiresAt : Nat, exp : Nat,
   used : BOOLEAN, rotationCount : 0 .. 1,
   parent : Tokens \cup {NoToken}, raced : BOOLEAN]

NotIssued ==
  [user |-> NoUser, issuedAt |-> 0, expiresAt |-> 0, exp |-> 0,
   used |-> FALSE, rotationCount |-> 0, parent |-> NoToken, raced |-> FALSE]

\* The local variables of a request: time is its variable now, row the token it has
\* read, new the one it has inserted and not committed.
RequestStates ==
  [pc : {"idle", "check", "insert", "read", "mark", "issue", "commit"},
   op : {"register", "login", "refresh"},
   user : Users \cup {NoUser}, mail : Emails \cup {NoEmail},
   parent : Tokens \cup {NoToken}, raced : BOOLEAN,
   time : Nat, row : RefreshToken, new : RefreshToken]

Idle ==
  [pc |-> "idle", op |-> "login", user |-> NoUser, mail |-> NoEmail,
   parent |-> NoToken, raced |-> FALSE,
   time |-> 0, row |-> NotIssued, new |-> NotIssued]

Init ==
  /\ email = [u \in Users |-> NoEmail]
  /\ token = [t \in Tokens |-> NotIssued]
  /\ request = [q \in Requests |-> Idle]
  /\ now = 0

Issued(t) == token[t].user # NoUser

Goto(q, pc) == request' = [request EXCEPT ![q].pc = pc]

\* get_user_by_email finds a user.
EmailTaken(e) == \E u \in Users : email[u] = e

\* The request is answered: what its session has not committed is rolled back.
Close(q) == request' = [request EXCEPT ![q] = Idle]

\* Both requests are in the transaction that writes the row named by field.
SameWrite(q, r, pcs, field) ==
  /\ r # q
  /\ request[r].pc \in pcs
  /\ request[r].op = request[q].op
  /\ request[r][field] = request[q][field]

-----------------------------------------------------------------------------
(* POST /users.                                                             *)

\* The request, with a password that is complex enough and an id of its own.
StartRegister(q, u, e) ==
  /\ request[q].pc = "idle"
  /\ email[u] = NoEmail
  /\ \A r \in Requests : request[r].op = "register" => request[r].user # u
  /\ request' = [request EXCEPT ![q] =
       [Idle EXCEPT !.pc = "check", !.op = "register", !.user = u, !.mail = e]]
  /\ UNCHANGED <<email, token, now>>

\* _enforce_email_uniqueness.
CheckEmail(q) ==
  /\ request[q].pc = "check"
  /\ IF EmailTaken(request[q].mail) THEN Close(q) ELSE Goto(q, "insert")
  /\ UNCHANGED <<email, token, now>>

\* Mutant: the table has no unique index on the email.
AddUser_notUnique(q) ==
  /\ request[q].pc = "insert"
  /\ Goto(q, "commit")
  /\ UNCHANGED <<email, token, now>>

\* add_user: the INSERT waits for a transaction that has inserted the same email, and
\* the unique index refuses it when that one has committed.
AddUser(q) ==
  /\ request[q].pc = "insert"
  /\ \A r \in Requests : ~SameWrite(q, r, {"commit"}, "mail")
  /\ IF EmailTaken(request[q].mail) THEN Close(q) ELSE Goto(q, "commit")
  /\ UNCHANGED <<email, token, now>>

CommitUser(q) ==
  /\ request[q].pc = "commit"
  /\ request[q].op = "register"
  /\ email' = [email EXCEPT ![request[q].user] = request[q].mail]
  /\ Close(q)
  /\ UNCHANGED <<token, now>>

-----------------------------------------------------------------------------
(* POST /auth/login.                                                        *)

EnforceUserExists(u) == email[u] # NoEmail

\* get_user_by_email finds the user and the password is right.
Login(q, u) ==
  /\ request[q].pc = "idle"
  /\ EnforceUserExists(u)
  /\ request' = [request EXCEPT ![q] =
       [Idle EXCEPT !.pc = "issue", !.op = "login", !.user = u, !.time = now]]
  /\ UNCHANGED <<email, token, now>>

-----------------------------------------------------------------------------
(* POST /auth/refresh.                                                      *)

Refreshing(q, t) == request[q].pc # "idle" /\ request[q].parent = t

\* python-jose knows whole seconds only, in the claim and in the clock it compares it with.
WholeSeconds(time) == time \div Second

\* A token that was issued is a JWT of the right type; its exp claim is not in the past.
VerifyRefreshToken(t) == Issued(t) /\ WholeSeconds(now) <= token[t].exp

\* A token is sent and verified.  From here on two requests for one token overlap.
StartRefresh(q, t) ==
  LET others == {r \in Requests : Refreshing(r, t)} IN
  /\ request[q].pc = "idle"
  /\ VerifyRefreshToken(t)
  /\ request' = [r \in Requests |->
       CASE r = q -> [Idle EXCEPT !.pc = "read", !.op = "refresh", !.parent = t,
                                  !.user = token[t].user, !.raced = others # {}]
         [] r \in others -> [request[r] EXCEPT !.raced = TRUE]
         [] OTHER -> request[r]]
  /\ UNCHANGED <<email, token, now>>

\* Mutant: a token is still good at the instant it expires.
IsExpired_late(row, time) == time > row.expiresAt

IsExpired(row, time) == time >= row.expiresAt

\* Mutant: the use of the token is not checked.
EnforceRefreshToken_anyUse(row, time) == ~IsExpired(row, time)

\* enforce_refresh_token_not_expired and enforce_refresh_token_not_used.
EnforceRefreshToken(row, time) == ~IsExpired(row, time) /\ ~row.used

\* get_by_hash, the clock and the policies.
ReadToken(q) ==
  LET row == token[request[q].parent] IN
  /\ request[q].pc = "read"
  /\ IF EnforceRefreshToken(row, now)
       THEN request' = [request EXCEPT ![q].pc = "mark", ![q].time = now, ![q].row = row]
       ELSE Close(q)
  /\ UNCHANGED <<email, token, now>>

\* Mutant: the token is marked in a transaction of its own.
MarkAsUsed_ownCommit(q) ==
  /\ request[q].pc = "mark"
  /\ \A r \in Requests : ~SameWrite(q, r, {"issue", "commit"}, "parent")
  /\ token' = [token EXCEPT ![request[q].parent] =
                 [@ EXCEPT !.used = TRUE, !.rotationCount = request[q].row.rotationCount + 1]]
  /\ Goto(q, "issue")
  /\ UNCHANGED <<email, now>>

\* Mutant: the row is read again before it is marked, the counter with it.
MarkAsUsed_freshCount(q) ==
  /\ request[q].pc = "mark"
  /\ \A r \in Requests : ~SameWrite(q, r, {"issue", "commit"}, "parent")
  /\ request' = [request EXCEPT ![q].pc = "issue",
       ![q].row = [token[request[q].parent] EXCEPT !.used = TRUE, !.rotationCount = @ + 1]]
  /\ UNCHANGED <<email, token, now>>

\* mark_as_used: the row object is the one get_by_hash has loaded, whatever another
\* session has committed since; the UPDATE waits for the row's lock.
MarkAsUsed(q) ==
  /\ request[q].pc = "mark"
  /\ \A r \in Requests : ~SameWrite(q, r, {"issue", "commit"}, "parent")
  /\ request' = [request EXCEPT ![q].pc = "issue",
       ![q].row.used = TRUE, ![q].row.rotationCount = @ + 1]
  /\ UNCHANGED <<email, token, now>>

-----------------------------------------------------------------------------
(* Issuing a token, for login and refresh.                                  *)

\* The exp claim of a token made now.
CreateRefreshToken == WholeSeconds(now + RefreshTTL)

\* RefreshTokenRepository.create.
Create(user, issuedAt, expiresAt) ==
  [NotIssued EXCEPT !.user = user, !.issuedAt = issuedAt, !.expiresAt = expiresAt]

\* _create_refresh_token_record: expires_at counts from the request's own now and keeps
\* fractions of a second, the exp claim counts from the clock.
CreateRefreshTokenRecord(q) ==
  LET d == request[q]
      row == Create(d.user, d.time, d.time + RefreshTTL)
  IN
  /\ d.pc = "issue"
  /\ request' = [request EXCEPT ![q].pc = "commit",
       ![q].new = [row EXCEPT !.exp = CreateRefreshToken, !.parent = d.parent]]
  /\ UNCHANGED <<email, token, now>>

\* uow.commit: the new row and, in a refresh, the two columns mark_as_used has set.
CommitToken(q, new) ==
  LET d == request[q] IN
  /\ d.pc = "commit"
  /\ d.op # "register"
  /\ ~Issued(new)
  /\ token' = [t \in Tokens |->
       CASE t = new -> [d.new EXCEPT !.raced = d.raced]
         [] t = d.parent -> [token[t] EXCEPT !.used = d.row.used,
                                             !.rotationCount = d.row.rotationCount]
         [] OTHER -> token[t]]
  /\ Close(q)
  /\ UNCHANGED <<email, now>>

\* The connection is lost, the request cancelled, or the process dies.
Abandon(q) ==
  /\ request[q].pc # "idle"
  /\ Close(q)
  /\ UNCHANGED <<email, token, now>>

PassTime ==
  /\ now < MaxTime
  /\ now' = now + 1
  /\ UNCHANGED <<email, token, request>>

Next ==
  \/ \E q \in Requests :
       \/ \E u \in Users, e \in Emails : StartRegister(q, u, e)
       \/ CheckEmail(q)
       \/ AddUser(q)
       \/ CommitUser(q)
       \/ \E u \in Users : Login(q, u)
       \/ \E t \in Tokens : StartRefresh(q, t)
       \/ ReadToken(q)
       \/ MarkAsUsed(q)
       \/ CreateRefreshTokenRecord(q)
       \/ \E t \in Tokens : CommitToken(q, t)
       \/ Abandon(q)
  \/ PassTime

Spec == Init /\ [][Next]_vars

-----------------------------------------------------------------------------
(* Properties.                                                              *)

\* Rows and local variables have their types: in particular rotation_count never
\* exceeds one, however many requests rotate one token.
TypeOK ==
  /\ email \in [Users -> Emails \cup {NoEmail}]
  /\ token \in [Tokens -> RefreshToken]
  /\ request \in [Requests -> RequestStates]
  /\ now \in 0 .. MaxTime

\* However many registrations with one email run at once, one user gets it.
UniqueEmails ==
  \A u, v \in Users : email[u] = email[v] /\ email[u] # NoEmail => u = v

Children(t) == {c \in Tokens : Issued(c) /\ token[c].parent = t}

\* Marking a token as used and issuing the next one are one step, although several
\* statements apart: a refresh that dies in between leaves its client a token that
\* still works, and no token is exchanged without being used up.
RotationAtomic ==
  \A t \in Tokens :
    /\ token[t].used <=> Children(t) # {}
    /\ token[t].used <=> token[t].rotationCount = 1

\* A refresh token is exchanged once.  Nothing ensures it: used is read some awaits before
\* it is written, and the UPDATE that has waited for another request's overwrites it.
SingleUse ==
  \A t \in Tokens : \A c, d \in Children(t) : c = d

\* What is left of that: a token is exchanged twice only by requests that overlapped.  A
\* token that was sent after the exchange was committed is never exchanged again.
ReusedOnlyByOverlap ==
  \A t \in Tokens : \A c, d \in Children(t) : c # d => token[c].raced /\ token[d].raced

\* No token is exchanged at or after its expiry as recorded, its successor belongs to
\* the same user and outlives it, and the exp claim, in whole seconds and counted from
\* another instant, refuses no token before the expiry that is recorded.
ExchangedInTime ==
  \A t \in Tokens :
    /\ Issued(t) /\ ~IsExpired(token[t], now) => VerifyRefreshToken(t)
    /\ \A c \in Children(t) :
         /\ token[c].issuedAt < token[t].expiresAt
         /\ token[c].expiresAt >= token[t].expiresAt
         /\ token[c].user = token[t].user
=============================================================================
