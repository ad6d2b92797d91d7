--------------------------- MODULE Accounts_proofs ---------------------------
(***************************************************************************)
(* What Accounts promises for any number of users, tokens, requests and    *)
(* any clock: one user per email, rotation as one step, one exchange of a  *)
(* token unless requests for it overlapped, and none after its expiry.     *)
(***************************************************************************)
EXTENDS Accounts, TLAPS

-----------------------------------------------------------------------------
(* The inductive invariant.                                                 *)

\* A request has inserted a user and not committed it.
Inserted(d) == d.pc = "commit" /\ d.op = "register"

\* A request is past the checks of the policies on its token.
Exchanging(d) == d.op = "refresh" /\ d.pc \in {"mark", "issue", "commit"}

\* The email a request has inserted is nobody else's, in the table or in another
\* transaction.
EmailHeld ==
  \A q \in Requests : Inserted(request[q]) =>
    /\ ~EmailTaken(request[q].mail)
    /\ \A r \in Requests : Inserted(request[r]) /\ request[r].mail = request[q].mail => r = q

\* A token that is issued lives RefreshTTL from a time that has come, and was issued in
\* exchange for one that is issued too.
RowsOK ==
  \A t \in Tokens : Issued(t) =>
    /\ token[t].issuedAt <= now
    /\ token[t].expiresAt = token[t].issuedAt + RefreshTTL
    /\ token[t].parent # NoToken => Issued(token[t].parent)

\* Which steps an operation has.
StepOK(d) ==
  /\ d.op = "register" => d.pc \in {"check", "insert", "commit"} /\ d.parent = NoToken
  /\ d.op = "login" => d.pc \in {"idle", "issue", "commit"} /\ d.parent = NoToken
  /\ d.op = "refresh" => d.pc \in {"read", "mark", "issue", "commit"} /\ d.parent \in Tokens
  /\ d.op = "login" /\ d.pc # "idle" => d.user \in Users

\* A refresh is about a token that is issued, on behalf of its owner; once past the
\* policies it knows that the token was good, and later what to write into its row.
RefreshOK(d) ==
  /\ d.time <= now
  /\ d.op = "refresh" => Issued(d.parent) /\ d.user = token[d.parent].user
  /\ Exchanging(d) => token[d.parent].issuedAt <= d.time /\ d.time < token[d.parent].expiresAt
  /\ d.pc = "mark" => ~d.row.used /\ d.row.rotationCount = 0
  /\ d.op = "refresh" /\ d.pc \in {"issue", "commit"} => d.row.used /\ d.row.rotationCount = 1

\* The row a request has inserted and not committed.
NewOK(d) ==
  d.pc = "commit" /\ d.op # "register" =>
    /\ d.new.user = d.user /\ d.new.parent = d.parent
    /\ ~d.new.used /\ d.new.rotationCount = 0
    /\ d.new.issuedAt = d.time /\ d.new.expiresAt = d.time + RefreshTTL
    /\ WholeSeconds(d.new.expiresAt) <= d.new.exp

RequestsOK ==
  \A q \in Requests : StepOK(request[q]) /\ RefreshOK(request[q]) /\ NewOK(request[q])

\* Two refreshes of one token that are under way know that they overlap.
OverlapKnown ==
  \A q, r \in Requests :
    q # r /\ request[q].op = "refresh" /\ request[r].op = "refresh"
      /\ request[q].parent = request[r].parent
    => request[q].raced /\ request[r].raced

\* A refresh that is past the policies although its token has been exchanged has
\* overlapped, and so has whoever exchanged it.
LateExchange ==
  \A q \in Requests : Exchanging(request[q]) =>
    \A c \in Children(request[q].parent) : request[q].raced /\ token[c].raced

\* Exchanges as ExchangedInTime has them, with the exp claim compared with what is recorded
\* instead of the clock, which a step may advance.
ExchangesOK ==
  \A t \in Tokens :
    /\ WholeSeconds(token[t].expiresAt) <= token[t].exp
    /\ \A c \in Children(t) :
         /\ token[c].issuedAt < token[t].expiresAt
         /\ token[c].expiresAt >= token[t].expiresAt
         /\ token[c].user = token[t].user

\* What the rows of the two tables have to do with each other and with the clock.
TablesOK == UniqueEmails /\ RowsOK /\ RotationAtomic /\ ReusedOnlyByOverlap /\ ExchangesOK

IInv == TypeOK /\ TablesOK /\ EmailHeld /\ RequestsOK /\ OverlapKnown /\ LateExchange

-----------------------------------------------------------------------------
(* Steps of one request.                                                    *)

\* Leaving out the fraction of a second keeps the order of two instants.
LEMMA SecondsMonotone ==
  ASSUME NEW a \in Nat
  PROVE  /\ WholeSeconds(a) \in Nat
         /\ \A b \in Nat : a <= b => WholeSeconds(a) <= WholeSeconds(b)
  <1> SUFFICES ASSUME NEW b \in Nat
               PROVE  /\ WholeSeconds(a) \in Nat
                      /\ a <= b => WholeSeconds(a) <= WholeSeconds(b)
    OBVIOUS
  <1> QED BY AccountsAssumption DEF WholeSeconds

\* A request that is answered holds nothing and is past nothing.
LEMMA IdleIsOK ==
  ASSUME IInv
  PROVE  /\ Idle \in RequestStates
         /\ StepOK(Idle) /\ RefreshOK(Idle) /\ NewOK(Idle)
         /\ ~Inserted(Idle) /\ ~Exchanging(Idle) /\ Idle.op # "refresh"
  BY AccountsAssumption
  DEF IInv, TypeOK, Idle, NotIssued, RequestStates, RefreshToken, StepOK, RefreshOK, NewOK,
      Inserted, Exchanging

\* There are neither users nor tokens nor requests at the start.
LEMMA InitIInv == Init => IInv
  <1> SUFFICES ASSUME Init PROVE IInv
    OBVIOUS
  <1> USE AccountsAssumption
  <1>1. TypeOK
    BY DEF Init, TypeOK, Idle, NotIssued, RequestStates, RefreshToken
  <1>2. \A t \in Tokens : ~Issued(t) /\ Children(t) = {}
    BY DEF Init, Issued, NotIssued, Children
  <1>s. WholeSeconds(0) = 0
    BY DEF WholeSeconds
  <1>3. TablesOK
    BY <1>2, <1>s DEF Init, NotIssued, TablesOK, UniqueEmails, RowsOK, RotationAtomic, ReusedOnlyByOverlap,
                ExchangesOK
  <1>4. RequestsOK
    BY DEF Init, Idle, RequestsOK, StepOK, RefreshOK, NewOK, Exchanging
  <1>5. EmailHeld /\ OverlapKnown /\ LateExchange
    BY DEF Init, Idle, EmailHeld, OverlapKnown, LateExchange, Inserted, Exchanging
  <1> QED BY <1>1, <1>3, <1>4, <1>5 DEF IInv

\* What a step may change in the requests it is not a step of.
SameButRaced(d, e) ==
  /\ d.pc = e.pc /\ d.op = e.op /\ d.user = e.user /\ d.mail = e.mail
  /\ d.parent = e.parent /\ d.time = e.time /\ d.row = e.row /\ d.new = e.new
  /\ d.raced => e.raced

\* A step of request q that writes no table keeps the invariant, if q is where the
\* invariant lets it be, with an email nobody has when it has inserted it, knowing of the
\* requests it overlaps with.
LEMMA RequestStep ==
  ASSUME IInv, NEW q \in Requests, NEW w \in RequestStates,
         request' \in [Requests -> RequestStates], request'[q] = w,
         \A r \in Requests \ {q} : SameButRaced(request[r], request'[r]),
         UNCHANGED <<email, token, now>>,
         StepOK(w), RefreshOK(w), NewOK(w),
         Inserted(w) =>
           /\ ~EmailTaken(w.mail)
           /\ \A r \in Requests \ {q} : Inserted(request[r]) => request[r].mail # w.mail,
         w.op = "refresh" =>
           \A r \in Requests \ {q} : request[r].op = "refresh" /\ request[r].parent = w.parent
             => w.raced /\ request'[r].raced,
         Exchanging(w) => \A c \in Children(w.parent) : w.raced /\ token[c].raced
  PROVE  IInv'
  <1>1. TypeOK'
    BY DEF IInv, TypeOK
  <1>2. TablesOK'
    BY DEF IInv, TablesOK, UniqueEmails, RowsOK, RotationAtomic, ReusedOnlyByOverlap, ExchangesOK,
           Children, Issued
  <1>3. EmailHeld'
    BY DEF IInv, EmailHeld, Inserted, EmailTaken, SameButRaced
  <1>4. RequestsOK'
    <2> SUFFICES ASSUME NEW r \in Requests
                 PROVE  StepOK(request[r])' /\ RefreshOK(request[r])' /\ NewOK(request[r])'
      BY DEF RequestsOK
    <2>1. CASE r = q
      BY <2>1 DEF StepOK, RefreshOK, NewOK, Exchanging, Issued
    <2>2. CASE r # q
      <3>1. SameButRaced(request[r], request'[r])
        BY <2>2
      <3>2. StepOK(request[r]) /\ RefreshOK(request[r]) /\ NewOK(request[r])
        BY DEF IInv, RequestsOK
      <3>3. StepOK(request[r])' /\ NewOK(request[r])'
        BY <3>1, <3>2 DEF StepOK, NewOK, SameButRaced
      <3>4. RefreshOK(request[r])'
        BY <3>1, <3>2 DEF RefreshOK, Exchanging, Issued, SameButRaced
      <3> QED BY <3>3, <3>4
    <2> QED BY <2>1, <2>2
  <1>5. OverlapKnown'
    BY DEF IInv, OverlapKnown, SameButRaced
  <1>6. LateExchange'
    BY DEF IInv, LateExchange, Exchanging, Children, Issued, SameButRaced
  <1> QED BY <1>1, <1>2, <1>3, <1>4, <1>5, <1>6 DEF IInv

\* The same, for a step that changes no other request.
LEMMA OwnStep ==
  ASSUME IInv, NEW q \in Requests, NEW w \in RequestStates,
         request' = [request EXCEPT ![q] = w],
         UNCHANGED <<email, token, now>>,
         StepOK(w), RefreshOK(w), NewOK(w),
         Inserted(w) =>
           /\ ~EmailTaken(w.mail)
           /\ \A r \in Requests \ {q} : Inserted(request[r]) => request[r].mail # w.mail,
         w.op = "refresh" =>
           w.op = request[q].op /\ w.parent = request[q].parent /\ w.raced = request[q].raced,
         Exchanging(w) => \A c \in Children(w.parent) : w.raced /\ token[c].raced
  PROVE  IInv'
  <1>1. request' \in [Requests -> RequestStates] /\ request'[q] = w
    BY DEF IInv, TypeOK
  <1>2. \A r \in Requests \ {q} : request'[r] = request[r]
    BY DEF IInv, TypeOK
  <1>3. \A r \in Requests \ {q} : SameButRaced(request[r], request'[r])
    BY <1>2 DEF SameButRaced
  <1>4. w.op = "refresh" =>
           \A r \in Requests \ {q} : request[r].op = "refresh" /\ request[r].parent = w.parent
             => w.raced /\ request'[r].raced
    BY <1>2 DEF IInv, OverlapKnown
  <1> QED BY <1>1, <1>3, <1>4, RequestStep

\* A request that is answered, or dies, takes with it what it has not committed.
LEMMA CloseKeeps ==
  ASSUME IInv, NEW q \in Requests, Close(q), UNCHANGED <<email, token, now>>
  PROVE  IInv'
  BY IdleIsOK, OwnStep DEF Close

\* The requests for a new user.
LEMMA RegisterKeeps ==
  ASSUME IInv, NEW q \in Requests,
         \/ \E u \in Users, e \in Emails : StartRegister(q, u, e)
         \/ CheckEmail(q)
         \/ AddUser(q)
  PROVE  IInv'
  <1> DEFINE d == request[q]
  <1>t. d \in RequestStates /\ StepOK(d) /\ RefreshOK(d) /\ NewOK(d)
    BY DEF IInv, TypeOK, RequestsOK
  <1>i. /\ Idle \in RequestStates /\ RefreshOK(Idle)
        /\ Idle.parent = NoToken /\ Idle.pc = "idle"
    BY IdleIsOK DEF Idle
  <1>1. ASSUME NEW u \in Users, NEW e \in Emails, StartRegister(q, u, e) PROVE IInv'
    <2> DEFINE w == [Idle EXCEPT !.pc = "check", !.op = "register", !.user = u, !.mail = e]
    <2>1. /\ w \in RequestStates /\ w.pc = "check" /\ w.op = "register"
          /\ w.parent = NoToken /\ w.time = Idle.time
      BY <1>i DEF RequestStates
    <2>2. request' = [request EXCEPT ![q] = w] /\ UNCHANGED <<email, token, now>>
      BY <1>1 DEF StartRegister
    <2> HIDE DEF w
    <2>3. StepOK(w) /\ RefreshOK(w) /\ NewOK(w) /\ ~Inserted(w) /\ ~Exchanging(w)
      BY <1>i, <2>1 DEF StepOK, RefreshOK, NewOK, Inserted, Exchanging
    <2> QED BY <2>1, <2>2, <2>3, OwnStep
  <1>2. ASSUME NEW pc \in {"insert", "commit"}, d.pc \in {"check", "insert"}, Goto(q, pc),
               ~EmailTaken(d.mail),
               pc = "commit" => \A r \in Requests : ~SameWrite(q, r, {"commit"}, "mail"),
               UNCHANGED <<email, token, now>>
        PROVE  IInv'
    <2> DEFINE w == [d EXCEPT !.pc = pc]
    <2>0. d.op = "register"
      BY <1>2, <1>t DEF StepOK, RequestStates
    <2>1. /\ w \in RequestStates /\ w.pc = pc /\ w.op = d.op /\ w.parent = d.parent
          /\ w.mail = d.mail /\ w.time = d.time
      BY <1>t, <1>2 DEF RequestStates
    <2>2. request' = [request EXCEPT ![q] = w]
      BY <1>2 DEF Goto, IInv, TypeOK
    <2> HIDE DEF w
    <2>3. StepOK(w) /\ RefreshOK(w) /\ NewOK(w) /\ ~Exchanging(w)
      BY <1>t, <1>2, <2>0, <2>1 DEF StepOK, RefreshOK, NewOK, Exchanging
    <2>4. Inserted(w) => /\ ~EmailTaken(w.mail)
                         /\ \A r \in Requests \ {q} : Inserted(request[r]) => request[r].mail # w.mail
      BY <1>2, <2>0, <2>1 DEF Inserted, SameWrite
    <2> QED BY <1>2, <2>0, <2>1, <2>2, <2>3, <2>4, OwnStep
  <1>3. ASSUME CheckEmail(q) PROVE IInv'
    BY <1>2, <1>3, CloseKeeps DEF CheckEmail
  <1>4. ASSUME AddUser(q) PROVE IInv'
    BY <1>2, <1>4, CloseKeeps DEF AddUser
  <1> QED BY <1>1, <1>3, <1>4

\* What mark_as_used makes of the row of a token that was not used.
LEMMA MarkedRow ==
  ASSUME NEW row \in RefreshToken, row.rotationCount = 0
  PROVE  LET marked == [row EXCEPT !.used = TRUE, !.rotationCount = @ + 1] IN
         marked \in RefreshToken /\ marked.used /\ marked.rotationCount = 1
  <1> DEFINE u == [row EXCEPT !.used = TRUE]
             marked == [row EXCEPT !.used = TRUE, !.rotationCount = @ + 1]
  <1>1. u \in RefreshToken /\ u.used /\ u.rotationCount = 0
    BY DEF RefreshToken
  <1>2. marked = [u EXCEPT !.rotationCount = @ + 1]
    OBVIOUS
  <1> HIDE DEF u
  <1>3. /\ [u EXCEPT !.rotationCount = @ + 1] \in RefreshToken
        /\ [u EXCEPT !.rotationCount = @ + 1].rotationCount = 1
    BY <1>1 DEF RefreshToken
  <1>4. [u EXCEPT !.rotationCount = @ + 1].used
    BY <1>1 DEF RefreshToken
  <1> QED BY <1>2, <1>3, <1>4

\* The row create_refresh_token_record makes.
LEMMA CreatedRow ==
  ASSUME NEW d \in RequestStates, now \in Nat, NEW new,
         new = [Create(d.user, d.time, d.time + RefreshTTL)
                  EXCEPT !.exp = CreateRefreshToken, !.parent = d.parent]
  PROVE  /\ new \in RefreshToken
         /\ new.user = d.user /\ new.parent = d.parent /\ ~new.used /\ new.rotationCount = 0
         /\ new.issuedAt = d.time /\ new.expiresAt = d.time + RefreshTTL
         /\ new.exp = WholeSeconds(now + RefreshTTL)
  <1> DEFINE a == [NotIssued EXCEPT !.user = d.user]
             b == [a EXCEPT !.issuedAt = d.time]
             c == [b EXCEPT !.expiresAt = d.time + RefreshTTL]
             e == [c EXCEPT !.exp = CreateRefreshToken]
  <1>t. d.user \in Users \cup {NoUser} /\ d.parent \in Tokens \cup {NoToken} /\ d.time \in Nat
    BY DEF RequestStates
  <1>1. new = [e EXCEPT !.parent = d.parent]
    BY DEF Create
  <1>0. NotIssued \in RefreshToken /\ ~NotIssued.used /\ NotIssued.rotationCount = 0
    BY AccountsAssumption DEF NotIssued, RefreshToken
  <1>2. a \in RefreshToken /\ a.user = d.user /\ ~a.used /\ a.rotationCount = 0
    BY <1>0, <1>t DEF RefreshToken
  <1> HIDE DEF a
  <1>3. /\ b \in RefreshToken /\ b.user = d.user /\ ~b.used /\ b.rotationCount = 0
        /\ b.issuedAt = d.time
    BY <1>2, <1>t DEF RefreshToken
  <1> HIDE DEF b
  <1>4. /\ c \in RefreshToken /\ c.user = d.user /\ ~c.used /\ c.rotationCount = 0
        /\ c.issuedAt = d.time /\ c.expiresAt = d.time + RefreshTTL
    BY <1>3, <1>t, AccountsAssumption DEF RefreshToken
  <1> HIDE DEF c
  <1>5. /\ e \in RefreshToken /\ e.user = d.user /\ ~e.used /\ e.rotationCount = 0
        /\ e.issuedAt = d.time /\ e.expiresAt = d.time + RefreshTTL
        /\ e.exp = WholeSeconds(now + RefreshTTL)
    <2>1. CreateRefreshToken = WholeSeconds(now + RefreshTTL) /\ CreateRefreshToken \in Nat
      BY SecondsMonotone, AccountsAssumption DEF CreateRefreshToken
    <2> QED BY <1>4, <1>t, <2>1 DEF RefreshToken
  <1> HIDE DEF e
  <1>6. LET n == [e EXCEPT !.parent = d.parent] IN
        /\ n \in RefreshToken
        /\ n.user = d.user /\ n.parent = d.parent /\ ~n.used /\ n.rotationCount = 0
        /\ n.issuedAt = d.time /\ n.expiresAt = d.time + RefreshTTL
        /\ n.exp = WholeSeconds(now + RefreshTTL)
    BY <1>5, <1>t DEF RefreshToken
  <1> QED BY <1>1, <1>6

\* The requests for a token, up to their commit.
LEMMA IssueKeeps ==
  ASSUME IInv, NEW q \in Requests,
         \/ \E u \in Users : Login(q, u)
         \/ ReadToken(q)
         \/ MarkAsUsed(q)
         \/ CreateRefreshTokenRecord(q)
  PROVE  IInv'
  <1> DEFINE d == request[q]
  <1>t. d \in RequestStates /\ StepOK(d) /\ RefreshOK(d) /\ NewOK(d)
    BY DEF IInv, TypeOK, RequestsOK
  <1>n. now \in Nat
    BY AccountsAssumption DEF IInv, TypeOK
  <1>i. /\ Idle \in RequestStates
        /\ Idle.parent = NoToken /\ Idle.pc = "idle"
    BY IdleIsOK DEF Idle
  <1>1. ASSUME NEW u \in Users, Login(q, u) PROVE IInv'
    <2> DEFINE w == [Idle EXCEPT !.pc = "issue", !.op = "login", !.user = u, !.time = now]
    <2>1. /\ w \in RequestStates /\ w.pc = "issue" /\ w.op = "login" /\ w.user = u
          /\ w.parent = NoToken /\ w.time = now
      BY <1>i, <1>n DEF RequestStates
    <2>2. request' = [request EXCEPT ![q] = w] /\ UNCHANGED <<email, token, now>>
      BY <1>1 DEF Login
    <2> HIDE DEF w
    <2>3. StepOK(w) /\ RefreshOK(w) /\ NewOK(w) /\ ~Inserted(w) /\ ~Exchanging(w)
      BY <1>n, <2>1 DEF StepOK, RefreshOK, NewOK, Inserted, Exchanging
    <2> QED BY <2>1, <2>2, <2>3, OwnStep
  <1>2. ASSUME ReadToken(q), EnforceRefreshToken(token[d.parent], now) PROVE IInv'
    <2> DEFINE row == token[d.parent]
               w == [d EXCEPT !.pc = "mark", !.time = now, !.row = row]
    <2>0. d.op = "refresh" /\ d.parent \in Tokens /\ Issued(d.parent) /\ d.user = row.user
      BY <1>2, <1>t DEF ReadToken, StepOK, RefreshOK, RequestStates
    <2>r. row \in RefreshToken /\ ~row.used /\ now < row.expiresAt /\ row.issuedAt <= now
      BY <1>2, <1>n, <2>0 DEF IInv, TypeOK, TablesOK, RowsOK, RefreshToken, EnforceRefreshToken,
                              IsExpired
    <2>c. row.rotationCount = 0 /\ Children(d.parent) = {}
      BY <2>0, <2>r DEF IInv, TablesOK, RotationAtomic, RefreshToken
    <2>1. /\ w \in RequestStates /\ w.pc = "mark" /\ w.op = d.op /\ w.parent = d.parent
          /\ w.user = d.user /\ w.time = now /\ w.row = row /\ w.raced = d.raced
      BY <1>t, <1>n, <2>r DEF RequestStates
    <2>2. request' = [request EXCEPT ![q] = w] /\ UNCHANGED <<email, token, now>>
      BY <1>2 DEF ReadToken, IInv, TypeOK
    <2> HIDE DEF w
    <2>3. StepOK(w) /\ RefreshOK(w) /\ NewOK(w) /\ ~Inserted(w)
      BY <1>n, <2>0, <2>r, <2>c, <2>1 DEF StepOK, RefreshOK, NewOK, Inserted, Exchanging
    <2> QED BY <2>c, <2>1, <2>2, <2>3, OwnStep
  <1>3. ASSUME MarkAsUsed(q) PROVE IInv'
    <2> DEFINE w == [d EXCEPT !.pc = "issue", !.row.used = TRUE, !.row.rotationCount = @ + 1]
               marked == [d.row EXCEPT !.used = TRUE, !.rotationCount = @ + 1]
    <2>0. d.op = "refresh" /\ d.pc = "mark" /\ d.row.rotationCount = 0 /\ Exchanging(d)
      BY <1>3, <1>t DEF MarkAsUsed, StepOK, RefreshOK, RequestStates, Exchanging
    <2>c. d.row \in RefreshToken
      BY <1>t DEF RequestStates
    <2>d. w = [d EXCEPT !.pc = "issue", !.row = marked]
      BY <1>t DEF RequestStates
    <2>e. marked \in RefreshToken /\ marked.used /\ marked.rotationCount = 1
      BY <2>0, <2>c, MarkedRow
    <2> HIDE DEF marked
    <2>a. /\ w \in RequestStates /\ w.pc = "issue" /\ w.op = d.op /\ w.parent = d.parent
          /\ w.user = d.user /\ w.time = d.time /\ w.raced = d.raced /\ w.row = marked
      BY <1>t, <2>d, <2>e DEF RequestStates
    <2>2. request' = [request EXCEPT ![q] = w] /\ UNCHANGED <<email, token, now>>
      BY <1>3 DEF MarkAsUsed, IInv, TypeOK
    <2> HIDE DEF w
    <2>3. StepOK(w) /\ RefreshOK(w) /\ NewOK(w) /\ ~Inserted(w)
      BY <1>t, <2>0, <2>a, <2>e DEF StepOK, RefreshOK, NewOK, Inserted, Exchanging
    <2>4. \A c \in Children(w.parent) : w.raced /\ token[c].raced
      BY <2>0, <2>a DEF IInv, LateExchange
    <2> QED BY <2>a, <2>2, <2>3, <2>4, OwnStep
  <1>4. ASSUME CreateRefreshTokenRecord(q) PROVE IInv'
    <2> DEFINE new == [Create(d.user, d.time, d.time + RefreshTTL)
                         EXCEPT !.exp = CreateRefreshToken, !.parent = d.parent]
               w == [d EXCEPT !.pc = "commit", !.new = new]
    <2>0. d.pc = "issue" /\ d.op \in {"login", "refresh"} /\ d.time \in Nat /\ d.time <= now
      BY <1>4, <1>t DEF CreateRefreshTokenRecord, StepOK, RefreshOK, RequestStates
    <2>n. /\ new \in RefreshToken
          /\ new.user = d.user /\ new.parent = d.parent /\ ~new.used /\ new.rotationCount = 0
          /\ new.issuedAt = d.time /\ new.expiresAt = d.time + RefreshTTL
          /\ new.exp = WholeSeconds(now + RefreshTTL)
      <3>1. new = [Create(d.user, d.time, d.time + RefreshTTL)
                     EXCEPT !.exp = CreateRefreshToken, !.parent = d.parent]
        OBVIOUS
      <3> HIDE DEF new
      <3> QED BY <1>t, <1>n, <3>1, CreatedRow
    <2>2. request' = [request EXCEPT ![q] = w] /\ UNCHANGED <<email, token, now>>
      BY <1>4 DEF CreateRefreshTokenRecord, IInv, TypeOK
    <2> HIDE DEF new
    <2>1. /\ w \in RequestStates /\ w.pc = "commit" /\ w.op = d.op /\ w.parent = d.parent
          /\ w.user = d.user /\ w.time = d.time /\ w.raced = d.raced /\ w.row = d.row
          /\ w.new = new
      BY <1>t, <2>n DEF RequestStates
    <2> HIDE DEF w
    <2>3. StepOK(w) /\ RefreshOK(w)
      BY <1>t, <2>0, <2>1 DEF StepOK, RefreshOK, Exchanging
    <2>s. WholeSeconds(d.time + RefreshTTL) <= WholeSeconds(now + RefreshTTL)
      BY <1>n, <2>0, SecondsMonotone, AccountsAssumption
    <2>5. NewOK(w) /\ ~Inserted(w)
      BY <2>s, <1>n, <2>0, <2>n, <2>1, AccountsAssumption DEF NewOK, Inserted
    <2>4. Exchanging(w) => \A c \in Children(w.parent) : w.raced /\ token[c].raced
      BY <2>0, <2>1 DEF IInv, LateExchange, Exchanging
    <2> QED BY <2>1, <2>2, <2>3, <2>4, <2>5, OwnStep
  <1>5. ASSUME ReadToken(q), ~EnforceRefreshToken(token[d.parent], now) PROVE IInv'
    BY <1>5, CloseKeeps DEF ReadToken
  <1> QED BY <1>1, <1>2, <1>3, <1>4, <1>5

\* A refresh that starts tells the ones under way for the same token.
LEMMA StartRefreshKeeps ==
  ASSUME IInv, NEW q \in Requests, NEW t \in Tokens, StartRefresh(q, t)
  PROVE  IInv'
  <1> DEFINE others == {r \in Requests : Refreshing(r, t)}
             w == [Idle EXCEPT !.pc = "read", !.op = "refresh", !.parent = t,
                               !.user = token[t].user, !.raced = (others # {})]
  <1>t. request \in [Requests -> RequestStates] /\ token[t].user \in Users \cup {NoUser}
    BY DEF IInv, TypeOK, RefreshToken
  <1>i. Idle \in RequestStates /\ RefreshOK(Idle) /\ Idle.pc = "idle"
    BY IdleIsOK DEF Idle
  <1>o. /\ q \notin others
        /\ \A r \in Requests : r \in others <=> request[r].pc # "idle" /\ request[r].parent = t
    BY DEF StartRefresh, Refreshing
  <1>1. /\ w \in RequestStates /\ w.pc = "read" /\ w.op = "refresh" /\ w.parent = t
        /\ w.user = token[t].user /\ w.time = Idle.time /\ w.raced = (others # {})
    <2> DEFINE known == (others # {})
    <2>1. known \in BOOLEAN
      OBVIOUS
    <2> HIDE DEF known
    <2>2. LET v == [Idle EXCEPT !.pc = "read", !.op = "refresh", !.parent = t,
                                !.user = token[t].user, !.raced = known] IN
          /\ v \in RequestStates /\ v.pc = "read" /\ v.op = "refresh" /\ v.parent = t
          /\ v.user = token[t].user /\ v.time = Idle.time /\ v.raced = known
      BY <1>t, <1>i, <2>1 DEF RequestStates
    <2> QED BY <2>2 DEF known
  <1>2. /\ request' = [r \in Requests |->
             CASE r = q -> w
               [] r \in others -> [request[r] EXCEPT !.raced = TRUE]
               [] OTHER -> request[r]]
        /\ UNCHANGED <<email, token, now>>
        /\ Issued(t)
    BY DEF StartRefresh, VerifyRefreshToken
  <1> HIDE DEF others, w
  <1>3. request'[q] = w
    BY <1>2, <1>o
  <1>4. ASSUME NEW r \in Requests \ {q}
        PROVE  /\ request'[r] \in RequestStates
               /\ SameButRaced(request[r], request'[r])
               /\ r \in others => request'[r].raced
    <2>1. request[r] \in RequestStates
      BY <1>t
    <2>2. CASE r \in others
      <3>1. request'[r] = [request[r] EXCEPT !.raced = TRUE]
        BY <1>2, <2>2
      <3> QED BY <2>1, <3>1 DEF RequestStates, SameButRaced
    <2>3. CASE r \notin others
      <3>1. request'[r] = request[r]
        BY <1>2, <2>3
      <3> QED BY <2>1, <2>3, <3>1 DEF SameButRaced
    <2> QED BY <2>2, <2>3
  <1>5. request' \in [Requests -> RequestStates]
    <2>1. \A r \in Requests : request'[r] \in RequestStates
      BY <1>1, <1>3, <1>4
    <2>2. request' = [r \in Requests |-> request'[r]]
      BY <1>2
    <2> QED BY <2>1, <2>2
  <1>6. StepOK(w) /\ RefreshOK(w) /\ NewOK(w) /\ ~Inserted(w) /\ ~Exchanging(w)
    BY <1>i, <1>1, <1>2 DEF StepOK, RefreshOK, NewOK, Inserted, Exchanging
  <1>7. \A r \in Requests \ {q} : request[r].op = "refresh" /\ request[r].parent = w.parent
             => w.raced /\ request'[r].raced
    <2>1. ASSUME NEW r \in Requests \ {q}, request[r].op = "refresh", request[r].parent = w.parent
          PROVE  r \in others
      BY <1>1, <1>o, <2>1 DEF IInv, RequestsOK, StepOK
    <2> QED BY <1>1, <1>4, <2>1
  <1> QED BY <1>1, <1>2, <1>3, <1>4, <1>5, <1>6, <1>7, RequestStep

-----------------------------------------------------------------------------
(* Commits, and the clock.                                                  *)

\* A new user has an email that neither a user nor another transaction has.
LEMMA CommitUserKeeps ==
  ASSUME IInv, NEW q \in Requests, CommitUser(q)
  PROVE  IInv'
  <1> DEFINE d == request[q]
  <1>t. /\ request \in [Requests -> RequestStates] /\ email \in [Users -> Emails \cup {NoEmail}]
        /\ d.mail \in Emails \cup {NoEmail} /\ Inserted(d)
    BY DEF IInv, TypeOK, RequestStates, CommitUser, Inserted
  <1>c. /\ email' = [email EXCEPT ![d.user] = d.mail]
        /\ request' = [request EXCEPT ![q] = Idle]
        /\ token' = token /\ now' = now
    BY DEF CommitUser, Close
  <1>i. /\ Idle \in RequestStates /\ StepOK(Idle) /\ RefreshOK(Idle) /\ NewOK(Idle)
        /\ ~Inserted(Idle) /\ ~Exchanging(Idle) /\ Idle.op # "refresh"
    BY IdleIsOK
  <1>h. /\ \A u \in Users : email[u] # d.mail
        /\ \A r \in Requests \ {q} : Inserted(request[r]) => request[r].mail # d.mail
    BY <1>t DEF IInv, EmailHeld, EmailTaken
  <1>r. request'[q] = Idle /\ \A r \in Requests \ {q} : request'[r] = request[r]
    BY <1>t, <1>c
  <1>e. \A u \in Users : email'[u] = email[u] \/ (email'[u] = d.mail /\ u = d.user)
    BY <1>t, <1>c
  <1> HIDE DEF d
  <1>1. TypeOK'
    BY <1>t, <1>c, <1>i DEF IInv, TypeOK
  <1>2. UniqueEmails'
    BY <1>h, <1>e DEF IInv, TablesOK, UniqueEmails
  <1>3. (RowsOK /\ RotationAtomic /\ ReusedOnlyByOverlap /\ ExchangesOK)'
    BY <1>c DEF IInv, TablesOK, RowsOK, RotationAtomic, ReusedOnlyByOverlap, ExchangesOK, Children, Issued
  <1>4. EmailHeld'
    <2> SUFFICES ASSUME NEW p \in Requests, Inserted(request'[p])
                 PROVE  /\ \A u \in Users : email'[u] # request'[p].mail
                        /\ \A r \in Requests : Inserted(request'[r]) /\ request'[r].mail = request'[p].mail
                             => r = p
      BY DEF EmailHeld, EmailTaken, Inserted
    <2>1. p # q /\ request'[p] = request[p]
      BY <1>r, <1>i
    <2>2. \A u \in Users : email[u] # request[p].mail
      BY <2>1 DEF IInv, EmailHeld, EmailTaken
    <2>3. request[p].mail # d.mail
      BY <1>h, <2>1
    <2>4. ASSUME NEW r \in Requests, Inserted(request'[r]), request'[r].mail = request'[p].mail
          PROVE  r = p
      <3>1. request'[r] = request[r]
        BY <2>4, <1>r, <1>i
      <3> QED BY <2>1, <2>4, <3>1 DEF IInv, EmailHeld
    <2> QED BY <1>e, <2>1, <2>2, <2>3, <2>4
  <1>5. RequestsOK'
    <2> SUFFICES ASSUME NEW r \in Requests
                 PROVE  StepOK(request[r])' /\ RefreshOK(request[r])' /\ NewOK(request[r])'
      BY DEF RequestsOK
    <2>1. StepOK(request'[r]) /\ RefreshOK(request'[r]) /\ NewOK(request'[r])
      BY <1>r, <1>i DEF IInv, RequestsOK
    <2> QED BY <1>c, <2>1 DEF StepOK, RefreshOK, NewOK, Issued
  <1>6. OverlapKnown'
    BY <1>r, <1>i DEF IInv, OverlapKnown
  <1>7. LateExchange'
    BY <1>r, <1>i, <1>c DEF IInv, LateExchange, Children, Issued
  <1> QED BY <1>1, <1>2, <1>3, <1>4, <1>5, <1>6, <1>7 DEF IInv, TablesOK

\* The clock only makes what is past more so.
LEMMA PassTimeKeeps ==
  ASSUME IInv, PassTime
  PROVE  IInv'
  <1>1. TypeOK' /\ now \in Nat /\ now' = now + 1
    BY AccountsAssumption DEF IInv, TypeOK, PassTime
  <1>c. email' = email /\ token' = token /\ request' = request
    BY DEF PassTime
  <1>2. RowsOK'
    <2> SUFFICES ASSUME NEW t \in Tokens, Issued(t)
                 PROVE  /\ token[t].issuedAt <= now'
                        /\ token[t].expiresAt = token[t].issuedAt + RefreshTTL
                        /\ token[t].parent # NoToken => Issued(token[t].parent)
      BY <1>c DEF RowsOK, Issued
    <2>1. token[t].issuedAt \in Nat
      BY DEF IInv, TypeOK, RefreshToken
    <2> QED BY <1>1, <2>1 DEF IInv, TablesOK, RowsOK
  <1>3. (UniqueEmails /\ RotationAtomic /\ ReusedOnlyByOverlap /\ ExchangesOK)'
    BY <1>c DEF IInv, TablesOK, UniqueEmails, RotationAtomic, ReusedOnlyByOverlap, ExchangesOK, Children,
                Issued
  <1>4. (EmailHeld /\ OverlapKnown /\ LateExchange)'
    BY <1>c DEF IInv, EmailHeld, EmailTaken, OverlapKnown, LateExchange, Children, Issued
  <1>5. RequestsOK'
    <2> SUFFICES ASSUME NEW r \in Requests
                 PROVE  StepOK(request[r])' /\ RefreshOK(request[r])' /\ NewOK(request[r])'
      BY DEF RequestsOK
    <2>1. StepOK(request[r]) /\ RefreshOK(request[r]) /\ NewOK(request[r])
      BY DEF IInv, RequestsOK
    <2>2. request[r].time \in Nat
      BY DEF IInv, TypeOK, RequestStates
    <2>3. request[r].time <= now'
      BY <1>1, <2>1, <2>2 DEF RefreshOK
    <2> QED BY <1>c, <2>1, <2>3 DEF StepOK, RefreshOK, NewOK, Issued
  <1> QED BY <1>1, <1>2, <1>3, <1>4, <1>5 DEF IInv, TablesOK

\* What the commit of a refresh or a login makes of the tokens: one more is issued, and
\* the one it was exchanged for is used.
LEMMA CommittedTokens ==
  ASSUME IInv, NEW q \in Requests, NEW new \in Tokens, CommitToken(q, new)
  PROVE  /\ token' \in [Tokens -> RefreshToken]
         /\ request[q].parent # new /\ request[q].user # NoUser
         /\ ~Issued(new) /\ Children(new) = {}
         /\ \A t \in Tokens \ {new} :
              /\ token'[t].user = token[t].user /\ token'[t].issuedAt = token[t].issuedAt
              /\ token'[t].expiresAt = token[t].expiresAt /\ token'[t].exp = token[t].exp
              /\ token'[t].parent = token[t].parent /\ token'[t].raced = token[t].raced
              /\ t # request[q].parent => token'[t] = token[t]
              /\ t = request[q].parent => token'[t].used /\ token'[t].rotationCount = 1
         /\ token'[new].user = request[q].user /\ token'[new].parent = request[q].parent
         /\ ~token'[new].used /\ token'[new].rotationCount = 0
         /\ token'[new].issuedAt = request[q].time
         /\ token'[new].expiresAt = request[q].time + RefreshTTL
         /\ WholeSeconds(token'[new].expiresAt) <= token'[new].exp
         /\ token'[new].raced = request[q].raced
  <1> DEFINE d == request[q]
  <1>d. d \in RequestStates /\ StepOK(d) /\ RefreshOK(d) /\ NewOK(d)
    BY DEF IInv, TypeOK, RequestsOK
  <1>n. d.new \in RefreshToken /\ d.row \in RefreshToken /\ d.raced \in BOOLEAN
    BY <1>d DEF RequestStates
  <1>c. d.pc = "commit" /\ d.op \in {"login", "refresh"} /\ ~Issued(new)
    BY <1>d DEF CommitToken, RequestStates
  <1>u. d.user # NoUser /\ d.parent # new
    <2>1. CASE d.op = "login"
      BY <1>d, <1>c, <2>1, AccountsAssumption DEF StepOK
    <2>2. CASE d.op = "refresh"
      BY <1>d, <1>c, <2>2 DEF StepOK, RefreshOK, Issued
    <2> QED BY <1>c, <2>1, <2>2
  <1>p. d.parent \in Tokens => d.op = "refresh" /\ d.row.used /\ d.row.rotationCount = 1
    BY <1>d, <1>c, AccountsAssumption DEF StepOK, RefreshOK
  <1>e. token' = [t \in Tokens |->
          CASE t = new -> [d.new EXCEPT !.raced = d.raced]
            [] t = d.parent -> [token[t] EXCEPT !.used = d.row.used,
                                                !.rotationCount = d.row.rotationCount]
            [] OTHER -> token[t]]
    BY DEF CommitToken
  <1>w. /\ d.new.user = d.user /\ d.new.parent = d.parent
        /\ ~d.new.used /\ d.new.rotationCount = 0
        /\ d.new.issuedAt = d.time /\ d.new.expiresAt = d.time + RefreshTTL
        /\ WholeSeconds(d.new.expiresAt) <= d.new.exp
    BY <1>d, <1>c DEF NewOK
  <1> HIDE DEF d
  <1>1. /\ token'[new] \in RefreshToken
        /\ token'[new].user = d.user /\ token'[new].parent = d.parent
        /\ ~token'[new].used /\ token'[new].rotationCount = 0
        /\ token'[new].issuedAt = d.time /\ token'[new].expiresAt = d.time + RefreshTTL
        /\ WholeSeconds(token'[new].expiresAt) <= token'[new].exp
        /\ token'[new].raced = d.raced
    <2>1. token'[new] = [d.new EXCEPT !.raced = d.raced]
      BY <1>e, <1>u
    <2> QED BY <1>n, <1>w, <2>1 DEF RefreshToken
  <1>2. ASSUME NEW t \in Tokens \ {new}
        PROVE  /\ token'[t] \in RefreshToken
               /\ token'[t].user = token[t].user /\ token'[t].issuedAt = token[t].issuedAt
               /\ token'[t].expiresAt = token[t].expiresAt /\ token'[t].exp = token[t].exp
               /\ token'[t].parent = token[t].parent /\ token'[t].raced = token[t].raced
               /\ t # d.parent => token'[t] = token[t]
               /\ t = d.parent => token'[t].used /\ token'[t].rotationCount = 1
    <2>0. token[t] \in RefreshToken
      BY DEF IInv, TypeOK
    <2>1. CASE t = d.parent
      <3> DEFINE row == token[t]
                 u == [row EXCEPT !.used = TRUE]
      <3>1. token'[t] = [u EXCEPT !.rotationCount = 1]
        <4>1. token'[t] = [row EXCEPT !.used = d.row.used, !.rotationCount = d.row.rotationCount]
          BY <1>e, <2>1
        <4>2. d.row.used = TRUE /\ d.row.rotationCount = 1
          BY <1>p, <1>n, <2>1 DEF RefreshToken
        <4> QED BY <4>1, <4>2
      <3>2. /\ u \in RefreshToken /\ u.used
            /\ u.user = row.user /\ u.issuedAt = row.issuedAt /\ u.expiresAt = row.expiresAt
            /\ u.exp = row.exp /\ u.parent = row.parent /\ u.raced = row.raced
        BY <2>0 DEF RefreshToken
      <3> HIDE DEF u
      <3> QED BY <2>1, <3>1, <3>2 DEF RefreshToken
    <2>2. CASE t # d.parent
      <3>1. token'[t] = token[t]
        BY <1>e, <2>2
      <3> QED BY <2>0, <2>2, <3>1
    <2> QED BY <2>1, <2>2
  <1>3. Children(new) = {}
    BY <1>c, AccountsAssumption DEF IInv, TablesOK, RowsOK, Children, Issued
  <1>4. token' \in [Tokens -> RefreshToken]
    <2>1. \A t \in Tokens : token'[t] \in RefreshToken
      BY <1>1, <1>2
    <2> DEFINE row(t) == CASE t = new -> [d.new EXCEPT !.raced = d.raced]
                           [] t = d.parent -> [token[t] EXCEPT !.used = d.row.used,
                                                 !.rotationCount = d.row.rotationCount]
                           [] OTHER -> token[t]
    <2>3. token' = [t \in Tokens |-> row(t)]
      BY <1>e
    <2> HIDE DEF row
    <2>2. token' = [t \in Tokens |-> token'[t]]
      BY <2>3
    <2> QED BY <2>1, <2>2
  <1> QED BY <1>1, <1>2, <1>3, <1>4, <1>c, <1>u DEF d

\* A commit of tokens keeps the invariant: whoever is past the policies for the same token
\* has been told of the overlap.
LEMMA CommitTokenKeeps ==
  ASSUME IInv, NEW q \in Requests, NEW new \in Tokens, CommitToken(q, new)
  PROVE  IInv'
  <1> DEFINE d == request[q]
  <1>t. /\ request \in [Requests -> RequestStates] /\ token \in [Tokens -> RefreshToken]
        /\ d \in RequestStates /\ StepOK(d) /\ RefreshOK(d)
    BY DEF IInv, TypeOK, RequestsOK
  <1>c. /\ request' = [request EXCEPT ![q] = Idle]
        /\ email' = email /\ now' = now
        /\ d.pc = "commit" /\ d.op # "register"
    BY DEF CommitToken, Close
  <1>i. /\ Idle \in RequestStates /\ StepOK(Idle) /\ RefreshOK(Idle) /\ NewOK(Idle)
        /\ ~Inserted(Idle) /\ ~Exchanging(Idle) /\ Idle.op # "refresh"
    BY IdleIsOK
  <1>r. request'[q] = Idle /\ \A r \in Requests \ {q} : request'[r] = request[r]
    BY <1>t, <1>c
  <1>p. d.parent \in Tokens => /\ d.op = "refresh" /\ Exchanging(d) /\ Issued(d.parent)
                               /\ d.user = token[d.parent].user
                               /\ token[d.parent].issuedAt <= d.time
                               /\ d.time < token[d.parent].expiresAt
    BY <1>t, <1>c, AccountsAssumption DEF StepOK, RefreshOK, RequestStates, Exchanging
  <1>m. d.time \in Nat /\ d.time <= now
    BY <1>t DEF RequestStates, RefreshOK
  <1>k. /\ token' \in [Tokens -> RefreshToken]
        /\ d.parent # new /\ d.user # NoUser /\ ~Issued(new) /\ Children(new) = {}
        /\ token'[new].user = d.user /\ token'[new].parent = d.parent
        /\ ~token'[new].used /\ token'[new].rotationCount = 0
        /\ token'[new].issuedAt = d.time /\ token'[new].expiresAt = d.time + RefreshTTL
        /\ WholeSeconds(token'[new].expiresAt) <= token'[new].exp
        /\ token'[new].raced = d.raced
    BY CommittedTokens
  <1>o. \A t \in Tokens \ {new} :
          /\ token'[t].user = token[t].user /\ token'[t].issuedAt = token[t].issuedAt
          /\ token'[t].expiresAt = token[t].expiresAt /\ token'[t].exp = token[t].exp
          /\ token'[t].parent = token[t].parent /\ token'[t].raced = token[t].raced
          /\ t # d.parent => token'[t] = token[t]
          /\ t = d.parent => token'[t].used /\ token'[t].rotationCount = 1
    BY CommittedTokens
  <1> HIDE DEF d
  <1>x. Issued(new)' /\ \A t \in Tokens \ {new} : Issued(t)' <=> Issued(t)
    BY <1>k, <1>o DEF Issued
  <1>y. \A t, c \in Tokens : /\ c \in Children(t)' <=> c \in Children(t) \/ (c = new /\ t = d.parent)
                             /\ c \in Children(t) => c # new
    BY <1>k, <1>o, <1>x DEF Children, Issued
  <1>z. \A t : Children(t) \subseteq Tokens /\ Children(t)' \subseteq Tokens
    BY DEF Children
  <1>1. TypeOK'
    BY <1>t, <1>c, <1>i, <1>k DEF IInv, TypeOK
  <1>2. UniqueEmails'
    BY <1>c DEF IInv, TablesOK, UniqueEmails
  <1>3. RowsOK'
    <2> SUFFICES ASSUME NEW t \in Tokens, Issued(t)'
                 PROVE  /\ token'[t].issuedAt <= now'
                        /\ token'[t].expiresAt = token'[t].issuedAt + RefreshTTL
                        /\ token'[t].parent # NoToken => Issued(token[t].parent)'
      BY DEF RowsOK
    <2>1. CASE t = new
      <3>1. d.parent # NoToken => d.parent \in Tokens \ {new} /\ Issued(d.parent)
        BY <1>t, <1>p, <1>k DEF RequestStates, d
      <3>2. d.parent # NoToken => token'[d.parent].user # NoUser
        BY <3>1, <1>o DEF Issued
      <3>3. token'[t].parent # NoToken => Issued(token[t].parent)'
        BY <3>2, <2>1, <1>k DEF Issued
      <3> QED BY <1>c, <1>m, <1>k, <2>1, <3>3
    <2>2. CASE t # new
      <3>1. /\ token[t].issuedAt <= now /\ token[t].expiresAt = token[t].issuedAt + RefreshTTL
            /\ token[t].parent # NoToken => Issued(token[t].parent)
        BY <1>x, <2>2 DEF IInv, TablesOK, RowsOK
      <3>2. token[t].parent \in Tokens \cup {NoToken}
        BY <1>t DEF RefreshToken
      <3>3. token'[t].parent # NoToken => Issued(token[t].parent)'
        BY <1>x, <1>k, <1>o, <2>2, <3>1, <3>2 DEF Issued
      <3> QED BY <1>c, <1>o, <2>2, <3>1, <3>3
    <2> QED BY <2>1, <2>2
  <1>4. RotationAtomic'
    <2> SUFFICES ASSUME NEW t \in Tokens
                 PROVE  /\ token'[t].used <=> Children(t)' # {}
                        /\ token'[t].used <=> token'[t].rotationCount = 1
      BY DEF RotationAtomic
    <2>1. CASE t = new
      BY <1>k, <1>y, <1>z, <2>1
    <2>2. CASE t = d.parent
      BY <1>k, <1>o, <1>y, <2>2
    <2>3. CASE t # new /\ t # d.parent
      <3>1. token'[t] = token[t] /\ Children(t)' = Children(t)
        BY <1>o, <1>y, <1>z, <2>3
      <3> QED BY <3>1 DEF IInv, TablesOK, RotationAtomic
    <2> QED BY <2>1, <2>2, <2>3
  <1>5. ReusedOnlyByOverlap'
    <2> SUFFICES ASSUME NEW t \in Tokens, NEW c \in Children(t)', NEW e \in Children(t)', c # e
                 PROVE  token'[c].raced /\ token'[e].raced
      BY DEF ReusedOnlyByOverlap
    <2>0. c \in Tokens /\ e \in Tokens
      BY <1>z
    <2>1. ASSUME NEW b \in Tokens, b \in Children(t), t = d.parent
          PROVE  token'[b].raced /\ token'[new].raced
      BY <1>k, <1>o, <1>p, <1>y, <2>1 DEF IInv, LateExchange, d
    <2>2. CASE c \in Children(t) /\ e \in Children(t)
      BY <1>o, <1>y, <2>0, <2>2 DEF IInv, TablesOK, ReusedOnlyByOverlap
    <2> QED BY <1>y, <2>0, <2>1, <2>2
  <1>6. ExchangesOK'
    <2> SUFFICES ASSUME NEW t \in Tokens
                 PROVE  /\ WholeSeconds(token'[t].expiresAt) <= token'[t].exp
                        /\ \A c \in Children(t)' :
                             /\ token'[c].issuedAt < token'[t].expiresAt
                             /\ token'[c].expiresAt >= token'[t].expiresAt
                             /\ token'[c].user = token'[t].user
      BY DEF ExchangesOK
    <2>1. CASE t = new
      BY <1>k, <1>y, <1>z, <2>1
    <2>2. CASE t # new
      <3>1. WholeSeconds(token'[t].expiresAt) <= token'[t].exp
        BY <1>o, <2>2 DEF IInv, TablesOK, ExchangesOK
      <3>2. ASSUME NEW c \in Children(t)'
            PROVE  /\ token'[c].issuedAt < token'[t].expiresAt
                   /\ token'[c].expiresAt >= token'[t].expiresAt
                   /\ token'[c].user = token'[t].user
        <4>0. c \in Tokens
          BY <1>z
        <4>1. CASE c \in Children(t)
          BY <1>o, <1>y, <2>2, <4>0, <4>1 DEF IInv, TablesOK, ExchangesOK
        <4>2. CASE c = new /\ t = d.parent
          <5>1. token[t].expiresAt = token[t].issuedAt + RefreshTTL
            BY <1>p, <4>2 DEF IInv, TablesOK, RowsOK
          <5>2. token[t].issuedAt \in Nat /\ RefreshTTL \in Nat
            BY <1>t, AccountsAssumption DEF RefreshToken
          <5>3. d.time + RefreshTTL >= token[t].expiresAt
            BY <1>m, <1>p, <4>2, <5>1, <5>2
          <5> QED BY <1>k, <1>o, <1>p, <2>2, <4>2, <5>3
        <4> QED BY <1>y, <4>0, <4>1, <4>2
      <3> QED BY <3>1, <3>2
    <2> QED BY <2>1, <2>2
  <1>7. EmailHeld'
    BY <1>c, <1>r, <1>i DEF IInv, EmailHeld, EmailTaken, Inserted
  <1>8. RequestsOK'
    <2> SUFFICES ASSUME NEW r \in Requests
                 PROVE  StepOK(request[r])' /\ RefreshOK(request[r])' /\ NewOK(request[r])'
      BY DEF RequestsOK
    <2>1. StepOK(request'[r]) /\ RefreshOK(request'[r]) /\ NewOK(request'[r])
      BY <1>r, <1>i DEF IInv, RequestsOK
    <2>2. request'[r].op = "refresh" => request'[r].parent \in Tokens \ {new}
      BY <1>k, <2>1 DEF StepOK, RefreshOK
    <2>3. RefreshOK(request[r])'
      BY <1>c, <1>o, <2>1, <2>2 DEF RefreshOK, Exchanging, Issued
    <2> QED BY <2>1, <2>3 DEF StepOK, NewOK
  <1>9. OverlapKnown'
    BY <1>r, <1>i DEF IInv, OverlapKnown
  <1>10. LateExchange'
    <2> SUFFICES ASSUME NEW r \in Requests, Exchanging(request'[r]),
                        NEW t, t = request'[r].parent, NEW c \in Children(t)'
                 PROVE  request'[r].raced /\ token'[c].raced
      BY DEF LateExchange, Exchanging, Children
    <2>1. r # q /\ request'[r] = request[r]
      BY <1>r, <1>i
    <2>2. t = request[r].parent /\ t \in Tokens /\ request[r].op = "refresh" /\ c \in Tokens
      BY <1>z, <2>1 DEF IInv, RequestsOK, StepOK, Exchanging
    <2>3. c \in Children(t) \/ (c = new /\ t = d.parent)
      BY <1>y, <2>2
    <2>4. CASE c \in Children(t)
      BY <1>o, <1>y, <2>1, <2>2, <2>4 DEF IInv, LateExchange
    <2>5. CASE c = new /\ t = d.parent
      BY <1>k, <1>p, <2>1, <2>2, <2>5 DEF IInv, OverlapKnown, d
    <2> QED BY <2>3, <2>4, <2>5
  <1> QED BY <1>1, <1>2, <1>3, <1>4, <1>5, <1>6, <1>7, <1>8, <1>9, <1>10 DEF IInv, TablesOK

\* Every step keeps the invariant.
LEMMA NextIInv == IInv /\ [Next]_vars => IInv'
  <1> SUFFICES ASSUME IInv, [Next]_vars PROVE IInv'
    OBVIOUS
  <1>1. ASSUME NEW q \in Requests, NEW u \in Users, NEW e \in Emails, StartRegister(q, u, e)
        PROVE  IInv'
    BY <1>1, RegisterKeeps
  <1>2. ASSUME NEW q \in Requests, CheckEmail(q) \/ AddUser(q) PROVE IInv'
    BY <1>2, RegisterKeeps
  <1>3. ASSUME NEW q \in Requests, CommitUser(q) PROVE IInv'
    BY <1>3, CommitUserKeeps
  <1>4. ASSUME NEW q \in Requests, NEW u \in Users, Login(q, u) PROVE IInv'
    BY <1>4, IssueKeeps
  <1>5. ASSUME NEW q \in Requests, NEW t \in Tokens, StartRefresh(q, t) PROVE IInv'
    BY <1>5, StartRefreshKeeps
  <1>6. ASSUME NEW q \in Requests, ReadToken(q) \/ MarkAsUsed(q) \/ CreateRefreshTokenRecord(q)
        PROVE  IInv'
    BY <1>6, IssueKeeps
  <1>7. ASSUME NEW q \in Requests, NEW t \in Tokens, CommitToken(q, t) PROVE IInv'
    BY <1>7, CommitTokenKeeps
  <1>8. ASSUME NEW q \in Requests, Abandon(q) PROVE IInv'
    BY <1>8, CloseKeeps DEF Abandon
  <1>9. CASE PassTime
    BY <1>9, PassTimeKeeps
  <1>10. CASE UNCHANGED vars
    <2>1. email' = email /\ token' = token /\ request' = request /\ now' = now
      BY <1>10 DEF vars
    <2>2. TypeOK' /\ TablesOK'
      BY <2>1 DEF IInv, TypeOK, TablesOK, UniqueEmails, RowsOK, RotationAtomic, ReusedOnlyByOverlap,
                  ExchangesOK, Children, Issued
    <2>3. (EmailHeld /\ OverlapKnown /\ LateExchange)'
      BY <2>1 DEF IInv, EmailHeld, EmailTaken, OverlapKnown, LateExchange, Children, Issued
    <2>4. RequestsOK'
      BY <2>1 DEF IInv, RequestsOK, StepOK, RefreshOK, NewOK, Issued
    <2> QED BY <2>2, <2>3, <2>4 DEF IInv
  <1> QED BY <1>1, <1>2, <1>3, <1>4, <1>5, <1>6, <1>7, <1>8, <1>9, <1>10 DEF Next

-----------------------------------------------------------------------------
(* Theorems.                                                                *)

\* Whatever requests run at the same time, the invariant holds.
THEOREM Invariance == Spec => []IInv
  <1>1. Init => IInv BY InitIInv
  <1>2. IInv /\ [Next]_vars => IInv' BY NextIInv
  <1> QED BY <1>1, <1>2, PTL DEF Spec

\* Rows and requests have their types: a token's rotation_count never exceeds one.
THEOREM AccountsTypeCorrect == Spec => []TypeOK
  <1>1. IInv => TypeOK BY DEF IInv
  <1> QED BY <1>1, Invariance, PTL

\* No two users have the same email, however many register with it at once.
THEOREM EmailsStayUnique == Spec => []UniqueEmails
  <1>1. IInv => UniqueEmails BY DEF IInv, TablesOK
  <1> QED BY <1>1, Invariance, PTL

\* Using up a token and issuing its successor are one step, wherever a refresh dies.
THEOREM RotationIsAtomic == Spec => []RotationAtomic
  <1>1. IInv => RotationAtomic BY DEF IInv, TablesOK
  <1> QED BY <1>1, Invariance, PTL

\* Only requests that overlap exchange a token twice.
THEOREM OnlyRacesReuseTokens == Spec => []ReusedOnlyByOverlap
  <1>1. IInv => ReusedOnlyByOverlap BY DEF IInv, TablesOK
  <1> QED BY <1>1, Invariance, PTL

\* No token is exchanged at or after its expiry, for another user, or for a token that
\* expires before it, and the exp claim refuses none before its expiry.
THEOREM ExchangesAreInTime == Spec => []ExchangedInTime
  <1>1. IInv => ExchangedInTime
    <2> SUFFICES ASSUME IInv, NEW t \in Tokens, Issued(t), ~IsExpired(token[t], now)
                 PROVE  WholeSeconds(now) <= token[t].exp
      BY DEF IInv, TablesOK, ExchangesOK, ExchangedInTime, VerifyRefreshToken
    <2>1. now \in Nat /\ token[t].expiresAt \in Nat /\ token[t].exp \in Nat
      BY AccountsAssumption DEF IInv, TypeOK, RefreshToken
    <2>2. now <= token[t].expiresAt
      BY <2>1 DEF IsExpired
    <2>3. WholeSeconds(token[t].expiresAt) <= token[t].exp
      BY DEF IInv, TablesOK, ExchangesOK
    <2>4. WholeSeconds(now) \in Nat /\ WholeSeconds(token[t].expiresAt) \in Nat
      BY <2>1, SecondsMonotone
    <2> QED BY <2>1, <2>2, <2>3, <2>4, SecondsMonotone
  <1> QED BY <1>1, Invariance, PTL
=============================================================================
