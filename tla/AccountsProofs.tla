--------------------------- MODULE AccountsProofs ---------------------------
(***************************************************************************)
(* Proofs about module Accounts, for every number of addresses, tokens,    *)
(* sessions and handlers in progress.                                      *)
(***************************************************************************)
EXTENDS Accounts, FiniteSetTheorems, WellFoundedInduction, TLAPS

-----------------------------------------------------------------------------
(***************************************************************************)
(* Ages.                                                                   *)
(***************************************************************************)

\* A set of naturals has a least element.
LEMMA SmallestMember ==
  ASSUME NEW S \in SUBSET Nat, S # {}
  PROVE  \E m \in S : \A n \in S : m <= n
<1> DEFINE R == {ss \in Nat \X Nat : ss[1] < ss[2]}
<1>1. IsWellFoundedOn(R, Nat)
  BY NatLessThanWellFounded, Zenon DEF OpToRel
<1>2. PICK m \in S : \A n \in S : ~(<<n, m>> \in R)
  <2> HIDE DEF R
  <2>1. S \subseteq Nat
    OBVIOUS
  <2>2. QED BY <1>1, <2>1, WFMin, Zenon
<1>3. ASSUME NEW n \in S PROVE m <= n
  <2>1. m \in Nat /\ n \in Nat /\ ~(n < m)
    BY <1>2
  <2>2. QED BY <2>1
<1>4. QED BY <1>3

\* The oldest age that is told apart exists, and ages stay within it.
LEMMA AgesClosed ==
  /\ Old \in Nat \ {0}
  /\ 0 \in Ages
  /\ \A n \in Ages : Older(n) \in Ages
<1> DEFINE N == {Window, VerifyLife, ResetLife, Cooldown + 1}
<1>1. Window \in Nat \ {0} /\ VerifyLife \in Nat \ {0} /\ ResetLife \in Nat \ {0}
      /\ Cooldown + 1 \in Nat \ {0}
  BY AccountAssumption
<1>2. \E n \in N : \A m \in N : m <= n
  BY <1>1
<1>3. Old \in N
  BY <1>2 DEF Old
<1>4. Old \in Nat \ {0}
  BY <1>1, <1>3
<1>5. QED BY <1>4 DEF Ages, Older

\* GetLatest answers with an age, or that there is no row.
LEMMA LatestAgeType ==
  ASSUME AccountTypeOK, NEW kind, NEW e
  PROVE  LatestAge(kind, e) \in {Missing} \cup Ages
<1> DEFINE S == {verification[t].age : t \in RowsOf(kind, e)}
<1>1. \A t \in RowsOf(kind, e) : verification[t].age \in Ages
  BY DEF RowsOf, AccountTypeOK, Row
<1>2. Ages \subseteq Nat
  BY AgesClosed DEF Ages
<1>3. CASE RowsOf(kind, e) = {}
  BY <1>3 DEF LatestAge
<1>4. CASE RowsOf(kind, e) # {}
  <2>1. S \in SUBSET Nat /\ S # {}
    BY <1>1, <1>2, <1>4
  <2>2. PICK m \in S : \A n \in S : m <= n
    BY <2>1, SmallestMember
  <2>3. m \in Ages /\ (\E t \in RowsOf(kind, e) : verification[t].age = m)
        /\ \A t \in RowsOf(kind, e) : m <= verification[t].age
    BY <1>1, <2>2
  <2>4. QED BY <1>4, <2>3 DEF LatestAge
<1>5. QED BY <1>3, <1>4

-----------------------------------------------------------------------------
(***************************************************************************)
(* Requests.                                                               *)
(***************************************************************************)

\* What a request holds, by the step it has reached.
LEMMA RequestAt ==
  ASSUME AccountTypeOK, NEW r \in Request
  PROVE  /\ request[r].step \in {"latest", "purge", "create"} =>
              request[r] \in [op : Senders, step : {"latest", "purge", "create"}, email : Email]
         /\ request[r].step = "count" =>
              request[r] \in [op : Senders, step : {"count"}, email : Email,
                              latest : {Missing} \cup Ages]
         /\ request[r].step = "enqueue" =>
              request[r] \in [op : Senders, step : {"enqueue"}, email : Email, token : Token]
         /\ request[r].step \in {"discard", "apply", "spend"} =>
              request[r] \in [op : Users, step : {"discard", "apply", "spend"},
                              email : Email, token : Token]
         /\ request[r].step = "signout" =>
              request[r] \in [op : {"reset"}, step : {"signout"}, email : Email]
         /\ request[r].op = "login" =>
              request[r] \in [op : {"login"}, step : {"session"}, email : Email, late : BOOLEAN]
         /\ request[r].op = "google" =>
              request[r] \in [op : {"google"},
                              step : {"user", "insert", "confirm", "link", "session"},
                              email : Email, google : Google]
         /\ request[r].step = "idle" <=> request[r] = Idle
<1>1. request[r] \in Requests
  BY DEF AccountTypeOK
<1>2. QED BY <1>1 DEF Requests, Idle, Senders, Users

\* Whoever is busy has an address.
LEMMA BusyHasEmail ==
  ASSUME AccountTypeOK, NEW r \in Request, request[r] # Idle
  PROVE  request[r].email \in Email
<1>1. request[r] \in Requests
  BY DEF AccountTypeOK
<1>2. QED BY <1>1 DEF Requests

-----------------------------------------------------------------------------
(***************************************************************************)
(* Types and foreign keys: the database's part and the handlers' part.     *)
(***************************************************************************)
RowsOK ==
  /\ account \in [Email -> {NoUser} \cup User]
  /\ link \in [Google -> {NoLink} \cup [state : {"kept"}, email : Email]]
  /\ verification \in [Token -> {NoRow} \cup Row]
  /\ mailed \subseteq {t \in Token : verification[t] # NoRow}
  /\ session \in [Session -> {NoSession} \cup
                    [state : {"current", "old", "late", "google"}, email : Email]]
  /\ \A s \in Session : session[s] # NoSession => Exists(session[s].email)
  /\ \A g \in Google : link[g] # NoLink => Exists(link[g].email)
  /\ \A t \in Token : verification[t] # NoRow => Exists(verification[t].email)

\* A callback that has still to find or to insert its user.
SeeksUser(q) == q.op = "google" /\ q.step \in {"user", "insert"}

RequestsOK ==
  /\ request \in [Request -> Requests]
  /\ \A r \in Request :
       request[r] = Idle \/ SeeksUser(request[r]) \/ Exists(request[r].email)

\* The type invariant, split into what the tables and what the requests hold.
LEMMA TypeParts == AccountTypeOK <=> RowsOK /\ RequestsOK /\ mishap \in BOOLEAN
  BY DEF AccountTypeOK, RowsOK, RequestsOK, SeeksUser, At

\* Accounts are never deleted.
AccountsStay == \A e \in Email : Exists(e) => Exists(e)'

\* One handler moves on, to something a handler may hold.
LEMMA OneMoves ==
  ASSUME AccountTypeOK, AccountsStay, NEW r \in Request, NEW q \in Requests,
         request' = [request EXCEPT ![r] = q],
         q = Idle \/ SeeksUser(q) \/ (q.email \in Email /\ account'[q.email] # NoUser)
  PROVE  RequestsOK'
<1>1. request' \in [Request -> Requests] /\ request'[r] = q
      /\ \A s \in Request \ {r} : request'[s] = request[s]
  BY DEF AccountTypeOK
<1>2. ASSUME NEW s \in Request \ {r}
      PROVE  request[s] = Idle \/ SeeksUser(request[s])
             \/ account'[request[s].email] # NoUser
  <2>1. request[s] = Idle \/ SeeksUser(request[s]) \/ Exists(request[s].email)
    BY TypeParts DEF RequestsOK
  <2>2. request[s] # Idle => request[s].email \in Email
    BY BusyHasEmail
  <2>3. request[s].email \in Email /\ Exists(request[s].email)
          => account'[request[s].email] # NoUser
    BY DEF AccountsStay, Exists
  <2>4. QED BY <2>1, <2>2, <2>3
<1>3. ASSUME NEW s \in Request
      PROVE  request'[s] = Idle \/ SeeksUser(request'[s]) \/ account'[request'[s].email] # NoUser
  BY <1>1, <1>2 DEF Exists
<1>4. QED BY <1>1, <1>3 DEF RequestsOK, SeeksUser, Exists

\* A handler ends.
LEMMA OneEnds ==
  ASSUME AccountTypeOK, AccountsStay, NEW r \in Request, Done(r)
  PROVE  RequestsOK'
<1>1. Idle \in Requests
  BY DEF Requests
<1>2. QED BY <1>1, OneMoves DEF Done

\* A handler goes on with what it holds.
LEMMA GotoForm ==
  ASSUME AccountTypeOK, NEW r \in Request, NEW step, Goto(r, step),
         \/ At(r, Senders, "purge") /\ step = "create"
         \/ At(r, Users, "apply") /\ step = "spend"
         \/ /\ request[r].op = "google"
            /\ step \in {"user", "insert", "confirm", "link", "session"}
  PROVE  /\ request[r].email \in Email
         /\ request[r] # Idle
         /\ \E q \in Requests :
              /\ request' = [request EXCEPT ![r] = q]
              /\ q.step = step /\ q.op = request[r].op /\ q.email = request[r].email
              /\ request[r].op = "google" => q.google = request[r].google
<1> DEFINE q == [request[r] EXCEPT !.step = step]
<1>1. CASE At(r, Senders, "purge") /\ step = "create"
  <2>1. request[r] \in [op : Senders, step : {"latest", "purge", "create"}, email : Email]
    BY <1>1, RequestAt DEF At
  <2>2. q \in [op : Senders, step : {"latest", "purge", "create"}, email : Email]
        /\ q.step = step /\ q.op = request[r].op /\ q.email = request[r].email
        /\ request[r].op # "google" /\ request[r].email \in Email /\ request[r] # Idle
    BY <1>1, <2>1 DEF Senders, Idle, At
  <2>3. q \in Requests /\ request' = [request EXCEPT ![r] = q]
    BY <2>2 DEF Requests, Goto
  <2> HIDE DEF q
  <2>4. QED BY <2>2, <2>3
<1>2. CASE At(r, Users, "apply") /\ step = "spend"
  <2>1. request[r] \in [op : Users, step : {"discard", "apply", "spend"}, email : Email,
                        token : Token]
    BY <1>2, RequestAt DEF At
  <2>2. q \in [op : Users, step : {"discard", "apply", "spend"}, email : Email, token : Token]
        /\ q.step = step /\ q.op = request[r].op /\ q.email = request[r].email
        /\ request[r].op # "google" /\ request[r].email \in Email /\ request[r] # Idle
    BY <1>2, <2>1 DEF Users, Idle, At
  <2>3. q \in Requests /\ request' = [request EXCEPT ![r] = q]
    BY <2>2 DEF Requests, Goto
  <2> HIDE DEF q
  <2>4. QED BY <2>2, <2>3
<1>3. CASE /\ request[r].op = "google"
           /\ step \in {"user", "insert", "confirm", "link", "session"}
  <2>1. request[r] \in [op : {"google"}, step : {"user", "insert", "confirm", "link", "session"},
                        email : Email, google : Google]
    BY <1>3, RequestAt
  <2>2. q \in [op : {"google"}, step : {"user", "insert", "confirm", "link", "session"},
               email : Email, google : Google]
        /\ q.step = step /\ q.op = request[r].op /\ q.email = request[r].email
        /\ q.google = request[r].google /\ request[r].email \in Email /\ request[r] # Idle
    BY <1>3, <2>1 DEF Idle
  <2>3. q \in Requests /\ request' = [request EXCEPT ![r] = q]
    BY <2>2 DEF Requests, Goto
  <2> HIDE DEF q
  <2>4. QED BY <2>2, <2>3
<1>4. QED BY <1>1, <1>2, <1>3

\* What the handler holds belongs to an account, unless it seeks one.
LEMMA GoesOn ==
  ASSUME AccountTypeOK, AccountsStay, NEW r \in Request, NEW step, Goto(r, step),
         \/ At(r, Senders, "purge") /\ step = "create"
         \/ At(r, Users, "apply") /\ step = "spend"
         \/ /\ request[r].op = "google"
            /\ step \in {"user", "insert", "confirm", "link", "session"}
            /\ \/ step \in {"user", "insert"}
               \/ account'[request[r].email] # NoUser
               \/ request[r].step \notin {"user", "insert"}
  PROVE  RequestsOK'
<1>1. /\ request[r].email \in Email
      /\ request[r] # Idle
  BY GotoForm
<1>2. PICK q \in Requests :
        /\ request' = [request EXCEPT ![r] = q]
        /\ q.step = step /\ q.op = request[r].op /\ q.email = request[r].email
  BY GotoForm
<1>3. SeeksUser(request[r]) \/ Exists(request[r].email)
  BY <1>1, TypeParts DEF RequestsOK
<1>4. Exists(request[r].email) => account'[request[r].email] # NoUser
  BY <1>1 DEF AccountsStay, Exists
<1>5. SeeksUser(q) \/ (q.email \in Email /\ account'[q.email] # NoUser)
  BY <1>1, <1>2, <1>3, <1>4 DEF SeeksUser, Exists, At, Users, Senders
<1>6. QED BY <1>2, <1>5, OneMoves

-----------------------------------------------------------------------------
(***************************************************************************)
(* Every step keeps rows and requests of their types.                      *)
(***************************************************************************)

\* A step that writes no row.
LEMMA RowsKept ==
  ASSUME AccountTypeOK, UNCHANGED rows
  PROVE  RowsOK' /\ AccountsStay
<1>1. UNCHANGED <<account, link, verification, mailed, session>>
  BY DEF rows
<1>2. QED BY <1>1, TypeParts DEF RowsOK, AccountsStay, Exists

\* A step that deletes verifications.
LEMMA RowsDeleted ==
  ASSUME AccountTypeOK, UNCHANGED <<account, link, session>>, NEW gone, DeleteRows(gone)
  PROVE  RowsOK' /\ AccountsStay
BY TypeParts DEF RowsOK, AccountsStay, Exists, DeleteRows

\* A step that adds a row to users, or changes one.
LEMMA AccountWritten ==
  ASSUME AccountTypeOK, UNCHANGED <<link, verification, mailed, session>>,
         NEW e \in Email, NEW u \in User, account' = [account EXCEPT ![e] = u]
  PROVE  RowsOK' /\ AccountsStay /\ account'[e] = u /\ u # NoUser
<1>1. u # NoUser
  BY DEF User, NoUser
<1>2. QED BY <1>1, TypeParts DEF RowsOK, AccountsStay, Exists

\* A step that adds or deletes sessions of existing accounts.
LEMMA SessionsWritten ==
  ASSUME AccountTypeOK, UNCHANGED <<account, link, verification, mailed>>,
         session' \in [Session -> {NoSession} \cup
                         [state : {"current", "old", "late", "google"}, email : Email]],
         \A s \in Session : session'[s] # NoSession => Exists(session'[s].email)
  PROVE  RowsOK' /\ AccountsStay
BY TypeParts DEF RowsOK, AccountsStay, Exists

\* The senders of mails.
LEMMA SendersTyped ==
  ASSUME AccountTypeOK, NEW r \in Request,
         \/ \E e \in Email : CreateUser(r, e)
         \/ \E e \in Email, op \in Senders : LoadForMail(r, e, op)
         \/ ReadLatest(r) \/ JudgeMail(r) \/ PurgeEarlier(r) \/ CreateToken(r) \/ EnqueueMail(r)
  PROVE  RowsOK' /\ RequestsOK'
<1>1. ASSUME NEW e \in Email, CreateUser(r, e) PROVE RowsOK' /\ RequestsOK'
  <2> DEFINE u == [state |-> "kept", verified |-> FALSE, password |-> TRUE, organizer |-> FALSE]
             q == [op |-> "register", step |-> "create", email |-> e]
  <2>1. u \in User /\ q \in Requests /\ q.email = e
    BY DEF User, Requests, Senders
  <2>2. account' = [account EXCEPT ![e] = u] /\ request' = [request EXCEPT ![r] = q]
        /\ UNCHANGED <<link, verification, mailed, session>>
    BY <1>1 DEF CreateUser
  <2> HIDE DEF u, q
  <2>3. RowsOK' /\ AccountsStay /\ account'[e] # NoUser
    BY <2>1, <2>2, AccountWritten
  <2>4. q.email \in Email /\ account'[q.email] # NoUser
    BY <2>1, <2>3 DEF Exists
  <2>5. QED BY <2>1, <2>2, <2>3, <2>4, OneMoves
<1>2. ASSUME NEW e \in Email, NEW op \in Senders, LoadForMail(r, e, op)
      PROVE  RowsOK' /\ RequestsOK'
  <2> DEFINE q == [op |-> op, step |-> "latest", email |-> e]
  <2>1. q \in Requests /\ q.email = e
    BY DEF Requests
  <2>2. UNCHANGED rows /\ request' = [request EXCEPT ![r] = q] /\ Exists(e)
    BY <1>2 DEF LoadForMail
  <2> HIDE DEF q
  <2>3. RowsOK' /\ AccountsStay
    BY <2>2, RowsKept
  <2>4. q.email \in Email /\ account'[q.email] # NoUser
    BY <2>1, <2>2, <2>3 DEF AccountsStay, Exists
  <2>5. QED BY <2>1, <2>2, <2>3, <2>4, OneMoves
<1>3. CASE ReadLatest(r)
  <2> DEFINE age == LatestAge(KindOf(request[r].op), request[r].email)
             q == [op |-> request[r].op, step |-> "count", email |-> request[r].email,
                   latest |-> age]
  <2>1. request[r] \in [op : Senders, step : {"latest", "purge", "create"}, email : Email]
        /\ ~SeeksUser(request[r]) /\ request[r] # Idle
    BY <1>3, RequestAt DEF ReadLatest, At, SeeksUser, Idle, Senders
  <2>2. age \in {Missing} \cup Ages
    BY LatestAgeType
  <2>3. q \in Requests /\ q.email = request[r].email
    <3> HIDE DEF age
    <3>1. QED BY <2>1, <2>2 DEF Requests
  <2>4. UNCHANGED rows /\ request' = [request EXCEPT ![r] = q]
    BY <1>3 DEF ReadLatest
  <2> HIDE DEF q
  <2>5. RowsOK' /\ AccountsStay
    BY <2>4, RowsKept
  <2>6. Exists(request[r].email) /\ request[r].email \in Email
    BY <2>1, TypeParts DEF RequestsOK
  <2>7. q.email \in Email /\ account'[q.email] # NoUser
    BY <2>3, <2>5, <2>6 DEF AccountsStay, Exists
  <2>8. QED BY <2>3, <2>4, <2>5, <2>7, OneMoves
<1>4. CASE JudgeMail(r)
  <2> DEFINE q == [op |-> request[r].op, step |-> "purge", email |-> request[r].email]
  <2>1. request[r] \in [op : Senders, step : {"count"}, email : Email,
                        latest : {Missing} \cup Ages]
        /\ ~SeeksUser(request[r]) /\ request[r] # Idle
    BY <1>4, RequestAt DEF JudgeMail, At, SeeksUser, Idle, Senders
  <2>2. q \in Requests /\ q.email = request[r].email
    BY <2>1 DEF Requests
  <2>3. UNCHANGED rows /\ (request' = [request EXCEPT ![r] = q] \/ Done(r))
    BY <1>4 DEF JudgeMail
  <2> HIDE DEF q
  <2>4. RowsOK' /\ AccountsStay
    BY <2>3, RowsKept
  <2>5. Exists(request[r].email) /\ request[r].email \in Email
    BY <2>1, TypeParts DEF RequestsOK
  <2>6. q.email \in Email /\ account'[q.email] # NoUser
    BY <2>2, <2>4, <2>5 DEF AccountsStay, Exists
  <2>7. QED BY <2>2, <2>3, <2>4, <2>6, OneMoves, OneEnds
<1>5. CASE PurgeEarlier(r)
  <2>1. RowsOK' /\ AccountsStay
    BY <1>5, RowsDeleted DEF PurgeEarlier
  <2>2. QED BY <1>5, <2>1, GoesOn DEF PurgeEarlier
<1>6. CASE CreateToken(r)
  <2>1. PICK t \in Token :
          /\ verification[t] = NoRow
          /\ verification' = [verification EXCEPT ![t] =
               [kind |-> KindOf(request[r].op), email |-> request[r].email, age |-> 0]]
          /\ request' = [request EXCEPT ![r] =
               [op |-> request[r].op, step |-> "enqueue", email |-> request[r].email,
                token |-> t]]
    BY <1>6 DEF CreateToken, Fresh
  <2> DEFINE row == [kind |-> KindOf(request[r].op), email |-> request[r].email, age |-> 0]
             q == [op |-> request[r].op, step |-> "enqueue", email |-> request[r].email,
                   token |-> t]
  <2>2. request[r] \in [op : Senders, step : {"latest", "purge", "create"}, email : Email]
        /\ ~SeeksUser(request[r]) /\ request[r] # Idle
    BY <1>6, RequestAt DEF CreateToken, At, SeeksUser, Idle, Senders
  <2>3. Exists(request[r].email) /\ request[r].email \in Email
    BY <2>2, TypeParts DEF RequestsOK
  <2>4. q \in Requests /\ q.email = request[r].email
    BY <2>2 DEF Requests
  <2>5. row \in Row /\ row.email = request[r].email
    BY <2>3, AgesClosed DEF Row, Kind, KindOf
  <2>6. verification' = [verification EXCEPT ![t] = row] /\ request' = [request EXCEPT ![r] = q]
        /\ UNCHANGED <<account, link, mailed, session>>
    BY <1>6, <2>1 DEF CreateToken
  <2> HIDE DEF row, q
  <2>7. row # NoRow
    BY <2>5 DEF Row, Kind, NoRow
  <2>8. RowsOK' /\ AccountsStay
    BY <2>3, <2>5, <2>6, <2>7, TypeParts DEF RowsOK, AccountsStay, Exists
  <2>9. q.email \in Email /\ account'[q.email] # NoUser
    BY <2>3, <2>4, <2>8 DEF AccountsStay, Exists
  <2>10. QED BY <2>4, <2>6, <2>8, <2>9, OneMoves
<1>7. CASE EnqueueMail(r)
  <2>1. request[r].token \in Token
    BY <1>7, RequestAt DEF EnqueueMail, At
  <2>2. RowsOK' /\ AccountsStay
    BY <1>7, <2>1, TypeParts DEF EnqueueMail, RowsOK, AccountsStay, Exists
  <2>3. QED BY <1>7, <2>2, OneEnds DEF EnqueueMail
<1>8. QED BY <1>1, <1>2, <1>3, <1>4, <1>5, <1>6, <1>7

\* A busy handler that seeks no user has one.
LEMMA HasUser ==
  ASSUME AccountTypeOK, NEW r \in Request, request[r] # Idle, ~SeeksUser(request[r])
  PROVE  request[r].email \in Email /\ Exists(request[r].email)
BY BusyHasEmail, TypeParts DEF RequestsOK

\* MarkVerified, the new password and the new role keep the row of an account.
LEMMA AccountChanged ==
  ASSUME AccountTypeOK, NEW e \in Email, Exists(e)
  PROVE  /\ [account[e] EXCEPT !.verified = TRUE] \in User
         /\ [account[e] EXCEPT !.password = TRUE] \in User
         /\ [account[e] EXCEPT !.organizer = TRUE] \in User
<1>1. account[e] \in User
  BY DEF AccountTypeOK, Exists
<1>2. QED BY <1>1 DEF User

\* What AfterSpend leaves of a reset, with and without the deletion before it.
LEMMA AfterSpendTyped ==
  ASSUME AccountTypeOK, AccountsStay, NEW r \in Request, At(r, Users, "spend"), AfterSpend(r)
  PROVE  RequestsOK'
<1> DEFINE q == [op |-> "reset", step |-> "signout", email |-> request[r].email]
<1>1. request[r].email \in Email /\ Exists(request[r].email)
  BY HasUser DEF At, Users, Idle, SeeksUser
<1>2. CASE request[r].op = "reset"
  <2>1. q \in Requests /\ q.email = request[r].email
    BY <1>1 DEF Requests
  <2>2. request' = [request EXCEPT ![r] = q]
    BY <1>2 DEF AfterSpend
  <2> HIDE DEF q
  <2>3. q.email \in Email /\ account'[q.email] # NoUser
    BY <1>1, <2>1 DEF AccountsStay, Exists
  <2>4. QED BY <2>1, <2>2, <2>3, OneMoves
<1>3. CASE request[r].op # "reset"
  BY <1>3, OneEnds DEF AfterSpend
<1>4. QED BY <1>2, <1>3

\* A new password: the user's sessions become old and the logins late.
LEMMA ChangePasswordTyped ==
  ASSUME AccountTypeOK, NEW r \in Request, ChangePassword(r)
  PROVE  RowsOK' /\ RequestsOK'
<1> DEFINE e == request[r].email
           u == [account[e] EXCEPT !.password = TRUE]
<1>1. e \in Email /\ Exists(e) /\ At(r, Users, "apply") /\ request[r] # Idle
  BY HasUser DEF ChangePassword, At, Users, Idle, SeeksUser
<1>2. u \in User
  BY <1>1, AccountChanged
<1>3. account' = [account EXCEPT ![e] = u]
  BY DEF ChangePassword
<1>4. /\ UNCHANGED <<link, verification, mailed>>
      /\ \A s \in Session :
           session'[s] = IF session[s] = [state |-> "current", email |-> e]
                         THEN [state |-> "old", email |-> e] ELSE session[s]
      /\ session' \in [Session -> {NoSession} \cup
                        [state : {"current", "old", "late", "google"}, email : Email]]
  <2>1. UNCHANGED <<link, verification, mailed>> /\ Outdate(e)
    BY DEF ChangePassword
  <2>2. \A s \in Session : session[s] \in {NoSession} \cup
                        [state : {"current", "old", "late", "google"}, email : Email]
    BY DEF AccountTypeOK
  <2>3. [state |-> "old", email |-> e] \in
          [state : {"current", "old", "late", "google"}, email : Email]
    BY <1>1
  <2>4. QED BY <2>1, <2>2, <2>3 DEF Outdate
<1> HIDE DEF u
<1>5. u # NoUser
  BY <1>2 DEF User, NoUser
<1>6. \A f \in Email : Exists(f) => account'[f] # NoUser
  BY <1>1, <1>3, <1>5 DEF Exists, AccountTypeOK
<1>7. \A s \in Session : session'[s] # NoSession => account'[session'[s].email] # NoUser
  <2>1. ASSUME NEW s \in Session, session'[s] # NoSession
        PROVE  account'[session'[s].email] # NoUser
    <3>1. CASE session[s] = [state |-> "current", email |-> e]
      <4>1. session'[s].email = e
        BY <1>4, <3>1
      <4>2. QED BY <1>1, <1>6, <4>1
    <3>2. CASE session[s] # [state |-> "current", email |-> e]
      <4>1. session'[s] = session[s]
        BY <1>4, <3>2
      <4>2. session[s] # NoSession /\ session[s].email \in Email /\ Exists(session[s].email)
        BY <2>1, <4>1 DEF AccountTypeOK
      <4>3. QED BY <1>6, <4>1, <4>2
    <3>3. QED BY <3>1, <3>2
  <2>2. QED BY <2>1
<1>8. RowsOK'
  BY <1>1, <1>2, <1>3, <1>4, <1>6, <1>7, TypeParts DEF RowsOK, Exists, Row
<1>9. ASSUME NEW p \in Request
      PROVE  /\ request'[p] \in Requests
             /\ request'[p] = Idle \/ SeeksUser(request'[p])
                  \/ account'[request'[p].email] # NoUser
  <2>0. request'[p] = IF p = r THEN [request[r] EXCEPT !.step = "spend"]
                      ELSE IF request[p].op = "login" /\ request[p].email = e
                      THEN [request[p] EXCEPT !.late = TRUE]
                      ELSE request[p]
    BY DEF ChangePassword
  <2>1. CASE p = r
    <3> DEFINE q == [request[r] EXCEPT !.step = "spend"]
    <3>1. request[r] \in [op : Users, step : {"discard", "apply", "spend"}, email : Email,
                          token : Token]
      BY <1>1, RequestAt DEF At
    <3>2. q \in Requests /\ q.email = e
      BY <3>1 DEF Requests
    <3>3. request'[p] = q
      BY <2>0, <2>1
    <3> HIDE DEF q
    <3>4. QED BY <1>1, <1>6, <3>2, <3>3
  <2>2. CASE p # r /\ request[p].op = "login" /\ request[p].email = e
    <3> DEFINE q == [request[p] EXCEPT !.late = TRUE]
    <3>1. request[p] \in [op : {"login"}, step : {"session"}, email : Email, late : BOOLEAN]
      BY <2>2, RequestAt
    <3>2. q \in Requests /\ q.email = e
      BY <2>2, <3>1 DEF Requests
    <3>3. request'[p] = q
      BY <2>0, <2>2
    <3> HIDE DEF q
    <3>4. QED BY <1>1, <1>6, <3>2, <3>3
  <2>3. CASE p # r /\ ~(request[p].op = "login" /\ request[p].email = e)
    <3>1. request'[p] = request[p] /\ request[p] \in Requests
      BY <2>0, <2>3 DEF AccountTypeOK
    <3>2. request[p] = Idle \/ SeeksUser(request[p])
            \/ (request[p].email \in Email /\ Exists(request[p].email))
      BY HasUser
    <3>3. QED BY <1>6, <3>1, <3>2
  <2>4. QED BY <2>1, <2>2, <2>3
<1>10. RequestsOK'
  <2>1. request' = [p \in Request |-> request'[p]]
    BY DEF ChangePassword
  <2>2. QED BY <1>9, <2>1 DEF RequestsOK, SeeksUser, Exists
<1>11. QED BY <1>8, <1>10

\* The users of tokens.
LEMMA UsersTyped ==
  ASSUME AccountTypeOK, NEW r \in Request,
         \/ \E t \in Token, op \in Users : Lookup(r, t, op)
         \/ Discard(r) \/ Verify(r) \/ ChangePassword(r) \/ Spend(r) \/ SignOutEverywhere(r)
  PROVE  RowsOK' /\ RequestsOK'
<1>1. ASSUME NEW t \in Token, NEW op \in Users, Lookup(r, t, op) PROVE RowsOK' /\ RequestsOK'
  <2> DEFINE step == IF Live(t) THEN "apply" ELSE "discard"
             q == [op |-> op, step |-> step, email |-> verification[t].email, token |-> t]
  <2>1. verification[t].email \in Email /\ Exists(verification[t].email)
    BY <1>1 DEF Lookup, AccountTypeOK, Row
  <2>2. step \in {"discard", "apply", "spend"}
    OBVIOUS
  <2>3. q \in Requests /\ q.email = verification[t].email
    <3> HIDE DEF step
    <3>1. QED BY <2>1, <2>2 DEF Requests
  <2>4. UNCHANGED rows /\ request' = [request EXCEPT ![r] = q]
    BY <1>1 DEF Lookup
  <2> HIDE DEF q
  <2>5. RowsOK' /\ AccountsStay
    BY <2>4, RowsKept
  <2>6. q.email \in Email /\ account'[q.email] # NoUser
    BY <2>1, <2>3, <2>5 DEF AccountsStay, Exists
  <2>7. QED BY <2>3, <2>4, <2>5, <2>6, OneMoves
<1>2. CASE Discard(r)
  <2>1. RowsOK' /\ AccountsStay
    BY <1>2, RowsDeleted DEF Discard
  <2>2. QED BY <1>2, <2>1, OneEnds DEF Discard
<1>3. CASE Verify(r)
  <2>1. request[r].email \in Email /\ Exists(request[r].email) /\ At(r, Users, "apply")
    BY <1>3, HasUser DEF Verify, At, Users, Idle, SeeksUser
  <2>2. [account[request[r].email] EXCEPT !.verified = TRUE] \in User
    BY <2>1, AccountChanged
  <2>3. RowsOK' /\ AccountsStay
    BY <1>3, <2>1, <2>2, AccountWritten DEF Verify
  <2>4. QED BY <1>3, <2>1, <2>3, GoesOn DEF Verify
<1>4. CASE ChangePassword(r)
  BY <1>4, ChangePasswordTyped
<1>5. CASE Spend(r)
  <2>1. RowsOK' /\ AccountsStay
    BY <1>5, RowsDeleted DEF Spend
  <2>2. QED BY <1>5, <2>1, AfterSpendTyped DEF Spend
<1>6. CASE SignOutEverywhere(r)
  <2>1. RowsOK' /\ AccountsStay
    BY <1>6, TypeParts DEF SignOutEverywhere, RowsOK, AccountsStay, Exists
  <2>2. QED BY <1>6, <2>1, OneEnds DEF SignOutEverywhere
<1>7. QED BY <1>1, <1>2, <1>3, <1>4, <1>5, <1>6

\* Users.Create of the callback.
LEMMA InsertUserTyped ==
  ASSUME AccountTypeOK, NEW r \in Request, InsertUser(r)
  PROVE  RowsOK' /\ RequestsOK'
<1> DEFINE e == request[r].email
           u == [state |-> "kept", verified |-> TRUE, password |-> FALSE, organizer |-> FALSE]
<1>1. request[r].op = "google" /\ e \in Email /\ UNCHANGED <<link, verification, mailed, session>>
  BY BusyHasEmail DEF InsertUser, At, Idle
<1>2. CASE Exists(e)
  <2>1. UNCHANGED rows /\ Done(r)
    BY <1>1, <1>2 DEF InsertUser, rows
  <2>2. QED BY <2>1, RowsKept, OneEnds
<1>3. CASE ~Exists(e)
  <2>1. account' = [account EXCEPT ![e] = u] /\ Goto(r, "link") /\ u \in User
    BY <1>3 DEF InsertUser, User
  <2> HIDE DEF u
  <2>2. RowsOK' /\ AccountsStay /\ account'[e] # NoUser
    BY <1>1, <2>1, AccountWritten
  <2>3. QED BY <1>1, <2>1, <2>2, GoesOn
<1>4. QED BY <1>2, <1>3

\* OAuthAccounts.Create.
LEMMA LinkAccountTyped ==
  ASSUME AccountTypeOK, NEW r \in Request, LinkAccount(r)
  PROVE  RowsOK' /\ RequestsOK'
<1> DEFINE g == request[r].google
           l == [state |-> "kept", email |-> request[r].email]
<1>1. /\ request[r].op = "google" /\ g \in Google /\ ~SeeksUser(request[r])
      /\ request[r].email \in Email /\ Exists(request[r].email)
      /\ UNCHANGED <<account, verification, mailed, session>>
  BY RequestAt, HasUser DEF LinkAccount, At, Idle, SeeksUser
<1>2. CASE link[g] = NoLink
  <2>1. link' = [link EXCEPT ![g] = l] /\ Goto(r, "session")
    BY <1>2 DEF LinkAccount
  <2>2. l \in [state : {"kept"}, email : Email] /\ l.email = request[r].email
    BY <1>1
  <2> HIDE DEF l
  <2>3. RowsOK' /\ AccountsStay
    BY <1>1, <2>1, <2>2, TypeParts DEF RowsOK, AccountsStay, Exists
  <2>4. QED BY <1>1, <2>1, <2>3, GoesOn DEF SeeksUser
<1>3. CASE link[g] # NoLink
  <2>1. UNCHANGED rows /\ Done(r)
    BY <1>1, <1>3 DEF LinkAccount, rows
  <2>2. QED BY <2>1, RowsKept, OneEnds
<1>4. QED BY <1>2, <1>3

\* Sessions.Create.
LEMMA OpenSessionTyped ==
  ASSUME AccountTypeOK, NEW r \in Request, OpenSession(r)
  PROVE  RowsOK' /\ RequestsOK'
<1>1. PICK s \in Session :
        session' = [session EXCEPT ![s] =
          [state |-> IF request[r].op = "google" THEN "google"
                     ELSE IF request[r].late THEN "late" ELSE "current",
           email |-> request[r].email]]
  BY DEF OpenSession
<1> DEFINE state == IF request[r].op = "google" THEN "google"
                    ELSE IF request[r].late THEN "late" ELSE "current"
           new == [state |-> state, email |-> request[r].email]
<1>2. request[r].email \in Email /\ Exists(request[r].email) /\ Done(r)
      /\ UNCHANGED <<account, link, verification, mailed>>
  BY HasUser DEF OpenSession, At, Idle, SeeksUser
<1>3. state \in {"current", "old", "late", "google"}
  OBVIOUS
<1>4. session' = [session EXCEPT ![s] = new]
  BY <1>1
<1>5. new \in [state : {"current", "old", "late", "google"}, email : Email]
      /\ new.email = request[r].email
  <2> HIDE DEF state
  <2>1. QED BY <1>2, <1>3
<1> HIDE DEF new
<1>6. RowsOK' /\ AccountsStay
  BY <1>2, <1>4, <1>5, TypeParts DEF RowsOK, AccountsStay, Exists
<1>7. QED BY <1>2, <1>6, OneEnds

\* Password logins and the Google callback.
LEMMA LoginsTyped ==
  ASSUME AccountTypeOK, NEW r \in Request,
         \/ \E e \in Email : Login(r, e)
         \/ \E g \in Google, e \in Email : Callback(r, g, e)
         \/ OpenSession(r) \/ FindUser(r) \/ InsertUser(r) \/ ConfirmUser(r) \/ LinkAccount(r)
  PROVE  RowsOK' /\ RequestsOK'
<1>1. ASSUME NEW e \in Email, Login(r, e) PROVE RowsOK' /\ RequestsOK'
  <2> DEFINE q == [op |-> "login", step |-> "session", email |-> e, late |-> FALSE]
  <2>1. q \in Requests /\ q.email = e
    BY DEF Requests
  <2>2. UNCHANGED rows /\ request' = [request EXCEPT ![r] = q] /\ Exists(e)
    BY <1>1 DEF Login
  <2> HIDE DEF q
  <2>3. RowsOK' /\ AccountsStay
    BY <2>2, RowsKept
  <2>4. q.email \in Email /\ account'[q.email] # NoUser
    BY <2>1, <2>2, <2>3 DEF AccountsStay, Exists
  <2>5. QED BY <2>1, <2>2, <2>3, <2>4, OneMoves
<1>2. ASSUME NEW g \in Google, NEW e \in Email, Callback(r, g, e) PROVE RowsOK' /\ RequestsOK'
  <2> DEFINE step == IF link[g] = NoLink THEN "user" ELSE "session"
             email == IF link[g] = NoLink THEN e ELSE link[g].email
             q == [op |-> "google", google |-> g, step |-> step, email |-> email]
  <2>1. step \in {"user", "session"} /\ email \in Email /\ (step = "session" => Exists(email))
    BY DEF AccountTypeOK
  <2>2. UNCHANGED rows /\ request' = [request EXCEPT ![r] = q]
    BY <1>2 DEF Callback
  <2> HIDE DEF step, email
  <2>3. q \in Requests /\ q.email = email /\ (step = "user" => SeeksUser(q))
    BY <2>1 DEF Requests, SeeksUser
  <2> HIDE DEF q
  <2>4. RowsOK' /\ AccountsStay
    BY <2>2, RowsKept
  <2>5. SeeksUser(q) \/ (q.email \in Email /\ account'[q.email] # NoUser)
    BY <2>1, <2>3, <2>4 DEF AccountsStay, Exists
  <2>6. QED BY <2>2, <2>3, <2>4, <2>5, OneMoves
<1>3. CASE FindUser(r)
  <2> DEFINE e == request[r].email
             step == IF ~Exists(e) THEN "insert"
                     ELSE IF account[e].verified THEN "link" ELSE "confirm"
  <2>1. request[r].op = "google" /\ UNCHANGED rows /\ Goto(r, step) /\ e \in Email
    BY <1>3, BusyHasEmail DEF FindUser, At, Idle
  <2>2. step \in {"insert", "confirm", "link"} /\ (step # "insert" => Exists(e))
    OBVIOUS
  <2> HIDE DEF step
  <2>3. RowsOK' /\ AccountsStay
    BY <2>1, RowsKept
  <2>4. step # "insert" => account'[e] # NoUser
    BY <2>1, <2>2, <2>3 DEF AccountsStay, Exists
  <2>5. QED BY <2>1, <2>2, <2>3, <2>4, GoesOn
<1>4. CASE ConfirmUser(r)
  <2>1. request[r].email \in Email /\ Exists(request[r].email)
        /\ request[r].op = "google" /\ request[r].step = "confirm"
    BY <1>4, HasUser DEF ConfirmUser, At, Idle, SeeksUser
  <2>2. [account[request[r].email] EXCEPT !.verified = TRUE] \in User
    BY <2>1, AccountChanged
  <2>3. RowsOK' /\ AccountsStay
    BY <1>4, <2>1, <2>2, AccountWritten DEF ConfirmUser
  <2>4. QED BY <1>4, <2>1, <2>3, GoesOn DEF ConfirmUser
<1>5. QED
  BY <1>1, <1>2, <1>3, <1>4, OpenSessionTyped, InsertUserTyped, LinkAccountTyped

\* Requests nobody moves keep their accounts.
LEMMA RequestsStay ==
  ASSUME AccountTypeOK, AccountsStay, UNCHANGED request
  PROVE  RequestsOK'
<1>1. ASSUME NEW r \in Request
      PROVE  request[r] = Idle \/ SeeksUser(request[r]) \/ account'[request[r].email] # NoUser
  <2>1. request[r] # Idle /\ ~SeeksUser(request[r]) =>
          request[r].email \in Email /\ Exists(request[r].email)
    BY HasUser
  <2>2. QED BY <2>1 DEF AccountsStay, Exists
<1>2. QED BY <1>1 DEF RequestsOK, SeeksUser, Exists, AccountTypeOK

\* What a signed-in user does, and what ends a session.
LEMMA SessionsTyped ==
  ASSUME AccountTypeOK, NEW s \in Session, Logout(s) \/ BecomeOrganizer(s) \/ SessionExpires(s)
  PROVE  RowsOK' /\ RequestsOK'
<1>1. CASE Logout(s) \/ SessionExpires(s)
  <2>1. RowsOK' /\ AccountsStay /\ UNCHANGED request
    BY <1>1, TypeParts DEF Logout, SessionExpires, RowsOK, AccountsStay, Exists
  <2>2. QED BY <2>1, RequestsStay
<1>2. CASE BecomeOrganizer(s)
  <2> DEFINE e == session[s].email
  <2>1. e \in Email /\ Exists(e) /\ UNCHANGED request
    BY <1>2 DEF BecomeOrganizer, Authenticated, AccountTypeOK
  <2>2. [account[e] EXCEPT !.organizer = TRUE] \in User
    BY <2>1, AccountChanged
  <2>3. RowsOK' /\ AccountsStay
    BY <1>2, <2>1, <2>2, AccountWritten DEF BecomeOrganizer
  <2>4. QED BY <2>1, <2>3, RequestsStay
<1>3. QED BY <1>1, <1>2

\* Rows and copies of them age.
LEMMA TickTyped ==
  ASSUME AccountTypeOK, Tick
  PROVE  RowsOK' /\ RequestsOK'
<1>1. UNCHANGED <<account, link, mailed, session>>
  BY DEF Tick
<1>2. ASSUME NEW t \in Token
      PROVE  /\ verification[t] = NoRow => verification'[t] = NoRow
             /\ verification[t] # NoRow =>
                  /\ verification'[t] \in Row /\ verification'[t] # NoRow
                  /\ verification'[t].email = verification[t].email
  <2>1. verification'[t] = IF verification[t] = NoRow THEN NoRow
                           ELSE [verification[t] EXCEPT !.age = Older(@)]
    BY DEF Tick
  <2>2. CASE verification[t] # NoRow
    <3> DEFINE v == [verification[t] EXCEPT !.age = Older(@)]
    <3>1. verification[t] \in Row
      BY <2>2 DEF AccountTypeOK
    <3>2. Older(verification[t].age) \in Ages
      BY <3>1, AgesClosed DEF Row
    <3>3. v \in Row /\ v.email = verification[t].email
      BY <3>1, <3>2 DEF Row
    <3>4. verification'[t] = v
      BY <2>1, <2>2
    <3> HIDE DEF v
    <3>5. v # NoRow
      BY <3>3 DEF Row, NoRow, Kind
    <3>6. QED BY <2>2, <3>3, <3>4, <3>5
  <2>3. QED BY <2>1, <2>2
<1>3. verification' = [t \in Token |-> verification'[t]]
  BY DEF Tick
<1>4. RowsOK'
  BY <1>1, <1>2, <1>3, TypeParts DEF RowsOK, Exists
<1>5. ASSUME NEW r \in Request
      PROVE  /\ request'[r] \in Requests
             /\ request'[r] = Idle \/ SeeksUser(request'[r])
                  \/ account'[request'[r].email] # NoUser
  <2>0. request'[r] = IF request[r].step = "count" /\ request[r].latest # Missing
                      THEN [request[r] EXCEPT !.latest = Older(@)] ELSE request[r]
    BY DEF Tick
  <2>1. request[r] \in Requests
        /\ (request[r] = Idle \/ SeeksUser(request[r]) \/ Exists(request[r].email))
    BY TypeParts DEF RequestsOK
  <2>2. CASE request[r].step = "count" /\ request[r].latest # Missing
    <3> DEFINE q == [request[r] EXCEPT !.latest = Older(@)]
    <3>1. request[r] \in [op : Senders, step : {"count"}, email : Email,
                          latest : {Missing} \cup Ages]
      BY <2>2, RequestAt
    <3>2. Older(request[r].latest) \in Ages
      BY <2>2, <3>1, AgesClosed
    <3>3. q \in Requests /\ q.email = request[r].email
      BY <3>1, <3>2 DEF Requests
    <3>4. request'[r] = q
      BY <2>0, <2>2
    <3> HIDE DEF q
    <3>5. Exists(request[r].email)
      BY <2>1, <2>2 DEF Idle, SeeksUser
    <3>6. QED BY <1>1, <3>3, <3>4, <3>5 DEF Exists
  <2>3. CASE ~(request[r].step = "count" /\ request[r].latest # Missing)
    BY <1>1, <2>0, <2>1, <2>3 DEF Exists
  <2>4. QED BY <2>2, <2>3
<1>6. RequestsOK'
  <2>1. request' = [r \in Request |-> request'[r]]
    BY DEF Tick
  <2>2. QED BY <1>5, <2>1 DEF RequestsOK, SeeksUser, Exists
<1>7. QED BY <1>4, <1>6

\* Statements that fail.
LEMMA FailuresTyped ==
  ASSUME AccountTypeOK, NEW r \in Request, Abort(r) \/ LogAndGoOn(r)
  PROVE  RowsOK' /\ RequestsOK' /\ mishap' \in BOOLEAN
<1>1. UNCHANGED rows
  BY DEF Abort, LogAndGoOn
<1>2. RowsOK' /\ AccountsStay
  BY <1>1, RowsKept
<1>3. CASE Abort(r)
  BY <1>2, <1>3, OneEnds DEF Abort, AccountTypeOK, At
<1>4. CASE At(r, Senders, "purge") /\ Goto(r, "create") /\ mishap' = TRUE
  BY <1>2, <1>4, GoesOn
<1>5. CASE At(r, {"google"}, "confirm") /\ Goto(r, "link") /\ mishap' = TRUE
  BY <1>2, <1>5, GoesOn DEF At
<1>6. CASE At(r, {"reset"}, "spend") /\ AfterSpend(r) /\ UNCHANGED mishap
  BY <1>2, <1>6, AfterSpendTyped DEF At, Users, AccountTypeOK
<1>7. QED BY <1>3, <1>4, <1>5, <1>6 DEF LogAndGoOn

\* Every statement of a handler, and time, keeps the types.
LEMMA AccountStepTypeOK == AccountTypeOK /\ [AccountNext]_accountVars => AccountTypeOK'
<1> SUFFICES ASSUME AccountTypeOK, [AccountNext]_accountVars PROVE AccountTypeOK'
  OBVIOUS
<1>1. CASE UNCHANGED accountVars
  BY <1>1 DEF accountVars, rows, AccountTypeOK, Exists, At
<1>2. CASE Tick
  <2>1. RowsOK' /\ RequestsOK' /\ mishap' \in BOOLEAN
    BY <1>2, TickTyped DEF Tick, AccountTypeOK
  <2>2. QED BY <2>1, TypeParts DEF AccountTypeOK, RowsOK, RequestsOK, SeeksUser, At, Exists
<1>3. CASE Step
  <2>1. ASSUME NEW r \in Request, HandlerStep(r) \/ Call(r) PROVE RowsOK' /\ RequestsOK'
    BY <2>1, SendersTyped, UsersTyped, LoginsTyped DEF HandlerStep, Call
  <2>2. ASSUME NEW r \in Request, Abort(r) \/ LogAndGoOn(r)
        PROVE  RowsOK' /\ RequestsOK' /\ mishap' \in BOOLEAN
    BY <2>2, FailuresTyped
  <2>3. RowsOK' /\ RequestsOK' /\ mishap' \in BOOLEAN
    BY <1>3, <2>1, <2>2, SessionsTyped DEF Step, AccountTypeOK
  <2>4. QED BY <2>3 DEF AccountTypeOK, RowsOK, RequestsOK, SeeksUser, At, Exists
<1>4. QED BY <1>1, <1>2, <1>3 DEF AccountNext

-----------------------------------------------------------------------------
(***************************************************************************)
(* Which steps bring a handler to where the invariants look.               *)
(***************************************************************************)

\* No handler has newly arrived before OAuthAccounts.Create ...
LinkersSteady ==
  \A p \in Request : request'[p].op = "google" /\ request'[p].step = "link" =>
    request'[p] = request[p]

\* ... or before Verifications.Create, ...
CreatorsSteady ==
  \A p \in Request : request'[p].step = "create" => request'[p] = request[p]

\* ... and none has left the end of a reset.
ResetsSteady ==
  \A p \in Request : request[p].op = "reset" /\ request[p].step \in {"spend", "signout"} =>
    request'[p] = request[p]

\* One handler moves.
LEMMA Moved ==
  ASSUME AccountTypeOK, NEW r \in Request, NEW q, request' = [request EXCEPT ![r] = q]
  PROVE  /\ q.op # "google" \/ q.step # "link" => LinkersSteady
         /\ q.step # "create" => CreatorsSteady
         /\ request[r].op # "reset" \/ request[r].step \notin {"spend", "signout"} =>
              ResetsSteady
<1>1. request'[r] = q /\ \A p \in Request \ {r} : request'[p] = request[p]
  BY DEF AccountTypeOK
<1>2. QED BY <1>1 DEF LinkersSteady, CreatorsSteady, ResetsSteady

\* A request that ends links and creates nothing more, and ends a reset only where
\* the sessions are already dealt with.
LEMMA MovedToIdle ==
  ASSUME AccountTypeOK, NEW r \in Request, Done(r)
  PROVE  /\ LinkersSteady /\ CreatorsSteady
         /\ request[r].op # "reset" \/ request[r].step \notin {"spend", "signout"} =>
              ResetsSteady
<1>1. Idle.step = "idle"
  BY DEF Idle
<1>2. QED BY <1>1, Moved DEF Done

\* A request that goes to its next statement starts no reset; it becomes a linker
\* at "link" only, and a creator at "create" only.
LEMMA MovedOn ==
  ASSUME AccountTypeOK, NEW r \in Request, NEW step, Goto(r, step),
         \/ At(r, Senders, "purge") /\ step = "create"
         \/ At(r, Users, "apply") /\ step = "spend"
         \/ /\ request[r].op = "google"
            /\ step \in {"user", "insert", "confirm", "link", "session"}
  PROVE  /\ request[r].op # "google" \/ step # "link" => LinkersSteady
         /\ step # "create" => CreatorsSteady
         /\ ResetsSteady
<1>1. PICK q \in Requests :
        /\ request' = [request EXCEPT ![r] = q]
        /\ q.step = step /\ q.op = request[r].op
  BY GotoForm
<1>2. request[r].op # "reset" \/ request[r].step \notin {"spend", "signout"}
  BY DEF At, Senders
<1>3. QED BY <1>1, <1>2, Moved

\* The handlers that mail a token link no account and reset no password.
LEMMA SendersMove ==
  ASSUME AccountTypeOK, NEW r \in Request,
         \/ \E e \in Email : CreateUser(r, e)
         \/ \E e \in Email, op \in Senders : LoadForMail(r, e, op)
         \/ ReadLatest(r) \/ JudgeMail(r) \/ PurgeEarlier(r) \/ CreateToken(r) \/ EnqueueMail(r)
  PROVE  /\ LinkersSteady /\ ResetsSteady
         /\ CreatorsSteady \/ PurgeEarlier(r) \/ \E e \in Email : CreateUser(r, e)
<1>0. request[r].op # "reset" \/ request[r].step \notin {"spend", "signout"}
  BY DEF CreateUser, LoadForMail, ReadLatest, JudgeMail, PurgeEarlier, CreateToken,
     EnqueueMail, Begins, At, Idle, Senders
<1>1. ASSUME NEW e \in Email, CreateUser(r, e) PROVE LinkersSteady /\ ResetsSteady
  <2> DEFINE q == [op |-> "register", step |-> "create", email |-> e]
  <2>1. request' = [request EXCEPT ![r] = q] /\ q.op # "google"
    BY <1>1 DEF CreateUser
  <2> HIDE DEF q
  <2>2. QED BY <1>0, <2>1, Moved
<1>2. ASSUME NEW e \in Email, NEW op \in Senders, LoadForMail(r, e, op)
      PROVE  LinkersSteady /\ ResetsSteady /\ CreatorsSteady
  <2> DEFINE q == [op |-> op, step |-> "latest", email |-> e]
  <2>1. request' = [request EXCEPT ![r] = q] /\ q.step = "latest"
    BY <1>2 DEF LoadForMail
  <2> HIDE DEF q
  <2>2. QED BY <1>0, <2>1, Moved
<1>3. CASE ReadLatest(r)
  <2> DEFINE q == [op |-> request[r].op, step |-> "count", email |-> request[r].email,
                   latest |-> LatestAge(KindOf(request[r].op), request[r].email)]
  <2>1. request' = [request EXCEPT ![r] = q] /\ q.step = "count"
    BY <1>3 DEF ReadLatest
  <2> HIDE DEF q
  <2>2. QED BY <1>0, <2>1, Moved
<1>4. CASE JudgeMail(r)
  <2> DEFINE q == [op |-> request[r].op, step |-> "purge", email |-> request[r].email]
  <2>1. (request' = [request EXCEPT ![r] = q] \/ Done(r)) /\ q.step = "purge"
    BY <1>4 DEF JudgeMail
  <2> HIDE DEF q
  <2>2. QED BY <1>0, <2>1, Moved, MovedToIdle
<1>5. CASE PurgeEarlier(r)
  BY <1>5, MovedOn DEF PurgeEarlier, At, Senders
<1>6. CASE CreateToken(r)
  <2>1. PICK t \in Token : request' = [request EXCEPT ![r] =
          [op |-> request[r].op, step |-> "enqueue", email |-> request[r].email, token |-> t]]
    BY <1>6 DEF CreateToken
  <2> DEFINE q == [op |-> request[r].op, step |-> "enqueue", email |-> request[r].email,
                   token |-> t]
  <2>2. request' = [request EXCEPT ![r] = q] /\ q.step = "enqueue"
    BY <2>1
  <2> HIDE DEF q
  <2>3. QED BY <1>0, <2>2, Moved
<1>7. CASE EnqueueMail(r)
  BY <1>0, <1>7, MovedToIdle DEF EnqueueMail
<1>8. QED BY <1>1, <1>2, <1>3, <1>4, <1>5, <1>6, <1>7

\* A reset that has spent its token links no account and creates no token.
LEMMA AfterSpendMoves ==
  ASSUME AccountTypeOK, NEW r \in Request, request[r].op = "reset", AfterSpend(r)
  PROVE  LinkersSteady /\ CreatorsSteady
<1> DEFINE q == [op |-> "reset", step |-> "signout", email |-> request[r].email]
<1>1. request' = [request EXCEPT ![r] = q] /\ q.step = "signout"
  BY DEF AfterSpend
<1> HIDE DEF q
<1>2. QED BY <1>1, Moved

\* The handlers that use a token link no account and create no token.
LEMMA UsersMove ==
  ASSUME AccountTypeOK, NEW r \in Request,
         \/ \E t \in Token, op \in Users : Lookup(r, t, op)
         \/ Discard(r) \/ Verify(r) \/ ChangePassword(r) \/ Spend(r) \/ SignOutEverywhere(r)
  PROVE  /\ LinkersSteady /\ CreatorsSteady
         /\ ResetsSteady \/ Spend(r) \/ SignOutEverywhere(r)
<1>1. ASSUME NEW t \in Token, NEW op \in Users, Lookup(r, t, op)
      PROVE  LinkersSteady /\ CreatorsSteady /\ ResetsSteady
  <2> DEFINE step == IF Live(t) THEN "apply" ELSE "discard"
             q == [op |-> op, step |-> step, email |-> verification[t].email, token |-> t]
  <2>1. request' = [request EXCEPT ![r] = q] /\ q.step = step
        /\ step \in {"apply", "discard"} /\ request[r].op # "reset"
    BY <1>1 DEF Lookup, Begins, Idle
  <2> HIDE DEF q, step
  <2>2. QED BY <2>1, Moved
<1>2. CASE Discard(r)
  BY <1>2, MovedToIdle DEF Discard, At
<1>3. CASE Verify(r)
  BY <1>3, MovedOn DEF Verify, At, Users
<1>4. CASE ChangePassword(r)
  <2>1. ASSUME NEW p \in Request
        PROVE  /\ request'[p].step \in {"link", "create"} => request'[p] = request[p]
               /\ request[p].op = "reset" /\ request[p].step \in {"spend", "signout"} =>
                    request'[p] = request[p]
    <3>1. request'[p] = IF p = r THEN [request[r] EXCEPT !.step = "spend"]
                        ELSE IF request[p].op = "login" /\ request[p].email = request[r].email
                        THEN [request[p] EXCEPT !.late = TRUE]
                        ELSE request[p]
      BY <1>4 DEF ChangePassword
    <3>2. request[r].step = "apply"
      BY <1>4 DEF ChangePassword, At
    <3>3. request[r] \in [op : Users, step : {"discard", "apply", "spend"}, email : Email,
                          token : Token]
      BY <3>2, RequestAt
    <3>4. [request[r] EXCEPT !.step = "spend"].step = "spend"
      BY <3>3
    <3>5. request[p].op = "login" => [request[p] EXCEPT !.late = TRUE].step = "session"
      BY RequestAt
    <3>6. QED BY <3>1, <3>2, <3>4, <3>5
  <2>2. QED BY <2>1 DEF LinkersSteady, CreatorsSteady, ResetsSteady
<1>5. CASE Spend(r)
  <2>1. CASE request[r].op = "reset"
    BY <1>5, <2>1, AfterSpendMoves DEF Spend
  <2>2. CASE request[r].op # "reset"
    BY <1>5, <2>2, MovedToIdle DEF Spend, AfterSpend
  <2>3. QED BY <2>1, <2>2
<1>6. CASE SignOutEverywhere(r)
  BY <1>6, MovedToIdle DEF SignOutEverywhere
<1>7. QED BY <1>1, <1>2, <1>3, <1>4, <1>5, <1>6

\* A login and the Google callback create no token and reset no password.
LEMMA LoginsMove ==
  ASSUME AccountTypeOK, NEW r \in Request,
         \/ \E e \in Email : Login(r, e)
         \/ \E g \in Google, e \in Email : Callback(r, g, e)
         \/ OpenSession(r) \/ FindUser(r) \/ InsertUser(r) \/ ConfirmUser(r) \/ LinkAccount(r)
  PROVE  /\ CreatorsSteady /\ ResetsSteady
         /\ LinkersSteady \/ FindUser(r) \/ InsertUser(r) \/ ConfirmUser(r)
<1>0. request[r].op # "reset" \/ request[r].step \notin {"spend", "signout"}
  BY DEF Login, Callback, OpenSession, FindUser, InsertUser, ConfirmUser, LinkAccount,
     Begins, At, Idle
<1>1. ASSUME NEW e \in Email, Login(r, e)
      PROVE  LinkersSteady /\ CreatorsSteady /\ ResetsSteady
  <2> DEFINE q == [op |-> "login", step |-> "session", email |-> e, late |-> FALSE]
  <2>1. request' = [request EXCEPT ![r] = q] /\ q.step = "session"
    BY <1>1 DEF Login
  <2> HIDE DEF q
  <2>2. QED BY <1>0, <2>1, Moved
<1>2. ASSUME NEW g \in Google, NEW e \in Email, Callback(r, g, e)
      PROVE  LinkersSteady /\ CreatorsSteady /\ ResetsSteady
  <2> DEFINE step == IF link[g] = NoLink THEN "user" ELSE "session"
             email == IF link[g] = NoLink THEN e ELSE link[g].email
             q == [op |-> "google", google |-> g, step |-> step, email |-> email]
  <2>1. request' = [request EXCEPT ![r] = q] /\ step \in {"user", "session"}
    BY <1>2 DEF Callback
  <2> HIDE DEF step, email
  <2>2. q.step = step
    OBVIOUS
  <2> HIDE DEF q
  <2>3. QED BY <1>0, <2>1, <2>2, Moved
<1>3. CASE OpenSession(r)
  BY <1>0, <1>3, MovedToIdle DEF OpenSession
<1>4. CASE FindUser(r)
  BY <1>4, MovedOn DEF FindUser, At
<1>5. CASE InsertUser(r)
  BY <1>0, <1>5, MovedOn, MovedToIdle DEF InsertUser, At
<1>6. CASE ConfirmUser(r)
  BY <1>6, MovedOn DEF ConfirmUser, At
<1>7. CASE LinkAccount(r)
  BY <1>0, <1>7, MovedOn, MovedToIdle DEF LinkAccount, At
<1>8. QED BY <1>1, <1>2, <1>3, <1>4, <1>5, <1>6, <1>7

\* A failure that leaves no mishap ends its request, or goes on to sign out.
LEMMA FailuresMove ==
  ASSUME AccountTypeOK, NEW r \in Request, Abort(r) \/ LogAndGoOn(r), ~mishap'
  PROVE  /\ LinkersSteady /\ CreatorsSteady
         /\ ResetsSteady \/ (At(r, {"reset"}, "spend") /\ AfterSpend(r))
<1>1. CASE Abort(r)
  BY <1>1, MovedToIdle DEF Abort, At
<1>2. CASE LogAndGoOn(r)
  <2>1. At(r, {"reset"}, "spend") /\ AfterSpend(r)
    BY <1>2 DEF LogAndGoOn
  <2>2. QED BY <2>1, AfterSpendMoves DEF At
<1>3. QED BY <1>1, <1>2

\* Time changes no request but the age of the row it has read.
LEMMA TickMoves ==
  ASSUME AccountTypeOK, Tick
  PROVE  LinkersSteady /\ CreatorsSteady /\ ResetsSteady
<1>1. ASSUME NEW p \in Request
      PROVE  request'[p] = request[p]
             \/ (request[p].step = "count" /\ request'[p].step = "count")
  <2>1. request'[p] = IF request[p].step = "count" /\ request[p].latest # Missing
                      THEN [request[p] EXCEPT !.latest = Older(@)] ELSE request[p]
    BY DEF Tick
  <2>2. request[p].step = "count" => [request[p] EXCEPT !.latest = Older(@)].step = "count"
    BY RequestAt
  <2>3. QED BY <2>1, <2>2
<1>2. QED BY <1>1 DEF LinkersSteady, CreatorsSteady, ResetsSteady

\* All steps.
LEMMA StepMoves ==
  ASSUME AccountTypeOK, AccountNext, ~mishap'
  PROVE  /\ LinkersSteady \/ \E r \in Request : FindUser(r) \/ InsertUser(r) \/ ConfirmUser(r)
         /\ CreatorsSteady
              \/ \E r \in Request : PurgeEarlier(r) \/ \E e \in Email : CreateUser(r, e)
         /\ \/ ResetsSteady
            \/ \E r \in Request :
                 \/ SignOutEverywhere(r)
                 \/ /\ At(r, Users, "spend") /\ AfterSpend(r)
                    /\ UNCHANGED session
         /\ ~mishap
<1>1. ASSUME NEW r \in Request, HandlerStep(r) \/ Call(r)
      PROVE  /\ LinkersSteady \/ FindUser(r) \/ InsertUser(r) \/ ConfirmUser(r)
             /\ CreatorsSteady \/ PurgeEarlier(r) \/ \E e \in Email : CreateUser(r, e)
             /\ \/ ResetsSteady \/ SignOutEverywhere(r)
                \/ At(r, Users, "spend") /\ AfterSpend(r) /\ UNCHANGED session
  BY <1>1, SendersMove, UsersMove, LoginsMove DEF HandlerStep, Call, Spend
<1>2. ASSUME NEW s \in Session, Logout(s) \/ BecomeOrganizer(s) \/ SessionExpires(s)
      PROVE  LinkersSteady /\ CreatorsSteady /\ ResetsSteady
  BY <1>2 DEF Logout, BecomeOrganizer, SessionExpires, LinkersSteady, CreatorsSteady,
     ResetsSteady
<1>3. ASSUME NEW r \in Request, Abort(r) \/ LogAndGoOn(r)
      PROVE  /\ LinkersSteady /\ CreatorsSteady
             /\ \/ ResetsSteady
                \/ At(r, Users, "spend") /\ AfterSpend(r) /\ UNCHANGED session
  BY <1>3, FailuresMove DEF At, Users, Abort, LogAndGoOn, rows
<1>4. ~mishap
  BY DEF AccountNext, Step, Tick, Abort, LogAndGoOn
<1>5. CASE Tick
  BY <1>4, <1>5, TickMoves
<1>6. CASE Step
  BY <1>1, <1>2, <1>3, <1>4, <1>6 DEF Step
<1>7. QED BY <1>5, <1>6 DEF AccountNext

-----------------------------------------------------------------------------
(***************************************************************************)
(* Linked accounts are verified.                                           *)
(***************************************************************************)

\* An account that is verified stays verified.
LEMMA VerifiedStay ==
  ASSUME AccountTypeOK, AccountNext
  PROVE  \A e \in Email : Exists(e) /\ account[e].verified => account'[e].verified
<1> DEFINE Stays == \A e \in Email : Exists(e) /\ account[e].verified => account'[e].verified
<1>0. \A e \in Email : Exists(e) => account[e] \in User
  BY DEF AccountTypeOK, Exists
<1>1. ASSUME NEW r \in Request, NEW e \in Email, CreateUser(r, e) PROVE Stays
  BY <1>1 DEF CreateUser, AccountTypeOK
<1>2. ASSUME NEW r \in Request, Verify(r) \/ ConfirmUser(r) \/ ChangePassword(r) PROVE Stays
  <2>1. request[r].email \in Email /\ Exists(request[r].email)
    BY <1>2, HasUser DEF Verify, ConfirmUser, ChangePassword, At, Idle, SeeksUser
  <2>2. \/ account' = [account EXCEPT ![request[r].email].verified = TRUE]
        \/ account' = [account EXCEPT ![request[r].email].password = TRUE]
    BY <1>2 DEF Verify, ConfirmUser, ChangePassword
  <2>3. QED BY <1>0, <2>1, <2>2 DEF AccountTypeOK, User
<1>3. ASSUME NEW r \in Request, InsertUser(r) PROVE Stays
  BY <1>3 DEF InsertUser, AccountTypeOK
<1>4. ASSUME NEW s \in Session, BecomeOrganizer(s) PROVE Stays
  <2>1. session[s].email \in Email /\ Exists(session[s].email)
    BY <1>4 DEF BecomeOrganizer, Authenticated, AccountTypeOK
  <2>2. account' = [account EXCEPT ![session[s].email].organizer = TRUE]
    BY <1>4 DEF BecomeOrganizer
  <2>3. QED BY <1>0, <2>1, <2>2 DEF AccountTypeOK, User
<1>5. ASSUME UNCHANGED account PROVE Stays
  BY <1>5
<1>6. QED
  <2> HIDE DEF Stays
  <2>1. ASSUME NEW r \in Request, HandlerStep(r) PROVE Stays
    BY <1>2, <1>3, <1>5, <2>1
    DEF HandlerStep, ReadLatest, JudgeMail, PurgeEarlier, CreateToken, EnqueueMail, Discard,
        Spend, SignOutEverywhere, OpenSession, FindUser, LinkAccount, rows
  <2>2. ASSUME NEW r \in Request, Call(r) PROVE Stays
    BY <1>1, <1>5, <2>2 DEF Call, Login, LoadForMail, Lookup, Callback, rows
  <2>3. ASSUME NEW r \in Request, Abort(r) \/ LogAndGoOn(r) PROVE Stays
    BY <1>5, <2>3 DEF Abort, LogAndGoOn, rows
  <2>4. Stays
    BY <1>4, <1>5, <2>1, <2>2, <2>3 DEF AccountNext, Step, Tick, Logout, SessionExpires
  <2>5. QED BY <2>4 DEF Stays

\* A callback reaches its INSERT only with a verified user.
LEMMA LinkersVerified ==
  ASSUME AccountTypeOK, LinkedAreVerified, AccountNext, ~mishap', NEW p \in Request,
         request'[p].op = "google", request'[p].step = "link"
  PROVE  account'[request'[p].email].verified
<1>1. ~mishap
  BY StepMoves
<1>2. CASE request'[p] = request[p]
  <2>1. account[request[p].email].verified
    BY <1>1, <1>2 DEF LinkedAreVerified, At
  <2>2. request[p].email \in Email /\ Exists(request[p].email)
    BY <1>2, HasUser DEF SeeksUser, Idle
  <2>3. QED BY <1>2, <2>1, <2>2, VerifiedStay
<1>3. ASSUME NEW r \in Request, FindUser(r) \/ InsertUser(r) \/ ConfirmUser(r),
             request'[p] # request[p]
      PROVE  account'[request'[p].email].verified
  <2>1. request \in [Request -> Requests] /\ account \in [Email -> {NoUser} \cup User]
    BY DEF AccountTypeOK
  <2>2. r = p /\ request[p].email \in Email /\ request[p].op = "google"
    BY <1>3, <2>1, BusyHasEmail
    DEF FindUser, InsertUser, ConfirmUser, Goto, Done, At, Idle
  <2>3. \A step \in {"insert", "link", "confirm"} : Goto(p, step) =>
          request'[p].step = step /\ request'[p].email = request[p].email
    <3>1. SUFFICES ASSUME NEW step \in {"insert", "link", "confirm"}, Goto(p, step)
                   PROVE  request'[p].step = step /\ request'[p].email = request[p].email
      OBVIOUS
    <3>2. PICK q \in Requests : request' = [request EXCEPT ![p] = q]
                                /\ q.step = step /\ q.email = request[p].email
      BY <2>2, <3>1, GotoForm
    <3>3. QED BY <2>1, <3>2
  <2>4. CASE FindUser(p)
    BY <2>2, <2>3, <2>4 DEF FindUser, rows
  <2>5. CASE ConfirmUser(p)
    <3>1. Exists(request[p].email)
      BY <2>2, <2>5, HasUser DEF ConfirmUser, At, Idle, SeeksUser
    <3>2. account'[request[p].email].verified
      BY <2>1, <2>2, <2>5, <3>1 DEF ConfirmUser, Exists, User
    <3>3. QED BY <2>3, <2>5, <3>2 DEF ConfirmUser
  <2>6. CASE InsertUser(p)
    <3>1. ~Done(p)
      BY <2>1 DEF Done, Idle
    <3>2. Goto(p, "link") /\ account'[request[p].email].verified
      BY <2>1, <2>2, <2>6, <3>1 DEF InsertUser
    <3>3. QED BY <2>3, <3>2
  <2>7. QED BY <1>3, <2>2, <2>4, <2>5, <2>6
<1>4. QED BY <1>2, <1>3, StepMoves DEF LinkersSteady

\* No step links an account whose address is unconfirmed, or makes a linked one so.
LEMMA StepLinked ==
  ASSUME AccountTypeOK, LinkedAreVerified, AccountNext
  PROVE  LinkedAreVerified'
<1> SUFFICES ASSUME ~mishap' PROVE LinkedAreVerified'
  BY DEF LinkedAreVerified
<1>1. ~mishap
  BY StepMoves
<1>2. \/ UNCHANGED link
      \/ \E r \in Request : /\ At(r, {"google"}, "link") /\ UNCHANGED account
                            /\ link' = [link EXCEPT ![request[r].google] =
                                 [state |-> "kept", email |-> request[r].email]]
  <2>1. ASSUME NEW r \in Request, HandlerStep(r) \/ Call(r)
        PROVE  UNCHANGED link \/ LinkAccount(r)
    BY <2>1
    DEF HandlerStep, Call, CreateUser, Login, LoadForMail, Lookup, Callback, ReadLatest,
        JudgeMail, PurgeEarlier, CreateToken, EnqueueMail, Discard, Verify, ChangePassword,
        Spend, SignOutEverywhere, OpenSession, FindUser, InsertUser, ConfirmUser, rows
  <2>2. UNCHANGED link \/ \E r \in Request : LinkAccount(r)
    BY <2>1
    DEF AccountNext, Step, Tick, Logout, BecomeOrganizer, SessionExpires, Abort, LogAndGoOn,
        rows
  <2>3. QED BY <2>2 DEF LinkAccount
<1>3. ASSUME NEW g \in Google, link'[g] # NoLink
      PROVE  account'[link'[g].email].verified
  <2>1. CASE link'[g] = link[g]
    BY <1>1, <1>3, <2>1, VerifiedStay DEF LinkedAreVerified, AccountTypeOK
  <2>2. ASSUME NEW r \in Request, At(r, {"google"}, "link"), UNCHANGED account,
               link' = [link EXCEPT ![request[r].google] =
                          [state |-> "kept", email |-> request[r].email]],
               link'[g] # link[g]
        PROVE  account'[link'[g].email].verified
    BY <1>1, <2>2 DEF LinkedAreVerified, AccountTypeOK
  <2>3. QED BY <1>2, <2>1, <2>2
<1>4. QED BY <1>3, LinkersVerified DEF LinkedAreVerified, At

-----------------------------------------------------------------------------
(***************************************************************************)
(* Sessions of an earlier password.                                        *)
(***************************************************************************)

\* Only a new password makes a session one of an earlier password.
LEMMA OldSessions ==
  ASSUME AccountTypeOK, AccountNext, NEW s \in Session, session'[s] # NoSession,
         session'[s].state = "old"
  PROVE  \/ session'[s] = session[s]
         \/ \E r \in Request : ChangePassword(r) /\ session'[s].email = request[r].email
<1>0. session \in [Session -> {NoSession} \cup
                     [state : {"current", "old", "late", "google"}, email : Email]]
  BY DEF AccountTypeOK
<1>1. ASSUME NEW r \in Request, OpenSession(r) PROVE session'[s] = session[s]
  <2>1. PICK n \in Session :
          session' = [session EXCEPT ![n] =
            [state |-> IF request[r].op = "google" THEN "google"
                       ELSE IF request[r].late THEN "late" ELSE "current",
             email |-> request[r].email]]
    BY <1>1 DEF OpenSession
  <2>2. CASE s = n
    <3>1. session'[s].state # "old"
      BY <1>0, <2>1, <2>2
    <3>2. QED BY <3>1
  <2>3. CASE s # n
    BY <1>0, <2>1, <2>3
  <2>4. QED BY <2>2, <2>3
<1>2. ASSUME NEW r \in Request, SignOutEverywhere(r) PROVE session'[s] = session[s]
  BY <1>2 DEF SignOutEverywhere
<1>3. ASSUME NEW r \in Request, ChangePassword(r)
      PROVE  session'[s] = session[s] \/ session'[s].email = request[r].email
  BY <1>3 DEF ChangePassword, Outdate
<1>4. ASSUME NEW n \in Session, Logout(n) \/ SessionExpires(n) PROVE session'[s] = session[s]
  BY <1>0, <1>4 DEF Logout, SessionExpires
<1>5. UNCHANGED session => session'[s] = session[s]
  OBVIOUS
<1>6. ASSUME NEW r \in Request, HandlerStep(r)
      PROVE  session'[s] = session[s]
             \/ (ChangePassword(r) /\ session'[s].email = request[r].email)
  BY <1>1, <1>2, <1>3, <1>6
  DEF HandlerStep, ReadLatest, JudgeMail, PurgeEarlier, CreateToken, EnqueueMail, Discard,
      Verify, Spend, FindUser, InsertUser, ConfirmUser, LinkAccount, rows
<1>7. ASSUME NEW r \in Request, Call(r) \/ Abort(r) \/ LogAndGoOn(r)
      PROVE  session'[s] = session[s]
  BY <1>7 DEF Call, CreateUser, Login, LoadForMail, Lookup, Callback, Abort, LogAndGoOn, rows
<1>8. QED
  BY <1>4, <1>6, <1>7 DEF AccountNext, Step, Tick, BecomeOrganizer

\* A session of an earlier password is there only while the reset that changed it runs.
LEMMA StepSessions ==
  ASSUME AccountTypeOK, SessionsFollowPassword, AccountNext
  PROVE  SessionsFollowPassword'
<1> SUFFICES ASSUME ~mishap', NEW s \in Session, session'[s] # NoSession,
                    session'[s].state = "old"
             PROVE  \E r \in Request :
                      /\ request'[r].op = "reset" /\ request'[r].step \in {"spend", "signout"}
                      /\ request'[r].email = session'[s].email
  BY DEF SessionsFollowPassword, At
<1>0. request \in [Request -> Requests] /\ ~mishap
  BY StepMoves DEF AccountTypeOK
<1>1. CASE session'[s] = session[s]
  <2>1. PICK r \in Request : /\ request[r].op = "reset"
                             /\ request[r].step \in {"spend", "signout"}
                             /\ request[r].email = session[s].email
    BY <1>0, <1>1 DEF SessionsFollowPassword, At
  <2>2. CASE request'[r] = request[r]
    BY <1>1, <2>1, <2>2
  <2>3. ASSUME NEW q \in Request, SignOutEverywhere(q) PROVE request'[r] = request[r]
    <3>1. q # r
      BY <1>1, <2>1, <2>3 DEF SignOutEverywhere
    <3>2. QED BY <1>0, <2>3, <3>1 DEF SignOutEverywhere, Done
  <2>4. ASSUME NEW q \in Request, At(q, Users, "spend"), AfterSpend(q)
        PROVE  \/ request'[r] = request[r]
               \/ /\ request'[r].op = "reset" /\ request'[r].step = "signout"
                  /\ request'[r].email = session[s].email
    <3>1. CASE q = r
      BY <1>0, <2>1, <2>4, <3>1 DEF AfterSpend
    <3>2. CASE q # r
      BY <1>0, <2>4, <3>2 DEF AfterSpend, Done
    <3>3. QED BY <3>1, <3>2
  <2>5. QED BY <1>1, <2>1, <2>2, <2>3, <2>4, StepMoves DEF ResetsSteady
<1>2. ASSUME NEW r \in Request, ChangePassword(r), session'[s].email = request[r].email
      PROVE  /\ request'[r].op = "reset" /\ request'[r].step = "spend"
             /\ request'[r].email = session'[s].email
  <2>1. request[r] \in [op : Users, step : {"discard", "apply", "spend"}, email : Email,
                        token : Token] /\ request[r].op = "reset"
    BY <1>2, RequestAt DEF ChangePassword, At
  <2>2. request'[r] = [request[r] EXCEPT !.step = "spend"]
    BY <1>2 DEF ChangePassword
  <2>3. QED BY <1>2, <2>1, <2>2
<1>3. QED BY <1>1, <1>2, OldSessions

-----------------------------------------------------------------------------
(***************************************************************************)
(* Tokens are few.                                                         *)
(***************************************************************************)

\* The rows and the handlers that are counted are finitely many.
LEMMA CountsAreNaturals ==
  ASSUME NEW kind, NEW e
  PROVE  /\ IsFiniteSet(RowsOf(kind, e)) /\ IsFiniteSet(Creators(kind, e))
         /\ Cardinality(RowsOf(kind, e)) \in Nat /\ Cardinality(Creators(kind, e)) \in Nat
         /\ Cardinality(Request) \in Nat
         /\ Cardinality(Creators(kind, e)) <= Cardinality(Request)
<1>1. RowsOf(kind, e) \in SUBSET Token /\ Creators(kind, e) \in SUBSET Request
  BY DEF RowsOf, Creators
<1>2. IsFiniteSet(Token) /\ IsFiniteSet(Request)
  BY AccountAssumption
<1>3. QED BY <1>1, <1>2, FS_Subset, FS_CardinalityType

\* Only Verifications.Create adds a row.
LEMMA RowsOnlyGo ==
  ASSUME AccountTypeOK, AccountNext
  PROVE  \/ \A kind \in Kind, e \in Email : RowsOf(kind, e)' \subseteq RowsOf(kind, e)
         \/ \E r \in Request : CreateToken(r)
<1> DEFINE Go == \A kind \in Kind, e \in Email : RowsOf(kind, e)' \subseteq RowsOf(kind, e)
<1>1. ASSUME UNCHANGED verification PROVE Go
  BY <1>1 DEF RowsOf
<1>2. ASSUME NEW gone, DeleteRows(gone) PROVE Go
  BY <1>2 DEF RowsOf, DeleteRows
<1>3. ASSUME Tick PROVE Go
  <2>1. ASSUME NEW t \in Token
        PROVE  \/ verification[t] = NoRow /\ verification'[t] = NoRow
               \/ /\ verification[t] # NoRow
                  /\ verification'[t].kind = verification[t].kind
                  /\ verification'[t].email = verification[t].email
    <3>1. verification'[t] = IF verification[t] = NoRow THEN NoRow
                             ELSE [verification[t] EXCEPT !.age = Older(@)]
      BY <1>3 DEF Tick
    <3>2. verification[t] # NoRow => verification[t] \in Row
      BY DEF AccountTypeOK
    <3>3. QED BY <3>1, <3>2 DEF Row
  <2>2. QED BY <2>1 DEF RowsOf
<1>4. QED
  <2> HIDE DEF Go
  <2>1. ASSUME NEW r \in Request, HandlerStep(r) PROVE Go \/ CreateToken(r)
    BY <1>1, <1>2, <2>1
    DEF HandlerStep, ReadLatest, JudgeMail, PurgeEarlier, EnqueueMail, Discard,
        Verify, ChangePassword, Spend, SignOutEverywhere, OpenSession, FindUser, InsertUser,
        ConfirmUser, LinkAccount, rows
  <2>2. ASSUME NEW r \in Request, Call(r) \/ Abort(r) \/ LogAndGoOn(r) PROVE Go
    BY <1>1, <2>2
    DEF Call, CreateUser, Login, LoadForMail, Lookup, Callback, Abort, LogAndGoOn, rows
  <2>3. Go \/ \E r \in Request : CreateToken(r)
    BY <1>1, <1>3, <2>1, <2>2
    DEF AccountNext, Step, Logout, BecomeOrganizer, SessionExpires
  <2>4. QED BY <2>3 DEF Go

\* No step makes the rows and their creators more than the handlers.
LEMMA StepTokens ==
  ASSUME AccountTypeOK, TokensBounded, AccountNext
  PROVE  TokensBounded'
<1> SUFFICES ASSUME ~mishap', NEW kind \in Kind, NEW e \in Email
             PROVE  Cardinality(RowsOf(kind, e))' + Cardinality(Creators(kind, e))'
                      <= Cardinality(Request)
  BY DEF TokensBounded
<1> DEFINE R == RowsOf(kind, e)
           C == Creators(kind, e)
<1>0. ~mishap /\ request \in [Request -> Requests]
  BY StepMoves DEF AccountTypeOK
<1>1. /\ IsFiniteSet(R) /\ IsFiniteSet(C) /\ IsFiniteSet(R') /\ IsFiniteSet(C')
      /\ Cardinality(R) \in Nat /\ Cardinality(C) \in Nat
      /\ Cardinality(R') \in Nat /\ Cardinality(C') \in Nat
      /\ Cardinality(Request) \in Nat /\ Cardinality(C') <= Cardinality(Request)
  <2>1. /\ R' \in SUBSET Token /\ C' \in SUBSET Request
        /\ IsFiniteSet(Token) /\ IsFiniteSet(Request)
    BY AccountAssumption DEF RowsOf, Creators
  <2>2. /\ IsFiniteSet(R') /\ IsFiniteSet(C')
        /\ Cardinality(R') \in Nat /\ Cardinality(C') \in Nat
        /\ Cardinality(C') <= Cardinality(Request)
    <3> HIDE DEF R, C
    <3>1. QED BY <2>1, FS_Subset, FS_CardinalityType
  <2>3. QED BY <2>2, CountsAreNaturals
<1>2. Cardinality(R) + Cardinality(C) <= Cardinality(Request)
  BY <1>0 DEF TokensBounded
<1>3. ASSUME R' \subseteq R, C' \subseteq C
      PROVE  Cardinality(R') + Cardinality(C') <= Cardinality(Request)
  <2>1. Cardinality(R') <= Cardinality(R) /\ Cardinality(C') <= Cardinality(C)
    <3> HIDE DEF R, C
    <3>1. R' \in SUBSET R /\ C' \in SUBSET C
      BY <1>3
    <3>2. QED BY <1>1, <3>1, FS_Subset
  <2>2. QED
    <3> HIDE DEF R, C
    <3>1. QED BY <1>1, <1>2, <2>1
<1>4. ASSUME R' = {}
      PROVE  Cardinality(R') + Cardinality(C') <= Cardinality(Request)
  <2>1. Cardinality(R') = 0
    BY <1>4, FS_EmptySet
  <2>2. QED
    <3> HIDE DEF R, C
    <3>1. QED BY <1>1, <2>1
\* Who moves elsewhere is not counted.
<1>5. ASSUME CreatorsSteady PROVE C' \subseteq C
  BY <1>5 DEF CreatorsSteady, Creators, At
<1>6. ASSUME NEW r \in Request, CreateToken(r)
      PROVE  Cardinality(R') + Cardinality(C') <= Cardinality(Request)
  <2>1. CreatorsSteady
    <3>1. ~PurgeEarlier(r) /\ \A f \in Email : ~CreateUser(r, f)
      BY <1>6 DEF CreateToken, PurgeEarlier, CreateUser, Begins, Idle, At
    <3>2. QED BY <1>6, <3>1, SendersMove
  <2>2. PICK t \in Token :
          /\ verification[t] = NoRow
          /\ verification' = [verification EXCEPT ![t] =
               [kind |-> KindOf(request[r].op), email |-> request[r].email, age |-> 0]]
          /\ request'[r].step = "enqueue"
    <3>1. PICK t \in Token :
            /\ verification[t] = NoRow
            /\ verification' = [verification EXCEPT ![t] =
                 [kind |-> KindOf(request[r].op), email |-> request[r].email, age |-> 0]]
            /\ request' = [request EXCEPT ![r] =
                 [op |-> request[r].op, step |-> "enqueue", email |-> request[r].email,
                  token |-> t]]
      BY <1>6 DEF CreateToken, Fresh
    <3>2. request'[r].step = "enqueue"
      BY <1>0, <3>1
    <3>3. QED BY <3>1, <3>2
  <2>3. verification \in [Token -> {NoRow} \cup Row]
    BY DEF AccountTypeOK
  <2>4. CASE KindOf(request[r].op) = kind /\ request[r].email = e
    <3>1. r \in C /\ r \notin C'
      BY <1>6, <2>2, <2>4 DEF CreateToken, Creators, At
    <3>2. t \notin R /\ R' \subseteq R \cup {t}
      BY <2>2, <2>3 DEF RowsOf
    <3>3. C' \subseteq C \ {r}
      BY <1>5, <2>1, <3>1
    <3> HIDE DEF R, C
    <3>4. /\ IsFiniteSet(R \cup {t}) /\ Cardinality(R \cup {t}) = Cardinality(R) + 1
          /\ IsFiniteSet(C \ {r}) /\ Cardinality(C \ {r}) = Cardinality(C) - 1
      BY <1>1, <3>1, <3>2, FS_AddElement, FS_RemoveElement
    <3>5. R' \in SUBSET (R \cup {t}) /\ C' \in SUBSET (C \ {r})
      BY <3>2, <3>3
    <3>6. /\ Cardinality(R') <= Cardinality(R) + 1
          /\ Cardinality(C') <= Cardinality(C) - 1
      BY <3>4, <3>5, FS_Subset
    <3>7. QED BY <1>1, <1>2, <3>6
  <2>5. CASE ~(KindOf(request[r].op) = kind /\ request[r].email = e)
    <3>1. R' \subseteq R
      BY <2>2, <2>3, <2>5 DEF RowsOf
    <3>2. QED BY <1>3, <1>5, <2>1, <3>1
  <2>6. QED BY <2>4, <2>5
<1>7. ASSUME NEW r \in Request, PurgeEarlier(r)
      PROVE  Cardinality(R') + Cardinality(C') <= Cardinality(Request)
  <2>1. request[r].step = "purge"
        /\ DeleteRows(RowsOf(KindOf(request[r].op), request[r].email))
    BY <1>7 DEF PurgeEarlier, At
  <2>2. CASE KindOf(request[r].op) = kind /\ request[r].email = e
    <3>1. R' = {}
      BY <2>1, <2>2 DEF RowsOf, DeleteRows
    <3>2. QED BY <1>4, <3>1
  <2>3. CASE ~(KindOf(request[r].op) = kind /\ request[r].email = e)
    <3>1. R' \subseteq R
      BY <2>1 DEF RowsOf, DeleteRows
    <3>2. PICK q \in Requests :
            /\ request' = [request EXCEPT ![r] = q]
            /\ q.op = request[r].op /\ q.email = request[r].email
      BY <1>7, GotoForm DEF PurgeEarlier
    <3>3. C' \subseteq C
      BY <1>0, <2>3, <3>2 DEF Creators, At
    <3>4. QED BY <1>3, <3>1, <3>3
  <2>4. QED BY <2>2, <2>3
<1>8. ASSUME NEW r \in Request, NEW f \in Email, CreateUser(r, f)
      PROVE  Cardinality(R') + Cardinality(C') <= Cardinality(Request)
  <2>1. R' = R /\ ~Exists(f)
    BY <1>8 DEF CreateUser, RowsOf
  <2>2. CASE e = f
    <3>1. R = {}
      BY <2>1, <2>2 DEF RowsOf, AccountTypeOK
    <3>2. QED BY <1>4, <2>1, <3>1
  <2>3. CASE e # f
    <3> DEFINE q == [op |-> "register", step |-> "create", email |-> f]
    <3>1. request' = [request EXCEPT ![r] = q] /\ q.email = f
      BY <1>8 DEF CreateUser
    <3> HIDE DEF q
    <3>2. C' \subseteq C
      BY <1>0, <2>3, <3>1 DEF Creators, At
    <3>3. QED BY <1>3, <2>1, <3>2
  <2>4. QED BY <2>2, <2>3
<1>9. ASSUME CreatorsSteady, ~ \E r \in Request : CreateToken(r)
      PROVE  Cardinality(R') + Cardinality(C') <= Cardinality(Request)
  <2>1. R' \subseteq R
    BY <1>9, RowsOnlyGo
  <2>2. QED BY <1>3, <1>5, <1>9, <2>1
<1>10. Cardinality(R') + Cardinality(C') <= Cardinality(Request)
  <2> HIDE DEF R, C
  <2>1. QED BY <1>6, <1>7, <1>8, <1>9, StepMoves
<1>11. QED BY <1>10

-----------------------------------------------------------------------------
(***************************************************************************)
(* The invariants together, and what the runs check.                       *)
(***************************************************************************)
AccountInv == TokensBounded /\ SessionsFollowPassword /\ LinkedAreVerified

\* Nothing is registered at first.
LEMMA InitAccounts == AccountInit => AccountTypeOK /\ AccountInv
<1> SUFFICES ASSUME AccountInit PROVE AccountTypeOK /\ AccountInv
  OBVIOUS
<1>1. AccountTypeOK
  BY DEF AccountInit, AccountTypeOK, Requests
<1>2. SessionsFollowPassword /\ LinkedAreVerified
  BY DEF AccountInit, SessionsFollowPassword, LinkedAreVerified, At, Idle
<1>3. TokensBounded
  <2>1. ASSUME NEW kind \in Kind, NEW e \in Email
        PROVE  Cardinality(RowsOf(kind, e)) + Cardinality(Creators(kind, e))
                 <= Cardinality(Request)
    <3>1. RowsOf(kind, e) = {}
      BY DEF RowsOf, AccountInit
    <3>2. QED BY <3>1, FS_EmptySet, CountsAreNaturals
  <2>2. QED BY <2>1 DEF TokensBounded
<1>4. QED BY <1>1, <1>2, <1>3 DEF AccountInv

\* Types and foreign keys, the bound on tokens, the fate of sessions after a reset
\* and the verification of linked accounts are kept by every statement.
LEMMA AccountInductive == AccountSpec => [](AccountTypeOK /\ AccountInv)
<1>1. AccountTypeOK /\ AccountInv /\ [AccountNext]_accountVars =>
        (AccountTypeOK /\ AccountInv)'
  <2> SUFFICES ASSUME AccountTypeOK, AccountInv, [AccountNext]_accountVars
               PROVE  (AccountTypeOK /\ AccountInv)'
    OBVIOUS
  <2>1. AccountTypeOK'
    BY AccountStepTypeOK
  <2>2. CASE AccountNext
    BY <2>2, <2>1, StepTokens, StepSessions, StepLinked DEF AccountInv
  <2>3. CASE UNCHANGED accountVars
    <3>1. UNCHANGED <<account, link, verification, mailed, session, request, mishap>>
      BY <2>3 DEF accountVars, rows
    <3>2. SessionsFollowPassword' /\ LinkedAreVerified'
      BY <3>1 DEF AccountInv, SessionsFollowPassword, LinkedAreVerified, At
    <3>3. \A kind \in Kind, e \in Email :
            RowsOf(kind, e)' = RowsOf(kind, e) /\ Creators(kind, e)' = Creators(kind, e)
      BY <3>1 DEF RowsOf, Creators, At
    <3>4. TokensBounded'
      BY <3>1, <3>3 DEF AccountInv, TokensBounded
    <3>5. QED BY <2>1, <3>2, <3>4 DEF AccountInv
  <2>4. QED BY <2>2, <2>3
<1>2. QED BY <1>1, InitAccounts, PTL DEF AccountSpec

\* However handlers interleave, fail and crash, no session, link or verification
\* points to an account that is not there, and no handler holds such an address
\* past the statement that looks it up.
THEOREM AccountTypes == AccountSpec => []AccountTypeOK
  BY AccountInductive, PTL

\* There are never more tokens of a kind for an address, live or expired, than
\* handlers that may overlap.
THEOREM FewTokens == AccountSpec => []TokensBounded
<1>1. AccountTypeOK /\ AccountInv => TokensBounded
  BY DEF AccountInv
<1>2. QED BY <1>1, AccountInductive, PTL

\* Once a reset is through, the sessions of the earlier password are gone.
THEOREM ResetEndsSessions == AccountSpec => []SessionsFollowPassword
<1>1. AccountTypeOK /\ AccountInv => SessionsFollowPassword
  BY DEF AccountInv
<1>2. QED BY <1>1, AccountInductive, PTL

\* A Google account is linked to verified users only.
THEOREM LinksAreVerified == AccountSpec => []LinkedAreVerified
<1>1. AccountTypeOK /\ AccountInv => LinkedAreVerified
  BY DEF AccountInv
<1>2. QED BY <1>1, AccountInductive, PTL
=============================================================================
