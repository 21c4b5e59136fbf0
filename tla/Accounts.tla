------------------------------ MODULE Accounts ------------------------------
(***************************************************************************)
(* Accounts, one-time tokens and sessions: cmd/server/auth.go and the      *)
(* stores it calls (users.go, verifications.go, sessions.go, oauth.go).    *)
(* No handler opens a transaction: every statement commits by itself, so   *)
(* handlers interleave between any two of their statements, and one that   *)
(* fails leaves what it has done.                                          *)
(*                                                                         *)
(* Time is kept as ages.  A verification row is as old as the ticks since  *)
(* its created_at, and a copy of a row ages with it; nothing else depends  *)
(* on the clock.  Passwords are kept as "the one that is set" and "an      *)
(* earlier one": a reset makes every session and login in progress one of  *)
(* an earlier password.                                                    *)
(***************************************************************************)
EXTENDS Integers, FiniteSets

CONSTANTS
  Email,       \* addresses; the UNIQUE column makes them the users' names
  Google,      \* Google account ids
  Token,       \* tokens; bounds the rows of verifications
  Session,     \* session tokens; bounds the rows of sessions
  Request,     \* handlers in progress at a time
  Calls,       \* the endpoints the clients of an instance call
  Limit,       \* 5 mails ...
  Window,      \* ... within time.Hour
  Cooldown,    \* time.Minute between two mails
  VerifyLife,  \* time.Hour for a verification token
  ResetLife,   \* 15 minutes for a reset token
  Faults       \* whether queries may fail, tasks be lost and handlers crash

Senders == {"register", "resend", "forgot"}
Users   == {"verify", "reset"}
Endpoints == Senders \cup Users \cup {"login", "google", "logout", "organize"}

ASSUME AccountAssumption ==
  /\ IsFiniteSet(Token) /\ IsFiniteSet(Request)
  /\ Calls \subseteq Endpoints
  /\ {Limit, Window, VerifyLife, ResetLife} \subseteq Nat \ {0}
  /\ Cooldown \in Nat
  /\ Faults \in BOOLEAN

VARIABLES
  account,       \* rows of users
  link,          \* rows of oauth_accounts
  verification,  \* rows of verifications, by the token they hash
  mailed,        \* tokens that a mail was enqueued for and that have a row
  session,       \* rows of sessions, by the token they hash
  request,       \* what each handler has read, and the step it has reached
  mishap         \* whether a statement that nobody repeats was missed, see below

rows == <<account, link, verification, mailed, session>>
accountVars == <<rows, request, mishap>>

Life == [verify |-> VerifyLife, reset |-> ResetLife]
Kind == {"verify", "reset"}  \* the prefix of verifications.identifier

\* Beyond this age a row is expired, out of the window and past the cool-down.
Old  == CHOOSE n \in {Window, VerifyLife, ResetLife, Cooldown + 1} :
          \A m \in {Window, VerifyLife, ResetLife, Cooldown + 1} : m <= n
Ages == 0..Old
Older(n) == IF n < Old THEN n + 1 ELSE n

NoUser == [state |-> "none"]
NoRow  == [kind |-> "none"]
NoLink == [state |-> "none"]
NoSession == [state |-> "none"]
Idle   == [op |-> "none", step |-> "idle"]
Missing == -1   \* the age of the latest row where there is none

User == [state : {"kept"}, verified : BOOLEAN, password : BOOLEAN, organizer : BOOLEAN]
Row  == [kind : Kind, email : Email, age : Ages]

Requests ==
  {Idle}
    \cup [op : Senders, step : {"latest", "purge", "create"}, email : Email]
    \cup [op : Senders, step : {"count"}, email : Email, latest : {Missing} \cup Ages]
    \cup [op : Senders, step : {"enqueue"}, email : Email, token : Token]
    \cup [op : Users, step : {"discard", "apply", "spend"}, email : Email, token : Token]
    \cup [op : {"reset"}, step : {"signout"}, email : Email]
    \cup [op : {"login"}, step : {"session"}, email : Email, late : BOOLEAN]
    \cup [op : {"google"}, step : {"user", "insert", "confirm", "link", "session"},
          email : Email, google : Google]

Exists(e) == account[e] # NoUser
At(r, ops, step) == request[r].step = step /\ request[r].op \in ops

\* The foreign keys: sessions, Google accounts and the address in a verification
\* belong to rows of users.  So do the copies the handlers hold, but for a
\* callback that has still to find or to insert its user.
AccountTypeOK ==
  /\ account \in [Email -> {NoUser} \cup User]
  /\ link \in [Google -> {NoLink} \cup [state : {"kept"}, email : Email]]
  /\ verification \in [Token -> {NoRow} \cup Row]
  /\ mailed \subseteq {t \in Token : verification[t] # NoRow}
  /\ session \in [Session -> {NoSession} \cup
                    [state : {"current", "old", "late", "google"}, email : Email]]
  /\ request \in [Request -> Requests]
  /\ mishap \in BOOLEAN
  /\ \A s \in Session : session[s] # NoSession => Exists(session[s].email)
  /\ \A g \in Google : link[g] # NoLink => Exists(link[g].email)
  /\ \A t \in Token : verification[t] # NoRow => Exists(verification[t].email)
  /\ \A r \in Request :
       \/ request[r] = Idle \/ At(r, {"google"}, "user") \/ At(r, {"google"}, "insert")
       \/ Exists(request[r].email)

AccountInit ==
  /\ account = [e \in Email |-> NoUser]
  /\ link = [g \in Google |-> NoLink]
  /\ verification = [t \in Token |-> NoRow]
  /\ mailed = {}
  /\ session = [s \in Session |-> NoSession]
  /\ request = [r \in Request |-> Idle]
  /\ mishap = FALSE

Done(r) == request' = [request EXCEPT ![r] = Idle]
Goto(r, step) == request' = [request EXCEPT ![r].step = step]
Begins(r, call) == call \in Calls /\ request[r] = Idle

(***************************************************************************)
(* Verifications                                                           *)
(***************************************************************************)

RowsOf(kind, e) ==
  {t \in Token : verification[t] # NoRow /\ verification[t].kind = kind
                                         /\ verification[t].email = e}

\* Get, and the handler's test of expires_at
Live(t) == verification[t] # NoRow /\ verification[t].age < Life[verification[t].kind]

\* GetLatest, as the age of the row it returns
LatestAge(kind, e) ==
  IF RowsOf(kind, e) = {} THEN Missing
  ELSE CHOOSE n \in Ages : /\ \E t \in RowsOf(kind, e) : verification[t].age = n
                           /\ \A t \in RowsOf(kind, e) : n <= verification[t].age

\* CountSince(identifier, time.Hour)
CountSince(kind, e) == Cardinality({t \in RowsOf(kind, e) : verification[t].age < Window})

\* allowResend and allowSend
Allowed(latest, count) == latest = Missing \/ (count < Limit /\ latest > Cooldown)

\* Delete and DeleteByIdentifier; the links in the mails of these tokens die.
DeleteRows(gone) ==
  /\ verification' = [t \in Token |-> IF t \in gone THEN NoRow ELSE verification[t]]
  /\ mailed' = mailed \ gone

\* A token no mail and no handler knows of: GenerateToken does not repeat.
Fresh(t) ==
  /\ verification[t] = NoRow
  /\ \A r \in Request : "token" \in DOMAIN request[r] => request[r].token # t

\* The prefix of the identifier a sender writes and a user asks for.
KindOf(op) == IF op \in {"forgot", "reset"} THEN "reset" ELSE "verify"

(***************************************************************************)
(* registerUser, resendVerificationEmail, forgotPassword                   *)
(***************************************************************************)

\* registerUser's Users.Create; an address that is taken is a conflict.
CreateUser(r, e) ==
  /\ Begins(r, "register")
  /\ ~Exists(e)
  /\ account' = [account EXCEPT ![e] =
       [state |-> "kept", verified |-> FALSE, password |-> TRUE, organizer |-> FALSE]]
  /\ request' = [request EXCEPT ![r] = [op |-> "register", step |-> "create", email |-> e]]
  /\ UNCHANGED <<link, verification, mailed, session>>

\* GetByEmail; a verified user needs no further verification mail.
LoadForMail(r, e, op) ==
  /\ op \in {"resend", "forgot"}
  /\ Begins(r, op)
  /\ Exists(e)
  /\ op = "resend" => ~account[e].verified
  /\ request' = [request EXCEPT ![r] = [op |-> op, step |-> "latest", email |-> e]]
  /\ UNCHANGED rows

ReadLatest(r) ==
  /\ At(r, Senders, "latest")
  /\ LET q == request[r]
     IN request' = [request EXCEPT ![r] =
          [op |-> q.op, step |-> "count", email |-> q.email,
           latest |-> LatestAge(KindOf(q.op), q.email)]]
  /\ UNCHANGED rows

\* CountSince, and the decision on it and on the row read before.
JudgeMail(r) ==
  /\ At(r, Senders, "count")
  /\ LET q == request[r]
     IN IF Allowed(q.latest, CountSince(KindOf(q.op), q.email))
        THEN request' = [request EXCEPT ![r] =
               [op |-> q.op, step |-> "purge", email |-> q.email]]
        ELSE Done(r)
  /\ UNCHANGED rows

\* Mistake: the earlier tokens are left alone.
KeepEarlier(r) ==
  /\ At(r, Senders, "purge")
  /\ Goto(r, "create")
  /\ UNCHANGED rows

\* DeleteByIdentifier
PurgeEarlier(r) ==
  /\ At(r, Senders, "purge")
  /\ DeleteRows(RowsOf(KindOf(request[r].op), request[r].email))
  /\ Goto(r, "create")
  /\ UNCHANGED <<account, link, session>>

\* Verifications.Create
CreateToken(r) ==
  /\ At(r, Senders, "create")
  /\ \E t \in Token :
       LET q == request[r] IN
       /\ Fresh(t)
       /\ verification' = [verification EXCEPT ![t] =
            [kind |-> KindOf(q.op), email |-> q.email, age |-> 0]]
       /\ request' = [request EXCEPT ![r] =
            [op |-> q.op, step |-> "enqueue", email |-> q.email, token |-> t]]
  /\ UNCHANGED <<account, link, mailed, session>>

\* The mail task; asynq delivers it sooner or later.
EnqueueMail(r) ==
  /\ At(r, Senders, "enqueue")
  /\ mailed' = mailed \cup ({request[r].token} \ {t \in Token : verification[t] = NoRow})
  /\ Done(r)
  /\ UNCHANGED <<account, link, verification, session>>

(***************************************************************************)
(* verifyEmail and resetPassword                                           *)
(***************************************************************************)

\* CutPrefix
RightKind(op, t) == verification[t].kind = KindOf(op)

\* Verifications.Get by a token from a mail, and the checks on the row.  One
\* that is unknown, or live and of the wrong kind, is refused without a trace.
Lookup(r, t, op) ==
  /\ op \in Users
  /\ Begins(r, op)
  /\ t \in mailed
  /\ Live(t) => RightKind(op, t)
  /\ request' = [request EXCEPT ![r] =
       [op |-> op, step |-> IF Live(t) THEN "apply" ELSE "discard",
        email |-> verification[t].email, token |-> t]]
  /\ UNCHANGED rows

\* The row of an expired token is deleted.
Discard(r) ==
  /\ At(r, Users, "discard")
  /\ DeleteRows({request[r].token})
  /\ Done(r)
  /\ UNCHANGED <<account, link, session>>

\* verifyEmail's MarkVerified
Verify(r) ==
  /\ At(r, {"verify"}, "apply")
  /\ account' = [account EXCEPT ![request[r].email].verified = TRUE]
  /\ Goto(r, "spend")
  /\ UNCHANGED <<link, verification, mailed, session>>

\* What a new password makes of sessions and of logins in progress.
Outdate(e) ==
  /\ session' = [s \in Session |->
       IF session[s] = [state |-> "current", email |-> e]
       THEN [state |-> "old", email |-> e] ELSE session[s]]

\* resetPassword's GetByEmail and Users.ResetPassword
ChangePassword(r) ==
  /\ At(r, {"reset"}, "apply")
  /\ LET e == request[r].email IN
     /\ account' = [account EXCEPT ![e].password = TRUE]
     /\ Outdate(e)
     /\ request' = [q \in Request |->
          IF q = r THEN [request[r] EXCEPT !.step = "spend"]
          ELSE IF request[q].op = "login" /\ request[q].email = e
          THEN [request[q] EXCEPT !.late = TRUE]
          ELSE request[q]]
  /\ UNCHANGED <<link, verification, mailed>>

\* After the use of a token: a reset goes on to the sessions.
AfterSpend(r) ==
  IF request[r].op = "reset"
  THEN request' = [request EXCEPT ![r] =
         [op |-> "reset", step |-> "signout", email |-> request[r].email]]
  ELSE Done(r)

Spend(r) ==
  /\ At(r, Users, "spend")
  /\ DeleteRows({request[r].token})
  /\ AfterSpend(r)
  /\ UNCHANGED <<account, link, session>>

\* Mistake: the sessions of the user are kept.
KeepSessions(r) ==
  /\ At(r, {"reset"}, "signout")
  /\ Done(r)
  /\ UNCHANGED rows

\* Sessions.DeleteAll
SignOutEverywhere(r) ==
  /\ At(r, {"reset"}, "signout")
  /\ session' = [s \in Session |->
       IF session[s] # NoSession /\ session[s].email = request[r].email
       THEN NoSession ELSE session[s]]
  /\ Done(r)
  /\ UNCHANGED <<account, link, verification, mailed>>

(***************************************************************************)
(* loginUser, googleCallback, logoutUser, becomeOrganizer                  *)
(***************************************************************************)

\* GetByEmail and VerifyPassword, for the password that is set now.
Login(r, e) ==
  /\ Begins(r, "login")
  /\ Exists(e) /\ account[e].password
  /\ request' = [request EXCEPT ![r] =
       [op |-> "login", step |-> "session", email |-> e, late |-> FALSE]]
  /\ UNCHANGED rows

\* Sessions.Create.  A login whose password was changed meanwhile is late.
OpenSession(r) ==
  /\ At(r, {"login", "google"}, "session")
  /\ \E s \in Session :
       /\ session[s] = NoSession
       /\ session' = [session EXCEPT ![s] =
            [state |-> IF request[r].op = "google" THEN "google"
                       ELSE IF request[r].late THEN "late" ELSE "current",
             email |-> request[r].email]]
  /\ Done(r)
  /\ UNCHANGED <<account, link, verification, mailed>>

\* Google has answered with the account and its present address, and
\* GetByProviderAndAccountID with GetByID finds the user of a linked account.
Callback(r, g, e) ==
  /\ Begins(r, "google")
  /\ request' = [request EXCEPT ![r] =
       [op |-> "google", google |-> g,
        step  |-> IF link[g] = NoLink THEN "user" ELSE "session",
        email |-> IF link[g] = NoLink THEN e ELSE link[g].email]]
  /\ UNCHANGED rows

\* GetByEmail, and what the callback makes of the user it finds.
FindUser(r) ==
  /\ At(r, {"google"}, "user")
  /\ LET e == request[r].email
     IN Goto(r, IF ~Exists(e) THEN "insert"
                ELSE IF account[e].verified THEN "link" ELSE "confirm")
  /\ UNCHANGED rows

\* Mistake: the user is filled in and not stored.
ForgetUser(r) ==
  /\ At(r, {"google"}, "insert")
  /\ Goto(r, "link")
  /\ UNCHANGED rows

\* Mistake: the conflict is not looked at.
IgnoreConflict(r) ==
  /\ At(r, {"google"}, "insert")
  /\ LET e == request[r].email
     IN account' = IF Exists(e) THEN account ELSE [account EXCEPT ![e] =
          [state |-> "kept", verified |-> TRUE, password |-> FALSE, organizer |-> FALSE]]
  /\ Goto(r, "link")
  /\ UNCHANGED <<link, verification, mailed, session>>

\* Users.Create of a verified user without a password.  When somebody else has
\* registered the address meanwhile, the callback gives up.
InsertUser(r) ==
  /\ At(r, {"google"}, "insert")
  /\ LET e == request[r].email
     IN IF Exists(e)
        THEN Done(r) /\ UNCHANGED account
        ELSE /\ account' = [account EXCEPT ![e] =
                  [state |-> "kept", verified |-> TRUE, password |-> FALSE,
                   organizer |-> FALSE]]
             /\ Goto(r, "link")
  /\ UNCHANGED <<link, verification, mailed, session>>

\* MarkVerified
ConfirmUser(r) ==
  /\ At(r, {"google"}, "confirm")
  /\ account' = [account EXCEPT ![request[r].email].verified = TRUE]
  /\ Goto(r, "link")
  /\ UNCHANGED <<link, verification, mailed, session>>

\* OAuthAccounts.Create; UNIQUE(provider, provider_account_id) stops the second.
LinkAccount(r) ==
  /\ At(r, {"google"}, "link")
  /\ LET g == request[r].google
     IN IF link[g] = NoLink
        THEN /\ link' = [link EXCEPT ![g] = [state |-> "kept", email |-> request[r].email]]
             /\ Goto(r, "session")
        ELSE Done(r) /\ UNCHANGED link
  /\ UNCHANGED <<account, verification, mailed, session>>

\* authenticate: Sessions.Get and Users.GetByID
Authenticated(s) == session[s] # NoSession

Logout(s) ==
  /\ "logout" \in Calls
  /\ Authenticated(s)
  /\ session' = [session EXCEPT ![s] = NoSession]
  /\ UNCHANGED <<account, link, verification, mailed, request>>

\* requireAuth's copy of the role only decides whether there is anything to do.
BecomeOrganizer(s) ==
  /\ "organize" \in Calls
  /\ Authenticated(s)
  /\ ~account[session[s].email].organizer
  /\ account' = [account EXCEPT ![session[s].email].organizer = TRUE]
  /\ UNCHANGED <<link, verification, mailed, session, request>>

(***************************************************************************)
(* Time and failure                                                        *)
(***************************************************************************)

\* A month is over: Sessions.Get no longer returns the row.
SessionExpires(s) ==
  /\ Authenticated(s)
  /\ session' = [session EXCEPT ![s] = NoSession]
  /\ UNCHANGED <<account, link, verification, mailed, request>>

Tick ==
  /\ verification' = [t \in Token |->
       IF verification[t] = NoRow THEN NoRow
       ELSE [verification[t] EXCEPT !.age = Older(@)]]
  /\ request' = [r \in Request |->
       IF request[r].step = "count" /\ request[r].latest # Missing
       THEN [request[r] EXCEPT !.latest = Older(@)] ELSE request[r]]
  /\ UNCHANGED <<account, link, mailed, session, mishap>>

\* A statement fails and its error is answered, or logged where nothing follows;
\* or the process dies.  A reset that had its new password stored is cut short.
Abort(r) ==
  /\ Faults
  /\ request[r] # Idle
  /\ Done(r)
  /\ mishap' = (mishap \/ At(r, {"reset"}, "spend") \/ At(r, {"reset"}, "signout"))
  /\ UNCHANGED rows

\* A statement fails and its error is only logged.
LogAndGoOn(r) ==
  /\ Faults
  /\ \/ At(r, Senders, "purge") /\ Goto(r, "create") /\ mishap' = TRUE
     \/ At(r, {"google"}, "confirm") /\ Goto(r, "link") /\ mishap' = TRUE
     \/ At(r, {"reset"}, "spend") /\ AfterSpend(r) /\ UNCHANGED mishap
  /\ UNCHANGED rows

\* What a handler does next by itself.
HandlerStep(r) ==
  \/ ReadLatest(r) \/ JudgeMail(r) \/ PurgeEarlier(r) \/ CreateToken(r) \/ EnqueueMail(r)
  \/ Discard(r) \/ Verify(r) \/ ChangePassword(r) \/ Spend(r) \/ SignOutEverywhere(r)
  \/ OpenSession(r) \/ FindUser(r) \/ InsertUser(r) \/ ConfirmUser(r) \/ LinkAccount(r)

\* What a client asks for.
Call(r) ==
  \/ \E e \in Email : CreateUser(r, e) \/ Login(r, e)
  \/ \E e \in Email, op \in Senders : LoadForMail(r, e, op)
  \/ \E t \in Token, op \in Users : Lookup(r, t, op)
  \/ \E g \in Google, e \in Email : Callback(r, g, e)

Step ==
  \/ /\ \/ \E r \in Request : HandlerStep(r) \/ Call(r)
        \/ \E s \in Session : Logout(s) \/ BecomeOrganizer(s) \/ SessionExpires(s)
     /\ UNCHANGED mishap
  \/ \E r \in Request : Abort(r) \/ LogAndGoOn(r)

AccountNext == Tick \/ Step

AccountSpec == AccountInit /\ [][AccountNext]_accountVars

-----------------------------------------------------------------------------
(***************************************************************************)
(* Properties                                                              *)
(***************************************************************************)

\* The handlers about to store a token of this kind for this address.
Creators(kind, e) ==
  {r \in Request : /\ At(r, Senders, "create") /\ KindOf(request[r].op) = kind
                   /\ request[r].email = e}

\* The tokens of one kind and address are few, used, expired or neither: each mail
\* deletes the earlier ones (auth.go:417, 535), so that only handlers that overlap
\* leave more than one, and then one each.
TokensBounded ==
  ~mishap =>
    \A kind \in Kind, e \in Email :
      Cardinality(RowsOf(kind, e)) + Cardinality(Creators(kind, e)) <= Cardinality(Request)

\* After a reset no session rests on an earlier password (auth.go:656, 667),
\* except while the reset is between its two statements.  A login that had
\* compared the earlier password before and opens its session afterwards is
\* not covered: its session is "late".
SessionsFollowPassword ==
  ~mishap =>
    \A s \in Session : session[s] # NoSession /\ session[s].state = "old" =>
      \E r \in Request : /\ At(r, {"reset"}, "spend") \/ At(r, {"reset"}, "signout")
                         /\ request[r].email = session[s].email

\* A user with a linked Google account, or with one that a callback is about to
\* link, is verified, also one that registered by mail at the same time
\* (auth.go:832-853; PLAN.md:809).
LinkedAreVerified ==
  ~mishap =>
    /\ \A g \in Google : link[g] # NoLink => account[link[g].email].verified
    /\ \A r \in Request : At(r, {"google"}, "link") => account[request[r].email].verified
=============================================================================
