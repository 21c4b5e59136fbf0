------------------------------ MODULE Waitlist ------------------------------
(***************************************************************************)
(* The waitlist of sold-out tiers over TicketSales: joinWaitlist and       *)
(* leaveWaitlist of cmd/server/waitlist.go, the store calls they make, and *)
(* the workers of internal/worker that offer a freed seat to the next in   *)
(* line and expire the offers nobody took.  A promotion task is enqueued   *)
(* by a buyer's cancellation (TicketSales's wake) and by nothing else.     *)
(***************************************************************************)
EXTENDS TicketSales

CONSTANTS
  Organizer, \* events.organizer_id
  Worker,    \* the goroutines of asynq's server that run promotion tasks
  MaxTasks   \* bound: the promotion tasks of one tier waiting to run again

ASSUME TasksAssumption == MaxTasks \in Nat
ASSUME PeopleAssumption ==
  IsFiniteSet(User) /\ Organizer \in User /\ IsFiniteSet(Worker) /\ Tier # {}

VARIABLES
  older,     \* the pairs of users of a tier's rows, the older created_at first
  entry,     \* waitlist_entries.status, "none" without a committed row
  join,      \* the joinWaitlist request of each user, one at a time
  worker,    \* what each worker does
  mailed,    \* the offers whose mail has been sent
  mishap     \* whether a worker has failed

lineVars == <<older, entry, join, worker, mailed>>
waitVars == <<vars, lineVars, mishap>>

Row == User \X Tier
EntryStatus == {"none", "waiting", "notified", "expired"}
AnyTier == CHOOSE t \in Tier : TRUE

\* A request or a worker with nothing in its hands.  A worker's late are the
\* users whose INSERT was open when its SELECT ran, kept for the properties.
NoJoin == [step |-> "out", tier |-> AnyTier]
Free   == [step |-> "idle", tier |-> AnyTier, seen |-> {}, late |-> {}, user |-> Organizer]

Joins == [step : {"out", "visible", "wanted", "unheld", "inserting"}, tier : Tier]
Tasks == [step : {"idle", "picking", "holding", "mailing"}, tier : Tier,
          seen : SUBSET User, late : SUBSET User, user : User]

RowsOf(t) == {u \in User : entry[<<u, t>>] # "none"}
WaitingAt(t) == {u \in User : entry[<<u, t>>] = "waiting"}
Notified == {x \in Row : entry[x] = "notified"}

\* The users whose INSERT has its created_at and has not committed, and those
\* that have a created_at, committed or not.
Inserting(t) == {u \in User : join[u].step = "inserting" /\ join[u].tier = t}
Stamped(t) == RowsOf(t) \cup Inserting(t)

\* Whether u's row is older than v's in the line of t.
Ahead(u, v, t) == <<u, v>> \in older[t]

\* SELECT ... FOR UPDATE OF w: the row a worker's transaction holds.
RowLocked(x) == \E w \in Worker : worker[w].step = "holding" /\ <<worker[w].user, worker[w].tier>> = x

\* PurchasesStore.HasConfirmedPurchase
HasConfirmedPurchase(u, t) ==
  \E p \in Confirmed : Buyer[p] = u /\ tierOf[p] = t

\* created_at tells the rows of a tier apart, one row per user.
StrictOrder(t) ==
  /\ older[t] \subseteq Stamped(t) \X Stamped(t)
  /\ \A u \in Stamped(t) : ~Ahead(u, u, t)
  /\ \A u, v \in Stamped(t) : u # v => Ahead(u, v, t) \/ Ahead(v, u, t)
  /\ \A u, v, x \in Stamped(t) : Ahead(u, v, t) /\ Ahead(v, x, t) => Ahead(u, x, t)

WaitTypeOK ==
  /\ TypeOK
  /\ entry \in [Row -> EntryStatus]
  /\ older \in [Tier -> SUBSET (User \X User)]
  /\ \A t \in Tier : StrictOrder(t)
  /\ join \in [User -> Joins]
  /\ worker \in [Worker -> Tasks]
  /\ \A t \in Tier : RowsOf(t) \cap Inserting(t) = {}
  /\ mailed \subseteq Notified
  /\ mishap \in BOOLEAN

WaitInit ==
  /\ Init
  /\ older = [t \in Tier |-> {}]
  /\ entry = [x \in Row |-> "none"]
  /\ join = [u \in User |-> NoJoin]
  /\ worker = [w \in Worker |-> Free]
  /\ mailed = {}
  /\ mishap = FALSE

(***************************************************************************)
(* Joining and leaving.                                                    *)
(***************************************************************************)
JoinGoto(u, step) == join' = [join EXCEPT ![u].step = step]

\* getPublicEvent found the event, which only its organizer sees while it is a
\* draft or cancelled, and it has not ended.
BeginJoin(u) ==
  /\ join[u].step = "out"
  /\ eventStatus \in {"published", "sold_out"} \/ u = Organizer
  /\ eventStatus # "ended"
  /\ JoinGoto(u, "visible")
  /\ UNCHANGED <<vars, older, entry, worker, mailed>>

SeeSoldOut(u, t) ==
  /\ join[u].step = "visible"
  /\ tierStatus[t] = "sold_out"
  /\ join' = [join EXCEPT ![u] = [step |-> "wanted", tier |-> t]]
  /\ UNCHANGED <<vars, older, entry, worker, mailed>>

SeeNoPurchase(u) ==
  /\ join[u].step = "wanted"
  /\ ~HasConfirmedPurchase(u, join[u].tier)
  /\ JoinGoto(u, "unheld")
  /\ UNCHANGED <<vars, older, entry, worker, mailed>>

\* The tier is on sale, the user has tickets, or has a row in any state, which
\* violates UNIQUE (user_id, tier_id): 409.
RefuseJoin(u) ==
  /\ \/ join[u].step = "visible" /\ \E t \in Tier : tierStatus[t] # "sold_out"
     \/ join[u].step = "wanted" /\ HasConfirmedPurchase(u, join[u].tier)
     \/ join[u].step = "unheld" /\ entry[<<u, join[u].tier>>] # "none"
  /\ join' = [join EXCEPT ![u] = NoJoin]
  /\ UNCHANGED <<vars, older, entry, worker, mailed>>

\* Mistake: the table without UNIQUE (user_id, tier_id).
BeginInsertAgain(u) ==
  LET t == join[u].tier IN
  /\ join[u].step = "unheld"
  /\ older' = [older EXCEPT ![t] = @ \cup (Stamped(t) \X {u})]
  /\ JoinGoto(u, "inserting")
  /\ UNCHANGED <<vars, entry, worker, mailed>>

\* WaitlistStore.Create: created_at is NOW(), when the INSERT's transaction began.
BeginInsert(u) ==
  LET t == join[u].tier IN
  /\ join[u].step = "unheld"
  /\ entry[<<u, t>>] = "none"
  /\ older' = [older EXCEPT ![t] = @ \cup (Stamped(t) \X {u})]
  /\ JoinGoto(u, "inserting")
  /\ UNCHANGED <<vars, entry, worker, mailed>>

\* Its foreign key waits for a sale's FOR UPDATE of the tier (the UPDATE of a
\* cancellation leaves the tier's key alone); then it commits, and is visible.
CommitInsert(u) ==
  /\ join[u].step = "inserting"
  /\ \A p \in Purchase : pc[p] \in SaleSteps => tierOf[p] # join[u].tier
  /\ entry' = [entry EXCEPT ![<<u, join[u].tier>>] = "waiting"]
  /\ join' = [join EXCEPT ![u] = NoJoin]
  /\ UNCHANGED <<vars, older, worker, mailed>>

\* A query of the request fails; an INSERT that was open rolls back.
FailJoin(u) ==
  /\ Faults
  /\ join[u].step # "out"
  /\ older' = [t \in Tier |->
       {p \in older[t] : u \in Inserting(t) => p[1] # u /\ p[2] # u}]
  /\ join' = [join EXCEPT ![u] = NoJoin]
  /\ UNCHANGED <<vars, entry, worker, mailed>>

\* Rows are deleted: they leave the line, and a worker that saw one skips it.
DeleteRows(gone) ==
  /\ entry' = [x \in Row |-> IF x \in gone THEN "none" ELSE entry[x]]
  /\ older' = [t \in Tier |->
       {p \in older[t] : <<p[1], t>> \notin gone /\ <<p[2], t>> \notin gone}]
  /\ worker' = [w \in Worker |->
       [worker[w] EXCEPT !.seen = {u \in @ : <<u, worker[w].tier>> \notin gone}]]
  /\ mailed' = mailed \ gone

\* WaitlistStore.DeleteByUserAndTier, whatever the row's status.
LeaveWaitlist(u, t) ==
  /\ entry[<<u, t>>] # "none"
  /\ ~RowLocked(<<u, t>>)
  /\ DeleteRows({<<u, t>>})
  /\ UNCHANGED <<vars, join>>

(***************************************************************************)
(* Promotion: HandleNotifyNextWaiting and WaitlistStore.NotifyNextWaiting. *)
(***************************************************************************)

\* A worker takes a task; its SELECT sees the rows waiting at this moment.
StartPromotion(w, t) ==
  /\ worker[w].step = "idle"
  /\ wake[t] > 0
  /\ wake' = [wake EXCEPT ![t] = @ - 1]
  /\ worker' = [worker EXCEPT ![w] =
       [Free EXCEPT !.step = "picking", !.tier = t,
                    !.seen = WaitingAt(t), !.late = Inserting(t)]]
  /\ UNCHANGED <<eventVars, tierVars, orderVars, pc, wasSoldOut, cancelVars>>
  /\ UNCHANGED <<older, entry, join, mailed>>

\* The rows it saw that still wait.
Candidates(w) == worker[w].seen \cap WaitingAt(worker[w].tier)

\* Mistake: ORDER BY created_at DESC.
IsLast(u, w) == \A v \in Candidates(w) \ {u} : Ahead(v, u, worker[w].tier)

IsFirst(u, w) == \A v \in Candidates(w) \ {u} : Ahead(u, v, worker[w].tier)

\* Mistake: FOR UPDATE without its effect, a plain SELECT.
LockFirstUnlocked(w, u) ==
  /\ worker[w].step = "picking"
  /\ u \in Candidates(w)
  /\ IsFirst(u, w)
  /\ worker' = [worker EXCEPT ![w].step = "holding", ![w].user = u, ![w].seen = {}]
  /\ UNCHANGED <<vars, older, entry, join, mailed>>

\* Mistake: FOR UPDATE SKIP LOCKED.
LockFirstSkipLocked(w, u) ==
  LET free == {v \in Candidates(w) : ~RowLocked(<<v, worker[w].tier>>)} IN
  /\ worker[w].step = "picking"
  /\ u \in free
  /\ \A v \in free \ {u} : Ahead(u, v, worker[w].tier)
  /\ worker' = [worker EXCEPT ![w].step = "holding", ![w].user = u, ![w].seen = {}]
  /\ UNCHANGED <<vars, older, entry, join, mailed>>

\* ORDER BY created_at LIMIT 1 FOR UPDATE OF w: it waits for the first row's
\* lock, and takes the next one when that row waits no longer.
LockFirst(w, u) ==
  /\ worker[w].step = "picking"
  /\ u \in Candidates(w)
  /\ IsFirst(u, w)
  /\ ~RowLocked(<<u, worker[w].tier>>)
  /\ worker' = [worker EXCEPT ![w].step = "holding", ![w].user = u, ![w].seen = {}]
  /\ UNCHANGED <<vars, older, entry, join, mailed>>

\* ErrNotFound: the task is dropped with SkipRetry.
NobodyWaits(w) ==
  /\ worker[w].step = "picking"
  /\ Candidates(w) = {}
  /\ worker' = [worker EXCEPT ![w] = Free]
  /\ UNCHANGED <<vars, older, entry, join, mailed>>

\* Mistake: the worker is done with its transaction.
CommitOfferOnly(w) ==
  /\ worker[w].step = "holding"
  /\ entry' = [entry EXCEPT ![<<worker[w].user, worker[w].tier>>] = "notified"]
  /\ worker' = [worker EXCEPT ![w] = Free]
  /\ UNCHANGED <<vars, older, join, mailed>>

\* Mistake: the UPDATE finds its row by the tier, not by its id.
CommitOfferToAll(w) ==
  /\ worker[w].step = "holding"
  /\ entry' = [x \in Row |->
       IF x[2] = worker[w].tier /\ entry[x] = "waiting" THEN "notified" ELSE entry[x]]
  /\ worker' = [worker EXCEPT ![w].step = "mailing", ![w].late = {}]
  /\ UNCHANGED <<vars, older, join, mailed>>

CommitOffer(w) ==
  /\ worker[w].step = "holding"
  /\ entry' = [entry EXCEPT ![<<worker[w].user, worker[w].tier>>] = "notified"]
  /\ worker' = [worker EXCEPT ![w].step = "mailing", ![w].late = {}]
  /\ UNCHANGED <<vars, older, join, mailed>>

MailOffer(w) ==
  /\ worker[w].step = "mailing"
  /\ mailed' = mailed \cup ({<<worker[w].user, worker[w].tier>>} \cap Notified)
  /\ worker' = [worker EXCEPT ![w] = Free]
  /\ UNCHANGED <<vars, older, entry, join>>

\* A query or the mail fails, or the worker dies: what is uncommitted rolls
\* back, and asynq runs the task again or, after its last retry, archives it.
FailPromotion(w) ==
  /\ Faults
  /\ worker[w].step # "idle"
  /\ \/ wake' = wake
     \/ /\ wake[worker[w].tier] < MaxTasks
        /\ wake' = [wake EXCEPT ![worker[w].tier] = @ + 1]
  /\ worker' = [worker EXCEPT ![w] = Free]
  /\ mishap' = TRUE
  /\ UNCHANGED <<eventVars, tierVars, orderVars, pc, wasSoldOut, cancelVars>>
  /\ UNCHANGED <<older, entry, join, mailed>>

(***************************************************************************)
(* Expiry: HandleExpireWaitlistReservations, run by the scheduler.         *)
(***************************************************************************)

\* UPDATE ... WHERE status = 'notified' AND expires_at < NOW() RETURNING; any of
\* the offers may have run out.  The UPDATE has committed when CollectRows fails
\* (CollectFails(gone), for gone is not empty), so the handler returns before its
\* loop enqueues a task, and the retry finds nothing that expires.
ExpireReservations ==
  \E gone \in SUBSET Notified \ {{}} :
    /\ CollectFails(gone)
    /\ entry' = [x \in Row |-> IF x \in gone THEN "expired" ELSE entry[x]]
    /\ mailed' = mailed \ gone
    /\ UNCHANGED <<vars, older, join, worker>>

(***************************************************************************)
(* cancelEvent deletes the event's entries, between CancelByEvent and the  *)
(* notification; a delete that fails is logged.                            *)
(***************************************************************************)
DeleteByEvent ==
  /\ ClearWaitlist
  /\ \/ /\ \A x \in Row : ~RowLocked(x)
        /\ DeleteRows({x \in Row : entry[x] # "none"})
     \/ Faults /\ UNCHANGED <<older, entry, worker, mailed>>
  /\ UNCHANGED join

-----------------------------------------------------------------------------
\* The steps of TicketSales that do not touch the waitlist.
SalesStep == Next /\ ~ClearWaitlist /\ UNCHANGED lineVars

PromotionStep(w) ==
  \/ \E u \in User : LockFirst(w, u)
  \/ NobodyWaits(w) \/ CommitOffer(w) \/ MailOffer(w)

WaitStep ==
  \/ SalesStep
  \/ DeleteByEvent
  \/ ExpireReservations
  \/ \E u \in User :
       \/ BeginJoin(u) \/ SeeNoPurchase(u) \/ RefuseJoin(u)
       \/ BeginInsert(u) \/ CommitInsert(u) \/ FailJoin(u)
       \/ \E t \in Tier : SeeSoldOut(u, t) \/ LeaveWaitlist(u, t)
  \/ \E w \in Worker : PromotionStep(w) \/ \E t \in Tier : StartPromotion(w, t)

WaitNext ==
  \/ WaitStep /\ UNCHANGED mishap
  \/ \E w \in Worker : FailPromotion(w)

WaitSpec == WaitInit /\ [][WaitNext]_waitVars

\* Some idle worker takes every task, and a task in hand is carried through.
FairWaitSpec ==
  /\ WaitSpec
  /\ \A w \in Worker : WF_worker(mishap' = mishap /\ PromotionStep(w))
  /\ \A t \in Tier : WF_worker(mishap' = mishap /\ \E w \in Worker : StartPromotion(w, t))

\* The scheduler runs the expiry every five minutes, and an offer lasts 24 hours.
ScheduledWaitSpec == FairWaitSpec /\ WF_entry(mishap' = mishap /\ ExpireReservations)

-----------------------------------------------------------------------------
(***************************************************************************)
(* What the code guarantees.                                               *)
(***************************************************************************)

\* Promotion is first come, first served, with several workers at once and users
\* who leave and join again: when a row becomes notified, an older row that still
\* waits is one whose INSERT was open when the promoting worker's SELECT ran, so
\* that nobody who was in line then is passed over.
FirstComeFirstServed ==
  [][\A x \in Row :
       entry[x] = "waiting" /\ entry'[x] = "notified" =>
         \E w \in Worker :
           /\ worker[w].step = "holding" /\ <<worker[w].user, worker[w].tier>> = x
           /\ \A u \in WaitingAt(x[2]) : Ahead(u, x[1], x[2]) => u \in worker[w].late]_waitVars

\* The tier's open offers, the workers about to make one, and its cancelled
\* purchases, those whose promotion task is still to be enqueued apart.
OffersOf(t)    == {x \in Notified : x[2] = t}
OfferersOf(t)  == {w \in Worker : worker[w].tier = t /\ worker[w].step \in {"picking", "holding"}}
CancelledOf(t) == {p \in Purchase : tierOf[p] = t /\ purchase[p] = "cancelled"}
Unannounced(t) == {p \in Purchase : tierOf[p] = t /\ pc[p] = "notify"}

\* Unless a worker fails, offers do not multiply: those open, those about to be
\* made, the tasks in the queue and the cancellations not yet announced number
\* at most the purchases of the tier that are cancelled.
OffersBacked ==
  ~mishap => \A t \in Tier :
    Cardinality(OffersOf(t)) + Cardinality(OfferersOf(t)) + Cardinality(Unannounced(t))
      + wake[t] <= Cardinality(CancelledOf(t))

\* Two workers never promote the same row, and the row a worker has locked still
\* waits when it commits: one freed seat is one offer.
OneWorkerPerRow ==
  \A w \in Worker : worker[w].step = "holding" =>
    /\ entry[<<worker[w].user, worker[w].tier>>] = "waiting"
    /\ \A v \in Worker \ {w} : worker[v].step = "holding" =>
         <<worker[v].user, worker[v].tier>> # <<worker[w].user, worker[w].tier>>

\* Those who wait for tier t, or will when their INSERT commits.
InLine(t) == WaitingAt(t) \cup Inserting(t)

\* Why promotion is in order: who is in line or on the way to it, and was not
\* seen by a worker's SELECT, is younger than every row that it saw, or had its
\* INSERT open then; and likewise for the one row a worker has locked.
TurnsInOrder ==
  \A w \in Worker :
    LET t == worker[w].tier IN
    /\ worker[w].step = "picking" =>
         /\ worker[w].seen \subseteq RowsOf(t)
         /\ \A u \in worker[w].seen, v \in InLine(t) \ worker[w].seen :
              Ahead(u, v, t) \/ v \in worker[w].late
    /\ worker[w].step = "holding" =>
         \A v \in InLine(t) \ {worker[w].user} :
           Ahead(worker[w].user, v, t) \/ v \in worker[w].late

\* What the open promotions rely on.
PromotionInv == OneWorkerPerRow /\ TurnsInOrder

FirstWaiting(u, t) ==
  /\ u \in WaitingAt(t)
  /\ \A v \in InLine(t) : ~Ahead(v, u, t)

\* Unless a worker fails, a seat that a cancellation freed is offered to whoever
\* is first in line.
HeadGetsOffer ==
  \A u \in User, t \in Tier :
    wake[t] > 0 /\ FirstWaiting(u, t) ~> mishap \/ ~(u \in WaitingAt(t))

\* Unless a worker fails, whoever has an open offer has been sent the mail or is
\* about to be: also one who left, joined again and was promoted by another
\* worker meanwhile.  A failed worker breaks it for good: NotifyNextWaiting has
\* committed, and the retry of its task promotes the next in line.
OffersAreMailed ==
  ~mishap =>
    \A x \in Notified \ mailed :
      \E w \in Worker : worker[w].step = "mailing" /\ <<worker[w].user, worker[w].tier>> = x

(***************************************************************************)
(* What the documents say and the code does not do.                        *)
(***************************************************************************)

\* An offer that runs out is passed on to whoever is first in line (PLAN.md:289
\* "sets status -> expired, promotes next person"; ExpireReservations,
\* waitlist.go:148): either it is taken or given up, or that user gets one, or
\* the event is over.
ExpiredOffersPassOn ==
  \A x \in Row, u \in User :
    x \in Notified /\ FirstWaiting(u, x[2]) ~>
      \/ mishap \/ ~(u \in WaitingAt(x[2]))
      \/ entry[x] = "none" \/ HasConfirmedPurchase(x[1], x[2])
      \/ eventStatus \in {"cancelled", "ended"}
=============================================================================
