# A TLA+ development for gater

gater is an event-ticketing backend: an HTTP server (`cmd/server`), a Postgres
store (`internal/store`) and an asynq task queue with its workers and scheduler
(`internal/worker`). Everything that can go wrong in it that a unit test would
hardly reach happens between two requests, or between a request and a worker,
that meet in the database, and a little in the arithmetic of time. That is what
these modules are about.

Contents: [the system](#the-system), [modules](#modules), [how transactions are
modelled](#how-transactions-are-modelled), [runs](#runs), [disagreements
found](#disagreements-between-the-code-and-its-documents), [proofs](#proofs),
[not modelled](#what-is-not-modelled), [plan](#plan).

## The system

| component | state | operations | talks to | correct when |
|---|---|---|---|---|
| purchases (`store/purchases.go`, `server/purchases.go`) | rows of `purchases`, `tickets`; `ticket_tiers.remaining`, `.status`; `events.status` | createPurchase, cancelPurchase, CancelByEvent, listings | shares tier and event rows with tier edits and the event's life; enqueues a promotion when it frees a sold-out tier | no oversell, no lost seat; a cancelled purchase opens no door; a sold-out tier or event is what it says |
| check-in (`store/tickets.go`, `server/check-in.go`) | `tickets.status` | CheckIn | races a cancellation of the same ticket | a ticket is admitted at most once, and never after it was cancelled |
| event lifecycle (`store/events.go`, `server/events.go`) | `events` | create, update, publish, cancel, delete, EndAllExpired, SetStatus | cancelEvent calls Purchases, Waitlist and the queue, one transaction each | only the transitions of the state machine; everybody concerned is cancelled and told |
| tiers (`store/tiers.go`, `server/tiers.go`) | `ticket_tiers` | create, update (a read-modify-write of the whole row), delete | writes the columns that sales decrement | sold seats survive edits; capacity is never exceeded |
| waitlist (`store/waitlist.go`, `server/waitlist.go`, `worker/waitlist.go`) | rows of `waitlist_entries` (waiting, notified, expired, purchased) | join, leave, NotifyNextWaiting, ExpireReservations, DeleteByEvent | tasks from cancellations and from its own expiry; sends mail | first come first served; one freed seat is one offer; a freed seat, or an offer that ran out, is offered to the next |
| workers, scheduler (`internal/worker`) | tasks in Redis | promotion, expiry and ending of events, notifications, auth mail | asynq retries a task whose handler returns an error | a retried task does no harm; a lost one is noticed |
| cancellation policy (`store/purchases.go`, `server/events.go`) | `events.starts_at`, `.cancellation_allowed`, `.cancellation_hours_before`, `.material_changed_at` | Cancel reads it, updateEvent rewrites it | every cancellation | a change of terms leaves buyers the grace to cancel |
| accounts (`server/auth.go`, `server/users.go`, `store/users.go`, `sessions.go`, `verifications.go`, `oauth.go`) | rows of `users`, `sessions`, `verifications`, `oauth_accounts` | registration, login, logout, verification, resend, forgot, reset, Google callback, becomeOrganizer | mail tasks; authenticate runs before every protected handler | sessions follow the password; mails and live tokens stay few; a linked account is verified |
| listings (`server/events.go`, `server/purchases.go`, `internal/cursor`) | none of their own: a client's walk over pages | getPublishedEvents, listPurchases | read rows that every other part changes | the feed is served; the history passes over nothing |
| middleware, routing | none | authenticates, loads the event into a request's context, sets its timeout | first read of every handler | what is loaded may be stale when it is used |
| QR, validation, JSON, mailer, configuration | none | pure functions and I/O | all | |

Hard behaviours:

- *Interleaving at READ COMMITTED.* Each statement sees what is committed when
  it starts. A lock protects one row; rules that relate several rows (event
  sold out when all tiers are) are read without one.
- *Check, then act.* The middleware loads the event, the handler checks it, and
  a later statement writes without repeating the condition (joinWaitlist,
  updateTier, the capacity check).
- *Several transactions in one handler.* cancelEvent makes five calls that each
  commit; any of them may fail, be overtaken, or be the last before a crash.
- *Retries.* asynq runs a task again when its handler returns an error, also
  when the error came after the commit.
- *A statement that succeeds and an answer that does not.* The rows of a query
  are collected after it has run, and an UPDATE stays when the collection of
  what it RETURNs fails.
- *No transaction at all.* The auth handlers run four to six statements that
  each commit; errors of some of them are logged and the handler goes on.
- *Lost calls.* Enqueue errors are logged and dropped.
- *Lists in pages.* Between two pages, and between a page and its total, rows
  are inserted.
- *Numbers.* Durations are int64 nanoseconds, and the notice is hours from a
  request.

`PROJECT.json` lists the hazards line by line, each with the properties that
watch it.

## Modules

| module | models | state and actions |
|---|---|---|
| `TicketSales` | sale, buyer's cancellation, event cancellation, check-in, publication and ending of one event | a column is a variable (`eventStatus`, `quantity`, `remaining`, `tierStatus`, `purchase`, `ticket`, ...); `pc` is the statement a request has reached; `wake` is the queue of promotion tasks; `cancelPc`, `doomed`, `doomedSeats`, `buyers`, `told` are cancelEvent's progress, the rows its UPDATEs have matched and its snapshot. One action per statement, named for what it decides |
| `Door` | scanners that meet at a ticket, and the cancellations that cross them | `ticket` is the row, `scan` the statement each checkIn has reached and what its SELECT returned, `voiding` the rows an open cancellation has updated, `admitted` how often the doors have answered valid. One action per statement of `TicketsStore.CheckIn`, its commit and its answer apart |
| `SeatLedger` | what `TicketSales` promises: seats are sold, returned and written off in single steps | `free`, `state` |
| `TierEdits` | updateTier over `TicketSales` | `form` is the handler's copy of event status and tier row, `editPc` its progress |
| `Waitlist` | joins, leaves, promotion, expiry, over `TicketSales` | `entry` is the status of the rows, none before their INSERT commits; `older` is how created_at orders them, which is the order in which the INSERTs began (`BeginInsert`, `CommitInsert`); `join` and `worker` are the requests and workers in progress, with what a worker's SELECT has seen |
| `EventDesk` | createEvent, updateEvent, publishEvent, deleteEvent, createTier, deleteTier and NotifyBuyersUpdated | `event`, `tier`, `quantity`, `purchase` are rows; `request` holds the row the middleware read (`old`), the row the handler will write (`new`) and the step reached; `now` counts confirmed material changes and stamps them; `queued` and `addressed` follow their notifications. One action per query of a handler: it loads, it checks, it writes |
| `CancellationWindow` | the cancellation policy in time: what `clock` abstracts in `TicketSales`, and what an update does to it | `now`; `event`, the columns Cancel reads; `request`, each updateEvent's copy of the row as it read it and as it will write it, and since when. `Merge` is the handler up to the query, `Write` the query, `Tick` time, which stops before a request outlives its context |
| `Accounts` | registration, resend, forgot, verification, reset, login, logout, the Google callback, becomeOrganizer | `account`, `session`, `verification`, `link` are the four tables; `mailed` the tokens a user may know; `request` a handler's copy of what it read and the statement it is at. One action per statement |
| `Listings` | the answer of the feed, and the history by offset with a client that walks through it while purchases commit | `status` and `made` are the rows; `list`, `page`, `done` where the client is in its walk, `feed`, `statement`, `history` and `total` what it has been given; `steady` the purchases that were there when it began |
| `Pgx` | how the store collects rows (external: `CollectRows` and `RowToAddrOf` of pgx v5, from how the store calls them) | `CollectFails` |
| `MC*` | sizes for TLC, symmetry | |
| `*Proofs` | the theorems about the module each is named for | |

`TierEdits` and `Waitlist` EXTEND `TicketSales` and let its whole next-state
relation run beside their own actions. In `Waitlist`, the step of cancelEvent
that deletes the waitlist (`ClearWaitlist`) is joined with the deletion itself
(`DeleteByEvent`), and every other step of `TicketSales` runs as it is. `EventDesk` stands alone: it covers the life of
the row before and beside the sale, where what a sale does inside its
transaction makes no difference, so `Buy` and `GiveBack` are the single steps
that `SalesImplementLedger` shows a sale and a cancellation to be. Its
"published" is the code's published or sold_out and its "cancelled" is
cancelled or ended; the handlers it models accept or refuse them together.

Definitions headed `\* Mistake:` are not part of any specification. Each is an
action or a helper as a plausible bug would have it (a FOR UPDATE forgotten, a
status condition dropped, a comparison off by one); put in the place of the
definition that follows it, it breaks the property `PROJECT.json` pairs it
with. They document which property guards which line.

## How transactions are modelled

- A transaction is a sequence of steps, one for each statement that reads or
  locks something another transaction can change. `pc[p]` names the last one
  done. Statements on rows that nobody else can reach in between (the decrement
  and the inserts under the tier's lock; the ticket inserts) are one step.
- Uncommitted writes are not in the variables. They are implied by `pc[p]` and
  appear in the commit step. `StockSeen` shows the one place where a
  transaction reads its own write.
- A row is locked when some transaction is past the statement that locks it
  (`HoldsTier`, `HoldsEvent`, `HoldsPurchase`, `HoldsTickets`, `SweepHolds`).
  Waiting is a disabled action. An `UPDATE ... WHERE status = ...` waits only
  if the committed row matches (`SellOutEvent`, `ReopenEvent`), and looks at
  the row again when it gets the lock.
- Rollback, by a failed statement or by the five-second query timeout, is
  possible at every step of a transaction when `Faults` is TRUE. It needs
  `Faults` because a property such as "the waitlist is served" is only promised
  while nothing fails.
- A purchase id stands for the request that creates it and for the later
  requests that cancel it. Two cancellations of one purchase at the same time
  exclude each other at its row lock; the second one finds it cancelled and
  leaves nothing behind, so one `pc` per purchase is enough.
- `CancelEvent` can succeed once per event, so one `cancelPc` is enough. A
  request that loses gets no row back from `Events.Cancel` and changes nothing.
- In `TicketSales`, the dates, the cancellation window and the material-change
  stamp are abstracted to `clock` ("open": the buyer may cancel; "closed"; "over": the
  event's end is past), which may move in any direction because updateEvent may
  move the dates.
- The foreign keys' share locks only add waits between transactions that the
  row locks already order, and are left out, but for one: the INSERT of a
  waitlist entry waits for a sale's FOR UPDATE of the tier, with its created_at
  already taken (`CommitInsert`).
- `pgx.RowToAddrOf[T]` and `RowTo[T]` scan a row of one column. The store hands
  them rows of eight to fifteen, so that the collection fails on the first row
  (`CollectFails`) and a caller learns only that there is no row or that there
  was an error. What the statement has written stays. This decides
  `ListBuyers`, `NotifyBuyersUpdated`, `ExpireReservations` and `AskFeed`.
- A scan at the door is one step in `TicketSales`, where its transaction counts
  as one row update beside the sale; `Door` takes it apart. Neither the sale nor
  the cancellations read what a check-in writes.

Further abstractions, module by module:

- `Accounts` keeps time as ages: a row of `verifications` is as old as the
  ticks since it was created, an age counts no further than the last one that
  makes a difference (`Old`), and the copy a handler holds ages with the row.
  A session remembers what it was opened with ("current" password, an "old"
  one, a "late" login that compared a password changed since, "google").
  Users are never deleted by the code, so reading a user again finds it.
- `mishap` in `Accounts` and `Waitlist` records that a statement or a task
  failed that nobody repeats. Properties that such a failure breaks for good
  say so by `~mishap`; everything else is claimed with failures. After a mishap
  little is left to claim, so the runs of both stop there (see Bounds).
- `CancellationWindow` merges and writes in two steps, so that updates overlap.
  An update is timely when the row is still the one it read. `Wrap` is the
  int64 arithmetic of `time.Duration`, with `HalfRange` for 2^63.
- `Listings` has no cursors: the feed never answers a page with an event in it,
  so it never gives one. What publishes or hides an event is any of the handlers
  of the other modules.
- A worker in `Waitlist` remembers, for the properties, whose INSERT was open
  when its SELECT ran (`late`); no action reads it.

Bounds: `MaxRequest` (seats per request), `MaxQuantity` (seats per tier),
`MaxTasks` (tasks waiting per tier), `MaxCapacity` (the event's capacity),
`MaxStamps` (confirmed material changes, which are what `now` counts in
`EventDesk`), `Horizon` (the last instant in `CancellationWindow`), and the
sizes of the sets of tiers, purchases, users, workers, editors, requests, tokens,
sessions, events and times. No counter other than these is bounded. Two runs
also have state constraints. In `waitlist`, `InTime` keeps the event's dates
ahead (a buyer who comes too late frees no seat, and an event that is over takes
nobody onto its waitlist); `BeforeTheDoor` leaves out scans, which write a
ticket that no step of the waitlist reads; `OneReader` lets one joinWaitlist
request at a time be between its start and its INSERT, where it only reads,
while INSERTs overlap; and `Unharmed` follows a run until a worker fails. In
`accounts`, `Unharmed` follows a run until a statement that nobody repeats is
missed. `mishap` is never reset, and the properties that are promises excuse
every state after it; what goes unchecked there are the types and, in
`waitlist`, `PromotionInv` and `FirstComeFirstServed`, which the proofs cover
with failures.

## Runs

All of them check every state reachable within these bounds.

| run | instance | question |
|---|---|---|
| `sales` | 2 tiers of at most 2 seats, 2 purchases of 1 to 3 seats, limit per purchase 2, faults | do buyers, the organizer, the door and the scheduler keep the stock, the row locks, the statuses and the records intact, with rollbacks, lost tasks and crashes between any two steps? do the transactions implement `SeatLedger`? |
| `sales_live` | 1 tier of at most 2 seats, 2 purchases, no faults, `FairSpec` | do event and tier agree on being sold out; is every request answered, and every purchase of a cancelled event cancelled? |
| `door` | 2 tickets, 3 scans at a time, faults, symmetry of tickets and of scans | is a ticket let in at most once, and never after its cancellation has committed, however scans, cancellations, rollbacks and lost answers cross? |
| `edits` | 1 tier of at most 2 seats, 2 purchases of one seat, one edit at a time, faults | what survives `updateTier`: the CHECK constraints, the status, what a transaction has seen under its locks, and the count of sold seats when nothing came in between |
| `waitlist` | 1 tier of one seat, 2 purchases by one user, 2 users of whom one is the organizer, 2 workers, faults, `FairWaitSpec` | is no row promoted twice at a time and nobody who was in line passed over (`PromotionInv`, `FirstComeFirstServed`); do offers outnumber the cancelled purchases; is the first in line offered the seat, and mailed? |
| `desk` | 1 tier and 1 seat, 1 buyer, 2 requests at a time, 2 values of the terms, capacity 1 or none, 2 material changes | what do the organizer's overlapping requests leave of the status, the stamp that opens the grace window and the rows (`DeskInv`)? Two requests are the least that overlap |
| `accounts` | 1 address, 1 Google account, 3 tokens, 1 session, 2 handlers at a time, limit 2 mails in 2 ticks, no cool-down, faults | do sessions outlive the password they were opened with, do tokens pile up beyond one for each handler that overlaps, is a linked account verified? |
| `listings` | 2 events, 4 purchases, 1 row per page | does a walk through a growing history pass over a purchase? |
| `window` | 2 updates at a time, 2 dates, 2 notices of which one wraps around, grace 2, timeout 1, 5 instants | can an update take the right to cancel from a buyer who has it; can time give it back? |

`desk` and `accounts` run without the deadlock check. Once the event is deleted
or closed, its purchases settled and its tasks run, the desk has nothing left to
do. In `accounts` both handlers may need a token when all three have rows, which
is the bound's doing and not the code's. The other instances have no state
without a next step.

The interesting cases happen within the bounds: with two tiers and two
requests there are a sale that sells out a tier, one that sells out the event,
one that is refused and cancellations that reopen both; with a limit of two and
requests of three there are refusals by each of the three rules; with two
workers, two tasks and two waiting users two promotions pick the same row, and
a row whose INSERT was open appears after a worker's SELECT; with three scans
one holds a ticket's row while two wait for it; with two material changes an update that read the first can be saved after the second.
Two auth handlers with three tokens reach the overlap in which each deletes
what the other created, and leave one token for an earlier mail; the cool-down
is zero there because it would only rule interleavings out. Four purchases and
one row per page leave room for a purchase that appears above, below and between
the rows already given. A notice of 5 with `HalfRange` 4 is negative, as
2562048 hours are; a grace of 2 against a timeout of 1 is the least that
satisfies the assumption (72 hours against one minute).

### Fairness

`FairSpec` asks that a handler that has begun is run to its end (Go schedules
its goroutine, Postgres answers) and that a lock that is released again and
again is granted in the end. Postgres queues lock waiters in order, hence strong
fairness for `SaleStep(p)` and `CancellationStep(p)` of each request; buyers, the organizer, the door
and the clock owe nothing. `FairWaitSpec` asks that some idle worker takes a
task (weak fairness of the disjunction over workers: which one is asynq's
choice) and that a worker finishes what it took. Offers need not expire and
cancellations need not happen. `ScheduledWaitSpec` adds the sweep, which the
scheduler runs every five minutes: an offer that nobody takes up runs out and is
expired in the end.
Failures are possible under it; `HeadGetsOffer` promises its seat unless one
has happened (`mishap`), because nothing in the code makes up for a lost task.
Liveness of sales is claimed only with `Faults = FALSE`, for the same reason.

## Disagreements between the code and its documents

Each run named here ends in a counterexample to one property, which states what
a document or a comment of the repository says. `PROJECT.json` quotes the
lines.

| property | what happens |
|---|---|
| `NoStrandedPurchase` | a sale that read the event as published commits after CancelByEvent; its purchase stays confirmed on a cancelled event |
| `NoOversellDespiteEdits` | an edit writes back the `remaining` it read before a sale |
| `ExpiredOffersPassOn` | the sweep's UPDATE commits, the collection of its rows fails, the handler returns before it enqueues a promotion and its retry finds nothing to expire: an offer that ran out is lost to those who wait, with the sweep and the workers fair and nothing else failing |

The first two share a cause: a row is read without a lock, or by an earlier
statement, and a later write relies on it. The third comes from `CollectFails`:
`pgx.RowToAddrOf` is given rows of several columns. The modules contain further
behaviours that a document contradicts or that a reader would not expect, which
no run singles out. Those that come from the collection of rows:

- cancelEvent's snapshot of the confirmed buyers (events.go:397) is empty
  whenever there is a buyer, and nobody is told that the event is cancelled
  (`ListBuyers`; README.md:127).
- The task that tells buyers of a material change fails on every try while
  there is a buyer (`NotifyBuyersUpdated`; README.md:127).
- The feed answers 500 whenever a page would hold a published event (`AskFeed`;
  PLAN.md:61). For the same reason a list of tiers (tiers.go:144) and the
  tickets of a purchase (purchases.go:197) are answered 500, the latter also
  after a cancellation that has committed and enqueued its promotion.
- EndAllExpired (events.go:266) ends the events and reports an error.

And the others:

- A deletion that read the event as a draft runs after it was published and
  sold, and the cascade takes the purchases (`DropTiers`, `DeleteTier`,
  `DeleteEvent`; PLAN.md:156 "deleting a published tier could strand purchases").
- forgotPassword and resendVerificationEmail count an address's tokens of the
  last hour after deleting all of them for the last mail, so the count never
  exceeds one and only the minute's cool-down limits the mails (`PurgeEarlier`;
  auth.go:526, PLAN.md:799).
- The waitlist is not strictly first come, first served: created_at is when the
  INSERT's transaction began, and its row is seen when it commits, after it may
  have waited for a sale's lock on the tier. A worker that selects in between
  promotes a younger row (`BeginInsert`, `CommitInsert`; PLAN.md:285).
  `FirstComeFirstServed` is what remains.
- The mail of an offer fails after NotifyNextWaiting has committed; the task's
  retry promotes the next in line, and the first user is never told
  (`FailPromotion`; PLAN.md:287). `OffersAreMailed` is what remains.
- A cosmetic update that overlaps a second material change writes back the older
  stamp it has read (`Written`; PLAN.md:134 "Cosmetic-only updates never move
  the stamp"), and any update that was overtaken writes back the older terms
  (`Write`). `TimelyUpdateStamps` and `NoSilentLoss` are about the others.
- The stamp opens the grace window for everybody, also for buyers who bought
  after the change (`GraceOpen`; PLAN.md:134).
- A notice of more than 2562047 hours overflows a `time.Duration`; the wrapped
  notice is negative or short, and buyers may cancel until or close to the start
  although the organizer asked for the opposite (`Notice`).
- A login that has compared the earlier password opens its session after the
  reset has signed the user out (`OpenSession`, a "late" session).
- Two requests that hold the same live token both use it (`Lookup`, `Spend`).
- A cancellation and the last sale of another tier cross, and the event stays
  sold out with a seat free (`ReopenEvent`, `SellOutEvent`).
- A cancellation reads the tier before a sale sells it out, and reopens it
  without a promotion (`JudgeCancellation`, `CommitCancellation`).
- A join inserts its row after the event's waitlist was deleted
  (`CommitInsert`; README.md:114).
- A tier is deleted between publishEvent's count and its update, and the
  published event has no tier (`CountTiers`, `DeleteTier`; PLAN.md:136).
- Two createTier requests, or one and an update that lowers the capacity,
  exceed the capacity together (`CheckTier`, `InsertTier`; PLAN.md:87).
- Two sales empty two tiers at once, each sees the other's stock, and the event
  stays published with nothing left (`CheckStock`; PLAN.md:119).
- A sale commits between CancelByEvent's two UPDATEs: its purchase stays
  confirmed and its tickets are cancelled (`FlipTickets`; the comment at
  purchases.go:507). This is why `SweepSound` says only that the second
  statement covers the first.
- When CancelByEvent fails, nobody is cancelled and the event cannot be cancelled
  again (`FailCancelByEvent`; README.md:114).
- An edit lowers a quantity below the seats sold since it read the tier
  (README.md:112), lands on an event cancelled meanwhile (PLAN.md:157), or
  exceeds the capacity together with another edit (PLAN.md:87) (`SaveTier`).
- A user holds a ticket and a waitlist entry of one tier (`CommitInsert`;
  PLAN.md:265), and since no code sets an entry to `purchased` (PLAN.md:288),
  the offer of a user who bought expires as if unused.

## Proofs

What the runs show for two or three rows and requests, eight modules prove for
any number of them. Every invariant and every action property of a passing run
is the subject of a theorem; liveness is not.

| theorem | states, about `TicketSales` |
|---|---|
| `TypeCorrect` | `Spec => []TypeOK` |
| `SeatInvariant` | `Spec => [](TypeOK /\ SeatInv)` |
| `NoOversell` | `Spec => []SeatsConserved` |
| `LocksAreExclusive` | `Spec => []RowLocksExclusive` |
| `TierStatusCorrect` | `Spec => []TierStatusTruthful` |
| `CancellationFits` | `Spec => []RestoreAlwaysFits` |
| `CancelledTicketsStayShut` | `Spec => []CancelledWithTickets` |
| `LifecycleRespected` | `Spec => EventLifecycle` |
| `NothingIsUndone` | `Spec => RecordsOnlyAdvance` |
| `SalesImplementLedger` | `Spec => ImplementsLedger` |
| `SoldOutIsTrue` | `Spec => []SoldOutAgrees` |

| theorem | states, about the other modules |
|---|---|
| `DoorInvariant`, `NobodyEntersTwice` | `DoorSpec => []DoorInv`, `DoorSpec => []AdmittedOnce` |
| `VoidedTicketsStayShut` | `DoorSpec => VoidedStayShut` |
| `EditTypes`, `EditInvariant` | `EditSpec => []EditTypeOK`, `EditSpec => []EditInv` |
| `TimelyEdits` | `EditSpec => TimelyEditKeepsSold` |
| `EditsKeepLifecycle`, `EditsKeepTierStatus` | `EditSpec => EventLifecycle`, `EditSpec => []TierStatusTruthful` |
| `SalesBesideWaitlist`, `WaitlistKeepsLedger` | `WaitSpec => [](TypeOK /\ SeatInv)`, `WaitSpec => ImplementsLedger` |
| `WaitTypes`, `PromotionInvariant` | `WaitSpec => []WaitTypeOK`, `WaitSpec => []PromotionInv` |
| `PromotionIsFair` | `WaitSpec => FirstComeFirstServed` |
| `PromotedAreTold` | `WaitSpec => []OffersAreMailed` |
| `OffersAreBacked` | `WaitSpec => []OffersBacked` |
| `DeskTypes`, `DeskInvariant` | `DeskSpec => []DeskTypeOK`, `DeskSpec => []DeskInv` |
| `UpdatesKeepStatus` | `DeskSpec => StatusSurvivesUpdates` |
| `GraceStays` | `DeskSpec => GraceIsNotWiped` |
| `StampsAreTimely` | `DeskSpec => TimelyUpdateStamps` |
| `WindowInvariant` | `WindowSpec => []WindowInv` |
| `UpdatesKeepTheRight` | `WindowSpec => NoSilentLoss` |
| `TimeNeverReopens` | `WindowSpec => TimeOnlyCloses` |
| `AccountTypes` | `AccountSpec => []AccountTypeOK` |
| `FewTokens` | `AccountSpec => []TokensBounded` |
| `ResetEndsSessions` | `AccountSpec => []SessionsFollowPassword` |
| `LinksAreVerified` | `AccountSpec => []LinkedAreVerified` |
| `ListingTypes` | `ListingSpec => []ListingTypeOK` |
| `HistoryMissesNothing` | `ListingSpec => []HistoryIsComplete` |

The theorems are about the specifications without fairness, so they hold with it
too, and without the state constraints of two runs.

### What is assumed

Only the `ASSUME`s of the modules, which TLC evaluates on every run: sizes are
positive numbers, fault settings are Boolean, and the sets whose members are
counted (purchases, users, workers, tokens, requests, rows) are finite. Three
say something about the code:

- `WindowAssumption`, of which `Span < Grace` is what matters:
  middleware.Timeout gives a request 60 seconds (api.go:69) and
  materialChangeGracePeriod is 72 hours (store.go:30).
- `TierAssumption` and `PeopleAssumption`: a tier and a user exist. A request
  for a tier edit or a waitlist comes from a user and names a tier in its path;
  the idle request needs some value there.
- `ListingAssumption`: created_at and id order the purchases like numbers, with
  no two alike (id is the tie-break of ListByUser).

### The arguments

*Sales.* `SeatsConserved` is not inductive: the commit of a sale
decrements by what an earlier step checked. `SeatInv`, which the run `sales`
checks as it stands, adds what it takes:

- `OpenRequestsHold`: from the check to the commit, a sale's purchase has no
  row, its tier is available and has enough left; a cancellation's purchase is
  confirmed. So the decrement does not go below zero, and a purchase is counted
  or uncounted once.
- `RowLocksExclusive`: `OpenRequestsHold` survives the steps of other requests
  because none of them holds the same tier, event or purchase.
- `SweepSound`: CancelByEvent runs only on a cancelled event, where seats need
  not add up, on purchases that exist, and its ticket statement covers its
  purchase statement.
- `TierStatusTruthful`: `status = available` and `remaining` agree, so that a
  sale that passes the check on one passes it on the other.

Each conjunct has a lemma with one step per action. The counting rests on the
lemmas about `SoldSeats`: confirming a purchase adds exactly its tickets to its
tier, cancelling removes them, and another tier keeps its own; the cardinality
facts come from `FiniteSetTheorems`. `CancelledWithTickets` and the action
properties then follow step by step from `SeatInv`. `SalesImplementLedger` maps
`remaining` to the free seats and `purchase` to the state of an order: commits map to the
ledger's sale and return, CancelByEvent's commit to a write-off, and every
other step to a stutter.

`SoldOutAgrees` needs to know what a transaction has seen before it commits
(`SoldOutInv`): with one tier, a sale that saw the stock empty takes all that is
left, one that saw more leaves some, and a return that did not find the event
sold out holds the tier, so that no sale can empty it meanwhile.

*Door.* `DoorInv` says that a row's owner, a scan or a cancellation, is the only
one and that what it has seen is still the row (`RowHasOneOwner`), and that
admissions come from the one scan that turned the ticket from unused to used
(`OneScanUsesTicket`). The answer is sent after the commit, when the lock is gone
and the next scan already sees a used ticket, so the second part is needed: it
counts the scans between commit and answer together with those answered.

*Tier edits.* An edit writes back numbers that sales have changed since, so
`SeatsConserved` is lost. What stays (`EditInv`) is that the row it writes is
consistent in itself (`FormsAddUp`), and that it waits for the tier's lock, so
that what a transaction has seen under the lock still holds when it commits
(`LockedRowsHold`). This gives the CHECK constraints and the truthful status
without any relation to the purchases.

*Waitlist.* Every step of `WaitNext` is a step of the sale or leaves its
variables alone, but for the queue of tasks (`WaitStepKinds`), which carries
`SeatInv` and the refinement of the ledger over. `FirstComeFirstServed` compares
a row with all others at the moment of an UPDATE, but the choice was made by
an earlier SELECT. `TurnsInOrder` says why that is enough: whoever is in line,
or has an INSERT open, and was not seen by the SELECT is younger than all it has
seen, or had the INSERT open when it ran (`late`); who leaves and joins again
begins a new INSERT and is younger. `OffersBacked` counts: every step that adds
to one of its four terms takes from another or cancels a purchase. It had to name
the cancellations that have committed and not yet enqueued their promotion
(`Unannounced`), without which it is not inductive.

*Desk.* `GraceIsNotWiped` and `TimelyUpdateStamps` are about a row that is
written from a copy. `StampsInOrder` follows the copies: none is newer than the
clock, a merged one has a later stamp than the one it read, or the same, as
StampsUpdate decides, and Update's COALESCE (`Written`) does the rest.

*Cancellation window.* `WindowInv` is inductive:
`Merge` stamps what it changes with the time it reads, `Tick` stops before a
request outlives its context, and no step touches another request. From it,
`TimelyWrite` shows that a write that was not overtaken either leaves the terms
and the stamp alone, and with them the answer of `MayCancel`, or puts a stamp
younger than `Span` on the row, and the grace is open. Integers are all that is
needed of `Wrap` (`NoticeIsInt`): whatever it returns, the notice does not
depend on the time.

*Accounts.* Types come first, and say more than their name: sessions, links,
tokens and handlers refer to accounts that exist, since none is deleted.
Each invariant looks at handlers that stand before one particular
statement; `StepMoves` shows that a step brings at most one handler there
(`LinkersSteady`, `CreatorsSteady`, `ResetsSteady`), so that each proof has only
the few steps to consider that do. `TokensBounded` counts the tokens together
with the handlers about to store one: PurgeEarlier turns rows into a creator, and
CreateToken a creator into a row.

*Listings.* In the history (`HistoryInv`) the number of rows above a purchase
never falls, so the offset of the next page passes over none that was not given,
and it stays below the total that the second statement counts later; with the
statements swapped it need not.

### What is only model-checked

The liveness properties (`RequestsAnswered`, `CancellationReachesBuyers`,
`HeadGetsOffer`): fairness and ENABLED are beyond the prover.
The counterexamples of the three runs in the section above are TLC's by nature.

## What is not modelled

- Cryptography and stateless helpers: QR tokens, password hashing, the tokens'
  hashes, validation, JSON, configuration.
- Endpoints that only read and answer one row or an unpaged list.
- Mail and HTTP themselves; that a mail may fail is in `Waitlist`.
- Google: the callback takes the account and the address it answers. The state
  cookie of the redirect is the browser's.
- Roles and ownership of events: checks of one request that no other changes,
  except becomeOrganizer, which is in `Accounts`.
- Redis and asynq beyond what the code uses: a task is run by some worker, in
  any order, again after an error, and may be lost when it cannot be enqueued.
- The start and shutdown of the process; a crash may happen at any step of the
  modules with faults.
- Migrations, which run once; the constraints they create are in the guards.

## Plan

1. An abstract specification of the waitlist (users in the order of their
   commits, and a number of seats on offer) and the proof that `Waitlist`
   implements it as long as no worker fails.
2. What the sale keeps of a timely edit: `SeatsConserved` under `EditSpec` as
   long as no edit was overtaken.
3. `Door` as the refinement of the single step `CheckIn` of `TicketSales`.
4. A bound on the mails a client can cause, from the cool-down alone, over
   `Accounts`.
