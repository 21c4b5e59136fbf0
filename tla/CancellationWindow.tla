-------------------------- MODULE CancellationWindow --------------------------
(***************************************************************************)
(* When a buyer may cancel: the policy of PurchasesStore.Cancel, evaluated *)
(* on an event row that updateEvent rewrites while time passes.  Module    *)
(* TicketSales leaves the policy open (its clock), module EventDesk leaves *)
(* out time; here the row has its dates and time.Now() is an integer.      *)
(*                                                                         *)
(* updateEvent merges its payload into a copy of the row and writes the    *)
(* copy back later, so updates may overlap; a request has Span time for    *)
(* its write (middleware.Timeout, a minute against the 72 hours of Grace). *)
(* "published" stands for sold_out as well.                                *)
(***************************************************************************)
EXTENDS Integers

CONSTANTS
  Request,    \* the updateEvent requests that are in progress at a time
  Starts,     \* the values starts_at is given
  Notices,    \* the values cancellation_hours_before is given
  Hour,       \* time.Hour
  HalfRange,  \* 2^63: a time.Duration is an int64
  Grace,      \* materialChangeGracePeriod
  Span,       \* the timeout of a request's context
  Horizon     \* bound: the last instant looked at

ASSUME WindowAssumption ==
  /\ Starts \subseteq Nat
  /\ Notices \subseteq Nat
  /\ Hour \in Nat \ {0}
  /\ HalfRange \in Nat \ {0}
  /\ Grace \in Nat
  /\ Span \in Nat
  /\ Span < Grace
  /\ Horizon \in Nat

VARIABLES
  now,     \* time.Now()
  event,   \* the row of the event, as far as Cancel reads it
  request  \* each request's copies of the row, and when it was stamped

windowVars == <<now, event, request>>

Never == -1  \* material_changed_at IS NULL
Event == [status : {"draft", "published"}, starts : Starts, allowed : BOOLEAN,
          hours : Notices, changedAt : {Never} \cup Nat]

NoRequest == [step |-> "idle"]
Pending   == [step : {"merged"}, since : Nat, old : Event, new : Event]

(***************************************************************************)
(* The policy.                                                             *)
(***************************************************************************)

\* int64 arithmetic
Wrap(x) == ((x + HalfRange) % (2 * HalfRange)) - HalfRange

\* time.Duration(cancellationHoursBefore) * time.Hour
Notice(hours) == Wrap(hours * Hour)

\* Mistake: the grace window opens when it should close.
GraceOpenLater(e, t) == e.changedAt # Never /\ t >= e.changedAt + Grace

GraceOpen(e, t) == e.changedAt # Never /\ t < e.changedAt + Grace

MayCancel(e, t) ==
  /\ t < e.starts
  /\ e.allowed
  /\ t <= e.starts - Notice(e.hours) \/ GraceOpen(e, t)

(***************************************************************************)
(* The row.                                                                *)
(***************************************************************************)

WindowInit ==
  /\ now = 0
  /\ event \in [status : {"draft"}, starts : Starts, allowed : BOOLEAN,
                hours : Notices, changedAt : {Never}]
  /\ request = [r \in Request |-> NoRequest]

\* "place" stands for location and ends_at, which Cancel does not read.
Material == {"place", "starts", "allowed", "hours"}

\* The merge of a payload that carries these fields.
Merged(fields, starts, allowed, hours) ==
  [event EXCEPT !.starts  = IF "starts" \in fields THEN starts ELSE @,
                !.allowed = IF "allowed" \in fields THEN allowed ELSE @,
                !.hours   = IF "hours" \in fields THEN hours ELSE @]

\* Mistake: a longer notice is not a material change.
StampsButHours(fields) == event.status = "published" /\ fields \ {"hours"} # {}

\* A confirmed material change of an event on sale; without the confirmation
\* updateEvent stops, and so does an ends_at that is not after starts_at.
Stamps(fields) == event.status = "published" /\ fields # {}

\* The handler up to Events.Update, which no other request's write separates
\* from the middleware's read: a write in between makes the copy old the same way.
Merge(r, fields, starts, allowed, hours) ==
  /\ request[r] = NoRequest
  /\ LET merged == Merged(fields, starts, allowed, hours)
     IN request' = [request EXCEPT ![r] =
          [step |-> "merged", since |-> now, old |-> event,
           new |-> IF Stamps(fields) THEN [merged EXCEPT !.changedAt = now] ELSE merged]]
  /\ UNCHANGED <<now, event>>

\* EventsStore.Update: every column but the status, and a stamp it has none of
\* its own for is kept.
Write(r) ==
  /\ request[r] # NoRequest
  /\ event' = [request[r].new EXCEPT
                 !.status = event.status,
                 !.changedAt = IF @ = Never THEN event.changedAt ELSE @]
  /\ request' = [request EXCEPT ![r] = NoRequest]
  /\ UNCHANGED now

\* The query fails, the context expires or the server dies.
Drop(r) ==
  /\ request[r] # NoRequest
  /\ request' = [request EXCEPT ![r] = NoRequest]
  /\ UNCHANGED <<now, event>>

\* EventsStore.Publish
PublishEvent ==
  /\ event.status = "draft"
  /\ event' = [event EXCEPT !.status = "published"]
  /\ UNCHANGED <<now, request>>

\* Mistake: requests without a timeout.
TickRegardless ==
  /\ now < Horizon
  /\ now' = now + 1
  /\ UNCHANGED <<event, request>>

\* No request outlives its context.
Tick ==
  /\ now < Horizon
  /\ \A r \in Request : request[r] # NoRequest => now - request[r].since < Span
  /\ now' = now + 1
  /\ UNCHANGED <<event, request>>

WindowNext ==
  \/ \E r \in Request :
       \/ \E fields \in SUBSET Material :
            \E starts \in Starts, allowed \in BOOLEAN, hours \in Notices :
              Merge(r, fields, starts, allowed, hours)
       \/ Write(r)
       \/ Drop(r)
  \/ PublishEvent
  \/ Tick

WindowSpec == WindowInit /\ [][WindowNext]_windowVars

-----------------------------------------------------------------------------
(***************************************************************************)
(* Properties.                                                             *)
(***************************************************************************)

\* What cancelling depends on.
Terms(e) == <<e.starts, e.allowed, e.hours>>

WindowTypeOK ==
  /\ now \in Nat
  /\ event \in Event
  /\ request \in [Request -> {NoRequest} \cup Pending]

\* A request in progress is younger than its timeout, and if it changes what
\* cancelling depends on for an event on sale, it carries the stamp of its time
\* (events.go:220; api.go:69).
WindowInv ==
  /\ WindowTypeOK
  /\ \A r \in Request : request[r] # NoRequest =>
       LET q == request[r]
       IN /\ q.since <= now /\ now - q.since <= Span
          /\ q.new.status = q.old.status
          /\ q.old.status = "published" =>
               \/ q.new.changedAt = q.since
               \/ q.new.changedAt = q.old.changedAt /\ Terms(q.new) = Terms(q.old)

\* Whatever an update does to the dates and the policy of an event on sale, a
\* buyer who may cancel may still cancel after it, as long as cancelling stays
\* allowed and the event has not begun (PLAN.md:134, purchases.go:429).  An
\* update that was overtaken writes back the terms it read, and is left out.
NoSilentLoss ==
  [][\A r \in Request :
       /\ Write(r)
       /\ request[r].old = event
       /\ event.status = "published"
       /\ event'.allowed
       /\ now < event'.starts
       /\ MayCancel(event, now)
       => MayCancel(event', now)]_windowVars

\* While the row stays, time only closes the window: whichever of notice and
\* grace ends first, and whatever the notice wraps to, a buyer who was refused
\* is not let through later (purchases.go:417, 429).
TimeOnlyCloses ==
  [][event' = event /\ MayCancel(event', now') => MayCancel(event, now)]_windowVars
=============================================================================
