----------------------------- MODULE EventDesk -----------------------------
(***************************************************************************)
(* The organizer's requests about one event that may overlap: createEvent, *)
(* updateEvent, publishEvent and deleteEvent of cmd/server/events.go,      *)
(* createTier and deleteTier of cmd/server/tiers.go, and the notification  *)
(* of buyers in internal/worker/event.go.  The middleware reads the event  *)
(* before the handler runs; the handler decides on that copy, and writes   *)
(* with statements that repeat few of its conditions.                      *)
(*                                                                         *)
(* Sales are single steps here (module TicketSales shows why they may be). *)
(* "published" stands for sold_out as well and "cancelled" for ended: none *)
(* of these handlers tells them apart.                                     *)
(***************************************************************************)
EXTENDS Integers, FiniteSets, Functions, Pgx

CONSTANTS
  Tier,         \* the ids TiersStore.Create may generate
  Buyer,        \* purchases of one seat each
  Request,      \* the requests of the organizer that are in progress at a time
  Terms,        \* what location, dates and cancellation policy may say
  MaxQuantity,  \* bound: the largest number of seats of a tier
  MaxCapacity,  \* bound: the largest capacity of the event
  MaxStamps     \* bound: the confirmed material changes

ASSUME DeskAssumption ==
  /\ MaxQuantity \in Nat \ {0}
  /\ MaxCapacity \in Nat \ {0}
  /\ MaxStamps \in Nat
  /\ IsFiniteSet(Buyer)

VARIABLES
  event,      \* the row of the event, as far as it matters
  tier,       \* whether each tier has no row yet, a row, or a deleted one
  quantity,   \* ticket_tiers.quantity
  tierOf,     \* purchases.tier_id
  purchase,   \* purchases.status, "none" before and "deleted" after the row
  request,    \* each request's copies and the step it has reached
  now,        \* time.Now(), counted in stamps
  queued,     \* the notification tasks waiting, by stamp
  addressed   \* the buyers a notification was addressed to, with its stamp

rowVars  == <<event, tier, quantity, tierOf, purchase>>
mailVars == <<queued, addressed>>
deskVars == <<rowVars, request, now, mailVars>>

Stamps    == 1..MaxStamps  \* material_changed_at; 0 is NULL
Capacities == 1..MaxCapacity  \* capacity; 0 is NULL
Status    == {"none", "draft", "published", "cancelled", "deleted"}
Event     == [status : Status, terms : Terms, capacity : {0} \cup Capacities,
              stamp : {0} \cup Stamps]

Operations == {"createTier", "deleteTier", "publish", "delete", "update"}
Idle == [step |-> "idle", amount |-> 0, material |-> FALSE]

\* A request past the middleware: the row it read, and the row it will write.
Open(op, step, old) ==
  [step |-> step, op |-> op, old |-> old, new |-> old, amount |-> 0, material |-> FALSE]

Requests ==
  {Idle} \cup [step : {"loaded", "checked", "saved"}, op : Operations, old : Event,
               new : Event, amount : 0..MaxQuantity, material : BOOLEAN]

DeskTypeOK ==
  /\ event \in Event
  /\ tier \in [Tier -> {"new", "kept", "gone"}]
  /\ quantity \in [Tier -> 0..MaxQuantity]
  /\ tierOf \in [Buyer -> Tier]
  /\ purchase \in [Buyer -> {"none", "confirmed", "cancelled", "deleted"}]
  /\ request \in [Request -> Requests]
  /\ now \in {0} \cup Stamps
  /\ queued \subseteq Stamps
  /\ addressed \subseteq Buyer \X Stamps

Exists    == event.status \notin {"none", "deleted"}
Kept      == {t \in Tier : tier[t] = "kept"}
Confirmed == {b \in Buyer : purchase[b] = "confirmed"}
SoldAt(t) == {b \in Confirmed : tierOf[b] = t}

\* TiersStore.SumQuantityByEvent
TotalQuantity == FoldFunctionOnSet(+, 0, quantity, Kept)

DeskInit ==
  /\ event \in {e \in Event : e.status = "none" /\ e.stamp = 0 /\ e.capacity = 0}
  /\ tier = [t \in Tier |-> "new"]
  /\ quantity = [t \in Tier |-> 0]
  /\ tierOf \in [Buyer -> Tier]
  /\ purchase = [b \in Buyer |-> "none"]
  /\ request = [r \in Request |-> Idle]
  /\ now = 0
  /\ queued = {}
  /\ addressed = {}

Is(r, op, step) == request[r].step = step /\ request[r].op = op
Done(r) == request' = [request EXCEPT ![r] = Idle]

\* createEvent: a draft without tiers, with or without a capacity.
CreateEvent ==
  /\ event.status = "none"
  /\ \E c \in {0} \cup Capacities :
       event' = [event EXCEPT !.status = "draft", !.capacity = c]
  /\ UNCHANGED <<tier, quantity, tierOf, purchase, request, now, mailVars>>

\* requireEventOrganizer loads the event, and the handler finds that its copy
\* may be changed: drafts by every operation, an event on sale by updates.
Load(r, op) ==
  /\ request[r] = Idle
  /\ Exists
  /\ event.status \in IF op = "update" THEN {"draft", "published"} ELSE {"draft"}
  /\ request' = [request EXCEPT ![r] = Open(op, "loaded", event)]
  /\ UNCHANGED <<rowVars, now, mailVars>>

\* A refusal, a failed query or a crash before anything is written.
Refuse(r) ==
  /\ request[r].step \in {"loaded", "checked"}
  /\ Done(r)
  /\ UNCHANGED <<rowVars, now, mailVars>>

(***************************************************************************)
(* Tiers of a draft.                                                       *)
(***************************************************************************)

\* The new tier and those there are fit the capacity the request has read.
CheckTier(r, q) ==
  /\ Is(r, "createTier", "loaded")
  /\ request[r].old.capacity = 0 \/ TotalQuantity + q <= request[r].old.capacity
  /\ request' = [request EXCEPT ![r].step = "checked", ![r].amount = q]
  /\ UNCHANGED <<rowVars, now, mailVars>>

\* Mistake: the table without REFERENCES events.
InsertTierAnyway(r, t) ==
  /\ Is(r, "createTier", "checked")
  /\ tier[t] = "new"
  /\ tier' = [tier EXCEPT ![t] = "kept"]
  /\ quantity' = [quantity EXCEPT ![t] = request[r].amount]
  /\ Done(r)
  /\ UNCHANGED <<event, tierOf, purchase, now, mailVars>>

\* TiersStore.Create: a new id, of an event that still has its row.
InsertTier(r, t) ==
  /\ Is(r, "createTier", "checked")
  /\ Exists
  /\ tier[t] = "new"
  /\ tier' = [tier EXCEPT ![t] = "kept"]
  /\ quantity' = [quantity EXCEPT ![t] = request[r].amount]
  /\ Done(r)
  /\ UNCHANGED <<event, tierOf, purchase, now, mailVars>>

\* ON DELETE CASCADE: rows of tiers take their purchases with them.
DropTiers(gone) ==
  /\ tier' = [t \in Tier |-> IF t \in gone THEN "gone" ELSE tier[t]]
  /\ quantity' = [t \in Tier |-> IF t \in gone THEN 0 ELSE quantity[t]]
  /\ purchase' = [b \in Buyer |->
       IF tierOf[b] \in gone /\ purchase[b] # "none" THEN "deleted" ELSE purchase[b]]

\* TiersStore.Delete: WHERE id = $1 AND event_id = $2, whatever the event's status.
DeleteTier(r, t) ==
  /\ Is(r, "deleteTier", "loaded")
  /\ t \in Kept
  /\ DropTiers({t})
  /\ Done(r)
  /\ UNCHANGED <<event, tierOf, now, mailVars>>

(***************************************************************************)
(* Publication and deletion.                                               *)
(***************************************************************************)

\* TiersStore.CountByEvent
CountTiers(r) ==
  /\ Is(r, "publish", "loaded")
  /\ Kept # {}
  /\ request' = [request EXCEPT ![r].step = "checked"]
  /\ UNCHANGED <<rowVars, now, mailVars>>

\* EventsStore.Publish: WHERE id = $1 AND status = 'draft'.
PublishEvent(r) ==
  /\ Is(r, "publish", "checked")
  /\ event.status = "draft"
  /\ event' = [event EXCEPT !.status = "published"]
  /\ Done(r)
  /\ UNCHANGED <<tier, quantity, tierOf, purchase, now, mailVars>>

\* EventsStore.Delete: WHERE id = $1.
DeleteEvent(r) ==
  /\ Is(r, "delete", "loaded")
  /\ Exists
  /\ event' = [event EXCEPT !.status = "deleted"]
  /\ DropTiers(Kept)
  /\ Done(r)
  /\ UNCHANGED <<tierOf, now, mailVars>>

(***************************************************************************)
(* updateEvent.                                                            *)
(***************************************************************************)

\* Mistake: cosmetic changes are stamped as well.
StampsAnyUpdate(r, material) == request[r].old.status = "published"

\* A confirmed material change of an event on sale gets the time of the merge.
StampsUpdate(r, material) == material /\ request[r].old.status = "published"

\* The payload's terms and capacity, if any, are merged into the copy.  Terms
\* of an event on sale are confirmed and stamped; capacity 0 is left out.
Merge(r, material, terms, c) ==
  LET stamped == StampsUpdate(r, material)
      merged == [request[r].new EXCEPT
        !.terms = terms,
        !.capacity = IF c = 0 THEN @ ELSE c,
        !.stamp = IF stamped THEN now' ELSE @]
  IN
  /\ Is(r, "update", "loaded")
  /\ ~material => terms = request[r].old.terms
  /\ c # 0 => c >= Cardinality(Confirmed)
  /\ stamped => now < MaxStamps
  /\ now' = IF stamped THEN now + 1 ELSE now
  /\ request' = [request EXCEPT
       ![r].step = "checked", ![r].material = material, ![r].new = merged]
  /\ UNCHANGED <<rowVars, mailVars>>

\* Mistake: material_changed_at = $11 without the COALESCE.
WrittenPlainly(r) ==
  [event EXCEPT !.terms = request[r].new.terms,
                !.capacity = request[r].new.capacity,
                !.stamp = request[r].new.stamp]

\* Mistake: the status of the copy is written back as well.
WrittenWithStatus(r) ==
  [event EXCEPT !.status = request[r].new.status,
                !.terms = request[r].new.terms,
                !.capacity = request[r].new.capacity,
                !.stamp = IF request[r].new.stamp = 0 THEN @ ELSE request[r].new.stamp]

\* EventsStore.Update: every column of the copy, WHERE id = $1, with
\* material_changed_at = COALESCE($11, material_changed_at).
Written(r) ==
  [event EXCEPT !.terms = request[r].new.terms,
                !.capacity = request[r].new.capacity,
                !.stamp = IF request[r].new.stamp = 0 THEN @ ELSE request[r].new.stamp]

\* Mistake: a stamp is taken for granted.
AnnouncesAnyChange(r, row) == request[r].material

\* The change was material, and the row RETURNING gives back has a stamp.
Announces(r, row) == request[r].material /\ row.stamp # 0

SaveEvent(r) ==
  /\ Is(r, "update", "checked")
  /\ Exists
  /\ event' = Written(r)
  /\ IF Announces(r, event')
       THEN request' = [request EXCEPT ![r].step = "saved", ![r].new = event']
       ELSE Done(r)
  /\ UNCHANGED <<tier, quantity, tierOf, purchase, now, mailVars>>

EnqueueUpdate(r) ==
  /\ request[r].step = "saved"
  /\ queued' = queued \cup {request[r].new.stamp}
  /\ Done(r)
  /\ UNCHANGED <<rowVars, now, addressed>>

\* The queue's error is logged, or the server dies.
LoseUpdate(r) ==
  /\ request[r].step = "saved"
  /\ Done(r)
  /\ UNCHANGED <<rowVars, now, mailVars>>

\* HandleNotifyBuyersUpdated lists the users whose purchases are confirmed by
\* now.  When that fails asynq runs the task again, and archives it after its
\* last retry; a mail that fails is logged and passed over.
NotifyBuyersUpdated(s) ==
  /\ s \in queued
  /\ queued' = queued \ {s}
  /\ \/ /\ ~CollectFails(Confirmed)
        /\ addressed' = addressed \cup (Confirmed \X {s})
     \/ /\ CollectFails(Confirmed)
        /\ UNCHANGED addressed
  /\ UNCHANGED <<rowVars, request, now>>

(***************************************************************************)
(* What goes on beside the desk.                                           *)
(***************************************************************************)

\* PurchasesStore.Create
Buy(b) ==
  /\ event.status = "published"
  /\ purchase[b] = "none"
  /\ tierOf[b] \in Kept
  /\ Cardinality(SoldAt(tierOf[b])) < quantity[tierOf[b]]
  /\ purchase' = [purchase EXCEPT ![b] = "confirmed"]
  /\ UNCHANGED <<event, tier, quantity, tierOf, request, now, mailVars>>

\* PurchasesStore.Cancel
GiveBack(b) ==
  /\ event.status = "published"
  /\ purchase[b] = "confirmed"
  /\ purchase' = [purchase EXCEPT ![b] = "cancelled"]
  /\ UNCHANGED <<event, tier, quantity, tierOf, request, now, mailVars>>

\* cancelEvent cancels the purchases, EndAllExpired leaves them as they are.
CloseEvent ==
  /\ event.status \in {"draft", "published"}
  /\ event' = [event EXCEPT !.status = "cancelled"]
  /\ \/ UNCHANGED purchase
     \/ purchase' = [b \in Buyer |-> IF b \in Confirmed THEN "cancelled" ELSE purchase[b]]
  /\ UNCHANGED <<tier, quantity, tierOf, request, now, mailVars>>

-----------------------------------------------------------------------------
DeskNext ==
  \/ CreateEvent \/ CloseEvent
  \/ \E b \in Buyer : Buy(b) \/ GiveBack(b)
  \/ \E s \in Stamps : NotifyBuyersUpdated(s)
  \/ \E r \in Request :
       \/ Refuse(r) \/ CountTiers(r) \/ PublishEvent(r) \/ DeleteEvent(r)
       \/ SaveEvent(r) \/ EnqueueUpdate(r) \/ LoseUpdate(r)
       \/ \E op \in Operations : Load(r, op)
       \/ \E q \in 1..MaxQuantity : CheckTier(r, q)
       \/ \E t \in Tier : InsertTier(r, t) \/ DeleteTier(r, t)
       \/ \E material \in BOOLEAN, terms \in Terms, c \in {0} \cup Capacities :
            Merge(r, material, terms, c)

DeskSpec == DeskInit /\ [][DeskNext]_deskVars

-----------------------------------------------------------------------------
(***************************************************************************)
(* What the code guarantees.                                               *)
(***************************************************************************)

\* No row outlives what it refers to, although a tier may be inserted while the
\* event is deleted and bought while it is deleted itself.
NoOrphans ==
  /\ event.status \in {"none", "deleted"} => Kept = {}
  /\ \A b \in Buyer : purchase[b] \in {"confirmed", "cancelled"} => tierOf[b] \in Kept

\* What a request holds is no newer than the clock; an update that was merged
\* has a stamp later than the one it read, or the same, as StampsUpdate decides;
\* and the stamp it announces is not NULL.
StampsInOrder ==
  /\ event.stamp <= now
  /\ \A r \in Request : request[r] # Idle =>
       /\ request[r].old.stamp <= now /\ request[r].new.stamp <= now
       /\ request[r].step = "loaded" => request[r].new = request[r].old
       /\ Is(r, "update", "checked") =>
            IF StampsUpdate(r, request[r].material)
              THEN request[r].new.stamp > request[r].old.stamp
              ELSE request[r].new.stamp = request[r].old.stamp
       /\ request[r].step = "saved" => request[r].new.stamp # 0

\* The desk's inductive invariant (module EventDeskProofs).
DeskInv == NoOrphans /\ StampsInOrder

\* An update that overlaps a publication or a cancellation does not undo it,
\* although it writes back a copy from before.
StatusSurvivesUpdates ==
  [][(\E r \in Request : SaveEvent(r)) => event'.status = event.status]_deskVars

\* A grace window that was opened is never taken away: no update, begun before
\* or after, sets material_changed_at back to NULL.
GraceIsNotWiped == [][event.stamp # 0 => event'.stamp # 0]_deskVars

\* An update whose copy is still the row when it writes moves the stamp forward
\* when it changes the terms of an event on sale, and otherwise leaves it alone.
TimelyUpdateStamps ==
  [][\A r \in Request :
       SaveEvent(r) /\ request[r].old = event =>
         IF request[r].material /\ event.status = "published"
           THEN event'.stamp > event.stamp
           ELSE event'.stamp = event.stamp]_deskVars
=============================================================================
