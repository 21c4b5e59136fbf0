---------------------------- MODULE TicketSales ----------------------------
(***************************************************************************)
(* The sale and the cancellation of tickets for one event: the database    *)
(* rows of the event, its tiers, purchases and tickets, and the            *)
(* transactions of internal/store that read and write them, run by the     *)
(* handlers of cmd/server.                                                 *)
(*                                                                         *)
(* Postgres runs every transaction at READ COMMITTED: a statement reads    *)
(* what is committed when it starts, an UPDATE or a FOR UPDATE waits for   *)
(* the row's lock, and locks are kept until COMMIT or ROLLBACK.  So a      *)
(* transaction is a sequence of steps, one per statement that reads or     *)
(* locks something another transaction can change; its writes become       *)
(* visible in the commit step; a row is locked when some transaction has   *)
(* reached a step that locks it.                                           *)
(***************************************************************************)
EXTENDS Integers, FiniteSets, Pgx

CONSTANTS
  Tier,            \* the tiers of the event
  Purchase,        \* the ids createPurchase generates, one per request
  User,            \* the users
  Buyer,           \* purchases.user_id of each purchase
  MaxRequest,      \* bound: the largest quantity a request may ask for
  MaxQuantity,     \* bound: the largest number of seats of a tier
  MaxPerPurchase,  \* events.max_tickets_per_purchase
  Faults           \* whether queries may time out, enqueues fail, servers crash

ASSUME SizesAssumption ==
  /\ MaxRequest \in Nat \ {0}
  /\ MaxQuantity \in Nat \ {0}
  /\ MaxPerPurchase \in Nat \ {0}

ASSUME FaultsAssumption == Faults \in BOOLEAN

ASSUME FiniteAssumption == IsFiniteSet(Purchase)

ASSUME BuyerAssumption == Buyer \in [Purchase -> User]

VARIABLES
  eventStatus,  \* events.status
  clock,        \* where now stands against the event's dates and its policy
  quantity,     \* ticket_tiers.quantity
  remaining,    \* ticket_tiers.remaining
  tierStatus,   \* ticket_tiers.status
  purchase,     \* purchases.status, "none" while no row is committed
  tierOf,       \* purchases.tier_id
  qty,          \* purchases.quantity
  ticket,       \* tickets.status, "none" while no row is committed
  pc,           \* the step the request about a purchase has reached
  wasSoldOut,   \* Cancel's local variable of that name
  wake,         \* enqueued waitlist-promotion tasks, per tier
  cancelPc,     \* the step the organizer's cancelEvent request has reached
  doomed,       \* the purchases CancelByEvent has matched
  doomedSeats,  \* the purchases whose tickets CancelByEvent has matched
  buyers,       \* cancelEvent's snapshot of the users with a confirmed purchase
  told          \* the users the task that mails about the cancellation names

eventVars  == <<eventStatus, clock>>
tierVars   == <<quantity, remaining, tierStatus>>
orderVars  == <<purchase, tierOf, qty, ticket>>
txVars     == <<pc, wasSoldOut, wake>>
cancelVars == <<cancelPc, doomed, doomedSeats, buyers, told>>
vars == <<eventVars, tierVars, orderVars, txVars, cancelVars>>

EventStatus == {"draft", "published", "sold_out", "cancelled", "ended"}
Clock       == {"open", "closed", "over"}  \* buyers may cancel; they may not; ends_at is past
Ticket      == Purchase \X (1..MaxRequest)

SaleSteps   == {"locked", "charged", "emptied", "flips", "ready"}
CancelSteps == {"held", "judged", "voided", "restored", "reopens", "undone"}
Steps == {"new", "requested", "notify", "ended"} \cup SaleSteps \cup CancelSteps
CancelEventSteps ==
  {"idle", "cancelled", "listed", "purchases", "tickets", "swept", "cleared", "done"}

TypeOK ==
  /\ eventStatus \in EventStatus
  /\ clock \in Clock
  /\ quantity \in [Tier -> 1..MaxQuantity]
  /\ remaining \in [Tier -> Int]
  /\ tierStatus \in [Tier -> {"available", "sold_out"}]
  /\ purchase \in [Purchase -> {"none", "confirmed", "cancelled"}]
  /\ tierOf \in [Purchase -> Tier]
  /\ qty \in [Purchase -> 1..MaxRequest]
  /\ ticket \in [Ticket -> {"none", "unused", "used", "cancelled"}]
  /\ pc \in [Purchase -> Steps]
  /\ wasSoldOut \in [Purchase -> BOOLEAN]
  /\ wake \in [Tier -> Nat]
  /\ cancelPc \in CancelEventSteps
  /\ doomed \in SUBSET Purchase
  /\ doomedSeats \in SUBSET Purchase
  /\ buyers \in SUBSET User
  /\ told \in SUBSET User

(***************************************************************************)
(* Rows a transaction has created or matched, and the locks it holds.      *)
(***************************************************************************)
TicketsOf(p) == {p} \X (1..qty[p])

Confirmed == {p \in Purchase : purchase[p] = "confirmed"}

\* The seats of tier t that a confirmed purchase pays for.
SoldSeats(t) ==
  {k \in Ticket : /\ k[1] \in Confirmed
                  /\ tierOf[k[1]] = t
                  /\ k \in TicketsOf(k[1])}

\* Mistake: Cancel locks the event before the tier, against Create's order.
HoldsEventBeforeTier(p) == pc[p] \in {"flips", "voided", "reopens"}

HoldsTier(p)     == pc[p] \in SaleSteps \cup {"restored", "reopens", "undone"}
HoldsEvent(p)    == pc[p] \in {"flips", "reopens"}
HoldsPurchase(p) == pc[p] \in CancelSteps
HoldsTickets(p)  == pc[p] \in {"voided", "restored", "reopens", "undone"}

TierLocked(t)  == \E p \in Purchase : HoldsTier(p) /\ tierOf[p] = t
EventLocked    == \E p \in Purchase : HoldsEvent(p)
SweepHolds(p)  == cancelPc \in {"purchases", "tickets"} /\ p \in doomed
SweepHoldsTickets(p) == cancelPc = "tickets" /\ p \in doomedSeats

Init ==
  /\ eventStatus = "draft"
  /\ clock = "open"
  /\ quantity \in [Tier -> 1..MaxQuantity]
  /\ remaining = quantity
  /\ tierStatus = [t \in Tier |-> "available"]
  /\ purchase = [p \in Purchase |-> "none"]
  /\ tierOf \in [Purchase -> Tier]
  /\ qty \in [Purchase -> 1..MaxRequest]
  /\ ticket = [k \in Ticket |-> "none"]
  /\ pc = [p \in Purchase |-> "new"]
  /\ wasSoldOut = [p \in Purchase |-> FALSE]
  /\ wake = [t \in Tier |-> 0]
  /\ cancelPc = "idle"
  /\ doomed = {}
  /\ doomedSeats = {}
  /\ buyers = {}
  /\ told = {}

Goto(p, step) == pc' = [pc EXCEPT ![p] = step]

(***************************************************************************)
(* Buying: createPurchase and PurchasesStore.Create.                       *)
(***************************************************************************)

\* The handler found the event published and generated the ids.
RequestPurchase(p) ==
  /\ pc[p] = "new"
  /\ eventStatus = "published"
  /\ Goto(p, "requested")
  /\ UNCHANGED <<eventVars, tierVars, orderVars, wasSoldOut, wake, cancelVars>>

\* Mistake: the SELECT without FOR UPDATE.
LockTierUnlocked(p) ==
  /\ pc[p] = "requested"
  /\ Goto(p, "locked")
  /\ UNCHANGED <<eventVars, tierVars, orderVars, wasSoldOut, wake, cancelVars>>

\* SELECT ... FROM ticket_tiers FOR UPDATE.  What it returns cannot change
\* before the transaction ends, so the later steps read the row itself.
LockTier(p) ==
  /\ pc[p] = "requested"
  /\ ~TierLocked(tierOf[p])
  /\ Goto(p, "locked")
  /\ UNCHANGED <<eventVars, tierVars, orderVars, wasSoldOut, wake, cancelVars>>

\* Mistake: the stock is compared with one seat less.
SellableOffByOne(p) ==
  /\ eventStatus = "published"
  /\ qty[p] <= MaxPerPurchase
  /\ tierStatus[tierOf[p]] = "available"
  /\ remaining[tierOf[p]] >= qty[p] - 1

Sellable(p) ==
  /\ eventStatus = "published"
  /\ qty[p] <= MaxPerPurchase
  /\ tierStatus[tierOf[p]] = "available"
  /\ remaining[tierOf[p]] >= qty[p]

\* The event's rules, read without a lock, or the tier's row forbid the sale.
RefuseSale(p) ==
  /\ pc[p] = "locked"
  /\ ~Sellable(p)
  /\ Goto(p, "ended")
  /\ UNCHANGED <<eventVars, tierVars, orderVars, wasSoldOut, wake, cancelVars>>

\* The rules allow it: the decrement and the inserts are made, uncommitted.
TakeSeats(p) ==
  /\ pc[p] = "locked"
  /\ Sellable(p)
  /\ Goto(p, "charged")
  /\ UNCHANGED <<eventVars, tierVars, orderVars, wasSoldOut, wake, cancelVars>>

\* Mistake: the stock is looked at before the decrement.
StockBefore(p) == \E t \in Tier : remaining[t] > 0

\* SELECT EXISTS (... remaining > 0): its own decrement and what others committed.
StockSeen(p) ==
  \/ remaining[tierOf[p]] - qty[p] > 0
  \/ \E t \in Tier \ {tierOf[p]} : remaining[t] > 0

CheckStock(p) ==
  /\ pc[p] = "charged"
  /\ Goto(p, IF StockSeen(p) THEN "ready" ELSE "emptied")
  /\ UNCHANGED <<eventVars, tierVars, orderVars, wasSoldOut, wake, cancelVars>>

\* UPDATE events SET status = 'sold_out' ... AND status = 'published': it waits
\* for the row only when the committed row matches.
SellOutEvent(p) ==
  /\ pc[p] = "emptied"
  /\ eventStatus = "published" => ~EventLocked
  /\ Goto(p, IF eventStatus = "published" THEN "flips" ELSE "ready")
  /\ UNCHANGED <<eventVars, tierVars, orderVars, wasSoldOut, wake, cancelVars>>

CommitSale(p) ==
  /\ pc[p] \in {"flips", "ready"}
  /\ eventStatus' = IF pc[p] = "flips" THEN "sold_out" ELSE eventStatus
  /\ remaining' = [remaining EXCEPT ![tierOf[p]] = @ - qty[p]]
  /\ tierStatus' = [tierStatus EXCEPT ![tierOf[p]] =
                      IF remaining'[tierOf[p]] = 0 THEN "sold_out" ELSE "available"]
  /\ purchase' = [purchase EXCEPT ![p] = "confirmed"]
  /\ ticket' = [k \in Ticket |-> IF k \in TicketsOf(p) THEN "unused" ELSE ticket[k]]
  /\ Goto(p, "ended")
  /\ UNCHANGED <<clock, quantity, tierOf, qty, wasSoldOut, wake, cancelVars>>

\* A statement fails or the 5 second context expires: the deferred Rollback runs.
RollbackSale(p) ==
  /\ Faults
  /\ pc[p] \in SaleSteps \cup {"requested"}
  /\ Goto(p, "ended")
  /\ UNCHANGED <<eventVars, tierVars, orderVars, wasSoldOut, wake, cancelVars>>

(***************************************************************************)
(* A buyer cancels: cancelPurchase and PurchasesStore.Cancel.              *)
(***************************************************************************)

\* Mistake: the purchase's status is not looked at.
LockPurchaseAnyStatus(p) ==
  /\ pc[p] = "ended"
  /\ purchase[p] # "none"
  /\ ~SweepHolds(p)
  /\ Goto(p, "held")
  /\ UNCHANGED <<eventVars, tierVars, orderVars, wasSoldOut, wake, cancelVars>>

\* SELECT ... FROM purchases FOR UPDATE, of a purchase still confirmed.
LockPurchase(p) ==
  /\ pc[p] = "ended"
  /\ purchase[p] = "confirmed"
  /\ ~SweepHolds(p)
  /\ Goto(p, "held")
  /\ UNCHANGED <<eventVars, tierVars, orderVars, wasSoldOut, wake, cancelVars>>

\* The rules of tier and event are read without a lock; the policy allows it.
JudgeCancellation(p) ==
  /\ pc[p] = "held"
  /\ clock = "open"
  /\ wasSoldOut' = [wasSoldOut EXCEPT ![p] = tierStatus[tierOf[p]] = "sold_out"]
  /\ Goto(p, "judged")
  /\ UNCHANGED <<eventVars, tierVars, orderVars, wake, cancelVars>>

RefuseCancellation(p) ==
  /\ pc[p] = "held"
  /\ clock # "open"
  /\ Goto(p, "ended")
  /\ UNCHANGED <<eventVars, tierVars, orderVars, wasSoldOut, wake, cancelVars>>

\* The purchase, which it has locked, and its tickets are updated.
VoidTickets(p) ==
  /\ pc[p] = "judged"
  /\ ~SweepHoldsTickets(p)
  /\ Goto(p, "voided")
  /\ UNCHANGED <<eventVars, tierVars, orderVars, wasSoldOut, wake, cancelVars>>

\* The tier is updated, and passes CHECK (remaining <= quantity).
RestoreStock(p) ==
  /\ pc[p] = "voided"
  /\ ~TierLocked(tierOf[p])
  /\ remaining[tierOf[p]] + qty[p] <= quantity[tierOf[p]]
  /\ Goto(p, "restored")
  /\ UNCHANGED <<eventVars, tierVars, orderVars, wasSoldOut, wake, cancelVars>>

\* Mistake: the UPDATE without AND status = 'sold_out'.
ReopenEventAnyStatus(p) ==
  /\ pc[p] = "restored"
  /\ ~EventLocked
  /\ Goto(p, "reopens")
  /\ UNCHANGED <<eventVars, tierVars, orderVars, wasSoldOut, wake, cancelVars>>

\* UPDATE events SET status = 'published' ... AND status = 'sold_out'
ReopenEvent(p) ==
  /\ pc[p] = "restored"
  /\ eventStatus = "sold_out" => ~EventLocked
  /\ Goto(p, IF eventStatus = "sold_out" THEN "reopens" ELSE "undone")
  /\ UNCHANGED <<eventVars, tierVars, orderVars, wasSoldOut, wake, cancelVars>>

\* Mistake: the tier gets its seats back and stays sold_out.
CommitCancellationKeepsStatus(p) ==
  /\ pc[p] \in {"reopens", "undone"}
  /\ eventStatus' = IF pc[p] = "reopens" THEN "published" ELSE eventStatus
  /\ remaining' = [remaining EXCEPT ![tierOf[p]] = @ + qty[p]]
  /\ purchase' = [purchase EXCEPT ![p] = "cancelled"]
  /\ ticket' = [k \in Ticket |-> IF k \in TicketsOf(p) THEN "cancelled" ELSE ticket[k]]
  /\ Goto(p, IF wasSoldOut[p] THEN "notify" ELSE "ended")
  /\ UNCHANGED <<clock, quantity, tierStatus, tierOf, qty, wasSoldOut, wake, cancelVars>>

CommitCancellation(p) ==
  /\ pc[p] \in {"reopens", "undone"}
  /\ eventStatus' = IF pc[p] = "reopens" THEN "published" ELSE eventStatus
  /\ remaining' = [remaining EXCEPT ![tierOf[p]] = @ + qty[p]]
  /\ tierStatus' = [tierStatus EXCEPT ![tierOf[p]] = "available"]
  /\ purchase' = [purchase EXCEPT ![p] = "cancelled"]
  /\ ticket' = [k \in Ticket |-> IF k \in TicketsOf(p) THEN "cancelled" ELSE ticket[k]]
  /\ Goto(p, IF wasSoldOut[p] THEN "notify" ELSE "ended")
  /\ UNCHANGED <<clock, quantity, tierOf, qty, wasSoldOut, wake, cancelVars>>

RollbackCancellation(p) ==
  /\ Faults
  /\ pc[p] \in CancelSteps
  /\ Goto(p, "ended")
  /\ wasSoldOut' = [wasSoldOut EXCEPT ![p] = FALSE]
  /\ UNCHANGED <<eventVars, tierVars, orderVars, wake, cancelVars>>

\* After the commit the handler enqueues a promotion for the tier ...
EnqueuePromotion(p) ==
  /\ pc[p] = "notify"
  /\ wake' = [wake EXCEPT ![tierOf[p]] = @ + 1]
  /\ wasSoldOut' = [wasSoldOut EXCEPT ![p] = FALSE]
  /\ Goto(p, "ended")
  /\ UNCHANGED <<eventVars, tierVars, orderVars, cancelVars>>

\* ... an error of the queue is only logged, and a crash is not made up for.
LosePromotion(p) ==
  /\ Faults
  /\ pc[p] = "notify"
  /\ wasSoldOut' = [wasSoldOut EXCEPT ![p] = FALSE]
  /\ Goto(p, "ended")
  /\ UNCHANGED <<eventVars, tierVars, orderVars, wake, cancelVars>>

(***************************************************************************)
(* The door: TicketsStore.CheckIn locks one ticket row, checks and flips   *)
(* it.  For the other rows its commit is all there is to see, one step;    *)
(* module Door has the steps of the scans that meet at one ticket.         *)
(***************************************************************************)
\* Mistake: every ticket that exists is admitted.
CheckInAnyStatus(k) ==
  /\ ticket[k] # "none"
  /\ ~HoldsTickets(k[1]) /\ ~SweepHoldsTickets(k[1])
  /\ ticket' = [ticket EXCEPT ![k] = "used"]
  /\ UNCHANGED <<eventVars, tierVars, purchase, tierOf, qty, txVars, cancelVars>>

CheckIn(k) ==
  /\ ticket[k] = "unused"
  /\ ~HoldsTickets(k[1]) /\ ~SweepHoldsTickets(k[1])
  /\ ticket' = [ticket EXCEPT ![k] = "used"]
  /\ UNCHANGED <<eventVars, tierVars, purchase, tierOf, qty, txVars, cancelVars>>

(***************************************************************************)
(* The life of the event.                                                  *)
(***************************************************************************)

\* EventsStore.Publish: WHERE status = 'draft'.
Publish ==
  /\ eventStatus = "draft"
  /\ eventStatus' = "published"
  /\ UNCHANGED <<clock, tierVars, orderVars, txVars, cancelVars>>

\* Mistake: a status the column's type does not have.
EndAllExpiredMisnamed ==
  /\ eventStatus \in {"published", "sold_out"}
  /\ clock = "over"
  /\ ~EventLocked
  /\ eventStatus' = "expired"
  /\ UNCHANGED <<clock, tierVars, orderVars, txVars, cancelVars>>

\* EventsStore.EndAllExpired, run every five minutes by the scheduler.
EndAllExpired ==
  /\ eventStatus \in {"published", "sold_out"}
  /\ clock = "over"
  /\ ~EventLocked
  /\ eventStatus' = "ended"
  /\ UNCHANGED <<clock, tierVars, orderVars, txVars, cancelVars>>

\* Time passes, or updateEvent moves the dates, the policy or the
\* material-change stamp: any position may follow any other.
MoveClock ==
  /\ clock' \in Clock \ {clock}
  /\ UNCHANGED <<eventStatus, tierVars, orderVars, txVars, cancelVars>>

(***************************************************************************)
(* The organizer cancels: cancelEvent.  Each store call commits by itself. *)
(***************************************************************************)

\* EventsStore.Cancel: WHERE status IN ('draft', 'published', 'sold_out').
CancelEvent ==
  /\ cancelPc = "idle"
  /\ eventStatus \in {"draft", "published", "sold_out"}
  /\ ~EventLocked
  /\ eventStatus' = "cancelled"
  /\ cancelPc' = "cancelled"
  /\ UNCHANGED <<clock, tierVars, orderVars, txVars, doomed, doomedSeats, buyers, told>>

\* ListConfirmedBuyersByEvent: SELECT DISTINCT the users.  Whatever the error,
\* of the query or of the collection, the handler goes on with no buyers.
ListBuyers ==
  LET rows == {Buyer[p] : p \in Confirmed} IN
  /\ cancelPc = "cancelled"
  /\ buyers' = IF CollectFails(rows) THEN {} ELSE rows
  /\ cancelPc' = "listed"
  /\ UNCHANGED <<eventVars, tierVars, orderVars, txVars, doomed, doomedSeats, told>>

\* Mistake: purchases whose tickets were used at the door are left alone.
FlipUnusedPurchases ==
  /\ cancelPc = "listed"
  /\ doomed' = {p \in Confirmed : \A k \in TicketsOf(p) : ticket[k] = "unused"}
  /\ cancelPc' = "purchases"
  /\ UNCHANGED <<eventVars, tierVars, orderVars, txVars, doomedSeats, buyers, told>>

\* CancelByEvent's first UPDATE matches what is confirmed when it starts.
FlipPurchases ==
  /\ cancelPc = "listed"
  /\ doomed' = Confirmed
  /\ cancelPc' = "purchases"
  /\ UNCHANGED <<eventVars, tierVars, orderVars, txVars, doomedSeats, buyers, told>>

\* Mistake: the second UPDATE matches the purchases that are still confirmed.
FlipTicketsOfConfirmed ==
  /\ cancelPc = "purchases"
  /\ \A p \in doomed : ~HoldsPurchase(p)
  /\ doomedSeats' = Confirmed
  /\ cancelPc' = "tickets"
  /\ UNCHANGED <<eventVars, tierVars, orderVars, txVars, doomed, buyers, told>>

\* It has waited for the rows buyers' cancellations held; the second UPDATE
\* then matches the tickets of every purchase of the event, whatever its status.
FlipTickets ==
  /\ cancelPc = "purchases"
  /\ \A p \in doomed : ~HoldsPurchase(p)
  /\ doomedSeats' = {p \in Purchase : purchase[p] # "none"}
  /\ cancelPc' = "tickets"
  /\ UNCHANGED <<eventVars, tierVars, orderVars, txVars, doomed, buyers, told>>

\* Mistake: only unused tickets are cancelled.
CommitCancelByEventSparesUsed ==
  /\ cancelPc = "tickets"
  /\ \A p \in doomedSeats : ~HoldsTickets(p)
  /\ purchase' = [p \in Purchase |->
       IF p \in doomed /\ purchase[p] = "confirmed" THEN "cancelled" ELSE purchase[p]]
  /\ ticket' = [k \in Ticket |->
       IF k[1] \in doomedSeats /\ ticket[k] = "unused" THEN "cancelled" ELSE ticket[k]]
  /\ doomed' = {}
  /\ doomedSeats' = {}
  /\ cancelPc' = "swept"
  /\ UNCHANGED <<eventVars, tierVars, tierOf, qty, txVars, buyers, told>>

CommitCancelByEvent ==
  /\ cancelPc = "tickets"
  /\ \A p \in doomedSeats : ~HoldsTickets(p)
  /\ purchase' = [p \in Purchase |->
       IF p \in doomed /\ purchase[p] = "confirmed" THEN "cancelled" ELSE purchase[p]]
  /\ ticket' = [k \in Ticket |->
       IF k[1] \in doomedSeats /\ k \in TicketsOf(k[1]) THEN "cancelled" ELSE ticket[k]]
  /\ doomed' = {}
  /\ doomedSeats' = {}
  /\ cancelPc' = "swept"
  /\ UNCHANGED <<eventVars, tierVars, tierOf, qty, txVars, buyers, told>>

\* CancelByEvent fails and rolls back: the handler logs it and goes on.
FailCancelByEvent ==
  /\ Faults
  /\ cancelPc \in {"listed", "purchases", "tickets"}
  /\ doomed' = {}
  /\ doomedSeats' = {}
  /\ cancelPc' = "swept"
  /\ UNCHANGED <<eventVars, tierVars, orderVars, txVars, buyers, told>>

\* WaitlistStore.DeleteByEvent: what it deletes is in module Waitlist.
ClearWaitlist ==
  /\ cancelPc = "swept"
  /\ cancelPc' = "cleared"
  /\ UNCHANGED <<eventVars, tierVars, orderVars, txVars, doomed, doomedSeats, buyers, told>>

\* The notification task carries the snapshot of the buyers; it may be lost.
NotifyBuyers ==
  /\ cancelPc = "cleared"
  /\ told' \in {buyers} \cup (IF Faults THEN {{}} ELSE {})
  /\ cancelPc' = "done"
  /\ UNCHANGED <<eventVars, tierVars, orderVars, txVars, doomed, doomedSeats, buyers>>

\* The server dies between or inside the calls; an open transaction rolls back.
CrashCancelEvent ==
  /\ Faults
  /\ cancelPc \notin {"idle", "done"}
  /\ doomed' = {}
  /\ doomedSeats' = {}
  /\ cancelPc' = "done"
  /\ UNCHANGED <<eventVars, tierVars, orderVars, txVars, buyers, told>>

-----------------------------------------------------------------------------
SaleStep(p) ==
  \/ LockTier(p) \/ RefuseSale(p) \/ TakeSeats(p) \/ CheckStock(p)
  \/ SellOutEvent(p) \/ CommitSale(p)

CancellationStep(p) ==
  \/ JudgeCancellation(p) \/ RefuseCancellation(p) \/ VoidTickets(p)
  \/ RestoreStock(p) \/ ReopenEvent(p) \/ CommitCancellation(p) \/ EnqueuePromotion(p)

SweepStep ==
  \/ ListBuyers \/ FlipPurchases \/ FlipTickets \/ CommitCancelByEvent
  \/ ClearWaitlist \/ NotifyBuyers

Next ==
  \/ \E p \in Purchase :
       \/ RequestPurchase(p) \/ SaleStep(p) \/ RollbackSale(p)
       \/ LockPurchase(p) \/ CancellationStep(p)
       \/ RollbackCancellation(p) \/ LosePromotion(p)
  \/ \E k \in Ticket : CheckIn(k)
  \/ Publish \/ EndAllExpired \/ MoveClock
  \/ CancelEvent \/ SweepStep \/ FailCancelByEvent \/ CrashCancelEvent

Spec == Init /\ [][Next]_vars

\* Handlers run to their end, row locks are granted in the order they are
\* waited for, and the clock, the door, buyers and organizers owe nothing.
FairSpec ==
  /\ Spec
  /\ \A p \in Purchase : SF_vars(SaleStep(p)) /\ SF_vars(CancellationStep(p))
  /\ SF_vars(SweepStep)

-----------------------------------------------------------------------------
(***************************************************************************)
(* What the code guarantees.                                               *)
(***************************************************************************)

\* A row is locked by one transaction at a time, whichever mix of sales,
\* cancellations and event cancellation is open (the FOR UPDATEs and the
\* UPDATEs of purchases.go).
RowLocksExclusive ==
  \A p, q \in Purchase :
    /\ HoldsTier(p) /\ HoldsTier(q) /\ tierOf[p] = tierOf[q] => p = q
    /\ HoldsEvent(p) /\ HoldsEvent(q) => p = q
    /\ cancelPc = "tickets" /\ p \in doomed => ~HoldsPurchase(p)

\* No oversell, no lost seat: what a tier has left and what confirmed purchases
\* hold never exceed its quantity, and make it up exactly until the event is
\* cancelled (CancelByEvent does not give seats back).
SeatsConserved ==
  \A t \in Tier :
    /\ remaining[t] >= 0
    /\ remaining[t] + Cardinality(SoldSeats(t)) <= quantity[t]
    /\ eventStatus # "cancelled" =>
         remaining[t] + Cardinality(SoldSeats(t)) = quantity[t]

(***************************************************************************)
(* Why seats are conserved: what an open transaction has read under its    *)
(* locks still holds, and no other transaction decides about its purchase. *)
(***************************************************************************)

SaleDecided(p) ==
  /\ purchase[p] = "none"
  /\ tierStatus[tierOf[p]] = "available"
  /\ remaining[tierOf[p]] >= qty[p]

\* Where the request stands against its own purchase, tier and event rows: the
\* stock TakeSeats checked is there until its commit, the status an open UPDATE
\* of the event matched is unchanged, a cancellation's purchase is confirmed.
OpenRequestsHold ==
  \A p \in Purchase :
    /\ pc[p] \in {"new", "requested", "locked"} => purchase[p] = "none"
    /\ pc[p] \in {"charged", "emptied", "flips", "ready"} => SaleDecided(p)
    /\ pc[p] = "flips" => eventStatus = "published"
    /\ pc[p] = "reopens" => eventStatus = "sold_out"
    /\ pc[p] \in CancelSteps => purchase[p] = "confirmed"
    /\ pc[p] = "notify" => purchase[p] = "cancelled"

\* CancelByEvent runs on a cancelled event, on purchases that have rows, and
\* its second statement matches the tickets of all that its first one matched.
SweepSound ==
  /\ cancelPc # "idle" => eventStatus = "cancelled"
  /\ \A p \in doomed \cup doomedSeats : purchase[p] # "none"
  /\ cancelPc = "tickets" => doomed \subseteq doomedSeats

\* A buyer's cancellation that the policy allows is never turned down by the
\* CHECK (remaining <= quantity) of ticket_tiers.
RestoreAlwaysFits ==
  \A p \in Purchase :
    pc[p] \in {"held", "judged", "voided"} =>
      remaining[tierOf[p]] + qty[p] <= quantity[tierOf[p]]

\* A tier says sold_out exactly when nothing remains, between a decrement and
\* a restoration of two different purchases.
TierStatusTruthful ==
  \A t \in Tier : tierStatus[t] = "sold_out" <=> remaining[t] = 0

\* An event with one tier is on sale exactly when a seat is left: the last sale
\* marks both rows, and a return reopens both.  With several tiers two sales, or
\* a sale and a return, that cross at CheckStock may disagree with the stock.
SoldOutAgrees ==
  \A t \in Tier : Tier = {t} =>
    /\ eventStatus = "published" => remaining[t] > 0
    /\ eventStatus = "sold_out" => remaining[t] = 0

\* The transactions of purchases.go keep each other out of their rows, rely on
\* nothing that another can change before they commit, and leave every seat
\* counted once and every tier's status true to its stock.  Module
\* TicketSalesProofs proves it inductive.
SeatInv ==
  /\ RowLocksExclusive
  /\ OpenRequestsHold
  /\ SweepSound
  /\ SeatsConserved
  /\ TierStatusTruthful

\* A cancelled purchase, cancelled by its buyer or with its event, leaves no
\* ticket that opens the door; a purchase without a row has no ticket.
CancelledWithTickets ==
  \A p \in Purchase : \A k \in TicketsOf(p) :
    /\ purchase[p] = "cancelled" => ticket[k] = "cancelled"
    /\ purchase[p] = "none" <=> ticket[k] = "none"

LegalTransition ==
  {<<"draft", "published">>, <<"draft", "cancelled">>,
   <<"published", "cancelled">>, <<"published", "sold_out">>, <<"published", "ended">>,
   <<"sold_out", "cancelled">>, <<"sold_out", "published">>, <<"sold_out", "ended">>}

\* The transitions of an event's status: cancelled and ended are final, a
\* draft is never sold out or ended, a published event is never a draft again.
EventLifecycle ==
  [][(<<eventStatus, eventStatus'>>) \in LegalTransition]_eventStatus

\* A ticket that was used at the door does not become unused again, whatever
\* sales, returns and sweeps are open, and neither a ticket nor a purchase that
\* was cancelled is ever valid again.  (That two scans do not both admit a
\* ticket is the subject of module Door.)
RecordsOnlyAdvance ==
  [][/\ \A p \in Purchase :
          /\ purchase[p] = "cancelled" => purchase'[p] = "cancelled"
          /\ purchase[p] = "confirmed" => purchase'[p] # "none"
     /\ \A k \in Ticket :
          /\ ticket[k] = "cancelled" => ticket'[k] = "cancelled"
          /\ ticket[k] = "used" => ticket'[k] \in {"used", "cancelled"}]_vars

\* Sales, returns and event cancellations take effect on the stock as if each
\* were a single step (SELECT FOR UPDATE in Create, UPDATE in Cancel).
Ledger == INSTANCE SeatLedger
  WITH free <- remaining, state <- purchase, choice <- tierOf, size <- qty,
       off <- eventStatus = "cancelled"

ImplementsLedger == Ledger!LedgerSpec

\* No cycle of waits: every request about a purchase is answered, although it
\* may wait for the tier, the event, the purchase and its tickets.
RequestsAnswered ==
  \A p \in Purchase : pc[p] \notin {"new", "ended"} ~> pc[p] = "ended"

\* A purchase that is confirmed when its event is cancelled ends up cancelled,
\* unless a server or a query fails on the way.
CancellationReachesBuyers ==
  \A p \in Purchase :
    cancelPc = "cancelled" /\ purchase[p] = "confirmed" ~> purchase[p] = "cancelled"

(***************************************************************************)
(* What the documents say and sales in flight break.                       *)
(***************************************************************************)

\* Once cancelEvent has done its work and no sale is in flight, no purchase of
\* the event is left confirmed: a Create that read the event while it was
\* published may commit after CancelByEvent has looked for purchases.
NoStrandedPurchase ==
  cancelPc = "done" /\ (\A p \in Purchase : pc[p] \in {"new", "ended"}) => Confirmed = {}
=============================================================================
