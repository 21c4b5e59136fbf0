----------------------------- MODULE TierEdits -----------------------------
(***************************************************************************)
(* The organizer edits tiers while they are on sale: updateTier of         *)
(* cmd/server/tiers.go over TicketSales.  The handler reads the event and  *)
(* the tier without a lock, computes a new row in memory, and writes the   *)
(* whole row back, so what was committed in between is overwritten.        *)
(***************************************************************************)
EXTENDS TicketSales, Functions

CONSTANTS
  Editor,    \* the organizer's concurrent updateTier requests
  Capacity   \* events.capacity; NULL is a value no total of tiers reaches

ASSUME CapacityAssumption == Capacity \in Nat

\* The request's path names a tier of the event.
ASSUME TierAssumption == Tier # {}

VARIABLES
  editPc,  \* the step each request has reached
  form     \* its copies: the event's status and the tier's row, as merged

editVars == <<editPc, form>>
allVars  == <<vars, editVars>>

EditSteps == {"idle", "opened", "loaded", "merged", "saved"}
Form == [event : EventStatus, tier : Tier, quantity : 0..MaxQuantity, remaining : Int,
         status : {"available", "sold_out"}, sold : Int]

Blank == [event |-> "draft", tier |-> CHOOSE t \in Tier : TRUE,
          quantity |-> 0, remaining |-> 0, status |-> "available", sold |-> 0]

EditTypeOK ==
  /\ TypeOK
  /\ editPc \in [Editor -> EditSteps]
  /\ form \in [Editor -> Form]

\* TiersStore.SumQuantityByEvent
TotalQuantity == FoldFunction(+, 0, quantity)

\* createTier let the tiers in while their total fitted the capacity.
EditInit ==
  /\ Init
  /\ TotalQuantity <= Capacity
  /\ editPc = [e \in Editor |-> "idle"]
  /\ form = [e \in Editor |-> Blank]

\* The request is answered and its copies are gone.
EditEnds(e) ==
  /\ editPc' = [editPc EXCEPT ![e] = "idle"]
  /\ form' = [form EXCEPT ![e] = Blank]

EditGoto(e, step) == editPc' = [editPc EXCEPT ![e] = step]

\* requireEventOrganizer loaded the event and it is not frozen.
OpenEdit(e) ==
  /\ editPc[e] = "idle"
  /\ eventStatus \notin {"cancelled", "ended"}
  /\ form' = [form EXCEPT ![e].event = eventStatus]
  /\ EditGoto(e, "opened")
  /\ UNCHANGED vars

\* TiersStore.GetByID
LoadTier(e, t) ==
  /\ editPc[e] = "opened"
  /\ form' = [form EXCEPT ![e] =
       [event |-> @.event, tier |-> t, quantity |-> quantity[t],
        remaining |-> remaining[t], status |-> tierStatus[t],
        sold |-> quantity[t] - remaining[t]]]
  /\ EditGoto(e, "loaded")
  /\ UNCHANGED vars

\* Mistake: a payload without a quantity is merged into an empty row.
KeepQuantityUnloaded(e) ==
  /\ editPc[e] \in {"opened", "loaded"}
  /\ EditGoto(e, "merged")
  /\ UNCHANGED <<vars, form>>

\* A payload with a new name or price only.
KeepQuantity(e) ==
  /\ editPc[e] = "loaded"
  /\ EditGoto(e, "merged")
  /\ UNCHANGED <<vars, form>>

\* Mistake: the quantity is not compared with the seats sold.
FitsCapacity(e, q) == TotalQuantity - form[e].quantity + q <= Capacity

FitsSoldAndCapacity(e, q) ==
  /\ q >= form[e].sold
  /\ TotalQuantity - form[e].quantity + q <= Capacity

\* Mistake: the tier's status is not recomputed.
ResizeKeepsStatus(e, q) ==
  /\ editPc[e] = "loaded"
  /\ FitsSoldAndCapacity(e, q)
  /\ form' = [form EXCEPT ![e].quantity = q, ![e].remaining = q - form[e].sold]
  /\ EditGoto(e, "merged")
  /\ UNCHANGED vars

\* Mistake: the whole new quantity goes on sale.
ResizeForgetsSold(e, q) ==
  /\ editPc[e] = "loaded"
  /\ FitsSoldAndCapacity(e, q)
  /\ form' = [form EXCEPT ![e].quantity = q, ![e].remaining = q, ![e].status = "available"]
  /\ EditGoto(e, "merged")
  /\ UNCHANGED vars

Resize(e, q) ==
  /\ editPc[e] = "loaded"
  /\ FitsSoldAndCapacity(e, q)
  /\ form' = [form EXCEPT
       ![e].quantity = q,
       ![e].remaining = q - form[e].sold,
       ![e].status = IF q - form[e].sold > 0 THEN "available" ELSE "sold_out"]
  /\ EditGoto(e, "merged")
  /\ UNCHANGED vars

RefuseResize(e, q) ==
  /\ editPc[e] = "loaded"
  /\ ~FitsSoldAndCapacity(e, q)
  /\ EditEnds(e)
  /\ UNCHANGED vars

\* TiersStore.Update writes every column, whatever the row holds by now.
SaveTier(e) ==
  LET t == form[e].tier IN
  /\ editPc[e] = "merged"
  /\ ~TierLocked(t)
  /\ quantity' = [quantity EXCEPT ![t] = form[e].quantity]
  /\ remaining' = [remaining EXCEPT ![t] = form[e].remaining]
  /\ tierStatus' = [tierStatus EXCEPT ![t] = form[e].status]
  /\ IF form[e].event = "sold_out" /\ form[e].remaining > 0
       THEN EditGoto(e, "saved") /\ UNCHANGED form
       ELSE EditEnds(e)
  /\ UNCHANGED <<eventVars, orderVars, txVars, cancelVars>>

\* Mistake: SetStatus without the status it expects.
RestoreEventAnyStatus(e) ==
  /\ editPc[e] = "saved"
  /\ ~EventLocked
  /\ eventStatus' = "published"
  /\ EditEnds(e)
  /\ UNCHANGED <<clock, tierVars, orderVars, txVars, cancelVars>>

\* EventsStore.SetStatus(sold_out, published)
RestoreEvent(e) ==
  /\ editPc[e] = "saved"
  /\ eventStatus = "sold_out" => ~EventLocked
  /\ eventStatus' = IF eventStatus = "sold_out" THEN "published" ELSE eventStatus
  /\ EditEnds(e)
  /\ UNCHANGED <<clock, tierVars, orderVars, txVars, cancelVars>>

AbandonEdit(e) ==
  /\ Faults
  /\ editPc[e] # "idle"
  /\ EditEnds(e)
  /\ UNCHANGED vars

\* Cancel's restoration meets CHECK (remaining <= quantity) on a row that an
\* edit has rewritten: the statement fails and the transaction rolls back.
RejectRestore(p) ==
  /\ pc[p] = "voided"
  /\ ~TierLocked(tierOf[p])
  /\ remaining[tierOf[p]] + qty[p] > quantity[tierOf[p]]
  /\ Goto(p, "ended")
  /\ wasSoldOut' = [wasSoldOut EXCEPT ![p] = FALSE]
  /\ UNCHANGED <<eventVars, tierVars, orderVars, wake, cancelVars, editVars>>

EditNext ==
  \/ Next /\ UNCHANGED editVars
  \/ \E p \in Purchase : RejectRestore(p)
  \/ \E e \in Editor :
       \/ OpenEdit(e) \/ KeepQuantity(e) \/ SaveTier(e) \/ RestoreEvent(e) \/ AbandonEdit(e)
       \/ \E t \in Tier : LoadTier(e, t)
       \/ \E q \in 1..MaxQuantity : Resize(e, q) \/ RefuseResize(e, q)

EditSpec == EditInit /\ [][EditNext]_allVars

-----------------------------------------------------------------------------
(***************************************************************************)
(* What survives edits.                                                    *)
(***************************************************************************)

\* The database's CHECK constraints on a tier hold without ever stopping a
\* sale or an edit, even when edits overwrite sales and each other.
StockInRange == \A t \in Tier : remaining[t] \in 0..quantity[t]

\* What a transaction has seen of the tier and the event it has locked is still
\* true, because edits wait for the locks: a sale's seats are there, a
\* cancellation's fit.
LockedRowsHold ==
  \A p \in Purchase :
    LET t == tierOf[p] IN
    /\ pc[p] \in {"charged", "emptied", "flips", "ready"} => qty[p] <= remaining[t]
    /\ pc[p] \in {"restored", "reopens", "undone"} => remaining[t] + qty[p] <= quantity[t]
    /\ pc[p] = "flips" => eventStatus = "published"
    /\ pc[p] = "reopens" => eventStatus = "sold_out"

\* A row that an edit is about to write satisfies the CHECK constraints, counts
\* the seats that the row it read counted as sold, and has the status its stock
\* asks for.
FormsAddUp ==
  \A e \in Editor : editPc[e] \in {"loaded", "merged"} =>
    /\ form[e].quantity \in 1..MaxQuantity
    /\ form[e].remaining \in 0..form[e].quantity
    /\ form[e].sold = form[e].quantity - form[e].remaining
    /\ form[e].status = "sold_out" <=> form[e].remaining = 0

\* What sales, returns and edits together keep of the tiers.  Module
\* TierEditsProofs proves it inductive.
EditInv ==
  /\ StockInRange
  /\ TierStatusTruthful
  /\ RowLocksExclusive
  /\ LockedRowsHold
  /\ FormsAddUp

\* An edit whose count of sold seats is still right when it writes the row, so
\* that no sale or cancellation has overtaken it, leaves that count right.
TimelyEditKeepsSold ==
  [][\A e \in Editor :
       LET t == form[e].tier IN
       SaveTier(e) /\ form[e].sold = Cardinality(SoldSeats(t)) /\ eventStatus # "cancelled" =>
         quantity'[t] - remaining'[t] = Cardinality(SoldSeats(t))]_allVars

(***************************************************************************)
(* What the documents say and edits break.                                 *)
(***************************************************************************)

\* A tier never has more seats sold and for sale than it has seats: an edit
\* that read the tier before a sale committed puts the sold seats back.
NoOversellDespiteEdits ==
  \A t \in Tier : remaining[t] + Cardinality(SoldSeats(t)) <= quantity[t]
=============================================================================
