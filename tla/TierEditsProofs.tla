-------------------------- MODULE TierEditsProofs --------------------------
(***************************************************************************)
(* Proofs about module TierEdits.  A request's copy of the row is good by  *)
(* itself, whatever has happened to the row since it was read; what a      *)
(* transaction has seen of a locked row stays true because the edit's      *)
(* UPDATE waits for the lock.  Together they keep the row's CHECKs.        *)
(***************************************************************************)
EXTENDS TierEdits, TicketSalesProofs

-----------------------------------------------------------------------------
(***************************************************************************)
(* Types.                                                                  *)
(***************************************************************************)

\* The zero row updateTier starts from is a row.
LEMMA BlankIsForm == Blank \in Form
  BY TierAssumption, SizesAssumption DEF Blank, Form, EventStatus

\* One request's copies change, to a row.
LEMMA FormUpdate ==
  ASSUME EditTypeOK, NEW e \in Editor, NEW f \in Form, form' = [form EXCEPT ![e] = f],
         editPc' \in [Editor -> EditSteps], TypeOK'
  PROVE  EditTypeOK'
BY DEF EditTypeOK

\* What LoadTier copies: every field but the event's status.
LEMMA LoadTierForm ==
  ASSUME EditTypeOK, NEW e \in Editor, NEW t \in Tier, LoadTier(e, t)
  PROVE  /\ form'[e] \in Form
         /\ form' = [form EXCEPT ![e] = form'[e]]
         /\ form'[e].quantity = quantity[t]
         /\ form'[e].remaining = remaining[t]
         /\ form'[e].status = tierStatus[t]
         /\ form'[e].sold = quantity[t] - remaining[t]
<1> DEFINE f == [event |-> form[e].event, tier |-> t, quantity |-> quantity[t],
                 remaining |-> remaining[t], status |-> tierStatus[t],
                 sold |-> quantity[t] - remaining[t]]
<1>1. form[e] \in Form
  BY DEF EditTypeOK
<1>2. quantity[t] \in 1..MaxQuantity /\ remaining[t] \in Int
      /\ tierStatus[t] \in {"available", "sold_out"}
  BY DEF EditTypeOK, TypeOK
<1>3. f \in Form
  BY <1>1, <1>2, SizesAssumption DEF Form
<1>4. form' = [form EXCEPT ![e] = f]
  BY DEF LoadTier
<1>5. form'[e] = f
  BY <1>4 DEF EditTypeOK
<1>6. f.quantity = quantity[t] /\ f.remaining = remaining[t] /\ f.status = tierStatus[t]
      /\ f.sold = quantity[t] - remaining[t]
  OBVIOUS
<1> HIDE DEF f
<1>7. QED BY <1>3, <1>4, <1>5, <1>6

\* What a new quantity makes of the copy.
LEMMA ResizeForm ==
  ASSUME EditTypeOK, NEW e \in Editor, NEW q \in 1..MaxQuantity, Resize(e, q)
  PROVE  /\ form'[e] \in Form
         /\ form' = [form EXCEPT ![e] = form'[e]]
         /\ form'[e].quantity = q
         /\ form'[e].remaining = q - form[e].sold
         /\ form'[e].status = IF q - form[e].sold > 0 THEN "available" ELSE "sold_out"
         /\ form'[e].sold = form[e].sold
<1> DEFINE left == q - form[e].sold
           label == IF left > 0 THEN "available" ELSE "sold_out"
           f == [form[e] EXCEPT !.quantity = q, !.remaining = left, !.status = label]
<1>1. form[e] \in Form /\ left \in Int /\ label \in {"available", "sold_out"}
      /\ q \in 0..MaxQuantity
  BY SizesAssumption DEF EditTypeOK, Form
<1>2. f \in Form
  <2> HIDE DEF left, label
  <2>1. QED BY <1>1 DEF Form
<1>3. f.quantity = q /\ f.remaining = q - form[e].sold /\ f.sold = form[e].sold
      /\ f.status = IF q - form[e].sold > 0 THEN "available" ELSE "sold_out"
  BY <1>1 DEF Form
<1>4. form' = [form EXCEPT ![e] = f]
  BY DEF Resize
<1> HIDE DEF f
<1>5. form'[e] = f
  BY <1>4 DEF EditTypeOK
<1>6. QED BY <1>2, <1>3, <1>4, <1>5

\* Every step keeps rows and copies of their types.
LEMMA EditStepTypeOK ==
  ASSUME EditTypeOK, FormsAddUp, EditNext
  PROVE  EditTypeOK'
<1> USE DEF EditGoto, EditSteps
<1>0. TypeOK /\ editPc \in [Editor -> EditSteps] /\ form \in [Editor -> Form]
  BY DEF EditTypeOK
<1>1. CASE Next /\ UNCHANGED editVars
  BY <1>0, <1>1, NextTypeOK DEF EditTypeOK, editVars
<1>2. ASSUME NEW p \in Purchase, RejectRestore(p) PROVE EditTypeOK'
  BY <1>0, <1>2 DEF EditTypeOK, editVars, RejectRestore, TypeOK, Goto, Steps,
     eventVars, tierVars, orderVars, cancelVars
<1>3. ASSUME UNCHANGED vars PROVE TypeOK'
  BY <1>0, <1>3, NextTypeOK
<1>4. ASSUME NEW e \in Editor, OpenEdit(e) PROVE EditTypeOK'
  <2> DEFINE f == [form[e] EXCEPT !.event = eventStatus]
  <2>1. f \in Form
    BY <1>0 DEF Form, TypeOK
  <2>2. form' = [form EXCEPT ![e] = f]
    BY <1>4 DEF OpenEdit
  <2>3. QED BY <1>0, <1>3, <1>4, <2>1, <2>2 DEF OpenEdit, EditTypeOK
<1>5. ASSUME NEW e \in Editor, NEW t \in Tier, LoadTier(e, t) PROVE EditTypeOK'
  <2>1. form'[e] \in Form /\ form' = [form EXCEPT ![e] = form'[e]]
    BY <1>5, LoadTierForm
  <2>2. editPc' \in [Editor -> EditSteps] /\ TypeOK'
    BY <1>0, <1>3, <1>5 DEF LoadTier
  <2>3. QED BY <1>5, <2>1, <2>2, FormUpdate
<1>6. ASSUME NEW e \in Editor, KeepQuantity(e) PROVE EditTypeOK'
  <2>1. UNCHANGED vars /\ form' = form
    BY <1>6 DEF KeepQuantity
  <2>2. QED BY <1>0, <1>3, <1>6, <2>1 DEF KeepQuantity, EditTypeOK
<1>7. ASSUME NEW e \in Editor, NEW q \in 1..MaxQuantity, Resize(e, q) PROVE EditTypeOK'
  <2>1. form'[e] \in Form /\ form' = [form EXCEPT ![e] = form'[e]]
    BY <1>7, ResizeForm
  <2>2. editPc' \in [Editor -> EditSteps] /\ TypeOK'
    BY <1>0, <1>3, <1>7 DEF Resize
  <2>3. QED BY <1>7, <2>1, <2>2, FormUpdate
<1>8. ASSUME NEW e \in Editor, EditEnds(e), TypeOK' PROVE EditTypeOK'
  BY <1>0, <1>8, BlankIsForm DEF EditEnds, EditTypeOK
<1>9. ASSUME NEW e \in Editor, NEW q \in 1..MaxQuantity, RefuseResize(e, q)
      PROVE  EditTypeOK'
  BY <1>3, <1>8, <1>9 DEF RefuseResize
<1>10. ASSUME NEW e \in Editor, AbandonEdit(e) PROVE EditTypeOK'
  BY <1>3, <1>8, <1>10 DEF AbandonEdit
<1>11. ASSUME NEW e \in Editor, RestoreEvent(e) PROVE EditTypeOK'
  <2>1. TypeOK'
    BY <1>0, <1>11 DEF RestoreEvent, TypeOK, EventStatus, tierVars, orderVars, txVars,
       cancelVars
  <2>2. QED BY <1>8, <1>11, <2>1 DEF RestoreEvent
<1>12. ASSUME NEW e \in Editor, SaveTier(e) PROVE EditTypeOK'
  <2>1. form[e] \in Form
    BY <1>0
  <2>2. form[e].quantity \in 1..MaxQuantity /\ form[e].remaining \in Int
        /\ form[e].status \in {"available", "sold_out"}
    BY <1>12, <2>1 DEF SaveTier, Form, FormsAddUp
  <2>3. TypeOK'
    BY <1>0, <1>12, <2>2 DEF SaveTier, TypeOK, eventVars, orderVars, txVars, cancelVars
  <2>4. CASE EditEnds(e)
    BY <1>8, <2>3, <2>4
  <2>5. CASE EditGoto(e, "saved") /\ UNCHANGED form
    BY <1>0, <2>3, <2>5 DEF EditTypeOK
  <2>6. QED BY <1>12, <2>4, <2>5 DEF SaveTier
<1>13. QED
  BY <1>1, <1>2, <1>4, <1>5, <1>6, <1>7, <1>9, <1>10, <1>11, <1>12 DEF EditNext

-----------------------------------------------------------------------------
(***************************************************************************)
(* The invariant: what the sales and cancellations do to it.               *)
(***************************************************************************)

\* A commit of a sale or of a return moves the stock of the tier it has locked
\* within what its check left room for.
LEMMA CommitsKeepStock ==
  ASSUME TypeOK, StockInRange, TierStatusTruthful, LockedRowsHold, Next
  PROVE  StockInRange' /\ TierStatusTruthful'
<1> USE DEF StockInRange, TierStatusTruthful
<1>1. ASSUME NEW p \in Purchase, CommitSale(p) PROVE StockInRange' /\ TierStatusTruthful'
  <2>1. qty[p] \in Nat /\ qty[p] <= remaining[tierOf[p]]
    BY <1>1, SizesAssumption DEF CommitSale, LockedRowsHold, TypeOK
  <2>2. QED BY <1>1, <2>1 DEF CommitSale, TypeOK
<1>2. ASSUME NEW p \in Purchase, CommitCancellation(p)
      PROVE  StockInRange' /\ TierStatusTruthful'
  <2>1. qty[p] \in Nat \ {0} /\ remaining[tierOf[p]] + qty[p] <= quantity[tierOf[p]]
    BY <1>2, SizesAssumption DEF CommitCancellation, LockedRowsHold, TypeOK
  <2>2. QED BY <1>2, <2>1 DEF CommitCancellation, TypeOK
<1>3. CASE \/ CommitCancelByEvent \/ \E k \in Ticket : CheckIn(k)
           \/ Publish \/ EndAllExpired \/ CancelEvent
           \/ UNCHANGED <<eventStatus, orderVars, tierVars>>
  BY <1>3 DEF CommitCancelByEvent, CheckIn, Publish, EndAllExpired, CancelEvent, tierVars
<1>4. QED BY <1>1, <1>2, <1>3, Writers

\* Whoever locks a row sees what it holds, and nobody writes it meanwhile.
LEMMA CommitsKeepLockedRows ==
  ASSUME TypeOK, RowLocksExclusive, LockedRowsHold, Next
  PROVE  LockedRowsHold'
<1> USE DEF LockedRowsHold, TypeOK, Goto
<1>1. ASSUME NEW p \in Purchase,
             RequestPurchase(p) \/ SaleStep(p) \/ RollbackSale(p)
      PROVE  LockedRowsHold'
  <2>1. CASE RequestPurchase(p)
    BY <2>1 DEF RequestPurchase, eventVars, tierVars, orderVars
  <2>2. CASE LockTier(p)
    BY <2>2 DEF LockTier, eventVars, tierVars, orderVars
  <2>3. CASE RefuseSale(p)
    BY <2>3 DEF RefuseSale, eventVars, tierVars, orderVars
  <2>4. CASE TakeSeats(p)
    BY <2>4 DEF TakeSeats, Sellable, eventVars, tierVars, orderVars
  <2>5. CASE CheckStock(p)
    BY <2>5 DEF CheckStock, eventVars, tierVars, orderVars
  <2>6. CASE SellOutEvent(p)
    BY <2>6 DEF SellOutEvent, eventVars, tierVars, orderVars
  <2>7. CASE CommitSale(p)
    <3>1. \A q \in Purchase \ {p} : HoldsTier(q) => tierOf[q] # tierOf[p]
      BY <2>7 DEF CommitSale, RowLocksExclusive, HoldsTier, SaleSteps
    <3>2. \A q \in Purchase \ {p} : pc[p] = "flips" => ~HoldsEvent(q)
      BY <2>7 DEF CommitSale, RowLocksExclusive, HoldsEvent
    <3>3. QED BY <2>7, <3>1, <3>2 DEF CommitSale, HoldsTier, HoldsEvent, SaleSteps
  <2>8. CASE RollbackSale(p)
    BY <2>8 DEF RollbackSale, eventVars, tierVars, orderVars
  <2>9. QED
    BY <1>1, <2>1, <2>2, <2>3, <2>4, <2>5, <2>6, <2>7, <2>8 DEF SaleStep
<1>2. ASSUME NEW p \in Purchase,
             \/ LockPurchase(p) \/ CancellationStep(p)
             \/ RollbackCancellation(p) \/ LosePromotion(p)
      PROVE  LockedRowsHold'
  <2>1. CASE LockPurchase(p)
    BY <2>1 DEF LockPurchase, eventVars, tierVars, orderVars
  <2>2. CASE JudgeCancellation(p)
    BY <2>2 DEF JudgeCancellation, eventVars, tierVars, orderVars
  <2>3. CASE RefuseCancellation(p)
    BY <2>3 DEF RefuseCancellation, eventVars, tierVars, orderVars
  <2>4. CASE VoidTickets(p)
    BY <2>4 DEF VoidTickets, eventVars, tierVars, orderVars
  <2>5. CASE RestoreStock(p)
    BY <2>5 DEF RestoreStock, eventVars, tierVars, orderVars
  <2>6. CASE ReopenEvent(p)
    BY <2>6 DEF ReopenEvent, eventVars, tierVars, orderVars
  <2>7. CASE CommitCancellation(p)
    <3>1. \A q \in Purchase \ {p} : HoldsTier(q) => tierOf[q] # tierOf[p]
      BY <2>7 DEF CommitCancellation, RowLocksExclusive, HoldsTier
    <3>2. \A q \in Purchase \ {p} : pc[p] = "reopens" => ~HoldsEvent(q)
      BY <2>7 DEF CommitCancellation, RowLocksExclusive, HoldsEvent
    <3>3. QED BY <2>7, <3>1, <3>2 DEF CommitCancellation, HoldsTier, HoldsEvent, SaleSteps
  <2>8. CASE EnqueuePromotion(p)
    BY <2>8 DEF EnqueuePromotion, eventVars, tierVars, orderVars
  <2>9. CASE RollbackCancellation(p)
    BY <2>9 DEF RollbackCancellation, eventVars, tierVars, orderVars
  <2>10. CASE LosePromotion(p)
    BY <2>10 DEF LosePromotion, eventVars, tierVars, orderVars
  <2>11. QED
    BY <1>2, <2>1, <2>2, <2>3, <2>4, <2>5, <2>6, <2>7, <2>8, <2>9, <2>10 DEF CancellationStep
<1>3. CASE EndAllExpired \/ CancelEvent
  BY <1>3 DEF EndAllExpired, CancelEvent, EventLocked, HoldsEvent, tierVars, orderVars, txVars
<1>4. CASE Publish
  BY <1>4 DEF Publish, tierVars, orderVars, txVars
<1>5. CASE (\E k \in Ticket : CheckIn(k)) \/ MoveClock \/ SweepStep
           \/ FailCancelByEvent \/ CrashCancelEvent
  BY <1>5 DEF CheckIn, MoveClock, SweepStep, ListBuyers, FlipPurchases, FlipTickets,
     CommitCancelByEvent, ClearWaitlist, NotifyBuyers, FailCancelByEvent, CrashCancelEvent,
     eventVars, tierVars, orderVars, txVars
<1>6. QED BY <1>1, <1>2, <1>3, <1>4, <1>5 DEF Next

-----------------------------------------------------------------------------
(***************************************************************************)
(* The invariant: what the editor's requests do to it.                     *)
(***************************************************************************)

\* A request's new copy adds up, if the one it is made from does.
LEMMA CopiesAddUp ==
  ASSUME EditTypeOK, EditInv, EditNext
  PROVE  FormsAddUp'
<1> USE DEF FormsAddUp
<1>0. editPc \in [Editor -> EditSteps] /\ form \in [Editor -> Form]
  BY DEF EditTypeOK
<1>1. CASE Next /\ UNCHANGED editVars
  BY <1>1 DEF EditInv, editVars
<1>2. ASSUME NEW p \in Purchase, RejectRestore(p) PROVE FormsAddUp'
  BY <1>2 DEF RejectRestore, EditInv, editVars
<1>3. ASSUME NEW e \in Editor, EditEnds(e) PROVE FormsAddUp'
  BY <1>0, <1>3 DEF EditEnds, EditInv
<1>4. ASSUME NEW e \in Editor, OpenEdit(e) PROVE FormsAddUp'
  BY <1>0, <1>4 DEF OpenEdit, EditGoto, EditInv
<1>5. ASSUME NEW e \in Editor, NEW t \in Tier, LoadTier(e, t) PROVE FormsAddUp'
  <2>1. /\ quantity[t] \in 1..MaxQuantity /\ remaining[t] \in 0..quantity[t]
        /\ tierStatus[t] = "sold_out" <=> remaining[t] = 0
    BY DEF EditInv, StockInRange, TierStatusTruthful, EditTypeOK, TypeOK
  <2>2. \A d \in Editor \ {e} : form'[d] = form[d] /\ editPc'[d] = editPc[d]
    BY <1>0, <1>5, LoadTierForm DEF LoadTier, EditGoto
  <2>3. /\ form'[e].quantity = quantity[t] /\ form'[e].remaining = remaining[t]
        /\ form'[e].status = tierStatus[t] /\ form'[e].sold = quantity[t] - remaining[t]
    BY <1>5, LoadTierForm
  <2>4. QED BY <2>1, <2>2, <2>3 DEF EditInv
<1>6. ASSUME NEW e \in Editor, KeepQuantity(e) PROVE FormsAddUp'
  BY <1>0, <1>6 DEF KeepQuantity, EditGoto, EditInv
<1>7. ASSUME NEW e \in Editor, NEW q \in 1..MaxQuantity, Resize(e, q) PROVE FormsAddUp'
  <2>1. form[e].sold \in Nat /\ form[e].sold <= q /\ q \in Nat
    BY <1>0, <1>7, SizesAssumption DEF Resize, FitsSoldAndCapacity, EditInv, Form
  <2>2. \A d \in Editor \ {e} : form'[d] = form[d] /\ editPc'[d] = editPc[d]
    BY <1>0, <1>7, ResizeForm DEF Resize, EditGoto
  <2>3. /\ form'[e].quantity = q
        /\ form'[e].remaining = q - form[e].sold
        /\ form'[e].status = IF q - form[e].sold > 0 THEN "available" ELSE "sold_out"
        /\ form'[e].sold = form[e].sold
    BY <1>7, ResizeForm
  <2>4. QED BY <2>1, <2>2, <2>3 DEF EditInv
<1>8. ASSUME NEW e \in Editor, SaveTier(e) PROVE FormsAddUp'
  <2>1. CASE EditEnds(e)
    BY <1>3, <2>1
  <2>2. CASE EditGoto(e, "saved") /\ UNCHANGED form
    BY <1>0, <2>2 DEF EditGoto, EditInv
  <2>3. QED BY <1>8, <2>1, <2>2 DEF SaveTier
<1>9. QED
  BY <1>1, <1>2, <1>3, <1>4, <1>5, <1>6, <1>7, <1>8
  DEF EditNext, RestoreEvent, AbandonEdit, RefuseResize

\* The whole-row UPDATE waits for the row's lock and writes a good copy.
LEMMA SavesKeepStock ==
  ASSUME EditTypeOK, EditInv, NEW e \in Editor, SaveTier(e)
  PROVE  StockInRange' /\ TierStatusTruthful' /\ RowLocksExclusive' /\ LockedRowsHold'
<1>1. /\ form[e].quantity \in 1..MaxQuantity /\ form[e].remaining \in 0..form[e].quantity
      /\ form[e].status = "sold_out" <=> form[e].remaining = 0
      /\ form[e].status \in {"available", "sold_out"} /\ form[e].tier \in Tier
  BY DEF SaveTier, EditInv, FormsAddUp, EditTypeOK, Form
<1>2. TypeOK /\ UNCHANGED <<eventVars, orderVars, txVars, cancelVars>>
  BY DEF SaveTier, EditTypeOK
<1>3. StockInRange' /\ TierStatusTruthful'
  BY <1>1, <1>2 DEF SaveTier, EditInv, StockInRange, TierStatusTruthful, TypeOK
<1>4. RowLocksExclusive'
  BY <1>2 DEF EditInv, RowLocksExclusive, HoldsTier, HoldsEvent, HoldsPurchase,
     orderVars, txVars, cancelVars
<1>5. LockedRowsHold'
  <2>1. \A p \in Purchase : HoldsTier(p) => tierOf[p] # form[e].tier
    BY DEF SaveTier, TierLocked
  <2>2. QED
    BY <1>2, <2>1 DEF SaveTier, EditInv, LockedRowsHold, HoldsTier, SaleSteps, TypeOK,
       eventVars, orderVars, txVars
<1>6. QED BY <1>3, <1>4, <1>5

\* Reopening the event waits for whoever has its row.
LEMMA RestoresKeepLocks ==
  ASSUME EditTypeOK, EditInv, NEW e \in Editor, RestoreEvent(e)
  PROVE  StockInRange' /\ TierStatusTruthful' /\ RowLocksExclusive' /\ LockedRowsHold'
<1>1. UNCHANGED <<tierVars, orderVars, txVars, cancelVars>>
  BY DEF RestoreEvent
<1>2. StockInRange' /\ TierStatusTruthful' /\ RowLocksExclusive'
  BY <1>1 DEF EditInv, StockInRange, TierStatusTruthful, RowLocksExclusive, HoldsTier,
     HoldsEvent, HoldsPurchase, tierVars, orderVars, txVars, cancelVars
<1>3. LockedRowsHold'
  BY <1>1 DEF RestoreEvent, EventLocked, HoldsEvent, EditInv, LockedRowsHold,
     tierVars, orderVars, txVars
<1>4. QED BY <1>2, <1>3

\* A cancellation whose restoration is refused lets its locks go.
LEMMA RejectsKeepLocks ==
  ASSUME EditTypeOK, EditInv, NEW p \in Purchase, RejectRestore(p)
  PROVE  StockInRange' /\ TierStatusTruthful' /\ RowLocksExclusive' /\ LockedRowsHold'
<1>1. UNCHANGED <<eventVars, tierVars, orderVars, cancelVars>> /\ TypeOK
      /\ pc' = [pc EXCEPT ![p] = "ended"]
  BY DEF RejectRestore, EditTypeOK, Goto
<1>2. StockInRange' /\ TierStatusTruthful'
  BY <1>1 DEF EditInv, StockInRange, TierStatusTruthful, tierVars
<1>3. RowLocksExclusive'
  BY <1>1 DEF EditInv, RowLocksExclusive, HoldsTier, HoldsEvent, HoldsPurchase,
     SaleSteps, CancelSteps, TypeOK, orderVars, cancelVars
<1>4. LockedRowsHold'
  BY <1>1 DEF EditInv, LockedRowsHold, TypeOK, eventVars, tierVars, orderVars
<1>5. QED BY <1>2, <1>3, <1>4

\* The steps of a request that write no row.
LEMMA QuietEdits ==
  ASSUME EditInv, UNCHANGED vars
  PROVE  StockInRange' /\ TierStatusTruthful' /\ RowLocksExclusive' /\ LockedRowsHold'
BY DEF EditInv, StockInRange, TierStatusTruthful, RowLocksExclusive, LockedRowsHold,
   HoldsTier, HoldsEvent, HoldsPurchase, vars, eventVars, tierVars, orderVars, txVars,
   cancelVars

\* Every step keeps the invariant.
LEMMA EditStepInv ==
  ASSUME EditTypeOK, EditInv, EditNext
  PROVE  EditInv'
<1> DEFINE Kept == StockInRange' /\ TierStatusTruthful' /\ RowLocksExclusive' /\ LockedRowsHold'
<1>1. ASSUME Next PROVE Kept
  <2>1. TypeOK /\ StockInRange /\ TierStatusTruthful /\ RowLocksExclusive /\ LockedRowsHold
    BY DEF EditTypeOK, EditInv
  <2>2. QED BY <1>1, <2>1, CommitsKeepStock, CommitsKeepLockedRows, StepLocks
<1>2. ASSUME NEW p \in Purchase, RejectRestore(p) PROVE Kept
  BY <1>2, RejectsKeepLocks
<1>3. ASSUME NEW e \in Editor, SaveTier(e) PROVE Kept
  BY <1>3, SavesKeepStock
<1>4. ASSUME NEW e \in Editor, RestoreEvent(e) PROVE Kept
  BY <1>4, RestoresKeepLocks
<1>5. ASSUME UNCHANGED vars PROVE Kept
  BY <1>5, QuietEdits
<1>6. Kept
  <2> HIDE DEF Kept
  <2>1. QED
    BY <1>1, <1>2, <1>3, <1>4, <1>5
    DEF EditNext, OpenEdit, LoadTier, KeepQuantity, Resize, RefuseResize, AbandonEdit
<1>7. QED BY <1>6, CopiesAddUp DEF EditInv

\* The invariant holds before the first edit and the first sale.
LEMMA EditInitOK == EditInit => EditTypeOK /\ EditInv
<1> SUFFICES ASSUME EditInit PROVE EditTypeOK /\ EditInv
  OBVIOUS
<1>1. Init
  BY DEF EditInit
<1>2. EditTypeOK
  BY <1>1, InitTypeOK, BlankIsForm DEF EditInit, EditTypeOK, EditSteps
<1>3. StockInRange /\ TierStatusTruthful
  BY <1>1, SizesAssumption DEF Init, StockInRange, TierStatusTruthful
<1>4. RowLocksExclusive
  BY <1>1, InitSeatInv DEF SeatInv
<1>5. LockedRowsHold
  BY <1>1 DEF Init, LockedRowsHold
<1>6. FormsAddUp
  BY DEF EditInit, FormsAddUp
<1>7. QED BY <1>2, <1>3, <1>4, <1>5, <1>6 DEF EditInv

\* Rows, copies and locks stay in order through every mix of edits, sales,
\* returns, cancellations of the event and failures.
LEMMA EditInductive == EditSpec => [](EditTypeOK /\ EditInv)
<1>1. EditTypeOK /\ EditInv /\ [EditNext]_allVars => (EditTypeOK /\ EditInv)'
  <2> SUFFICES ASSUME EditTypeOK, EditInv, [EditNext]_allVars PROVE (EditTypeOK /\ EditInv)'
    OBVIOUS
  <2>1. CASE EditNext
    BY <2>1, EditStepTypeOK, EditStepInv DEF EditInv
  <2>2. CASE UNCHANGED allVars
    <3>1. UNCHANGED vars /\ UNCHANGED <<editPc, form>>
      BY <2>2 DEF allVars, editVars
    <3>2. EditTypeOK'
      BY <3>1, NextTypeOK DEF EditTypeOK
    <3>3. EditInv'
      BY <3>1, QuietEdits DEF EditInv, FormsAddUp
    <3>4. QED BY <3>2, <3>3
  <2>3. QED BY <2>1, <2>2
<1>2. QED BY <1>1, EditInitOK, PTL DEF EditSpec

-----------------------------------------------------------------------------
(***************************************************************************)
(* What the runs check.                                                    *)
(***************************************************************************)

\* Rows and the requests' copies hold values of their types: an edit never leaves a
\* tier with a quantity of 0.
THEOREM EditTypes == EditSpec => []EditTypeOK
  BY EditInductive, PTL

\* With any number of concurrent edits a tier's stock stays between 0 and its
\* quantity and its status says whether it has any.
THEOREM EditInvariant == EditSpec => []EditInv
  BY EditInductive, PTL

\* An edit that nothing has overtaken leaves the count of sold seats right.
THEOREM TimelyEdits == EditSpec => TimelyEditKeepsSold
<1> DEFINE Keeps == \A e \in Editor :
      LET t == form[e].tier IN
      SaveTier(e) /\ form[e].sold = Cardinality(SoldSeats(t)) /\ eventStatus # "cancelled" =>
        quantity'[t] - remaining'[t] = Cardinality(SoldSeats(t))
<1>1. EditTypeOK /\ EditInv /\ [EditNext]_allVars => [Keeps]_allVars
  <2> SUFFICES ASSUME EditTypeOK, EditInv, NEW e \in Editor, SaveTier(e),
                      form[e].sold = Cardinality(SoldSeats(form[e].tier))
               PROVE  quantity'[form[e].tier] - remaining'[form[e].tier] = form[e].sold
    OBVIOUS
  <2>1. form[e].tier \in Tier /\ form[e].sold = form[e].quantity - form[e].remaining
    BY DEF SaveTier, EditInv, FormsAddUp, EditTypeOK, Form
  <2>2. QED BY <2>1 DEF SaveTier, EditTypeOK, TypeOK
<1>2. QED BY <1>1, EditInductive, PTL DEF EditSpec, TimelyEditKeepsSold

\* updateTier adds one transition, and it is one the lifecycle has: its SetStatus
\* expects sold_out.
THEOREM EditsKeepLifecycle == EditSpec => EventLifecycle
<1>1. EditTypeOK /\ EditInv /\ [EditNext]_allVars =>
        [(<<eventStatus, eventStatus'>>) \in LegalTransition]_eventStatus
  <2> SUFFICES ASSUME EditTypeOK, EditInv, [EditNext]_allVars, eventStatus' # eventStatus
               PROVE  <<eventStatus, eventStatus'>> \in LegalTransition
    OBVIOUS
  <2>1. EditNext
    BY DEF allVars, vars, eventVars
  <2>2. ASSUME NEW p \in Purchase, CommitSale(p)
        PROVE  eventStatus = "published" /\ eventStatus' = "sold_out"
    BY <2>2 DEF CommitSale, EditInv, LockedRowsHold
  <2>3. ASSUME NEW p \in Purchase, CommitCancellation(p)
        PROVE  eventStatus = "sold_out" /\ eventStatus' = "published"
    BY <2>3 DEF CommitCancellation, EditInv, LockedRowsHold
  <2>4. ~CommitCancelByEvent /\ \A k \in Ticket : ~CheckIn(k)
    BY DEF CommitCancelByEvent, CheckIn, eventVars
  <2>5. CASE Next
    BY <2>2, <2>3, <2>4, <2>5, Writers
    DEF LegalTransition, Publish, EndAllExpired, CancelEvent
  <2>6. ASSUME NEW e \in Editor, RestoreEvent(e)
        PROVE  eventStatus = "sold_out" /\ eventStatus' = "published"
    BY <2>6 DEF RestoreEvent
  <2>7. /\ \A p \in Purchase : ~RejectRestore(p)
        /\ \A e \in Editor : ~SaveTier(e)
    BY DEF RejectRestore, SaveTier, eventVars
  <2>8. UNCHANGED vars => UNCHANGED eventStatus
    BY DEF vars, eventVars
  <2>9. QED
    BY <2>1, <2>5, <2>6, <2>7, <2>8
    DEF LegalTransition, EditNext, OpenEdit, LoadTier, KeepQuantity, Resize, RefuseResize,
        AbandonEdit
<1>2. QED BY <1>1, EditInductive, PTL DEF EditSpec, EventLifecycle

\* No edit, sale or return leaves a tier marked sold out with stock, or on sale
\* without.
THEOREM EditsKeepTierStatus == EditSpec => []TierStatusTruthful
<1>1. EditTypeOK /\ EditInv => TierStatusTruthful
  BY DEF EditInv
<1>2. QED BY <1>1, EditInductive, PTL
=============================================================================
