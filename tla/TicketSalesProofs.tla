------------------------- MODULE TicketSalesProofs -------------------------
(***************************************************************************)
(* Theorems about TicketSales for every set of tiers, every finite set of  *)
(* purchases and every bound, with and without faults.                     *)
(***************************************************************************)
EXTENDS TicketSales, FiniteSetTheorems, TLAPS

-----------------------------------------------------------------------------
(***************************************************************************)
(* Types.                                                                  *)
(***************************************************************************)

\* The rows of a fresh event have their types.
LEMMA InitTypeOK == Init => TypeOK
  BY SizesAssumption
  DEF Init, TypeOK, EventStatus, Clock, Steps, CancelEventSteps, Ticket

\* Every step of a sale writes rows of their types.
LEMMA SaleTypeOK ==
  ASSUME TypeOK, NEW p \in Purchase,
         RequestPurchase(p) \/ SaleStep(p) \/ RollbackSale(p)
  PROVE  TypeOK'
<1> USE DEF TypeOK, EventStatus, Clock, Steps, SaleSteps, CancelSteps,
            CancelEventSteps, Ticket, Goto,
            eventVars, tierVars, orderVars, cancelVars
<1>1. CASE RequestPurchase(p)  BY <1>1 DEF RequestPurchase
<1>2. CASE LockTier(p)         BY <1>2 DEF LockTier
<1>3. CASE RefuseSale(p)       BY <1>3 DEF RefuseSale
<1>4. CASE TakeSeats(p)        BY <1>4 DEF TakeSeats
<1>5. CASE CheckStock(p)       BY <1>5 DEF CheckStock
<1>6. CASE SellOutEvent(p)     BY <1>6 DEF SellOutEvent
<1>7. CASE CommitSale(p)       BY <1>7, SizesAssumption DEF CommitSale
<1>8. CASE RollbackSale(p)     BY <1>8 DEF RollbackSale
<1>9. QED
  BY <1>1, <1>2, <1>3, <1>4, <1>5, <1>6, <1>7, <1>8 DEF SaleStep

\* Every step of a buyer's cancellation writes rows of their types.
LEMMA CancellationTypeOK ==
  ASSUME TypeOK, NEW p \in Purchase,
         \/ LockPurchase(p) \/ CancellationStep(p)
         \/ RollbackCancellation(p) \/ LosePromotion(p)
  PROVE  TypeOK'
<1> USE DEF TypeOK, EventStatus, Clock, Steps, SaleSteps, CancelSteps,
            CancelEventSteps, Ticket, Goto,
            eventVars, tierVars, orderVars, cancelVars
<1>1. CASE LockPurchase(p)         BY <1>1 DEF LockPurchase
<1>2. CASE JudgeCancellation(p)    BY <1>2 DEF JudgeCancellation
<1>3. CASE RefuseCancellation(p)   BY <1>3 DEF RefuseCancellation
<1>4. CASE VoidTickets(p)          BY <1>4 DEF VoidTickets
<1>5. CASE RestoreStock(p)         BY <1>5 DEF RestoreStock
<1>6. CASE ReopenEvent(p)          BY <1>6 DEF ReopenEvent
<1>7. CASE CommitCancellation(p)   BY <1>7, SizesAssumption DEF CommitCancellation
<1>8. CASE EnqueuePromotion(p)     BY <1>8 DEF EnqueuePromotion
<1>9. CASE RollbackCancellation(p) BY <1>9 DEF RollbackCancellation
<1>10. CASE LosePromotion(p)       BY <1>10 DEF LosePromotion
<1>11. QED
  BY <1>1, <1>2, <1>3, <1>4, <1>5, <1>6, <1>7, <1>8, <1>9, <1>10 DEF CancellationStep

\* Every step of the organizer, the scheduler, the door and the clock writes
\* rows of their types.
LEMMA EventTypeOK ==
  ASSUME TypeOK,
         \/ \E k \in Ticket : CheckIn(k)
         \/ Publish \/ EndAllExpired \/ MoveClock
         \/ CancelEvent \/ SweepStep \/ FailCancelByEvent \/ CrashCancelEvent
  PROVE  TypeOK'
<1> USE DEF TypeOK, EventStatus, Clock, Steps, CancelEventSteps, Ticket, Confirmed,
            eventVars, tierVars, orderVars, txVars, cancelVars
<1>1. ASSUME NEW k \in Ticket, CheckIn(k) PROVE TypeOK'
  BY <1>1 DEF CheckIn
<1>2. CASE Publish             BY <1>2 DEF Publish
<1>3. CASE EndAllExpired       BY <1>3 DEF EndAllExpired
<1>4. CASE MoveClock           BY <1>4 DEF MoveClock
<1>5. CASE CancelEvent         BY <1>5 DEF CancelEvent
<1>6. CASE ListBuyers          BY <1>6, BuyerAssumption DEF ListBuyers, Confirmed
<1>7. CASE FlipPurchases       BY <1>7 DEF FlipPurchases
<1>8. CASE FlipTickets         BY <1>8 DEF FlipTickets
<1>9. CASE CommitCancelByEvent BY <1>9 DEF CommitCancelByEvent
<1>10. CASE FailCancelByEvent  BY <1>10 DEF FailCancelByEvent
<1>11. CASE ClearWaitlist      BY <1>11 DEF ClearWaitlist
<1>12. CASE NotifyBuyers       BY <1>12 DEF NotifyBuyers
<1>13. CASE CrashCancelEvent   BY <1>13 DEF CrashCancelEvent
<1>14. QED
  BY <1>1, <1>2, <1>3, <1>4, <1>5, <1>6, <1>7, <1>8, <1>9, <1>10, <1>11,
     <1>12, <1>13 DEF SweepStep

\* No step, of whichever actor, leaves the types.
LEMMA NextTypeOK == TypeOK /\ [Next]_vars => TypeOK'
<1> SUFFICES ASSUME TypeOK, [Next]_vars PROVE TypeOK'
  OBVIOUS
<1>1. CASE UNCHANGED vars
  BY <1>1 DEF TypeOK, vars, eventVars, tierVars, orderVars, txVars, cancelVars
<1>2. CASE Next
  BY <1>2, SaleTypeOK, CancellationTypeOK, EventTypeOK DEF Next
<1>3. QED BY <1>1, <1>2

\* Every row and every local variable of the transactions keeps its type.
THEOREM TypeCorrect == Spec => []TypeOK
  BY InitTypeOK, NextTypeOK, PTL DEF Spec

-----------------------------------------------------------------------------
(***************************************************************************)
(* Row locks, and what open transactions rely on.                          *)
(***************************************************************************)

\* A row lock is taken only when no other transaction has it.
LEMMA StepLocks ==
  ASSUME TypeOK, RowLocksExclusive, Next
  PROVE  RowLocksExclusive'
<1> USE DEF RowLocksExclusive, HoldsTier, HoldsEvent, HoldsPurchase, TypeOK,
            SaleSteps, CancelSteps, Goto
<1> DEFINE RowsKept == UNCHANGED <<tierOf, cancelPc, doomed>>
<1>1. ASSUME NEW p \in Purchase,
             RequestPurchase(p) \/ SaleStep(p) \/ RollbackSale(p)
      PROVE  RowLocksExclusive'
  <2>1. RowsKept
    BY <1>1 DEF RequestPurchase, SaleStep, LockTier, RefuseSale, TakeSeats, CheckStock,
                SellOutEvent, CommitSale, RollbackSale, orderVars, cancelVars
  <2> USE <2>1
  <2>2. CASE RequestPurchase(p)  BY <2>2 DEF RequestPurchase
  <2>3. CASE LockTier(p)         BY <2>3 DEF LockTier, TierLocked
  <2>4. CASE RefuseSale(p)       BY <2>4 DEF RefuseSale
  <2>5. CASE TakeSeats(p)        BY <2>5 DEF TakeSeats
  <2>6. CASE CheckStock(p)       BY <2>6 DEF CheckStock
  <2>7. CASE SellOutEvent(p)     BY <2>7 DEF SellOutEvent, EventLocked
  <2>8. CASE CommitSale(p)       BY <2>8 DEF CommitSale
  <2>9. CASE RollbackSale(p)     BY <2>9 DEF RollbackSale
  <2>10. QED
    BY <1>1, <2>2, <2>3, <2>4, <2>5, <2>6, <2>7, <2>8, <2>9 DEF SaleStep
<1>2. ASSUME NEW p \in Purchase,
             \/ LockPurchase(p) \/ CancellationStep(p)
             \/ RollbackCancellation(p) \/ LosePromotion(p)
      PROVE  RowLocksExclusive'
  <2>1. RowsKept
    BY <1>2 DEF LockPurchase, CancellationStep, JudgeCancellation, RefuseCancellation,
                VoidTickets, RestoreStock, ReopenEvent, CommitCancellation, EnqueuePromotion,
                RollbackCancellation, LosePromotion, orderVars, cancelVars
  <2> USE <2>1
  <2>2. CASE LockPurchase(p)         BY <2>2 DEF LockPurchase, SweepHolds
  <2>3. CASE JudgeCancellation(p)    BY <2>3 DEF JudgeCancellation
  <2>4. CASE RefuseCancellation(p)   BY <2>4 DEF RefuseCancellation
  <2>5. CASE VoidTickets(p)          BY <2>5 DEF VoidTickets
  <2>6. CASE RestoreStock(p)         BY <2>6 DEF RestoreStock, TierLocked
  <2>7. CASE ReopenEvent(p)          BY <2>7 DEF ReopenEvent, EventLocked
  <2>8. CASE CommitCancellation(p)   BY <2>8 DEF CommitCancellation
  <2>9. CASE EnqueuePromotion(p)     BY <2>9 DEF EnqueuePromotion
  <2>10. CASE RollbackCancellation(p) BY <2>10 DEF RollbackCancellation
  <2>11. CASE LosePromotion(p)       BY <2>11 DEF LosePromotion
  <2>12. QED
    BY <1>2, <2>2, <2>3, <2>4, <2>5, <2>6, <2>7, <2>8, <2>9, <2>10, <2>11 DEF CancellationStep
<1>3. ASSUME \/ \E k \in Ticket : CheckIn(k)
             \/ Publish \/ EndAllExpired \/ MoveClock
      PROVE  RowLocksExclusive'
  <2>1. UNCHANGED <<tierOf, pc, cancelPc, doomed>>
    BY <1>3 DEF CheckIn, Publish, EndAllExpired, MoveClock, orderVars, txVars, cancelVars
  <2>2. QED BY <2>1
<1>4. ASSUME CancelEvent \/ SweepStep \/ FailCancelByEvent \/ CrashCancelEvent
      PROVE  RowLocksExclusive'
  <2>1. UNCHANGED <<tierOf, pc>>
    BY <1>4 DEF CancelEvent, SweepStep, ListBuyers, FlipPurchases, FlipTickets,
                CommitCancelByEvent, ClearWaitlist, NotifyBuyers, FailCancelByEvent,
                CrashCancelEvent, orderVars, txVars
  <2>2. cancelPc' = "tickets" => \A p \in doomed' : ~HoldsPurchase(p)
    BY <1>4 DEF CancelEvent, SweepStep, ListBuyers, FlipPurchases, FlipTickets,
                CommitCancelByEvent, ClearWaitlist, NotifyBuyers, FailCancelByEvent,
                CrashCancelEvent
  <2>3. QED BY <2>1, <2>2
<1>5. QED BY <1>1, <1>2, <1>3, <1>4 DEF Next

\* Nobody changes what an open transaction relies on.
LEMMA StepOpenRequests ==
  ASSUME TypeOK, SeatInv, Next
  PROVE  OpenRequestsHold'
<1> USE DEF OpenRequestsHold, SaleDecided, TypeOK, SaleSteps, CancelSteps, Goto, SeatInv
<1>1. ASSUME NEW p \in Purchase,
             RequestPurchase(p) \/ SaleStep(p) \/ RollbackSale(p)
      PROVE  OpenRequestsHold'
  <2>1. CASE RequestPurchase(p)
    BY <2>1 DEF RequestPurchase, eventVars, tierVars, orderVars
  <2>2. CASE LockTier(p)
    BY <2>2 DEF LockTier, eventVars, tierVars, orderVars
  <2>3. CASE RefuseSale(p)
    BY <2>3 DEF RefuseSale, eventVars, tierVars, orderVars
  <2>4. CASE TakeSeats(p)
    BY <2>4 DEF TakeSeats, Sellable, eventVars, tierVars, orderVars
  <2>5. CASE CheckStock(p)
    BY <2>5 DEF CheckStock, eventVars, tierVars, orderVars
  <2>6. CASE SellOutEvent(p)
    BY <2>6 DEF SellOutEvent, eventVars, tierVars, orderVars
  <2>7. CASE CommitSale(p)
    <3>1. \A q \in Purchase \ {p} : HoldsTier(q) => tierOf[q] # tierOf[p]
      BY <2>7 DEF CommitSale, RowLocksExclusive, HoldsTier
    <3>2. \A q \in Purchase \ {p} : pc[p] = "flips" => ~HoldsEvent(q)
      BY <2>7 DEF CommitSale, RowLocksExclusive, HoldsEvent
    <3>3. QED BY <2>7, <3>1, <3>2 DEF CommitSale, HoldsTier, HoldsEvent
  <2>8. CASE RollbackSale(p)
    BY <2>8 DEF RollbackSale, eventVars, tierVars, orderVars
  <2>9. QED
    BY <1>1, <2>1, <2>2, <2>3, <2>4, <2>5, <2>6, <2>7, <2>8 DEF SaleStep
<1>2. ASSUME NEW p \in Purchase,
             \/ LockPurchase(p) \/ CancellationStep(p)
             \/ RollbackCancellation(p) \/ LosePromotion(p)
      PROVE  OpenRequestsHold'
  <2>1. CASE LockPurchase(p)
    BY <2>1 DEF LockPurchase, eventVars, tierVars, orderVars
  <2>2. CASE JudgeCancellation(p)
    BY <2>2 DEF JudgeCancellation, eventVars, tierVars, orderVars
  <2>3. CASE RefuseCancellation(p)
    BY <2>3 DEF RefuseCancellation, eventVars, tierVars, orderVars
  <2>4. CASE VoidTickets(p)
    BY <2>4 DEF VoidTickets, eventVars, tierVars, orderVars
  <2>5. CASE RestoreStock(p)
    BY <2>5 DEF RestoreStock, eventVars, tierVars, orderVars
  <2>6. CASE ReopenEvent(p)
    BY <2>6 DEF ReopenEvent, eventVars, tierVars, orderVars
  <2>7. CASE CommitCancellation(p)
    <3>1. \A q \in Purchase \ {p} : HoldsTier(q) => tierOf[q] # tierOf[p]
      BY <2>7 DEF CommitCancellation, RowLocksExclusive, HoldsTier
    <3>2. \A q \in Purchase \ {p} : pc[p] = "reopens" => ~HoldsEvent(q)
      BY <2>7 DEF CommitCancellation, RowLocksExclusive, HoldsEvent
    <3>3. QED BY <2>7, <3>1, <3>2 DEF CommitCancellation, HoldsTier, HoldsEvent
  <2>8. CASE EnqueuePromotion(p)
    BY <2>8 DEF EnqueuePromotion, eventVars, tierVars, orderVars
  <2>9. CASE RollbackCancellation(p)
    BY <2>9 DEF RollbackCancellation, eventVars, tierVars, orderVars
  <2>10. CASE LosePromotion(p)
    BY <2>10 DEF LosePromotion, eventVars, tierVars, orderVars
  <2>11. QED
    BY <1>2, <2>1, <2>2, <2>3, <2>4, <2>5, <2>6, <2>7, <2>8, <2>9, <2>10 DEF CancellationStep
<1>3. ASSUME NEW k \in Ticket, CheckIn(k) PROVE OpenRequestsHold'
  BY <1>3 DEF CheckIn, eventVars, tierVars, txVars
<1>4. CASE Publish
  BY <1>4 DEF Publish, tierVars, orderVars, txVars
<1>5. CASE EndAllExpired
  BY <1>5 DEF EndAllExpired, EventLocked, HoldsEvent, tierVars, orderVars, txVars
<1>6. CASE MoveClock
  BY <1>6 DEF MoveClock, tierVars, orderVars, txVars
<1>7. CASE CancelEvent
  BY <1>7 DEF CancelEvent, EventLocked, HoldsEvent, tierVars, orderVars, txVars
<1>8. CASE CommitCancelByEvent
  <2>1. \A p \in doomed : pc[p] \notin CancelSteps
    BY <1>8 DEF CommitCancelByEvent, RowLocksExclusive, HoldsPurchase
  <2>2. QED BY <1>8, <2>1 DEF CommitCancelByEvent, eventVars, tierVars, txVars
<1>9. CASE \/ ListBuyers \/ FlipPurchases \/ FlipTickets \/ ClearWaitlist \/ NotifyBuyers
           \/ FailCancelByEvent \/ CrashCancelEvent
  BY <1>9 DEF ListBuyers, FlipPurchases, FlipTickets, ClearWaitlist, NotifyBuyers,
              FailCancelByEvent, CrashCancelEvent, eventVars, tierVars, orderVars, txVars
<1>10. QED
  BY <1>1, <1>2, <1>3, <1>4, <1>5, <1>6, <1>7, <1>8, <1>9 DEF Next, SweepStep

\* Between its statements CancelByEvent's matches stay what SweepSound says.
LEMMA StepSweep ==
  ASSUME TypeOK, SeatInv, Next
  PROVE  SweepSound'
<1> USE DEF SweepSound, TypeOK, SeatInv
<1>1. ASSUME NEW p \in Purchase,
             \/ RequestPurchase(p) \/ SaleStep(p) \/ RollbackSale(p)
             \/ LockPurchase(p) \/ CancellationStep(p)
             \/ RollbackCancellation(p) \/ LosePromotion(p)
      PROVE  SweepSound'
  <2>1. UNCHANGED cancelVars
    BY <1>1 DEF RequestPurchase, SaleStep, LockTier, RefuseSale, TakeSeats, CheckStock,
                SellOutEvent, CommitSale, RollbackSale, LockPurchase, CancellationStep,
                JudgeCancellation, RefuseCancellation, VoidTickets, RestoreStock, ReopenEvent,
                CommitCancellation, EnqueuePromotion, RollbackCancellation, LosePromotion
  <2>2. /\ eventStatus = "cancelled" => eventStatus' = "cancelled"
        /\ \A q \in Purchase : purchase[q] # "none" => purchase'[q] # "none"
    <3>1. CASE CommitSale(p)
      BY <3>1 DEF CommitSale, OpenRequestsHold
    <3>2. CASE CommitCancellation(p)
      BY <3>2 DEF CommitCancellation, OpenRequestsHold
    <3>3. CASE ~CommitSale(p) /\ ~CommitCancellation(p)
      BY <1>1, <3>3
      DEF RequestPurchase, SaleStep, LockTier, RefuseSale, TakeSeats, CheckStock,
          SellOutEvent, RollbackSale, LockPurchase, CancellationStep,
          JudgeCancellation, RefuseCancellation, VoidTickets, RestoreStock, ReopenEvent,
          EnqueuePromotion, RollbackCancellation, LosePromotion, eventVars, orderVars
    <3>4. QED BY <3>1, <3>2, <3>3
  <2>3. QED BY <2>1, <2>2 DEF cancelVars
<1>2. ASSUME NEW k \in Ticket, CheckIn(k) PROVE SweepSound'
  BY <1>2 DEF CheckIn, eventVars, cancelVars
<1>3. CASE Publish        BY <1>3 DEF Publish, orderVars, cancelVars
<1>4. CASE EndAllExpired  BY <1>4 DEF EndAllExpired, orderVars, cancelVars
<1>5. CASE MoveClock      BY <1>5 DEF MoveClock, orderVars, cancelVars
<1>6. CASE CancelEvent    BY <1>6 DEF CancelEvent, orderVars
<1>7. CASE ListBuyers     BY <1>7 DEF ListBuyers, eventVars, orderVars
<1>8. CASE FlipPurchases  BY <1>8 DEF FlipPurchases, Confirmed, eventVars, orderVars
<1>9. CASE FlipTickets    BY <1>9 DEF FlipTickets, eventVars, orderVars
<1>10. CASE CommitCancelByEvent
  BY <1>10 DEF CommitCancelByEvent, eventVars
<1>11. CASE ClearWaitlist \/ NotifyBuyers
  BY <1>11 DEF ClearWaitlist, NotifyBuyers, eventVars, orderVars
<1>12. CASE FailCancelByEvent \/ CrashCancelEvent
  BY <1>12 DEF FailCancelByEvent, CrashCancelEvent, eventVars, orderVars
<1>13. QED
  BY <1>1, <1>2, <1>3, <1>4, <1>5, <1>6, <1>7, <1>8, <1>9, <1>10, <1>11, <1>12
  DEF Next, SweepStep

-----------------------------------------------------------------------------
(***************************************************************************)
(* Counting seats.                                                         *)
(***************************************************************************)

\* A purchase has as many tickets as its quantity.
LEMMA TicketsCount ==
  ASSUME TypeOK, NEW p \in Purchase
  PROVE  /\ IsFiniteSet(TicketsOf(p))
         /\ Cardinality(TicketsOf(p)) = qty[p]
         /\ TicketsOf(p) \subseteq Ticket
<1>1. qty[p] \in 1..MaxRequest
  BY DEF TypeOK
<1>2. IsFiniteSet({p}) /\ Cardinality({p}) = 1
  BY FS_Singleton
<1>3. IsFiniteSet(1..qty[p]) /\ Cardinality(1..qty[p]) = qty[p]
  BY <1>1, FS_Interval, SizesAssumption
<1>4. /\ IsFiniteSet({p} \X (1..qty[p]))
      /\ Cardinality({p} \X (1..qty[p])) = 1 * qty[p]
  BY <1>2, <1>3, FS_Product
<1>5. TicketsOf(p) \subseteq Ticket
  BY <1>1, SizesAssumption DEF TicketsOf, Ticket
<1>6. QED
  BY <1>1, <1>4, <1>5 DEF TicketsOf

\* The seats sold of a tier can be counted.
LEMMA SoldSeatsFinite ==
  ASSUME NEW t \in Tier
  PROVE  IsFiniteSet(SoldSeats(t)) /\ Cardinality(SoldSeats(t)) \in Nat
<1>1. IsFiniteSet(1..MaxRequest)
  BY FS_Interval, SizesAssumption
<1>2. IsFiniteSet(Ticket)
  BY <1>1, FS_Product, FiniteAssumption DEF Ticket
<1>3. SoldSeats(t) \in SUBSET Ticket
  BY DEF SoldSeats
<1>4. IsFiniteSet(SoldSeats(t))
  BY <1>2, <1>3, FS_Subset
<1>5. QED
  BY <1>4, FS_CardinalityType

\* A confirmed purchase's tickets are among the sold seats of its tier and of
\* no other; those of another purchase are among no tier's.
LEMMA SoldSeatsOfPurchase ==
  ASSUME TypeOK, NEW p \in Purchase, NEW t \in Tier
  PROVE  /\ purchase[p] = "confirmed" /\ tierOf[p] = t => TicketsOf(p) \subseteq SoldSeats(t)
         /\ purchase[p] # "confirmed" \/ tierOf[p] # t => TicketsOf(p) \cap SoldSeats(t) = {}
<1>1. \A k \in TicketsOf(p) : k \in Ticket /\ k[1] = p
  BY TicketsCount DEF TicketsOf
<1>2. QED
  BY <1>1 DEF SoldSeats, Confirmed

\* Confirming a purchase adds its tickets to what its tier has sold.
LEMMA ConfirmAddsSeats ==
  ASSUME TypeOK, NEW p \in Purchase, purchase[p] = "none",
         purchase' = [purchase EXCEPT ![p] = "confirmed"], UNCHANGED <<tierOf, qty>>,
         NEW t \in Tier
  PROVE  Cardinality(SoldSeats(t))' =
           Cardinality(SoldSeats(t)) + (IF t = tierOf[p] THEN qty[p] ELSE 0)
<1>1. CASE t = tierOf[p]
  <2>1. SoldSeats(t)' = SoldSeats(t) \cup TicketsOf(p)
    <3>1. ASSUME NEW k \in Ticket
          PROVE  k \in SoldSeats(t)' <=> k \in SoldSeats(t) \cup TicketsOf(p)
      <4>1. k[1] \in Purchase /\ k[2] \in 1..MaxRequest /\ k = <<k[1], k[2]>>
        BY DEF Ticket
      <4>2. k \in TicketsOf(p) => k[1] = p
        BY DEF TicketsOf
      <4>3. k[1] \in Confirmed' <=> k[1] \in Confirmed \/ k[1] = p
        BY <4>1 DEF Confirmed, TypeOK
      <4>4. (k \in TicketsOf(k[1]))' <=> k \in TicketsOf(k[1])
        BY DEF TicketsOf
      <4>5. QED
        BY <1>1, <4>1, <4>2, <4>3, <4>4 DEF SoldSeats
    <3>2. SoldSeats(t)' \subseteq Ticket /\ SoldSeats(t) \subseteq Ticket
      BY DEF SoldSeats, Ticket
    <3>3. QED BY <3>1, <3>2, TicketsCount
  <2>2. SoldSeats(t) \cap TicketsOf(p) = {}
    BY SoldSeatsOfPurchase
  <2>3. Cardinality(SoldSeats(t) \cup TicketsOf(p)) =
          Cardinality(SoldSeats(t)) + Cardinality(TicketsOf(p))
            - Cardinality(SoldSeats(t) \cap TicketsOf(p))
    BY SoldSeatsFinite, TicketsCount, FS_Union
  <2>4. qty[p] \in Nat /\ Cardinality(SoldSeats(t)) \in Nat
    BY SizesAssumption, SoldSeatsFinite DEF TypeOK
  <2>5. Cardinality(SoldSeats(t) \cup TicketsOf(p)) = Cardinality(SoldSeats(t)) + qty[p]
    <3>1. Cardinality(SoldSeats(t) \cap TicketsOf(p)) = 0
      BY <2>2, FS_EmptySet
    <3>2. Cardinality(TicketsOf(p)) = qty[p]
      BY TicketsCount
    <3>3. QED BY <2>3, <2>4, <3>1, <3>2
  <2>6. Cardinality(SoldSeats(t))' = Cardinality(SoldSeats(t)')
    OBVIOUS
  <2>7. QED BY <1>1, <2>1, <2>5, <2>6
<1>2. CASE t # tierOf[p]
  <2>1. SoldSeats(t)' = SoldSeats(t)
    <3>1. ASSUME NEW k \in Ticket
          PROVE  k \in SoldSeats(t)' <=> k \in SoldSeats(t)
      <4>1. k[1] \in Purchase
        BY DEF Ticket
      <4>2. tierOf[k[1]] = t => (k[1] \in Confirmed' <=> k[1] \in Confirmed)
        BY <1>2, <4>1 DEF Confirmed, TypeOK
      <4>3. (k \in TicketsOf(k[1]))' <=> k \in TicketsOf(k[1])
        BY DEF TicketsOf
      <4>4. QED
        BY <4>1, <4>2, <4>3 DEF SoldSeats
    <3>2. SoldSeats(t)' \subseteq Ticket /\ SoldSeats(t) \subseteq Ticket
      BY DEF SoldSeats, Ticket
    <3>3. QED BY <3>1, <3>2
  <2>2. QED BY <1>2, <2>1, SoldSeatsFinite
<1>3. QED BY <1>1, <1>2

\* Cancelling a set of confirmed purchases removes exactly their tickets.
LEMMA CancelRemovesSeats ==
  ASSUME TypeOK, NEW P \in SUBSET Confirmed,
         purchase' = [p \in Purchase |-> IF p \in P THEN "cancelled" ELSE purchase[p]],
         UNCHANGED <<tierOf, qty>>, NEW t \in Tier
  PROVE  SoldSeats(t)' = {k \in SoldSeats(t) : k[1] \notin P}
<1>1. ASSUME NEW k \in Ticket
      PROVE  k \in SoldSeats(t)' <=> k \in SoldSeats(t) /\ k[1] \notin P
  <2>1. k[1] \in Purchase
    BY DEF Ticket
  <2>2. k[1] \in Confirmed' <=> k[1] \in Confirmed /\ k[1] \notin P
    BY <2>1 DEF Confirmed
  <2>3. (k \in TicketsOf(k[1]))' <=> k \in TicketsOf(k[1])
    BY DEF TicketsOf
  <2>4. QED BY <2>2, <2>3 DEF SoldSeats
<1>2. SoldSeats(t)' \subseteq Ticket /\ SoldSeats(t) \subseteq Ticket
  BY DEF SoldSeats, Ticket
<1>3. QED BY <1>1, <1>2

\* Cancelling one purchase takes its quantity off what its tier has sold.
LEMMA CancelOneRemovesSeats ==
  ASSUME TypeOK, NEW p \in Purchase, purchase[p] = "confirmed",
         purchase' = [purchase EXCEPT ![p] = "cancelled"], UNCHANGED <<tierOf, qty>>,
         NEW t \in Tier
  PROVE  Cardinality(SoldSeats(t))' =
           Cardinality(SoldSeats(t)) - (IF t = tierOf[p] THEN qty[p] ELSE 0)
<1>1. SoldSeats(t)' = {k \in SoldSeats(t) : k[1] \notin {p}}
  <2>1. {p} \in SUBSET Confirmed
    BY DEF Confirmed
  <2>2. purchase' = [q \in Purchase |-> IF q \in {p} THEN "cancelled" ELSE purchase[q]]
    BY DEF TypeOK
  <2>3. QED BY <2>1, <2>2, CancelRemovesSeats
<1>2. SoldSeats(t)' = SoldSeats(t) \ TicketsOf(p)
  <2>1. ASSUME NEW k \in SoldSeats(t)
        PROVE  k \in TicketsOf(p) <=> k[1] = p
    BY DEF SoldSeats, TicketsOf
  <2>2. QED BY <1>1, <2>1
<1>3. Cardinality(SoldSeats(t) \ TicketsOf(p)) =
        Cardinality(SoldSeats(t)) - Cardinality(SoldSeats(t) \cap TicketsOf(p))
  BY SoldSeatsFinite, FS_Difference
<1>4. Cardinality(SoldSeats(t) \cap TicketsOf(p)) = IF t = tierOf[p] THEN qty[p] ELSE 0
  <2>1. CASE t = tierOf[p]
    <3>1. SoldSeats(t) \cap TicketsOf(p) = TicketsOf(p)
      BY <2>1, SoldSeatsOfPurchase
    <3>2. QED BY <2>1, <3>1, TicketsCount
  <2>2. CASE t # tierOf[p]
    <3>1. SoldSeats(t) \cap TicketsOf(p) = {}
      BY <2>2, SoldSeatsOfPurchase
    <3>2. QED BY <2>2, <3>1, FS_EmptySet
  <2>3. QED BY <2>1, <2>2
<1>5. QED BY <1>2, <1>3, <1>4

\* Rows that no step of this kind touches keep the count of the sold seats.
LEMMA SameSeats ==
  ASSUME UNCHANGED <<purchase, tierOf, qty>>, NEW t \in Tier
  PROVE  SoldSeats(t)' = SoldSeats(t)
BY DEF SoldSeats, Confirmed, TicketsOf

-----------------------------------------------------------------------------
(***************************************************************************)
(* The invariant.                                                          *)
(***************************************************************************)

\* A fresh event has sold nothing and locked nothing.
LEMMA InitSeatInv == Init => SeatInv
<1> SUFFICES ASSUME Init PROVE SeatInv
  OBVIOUS
<1>1. RowLocksExclusive
  BY DEF Init, RowLocksExclusive, HoldsTier, HoldsEvent, HoldsPurchase, SaleSteps, CancelSteps
<1>2. OpenRequestsHold /\ SweepSound
  BY DEF Init, OpenRequestsHold, SweepSound, CancelSteps
<1>3. SeatsConserved
  <2>1. ASSUME NEW t \in Tier
        PROVE  SoldSeats(t) = {} /\ remaining[t] = quantity[t] /\ quantity[t] \in Nat
    <3>1. Confirmed = {}
      BY DEF Init, Confirmed
    <3>2. QED BY <3>1, SizesAssumption DEF Init, SoldSeats
  <2>2. QED BY <2>1, FS_EmptySet DEF SeatsConserved
<1>4. TierStatusTruthful
  BY SizesAssumption DEF Init, TierStatusTruthful
<1>5. QED BY <1>1, <1>2, <1>3, <1>4 DEF SeatInv

\* A committed sale takes from the tier what it adds to the sold seats.
LEMMA CommitSaleConserves ==
  ASSUME TypeOK, SeatInv, NEW p \in Purchase, CommitSale(p)
  PROVE  SeatsConserved' /\ TierStatusTruthful'
<1> DEFINE taken(t) == IF t = tierOf[p] THEN qty[p] ELSE 0
<1>1. SaleDecided(p)
  BY DEF CommitSale, SeatInv, OpenRequestsHold
<1>2. \A t \in Tier : /\ remaining[t] \in Int /\ remaining'[t] = remaining[t] - taken(t)
                      /\ taken(t) \in Nat
  BY SizesAssumption DEF CommitSale, TypeOK
<1>3. \A t \in Tier : Cardinality(SoldSeats(t))' = Cardinality(SoldSeats(t)) + taken(t)
  BY <1>1, ConfirmAddsSeats DEF CommitSale, SaleDecided
<1>4. quantity' = quantity /\ (eventStatus' # "cancelled" => eventStatus # "cancelled")
  BY DEF CommitSale, SeatInv, OpenRequestsHold
<1>5. SeatsConserved'
  <2>1. ASSUME NEW t \in Tier
        PROVE  /\ remaining'[t] >= 0
               /\ remaining'[t] + Cardinality(SoldSeats(t))' <= quantity'[t]
               /\ eventStatus' # "cancelled" =>
                    remaining'[t] + Cardinality(SoldSeats(t))' = quantity'[t]
    <3>1. remaining[t] - taken(t) >= 0
      BY <1>1, <1>2 DEF SaleDecided, SeatInv, SeatsConserved
    <3>2. Cardinality(SoldSeats(t)) \in Nat
      BY SoldSeatsFinite
    <3>3. quantity[t] \in Int
      BY DEF TypeOK
    <3>4. /\ remaining[t] + Cardinality(SoldSeats(t)) <= quantity[t]
          /\ eventStatus # "cancelled" =>
                remaining[t] + Cardinality(SoldSeats(t)) = quantity[t]
      BY DEF SeatInv, SeatsConserved
    <3>5. /\ remaining'[t] = remaining[t] - taken(t)
          /\ remaining[t] \in Int /\ taken(t) \in Int
          /\ Cardinality(SoldSeats(t))' = Cardinality(SoldSeats(t)) + taken(t)
      BY <1>2, <1>3
    <3>6. QED BY <1>4, <3>1, <3>2, <3>3, <3>4, <3>5
  <2>2. QED BY <2>1 DEF SeatsConserved
<1>6. TierStatusTruthful'
  BY DEF CommitSale, SeatInv, TierStatusTruthful, TypeOK
<1>7. QED BY <1>5, <1>6

\* A committed cancellation gives back what it takes off the sold seats.
LEMMA CommitCancellationConserves ==
  ASSUME TypeOK, SeatInv, NEW p \in Purchase, CommitCancellation(p)
  PROVE  SeatsConserved' /\ TierStatusTruthful'
<1> DEFINE given(t) == IF t = tierOf[p] THEN qty[p] ELSE 0
<1>1. purchase[p] = "confirmed"
  BY DEF CommitCancellation, SeatInv, OpenRequestsHold, CancelSteps
<1>2. \A t \in Tier : /\ remaining[t] \in Int /\ remaining'[t] = remaining[t] + given(t)
                      /\ given(t) \in Nat
  BY SizesAssumption DEF CommitCancellation, TypeOK
<1>3. \A t \in Tier : Cardinality(SoldSeats(t))' = Cardinality(SoldSeats(t)) - given(t)
  BY <1>1, CancelOneRemovesSeats DEF CommitCancellation
<1>4. quantity' = quantity /\ (eventStatus' # "cancelled" => eventStatus # "cancelled")
  BY DEF CommitCancellation, SeatInv, OpenRequestsHold
<1>5. SeatsConserved'
  <2>1. ASSUME NEW t \in Tier
        PROVE  /\ remaining'[t] >= 0
               /\ remaining'[t] + Cardinality(SoldSeats(t))' <= quantity'[t]
               /\ eventStatus' # "cancelled" =>
                    remaining'[t] + Cardinality(SoldSeats(t))' = quantity'[t]
    <3>1. Cardinality(SoldSeats(t)) \in Nat /\ quantity[t] \in Int
      BY SoldSeatsFinite DEF TypeOK
    <3>2. /\ remaining[t] >= 0
          /\ remaining[t] + Cardinality(SoldSeats(t)) <= quantity[t]
          /\ eventStatus # "cancelled" =>
                remaining[t] + Cardinality(SoldSeats(t)) = quantity[t]
      BY DEF SeatInv, SeatsConserved
    <3>3. /\ remaining'[t] = remaining[t] + given(t)
          /\ remaining[t] \in Int /\ given(t) \in Nat
          /\ Cardinality(SoldSeats(t))' = Cardinality(SoldSeats(t)) - given(t)
      BY <1>2, <1>3
    <3>4. QED BY <1>4, <3>1, <3>2, <3>3
  <2>2. QED BY <2>1 DEF SeatsConserved
<1>6. TierStatusTruthful'
  <2>1. remaining'[tierOf[p]] > 0
    <3>1. remaining[tierOf[p]] >= 0 /\ remaining[tierOf[p]] \in Int /\ qty[p] \in Nat \ {0}
      BY SizesAssumption DEF SeatInv, SeatsConserved, TypeOK
    <3>2. QED BY <3>1 DEF CommitCancellation, TypeOK
  <2>2. QED BY <2>1 DEF CommitCancellation, SeatInv, TierStatusTruthful, TypeOK
<1>7. QED BY <1>5, <1>6

\* Cancelling with the event only removes sold seats.
LEMMA CommitSweepConserves ==
  ASSUME TypeOK, SeatInv, CommitCancelByEvent
  PROVE  SeatsConserved' /\ TierStatusTruthful'
<1> DEFINE P == {p \in doomed : purchase[p] = "confirmed"}
<1>1. eventStatus = "cancelled" /\ UNCHANGED <<eventStatus, quantity, remaining, tierStatus>>
  BY DEF CommitCancelByEvent, SeatInv, SweepSound, eventVars, tierVars
<1>2. ASSUME NEW t \in Tier
      PROVE  /\ Cardinality(SoldSeats(t))' <= Cardinality(SoldSeats(t))
             /\ Cardinality(SoldSeats(t)) \in Nat /\ Cardinality(SoldSeats(t))' \in Nat
  <2>1. P \in SUBSET Confirmed
    BY DEF TypeOK, Confirmed
  <2>2. purchase' = [p \in Purchase |-> IF p \in P THEN "cancelled" ELSE purchase[p]]
    BY DEF CommitCancelByEvent
  <2>3. SoldSeats(t)' = {k \in SoldSeats(t) : k[1] \notin P}
    BY <2>1, <2>2, CancelRemovesSeats DEF CommitCancelByEvent
  <2>4. SoldSeats(t)' \in SUBSET SoldSeats(t)
    BY <2>3
  <2>5. /\ IsFiniteSet(SoldSeats(t)') /\ Cardinality(SoldSeats(t)') <= Cardinality(SoldSeats(t))
    BY <2>4, SoldSeatsFinite, FS_Subset
  <2>6. Cardinality(SoldSeats(t)') \in Nat
    BY <2>5, FS_CardinalityType
  <2>7. Cardinality(SoldSeats(t))' = Cardinality(SoldSeats(t)')
    OBVIOUS
  <2>8. QED BY <2>5, <2>6, <2>7, SoldSeatsFinite
<1>3. SeatsConserved'
  <2>1. ASSUME NEW t \in Tier
        PROVE  remaining[t] >= 0 /\ remaining[t] + Cardinality(SoldSeats(t))' <= quantity[t]
    <3>1. /\ remaining[t] >= 0 /\ remaining[t] \in Int /\ quantity[t] \in Int
          /\ remaining[t] + Cardinality(SoldSeats(t)) <= quantity[t]
      BY DEF SeatInv, SeatsConserved, TypeOK
    <3>2. QED BY <1>2, <3>1
  <2>2. QED BY <1>1, <2>1 DEF SeatsConserved
<1>4. TierStatusTruthful'
  BY <1>1 DEF SeatInv, TierStatusTruthful
<1>5. QED BY <1>3, <1>4

\* The steps that write purchase, ticket, tier or event rows.
LEMMA Writers ==
  ASSUME Next
  PROVE  \/ \E p \in Purchase : CommitSale(p) \/ CommitCancellation(p)
         \/ CommitCancelByEvent
         \/ \E k \in Ticket : CheckIn(k)
         \/ Publish \/ EndAllExpired \/ CancelEvent
         \/ UNCHANGED <<eventStatus, orderVars, tierVars>>
BY DEF Next, SaleStep, CancellationStep, SweepStep, RequestPurchase, LockTier,
       RefuseSale, TakeSeats, CheckStock, SellOutEvent, RollbackSale, LockPurchase,
       JudgeCancellation, RefuseCancellation, VoidTickets, RestoreStock, ReopenEvent,
       EnqueuePromotion, RollbackCancellation, LosePromotion,
       MoveClock, ListBuyers, FlipPurchases, FlipTickets,
       ClearWaitlist, NotifyBuyers, FailCancelByEvent, CrashCancelEvent,
       eventVars

\* Steps that commit nothing about seats, tiers or the event.
LEMMA QuietConserves ==
  ASSUME SeatInv, UNCHANGED <<purchase, tierOf, qty, tierVars>>,
         eventStatus' # "cancelled" => eventStatus # "cancelled"
  PROVE  SeatsConserved' /\ TierStatusTruthful'
<1>1. UNCHANGED <<quantity, remaining, tierStatus>>
  BY DEF tierVars
<1>2. \A t \in Tier : Cardinality(SoldSeats(t))' = Cardinality(SoldSeats(t))
  <2>1. ASSUME NEW t \in Tier PROVE SoldSeats(t)' = SoldSeats(t)
    BY SameSeats
  <2>2. QED BY <2>1
<1>3. QED BY <1>1, <1>2 DEF SeatInv, SeatsConserved, TierStatusTruthful

\* Every step conserves the seats: the three commits that write purchases do, and
\* the other steps write neither purchases nor stock.
LEMMA StepSeats ==
  ASSUME TypeOK, SeatInv, Next
  PROVE  SeatsConserved' /\ TierStatusTruthful'
<1>1. ASSUME NEW p \in Purchase, CommitSale(p) PROVE SeatsConserved' /\ TierStatusTruthful'
  BY <1>1, CommitSaleConserves
<1>2. ASSUME NEW p \in Purchase, CommitCancellation(p)
      PROVE  SeatsConserved' /\ TierStatusTruthful'
  BY <1>2, CommitCancellationConserves
<1>3. CASE CommitCancelByEvent
  BY <1>3, CommitSweepConserves
<1>4. CASE \/ \E k \in Ticket : CheckIn(k)
           \/ Publish \/ EndAllExpired \/ CancelEvent
           \/ UNCHANGED <<eventStatus, orderVars, tierVars>>
  <2>1. UNCHANGED <<purchase, tierOf, qty, tierVars>>
    BY <1>4 DEF CheckIn, Publish, EndAllExpired, CancelEvent, orderVars
  <2>2. eventStatus' # "cancelled" => eventStatus # "cancelled"
    BY <1>4 DEF CheckIn, Publish, EndAllExpired, CancelEvent, eventVars
  <2>3. QED BY <2>1, <2>2, QuietConserves
<1>5. QED BY <1>1, <1>2, <1>3, <1>4, Writers

\* The invariant is inductive.
LEMMA NextSeatInv == TypeOK /\ SeatInv /\ [Next]_vars => SeatInv'
<1> SUFFICES ASSUME TypeOK, SeatInv, [Next]_vars PROVE SeatInv'
  OBVIOUS
<1>1. CASE Next
  BY <1>1, StepLocks, StepOpenRequests, StepSweep, StepSeats DEF SeatInv
<1>2. CASE UNCHANGED vars
  <2>1. UNCHANGED <<eventVars, tierVars, orderVars, txVars, cancelVars>>
    BY <1>2 DEF vars
  <2>2. SeatsConserved' /\ TierStatusTruthful'
    BY <2>1, QuietConserves DEF eventVars, orderVars
  <2>3. RowLocksExclusive' /\ OpenRequestsHold' /\ SweepSound'
    BY <2>1 DEF SeatInv, RowLocksExclusive, HoldsTier, HoldsEvent, HoldsPurchase,
       OpenRequestsHold, SaleDecided, SweepSound,
       eventVars, tierVars, orderVars, txVars, cancelVars
  <2>4. QED BY <2>2, <2>3 DEF SeatInv
<1>3. QED BY <1>1, <1>2

\* In every reachable state types, locks, open transactions, the sweep, the seats
\* and the tiers' statuses are in order.
THEOREM SeatInvariant == Spec => [](TypeOK /\ SeatInv)
  BY InitTypeOK, NextTypeOK, InitSeatInv, NextSeatInv, PTL DEF Spec

\* No interleaving of sales, cancellations and event cancellations oversells a
\* tier, and until the event is cancelled none loses a seat either.
THEOREM NoOversell == Spec => []SeatsConserved
<1>1. TypeOK /\ SeatInv => SeatsConserved
  BY DEF SeatInv
<1>2. QED BY <1>1, SeatInvariant, PTL

\* Tier, event and purchase rows are written by one transaction at a time.
THEOREM LocksAreExclusive == Spec => []RowLocksExclusive
<1>1. TypeOK /\ SeatInv => RowLocksExclusive
  BY DEF SeatInv
<1>2. QED BY <1>1, SeatInvariant, PTL

\* A tier is marked sold out exactly while it has nothing left.
THEOREM TierStatusCorrect == Spec => []TierStatusTruthful
<1>1. TypeOK /\ SeatInv => TierStatusTruthful
  BY DEF SeatInv
<1>2. QED BY <1>1, SeatInvariant, PTL

\* The database never turns down a cancellation the policy allows, because the
\* purchase's own seats are among those missing from the tier.
THEOREM CancellationFits == Spec => []RestoreAlwaysFits
<1>1. ASSUME TypeOK, SeatInv, NEW p \in Purchase, pc[p] \in {"held", "judged", "voided"}
      PROVE  remaining[tierOf[p]] + qty[p] <= quantity[tierOf[p]]
  <2> DEFINE t == tierOf[p]
  <2>1. purchase[p] = "confirmed" /\ t \in Tier
    BY <1>1 DEF SeatInv, OpenRequestsHold, CancelSteps, TypeOK
  <2>2. TicketsOf(p) \in SUBSET SoldSeats(t)
    BY <1>1, <2>1, SoldSeatsOfPurchase
  <2>3. Cardinality(TicketsOf(p)) <= Cardinality(SoldSeats(t))
    BY <2>1, <2>2, SoldSeatsFinite, FS_Subset
  <2>4. Cardinality(TicketsOf(p)) = qty[p]
    BY <1>1, TicketsCount
  <2>5. Cardinality(SoldSeats(t)) \in Nat
    BY <2>1, SoldSeatsFinite
  <2>6. remaining[t] + Cardinality(SoldSeats(t)) <= quantity[t]
    BY <1>1, <2>1 DEF SeatInv, SeatsConserved
  <2>7. qty[p] \in Int /\ remaining[t] \in Int /\ quantity[t] \in Int
    BY <1>1, <2>1, SizesAssumption DEF TypeOK
  <2> HIDE DEF t
  <2>8. remaining[t] + qty[p] <= quantity[t]
    BY <2>3, <2>4, <2>5, <2>6, <2>7
  <2>9. QED BY <2>8 DEF t
<1>2. TypeOK /\ SeatInv => RestoreAlwaysFits
  BY <1>1 DEF RestoreAlwaysFits
<1>3. QED BY <1>2, SeatInvariant, PTL

-----------------------------------------------------------------------------
(***************************************************************************)
(* Purchases, their tickets and the event's status.                        *)
(***************************************************************************)

\* A fresh event has neither purchases nor tickets.
LEMMA InitCancelledWithTickets == Init => CancelledWithTickets
  BY SizesAssumption DEF Init, CancelledWithTickets, TicketsOf, Ticket

\* A purchase's tickets are inserted and cancelled in the commit that inserts and
\* cancels the purchase, and CancelByEvent matches the tickets of all it matches.
LEMMA NextCancelledWithTickets ==
  TypeOK /\ SeatInv /\ CancelledWithTickets /\ [Next]_vars => CancelledWithTickets'
<1> SUFFICES ASSUME TypeOK, SeatInv, CancelledWithTickets, [Next]_vars
             PROVE  CancelledWithTickets'
  OBVIOUS
<1> USE DEF CancelledWithTickets
<1>1. ASSUME UNCHANGED orderVars PROVE CancelledWithTickets'
  BY <1>1 DEF TicketsOf, orderVars
<1>2. \A p \in Purchase : \A k \in TicketsOf(p) : k \in Ticket /\ k[1] = p
  BY TicketsCount DEF TicketsOf
<1>3. ASSUME NEW p \in Purchase, CommitSale(p) PROVE CancelledWithTickets'
  <2>1. purchase[p] = "none"
    BY <1>3 DEF CommitSale, SeatInv, OpenRequestsHold, SaleDecided
  <2>2. \A q \in Purchase : (TicketsOf(q))' = TicketsOf(q)
    BY <1>3 DEF CommitSale, TicketsOf
  <2>3. QED BY <1>2, <1>3, <2>1, <2>2 DEF CommitSale, TypeOK
<1>4. ASSUME NEW p \in Purchase, CommitCancellation(p) PROVE CancelledWithTickets'
  <2>1. purchase[p] = "confirmed"
    BY <1>4 DEF CommitCancellation, SeatInv, OpenRequestsHold, CancelSteps
  <2>2. \A q \in Purchase : (TicketsOf(q))' = TicketsOf(q)
    BY <1>4 DEF CommitCancellation, TicketsOf
  <2>3. QED BY <1>2, <1>4, <2>1, <2>2 DEF CommitCancellation, TypeOK
<1>5. CASE CommitCancelByEvent
  <2>1. /\ doomed \subseteq doomedSeats
        /\ \A q \in doomedSeats : purchase[q] # "none"
    BY <1>5 DEF CommitCancelByEvent, SeatInv, SweepSound
  <2>2. \A q \in Purchase : (TicketsOf(q))' = TicketsOf(q)
    BY <1>5 DEF CommitCancelByEvent, TicketsOf
  <2>3. QED BY <1>2, <1>5, <2>1, <2>2 DEF CommitCancelByEvent, TypeOK
<1>6. ASSUME NEW k \in Ticket, CheckIn(k) PROVE CancelledWithTickets'
  <2>1. \A q \in Purchase : (TicketsOf(q))' = TicketsOf(q)
    BY <1>6 DEF CheckIn, TicketsOf
  <2>2. QED BY <1>2, <1>6, <2>1 DEF CheckIn, TypeOK
<1>7. CASE Publish \/ EndAllExpired \/ CancelEvent
  BY <1>1, <1>7 DEF Publish, EndAllExpired, CancelEvent
<1>8. CASE UNCHANGED vars
  BY <1>1, <1>8 DEF vars
<1>9. CASE UNCHANGED <<eventStatus, orderVars, tierVars>>
  BY <1>1, <1>9
<1>10. QED BY <1>3, <1>4, <1>5, <1>6, <1>7, <1>8, <1>9, Writers

\* Cancelling a purchase, alone or with its event, cancels all its tickets.
THEOREM CancelledTicketsStayShut == Spec => []CancelledWithTickets
  BY InitCancelledWithTickets, NextCancelledWithTickets, InitTypeOK, SeatInvariant,
     PTL DEF Spec

\* Event statuses follow the documented transitions only.
THEOREM LifecycleRespected == Spec => EventLifecycle
<1>1. TypeOK /\ SeatInv /\ [Next]_vars =>
        [(<<eventStatus, eventStatus'>>) \in LegalTransition]_eventStatus
  <2> SUFFICES ASSUME SeatInv, [Next]_vars, eventStatus' # eventStatus
               PROVE  <<eventStatus, eventStatus'>> \in LegalTransition
    OBVIOUS
  <2>1. Next
    BY DEF vars, eventVars
  <2>2. ASSUME NEW p \in Purchase, CommitSale(p)
        PROVE  eventStatus = "published" /\ eventStatus' = "sold_out"
    BY <2>2 DEF CommitSale, SeatInv, OpenRequestsHold
  <2>3. ASSUME NEW p \in Purchase, CommitCancellation(p)
        PROVE  eventStatus = "sold_out" /\ eventStatus' = "published"
    BY <2>3 DEF CommitCancellation, SeatInv, OpenRequestsHold
  <2>4. ~CommitCancelByEvent /\ \A k \in Ticket : ~CheckIn(k)
    BY DEF CommitCancelByEvent, CheckIn, eventVars
  <2>5. QED
    BY <2>1, <2>2, <2>3, <2>4, Writers
    DEF LegalTransition, Publish, EndAllExpired, CancelEvent
<1>2. QED BY <1>1, SeatInvariant, PTL DEF Spec, EventLifecycle

\* A ticket is admitted at most once; what is cancelled stays cancelled.
THEOREM NothingIsUndone == Spec => RecordsOnlyAdvance
<1> DEFINE Advance ==
      /\ \A p \in Purchase :
           /\ purchase[p] = "cancelled" => purchase'[p] = "cancelled"
           /\ purchase[p] = "confirmed" => purchase'[p] # "none"
      /\ \A k \in Ticket :
           /\ ticket[k] = "cancelled" => ticket'[k] = "cancelled"
           /\ ticket[k] = "used" => ticket'[k] \in {"used", "cancelled"}
<1>1. TypeOK /\ SeatInv /\ CancelledWithTickets /\ [Next]_vars => [Advance]_vars
  <2> SUFFICES ASSUME TypeOK, SeatInv, CancelledWithTickets, Next PROVE Advance
    OBVIOUS
  <2>1. ASSUME NEW p \in Purchase, CommitSale(p) PROVE Advance
    <3>1. purchase[p] = "none"
      BY <2>1 DEF CommitSale, SeatInv, OpenRequestsHold, SaleDecided
    <3>2. \A k \in TicketsOf(p) : ticket[k] = "none"
      BY <3>1 DEF CancelledWithTickets
    <3>3. QED BY <2>1, <3>1, <3>2 DEF CommitSale, TypeOK
  <2>2. ASSUME NEW p \in Purchase, CommitCancellation(p) PROVE Advance
    BY <2>2 DEF CommitCancellation, TypeOK
  <2>3. CASE CommitCancelByEvent
    BY <2>3 DEF CommitCancelByEvent, TypeOK
  <2>4. ASSUME NEW k \in Ticket, CheckIn(k) PROVE Advance
    BY <2>4 DEF CheckIn, TypeOK
  <2>5. CASE Publish \/ EndAllExpired \/ CancelEvent
    BY <2>5 DEF Publish, EndAllExpired, CancelEvent, orderVars
  <2>6. CASE UNCHANGED <<eventStatus, orderVars, tierVars>>
    BY <2>6 DEF orderVars
  <2>7. QED BY <2>1, <2>2, <2>3, <2>4, <2>5, <2>6, Writers
<1>2. QED
  BY <1>1, SeatInvariant, CancelledTicketsStayShut, PTL DEF Spec, RecordsOnlyAdvance

-----------------------------------------------------------------------------
(***************************************************************************)
(* Refinement.                                                             *)
(***************************************************************************)

\* The ledger begins with the tiers' quantities and no orders.
LEMMA InitLedger == Init => Ledger!LedgerInit
  BY SizesAssumption DEF Init, Ledger!LedgerInit

\* Commits, cancelEvent and the sweep are steps of the ledger, and nothing else is.
LEMMA StepLedger ==
  TypeOK /\ SeatInv /\ [Next]_vars => [Ledger!LedgerNext]_(Ledger!ledgerVars)
<1> SUFFICES ASSUME TypeOK, SeatInv, [Next]_vars
             PROVE  Ledger!LedgerNext \/ UNCHANGED Ledger!ledgerVars
  OBVIOUS
<1> USE DEF Ledger!LedgerNext, Ledger!ledgerVars
<1>1. ASSUME NEW p \in Purchase, CommitSale(p) PROVE Ledger!Sell(p)
  BY <1>1 DEF CommitSale, Ledger!Sell, SeatInv, OpenRequestsHold, SaleDecided
<1>2. ASSUME NEW p \in Purchase, CommitCancellation(p) PROVE Ledger!Return(p)
  BY <1>2 DEF CommitCancellation, Ledger!Return, SeatInv, OpenRequestsHold, CancelSteps
<1>3. CASE CommitCancelByEvent
  <2> DEFINE P == {p \in doomed : purchase[p] = "confirmed"}
  <2>1. P \in SUBSET Purchase
    BY DEF TypeOK
  <2>2. Ledger!WriteOff(P)
    BY <1>3 DEF CommitCancelByEvent, Ledger!WriteOff, SeatInv, SweepSound,
                eventVars, tierVars
  <2>3. QED BY <2>1, <2>2
<1>4. CASE CancelEvent
  BY <1>4 DEF CancelEvent, Ledger!CallOff, tierVars, orderVars
<1>5. CASE Publish \/ EndAllExpired
  BY <1>5 DEF Publish, EndAllExpired, tierVars, orderVars
<1>6. ASSUME NEW k \in Ticket, CheckIn(k) PROVE UNCHANGED Ledger!ledgerVars
  BY <1>6 DEF CheckIn, eventVars, tierVars
<1>7. CASE UNCHANGED <<eventStatus, orderVars, tierVars>>
  BY <1>7 DEF orderVars, tierVars
<1>8. CASE UNCHANGED vars
  BY <1>8 DEF vars, eventVars, tierVars, orderVars
<1>9. QED
  BY <1>1, <1>2, <1>3, <1>4, <1>5, <1>6, <1>7, <1>8, Writers

\* The transactions, whatever their interleaving, sell and return seats as if
\* each were one step of the ledger.
THEOREM SalesImplementLedger == Spec => ImplementsLedger
  BY InitLedger, StepLedger, SeatInvariant, PTL DEF Spec, ImplementsLedger, Ledger!LedgerSpec

-----------------------------------------------------------------------------
(***************************************************************************)
(* The event's status and the stock of its only tier.                      *)
(***************************************************************************)

\* Nothing is sold from a draft; a sale that has seen the stock empty takes all
\* that is left, one that has seen more leaves some; a return that did not find
\* the event sold out holds the tier until it commits, so no sale empties it.
SoldOutInv ==
  /\ SoldOutAgrees
  /\ eventStatus = "draft" =>
       (\A p \in Purchase : pc[p] = "new") /\ (\A t \in Tier : remaining[t] > 0)
  /\ \A t \in Tier : Tier = {t} =>
       \A p \in Purchase :
         /\ pc[p] \in {"emptied", "flips"} => remaining[t] = qty[p]
         /\ pc[p] = "ready" /\ eventStatus = "published" => remaining[t] > qty[p]
         /\ pc[p] = "undone" => eventStatus # "sold_out"

\* A request that decides nothing about the event's status goes on.
LEMMA QuietSoldOut ==
  ASSUME TypeOK, SoldOutInv, UNCHANGED <<eventStatus, remaining, qty>>,
         NEW p \in Purchase, pc[p] # "new" \/ eventStatus # "draft",
         NEW s \in Steps, s \notin {"emptied", "flips", "ready", "undone"},
         pc' = [pc EXCEPT ![p] = s]
  PROVE  SoldOutInv'
BY DEF SoldOutInv, SoldOutAgrees, TypeOK

\* Every step keeps it.
LEMMA NextSoldOut == TypeOK /\ SeatInv /\ SoldOutInv /\ [Next]_vars => SoldOutInv'
<1> SUFFICES ASSUME TypeOK, SeatInv, SoldOutInv, [Next]_vars PROVE SoldOutInv'
  OBVIOUS
<1>0. /\ pc \in [Purchase -> Steps] /\ tierOf \in [Purchase -> Tier]
      /\ remaining \in [Tier -> Int] /\ qty \in [Purchase -> 1..MaxRequest]
      /\ \A p \in Purchase : qty[p] \in Int /\ qty[p] >= 1
  BY SizesAssumption DEF TypeOK
<1>1. \A t \in Tier : remaining[t] >= 0
  BY DEF SeatInv, SeatsConserved
<1>2. ASSUME UNCHANGED <<eventStatus, remaining, qty, pc>> PROVE SoldOutInv'
  BY <1>2 DEF SoldOutInv, SoldOutAgrees
\* With one tier, whoever holds it is alone.
<1>3. ASSUME NEW t \in Tier, Tier = {t}, NEW p \in Purchase, NEW q \in Purchase,
             HoldsTier(p), HoldsTier(q)
      PROVE  p = q
  BY <1>0, <1>3 DEF SeatInv, RowLocksExclusive
<1>4. ASSUME NEW p \in Purchase,
             \/ RequestPurchase(p) \/ LockTier(p) \/ RefuseSale(p) \/ TakeSeats(p)
             \/ RollbackSale(p)
      PROVE  SoldOutInv'
  <2>1. UNCHANGED <<eventStatus, remaining, qty>> /\ (pc[p] # "new" \/ eventStatus # "draft")
    BY <1>4 DEF RequestPurchase, LockTier, RefuseSale, TakeSeats, RollbackSale, SaleSteps,
       eventVars, tierVars, orderVars
  <2>2. PICK s \in {"requested", "locked", "ended", "charged"} : pc' = [pc EXCEPT ![p] = s]
    BY <1>4 DEF RequestPurchase, LockTier, RefuseSale, TakeSeats, RollbackSale, Goto
  <2>3. s \in Steps
    BY DEF Steps, SaleSteps
  <2>4. QED BY <2>1, <2>2, <2>3, QuietSoldOut
<1>5. ASSUME NEW p \in Purchase,
             \/ LockPurchase(p) \/ JudgeCancellation(p) \/ RefuseCancellation(p)
             \/ VoidTickets(p) \/ RestoreStock(p) \/ RollbackCancellation(p)
             \/ EnqueuePromotion(p) \/ LosePromotion(p)
      PROVE  SoldOutInv'
  <2>1. UNCHANGED <<eventStatus, remaining, qty>> /\ pc[p] # "new"
    BY <1>5 DEF LockPurchase, JudgeCancellation, RefuseCancellation, VoidTickets,
       RestoreStock, RollbackCancellation, EnqueuePromotion, LosePromotion, CancelSteps,
       eventVars, tierVars, orderVars
  <2>2. PICK s \in {"held", "judged", "ended", "voided", "restored"} :
          pc' = [pc EXCEPT ![p] = s]
    BY <1>5 DEF LockPurchase, JudgeCancellation, RefuseCancellation, VoidTickets,
       RestoreStock, RollbackCancellation, EnqueuePromotion, LosePromotion, Goto
  <2>3. s \in Steps
    BY DEF Steps, CancelSteps
  <2>4. QED BY <2>1, <2>2, <2>3, QuietSoldOut
<1>6. ASSUME NEW p \in Purchase, CheckStock(p) PROVE SoldOutInv'
  <2>1. remaining[tierOf[p]] >= qty[p]
    BY <1>6 DEF CheckStock, SeatInv, OpenRequestsHold, SaleDecided
  <2>2. UNCHANGED <<eventStatus, remaining, qty>> /\ pc[p] = "charged"
        /\ pc' = [pc EXCEPT ![p] = IF StockSeen(p) THEN "ready" ELSE "emptied"]
    BY <1>6 DEF CheckStock, Goto, eventVars, tierVars, orderVars
  <2>3. \A t \in Tier : Tier = {t} => tierOf[p] = t /\ (StockSeen(p) <=> remaining[t] > qty[p])
    BY <1>0, <1>1 DEF StockSeen
  <2>4. QED BY <1>0, <2>1, <2>2, <2>3 DEF SoldOutInv, SoldOutAgrees
<1>7. ASSUME NEW p \in Purchase, SellOutEvent(p) PROVE SoldOutInv'
  BY <1>0, <1>7 DEF SellOutEvent, Goto, SoldOutInv, SoldOutAgrees, eventVars, tierVars, orderVars
<1>8. ASSUME NEW p \in Purchase, ReopenEvent(p) PROVE SoldOutInv'
  BY <1>0, <1>8 DEF ReopenEvent, Goto, SoldOutInv, SoldOutAgrees, eventVars, tierVars, orderVars
<1>9. ASSUME NEW p \in Purchase, CommitSale(p) PROVE SoldOutInv'
  <2>1. /\ pc[p] \in {"flips", "ready"} /\ HoldsTier(p) /\ eventStatus # "draft"
        /\ eventStatus' = IF pc[p] = "flips" THEN "sold_out" ELSE eventStatus
        /\ remaining' = [remaining EXCEPT ![tierOf[p]] = @ - qty[p]]
        /\ pc' = [pc EXCEPT ![p] = "ended"] /\ qty' = qty
    BY <1>9 DEF CommitSale, Goto, HoldsTier, SaleSteps, SoldOutInv
  <2>2. remaining[tierOf[p]] >= qty[p]
    BY <2>1 DEF SeatInv, OpenRequestsHold, SaleDecided
  <2>3. ASSUME NEW t \in Tier, Tier = {t}
        PROVE  /\ eventStatus' = "published" => remaining'[t] > 0
               /\ eventStatus' = "sold_out" => remaining'[t] = 0
    <3>1. tierOf[p] = t /\ remaining'[t] = remaining[t] - qty[p]
      BY <1>0, <2>1, <2>3
    <3>2. QED BY <1>0, <2>1, <2>2, <2>3, <3>1 DEF SoldOutInv, SoldOutAgrees
  <2>4. ASSUME NEW t \in Tier, Tier = {t}, NEW q \in Purchase
        PROVE  pc'[q] \notin {"emptied", "flips", "ready", "undone"}
    BY <1>0, <1>3, <2>1, <2>4 DEF HoldsTier, SaleSteps
  <2>5. eventStatus' # "draft"
    BY <2>1
  <2>6. QED BY <2>3, <2>4, <2>5 DEF SoldOutInv, SoldOutAgrees
<1>10. ASSUME NEW p \in Purchase, CommitCancellation(p) PROVE SoldOutInv'
  <2>1. /\ pc[p] \in {"reopens", "undone"} /\ HoldsTier(p) /\ eventStatus # "draft"
        /\ eventStatus' = IF pc[p] = "reopens" THEN "published" ELSE eventStatus
        /\ remaining' = [remaining EXCEPT ![tierOf[p]] = @ + qty[p]]
        /\ pc' = [pc EXCEPT ![p] = IF wasSoldOut[p] THEN "notify" ELSE "ended"] /\ qty' = qty
    BY <1>10 DEF CommitCancellation, Goto, HoldsTier, SoldOutInv
  <2>2. ASSUME NEW t \in Tier, Tier = {t}
        PROVE  /\ eventStatus' = "published" => remaining'[t] > 0
               /\ eventStatus' = "sold_out" => remaining'[t] = 0
    <3>1. tierOf[p] = t /\ remaining'[t] = remaining[t] + qty[p]
      BY <1>0, <2>1, <2>2
    <3>2. QED BY <1>0, <1>1, <2>1, <2>2, <3>1 DEF SoldOutInv
  <2>3. ASSUME NEW t \in Tier, Tier = {t}, NEW q \in Purchase
        PROVE  pc'[q] \notin {"emptied", "flips", "ready", "undone"}
    BY <1>0, <1>3, <2>1, <2>3 DEF HoldsTier, SaleSteps
  <2>4. eventStatus' # "draft"
    BY <2>1
  <2>5. QED BY <2>2, <2>3, <2>4 DEF SoldOutInv, SoldOutAgrees
<1>11. CASE Publish
  BY <1>11 DEF Publish, SoldOutInv, SoldOutAgrees, tierVars, orderVars, txVars
<1>12. CASE EndAllExpired \/ CancelEvent
  BY <1>12 DEF EndAllExpired, CancelEvent, SoldOutInv, SoldOutAgrees, tierVars, orderVars, txVars
<1>13. CASE (\E k \in Ticket : CheckIn(k)) \/ MoveClock \/ SweepStep \/ FailCancelByEvent
            \/ CrashCancelEvent
  BY <1>2, <1>13 DEF CheckIn, MoveClock, SweepStep, ListBuyers, FlipPurchases, FlipTickets,
     CommitCancelByEvent, ClearWaitlist, NotifyBuyers, FailCancelByEvent, CrashCancelEvent,
     eventVars, tierVars, orderVars, txVars
<1>14. CASE UNCHANGED vars
  BY <1>2, <1>14 DEF vars, eventVars, tierVars, orderVars, txVars
<1>15. QED
  BY <1>4, <1>5, <1>6, <1>7, <1>8, <1>9, <1>10, <1>11, <1>12, <1>13, <1>14
  DEF Next, SaleStep, CancellationStep

\* The event of a single tier is on sale exactly while a seat is left, whichever
\* sales and returns cross.
THEOREM SoldOutIsTrue == Spec => []SoldOutAgrees
<1>1. Init => SoldOutInv
  BY SizesAssumption DEF Init, SoldOutInv, SoldOutAgrees
<1>2. SoldOutInv => SoldOutAgrees
  BY DEF SoldOutInv
<1>3. QED BY <1>1, <1>2, NextSoldOut, InitTypeOK, NextTypeOK, InitSeatInv, NextSeatInv, PTL DEF Spec
=============================================================================
