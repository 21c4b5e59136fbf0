-------------------------- MODULE WaitlistProofs --------------------------
(***************************************************************************)
(* Proofs about module Waitlist.  The rows of the sale are as safe as in   *)
(* TicketSales, whose steps are the only ones that write them.  Whoever    *)
(* gets a created_at is younger than all that have one, so whoever a       *)
(* worker's SELECT has not seen is younger than the rows it saw or had its *)
(* INSERT open then; and the row it has locked waits until it commits.     *)
(***************************************************************************)
EXTENDS Waitlist, TicketSalesProofs

-----------------------------------------------------------------------------
(***************************************************************************)
(* The rows of the sale.                                                   *)
(***************************************************************************)

\* The queue's tasks are all that the waitlist's own steps change of the sale.
LEMMA OnlyWakeMoves ==
  ASSUME TypeOK, SeatInv, wake' \in [Tier -> Nat],
         UNCHANGED <<eventVars, tierVars, orderVars, pc, wasSoldOut, cancelVars>>
  PROVE  TypeOK' /\ SeatInv'
<1>1. UNCHANGED <<eventStatus, clock, quantity, remaining, tierStatus, purchase, tierOf,
                  qty, ticket, pc, wasSoldOut, cancelPc, doomed, doomedSeats, buyers, told>>
  BY DEF eventVars, tierVars, orderVars, cancelVars
<1>2. TypeOK'
  BY <1>1 DEF TypeOK
<1>3. RowLocksExclusive' /\ OpenRequestsHold' /\ SweepSound'
  BY <1>1 DEF SeatInv, RowLocksExclusive, OpenRequestsHold, SweepSound, SaleDecided,
     HoldsTier, HoldsEvent, HoldsPurchase
<1>4. SeatsConserved' /\ TierStatusTruthful'
  BY <1>1, QuietConserves DEF tierVars
<1>5. QED BY <1>2, <1>3, <1>4 DEF SeatInv

\* All that the sale has, except the queue of tasks.
saleVars == <<eventVars, tierVars, orderVars, pc, wasSoldOut, cancelVars>>

\* A step beside the sale is one of the sale or touches its tasks at most.
LEMMA WaitStepKinds ==
  ASSUME TypeOK, [WaitNext]_waitVars
  PROVE  Next \/ (UNCHANGED saleVars /\ wake' \in [Tier -> Nat])
<1> DEFINE Beside == UNCHANGED saleVars /\ wake' \in [Tier -> Nat]
<1>1. ASSUME UNCHANGED vars PROVE Beside
  BY <1>1 DEF saleVars, vars, txVars, TypeOK
<1>2. ASSUME SalesStep PROVE Next
  BY <1>2 DEF SalesStep
<1>3. ASSUME DeleteByEvent PROVE Next
  BY <1>3 DEF DeleteByEvent, Next, SweepStep
<1>4. ASSUME ExpireReservations PROVE Beside
  BY <1>1, <1>4 DEF ExpireReservations
<1>5. ASSUME NEW u \in User,
             \/ BeginJoin(u) \/ SeeNoPurchase(u) \/ RefuseJoin(u)
             \/ BeginInsert(u) \/ CommitInsert(u) \/ FailJoin(u)
             \/ \E t \in Tier : SeeSoldOut(u, t) \/ LeaveWaitlist(u, t)
      PROVE  Beside
  BY <1>1, <1>5 DEF BeginJoin, SeeNoPurchase, RefuseJoin, BeginInsert, CommitInsert, FailJoin,
     SeeSoldOut, LeaveWaitlist
<1>6. ASSUME NEW w \in Worker, PromotionStep(w) PROVE Beside
  BY <1>1, <1>6 DEF PromotionStep, LockFirst, NobodyWaits, CommitOffer, MailOffer
<1>7. ASSUME NEW w \in Worker, NEW t \in Tier, StartPromotion(w, t) PROVE Beside
  BY <1>7 DEF StartPromotion, saleVars, TypeOK
<1>8. ASSUME NEW w \in Worker, FailPromotion(w) PROVE Beside
  BY <1>8 DEF FailPromotion, saleVars, TypeOK
<1>9. ASSUME UNCHANGED waitVars PROVE Beside
  BY <1>1, <1>9 DEF waitVars
<1> HIDE DEF Beside
<1>10. Next \/ Beside
  BY <1>2, <1>3, <1>4, <1>5, <1>6, <1>7, <1>8, <1>9 DEF WaitNext, WaitStep
<1>11. QED BY <1>10 DEF Beside

\* A step of the waitlist keeps what TicketSales guarantees.
LEMMA WaitStepSales ==
  ASSUME TypeOK, SeatInv, [WaitNext]_waitVars
  PROVE  TypeOK' /\ SeatInv'
  BY WaitStepKinds, NextTypeOK, NextSeatInv, OnlyWakeMoves DEF saleVars

\* No oversell, no lost seat, and tiers marked by their stock, with the waitlist
\* at work beside the sale.
THEOREM SalesBesideWaitlist == WaitSpec => [](TypeOK /\ SeatInv)
<1>1. WaitInit => TypeOK /\ SeatInv
  BY InitTypeOK, InitSeatInv DEF WaitInit
<1>2. TypeOK /\ SeatInv /\ [WaitNext]_waitVars => TypeOK' /\ SeatInv'
  BY WaitStepSales
<1>3. QED BY <1>1, <1>2, PTL DEF WaitSpec

\* The seats are sold and returned as if each were one step of the ledger, with
\* promotions, joins and expiries in between.
THEOREM WaitlistKeepsLedger == WaitSpec => ImplementsLedger
<1>1. WaitInit => Ledger!LedgerInit
  BY InitLedger DEF WaitInit
<1>2. TypeOK /\ SeatInv /\ [WaitNext]_waitVars => [Ledger!LedgerNext]_(Ledger!ledgerVars)
  <2> SUFFICES ASSUME TypeOK, SeatInv, [WaitNext]_waitVars
               PROVE  [Ledger!LedgerNext]_(Ledger!ledgerVars)
    OBVIOUS
  <2>1. CASE Next
    BY <2>1, StepLedger
  <2>2. CASE UNCHANGED saleVars
    BY <2>2 DEF saleVars, eventVars, tierVars, orderVars, Ledger!ledgerVars
  <2>3. QED BY <2>1, <2>2, WaitStepKinds
<1>3. QED
  BY <1>1, <1>2, SalesBesideWaitlist, PTL DEF WaitSpec, ImplementsLedger, Ledger!LedgerSpec

-----------------------------------------------------------------------------
(***************************************************************************)
(* The rows of the waitlist.                                               *)
(***************************************************************************)

RowsOK ==
  /\ entry \in [Row -> EntryStatus]
  /\ older \in [Tier -> SUBSET (User \X User)]
  /\ \A t \in Tier : StrictOrder(t)
  /\ \A t \in Tier : RowsOf(t) \cap Inserting(t) = {}
  /\ mailed \subseteq Notified

HandsOK ==
  /\ join \in [User -> Joins]
  /\ worker \in [Worker -> Tasks]
  /\ mishap \in BOOLEAN

\* The two halves of WaitTypeOK.
LEMMA WaitTypeParts == WaitTypeOK <=> TypeOK /\ RowsOK /\ HandsOK
  BY DEF WaitTypeOK, RowsOK, HandsOK

\* Rows that are kept, and kept in order, whatever their status becomes.
LEMMA SameRows ==
  ASSUME RowsOK, entry' \in [Row -> EntryStatus], older' = older, mailed' \subseteq Notified',
         \A x \in Row : entry'[x] = "none" <=> entry[x] = "none",
         \A t \in Tier : Inserting(t)' = Inserting(t)
  PROVE  RowsOK'
<1>1. \A t \in Tier : RowsOf(t)' = RowsOf(t) /\ Stamped(t)' = Stamped(t)
  BY DEF RowsOf, Stamped, Row
<1>2. QED BY <1>1 DEF RowsOK, StrictOrder, Ahead

\* A request that has not come to its INSERT opens none.
LEMMA QuietJoins ==
  ASSUME HandsOK, NEW u \in User,
         \/ BeginJoin(u) \/ SeeNoPurchase(u) \/ RefuseJoin(u)
         \/ \E t \in Tier : SeeSoldOut(u, t)
  PROVE  \A t \in Tier : Inserting(t)' = Inserting(t)
<1>1. join \in [User -> Joins] /\ join[u] \in Joins
  BY DEF HandsOK
<1>2. join[u].step # "inserting" /\ join'[u].step # "inserting"
  BY <1>1 DEF BeginJoin, SeeNoPurchase, RefuseJoin, SeeSoldOut, JoinGoto, NoJoin, Joins
<1>3. \A v \in User \ {u} : join'[v] = join[v]
  BY <1>1 DEF BeginJoin, SeeNoPurchase, RefuseJoin, SeeSoldOut, JoinGoto
<1>4. QED BY <1>2, <1>3 DEF Inserting

\* The newcomer's created_at is younger than all the tier has.
LEMMA BeginInsertFacts ==
  ASSUME RowsOK, HandsOK, NEW u \in User, BeginInsert(u), NEW t \in Tier
  PROVE  /\ RowsOf(t)' = RowsOf(t) /\ WaitingAt(t)' = WaitingAt(t)
         /\ t # join[u].tier => Inserting(t)' = Inserting(t) /\ older'[t] = older[t]
         /\ t = join[u].tier => /\ Inserting(t)' = Inserting(t) \cup {u}
                                /\ older'[t] = older[t] \cup (Stamped(t) \X {u})
                                /\ u \notin Stamped(t)
<1>1. join \in [User -> Joins] /\ join[u] \in Joins /\ join[u].tier \in Tier
  BY DEF HandsOK, Joins
<1>2. /\ join[u].step = "unheld" /\ entry[<<u, join[u].tier>>] = "none" /\ entry' = entry
      /\ older' = [older EXCEPT ![join[u].tier] = @ \cup (Stamped(join[u].tier) \X {u})]
      /\ join' = [join EXCEPT ![u].step = "inserting"]
  BY DEF BeginInsert, JoinGoto
<1>3. join'[u].step = "inserting" /\ join'[u].tier = join[u].tier
  BY <1>1, <1>2 DEF Joins
<1>4. \A v \in User \ {u} : join'[v] = join[v]
  BY <1>1, <1>2
<1>5. RowsOf(t)' = RowsOf(t) /\ WaitingAt(t)' = WaitingAt(t)
  BY <1>2 DEF RowsOf, WaitingAt
<1>6. Inserting(t)' = IF t = join[u].tier THEN Inserting(t) \cup {u} ELSE Inserting(t)
  BY <1>2, <1>3, <1>4 DEF Inserting
<1>7. older'[t] = IF t = join[u].tier THEN older[t] \cup (Stamped(t) \X {u}) ELSE older[t]
  BY <1>1, <1>2 DEF RowsOK
<1>8. t = join[u].tier => u \notin Stamped(t)
  BY <1>2 DEF Stamped, RowsOf, Inserting
<1>9. QED BY <1>5, <1>6, <1>7, <1>8

\* The order stays strict with the newcomer in it.
LEMMA BeginInsertKeepsRows ==
  ASSUME RowsOK, HandsOK, NEW u \in User, BeginInsert(u)
  PROVE  RowsOK'
<1>1. entry' = entry /\ mailed' = mailed
  BY DEF BeginInsert
<1>2. entry' \in [Row -> EntryStatus] /\ mailed' \subseteq Notified'
  BY <1>1 DEF RowsOK, Notified
<1>3. older' \in [Tier -> SUBSET (User \X User)]
  <2>1. \A t \in Tier : Stamped(t) \subseteq User
    BY DEF Stamped, RowsOf, Inserting
  <2>2. join[u].tier \in Tier
    BY DEF HandsOK, Joins
  <2>3. QED BY <2>1, <2>2 DEF BeginInsert, RowsOK
<1>4. ASSUME NEW t \in Tier, t # join[u].tier
      PROVE  StrictOrder(t)' /\ RowsOf(t)' \cap Inserting(t)' = {}
  <2>1. RowsOf(t)' = RowsOf(t) /\ Inserting(t)' = Inserting(t) /\ older'[t] = older[t]
    BY <1>4, BeginInsertFacts
  <2>2. Stamped(t)' = Stamped(t)
    BY <2>1 DEF Stamped
  <2>3. QED BY <2>1, <2>2 DEF RowsOK, StrictOrder, Ahead
<1>5. ASSUME NEW t \in Tier, t = join[u].tier
      PROVE  StrictOrder(t)' /\ RowsOf(t)' \cap Inserting(t)' = {}
  <2>1. /\ RowsOf(t)' = RowsOf(t) /\ Inserting(t)' = Inserting(t) \cup {u}
        /\ older'[t] = older[t] \cup (Stamped(t) \X {u}) /\ u \notin Stamped(t)
    BY <1>5, BeginInsertFacts
  <2>2. Stamped(t)' = Stamped(t) \cup {u}
    BY <2>1 DEF Stamped
  <2>3. StrictOrder(t) /\ RowsOf(t) \cap Inserting(t) = {}
    BY DEF RowsOK
  <2>4. \A v, x : Ahead(v, x, t)' <=> Ahead(v, x, t) \/ (v \in Stamped(t) /\ x = u)
    BY <2>1 DEF Ahead
  <2>5. \A v, x : Ahead(v, x, t) => v \in Stamped(t) /\ x \in Stamped(t)
    BY <2>3 DEF StrictOrder, Ahead
  <2>6. older'[t] \subseteq Stamped(t)' \X Stamped(t)'
    BY <2>1, <2>2, <2>3 DEF StrictOrder
  <2>7. \A v \in Stamped(t)' : ~Ahead(v, v, t)'
    BY <2>1, <2>2, <2>3, <2>4, <2>5 DEF StrictOrder
  <2>8. \A v, x \in Stamped(t)' : v # x => Ahead(v, x, t)' \/ Ahead(x, v, t)'
    BY <2>2, <2>3, <2>4 DEF StrictOrder
  <2>9. \A v, x, y \in Stamped(t)' : Ahead(v, x, t)' /\ Ahead(x, y, t)' => Ahead(v, y, t)'
    BY <2>1, <2>2, <2>3, <2>4, <2>5 DEF StrictOrder
  <2>10. StrictOrder(t)'
    BY <2>6, <2>7, <2>8, <2>9 DEF StrictOrder
  <2>11. RowsOf(t)' \cap Inserting(t)' = {}
    BY <2>1, <2>3 DEF Stamped
  <2>12. QED BY <2>10, <2>11
<1>6. QED BY <1>2, <1>3, <1>4, <1>5 DEF RowsOK

\* The row becomes visible where its created_at has put it.
LEMMA CommitInsertFacts ==
  ASSUME RowsOK, HandsOK, NEW u \in User, CommitInsert(u)
  PROVE  /\ \A x \in Row : entry[x] # "none" => entry'[x] = entry[x]
         /\ \A x \in Row : entry'[x] # entry[x] => entry'[x] = "waiting"
         /\ \A t \in Tier : /\ RowsOf(t) \subseteq RowsOf(t)'
                            /\ Stamped(t)' = Stamped(t) /\ InLine(t)' = InLine(t)
                            /\ RowsOf(t)' \cap Inserting(t)' = {}
<1>0. PICK n \in Tier : n = join[u].tier
  BY DEF HandsOK, Joins
<1>1. /\ u \in Inserting(n) /\ <<u, n>> \in Row
      /\ entry' = [entry EXCEPT ![<<u, n>>] = "waiting"]
      /\ join' = [join EXCEPT ![u] = NoJoin]
  BY <1>0 DEF CommitInsert, Inserting, Row
<1>2. entry[<<u, n>>] = "none"
  BY <1>1 DEF RowsOK, RowsOf
<1>3. \A x \in Row : entry'[x] = IF x = <<u, n>> THEN "waiting" ELSE entry[x]
  BY <1>1 DEF RowsOK
<1>4. join'[u].step = "out" /\ \A v \in User \ {u} : join'[v] = join[v]
  BY <1>1 DEF HandsOK, NoJoin
<1>5. ASSUME NEW t \in Tier
      PROVE  /\ Inserting(t)' = Inserting(t) \ {u}
             /\ RowsOf(t)' = IF t = n THEN RowsOf(t) \cup {u} ELSE RowsOf(t)
             /\ WaitingAt(t)' = IF t = n THEN WaitingAt(t) \cup {u} ELSE WaitingAt(t)
             /\ t # n => u \notin Inserting(t)
  <2>1. Inserting(t)' = Inserting(t) \ {u}
    BY <1>4 DEF Inserting
  <2>2. \A v \in User : entry'[<<v, t>>] = IF v = u /\ t = n THEN "waiting" ELSE entry[<<v, t>>]
    BY <1>3 DEF Row
  <2>3. QED BY <1>0, <2>1, <2>2 DEF RowsOf, WaitingAt, Inserting
<1>6. ASSUME NEW t \in Tier
      PROVE  /\ RowsOf(t) \subseteq RowsOf(t)'
             /\ Stamped(t)' = Stamped(t) /\ InLine(t)' = InLine(t)
             /\ RowsOf(t)' \cap Inserting(t)' = {}
  <2>1. RowsOf(t) \cap Inserting(t) = {}
    BY DEF RowsOK
  <2>2. QED BY <1>1, <1>5, <2>1 DEF Stamped, InLine
<1>7. QED BY <1>2, <1>3, <1>6

\* Nobody changes places when a row becomes visible.
LEMMA CommitInsertKeepsRows ==
  ASSUME RowsOK, HandsOK, NEW u \in User, CommitInsert(u)
  PROVE  RowsOK'
<1>1. older' = older /\ mailed' = mailed
  BY DEF CommitInsert
<1>2. entry' \in [Row -> EntryStatus]
  BY DEF CommitInsert, RowsOK, EntryStatus
<1>3. \A x \in Row : entry[x] = "notified" => entry'[x] = "notified"
  BY CommitInsertFacts
<1>4. mailed' \subseteq Notified'
  BY <1>1, <1>3 DEF RowsOK, Notified
<1>5. \A t \in Tier : Stamped(t)' = Stamped(t) /\ RowsOf(t)' \cap Inserting(t)' = {}
  BY CommitInsertFacts
<1>6. QED BY <1>1, <1>2, <1>4, <1>5 DEF RowsOK, StrictOrder, Ahead

\* A request that fails takes back what its INSERT has done.
LEMMA FailJoinFacts ==
  ASSUME RowsOK, HandsOK, NEW u \in User, FailJoin(u), NEW t \in Tier
  PROVE  /\ RowsOf(t)' = RowsOf(t) /\ WaitingAt(t)' = WaitingAt(t)
         /\ Inserting(t)' = Inserting(t) \ {u}
         /\ older'[t] = {p \in older[t] : u \in Inserting(t) => p[1] # u /\ p[2] # u}
<1>1. entry' = entry /\ join' = [join EXCEPT ![u] = NoJoin]
      /\ older' = [s \in Tier |-> {p \in older[s] : u \in Inserting(s) => p[1] # u /\ p[2] # u}]
  BY DEF FailJoin
<1>2. join'[u].step = "out" /\ \A v \in User \ {u} : join'[v] = join[v]
  BY <1>1 DEF HandsOK, NoJoin
<1>3. Inserting(t)' = Inserting(t) \ {u}
  BY <1>2 DEF Inserting
<1>4. RowsOf(t)' = RowsOf(t) /\ WaitingAt(t)' = WaitingAt(t)
  BY <1>1 DEF RowsOf, WaitingAt
<1>5. older'[t] = {p \in older[t] : u \in Inserting(t) => p[1] # u /\ p[2] # u}
  BY <1>1
<1>6. QED BY <1>3, <1>4, <1>5

\* The others keep their order.
LEMMA FailJoinKeepsRows ==
  ASSUME RowsOK, HandsOK, NEW u \in User, FailJoin(u)
  PROVE  RowsOK'
<1>1. entry' = entry /\ mailed' = mailed
  BY DEF FailJoin
<1>2. entry' \in [Row -> EntryStatus] /\ mailed' \subseteq Notified'
  BY <1>1 DEF RowsOK, Notified
<1>3. older' \in [Tier -> SUBSET (User \X User)]
  BY DEF FailJoin, RowsOK
<1>4. ASSUME NEW t \in Tier PROVE StrictOrder(t)' /\ RowsOf(t)' \cap Inserting(t)' = {}
  <2>1. /\ RowsOf(t)' = RowsOf(t) /\ Inserting(t)' = Inserting(t) \ {u}
        /\ older'[t] = {p \in older[t] : u \in Inserting(t) => p[1] # u /\ p[2] # u}
    BY FailJoinFacts
  <2>2. StrictOrder(t) /\ RowsOf(t) \cap Inserting(t) = {}
    BY DEF RowsOK
  <2>3. Stamped(t)' = {v \in Stamped(t) : u \in Inserting(t) => v # u}
    BY <2>1, <2>2 DEF Stamped
  <2>4. StrictOrder(t)'
    BY <2>1, <2>2, <2>3 DEF StrictOrder, Ahead
  <2>5. QED BY <2>1, <2>2, <2>4
<1>5. QED BY <1>2, <1>3, <1>4 DEF RowsOK

\* The rows that are left keep their order.
LEMMA DeleteKeepsRows ==
  ASSUME RowsOK, HandsOK, NEW gone \in SUBSET Row, DeleteRows(gone), join' = join,
         \A x \in gone : entry[x] # "none"
  PROVE  /\ RowsOK'
         /\ \A t \in Tier : RowsOf(t)' = {u \in RowsOf(t) : <<u, t>> \notin gone}
         /\ \A t \in Tier : \A u \in InLine(t)' : u \in InLine(t) /\ <<u, t>> \notin gone
         /\ \A x \in Row : entry'[x] = IF x \in gone THEN "none" ELSE entry[x]
<1>1. entry' \in [Row -> EntryStatus] /\ older' \in [Tier -> SUBSET (User \X User)]
  BY DEF DeleteRows, RowsOK, EntryStatus
<1>2. Notified' = Notified \ gone
  BY DEF DeleteRows, Notified
<1>3. \A t \in Tier : RowsOf(t)' = {u \in RowsOf(t) : <<u, t>> \notin gone}
  BY DEF DeleteRows, RowsOf, Row
<1>4. \A t \in Tier : Inserting(t)' = Inserting(t)
  BY DEF Inserting
<1>5. \A t \in Tier : \A u \in Inserting(t) : <<u, t>> \notin gone
  BY DEF RowsOK, RowsOf, Inserting
<1>6. ASSUME NEW t \in Tier PROVE StrictOrder(t)' /\ RowsOf(t)' \cap Inserting(t)' = {}
  <2>1. older'[t] = {p \in older[t] : <<p[1], t>> \notin gone /\ <<p[2], t>> \notin gone}
    BY DEF DeleteRows
  <2>2. StrictOrder(t) /\ RowsOf(t) \cap Inserting(t) = {}
    BY DEF RowsOK
  <2>3. Stamped(t)' = {u \in Stamped(t) : <<u, t>> \notin gone}
    BY <1>3, <1>4, <1>5 DEF Stamped
  <2>4. StrictOrder(t)'
    BY <2>1, <2>2, <2>3 DEF StrictOrder, Ahead
  <2>5. QED BY <1>3, <1>4, <2>2, <2>4
<1>7. ASSUME NEW t \in Tier, NEW u \in InLine(t)' PROVE u \in InLine(t) /\ <<u, t>> \notin gone
  <2>1. \A v \in WaitingAt(t)' : v \in WaitingAt(t) /\ <<v, t>> \notin gone
    BY DEF DeleteRows, WaitingAt, Row
  <2>2. QED BY <1>4, <1>5, <2>1 DEF InLine
<1>8. mailed' \subseteq Notified'
  BY <1>2 DEF DeleteRows, RowsOK
<1>9. \A x \in Row : entry'[x] = IF x \in gone THEN "none" ELSE entry[x]
  BY DEF DeleteRows
<1>10. QED BY <1>1, <1>3, <1>6, <1>7, <1>8, <1>9 DEF RowsOK

-----------------------------------------------------------------------------
(***************************************************************************)
(* What the steps do to the workers.                                       *)
(***************************************************************************)

\* A request and a worker with nothing in their hands are typed.
LEMMA IdleTyped == NoJoin \in Joins /\ Free \in Tasks /\ Free.step = "idle"
<1>1. AnyTier \in Tier /\ Organizer \in User
  BY PeopleAssumption DEF AnyTier
<1>2. QED BY <1>1 DEF NoJoin, Joins, Free, Tasks

\* One worker's record is replaced.
LEMMA OneWorkerMoves ==
  ASSUME worker \in [Worker -> Tasks], NEW w \in Worker, NEW r \in Tasks,
         worker' = [worker EXCEPT ![w] = r]
  PROVE  /\ worker' \in [Worker -> Tasks]
         /\ worker'[w] = r
         /\ \A v \in Worker \ {w} : worker'[v] = worker[v]
  OBVIOUS

\* A worker with a task knows its tier, the rows that wait and the open INSERTs.
LEMMA StartMoves ==
  ASSUME worker \in [Worker -> Tasks], NEW w \in Worker, NEW t \in Tier, StartPromotion(w, t)
  PROVE  /\ worker' \in [Worker -> Tasks]
         /\ worker'[w].step = "picking" /\ worker'[w].tier = t
         /\ worker'[w].seen = WaitingAt(t) /\ worker'[w].late = Inserting(t)
         /\ \A v \in Worker \ {w} : worker'[v] = worker[v]
<1> DEFINE r == [Free EXCEPT !.step = "picking", !.tier = t,
                             !.seen = WaitingAt(t), !.late = Inserting(t)]
<1>1. WaitingAt(t) \in SUBSET User /\ Inserting(t) \in SUBSET User
  BY DEF WaitingAt, Inserting
<1>2. r \in Tasks /\ r.step = "picking" /\ r.tier = t /\ r.seen = WaitingAt(t)
      /\ r.late = Inserting(t)
  <2>1. Free \in Tasks
    BY IdleTyped
  <2>2. QED BY <1>1, <2>1 DEF Tasks
<1>3. worker' = [worker EXCEPT ![w] = r]
  BY DEF StartPromotion
<1> HIDE DEF r
<1>4. QED BY <1>2, <1>3, OneWorkerMoves

\* A worker that gets a row's lock keeps the row in mind.
LEMMA LockMoves ==
  ASSUME worker \in [Worker -> Tasks], NEW w \in Worker, NEW u \in User, LockFirst(w, u)
  PROVE  /\ worker' \in [Worker -> Tasks]
         /\ worker'[w].step = "holding" /\ worker'[w].tier = worker[w].tier
         /\ worker'[w].user = u /\ worker'[w].late = worker[w].late
         /\ \A v \in Worker \ {w} : worker'[v] = worker[v]
<1> DEFINE r == [worker[w] EXCEPT !.step = "holding", !.user = u, !.seen = {}]
<1>1. worker[w] \in Tasks
  OBVIOUS
<1>2. r \in Tasks /\ r.step = "holding" /\ r.tier = worker[w].tier /\ r.user = u
      /\ r.late = worker[w].late
  BY <1>1 DEF Tasks
<1>3. worker' = [worker EXCEPT ![w] = r]
  BY DEF LockFirst
<1> HIDE DEF r
<1>4. QED BY <1>2, <1>3, OneWorkerMoves

\* After its commit the worker has the mail to send.
LEMMA CommitMoves ==
  ASSUME worker \in [Worker -> Tasks], NEW w \in Worker, CommitOffer(w)
  PROVE  /\ worker' \in [Worker -> Tasks]
         /\ worker'[w].step = "mailing" /\ worker'[w].tier = worker[w].tier
         /\ worker'[w].user = worker[w].user
         /\ \A v \in Worker \ {w} : worker'[v] = worker[v]
<1> DEFINE r == [worker[w] EXCEPT !.step = "mailing", !.late = {}]
<1>1. worker[w] \in Tasks
  OBVIOUS
<1>2. r \in Tasks /\ r.step = "mailing" /\ r.tier = worker[w].tier /\ r.user = worker[w].user
  BY <1>1 DEF Tasks
<1>3. worker' = [worker EXCEPT ![w] = r]
  BY DEF CommitOffer
<1> HIDE DEF r
<1>4. QED BY <1>2, <1>3, OneWorkerMoves

\* A worker that is done, or has failed, is idle.
LEMMA DoneMoves ==
  ASSUME worker \in [Worker -> Tasks], NEW w \in Worker,
         NobodyWaits(w) \/ MailOffer(w) \/ FailPromotion(w)
  PROVE  /\ worker' \in [Worker -> Tasks]
         /\ worker'[w].step = "idle"
         /\ \A v \in Worker \ {w} : worker'[v] = worker[v]
<1>1. worker' = [worker EXCEPT ![w] = Free]
  BY DEF NobodyWaits, MailOffer, FailPromotion
<1>2. QED BY <1>1, IdleTyped, OneWorkerMoves

\* Deleted rows disappear from what the workers have seen, and nothing else does.
LEMMA DeleteMoves ==
  ASSUME worker \in [Worker -> Tasks], NEW gone, DeleteRows(gone)
  PROVE  /\ worker' \in [Worker -> Tasks]
         /\ \A w \in Worker :
              /\ worker'[w].step = worker[w].step /\ worker'[w].tier = worker[w].tier
              /\ worker'[w].user = worker[w].user /\ worker'[w].late = worker[w].late
              /\ worker'[w].seen = {u \in worker[w].seen : <<u, worker[w].tier>> \notin gone}
<1>1. ASSUME NEW w \in Worker
      PROVE  /\ worker'[w] \in Tasks
             /\ worker'[w].step = worker[w].step /\ worker'[w].tier = worker[w].tier
             /\ worker'[w].user = worker[w].user /\ worker'[w].late = worker[w].late
             /\ worker'[w].seen = {u \in worker[w].seen : <<u, worker[w].tier>> \notin gone}
  <2> DEFINE left == {u \in worker[w].seen : <<u, worker[w].tier>> \notin gone}
  <2>1. worker[w] \in Tasks
    OBVIOUS
  <2>2. left \in SUBSET User
    BY <2>1 DEF Tasks
  <2>3. worker'[w] = [worker[w] EXCEPT !.seen = left]
    BY DEF DeleteRows
  <2> HIDE DEF left
  <2>4. worker'[w] \in Tasks /\ worker'[w].step = worker[w].step
        /\ worker'[w].tier = worker[w].tier /\ worker'[w].user = worker[w].user /\ worker'[w].late = worker[w].late
        /\ worker'[w].seen = left
    BY <2>1, <2>2, <2>3 DEF Tasks
  <2>5. QED BY <2>4 DEF left
<1>2. worker' = [w \in Worker |-> worker'[w]]
  BY DEF DeleteRows
<1>3. QED BY <1>1, <1>2

\* What a step does to rows, open INSERTs and workers; the sale, the queue and
\* the requests that have not come to their INSERT do nothing to them.
LEMMA WaitKinds ==
  ASSUME HandsOK, [WaitNext]_waitVars
  PROVE  \/ \E u \in User : BeginInsert(u) \/ CommitInsert(u) \/ FailJoin(u)
         \/ \E gone \in SUBSET Row :
              /\ DeleteRows(gone) /\ join' = join
              /\ \A x \in gone : entry[x] # "none" /\ ~RowLocked(x)
         \/ ExpireReservations
         \/ \E w \in Worker, t \in Tier : StartPromotion(w, t)
         \/ \E w \in Worker, u \in User : LockFirst(w, u)
         \/ \E w \in Worker : CommitOffer(w)
         \/ \E w \in Worker : NobodyWaits(w) \/ MailOffer(w) \/ FailPromotion(w)
         \/ /\ UNCHANGED <<older, entry, worker, mailed>>
            /\ \A t \in Tier : Inserting(t)' = Inserting(t)
<1>0. ASSUME join' = join PROVE \A t \in Tier : Inserting(t)' = Inserting(t)
  BY <1>0 DEF Inserting
<1>1. CASE UNCHANGED waitVars
  BY <1>0, <1>1 DEF waitVars, lineVars
<1>2. CASE SalesStep
  BY <1>0, <1>2 DEF SalesStep, lineVars
<1>3. CASE DeleteByEvent
  <2>1. CASE UNCHANGED <<older, entry, worker, mailed>>
    BY <1>0, <1>3, <2>1 DEF DeleteByEvent
  <2>2. CASE (\A x \in Row : ~RowLocked(x)) /\ DeleteRows({x \in Row : entry[x] # "none"})
    <3>1. {x \in Row : entry[x] # "none"} \in SUBSET Row
      OBVIOUS
    <3>2. QED BY <1>3, <2>2, <3>1 DEF DeleteByEvent
  <2>3. QED BY <1>3, <2>1, <2>2 DEF DeleteByEvent
<1>4. ASSUME NEW u \in User, NEW t \in Tier, LeaveWaitlist(u, t)
      PROVE  \E gone \in SUBSET Row :
               /\ DeleteRows(gone) /\ join' = join
               /\ \A x \in gone : entry[x] # "none" /\ ~RowLocked(x)
  <2>1. {<<u, t>>} \in SUBSET Row
    BY DEF Row
  <2>2. QED BY <1>4, <2>1 DEF LeaveWaitlist
<1>5. ASSUME NEW u \in User,
             \/ BeginJoin(u) \/ SeeNoPurchase(u) \/ RefuseJoin(u)
             \/ \E t \in Tier : SeeSoldOut(u, t)
      PROVE  /\ UNCHANGED <<older, entry, worker, mailed>>
             /\ \A t \in Tier : Inserting(t)' = Inserting(t)
  <2>1. UNCHANGED <<older, entry, worker, mailed>>
    BY <1>5 DEF BeginJoin, SeeNoPurchase, RefuseJoin, SeeSoldOut
  <2>2. QED BY <1>5, <2>1, QuietJoins
<1>6. CASE WaitNext
  BY <1>2, <1>3, <1>4, <1>5, <1>6 DEF WaitNext, WaitStep, PromotionStep
<1>7. QED BY <1>1, <1>6

-----------------------------------------------------------------------------
(***************************************************************************)
(* Promotion is in order.                                                  *)
(***************************************************************************)

\* Whoever opens an INSERT comes after every row there is.
LEMMA BeginInsertTurns ==
  ASSUME RowsOK, HandsOK, PromotionInv, NEW u \in User, BeginInsert(u)
  PROVE  PromotionInv'
<1>0. /\ worker \in [Worker -> Tasks] /\ worker' = worker /\ entry' = entry
      /\ \A w \in Worker : /\ worker[w].tier \in Tier /\ worker[w].user \in User
                           /\ <<worker[w].user, worker[w].tier>> \in Row
  BY DEF BeginInsert, HandsOK, Tasks, Row
<1>1. OneWorkerPerRow'
  BY <1>0 DEF PromotionInv, OneWorkerPerRow
<1>2. ASSUME NEW t \in Tier
      PROVE  /\ RowsOf(t)' = RowsOf(t) /\ InLine(t)' \subseteq InLine(t) \cup {u}
             /\ \A v, x : Ahead(v, x, t) => Ahead(v, x, t)'
             /\ u \in InLine(t)' \ InLine(t) => \A s \in RowsOf(t) : Ahead(s, u, t)'
  <2>1. CASE t # join[u].tier
    BY <2>1, BeginInsertFacts DEF InLine, Ahead
  <2>2. CASE t = join[u].tier
    <3>1. /\ RowsOf(t)' = RowsOf(t) /\ WaitingAt(t)' = WaitingAt(t)
          /\ Inserting(t)' = Inserting(t) \cup {u}
          /\ older'[t] = older[t] \cup (Stamped(t) \X {u})
      BY <2>2, BeginInsertFacts
    <3>2. RowsOf(t) \subseteq Stamped(t)
      BY DEF Stamped
    <3>3. \A s \in RowsOf(t) : Ahead(s, u, t)'
      BY <3>1, <3>2 DEF Ahead
    <3>4. QED BY <3>1, <3>3 DEF InLine, Ahead
  <2>3. QED BY <2>1, <2>2
<1>3. ASSUME NEW w \in Worker, NEW t \in Tier, t = worker[w].tier, worker[w].step = "picking"
      PROVE  /\ worker[w].seen \subseteq RowsOf(t)'
             /\ \A s \in worker[w].seen, v \in InLine(t)' \ worker[w].seen :
                  Ahead(s, v, t)' \/ v \in worker[w].late
  <2>1. /\ worker[w].seen \subseteq RowsOf(t)
        /\ \A s \in worker[w].seen, v \in InLine(t) \ worker[w].seen :
             Ahead(s, v, t) \/ v \in worker[w].late
    BY <1>3 DEF PromotionInv, TurnsInOrder
  <2>2. QED BY <1>2, <2>1
<1>4. ASSUME NEW w \in Worker, NEW t \in Tier, t = worker[w].tier,
             NEW s \in User, s = worker[w].user, worker[w].step = "holding"
      PROVE  \A v \in InLine(t)' \ {s} : Ahead(s, v, t)' \/ v \in worker[w].late
  <2>1. \A v \in InLine(t) \ {s} : Ahead(s, v, t) \/ v \in worker[w].late
    BY <1>4 DEF PromotionInv, TurnsInOrder
  <2>2. s \in RowsOf(t)
    BY <1>4 DEF PromotionInv, OneWorkerPerRow, RowsOf
  <2>3. QED BY <1>2, <2>1, <2>2
<1>5. TurnsInOrder'
  BY <1>0, <1>3, <1>4 DEF TurnsInOrder
<1>6. QED BY <1>1, <1>5 DEF PromotionInv

\* A row that becomes visible was in line before, and one whose INSERT fails
\* leaves the order of the others alone.
LEMMA EndInsertTurns ==
  ASSUME RowsOK, HandsOK, PromotionInv, NEW u \in User, CommitInsert(u) \/ FailJoin(u)
  PROVE  PromotionInv'
<1>0. /\ worker \in [Worker -> Tasks] /\ worker' = worker
      /\ \A w \in Worker : /\ worker[w].tier \in Tier /\ worker[w].user \in User
                           /\ <<worker[w].user, worker[w].tier>> \in Row
  BY DEF CommitInsert, FailJoin, HandsOK, Tasks, Row
<1>1. \A x \in Row : entry[x] = "waiting" => entry'[x] = "waiting"
  BY CommitInsertFacts DEF FailJoin
<1>2. OneWorkerPerRow'
  BY <1>0, <1>1 DEF PromotionInv, OneWorkerPerRow
<1>3. ASSUME NEW t \in Tier
      PROVE  /\ RowsOf(t) \subseteq RowsOf(t)' /\ InLine(t)' \subseteq InLine(t)
             /\ \A s \in RowsOf(t), v \in InLine(t)' : Ahead(s, v, t) => Ahead(s, v, t)'
  <2>1. CASE CommitInsert(u)
    <3>1. older' = older
      BY <2>1 DEF CommitInsert
    <3>2. QED BY <2>1, <3>1, CommitInsertFacts DEF Ahead
  <2>2. CASE FailJoin(u)
    <3>1. /\ RowsOf(t)' = RowsOf(t) /\ WaitingAt(t)' = WaitingAt(t)
          /\ Inserting(t)' = Inserting(t) \ {u}
          /\ older'[t] = {p \in older[t] : u \in Inserting(t) => p[1] # u /\ p[2] # u}
      BY <2>2, FailJoinFacts
    <3>2. RowsOf(t) \cap Inserting(t) = {} /\ WaitingAt(t) \subseteq RowsOf(t)
      BY DEF RowsOK, WaitingAt, RowsOf
    <3>3. u \in Inserting(t) => u \notin RowsOf(t) /\ u \notin InLine(t)'
      BY <3>1, <3>2 DEF InLine
    <3>4. InLine(t)' \subseteq InLine(t)
      BY <3>1 DEF InLine
    <3>5. QED BY <3>1, <3>3, <3>4 DEF Ahead
  <2>3. QED BY <2>1, <2>2
<1>4. ASSUME NEW w \in Worker, NEW t \in Tier, t = worker[w].tier, worker[w].step = "picking"
      PROVE  /\ worker[w].seen \subseteq RowsOf(t)'
             /\ \A s \in worker[w].seen, v \in InLine(t)' \ worker[w].seen :
                  Ahead(s, v, t)' \/ v \in worker[w].late
  <2>1. /\ worker[w].seen \subseteq RowsOf(t)
        /\ \A s \in worker[w].seen, v \in InLine(t) \ worker[w].seen :
             Ahead(s, v, t) \/ v \in worker[w].late
    BY <1>4 DEF PromotionInv, TurnsInOrder
  <2>2. QED BY <1>3, <2>1
<1>5. ASSUME NEW w \in Worker, NEW t \in Tier, t = worker[w].tier,
             NEW s \in User, s = worker[w].user, worker[w].step = "holding"
      PROVE  \A v \in InLine(t)' \ {s} : Ahead(s, v, t)' \/ v \in worker[w].late
  <2>1. \A v \in InLine(t) \ {s} : Ahead(s, v, t) \/ v \in worker[w].late
    BY <1>5 DEF PromotionInv, TurnsInOrder
  <2>2. s \in RowsOf(t)
    BY <1>5 DEF PromotionInv, OneWorkerPerRow, RowsOf
  <2>3. QED BY <1>3, <2>1, <2>2
<1>6. TurnsInOrder'
  BY <1>0, <1>4, <1>5 DEF TurnsInOrder
<1>7. QED BY <1>2, <1>6 DEF PromotionInv

\* Rows that go leave the others' order alone, and none of them is locked.
LEMMA DeleteTurns ==
  ASSUME RowsOK, HandsOK, PromotionInv, NEW gone \in SUBSET Row, DeleteRows(gone), join' = join,
         \A x \in gone : entry[x] # "none" /\ ~RowLocked(x)
  PROVE  PromotionInv'
<1>0. /\ worker \in [Worker -> Tasks]
      /\ \A w \in Worker : /\ worker[w].tier \in Tier /\ worker[w].user \in User
                           /\ <<worker[w].user, worker[w].tier>> \in Row
  BY DEF HandsOK, Tasks, Row
<1>1. \A t \in Tier : /\ RowsOf(t)' = {u \in RowsOf(t) : <<u, t>> \notin gone}
                     /\ \A u \in InLine(t)' : u \in InLine(t) /\ <<u, t>> \notin gone
  BY DeleteKeepsRows
<1>2. \A x \in Row : entry'[x] = IF x \in gone THEN "none" ELSE entry[x]
  BY DeleteKeepsRows
<1>3. \A w \in Worker :
        /\ worker'[w].step = worker[w].step /\ worker'[w].tier = worker[w].tier
        /\ worker'[w].user = worker[w].user /\ worker'[w].late = worker[w].late
        /\ worker'[w].seen = {u \in worker[w].seen : <<u, worker[w].tier>> \notin gone}
  BY <1>0, DeleteMoves
<1>4. \A w \in Worker : worker[w].step = "holding" =>
        <<worker[w].user, worker[w].tier>> \notin gone
  BY DEF RowLocked
<1>5. OneWorkerPerRow'
  BY <1>0, <1>2, <1>3, <1>4 DEF PromotionInv, OneWorkerPerRow
<1>6. \A t \in Tier : \A u, v : Ahead(u, v, t) /\ <<u, t>> \notin gone /\ <<v, t>> \notin gone
        => Ahead(u, v, t)'
  BY DEF DeleteRows, Ahead
<1>7. ASSUME NEW w \in Worker, NEW t \in Tier, t = worker[w].tier, worker[w].step = "picking"
      PROVE  /\ worker'[w].seen \subseteq RowsOf(t)'
             /\ \A s \in worker'[w].seen, v \in InLine(t)' \ worker'[w].seen :
                  Ahead(s, v, t)' \/ v \in worker'[w].late
  <2>1. /\ worker[w].seen \subseteq RowsOf(t)
        /\ \A s \in worker[w].seen, v \in InLine(t) \ worker[w].seen :
             Ahead(s, v, t) \/ v \in worker[w].late
    BY <1>7 DEF PromotionInv, TurnsInOrder
  <2>2. /\ worker'[w].seen = {u \in worker[w].seen : <<u, t>> \notin gone}
        /\ worker'[w].late = worker[w].late
    BY <1>3, <1>7
  <2>3. QED BY <1>1, <1>6, <2>1, <2>2
<1>8. ASSUME NEW w \in Worker, NEW t \in Tier, t = worker[w].tier,
             NEW s \in User, s = worker[w].user, worker[w].step = "holding"
      PROVE  \A v \in InLine(t)' \ {s} : Ahead(s, v, t)' \/ v \in worker'[w].late
  <2>1. \A v \in InLine(t) \ {s} : Ahead(s, v, t) \/ v \in worker[w].late
    BY <1>8 DEF PromotionInv, TurnsInOrder
  <2>2. <<s, t>> \notin gone /\ worker'[w].late = worker[w].late
    BY <1>3, <1>4, <1>8
  <2>3. QED BY <1>1, <1>6, <2>1, <2>2
<1>9. TurnsInOrder'
  BY <1>0, <1>3, <1>7, <1>8 DEF TurnsInOrder
<1>10. QED BY <1>5, <1>9 DEF PromotionInv

\* Two workers never hold one row and each works in the order of the line: every
\* kind of step keeps both.
LEMMA StepPromotions ==
  ASSUME RowsOK, HandsOK, PromotionInv, [WaitNext]_waitVars
  PROVE  PromotionInv'
<1> USE DEF PromotionInv
<1>0. /\ worker \in [Worker -> Tasks] /\ entry \in [Row -> EntryStatus]
      /\ \A w \in Worker : /\ worker[w].tier \in Tier /\ worker[w].user \in User
                           /\ <<worker[w].user, worker[w].tier>> \in Row
  BY DEF HandsOK, RowsOK, Tasks, Row
\* What is left inserts and deletes no row, and the order is what it was.
<1>1. ASSUME older' = older, join' = join,
             \A x \in Row : /\ entry'[x] = "none" <=> entry[x] = "none"
                            /\ entry'[x] = "waiting" => entry[x] = "waiting"
      PROVE  /\ \A t \in Tier : RowsOf(t)' = RowsOf(t) /\ InLine(t)' \subseteq InLine(t)
             /\ \A t \in Tier : \A u, v : Ahead(u, v, t)' <=> Ahead(u, v, t)
  BY <1>1 DEF RowsOf, WaitingAt, Inserting, InLine, Row, Ahead
<1>2. CASE ExpireReservations
  <2>1. older' = older /\ worker' = worker /\ join' = join
    BY <1>2 DEF ExpireReservations
  <2>2. \A x \in Row : /\ entry'[x] = "none" <=> entry[x] = "none"
                       /\ entry'[x] = "waiting" <=> entry[x] = "waiting"
    BY <1>0, <1>2 DEF ExpireReservations, Notified
  <2>3. OneWorkerPerRow'
    BY <1>0, <2>1, <2>2 DEF OneWorkerPerRow
  <2>4. TurnsInOrder'
    BY <1>0, <1>1, <2>1, <2>2 DEF TurnsInOrder
  <2>5. QED BY <2>3, <2>4
<1>3. ASSUME NEW w \in Worker, NEW t \in Tier, StartPromotion(w, t) PROVE PromotionInv'
  <2>1. /\ worker'[w].step = "picking" /\ worker'[w].tier = t
        /\ worker'[w].seen = WaitingAt(t) /\ worker'[w].late = Inserting(t)
        /\ \A v \in Worker \ {w} : worker'[v] = worker[v]
    BY <1>0, <1>3, StartMoves
  <2>2. UNCHANGED <<older, entry, join>>
    BY <1>3 DEF StartPromotion
  <2>3. OneWorkerPerRow'
    BY <2>1, <2>2 DEF OneWorkerPerRow
  <2>4. WaitingAt(t) \subseteq RowsOf(t) /\ InLine(t) \ WaitingAt(t) \subseteq Inserting(t)
    BY DEF WaitingAt, RowsOf, InLine
  <2>5. TurnsInOrder'
    BY <1>0, <1>1, <2>1, <2>2, <2>4 DEF TurnsInOrder
  <2>6. QED BY <2>3, <2>5
<1>4. ASSUME NEW w \in Worker, NEW u \in User, LockFirst(w, u) PROVE PromotionInv'
  <2>0. PICK t \in Tier : t = worker[w].tier
    BY <1>0
  <2>1. /\ worker'[w].step = "holding" /\ worker'[w].tier = t /\ worker'[w].user = u
        /\ worker'[w].late = worker[w].late
        /\ \A v \in Worker \ {w} : worker'[v] = worker[v]
    BY <1>0, <1>4, <2>0, LockMoves
  <2>2. UNCHANGED <<older, entry, join>> /\ worker[w].step = "picking"
        /\ u \in worker[w].seen /\ u \in WaitingAt(t)
        /\ ~RowLocked(<<u, t>>)
        /\ \A v \in (worker[w].seen \cap WaitingAt(t)) \ {u} : Ahead(u, v, t)
    BY <1>4, <2>0 DEF LockFirst, Candidates, IsFirst
  <2>3. entry[<<u, t>>] = "waiting"
    BY <2>2 DEF WaitingAt
  <2>4. OneWorkerPerRow'
    BY <1>0, <2>1, <2>2, <2>3 DEF OneWorkerPerRow, RowLocked
  <2>5. \A v \in InLine(t) \ {u} : Ahead(u, v, t) \/ v \in worker[w].late
    <3>1. /\ worker[w].seen \subseteq RowsOf(t)
          /\ \A v \in InLine(t) \ worker[w].seen : Ahead(u, v, t) \/ v \in worker[w].late
      BY <2>0, <2>2 DEF TurnsInOrder
    <3>2. RowsOf(t) \cap Inserting(t) = {}
      BY DEF RowsOK
    <3>3. InLine(t) \cap worker[w].seen \subseteq WaitingAt(t)
      BY <3>1, <3>2 DEF InLine
    <3>4. QED BY <2>2, <3>1, <3>3
  <2>6. TurnsInOrder'
    BY <1>0, <1>1, <2>1, <2>2, <2>5 DEF TurnsInOrder
  <2>7. QED BY <2>4, <2>6
<1>5. ASSUME NEW w \in Worker, CommitOffer(w) PROVE PromotionInv'
  <2>1. /\ worker'[w].step = "mailing"
        /\ \A v \in Worker \ {w} : worker'[v] = worker[v]
    BY <1>0, <1>5, CommitMoves
  <2>2. /\ older' = older /\ join' = join
        /\ entry' = [entry EXCEPT ![<<worker[w].user, worker[w].tier>>] = "notified"]
        /\ worker[w].step = "holding"
    BY <1>5 DEF CommitOffer
  <2>3. entry[<<worker[w].user, worker[w].tier>>] = "waiting"
    BY <2>2 DEF OneWorkerPerRow
  <2>4. \A x \in Row : entry'[x] = IF x = <<worker[w].user, worker[w].tier>> THEN "notified"
                                   ELSE entry[x]
    BY <1>0, <2>2
  <2>5. OneWorkerPerRow'
    BY <1>0, <2>1, <2>2, <2>4 DEF OneWorkerPerRow
  <2>6. TurnsInOrder'
    BY <1>0, <1>1, <2>1, <2>2, <2>3, <2>4 DEF TurnsInOrder
  <2>7. QED BY <2>5, <2>6
<1>6. ASSUME NEW w \in Worker, NobodyWaits(w) \/ MailOffer(w) \/ FailPromotion(w)
      PROVE  PromotionInv'
  <2>1. /\ worker'[w].step = "idle"
        /\ \A v \in Worker \ {w} : worker'[v] = worker[v]
    BY <1>0, <1>6, DoneMoves
  <2>2. UNCHANGED <<older, entry, join>>
    BY <1>6 DEF NobodyWaits, MailOffer, FailPromotion
  <2>3. OneWorkerPerRow'
    BY <2>1, <2>2 DEF OneWorkerPerRow
  <2>4. TurnsInOrder'
    BY <1>0, <1>1, <2>1, <2>2 DEF TurnsInOrder
  <2>5. QED BY <2>3, <2>4
<1>7. CASE UNCHANGED <<older, entry, worker, mailed>>
           /\ \A t \in Tier : Inserting(t)' = Inserting(t)
  <2>1. \A t \in Tier : RowsOf(t)' = RowsOf(t) /\ InLine(t)' = InLine(t)
    BY <1>7 DEF RowsOf, WaitingAt, InLine
  <2>2. \A t \in Tier : \A u, v : Ahead(u, v, t)' <=> Ahead(u, v, t)
    BY <1>7 DEF Ahead
  <2>3. OneWorkerPerRow'
    BY <1>7 DEF OneWorkerPerRow
  <2>4. TurnsInOrder'
    BY <1>0, <1>7, <2>1, <2>2 DEF TurnsInOrder
  <2>5. QED BY <2>3, <2>4
<1>8. QED
  BY <1>2, <1>3, <1>4, <1>5, <1>6, <1>7, BeginInsertTurns, EndInsertTurns, DeleteTurns, WaitKinds

-----------------------------------------------------------------------------
(***************************************************************************)
(* Types.                                                                  *)
(***************************************************************************)

\* The rows stay typed and strictly ordered by age.
LEMMA StepRows ==
  ASSUME RowsOK, HandsOK, PromotionInv, [WaitNext]_waitVars
  PROVE  RowsOK'
<1>0. /\ worker \in [Worker -> Tasks] /\ entry \in [Row -> EntryStatus]
      /\ \A w \in Worker : <<worker[w].user, worker[w].tier>> \in Row
      /\ mailed \subseteq Notified
  BY DEF HandsOK, RowsOK, Tasks, Row
<1>1. ASSUME UNCHANGED <<older, entry>>, mailed' \subseteq Notified',
             \A t \in Tier : Inserting(t)' = Inserting(t)
      PROVE  RowsOK'
  BY <1>0, <1>1, SameRows
<1>2. ASSUME UNCHANGED <<older, entry, mailed>>, \A t \in Tier : Inserting(t)' = Inserting(t)
      PROVE  RowsOK'
  BY <1>0, <1>1, <1>2 DEF Notified
<1>3. ASSUME join' = join PROVE \A t \in Tier : Inserting(t)' = Inserting(t)
  BY <1>3 DEF Inserting
<1>4. CASE ExpireReservations
  <2>1. PICK gone \in SUBSET Notified \ {{}} :
          /\ entry' = [x \in Row |-> IF x \in gone THEN "expired" ELSE entry[x]]
          /\ mailed' = mailed \ gone /\ older' = older /\ join' = join
    BY <1>4 DEF ExpireReservations
  <2>2. \A x \in gone : x \in Row /\ entry[x] = "notified"
    BY DEF Notified
  <2>3. entry' \in [Row -> EntryStatus]
    BY <1>0, <2>1 DEF EntryStatus
  <2>4. \A x \in Row : entry'[x] = "none" <=> entry[x] = "none"
    BY <2>1, <2>2
  <2>5. mailed' \subseteq Notified'
    BY <1>0, <2>1 DEF Notified
  <2>6. QED BY <1>3, <2>1, <2>3, <2>4, <2>5, SameRows
<1>5. ASSUME NEW w \in Worker, CommitOffer(w) PROVE RowsOK'
  <2> DEFINE x == <<worker[w].user, worker[w].tier>>
  <2>1. /\ x \in Row /\ older' = older /\ mailed' = mailed /\ join' = join
        /\ entry' = [entry EXCEPT ![x] = "notified"]
    BY <1>0, <1>5 DEF CommitOffer
  <2>2. entry[x] = "waiting"
    BY <1>5 DEF CommitOffer, PromotionInv, OneWorkerPerRow
  <2> HIDE DEF x
  <2>3. entry' \in [Row -> EntryStatus] /\ Notified \subseteq Notified'
    BY <1>0, <2>1 DEF EntryStatus, Notified
  <2>4. QED BY <1>0, <1>3, <2>1, <2>2, <2>3, SameRows
<1>6. ASSUME NEW w \in Worker, NobodyWaits(w) \/ MailOffer(w) \/ FailPromotion(w)
      PROVE  RowsOK'
  <2>1. UNCHANGED <<older, entry, join>> /\ mailed' \subseteq mailed \cup Notified
    BY <1>6 DEF NobodyWaits, MailOffer, FailPromotion
  <2>2. QED BY <1>0, <1>1, <1>3, <2>1 DEF Notified
<1>7. ASSUME NEW w \in Worker, NEW t \in Tier, StartPromotion(w, t) PROVE RowsOK'
  BY <1>2, <1>7, <1>3 DEF StartPromotion
<1>8. ASSUME NEW w \in Worker, NEW u \in User, LockFirst(w, u) PROVE RowsOK'
  BY <1>2, <1>8, <1>3 DEF LockFirst
<1>9. QED
  BY <1>2, <1>4, <1>5, <1>6, <1>7, <1>8, BeginInsertKeepsRows, CommitInsertKeepsRows,
     FailJoinKeepsRows, DeleteKeepsRows, WaitKinds

\* The workers' hands stay typed.
LEMMA StepWorkers ==
  ASSUME HandsOK, [WaitNext]_waitVars
  PROVE  worker' \in [Worker -> Tasks]
<1>1. worker \in [Worker -> Tasks]
  BY DEF HandsOK
<1>2. CASE \E u \in User : BeginInsert(u) \/ CommitInsert(u) \/ FailJoin(u)
  BY <1>1, <1>2 DEF BeginInsert, CommitInsert, FailJoin
<1>3. CASE ExpireReservations
  BY <1>1, <1>3 DEF ExpireReservations
<1>4. QED
  BY <1>1, <1>2, <1>3, DeleteMoves, StartMoves, LockMoves, CommitMoves, DoneMoves, WaitKinds

\* A tier's rows are finitely many.
LEMMA TierRowsFinite ==
  ASSUME NEW R \in SUBSET Row, NEW t \in Tier
  PROVE  /\ IsFiniteSet({x \in R : x[2] = t})
         /\ Cardinality({x \in R : x[2] = t}) \in Nat
<1>1. IsFiniteSet(User \X {t})
  BY FS_Product, FS_Singleton, PeopleAssumption
<1>2. {x \in R : x[2] = t} \in SUBSET (User \X {t})
  BY DEF Row
<1>3. IsFiniteSet({x \in R : x[2] = t})
  BY <1>1, <1>2, FS_Subset
<1>4. QED BY <1>3, FS_CardinalityType

\* The requests to join stay typed.
LEMMA StepJoins ==
  ASSUME HandsOK, NEW u \in User,
         \/ BeginJoin(u) \/ SeeNoPurchase(u) \/ RefuseJoin(u)
         \/ BeginInsert(u) \/ CommitInsert(u) \/ FailJoin(u)
         \/ \E t \in Tier : SeeSoldOut(u, t)
  PROVE  join' \in [User -> Joins]
<1>1. join \in [User -> Joins] /\ join[u] \in Joins
  BY DEF HandsOK
<1>2. ASSUME NEW j \in Joins, join' = [join EXCEPT ![u] = j] PROVE join' \in [User -> Joins]
  BY <1>1, <1>2
<1>3. ASSUME NEW step \in {"visible", "unheld", "inserting"}, JoinGoto(u, step)
      PROVE  join' \in [User -> Joins]
  <2> DEFINE j == [join[u] EXCEPT !.step = step]
  <2>1. j \in Joins
    BY <1>1 DEF Joins
  <2>2. join' = [join EXCEPT ![u] = j]
    BY <1>3 DEF JoinGoto
  <2> HIDE DEF j
  <2>3. QED BY <1>2, <2>1, <2>2
<1>4. CASE BeginJoin(u) \/ SeeNoPurchase(u) \/ BeginInsert(u)
  BY <1>3, <1>4 DEF BeginJoin, SeeNoPurchase, BeginInsert
<1>5. CASE RefuseJoin(u) \/ CommitInsert(u) \/ FailJoin(u)
  BY <1>2, <1>5, IdleTyped DEF RefuseJoin, CommitInsert, FailJoin
<1>6. ASSUME NEW t \in Tier, SeeSoldOut(u, t) PROVE join' \in [User -> Joins]
  <2>1. [step |-> "wanted", tier |-> t] \in Joins
    BY DEF Joins
  <2>2. QED BY <1>2, <1>6, <2>1 DEF SeeSoldOut
<1>7. QED BY <1>4, <1>5, <1>6

\* Requests, workers and the mark of a failure stay typed.
LEMMA StepHands ==
  ASSUME HandsOK, [WaitNext]_waitVars
  PROVE  HandsOK'
<1>0. join \in [User -> Joins] /\ mishap \in BOOLEAN /\ worker' \in [Worker -> Tasks]
  BY StepWorkers DEF HandsOK
<1>1. ASSUME join' \in [User -> Joins], mishap' \in BOOLEAN PROVE HandsOK'
  BY <1>0, <1>1 DEF HandsOK
<1>2. CASE UNCHANGED waitVars
  BY <1>0, <1>1, <1>2 DEF waitVars, lineVars
<1>3. ASSUME UNCHANGED mishap PROVE mishap' \in BOOLEAN
  BY <1>0, <1>3
<1>4. CASE UNCHANGED mishap /\ (SalesStep \/ DeleteByEvent \/ ExpireReservations)
  BY <1>0, <1>1, <1>3, <1>4 DEF SalesStep, DeleteByEvent, ExpireReservations, lineVars
<1>5. ASSUME NEW u \in User, UNCHANGED mishap,
             \/ BeginJoin(u) \/ SeeNoPurchase(u) \/ RefuseJoin(u)
             \/ BeginInsert(u) \/ CommitInsert(u) \/ FailJoin(u)
             \/ \E t \in Tier : SeeSoldOut(u, t)
      PROVE  HandsOK'
  BY <1>1, <1>3, <1>5, StepJoins
<1>6. ASSUME NEW u \in User, NEW t \in Tier, UNCHANGED mishap, LeaveWaitlist(u, t)
      PROVE  HandsOK'
  BY <1>0, <1>1, <1>3, <1>6 DEF LeaveWaitlist
<1>7. ASSUME NEW w \in Worker, UNCHANGED mishap,
             PromotionStep(w) \/ \E t \in Tier : StartPromotion(w, t)
      PROVE  HandsOK'
  BY <1>0, <1>1, <1>3, <1>7 DEF PromotionStep, LockFirst, NobodyWaits, CommitOffer, MailOffer,
     StartPromotion
<1>8. ASSUME NEW w \in Worker, FailPromotion(w) PROVE HandsOK'
  BY <1>0, <1>1, <1>8 DEF FailPromotion
<1>9. QED
  BY <1>2, <1>4, <1>5, <1>6, <1>7, <1>8 DEF WaitNext, WaitStep

-----------------------------------------------------------------------------
(***************************************************************************)
(* The invariant, and the order of promotion.                              *)
(***************************************************************************)

WaitInv == WaitTypeOK /\ SeatInv /\ PromotionInv

\* Nobody is on a waitlist, and no worker is busy, when the event is drafted.
LEMMA InitWaitInv == WaitInit => WaitInv
<1> SUFFICES ASSUME WaitInit PROVE WaitInv
  OBVIOUS
<1>1. TypeOK /\ SeatInv
  BY InitTypeOK, InitSeatInv DEF WaitInit
<1>2. \A w \in Worker : worker[w].step = "idle"
  BY IdleTyped DEF WaitInit
<1>3. RowsOK
  BY DEF WaitInit, RowsOK, EntryStatus, StrictOrder, Stamped, RowsOf, Inserting, NoJoin, Row, Notified
<1>4. HandsOK
  BY IdleTyped DEF WaitInit, HandsOK
<1>5. PromotionInv
  BY <1>2 DEF PromotionInv, OneWorkerPerRow, TurnsInOrder
<1>6. QED BY <1>1, <1>3, <1>4, <1>5, WaitTypeParts DEF WaitInv

\* The invariant is inductive.
LEMMA NextWaitInv == WaitInv /\ [WaitNext]_waitVars => WaitInv'
<1> SUFFICES ASSUME WaitInv, [WaitNext]_waitVars PROVE WaitInv'
  OBVIOUS
<1>1. TypeOK /\ SeatInv /\ RowsOK /\ HandsOK /\ PromotionInv
  BY WaitTypeParts DEF WaitInv
<1>2. TypeOK' /\ SeatInv'
  BY <1>1, WaitStepSales
<1>3. RowsOK' /\ HandsOK' /\ PromotionInv'
  BY <1>1, StepRows, StepHands, StepPromotions
<1>4. WaitTypeOK'
  BY <1>2, <1>3 DEF WaitTypeOK, RowsOK, HandsOK
<1>5. QED BY <1>2, <1>3, <1>4 DEF WaitInv

\* Rows, requests, workers and offers have their types, and created_at orders the
\* rows of a tier and its open INSERTs: one row per user, whoever comes, leaves,
\* fails and comes back.
THEOREM WaitTypes == WaitSpec => []WaitTypeOK
<1>1. WaitInv => WaitTypeOK
  BY DEF WaitInv
<1>2. QED BY <1>1, InitWaitInv, NextWaitInv, PTL DEF WaitSpec

\* No two workers promote one row, and whoever is in line, or will be when an
\* INSERT commits, is younger than the row a worker has locked, unless that
\* INSERT was open when the worker's SELECT ran.
THEOREM PromotionInvariant == WaitSpec => []PromotionInv
<1>1. WaitInv => PromotionInv
  BY DEF WaitInv
<1>2. QED BY <1>1, InitWaitInv, NextWaitInv, PTL DEF WaitSpec

\* A row is promoted by the worker that has locked it.
LEMMA OnlyCommitsPromote ==
  ASSUME WaitInv, [WaitNext]_waitVars, NEW x \in Row,
         entry[x] = "waiting", entry'[x] = "notified"
  PROVE  \E w \in Worker : worker[w].step = "holding" /\ x = <<worker[w].user, worker[w].tier>>
<1>0. RowsOK /\ HandsOK
  BY WaitTypeParts DEF WaitInv
<1>1. ASSUME NEW u \in User, CommitInsert(u) PROVE FALSE
  BY <1>0, <1>1, CommitInsertFacts
<1>2. ASSUME NEW gone \in SUBSET Row, DeleteRows(gone) PROVE FALSE
  BY <1>2 DEF DeleteRows
<1>3. CASE ExpireReservations
  BY <1>3 DEF ExpireReservations
<1>4. ASSUME NEW w \in Worker, CommitOffer(w)
      PROVE  worker[w].step = "holding" /\ x = <<worker[w].user, worker[w].tier>>
  BY <1>4 DEF CommitOffer
<1>5. ASSUME UNCHANGED entry PROVE FALSE
  BY <1>5
<1>6. QED
  BY <1>0, <1>1, <1>2, <1>3, <1>4, <1>5, WaitKinds
  DEF BeginInsert, FailJoin, StartPromotion, LockFirst, NobodyWaits, MailOffer, FailPromotion

\* First come, first served, with any number of workers, users and tiers: only a
\* row that was not yet committed when the worker's SELECT ran is passed over.
THEOREM PromotionIsFair == WaitSpec => FirstComeFirstServed
<1> DEFINE Fair == \A x \in Row :
             entry[x] = "waiting" /\ entry'[x] = "notified" =>
               \E w \in Worker :
                 /\ worker[w].step = "holding" /\ <<worker[w].user, worker[w].tier>> = x
                 /\ \A u \in WaitingAt(x[2]) :
                      Ahead(u, x[1], x[2]) => u \in worker[w].late
<1>1. WaitInv /\ [WaitNext]_waitVars => Fair
  <2> SUFFICES ASSUME WaitInv, [WaitNext]_waitVars, NEW x \in Row,
                      entry[x] = "waiting", entry'[x] = "notified"
               PROVE  \E w \in Worker :
                        /\ worker[w].step = "holding" /\ <<worker[w].user, worker[w].tier>> = x
                        /\ \A u \in WaitingAt(x[2]) :
                             Ahead(u, x[1], x[2]) => u \in worker[w].late
    OBVIOUS
  <2>1. PICK w \in Worker :
          worker[w].step = "holding" /\ x = <<worker[w].user, worker[w].tier>>
    BY OnlyCommitsPromote
  <2>2. x[1] \in User /\ x[2] \in Tier /\ x = <<x[1], x[2]>>
        /\ x[1] = worker[w].user /\ x[2] = worker[w].tier
    BY <2>1 DEF Row
  <2>3. StrictOrder(x[2])
    BY <2>2 DEF WaitInv, WaitTypeOK
  <2>4. ASSUME NEW u \in WaitingAt(x[2]), Ahead(u, x[1], x[2]) PROVE u \in worker[w].late
    <3>1. x[1] \in Stamped(x[2]) /\ u \in Stamped(x[2]) /\ u \in InLine(x[2])
      BY <2>2 DEF Stamped, InLine, RowsOf, WaitingAt
    <3>2. u # x[1] => Ahead(x[1], u, x[2]) \/ u \in worker[w].late
      BY <2>1, <2>2, <3>1 DEF WaitInv, PromotionInv, TurnsInOrder
    <3>3. QED BY <2>3, <2>4, <3>1, <3>2 DEF StrictOrder
  <2>5. QED BY <2>1, <2>4
<1>2. WaitInv /\ [WaitNext]_waitVars => [Fair]_waitVars
  BY <1>1
<1>3. QED BY <1>2, InitWaitInv, NextWaitInv, PTL DEF WaitSpec, FirstComeFirstServed

-----------------------------------------------------------------------------
(***************************************************************************)
(* Every offer is mailed, unless a worker fails.                           *)
(***************************************************************************)

\* A failure is not forgotten.
LEMMA MishapsStay ==
  ASSUME [WaitNext]_waitVars, ~mishap'
  PROVE  ~mishap /\ \A w \in Worker : ~FailPromotion(w)
BY DEF waitVars, WaitNext, FailPromotion

\* An open offer without its mail has its worker at every step.
LEMMA StepMailed ==
  ASSUME WaitInv, OffersAreMailed, [WaitNext]_waitVars
  PROVE  OffersAreMailed'
<1> SUFFICES ASSUME ~mishap', NEW x \in Row, x \in Notified', x \notin mailed'
             PROVE  \E w \in Worker : /\ worker'[w].step = "mailing"
                                      /\ <<worker'[w].user, worker'[w].tier>> = x
  BY DEF OffersAreMailed, Notified
<1>0. /\ RowsOK /\ HandsOK /\ worker \in [Worker -> Tasks]
      /\ \A w \in Worker : <<worker[w].user, worker[w].tier>> \in Row
  BY WaitTypeParts DEF WaitInv, HandsOK, Tasks, Row
<1>1. ~mishap /\ \A w \in Worker : ~FailPromotion(w)
  BY MishapsStay
<1>2. entry'[x] = "notified"
  BY DEF Notified
<1>3. x \in Notified /\ x \notin mailed =>
        \E w \in Worker : worker[w].step = "mailing" /\ <<worker[w].user, worker[w].tier>> = x
  BY <1>1 DEF OffersAreMailed
<1>4. ASSUME NEW u \in User, BeginInsert(u) \/ CommitInsert(u) \/ FailJoin(u)
      PROVE  UNCHANGED worker /\ x \in Notified \ mailed
  <2>1. UNCHANGED <<worker, mailed>>
    BY <1>4 DEF BeginInsert, CommitInsert, FailJoin
  <2>2. entry[x] = "notified"
    BY <1>0, <1>2, <1>4, CommitInsertFacts DEF BeginInsert, FailJoin
  <2>3. QED BY <2>1, <2>2 DEF Notified
<1>5. ASSUME NEW gone \in SUBSET Row, DeleteRows(gone)
      PROVE  /\ x \in Notified \ mailed
             /\ \A w \in Worker : /\ worker'[w].step = worker[w].step
                                  /\ worker'[w].user = worker[w].user
                                  /\ worker'[w].tier = worker[w].tier
  <2>1. x \notin gone /\ entry[x] = "notified" /\ mailed' = mailed \ gone
    BY <1>2, <1>5 DEF DeleteRows
  <2>2. QED BY <1>0, <1>5, <2>1, DeleteMoves DEF Notified
<1>6. CASE ExpireReservations
  <2>1. UNCHANGED worker /\ x \in Notified \ mailed
    BY <1>2, <1>6 DEF ExpireReservations, Notified
  <2>2. QED BY <1>3, <2>1
<1>7. ASSUME NEW w \in Worker, worker[w].step # "mailing",
             UNCHANGED <<entry, mailed>>, \A v \in Worker \ {w} : worker'[v] = worker[v]
      PROVE  \E v \in Worker : worker'[v].step = "mailing"
                               /\ <<worker'[v].user, worker'[v].tier>> = x
  <2>1. x \in Notified \ mailed
    BY <1>7 DEF Notified
  <2>2. QED BY <1>3, <1>7, <2>1
<1>8. ASSUME NEW w \in Worker, CommitOffer(w)
      PROVE  \E v \in Worker : worker'[v].step = "mailing"
                               /\ <<worker'[v].user, worker'[v].tier>> = x
  <2>1. /\ worker'[w].step = "mailing" /\ worker'[w].tier = worker[w].tier
        /\ worker'[w].user = worker[w].user
        /\ \A v \in Worker \ {w} : worker'[v] = worker[v]
    BY <1>0, <1>8, CommitMoves
  <2>2. CASE x = <<worker[w].user, worker[w].tier>>
    BY <2>1, <2>2
  <2>3. CASE x # <<worker[w].user, worker[w].tier>>
    <3>1. entry' = [entry EXCEPT ![<<worker[w].user, worker[w].tier>>] = "notified"]
          /\ mailed' = mailed /\ worker[w].step = "holding"
      BY <1>8 DEF CommitOffer
    <3>2. x \in Notified \ mailed
      BY <1>0, <1>2, <2>3, <3>1 DEF Notified, RowsOK
    <3>3. QED BY <1>3, <2>1, <3>1, <3>2
  <2>4. QED BY <2>2, <2>3
<1>9. ASSUME NEW w \in Worker, MailOffer(w)
      PROVE  \E v \in Worker : worker'[v].step = "mailing"
                               /\ <<worker'[v].user, worker'[v].tier>> = x
  <2>1. /\ entry' = entry
        /\ mailed' = mailed \cup ({<<worker[w].user, worker[w].tier>>} \cap Notified)
    BY <1>9 DEF MailOffer
  <2>2. x \in Notified \ mailed /\ x # <<worker[w].user, worker[w].tier>>
    BY <1>2, <2>1 DEF Notified
  <2>3. \A v \in Worker \ {w} : worker'[v] = worker[v]
    BY <1>0, <1>9, DoneMoves
  <2>4. QED BY <1>3, <2>2, <2>3
<1>10. ASSUME NEW w \in Worker, NEW t \in Tier, StartPromotion(w, t)
       PROVE  \E v \in Worker : worker'[v].step = "mailing"
                                /\ <<worker'[v].user, worker'[v].tier>> = x
  <2>1. \A v \in Worker \ {w} : worker'[v] = worker[v]
    BY <1>0, <1>10, StartMoves
  <2>2. QED BY <1>7, <1>10, <2>1 DEF StartPromotion
<1>11. ASSUME NEW w \in Worker, NEW u \in User, LockFirst(w, u)
       PROVE  \E v \in Worker : worker'[v].step = "mailing"
                                /\ <<worker'[v].user, worker'[v].tier>> = x
  <2>1. \A v \in Worker \ {w} : worker'[v] = worker[v]
    BY <1>0, <1>11, LockMoves
  <2>2. QED BY <1>7, <1>11, <2>1 DEF LockFirst
<1>12. ASSUME NEW w \in Worker, NobodyWaits(w)
       PROVE  \E v \in Worker : worker'[v].step = "mailing"
                                /\ <<worker'[v].user, worker'[v].tier>> = x
  <2>1. \A v \in Worker \ {w} : worker'[v] = worker[v]
    BY <1>0, <1>12, DoneMoves
  <2>2. QED BY <1>7, <1>12, <2>1 DEF NobodyWaits
<1>13. CASE UNCHANGED <<older, entry, worker, mailed>>
  BY <1>3, <1>13 DEF Notified
<1>14. QED
  BY <1>0, <1>1, <1>3, <1>4, <1>5, <1>6, <1>8, <1>9, <1>10, <1>11, <1>12, <1>13, WaitKinds

\* Unless a worker fails, nobody is promoted without being told.
THEOREM PromotedAreTold == WaitSpec => []OffersAreMailed
<1>1. WaitInit => OffersAreMailed
  BY DEF WaitInit, OffersAreMailed, Notified
<1>2. WaitInv /\ OffersAreMailed /\ [WaitNext]_waitVars => OffersAreMailed'
  BY StepMailed
<1>3. QED BY <1>1, <1>2, InitWaitInv, NextWaitInv, PTL DEF WaitSpec

-----------------------------------------------------------------------------
(***************************************************************************)
(* Offers do not multiply, unless a worker fails.                          *)
(***************************************************************************)

\* All that is counted is finite.
LEMMA PeopleFinite ==
  /\ \A P \in SUBSET Purchase : IsFiniteSet(P) /\ Cardinality(P) \in Nat
  /\ \A W \in SUBSET Worker : IsFiniteSet(W) /\ Cardinality(W) \in Nat
  BY FS_Subset, FS_CardinalityType, FiniteAssumption, PeopleAssumption

\* What a step of the sale does to the cancellations of a tier and to those whose
\* promotion task is still to come.
LEMMA SalesNews ==
  ASSUME TypeOK, SeatInv, Next
  PROVE  \/ \E p \in Purchase : CommitCancellation(p) \/ EnqueuePromotion(p)
         \/ /\ UNCHANGED <<wake, tierOf>>
            /\ \A p \in Purchase :
                 /\ purchase[p] = "cancelled" => purchase'[p] = "cancelled"
                 /\ pc'[p] = "notify" => pc[p] = "notify"
<1> USE DEF Goto, eventVars, tierVars, orderVars, txVars, cancelVars
<1> DEFINE Calm == /\ UNCHANGED <<wake, tierOf>>
                   /\ \A p \in Purchase :
                        /\ purchase[p] = "cancelled" => purchase'[p] = "cancelled"
                        /\ pc'[p] = "notify" => pc[p] = "notify"
<1>0. pc \in [Purchase -> Steps] /\ purchase \in [Purchase -> {"none", "confirmed", "cancelled"}]
  BY DEF TypeOK
<1>1. ASSUME NEW p \in Purchase, CommitSale(p) PROVE Calm
  <2>1. purchase[p] = "none"
    BY <1>1 DEF CommitSale, SeatInv, OpenRequestsHold, SaleDecided
  <2>2. QED BY <1>0, <1>1, <2>1 DEF CommitSale
<1>2. ASSUME NEW p \in Purchase,
             \/ RequestPurchase(p) \/ LockTier(p) \/ RefuseSale(p) \/ TakeSeats(p)
             \/ CheckStock(p) \/ SellOutEvent(p) \/ RollbackSale(p)
      PROVE  Calm
  BY <1>0, <1>2 DEF RequestPurchase, LockTier, RefuseSale, TakeSeats, CheckStock,
     SellOutEvent, RollbackSale
<1>3. ASSUME NEW p \in Purchase,
             \/ LockPurchase(p) \/ JudgeCancellation(p) \/ RefuseCancellation(p)
             \/ VoidTickets(p) \/ RestoreStock(p) \/ ReopenEvent(p)
             \/ RollbackCancellation(p) \/ LosePromotion(p)
      PROVE  Calm
  BY <1>0, <1>3 DEF LockPurchase, JudgeCancellation, RefuseCancellation, VoidTickets,
     RestoreStock, ReopenEvent, RollbackCancellation, LosePromotion
<1>4. CASE \/ \E k \in Ticket : CheckIn(k)
           \/ Publish \/ EndAllExpired \/ MoveClock \/ CancelEvent
  BY <1>4 DEF CheckIn, Publish, EndAllExpired, MoveClock, CancelEvent
<1>5. CASE SweepStep \/ FailCancelByEvent \/ CrashCancelEvent
  BY <1>5 DEF SweepStep, ListBuyers, FlipPurchases, FlipTickets, CommitCancelByEvent,
     ClearWaitlist, NotifyBuyers, FailCancelByEvent, CrashCancelEvent
<1>6. QED
  BY <1>1, <1>2, <1>3, <1>4, <1>5 DEF Next, SaleStep, CancellationStep

\* A buyer's cancellation frees a seat and owes at most one task for it.
LEMMA SalesCounts ==
  ASSUME TypeOK, SeatInv, Next, NEW t \in Tier
  PROVE  Cardinality(Unannounced(t))' + wake'[t] + Cardinality(CancelledOf(t))
           <= Cardinality(Unannounced(t)) + wake[t] + Cardinality(CancelledOf(t))'
<1> DEFINE U == Unannounced(t)
           C == CancelledOf(t)
           U1 == Unannounced(t)'
           C1 == CancelledOf(t)'
<1>0. /\ U \in SUBSET Purchase /\ C \in SUBSET Purchase
      /\ U1 \in SUBSET Purchase /\ C1 \in SUBSET Purchase
  BY DEF Unannounced, CancelledOf
<1>1. /\ wake[t] \in Nat /\ pc \in [Purchase -> Steps] /\ tierOf \in [Purchase -> Tier]
      /\ wake \in [Tier -> Nat]
      /\ purchase \in [Purchase -> {"none", "confirmed", "cancelled"}]
  BY DEF TypeOK
<1>2. ASSUME NEW p \in Purchase, CommitCancellation(p), tierOf[p] = t
      PROVE  C1 = C \cup {p} /\ p \notin C /\ U1 \subseteq U \cup {p} /\ wake'[t] = wake[t]
  <2>1. purchase[p] = "confirmed"
    BY <1>2 DEF CommitCancellation, SeatInv, OpenRequestsHold, CancelSteps
  <2>2. QED
    BY <1>1, <1>2, <2>1 DEF CommitCancellation, Goto, CancelledOf, Unannounced
<1>3. ASSUME NEW p \in Purchase, CommitCancellation(p), tierOf[p] # t
      PROVE  C1 = C /\ U1 = U /\ wake'[t] = wake[t]
  BY <1>1, <1>3 DEF CommitCancellation, Goto, CancelledOf, Unannounced
<1>4. ASSUME NEW p \in Purchase, EnqueuePromotion(p), tierOf[p] = t
      PROVE  C1 = C /\ U1 = U \ {p} /\ p \in U /\ wake'[t] = wake[t] + 1
  BY <1>1, <1>4 DEF EnqueuePromotion, Goto, CancelledOf, Unannounced, orderVars
<1>5. ASSUME NEW p \in Purchase, EnqueuePromotion(p), tierOf[p] # t
      PROVE  C1 = C /\ U1 = U /\ wake'[t] = wake[t]
  BY <1>1, <1>5 DEF EnqueuePromotion, Goto, CancelledOf, Unannounced, orderVars
<1>6. ASSUME UNCHANGED <<wake, tierOf>>,
             \A p \in Purchase :
               /\ purchase[p] = "cancelled" => purchase'[p] = "cancelled"
               /\ pc'[p] = "notify" => pc[p] = "notify"
      PROVE  C \subseteq C1 /\ U1 \subseteq U /\ wake'[t] = wake[t]
  BY <1>6 DEF CancelledOf, Unannounced
<1>7. /\ Cardinality(Unannounced(t))' = Cardinality(U1)
      /\ Cardinality(CancelledOf(t))' = Cardinality(C1)
      /\ Cardinality(Unannounced(t)) = Cardinality(U)
      /\ Cardinality(CancelledOf(t)) = Cardinality(C)
  OBVIOUS
<1> HIDE DEF U, C, U1, C1
<1>8. /\ IsFiniteSet(U) /\ IsFiniteSet(C) /\ IsFiniteSet(U1) /\ IsFiniteSet(C1)
      /\ Cardinality(U) \in Nat /\ Cardinality(C) \in Nat
      /\ Cardinality(U1) \in Nat /\ Cardinality(C1) \in Nat
  BY <1>0, PeopleFinite
<1>9. ASSUME C \subseteq C1, U1 \subseteq U, wake'[t] = wake[t]
      PROVE  Cardinality(U1) + wake'[t] + Cardinality(C)
               <= Cardinality(U) + wake[t] + Cardinality(C1)
  <2>1. Cardinality(C) <= Cardinality(C1) /\ Cardinality(U1) <= Cardinality(U)
    BY <1>8, <1>9, FS_Subset
  <2>2. QED BY <1>1, <1>8, <1>9, <2>1
<1>10. ASSUME NEW p \in Purchase, C1 = C \cup {p}, p \notin C, U1 \subseteq U \cup {p},
              wake'[t] = wake[t]
       PROVE  Cardinality(U1) + wake'[t] + Cardinality(C)
                <= Cardinality(U) + wake[t] + Cardinality(C1)
  <2>1. Cardinality(C1) = Cardinality(C) + 1
    BY <1>8, <1>10, FS_AddElement
  <2>2. /\ IsFiniteSet(U \cup {p}) /\ Cardinality(U \cup {p}) \in Nat
        /\ Cardinality(U \cup {p}) <= Cardinality(U) + 1
    <3>1. IsFiniteSet(U \cup {p})
      BY <1>8, FS_AddElement
    <3>2. Cardinality(U \cup {p}) = IF p \in U THEN Cardinality(U) ELSE Cardinality(U) + 1
      BY <1>8, FS_AddElement
    <3>3. QED BY <1>8, <3>1, <3>2
  <2>3. U1 \in SUBSET (U \cup {p})
    BY <1>10
  <2>4. Cardinality(U1) <= Cardinality(U \cup {p})
    BY <2>2, <2>3, FS_Subset
  <2>5. QED BY <1>1, <1>8, <1>10, <2>1, <2>2, <2>4
<1>11. ASSUME NEW p \in Purchase, C1 = C, U1 = U \ {p}, p \in U, wake'[t] = wake[t] + 1
       PROVE  Cardinality(U1) + wake'[t] + Cardinality(C)
                <= Cardinality(U) + wake[t] + Cardinality(C1)
  <2>1. Cardinality(U1) = Cardinality(U) - 1
    BY <1>8, <1>11, FS_RemoveElement
  <2>2. QED BY <1>1, <1>8, <1>11, <2>1
<1>12. Cardinality(U1) + wake'[t] + Cardinality(C)
         <= Cardinality(U) + wake[t] + Cardinality(C1)
  <2>1. CASE \E p \in Purchase : CommitCancellation(p)
    BY <1>2, <1>3, <1>9, <1>10, <2>1
  <2>2. CASE \E p \in Purchase : EnqueuePromotion(p)
    BY <1>4, <1>5, <1>9, <1>11, <2>2
  <2>3. QED BY <1>6, <1>9, <2>1, <2>2, SalesNews
<1>13. QED BY <1>7, <1>12

\* The offers of a tier that are open or about to be made, and the tasks that are
\* enqueued or to be.
Claims(t) == Cardinality(OffersOf(t)) + Cardinality(OfferersOf(t))
Owed(t)   == Cardinality(Unannounced(t)) + wake[t]

\* The counts are numbers, before a step and after it.
LEMMA CountsTyped ==
  ASSUME WaitInv, WaitInv', NEW t \in Tier
  PROVE  /\ Cardinality(OffersOf(t)) \in Nat /\ Cardinality(OffersOf(t))' \in Nat
         /\ Cardinality(OfferersOf(t)) \in Nat /\ Cardinality(OfferersOf(t))' \in Nat
         /\ Cardinality(Unannounced(t)) \in Nat /\ Cardinality(Unannounced(t))' \in Nat
         /\ Cardinality(CancelledOf(t)) \in Nat /\ Cardinality(CancelledOf(t))' \in Nat
         /\ wake[t] \in Nat /\ wake'[t] \in Nat
<1>1. Notified \in SUBSET Row /\ Notified' \in SUBSET Row
  BY DEF Notified
<1>2. Cardinality(OffersOf(t)) \in Nat /\ Cardinality(OffersOf(t))' \in Nat
  BY <1>1, TierRowsFinite DEF OffersOf
<1>3. /\ OfferersOf(t) \in SUBSET Worker /\ OfferersOf(t)' \in SUBSET Worker
      /\ Unannounced(t) \in SUBSET Purchase /\ Unannounced(t)' \in SUBSET Purchase
      /\ CancelledOf(t) \in SUBSET Purchase /\ CancelledOf(t)' \in SUBSET Purchase
  BY DEF OfferersOf, Unannounced, CancelledOf
<1>4. wake[t] \in Nat /\ wake'[t] \in Nat
  BY DEF WaitInv, WaitTypeOK, TypeOK
<1>5. QED BY <1>2, <1>3, <1>4, PeopleFinite

\* The claims and the tasks of a tier, when offers and workers move only one way.
LEMMA FewerClaims ==
  ASSUME WaitInv, WaitInv', NEW t \in Tier,
         OffersOf(t)' \subseteq OffersOf(t), OfferersOf(t)' \subseteq OfferersOf(t)
  PROVE  Claims(t)' <= Claims(t)
<1>1. OffersOf(t) \in SUBSET Row /\ IsFiniteSet(OffersOf(t))
  <2>1. Notified \in SUBSET Row
    BY DEF Notified
  <2>2. QED BY <2>1, TierRowsFinite DEF OffersOf
<1>2. OfferersOf(t) \in SUBSET Worker
  BY DEF OfferersOf
<1>3. IsFiniteSet(OfferersOf(t))
  BY <1>2, PeopleFinite
<1>4. /\ Cardinality(OffersOf(t)') <= Cardinality(OffersOf(t))
      /\ Cardinality(OfferersOf(t)') <= Cardinality(OfferersOf(t))
  BY <1>1, <1>3, FS_Subset
<1>5. QED BY <1>4, CountsTyped DEF Claims

\* A worker that takes a task is one more about to make an offer of its tier.
LEMMA StartClaims ==
  ASSUME WaitInv, WaitInv', NEW w \in Worker, NEW s \in Tier, StartPromotion(w, s),
         NEW t \in Tier
  PROVE  Claims(t)' + Owed(t)' <= Claims(t) + Owed(t)
<1>0. worker \in [Worker -> Tasks] /\ wake \in [Tier -> Nat]
  BY DEF WaitInv, WaitTypeOK, TypeOK
<1>1. /\ worker'[w].step = "picking" /\ worker'[w].tier = s
      /\ \A v \in Worker \ {w} : worker'[v] = worker[v]
  BY <1>0, StartMoves
<1>2. /\ worker[w].step = "idle" /\ UNCHANGED <<entry, pc, tierOf>>
      /\ wake' = [wake EXCEPT ![s] = @ - 1]
  BY DEF StartPromotion, orderVars
<1>3. OffersOf(t)' = OffersOf(t) /\ Unannounced(t)' = Unannounced(t)
  BY <1>2 DEF OffersOf, Notified, Unannounced
<1>4. OfferersOf(t)' = IF t = s THEN OfferersOf(t) \cup {w} ELSE OfferersOf(t)
  BY <1>1, <1>2 DEF OfferersOf
<1>5. w \notin OfferersOf(t) /\ OfferersOf(t) \in SUBSET Worker
  BY <1>2 DEF OfferersOf
<1>6. IsFiniteSet(OfferersOf(t))
  BY <1>5, PeopleFinite
<1>7. Cardinality(OfferersOf(t) \cup {w}) = Cardinality(OfferersOf(t)) + 1
  BY <1>5, <1>6, FS_AddElement
<1>8. wake'[t] = IF t = s THEN wake[t] - 1 ELSE wake[t]
  BY <1>0, <1>2
<1>9. /\ Cardinality(OffersOf(t))' = Cardinality(OffersOf(t))
      /\ Cardinality(Unannounced(t))' = Cardinality(Unannounced(t))
      /\ Cardinality(OfferersOf(t))' =
           Cardinality(OfferersOf(t)) + (IF t = s THEN 1 ELSE 0)
  BY <1>3, <1>4, <1>7, CountsTyped
<1>10. QED BY <1>8, <1>9, CountsTyped DEF Claims, Owed

\* The worker's commit turns what it was about to offer into an open offer.
LEMMA CommitClaims ==
  ASSUME WaitInv, WaitInv', NEW w \in Worker, CommitOffer(w), NEW t \in Tier
  PROVE  Claims(t)' <= Claims(t)
<1>0. /\ worker \in [Worker -> Tasks] /\ entry \in [Row -> EntryStatus]
      /\ <<worker[w].user, worker[w].tier>> \in Row
  BY DEF WaitInv, WaitTypeOK, Tasks, Row
<1>1. /\ worker'[w].step = "mailing" /\ worker'[w].tier = worker[w].tier
      /\ \A v \in Worker \ {w} : worker'[v] = worker[v]
  BY <1>0, CommitMoves
<1> DEFINE x == <<worker[w].user, worker[w].tier>>
<1>2. /\ worker[w].step = "holding"
      /\ entry' = [entry EXCEPT ![x] = "notified"]
  BY DEF CommitOffer
<1>3. OffersOf(t)' \subseteq
        IF t = worker[w].tier THEN OffersOf(t) \cup {x} ELSE OffersOf(t)
  BY <1>0, <1>2 DEF OffersOf, Notified
<1>4. OfferersOf(t)' =
        IF t = worker[w].tier THEN OfferersOf(t) \ {w} ELSE OfferersOf(t)
  BY <1>1, <1>2 DEF OfferersOf
<1>5. t = worker[w].tier => w \in OfferersOf(t)
  BY <1>2 DEF OfferersOf
<1>6. CASE t # worker[w].tier
  BY <1>3, <1>4, <1>6, FewerClaims
<1>7. CASE t = worker[w].tier
  <2>1. OfferersOf(t) \in SUBSET Worker /\ Notified \in SUBSET Row
    BY DEF OfferersOf, Notified
  <2>2. IsFiniteSet(OfferersOf(t)) /\ IsFiniteSet(OffersOf(t))
    BY <2>1, PeopleFinite, TierRowsFinite DEF OffersOf
  <2>3. Cardinality(OfferersOf(t)') = Cardinality(OfferersOf(t)) - 1
    BY <1>4, <1>5, <1>7, <2>2, FS_RemoveElement, CountsTyped
  <2> HIDE DEF x
  <2>4. IsFiniteSet(OffersOf(t) \cup {x})
    BY <2>2, FS_AddElement
  <2>5. Cardinality(OffersOf(t) \cup {x}) =
          IF x \in OffersOf(t) THEN Cardinality(OffersOf(t)) ELSE Cardinality(OffersOf(t)) + 1
    BY <2>2, FS_AddElement
  <2>6. OffersOf(t)' \in SUBSET (OffersOf(t) \cup {x})
    BY <1>3, <1>7
  <2>7. Cardinality(OffersOf(t)') <= Cardinality(OffersOf(t) \cup {x})
    BY <2>4, <2>6, FS_Subset
  <2>8. QED BY <2>3, <2>5, <2>7, CountsTyped DEF Claims
<1>8. QED BY <1>6, <1>7

\* Every step keeps the claims and the tasks of a tier within its cancellations.
LEMMA StepBacked ==
  ASSUME WaitInv, OffersBacked, [WaitNext]_waitVars
  PROVE  OffersBacked'
<1> SUFFICES ASSUME ~mishap', NEW t \in Tier
             PROVE  Claims(t)' + Owed(t)' <= Cardinality(CancelledOf(t))'
  <2>1. WaitInv'
    BY NextWaitInv
  <2>2. QED BY <2>1, CountsTyped DEF OffersBacked, Claims, Owed
<1>0. WaitInv' /\ TypeOK /\ SeatInv /\ RowsOK /\ HandsOK /\ worker \in [Worker -> Tasks]
  BY NextWaitInv, WaitTypeParts DEF WaitInv, HandsOK
<1>1. ~mishap /\ \A w \in Worker : ~FailPromotion(w)
  BY MishapsStay
<1>2. Claims(t) + Owed(t) <= Cardinality(CancelledOf(t))
  BY <1>0, <1>1, CountsTyped DEF OffersBacked, Claims, Owed
<1> DEFINE Goal == Claims(t)' + Owed(t)' <= Cardinality(CancelledOf(t))'
<1>3. ASSUME UNCHANGED vars PROVE Owed(t)' = Owed(t) /\ CancelledOf(t)' = CancelledOf(t)
  BY <1>3 DEF vars, tierVars, orderVars, txVars, Owed, Unannounced, CancelledOf
<1>4. ASSUME Claims(t)' <= Claims(t), Next PROVE Goal
  <2>1. Owed(t)' + Cardinality(CancelledOf(t)) <= Owed(t) + Cardinality(CancelledOf(t))'
    BY <1>0, <1>4, SalesCounts, CountsTyped DEF Owed
  <2>2. QED BY <1>0, <1>2, <1>4, <2>1, CountsTyped DEF Claims, Owed
<1>5. ASSUME Claims(t)' <= Claims(t), UNCHANGED vars PROVE Goal
  BY <1>0, <1>2, <1>3, <1>5, CountsTyped DEF Claims, Owed
<1>6. ASSUME UNCHANGED <<entry, worker>> PROVE Claims(t)' <= Claims(t)
  <2>1. OffersOf(t)' = OffersOf(t) /\ OfferersOf(t)' = OfferersOf(t)
    BY <1>6 DEF OffersOf, OfferersOf, Notified
  <2>2. QED BY <1>0, <1>6, <2>1, FewerClaims
<1>7. ASSUME NEW gone \in SUBSET Row, DeleteRows(gone)
      PROVE  Claims(t)' <= Claims(t)
  <2>1. OffersOf(t)' \subseteq OffersOf(t)
    BY <1>7 DEF DeleteRows, OffersOf, Notified
  <2>2. OfferersOf(t)' = OfferersOf(t)
    BY <1>0, <1>7, DeleteMoves DEF OfferersOf
  <2>3. QED BY <1>0, <1>7, <2>1, <2>2, FewerClaims
<1>8. CASE UNCHANGED waitVars
  BY <1>5, <1>6, <1>8 DEF waitVars, lineVars
<1>9. CASE SalesStep
  BY <1>4, <1>6, <1>9 DEF SalesStep, lineVars
<1>10. CASE DeleteByEvent
  <2>1. Next
    BY <1>10 DEF DeleteByEvent, Next, SweepStep
  <2>2. {x \in Row : entry[x] # "none"} \in SUBSET Row
    OBVIOUS
  <2>3. Claims(t)' <= Claims(t)
    BY <1>6, <1>7, <1>10, <2>1, <2>2 DEF DeleteByEvent
  <2>4. QED BY <1>4, <2>1, <2>3
<1>11. CASE ExpireReservations
  <2>1. OffersOf(t)' \subseteq OffersOf(t)
    BY <1>11 DEF ExpireReservations, OffersOf, Notified
  <2>2. OfferersOf(t)' = OfferersOf(t) /\ UNCHANGED vars
    BY <1>11 DEF ExpireReservations, OfferersOf
  <2>3. QED BY <1>0, <1>5, <2>1, <2>2, FewerClaims
<1>12. ASSUME NEW u \in User,
              \/ BeginJoin(u) \/ SeeNoPurchase(u) \/ RefuseJoin(u)
              \/ \E s \in Tier : SeeSoldOut(u, s)
       PROVE  Goal
  BY <1>5, <1>6, <1>12 DEF BeginJoin, SeeNoPurchase, RefuseJoin, SeeSoldOut
<1>13. ASSUME NEW u \in User, BeginInsert(u) \/ CommitInsert(u) \/ FailJoin(u) PROVE Goal
  <2>1. UNCHANGED <<worker, vars>>
    BY <1>13 DEF BeginInsert, CommitInsert, FailJoin
  <2>2. OffersOf(t)' \subseteq OffersOf(t)
    BY <1>0, <1>13, CommitInsertFacts DEF BeginInsert, FailJoin, OffersOf, Notified
  <2>3. OfferersOf(t)' = OfferersOf(t)
    BY <2>1 DEF OfferersOf
  <2>4. QED BY <1>0, <1>5, <2>1, <2>2, <2>3, FewerClaims
<1>14. ASSUME NEW u \in User, NEW s \in Tier, LeaveWaitlist(u, s) PROVE Goal
  <2>1. {<<u, s>>} \in SUBSET Row
    BY DEF Row
  <2>2. QED BY <1>5, <1>7, <1>14, <2>1 DEF LeaveWaitlist
<1>15. ASSUME NEW w \in Worker, NEW s \in Tier, StartPromotion(w, s) PROVE Goal
  <2>1. Claims(t)' + Owed(t)' <= Claims(t) + Owed(t)
    BY <1>0, <1>15, StartClaims
  <2>2. CancelledOf(t)' = CancelledOf(t)
    BY <1>15 DEF StartPromotion, orderVars, CancelledOf
  <2>3. QED BY <1>0, <1>2, <2>1, <2>2, CountsTyped DEF Claims, Owed
<1>16. ASSUME NEW w \in Worker, NEW u \in User, LockFirst(w, u) PROVE Goal
  <2>1. /\ worker'[w].step = "holding" /\ worker'[w].tier = worker[w].tier
        /\ \A v \in Worker \ {w} : worker'[v] = worker[v]
    BY <1>0, <1>16, LockMoves
  <2>2. worker[w].step = "picking" /\ UNCHANGED <<vars, entry>>
    BY <1>16 DEF LockFirst
  <2>3. OfferersOf(t)' = OfferersOf(t) /\ OffersOf(t)' = OffersOf(t)
    BY <2>1, <2>2 DEF OfferersOf, OffersOf, Notified
  <2>4. QED BY <1>0, <1>5, <2>2, <2>3, FewerClaims
<1>17. ASSUME NEW w \in Worker, NobodyWaits(w) \/ MailOffer(w) PROVE Goal
  <2>1. /\ worker'[w].step = "idle"
        /\ \A v \in Worker \ {w} : worker'[v] = worker[v]
    BY <1>0, <1>17, DoneMoves
  <2>2. UNCHANGED <<vars, entry>>
    BY <1>17 DEF NobodyWaits, MailOffer
  <2>3. OfferersOf(t)' \subseteq OfferersOf(t) /\ OffersOf(t)' = OffersOf(t)
    BY <2>1, <2>2 DEF OfferersOf, OffersOf, Notified
  <2>4. QED BY <1>0, <1>5, <2>2, <2>3, FewerClaims
<1>18. ASSUME NEW w \in Worker, CommitOffer(w) PROVE Goal
  BY <1>0, <1>5, <1>18, CommitClaims DEF CommitOffer
<1>19. CASE WaitNext
  BY <1>1, <1>9, <1>10, <1>11, <1>12, <1>13, <1>14, <1>15, <1>16, <1>17, <1>18, <1>19
  DEF WaitNext, WaitStep, PromotionStep
<1>20. QED BY <1>8, <1>19

\* Unless a worker fails, no more offers are open or on their way than purchases of
\* the tier have been cancelled; an offer that runs out is not made up for.
THEOREM OffersAreBacked == WaitSpec => []OffersBacked
<1>1. WaitInit => OffersBacked
  <2> SUFFICES ASSUME WaitInit, NEW t \in Tier
               PROVE  Cardinality(OffersOf(t)) + Cardinality(OfferersOf(t))
                        + Cardinality(Unannounced(t)) + wake[t]
                        <= Cardinality(CancelledOf(t))
    BY DEF OffersBacked
  <2>1. \A w \in Worker : worker[w].step = "idle"
    BY IdleTyped DEF WaitInit
  <2>2. OffersOf(t) = {} /\ OfferersOf(t) = {} /\ Unannounced(t) = {} /\ CancelledOf(t) = {}
    BY <2>1 DEF WaitInit, Init, OffersOf, Notified, OfferersOf, Unannounced, CancelledOf
  <2>3. wake[t] = 0
    BY DEF WaitInit, Init
  <2>4. QED BY <2>2, <2>3, FS_EmptySet
<1>2. WaitInv /\ OffersBacked /\ [WaitNext]_waitVars => OffersBacked'
  BY StepBacked
<1>3. QED BY <1>1, <1>2, InitWaitInv, NextWaitInv, PTL DEF WaitSpec
=============================================================================
