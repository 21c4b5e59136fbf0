--------------------------- MODULE EventDeskProofs ---------------------------
(***************************************************************************)
(* Theorems about EventDesk for every number of tiers, buyers and          *)
(* overlapping requests, and every bound.                                  *)
(***************************************************************************)
EXTENDS EventDesk, TLAPS

-----------------------------------------------------------------------------
(***************************************************************************)
(* Requests.                                                               *)
(***************************************************************************)

\* A request in progress is not idle, whatever its step.
LEMMA InProgress ==
  ASSUME DeskTypeOK, NEW r \in Request, request[r].step # "idle"
  PROVE  /\ request[r] # Idle
         /\ request[r] \in [step : {"loaded", "checked", "saved"}, op : Operations,
                            old : Event, new : Event, amount : 0..MaxQuantity,
                            material : BOOLEAN]
  BY DEF DeskTypeOK, Requests, Idle

\* What an invariant says of requests has to be shown for the one that moved only.
LEMMA OneRequestMoves ==
  ASSUME DeskTypeOK, DeskInv, NEW r \in Request, NEW q \in Requests,
         request' = [request EXCEPT ![r] = q],
         now <= now', now' \in Int, event'.stamp <= now',
         q # Idle =>
           /\ q.old.stamp <= now' /\ q.new.stamp <= now'
           /\ q.step = "loaded" => q.new = q.old
           /\ q.step = "checked" /\ q.op = "update" =>
                IF q.material /\ q.old.status = "published"
                  THEN q.new.stamp > q.old.stamp
                  ELSE q.new.stamp = q.old.stamp
           /\ q.step = "saved" => q.new.stamp # 0
  PROVE  request' \in [Request -> Requests] /\ StampsInOrder'
<1>1. request \in [Request -> Requests]
  BY DEF DeskTypeOK
<1>2. request' \in [Request -> Requests]
  BY <1>1
<1>3. request'[r] = q /\ \A s \in Request \ {r} : request'[s] = request[s]
  BY <1>1
<1>4. ASSUME NEW s \in Request, request[s] # Idle
      PROVE  /\ request[s].old.stamp \in Int /\ request[s].new.stamp \in Int
             /\ now \in Int
  BY <1>1, <1>4, DeskAssumption DEF DeskTypeOK, Requests, Event, Stamps
<1>5. StampsInOrder'
  BY <1>2, <1>3, <1>4, DeskAssumption
  DEF DeskInv, StampsInOrder, Is, StampsUpdate
<1> QED BY <1>2, <1>5

-----------------------------------------------------------------------------
(***************************************************************************)
(* The invariant.                                                          *)
(***************************************************************************)

\* Before createEvent there are no rows and no requests.
LEMMA InitDeskInv == DeskInit => DeskTypeOK /\ DeskInv
<1> SUFFICES ASSUME DeskInit PROVE DeskTypeOK /\ DeskInv
  OBVIOUS
<1>1. DeskTypeOK
  BY DeskAssumption DEF DeskInit, DeskTypeOK, Requests, Stamps
<1>2. DeskInv
  BY DEF DeskInit, DeskInv, NoOrphans, StampsInOrder, Kept, Is, Idle
<1> QED BY <1>1, <1>2

\* Rows stay, and a request moves on by itself.
LEMMA RequestOnly ==
  ASSUME DeskTypeOK, DeskInv, UNCHANGED rowVars,
         request' \in [Request -> Requests], StampsInOrder',
         now' \in {0} \cup Stamps, queued' \subseteq Stamps,
         addressed' \subseteq Buyer \X Stamps
  PROVE  DeskTypeOK' /\ DeskInv'
<1>1. DeskTypeOK'
  BY DEF DeskTypeOK, rowVars
<1>2. NoOrphans'
  BY DEF DeskInv, NoOrphans, Kept, rowVars
<1> QED BY <1>1, <1>2 DEF DeskInv

\* The middleware's copy, and the decisions that write nothing.
LEMMA ReadersKeepInv ==
  ASSUME DeskTypeOK, DeskInv, NEW r \in Request,
         \/ Refuse(r) \/ CountTiers(r)
         \/ \E op \in Operations : Load(r, op)
         \/ \E q \in 1..MaxQuantity : CheckTier(r, q)
  PROVE  DeskTypeOK' /\ DeskInv'
<1>1. now \in {0} \cup Stamps /\ now \in Int /\ event \in Event /\ event.stamp <= now
  BY DeskAssumption DEF DeskTypeOK, Stamps, DeskInv, StampsInOrder
<1>2. UNCHANGED <<rowVars, now, mailVars>>
  BY DEF Refuse, CountTiers, Load, CheckTier
<1>3. now <= now' /\ now' \in Int /\ event'.stamp <= now'
  BY <1>1, <1>2 DEF rowVars
<1>4. CASE Refuse(r)
  <2>1. request' = [request EXCEPT ![r] = Idle] /\ Idle \in Requests
    BY <1>4 DEF Refuse, Done, Requests
  <2>2. request' \in [Request -> Requests] /\ StampsInOrder'
    BY <1>3, <2>1, OneRequestMoves
  <2> QED BY <1>1, <1>4, <2>2, RequestOnly DEF Refuse, DeskTypeOK, mailVars
<1>5. CASE CountTiers(r)
  <2>1. request[r].step # "idle" /\ request[r].op = "publish"
    BY <1>5 DEF CountTiers, Is
  <2> DEFINE q == [request[r] EXCEPT !.step = "checked"]
  <2>2. q \in Requests /\ q.op = "publish" /\ q.old = request[r].old /\ q.new = request[r].new
        /\ q.step = "checked"
    BY <2>1, InProgress DEF Requests
  <2>3. request' = [request EXCEPT ![r] = q]
    BY <1>5 DEF CountTiers
  <2>4. request[r].old.stamp <= now /\ request[r].new.stamp <= now
    BY <2>1, InProgress DEF DeskInv, StampsInOrder
  <2> HIDE DEF q
  <2>5. request' \in [Request -> Requests] /\ StampsInOrder'
    BY <1>2, <1>3, <2>2, <2>3, <2>4, OneRequestMoves
  <2> QED BY <1>1, <1>5, <2>5, RequestOnly DEF CountTiers, DeskTypeOK, mailVars
<1>6. ASSUME NEW op \in Operations, Load(r, op) PROVE DeskTypeOK' /\ DeskInv'
  <2> DEFINE q == Open(op, "loaded", event)
  <2>1. q \in Requests /\ q.old = event /\ q.new = event /\ q.step = "loaded"
    BY <1>1, DeskAssumption DEF Open, Requests
  <2>2. request' = [request EXCEPT ![r] = q]
    BY <1>6 DEF Load
  <2> HIDE DEF q
  <2>3. request' \in [Request -> Requests] /\ StampsInOrder'
    BY <1>1, <1>2, <1>3, <2>1, <2>2, OneRequestMoves
  <2> QED BY <1>1, <1>6, <2>3, RequestOnly DEF Load, DeskTypeOK, mailVars
<1>7. ASSUME NEW n \in 1..MaxQuantity, CheckTier(r, n) PROVE DeskTypeOK' /\ DeskInv'
  <2>1. request[r].step # "idle" /\ request[r].op = "createTier"
    BY <1>7 DEF CheckTier, Is
  <2> DEFINE q == [request[r] EXCEPT !.step = "checked", !.amount = n]
  <2>2. /\ q \in Requests /\ q.op = "createTier" /\ q.step = "checked"
        /\ q.old = request[r].old /\ q.new = request[r].new
    <3>1. n \in 0..MaxQuantity
      BY DeskAssumption
    <3>2. q \in [step : {"loaded", "checked", "saved"}, op : Operations,
                old : Event, new : Event, amount : 0..MaxQuantity, material : BOOLEAN]
      BY <2>1, <3>1, InProgress
    <3>3. QED BY <2>1, <3>2, InProgress DEF Requests
  <2>3. request' = [request EXCEPT ![r] = q]
    BY <1>7, <2>1, InProgress DEF CheckTier, DeskTypeOK
  <2>4. request[r].old.stamp <= now /\ request[r].new.stamp <= now
    BY <2>1, InProgress DEF DeskInv, StampsInOrder
  <2> HIDE DEF q
  <2>5. request' \in [Request -> Requests] /\ StampsInOrder'
    BY <1>2, <1>3, <2>2, <2>3, <2>4, OneRequestMoves
  <2> QED BY <1>1, <1>7, <2>5, RequestOnly DEF CheckTier, DeskTypeOK, mailVars
<1> QED BY <1>4, <1>5, <1>6, <1>7

\* A merge is stamped later than everything before it, or keeps the stamp it read.
LEMMA MergeKeepsInv ==
  ASSUME DeskTypeOK, DeskInv, NEW r \in Request, NEW material \in BOOLEAN,
         NEW terms \in Terms, NEW c \in {0} \cup Capacities,
         Merge(r, material, terms, c)
  PROVE  DeskTypeOK' /\ DeskInv'
<1> DEFINE stamped == StampsUpdate(r, material)
           old == request[r].old
           new == [request[r].new EXCEPT !.terms = terms,
                                         !.capacity = IF c = 0 THEN @ ELSE c,
                                         !.stamp = IF stamped THEN now' ELSE @]
           q == [request[r] EXCEPT !.step = "checked", !.material = material, !.new = new]
<1>1. /\ request[r].step = "loaded" /\ request[r].op = "update"
      /\ stamped => now < MaxStamps
      /\ now' = IF stamped THEN now + 1 ELSE now
      /\ UNCHANGED <<rowVars, mailVars>>
  BY DEF Merge, Is
<1>2. /\ request[r] \in [step : {"loaded", "checked", "saved"}, op : Operations,
                         old : Event, new : Event, amount : 0..MaxQuantity,
                         material : BOOLEAN]
      /\ old.stamp <= now /\ request[r].new = old
  BY <1>1, InProgress DEF DeskInv, StampsInOrder
<1>3. now \in {0} \cup Stamps /\ now \in Int /\ event \in Event /\ event.stamp <= now
  BY DeskAssumption DEF DeskTypeOK, Stamps, DeskInv, StampsInOrder
<1>4. now' \in {0} \cup Stamps /\ now' \in Int /\ now <= now' /\ (stamped => now' \in Stamps)
  BY <1>1, <1>3, DeskAssumption DEF Stamps
<1>5. old \in Event /\ old.stamp \in Int
  BY <1>2, DeskAssumption DEF Event, Stamps
<1>6. /\ new \in Event
      /\ new.stamp = IF stamped THEN now' ELSE old.stamp
  BY <1>2, <1>4, <1>5 DEF Event
<1>7. request' = [request EXCEPT ![r] = q]
  BY <1>2 DEF Merge, DeskTypeOK
<1>8. /\ q \in Requests /\ q.step = "checked" /\ q.op = "update" /\ q.material = material
      /\ q.old = old /\ q.new = new
  <2> HIDE DEF new
  <2>1. QED BY <1>1, <1>2, <1>6 DEF Requests
<1>9. stamped <=> material /\ old.status = "published"
  BY DEF StampsUpdate
<1>10. event' = event /\ event'.stamp <= now'
  BY <1>1, <1>3, <1>4 DEF rowVars, Event, Stamps
<1>11. stamped => now' = now + 1
  BY <1>1
<1> HIDE DEF q, new, stamped, old
<1>12. /\ q.old.stamp <= now' /\ q.new.stamp <= now'
       /\ IF q.material /\ q.old.status = "published"
            THEN q.new.stamp > q.old.stamp
            ELSE q.new.stamp = q.old.stamp
  BY <1>2, <1>3, <1>4, <1>5, <1>6, <1>8, <1>9, <1>11
<1>13. request' \in [Request -> Requests] /\ StampsInOrder'
  BY <1>4, <1>7, <1>8, <1>10, <1>12, OneRequestMoves
<1> QED BY <1>1, <1>4, <1>13, RequestOnly DEF DeskTypeOK, mailVars

\* A request that ends takes its copies with it.
LEMMA DoneKeepsOrder ==
  ASSUME DeskTypeOK, DeskInv, NEW r \in Request, Done(r),
         now' = now, event'.stamp \in Int, event'.stamp <= now
  PROVE  request' \in [Request -> Requests] /\ StampsInOrder'
<1>1. Idle \in Requests /\ request' = [request EXCEPT ![r] = Idle]
  BY DEF Done, Requests
<1>2. now \in Int
  BY DeskAssumption DEF DeskTypeOK, Stamps
<1>3. now <= now' /\ now' \in Int /\ event'.stamp <= now'
  BY <1>2
<1> QED BY <1>1, <1>3, OneRequestMoves

\* Tiers are inserted while the event has its row, and rows that are deleted take
\* with them what refers to them.
LEMMA TiersKeepInv ==
  ASSUME DeskTypeOK, DeskInv, NEW r \in Request,
         \/ DeleteEvent(r) \/ PublishEvent(r)
         \/ \E t \in Tier : InsertTier(r, t) \/ DeleteTier(r, t)
  PROVE  DeskTypeOK' /\ DeskInv'
<1>1. Done(r) /\ UNCHANGED <<tierOf, now, mailVars>>
  BY DEF DeleteEvent, PublishEvent, InsertTier, DeleteTier
<1>2. event' \in Event /\ event'.stamp = event.stamp
  BY DEF DeleteEvent, PublishEvent, InsertTier, DeleteTier, DeskTypeOK, Event, Status
<1>3. event'.stamp \in Int /\ event'.stamp <= now
  BY <1>2, DeskAssumption DEF DeskTypeOK, Event, Stamps, DeskInv, StampsInOrder
<1>4. request' \in [Request -> Requests] /\ StampsInOrder'
  BY <1>1, <1>3, DoneKeepsOrder
<1>5. /\ tier' \in [Tier -> {"new", "kept", "gone"}]
      /\ quantity' \in [Tier -> 0..MaxQuantity]
      /\ purchase' \in [Buyer -> {"none", "confirmed", "cancelled", "deleted"}]
  <2>1. CASE DeleteEvent(r)
    BY <2>1, DeskAssumption DEF DeleteEvent, DropTiers, DeskTypeOK
  <2>2. CASE PublishEvent(r)
    BY <2>2 DEF PublishEvent, DeskTypeOK
  <2>3. ASSUME NEW t \in Tier, DeleteTier(r, t) PROVE <1>5
    BY <2>3, DeskAssumption DEF DeleteTier, DropTiers, DeskTypeOK
  <2>4. ASSUME NEW t \in Tier, InsertTier(r, t) PROVE <1>5
    <3>1. request[r].amount \in 0..MaxQuantity
      BY <2>4, InProgress DEF InsertTier, Is
    <3> QED BY <2>4, <3>1 DEF InsertTier, DeskTypeOK
  <2> QED BY <2>1, <2>2, <2>3, <2>4
<1>6. NoOrphans'
  <2> USE DEF DeskTypeOK, DeskInv, NoOrphans, Kept, Exists
  <2>1. CASE DeleteEvent(r)
    BY <2>1 DEF DeleteEvent, DropTiers
  <2>2. CASE PublishEvent(r)
    BY <2>2 DEF PublishEvent, Event
  <2>3. ASSUME NEW t \in Tier, DeleteTier(r, t) PROVE NoOrphans'
    BY <2>3 DEF DeleteTier, DropTiers
  <2>4. ASSUME NEW t \in Tier, InsertTier(r, t) PROVE NoOrphans'
    BY <2>4 DEF InsertTier
  <2> QED BY <2>1, <2>2, <2>3, <2>4
<1>7. DeskTypeOK'
  BY <1>1, <1>2, <1>4, <1>5 DEF DeskTypeOK, mailVars
<1> QED BY <1>4, <1>6, <1>7 DEF DeskInv

\* What EventsStore.Update writes: a copy's fields over the present status.
LEMMA WrittenRow ==
  ASSUME DeskTypeOK, DeskInv, NEW r \in Request, SaveEvent(r)
  PROVE  /\ event' \in Event
         /\ event'.status = event.status
         /\ event'.stamp = IF request[r].new.stamp = 0 THEN event.stamp
                           ELSE request[r].new.stamp
         /\ event'.stamp \in Int /\ event'.stamp <= now
<1>1. /\ request[r].new \in Event /\ event \in Event
      /\ request[r].new.stamp <= now /\ event.stamp <= now
  BY InProgress DEF SaveEvent, Is, DeskTypeOK, DeskInv, StampsInOrder
<1>2. /\ event' \in Event
      /\ event'.status = event.status
      /\ event'.stamp = IF request[r].new.stamp = 0 THEN event.stamp
                        ELSE request[r].new.stamp
  BY <1>1 DEF SaveEvent, Written, Event
<1>3. event'.stamp \in Int
  BY <1>2, DeskAssumption DEF Event, Stamps
<1> QED BY <1>1, <1>2, <1>3

\* An update is announced with the stamp of the row that was written.
LEMMA SaveKeepsInv ==
  ASSUME DeskTypeOK, DeskInv, NEW r \in Request, SaveEvent(r)
  PROVE  DeskTypeOK' /\ DeskInv'
<1>1. /\ event' \in Event /\ event'.status = event.status
      /\ event'.stamp \in Int /\ event'.stamp <= now
  BY WrittenRow
<1>2. UNCHANGED <<tier, quantity, tierOf, purchase, now, mailVars>>
  BY DEF SaveEvent
<1>3. now \in Int
  BY DeskAssumption DEF DeskTypeOK, Stamps
<1>4. request' \in [Request -> Requests] /\ StampsInOrder'
  <2>1. CASE ~Announces(r, event')
    BY <1>1, <1>2, <2>1, DoneKeepsOrder DEF SaveEvent
  <2>2. CASE Announces(r, event')
    <3> DEFINE q == [request[r] EXCEPT !.step = "saved", !.new = event']
    <3>1. request[r].step = "checked"
      BY DEF SaveEvent, Is
    <3>2. q \in [step : {"loaded", "checked", "saved"}, op : Operations,
                 old : Event, new : Event, amount : 0..MaxQuantity, material : BOOLEAN]
      BY <1>1, <3>1, InProgress
    <3>3. /\ q \in Requests
          /\ q.step = "saved" /\ q.new = event' /\ q.old = request[r].old
      BY <3>1, <3>2, InProgress DEF Requests
    <3>4. request' = [request EXCEPT ![r] = q]
      BY <2>2 DEF SaveEvent
    <3>5. request[r].old.stamp <= now /\ event'.stamp # 0
      BY <2>2, <3>1, InProgress DEF DeskInv, StampsInOrder, Announces
    <3>6. now <= now' /\ now' \in Int /\ event'.stamp <= now'
      BY <1>1, <1>2, <1>3
    <3>7. q.old.stamp <= now' /\ q.new.stamp <= now'
      BY <1>1, <1>2, <3>3, <3>5
    <3> HIDE DEF q
    <3> QED BY <3>3, <3>4, <3>5, <3>6, <3>7, OneRequestMoves
  <2> QED BY <2>1, <2>2
<1>5. NoOrphans'
  BY <1>1, <1>2 DEF DeskInv, NoOrphans, Kept
<1>6. DeskTypeOK'
  BY <1>1, <1>2, <1>4 DEF DeskTypeOK, mailVars
<1> QED BY <1>4, <1>5, <1>6 DEF DeskInv

\* Tasks carry the stamps of rows that were written.
LEMMA QueueKeepsInv ==
  ASSUME DeskTypeOK, DeskInv,
         \/ \E r \in Request : EnqueueUpdate(r) \/ LoseUpdate(r)
         \/ \E s \in Stamps : NotifyBuyersUpdated(s)
  PROVE  DeskTypeOK' /\ DeskInv'
<1>1. UNCHANGED <<rowVars, now>>
  BY DEF EnqueueUpdate, LoseUpdate, NotifyBuyersUpdated
<1>2. now \in {0} \cup Stamps /\ event'.stamp \in Int /\ event'.stamp <= now
  BY <1>1, DeskAssumption DEF DeskTypeOK, DeskInv, StampsInOrder, Event, Stamps, rowVars
<1>3. ASSUME NEW r \in Request, EnqueueUpdate(r) \/ LoseUpdate(r)
      PROVE  DeskTypeOK' /\ DeskInv'
  <2>1. request[r].new.stamp \in Stamps
    BY <1>3, InProgress DEF EnqueueUpdate, LoseUpdate, DeskInv, StampsInOrder, Event
  <2>2. Done(r)
    BY <1>3 DEF EnqueueUpdate, LoseUpdate
  <2>3. request' \in [Request -> Requests] /\ StampsInOrder'
    BY <1>1, <1>2, <2>2, DoneKeepsOrder
  <2>4. queued' \subseteq Stamps /\ addressed' \subseteq Buyer \X Stamps
    BY <1>3, <2>1 DEF EnqueueUpdate, LoseUpdate, DeskTypeOK, mailVars
  <2> QED BY <1>1, <1>2, <2>3, <2>4, RequestOnly
<1>4. ASSUME NEW s \in Stamps, NotifyBuyersUpdated(s)
      PROVE  DeskTypeOK' /\ DeskInv'
  <2>1. UNCHANGED request
    BY <1>4 DEF NotifyBuyersUpdated
  <2>2. request' \in [Request -> Requests] /\ StampsInOrder'
    BY <1>1, <2>1 DEF DeskTypeOK, DeskInv, StampsInOrder, Is, StampsUpdate, rowVars
  <2>3. queued' \subseteq Stamps /\ addressed' \subseteq Buyer \X Stamps
    BY <1>4 DEF NotifyBuyersUpdated, DeskTypeOK, Confirmed
  <2> QED BY <1>1, <1>2, <2>1, <2>2, <2>3, RequestOnly DEF DeskTypeOK
<1> QED BY <1>3, <1>4

\* Sales need a tier that is there, and whatever else happens to the event leaves
\* stamps and requests alone.
LEMMA OthersKeepInv ==
  ASSUME DeskTypeOK, DeskInv,
         CreateEvent \/ CloseEvent \/ \E b \in Buyer : Buy(b) \/ GiveBack(b)
  PROVE  DeskTypeOK' /\ DeskInv'
<1>1. UNCHANGED <<tier, quantity, tierOf, request, now, mailVars>>
  BY DEF CreateEvent, CloseEvent, Buy, GiveBack
<1>2. event' \in Event /\ event'.stamp = event.stamp
  BY DEF CreateEvent, CloseEvent, Buy, GiveBack, DeskTypeOK, Event, Status
<1>3. StampsInOrder'
  BY <1>1, <1>2 DEF DeskInv, StampsInOrder, Is, StampsUpdate
<1>4. /\ purchase' \in [Buyer -> {"none", "confirmed", "cancelled", "deleted"}]
      /\ NoOrphans'
  <2> USE DEF DeskTypeOK, DeskInv, NoOrphans, Kept, Event, Confirmed
  <2>1. CASE CreateEvent
    BY <2>1 DEF CreateEvent
  <2>2. CASE CloseEvent
    BY <2>2 DEF CloseEvent
  <2>3. ASSUME NEW b \in Buyer, Buy(b) PROVE <1>4
    BY <2>3 DEF Buy
  <2>4. ASSUME NEW b \in Buyer, GiveBack(b) PROVE <1>4
    BY <2>4 DEF GiveBack
  <2> QED BY <2>1, <2>2, <2>3, <2>4
<1>5. DeskTypeOK'
  BY <1>1, <1>2, <1>4 DEF DeskTypeOK, mailVars
<1> QED BY <1>3, <1>4, <1>5 DEF DeskInv

\* Every step of every request, and of everybody else, keeps the invariant.
LEMMA NextDeskInv == DeskTypeOK /\ DeskInv /\ [DeskNext]_deskVars => DeskTypeOK' /\ DeskInv'
<1> SUFFICES ASSUME DeskTypeOK, DeskInv, [DeskNext]_deskVars PROVE DeskTypeOK' /\ DeskInv'
  OBVIOUS
<1>1. CASE DeskNext
  BY <1>1, ReadersKeepInv, MergeKeepsInv, TiersKeepInv, SaveKeepsInv, QueueKeepsInv,
     OthersKeepInv
  DEF DeskNext
<1>2. CASE UNCHANGED deskVars
  BY <1>2 DEF deskVars, rowVars, mailVars, DeskTypeOK, DeskInv, NoOrphans, Kept,
              StampsInOrder, Is, StampsUpdate
<1> QED BY <1>1, <1>2

-----------------------------------------------------------------------------
(***************************************************************************)
(* Theorems.                                                               *)
(***************************************************************************)

\* Types and invariant together are inductive.
LEMMA DeskInductive == DeskSpec => [](DeskTypeOK /\ DeskInv)
  BY InitDeskInv, NextDeskInv, PTL DEF DeskSpec

\* The types of the rows and of the requests' copies, whichever requests overlap.
THEOREM DeskTypes == DeskSpec => []DeskTypeOK
  BY DeskInductive, PTL

\* In every reachable state no row refers to a row that is gone, and the stamps
\* that requests have read and merged stand in order.
THEOREM DeskInvariant == DeskSpec => []DeskInv
  BY DeskInductive, PTL

\* The steps that write the event's row.
LEMMA EventWriters ==
  ASSUME DeskNext
  PROVE  \/ \E r \in Request : SaveEvent(r) \/ PublishEvent(r) \/ DeleteEvent(r)
         \/ CreateEvent \/ CloseEvent
         \/ event' = event
<1>1. ASSUME NEW r \in Request,
             \/ Refuse(r) \/ CountTiers(r) \/ EnqueueUpdate(r) \/ LoseUpdate(r)
             \/ \E op \in Operations : Load(r, op)
             \/ \E q \in 1..MaxQuantity : CheckTier(r, q)
             \/ \E t \in Tier : InsertTier(r, t) \/ DeleteTier(r, t)
             \/ \E material \in BOOLEAN, terms \in Terms, c \in {0} \cup Capacities :
                  Merge(r, material, terms, c)
      PROVE  event' = event
  BY <1>1 DEF Refuse, CountTiers, EnqueueUpdate, LoseUpdate, Load, CheckTier, InsertTier,
              DeleteTier, Merge, rowVars
<1>2. ASSUME NEW b \in Buyer, Buy(b) \/ GiveBack(b) PROVE event' = event
  BY <1>2 DEF Buy, GiveBack
<1>3. ASSUME NEW s \in Stamps, NotifyBuyersUpdated(s) PROVE event' = event
  BY <1>3 DEF NotifyBuyersUpdated, rowVars
<1> QED BY <1>1, <1>2, <1>3 DEF DeskNext

\* No update undoes a publication, a cancellation or a deletion it overlaps.
THEOREM UpdatesKeepStatus == DeskSpec => StatusSurvivesUpdates
<1>1. DeskTypeOK /\ DeskInv =>
        [(\E r \in Request : SaveEvent(r)) => event'.status = event.status]_deskVars
  BY WrittenRow
<1> QED BY <1>1, DeskInductive, PTL DEF StatusSurvivesUpdates

\* A grace window, once open, is never wiped by an update or by anything else.
THEOREM GraceStays == DeskSpec => GraceIsNotWiped
<1>1. DeskTypeOK /\ DeskInv /\ [DeskNext]_deskVars =>
        [event.stamp # 0 => event'.stamp # 0]_deskVars
  <2> SUFFICES ASSUME DeskTypeOK, DeskInv, DeskNext, event.stamp # 0
               PROVE  event'.stamp # 0
    OBVIOUS
  <2>1. ASSUME NEW r \in Request, SaveEvent(r) PROVE event'.stamp # 0
    BY <2>1, WrittenRow
  <2>2. ASSUME NEW r \in Request, PublishEvent(r) \/ DeleteEvent(r)
        PROVE  event'.stamp # 0
    BY <2>2 DEF PublishEvent, DeleteEvent, DeskTypeOK, Event
  <2>3. CASE CreateEvent \/ CloseEvent
    BY <2>3 DEF CreateEvent, CloseEvent, DeskTypeOK, Event
  <2> QED BY <2>1, <2>2, <2>3, EventWriters
<1> QED BY <1>1, DeskInductive, PTL DEF DeskSpec, GraceIsNotWiped

\* An update that nothing overtook moves the stamp when it changes the terms of
\* an event on sale, and only then.
THEOREM StampsAreTimely == DeskSpec => TimelyUpdateStamps
<1> DEFINE Timely(r) ==
      SaveEvent(r) /\ request[r].old = event =>
        IF request[r].material /\ event.status = "published"
          THEN event'.stamp > event.stamp
          ELSE event'.stamp = event.stamp
<1>1. ASSUME DeskTypeOK, DeskInv, NEW r \in Request PROVE Timely(r)
  <2> SUFFICES ASSUME SaveEvent(r), request[r].old = event
               PROVE  IF request[r].material /\ event.status = "published"
                        THEN event'.stamp > event.stamp
                        ELSE event'.stamp = event.stamp
    OBVIOUS
  <2>1. Is(r, "update", "checked") /\ request[r] # Idle
    BY <1>1, InProgress DEF SaveEvent, Is
  <2>2. event.stamp \in Nat /\ request[r].new.stamp \in Nat
    BY <1>1, <2>1, InProgress, DeskAssumption DEF Is, DeskTypeOK, Event, Stamps
  <2>3. IF request[r].material /\ event.status = "published"
          THEN request[r].new.stamp > event.stamp
          ELSE request[r].new.stamp = event.stamp
    BY <1>1, <2>1 DEF DeskInv, StampsInOrder, StampsUpdate
  <2> QED BY <1>1, <2>2, <2>3, WrittenRow
<1>2. DeskTypeOK /\ DeskInv => [\A r \in Request : Timely(r)]_deskVars
  BY <1>1
<1> QED BY <1>2, DeskInductive, PTL DEF TimelyUpdateStamps

=============================================================================
