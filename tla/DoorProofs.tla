----------------------------- MODULE DoorProofs -----------------------------
(***************************************************************************)
(* Theorems about Door for every set of tickets and any number of scans.   *)
(***************************************************************************)
EXTENDS Door, TLAPS

\* The types hold at first and after every step.
LEMMA InitDoorTypes == DoorInit => DoorTypeOK
  BY DEF DoorInit, DoorTypeOK, Status, Scans, Idle

\* A step of a scan or of a cancellation keeps the types.
LEMMA NextDoorTypes == DoorTypeOK /\ [DoorNext]_doorVars => DoorTypeOK'
<1> SUFFICES ASSUME DoorTypeOK, [DoorNext]_doorVars PROVE DoorTypeOK'
  OBVIOUS
<1> USE DEF DoorTypeOK
<1>0. \A s \in Scan : scan[s].step # "idle" => scan[s] \in Scans \ {Idle}
  BY DEF Idle
<1>1. ASSUME NEW s \in Scan, NEW k \in Ticket, Present(s, k) PROVE DoorTypeOK'
  BY <1>1 DEF Present, Scans, Status
<1>2. ASSUME NEW s \in Scan, LockTicket(s) PROVE DoorTypeOK'
  <2>1. ticket[scan[s].ticket] \in Status /\ scan[s] \in Scans \ {Idle}
    BY <1>0, <1>2 DEF LockTicket, Scans, Idle
  <2>2. [scan[s] EXCEPT !.step = "locked", !.seen = ticket[scan[s].ticket]] \in Scans
    BY <2>1 DEF Scans
  <2>3. QED BY <1>2, <2>2 DEF LockTicket
<1>3. ASSUME NEW s \in Scan, RefuseTicket(s) \/ FailScan(s) PROVE DoorTypeOK'
  BY <1>3 DEF RefuseTicket, FailScan, Scans
<1>4. ASSUME NEW s \in Scan, FlipTicket(s) PROVE DoorTypeOK'
  BY <1>0, <1>4 DEF FlipTicket, Scans, Idle
<1>5. ASSUME NEW s \in Scan, CommitCheckIn(s) PROVE DoorTypeOK'
  BY <1>0, <1>5 DEF CommitCheckIn, Scans, Status, Idle
<1>6. ASSUME NEW s \in Scan, Admit(s) PROVE DoorTypeOK'
  BY <1>0, <1>6 DEF Admit, Scans, Idle
<1>7. ASSUME NEW k \in Ticket, VoidTicket(k) \/ CommitVoid(k) \/ RollbackVoid(k)
      PROVE  DoorTypeOK'
  BY <1>7 DEF VoidTicket, CommitVoid, RollbackVoid, Status
<1>8. CASE UNCHANGED doorVars
  BY <1>8 DEF doorVars
<1>9. QED
  BY <1>1, <1>2, <1>3, <1>4, <1>5, <1>6, <1>7, <1>8 DEF DoorNext

\* A request whose step is known carries a ticket and what it has seen.
LEMMA OpenScan ==
  ASSUME DoorTypeOK, NEW s \in Scan, scan[s].step # "idle"
  PROVE  /\ scan[s].ticket \in Ticket
         /\ scan[s] = [step |-> scan[s].step, ticket |-> scan[s].ticket,
                       here |-> scan[s].here, seen |-> scan[s].seen]
  BY DEF DoorTypeOK, Scans, Idle

\* A row's owner changes only when the row is free, and only the owner writes.
LEMMA NextRowHasOneOwner ==
  DoorTypeOK /\ RowHasOneOwner /\ [DoorNext]_doorVars => RowHasOneOwner'
<1> SUFFICES ASSUME DoorTypeOK, RowHasOneOwner, [DoorNext]_doorVars PROVE RowHasOneOwner'
  OBVIOUS
<1> USE DEF RowHasOneOwner, Holds
<1>0. scan \in [Scan -> Scans] /\ ticket \in [Ticket -> Status]
  BY DEF DoorTypeOK
<1>1. ASSUME NEW s \in Scan, NEW k \in Ticket, Present(s, k) PROVE RowHasOneOwner'
  BY <1>0, <1>1 DEF Present
<1>2. ASSUME NEW s \in Scan, LockTicket(s) PROVE RowHasOneOwner'
  <2>1. scan[s].ticket \in Ticket /\ scan[s].step = "sent"
    BY <1>2, OpenScan DEF LockTicket
  <2>2. scan'[s] = [scan[s] EXCEPT !.step = "locked", !.seen = ticket[scan[s].ticket]]
    BY <1>0, <1>2 DEF LockTicket
  <2>3. /\ scan'[s].step = "locked" /\ scan'[s].seen = ticket[scan[s].ticket]
        /\ scan'[s].ticket = scan[s].ticket
    BY <2>1, <2>2, OpenScan
  <2>4. \A r \in Scan \ {s} : scan'[r] = scan[r]
    BY <1>0, <1>2 DEF LockTicket
  <2>5. scan[s].ticket \notin voiding /\ \A r \in Scan : ~Holds(r, scan[s].ticket)
    BY <1>2 DEF LockTicket, Locked
  <2>6. ticket' = ticket /\ voiding' = voiding
    BY <1>2 DEF LockTicket
  <2>7. ASSUME NEW r \in Scan, NEW k \in Ticket, Holds(r, k)'
        PROVE  /\ k \notin voiding' /\ scan'[r].seen = ticket'[k]
               /\ scan'[r].step = "flipped" => scan'[r].seen = "unused"
               /\ \A q \in Scan : Holds(q, k)' => q = r
    <3>1. CASE r = s
      BY <2>3, <2>4, <2>5, <2>6, <2>7, <3>1
    <3>2. CASE r # s
      BY <2>3, <2>4, <2>5, <2>6, <2>7, <3>2
    <3>3. QED BY <3>1, <3>2
  <2>8. QED BY <2>7
<1>3. ASSUME NEW s \in Scan, RefuseTicket(s) \/ FailScan(s) \/ Admit(s)
      PROVE  RowHasOneOwner'
  <2>1. /\ scan'[s].step = "idle" /\ \A r \in Scan \ {s} : scan'[r] = scan[r]
        /\ ticket' = ticket /\ voiding' = voiding
    BY <1>0, <1>3 DEF RefuseTicket, FailScan, Admit, Idle
  <2>2. QED BY <2>1
<1>4. ASSUME NEW s \in Scan, FlipTicket(s) PROVE RowHasOneOwner'
  <2>1. /\ scan'[s].step = "flipped" /\ scan'[s].seen = scan[s].seen
        /\ scan'[s].ticket = scan[s].ticket
    BY <1>0, <1>4, OpenScan DEF FlipTicket
  <2>2. \A r \in Scan \ {s} : scan'[r] = scan[r]
    BY <1>0, <1>4 DEF FlipTicket
  <2>3. QED BY <1>4, <2>1, <2>2 DEF FlipTicket, Admissible
<1>5. ASSUME NEW s \in Scan, CommitCheckIn(s) PROVE RowHasOneOwner'
  <2>1. scan'[s].step = "committed" /\ \A r \in Scan \ {s} : scan'[r] = scan[r]
    BY <1>0, <1>5, OpenScan DEF CommitCheckIn
  <2>2. Holds(s, scan[s].ticket) /\ scan[s].ticket \in Ticket
    BY <1>5, OpenScan DEF CommitCheckIn
  <2>3. \A k \in Ticket \ {scan[s].ticket} : ticket'[k] = ticket[k]
    BY <1>0, <1>5 DEF CommitCheckIn
  <2>4. QED BY <1>5, <2>1, <2>2, <2>3 DEF CommitCheckIn
<1>6. ASSUME NEW k \in Ticket, VoidTicket(k) \/ CommitVoid(k) \/ RollbackVoid(k)
      PROVE  RowHasOneOwner'
  BY <1>0, <1>6 DEF VoidTicket, CommitVoid, RollbackVoid, Locked
<1>7. CASE UNCHANGED doorVars
  BY <1>7 DEF doorVars
<1>8. QED
  BY <1>1, <1>2, <1>3, <1>4, <1>5, <1>6, <1>7 DEF DoorNext

\* The scan that commits has found the ticket unused under its lock, so nobody
\* has been let in and no other scan has committed; what follows is its answer.
LEMMA NextOneScanUsesTicket ==
  DoorInv /\ [DoorNext]_doorVars => OneScanUsesTicket'
<1> SUFFICES ASSUME DoorInv, [DoorNext]_doorVars PROVE OneScanUsesTicket'
  OBVIOUS
<1> DEFINE Used(s, k) == scan[s].step = "committed" /\ scan[s].ticket = k
<1>0. /\ DoorTypeOK /\ RowHasOneOwner
      /\ scan \in [Scan -> Scans] /\ ticket \in [Ticket -> Status] /\ admitted \in [Ticket -> Nat]
  BY DEF DoorInv, DoorTypeOK
<1>a. \A k \in Ticket :
        /\ ticket[k] = "unused" => admitted[k] = 0 /\ \A s \in Scan : ~Used(s, k)
        /\ admitted[k] # 0 => admitted[k] = 1 /\ \A s \in Scan : ~Used(s, k)
        /\ \A r, s \in Scan : Used(r, k) /\ Used(s, k) => r = s
  BY DEF DoorInv, OneScanUsesTicket
<1>b. ASSUME \A k \in Ticket :
        /\ ticket'[k] = "unused" => admitted'[k] = 0 /\ \A s \in Scan : ~Used(s, k)'
        /\ admitted'[k] # 0 => admitted'[k] = 1 /\ \A s \in Scan : ~Used(s, k)'
        /\ \A r, s \in Scan : Used(r, k)' /\ Used(s, k)' => r = s
      PROVE OneScanUsesTicket'
  BY <1>b DEF OneScanUsesTicket
<1>1. ASSUME admitted' = admitted,
             \A s \in Scan, k \in Ticket : Used(s, k)' => Used(s, k),
             \A k \in Ticket : ticket'[k] = "unused" => ticket[k] = "unused"
      PROVE  OneScanUsesTicket'
  BY <1>a, <1>b, <1>1
<1>2. ASSUME NEW s \in Scan,
             \/ \E k \in Ticket : Present(s, k)
             \/ LockTicket(s) \/ RefuseTicket(s) \/ FlipTicket(s) \/ FailScan(s)
      PROVE  OneScanUsesTicket'
  <2>1. \A r \in Scan \ {s} : scan'[r] = scan[r]
    BY <1>0, <1>2 DEF Present, LockTicket, RefuseTicket, FlipTicket, FailScan
  <2>2. scan'[s].step # "committed"
    <3>1. CASE \E k \in Ticket : Present(s, k)
      BY <1>0, <3>1 DEF Present
    <3>2. CASE RefuseTicket(s) \/ FailScan(s)
      BY <1>0, <3>2 DEF RefuseTicket, FailScan, Idle
    <3>3. CASE LockTicket(s)
      BY <1>0, <3>3, OpenScan DEF LockTicket
    <3>4. CASE FlipTicket(s)
      BY <1>0, <3>4, OpenScan DEF FlipTicket
    <3>5. QED BY <1>2, <3>1, <3>2, <3>3, <3>4
  <2>3. admitted' = admitted /\ ticket' = ticket
    BY <1>2 DEF Present, LockTicket, RefuseTicket, FlipTicket, FailScan
  <2>4. QED BY <1>1, <2>1, <2>2, <2>3
<1>3. ASSUME NEW s \in Scan, CommitCheckIn(s) PROVE OneScanUsesTicket'
  <2> DEFINE k == scan[s].ticket
  <2>1. k \in Ticket /\ ticket[k] = "unused"
    BY <1>0, <1>3, OpenScan DEF CommitCheckIn, RowHasOneOwner, Holds
  <2>2. /\ scan'[s].ticket = k
        /\ \A r \in Scan \ {s} : scan'[r] = scan[r]
    BY <1>0, <1>3, OpenScan DEF CommitCheckIn
  <2>3. ticket'[k] = "used" /\ \A l \in Ticket \ {k} : ticket'[l] = ticket[l]
    BY <1>0, <1>3, <2>1 DEF CommitCheckIn
  <2>4. admitted' = admitted
    BY <1>3 DEF CommitCheckIn
  <2>5. QED BY <1>a, <1>b, <2>1, <2>2, <2>3, <2>4
<1>4. ASSUME NEW s \in Scan, Admit(s) PROVE OneScanUsesTicket'
  <2> DEFINE k == scan[s].ticket
  <2>1. k \in Ticket /\ Used(s, k)
    BY <1>0, <1>4, OpenScan DEF Admit
  <2>2. scan'[s].step = "idle" /\ \A r \in Scan \ {s} : scan'[r] = scan[r]
    BY <1>0, <1>4 DEF Admit, Idle
  <2>3. admitted[k] = 0
    BY <1>a, <2>1
  <2>4. admitted'[k] = 1 /\ \A l \in Ticket \ {k} : admitted'[l] = admitted[l]
    BY <1>0, <1>4, <2>1, <2>3 DEF Admit
  <2>5. ticket' = ticket
    BY <1>4 DEF Admit
  <2>6. QED BY <1>a, <1>b, <2>1, <2>2, <2>4, <2>5
<1>5. ASSUME NEW k \in Ticket, VoidTicket(k) \/ CommitVoid(k) \/ RollbackVoid(k)
      PROVE  OneScanUsesTicket'
  BY <1>0, <1>1, <1>5 DEF VoidTicket, CommitVoid, RollbackVoid
<1>6. CASE UNCHANGED doorVars
  BY <1>1, <1>6 DEF doorVars
<1>7. QED
  BY <1>2, <1>3, <1>4, <1>5, <1>6 DEF DoorNext

\* The invariant is inductive: at any time each ticket's row has at most one
\* owner, and each admission comes from the one scan that used the ticket.
THEOREM DoorInvariant == DoorSpec => []DoorInv
<1>1. DoorInit => DoorInv
  <2>1. DoorInit => RowHasOneOwner /\ OneScanUsesTicket
    BY DEF DoorInit, RowHasOneOwner, OneScanUsesTicket, Holds, Idle
  <2>2. QED BY <2>1, InitDoorTypes DEF DoorInv
<1>2. DoorInv /\ [DoorNext]_doorVars => DoorInv'
  BY NextDoorTypes, NextRowHasOneOwner, NextOneScanUsesTicket DEF DoorInv
<1>3. QED BY <1>1, <1>2, PTL DEF DoorSpec

\* No ticket is let in twice, whatever the number of scanners and however their
\* requests meet at its row.
THEOREM NobodyEntersTwice == DoorSpec => []AdmittedOnce
<1>1. DoorInv => AdmittedOnce
  <2>1. ASSUME DoorInv, NEW k \in Ticket PROVE admitted[k] <= 1
    <3>1. admitted[k] = 0 \/ admitted[k] = 1
      BY <2>1 DEF DoorInv, OneScanUsesTicket
    <3>2. QED BY <3>1
  <2>2. QED BY <2>1 DEF AdmittedOnce
<1>2. QED BY <1>1, DoorInvariant, PTL

\* A ticket that is cancelled stays cancelled: a scan that commits has its row
\* under lock since it found the ticket unused.
THEOREM VoidedTicketsStayShut == DoorSpec => VoidedStayShut
<1>1. DoorInv /\ [DoorNext]_doorVars =>
        [\A k \in Ticket : ticket[k] = "cancelled" => ticket'[k] = "cancelled"]_doorVars
  <2> SUFFICES ASSUME DoorInv, DoorNext, NEW k \in Ticket, ticket[k] = "cancelled"
               PROVE  ticket'[k] = "cancelled"
    BY DEF doorVars
  <2>0. ticket \in [Ticket -> Status] /\ DoorTypeOK
    BY DEF DoorInv, DoorTypeOK
  <2>1. ASSUME NEW s \in Scan, CommitCheckIn(s) PROVE ticket'[k] = "cancelled"
    <3>1. scan[s].ticket # k
      BY <2>1 DEF DoorInv, RowHasOneOwner, Holds, CommitCheckIn
    <3>2. QED BY <2>0, <2>1, <3>1 DEF CommitCheckIn
  <2>2. ASSUME NEW l \in Ticket, CommitVoid(l) PROVE ticket'[k] = "cancelled"
    BY <2>0, <2>2 DEF CommitVoid
  <2>3. QED
    BY <2>1, <2>2 DEF DoorNext, Present, LockTicket, RefuseTicket, FlipTicket, Admit,
       FailScan, VoidTicket, RollbackVoid
<1>2. QED BY <1>1, DoorInvariant, PTL DEF DoorSpec, VoidedStayShut
=============================================================================
