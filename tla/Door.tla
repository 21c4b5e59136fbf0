-------------------------------- MODULE Door --------------------------------
(***************************************************************************)
(* Scanners at the doors: checkIn of cmd/server/check-in.go runs           *)
(* TicketsStore.CheckIn, a transaction that locks the ticket's row, checks *)
(* and flips it, and answers valid only after the commit.  Several scans   *)
(* may meet at one ticket, and so may a cancellation, the buyer's or the   *)
(* organizer's, which updates the row in a transaction of its own.  (Which *)
(* tickets a cancellation takes and what else it changes is the subject of *)
(* TicketSales.)                                                           *)
(***************************************************************************)
EXTENDS Integers

CONSTANTS
  Ticket,  \* the tickets whose tokens are shown
  Scan     \* the check-in requests that are in progress at a time

VARIABLES
  ticket,    \* tickets.status
  voiding,   \* the tickets whose rows an open cancellation has updated
  scan,      \* what each request does
  admitted   \* how often the doors have answered valid to each ticket

doorVars == <<ticket, voiding, scan, admitted>>

Status == {"unused", "used", "cancelled"}
Idle   == [step |-> "idle"]

\* A request with a ticket's token at a door, which may be of another event,
\* and the status its SELECT has returned.
Scans ==
  {Idle} \cup [step : {"sent", "locked", "flipped", "committed"}, ticket : Ticket,
               here : BOOLEAN, seen : Status]

DoorTypeOK ==
  /\ ticket \in [Ticket -> Status]
  /\ voiding \subseteq Ticket
  /\ scan \in [Scan -> Scans]
  /\ admitted \in [Ticket -> Nat]

\* The row lock of ticket k: FOR UPDATE of a check-in, UPDATE of a cancellation.
Holds(s, k) == scan[s].step \in {"locked", "flipped"} /\ scan[s].ticket = k
Locked(k)   == k \in voiding \/ \E s \in Scan : Holds(s, k)

DoorInit ==
  /\ ticket = [k \in Ticket |-> "unused"]
  /\ voiding = {}
  /\ scan = [s \in Scan |-> Idle]
  /\ admitted = [k \in Ticket |-> 0]

\* The token is genuine and names ticket k; the door's event is k's, or not.
Present(s, k) ==
  /\ scan[s] = Idle
  /\ \E here \in BOOLEAN :
       scan' = [scan EXCEPT ![s] =
         [step |-> "sent", ticket |-> k, here |-> here, seen |-> ticket[k]]]
  /\ UNCHANGED <<ticket, voiding, admitted>>

\* Mistake: the SELECT without FOR UPDATE.
LockTicketUnlocked(s) ==
  /\ scan[s].step = "sent"
  /\ scan' = [scan EXCEPT ![s].step = "locked", ![s].seen = ticket[scan[s].ticket]]
  /\ UNCHANGED <<ticket, voiding, admitted>>

\* SELECT ... FOR UPDATE OF t waits for the row and returns it as it then is.
LockTicket(s) ==
  /\ scan[s].step = "sent"
  /\ ~Locked(scan[s].ticket)
  /\ scan' = [scan EXCEPT ![s].step = "locked", ![s].seen = ticket[scan[s].ticket]]
  /\ UNCHANGED <<ticket, voiding, admitted>>

\* Mistake: a ticket that was used is let in once more.
AdmissibleUsed(s) == scan[s].seen # "cancelled" /\ scan[s].here

\* Mistake: a cancelled ticket opens the door.
AdmissibleCancelled(s) == scan[s].seen # "used" /\ scan[s].here

\* None of ErrAlreadyCheckedIn, ErrTicketCancelled and ErrWrongEvent applies.
Admissible(s) == scan[s].seen = "unused" /\ scan[s].here

RefuseTicket(s) ==
  /\ scan[s].step = "locked"
  /\ ~Admissible(s)
  /\ scan' = [scan EXCEPT ![s] = Idle]
  /\ UNCHANGED <<ticket, voiding, admitted>>

\* UPDATE tickets SET status = 'used' WHERE id = $1, uncommitted.
FlipTicket(s) ==
  /\ scan[s].step = "locked"
  /\ Admissible(s)
  /\ scan' = [scan EXCEPT ![s].step = "flipped"]
  /\ UNCHANGED <<ticket, voiding, admitted>>

CommitCheckIn(s) ==
  /\ scan[s].step = "flipped"
  /\ ticket' = [ticket EXCEPT ![scan[s].ticket] = "used"]
  /\ scan' = [scan EXCEPT ![s].step = "committed"]
  /\ UNCHANGED <<voiding, admitted>>

\* {valid: true}
Admit(s) ==
  /\ scan[s].step = "committed"
  /\ admitted' = [admitted EXCEPT ![scan[s].ticket] = @ + 1]
  /\ scan' = [scan EXCEPT ![s] = Idle]
  /\ UNCHANGED <<ticket, voiding>>

\* A statement or its 5 second context fails and the transaction rolls back, or
\* the server dies; after the commit the answer alone is lost.
FailScan(s) ==
  /\ scan[s] # Idle
  /\ scan' = [scan EXCEPT ![s] = Idle]
  /\ UNCHANGED <<ticket, voiding, admitted>>

(***************************************************************************)
(* PurchasesStore.Cancel and CancelByEvent, as far as one ticket's row     *)
(* sees them: an UPDATE whatever its status, and the transaction's end.    *)
(***************************************************************************)
VoidTicket(k) ==
  /\ ~Locked(k)
  /\ voiding' = voiding \cup {k}
  /\ UNCHANGED <<ticket, scan, admitted>>

CommitVoid(k) ==
  /\ k \in voiding
  /\ ticket' = [ticket EXCEPT ![k] = "cancelled"]
  /\ voiding' = voiding \ {k}
  /\ UNCHANGED <<scan, admitted>>

RollbackVoid(k) ==
  /\ k \in voiding
  /\ voiding' = voiding \ {k}
  /\ UNCHANGED <<ticket, scan, admitted>>

-----------------------------------------------------------------------------
DoorNext ==
  \/ \E s \in Scan :
       \/ \E k \in Ticket : Present(s, k)
       \/ LockTicket(s) \/ RefuseTicket(s) \/ FlipTicket(s)
       \/ CommitCheckIn(s) \/ Admit(s) \/ FailScan(s)
  \/ \E k \in Ticket : VoidTicket(k) \/ CommitVoid(k) \/ RollbackVoid(k)

DoorSpec == DoorInit /\ [][DoorNext]_doorVars

-----------------------------------------------------------------------------
(***************************************************************************)
(* What the code guarantees.                                               *)
(***************************************************************************)

\* Two scanners never both let the same ticket in, however their requests, a
\* cancellation, rollbacks and lost answers interleave (tickets.go:45-57).
AdmittedOnce == \A k \in Ticket : admitted[k] <= 1

\* A ticket's row has one owner, and what the owner has seen is still the row.
RowHasOneOwner ==
  \A s \in Scan, k \in Ticket : Holds(s, k) =>
    /\ k \notin voiding
    /\ scan[s].seen = ticket[k]
    /\ scan[s].step = "flipped" => scan[s].seen = "unused"
    /\ \A r \in Scan : Holds(r, k) => r = s

\* A ticket is let in by the one scan that turned it from unused to used: until
\* the answer is sent that scan is in progress, and nobody is let in before.
OneScanUsesTicket ==
  \A k \in Ticket :
    LET users == {s \in Scan : scan[s].step = "committed" /\ scan[s].ticket = k} IN
    /\ ticket[k] = "unused" => admitted[k] = 0 /\ users = {}
    /\ admitted[k] # 0 => admitted[k] = 1 /\ users = {}
    /\ \A r, s \in users : r = s

\* The inductive invariant of the door (module DoorProofs): types, row locks and
\* the scan that each admission comes from.
DoorInv == DoorTypeOK /\ RowHasOneOwner /\ OneScanUsesTicket

\* A cancellation that has committed is not undone by a scan that began before
\* it: the ticket stays cancelled (tickets.go:79).
VoidedStayShut ==
  [][\A k \in Ticket : ticket[k] = "cancelled" => ticket'[k] = "cancelled"]_doorVars
=============================================================================
