----------------------------- MODULE MCWaitlist -----------------------------
\* Waitlist with one buyer, who is also a user.
EXTENDS Waitlist

CONSTANT u1

\* One user has made every purchase.
BuyerOf == [p \in Purchase |-> u1]

\* Bound: the dates of the event stay ahead.  A buyer who comes too late to
\* cancel frees no seat, and an event that is over takes nobody onto its waitlist.
InTime == clock = "open"

\* Bound: nobody is at the door yet.  A scan writes a ticket, which no step of
\* the waitlist reads.
BeforeTheDoor == \A k \in Ticket : ticket[k] # "used"

\* Bound: one joinWaitlist request at a time is between its start and its INSERT.
\* It only reads until then; what it has read may be stale when it inserts, and
\* the INSERTs of several users overlap.
OneReader == Cardinality({u \in User : join[u].step \notin {"out", "inserting"}}) <= 1

\* Bound: a run is followed until a worker fails, which the properties of
\* promises excuse.
Unharmed == ~mishap
=============================================================================
