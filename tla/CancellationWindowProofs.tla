----------------------- MODULE CancellationWindowProofs -----------------------
(***************************************************************************)
(* Theorems about CancellationWindow for every set of requests, dates and  *)
(* notices, every width of a duration, and every timeout below the grace.  *)
(***************************************************************************)
EXTENDS CancellationWindow, TLAPS

\* int64 arithmetic stays among the integers.
LEMMA NoticeIsInt == \A h \in Notices : Notice(h) \in Int
<1> SUFFICES ASSUME NEW h \in Notices PROVE Notice(h) \in Int
  OBVIOUS
<1>1. h * Hour \in Int
  BY WindowAssumption
<1>2. 2 * HalfRange \in Int /\ 2 * HalfRange > 0
  BY WindowAssumption
<1>3. \A x \in Int, y \in Int : y > 0 => x % y \in Int
  OBVIOUS
<1>4. (h * Hour + HalfRange) % (2 * HalfRange) \in Int
  BY <1>1, <1>2, <1>3, WindowAssumption
<1> QED
  BY <1>4, WindowAssumption DEF Notice, Wrap

-----------------------------------------------------------------------------
(***************************************************************************)
(* The invariant.                                                          *)
(***************************************************************************)

\* The row of a fresh event, and no request in progress.
LEMMA InitWindowInv == WindowInit => WindowInv
  BY DEF WindowInit, WindowInv, WindowTypeOK, Event, Never, NoRequest

\* A handler stamps what it changes with the time it reads.
LEMMA MergeKeepsInv ==
  ASSUME WindowInv, NEW r \in Request, NEW fields \in SUBSET Material,
         NEW starts \in Starts, NEW allowed \in BOOLEAN, NEW hours \in Notices,
         Merge(r, fields, starts, allowed, hours)
  PROVE  WindowInv'
<1> DEFINE merged == Merged(fields, starts, allowed, hours)
           new == IF Stamps(fields) THEN [merged EXCEPT !.changedAt = now] ELSE merged
           q == [step |-> "merged", since |-> now, old |-> event, new |-> new]
<1>1. now \in Nat /\ event \in Event /\ request \in [Request -> {NoRequest} \cup Pending]
  BY DEF WindowInv, WindowTypeOK
<1>2. /\ merged \in Event
      /\ merged.status = event.status
      /\ merged.changedAt = event.changedAt
      /\ fields = {} => Terms(merged) = Terms(event)
  BY <1>1 DEF Merged, Event, Terms
<1>3. new \in Event /\ new.status = event.status
  BY <1>1, <1>2 DEF Event
<1>4. event.status = "published" =>
        \/ new.changedAt = now
        \/ new.changedAt = event.changedAt /\ Terms(new) = Terms(event)
  <2>1. CASE Stamps(fields)
    BY <1>2, <2>1 DEF Event
  <2>2. CASE ~Stamps(fields)
    BY <1>2, <2>2 DEF Stamps
  <2> QED
    BY <2>1, <2>2
<1>5. q \in Pending
  BY <1>1, <1>3 DEF Pending
<1>6. now' = now /\ event' = event /\ request' = [request EXCEPT ![r] = q]
  BY DEF Merge
<1>7. WindowTypeOK'
  BY <1>1, <1>5, <1>6 DEF WindowTypeOK
<1>8. ASSUME NEW s \in Request, request'[s] # NoRequest
      PROVE  LET p == request'[s]
             IN /\ p.since <= now /\ now - p.since <= Span
                /\ p.new.status = p.old.status
                /\ p.old.status = "published" =>
                     \/ p.new.changedAt = p.since
                     \/ p.new.changedAt = p.old.changedAt /\ Terms(p.new) = Terms(p.old)
  <2>1. CASE s = r
    <3>1. request'[s] = q
      BY <1>1, <1>6, <2>1
    <3>2. q.since = now /\ q.old = event /\ q.new = new
      OBVIOUS
    <3> HIDE DEF q, new
    <3> QED
      BY <1>1, <1>3, <1>4, <3>1, <3>2, WindowAssumption
  <2>2. CASE s # r
    <3>1. request'[s] = request[s]
      BY <1>1, <1>6, <2>2
    <3> QED
      BY <1>8, <3>1 DEF WindowInv
  <2> QED
    BY <2>1, <2>2
<1> QED
  BY <1>6, <1>7, <1>8 DEF WindowInv

\* A write puts a row of the right type in place and ends its request.
LEMMA WriteKeepsInv ==
  ASSUME WindowInv, NEW r \in Request, Write(r)
  PROVE  WindowInv'
<1>1. now \in Nat /\ event \in Event /\ request \in [Request -> {NoRequest} \cup Pending]
  BY DEF WindowInv, WindowTypeOK
<1>2. request[r] \in Pending
  BY <1>1 DEF Write
<1>3. request[r].new \in Event
  BY <1>2 DEF Pending
<1>4. event' \in Event
  BY <1>1, <1>3 DEF Write, Event
<1>5. now' = now /\ request' = [request EXCEPT ![r] = NoRequest]
  BY DEF Write
<1> QED
  BY <1>1, <1>4, <1>5 DEF WindowInv, WindowTypeOK

\* Dropping a request leaves the others as they are.
LEMMA DropKeepsInv ==
  ASSUME WindowInv, NEW r \in Request, Drop(r)
  PROVE  WindowInv'
  BY DEF Drop, WindowInv, WindowTypeOK

\* Publishing changes the status of the row alone.
LEMMA PublishKeepsInv ==
  ASSUME WindowInv, PublishEvent
  PROVE  WindowInv'
<1>1. event' \in Event
  BY DEF PublishEvent, WindowInv, WindowTypeOK, Event
<1> QED
  BY <1>1 DEF PublishEvent, WindowInv, WindowTypeOK

\* Time waits for the requests whose context is about to expire.
LEMMA TickKeepsInv ==
  ASSUME WindowInv, Tick
  PROVE  WindowInv'
<1>1. now \in Nat /\ now' = now + 1 /\ event' = event /\ request' = request
  BY DEF Tick, WindowInv, WindowTypeOK
<1>2. WindowTypeOK'
  BY <1>1 DEF WindowInv, WindowTypeOK
<1>3. ASSUME NEW s \in Request, request[s] # NoRequest
      PROVE  request[s].since <= now' /\ now' - request[s].since <= Span
  <2>1. request[s].since \in Nat /\ request[s].since <= now
    BY <1>3 DEF WindowInv, WindowTypeOK, Pending
  <2>2. now - request[s].since < Span
    BY <1>3 DEF Tick
  <2> QED
    BY <1>1, <2>1, <2>2, WindowAssumption
<1> QED
  BY <1>1, <1>2, <1>3 DEF WindowInv

\* Requests in progress are young and carry their stamps, whatever updates
\* overlap, fail or are retried.
THEOREM WindowInvariant == WindowSpec => []WindowInv
<1>1. WindowInv /\ [WindowNext]_windowVars => WindowInv'
  <2> SUFFICES ASSUME WindowInv, [WindowNext]_windowVars PROVE WindowInv'
    OBVIOUS
  <2>1. ASSUME NEW r \in Request, NEW fields \in SUBSET Material, NEW starts \in Starts,
               NEW allowed \in BOOLEAN, NEW hours \in Notices,
               Merge(r, fields, starts, allowed, hours)
        PROVE  WindowInv'
    BY <2>1, MergeKeepsInv
  <2>2. ASSUME NEW r \in Request, Write(r) \/ Drop(r) PROVE WindowInv'
    BY <2>2, WriteKeepsInv, DropKeepsInv
  <2>3. CASE PublishEvent
    BY <2>3, PublishKeepsInv
  <2>4. CASE Tick
    BY <2>4, TickKeepsInv
  <2>5. CASE UNCHANGED windowVars
    BY <2>5 DEF windowVars, WindowInv, WindowTypeOK
  <2> QED
    BY <2>1, <2>2, <2>3, <2>4, <2>5 DEF WindowNext
<1> QED
  BY <1>1, InitWindowInv, PTL DEF WindowSpec

-----------------------------------------------------------------------------
(***************************************************************************)
(* What the invariant buys.                                                *)
(***************************************************************************)

\* An update that was not overtaken either leaves the terms and the stamp, or
\* stamps the row so recently that the grace window is open.
LEMMA TimelyWrite ==
  ASSUME WindowInv, NEW r \in Request, Write(r), request[r].old = event,
         event.status = "published"
  PROVE  \/ GraceOpen(event', now)
         \/ event'.changedAt = event.changedAt /\ Terms(event') = Terms(event)
<1> DEFINE q == request[r]
<1>1. now \in Nat /\ q \in Pending /\ event \in Event
  BY DEF WindowInv, WindowTypeOK, Write
<1>2. q.new \in Event /\ q.since \in Nat
  BY <1>1 DEF Pending
<1>3. /\ Terms(event') = Terms(q.new)
      /\ event'.changedAt = IF q.new.changedAt = Never THEN event.changedAt ELSE q.new.changedAt
  BY <1>2 DEF Write, Terms, Event
<1>4. now - q.since <= Span
  BY DEF WindowInv, Write
<1>5. \/ q.new.changedAt = q.since
      \/ q.new.changedAt = event.changedAt /\ Terms(q.new) = Terms(event)
  BY DEF WindowInv, Write
<1>6. CASE q.new.changedAt = q.since
  <2>1. event'.changedAt = q.since /\ q.since # Never
    BY <1>2, <1>3, <1>6 DEF Never
  <2> QED
    BY <1>1, <1>2, <1>4, <2>1, WindowAssumption DEF GraceOpen
<1>7. CASE q.new.changedAt = event.changedAt /\ Terms(q.new) = Terms(event)
  BY <1>3, <1>7
<1> QED
  BY <1>5, <1>6, <1>7

\* No update of an event on sale takes the right to cancel away unannounced.
THEOREM UpdatesKeepTheRight == WindowSpec => NoSilentLoss
<1> DEFINE Keeps ==
      \A r \in Request :
        /\ Write(r)
        /\ request[r].old = event
        /\ event.status = "published"
        /\ event'.allowed
        /\ now < event'.starts
        /\ MayCancel(event, now)
        => MayCancel(event', now)
<1>1. WindowInv => Keeps
  <2> SUFFICES ASSUME WindowInv, NEW r \in Request, Write(r), request[r].old = event,
                      event.status = "published", event'.allowed, now < event'.starts,
                      MayCancel(event, now)
               PROVE  MayCancel(event', now)
    OBVIOUS
  <2>1. CASE GraceOpen(event', now)
    BY <2>1 DEF MayCancel
  <2>2. CASE event'.changedAt = event.changedAt /\ Terms(event') = Terms(event)
    BY <2>2 DEF MayCancel, GraceOpen, Terms
  <2> QED
    BY <2>1, <2>2, TimelyWrite
<1>2. WindowInv /\ [WindowNext]_windowVars => [Keeps]_windowVars
  BY <1>1
<1> QED
  BY <1>2, WindowInvariant, PTL DEF WindowSpec, NoSilentLoss

\* Time never opens what it has closed, whatever a notice wraps to.
THEOREM TimeNeverReopens == WindowSpec => TimeOnlyCloses
<1> DEFINE Closes == event' = event /\ MayCancel(event', now') => MayCancel(event, now)
<1>1. WindowInv /\ WindowNext => Closes
  <2> SUFFICES ASSUME WindowInv, WindowNext, event' = event, MayCancel(event', now')
               PROVE  MayCancel(event, now)
    OBVIOUS
  <2>1. now \in Nat /\ (now' = now \/ now' = now + 1)
    BY DEF WindowInv, WindowTypeOK, WindowNext, Merge, Write, Drop, PublishEvent, Tick
  <2>2. event \in Event
    BY DEF WindowInv, WindowTypeOK
  <2>3. event.starts \in Nat /\ event.hours \in Notices /\ event.changedAt \in Int
    <3>1. event.starts \in Starts /\ event.hours \in Notices /\ event.changedAt \in {Never} \cup Nat
      BY <2>2 DEF Event
    <3>2. Never \in Int
      BY DEF Never
    <3>3. event.starts \in Nat
      BY <3>1, WindowAssumption
    <3>4. event.changedAt \in Int
      BY <3>1, <3>2
    <3> QED
      BY <3>1, <3>3, <3>4
  <2>4. Notice(event.hours) \in Int
    BY <2>3, NoticeIsInt
  <2>5. GraceOpen(event', now') => GraceOpen(event, now)
    BY <2>1, <2>3, WindowAssumption DEF GraceOpen
  <2> QED
    BY <2>1, <2>3, <2>4, <2>5 DEF MayCancel
<1>2. WindowInv /\ [WindowNext]_windowVars => [Closes]_windowVars
  BY <1>1
<1> QED
  BY <1>2, WindowInvariant, PTL DEF WindowSpec, TimeOnlyCloses
=============================================================================
