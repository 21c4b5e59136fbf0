------------------------------ MODULE Listings ------------------------------
(***************************************************************************)
(* Lists that are read while their rows change: the feed of published      *)
(* events (getPublishedEvents, GetAllPublished) and, page by page, a       *)
(* user's purchases (listPurchases, ListByUser, CountByUser).  A client    *)
(* reads one list at a time, the history from its first page to its last.  *)
(* The feed never gives a row, so it never gives a cursor to a next page.  *)
(***************************************************************************)
EXTENDS Integers, FiniteSets, Pgx

CONSTANTS
  Event,     \* the events
  Purchase,  \* the user's purchases, by created_at and id
  Limit      \* the rows of a page

ASSUME ListingAssumption ==
  /\ IsFiniteSet(Purchase) /\ Purchase \subseteq Nat
  /\ Limit \in Nat \ {0}

VARIABLES
  status,    \* events.status, "hidden" for all that the feed leaves out
  made,      \* the purchases whose transaction has committed
  list,      \* the list the client reads
  page,      \* the number of the page it asks for next
  done,      \* whether it has been given the last one
  feed,      \* what the request for the feed was answered
  statement, \* what listPurchases runs next
  history,   \* the purchases it was given
  total,     \* the total it was given with them
  steady     \* the purchases that were there when it opened the history

rowVars     == <<status, made>>
walkVars    == <<list, page, done>>
historyVars == <<statement, history, total>>
listVars    == <<rowVars, walkVars, feed, historyVars, steady>>

\* Types; besides, a client is given no purchase that has not been made, and is
\* told of no more than there are (the history is read from committed rows).
ListingTypeOK ==
  /\ status \in [Event -> {"published", "hidden"}]
  /\ made \subseteq Purchase
  /\ list \in {"none", "feed", "history"}
  /\ page \in Nat \ {0}
  /\ done \in BOOLEAN
  /\ feed \in {"unread", "page", "error"}
  /\ statement \in {1, 2}
  /\ history \subseteq made
  /\ total \in 0..Cardinality(made)
  /\ steady \subseteq Purchase
  /\ list = "none" => steady = {}

ListingInit ==
  /\ status \in [Event -> {"published", "hidden"}]
  /\ made = {}
  /\ list = "none"
  /\ page = 1
  /\ done = FALSE
  /\ feed = "unread"
  /\ statement = 1 /\ history = {} /\ total = 0
  /\ steady = {}

(***************************************************************************)
(* The feed.                                                               *)
(***************************************************************************)

\* The rows GetAllPublished's WHERE finds for a request without a cursor.
Published == {e \in Event : status[e] = "published"}

\* GET /api/events: when GetAllPublished fails the answer is 500, and a page of
\* no events otherwise.
AskFeed ==
  /\ list = "none"
  /\ list' = "feed"
  /\ feed' = IF CollectFails(Published) THEN "error" ELSE "page"
  /\ done' = TRUE
  /\ UNCHANGED <<rowVars, page, historyVars, steady>>

\* Publication, or a cancellation that reopens a sold-out event.
Publish(e) ==
  /\ status[e] = "hidden"
  /\ status' = [status EXCEPT ![e] = "published"]
  /\ UNCHANGED <<made, walkVars, feed, historyVars, steady>>

\* The event sells out, is cancelled or ends.
Hide(e) ==
  /\ status[e] = "published"
  /\ status' = [status EXCEPT ![e] = "hidden"]
  /\ UNCHANGED <<made, walkVars, feed, historyVars, steady>>

(***************************************************************************)
(* The history.                                                            *)
(***************************************************************************)

\* Mistake: the total is counted first.
CountThenList == <<"count", "list">>

\* listPurchases runs ListByUser and then CountByUser.
Statements == <<"list", "count">>

\* The rows above p's in the history: ORDER BY created_at DESC, id DESC
Newer(p) == {q \in made : q > p}

\* The rows at offsets (n - 1) * limit up to n * limit.
AtOffset(p, n) == (n - 1) * Limit <= Cardinality(Newer(p)) /\ Cardinality(Newer(p)) < n * Limit

\* Mistake: rows of transactions that are still open are read.
PageOfUncommitted(n) == {p \in Purchase : AtOffset(p, n)}

\* LIMIT limit OFFSET (page - 1) * limit
PageOf(n) == {p \in made : AtOffset(p, n)}

OpenHistory ==
  /\ list = "none"
  /\ list' = "history"
  /\ steady' = made
  /\ UNCHANGED <<rowVars, page, done, feed, historyVars>>

\* What a statement adds to the response.
Answer(s) ==
  /\ history' = IF s = "list" THEN history \cup PageOf(page) ELSE history
  /\ total' = IF s = "count" THEN Cardinality(made) ELSE total

\* One statement of the handler; after the second the client has the page and
\* the total, and asks for the next page while the total says there is one.
RunStatement ==
  /\ list = "history" /\ ~done
  /\ Answer(Statements[statement])
  /\ statement' = 3 - statement
  /\ done' = (statement = 2 /\ page * Limit >= total')
  /\ page' = IF statement = 2 /\ page * Limit < total' THEN page + 1 ELSE page
  /\ UNCHANGED <<rowVars, list, feed, steady>>

\* A purchase commits.  Its created_at is when its transaction began, so that
\* it may come to stand below purchases that are there already.
Purchased(p) ==
  /\ p \notin made
  /\ made' = made \cup {p}
  /\ UNCHANGED <<status, walkVars, feed, historyVars, steady>>

-----------------------------------------------------------------------------
\* The client has what it wanted.
Leave ==
  /\ done
  /\ list' = "none"
  /\ page' = 1
  /\ done' = FALSE
  /\ feed' = "unread"
  /\ statement' = 1 /\ history' = {} /\ total' = 0
  /\ steady' = {}
  /\ UNCHANGED rowVars

ListingNext ==
  \/ AskFeed
  \/ OpenHistory \/ RunStatement
  \/ Leave
  \/ \E e \in Event : Publish(e) \/ Hide(e)
  \/ \E p \in Purchase : Purchased(p)

ListingSpec == ListingInit /\ [][ListingNext]_listVars

-----------------------------------------------------------------------------
(***************************************************************************)
(* What the code guarantees.                                               *)
(***************************************************************************)

\* A purchase that was there when the client opened its history is on one of its
\* pages, although new purchases shift the offsets and the total is read by a
\* statement of its own (purchases.go:175-185).
HistoryIsComplete ==
  list = "history" /\ done => steady \subseteq history
=============================================================================
