-------------------------- MODULE ListingsProofs --------------------------
(***************************************************************************)
(* Proofs about module Listings, for any number of rows and any size of    *)
(* page.  In the history a purchase never moves up, so the offset of the   *)
(* next page passes over no row that has not been given.                   *)
(***************************************************************************)
EXTENDS Listings, FiniteSetTheorems, TLAPS

-----------------------------------------------------------------------------
(***************************************************************************)
(* Types, and what a client is given against what there is.                *)
(***************************************************************************)

\* The committed purchases can be counted.
LEMMA MadeIsFinite ==
  ASSUME ListingTypeOK
  PROVE  IsFiniteSet(made) /\ Cardinality(made) \in Nat
  BY FS_Subset, FS_CardinalityType, ListingAssumption DEF ListingTypeOK

\* One more purchase, and there are more.
LEMMA MoreAreMade ==
  ASSUME ListingTypeOK, NEW p \in Purchase, Purchased(p)
  PROVE  Cardinality(made') \in Nat /\ Cardinality(made) <= Cardinality(made')
<1>1. made' = made \cup {p} /\ IsFiniteSet(made)
  BY MadeIsFinite DEF Purchased
<1>2. IsFiniteSet(made') /\ made \subseteq made'
  BY <1>1, FS_AddElement
<1>3. QED BY <1>2, FS_Subset, FS_CardinalityType

\* Every step keeps the types and the bounds of what is given.
LEMMA NextListingType == ListingTypeOK /\ [ListingNext]_listVars => ListingTypeOK'
<1> SUFFICES ASSUME ListingTypeOK, [ListingNext]_listVars PROVE ListingTypeOK'
  OBVIOUS
<1> USE DEF ListingTypeOK, rowVars, walkVars, historyVars
<1>1. CASE AskFeed
  BY <1>1 DEF AskFeed
<1>2. CASE OpenHistory
  BY <1>2 DEF OpenHistory
<1>3. CASE RunStatement
  <2>1. PageOf(page) \subseteq made
    BY DEF PageOf
  <2>2. Cardinality(made) \in Nat
    BY MadeIsFinite
  <2>3. /\ statement' \in {1, 2} /\ history' \subseteq made'
        /\ total' \in 0..Cardinality(made)
    BY <1>3, <2>1, <2>2 DEF RunStatement, Answer
  <2>4. page' \in Nat \ {0} /\ done' \in BOOLEAN
    BY <1>3 DEF RunStatement
  <2>5. QED BY <1>3, <2>3, <2>4 DEF RunStatement
<1>4. CASE Leave
  <2>1. Cardinality(made) \in Nat
    BY MadeIsFinite
  <2>2. page' \in Nat \ {0} /\ statement' \in {1, 2} /\ total' \in 0..Cardinality(made)
    BY <1>4, <2>1 DEF Leave
  <2>3. done' \in BOOLEAN
    BY <1>4, Zenon DEF Leave
  <2>4. list' = "none" /\ steady' = {} /\ history' = {} /\ feed' = "unread" /\ UNCHANGED rowVars
    BY <1>4 DEF Leave
  <2>5. QED BY <2>2, <2>3, <2>4
<1>5. ASSUME NEW e \in Event, Publish(e) \/ Hide(e) PROVE ListingTypeOK'
  BY <1>5 DEF Publish, Hide
<1>6. ASSUME NEW p \in Purchase, Purchased(p) PROVE ListingTypeOK'
  <2>1. Cardinality(made) \in Nat /\ Cardinality(made') \in Nat
        /\ Cardinality(made) <= Cardinality(made')
    BY <1>6, MadeIsFinite, MoreAreMade
  <2>2. total' \in 0..Cardinality(made')
    BY <1>6, <2>1 DEF Purchased
  <2>3. QED BY <1>6, <2>2 DEF Purchased
<1>7. CASE UNCHANGED listVars
  BY <1>7 DEF listVars
<1>8. QED
  BY <1>1, <1>2, <1>3, <1>4, <1>5, <1>6, <1>7 DEF ListingNext

\* The initial lists are typed.
LEMMA InitListingType == ListingInit => ListingTypeOK
<1> SUFFICES ASSUME ListingInit PROVE ListingTypeOK
  OBVIOUS
<1>1. page \in Nat \ {0} /\ statement \in {1, 2} /\ made = {} /\ total = 0
  BY DEF ListingInit
<1>2. total \in 0..Cardinality(made)
  BY <1>1, FS_EmptySet
<1>3. done \in BOOLEAN
  BY Zenon DEF ListingInit
<1>4. QED BY <1>1, <1>2, <1>3 DEF ListingInit, ListingTypeOK

\* A client is given only purchases that have been made, and is told of no more
\* than there are, whatever commits between the two statements.
THEOREM ListingTypes == ListingSpec => []ListingTypeOK
  BY InitListingType, NextListingType, PTL DEF ListingSpec

-----------------------------------------------------------------------------
(***************************************************************************)
(* The history.                                                            *)
(***************************************************************************)

\* A purchase that was there is given, or is not above the page that comes: above
\* the page to be listed, or, when it has been listed, above the one after it.
HistoryInv ==
  /\ list = "none" => page = 1 /\ ~done /\ statement = 1
  /\ list = "history" => steady \subseteq made
  /\ list = "history" => \A p \in steady :
       \/ p \in history
       \/ /\ ~done
          /\ statement = 1 => (page - 1) * Limit <= Cardinality(Newer(p))
          /\ statement = 2 => page * Limit <= Cardinality(Newer(p))

\* The rank of a purchase is below the number of the purchases.
LEMMA RankBelowTotal ==
  ASSUME ListingTypeOK, NEW p \in made
  PROVE  /\ Cardinality(Newer(p)) \in Nat /\ Cardinality(made) \in Nat
         /\ Cardinality(Newer(p)) < Cardinality(made)
<1>1. made \in SUBSET Purchase
  BY DEF ListingTypeOK
<1>2. IsFiniteSet(made) /\ p \in Nat
  BY <1>1, MadeIsFinite, ListingAssumption
<1>3. Newer(p) \in SUBSET (made \ {p})
  BY <1>2 DEF Newer
<1>4. IsFiniteSet(made \ {p}) /\ Cardinality(made \ {p}) = Cardinality(made) - 1
  BY <1>2, FS_RemoveElement
<1>5. IsFiniteSet(Newer(p)) /\ Cardinality(Newer(p)) <= Cardinality(made \ {p})
  BY <1>3, <1>4, FS_Subset
<1>6. Cardinality(Newer(p)) \in Nat /\ Cardinality(made) \in Nat
  BY <1>2, <1>5, FS_CardinalityType
<1>7. QED BY <1>4, <1>5, <1>6

\* New purchases move a purchase down only.
LEMMA RanksGrow ==
  ASSUME ListingTypeOK, NEW q \in Purchase, Purchased(q), NEW p \in made
  PROVE  Cardinality(Newer(p)) <= Cardinality(Newer(p)')
<1>1. made' = made \cup {q} /\ made' \in SUBSET Purchase
  BY DEF Purchased, ListingTypeOK
<1>2. Newer(p) \in SUBSET (Newer(p)')
  BY <1>1 DEF Newer
<1>3. Newer(p)' \in SUBSET Purchase
  BY <1>1 DEF Newer
<1>4. IsFiniteSet(Newer(p)')
  BY <1>3, ListingAssumption, FS_Subset
<1>5. QED BY <1>2, <1>4, FS_Subset

\* A statement of the handler gives the page or moves on to the next one.
LEMMA RunStatementHistory ==
  ASSUME ListingTypeOK, HistoryInv, RunStatement
  PROVE  HistoryInv'
<1>0. /\ list = "history" /\ ~done /\ UNCHANGED <<made, list, steady>>
      /\ page \in Nat /\ Limit \in Nat /\ statement \in {1, 2}
      /\ statement' = 3 - statement
  BY ListingAssumption DEF RunStatement, rowVars, ListingTypeOK
<1>1. \A p : Newer(p)' = Newer(p)
  BY <1>0 DEF Newer
<1>2. steady \subseteq made
  BY <1>0 DEF HistoryInv
<1>3. CASE statement = 1
  <2>0. ~done'
    <3>1. done' = (statement = 2 /\ page * Limit >= total') /\ statement # 2
      BY <1>3 DEF RunStatement
    <3>2. QED BY <3>1, Zenon
  <2>1. history' = history \cup PageOf(page) /\ page' = page /\ statement' = 2
    BY <1>0, <1>3 DEF RunStatement, Answer, Statements
  <2>2. ASSUME NEW p \in steady, p \notin history' PROVE page' * Limit <= Cardinality(Newer(p))
    <3>1. p \in made /\ p \notin history /\ p \notin PageOf(page)
      BY <1>2, <2>1, <2>2
    <3>2. (page - 1) * Limit <= Cardinality(Newer(p))
      BY <1>0, <1>3, <3>1 DEF HistoryInv
    <3>3. ~(Cardinality(Newer(p)) < page * Limit)
      BY <3>1, <3>2 DEF PageOf, AtOffset
    <3>4. Cardinality(Newer(p)) \in Nat /\ page * Limit \in Nat
      BY <1>0, <3>1, RankBelowTotal
    <3>5. QED BY <2>1, <3>3, <3>4
  <2>3. QED BY <1>0, <1>1, <1>2, <2>0, <2>1, <2>2 DEF HistoryInv
<1>4. CASE statement = 2
  <2>1. /\ history' = history /\ total' = Cardinality(made) /\ statement' = 1
        /\ done' = (page * Limit >= total')
        /\ page' = IF page * Limit < total' THEN page + 1 ELSE page
    BY <1>0, <1>4 DEF RunStatement, Answer, Statements
  <2>2. ASSUME NEW p \in steady, p \notin history'
        PROVE  ~done' /\ (page' - 1) * Limit <= Cardinality(Newer(p))
    <3>1. page * Limit <= Cardinality(Newer(p)) /\ p \in made
      BY <1>0, <1>2, <1>4, <2>1, <2>2 DEF HistoryInv
    <3>2. /\ Cardinality(Newer(p)) \in Nat /\ Cardinality(made) \in Nat
          /\ Cardinality(Newer(p)) < Cardinality(made) /\ page * Limit \in Nat
      BY <1>0, <3>1, RankBelowTotal
    <3>3. page * Limit < total'
      BY <2>1, <3>1, <3>2
    <3>4. page' = page + 1
      BY <2>1, <3>3
    <3>5. ~(page * Limit >= total')
      BY <2>1, <3>2, <3>3
    <3>6. ~done'
      BY <2>1, <3>5, Zenon
    <3>7. page' - 1 = page
      BY <1>0, <3>4
    <3>8. QED BY <3>1, <3>6, <3>7
  <2>3. QED BY <1>0, <1>1, <1>2, <2>1, <2>2 DEF HistoryInv
<1>5. QED BY <1>0, <1>3, <1>4

\* Every step keeps the history.
LEMMA NextHistory == ListingTypeOK /\ HistoryInv /\ [ListingNext]_listVars => HistoryInv'
<1> SUFFICES ASSUME ListingTypeOK, HistoryInv, [ListingNext]_listVars PROVE HistoryInv'
  OBVIOUS
<1> USE DEF rowVars, walkVars, historyVars
<1>1. ASSUME UNCHANGED <<made, list, page, done, statement, history>>,
             list = "history" => steady' = steady
      PROVE  HistoryInv'
  BY <1>1 DEF HistoryInv, Newer
<1>2. CASE AskFeed
  BY <1>2 DEF AskFeed, HistoryInv
<1>3. CASE OpenHistory
  <2>1. /\ list = "none" /\ list' = "history" /\ steady' = made
        /\ UNCHANGED <<made, page, done, statement>>
        /\ page = 1 /\ ~done /\ statement = 1
    BY <1>3 DEF OpenHistory, HistoryInv
  <2>2. \A p : Newer(p)' = Newer(p)
    BY <2>1 DEF Newer
  <2>3. (page' - 1) * Limit = 0
    BY <2>1, ListingAssumption
  <2>4. \A p \in made : 0 <= Cardinality(Newer(p))
    BY RankBelowTotal
  <2>5. QED BY <2>1, <2>2, <2>3, <2>4 DEF HistoryInv
<1>4. CASE Leave
  BY <1>4 DEF Leave, HistoryInv
<1>5. ASSUME NEW e \in Event, Publish(e) PROVE HistoryInv'
  BY <1>1, <1>5 DEF Publish
<1>6. ASSUME NEW e \in Event, Hide(e) PROVE HistoryInv'
  BY <1>1, <1>6 DEF Hide
<1>7. ASSUME NEW q \in Purchase, Purchased(q) PROVE HistoryInv'
  <2>1. /\ made \subseteq made'
        /\ UNCHANGED <<list, page, done, statement, history, steady>>
    BY <1>7 DEF Purchased
  <2>2. CASE list = "history"
    <3>1. ASSUME NEW p \in steady, p \notin history
          PROVE  /\ ~done'
                 /\ statement' = 1 => (page' - 1) * Limit <= Cardinality(Newer(p)')
                 /\ statement' = 2 => page' * Limit <= Cardinality(Newer(p)')
      <4>1. p \in made
        BY <2>2 DEF HistoryInv
      <4>2. Cardinality(Newer(p)) <= Cardinality(Newer(p)')
        BY <1>7, <4>1, RanksGrow
      <4>3. /\ ~done
            /\ statement = 1 => (page - 1) * Limit <= Cardinality(Newer(p))
            /\ statement = 2 => page * Limit <= Cardinality(Newer(p))
        BY <2>2, <3>1 DEF HistoryInv
      <4>4. Cardinality(Newer(p)) \in Nat
        BY <4>1, RankBelowTotal
      <4>5. made' \in SUBSET Purchase /\ Newer(p)' \in SUBSET Purchase
        BY <1>7 DEF Purchased, ListingTypeOK, Newer
      <4>6. IsFiniteSet(Newer(p)')
        BY <4>5, ListingAssumption, FS_Subset
      <4>7. Cardinality(Newer(p)') \in Nat
        BY <4>6, FS_CardinalityType
      <4>8. (page - 1) * Limit \in Int /\ page * Limit \in Int
        BY ListingAssumption DEF ListingTypeOK
      <4>9. QED BY <2>1, <4>2, <4>3, <4>4, <4>7, <4>8
    <3>2. QED BY <2>1, <2>2, <3>1 DEF HistoryInv
  <2>3. QED BY <2>1, <2>2 DEF HistoryInv
<1>8. CASE UNCHANGED listVars
  BY <1>1, <1>8 DEF listVars
<1>9. QED
  BY <1>2, <1>3, <1>4, <1>5, <1>6, <1>7, <1>8, RunStatementHistory
  DEF ListingNext

\* The pages of the history miss no purchase that was there when it was opened.
THEOREM HistoryMissesNothing == ListingSpec => []HistoryIsComplete
<1>1. ListingInit => HistoryInv
  BY DEF ListingInit, HistoryInv
<1>2. HistoryInv => HistoryIsComplete
  BY DEF HistoryInv, HistoryIsComplete
<1>3. QED
  BY <1>1, <1>2, InitListingType, NextListingType, NextHistory, PTL DEF ListingSpec
=============================================================================
