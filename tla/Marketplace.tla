------------------------------- MODULE Marketplace -------------------------------
(***************************************************************************)
(* The platform's marketplace: paid orders are delivered (OrderDelivery),  *)
(* and what happened to settled orders is recorded and published           *)
(* (EconomyRecords).  The two share the database, but no operation of one  *)
(* waits for the other: a behaviour is about the one or the other.         *)
(***************************************************************************)
EXTENDS OrderDelivery, EconomyRecords

allVars == <<vars, recordVars>>

Bookkeeping == wanted \cap UNION Range(Tables) # {}

\* What a behaviour is not about has one value.
MarketplaceInit ==
  /\ Init /\ RecordsInit
  /\ IF Bookkeeping THEN category = (CHOOSE c \in Catalogues : TRUE) /\ trade.about \cap wanted # {}
     ELSE trade = (CHOOSE h \in Histories : TRUE)

MarketplaceNext ==
  \/ ~Bookkeeping /\ Next /\ UNCHANGED recordVars
  \/ Bookkeeping /\ (RecordsNext \/ (Settle /\ UNCHANGED recordVars))
     /\ UNCHANGED <<wanted, category, queueVars, order, attempt>>

(***************************************************************************)
(* Blocks are finalized, requests end, and the index is refreshed again    *)
(* and again (the schedule of vercel.json, the route, economy-index.ts).   *)
(***************************************************************************)
RecordsFairness ==
  /\ WF_allVars(Bookkeeping /\ Settle /\ UNCHANGED <<category, queueVars, order, attempt, recordVars>>)
  /\ WF_allVars(Bookkeeping /\ (Finalize \/ InsertAny) /\ UNCHANGED vars)
  /\ WF_allVars(Bookkeeping /\ IndexEconomy /\ UNCHANGED vars)

MarketplaceSpec ==
  /\ MarketplaceInit /\ [][MarketplaceNext]_allVars
  /\ Bookkeeping \/ Fairness
  /\ RecordsFairness

\* All records and the snapshot are true, at any point of any request.
BooksAreTrue == RecordsTypeOK /\ RecordsAreTrue /\ SnapshotIsClosed

\* Once blocks and records stop coming, the published snapshot shows them all, as the
\* reviewers of the day count them.
RecordsArePublished == []<>(Bookkeeping => UpToDate)
=============================================================================
