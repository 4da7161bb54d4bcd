------------------------------ MODULE EconomyRecords ------------------------------
(***************************************************************************)
(* What the platform records about settled orders, and what it publishes.  *)
(* Sellers state what they consumed (production-store.ts), attestors value *)
(* outputs (evidence.ts), sellers report refunds, buyers dispute and       *)
(* reviewers judge (recovery.ts): each request checks under its lock and   *)
(* then inserts.  The indexer (indexer.ts) reads these tables one after    *)
(* another, and finalized blocks, and replaces the published snapshot.     *)
(***************************************************************************)
EXTENDS Scenario, Integers, Sequences, FiniteSetsExt

CONSTANTS
  Histories,  \* the possible histories: [seller, payer, transfer, log, start, about]
  Principal,  \* what each order paid
  Reviewers,
  MaxRecords, \* bound: records of one behaviour
  Batch       \* blocks indexed in one transaction

ASSUME RecordsAssumption ==
  /\ {Principal, MaxRecords, Batch} \subseteq Nat \ {0}
  /\ \A h \in Histories :
       /\ h.log \in Seq(Range(h.log)) /\ h.start \in 1 .. Len(h.log)
       /\ \A t \in DOMAIN h.transfer : h.transfer[t].amount \in Nat

VARIABLES
  trade,    \* the history of this behaviour, one event a block
  final,    \* finalized blocks
  trusted,  \* ECONOMY_REVIEW_SIGNERS
  rows,     \* the five tables of records
  open,     \* rows of requests that have checked and not yet inserted
  index,    \* economy_index_state: the cursor, what it was projected from, all balances read
  indexer   \* the transaction that holds the advisory lock

recordVars == <<trade, final, trusted, rows, open, index, indexer>>

Settled == DOMAIN trade.seller
Blocks == 0 .. Len(trade.log)

\* The block of an event, beyond the last block if it never happens.
BlockOf(event) ==
  IF \E b \in DOMAIN trade.log : trade.log[b] = event
  THEN CHOOSE b \in DOMAIN trade.log : trade.log[b] = event ELSE Len(trade.log) + 1
Paid(o) == BlockOf(<<"paid", o>>)
Delivered(o) == BlockOf(<<"delivered", o>>)
Acknowledged(o) == BlockOf(<<"acknowledged", o>>)

\* sameKnownController: the reviewer is an executor of one of the order's parties.
Related(r, o, height) ==
  \E party \in {trade.seller[o], trade.payer[o]} : BlockOf(<<"enrolled", r, party>>) <= height

Of(table, set) == {row \in set : row.table = table}
Recovery == {"reviews", "disputes", "refunds"}

\* The tables in the order in which the indexer reads them.
Tables == <<{"evidence"}, Recovery, {"accounts"}>>

\* Blocks have been indexed before, and nothing has been recorded yet.
RecordsInit ==
  /\ trade \in Histories
  /\ final = trade.start /\ trusted = Reviewers /\ rows = {} /\ open = {}
  /\ index = [cursor |-> final - 1, seen |-> {}, trusted |-> trusted, complete |-> TRUE]
  /\ indexer = [at |-> 0, final |-> 0, seen |-> {}, trusted |-> {}]

-----------------------------------------------------------------------------
(* The records.                                                            *)

\* The keys of the tables.
SameKey(a, b) ==
  /\ a.table = b.table
  /\ CASE a.table = "refunds" -> a.transfer = b.transfer
       [] a.table = "reviews" -> a.order = b.order /\ a.reviewer = b.reviewer
       [] OTHER -> a.order = b.order
Recorded(row) == \E other \in rows : SameKey(row, other)

\* One lock for all accounts, one for the evidence of an order, and the order's own row.
SameLock(a, b) ==
  \/ a.table = "accounts" /\ b.table = "accounts"
  \/ a.order = b.order /\ a.table = "evidence" /\ b.table = "evidence"
  \/ a.order = b.order /\ {a.table, b.table} \subseteq Recovery

\* Mutant: a request does not wait for the lock.
Check_Unlocked(row) ==
  /\ May(row.table) /\ Cardinality(rows \cup open) < MaxRecords
  /\ row \notin open /\ ~Recorded(row)
  /\ open' = open \cup {row}
  /\ UNCHANGED <<trade, final, trusted, rows, index, indexer>>

\* A request found nothing recorded under its key and its checks hold.
Check(row) ==
  /\ May(row.table) /\ Cardinality(rows \cup open) < MaxRecords
  /\ ~Recorded(row) /\ ~\E other \in open : SameLock(row, other)
  /\ open' = open \cup {row}
  /\ UNCHANGED <<trade, final, trusted, rows, index, indexer>>

\* Mutant: a transfer is only looked up among the order's own refunds.
Insert_Anyway(row) ==
  /\ open' = open \ {row} /\ rows' = rows \cup {row}
  /\ UNCHANGED <<trade, final, trusted, index, indexer>>

\* It inserts, unless another order's request has taken the key meanwhile (REFUND_REUSED).
Insert(row) ==
  /\ open' = open \ {row}
  /\ rows' = IF Recorded(row) THEN rows ELSE rows \cup {row}
  /\ UNCHANGED <<trade, final, trusted, index, indexer>>

RollBack(row) ==
  /\ May("die")
  /\ open' = open \ {row}
  /\ UNCHANGED <<trade, final, trusted, rows, index, indexer>>

\* A clock that signs is between the last finalized block and the next.
Now == {final, final + 1}

Uses(account, i) == account.inputs[i]
Allocated(set, i) == MapThenSumSet(LAMBDA account : Uses(account, i), Of("accounts", set))
Consumed(account) == {i \in Settled : Uses(account, i) > 0}

\* Mutant: an input may be accepted after the output was delivered.
Consumable_Late(o, i) ==
  /\ trade.payer[i] = trade.seller[o] /\ i # o
  /\ Acknowledged(i) <= index.cursor

\* An input is the producer's own purchase, accepted before the output was delivered.
Consumable(o, i) ==
  /\ trade.payer[i] = trade.seller[o] /\ i # o
  /\ Acknowledged(i) <= index.cursor /\ Acknowledged(i) < Delivered(o)

\* recordProductionAccount, of an indexed sale.  That inputs form no cycle is checked too.
StateAccount(o) ==
  \E inputs \in [Settled -> 0 .. Principal], issued \in Now :
    LET account == [table |-> "accounts", order |-> o, inputs |-> inputs, issued |-> issued]
    IN /\ Acknowledged(o) <= index.cursor /\ issued >= Acknowledged(o)
       /\ \A i \in Consumed(account) :
            Consumable(o, i) /\ Allocated(rows, i) + inputs[i] <= Principal
       /\ Check(account)

\* validateProductionValuation: the valuation binds the stored account of its order.
Binds(o, issued) ==
  \E account \in Of("accounts", rows) : account.order = o /\ issued >= account.issued

\* authenticateEvidence: signed after the day it is about, and not in the future.
SigningTimes(o) == {issued \in Now : issued >= Acknowledged(o)}

\* ingestEvidence: of an indexed and accepted order, with its production account or not.
Value(o, bound) ==
  \E issued \in SigningTimes(o) :
    /\ Acknowledged(o) <= index.cursor
    /\ bound => Binds(o, issued)
    /\ Check([table |-> "evidence", order |-> o, bound |-> bound, issued |-> issued])

Amount(t) == trade.transfer[t].amount
Refunded(set, o) ==
  MapThenSumSet(LAMBDA refund : Amount(refund.transfer),
                {refund \in Of("refunds", set) : refund.order = o})

\* recoveryAction, refund: the seller's final transfer to the payer, after the payment.
Refund(o, t) ==
  /\ trade.transfer[t].from = trade.seller[o] /\ trade.transfer[t].to = trade.payer[o]
  /\ BlockOf(<<"transfer", t>>) \in Paid(o) + 1 .. final
  /\ Refunded(rows, o) + Amount(t) <= Principal
  /\ Check([table |-> "refunds", order |-> o, transfer |-> t])

\* recoveryAction, review: of a delivered output, by a trusted and unrelated reviewer.
Review(o, r) ==
  /\ Delivered(o) <= final /\ r \in trusted /\ ~Related(r, o, final)
  /\ Check([table |-> "reviews", order |-> o, reviewer |-> r])

\* recoveryAction, dispute.
Dispute(o) == Paid(o) <= final /\ Check([table |-> "disputes", order |-> o])

Record ==
  \E o \in Settled :
    \/ StateAccount(o) \/ Dispute(o)
    \/ \E bound \in BOOLEAN : Value(o, bound)
    \/ \E t \in DOMAIN trade.transfer : Refund(o, t)
    \/ \E r \in Reviewers : Review(o, r)
InsertAny == \E row \in open : Insert(row)

-----------------------------------------------------------------------------
(* The indexer.                                                            *)

RowsIn(tables) == {row \in rows : row.table \in tables}
Free == [at |-> 0, final |-> 0, seen |-> {}, trusted |-> {}]

\* indexEconomy, one at a time: another finds the advisory lock taken.
StartIndexing ==
  /\ indexer.at = 0
  /\ indexer' = [at |-> 1, final |-> final, seen |-> {}, trusted |-> trusted]
  /\ UNCHANGED <<trade, final, trusted, rows, open, index>>

\* Mutant: the producers' records are read before the evidence that binds them.
ReadTable_Reversed ==
  /\ indexer.at \in 1 .. Len(Tables)
  /\ indexer' = [indexer EXCEPT !.at = @ + 1,
                                !.seen = @ \cup RowsIn(Tables[Len(Tables) + 1 - indexer.at])]
  /\ UNCHANGED <<trade, final, trusted, rows, open, index>>

\* One statement after another, and each sees what was committed before it.
ReadTable ==
  /\ indexer.at \in 1 .. Len(Tables)
  /\ indexer' = [indexer EXCEPT !.at = @ + 1, !.seen = @ \cup RowsIn(Tables[indexer.at])]
  /\ UNCHANGED <<trade, final, trusted, rows, open, index>>

\* Mutant: the reviewers' names are not part of the root.
SameRoot_Reviewers == index.seen = indexer.seen

\* evidenceRoot.
SameRoot == index.seen = indexer.seen /\ index.trusted = indexer.trusted
Unchanged == index.cursor = indexer.final /\ SameRoot /\ index.complete

\* Finalized blocks up to a batch, fewer when they hold many logs; none if only the
\* records have changed.
Reach == IF index.cursor = indexer.final THEN {index.cursor}
         ELSE {to \in index.cursor + 1 .. indexer.final : to <= index.cursor + Batch}

\* collectExecutorBalances: one balance that cannot be read leaves the snapshot incomplete.
Completeness == IF May("unread") THEN BOOLEAN ELSE {TRUE}

\* What is projected, and the inputRoot it is published with, follow from the block, the
\* records and the reviewers; an incomplete one lacks a balance.
Snapshot(to, complete) == [cursor |-> to, seen |-> indexer.seen, trusted |-> indexer.trusted,
                           complete |-> complete]

\* The events, the snapshot and the cursor are committed together.
Publish ==
  /\ indexer.at = Len(Tables) + 1
  /\ indexer' = Free
  /\ IF Unchanged THEN UNCHANGED index
     ELSE \E to \in Reach, complete \in Completeness : index' = Snapshot(to, complete)
  /\ UNCHANGED <<trade, final, trusted, rows, open>>

\* The chain's RPC, the database or the process fails: the transaction is rolled back.
IndexingFails ==
  /\ May("die") /\ indexer.at # 0
  /\ indexer' = Free
  /\ UNCHANGED <<trade, final, trusted, rows, open, index>>

IndexEconomy == StartIndexing \/ ReadTable \/ Publish

-----------------------------------------------------------------------------

Finalize ==
  /\ final < Len(trade.log)
  /\ final' = final + 1
  /\ UNCHANGED <<trade, trusted, rows, open, index, indexer>>

Distrust ==
  /\ May("distrust") /\ trusted # {}
  /\ trusted' = {}
  /\ UNCHANGED <<trade, final, rows, open, index, indexer>>

RecordsNext ==
  /\ \/ Record \/ InsertAny \/ IndexEconomy \/ IndexingFails \/ Finalize \/ Distrust
     \/ \E row \in open : RollBack(row)
  /\ UNCHANGED calm

RecordsTypeOK ==
  /\ final \in Blocks /\ trusted \subseteq Reviewers
  /\ \A row \in rows \cup open : row.table \in UNION Range(Tables)
  /\ index.cursor \in Blocks /\ index.seen \subseteq rows /\ index.complete \in BOOLEAN
  /\ indexer.at \in 0 .. Len(Tables) + 1 /\ indexer.seen \subseteq rows

\* What is stated is stated once and never more than was paid: no purchase is consumed
\* twice, and before it was there; no transfer refunds two orders, no order is refunded twice.
RecordsAreTrue ==
  /\ \A a, b \in rows : SameKey(a, b) => a = b
  /\ \A i \in Settled : Allocated(rows, i) <= Principal /\ Refunded(rows, i) <= Principal
  /\ \A account \in Of("accounts", rows) : \A i \in Consumed(account) :
       Acknowledged(i) < Delivered(account.order)

\* The indexer's projection: rows issued by the time of the snapshot's block.
Projected(table) ==
  {row \in Of(table, index.seen) : row.issued <= index.cursor}

\* The published snapshot never shows a valuation without the production account it binds,
\* nor an account without its sale and its inputs.
SnapshotIsClosed ==
  /\ \A v \in Projected("evidence") :
       v.bound => \E account \in Projected("accounts") : account.order = v.order
  /\ \A account \in Projected("accounts") :
       \A o \in {account.order} \cup Consumed(account) : Acknowledged(o) <= index.cursor

\* The snapshot is of the last finalized block and of all records and reviewers.
UpToDate ==
  /\ index.cursor = final /\ index.complete
  /\ index.seen = rows /\ index.trusted = trusted
=============================================================================
