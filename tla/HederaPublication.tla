--------------------------- MODULE HederaPublication ---------------------------
(***************************************************************************)
(* The publication of evidence (scripts/hedera-publish-evidence.ts).  An   *)
(* operator names the files of some workflows; each is verified again,     *)
(* against the network and the service's own records, and what was proven  *)
(* is merged into the public release in one transaction, so that an        *)
(* omitted workflow keeps what an earlier publication showed of it.        *)
(***************************************************************************)
EXTENDS HederaPurchases, HederaOperations

CONSTANTS
  Publishers,   \* processes of the operator that publish
  Publicity     \* the wish to publish

VARIABLES
  release,     \* platform_hedera_config, the row of the release
  publisher    \* the publications at work

publicationVars == <<release, publisher>>

Sections == {"a2a", "hts", "schedules", "audit"}
Nothing == [k \in Sections |-> {}]

\* At most one artifact for a section of the release.
UpToOne(S) == {{}} \cup {{x} : x \in S}

PublicationInit ==
  /\ release = Nothing
  /\ publisher = [q \in Publishers |-> [at |-> "idle", parts |-> Nothing, replace |-> FALSE]]

\* A purchase's own journal is complete, the service settled its row for the
\* same transaction, and the mirror node shows the exact transfer.
SettledAtService(r) ==
  \E i \in 0 .. MaxOffers :
    LET j == journal[<<r, i>>] IN
      /\ j.status = "settled"
      /\ row[j.tx] = "settled"
      /\ Mirrored(j.tx)

NegotiationProven(r) == operation[r] = "completed" /\ SettledAtService(r)
TokenPurchaseProven(r) == SettledAtService(r)

\* Every round of the plan was executed and delivered.
PlanProven == Rounds # {} /\ Rounds \subseteq published \cap executed \cap delivered

\* An anchor is confirmed and belongs to a purchase of the same publication.
AnchorProven(o, purchases) == intent[o] = "done" /\ Anchored[o] \in purchases

\* What may be published of the files that a manifest names.
Prepared ==
  {parts \in [a2a : UpToOne({r \in Negotiated : NegotiationProven(r)}),
              hts : UpToOne({r \in TokenRuns : TokenPurchaseProven(r)}),
              schedules : IF PlanProven THEN {{}, Rounds} ELSE {{}},
              audit : UpToOne(DOMAIN Anchored)] :
     \A o \in parts.audit : AnchorProven(o, parts.a2a \cup parts.hts)}

Prepare(q) ==
  /\ publisher[q].at = "idle" /\ Publicity \in wanted
  /\ \E parts \in Prepared \ {Nothing}, replace \in BOOLEAN :
       publisher' = [publisher EXCEPT ![q] = [at |-> "prepared", parts |-> parts,
                                              replace |-> replace]]
  /\ UNCHANGED release

\* The release is what this publication shows.
Merged_Over(old, parts) == parts

\* What was published and is omitted now stays.
Merged(old, parts) == [k \in Sections |-> IF parts[k] = {} THEN old[k] ELSE parts[k]]

\* One transaction under an advisory lock.
PublishRelease(q) ==
  /\ publisher[q].at = "prepared"
  /\ release' = IF publisher[q].replace THEN publisher[q].parts
                                        ELSE Merged(release, publisher[q].parts)
  /\ publisher' = [publisher EXCEPT ![q] = [at |-> "idle", parts |-> Nothing, replace |-> FALSE]]

\* A failure rolls back.
StopPublication(q) ==
  /\ publisher[q].at = "prepared"
  /\ publisher' = [publisher EXCEPT ![q] = [at |-> "idle", parts |-> Nothing, replace |-> FALSE]]
  /\ UNCHANGED release

Publication == \E q \in Publishers : Prepare(q) \/ PublishRelease(q) \/ StopPublication(q)

----------------------------------------------------------------------------
PublicationTypeOK ==
  /\ release \in [Sections -> SUBSET (Runs \cup Operations)]
  /\ \A q \in Publishers : publisher[q].at \in {"idle", "prepared"}

\* A publication that does not replace the release keeps its other sections.
ReleaseIsKept ==
  \A k \in Sections : release[k] # {} /\ release'[k] = {} =>
    \E q \in Publishers : publisher[q].replace /\ publisher'[q] # publisher[q]

\* Everything the public release shows was paid, and delivered by the service.
ReleaseIsProven ==
  /\ \A r \in release["a2a"] \cup release["hts"] :
       \E t \in transferred : payments[t].run = r /\ row[t] = "settled"
  /\ release["schedules"] \subseteq executed \cap delivered
  /\ release["audit"] \subseteq confirmed
  /\ \A o \in release["audit"] : AuditProven(Anchored[o])
=============================================================================
