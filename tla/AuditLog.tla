------------------------------ MODULE AuditLog ------------------------------
(***************************************************************************)
(* The audit chain of one project: the triggers of                         *)
(* db/migrations/0003_audit_events.js, application/audit.service.ts, and    *)
(* the transactions that write to it.                                      *)
(*                                                                         *)
(* The trigger numbers an event and links it to the one before, under an   *)
(* advisory lock of the project that lasts to the end of the transaction.  *)
(* The lock is taken wherever a transaction audits, between its other row  *)
(* locks, so the order of a transaction's writes decides who can wait for  *)
(* whom.                                                                   *)
(***************************************************************************)
EXTENDS Naturals, Sequences

CONSTANTS AuditTxs   \* transactions, each run once

VARIABLES
    atx,        \* kind of each transaction, its writes done, and where it is
    trail,      \* committed rows of audit_events
    unsaved     \* rows of audit_events each transaction has inserted so far

auditVars == <<atx, trail, unsaved>>

\* Mutant: a transition of a stage audits before it writes.
MutantWrites == [
    approveReview     |-> <<"audit", "audit", "stage", "audit", "asset", "audit", "run", "audit">>,
    requestRevision   |-> <<"audit", "audit", "asset", "audit", "run", "audit">>,
    transitionStage   |-> <<"audit", "stage", "run">>,
    transitionRun     |-> <<"run", "audit">>,
    publishVersion    |-> <<"asset", "audit">>,
    stageWriteback    |-> <<"stage", "audit">>]
\* The writes of a transaction in the order of the code: rows it locks, events it adds.
\* One stage, run, asset and definition stand for the rows two requests meet on.
Writes == [
    approveReview     |-> <<"audit", "audit", "stage", "audit", "asset", "audit", "run", "audit">>,
    requestRevision   |-> <<"audit", "audit", "asset", "audit", "run", "audit">>,
    transitionStage   |-> <<"stage", "run", "audit">>,
    transitionRun     |-> <<"run", "audit">>,
    publishVersion    |-> <<"asset", "audit">>,
    stageWriteback    |-> <<"stage", "audit">>]
Kinds == DOMAIN Writes
Reviews == {"approveReview", "requestRevision"}

NoEvent == <<>>
Running == {u \in AuditTxs : atx[u].phase = "running"}
Done(u) == {Writes[atx[u].kind][i] : i \in 1..atx[u].done}
NextWrite(u) == Writes[atx[u].kind][atx[u].done + 1]
Finished(u) == atx[u].done = Len(Writes[atx[u].kind])

\* u waits for v: v holds the row, or the advisory lock, that u's next write needs.
\* Mutant: the advisory lock is released when the statement ends.
MutantWaitsFor(u, v) ==
    /\ u # v
    /\ ~Finished(u)
    /\ NextWrite(u) # "audit"
    /\ NextWrite(u) \in Done(v)
WaitsFor(u, v) ==
    /\ u # v
    /\ ~Finished(u)
    /\ NextWrite(u) \in Done(v)

-----------------------------------------------------------------------------
AuditInit ==
    /\ atx = [u \in AuditTxs |-> [phase |-> "new", kind |-> "transitionRun", done |-> 0]]
    /\ trail = {}
    /\ unsaved = [u \in AuditTxs |-> {}]

BeginTx(u, kind) ==
    /\ atx[u].phase = "new"
    /\ atx' = [atx EXCEPT ![u] = [phase |-> "running", kind |-> kind, done |-> 0]]
    /\ UNCHANGED <<trail, unsaved>>

MayWrite(u) ==
    /\ atx[u].phase = "running"
    /\ ~Finished(u)
    /\ \A v \in Running : ~WaitsFor(u, v)

WriteRow(u) ==
    /\ MayWrite(u)
    /\ NextWrite(u) # "audit"
    /\ atx' = [atx EXCEPT ![u].done = @ + 1]
    /\ UNCHANGED <<trail, unsaved>>

\* cf_audit_chain: the last event that u sees, under the lock, is the one before.
Seen(u) == trail \cup unsaved[u]
ChainedTo(S, e) ==
    \/ S = {} /\ e.sequence_no = 1 /\ e.prev = NoEvent
    \/ \E last \in S :
          /\ \A d \in S : d.sequence_no <= last.sequence_no
          /\ e.sequence_no = last.sequence_no + 1
          /\ e.prev = last.event

RecordAudit(u) ==
    /\ MayWrite(u)
    /\ NextWrite(u) = "audit"
    /\ \E n \in {1} \cup {d.sequence_no + 1 : d \in Seen(u)},
          prev \in {NoEvent} \cup {d.event : d \in Seen(u)} :
          LET e == [sequence_no |-> n, event |-> <<u, atx[u].done>>, prev |-> prev]
          IN  /\ ChainedTo(Seen(u), e)
              /\ unsaved' = [unsaved EXCEPT ![u] = @ \cup {e}]
    /\ atx' = [atx EXCEPT ![u].done = @ + 1]
    /\ UNCHANGED trail

CommitTx(u) ==
    /\ atx[u].phase = "running"
    /\ Finished(u)
    /\ trail' = trail \cup unsaved[u]
    /\ unsaved' = [unsaved EXCEPT ![u] = {}]
    /\ atx' = [atx EXCEPT ![u].phase = "over"]

\* An error, a crash, or the victim of a deadlock.
RollbackTx(u) ==
    /\ atx[u].phase = "running"
    /\ unsaved' = [unsaved EXCEPT ![u] = {}]
    /\ atx' = [atx EXCEPT ![u].phase = "over"]
    /\ UNCHANGED trail

AuditNext ==
    \E u \in AuditTxs :
       \/ \E kind \in Kinds : BeginTx(u, kind)
       \/ WriteRow(u) \/ RecordAudit(u) \/ CommitTx(u) \/ RollbackTx(u)

AuditSpec == AuditInit /\ [][AuditNext]_auditVars

-----------------------------------------------------------------------------
AuditRow == [sequence_no : Nat \ {0}, event : AuditTxs \X Nat,
             prev : {NoEvent} \cup AuditTxs \X Nat]

\* Type invariant.
AuditTypeOK ==
    /\ atx \in [AuditTxs -> [phase : {"new", "running", "over"}, kind : Kinds, done : Nat]]
    /\ trail \subseteq AuditRow
    /\ unsaved \in [AuditTxs -> SUBSET AuditRow]

\* S is one chain from the first event on: no number twice, no gap, each event linked
\* to the one before.
IsChain(S) ==
    /\ \A d, e \in S : d.sequence_no = e.sequence_no => d = e
    /\ \A e \in S :
          \/ e.sequence_no = 1 /\ e.prev = NoEvent
          \/ \E d \in S : e.sequence_no = d.sequence_no + 1 /\ e.prev = d.event

\* What the verification of the log relies on (cf_audit_chain): whatever transactions
\* overlap or roll back, what is committed has no gap and no fork.
ChainUnbroken == IsChain(trail)

\* Services write their rows in the order stage, run, asset and audit last, except for
\* the two review services: without one of them no set of transactions can wait for
\* each other (review.service.ts audits before it updates).
OnlyReviewsDeadlock ==
    \A C \in SUBSET Running :
       C # {} /\ (\A u \in C : \E v \in C : WaitsFor(u, v))
          => \E u \in C : atx[u].kind \in Reviews
=============================================================================
