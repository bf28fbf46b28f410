--------------------------- MODULE StageWriteback ---------------------------
(***************************************************************************)
(* The one handler that writes to the control plane: the terminal events   *)
(* of execution jobs, delivered by the relay, drive stage_runs.status,     *)
(* with the execution_writebacks ledger as the guard against redelivery;   *)
(* users transition the same stages meanwhile.                             *)
(***************************************************************************)
EXTENDS OutboxRelay

CONSTANTS
  Stages,       \* stage_runs rows
  Users,        \* bound: control-plane transitions in flight at once
  NoStage,
  Unsupported,  \* a subject of another type, or without a project
  NoSubject,    \* a terminal event whose job carries no subject
  NotTerminal,  \* an event of a type with a no-op handler
  SubjectOf,    \* what each event is about
  ResultOf      \* the status of the execution result it names

Subjects == Stages \union {Unsupported, NoSubject, NotTerminal}

ASSUME WritebackAssumption ==
  /\ NoStage \notin Stages
  /\ SubjectOf \in [Events -> Subjects]
  /\ ResultOf \in [Events -> {"success", "failed"}]
  /\ {Unsupported, NoSubject, NotTerminal} \intersect Stages = {}

VARIABLES
  stage,        \* stage_runs.status, or "absent"
  writeback,    \* execution_writebacks.status under each event's key
  applications, \* stage updates made for an event (history)
  seen,         \* the stage status each dispatch's transaction has read
  editing,      \* the stage each user's transaction writes, or NoStage
  target        \* the status it will write

writebackVars == <<stage, writeback, applications, seen, editing, target>>
vars == <<relayVars, writebackVars>>

StageStatus == {"pending", "running", "waiting_review", "approved", "failed", "skipped"}

(* domain/stage-run/status.ts; a row that does not exist has no successor. *)
Allowed ==
  [pending        |-> {"running", "skipped"},
   running        |-> {"waiting_review", "failed"},
   waiting_review |-> {"approved"},
   failed         |-> {"running"},
   approved       |-> {},
   skipped        |-> {},
   absent         |-> {}]

TypeOK ==
  /\ RelayTypeOK
  /\ stage \in [Stages -> StageStatus \union {"absent"}]
  /\ writeback \in [Events -> {"none", "planned", "applied", "skipped"}]
  /\ applications \in [Events -> Nat]
  /\ seen \in [Slots -> StageStatus \union {"absent"}]
  /\ editing \in [Users -> Stages \union {NoStage}]
  /\ target \in [Users -> StageStatus]

Init ==
  /\ RelayInit
  /\ stage = [st \in Stages |-> "absent"]
  /\ writeback = [e \in Events |-> "none"]
  /\ applications = [e \in Events |-> 0]
  /\ seen = [s \in Slots |-> "absent"]
  /\ editing = [u \in Users |-> NoStage]
  /\ target = [u \in Users |-> "pending"]

Settled(e) == writeback[e] \in {"applied", "skipped"}

TargetFor(e) == IF ResultOf[e] = "success" THEN "waiting_review" ELSE "failed"

-----------------------------------------------------------------------------
(* The handler.  A dispatch is inside it from "handling" on. *)

HandleNoOp(s) ==
  /\ phase[s] = "handling"
  /\ SubjectOf[event[s]] = NotTerminal
  /\ HandlerReturns(s)
  /\ UNCHANGED writebackVars

(* Mutant: a row found in the ledger is planned anew. *)
PlanSkipAgain(s) ==
  /\ phase[s] = "handling"
  /\ SubjectOf[event[s]] = Unsupported
  /\ writeback' = [writeback EXCEPT ![event[s]] = "planned"]
  /\ phase' = [phase EXCEPT ![s] = "planned"]
  /\ UNCHANGED <<inserted, processed, leased, event, faults,
                 stage, applications, seen, editing, target>>

(* Without a transaction: the row is inserted, or found, and marked later. *)
PlanSkip(s) ==
  LET e == event[s] IN
  /\ phase[s] = "handling"
  /\ SubjectOf[e] = Unsupported
  /\ IF Settled(e)
       THEN HandlerReturns(s) /\ UNCHANGED writeback
       ELSE /\ writeback' = [writeback EXCEPT ![e] = "planned"]
            /\ phase' = [phase EXCEPT ![s] = "planned"]
            /\ UNCHANGED <<inserted, processed, leased, event, faults>>
  /\ UNCHANGED <<stage, applications, seen, editing, target>>

MarkSkipped(s) ==
  /\ phase[s] = "planned"
  /\ writeback' = [writeback EXCEPT ![event[s]] = "skipped"]
  /\ HandlerReturns(s)
  /\ UNCHANGED <<stage, applications, seen, editing, target>>

(* The transaction begins by reading the stage, and takes no lock on it. *)
ReadStage(s) ==
  /\ phase[s] = "handling"
  /\ SubjectOf[event[s]] \in Stages
  /\ seen' = [seen EXCEPT ![s] = stage[SubjectOf[event[s]]]]
  /\ phase' = [phase EXCEPT ![s] = "read"]
  /\ UNCHANGED <<inserted, processed, leased, event, faults,
                 stage, writeback, applications, editing, target>>

(* Mutant: the ledger row is inserted, but its status is not looked at. *)
CommitUnguarded(s) ==
  LET e == event[s] IN
  /\ phase[s] = "read"
  /\ IF seen[s] # "running"
       THEN /\ writeback' = [writeback EXCEPT ![e] = "skipped"]
            /\ UNCHANGED <<stage, applications>>
       ELSE /\ stage' = [stage EXCEPT ![SubjectOf[e]] = TargetFor(e)]
            /\ writeback' = [writeback EXCEPT ![e] = "applied"]
            /\ applications' = [applications EXCEPT ![e] = @ + 1]
  /\ HandlerReturns(s)
  /\ seen' = [seen EXCEPT ![s] = "absent"]
  /\ UNCHANGED <<editing, target>>

(* ... and ends with the ledger row, whose UNIQUE key makes it wait for a  *)
(* rival's, the stage's new status and the audit record, all or nothing.   *)
(* The status that was read decides; a stage not found is not running.     *)
Commit(s) ==
  LET e == event[s] IN
  /\ phase[s] = "read"
  /\ IF Settled(e)
       THEN UNCHANGED <<stage, writeback, applications>>
     ELSE IF seen[s] # "running"
       THEN /\ writeback' = [writeback EXCEPT ![e] = "skipped"]
            /\ UNCHANGED <<stage, applications>>
       ELSE /\ stage' = [stage EXCEPT ![SubjectOf[e]] = TargetFor(e)]
            /\ writeback' = [writeback EXCEPT ![e] = "applied"]
            /\ applications' = [applications EXCEPT ![e] = @ + 1]
  /\ HandlerReturns(s)
  /\ seen' = [seen EXCEPT ![s] = "absent"]
  /\ UNCHANGED <<editing, target>>

(* An event without a subject is refused every time; otherwise a rollback  *)
(* or a lost connection is a fault.                                        *)
HandlerThrows(s) ==
  /\ phase[s] \in InHandler
  /\ Throw(s, IF SubjectOf[event[s]] = NoSubject THEN 0 ELSE 1)
  /\ seen' = [seen EXCEPT ![s] = "absent"]
  /\ UNCHANGED <<stage, writeback, applications, editing, target>>

Handle(s) ==
  HandleNoOp(s) \/ PlanSkip(s) \/ MarkSkipped(s) \/ ReadStage(s) \/ Commit(s)

-----------------------------------------------------------------------------
(* The control plane: a stage is created, and moved by transactions that   *)
(* check the status they have read and then write by id.                   *)

CreateStage(st) ==
  /\ stage[st] = "absent"
  /\ stage' = [stage EXCEPT ![st] = "pending"]
  /\ UNCHANGED <<relayVars, writeback, applications, seen, editing, target>>

BeginTransition(u, st, to) ==
  /\ editing[u] = NoStage
  /\ to \in Allowed[stage[st]]
  /\ editing' = [editing EXCEPT ![u] = st]
  /\ target' = [target EXCEPT ![u] = to]
  /\ UNCHANGED <<relayVars, stage, writeback, applications, seen>>

CommitTransition(u) ==
  /\ editing[u] # NoStage
  /\ stage' = [stage EXCEPT ![editing[u]] = target[u]]
  /\ editing' = [editing EXCEPT ![u] = NoStage]
  /\ target' = [target EXCEPT ![u] = "pending"]
  /\ UNCHANGED <<relayVars, writeback, applications, seen>>

-----------------------------------------------------------------------------
(* A crash inside the handler's transaction rolls it back. *)
RolledBack ==
  /\ seen' = [s \in Slots |-> IF phase'[s] = "read" THEN seen[s] ELSE "absent"]
  /\ UNCHANGED <<stage, writeback, applications, editing, target>>

Relay == RelayStep /\ RolledBack

MarkThrows(s) ==
  /\ phase[s] = "handled"
  /\ Throw(s, 1)
  /\ UNCHANGED writebackVars

Next ==
  \/ Relay
  \/ \E s \in Slots : Handle(s) \/ HandlerThrows(s) \/ MarkThrows(s)
  \/ \E st \in Stages : CreateStage(st)
  \/ \E u \in Users, st \in Stages, to \in StageStatus : BeginTransition(u, st, to)
  \/ \E u \in Users : CommitTransition(u)

Spec == Init /\ [][Next]_vars

(* The relay's timer keeps claiming, leases run out, and a dispatch that   *)
(* was started goes on to its end.  Nobody has to insert an event, use the *)
(* manual route or move a stage.                                           *)
Fairness ==
  /\ WF_vars((\E s \in Slots, e \in Events : Claim(s, e)) /\ RolledBack)
  /\ \A e \in Events : WF_vars(LeaseExpires(e) /\ RolledBack)
  /\ \A s \in Slots :
       WF_vars(\/ Handle(s) \/ HandlerThrows(s) \/ MarkThrows(s)
               \/ (MarkProcessed(s) \/ MarkFailed(s) \/ Crash(s)) /\ RolledBack)

FairSpec == Spec /\ Fairness

-----------------------------------------------------------------------------
(* However often an event is delivered, by lapsed leases, operators,       *)
(* crashes and late failures, it moves its stage at most once, and a       *)
(* settled ledger row is never revised.                                    *)
Consumption ==
  INSTANCE EventConsumption WITH settled <- {e \in Events : Settled(e)}

ConsumedOnce == Consumption!Spec

(* The ledger says "applied" exactly when the stage was moved, and a stage *)
(* is moved once for an event: one transaction does both.                  *)
AppliedOnce ==
  \A e \in Events : applications[e] = IF writeback[e] = "applied" THEN 1 ELSE 0

(* An event that shows as processed has been consumed: no terminal event   *)
(* is lost between the relay and the ledger.                               *)
ProcessedIsConsumed ==
  \A e \in processed : SubjectOf[e] # NotTerminal => Settled(e)

(* Every event is processed at last, and then stays so, once crashes and   *)
(* errors stop: a lapsed lease, a lost answer or a late failure only       *)
(* delays it.                                                              *)
EventuallyProcessed ==
  \A e \in Events : e \in inserted ~> [](e \in processed)

-----------------------------------------------------------------------------
(* What the documents say and the code does not do. *)

(* "processed_at stays null": recording a failure never takes processed_at *)
(* away from a row.                                                        *)
FailureKeepsProcessedAt == [][processed \subseteq processed']_vars

(* "The current status must be running, or the ledger says skipped": an    *)
(* event is applied only to a running stage.                               *)
AppliedToRunningStage ==
  [][\A e \in Events : writeback[e] # "applied" /\ writeback'[e] = "applied"
       => stage[SubjectOf[e]] = "running"]_vars
=============================================================================
