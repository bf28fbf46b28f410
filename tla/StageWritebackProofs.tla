------------------------ MODULE StageWritebackProofs ------------------------
(***************************************************************************)
(* Theorems about StageWriteback, for every set of events, stages, slots   *)
(* and users, every assignment of subjects and results, and any number of  *)
(* faults.                                                                 *)
(***************************************************************************)
EXTENDS StageWriteback, TLAPS

USE RelayAssumption, WritebackAssumption

(* The variables keep their shape, and a slot names an event exactly while *)
(* it dispatches one.                                                      *)
THEOREM TypeCorrect == Spec => []TypeOK
<1> USE DEF TypeOK, RelayTypeOK, Phase, InHandler, StageStatus
<1>1. Init => TypeOK
  BY DEF Init, RelayInit
<1>2. TypeOK /\ [Next]_vars => TypeOK'
  <2> SUFFICES ASSUME TypeOK, [Next]_vars
               PROVE  TypeOK'
    OBVIOUS
  <2> USE DEF relayVars, writebackVars
  <2>1. CASE Relay
    <3> USE <2>1 DEF Relay, RolledBack
    <3>1. seen' \in [Slots -> StageStatus \union {"absent"}]
      OBVIOUS
    <3>2. ASSUME NEW e \in Events, Insert(e)
          PROVE  TypeOK'
      BY <3>1, <3>2 DEF Insert
    <3>3. ASSUME NEW e \in Events, LeaseExpires(e)
          PROVE  TypeOK'
      BY <3>1, <3>3 DEF LeaseExpires
    <3>4. ASSUME NEW s \in Slots, NEW e \in Events, Claim(s, e)
          PROVE  TypeOK'
      BY <3>1, <3>4 DEF Claim, Dispatch
    <3>5. ASSUME NEW s \in Slots, NEW e \in Events, ProcessEvent(s, e)
          PROVE  TypeOK'
      BY <3>1, <3>5 DEF ProcessEvent, Dispatch
    <3>6. ASSUME NEW s \in Slots, MarkProcessed(s)
          PROVE  TypeOK'
      <4>1. event[s] \in Events
        BY <3>6 DEF MarkProcessed
      <4> QED
        BY <3>1, <3>6, <4>1 DEF MarkProcessed, Release
    <3>7. ASSUME NEW s \in Slots, MarkFailed(s)
          PROVE  TypeOK'
      BY <3>1, <3>7 DEF MarkFailed, Release
    <3>8. ASSUME NEW s \in Slots, Crash(s)
          PROVE  TypeOK'
      BY <3>1, <3>8 DEF Crash, Release
    <3> QED
      BY <3>2, <3>3, <3>4, <3>5, <3>6, <3>7, <3>8 DEF RelayStep
  <2>2. ASSUME NEW s \in Slots, HandleNoOp(s)
        PROVE  TypeOK'
    BY <2>2 DEF HandleNoOp, HandlerReturns
  <2>3. ASSUME NEW s \in Slots, PlanSkip(s)
        PROVE  TypeOK'
    <3>1. event[s] # NoEvent
      BY <2>3 DEF PlanSkip
    <3>2. CASE Settled(event[s])
      BY <2>3, <3>1, <3>2 DEF PlanSkip, HandlerReturns
    <3>3. CASE ~Settled(event[s])
      BY <2>3, <3>1, <3>3 DEF PlanSkip
    <3> QED
      BY <3>2, <3>3
  <2>4. ASSUME NEW s \in Slots, MarkSkipped(s)
        PROVE  TypeOK'
    BY <2>4 DEF MarkSkipped, HandlerReturns
  <2>5. ASSUME NEW s \in Slots, ReadStage(s)
        PROVE  TypeOK'
    BY <2>5 DEF ReadStage
  <2>6. ASSUME NEW s \in Slots, Commit(s)
        PROVE  TypeOK'
    BY <2>6 DEF Commit, HandlerReturns, TargetFor
  <2>7. ASSUME NEW s \in Slots, HandlerThrows(s)
        PROVE  TypeOK'
    BY <2>7 DEF HandlerThrows, Throw
  <2>8. ASSUME NEW s \in Slots, MarkThrows(s)
        PROVE  TypeOK'
    BY <2>8 DEF MarkThrows, Throw
  <2>9. ASSUME NEW st \in Stages, CreateStage(st)
        PROVE  TypeOK'
    BY <2>9 DEF CreateStage
  <2>10. ASSUME NEW u \in Users, NEW st \in Stages, NEW to \in StageStatus,
                BeginTransition(u, st, to)
         PROVE  TypeOK'
    BY <2>10 DEF BeginTransition
  <2>11. ASSUME NEW u \in Users, CommitTransition(u)
         PROVE  TypeOK'
    BY <2>11 DEF CommitTransition
  <2>12. CASE UNCHANGED vars
    BY <2>12 DEF vars
  <2> QED
    BY <2>1, <2>2, <2>3, <2>4, <2>5, <2>6, <2>7, <2>8, <2>9, <2>10, <2>11, <2>12
       DEF Next, Handle
<1> QED
  BY <1>1, <1>2, PTL DEF Spec

-----------------------------------------------------------------------------
(* What a dispatch may rely on in each phase: it holds a committed event;  *)
(* inside the transaction the event is about a stage; between the two      *)
(* commits of skipWriteback the ledger row exists and is not applied; and  *)
(* when the handler has returned, its work is in the ledger.               *)
Holding(s) ==
  /\ event[s] # NoEvent => event[s] \in inserted
  /\ phase[s] = "read" => SubjectOf[event[s]] \in Stages
  /\ phase[s] = "planned" =>
       /\ SubjectOf[event[s]] = Unsupported
       /\ writeback[event[s]] \in {"planned", "skipped"}
  /\ phase[s] = "handled" =>
       SubjectOf[event[s]] = NotTerminal \/ Settled(event[s])

HoldingInv == \A s \in Slots : Holding(s)

ConsumptionInv == HoldingInv /\ AppliedOnce /\ ProcessedIsConsumed

(* A step of the relay does not touch the ledger or the stages, keeps the  *)
(* inserted events, and starts, ends or fails a dispatch.                  *)
LEMMA RelayKeeps ==
  ASSUME TypeOK, ConsumptionInv, Relay
  PROVE  ConsumptionInv' /\ UNCHANGED <<stage, writeback, applications>>
<1> USE DEF TypeOK, RelayTypeOK, ConsumptionInv
<1>1. UNCHANGED <<stage, writeback, applications>>
  BY DEF Relay, RolledBack
<1>2. AppliedOnce'
  BY <1>1 DEF AppliedOnce
<1>3. \A e \in Events : Settled(e)' <=> Settled(e)
  BY <1>1 DEF Settled
<1>4. ASSUME NEW e \in Events, Insert(e)
      PROVE  ConsumptionInv'
  BY <1>1, <1>2, <1>4 DEF Insert, HoldingInv, Holding, ProcessedIsConsumed, Settled
<1>5. ASSUME NEW e \in Events, LeaseExpires(e)
      PROVE  ConsumptionInv'
  BY <1>1, <1>2, <1>5 DEF LeaseExpires, HoldingInv, Holding, ProcessedIsConsumed, Settled
<1>6. ASSUME NEW s \in Slots, NEW e \in Events, Claim(s, e) \/ ProcessEvent(s, e)
      PROVE  ConsumptionInv'
  <2>1. Dispatch(s, e) /\ e \in inserted
    BY <1>6 DEF Claim, ProcessEvent, Claimable
  <2>2. HoldingInv'
    BY <2>1, <1>1 DEF Dispatch, HoldingInv, Holding, Settled
  <2> QED
    BY <1>1, <1>2, <2>1, <2>2 DEF Dispatch, ProcessedIsConsumed, Settled
<1>7. ASSUME NEW s \in Slots, Release(s), UNCHANGED inserted
      PROVE  HoldingInv'
  BY <1>1, <1>7 DEF Release, HoldingInv, Holding, Settled
<1>8. ASSUME NEW s \in Slots, MarkProcessed(s)
      PROVE  ConsumptionInv'
  <2>1. event[s] \in Events /\ (SubjectOf[event[s]] = NotTerminal \/ Settled(event[s]))
    BY <1>8 DEF MarkProcessed, HoldingInv, Holding
  <2>2. ProcessedIsConsumed'
    BY <1>8, <1>1, <2>1 DEF MarkProcessed, ProcessedIsConsumed, Settled
  <2> QED
    BY <1>2, <1>7, <1>8, <2>2 DEF MarkProcessed
<1>9. ASSUME NEW s \in Slots, MarkFailed(s) \/ Crash(s)
      PROVE  ConsumptionInv'
  <2>1. processed' \subseteq processed /\ Release(s) /\ UNCHANGED inserted
    BY <1>9 DEF MarkFailed, Crash
  <2>2. ProcessedIsConsumed'
    BY <1>1, <2>1 DEF ProcessedIsConsumed, Settled
  <2> QED
    BY <1>2, <1>7, <2>1, <2>2
<1> QED
  BY <1>1, <1>4, <1>5, <1>6, <1>8, <1>9 DEF Relay, RolledBack, RelayStep

(* A step inside one dispatch leaves the others what they rely on, if it   *)
(* never unsettles a row and never touches one that is being skipped but   *)
(* by skipping it.                                                         *)
LEMMA OthersUndisturbed ==
  ASSUME TypeOK, HoldingInv, NEW s \in Slots,
         UNCHANGED <<inserted, event>>,
         \A t \in Slots \ {s} : phase'[t] = phase[t],
         \A e \in Events : Settled(e) => Settled(e)',
         \A e \in Events :
           SubjectOf[e] = Unsupported /\ writeback[e] \in {"planned", "skipped"}
             => writeback'[e] \in {"planned", "skipped"}
  PROVE  \A t \in Slots \ {s} : Holding(t)'
<1> SUFFICES ASSUME NEW t \in Slots \ {s}
             PROVE  Holding(t)'
  OBVIOUS
<1>1. Holding(t) /\ phase'[t] = phase[t] /\ event'[t] = event[t]
  BY DEF HoldingInv
<1>2. phase[t] # "idle" => event[t] \in Events
  BY DEF TypeOK, RelayTypeOK
<1> QED
  BY <1>1, <1>2 DEF Holding

(* One event is skipped, or applied, and no other row changes. *)
LEMMA SettleOne ==
  ASSUME TypeOK, NEW e \in Events, NEW w \in {"applied", "skipped"},
         writeback' = [writeback EXCEPT ![e] = w]
  PROVE  \A f \in Events : Settled(f)' <=> Settled(f) \/ f = e
BY DEF TypeOK, Settled

(* Every step keeps the invariant, and is an insertion, a first skip, a    *)
(* first application or nothing to the abstract consumption.               *)
LEMMA StepConsumes ==
  ASSUME TypeOK, TypeOK', ConsumptionInv, [Next]_vars
  PROVE  ConsumptionInv' /\ [Consumption!Next]_(Consumption!consumptionVars)
<1> USE DEF Consumption!consumptionVars
<1> DEFINE settled == {e \in Events : Settled(e)}
<1>1. CASE Relay
  <2>1. ConsumptionInv' /\ UNCHANGED <<stage, writeback, applications>>
    BY <1>1, RelayKeeps
  <2>2. UNCHANGED settled
    BY <2>1 DEF Settled
  <2>3. UNCHANGED inserted \/ \E e \in Events : Insert(e)
    BY <1>1 DEF Relay, RolledBack, RelayStep, LeaseExpires, Claim, ProcessEvent, Dispatch,
                MarkProcessed, MarkFailed, Crash
  <2> QED
    BY <2>1, <2>2, <2>3 DEF Insert, Consumption!Next, Consumption!Insert
<1>2. ASSUME UNCHANGED <<inserted, processed, event, phase, writeback, applications>>
      PROVE  ConsumptionInv' /\ UNCHANGED Consumption!consumptionVars
  <2>1. UNCHANGED settled
    BY <1>2 DEF Settled
  <2> QED
    BY <1>2, <2>1 DEF ConsumptionInv, HoldingInv, Holding, AppliedOnce,
                      ProcessedIsConsumed, Settled
<1>3. ASSUME NEW s \in Slots,
             UNCHANGED <<inserted, processed, event, writeback, applications>>,
             phase' \in [Slots -> Phase],
             \A t \in Slots \ {s} : phase'[t] = phase[t],
             Holding(s)'
      PROVE  ConsumptionInv' /\ UNCHANGED Consumption!consumptionVars
  <2>1. \A e \in Events : Settled(e) <=> Settled(e)'
    BY <1>3 DEF Settled
  <2>2. HoldingInv'
    BY <1>3, <2>1, OthersUndisturbed DEF ConsumptionInv, HoldingInv
  <2>3. UNCHANGED settled
    BY <2>1
  <2> QED
    BY <1>3, <2>1, <2>2, <2>3
       DEF ConsumptionInv, AppliedOnce, ProcessedIsConsumed, TypeOK, RelayTypeOK
<1>4. ASSUME NEW s \in Slots, HandleNoOp(s)
      PROVE  ConsumptionInv' /\ UNCHANGED Consumption!consumptionVars
  <2>1. Holding(s)'
    BY <1>4 DEF HandleNoOp, HandlerReturns, writebackVars, ConsumptionInv, HoldingInv,
                Holding, TypeOK, RelayTypeOK
  <2> QED
    BY <1>3, <1>4, <2>1 DEF HandleNoOp, HandlerReturns, writebackVars, TypeOK, RelayTypeOK
<1>5. ASSUME NEW s \in Slots, PlanSkip(s)
      PROVE  ConsumptionInv' /\ UNCHANGED Consumption!consumptionVars
  <2>1. event[s] \in Events
    BY <1>5 DEF PlanSkip, TypeOK, RelayTypeOK
  <2>2. CASE Settled(event[s])
    <3>1. UNCHANGED writeback /\ HandlerReturns(s) /\ UNCHANGED applications
      BY <1>5, <2>2 DEF PlanSkip
    <3>2. Holding(s)'
      BY <2>2, <3>1 DEF HandlerReturns, ConsumptionInv, HoldingInv, Holding, Settled,
                        TypeOK, RelayTypeOK
    <3> QED
      BY <1>3, <3>1, <3>2 DEF HandlerReturns, TypeOK, RelayTypeOK
  <2>3. CASE ~Settled(event[s])
    <3>1. /\ writeback' = [writeback EXCEPT ![event[s]] = "planned"]
          /\ phase' = [phase EXCEPT ![s] = "planned"]
          /\ UNCHANGED <<inserted, processed, event, applications>>
          /\ SubjectOf[event[s]] = Unsupported
      BY <1>5, <2>3 DEF PlanSkip
    <3>2. \A e \in Events : Settled(e) <=> Settled(e)'
      BY <2>1, <2>3, <3>1 DEF Settled, TypeOK
    <3>3. Holding(s)'
      BY <2>1, <3>1 DEF ConsumptionInv, HoldingInv, Holding, TypeOK, RelayTypeOK
    <3>4. \A t \in Slots \ {s} : Holding(t)'
      BY <3>1, <3>2, OthersUndisturbed DEF ConsumptionInv, TypeOK, RelayTypeOK
    <3>5. AppliedOnce'
      BY <2>1, <2>3, <3>1 DEF ConsumptionInv, AppliedOnce, Settled, TypeOK
    <3>6. UNCHANGED settled
      BY <3>2 DEF Settled
    <3> QED
      BY <3>1, <3>2, <3>3, <3>4, <3>5, <3>6
         DEF ConsumptionInv, HoldingInv, ProcessedIsConsumed, TypeOK, RelayTypeOK
  <2> QED
    BY <2>2, <2>3
<1>6. ASSUME NEW s \in Slots, MarkSkipped(s)
      PROVE  ConsumptionInv' /\ [Consumption!Next]_(Consumption!consumptionVars)
  <2>1. /\ event[s] \in Events /\ event[s] \in inserted
        /\ SubjectOf[event[s]] = Unsupported
        /\ writeback[event[s]] \in {"planned", "skipped"}
    BY <1>6 DEF MarkSkipped, ConsumptionInv, HoldingInv, Holding, TypeOK, RelayTypeOK
  <2>2. /\ writeback' = [writeback EXCEPT ![event[s]] = "skipped"]
        /\ HandlerReturns(s)
        /\ UNCHANGED applications
    BY <1>6 DEF MarkSkipped
  <2>3. /\ settled' = settled \union {event[s]}
        /\ \A f \in Events : Settled(f) => Settled(f)'
        /\ Settled(event[s])'
    <3>1. \A f \in Events : Settled(f)' <=> Settled(f) \/ f = event[s]
      BY <2>1, <2>2, SettleOne
    <3> QED
      BY <2>1, <2>2, <3>1 DEF Settled, HandlerReturns
  <2>4. Holding(s)'
    BY <2>1, <2>2, <2>3 DEF HandlerReturns, ConsumptionInv, HoldingInv, Holding, TypeOK,
                            RelayTypeOK
  <2>5. \A t \in Slots \ {s} : Holding(t)'
    BY <2>1, <2>2, <2>3, OthersUndisturbed
       DEF HandlerReturns, ConsumptionInv, TypeOK, RelayTypeOK
  <2>6. AppliedOnce'
    BY <2>1, <2>2 DEF ConsumptionInv, AppliedOnce, TypeOK
  <2>7. ConsumptionInv'
    BY <2>2, <2>3, <2>4, <2>5, <2>6
       DEF HandlerReturns, ConsumptionInv, HoldingInv, ProcessedIsConsumed, TypeOK,
           RelayTypeOK
  <2>8. CASE event[s] \in settled
    BY <2>2, <2>3, <2>7, <2>8 DEF HandlerReturns
  <2>9. CASE event[s] \notin settled
    BY <2>1, <2>2, <2>3, <2>7, <2>9
       DEF HandlerReturns, Consumption!Next, Consumption!Skip
  <2> QED
    BY <2>8, <2>9
<1>7. ASSUME NEW s \in Slots, ReadStage(s)
      PROVE  ConsumptionInv' /\ UNCHANGED Consumption!consumptionVars
  <2>1. Holding(s)'
    BY <1>7 DEF ReadStage, ConsumptionInv, HoldingInv, Holding, TypeOK, RelayTypeOK
  <2> QED
    BY <1>3, <1>7, <2>1 DEF ReadStage, TypeOK, RelayTypeOK
<1>8. ASSUME NEW s \in Slots, Commit(s)
      PROVE  ConsumptionInv' /\ [Consumption!Next]_(Consumption!consumptionVars)
  <2>1. /\ event[s] \in Events /\ event[s] \in inserted
        /\ SubjectOf[event[s]] # Unsupported
        /\ HandlerReturns(s)
    BY <1>8 DEF Commit, ConsumptionInv, HoldingInv, Holding, TypeOK, RelayTypeOK
  <2>2. CASE Settled(event[s])
    <3>1. UNCHANGED <<writeback, applications>>
      BY <1>8, <2>2 DEF Commit
    <3>2. Holding(s)'
      BY <2>1, <2>2, <3>1 DEF HandlerReturns, ConsumptionInv, HoldingInv, Holding,
                              Settled, TypeOK, RelayTypeOK
    <3> QED
      BY <1>3, <2>1, <3>1, <3>2 DEF HandlerReturns, TypeOK, RelayTypeOK
  <2>3. ASSUME ~Settled(event[s]), NEW w \in {"applied", "skipped"},
               writeback' = [writeback EXCEPT ![event[s]] = w],
               applications' = IF w = "skipped" THEN applications
                               ELSE [applications EXCEPT ![event[s]] = @ + 1]
        PROVE  ConsumptionInv' /\ [Consumption!Next]_(Consumption!consumptionVars)
    <3>1. /\ settled' = settled \union {event[s]}
          /\ \A f \in Events : Settled(f) => Settled(f)'
          /\ Settled(event[s])'
      <4>1. \A f \in Events : Settled(f)' <=> Settled(f) \/ f = event[s]
        BY <2>1, <2>3, SettleOne
      <4> QED
        BY <2>1, <4>1 DEF Settled, HandlerReturns
    <3>2. Holding(s)'
      BY <2>1, <2>3, <3>1 DEF HandlerReturns, ConsumptionInv, HoldingInv, Holding, TypeOK,
                              RelayTypeOK
    <3>3. \A t \in Slots \ {s} : Holding(t)'
      BY <2>1, <2>3, <3>1, OthersUndisturbed
         DEF HandlerReturns, ConsumptionInv, TypeOK, RelayTypeOK
    <3>4. AppliedOnce'
      BY <2>1, <2>3 DEF ConsumptionInv, AppliedOnce, Settled, TypeOK
    <3>5. ConsumptionInv'
      BY <2>1, <3>1, <3>2, <3>3, <3>4
         DEF HandlerReturns, ConsumptionInv, HoldingInv, ProcessedIsConsumed, TypeOK,
           RelayTypeOK
    <3>6. Consumption!Next
      BY <2>1, <2>3, <3>1
         DEF HandlerReturns, Consumption!Next, Consumption!Skip, Consumption!Apply
    <3> QED
      BY <3>5, <3>6
  <2>4. CASE ~Settled(event[s]) /\ seen[s] # "running"
    BY <1>8, <2>3, <2>4 DEF Commit
  <2>5. CASE ~Settled(event[s]) /\ seen[s] = "running"
    BY <1>8, <2>3, <2>5 DEF Commit
  <2> QED
    BY <2>2, <2>4, <2>5
<1>9. ASSUME NEW s \in Slots, HandlerThrows(s) \/ MarkThrows(s)
      PROVE  ConsumptionInv' /\ UNCHANGED Consumption!consumptionVars
  <2>1. /\ UNCHANGED <<inserted, processed, event, writeback, applications>>
        /\ phase' = [phase EXCEPT ![s] = "thrown"]
    BY <1>9 DEF HandlerThrows, MarkThrows, Throw, writebackVars
  <2>2. Holding(s)'
    BY <2>1 DEF ConsumptionInv, HoldingInv, Holding, TypeOK, RelayTypeOK
  <2> QED
    BY <1>3, <2>1, <2>2 DEF TypeOK, RelayTypeOK
<1>10. ASSUME \/ \E st \in Stages : CreateStage(st)
              \/ \E u \in Users, st \in Stages, to \in StageStatus :
                    BeginTransition(u, st, to)
              \/ \E u \in Users : CommitTransition(u)
              \/ UNCHANGED vars
       PROVE  ConsumptionInv' /\ UNCHANGED Consumption!consumptionVars
  BY <1>2, <1>10 DEF CreateStage, BeginTransition, CommitTransition, vars, relayVars,
                     writebackVars
<1> QED
  BY <1>1, <1>4, <1>5, <1>6, <1>7, <1>8, <1>9, <1>10 DEF Next, Handle

LEMMA ConsumptionInvariant == Spec => []ConsumptionInv
<1>1. Init => ConsumptionInv
  BY DEF Init, RelayInit, ConsumptionInv, HoldingInv, Holding, AppliedOnce,
         ProcessedIsConsumed
<1>2. TypeOK /\ TypeOK' /\ ConsumptionInv /\ [Next]_vars => ConsumptionInv'
  BY StepConsumes
<1> QED
  BY <1>1, <1>2, TypeCorrect, PTL DEF Spec

(* The ledger says "applied" exactly for the events that moved their       *)
(* stage, and no event moved it twice, however often it was delivered.     *)
THEOREM StageMovedOnce == Spec => []AppliedOnce
BY ConsumptionInvariant, PTL DEF ConsumptionInv

(* No terminal event is marked processed before its consumption is in the  *)
(* ledger, whatever fails between the two.                                 *)
THEOREM NoEventLost == Spec => []ProcessedIsConsumed
BY ConsumptionInvariant, PTL DEF ConsumptionInv

(* Relay, handler and ledger together implement at-most-once consumption.  *)
THEOREM DeliveryImplementsConsumption == Spec => ConsumedOnce
<1>1. Init => Consumption!Init
  BY DEF Init, RelayInit, Consumption!Init, Settled
<1>2. TypeOK /\ TypeOK' /\ ConsumptionInv /\ [Next]_vars
        => [Consumption!Next]_(Consumption!consumptionVars)
  BY StepConsumes
<1> QED
  BY <1>1, <1>2, TypeCorrect, ConsumptionInvariant, PTL
     DEF Spec, ConsumedOnce, Consumption!Spec

-----------------------------------------------------------------------------
(* What a stage that waits for a result may rely on.  Nothing is planned    *)
(* for an event before it is committed.                                     *)
CleanInv == \A e \in Events : writeback[e] # "none" => e \in inserted

LEMMA CleanInvariant == Spec => []CleanInv
<1>1. Init => CleanInv
  BY DEF Init, RelayInit, CleanInv
<1>2. TypeOK /\ ConsumptionInv /\ CleanInv /\ [Next]_vars => CleanInv'
  <2> SUFFICES ASSUME TypeOK, HoldingInv, CleanInv, [Next]_vars
               PROVE  CleanInv'
    BY DEF ConsumptionInv
  <2> USE DEF TypeOK, RelayTypeOK, CleanInv
  <2>1. CASE Relay
    <3>1. inserted \subseteq inserted'
      BY <2>1 DEF Relay, RelayStep, Insert, LeaseExpires, Claim, ProcessEvent, Dispatch,
         MarkProcessed, MarkFailed, Crash
    <3> QED
      BY <2>1, <3>1 DEF Relay, RolledBack
  <2>2. ASSUME NEW s \in Slots, Handle(s)
        PROVE  CleanInv'
    <3>1. event[s] \in inserted
      BY <2>2 DEF Handle, HandleNoOp, PlanSkip, MarkSkipped, ReadStage, Commit, HoldingInv, Holding
    <3>2. CASE HandleNoOp(s)
      BY <3>2 DEF HandleNoOp, HandlerReturns, writebackVars
    <3>3. CASE PlanSkip(s)
      BY <3>1, <3>3 DEF PlanSkip, HandlerReturns
    <3>4. CASE MarkSkipped(s)
      BY <3>1, <3>4 DEF MarkSkipped, HandlerReturns
    <3>5. CASE ReadStage(s)
      BY <3>5 DEF ReadStage
    <3>6. CASE Commit(s)
      BY <3>1, <3>6 DEF Commit, HandlerReturns
    <3> QED
      BY <2>2, <3>2, <3>3, <3>4, <3>5, <3>6 DEF Handle
  <2>3. ASSUME NEW s \in Slots, HandlerThrows(s) \/ MarkThrows(s)
        PROVE  CleanInv'
    BY <2>3 DEF HandlerThrows, MarkThrows, Throw, writebackVars
  <2>4. ASSUME \/ \E st \in Stages : CreateStage(st)
               \/ \E u \in Users, st \in Stages, to \in StageStatus : BeginTransition(u, st, to)
               \/ \E u \in Users : CommitTransition(u)
               \/ UNCHANGED vars
        PROVE  CleanInv'
    BY <2>4 DEF CreateStage, BeginTransition, CommitTransition, relayVars, vars, writebackVars
  <2> QED
    BY <2>1, <2>2, <2>3, <2>4 DEF Next
<1> QED
  BY <1>1, <1>2, TypeCorrect, ConsumptionInvariant, PTL DEF Spec

(* A status read is kept only inside its transaction, so that a step which  *)
(* leaves every dispatch where it is rolls nothing back.                    *)
SeenInv ==
  /\ phase = [s \in Slots |-> phase[s]]
  /\ seen = [s \in Slots |-> IF phase[s] = "read" THEN seen[s] ELSE "absent"]

LEMMA SeenStart == Init => SeenInv
BY DEF Init, RelayInit, SeenInv

LEMMA SeenStep ==
  ASSUME SeenInv, [Next]_vars
  PROVE  SeenInv'
<1> USE DEF SeenInv
<1>1. CASE Relay
  <2>1. phase' = [s \in Slots |-> phase'[s]]
    BY <1>1 DEF Relay, RelayStep, Insert, LeaseExpires, Claim, ProcessEvent, Dispatch,
       MarkProcessed, MarkFailed, Crash, Release
  <2> QED
    BY <1>1, <2>1 DEF Relay, RolledBack
<1>2. ASSUME NEW s \in Slots,
             HandleNoOp(s) \/ PlanSkip(s) \/ MarkSkipped(s) \/ MarkThrows(s)
      PROVE  SeenInv'
  <2>1. /\ seen' = seen /\ phase[s] # "read"
        /\ \E p \in {"handled", "planned", "thrown"} : phase' = [phase EXCEPT ![s] = p]
    BY <1>2 DEF HandleNoOp, PlanSkip, MarkSkipped, MarkThrows, HandlerReturns, Throw,
       writebackVars
  <2> QED
    BY <2>1
<1>3. ASSUME NEW s \in Slots, ReadStage(s)
      PROVE  SeenInv'
  BY <1>3 DEF ReadStage
<1>4. ASSUME NEW s \in Slots, Commit(s) \/ HandlerThrows(s)
      PROVE  SeenInv'
  <2>1. /\ seen' = [seen EXCEPT ![s] = "absent"]
        /\ \E p \in {"handled", "thrown"} : phase' = [phase EXCEPT ![s] = p]
    BY <1>4 DEF Commit, HandlerThrows, HandlerReturns, Throw
  <2> QED
    BY <2>1
<1>5. ASSUME \/ \E t \in Stages : CreateStage(t)
             \/ \E u \in Users, t \in Stages, to \in StageStatus : BeginTransition(u, t, to)
             \/ \E u \in Users : CommitTransition(u)
             \/ UNCHANGED vars
      PROVE  SeenInv'
  BY <1>5 DEF CreateStage, BeginTransition, CommitTransition, relayVars, vars, writebackVars
<1> QED
  BY <1>1, <1>2, <1>3, <1>4, <1>5 DEF Next, Handle

(* A result on its way to the stage st: its event is committed and not yet  *)
(* consumed, and whoever has read the stage for it saw it running.          *)
OnItsWay(e, st) ==
  /\ e \in inserted /\ SubjectOf[e] = st /\ ~Settled(e)
  /\ \A s \in Slots : phase[s] = "read" /\ event[s] = e => seen[s] = "running"

PutsRunning(u, st) ==
  editing[u] = st /\ target[u] = "running" /\ editing'[u] = NoStage

(* Only a user puts a stage running, and while nobody does, a result on its *)
(* way to a running stage stays so until the stage is moved.                *)
LEMMA OnItsWayStep ==
  ASSUME TypeOK, HoldingInv, [Next]_vars, NEW st \in Stages,
         stage'[st] = "running",
         ~\E u \in Users : PutsRunning(u, st)
  PROVE  /\ stage[st] = "running"
         /\ \A e \in Events : OnItsWay(e, st) => OnItsWay(e, st)'
<1> USE DEF TypeOK, RelayTypeOK
<1>0. ASSUME NEW s \in Slots, NEW e \in Events
      PROVE  TargetFor(e) # "running"
  BY DEF TargetFor
<1>1. ASSUME UNCHANGED <<stage, writeback, seen>>, inserted \subseteq inserted',
             \A s \in Slots : phase'[s] = "read" => phase[s] = "read" /\ event'[s] = event[s]
      PROVE  /\ stage[st] = "running"
             /\ \A e \in Events : OnItsWay(e, st) => OnItsWay(e, st)'
  BY <1>1 DEF OnItsWay, Settled
<1>2. CASE Relay
  <2>1. UNCHANGED <<stage, writeback>>
    BY <1>2 DEF Relay, RolledBack
  <2>2. /\ inserted \subseteq inserted'
        /\ \A s \in Slots : phase'[s] = "read" => phase[s] = "read" /\ event'[s] = event[s]
    BY <1>2 DEF Relay, RelayStep, Insert, LeaseExpires, Claim, ProcessEvent, Dispatch,
       MarkProcessed, MarkFailed, Crash, Release
  <2>3. \A s \in Slots : phase'[s] = "read" => seen'[s] = seen[s]
    BY <1>2 DEF Relay, RolledBack
  <2> QED
    BY <2>1, <2>2, <2>3 DEF OnItsWay, Settled
<1>3. ASSUME NEW s \in Slots, HandleNoOp(s)
      PROVE  /\ stage[st] = "running"
             /\ \A e \in Events : OnItsWay(e, st) => OnItsWay(e, st)'
  BY <1>1, <1>3 DEF HandleNoOp, HandlerReturns, writebackVars
<1>4. ASSUME NEW s \in Slots, PlanSkip(s) \/ MarkSkipped(s)
      PROVE  /\ stage[st] = "running"
             /\ \A e \in Events : OnItsWay(e, st) => OnItsWay(e, st)'
  <2>1. event[s] \in Events /\ SubjectOf[event[s]] = Unsupported
    BY <1>4 DEF PlanSkip, MarkSkipped, HoldingInv, Holding
  <2>2. /\ UNCHANGED <<stage, seen, inserted, event>>
        /\ \A e \in Events : e # event[s] => writeback'[e] = writeback[e]
        /\ \A t \in Slots : phase'[t] = "read" => phase[t] = "read"
    BY <1>4, <2>1 DEF PlanSkip, MarkSkipped, HandlerReturns
  <2> QED
    BY <2>1, <2>2 DEF OnItsWay, Settled
<1>5. ASSUME NEW s \in Slots, ReadStage(s)
      PROVE  /\ stage[st] = "running"
             /\ \A e \in Events : OnItsWay(e, st) => OnItsWay(e, st)'
  BY <1>5 DEF ReadStage, OnItsWay, Settled
<1>6. ASSUME NEW s \in Slots, Commit(s)
      PROVE  /\ stage[st] = "running"
             /\ \A e \in Events : OnItsWay(e, st) => OnItsWay(e, st)'
  <2>1. event[s] \in Events /\ SubjectOf[event[s]] \in Stages
    BY <1>6 DEF Commit, HoldingInv, Holding
  <2>2. /\ UNCHANGED <<inserted, event>>
        /\ \A t \in Slots : phase'[t] = "read" => phase[t] = "read" /\ seen'[t] = seen[t]
        /\ \A e \in Events : e # event[s] => writeback'[e] = writeback[e]
        /\ \A t \in Stages : t # SubjectOf[event[s]] => stage'[t] = stage[t]
        /\ \/ UNCHANGED <<stage, writeback>>
           \/ seen[s] # "running" /\ UNCHANGED stage
           \/ stage'[SubjectOf[event[s]]] = TargetFor(event[s])
    BY <1>6, <2>1 DEF Commit, HandlerReturns
  <2>3. stage[st] = "running"
    BY <2>1, <2>2, <1>0
  <2>4. ASSUME NEW e \in Events, OnItsWay(e, st)
        PROVE  OnItsWay(e, st)'
    <3>1. e = event[s] => UNCHANGED <<stage, writeback>>
      BY <1>0, <1>6, <2>1, <2>2, <2>4 DEF OnItsWay, Commit
    <3> QED
      BY <2>2, <2>4, <3>1 DEF OnItsWay, Settled
  <2> QED
    BY <2>3, <2>4
<1>7. ASSUME NEW s \in Slots, HandlerThrows(s) \/ MarkThrows(s)
      PROVE  /\ stage[st] = "running"
             /\ \A e \in Events : OnItsWay(e, st) => OnItsWay(e, st)'
  <2>1. /\ UNCHANGED <<stage, writeback, inserted, event>>
        /\ \A t \in Slots : phase'[t] = "read" => phase[t] = "read" /\ seen'[t] = seen[t]
    BY <1>7 DEF HandlerThrows, MarkThrows, Throw, writebackVars
  <2> QED
    BY <2>1 DEF OnItsWay, Settled
<1>8. ASSUME \/ \E t \in Stages : CreateStage(t)
             \/ \E u \in Users, t \in Stages, to \in StageStatus : BeginTransition(u, t, to)
             \/ \E u \in Users : CommitTransition(u)
             \/ UNCHANGED vars
      PROVE  /\ stage[st] = "running"
             /\ \A e \in Events : OnItsWay(e, st) => OnItsWay(e, st)'
  <2>1. UNCHANGED <<writeback, seen, inserted, event, phase>>
    BY <1>8 DEF CreateStage, BeginTransition, CommitTransition, relayVars, vars, writebackVars
  <2>2. stage[st] = "running"
    BY <1>8 DEF CreateStage, BeginTransition, CommitTransition, vars, writebackVars, PutsRunning
  <2> QED
    BY <2>1, <2>2 DEF OnItsWay, Settled
<1> QED
  BY <1>2, <1>3, <1>4, <1>5, <1>6, <1>7, <1>8 DEF Next, Handle
=============================================================================
