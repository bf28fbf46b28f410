---------------------------- MODULE LedgerProofs ----------------------------
(*****************************************************************************)
(* Theorems about AuditLog, Evaluations and ProviderQuota: the records that *)
(* must add up, for every set of transactions, requests, jobs and calls.    *)
(*****************************************************************************)
EXTENDS AuditLog, Evaluations, ProviderQuota, FiniteSetTheorems, TLAPS

-----------------------------------------------------------------------------
(* The hash chain and the locks behind it.                                  *)

(* The transactions and the rows keep their shape. *)
THEOREM AuditTypeCorrect == AuditSpec => []AuditTypeOK
<1> USE DEF AuditTypeOK
<1>1. ASSUME AuditInit
      PROVE  AuditTypeOK
  <2>1. "transitionRun" \in Kinds
    BY DEF Kinds, Writes
  <2> QED
    BY <1>1, <2>1 DEF AuditInit
<1>2. AuditTypeOK /\ [AuditNext]_auditVars => AuditTypeOK'
  <2> SUFFICES ASSUME AuditTypeOK, [AuditNext]_auditVars
               PROVE  AuditTypeOK'
    OBVIOUS
  <2>1. ASSUME NEW u \in AuditTxs, NEW kind \in Kinds, BeginTx(u, kind)
        PROVE  AuditTypeOK'
    BY <2>1 DEF BeginTx
  <2>2. ASSUME NEW u \in AuditTxs, WriteRow(u)
        PROVE  AuditTypeOK'
    BY <2>2 DEF WriteRow
  <2>3. ASSUME NEW u \in AuditTxs, RecordAudit(u)
        PROVE  AuditTypeOK'
    <3>1. PICK n \in {1} \cup {d.sequence_no + 1 : d \in Seen(u)},
               prev \in {NoEvent} \cup {d.event : d \in Seen(u)} :
            unsaved' = [unsaved EXCEPT ![u] = @ \cup
              {[sequence_no |-> n, event |-> <<u, atx[u].done>>, prev |-> prev]}]
      BY <2>3 DEF RecordAudit
    <3>2. \A d \in Seen(u) : d \in AuditRow
      BY DEF Seen
    <3>3. n \in Nat \ {0}
      BY <3>1, <3>2 DEF AuditRow
    <3>4. prev \in {NoEvent} \cup AuditTxs \X Nat
      BY <3>1, <3>2 DEF AuditRow
    <3>5. [sequence_no |-> n, event |-> <<u, atx[u].done>>, prev |-> prev] \in AuditRow
      BY <3>3, <3>4 DEF AuditRow
    <3>6. unsaved' \in [AuditTxs -> SUBSET AuditRow]
      BY <3>1, <3>5
    <3> QED
      BY <2>3, <3>6 DEF RecordAudit
  <2>4. ASSUME NEW u \in AuditTxs, CommitTx(u)
        PROVE  AuditTypeOK'
    BY <2>4 DEF CommitTx
  <2>5. ASSUME NEW u \in AuditTxs, RollbackTx(u)
        PROVE  AuditTypeOK'
    BY <2>5 DEF RollbackTx
  <2>6. CASE UNCHANGED auditVars
    BY <2>6 DEF auditVars
  <2> QED
    BY <2>1, <2>2, <2>3, <2>4, <2>5, <2>6 DEF AuditNext
<1> QED
  BY <1>1, <1>2, PTL DEF AuditSpec

-----------------------------------------------------------------------------
(* The advisory lock makes the chain: at most one running transaction has  *)
(* audited (OneWriter), only that one has rows nobody else sees, and these *)
(* continue the committed chain.                                           *)
Auditing(u) == atx[u].phase = "running" /\ "audit" \in Done(u)

ChainInv ==
  /\ \A u \in AuditTxs : unsaved[u] # {} => Auditing(u)
  /\ \A u, v \in AuditTxs : Auditing(u) /\ Auditing(v) => u = v
  /\ \A u \in AuditTxs : IsChain(Seen(u))
  /\ IsChain(trail)

(* A row chained to a chain makes a longer one. *)
LEMMA ChainGrows ==
  ASSUME NEW S \in SUBSET AuditRow, NEW e \in AuditRow, IsChain(S), ChainedTo(S, e)
  PROVE  IsChain(S \cup {e})
<1> USE DEF AuditRow
<1>1. \A d \in S : d.sequence_no < e.sequence_no
  <2>1. CASE S = {}
    BY <2>1
  <2>2. CASE \E last \in S : /\ \A d \in S : d.sequence_no <= last.sequence_no
                             /\ e.sequence_no = last.sequence_no + 1
    BY <2>2
  <2> QED
    BY <2>1, <2>2 DEF ChainedTo
<1>2. ASSUME NEW d \in S \cup {e}, NEW f \in S \cup {e}, d.sequence_no = f.sequence_no
      PROVE  d = f
  BY <1>1, <1>2 DEF IsChain
<1>3. ASSUME NEW f \in S \cup {e}
      PROVE  \/ f.sequence_no = 1 /\ f.prev = NoEvent
             \/ \E d \in S \cup {e} : f.sequence_no = d.sequence_no + 1 /\ f.prev = d.event
  BY <1>3 DEF IsChain, ChainedTo
<1> QED
  BY <1>2, <1>3 DEF IsChain

(* What a step of u does to the writes done. *)
LEMMA DoneGrows ==
  ASSUME AuditTypeOK, NEW u \in AuditTxs, atx' = [atx EXCEPT ![u].done = @ + 1]
  PROVE  /\ \A v \in AuditTxs \ {u} : Auditing(v)' <=> Auditing(v)
         /\ Auditing(u)' => Auditing(u) \/ NextWrite(u) = "audit"
         /\ Auditing(u) => Auditing(u)'
         /\ atx[u].phase = "running" /\ NextWrite(u) = "audit" => Auditing(u)'
<1> USE DEF AuditTypeOK
<1>1. \A v \in AuditTxs \ {u} : atx'[v] = atx[v]
  OBVIOUS
<1>2. /\ atx'[u].done = atx[u].done + 1 /\ atx'[u].kind = atx[u].kind
      /\ atx'[u].phase = atx[u].phase /\ atx[u].done \in Nat
  OBVIOUS
<1>3. Done(u)' = Done(u) \cup {NextWrite(u)}
  <2> DEFINE w == Writes[atx[u].kind]
             n == atx[u].done
  <2>1. Done(u)' = {w[i] : i \in 1 .. n + 1}
    BY <1>2 DEF Done
  <2>2. Done(u) = {w[i] : i \in 1 .. n} /\ NextWrite(u) = w[n + 1]
    BY DEF Done, NextWrite
  <2>3. 1 .. n + 1 = (1 .. n) \cup {n + 1}
    <3>1. \A k \in Nat : 1 .. k + 1 = (1 .. k) \cup {k + 1}
      OBVIOUS
    <3>2. n \in Nat
      BY <1>2
    <3> QED
      BY <3>1, <3>2
  <2> HIDE DEF w, n
  <2> QED
    BY <2>1, <2>2, <2>3
<1>4. \A v \in AuditTxs \ {u} : Auditing(v)' <=> Auditing(v)
  BY <1>1 DEF Auditing, Done
<1> QED
  BY <1>2, <1>3, <1>4 DEF Auditing

LEMMA ChainInvInit == AuditInit => ChainInv
<1> SUFFICES ASSUME AuditInit
             PROVE  ChainInv
  OBVIOUS
<1>1. \A u \in AuditTxs : ~ Auditing(u) /\ Seen(u) = {}
  BY DEF AuditInit, Auditing, Seen
<1>2. IsChain({})
  BY DEF IsChain
<1> QED
  BY <1>1, <1>2 DEF ChainInv, AuditInit

LEMMA ChainInvStep ==
  AuditTypeOK /\ AuditTypeOK' /\ ChainInv /\ [AuditNext]_auditVars => ChainInv'
<1> SUFFICES ASSUME AuditTypeOK, AuditTypeOK', ChainInv, [AuditNext]_auditVars
             PROVE  ChainInv'
  OBVIOUS
<1> USE DEF AuditTypeOK
<1>1. ASSUME NEW u \in AuditTxs, NEW kind \in Kinds, BeginTx(u, kind)
      PROVE  ChainInv'
  <2>1. \A v \in AuditTxs : Auditing(v)' <=> Auditing(v)
    <3>1. ~ Auditing(u)
      BY <1>1 DEF BeginTx, Auditing
    <3>2. ~ Auditing(u)'
      <4>1. atx'[u].done = 0
        BY <1>1 DEF BeginTx
      <4> QED
        BY <4>1 DEF Auditing, Done
    <3>3. \A v \in AuditTxs \ {u} : atx'[v] = atx[v]
      BY <1>1 DEF BeginTx
    <3> QED
      BY <3>1, <3>2, <3>3 DEF Auditing, Done
  <2> QED
    BY <1>1, <2>1 DEF BeginTx, ChainInv, Seen
<1>2. ASSUME NEW u \in AuditTxs, WriteRow(u)
      PROVE  ChainInv'
  <2>1. \A v \in AuditTxs : Auditing(v)' <=> Auditing(v)
    BY <1>2, DoneGrows DEF WriteRow
  <2> QED
    BY <1>2, <2>1 DEF WriteRow, ChainInv, Seen
<1>3. ASSUME NEW u \in AuditTxs, RecordAudit(u)
      PROVE  ChainInv'
  <2>1. \A v \in AuditTxs \ {u} : ~ Auditing(v)
    BY <1>3 DEF RecordAudit, MayWrite, WaitsFor, Auditing, Running
  <2>2. \A v \in AuditTxs \ {u} : ~ Auditing(v)' /\ unsaved[v] = {}
    BY <1>3, <2>1, DoneGrows DEF RecordAudit, ChainInv
  <2>3. Auditing(u)'
    BY <1>3, DoneGrows DEF RecordAudit, MayWrite
  <2>4. PICK e : ChainedTo(Seen(u), e) /\ unsaved' = [unsaved EXCEPT ![u] = @ \cup {e}]
    BY <1>3 DEF RecordAudit
  <2>5. trail' = trail
    BY <1>3 DEF RecordAudit
  <2>6. e \in AuditRow /\ Seen(u) \in SUBSET AuditRow
    BY <2>4 DEF Seen
  <2>7. Seen(u)' = Seen(u) \cup {e}
    BY <2>4, <2>5 DEF Seen
  <2>8. IsChain(Seen(u) \cup {e})
    BY <2>4, <2>6, ChainGrows DEF ChainInv
  <2>9. \A v \in AuditTxs \ {u} : unsaved'[v] = {} /\ Seen(v)' = trail
    BY <2>2, <2>4, <2>5 DEF Seen
  <2>10. IsChain(Seen(u)')
    BY <2>7, <2>8
  <2>11. \A v \in AuditTxs : IsChain(Seen(v)')
    BY <2>9, <2>10 DEF ChainInv
  <2>12. IsChain(trail')
    BY <2>5 DEF ChainInv
  <2>13. \A v \in AuditTxs : IsChain(Seen(v))'
    BY <2>11 DEF IsChain
  <2>14. IsChain(trail)'
    BY <2>12 DEF IsChain
  <2> QED
    BY <2>2, <2>3, <2>9, <2>13, <2>14 DEF ChainInv
<1>4. ASSUME NEW u \in AuditTxs, CommitTx(u) \/ RollbackTx(u)
      PROVE  ChainInv'
  <2>1. ~ Auditing(u)' /\ unsaved'[u] = {}
    BY <1>4 DEF CommitTx, RollbackTx, Auditing
  <2>2. \A v \in AuditTxs \ {u} : (Auditing(v)' <=> Auditing(v)) /\ unsaved'[v] = unsaved[v]
    BY <1>4 DEF CommitTx, RollbackTx, Auditing, Done
  <2>3. trail' = trail \/ trail' = Seen(u)
    BY <1>4 DEF CommitTx, RollbackTx, Seen
  <2>4. IsChain(trail)'
    BY <2>3 DEF ChainInv, IsChain
  <2>5. ASSUME NEW v \in AuditTxs
        PROVE  IsChain(Seen(v))'
    <3>1. CASE trail' = trail
      <4>1. Seen(v)' = Seen(v) \/ Seen(v)' = trail
        BY <2>1, <2>2, <3>1 DEF Seen
      <4> QED
        BY <4>1 DEF ChainInv, IsChain
    <3>2. CASE trail' # trail
      <4>1. unsaved[u] # {} /\ Auditing(u)
        BY <2>3, <3>2 DEF Seen, ChainInv
      <4>2. unsaved'[v] = {}
        BY <2>1, <2>2, <4>1 DEF ChainInv
      <4>3. Seen(v)' = trail'
        BY <4>2 DEF Seen
      <4> QED
        BY <2>4, <4>3 DEF IsChain
    <3> QED
      BY <3>1, <3>2
  <2> QED
    BY <2>1, <2>2, <2>4, <2>5 DEF ChainInv
<1>5. CASE UNCHANGED auditVars
  BY <1>5 DEF auditVars, ChainInv, Auditing, Done, Seen, IsChain
<1> QED
  BY <1>1, <1>2, <1>3, <1>4, <1>5 DEF AuditNext

(* The committed trail has no gap and no fork, whatever transactions       *)
(* overlap, commit or roll back (cf_audit_chain).                          *)
THEOREM ChainUnbrokenHolds == AuditSpec => []ChainUnbroken
<1>1. AuditSpec => []AuditTypeOK
  BY AuditTypeCorrect
<1>2. ChainInv => ChainUnbroken
  BY DEF ChainInv, ChainUnbroken
<1> QED
  BY <1>1, <1>2, ChainInvInit, ChainInvStep, PTL DEF AuditSpec

-----------------------------------------------------------------------------
(* Why only the reviews can deadlock.  Every other kind takes what it       *)
(* writes in one order, so along a chain of waits the ranks of the next     *)
(* writes grow, and there are four of them.                                 *)
Rank(write) ==
  CASE write = "stage" -> 1
    [] write = "run" -> 2
    [] write = "asset" -> 3
    [] write = "audit" -> 4

LEMMA OthersInOrder ==
  ASSUME NEW kind \in Kinds \ Reviews,
         NEW i \in 1 .. Len(Writes[kind]), NEW j \in 1 .. Len(Writes[kind]), i < j
  PROVE  /\ Writes[kind][i] \in {"stage", "run", "asset", "audit"}
         /\ Writes[kind][j] \in {"stage", "run", "asset", "audit"}
         /\ Rank(Writes[kind][i]) < Rank(Writes[kind][j])
<1> USE DEF Rank
<1>1. CASE kind = "transitionStage"
  <2>1. Writes[kind] = <<"stage", "run", "audit">>
    BY <1>1 DEF Writes
  <2>2. (i = 1 /\ j = 2) \/ (i = 1 /\ j = 3) \/ (i = 2 /\ j = 3)
    BY <2>1
  <2> QED
    BY <2>1, <2>2
<1>2. CASE kind = "transitionRun"
  <2>1. Writes[kind] = <<"run", "audit">>
    BY <1>2 DEF Writes
  <2>2. i = 1 /\ j = 2
    BY <2>1
  <2> QED
    BY <2>1, <2>2
<1>3. CASE kind = "publishVersion"
  <2>1. Writes[kind] = <<"asset", "audit">>
    BY <1>3 DEF Writes
  <2>2. i = 1 /\ j = 2
    BY <2>1
  <2> QED
    BY <2>1, <2>2
<1>4. CASE kind = "stageWriteback"
  <2>1. Writes[kind] = <<"stage", "audit">>
    BY <1>4 DEF Writes
  <2>2. i = 1 /\ j = 2
    BY <2>1
  <2> QED
    BY <2>1, <2>2
<1> QED
  BY <1>1, <1>2, <1>3, <1>4 DEF Kinds, Reviews, Writes

(* A transaction has done no more than its writes. *)
InBounds == \A u \in AuditTxs : atx[u].done <= Len(Writes[atx[u].kind])

LEMMA InBoundsHolds == AuditSpec => []InBounds
<1>1. ASSUME AuditInit
      PROVE  InBounds
  <2>1. Len(Writes["transitionRun"]) = 2
    BY DEF Writes
  <2>2. \A u \in AuditTxs : atx[u].kind = "transitionRun" /\ atx[u].done = 0
    BY <1>1 DEF AuditInit
  <2>3. ASSUME NEW u \in AuditTxs
        PROVE  atx[u].done <= Len(Writes[atx[u].kind])
    <3>1. Len(Writes[atx[u].kind]) = 2
      BY <2>1, <2>2
    <3>2. atx[u].done = 0
      BY <2>2
    <3> QED
      BY <3>1, <3>2
  <2> QED
    BY <2>3 DEF InBounds
<1>2. AuditTypeOK /\ InBounds /\ [AuditNext]_auditVars => InBounds'
  <2> SUFFICES ASSUME AuditTypeOK, InBounds, [AuditNext]_auditVars
               PROVE  InBounds'
    OBVIOUS
  <2>0. \A kind \in Kinds : Len(Writes[kind]) \in Nat
    BY DEF Kinds, Writes
  <2>1. ASSUME NEW u \in AuditTxs, NEW kind \in Kinds, BeginTx(u, kind)
        PROVE  InBounds'
    BY <2>0, <2>1 DEF BeginTx, InBounds, AuditTypeOK
  <2>2. ASSUME NEW u \in AuditTxs, WriteRow(u) \/ RecordAudit(u)
        PROVE  InBounds'
    <3>1. atx' = [atx EXCEPT ![u].done = @ + 1] /\ ~ Finished(u)
      BY <2>2 DEF WriteRow, RecordAudit, MayWrite
    <3> QED
      BY <2>0, <3>1 DEF Finished, InBounds, AuditTypeOK
  <2>3. ASSUME NEW u \in AuditTxs, CommitTx(u) \/ RollbackTx(u)
        PROVE  InBounds'
    <3>1. atx' = [atx EXCEPT ![u].phase = "over"]
      BY <2>3 DEF CommitTx, RollbackTx
    <3> QED
      BY <3>1 DEF InBounds, AuditTypeOK
  <2>4. CASE UNCHANGED auditVars
    BY <2>4 DEF auditVars, InBounds
  <2> QED
    BY <2>1, <2>2, <2>3, <2>4 DEF AuditNext
<1> QED
  BY <1>1, <1>2, AuditTypeCorrect, PTL DEF AuditSpec

(* One wait goes up. *)
LEMMA WaitsUpward ==
  ASSUME AuditTypeOK, InBounds, NEW u \in Running, NEW v \in Running,
         atx[v].kind \notin Reviews, WaitsFor(u, v), ~ Finished(v)
  PROVE  /\ NextWrite(u) \in {"stage", "run", "asset", "audit"}
         /\ NextWrite(v) \in {"stage", "run", "asset", "audit"}
         /\ Rank(NextWrite(u)) < Rank(NextWrite(v))
<1> DEFINE kind == atx[v].kind
           n == atx[v].done
<1>1. kind \in Kinds \ Reviews /\ n \in Nat
  BY DEF AuditTypeOK, Running
<1>2. Len(Writes[kind]) \in Nat
  BY <1>1 DEF Kinds, Writes
<1>3. n < Len(Writes[kind])
  BY <1>1, <1>2 DEF InBounds, Finished, Running
<1>4. PICK i \in 1 .. n : NextWrite(u) = Writes[kind][i]
  BY DEF WaitsFor, Done
<1>5. NextWrite(v) = Writes[kind][n + 1]
  BY DEF NextWrite
<1>6. i \in 1 .. Len(Writes[kind]) /\ n + 1 \in 1 .. Len(Writes[kind]) /\ i < n + 1
  BY <1>1, <1>2, <1>3, <1>4
<1> HIDE DEF kind, n
<1> QED
  BY <1>1, <1>4, <1>5, <1>6, OthersInOrder

(* Transactions wait for each other only where a review is among them.     *)
THEOREM OnlyReviewsDeadlockHolds == AuditSpec => []OnlyReviewsDeadlock
<1>1. ASSUME AuditTypeOK, InBounds
      PROVE  OnlyReviewsDeadlock
  <2> SUFFICES ASSUME NEW C \in SUBSET Running,
                      \A u \in C : \E v \in C : WaitsFor(u, v),
                      \A u \in C : atx[u].kind \notin Reviews
               PROVE  C = {}
    BY DEF OnlyReviewsDeadlock
  <2>1. \A u \in C : \E v \in C :
          /\ NextWrite(u) \in {"stage", "run", "asset", "audit"}
          /\ NextWrite(v) \in {"stage", "run", "asset", "audit"}
          /\ Rank(NextWrite(u)) < Rank(NextWrite(v))
    <3> TAKE u \in C
    <3>1. PICK v \in C : WaitsFor(u, v)
      OBVIOUS
    <3>2. ~ Finished(v)
      BY DEF WaitsFor
    <3> QED
      BY <1>1, <3>1, <3>2, WaitsUpward
  <2> DEFINE rank == [u \in C |-> Rank(NextWrite(u))]
  <2>2. \A u \in C : rank[u] \in 1 .. 4
    BY <2>1 DEF Rank
  <2>3. \A u \in C : \E v \in C : rank[u] < rank[v]
    BY <2>1
  <2> HIDE DEF rank
  <2>4. \A u \in C : rank[u] # 4
    <3> TAKE u \in C
    <3>1. PICK v \in C : rank[u] < rank[v]
      BY <2>3
    <3> QED
      BY <2>2, <3>1
  <2>5. \A u \in C : rank[u] # 3
    <3> TAKE u \in C
    <3>1. PICK v \in C : rank[u] < rank[v]
      BY <2>3
    <3> QED
      BY <2>2, <2>4, <3>1
  <2>6. \A u \in C : rank[u] # 2
    <3> TAKE u \in C
    <3>1. PICK v \in C : rank[u] < rank[v]
      BY <2>3
    <3> QED
      BY <2>2, <2>4, <2>5, <3>1
  <2> QED
    BY <2>2, <2>3, <2>4, <2>5, <2>6
<1> QED
  BY <1>1, AuditTypeCorrect, InBoundsHolds, PTL

-----------------------------------------------------------------------------
(* Evaluations and settlements: whatever requests, timers and workers       *)
(* overlap, nothing is evaluated, run or settled twice.                     *)

EvalRows == FirstResults \cup EvalJobs
EvalStates(stored, settled) ==
  [at : {"new", "create", "batch", "createJob", "tick", "wait", "settle", "over"},
   kind : {"none", "create", "batch", "judge", "models", "settle"},
   job : EvalJobs \cup {NoJob}, todo : SUBSET stored,
   target : EvalRows \cup {NoJob}, type : EvaluatorTypes,
   card : SUBSET RateCards, reported : SUBSET settled]

(* A request that inserts has a result to name, and one that runs jobs a    *)
(* job; the jobs of a cross-model run are its models'.                      *)
KnowsWhat(s, stored) ==
  /\ s.at = "create" \/ s.kind = "judge" => s.target \in stored
  /\ s.at \in {"createJob", "tick", "wait"} => s.job \in EvalJobs
  /\ s.kind = "models" => \E n \in 1..ModelCount : s.job = ModelJob(n)

(* A job that has not been taken has cost nothing. *)
NotYetRun(j) ==
  IF evalJobs[j].state \in {"none", "pending"}
    THEN evalJobs[j].claims = 0 ELSE evalJobs[j].claims <= 1

EvaluationInv ==
  /\ EvaluationTypeOK
  /\ \A q \in EvalRequests : KnowsWhat(eval[q], results)
  /\ \A j \in EvalJobs : NotYetRun(j)
  /\ FirstResults \subseteq results
  /\ OneEvaluationPerType
  /\ SettledOnce

LEMMA EvalTypes ==
  ASSUME EvaluationTypeOK
  PROVE  /\ results \subseteq EvalRows
         /\ eval \in [EvalRequests -> EvalStates(results, settlements)]
BY DEF EvaluationTypeOK, EvalRows, EvalStates

LEMMA EvaluationInvInit == EvaluationInit => EvaluationInv
<1> SUFFICES ASSUME EvaluationInit PROVE EvaluationInv
  OBVIOUS
<1> USE DEF EvaluationInit
<1>1. EvaluationTypeOK
  BY EvaluationAssumption DEF EvaluationTypeOK, NotBegun, EvaluatorTypes
<1>2. \A q \in EvalRequests : eval[q] = NotBegun
  OBVIOUS
<1>3. \A q \in EvalRequests : KnowsWhat(eval[q], results)
  BY <1>2 DEF KnowsWhat, NotBegun
<1>4. \A j \in EvalJobs : NotYetRun(j)
  BY DEF NotYetRun
<1>5. OneEvaluationPerType
  BY DEF OneEvaluationPerType
<1>6. SettledOnce
  BY <1>2 DEF SettledOnce, NotBegun
<1> QED
  BY <1>1, <1>3, <1>4, <1>5, <1>6 DEF EvaluationInv

-----------------------------------------------------------------------------
(* A request that goes on, and touches nothing but itself and perhaps the   *)
(* results of a job that has ended.                                         *)
LEMMA RequestGoesOn ==
  ASSUME EvaluationInv, NEW q \in EvalRequests, NEW s,
         results \subseteq results', results' \subseteq EvalRows,
         UNCHANGED <<evaluations, settlements>>,
         s \in EvalStates(results', settlements), KnowsWhat(s, results'),
         s.reported \subseteq eval[q].reported,
         eval' = [eval EXCEPT ![q] = s],
         evalJobs' \in [EvalJobs -> [state : {"none", "pending", "running", "success", "failed"},
                                     by : EvalRequests \cup {Worker}, claims : Nat]],
         \A j \in EvalJobs : NotYetRun(j)'
  PROVE  EvaluationInv'
<1> USE DEF EvaluationInv
<1>1. eval \in [EvalRequests -> EvalStates(results, settlements)]
  BY EvalTypes
<1>2. eval'[q] = s /\ \A p \in EvalRequests \ {q} : eval'[p] = eval[p]
  BY <1>1
<1>3. \A p \in EvalRequests : eval'[p] \in EvalStates(results', settlements)
  <2>1. \A p \in EvalRequests : eval[p] \in EvalStates(results', settlements)
    BY <1>1 DEF EvalStates
  <2> QED
    BY <1>2, <2>1
<1>4. EvaluationTypeOK'
  <2>1. eval' \in [EvalRequests -> EvalStates(results', settlements)]
    BY <1>1, <1>3
  <2>2. /\ evaluations \subseteq [result : results', type : EvaluatorTypes,
                                  by : EvalRequests \cup {Worker}]
        /\ settlements \subseteq [result : results' \cap Metered, card : RateCards]
    BY DEF EvaluationTypeOK
  <2> QED
    BY <2>1, <2>2 DEF EvaluationTypeOK, EvalStates, EvalRows
<1>5. \A p \in EvalRequests : KnowsWhat(eval'[p], results')
  BY <1>2 DEF KnowsWhat
<1>6. OneEvaluationPerType'
  BY DEF OneEvaluationPerType
<1>7. SettledOnce'
  BY <1>2 DEF SettledOnce
<1> QED
  BY <1>4, <1>5, <1>6, <1>7

(* ... or touches only itself. *)
LEMMA OnlyTheRequest ==
  ASSUME EvaluationInv, NEW q \in EvalRequests, NEW s,
         UNCHANGED <<results, evaluations, settlements, evalJobs>>,
         s \in EvalStates(results, settlements), KnowsWhat(s, results),
         s.reported \subseteq eval[q].reported,
         eval' = [eval EXCEPT ![q] = s]
  PROVE  EvaluationInv'
<1>1. \A j \in EvalJobs : NotYetRun(j)'
  BY DEF EvaluationInv, NotYetRun
<1> QED
  BY <1>1, EvalTypes, RequestGoesOn DEF EvaluationInv, EvaluationTypeOK

LEMMA OverIsAState ==
  ASSUME EvaluationInv, NEW q \in EvalRequests
  PROVE  LET s == [eval[q] EXCEPT !.at = "over"]
         IN /\ s \in EvalStates(results, settlements) /\ KnowsWhat(s, results)
            /\ s.reported = eval[q].reported
            /\ \A stored : results \subseteq stored =>
                 s \in EvalStates(stored, settlements) /\ KnowsWhat(s, stored)
<1>1. eval[q] \in EvalStates(results, settlements) /\ KnowsWhat(eval[q], results)
  BY EvalTypes DEF EvaluationInv
<1> QED
  BY <1>1 DEF EvalStates, KnowsWhat

LEMMA BeginKeeps ==
  ASSUME EvaluationInv, NEW q \in EvalRequests, Begin(q)
  PROVE  EvaluationInv'
<1> USE DEF EvaluationInv
<1>1. results \subseteq EvalRows /\ FirstResults \subseteq results
  BY EvalTypes
<1>2. UNCHANGED <<results, evaluations, settlements, evalJobs>>
  BY DEF Begin
<1>3. ASSUME NEW s \in EvalStates(results, settlements), KnowsWhat(s, results),
             s.reported = {}, Becomes(q, s)
      PROVE  EvaluationInv'
  BY <1>2, <1>3, OnlyTheRequest DEF Becomes
<1>4. ASSUME NEW r \in results, NEW type \in EvaluatorTypes, BeginCreate(q, r, type)
      PROVE  EvaluationInv'
  <2> DEFINE s == [NotBegun EXCEPT !.at = "create", !.kind = "create", !.target = r, !.type = type]
  <2>1. s \in EvalStates(results, settlements)
    BY <1>1 DEF EvalStates, NotBegun, EvaluatorTypes
  <2>2. KnowsWhat(s, results) /\ s.reported = {}
    BY DEF KnowsWhat, NotBegun
  <2> QED
    BY <1>3, <1>4, <2>1, <2>2 DEF BeginCreate
<1>5. ASSUME NEW candidates \in SUBSET results, BeginBatch(q, candidates)
      PROVE  EvaluationInv'
  <2> DEFINE s == [NotBegun EXCEPT !.at = "batch", !.kind = "batch", !.todo = candidates]
  <2>1. s \in EvalStates(results, settlements)
    BY <1>1 DEF EvalStates, NotBegun, EvaluatorTypes
  <2>2. KnowsWhat(s, results) /\ s.reported = {}
    BY DEF KnowsWhat, NotBegun
  <2> QED
    BY <1>3, <1>5, <2>1, <2>2 DEF BeginBatch
<1>6. ASSUME NEW r \in results, BeginJudge(q, r)
      PROVE  EvaluationInv'
  <2> DEFINE s == [NotBegun EXCEPT !.at = "createJob", !.kind = "judge", !.job = JudgeJob(q),
                                   !.target = r, !.type = "llm"]
  <2>1. JudgeJob(q) \in EvalJobs
    BY DEF EvalJobs
  <2>2. s \in EvalStates(results, settlements)
    BY <1>1, <2>1 DEF EvalStates, NotBegun, EvaluatorTypes
  <2>3. KnowsWhat(s, results) /\ s.reported = {}
    BY <2>1 DEF KnowsWhat, NotBegun
  <2> QED
    BY <1>3, <1>6, <2>2, <2>3 DEF BeginJudge
<1>7. ASSUME BeginModels(q)
      PROVE  EvaluationInv'
  <2> DEFINE s == [NotBegun EXCEPT !.at = "createJob", !.kind = "models", !.job = ModelJob(1)]
  <2>1. 1 \in 1..ModelCount /\ ModelJob(1) \in EvalJobs
    BY <1>7, EvaluationAssumption DEF BeginModels, EvalJobs
  <2>2. s \in EvalStates(results, settlements)
    BY <1>1, <2>1 DEF EvalStates, NotBegun, EvaluatorTypes
  <2>3. KnowsWhat(s, results) /\ s.reported = {}
    BY <2>1 DEF KnowsWhat, NotBegun
  <2> QED
    BY <1>3, <1>7, <2>2, <2>3 DEF BeginModels
<1>8. ASSUME NEW j \in EvalJobs \cup {NoJob}, NEW card \in RateCards, BeginSettle(q, j, card)
      PROVE  EvaluationInv'
  <2> DEFINE named == {r \in ResultsOf(j) : \E e \in evaluations : e.result = r}
             s == [NotBegun EXCEPT !.at = "settle", !.kind = "settle", !.card = {card},
                                   !.todo = named]
  <2>1. named \subseteq results
    BY <1>1 DEF ResultsOf
  <2>2. s \in EvalStates(results, settlements)
    BY <1>1, <2>1 DEF EvalStates, NotBegun, EvaluatorTypes
  <2>3. KnowsWhat(s, results) /\ s.reported = {}
    BY DEF KnowsWhat, NotBegun
  <2> QED
    BY <1>3, <1>8, <2>2, <2>3 DEF BeginSettle
<1>9. \A j \in EvalJobs \cup {NoJob} : ResultsOf(j) \subseteq results
  BY <1>1 DEF ResultsOf
<1> QED
  BY <1>4, <1>5, <1>6, <1>7, <1>8, <1>9 DEF Begin

-----------------------------------------------------------------------------
(* A job changes hands only from where it is, and its claims with it. *)
JobStates == [state : {"none", "pending", "running", "success", "failed"},
              by : EvalRequests \cup {Worker}, claims : Nat]

LEMMA JobMoves ==
  ASSUME EvaluationInv, NEW j \in EvalJobs, NEW new \in JobStates,
         evalJobs' = [evalJobs EXCEPT ![j] = new],
         IF new.state \in {"none", "pending"} THEN new.claims = 0 ELSE new.claims <= 1
  PROVE  evalJobs' \in [EvalJobs -> JobStates] /\ \A k \in EvalJobs : NotYetRun(k)'
<1>1. evalJobs \in [EvalJobs -> JobStates]
  BY DEF EvaluationInv, EvaluationTypeOK, JobStates
<1>2. evalJobs' \in [EvalJobs -> JobStates]
  BY <1>1
<1>3. evalJobs'[j] = new /\ \A k \in EvalJobs \ {j} : evalJobs'[k] = evalJobs[k]
  BY <1>1
<1> QED
  BY <1>2, <1>3 DEF EvaluationInv, NotYetRun

LEMMA Claiming ==
  ASSUME EvaluationInv, NEW j \in EvalJobs, NEW by \in EvalRequests \cup {Worker},
         evalJobs[j].state = "pending", evalJobs' = Claimed(j, by)
  PROVE  evalJobs' \in [EvalJobs -> JobStates] /\ \A k \in EvalJobs : NotYetRun(k)'
<1> DEFINE new == [state |-> "running", by |-> by, claims |-> evalJobs[j].claims + 1]
<1>1. evalJobs[j] \in JobStates /\ evalJobs[j].claims = 0
  BY DEF EvaluationInv, EvaluationTypeOK, JobStates, NotYetRun
<1>2. new \in JobStates /\ new.claims <= 1
  BY <1>1 DEF JobStates
<1>3. evalJobs' = [evalJobs EXCEPT ![j] = new]
  BY DEF Claimed
<1> QED
  BY <1>2, <1>3, JobMoves

(* When only jobs and results change, the requests stay as they are. *)
LEMMA OnlyTheJobs ==
  ASSUME EvaluationInv, results \subseteq results', results' \subseteq EvalRows,
         UNCHANGED <<evaluations, settlements, eval>>,
         evalJobs' \in [EvalJobs -> JobStates], \A k \in EvalJobs : NotYetRun(k)'
  PROVE  EvaluationInv'
<1> USE DEF EvaluationInv
<1>1. eval \in [EvalRequests -> EvalStates(results', settlements)]
  BY EvalTypes DEF EvalStates
<1>2. EvaluationTypeOK'
  <2>1. /\ evaluations \subseteq [result : results', type : EvaluatorTypes,
                                  by : EvalRequests \cup {Worker}]
        /\ settlements \subseteq [result : results' \cap Metered, card : RateCards]
    BY DEF EvaluationTypeOK
  <2> QED
    BY <1>1, <2>1 DEF EvaluationTypeOK, EvalStates, EvalRows, JobStates
<1>3. \A p \in EvalRequests : KnowsWhat(eval'[p], results')
  BY DEF KnowsWhat
<1> QED
  BY <1>2, <1>3 DEF OneEvaluationPerType, SettledOnce

LEMMA CreateEvalJobKeeps ==
  ASSUME EvaluationInv, NEW q \in EvalRequests, CreateEvalJob(q)
  PROVE  EvaluationInv'
<1> DEFINE j == eval[q].job
           new == [evalJobs[j] EXCEPT !.state = "pending"]
           s == [eval[q] EXCEPT !.at = "tick"]
<1>1. eval[q] \in EvalStates(results, settlements) /\ KnowsWhat(eval[q], results)
  BY EvalTypes DEF EvaluationInv
<1>2. j \in EvalJobs /\ evalJobs[j] \in JobStates
  BY <1>1 DEF CreateEvalJob, KnowsWhat, EvaluationInv, EvaluationTypeOK, JobStates
<1>3. CASE evalJobs[j].state = "none"
  <2>1. evalJobs' = [evalJobs EXCEPT ![j] = new] /\ eval' = [eval EXCEPT ![q] = s]
    BY <1>3 DEF CreateEvalJob
  <2>2. new \in JobStates /\ new.state = "pending" /\ new.claims = 0
    BY <1>2, <1>3 DEF JobStates, EvaluationInv, NotYetRun
  <2>3. evalJobs' \in [EvalJobs -> JobStates] /\ \A k \in EvalJobs : NotYetRun(k)'
    BY <1>2, <2>1, <2>2, JobMoves
  <2>4. s \in EvalStates(results, settlements) /\ KnowsWhat(s, results)
        /\ s.reported = eval[q].reported
    BY <1>1, <1>2 DEF EvalStates, KnowsWhat
  <2> QED
    BY <2>1, <2>3, <2>4, RequestGoesOn, EvalTypes DEF CreateEvalJob, JobStates, EvaluationInv
<1>4. CASE evalJobs[j].state # "none"
  BY <1>4, OverIsAState, OnlyTheRequest DEF CreateEvalJob, Over
<1> QED
  BY <1>3, <1>4

LEMMA TickEvalJobKeeps ==
  ASSUME EvaluationInv, NEW q \in EvalRequests, TickEvalJob(q)
  PROVE  EvaluationInv'
<1> DEFINE j == eval[q].job
           s == [eval[q] EXCEPT !.at = "wait"]
<1>1. eval[q] \in EvalStates(results, settlements) /\ KnowsWhat(eval[q], results)
  BY EvalTypes DEF EvaluationInv
<1>2. j \in EvalJobs
  BY <1>1 DEF TickEvalJob, KnowsWhat
<1>3. CASE evalJobs[j].state = "pending"
  <2>1. evalJobs' = Claimed(j, q) /\ eval' = [eval EXCEPT ![q] = s]
    BY <1>3 DEF TickEvalJob
  <2>2. evalJobs' \in [EvalJobs -> JobStates] /\ \A k \in EvalJobs : NotYetRun(k)'
    BY <1>2, <1>3, <2>1, Claiming
  <2>3. s \in EvalStates(results, settlements) /\ KnowsWhat(s, results)
        /\ s.reported = eval[q].reported
    BY <1>1, <1>2 DEF EvalStates, KnowsWhat
  <2> QED
    BY <2>1, <2>2, <2>3, RequestGoesOn, EvalTypes DEF TickEvalJob, JobStates, EvaluationInv
<1>4. CASE evalJobs[j].state # "pending"
  BY <1>4, OverIsAState, OnlyTheRequest DEF TickEvalJob, Over
<1> QED
  BY <1>3, <1>4

LEMMA WorkerClaimsKeeps ==
  ASSUME EvaluationInv, NEW j \in EvalJobs, WorkerClaims(j)
  PROVE  EvaluationInv'
BY Claiming, OnlyTheJobs, EvalTypes DEF WorkerClaims, EvaluationInv

LEMMA RecoverEvalJobKeeps ==
  ASSUME EvaluationInv, NEW j \in EvalJobs, RecoverEvalJob(j)
  PROVE  EvaluationInv'
<1> DEFINE new == [evalJobs[j] EXCEPT !.state = "failed"]
<1>1. evalJobs[j] \in JobStates /\ evalJobs[j].claims <= 1
  BY DEF EvaluationInv, EvaluationTypeOK, JobStates, NotYetRun, RecoverEvalJob
<1>2. new \in JobStates /\ new.state = "failed" /\ new.claims <= 1
  BY <1>1 DEF JobStates
<1>3. evalJobs' = [evalJobs EXCEPT ![j] = new]
  BY DEF RecoverEvalJob
<1> QED
  BY <1>2, <1>3, JobMoves, OnlyTheJobs, EvalTypes DEF RecoverEvalJob, EvaluationInv

LEMMA FinishEvalJobKeeps ==
  ASSUME EvaluationInv, NEW j \in EvalJobs, FinishEvalJob(j)
  PROVE  EvaluationInv'
<1> DEFINE q == evalJobs[j].by
<1>1. PICK status \in {"success", "failed"} :
        /\ evalJobs' = [evalJobs EXCEPT ![j].state = status]
        /\ results' = results \cup {j}
        /\ \/ q = Worker /\ UNCHANGED eval
           \/ /\ q # Worker /\ eval[q].at = "wait"
              /\ \/ /\ eval[q].kind = "models"
                    /\ eval' = [eval EXCEPT ![q].at = "create", ![q].target = j]
                 \/ /\ eval[q].kind = "judge" /\ status = "success"
                    /\ eval' = [eval EXCEPT ![q].at = "create"]
                 \/ eval[q].kind = "judge" /\ Over(q)
  BY DEF FinishEvalJob
<1>2. UNCHANGED <<evaluations, settlements>>
  BY DEF FinishEvalJob
<1> DEFINE new == [evalJobs[j] EXCEPT !.state = status]
<1>3. evalJobs[j] \in JobStates /\ evalJobs[j].claims <= 1
  BY DEF EvaluationInv, EvaluationTypeOK, JobStates, NotYetRun, FinishEvalJob
<1>4. new \in JobStates /\ new.state = status /\ new.claims <= 1
  BY <1>3 DEF JobStates
<1>5. evalJobs' \in [EvalJobs -> JobStates] /\ \A k \in EvalJobs : NotYetRun(k)'
  <2>1. evalJobs' = [evalJobs EXCEPT ![j] = new]
    BY <1>1
  <2> QED
    BY <1>4, <2>1, JobMoves
<1>6. results \subseteq results' /\ results' \subseteq EvalRows
  BY <1>1, EvalTypes DEF EvaluationInv, EvalRows
<1>7. CASE q = Worker
  <2>1. UNCHANGED eval
    BY <1>1, <1>7
  <2> QED
    BY <1>2, <1>5, <1>6, <2>1, OnlyTheJobs
<1>8. CASE q # Worker
  <2>1. q \in EvalRequests
    BY <1>3, <1>8 DEF JobStates
  <2>2. eval[q] \in EvalStates(results', settlements) /\ KnowsWhat(eval[q], results)
    BY <1>6, <2>1, EvalTypes DEF EvaluationInv, EvalStates
  <2> HIDE DEF q
  <2>3. ASSUME NEW s \in EvalStates(results', settlements), KnowsWhat(s, results'),
               s.reported = eval[q].reported, eval' = [eval EXCEPT ![q] = s]
        PROVE  EvaluationInv'
    BY <1>2, <1>5, <1>6, <2>1, <2>3, RequestGoesOn DEF JobStates
  <2>4. CASE eval[q].kind = "models" /\ eval' = [eval EXCEPT ![q].at = "create", ![q].target = j]
    <3> DEFINE s == [eval[q] EXCEPT !.at = "create", !.target = j]
    <3>1. s \in EvalStates(results', settlements) /\ s.reported = eval[q].reported
      BY <2>2 DEF EvalStates, EvalRows
    <3>2. KnowsWhat(s, results')
      BY <1>1, <2>2, <2>4 DEF KnowsWhat, EvalStates
    <3>3. eval' = [eval EXCEPT ![q] = s]
      BY <2>4
    <3> QED
      BY <2>3, <3>1, <3>2, <3>3
  <2>5. CASE eval[q].kind = "judge" /\ eval' = [eval EXCEPT ![q].at = "create"]
    <3> DEFINE s == [eval[q] EXCEPT !.at = "create"]
    <3>1. s \in EvalStates(results', settlements) /\ s.reported = eval[q].reported
      BY <2>2 DEF EvalStates
    <3>2. KnowsWhat(s, results')
      BY <1>6, <2>2, <2>5 DEF KnowsWhat, EvalStates
    <3>3. eval' = [eval EXCEPT ![q] = s]
      BY <2>5
    <3> QED
      BY <2>3, <3>1, <3>2, <3>3
  <2>6. CASE Over(q)
    <3> DEFINE s == [eval[q] EXCEPT !.at = "over"]
    <3>1. /\ s \in EvalStates(results', settlements) /\ KnowsWhat(s, results')
          /\ s.reported = eval[q].reported
      BY <1>6, <2>1, OverIsAState
    <3>2. eval' = [eval EXCEPT ![q] = s]
      BY <2>6 DEF Over
    <3> QED
      BY <2>3, <3>1, <3>2
  <2> QED
    BY <1>1, <1>8, <2>4, <2>5, <2>6 DEF q
<1> QED
  BY <1>7, <1>8

LEMMA CheckCandidateKeeps ==
  ASSUME EvaluationInv, NEW q \in EvalRequests, NEW r, CheckCandidate(q, r)
  PROVE  EvaluationInv'
<1> DEFINE at == IF Evaluated(r, "rule") THEN "batch" ELSE "create"
           s == [eval[q] EXCEPT !.todo = @ \ {r}, !.at = at, !.target = r]
<1>1. eval[q] \in EvalStates(results, settlements) /\ KnowsWhat(eval[q], results)
  BY EvalTypes DEF EvaluationInv
<1>2. r \in results /\ r \in EvalRows
  BY <1>1, EvalTypes DEF CheckCandidate, EvalStates, EvaluationInv
<1>3. at \in {"batch", "create"}
  OBVIOUS
<1>4. eval' = [eval EXCEPT ![q] = s]
  BY <1>1 DEF CheckCandidate, EvalStates
<1> HIDE DEF at
<1>5. s \in EvalStates(results, settlements) /\ s.reported = eval[q].reported
  BY <1>1, <1>2, <1>3 DEF EvalStates
<1>6. KnowsWhat(s, results)
  BY <1>1, <1>2, <1>3 DEF KnowsWhat, EvalStates
<1> QED
  BY <1>4, <1>5, <1>6, OnlyTheRequest DEF CheckCandidate

(* What follows an evaluation is a state a request can be in: the model     *)
(* after the last one does not exist, and the run ends there.               *)
LEMMA AfterCreateIsAState ==
  ASSUME EvaluationInv, NEW q \in EvalRequests
  PROVE  LET s == AfterCreate(eval[q])
         IN /\ s \in EvalStates(results, settlements) /\ KnowsWhat(s, results)
            /\ s.reported = eval[q].reported
<1>1. eval[q] \in EvalStates(results, settlements) /\ KnowsWhat(eval[q], results)
  BY EvalTypes DEF EvaluationInv
<1>2. CASE eval[q].kind = "batch"
  <2>1. AfterCreate(eval[q]) = [eval[q] EXCEPT !.at = "batch"]
    BY <1>2 DEF AfterCreate
  <2> QED
    BY <1>1, <1>2, <2>1 DEF EvalStates, KnowsWhat
<1>3. CASE eval[q].kind = "models" /\ eval[q].job # ModelJob(ModelCount)
  <2> DEFINE next == eval[q].job[2] + 1
             s == [eval[q] EXCEPT !.at = "createJob", !.job = ModelJob(next)]
  <2>1. AfterCreate(eval[q]) = s
    BY <1>3 DEF AfterCreate
  <2>2. PICK n \in 1..ModelCount : eval[q].job = ModelJob(n)
    BY <1>1, <1>3 DEF KnowsWhat
  <2>3. n # ModelCount /\ next = n + 1
    BY <1>3, <2>2 DEF ModelJob
  <2>4. next \in 1..ModelCount
    BY <2>3, EvaluationAssumption
  <2> HIDE DEF next
  <2>5. ModelJob(next) \in EvalJobs
    BY <2>4 DEF EvalJobs
  <2>6. s \in EvalStates(results, settlements) /\ s.reported = eval[q].reported
    BY <1>1, <2>5 DEF EvalStates
  <2>7. KnowsWhat(s, results)
    BY <1>1, <1>3, <2>4, <2>5 DEF KnowsWhat, EvalStates
  <2> QED
    BY <2>1, <2>6, <2>7
<1>4. CASE /\ eval[q].kind # "batch"
           /\ ~ (eval[q].kind = "models" /\ eval[q].job # ModelJob(ModelCount))
  <2>1. AfterCreate(eval[q]) = [eval[q] EXCEPT !.at = "over"]
    BY <1>4 DEF AfterCreate
  <2> QED
    BY <2>1, OverIsAState
<1> QED
  BY <1>2, <1>3, <1>4

LEMMA CreateEvaluationKeeps ==
  ASSUME EvaluationInv, NEW q \in EvalRequests, CreateEvaluation(q)
  PROVE  EvaluationInv'
<1> DEFINE r == eval[q].target
           type == eval[q].type
           new == NewEvaluation(r, type, q)
           s == AfterCreate(eval[q])
<1>1. eval \in [EvalRequests -> EvalStates(results, settlements)]
  BY EvalTypes DEF EvaluationInv
<1>2. r \in results /\ type \in EvaluatorTypes
  BY <1>1 DEF CreateEvaluation, EvalStates, EvaluationInv, KnowsWhat
<1>3. CASE Evaluated(r, type)
  BY <1>3, OverIsAState, OnlyTheRequest DEF CreateEvaluation, Over
<1>4. CASE ~ Evaluated(r, type)
  <2>1. /\ evaluations' = evaluations \cup {new}
        /\ eval' = [eval EXCEPT ![q] = s]
        /\ UNCHANGED <<results, settlements, evalJobs>>
    BY <1>4 DEF CreateEvaluation, Becomes
  <2>2. s \in EvalStates(results, settlements) /\ KnowsWhat(s, results)
        /\ s.reported = eval[q].reported
    BY AfterCreateIsAState
  <2> HIDE DEF s
  <2>3. eval'[q] = s /\ \A p \in EvalRequests \ {q} : eval'[p] = eval[p]
    BY <1>1, <2>1
  <2>4. eval' \in [EvalRequests -> EvalStates(results, settlements)]
    BY <1>1, <2>1, <2>2
  <2>5. new.result = r /\ new.type = type
        /\ new \in [result : results, type : EvaluatorTypes, by : EvalRequests \cup {Worker}]
    BY <1>2 DEF NewEvaluation
  <2>6. \A e \in evaluations : ~ (e.result = r /\ e.type = type)
    BY <1>4 DEF Evaluated
  <2> HIDE DEF r, type, new
  <2>7. EvaluationTypeOK'
    <3>1. evaluations' \subseteq [result : results', type : EvaluatorTypes,
                                  by : EvalRequests \cup {Worker}]
      BY <2>1, <2>5 DEF EvaluationInv, EvaluationTypeOK
    <3> QED
      BY <2>1, <2>4, <3>1 DEF EvaluationInv, EvaluationTypeOK, EvalStates, EvalRows
  <2>8. OneEvaluationPerType'
    BY <2>1, <2>5, <2>6 DEF EvaluationInv, OneEvaluationPerType
  <2>9. SettledOnce'
    BY <2>1, <2>2, <2>3 DEF EvaluationInv, SettledOnce
  <2>10. \A p \in EvalRequests : KnowsWhat(eval'[p], results')
    BY <2>1, <2>2, <2>3 DEF EvaluationInv
  <2> QED
    BY <2>1, <2>7, <2>8, <2>9, <2>10 DEF EvaluationInv, NotYetRun
<1> QED
  BY <1>3, <1>4

LEMMA SettleKeeps ==
  ASSUME EvaluationInv, NEW q \in EvalRequests, NEW r, Settle(q, r)
  PROVE  EvaluationInv'
<1>1. eval \in [EvalRequests -> EvalStates(results, settlements)] /\ KnowsWhat(eval[q], results)
  BY EvalTypes DEF EvaluationInv
<1>2. PICK card \in eval[q].card :
        LET new == IF Settled(r, card) THEN {} ELSE Costs(r, card)
        IN /\ settlements' = settlements \cup new
           /\ eval' = [eval EXCEPT ![q].todo = @ \ {r}, ![q].reported = @ \cup new]
  BY DEF Settle
<1> DEFINE new == IF Settled(r, card) THEN {} ELSE Costs(r, card)
           s == [eval[q] EXCEPT !.todo = @ \ {r}, !.reported = @ \cup new]
<1>3. /\ eval[q].at = "settle" /\ r \in results /\ card \in RateCards
      /\ UNCHANGED <<results, evaluations, evalJobs>>
  BY <1>1 DEF Settle, EvalStates
<1>4. new \subseteq [result : results \cap Metered, card : RateCards]
  BY <1>3 DEF Costs
<1>5. \A n \in new : /\ n.result = r /\ n.card = card
                     /\ \A t \in settlements :
                          ~ (t.result = r /\ t.card.version = card.version)
  BY DEF Costs, Settled
<1>6. settlements' = settlements \cup new
  BY <1>2
<1>7. \A n, m \in new : n = m
  BY DEF Costs
<1>8. eval' = [eval EXCEPT ![q] = s]
  BY <1>1, <1>2 DEF EvalStates
<1> HIDE DEF new
<1>9. /\ s \in EvalStates(results, settlements') /\ KnowsWhat(s, results)
      /\ s.reported = eval[q].reported \cup new
  BY <1>1, <1>6 DEF EvalStates, KnowsWhat
<1> HIDE DEF s
<1>10. eval'[q] = s /\ \A p \in EvalRequests \ {q} : eval'[p] = eval[p]
  BY <1>1, <1>8
<1>11. EvaluationTypeOK'
  <2>1. \A p \in EvalRequests : eval[p] \in EvalStates(results, settlements')
    BY <1>1, <1>6 DEF EvalStates
  <2>2. eval' \in [EvalRequests -> EvalStates(results, settlements')]
    BY <1>8, <1>9, <2>1, <1>1
  <2>3. settlements' \subseteq [result : results' \cap Metered, card : RateCards]
    BY <1>3, <1>4, <1>6 DEF EvaluationInv, EvaluationTypeOK
  <2> QED
    BY <1>3, <2>2, <2>3 DEF EvaluationInv, EvaluationTypeOK, EvalStates, EvalRows
<1>12. SettledOnce'
  <2>1. \A n \in new : n \notin settlements
    BY <1>5
  <2>2. \A p \in EvalRequests : eval[p].reported \subseteq settlements
    BY <1>1 DEF EvalStates
  <2>3. \A p, o \in EvalRequests : p # o => eval'[p].reported \cap eval'[o].reported = {}
    BY <1>9, <1>10, <2>1, <2>2 DEF EvaluationInv, SettledOnce
  <2>4. \A t, u \in settlements' :
          t.result = u.result /\ t.card.version = u.card.version => t = u
    BY <1>5, <1>6, <1>7 DEF EvaluationInv, SettledOnce
  <2> QED
    BY <2>3, <2>4 DEF SettledOnce
<1>13. \A p \in EvalRequests : KnowsWhat(eval'[p], results')
  BY <1>3, <1>9, <1>10 DEF EvaluationInv
<1>14. OneEvaluationPerType' /\ FirstResults \subseteq results' /\ \A j \in EvalJobs : NotYetRun(j)'
  BY <1>3 DEF EvaluationInv, OneEvaluationPerType, NotYetRun
<1> QED
  BY <1>11, <1>12, <1>13, <1>14 DEF EvaluationInv

LEMMA EndRequestKeeps ==
  ASSUME EvaluationInv, NEW q \in EvalRequests, EndRequest(q)
  PROVE  EvaluationInv'
BY OverIsAState, OnlyTheRequest DEF EndRequest, Over

LEMMA EvaluationInvStep == EvaluationInv /\ [EvaluationNext]_evaluationVars => EvaluationInv'
<1> SUFFICES ASSUME EvaluationInv, [EvaluationNext]_evaluationVars PROVE EvaluationInv'
  OBVIOUS
<1>1. CASE UNCHANGED evaluationVars
  BY <1>1 DEF evaluationVars, EvaluationInv, EvaluationTypeOK, KnowsWhat, NotYetRun,
              OneEvaluationPerType, SettledOnce
<1>2. ASSUME NEW q \in EvalRequests,
             \/ Begin(q) \/ CreateEvalJob(q) \/ TickEvalJob(q)
             \/ CreateEvaluation(q) \/ EndRequest(q)
      PROVE  EvaluationInv'
  BY <1>2, BeginKeeps, CreateEvalJobKeeps, TickEvalJobKeeps, CreateEvaluationKeeps, EndRequestKeeps
<1>3. ASSUME NEW q \in EvalRequests, NEW r \in eval[q].todo,
             CheckCandidate(q, r) \/ Settle(q, r)
      PROVE  EvaluationInv'
  BY <1>3, CheckCandidateKeeps, SettleKeeps
<1>4. ASSUME NEW j \in EvalJobs, WorkerClaims(j) \/ FinishEvalJob(j) \/ RecoverEvalJob(j)
      PROVE  EvaluationInv'
  BY <1>4, WorkerClaimsKeeps, FinishEvalJobKeeps, RecoverEvalJobKeeps
<1> QED
  BY <1>1, <1>2, <1>3, <1>4 DEF EvaluationNext

LEMMA EvaluationInvariant == EvaluationSpec => []EvaluationInv
BY EvaluationInvInit, EvaluationInvStep, PTL DEF EvaluationSpec

(* The values of the tables and of the requests in flight, and that a       *)
(* request refers to results and jobs that are there.                       *)
THEOREM EvaluationTypeCorrect == EvaluationSpec => []EvaluationTypeOK
<1>1. EvaluationInv => EvaluationTypeOK
  BY DEF EvaluationInv
<1> QED
  BY <1>1, EvaluationInvariant, PTL

(* Whatever batches, judges and people overlap, a result is evaluated once  *)
(* by a type of evaluator.                                                  *)
THEOREM OneEvaluationPerTypeHolds == EvaluationSpec => []OneEvaluationPerType
<1>1. EvaluationInv => OneEvaluationPerType
  BY DEF EvaluationInv
<1> QED
  BY <1>1, EvaluationInvariant, PTL

(* A judge's or a model's job is run once, by its request or the worker.    *)
THEOREM JobsRunOnceHolds == EvaluationSpec => []JobsRunOnce
<1>1. EvaluationInv => JobsRunOnce
  BY DEF EvaluationInv, EvaluationTypeOK, NotYetRun, JobsRunOnce
<1> QED
  BY <1>1, EvaluationInvariant, PTL

(* The ledger has one row for a result and a version, and no two runs       *)
(* report the same row.                                                     *)
THEOREM SettledOnceHolds == EvaluationSpec => []SettledOnce
<1>1. EvaluationInv => SettledOnce
  BY DEF EvaluationInv
<1> QED
  BY <1>1, EvaluationInvariant, PTL

-----------------------------------------------------------------------------
(* The quota of a provider, for every limit and every price of a request.   *)

USE QuotaAssumption DEF QuotaAssumption

(* A call that is not idle is for a day; one that holds the row has read it. *)
LEMMA CallShape ==
  ASSUME QuotaTypeOK, NEW c \in Callers
  PROVE  /\ call[c].at \in {"idle", "asking", "locked", "allowed"}
         /\ call[c].at # "idle" => call[c].window \in Days
         /\ call[c].at = "locked" => call[c].seen \in Usage
         /\ call[c].at = "allowed" => call[c] = [at |-> "allowed", window |-> call[c].window]
<1> DEFINE asking == [at : {"asking", "allowed"}, window : Days]
           locked == [at : {"locked"}, window : Days, seen : Usage]
<1>1. call[c] = NoCall \/ call[c] \in asking \/ call[c] \in locked
  BY DEF QuotaTypeOK
<1>2. CASE call[c] = NoCall
  BY <1>2 DEF NoCall
<1>3. CASE call[c] \in asking
  BY <1>3
<1>4. CASE call[c] \in locked
  BY <1>4
<1> QED
  BY <1>1, <1>2, <1>3, <1>4

(* The ledger and the calls keep their shape. *)
THEOREM QuotaTypeCorrect == QuotaSpec => []QuotaTypeOK
<1> USE DEF QuotaTypeOK
<1>1. ASSUME QuotaInit
      PROVE  QuotaTypeOK
  <2>1. [requests |-> 0, cost |-> 0] \in Usage
    BY DEF Usage
  <2>2. 1 \in Days
    BY DEF Days
  <2> QED
    BY <1>1, <2>1, <2>2 DEF QuotaInit
<1>2. QuotaTypeOK /\ [QuotaNext]_quotaVars => QuotaTypeOK'
  <2> SUFFICES ASSUME QuotaTypeOK, [QuotaNext]_quotaVars
               PROVE  QuotaTypeOK'
    OBVIOUS
  <2>1. CASE NextDay
    BY <2>1 DEF NextDay, Days
  <2>2. ASSUME NEW c \in Callers, AskQuota(c)
        PROVE  QuotaTypeOK'
    BY <2>2 DEF AskQuota
  <2>3. ASSUME NEW c \in Callers, LockLedger(c)
        PROVE  QuotaTypeOK'
    <3>1. call[c].window \in Days
      BY <2>3, CallShape DEF LockLedger
    <3> QED
      BY <2>3, <3>1 DEF LockLedger
  <2>4. ASSUME NEW c \in Callers, Consume(c)
        PROVE  QuotaTypeOK'
    <3>1. call[c].window \in Days /\ call[c].seen \in Usage
      BY <2>4, CallShape DEF Consume
    <3>2. Charged(call[c].seen) \in Usage
      BY <3>1 DEF Charged, Usage
    <3> QED
      BY <2>4, <3>1, <3>2 DEF Consume
  <2>5. ASSUME NEW c \in Callers, LeaveLedger(c)
        PROVE  QuotaTypeOK'
    <3>1. call[c].window \in Days
      BY <2>5, CallShape DEF LeaveLedger
    <3> QED
      BY <2>5, <3>1 DEF LeaveLedger
  <2>6. ASSUME NEW c \in Callers, SendRequest(c)
        PROVE  QuotaTypeOK'
    <3>1. call[c].window \in Days
      BY <2>6, CallShape DEF SendRequest
    <3>2. sends[call[c].window] \in Nat
      BY <3>1
    <3> QED
      BY <2>6, <3>1, <3>2 DEF SendRequest
  <2>7. ASSUME NEW c \in Callers, DropRequest(c)
        PROVE  QuotaTypeOK'
    BY <2>7 DEF DropRequest
  <2>8. CASE UNCHANGED quotaVars
    BY <2>8 DEF quotaVars
  <2> QED
    BY <2>1, <2>2, <2>3, <2>4, <2>5, <2>6, <2>7, <2>8 DEF QuotaNext
<1> QED
  BY <1>1, <1>2, PTL DEF QuotaSpec

-----------------------------------------------------------------------------
(* Whoever has the row has read what is in it, so nothing is charged on an *)
(* old reading; and what is charged covers what was sent and what may      *)
(* still be.                                                               *)
Due(w) == {c \in Callers : call[c].at = "allowed" /\ call[c].window = w}

Covered(w) == sends[w] + Cardinality(Due(w)) <= ledger[w].requests

Within(w) ==
  /\ ledger[w].cost = ledger[w].requests * CostPerRequest
  /\ RequestLimit # Unlimited => ledger[w].requests <= RequestLimit
  /\ CostLimit # Unlimited => ledger[w].cost <= CostLimit

Holding(c) ==
  call[c].at = "locked" =>
    rowLock[call[c].window] = {c} /\ call[c].seen = ledger[call[c].window]

QuotaInv ==
  /\ QuotaTypeOK
  /\ \A w \in Days : Covered(w) /\ Within(w)
  /\ \A c \in Callers : Holding(c)

LEMMA Product ==
  ASSUME NEW a \in Nat, NEW b \in Nat, NEW k \in Nat, a <= b
  PROVE  a * k <= b * k
OBVIOUS

LEMMA ProductNext ==
  ASSUME NEW a \in Nat, NEW k \in Nat
  PROVE  (a + 1) * k = a * k + k
OBVIOUS

LEMMA DueIsFinite ==
  ASSUME NEW w
  PROVE  IsFiniteSet(Due(w)) /\ Cardinality(Due(w)) \in Nat
<1>1. Due(w) \subseteq Callers
  BY DEF Due
<1> QED
  BY <1>1, FS_Subset, FS_CardinalityType

LEMMA QuotaInvInit == QuotaInit => QuotaInv
<1> SUFFICES ASSUME QuotaInit
             PROVE  QuotaInv
  OBVIOUS
<1> USE DEF QuotaInit
<1>1. QuotaTypeOK
  <2>1. [requests |-> 0, cost |-> 0] \in Usage /\ 1 \in Days
    BY DEF Usage, Days
  <2> QED
    BY <2>1 DEF QuotaTypeOK
<1>2. \A c \in Callers : call[c].at = "idle"
  BY DEF NoCall
<1>3. ASSUME NEW w \in Days
      PROVE  Covered(w) /\ Within(w)
  <2>1. Due(w) = {}
    BY <1>2 DEF Due
  <2>2. Cardinality(Due(w)) = 0
    BY <2>1, FS_EmptySet
  <2>3. sends[w] = 0 /\ ledger[w].requests = 0 /\ ledger[w].cost = 0
    OBVIOUS
  <2> QED
    BY <2>2, <2>3 DEF Covered, Within
<1> QED
  BY <1>1, <1>2, <1>3 DEF QuotaInv, Holding

(* A step of a call that is neither allowed before nor after it leaves     *)
(* what is due alone.                                                      *)
LEMMA SameDue ==
  ASSUME QuotaTypeOK, NEW c \in Callers, NEW state,
         call' = [call EXCEPT ![c] = state], call[c].at # "allowed", state.at # "allowed"
  PROVE  \A w \in Days : Due(w)' = Due(w)
<1>1. call'[c] = state /\ \A d \in Callers \ {c} : call'[d] = call[d]
  BY DEF QuotaTypeOK
<1> QED
  BY <1>1 DEF Due

(* A call that is no longer allowed is no longer due. *)
LEMMA LessDue ==
  ASSUME QuotaTypeOK, NEW c \in Callers, call[c].at = "allowed",
         call' = [call EXCEPT ![c] = NoCall]
  PROVE  \A w \in Days :
           /\ Due(w)' = Due(w) \ {c}
           /\ Cardinality(Due(w)') = IF w = call[c].window THEN Cardinality(Due(w)) - 1
                                     ELSE Cardinality(Due(w))
<1>1. call'[c].at = "idle" /\ \A d \in Callers \ {c} : call'[d] = call[d]
  BY DEF QuotaTypeOK, NoCall
<1> TAKE w \in Days
<1>2. Due(w)' = Due(w) \ {c}
  BY <1>1 DEF Due
<1>3. c \in Due(w) <=> w = call[c].window
  BY DEF Due
<1> QED
  BY <1>2, <1>3, DueIsFinite, FS_RemoveElement

LEMMA QuotaInvStep == QuotaInv /\ QuotaTypeOK' /\ [QuotaNext]_quotaVars => QuotaInv'
<1> SUFFICES ASSUME QuotaInv, QuotaTypeOK', [QuotaNext]_quotaVars
             PROVE  QuotaInv'
  OBVIOUS
<1> USE DEF QuotaInv
<1>1. CASE NextDay \/ UNCHANGED quotaVars
  <2>1. UNCHANGED <<ledger, rowLock, call, sends>>
    BY <1>1 DEF NextDay, quotaVars
  <2>2. \A w \in Days : Covered(w)' /\ Within(w)'
    BY <2>1 DEF Covered, Due, Within
  <2>3. \A c \in Callers : Holding(c)'
    BY <2>1 DEF Holding
  <2> QED
    BY <2>2, <2>3
<1>2. ASSUME NEW c \in Callers, AskQuota(c)
      PROVE  QuotaInv'
  <2> DEFINE state == [at |-> "asking", window |-> day]
  <2>1. call' = [call EXCEPT ![c] = state] /\ call[c].at = "idle"
    BY <1>2 DEF AskQuota
  <2>2. UNCHANGED <<ledger, rowLock, sends>>
    BY <1>2 DEF AskQuota
  <2>3. \A w \in Days : Due(w)' = Due(w)
    <3>1. state.at # "allowed" /\ call[c].at # "allowed"
      BY <2>1
    <3> HIDE DEF state
    <3> QED
      BY <2>1, <3>1, SameDue
  <2>4. \A w \in Days : Covered(w)' /\ Within(w)'
    BY <2>2, <2>3 DEF Covered, Within
  <2>5. ASSUME NEW d \in Callers
        PROVE  Holding(d)'
    BY <2>1, <2>2 DEF Holding, QuotaTypeOK
  <2> QED
    BY <2>4, <2>5
<1>3. ASSUME NEW c \in Callers, LockLedger(c)
      PROVE  QuotaInv'
  <2> DEFINE w == call[c].window
             state == [at |-> "locked", window |-> w, seen |-> ledger[w]]
  <2>1. /\ call' = [call EXCEPT ![c] = state] /\ call[c].at = "asking"
        /\ rowLock[w] = {} /\ rowLock' = [rowLock EXCEPT ![w] = {c}]
    BY <1>3 DEF LockLedger
  <2>2. UNCHANGED <<ledger, sends>>
    BY <1>3 DEF LockLedger
  <2>3. \A v \in Days : Due(v)' = Due(v)
    <3>1. state.at # "allowed" /\ call[c].at # "allowed"
      BY <2>1
    <3> HIDE DEF state
    <3> QED
      BY <2>1, <3>1, SameDue
  <2>4. \A v \in Days : Covered(v)' /\ Within(v)'
    BY <2>2, <2>3 DEF Covered, Within
  <2>5. w \in Days
    BY <2>1, CallShape
  <2>6. ASSUME NEW d \in Callers
        PROVE  Holding(d)'
    <3>1. CASE d = c
      BY <2>1, <2>2, <2>5, <3>1 DEF Holding, QuotaTypeOK
    <3>2. CASE d # c
      <4>1. call'[d] = call[d]
        BY <2>1, <3>2 DEF QuotaTypeOK
      <4>2. call[d].at = "locked" => call[d].window \in Days /\ call[d].window # w
        BY <2>1, CallShape DEF Holding
      <4>3. \A v \in Days : v # w => rowLock'[v] = rowLock[v]
        BY <2>1 DEF QuotaTypeOK
      <4> HIDE DEF w
      <4> QED
        BY <2>2, <4>1, <4>2, <4>3 DEF Holding
    <3> QED
      BY <3>1, <3>2
  <2> QED
    BY <2>4, <2>6
<1>4. ASSUME NEW c \in Callers, Consume(c)
      PROVE  QuotaInv'
  <2>0. PICK w \in Days : w = call[c].window
    BY <1>4, CallShape DEF Consume
  <2> DEFINE state == [at |-> "allowed", window |-> w]
  <2>1. /\ call' = [call EXCEPT ![c] = state] /\ call[c].at = "locked"
        /\ rowLock' = [rowLock EXCEPT ![w] = @ \ {c}]
        /\ ledger' = [ledger EXCEPT ![w] = Charged(call[c].seen)]
        /\ sends' = sends /\ ~ Blocked(call[c].seen)
    BY <1>4, <2>0 DEF Consume
  <2>3. rowLock[w] = {c} /\ call[c].seen = ledger[w]
    BY <2>0, <2>1 DEF Holding
  <2>4. call'[c] = state /\ \A d \in Callers \ {c} : call'[d] = call[d]
    BY <2>1 DEF QuotaTypeOK
  <2>5. /\ ledger'[w] = Charged(ledger[w])
        /\ \A v \in Days \ {w} : ledger'[v] = ledger[v]
    BY <2>1, <2>3 DEF QuotaTypeOK
  <2>6. \A v \in Days \ {w} : Due(v)' = Due(v)
    BY <2>1, <2>4 DEF Due
  <2>7. Due(w)' = Due(w) \cup {c} /\ c \notin Due(w)
    BY <2>1, <2>4 DEF Due
  <2>8. Cardinality(Due(w)') = Cardinality(Due(w)) + 1
    BY <2>7, DueIsFinite, FS_AddElement
  <2>9. /\ ledger[w].requests \in Nat /\ ledger[w].cost \in Nat
        /\ ledger'[w].requests = ledger[w].requests + 1
        /\ ledger'[w].cost = ledger[w].cost + CostPerRequest
    BY <2>5 DEF QuotaTypeOK, Usage, Charged
  <2>10. Covered(w)'
    <3>1. sends[w] \in Nat /\ Cardinality(Due(w)) \in Nat
      BY DueIsFinite DEF QuotaTypeOK
    <3>2. sends[w] + Cardinality(Due(w)) <= ledger[w].requests
      BY DEF Covered
    <3>3. sends'[w] + Cardinality(Due(w)') <= ledger'[w].requests
      BY <2>1, <2>8, <2>9, <3>1, <3>2
    <3> QED
      BY <3>3 DEF Covered
  <2>11. Within(w)'
    <3>1. /\ RequestLimit # Unlimited => ledger[w].requests < RequestLimit
          /\ CostLimit # Unlimited => ledger[w].cost + CostPerRequest <= CostLimit
      BY <2>1, <2>3, <2>9 DEF Blocked
    <3>2. ledger'[w].cost = ledger'[w].requests * CostPerRequest
      BY <2>9, ProductNext DEF Within
    <3>3. RequestLimit # Unlimited => ledger'[w].requests <= RequestLimit
      BY <2>9, <3>1
    <3>4. CostLimit # Unlimited => ledger'[w].cost <= CostLimit
      BY <2>9, <3>1
    <3> QED
      BY <3>2, <3>3, <3>4 DEF Within
  <2>12. \A v \in Days \ {w} : Covered(v)' /\ Within(v)'
    BY <2>1, <2>5, <2>6 DEF Covered, Within
  <2>13. ASSUME NEW d \in Callers
         PROVE  Holding(d)'
    <3>1. CASE d = c
      BY <2>4, <3>1 DEF Holding
    <3>2. CASE d # c
      <4>1. call'[d] = call[d]
        BY <2>4, <3>2
      <4>2. call[d].at = "locked" => call[d].window \in Days /\ call[d].window # w
        BY <2>0, <2>3, <3>2, CallShape DEF Holding
      <4>3. \A v \in Days : v # w => rowLock'[v] = rowLock[v]
        BY <2>1 DEF QuotaTypeOK
      <4> QED
        BY <2>5, <4>1, <4>2, <4>3 DEF Holding
    <3> QED
      BY <3>1, <3>2
  <2> QED
    BY <2>10, <2>11, <2>12, <2>13
<1>5. ASSUME NEW c \in Callers, LeaveLedger(c)
      PROVE  QuotaInv'
  <2> DEFINE w == call[c].window
  <2>1. /\ call' = [call EXCEPT ![c] = NoCall] /\ call[c].at \in {"asking", "locked"}
        /\ rowLock' = [rowLock EXCEPT ![w] = @ \ {c}]
        /\ UNCHANGED <<ledger, sends>>
    BY <1>5 DEF LeaveLedger
  <2>2. w \in Days
    BY <2>1, CallShape
  <2>3. \A v \in Days : Due(v)' = Due(v)
    <3>1. call[c].at # "allowed" /\ NoCall.at # "allowed"
      BY <2>1 DEF NoCall
    <3> QED
      BY <2>1, <3>1, SameDue
  <2>4. \A v \in Days : Covered(v)' /\ Within(v)'
    BY <2>1, <2>3 DEF Covered, Within
  <2>5. ASSUME NEW d \in Callers
        PROVE  Holding(d)'
    <3>1. CASE d = c
      BY <2>1, <3>1 DEF Holding, QuotaTypeOK, NoCall
    <3>2. CASE d # c
      <4>1. call'[d] = call[d]
        BY <2>1, <3>2 DEF QuotaTypeOK
      <4>2. \A v \in Days : rowLock[v] = {d} => rowLock'[v] = {d}
        BY <2>1, <3>2 DEF QuotaTypeOK
      <4> QED
        BY <2>1, <4>1, <4>2, CallShape DEF Holding
    <3> QED
      BY <3>1, <3>2
  <2> QED
    BY <2>4, <2>5
<1>6. ASSUME NEW c \in Callers, SendRequest(c)
      PROVE  QuotaInv'
  <2> DEFINE w == call[c].window
  <2>1. /\ call' = [call EXCEPT ![c] = NoCall] /\ call[c].at = "allowed"
        /\ sends' = [sends EXCEPT ![w] = @ + 1]
        /\ UNCHANGED <<ledger, rowLock>>
    BY <1>6 DEF SendRequest
  <2>2. ASSUME NEW v \in Days
        PROVE  Covered(v)'
    <3>1. /\ sends[v] \in Nat /\ Cardinality(Due(v)) \in Nat
          /\ ledger[v].requests \in Nat
      BY DueIsFinite DEF QuotaTypeOK, Usage
    <3>2. sends'[v] = IF v = w THEN sends[v] + 1 ELSE sends[v]
      BY <2>1 DEF QuotaTypeOK
    <3>3. Cardinality(Due(v)') = IF v = w THEN Cardinality(Due(v)) - 1
                                ELSE Cardinality(Due(v))
      BY <2>1, LessDue
    <3>4. sends[v] + Cardinality(Due(v)) <= ledger[v].requests
      BY DEF Covered
    <3>5. sends'[v] + Cardinality(Due(v)') <= ledger[v].requests
      BY <3>1, <3>2, <3>3, <3>4
    <3> QED
      BY <2>1, <3>5 DEF Covered
  <2>3. \A v \in Days : Within(v)'
    BY <2>1 DEF Within
  <2>4. \A d \in Callers : Holding(d)'
    BY <2>1 DEF Holding, QuotaTypeOK, NoCall
  <2> QED
    BY <2>2, <2>3, <2>4
<1>7. ASSUME NEW c \in Callers, DropRequest(c)
      PROVE  QuotaInv'
  <2>1. /\ call' = [call EXCEPT ![c] = NoCall] /\ call[c].at = "allowed"
        /\ UNCHANGED <<ledger, rowLock, sends>>
    BY <1>7 DEF DropRequest
  <2>2. ASSUME NEW v \in Days
        PROVE  Covered(v)'
    <3>1. /\ sends[v] \in Nat /\ Cardinality(Due(v)) \in Nat
          /\ ledger[v].requests \in Nat
      BY DueIsFinite DEF QuotaTypeOK, Usage
    <3>2. Cardinality(Due(v)') \in {Cardinality(Due(v)), Cardinality(Due(v)) - 1}
      BY <2>1, LessDue
    <3>3. sends[v] + Cardinality(Due(v)) <= ledger[v].requests
      BY DEF Covered
    <3>4. sends[v] + Cardinality(Due(v)') <= ledger[v].requests
      BY <3>1, <3>2, <3>3
    <3> QED
      BY <2>1, <3>4 DEF Covered
  <2>3. \A v \in Days : Within(v)'
    BY <2>1 DEF Within
  <2>4. \A d \in Callers : Holding(d)'
    BY <2>1 DEF Holding, QuotaTypeOK, NoCall
  <2> QED
    BY <2>2, <2>3, <2>4
<1> QED
  BY <1>1, <1>2, <1>3, <1>4, <1>5, <1>6, <1>7 DEF QuotaNext

(* What is sent on the account of a day stays within both of its limits,   *)
(* however many calls race, die or come back after midnight                *)
(* (checkAndConsume).                                                      *)
THEOREM QuotaHoldsAlways == QuotaSpec => []QuotaHolds
<1>1. QuotaInv => QuotaHolds
  <2> SUFFICES ASSUME QuotaInv, NEW w \in Days
               PROVE  /\ RequestLimit # Unlimited => sends[w] <= RequestLimit
                      /\ CostLimit # Unlimited => sends[w] * CostPerRequest <= CostLimit
    BY DEF QuotaHolds
  <2>1. /\ sends[w] \in Nat /\ ledger[w].requests \in Nat /\ ledger[w].cost \in Nat
        /\ Cardinality(Due(w)) \in Nat
    BY DueIsFinite DEF QuotaInv, QuotaTypeOK, Usage
  <2>2. sends[w] <= ledger[w].requests
    BY <2>1 DEF QuotaInv, Covered
  <2>3. /\ sends[w] * CostPerRequest <= ledger[w].requests * CostPerRequest
        /\ sends[w] * CostPerRequest \in Nat
    BY <2>1, <2>2, Product
  <2>4. Within(w)
    BY DEF QuotaInv
  <2>5. RequestLimit # Unlimited => sends[w] <= RequestLimit
    BY <2>1, <2>2, <2>4 DEF Within
  <2>6. CostLimit # Unlimited => sends[w] * CostPerRequest <= CostLimit
    BY <2>1, <2>3, <2>4 DEF Within
  <2> QED
    BY <2>5, <2>6
<1>2. QuotaSpec => []QuotaTypeOK
  BY QuotaTypeCorrect
<1> QED
  BY <1>1, <1>2, QuotaInvInit, QuotaInvStep, PTL DEF QuotaSpec
=============================================================================
