----------------------------- MODULE Evaluations -----------------------------
(***************************************************************************)
(* The evaluation of execution results and the settlement of their cost    *)
(* (execution-result-evaluation.service.ts and its repositories).          *)
(*                                                                         *)
(* Nothing here is in a transaction with the next step: a request checks,  *)
(* creates jobs, runs them in line and inserts, one statement at a time,   *)
(* beside other requests, the timer of the regression runner and the       *)
(* worker, which may take a job the moment it is created.  A result is     *)
(* named by the job that left it (one attempt per job, the default of both *)
(* services); what a job does while it runs is in ExecutionJobs.           *)
(***************************************************************************)
EXTENDS Naturals, FiniteSets

CONSTANTS
  FirstResults,    \* results of a job that ended before
  FirstEvaluated,  \* those of them that people have evaluated before
  Metered,         \* results whose snapshot carries token usage
  ModelCount,      \* models of the cross-model run (one run id)
  RateCards,       \* rate cards (version and price)
  EvalRequests,    \* requests and runs of the timer
  Worker           \* the background worker, or an author from before

ASSUME EvaluationAssumption ==
  /\ IsFiniteSet(FirstResults) /\ IsFiniteSet(EvalRequests)
  /\ FirstEvaluated \subseteq FirstResults
  /\ ModelCount \in Nat
  /\ \A card \in RateCards : card = [version |-> card.version, price |-> card.price]
  /\ Worker \notin EvalRequests

VARIABLES
  results,         \* execution_results
  evaluations,     \* execution_result_evaluations
  settlements,     \* execution_cost_settlements
  evalJobs,        \* the jobs created here (state, claimant, claims)
  eval             \* what each request is doing

evaluationVars == <<results, evaluations, settlements, evalJobs, eval>>

EvaluatorTypes == {"human", "rule", "llm"}
JudgeJob(q) == <<"judge", q>>
ModelJob(n) == <<"model", n>>
EvalJobs == {JudgeJob(q) : q \in EvalRequests} \cup {ModelJob(n) : n \in 1..ModelCount}
NoJob == <<"none", 0>>
ResultsOf(j) == IF j = NoJob THEN FirstResults ELSE results \cap {j}

NotBegun == [at |-> "new", kind |-> "none", job |-> NoJob, todo |-> {},
         target |-> NoJob, type |-> "rule", card |-> {}, reported |-> {}]

NewEvaluation(r, type, q) == [result |-> r, type |-> type, by |-> q]
Evaluated(r, type) == \E e \in evaluations : e.result = r /\ e.type = type
Over(q) == eval' = [eval EXCEPT ![q].at = "over"]
Becomes(q, state) == eval' = [eval EXCEPT ![q] = state]

EvaluationInit ==
  /\ results = FirstResults
  /\ evaluations = {[result |-> r, type |-> "human", by |-> Worker] : r \in FirstEvaluated}
  /\ settlements = {}
  /\ evalJobs = [j \in EvalJobs |-> [state |-> "none", by |-> Worker, claims |-> 0]]
  /\ eval = [q \in EvalRequests |-> NotBegun]

-----------------------------------------------------------------------------
(* Requests begin.                                                         *)

\* createEvaluation, evaluateResultWithRules: the result is there for good.
BeginCreate(q, r, type) ==
  /\ r \in results
  /\ Becomes(q, [NotBegun EXCEPT !.at = "create", !.kind = "create", !.target = r, !.type = type])

\* evaluateJobWithRules, or evaluateRegressionWithRules with a limit not met.
BeginBatch(q, candidates) ==
  Becomes(q, [NotBegun EXCEPT !.at = "batch", !.kind = "batch", !.todo = candidates])

BeginJudge(q, r) ==
  /\ r \in results
  /\ ~ Evaluated(r, "llm")
  /\ Becomes(q, [NotBegun EXCEPT !.at = "createJob", !.kind = "judge", !.job = JudgeJob(q),
                             !.target = r, !.type = "llm"])

BeginModels(q) ==
  /\ ModelCount >= 2
  /\ Becomes(q, [NotBegun EXCEPT !.at = "createJob", !.kind = "models", !.job = ModelJob(1)])

\* settleEvaluationCosts: the results of the job that some evaluation names.
BeginSettle(q, j, card) ==
  Becomes(q, [NotBegun EXCEPT !.at = "settle", !.kind = "settle", !.card = {card},
                !.todo = {r \in ResultsOf(j) : \E e \in evaluations : e.result = r}])

Begin(q) ==
  /\ eval[q].at = "new"
  /\ \/ \E r \in results, type \in EvaluatorTypes : BeginCreate(q, r, type)
     \/ \E j \in EvalJobs \cup {NoJob} : BeginBatch(q, ResultsOf(j))
     \/ BeginBatch(q, results)
     \/ \E r \in results : BeginJudge(q, r)
     \/ BeginModels(q)
     \/ \E j \in EvalJobs \cup {NoJob}, card \in RateCards : BeginSettle(q, j, card)
  /\ UNCHANGED <<results, evaluations, settlements, evalJobs>>

-----------------------------------------------------------------------------
(* Jobs run in line.                                                       *)

\* createJob: the idempotency key of a model's job is made of the run id and its number.
CreateEvalJob(q) ==
  /\ eval[q].at = "createJob"
  /\ LET j == eval[q].job
     IN \/ /\ evalJobs[j].state = "none"
           /\ evalJobs' = [evalJobs EXCEPT ![j].state = "pending"]
           /\ eval' = [eval EXCEPT ![q].at = "tick"]
        \/ /\ evalJobs[j].state # "none"
           /\ Over(q)
           /\ UNCHANGED evalJobs
  /\ UNCHANGED <<results, evaluations, settlements>>

Claimed(j, by) ==
  [evalJobs EXCEPT ![j] = [state |-> "running", by |-> by, claims |-> @.claims + 1]]

WorkerClaims(j) ==
  /\ evalJobs[j].state = "pending"
  /\ evalJobs' = Claimed(j, Worker)
  /\ UNCHANGED <<results, evaluations, settlements, eval>>

\* Mutant: the job is taken in whatever state it is.
MutantTickEvalJob(q) ==
  /\ eval[q].at = "tick"
  /\ evalJobs' = Claimed(eval[q].job, q)
  /\ eval' = [eval EXCEPT ![q].at = "wait"]
  /\ UNCHANGED <<results, evaluations, settlements>>

\* tickJob: a job the worker has taken meanwhile is not claimable, a 409.
TickEvalJob(q) ==
  /\ eval[q].at = "tick"
  /\ LET j == eval[q].job
     IN \/ /\ evalJobs[j].state = "pending"
           /\ evalJobs' = Claimed(j, q)
           /\ eval' = [eval EXCEPT ![q].at = "wait"]
        \/ /\ evalJobs[j].state # "pending"
           /\ Over(q)
           /\ UNCHANGED evalJobs
  /\ UNCHANGED <<results, evaluations, settlements>>

\* The attempt ends and leaves its result.  A judge that failed or cannot be read
\* ends the request; a model's result is evaluated by the rules either way.
FinishEvalJob(j) ==
  /\ evalJobs[j].state = "running"
  /\ LET q == evalJobs[j].by
     IN \E status \in {"success", "failed"} :
          /\ evalJobs' = [evalJobs EXCEPT ![j].state = status]
          /\ results' = results \cup {j}
          /\ \/ q = Worker /\ UNCHANGED eval
             \/ /\ q # Worker /\ eval[q].at = "wait"
                /\ \/ /\ eval[q].kind = "models"
                      /\ eval' = [eval EXCEPT ![q].at = "create", ![q].target = j]
                   \/ /\ eval[q].kind = "judge" /\ status = "success"
                      /\ eval' = [eval EXCEPT ![q].at = "create"]
                   \/ eval[q].kind = "judge" /\ Over(q)
  /\ UNCHANGED <<evaluations, settlements>>

\* Who ran it has died: the stale job, out of attempts, fails without a result.
RecoverEvalJob(j) ==
  /\ evalJobs[j].state = "running"
  /\ evalJobs[j].by # Worker => eval[evalJobs[j].by].at = "over"
  /\ evalJobs' = [evalJobs EXCEPT ![j].state = "failed"]
  /\ UNCHANGED <<results, evaluations, settlements, eval>>

-----------------------------------------------------------------------------
(* Evaluations and settlements.                                            *)

\* One round of a batch up to its insert.
CheckCandidate(q, r) ==
  /\ eval[q].at = "batch"
  /\ r \in eval[q].todo
  /\ eval' = [eval EXCEPT ![q].todo = @ \ {r},
                ![q].at = IF Evaluated(r, "rule") THEN "batch" ELSE "create",
                ![q].target = r]
  /\ UNCHANGED <<results, evaluations, settlements, evalJobs>>

\* Mutant: the run goes on past its last model.
MutantAfterCreate(s) ==
  CASE s.kind = "batch" -> [s EXCEPT !.at = "batch"]
    [] s.kind = "models" -> [s EXCEPT !.at = "createJob", !.job = ModelJob(s.job[2] + 1)]
    [] OTHER -> [s EXCEPT !.at = "over"]

\* What a request does after an evaluation is in.
AfterCreate(s) ==
  CASE s.kind = "batch" -> [s EXCEPT !.at = "batch"]
    [] s.kind = "models" /\ s.job # ModelJob(ModelCount) ->
         [s EXCEPT !.at = "createJob", !.job = ModelJob(s.job[2] + 1)]
    [] OTHER -> [s EXCEPT !.at = "over"]

\* Mutant: the table is not UNIQUE.
MutantCreateEvaluation(q) ==
  /\ eval[q].at = "create"
  /\ evaluations' = evaluations \cup
       {NewEvaluation(eval[q].target, eval[q].type, q)}
  /\ Becomes(q, AfterCreate(eval[q]))
  /\ UNCHANGED <<results, settlements, evalJobs>>

\* createEvaluation: UNIQUE (result, type); a violation ends the request, and the
\* rest of its batch or models with it.
CreateEvaluation(q) ==
  /\ eval[q].at = "create"
  /\ LET r == eval[q].target
         type == eval[q].type
     IN \/ /\ ~ Evaluated(r, type)
           /\ evaluations' = evaluations \cup {NewEvaluation(r, type, q)}
           /\ Becomes(q, AfterCreate(eval[q]))
        \/ /\ Evaluated(r, type)
           /\ Over(q)
           /\ UNCHANGED evaluations
  /\ UNCHANGED <<results, settlements, evalJobs>>

\* What a result costs: nothing without token usage.
Costs(r, card) == IF r \in Metered THEN {[result |-> r, card |-> card]} ELSE {}

Settled(r, card) == \E s \in settlements : s.result = r /\ s.card.version = card.version

\* Mutant: a settlement that is there already is reported as if it were new.
MutantSettle(q, r) ==
  /\ eval[q].at = "settle"
  /\ r \in eval[q].todo
  /\ \E card \in eval[q].card :
       LET new == Costs(r, card)
       IN /\ settlements' = settlements \cup (IF Settled(r, card) THEN {} ELSE new)
          /\ eval' = [eval EXCEPT ![q].todo = @ \ {r}, ![q].reported = @ \cup new]
  /\ UNCHANGED <<results, evaluations, evalJobs>>

\* createSettlementIfAbsent, for a result with token usage: ON CONFLICT DO NOTHING
\* on (result, version of the rate card); only a row that is new is reported.
Settle(q, r) ==
  /\ eval[q].at = "settle"
  /\ r \in eval[q].todo
  /\ \E card \in eval[q].card :
       LET new == IF Settled(r, card) THEN {} ELSE Costs(r, card)
       IN /\ settlements' = settlements \cup new
          /\ eval' = [eval EXCEPT ![q].todo = @ \ {r}, ![q].reported = @ \cup new]
  /\ UNCHANGED <<results, evaluations, evalJobs>>

\* The list is done; or the process dies, wherever it is.
EndRequest(q) ==
  /\ eval[q].at \notin {"new", "over"}
  /\ Over(q)
  /\ UNCHANGED <<results, evaluations, settlements, evalJobs>>

EvaluationNext ==
  \/ \E q \in EvalRequests :
       \/ Begin(q) \/ CreateEvalJob(q) \/ TickEvalJob(q)
       \/ \E r \in eval[q].todo : CheckCandidate(q, r) \/ Settle(q, r)
       \/ CreateEvaluation(q) \/ EndRequest(q)
  \/ \E j \in EvalJobs : WorkerClaims(j) \/ FinishEvalJob(j) \/ RecoverEvalJob(j)

EvaluationSpec == EvaluationInit /\ [][EvaluationNext]_evaluationVars

-----------------------------------------------------------------------------
EvaluationTypeOK ==
  LET Rows == FirstResults \cup EvalJobs
  IN /\ results \subseteq Rows
     /\ evaluations \subseteq [result : results, type : EvaluatorTypes,
                         by : EvalRequests \cup {Worker}]
     /\ settlements \subseteq [result : results \cap Metered, card : RateCards]
     /\ evalJobs \in [EvalJobs -> [state : {"none", "pending", "running", "success", "failed"},
                                   by : EvalRequests \cup {Worker}, claims : Nat]]
     /\ eval \in [EvalRequests ->
          [at : {"new", "create", "batch", "createJob", "tick", "wait", "settle", "over"},
           kind : {"none", "create", "batch", "judge", "models", "settle"},
           job : EvalJobs \cup {NoJob}, todo : SUBSET results,
           target : Rows \cup {NoJob}, type : EvaluatorTypes,
           card : SUBSET RateCards, reported : SUBSET settlements]]

(* A result has one evaluation of a type, whichever of people, batches,    *)
(* the timer, judges and cross-model runs get to it together.              *)
OneEvaluationPerType ==
  \A d, e \in evaluations : d.result = e.result /\ d.type = e.type => d = e

(* The attempt of a judge's or a model's job costs a provider call: it is  *)
(* made once, though the request, the worker and a second request with the *)
(* same run id all reach for the job.                                      *)
JobsRunOnce == \A j \in EvalJobs : evalJobs[j].claims <= 1

(* The cost of a result is settled once for a version of the rate card,    *)
(* and what a run reports as settled no other run reports: the totals of   *)
(* all runs add up to the ledger, overlapping and repeated runs included.  *)
SettledOnce ==
  /\ \A s, t \in settlements :
       s.result = t.result /\ s.card.version = t.card.version => s = t
  /\ \A p, q \in EvalRequests : p # q => eval[p].reported \cap eval[q].reported = {}
=============================================================================
