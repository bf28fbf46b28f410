----------------------------- MODULE RuntimeCalls -----------------------------
(***************************************************************************)
(* The attempts of one job and what each may do outside: the worker        *)
(* prepares the request and a context from its safety policy               *)
(* (execution-worker.ts, invoke), the factory picks a runtime              *)
(* (adapter-factory.ts), the runtime passes the request through its own    *)
(* list of checks, goes outside, and maps what it got to an error type     *)
(* that decides on the retry (retry-policy.ts).                            *)
(***************************************************************************)
EXTENDS Naturals, Sequences

CONSTANTS
  Policies,        \* deployments: the safety policy and the adapters present
  RuntimeRequests, \* the requests a job may carry
  MaxAttempts      \* max_attempts of the job

ASSUME RuntimeAssumption ==
  /\ MaxAttempts \in Nat \ {0}
  /\ \A p \in Policies : p.adapterMode \in {"mock", "dry_run", "fake_provider",
                                          "provider_preflight", "real"}
  /\ \A r \in RuntimeRequests : /\ r.type \in {"agent", "mcp", "publisher"}
                               /\ r.quoted \in {"plain", "timeout", "permission"}

VARIABLES
  policy,          \* the deployment, fixed while it runs
  request,         \* the job's type and what its payload brings along
  attempt,         \* attempt_count of the claim in progress
  runtimeJob,      \* where the job stands
  adapter,         \* the runtime of the attempt that is outside
  effects,         \* [attempt, effect]: what has happened outside (history)
  verdicts         \* [attempt, error, why]: the failed attempts (history)

runtimeVars == <<policy, request, attempt, runtimeJob, adapter, effects, verdicts>>

-----------------------------------------------------------------------------
Adapters ==
  {"cli", "http", "mcp_safety", "mcp_real", "publisher_safety",
   "publisher_real", "fake_provider", "provider_preflight", "dry_run", "mock"}

RuntimeErrors ==
  {"validation_error", "permission_denied", "blocked", "timeout",
   "rate_limited", "external_unavailable", "unknown"}

NonRetryable == {"validation_error", "permission_denied", "blocked"}

(* A missing endpoint is external_unavailable, but the client's own        *)
(* retryable: false wins over the default of the error type.               *)
Verdict(error, retryable) == [error |-> error, retryable |-> retryable]
ByDefault(error) == Verdict(error, error \notin NonRetryable)
Invalid == ByDefault("validation_error")
Denied == ByDefault("permission_denied")
Refused == ByDefault("blocked")
Unreachable == Verdict("external_unavailable", FALSE)
Throttled == ByDefault("rate_limited")
TimedOut == ByDefault("timeout")
Unknown == ByDefault("unknown")

RealGate(p) == p.mode = "real_enabled" /\ p.allowReal

(* assertRealExecutionAllowed lets the mock mode through. *)
RealAllowed(p) == p.mode = "mock" \/ RealGate(p)

(* Of the positions in a list that qualify, the first one. *)
FirstOf(positions) == {i \in positions : \A k \in positions : i <= k}

(* The order in which getRuntime looks for a registered real runtime. *)
Preference(r) ==
  CASE r.type = "agent" ->
         IF r.credential = "cli" THEN <<"cli", "http">> ELSE <<"http">>
    [] r.type = "mcp" -> <<"mcp_safety", "mcp_real">>
    [] r.type = "publisher" -> <<"publisher_safety", "publisher_real">>

Reach(a) ==
  CASE a \in {"cli", "mcp_safety"} -> "spawn"
    [] a \in {"http", "mcp_real", "publisher_real"} -> "network"
    [] OTHER -> "nothing"

\* Mutant: the check for a real mode is left to the adapters.
MutantFactoryAllows(p, a) ==
  CASE Reach(a) = "spawn" -> p.spawn
    [] Reach(a) = "network" -> p.network
    [] OTHER -> ~ p.network

FactoryAllows(p, a) ==
  /\ RealGate(p)
  /\ CASE Reach(a) = "spawn" -> p.spawn
       [] Reach(a) = "network" -> p.network
       [] OTHER -> ~ p.network

(* getRuntime: the runtimes it may answer with; none of them is a throw. *)
RuntimeFor(p, r) ==
  CASE p.adapterMode = "real" ->
         LET asked == Preference(r)
             present == {i \in DOMAIN asked : asked[i] \in p.registered}
         IN {a \in {asked[i] : i \in FirstOf(present)} : FactoryAllows(p, a)}
    [] p.adapterMode \in {"fake_provider", "provider_preflight"} ->
         IF RealGate(p) /\ r.type = "agent" THEN {p.adapterMode} ELSE {}
    [] p.adapterMode = "dry_run" -> IF RealGate(p) THEN {"dry_run"} ELSE {}
    [] p.adapterMode = "mock" -> IF p.mode = "mock" THEN {"mock"} ELSE {}

(* The throw of getRuntime, classified by its message. *)
FactoryRefusal(p) ==
  IF p.adapterMode = "mock" /\ ~ RealAllowed(p) THEN Denied ELSE Invalid

-----------------------------------------------------------------------------
(* What is asked of a request before it goes outside, in the order it is   *)
(* asked, and the answer when the request or the deployment lacks it.      *)

(* Two refusals quote the caller's text, and the classification reads the  *)
(* whole message: a scope or an action that speaks of a timeout makes one. *)
ScopeVerdict(r) ==
  CASE r.quoted = "timeout" -> TimedOut
    [] r.quoted = "permission" -> Denied
    [] OTHER -> Invalid
ActionVerdict(r) == IF r.quoted = "timeout" THEN TimedOut ELSE Invalid

(* The worker, whatever the runtime: timeoutMs in the contract's range, a  *)
(* credential that is a reference, timeoutMs an integer within the policy's*)
(* maximum, whose message names the timeout and so is taken for one.       *)
PreparationChecks(r) ==
  <<<<"timeout_range", Invalid>>, <<"named", Invalid>>, <<"scope", ScopeVerdict(r)>>,
    <<"reference", Invalid>>, <<"timeout_integer", TimedOut>>>>

CliChecks ==
  <<<<"real", Invalid>>, <<"spawn", Denied>>, <<"credential", Denied>>,
    <<"cli", Invalid>>, <<"prompt", Invalid>>>>

(* The agent runtime, the budget's ledger, then the HTTP client it calls.  *)
ProviderChecks ==
  <<<<"real", Invalid>>, <<"network", Denied>>, <<"credential", Denied>>,
    <<"openai", Invalid>>, <<"messages", Invalid>>>>
LedgerChecks == <<<<"ledger", Unknown>>, <<"quota", Throttled>>>>
TransportChecks ==
  <<<<"body", Invalid>>, <<"in_time", TimedOut>>, <<"resolver", Denied>>,
    <<"endpoint", Unreachable>>, <<"host", Denied>>, <<"key_name", Invalid>>,
    <<"secret", Denied>>>>

McpChecks ==
  <<<<"real", Invalid>>, <<"network", Denied>>, <<"transport", Invalid>>,
    <<"tool", Invalid>>, <<"endpoint", Denied>>, <<"low_risk", Refused>>,
    <<"allowlisted", Denied>>, <<"host", Denied>>>>
McpSafetyChecks ==
  <<<<"real", Invalid>>, <<"spawn", Denied>>, <<"harness", Denied>>,
    <<"tool", Invalid>>, <<"low_risk", Refused>>, <<"sandbox", Denied>>>>

(* validatePublisherRuntimePayload: the action first, then what it names.  *)
PayloadChecks(r) == <<<<"action", ActionVerdict(r)>>, <<"payload", Invalid>>>>

(* A preview or a rollback plan needs no preview and no approval.          *)
PublishStepChecks == <<<<"preview", Refused>>, <<"approval", Refused>>>>
PublisherChecks(r) ==
  <<<<"real", Invalid>>, <<"network", Denied>>>> \o PayloadChecks(r)
    \o <<<<"publish", Refused>>>> \o PublishStepChecks
    \o <<<<"record", Refused>>, <<"endpoint", Denied>>, <<"allowlisted", Denied>>,
         <<"host", Denied>>>>
PublisherSafetyChecks(r) ==
  <<<<"real", Invalid>>, <<"no_network", Denied>>, <<"credential", Denied>>,
    <<"harness", Denied>>>>
    \o PayloadChecks(r) \o (IF "publish" \in r.lacks THEN <<>> ELSE PublishStepChecks)

FakeProviderChecks == <<<<"real", Invalid>>, <<"credential", Denied>>>>
PreflightChecks == Append(FakeProviderChecks, <<"openai", Invalid>>)
DryRunChecks == <<<<"ref_shape", Invalid>>, <<"ref_if_required", Denied>>>>

Checks(a, r) ==
  CASE a = "cli" -> CliChecks
    [] a = "http" -> ProviderChecks \o LedgerChecks \o TransportChecks
    [] a = "mcp_real" -> McpChecks
    [] a = "mcp_safety" -> McpSafetyChecks
    [] a = "publisher_real" -> PublisherChecks(r)
    [] a = "publisher_safety" -> PublisherSafetyChecks(r)
    [] a = "fake_provider" -> FakeProviderChecks
    [] a = "provider_preflight" -> PreflightChecks
    [] a = "dry_run" -> DryRunChecks
    [] a = "mock" -> <<>>

(* What checkAndConsume may do: grant, throttle, throw, or keep the call   *)
(* waiting for the ledger's row until its signal has been aborted.         *)
LedgerAnswers == {"grants", "throttles", "fails", "stalls"}

Has(p, r, need, ledger) ==
  CASE need = "real" -> RealAllowed(p)
    [] need = "network" -> p.network
    [] need = "no_network" -> ~ p.network
    [] need = "spawn" -> p.spawn
    [] need = "credential" -> r.credential # "none"
    [] need = "openai" -> r.credential = "openai"
    [] need = "cli" -> r.credential = "cli"
    [] need \in {"named", "scope", "reference"} -> r.credential = "none" \/ need \notin r.lacks
    [] need = "ref_shape" -> r.credential # "none" \/ need \notin r.lacks
    [] need = "ref_if_required" -> p.requireRef => r.credential # "none"
    [] need = "ledger" -> ledger # "fails"
    [] need = "quota" -> ledger # "throttles"
    [] need = "in_time" -> ledger # "stalls"
    [] OTHER -> need \notin r.lacks

(* The checks of a list a request fails; the first one answers.            *)
Unmet(checks, ledger) ==
  {i \in DOMAIN checks : ~ Has(policy, request, checks[i][1], ledger)}
Refusals(checks, ledger) == {checks[i] : i \in FirstOf(Unmet(checks, ledger))}

Prepared == Unmet(PreparationChecks(request), "grants") = {}

(* The answers a runtime may give once it has gone outside. *)
Classified(errors) == {ByDefault(e) : e \in errors}

(* By HTTP status, by exit of a process, by the message of what was thrown. *)
StatusErrors ==
  {"validation_error", "permission_denied", "rate_limited", "timeout",
   "external_unavailable"}
SpawnErrors == {"timeout", "external_unavailable", "unknown", "validation_error"}
ThrownErrors == {"timeout", "unknown", "validation_error"}

HttpAnswers == Classified(StatusErrors \cup {"unknown"})
PreflightAnswers == Classified(StatusErrors \cup {"unknown"})
RemoteAnswers == Classified(StatusErrors)
CliAnswers == Classified(SpawnErrors)
HarnessAnswers == Classified(ThrownErrors)

(* The mock and the fake provider answer what their payload scripts. *)
MockAnswers ==
  {Refused} \cup {Verdict(e, b) : e \in RuntimeErrors \ {"blocked"}, b \in BOOLEAN}
FakeProviderAnswers == Classified(RuntimeErrors)

Answers(a) ==
  CASE a = "cli" -> CliAnswers
    [] a = "http" -> HttpAnswers
    [] a \in {"mcp_real", "publisher_real"} -> RemoteAnswers
    [] a \in {"mcp_safety", "publisher_safety"} -> HarnessAnswers
    [] a = "fake_provider" -> FakeProviderAnswers
    [] a = "provider_preflight" -> PreflightAnswers
    [] a = "dry_run" -> {Invalid}
    [] a = "mock" -> MockAnswers

-----------------------------------------------------------------------------
Needs ==
  {"timeout_range", "named", "scope", "reference", "timeout_integer", "real", "network",
   "no_network", "spawn", "credential", "openai", "cli", "prompt", "messages", "ledger",
   "quota", "body", "in_time", "resolver", "endpoint", "host", "key_name", "secret",
   "transport", "tool", "low_risk", "allowlisted", "harness", "sandbox", "action",
   "payload", "publish", "preview", "approval", "record", "ref_shape", "ref_if_required"}

RuntimeTypeOK ==
  /\ policy \in Policies
  /\ request \in RuntimeRequests
  /\ attempt \in 0 .. MaxAttempts
  /\ runtimeJob \in {"pending", "outside", "success", "failed"}
  /\ adapter \in Adapters \cup {"none"}
  /\ effects \subseteq [attempt : 1 .. MaxAttempts, effect : {"spawn", "network"}]
  /\ verdicts \subseteq
       [attempt : 1 .. MaxAttempts, error : RuntimeErrors, why : Needs \cup {"factory", "answer"}]

RuntimeInit ==
  /\ policy \in Policies
  /\ request \in RuntimeRequests
  /\ attempt = 0
  /\ runtimeJob = "pending"
  /\ adapter = "none"
  /\ effects = {}
  /\ verdicts = {}

(* The worker settles attempt n: the verdict's flag, then the counter.     *)
Fail(n, verdict, why) ==
  /\ runtimeJob' = IF verdict.retryable /\ n < MaxAttempts
                     THEN "pending" ELSE "failed"
  /\ verdicts' = verdicts \cup {[attempt |-> n, error |-> verdict.error, why |-> why]}
  /\ adapter' = "none"

(* The next attempt ends at the first check of the list it does not pass.  *)
RefusedBy(checks, ledger) ==
  /\ attempt' = attempt + 1
  /\ \E refusal \in Refusals(checks, ledger) : Fail(attempt + 1, refusal[2], refusal[1])
  /\ UNCHANGED <<policy, request, effects>>

RefuseContext ==
  /\ runtimeJob = "pending"
  /\ RefusedBy(PreparationChecks(request), "grants")

NoRuntime ==
  /\ runtimeJob = "pending" /\ Prepared
  /\ RuntimeFor(policy, request) = {}
  /\ attempt' = attempt + 1
  /\ Fail(attempt + 1, FactoryRefusal(policy), "factory")
  /\ UNCHANGED <<policy, request, effects>>

\* Mutant: the answer of a failed check takes the retry default of its
\* error type.
MutantRefuse ==
  /\ runtimeJob = "pending" /\ Prepared
  /\ \E a \in RuntimeFor(policy, request), ledger \in LedgerAnswers :
       \E refusal \in Refusals(Checks(a, request), ledger) :
         Fail(attempt + 1, ByDefault(refusal[2].error), refusal[1])
  /\ attempt' = attempt + 1
  /\ UNCHANGED <<policy, request, effects>>

RefuseRequest ==
  /\ runtimeJob = "pending" /\ Prepared
  /\ \E a \in RuntimeFor(policy, request), ledger \in LedgerAnswers :
       RefusedBy(Checks(a, request), ledger)

GoOutside ==
  /\ runtimeJob = "pending" /\ Prepared
  /\ \E a \in RuntimeFor(policy, request) :
       /\ Unmet(Checks(a, request), "grants") = {}
       /\ adapter' = a
       /\ attempt' = attempt + 1
       /\ effects' = IF Reach(a) = "nothing" THEN effects
                     ELSE effects \cup {[attempt |-> attempt + 1, effect |-> Reach(a)]}
  /\ runtimeJob' = "outside"
  /\ UNCHANGED <<policy, request, verdicts>>

Succeed ==
  /\ runtimeJob = "outside"
  /\ runtimeJob' = "success"
  /\ adapter' = "none"
  /\ UNCHANGED <<policy, request, attempt, effects, verdicts>>

FailOutside ==
  /\ runtimeJob = "outside"
  /\ \E verdict \in Answers(adapter) : Fail(attempt, verdict, "answer")
  /\ UNCHANGED <<policy, request, attempt, effects>>

RuntimeNext ==
  \/ RefuseContext \/ NoRuntime \/ RefuseRequest \/ GoOutside
  \/ Succeed \/ FailOutside

RuntimeSpec == RuntimeInit /\ [][RuntimeNext]_runtimeVars

-----------------------------------------------------------------------------
(* Whatever adapters a factory was given and whatever the job asks for,    *)
(* nothing leaves the process unless the deployment runs in real_enabled,  *)
(* allows real execution, and allows that very kind of effect: the gates   *)
(* of getRuntime and of the adapters together, none of which suffices.     *)
OutsideOnlyWhenAllowed ==
  \A e \in effects :
    /\ policy.mode = "real_enabled" /\ policy.allowReal
    /\ e.effect = "network" => policy.network
    /\ e.effect = "spawn" => policy.spawn

(* A request that was refused before it went anywhere is not asked again:  *)
(* retrying bad input or a missing permission only burns attempts          *)
(* (runtime-contract.ts, NON_RETRYABLE).  Asked again are those the ledger *)
(* refused, which may answer otherwise another time, and those the code    *)
(* takes for a timeout by their message: a timeoutMs that is no integer or *)
(* beyond the policy, a credential's scope or a publisher's action whose   *)
(* quoted text speaks of one.                                              *)
RefusalsNotRetried ==
  \A v \in verdicts :
    \/ v.why \in {"answer", "ledger", "quota", "in_time", "timeout_integer"}
    \/ v.why \in {"scope", "action"} /\ request.quoted = "timeout"
    \/ v.attempt = attempt /\ runtimeJob = "failed"
=============================================================================
