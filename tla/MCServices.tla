----------------------------- MODULE MCServices -----------------------------
(***************************************************************************)
(* The services that share no rows with each other, checked in one run.    *)
(* A behaviour chooses one of them and takes its steps; the variables of   *)
(* the others keep their initial values, so the states of the run are the  *)
(* sum of the components' states and not their product.                    *)
(***************************************************************************)
EXTENDS KnowledgePacks, AssetVersions, AuditLog, WorkflowDefinitions,
        ProviderQuota, RuntimeCalls, Registries, Evaluations, TLC

CONSTANTS e1, e2, e3, s1, s2, q1, q2,   \* entries, sources and queries
          g1, g2, g3,                   \* stages of a workflow definition
          i1, i2,                       \* rows of the registries
          r1, u1, u2                    \* a result, two requests

VARIABLE focus    \* the component that takes steps

servicesVars == <<focus, knowledgeVars, assetVars, auditVars, definitionVars,
                  quotaVars, runtimeVars, registryVars, evaluationVars>>

Components == {"knowledge", "assets", "audit", "definitions", "quota",
               "runtime", "registries", "evaluations"}

(* One deployment, one request and one table for every row stand in where  *)
(* runtimes and registries take no steps.                                  *)
ServicesInit ==
  /\ focus \in Components
  /\ focus # "runtime" =>
       /\ policy = CHOOSE p \in Policies : TRUE
       /\ request = CHOOSE r \in RuntimeRequests : TRUE
  /\ focus # "registries" => kindOf = [r \in RegistryRows |-> "task"]
  /\ KnowledgeInit /\ AssetInit /\ AuditInit /\ DefinitionInit
  /\ QuotaInit /\ RuntimeInit /\ RegistryInit /\ EvaluationInit

ServicesNext ==
  /\ UNCHANGED focus
  /\ \/ /\ focus = "knowledge" /\ KnowledgeNext
        /\ UNCHANGED <<assetVars, auditVars, definitionVars, quotaVars,
                       runtimeVars, registryVars, evaluationVars>>
     \/ /\ focus = "assets" /\ AssetNext
        /\ UNCHANGED <<knowledgeVars, auditVars, definitionVars, quotaVars,
                       runtimeVars, registryVars, evaluationVars>>
     \/ /\ focus = "audit" /\ AuditNext
        /\ UNCHANGED <<knowledgeVars, assetVars, definitionVars, quotaVars,
                       runtimeVars, registryVars, evaluationVars>>
     \/ /\ focus = "definitions" /\ DefinitionNext
        /\ UNCHANGED <<knowledgeVars, assetVars, auditVars, quotaVars,
                       runtimeVars, registryVars, evaluationVars>>
     \/ /\ focus = "quota" /\ QuotaNext
        /\ UNCHANGED <<knowledgeVars, assetVars, auditVars, definitionVars,
                       runtimeVars, registryVars, evaluationVars>>
     \/ /\ focus = "runtime" /\ RuntimeNext
        /\ UNCHANGED <<knowledgeVars, assetVars, auditVars, definitionVars,
                       quotaVars, registryVars, evaluationVars>>
     \/ /\ focus = "registries" /\ RegistryNext
        /\ UNCHANGED <<knowledgeVars, assetVars, auditVars, definitionVars,
                       quotaVars, runtimeVars, evaluationVars>>
     \/ /\ focus = "evaluations" /\ EvaluationNext
        /\ UNCHANGED <<knowledgeVars, assetVars, auditVars, definitionVars,
                       quotaVars, runtimeVars, registryVars>>

ServicesSpec == ServicesInit /\ [][ServicesNext]_servicesVars

(* The rows and requests of every component are what its code can write. *)
ServicesTypeOK ==
  /\ KnowledgeTypeOK /\ AssetTypeOK /\ AuditTypeOK /\ DefinitionTypeOK
  /\ QuotaTypeOK /\ RuntimeTypeOK /\ RegistryTypeOK /\ EvaluationTypeOK

-----------------------------------------------------------------------------
(* Two sources; the query q1 finds more entries than a pack may hold. *)
MCSourceOf == e1 :> s1 @@ e2 :> s1 @@ e3 :> s2
MCMatching == q1 :> {e1, e2, e3} @@ q2 :> {e2}
MCInitialEntries == <<e1, e2>>

(* Every graph a request can carry over three keys, its loops, loose ends  *)
(* and unknown keys among them; definitions are made of three small ones.  *)
Keys == {g1, g2, g3}
MCDefGraphs == [stages : {Keys, {g1, g2}, {g1}}, deps : SUBSET (Keys \X Keys)]
MCPair == [stages |-> {g1, g2}, deps |-> {<<g1, g2>>}]
MCLoop == [stages |-> {g1, g2}, deps |-> {<<g1, g2>>, <<g2, g1>>}]
MCSingle == [stages |-> {g1}, deps |-> {}]
MCGraphsFor == <<{MCPair, MCLoop}, {MCSingle}, {MCSingle}>>

(* Every mode and policy, with the adapters a deployment may register;     *)
(* whether a credential is required only the dry run asks.                 *)
Deployments(adapterModes, registered, requireRef) ==
  [mode : {"mock", "real_disabled", "real_enabled"}, allowReal : BOOLEAN, network : BOOLEAN,
   spawn : BOOLEAN, adapterMode : adapterModes, registered : registered, requireRef : requireRef]
MCPolicies ==
  Deployments({"mock", "fake_provider", "provider_preflight"}, {{}}, {TRUE})
  \cup Deployments({"dry_run"}, {{}}, BOOLEAN)
  \cup Deployments({"real"},
         {{}, {"http"}, {"cli", "http"}, {"mcp_real"}, {"mcp_safety", "mcp_real"},
          {"publisher_real"}, {"publisher_safety"}}, {TRUE})

(* A request of each type that has all it needs, lacks one thing, or is    *)
(* refused by more than one layer; and texts that a refusal quotes.        *)
Asks(type, credentials, lacks, quoted) ==
  [type : {type}, credential : credentials, lacks : lacks, quoted : quoted]
One(needs) == {{}} \cup {{n} : n \in needs}
ContextNeeds == {"timeout_range", "named", "scope", "reference", "timeout_integer"}
MCRuntimeRequests ==
  Asks("agent", {"none"}, One({"ref_shape", "timeout_integer"}), {"plain"})
  \cup Asks("agent", {"cli"}, One({"prompt"}), {"plain"})
  \cup Asks("agent", {"other"}, {{}}, {"plain"})
  \cup Asks("agent", {"openai"},
            One(ContextNeeds \cup {"messages", "body", "resolver", "endpoint", "host",
                                   "key_name", "secret"}), {"plain"})
  \cup Asks("agent", {"openai"}, {{"scope"}, {"scope", "timeout_range"}}, {"timeout", "permission"})
  \cup Asks("mcp", {"none"}, One({"transport", "tool", "endpoint", "low_risk", "allowlisted",
                                  "host", "harness", "sandbox"}), {"plain"})
  \cup Asks("publisher", {"none"}, One({"action", "approval"}), {"plain"})
  \cup Asks("publisher", {"openai"},
            One({"action", "payload", "publish", "preview", "approval", "record", "endpoint",
                 "allowlisted", "host", "harness"}), {"plain"})
  \cup Asks("publisher", {"openai"}, {{"action"}, {"scope", "action"}}, {"timeout"})

(* Two rows of any tables; those of one table share their key. *)
MCSlotOf == [r \in RegistryRows |-> "slot"]

(* Two rate cards of one version, with different prices. *)
MCRateCards == {[version |-> 1, price |-> 1], [version |-> 1, price |-> 2]}
MCMetered == {r1, ModelJob(1), JudgeJob(u1), JudgeJob(u2)}

(* Requests are interchangeable, and so are the rows of the registries,    *)
(* whose keys are alike; the components name their requests alike.         *)
MCSymmetry ==
  Permutations(Callers) \cup Permutations(EvalRequests) \cup Permutations(RegistryRows)
=============================================================================
