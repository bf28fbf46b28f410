--------------------------- MODULE ServicesProofs ---------------------------
(***************************************************************************)
(* The run of the services is a behaviour of each of them: what holds of   *)
(* a service by itself holds of it there.                                  *)
(***************************************************************************)
EXTENDS MCServices, ContentProofs, LedgerProofs, AdministrationProofs

(* A step of the run is a step of the service in focus and leaves every     *)
(* other one where it is.                                                   *)
LEMMA KnowledgePart == ServicesSpec => KnowledgeSpec
<1>1. ServicesInit => KnowledgeInit
  BY DEF ServicesInit
<1>2. [ServicesNext]_servicesVars => [KnowledgeNext]_knowledgeVars
  BY DEF ServicesNext, servicesVars
<1> QED
  BY <1>1, <1>2, PTL DEF ServicesSpec, KnowledgeSpec

LEMMA AssetPart == ServicesSpec => AssetSpec
<1>1. ServicesInit => AssetInit
  BY DEF ServicesInit
<1>2. [ServicesNext]_servicesVars => [AssetNext]_assetVars
  BY DEF ServicesNext, servicesVars
<1> QED
  BY <1>1, <1>2, PTL DEF ServicesSpec, AssetSpec

LEMMA AuditPart == ServicesSpec => AuditSpec
<1>1. ServicesInit => AuditInit
  BY DEF ServicesInit
<1>2. [ServicesNext]_servicesVars => [AuditNext]_auditVars
  BY DEF ServicesNext, servicesVars
<1> QED
  BY <1>1, <1>2, PTL DEF ServicesSpec, AuditSpec

LEMMA DefinitionPart == ServicesSpec => DefinitionSpec
<1>1. ServicesInit => DefinitionInit
  BY DEF ServicesInit
<1>2. [ServicesNext]_servicesVars => [DefinitionNext]_definitionVars
  BY DEF ServicesNext, servicesVars
<1> QED
  BY <1>1, <1>2, PTL DEF ServicesSpec, DefinitionSpec

LEMMA QuotaPart == ServicesSpec => QuotaSpec
<1>1. ServicesInit => QuotaInit
  BY DEF ServicesInit
<1>2. [ServicesNext]_servicesVars => [QuotaNext]_quotaVars
  BY DEF ServicesNext, servicesVars
<1> QED
  BY <1>1, <1>2, PTL DEF ServicesSpec, QuotaSpec

LEMMA RuntimePart == ServicesSpec => RuntimeSpec
<1>1. ServicesInit => RuntimeInit
  BY DEF ServicesInit
<1>2. [ServicesNext]_servicesVars => [RuntimeNext]_runtimeVars
  BY DEF ServicesNext, servicesVars
<1> QED
  BY <1>1, <1>2, PTL DEF ServicesSpec, RuntimeSpec

LEMMA RegistryPart == ServicesSpec => RegistrySpec
<1>1. ServicesInit => RegistryInit
  BY DEF ServicesInit
<1>2. [ServicesNext]_servicesVars => [RegistryNext]_registryVars
  BY DEF ServicesNext, servicesVars
<1> QED
  BY <1>1, <1>2, PTL DEF ServicesSpec, RegistrySpec

LEMMA EvaluationPart == ServicesSpec => EvaluationSpec
<1>1. ServicesInit => EvaluationInit
  BY DEF ServicesInit
<1>2. [ServicesNext]_servicesVars => [EvaluationNext]_evaluationVars
  BY DEF ServicesNext, servicesVars
<1> QED
  BY <1>1, <1>2, PTL DEF ServicesSpec, EvaluationSpec

-----------------------------------------------------------------------------
(* The rows and requests of all services are what their code can write,     *)
(* whichever of them takes steps.                                           *)
THEOREM ServicesTypeCorrect == ServicesSpec => []ServicesTypeOK
<1>1. /\ ServicesSpec => []KnowledgeTypeOK /\ []AssetTypeOK /\ []AuditTypeOK
      /\ ServicesSpec => []DefinitionTypeOK /\ []QuotaTypeOK /\ []RuntimeTypeOK
      /\ ServicesSpec => []RegistryTypeOK /\ []EvaluationTypeOK
  BY KnowledgePart, KnowledgeTypeCorrect, AssetPart, AssetTypeCorrect, AuditPart,
     AuditTypeCorrect, DefinitionPart, DefinitionTypeCorrect, QuotaPart, QuotaTypeCorrect,
     RuntimePart, RuntimeTypeCorrect, RegistryPart, RegistryTypeCorrect, EvaluationPart,
     EvaluationTypeCorrect, PTL
<1>2. /\ KnowledgeTypeOK /\ AssetTypeOK /\ AuditTypeOK /\ DefinitionTypeOK
      /\ QuotaTypeOK /\ RuntimeTypeOK /\ RegistryTypeOK /\ EvaluationTypeOK
      => ServicesTypeOK
  BY DEF ServicesTypeOK
<1> QED
  BY <1>1, <1>2, PTL

(* What every service promises by itself, it keeps in the run of them all:  *)
(* the safety invariants of that run.                                       *)
THEOREM ServicesKeepTheirPromises ==
  ServicesSpec => /\ []StaleOnlyIfRaced /\ []StageContextCurrent
                  /\ []ContentStoredOnce /\ []PointerNotBehind
                  /\ []ChainUnbroken /\ []OnlyReviewsDeadlock
                  /\ []ValidationExact /\ []OneActiveVersion /\ []QuotaHolds
                  /\ []OutsideOnlyWhenAllowed /\ []RefusalsNotRetried
                  /\ []OneLivePerKey /\ []TrailEndsAtRow /\ []RevokedOnce
                  /\ []OneEvaluationPerType /\ []JobsRunOnce /\ []SettledOnce
BY KnowledgePart, StaleOnlyIfRacedHolds, StageContextCurrentHolds,
   AssetPart, ContentStoredOnceHolds, PointerNotBehindHolds,
   AuditPart, ChainUnbrokenHolds, OnlyReviewsDeadlockHolds,
   DefinitionPart, ValidationExactHolds, OneActiveVersionHolds, QuotaPart, QuotaHoldsAlways,
   RuntimePart, OutsideOnlyWhenAllowedHolds, RefusalsNotRetriedHolds,
   RegistryPart, OneLivePerKeyHolds, TrailEndsAtRowHolds, RevokedOnceHolds,
   EvaluationPart, OneEvaluationPerTypeHolds, JobsRunOnceHolds, SettledOnceHolds, PTL
=============================================================================
