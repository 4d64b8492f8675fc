----------------------------- MODULE ModelTrust -----------------------------
(***************************************************************************)
(* How far a model of a runtime may be trusted (reference/model_trust.cpp, *)
(* reference/semantic_delta.cpp).  Facts are gathered by scope and model;  *)
(* within such a group only the strongest evidence counts.  The states of  *)
(* all groups give one word of guidance.  A delta between a reference and  *)
(* a modified artifact becomes a fact of its own when it has been proven.  *)
(*                                                                         *)
(* Facts are a set: neither their order nor a repetition matters.  Texts   *)
(* of evidence are only given or missing.                                  *)
(***************************************************************************)
EXTENDS Naturals, FiniteSets

\* The numeric order is the strength of the evidence.
Levels == 0 .. 6
OfflineModel == 2
ChosenInputOracle == 3
ExactKnownGoodReference == 4
OriginalNativeResult == 6

ReferenceRelations == {"NOT_APPLICABLE", "EXACT_MATCH", "SEMANTIC_MATCH", "EXACT_DIFFERENCE", "REFERENCE_UNAVAILABLE"}

SemanticStates == {"UNRESOLVED", "MODEL_ONLY", "STOCK_COMPATIBLE_PARTIAL", "STOCK_CONFIRMED", "MODIFIED_UNRESOLVED", "EXACT_DELTA_RECOVERED"}

Relations == {"NONE", "SUPPORTS_MODEL", "CONTRADICTS_MODEL"}

TrustStates == {"UNRESOLVED_SEMANTICS", "NO_EXACT_REFERENCE", "MODEL_ONLY_CONCLUSION", "STOCK_MODEL_PARTIAL", "STOCK_MODEL_SAFE",
                "EXACT_MODIFIED_SEMANTICS", "UNRESOLVED_MODIFIED_RUNTIME", "EVIDENCE_CONFLICT_UNRESOLVED", "STATIC_MODEL_CONTRADICTED"}

ModelTrustFact == [scope : STRING, model : STRING, level : Levels, reference : ReferenceRelations,
                   semantic : SemanticStates, relation : Relations, complete : BOOLEAN]

strength(facts) ==
    IF facts = {} THEN 0
    ELSE CHOOSE n \in Levels : (\E f \in facts : f.level = n) /\ \A f \in facts : f.level <= n

Supporting(facts) ==
    {f \in facts : f.relation = "SUPPORTS_MODEL" \/ f.semantic \in {"STOCK_CONFIRMED", "STOCK_COMPATIBLE_PARTIAL", "MODEL_ONLY"}}

Contradicting(facts) == {f \in facts : f.relation = "CONTRADICTS_MODEL"}

AtCeiling(facts) == {f \in facts : f.level = strength(facts)}

\* What the strongest facts say when none of them contradicts the model.
StateOf(top) ==
    LET Says(states) == \E f \in top : f.semantic \in states
        Stock == {"STOCK_CONFIRMED", "STOCK_COMPATIBLE_PARTIAL"}
    IN IF Says(Stock) /\ Says({"MODIFIED_UNRESOLVED", "EXACT_DELTA_RECOVERED"}) THEN "EVIDENCE_CONFLICT_UNRESOLVED"
       ELSE IF Says({"MODIFIED_UNRESOLVED"}) THEN "UNRESOLVED_MODIFIED_RUNTIME"
       ELSE IF Says({"EXACT_DELTA_RECOVERED"}) THEN "EXACT_MODIFIED_SEMANTICS"
       ELSE IF \E f \in top : f.semantic = "STOCK_CONFIRMED" /\ f.complete THEN "STOCK_MODEL_SAFE"
       ELSE IF Says(Stock) THEN "STOCK_MODEL_PARTIAL"
       ELSE IF Says({"MODEL_ONLY"}) THEN "MODEL_ONLY_CONCLUSION"
       ELSE IF \E f \in top : f.reference = "REFERENCE_UNAVAILABLE" THEN "NO_EXACT_REFERENCE"
       ELSE "UNRESOLVED_SEMANTICS"

assess_group(facts) ==
    LET against == strength(Contradicting(facts))
        support == strength(Supporting(facts))
    IN IF against = 0 \/ against < strength(facts) \/ against < support THEN StateOf(AtCeiling(facts))
       ELSE IF against = support THEN "EVIDENCE_CONFLICT_UNRESOLVED"
       ELSE "STATIC_MODEL_CONTRADICTED"

Key(f) == <<f.scope, f.model>>

Group(facts, key) == {f \in facts : Key(f) = key}

\* A fact without a scope is in no group.
assessments(facts) ==
    {[scope |-> key[1], model |-> key[2], state |-> assess_group(Group(facts, key)), ceiling |-> strength(Group(facts, key))] :
        key \in {Key(f) : f \in {g \in facts : g.scope # ""}}}

count_state(as, state) == Cardinality({a \in as : a.state = state})

aggregate_guidance(as) ==
    LET Some(state) == count_state(as, state) # 0
        Partial == Some("STOCK_MODEL_PARTIAL")
        WeakOrPartial == Some("UNRESOLVED_SEMANTICS") \/ Some("MODEL_ONLY_CONCLUSION") \/ Some("NO_EXACT_REFERENCE") \/ Partial
    IN IF Some("STATIC_MODEL_CONTRADICTED") THEN "STATIC_MODEL_CONTRADICTED"
       ELSE IF Some("UNRESOLVED_MODIFIED_RUNTIME") THEN "UNRESOLVED_MODIFIED_RUNTIME"
       ELSE IF Some("EVIDENCE_CONFLICT_UNRESOLVED") THEN "EVIDENCE_CONFLICT_UNRESOLVED"
       ELSE IF WeakOrPartial
       THEN IF Some("STOCK_MODEL_SAFE") \/ Partial THEN "STOCK_MODEL_PARTIAL"
            ELSE IF Some("MODEL_ONLY_CONCLUSION") /\ ~Some("NO_EXACT_REFERENCE") THEN "MODEL_ONLY_CONCLUSION"
            ELSE "UNRESOLVED_SEMANTICS"
       ELSE IF Some("EXACT_MODIFIED_SEMANTICS") THEN "EXACT_MODIFIED_SEMANTICS"
       ELSE IF Some("STOCK_MODEL_SAFE") THEN "STOCK_MODEL_SAFE"
       ELSE "UNRESOLVED_SEMANTICS"

build_model_trust_report(facts) ==
    [assessments |-> assessments(facts), guidance |-> aggregate_guidance(assessments(facts))]

NoAssessment == [scope |-> "", model |-> "", state |-> "UNRESOLVED_SEMANTICS", ceiling |-> 0]

\* Without a model the answer must not depend on which one is met first.
find_model_trust_assessment(as, scope, model) ==
    LET hits == {a \in as : a.scope = scope /\ (model # "" => a.model = model)}
    IN IF Cardinality(hits) = 1 THEN CHOOSE a \in hits : TRUE ELSE NoAssessment

\* A reference that is known exactly and a modification that has been proven.
model_trust_fact_from_exact_reference_delta(e) ==
    LET complete == e.recovered /\ e.complete
    IN {f \in {[scope |-> e.scope, model |-> e.model, level |-> ExactKnownGoodReference, reference |-> "EXACT_DIFFERENCE",
                semantic |-> IF complete THEN "EXACT_DELTA_RECOVERED" ELSE "MODIFIED_UNRESOLVED",
                relation |-> "NONE", complete |-> complete]} : e.confirmed /\ e.proven /\ e.scope # ""}

---------------------------------------------------------------------------
(* A delta of one semantic scope, and what its evidence allows to claim.   *)

\* An artifact is identified by an id, a hash and its exact bytes.
exact_identity(a) == a.exact_bytes /\ a.artifact_id /\ a.sha256

payload_bound(relation) == relation \in {"DirectArtifactReference", "WrapperInvocation", "EmbeddedPayload", "RuntimeConsumesPayload"}

application_exact(proof) == proof \in {"ExactStaticScope", "ExactTransformClosure", "NativeOracle"}

PayloadBindingProven(e) == payload_bound(e.payload_relation) /\ exact_identity(e.payload) /\ e.payload_relation_evidence

PayloadApplicable(e) == PayloadBindingProven(e) /\ application_exact(e.application_proof) /\ e.application_evidence

ExactReference(e) ==
    e.reference_auth = "ExactKnownGoodReference" /\ exact_identity(e.reference) /\ e.reference_authentication

\* Higher native contradiction blocks every promotion; then what the delta
\* would need to be recovered decides.
Classification(e) ==
    IF e.native_contradiction \/ e.recoverability = "NativeRuntimeOracle" THEN "REQUIRES_NATIVE_RUNTIME_ORACLE"
    ELSE IF e.recoverability = "VmExecution" THEN "REQUIRES_VM_EXECUTION"
    ELSE IF ~PayloadBindingProven(e)
    THEN IF e.reference_auth # "None" \/ e.modification_proven \/ e.delta_items # 0 THEN "REFERENCE_ONLY_NO_PAYLOAD_BINDING" ELSE "UNRESOLVED"
    ELSE IF e.recoverability = "SemanticsTooGeneral" THEN "PAYLOAD_BOUND_BUT_SEMANTICS_TOO_GENERAL"
    ELSE IF e.recoverability = "BoundedStructural" /\ exact_identity(e.modified_artifact) /\ e.modification_proven /\ e.delta_items # 0
    THEN "BOUNDED_STRUCTURAL_DELTA"
    ELSE IF /\ e.recoverability = "Declarative"
            /\ ExactReference(e) /\ exact_identity(e.modified_artifact)
            /\ e.modification_proven /\ e.delta_items # 0
            /\ e.delta_completeness = "CompleteForDeclaredScope"
            /\ PayloadApplicable(e) /\ e.evidence_ceiling >= ExactKnownGoodReference
    THEN "EXACT_DECLARATIVE_DELTA"
    ELSE "UNRESOLVED"

assess_semantic_delta(e) ==
    LET named == e.scope # "" /\ e.model # ""
    IN [valid |-> named /\ (e.native_contradiction => e.native_contradiction_evidence),
        classification |-> IF named /\ (e.native_contradiction => e.native_contradiction_evidence) THEN Classification(e) ELSE "UNRESOLVED",
        payload_binding_proven |-> named /\ PayloadBindingProven(e),
        payload_applicable |-> named /\ PayloadApplicable(e),
        scope_complete |-> named /\ e.delta_completeness = "CompleteForDeclaredScope"]

exact_delta_for_scope(a) == a.classification = "EXACT_DECLARATIVE_DELTA"

\* A proven modification against an exact reference, and the native contradiction.
model_trust_facts_from_semantic_delta(e) ==
    LET exact == exact_delta_for_scope(assess_semantic_delta(e))
        Fact(level, reference, semantic, relation, complete) ==
            [scope |-> e.scope, model |-> e.model, level |-> level, reference |-> reference,
             semantic |-> semantic, relation |-> relation, complete |-> complete]
    IN {f \in {Fact(ExactKnownGoodReference, "EXACT_DIFFERENCE",
                    IF exact THEN "EXACT_DELTA_RECOVERED" ELSE "MODIFIED_UNRESOLVED", "NONE", exact)} :
            assess_semantic_delta(e).valid /\ ExactReference(e) /\ e.modification_proven}
       \cup {f \in {Fact(e.native_contradiction_level, "NOT_APPLICABLE", "UNRESOLVED", "CONTRADICTS_MODEL", FALSE)} :
            assess_semantic_delta(e).valid /\ e.native_contradiction}
=============================================================================
