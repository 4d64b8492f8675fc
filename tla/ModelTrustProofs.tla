-------------------------- MODULE ModelTrustProofs --------------------------
(***************************************************************************)
(* What the rating of models guarantees for every set of facts and every   *)
(* delta: evidence below the strongest never matters, the guidance is no   *)
(* better than the worst group, and a delta is promoted only when every    *)
(* part of its evidence is there and nothing native contradicts it.        *)
(***************************************************************************)
EXTENDS ModelTrust, FiniteSetTheorems, TLAPS

Leveled(facts) == \A f \in facts : f.level \in Levels

\* There is a strongest level, and strength returns it.
LEMMA Strength ==
    ASSUME NEW G, Leveled(G), G # {}
    PROVE  /\ strength(G) \in Levels
           /\ \E f \in G : f.level = strength(G)
           /\ \A f \in G : f.level <= strength(G)
<1> DEFINE Top(n) == (\E f \in G : f.level = n) /\ \A f \in G : f.level <= n
<1>1. \A f \in G : f.level \in Nat /\ f.level <= 6
  BY DEF Leveled, Levels
<1>2. \E n \in Levels : Top(n)
  <2>1. CASE \E f \in G : f.level = 6
    BY <1>1, <2>1 DEF Levels
  <2>2. CASE (\A f \in G : f.level <= 5) /\ \E f \in G : f.level = 5
    BY <1>1, <2>2 DEF Levels
  <2>3. CASE (\A f \in G : f.level <= 4) /\ \E f \in G : f.level = 4
    BY <1>1, <2>3 DEF Levels
  <2>4. CASE (\A f \in G : f.level <= 3) /\ \E f \in G : f.level = 3
    BY <1>1, <2>4 DEF Levels
  <2>5. CASE (\A f \in G : f.level <= 2) /\ \E f \in G : f.level = 2
    BY <1>1, <2>5 DEF Levels
  <2>6. CASE (\A f \in G : f.level <= 1) /\ \E f \in G : f.level = 1
    BY <1>1, <2>6 DEF Levels
  <2>7. CASE \A f \in G : f.level <= 0
    BY <1>1, <2>7 DEF Levels
  <2> QED
    BY <1>1, <2>1, <2>2, <2>3, <2>4, <2>5, <2>6, <2>7
<1>3. strength(G) = CHOOSE n \in Levels : Top(n)
  BY DEF strength
<1> HIDE DEF Top
<1>4. strength(G) \in Levels /\ Top(strength(G))
  BY <1>2, <1>3
<1> QED
  BY <1>4 DEF Top

\* Only one level is the strongest.
LEMMA StrengthIs ==
    ASSUME NEW G, Leveled(G), NEW n \in Levels,
           \E f \in G : f.level = n, \A f \in G : f.level <= n
    PROVE  strength(G) = n
<1>1. G # {}
  OBVIOUS
<1>2. /\ strength(G) \in Levels
      /\ \E f \in G : f.level = strength(G)
      /\ \A f \in G : f.level <= strength(G)
  BY <1>1, Strength
<1> QED
  BY <1>2 DEF Levels

\* A part of the facts reaches the ceiling if and only if one of its facts is
\* among the strongest ones.
LEMMA PartAtCeiling ==
    ASSUME NEW G, Leveled(G), G # {}, NEW P \in SUBSET G
    PROVE  /\ strength(P) \in Levels
           /\ strength(P) <= strength(G)
           /\ strength(G) > 0 => (strength(P) = strength(G) <=> P \cap AtCeiling(G) # {})
<1>1. /\ strength(G) \in Levels
      /\ \A f \in G : f.level <= strength(G)
  BY Strength
<1>2. Leveled(P)
  BY DEF Leveled
<1>3. CASE P = {}
  <2>1. strength(P) = 0
    BY <1>3 DEF strength
  <2> QED
    BY <1>1, <1>3, <2>1 DEF Levels
<1>4. CASE P # {}
  <2>1. /\ strength(P) \in Levels
        /\ \E f \in P : f.level = strength(P)
        /\ \A f \in P : f.level <= strength(P)
    BY <1>2, <1>4, Strength
  <2>2. strength(P) <= strength(G)
    BY <1>1, <2>1
  <2>3. ASSUME strength(P) = strength(G) PROVE P \cap AtCeiling(G) # {}
    BY <2>1, <2>3 DEF AtCeiling
  <2>4. ASSUME P \cap AtCeiling(G) # {} PROVE strength(P) = strength(G)
    <3>1. PICK f \in P : f.level = strength(G)
      BY <2>4 DEF AtCeiling
    <3> QED
      BY <1>1, <2>1, <2>2, <3>1 DEF Levels
  <2> QED
    BY <2>1, <2>2, <2>3, <2>4
<1> QED
  BY <1>3, <1>4

\* What a group of facts is taken for depends on its strongest facts alone
\* (assess_group): a contradiction counts only there, and only a support of
\* the same strength leaves it open.
THEOREM TheCeilingDecides ==
    ASSUME NEW G, Leveled(G), G # {}
    PROVE  LET top == AtCeiling(G)
           IN assess_group(G) =
                IF strength(G) = 0 \/ Contradicting(top) = {} THEN StateOf(top)
                ELSE IF Supporting(top) # {} THEN "EVIDENCE_CONFLICT_UNRESOLVED"
                ELSE "STATIC_MODEL_CONTRADICTED"
<1> DEFINE top == AtCeiling(G)
           against == strength(Contradicting(G))
           support == strength(Supporting(G))
<1>1. Contradicting(G) \in SUBSET G /\ Supporting(G) \in SUBSET G
  BY DEF Contradicting, Supporting
<1>2. strength(G) \in Levels
  BY Strength
<1>3. /\ against \in Levels /\ against <= strength(G)
      /\ strength(G) > 0 => (against = strength(G) <=> Contradicting(G) \cap top # {})
  BY <1>1, PartAtCeiling
<1>4. /\ support \in Levels /\ support <= strength(G)
      /\ strength(G) > 0 => (support = strength(G) <=> Supporting(G) \cap top # {})
  BY <1>1, PartAtCeiling
<1>5. Contradicting(G) \cap top = Contradicting(top) /\ Supporting(G) \cap top = Supporting(top)
  BY DEF Contradicting, Supporting, AtCeiling
<1>6. assess_group(G) = IF against = 0 \/ against < strength(G) \/ against < support THEN StateOf(top)
                        ELSE IF against = support THEN "EVIDENCE_CONFLICT_UNRESOLVED"
                        ELSE "STATIC_MODEL_CONTRADICTED"
  BY DEF assess_group
<1> HIDE DEF top, against, support
<1>7. CASE strength(G) = 0
  <2>1. against = 0
    BY <1>2, <1>3, <1>7 DEF Levels
  <2> QED
    BY <1>6, <1>7, <2>1 DEF top
<1>8. CASE strength(G) # 0
  <2>1. strength(G) > 0
    BY <1>2, <1>8 DEF Levels
  <2>2. CASE Contradicting(top) = {}
    <3>1. against < strength(G)
      BY <1>2, <1>3, <1>5, <2>1, <2>2 DEF Levels
    <3> QED
      BY <1>6, <2>2, <3>1 DEF top
  <2>3. CASE Contradicting(top) # {}
    <3>1. against = strength(G)
      BY <1>3, <1>5, <2>1, <2>3
    <3>2. ~(against = 0 \/ against < strength(G) \/ against < support)
      BY <1>2, <1>4, <2>1, <3>1 DEF Levels
    <3>3. against = support <=> Supporting(top) # {}
      BY <1>4, <1>5, <2>1, <3>1
    <3> QED
      BY <1>6, <1>8, <2>3, <3>2, <3>3 DEF top
  <2> QED
    BY <2>2, <2>3
<1> QED
  BY <1>7, <1>8

\* Evidence weaker than the strongest of its group changes nothing about the
\* group (assess_group), whatever it says of the model.
THEOREM LowerEvidenceNeverWins ==
    ASSUME NEW G, Leveled(G), G # {}, NEW f, f.level \in Levels, f.level < strength(G)
    PROVE  assess_group(G \cup {f}) = assess_group(G)
<1> DEFINE H == G \cup {f}
<1>1. /\ strength(G) \in Levels
      /\ \E g \in G : g.level = strength(G)
      /\ \A g \in G : g.level <= strength(G)
  BY Strength
<1>2. Leveled(H) /\ H # {}
  BY DEF Leveled
<1>3. \A h \in H : h.level <= strength(G)
  BY <1>1 DEF Levels
<1>4. strength(H) = strength(G)
  <2>1. \E h \in H : h.level = strength(G)
    BY <1>1
  <2> HIDE DEF H
  <2> QED
    BY <1>1, <1>2, <1>3, <2>1, StrengthIs
<1>5. AtCeiling(H) = AtCeiling(G)
  <2>1. f.level # strength(G)
    BY <1>1 DEF Levels
  <2> QED
    BY <1>4, <2>1 DEF AtCeiling
<1> HIDE DEF H
<1>6. LET top == AtCeiling(H)
      IN assess_group(H) = IF strength(H) = 0 \/ Contradicting(top) = {} THEN StateOf(top)
                           ELSE IF Supporting(top) # {} THEN "EVIDENCE_CONFLICT_UNRESOLVED"
                           ELSE "STATIC_MODEL_CONTRADICTED"
  BY <1>2, TheCeilingDecides
<1>7. LET top == AtCeiling(G)
      IN assess_group(G) = IF strength(G) = 0 \/ Contradicting(top) = {} THEN StateOf(top)
                           ELSE IF Supporting(top) # {} THEN "EVIDENCE_CONFLICT_UNRESOLVED"
                           ELSE "STATIC_MODEL_CONTRADICTED"
  BY TheCeilingDecides
<1>8. assess_group(H) = assess_group(G)
  BY <1>4, <1>5, <1>6, <1>7
<1> QED
  BY <1>8 DEF H

\* Counting the groups of a state tells whether there is one.
LEMMA SomeIff ==
    ASSUME NEW as, IsFiniteSet(as), NEW s
    PROVE  count_state(as, s) # 0 <=> \E a \in as : a.state = s
<1>1. IsFiniteSet({a \in as : a.state = s})
  BY FS_Subset
<1>2. Cardinality({a \in as : a.state = s}) = 0 <=> {a \in as : a.state = s} = {}
  BY <1>1, FS_EmptySet
<1> QED
  BY <1>2 DEF count_state

\* The guidance given over all groups (aggregate_guidance) promises no more
\* than every group supports: a safe model needs every group to be safe, exact
\* semantics need every group to be safe or exactly modified, and one group
\* that contradicts the model decides for all.
THEOREM GuidanceIsEarned ==
    ASSUME NEW as, IsFiniteSet(as), \A a \in as : a.state \in TrustStates
    PROVE  LET guidance == aggregate_guidance(as)
           IN /\ guidance = "STOCK_MODEL_SAFE" => as # {} /\ \A a \in as : a.state = "STOCK_MODEL_SAFE"
              /\ guidance = "EXACT_MODIFIED_SEMANTICS" =>
                    /\ \E a \in as : a.state = "EXACT_MODIFIED_SEMANTICS"
                    /\ \A a \in as : a.state \in {"STOCK_MODEL_SAFE", "EXACT_MODIFIED_SEMANTICS"}
              /\ guidance = "STATIC_MODEL_CONTRADICTED" <=> \E a \in as : a.state = "STATIC_MODEL_CONTRADICTED"
<1> DEFINE Some(s) == count_state(as, s) # 0
           Weak == Some("UNRESOLVED_SEMANTICS") \/ Some("MODEL_ONLY_CONCLUSION") \/ Some("NO_EXACT_REFERENCE") \/ Some("STOCK_MODEL_PARTIAL")
<1>1. \A s : Some(s) <=> \E a \in as : a.state = s
  BY SomeIff
<1>2. aggregate_guidance(as) =
        IF Some("STATIC_MODEL_CONTRADICTED") THEN "STATIC_MODEL_CONTRADICTED"
        ELSE IF Some("UNRESOLVED_MODIFIED_RUNTIME") THEN "UNRESOLVED_MODIFIED_RUNTIME"
        ELSE IF Some("EVIDENCE_CONFLICT_UNRESOLVED") THEN "EVIDENCE_CONFLICT_UNRESOLVED"
        ELSE IF Weak
        THEN IF Some("STOCK_MODEL_SAFE") \/ Some("STOCK_MODEL_PARTIAL") THEN "STOCK_MODEL_PARTIAL"
             ELSE IF Some("MODEL_ONLY_CONCLUSION") /\ ~Some("NO_EXACT_REFERENCE") THEN "MODEL_ONLY_CONCLUSION"
             ELSE "UNRESOLVED_SEMANTICS"
        ELSE IF Some("EXACT_MODIFIED_SEMANTICS") THEN "EXACT_MODIFIED_SEMANTICS"
        ELSE IF Some("STOCK_MODEL_SAFE") THEN "STOCK_MODEL_SAFE"
        ELSE "UNRESOLVED_SEMANTICS"
  BY DEF aggregate_guidance
<1> HIDE DEF Some
<1>3. ASSUME aggregate_guidance(as) \in {"STOCK_MODEL_SAFE", "EXACT_MODIFIED_SEMANTICS"}
      PROVE  \A a \in as : a.state \in {"STOCK_MODEL_SAFE", "EXACT_MODIFIED_SEMANTICS"}
  <2>1. ~Some("STATIC_MODEL_CONTRADICTED") /\ ~Some("UNRESOLVED_MODIFIED_RUNTIME") /\ ~Some("EVIDENCE_CONFLICT_UNRESOLVED") /\ ~Weak
    BY <1>2, <1>3
  <2> QED
    BY <1>1, <2>1 DEF TrustStates
<1>4. ASSUME aggregate_guidance(as) = "STOCK_MODEL_SAFE"
      PROVE  as # {} /\ \A a \in as : a.state = "STOCK_MODEL_SAFE"
  <2>1. ~Some("EXACT_MODIFIED_SEMANTICS") /\ Some("STOCK_MODEL_SAFE")
    BY <1>2, <1>4
  <2> QED
    BY <1>1, <1>3, <1>4, <2>1
<1>5. ASSUME aggregate_guidance(as) = "EXACT_MODIFIED_SEMANTICS"
      PROVE  \E a \in as : a.state = "EXACT_MODIFIED_SEMANTICS"
  BY <1>1, <1>2, <1>5
<1>6. aggregate_guidance(as) = "STATIC_MODEL_CONTRADICTED" <=> Some("STATIC_MODEL_CONTRADICTED")
  BY <1>2
<1> QED
  BY <1>1, <1>3, <1>4, <1>5, <1>6

\* A delta is classified exact (assess_semantic_delta) only on complete evidence:
\* an authenticated reference, an identified artifact whose modification is
\* proven, a complete list of changes, a payload that is bound to it and to
\* which it applies, and nothing native that contradicts it.
THEOREM ExactDeltaIsProven ==
    ASSUME NEW e, exact_delta_for_scope(assess_semantic_delta(e))
    PROVE  /\ assess_semantic_delta(e).valid
           /\ ~e.native_contradiction
           /\ ExactReference(e) /\ exact_identity(e.modified_artifact) /\ e.modification_proven
           /\ e.delta_completeness = "CompleteForDeclaredScope" /\ e.delta_items # 0
           /\ PayloadApplicable(e)
           /\ e.evidence_ceiling >= ExactKnownGoodReference
<1>1. assess_semantic_delta(e).classification = "EXACT_DECLARATIVE_DELTA"
  BY DEF exact_delta_for_scope
<1>2. assess_semantic_delta(e).valid /\ Classification(e) = "EXACT_DECLARATIVE_DELTA"
  BY <1>1 DEF assess_semantic_delta
<1>3. ~e.native_contradiction
  BY <1>2 DEF Classification
<1>4. /\ ExactReference(e) /\ exact_identity(e.modified_artifact)
      /\ e.modification_proven /\ e.delta_items # 0
      /\ e.delta_completeness = "CompleteForDeclaredScope"
      /\ PayloadApplicable(e) /\ e.evidence_ceiling >= ExactKnownGoodReference
  BY <1>2 DEF Classification
<1> QED
  BY <1>2, <1>3, <1>4
=============================================================================
