----------------------------- MODULE Assessment -----------------------------
(* What the worker makes of one candidate: its classification and evidence   *)
(* gate, its heat, its policy decision, and what the public export makes of  *)
(* the heat.  All of it is pure (worker/src/scam_radar: domain.py,           *)
(* durable.py, evidence/gate.py, scoring/heat.py, policy/engine.py,          *)
(* storage/public_export.py); Candidate puts it into the life of a pattern.  *)
(* Dates are days counted from a first one.                                  *)
EXTENDS Integers, FiniteSets

Kinds == {"police", "court", "regulator", "state_media", "media"}
Tiers == {"A1", "A2", "B", "C"}
Levels == {"A", "B", "C", "D"}
RiskTypes == {"confirmed_scam", "risk_alert"}
LegalStatuses == {"warning", "reported_case", "enforcement", "charge", "judgment", "unknown"}
ClaimTypes == {"official_case", "regulator_warning", "court_record", "media_report", "unknown"}
Labels == {"none", "police", "court", "regulator"}
NoDate == -1

-----------------------------------------------------------------------------
(* Classification.                                                           *)

\* Mutant: a police warning is labelled like a police case.
SourceClassification_AnyPoliceStatus(source, status) ==
    IF source = [kind |-> "police", tier |-> "A1"]
        THEN [risk |-> "confirmed_scam", label |-> "police"]
    ELSE IF source = [kind |-> "court", tier |-> "A1"] /\ status = "judgment"
        THEN [risk |-> "confirmed_scam", label |-> "court"]
    ELSE IF source.kind = "regulator" /\ source.tier \in {"A1", "A2"} /\ status \in {"warning", "enforcement"}
        THEN [risk |-> "risk_alert", label |-> "regulator"]
    ELSE [risk |-> "risk_alert", label |-> "none"]

\* _source_classification, and the same table in submit_new_pattern_candidate:
\* the risk type and the evidence label ("none" for null) of a source's report.
SourceClassification(source, status) ==
    IF source = [kind |-> "police", tier |-> "A1"] /\ status \in {"reported_case", "enforcement", "charge"}
        THEN [risk |-> "confirmed_scam", label |-> "police"]
    ELSE IF source = [kind |-> "court", tier |-> "A1"] /\ status = "judgment"
        THEN [risk |-> "confirmed_scam", label |-> "court"]
    ELSE IF source.kind = "regulator" /\ source.tier \in {"A1", "A2"} /\ status \in {"warning", "enforcement"}
        THEN [risk |-> "risk_alert", label |-> "regulator"]
    ELSE [risk |-> "risk_alert", label |-> "none"]

ClaimType(kind) ==
    CASE kind = "police" -> "official_case"
      [] kind = "court" -> "court_record"
      [] kind = "regulator" -> "regulator_warning"
      [] OTHER -> "media_report"

-----------------------------------------------------------------------------
(* The evidence gate: an evidence record is [tier, claim, family, origin,    *)
(* usable], usable when accepted, accessible and available.                  *)

Usable(candidate) == {e \in candidate.evidence : e.usable}

Official(evidence) ==
    \E e \in evidence :
        \/ e.tier = "A1" /\ e.claim \in {"official_case", "court_record"}
        \/ e.tier = "A2" /\ e.claim = "regulator_warning"

\* Mutant: a tier C report counts as the second source.
Corroborated_CountsTierC(evidence) ==
    /\ Cardinality({e.family : e \in evidence}) >= 2
    /\ Cardinality({e.origin : e \in evidence}) >= 2

Corroborated(evidence) ==
    /\ Cardinality({e.family : e \in evidence}) >= 2
    /\ Cardinality({e.origin : e \in evidence}) >= 2
    /\ \A e \in evidence : e.tier # "C"

LevelOf(evidence) ==
    IF Official(evidence) THEN "A" ELSE IF Corroborated(evidence) THEN "B" ELSE "C"

GateReasons(candidate, evidence, level) ==
    (IF candidate.supported THEN {} ELSE {"claim_not_supported"}) \cup
    (IF level = "C" THEN {"insufficient_evidence"} ELSE {}) \cup
    (IF level = "C" /\ Cardinality(evidence) > 1 THEN {"sources_not_independent"} ELSE {})

Verdict(outcome, level, reasons) == [outcome |-> outcome, level |-> level, reasons |-> reasons]

\* evaluate_evidence.  Its four content flags and its duplicate flag are never
\* set by a caller in the repository; candidate.blockers stands for the flags.
Gate(candidate) ==
    LET evidence == Usable(candidate)
        level == LevelOf(evidence)
        reasons == GateReasons(candidate, evidence, level)
    IN  IF candidate.duplicate THEN Verdict("duplicate", "D", {"duplicate_pattern"})
        ELSE IF candidate.blockers # {} THEN Verdict("blocked", "D", candidate.blockers)
        ELSE IF evidence = {} THEN Verdict("needs_more_evidence", "C", {"source_unavailable", "insufficient_evidence"})
        ELSE IF candidate.risk = "risk_alert" /\ candidate.status \in {"charge", "judgment"}
            THEN Verdict("blocked", "D", reasons \cup {"legal_or_attribution_risk"})
        ELSE IF reasons # {} THEN Verdict("needs_more_evidence", level, reasons)
        ELSE Verdict("eligible_for_policy", level, {})

-----------------------------------------------------------------------------
(* Heat.                                                                     *)

TargetPoints == [older_adults |-> 30, retirees_or_pensions |-> 27, broad_with_older_risk |-> 20, general_adults |-> 10,
                 incidental_older_relevance |-> 5, none |-> 0, unknown |-> 0]
HarmPoints == [irreversible_or_severe |-> 20, major_loss_or_takeover |-> 15, moderate_loss |-> 10, data_or_grooming |-> 5,
               unknown |-> 0]
SpreadPoints == [national_or_three_provinces |-> 15, two_provinces |-> 12, multiple_cities |-> 10,
                 multiple_cases_one_region |-> 7, single_case |-> 3, unknown |-> 0]
NoveltyPoints == [new_mechanism |-> 15, new_technology |-> 13, new_script_or_step |-> 10, new_packaging |-> 6,
                  minor_variation |-> 3, longstanding_unchanged |-> 2, unknown |-> 0]

\* Mutant: the last day of the window has no points.
FreshnessPoints_OneDayShort(changed, asOf) ==
    LET age == asOf - changed
    IN  IF changed = NoDate THEN 0
        ELSE IF age <= 3 THEN 20 ELSE IF age <= 7 THEN 16 ELSE IF age <= 14 THEN 12 ELSE IF age < 30 THEN 6 ELSE 0

\* freshness_points, for a change that is not in the future (it raises then).
FreshnessPoints(changed, asOf) ==
    LET age == asOf - changed
    IN  IF changed = NoDate THEN 0
        ELSE IF age <= 3 THEN 20 ELSE IF age <= 7 THEN 16 ELSE IF age <= 14 THEN 12 ELSE IF age <= 30 THEN 6 ELSE 0

\* Current attention: level A or B and a material change in the last 30 days.
Active(level, changed, asOf) ==
    level \in {"A", "B"} /\ changed # NoDate /\ asOf - changed \in 0 .. 30

Band(score) ==
    IF score >= 80 THEN "immediate" ELSE IF score >= 65 THEN "recent" ELSE IF score >= 50 THEN "observe" ELSE "database"

Score(parts) == parts.target + parts.freshness + parts.harm + parts.spread + parts.novelty

\* calculate_heat: the five components, of which score and band follow.
Heat(features, changed, asOf, level) ==
    [asOf |-> asOf, active |-> Active(level, changed, asOf),
     parts |-> [target |-> TargetPoints[features.target], freshness |-> FreshnessPoints(changed, asOf),
                harm |-> HarmPoints[features.harm], spread |-> SpreadPoints[features.spread],
                novelty |-> NoveltyPoints[features.novelty]]]

\* COMPONENT_MAXIMA of the exporter, repeated by assert_release_exportable.
Maxima == [target |-> 30, freshness |-> 20, harm |-> 20, spread |-> 15, novelty |-> 15]

PartsValid(parts) == \A c \in DOMAIN Maxima : parts[c] \in 0 .. Maxima[c]

\* What a page must name, of all that may be missing from a draft.
PublicFields == {"hook", "requested action"}

\* map_database_release for one pattern: what it raises on, and the heat it shows.
\* text_list raises on a missing text and on a blank one.
Exportable(revision, heat) ==
    revision.changed # NoDate /\ revision.names = PublicFields /\ ~revision.blank /\ PartsValid(heat.parts)

Shown(revision, heat) ==
    [score |-> Score(heat.parts), band |-> Band(Score(heat.parts)), freshness |-> heat.parts.freshness,
     active |-> Active(revision.level, revision.changed, heat.asOf)]

-----------------------------------------------------------------------------
(* The publication policy, with the rule flags of publication-policy-v0.1.   *)
(* Confidences are percentages; Unknown stands for None.                     *)
Unknown == -1
RelevanceFloor == 90
MatchFloor == 85

Settings == {s \in [shadow : BOOLEAN, live : BOOLEAN] : ~(s.shadow /\ s.live)}

BaseReasons(input) ==
    {r \in {"policy_class", "evidence_level", "first_publication", "material_change", "public_copy_change",
            "claim_support", "evidence_verification"} :
        \/ r = "policy_class" /\ input.type # "pattern_update"
        \/ r = "evidence_level" /\ input.level # "A"
        \/ r = "first_publication" /\ ~input.existing
        \/ r = "material_change" /\ input.material
        \/ r = "public_copy_change" /\ input.copyChanged
        \/ r = "claim_support" /\ ~input.supported
        \/ r = "evidence_verification" /\ ~input.verified}

ConfidenceReasons(confidence) ==
    {r \in {"relevance_confidence", "pattern_match_confidence"} :
        \/ r = "relevance_confidence" /\ confidence.relevance < RelevanceFloor
        \/ r = "pattern_match_confidence" /\ confidence.match < MatchFloor}

Decision(rules, outcome, reasons, downgraded, authorized) ==
    [rules |-> rules, outcome |-> outcome, reasons |-> reasons, downgraded |-> downgraded, authorized |-> authorized]

\* Mutant: the confidence is looked at before the rules.
EvaluatePolicy_ConfidenceFirst(settings, input, confidence) ==
    IF input.outcome # "eligible_for_policy"
        THEN Decision("blocked", "blocked", {"evidence_gate_not_eligible"}, FALSE, FALSE)
    ELSE IF ConfidenceReasons(confidence) # {}
        THEN Decision("safe_to_automate", "review_required", ConfidenceReasons(confidence), TRUE, FALSE)
    ELSE IF BaseReasons(input) # {}
        THEN Decision("review_required", "review_required", BaseReasons(input), FALSE, FALSE)
    ELSE Decision("safe_to_automate", "safe_to_automate", {"deterministic_policy_class_matched"}, FALSE,
                  settings.live /\ ~settings.shadow)

\* evaluate_policy.
EvaluatePolicy(settings, input, confidence) ==
    IF input.outcome # "eligible_for_policy"
        THEN Decision("blocked", "blocked", {"evidence_gate_not_eligible"}, FALSE, FALSE)
    ELSE IF BaseReasons(input) # {}
        THEN Decision("review_required", "review_required", BaseReasons(input), FALSE, FALSE)
    ELSE IF ConfidenceReasons(confidence) # {}
        THEN Decision("safe_to_automate", "review_required", ConfidenceReasons(confidence), TRUE, FALSE)
    ELSE Decision("safe_to_automate", "safe_to_automate", {"deterministic_policy_class_matched"}, FALSE,
                  settings.live /\ ~settings.shadow)

\* PolicyDecision.authority_matches_outcome: what the model's validator lets through.
Admissible(settings, d) ==
    /\ IF d.downgraded THEN d.rules = "safe_to_automate" /\ d.outcome = "review_required" ELSE d.outcome = d.rules
    /\ d.authorized => d.outcome = "safe_to_automate" /\ ~settings.shadow

\* Mutant: what is safe is not shown to anyone in shadow mode.
ShouldQueue_ReviewOnly(d) == d.outcome = "review_required"

\* The offline pipeline's should_queue_review.
ShouldQueue(d) ==
    d.outcome = "review_required" \/ (d.outcome = "safe_to_automate" /\ ~d.authorized)
=============================================================================
