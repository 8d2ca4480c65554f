------------------------------ MODULE Candidate ------------------------------
(* The life of one pattern from its first report to the public page, as far  *)
(* as what is said about it goes: reports are assessed and submitted         *)
(* (durable.py _process_claim), reviewers approve or reject, a release pins  *)
(* a revision and a heat snapshot, the exporter shows them.  Days pass in    *)
(* between.  With offline = TRUE the program is the offline pipeline instead *)
(* (pipeline.py), which assesses each fixture pattern once and keeps nothing *)
(* but its queue.                                                            *)
EXTENDS Assessment, Sequences

CONSTANTS
    Dates,         \* the days on which something is reported, decided or released
    FirstReports,  \* the [kind, tier, status] a first report may have
    LaterReports,  \* the same for the reports that match the pattern
    MaxReports     \* bound: reports submitted

Reports == FirstReports \cup LaterReports

ASSUME CandidateAssumption ==
    /\ 0 \in Dates /\ Dates \subseteq Nat /\ IsFiniteSet(Dates)
    /\ Reports \subseteq [kind : Kinds, tier : Tiers, status : LegalStatuses]
    /\ MaxReports \in Nat \ {0}

\* The regulators of the registry have tier A2: of one with A1 the gate thinks
\* less than submit_new_pattern_candidate does (README, divergences).
ASSUME RegistryAssumption ==
    \A report \in FirstReports : ~(report.kind = "regulator" /\ report.tier = "A1")

VARIABLES
    today,     \* the date
    pattern,   \* its lifecycle status, approved revision and draft
    heats,     \* its heat snapshots, in the order they were inserted
    assessed,  \* the open assessment: what was judged, and the verdict of the gate
    waiting,   \* an approved revision waits for a release
    release,   \* what the last release shows of the pattern
    offline    \* the command: the offline pipeline, or the collection

vars == <<today, pattern, heats, assessed, waiting, release, offline>>

NoRevision == [by |-> 0, seen |-> NoDate, changed |-> NoDate, level |-> "C", label |-> "none", risk |-> "risk_alert", status |-> "unknown",
               reporter |-> "media", names |-> {}, blank |-> FALSE, supported |-> FALSE]
NoRelease == [revision |-> NoRevision, heat |-> [by |-> 0, asOf |-> 0, parts |-> [c \in DOMAIN Maxima |-> 0]]]
NoAssessment == [by |-> 0, candidate |-> [evidence |-> {}], verdict |-> Verdict("duplicate", "D", {}), changed |-> NoDate,
                 input |-> [type |-> "none"]]

Init ==
    /\ today = 0 /\ offline \in BOOLEAN
    /\ pattern = [status |-> "none", approved |-> NoRevision, draft |-> NoRevision]
    /\ heats = <<>> /\ assessed = NoAssessment
    /\ waiting = FALSE /\ release = NoRelease

Revisions ==
    [by : 0 .. MaxReports, seen : Dates \cup {NoDate}, changed : Dates \cup {NoDate}, level : {"A", "C"}, label : Labels, risk : RiskTypes,
     status : LegalStatuses, reporter : Kinds, names : SUBSET PublicFields, blank : BOOLEAN, supported : BOOLEAN]

CandidateTypeOK ==
    /\ today \in Dates /\ offline \in BOOLEAN /\ waiting \in BOOLEAN
    /\ pattern.status \in {"none", "evidence_pending", "review_ready", "rejected"}
    /\ pattern.approved \in Revisions /\ pattern.draft \in Revisions
    /\ Len(heats) <= MaxReports
    /\ \A i \in DOMAIN heats : heats[i].asOf \in Dates /\ heats[i].by = i /\ PartsValid(heats[i].parts)
    /\ assessed.by \in 0 .. MaxReports /\ assessed.verdict.level \in Levels
    /\ release.revision \in Revisions /\ release.heat.asOf \in Dates

-----------------------------------------------------------------------------
(* Assessing a report.                                                       *)

Source(report) == [kind |-> report.kind, tier |-> report.tier]

\* The one evidence record the collection gives its gate.
Candidate(report, supported) ==
    [risk |-> SourceClassification(Source(report), report.status).risk, status |-> report.status,
     evidence |-> {[tier |-> report.tier, claim |-> ClaimType(report.kind), family |-> 1, origin |-> 1, usable |-> TRUE]},
     supported |-> supported, duplicate |-> FALSE, blockers |-> {}]

\* The date the heat is computed from: fresh is a first report or a material change.
MaterialDate(seen, fresh) == IF seen <= today /\ fresh THEN seen ELSE NoDate

\* What the collection knows of the heat's features: harm and spread never; the
\* target is unknown or this one, which has points.
Features(novelty) == [target |-> "broad_with_older_risk", novelty |-> novelty, harm |-> "unknown", spread |-> "unknown"]

Input(type, gate, material, supported) ==
    [type |-> type, outcome |-> gate.outcome, level |-> gate.level, existing |-> type = "pattern_update", material |-> material,
     copyChanged |-> type # "pattern_update", supported |-> supported, verified |-> TRUE]

\* Gate, heat snapshot and open assessment of report number n.
Assess(n, candidate, type, seen, material, features) ==
    LET gate == Gate(candidate)
        changed == MaterialDate(seen, type = "new_pattern" \/ material)
    IN  /\ heats' = Append(heats, [by |-> n, asOf |-> today, parts |-> Heat(features, changed, today, gate.level).parts])
        /\ assessed' = [by |-> n, candidate |-> candidate, verdict |-> gate, changed |-> changed,
                        input |-> Input(type, gate, material, candidate.supported)]

Reported == Len(heats)

\* What the claims of a first page can come to: _draft dates the change only when
\* the case happened on the day it was seen, and _literal_spans supports a claim
\* only when the page says it word for word; a page may name no hook or no action,
\* and the model a text that is blank.
Drafts == [report : FirstReports, seen : Dates, dated : BOOLEAN, supported : BOOLEAN, names : SUBSET PublicFields, blank : BOOLEAN]

\* Mutant: a report without a label has the level of a blocked one.
NewRevision_LevelD(draft) ==
    LET report == draft.report
        class == SourceClassification(Source(report), report.status)
    IN  [by |-> Reported + 1, seen |-> draft.seen, changed |-> IF draft.dated THEN draft.seen ELSE NoDate,
         level |-> IF class.label = "none" THEN "D" ELSE "A",
         label |-> class.label, risk |-> class.risk, status |-> report.status, reporter |-> report.kind,
         names |-> draft.names, blank |-> draft.blank, supported |-> draft.supported]

\* submit_new_pattern_candidate: its own table gives label and level.
NewRevision(draft) ==
    LET report == draft.report
        class == SourceClassification(Source(report), report.status)
    IN  [by |-> Reported + 1, seen |-> draft.seen, changed |-> IF draft.dated THEN draft.seen ELSE NoDate,
         level |-> IF class.label = "none" THEN "C" ELSE "A",
         label |-> class.label, risk |-> class.risk, status |-> report.status, reporter |-> report.kind,
         names |-> draft.names, blank |-> draft.blank, supported |-> draft.supported]

\* The check constraints of pattern_revisions.  An insert they refuse leaves
\* nothing of its candidate (README, divergences).
Insertable(r) ==
    /\ r.level \notin {"A", "B"} => r.label = "none"
    /\ r.label = "court" => r.status = "judgment"
    /\ r.risk = "risk_alert" => r.status \in {"warning", "enforcement", "unknown"}

SubmitNew ==
    /\ pattern.status = "none"
    /\ \E draft \in Drafts :
          LET revision == NewRevision(draft)
          IN  /\ Insertable(revision)
              /\ Assess(Reported + 1, Candidate(draft.report, draft.supported), "new_pattern", draft.seen, FALSE,
                        Features("unknown"))
              /\ pattern' = [pattern EXCEPT !.draft = revision,
                     !.status = IF draft.supported /\ revision.level = "A" /\ draft.dated /\ "requested action" \in draft.names
                                THEN "review_ready" ELSE "evidence_pending"]
    /\ UNCHANGED <<today, waiting, release, offline>>

Later(d, e) == IF d >= e THEN d ELSE e

\* submit_existing_pattern_evidence copies the approved revision and its spans.
\* A report from a later time moves the day it was last seen, a material change
\* also its own date, never back; no span copied spells out a date that moved.
UpdatedRevision(seen, later, material) ==
    LET old == pattern.approved
        Moves(date) == seen > date \/ (seen = date /\ later)
    IN  [old EXCEPT !.by = Reported + 1, !.seen = Later(@, seen), !.changed = IF material THEN Later(@, seen) ELSE @,
                    !.supported = @ /\ ~Moves(old.seen) /\ ~(material /\ Moves(old.changed))]

\* The gate is told that no claim of a matched report is missing.  Two times of
\* the same day may differ: later.
SubmitUpdate ==
    /\ pattern.status = "review_ready" /\ pattern.approved # NoRevision /\ pattern.draft = NoRevision
    /\ Reported < MaxReports
    /\ \E report \in LaterReports, seen \in Dates, later \in BOOLEAN,
          change \in {<<FALSE, "longstanding_unchanged">>, <<TRUE, "new_mechanism">>, <<TRUE, "unknown">>} :
          /\ Assess(Reported + 1, Candidate(report, TRUE), "pattern_update", seen, change[1], Features(change[2]))
          /\ pattern' = [pattern EXCEPT !.draft = UpdatedRevision(seen, later, change[1])]
    /\ UNCHANGED <<today, waiting, release, offline>>

-----------------------------------------------------------------------------
(* Deciding and releasing.                                                   *)

\* Mutant: the oldest snapshot of the newest day is taken.
LatestHeat_FirstOfTheDay ==
    heats[CHOOSE i \in DOMAIN heats : \A j \in DOMAIN heats :
              heats[j].asOf < heats[i].asOf \/ (heats[j].asOf = heats[i].asOf /\ j >= i)]

\* The newest by date, then by insertion, whatever became of its report.
LatestHeat ==
    heats[CHOOSE i \in DOMAIN heats : \A j \in DOMAIN heats :
              heats[j].asOf < heats[i].asOf \/ (heats[j].asOf = heats[i].asOf /\ j <= i)]

\* Mutant: the claims are not looked up among the spans.
Publishable_Unsupported(r) ==
    /\ r.level \in {"A", "B"} /\ r.label # "none"
    /\ r.reporter \in {"police", "court", "regulator"}
    /\ r.label = "police" => r.reporter = "police" /\ r.risk = "confirmed_scam" /\ r.status \in {"reported_case", "enforcement", "charge"}
    /\ r.label = "court" => r.reporter = "court" /\ r.risk = "confirmed_scam" /\ r.status = "judgment"
    /\ r.label = "regulator" => r.reporter = "regulator" /\ r.status \in {"warning", "enforcement"}

\* assert_publishable_revision: the label must suit the reporter, the risk type
\* and the legal status, and every claim have a span that says it word for word.
Publishable(r) ==
    /\ r.level \in {"A", "B"} /\ r.label # "none"
    /\ r.reporter \in {"police", "court", "regulator"}
    /\ r.label = "police" => r.reporter = "police" /\ r.risk = "confirmed_scam" /\ r.status \in {"reported_case", "enforcement", "charge"}
    /\ r.label = "court" => r.reporter = "court" /\ r.risk = "confirmed_scam" /\ r.status = "judgment"
    /\ r.label = "regulator" => r.reporter = "regulator" /\ r.status \in {"warning", "enforcement"}
    /\ r.supported

\* Mutant: the date of the heat is not compared with the revision's.
ReleaseExportable_Undated(r) ==
    /\ r.changed # NoDate /\ r.names = PublicFields
    /\ r.risk = "risk_alert" => r.status \in {"warning", "enforcement", "unknown"}
    /\ PartsValid(LatestHeat.parts)

\* assert_release_exportable, run when the publication is requested.
ReleaseExportable(r) ==
    /\ r.changed # NoDate /\ r.names = PublicFields
    /\ r.risk = "risk_alert" => r.status \in {"warning", "enforcement", "unknown"}
    /\ PartsValid(LatestHeat.parts) /\ LatestHeat.asOf >= r.changed

\* What the policy recorded for the open draft, in shadow mode as collected;
\* whether it blocks does not depend on the confidence.
Blocked ==
    EvaluatePolicy([shadow |-> TRUE, live |-> FALSE], assessed.input, [relevance |-> Unknown, match |-> Unknown]).outcome = "blocked"

\* A reviewer can approve what the policy has not blocked.
Approvable ==
    /\ pattern.draft # NoRevision /\ pattern.status # "rejected"
    /\ ~Blocked /\ assessed.input.supported
    /\ Publishable(pattern.draft) /\ ReleaseExportable(pattern.draft)

Approve ==
    /\ Approvable
    /\ pattern' = [status |-> "review_ready", approved |-> pattern.draft, draft |-> NoRevision]
    /\ waiting' = TRUE
    /\ assessed' = NoAssessment
    /\ UNCHANGED <<today, heats, release, offline>>

\* The snapshot of a rejected report stays where it is.
Reject ==
    /\ pattern.draft # NoRevision /\ pattern.status # "rejected"
    /\ pattern' = IF pattern.approved = NoRevision THEN [pattern EXCEPT !.status = "rejected"]
                  ELSE [pattern EXCEPT !.draft = NoRevision]
    /\ assessed' = NoAssessment
    /\ UNCHANGED <<today, heats, waiting, release, offline>>

\* prepare_public_release takes the latest snapshot of every changed pattern.
PrepareRelease ==
    /\ waiting
    /\ release' = [revision |-> pattern.approved, heat |-> LatestHeat]
    /\ waiting' = FALSE
    /\ UNCHANGED <<today, pattern, heats, assessed, offline>>

DaysPass ==
    /\ today' \in Dates /\ today' > today
    /\ UNCHANGED <<pattern, heats, assessed, waiting, release, offline>>

-----------------------------------------------------------------------------
(* The offline pipeline: one pattern of the fixture release.                 *)

FixtureEvidence(tiers, claim) ==
    {[tier |-> tiers[i], claim |-> claim, family |-> i, origin |-> i, usable |-> TRUE] : i \in DOMAIN tiers}

AssessFixture ==
    /\ assessed = NoAssessment
    /\ \E tiers \in {<<t>> : t \in Tiers} \cup (Tiers \X Tiers), claim \in ClaimTypes, risk \in RiskTypes, status \in LegalStatuses,
          type \in {"new_pattern", "pattern_update"}, material, copyChanged, verified \in BOOLEAN :
          LET candidate == [risk |-> risk, status |-> status, evidence |-> FixtureEvidence(tiers, claim), supported |-> TRUE,
                            duplicate |-> FALSE, blockers |-> {}]
              gate == Gate(candidate)
          IN  assessed' = [by |-> 1, candidate |-> candidate, verdict |-> gate, changed |-> 0,
                           input |-> [type |-> type, outcome |-> gate.outcome, level |-> gate.level,
                                      existing |-> type = "pattern_update", material |-> material, copyChanged |-> copyChanged,
                                      supported |-> TRUE, verified |-> verified]]
    /\ UNCHANGED <<today, pattern, heats, waiting, release, offline>>

Next ==
    \/ ~offline /\ (SubmitNew \/ SubmitUpdate \/ Approve \/ Reject \/ PrepareRelease \/ DaysPass)
    \/ offline /\ AssessFixture

Spec == Init /\ [][Next]_vars

-----------------------------------------------------------------------------
(* Properties.                                                               *)

\* Three judges look at the authority of a first report: the gate, the table of
\* submit_new_pattern_candidate and the checks of the approval.  What the second
\* presents as ready for review is blocked by neither of the others, unless it
\* reports a day that has not come or names no hook (README, divergences).
ReadyIsApprovable ==
    /\ pattern.status = "review_ready" /\ pattern.approved = NoRevision
    /\ pattern.draft.changed <= heats[1].asOf /\ "hook" \in pattern.draft.names
    => Approvable

\* What was exportable when its publication was requested still is when the
\* release is prepared, whatever was reported in between: the exporter raises on
\* nothing but a blank text, and no page shows a change of a day after its heat.
ReleaseIsExportable ==
    release # NoRelease =>
        /\ Exportable(release.revision, release.heat) \/ release.revision.blank
        /\ release.revision.changed <= release.heat.asOf /\ release.revision.level \in {"A", "B"}

\* A page shows the heat of its revision's own report, or of one that came in
\* between approval and release, never of an earlier one.  (The later one is
\* not verified: README, divergences.)
HeatIsNotOutdated == release.heat.by >= release.revision.by

\* The dates of an approved page are those that an accepted page states word for
\* word: no report that comes in later, material or not, approved or not, moves
\* them, since an update brings no span of its own.
DatesStandOnceApproved ==
    [][pattern.approved # NoRevision =>
          pattern'.approved.seen = pattern.approved.seen /\ pattern'.approved.changed = pattern.approved.changed]_vars

\* A change that earns current attention earns freshness points and the reverse,
\* on every later day; and it only cools.
AttentionHasPoints ==
    assessed.changed # NoDate =>
        \A d \in {x \in Dates : x >= assessed.changed} :
            /\ Active("A", assessed.changed, d) <=> FreshnessPoints(assessed.changed, d) > 0
            /\ \A e \in {x \in Dates : x >= d} : FreshnessPoints(assessed.changed, e) <= FreshnessPoints(assessed.changed, d)

Rank(level) == CASE level = "A" -> 3 [] level = "B" -> 2 [] level = "C" -> 1

\* The candidate with the poorer evidence is no better off.
NoBetter(poorer, richer) ==
    /\ Gate(poorer).outcome = "eligible_for_policy" => Gate(richer).outcome = "eligible_for_policy"
    /\ Rank(LevelOf(Usable(poorer))) <= Rank(LevelOf(Usable(richer)))

\* Losing evidence never helps a candidate, and a tier C report never does.
GateIsMonotone ==
    assessed # NoAssessment => \A e \in Usable(assessed.candidate) :
        LET without == [assessed.candidate EXCEPT !.evidence = @ \ {e}]
        IN  IF e.tier = "C" THEN NoBetter(assessed.candidate, without) ELSE NoBetter(without, assessed.candidate)

Confidences == [relevance : {Unknown, 89, 90, 100}, match : {Unknown, 84, 85, 100}]
Certain == [relevance |-> 100, match |-> 100]

\* "Model confidence may add review; it can never remove one of these reasons":
\* under every setting and confidence the decision is the one of full confidence,
\* or review instead of automation, and the decision's own validator accepts it.
ConfidenceOnlyAdds ==
    assessed # NoAssessment => \A settings \in Settings, c \in Confidences :
        LET sure == EvaluatePolicy(settings, assessed.input, Certain)
            d == EvaluatePolicy(settings, assessed.input, c)
        IN  /\ Admissible(settings, d)
            /\ d.outcome = sure.outcome \/ (sure.outcome = "safe_to_automate" /\ d.outcome = "review_required" /\ ~d.authorized)
            /\ sure.outcome # "safe_to_automate" => sure.reasons \subseteq d.reasons

\* An eligible candidate is authorised or put before a reviewer, never neither
\* and never both.
EligibleIsHandled ==
    assessed # NoAssessment => \A settings \in Settings, c \in Confidences :
        LET d == EvaluatePolicy(settings, assessed.input, c)
        IN  assessed.verdict.outcome = "eligible_for_policy" <=> (ShouldQueue(d) # d.authorized)
=============================================================================
