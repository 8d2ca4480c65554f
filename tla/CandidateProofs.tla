--------------------------- MODULE CandidateProofs ---------------------------
(***************************************************************************)
(* Theorems about Assessment and Candidate, for all reports and dates.     *)
(* The laws of the gate and of the policy hold of every input; what a page *)
(* shows rests on the snapshots being in the order of their days, so that  *)
(* the one a release takes is the last, and on the claims of an approved   *)
(* revision having spans.                                                  *)
(***************************************************************************)
EXTENDS Candidate, FiniteSetTheorems, SequenceTheorems, TLAPS

-----------------------------------------------------------------------------
(* The policy, for every input.                                            *)

\* Full confidence gives no reason of its own.
LEMMA CertainHasNoReason == ConfidenceReasons(Certain) = {}
  BY DEF ConfidenceReasons, Certain, RelevanceFloor, MatchFloor

\* Confidence turns automation into review and does nothing else.
LEMMA PolicyLaw ==
  ASSUME NEW settings \in Settings, NEW input, NEW c
  PROVE  LET sure == EvaluatePolicy(settings, input, Certain)
             d == EvaluatePolicy(settings, input, c)
         IN  /\ Admissible(settings, d)
             /\ \/ d.outcome = sure.outcome
                \/ /\ sure.outcome = "safe_to_automate"
                   /\ d.outcome = "review_required" /\ ~d.authorized
             /\ sure.outcome # "safe_to_automate" => sure.reasons \subseteq d.reasons
  <1>1. CASE input.outcome # "eligible_for_policy"
    BY <1>1 DEF EvaluatePolicy, Decision, Admissible
  <1>2. CASE input.outcome = "eligible_for_policy" /\ BaseReasons(input) # {}
    BY <1>2 DEF EvaluatePolicy, Decision, Admissible
  <1>3. CASE input.outcome = "eligible_for_policy" /\ BaseReasons(input) = {}
    BY <1>3, CertainHasNoReason DEF EvaluatePolicy, Decision, Admissible, Settings
  <1>. QED
    BY <1>1, <1>2, <1>3

\* Exactly what the gate lets through is authorised or queued, and not both.
LEMMA PolicyHandles ==
  ASSUME NEW settings \in Settings, NEW input, NEW c
  PROVE  LET d == EvaluatePolicy(settings, input, c)
         IN  input.outcome = "eligible_for_policy" <=> (ShouldQueue(d) # d.authorized)
  <1>. settings.live \in BOOLEAN /\ settings.shadow \in BOOLEAN
    BY DEF Settings
  <1>1. CASE input.outcome # "eligible_for_policy"
    BY <1>1 DEF EvaluatePolicy, Decision, ShouldQueue
  <1>2. CASE input.outcome = "eligible_for_policy" /\ BaseReasons(input) # {}
    BY <1>2 DEF EvaluatePolicy, Decision, ShouldQueue
  <1>3. CASE /\ input.outcome = "eligible_for_policy" /\ BaseReasons(input) = {}
             /\ ConfidenceReasons(c) # {}
    BY <1>3 DEF EvaluatePolicy, Decision, ShouldQueue
  <1>4. CASE /\ input.outcome = "eligible_for_policy" /\ BaseReasons(input) = {}
             /\ ConfidenceReasons(c) = {}
    BY <1>4 DEF EvaluatePolicy, Decision, ShouldQueue
  <1>. QED
    BY <1>1, <1>2, <1>3, <1>4

-----------------------------------------------------------------------------
(* The gate, for every candidate.                                          *)

EvidenceRecord == [tier : Tiers, claim : ClaimTypes, family : Nat, origin : Nat, usable : BOOLEAN]

CandidateRecord == [risk : RiskTypes, status : LegalStatuses, evidence : SUBSET EvidenceRecord,
                    supported : BOOLEAN, duplicate : BOOLEAN, blockers : {{}}]

\* More distinct values of a field with more evidence.
LEMMA MoreValues ==
  ASSUME NEW S, IsFiniteSet(S), NEW T \in SUBSET S
  PROVE  /\ Cardinality({e.family : e \in T}) >= 2 => Cardinality({e.family : e \in S}) >= 2
         /\ Cardinality({e.origin : e \in T}) >= 2 => Cardinality({e.origin : e \in S}) >= 2
  <1>. DEFINE F(U) == {e.family : e \in U}
              O(U) == {e.origin : e \in U}
  <1>1. IsFiniteSet(F(S)) /\ IsFiniteSet(O(S))
    <2>1. [e \in S |-> e.family] \in Surjection(S, F(S)) /\ [e \in S |-> e.origin] \in Surjection(S, O(S))
      BY DEF Surjection
    <2>. QED
      BY <2>1, FS_Surjection
  <1>2. F(T) \subseteq F(S) /\ O(T) \subseteq O(S)
    OBVIOUS
  <1>3. /\ Cardinality(F(T)) <= Cardinality(F(S)) /\ Cardinality(O(T)) <= Cardinality(O(S))
        /\ Cardinality(F(T)) \in Nat /\ Cardinality(F(S)) \in Nat
        /\ Cardinality(O(T)) \in Nat /\ Cardinality(O(S)) \in Nat
    BY <1>1, <1>2, FS_Subset, FS_CardinalityType
  <1>. QED
    BY <1>3

\* The level cannot rise by leaving out evidence that is no tier C report, nor
\* by adding one that is.
LEMMA LevelIsMonotone ==
  ASSUME NEW S \in SUBSET EvidenceRecord, IsFiniteSet(S), NEW e \in S
  PROVE  /\ LevelOf(S) \in {"A", "B", "C"} /\ LevelOf(S \ {e}) \in {"A", "B", "C"}
         /\ e.tier # "C" => Rank(LevelOf(S \ {e})) <= Rank(LevelOf(S))
         /\ e.tier = "C" => Rank(LevelOf(S)) <= Rank(LevelOf(S \ {e}))
  <1>. DEFINE T == S \ {e}
  <1>1. LevelOf(S) \in {"A", "B", "C"} /\ LevelOf(T) \in {"A", "B", "C"}
    BY DEF LevelOf
  <1>2. Official(T) => Official(S)
    BY DEF Official
  <1>3. e.tier = "C" => (Official(S) => Official(T))
    BY DEF Official
  <1>4. e.tier = "C" => ~Corroborated(S)
    BY DEF Corroborated
  <1>5. e.tier # "C" => (Corroborated(T) => Corroborated(S))
    BY MoreValues DEF Corroborated
  <1>6. Rank("A") = 3 /\ Rank("B") = 2 /\ Rank("C") = 1
    BY DEF Rank
  <1>7. ASSUME e.tier # "C" PROVE Rank(LevelOf(T)) <= Rank(LevelOf(S))
    BY <1>2, <1>5, <1>6, <1>7 DEF LevelOf
  <1>8. ASSUME e.tier = "C" PROVE Rank(LevelOf(S)) <= Rank(LevelOf(T))
    BY <1>3, <1>4, <1>6, <1>8 DEF LevelOf
  <1>. QED
    BY <1>1, <1>7, <1>8

\* The gate follows the level.
LEMMA GateLaw ==
  ASSUME NEW candidate \in CandidateRecord, IsFiniteSet(candidate.evidence),
         NEW e \in Usable(candidate)
  PROVE  LET without == [candidate EXCEPT !.evidence = @ \ {e}]
         IN  IF e.tier = "C" THEN NoBetter(candidate, without) ELSE NoBetter(without, candidate)
  <1>. DEFINE without == [candidate EXCEPT !.evidence = @ \ {e}]
              S == Usable(candidate)
              T == Usable(without)
  <1>1. T = S \ {e} /\ S \in SUBSET EvidenceRecord /\ IsFiniteSet(S)
    <2>1. T = S \ {e}
      BY DEF Usable, CandidateRecord
    <2>2. S \subseteq candidate.evidence /\ candidate.evidence \in SUBSET EvidenceRecord
      BY DEF Usable, CandidateRecord
    <2>. QED
      BY <2>1, <2>2, FS_Subset
  <1>2. /\ without.risk = candidate.risk /\ without.status = candidate.status
        /\ without.supported = candidate.supported /\ without.duplicate = candidate.duplicate
        /\ without.blockers = candidate.blockers
    BY DEF CandidateRecord
  <1>3. /\ LevelOf(S) \in {"A", "B", "C"} /\ LevelOf(T) \in {"A", "B", "C"}
        /\ e.tier # "C" => Rank(LevelOf(T)) <= Rank(LevelOf(S))
        /\ e.tier = "C" => Rank(LevelOf(S)) <= Rank(LevelOf(T))
    BY <1>1, LevelIsMonotone
  <1>4. ASSUME NEW c \in CandidateRecord
        PROVE  Gate(c).outcome = "eligible_for_policy" <=>
                 /\ ~c.duplicate /\ Usable(c) # {} /\ LevelOf(Usable(c)) # "C"
                 /\ ~(c.risk = "risk_alert" /\ c.status \in {"charge", "judgment"})
                 /\ c.supported
    <2>1. c.blockers = {}
      BY DEF CandidateRecord
    <2>2. GateReasons(c, Usable(c), LevelOf(Usable(c))) = {} <=> LevelOf(Usable(c)) # "C" /\ c.supported
      BY DEF GateReasons
    <2>. QED
      BY <2>1, <2>2 DEF Gate, Verdict
  <1>5. LevelOf({}) = "C"
    <2>1. {x.family : x \in {}} = {}
      OBVIOUS
    <2>. QED
      BY <2>1, FS_EmptySet DEF LevelOf, Official, Corroborated
  <1>6. without \in CandidateRecord
    BY DEF CandidateRecord
  <1>7. Rank("A") = 3 /\ Rank("B") = 2 /\ Rank("C") = 1
    BY DEF Rank
  <1>8. ASSUME e.tier # "C" PROVE NoBetter(without, candidate)
    <2>1. LevelOf(T) # "C" => LevelOf(S) # "C"
      BY <1>3, <1>7, <1>8
    <2>. QED
      BY <1>2, <1>3, <1>4, <1>5, <1>6, <1>8, <2>1 DEF NoBetter
  <1>9. ASSUME e.tier = "C" PROVE NoBetter(candidate, without)
    <2>1. LevelOf(S) # "C" => LevelOf(T) # "C"
      BY <1>3, <1>7, <1>9
    <2>. QED
      BY <1>2, <1>3, <1>4, <1>5, <1>6, <1>9, <2>1 DEF NoBetter
  <1>. QED
    BY <1>8, <1>9

-----------------------------------------------------------------------------
(* Freshness, for every date.                                              *)

\* Freshness never rises with age.
LEMMA FreshnessCools ==
  ASSUME NEW a \in Int, NEW b \in Int, NEW d \in Int, NEW e \in Int,
         a # NoDate, b # NoDate, e - b <= d - a
  PROVE  /\ FreshnessPoints(a, d) <= FreshnessPoints(b, e)
         /\ FreshnessPoints(a, d) \in 0 .. 20
  BY DEF FreshnessPoints, NoDate

LEMMA FreshnessIsAttention ==
  ASSUME NEW changed \in Nat, NEW d \in Nat, d >= changed
  PROVE  Active("A", changed, d) <=> FreshnessPoints(changed, d) > 0
  BY DEF FreshnessPoints, Active, NoDate

-----------------------------------------------------------------------------
(* The invariant.                                                          *)

PartsRecord == [target : 0 .. 30, freshness : 0 .. 20, harm : 0 .. 20, spread : 0 .. 15, novelty : 0 .. 15]

LEMMA PartsRecordValid == \A parts \in PartsRecord : PartsValid(parts)
  BY DEF PartsRecord, PartsValid, Maxima

PatternRecord == [status : {"none", "evidence_pending", "review_ready", "rejected"},
                  approved : Revisions, draft : Revisions]

Snapshots == [by : Nat, asOf : Dates, parts : PartsRecord]

TypeInv ==
  /\ today \in Dates /\ offline \in BOOLEAN /\ waiting \in BOOLEAN
  /\ pattern \in PatternRecord
  /\ heats \in Seq(Snapshots) /\ Len(heats) <= MaxReports
  /\ assessed.by \in 0 .. MaxReports /\ assessed.verdict.level \in Levels
  /\ release.revision \in Revisions /\ release.heat.asOf \in Dates

\* The snapshots are numbered and in the order of their days.
Calendar ==
  /\ \A i \in 1 .. Len(heats) : heats[i].by = i /\ heats[i].asOf <= today
  /\ \A i, j \in 1 .. Len(heats) : i <= j => heats[i].asOf <= heats[j].asOf
  /\ pattern.status = "none" => heats = <<>>
  /\ pattern.draft # NoRevision => Len(heats) > 0
  /\ offline => pattern.status = "none"

\* Every revision has a snapshot made with it or before it.
Dated(r) == r.by <= Len(heats)

\* A draft over an approved revision has its dates, or a claim without a span.
DatesInv ==
  /\ pattern.status = "none" => pattern.approved = NoRevision
  /\ pattern.approved # NoRevision /\ pattern.draft # NoRevision /\ pattern.draft.supported =>
       pattern.draft.seen = pattern.approved.seen /\ pattern.draft.changed = pattern.approved.changed

\* A revision that may wait for a release.
Showable(r) ==
  /\ r.changed # NoDate /\ r.names = PublicFields /\ r.level \in {"A", "B"}
  /\ Len(heats) > 0 /\ r.changed <= heats[Len(heats)].asOf

ReleaseInv ==
  HeatIsNotOutdated /\ ReleaseIsExportable

\* What is judged, and that it was judged by the gate.
AssessedInv ==
  assessed # NoAssessment =>
    /\ assessed.candidate \in CandidateRecord /\ IsFiniteSet(assessed.candidate.evidence)
    /\ assessed.input.outcome = assessed.verdict.outcome
    /\ assessed.changed \in Dates \cup {NoDate}

\* A first report that looks ready has the authority that the gate and the
\* approval ask for.
ReadyInv ==
  pattern.status = "review_ready" /\ pattern.approved = NoRevision =>
    /\ pattern.draft # NoRevision /\ Len(heats) = 1
    /\ assessed.input.outcome = "eligible_for_policy" /\ assessed.input.supported
    /\ Publishable(pattern.draft)
    /\ pattern.draft.changed # NoDate /\ "requested action" \in pattern.draft.names
    /\ pattern.draft.risk = "risk_alert" => pattern.draft.status \in {"warning", "enforcement", "unknown"}

CandidateInv ==
  /\ TypeInv /\ Calendar /\ Dated(pattern.draft) /\ Dated(pattern.approved)
  /\ waiting => Showable(pattern.approved)
  /\ ReleaseInv /\ AssessedInv /\ ReadyInv /\ DatesInv

LEMMA NoRevisionType == NoRevision \in Revisions /\ NoRevision.by = 0
  BY CandidateAssumption DEF NoRevision, Revisions, Labels, RiskTypes, LegalStatuses, Kinds

LEMMA RevisionDates == \A r \in Revisions : r.by \in Nat /\ r.seen \in Int /\ r.changed \in Int
  <1>. SUFFICES ASSUME NEW r \in Revisions PROVE r.by \in Nat /\ r.seen \in Int /\ r.changed \in Int
    OBVIOUS
  <1>1. r.by \in 0 .. MaxReports /\ r.seen \in Dates \cup {NoDate} /\ r.changed \in Dates \cup {NoDate}
    BY DEF Revisions
  <1>2. r.by \in Nat
    BY <1>1, CandidateAssumption
  <1>3. \A d \in Dates \cup {NoDate} : d \in Int
    BY CandidateAssumption DEF NoDate
  <1>. QED
    BY <1>1, <1>2, <1>3

LEMMA InitInv == Init => CandidateInv
  <1>. SUFFICES ASSUME Init PROVE CandidateInv
    OBVIOUS
  <1>. USE CandidateAssumption, NoRevisionType DEF Init
  <1>1. heats \in Seq(Snapshots) /\ Len(heats) = 0
    OBVIOUS
  <1>2. TypeInv
    <2>1. pattern \in PatternRecord
      BY DEF PatternRecord
    <2>2. assessed.by = 0 /\ assessed.verdict.level \in Levels
      BY DEF NoAssessment, Verdict, Levels
    <2>3. release.revision = NoRevision /\ release.heat.asOf = 0
      BY DEF NoRelease
    <2>4. 0 \in 0 .. MaxReports /\ 0 <= MaxReports
      OBVIOUS
    <2>5. today \in Dates /\ offline \in BOOLEAN /\ waiting \in BOOLEAN
      OBVIOUS
    <2>. QED
      BY <1>1, <2>1, <2>2, <2>3, <2>4, <2>5 DEF TypeInv
  <1>3. Calendar /\ Dated(pattern.draft) /\ Dated(pattern.approved)
    BY <1>1 DEF Calendar, Dated
  <1>4. ReleaseInv
    BY DEF ReleaseInv, HeatIsNotOutdated, ReleaseIsExportable, NoRelease
  <1>5. AssessedInv /\ ReadyInv /\ DatesInv
    BY DEF AssessedInv, ReadyInv, DatesInv
  <1>. QED
    BY <1>2, <1>3, <1>4, <1>5 DEF CandidateInv

-----------------------------------------------------------------------------
(* The latest snapshot.                                                    *)

\* With the days in order, the newest snapshot is the one inserted last.
LEMMA LatestIsLast ==
  ASSUME TypeInv, Calendar, Len(heats) > 0
  PROVE  LatestHeat = heats[Len(heats)]
  <1>. DEFINE Newest(i) == \A j \in DOMAIN heats :
                heats[j].asOf < heats[i].asOf \/ (heats[j].asOf = heats[i].asOf /\ j <= i)
  <1>1. DOMAIN heats = 1 .. Len(heats) /\ Len(heats) \in Nat
    BY DEF TypeInv
  <1>2. \A i \in DOMAIN heats : heats[i].asOf \in Nat
    <2>1. \A i \in DOMAIN heats : heats[i] \in Snapshots
      BY <1>1 DEF TypeInv
    <2>. QED
      BY <2>1, CandidateAssumption DEF Snapshots
  <1>3. Len(heats) \in DOMAIN heats /\ Newest(Len(heats))
    BY <1>1, <1>2 DEF Calendar
  <1>4. \A i \in DOMAIN heats : Newest(i) => i = Len(heats)
    <2>. SUFFICES ASSUME NEW i \in DOMAIN heats, Newest(i) PROVE i = Len(heats)
      OBVIOUS
    <2>1. heats[i].asOf <= heats[Len(heats)].asOf /\ i <= Len(heats) /\ i \in Nat
      BY <1>1, <1>3 DEF Calendar
    <2>2. heats[Len(heats)].asOf < heats[i].asOf \/ Len(heats) <= i
      BY <1>3
    <2>. QED
      BY <1>1, <1>2, <1>3, <2>1, <2>2
  <1>5. (CHOOSE i \in DOMAIN heats : Newest(i)) = Len(heats)
    BY <1>3, <1>4
  <1>. QED
    BY <1>5 DEF LatestHeat

-----------------------------------------------------------------------------
(* Assessing a report.                                                     *)

\* What the collection computes is a snapshot of today.
LEMMA HeatType ==
  ASSUME NEW features, NEW changed \in Dates \cup {NoDate}, NEW asOf \in Dates, NEW level,
         features.target \in DOMAIN TargetPoints, features.harm \in DOMAIN HarmPoints,
         features.spread \in DOMAIN SpreadPoints, features.novelty \in DOMAIN NoveltyPoints
  PROVE  Heat(features, changed, asOf, level).parts \in PartsRecord
  <1>1. TargetPoints[features.target] \in 0 .. 30
    BY DEF TargetPoints
  <1>2. HarmPoints[features.harm] \in 0 .. 20
    BY DEF HarmPoints
  <1>3. SpreadPoints[features.spread] \in 0 .. 15
    BY DEF SpreadPoints
  <1>4. NoveltyPoints[features.novelty] \in 0 .. 15
    BY DEF NoveltyPoints
  <1>5. FreshnessPoints(changed, asOf) \in 0 .. 20
    BY DEF FreshnessPoints
  <1>. QED
    BY <1>1, <1>2, <1>3, <1>4, <1>5 DEF Heat, PartsRecord

\* The gate's level is a level.
LEMMA GateType ==
  ASSUME NEW candidate PROVE Gate(candidate).level \in Levels
  BY DEF Gate, Verdict, LevelOf, Levels

LEMMA AssessLaw ==
  ASSUME TypeInv, Calendar, Len(heats) < MaxReports,
         NEW candidate, NEW type, NEW seen \in Dates, NEW material \in BOOLEAN, NEW features,
         features.target \in DOMAIN TargetPoints, features.harm \in DOMAIN HarmPoints,
         features.spread \in DOMAIN SpreadPoints, features.novelty \in DOMAIN NoveltyPoints,
         Assess(Len(heats) + 1, candidate, type, seen, material, features)
  PROVE  LET changed == MaterialDate(seen, type = "new_pattern" \/ material)
             n == Len(heats) + 1
         IN  /\ changed \in Dates \cup {NoDate}
             /\ heats' \in Seq(Snapshots) /\ Len(heats') = n /\ n \in 1 .. MaxReports
             /\ \A i \in 1 .. Len(heats) : heats'[i] = heats[i]
             /\ heats'[n].by = n /\ heats'[n].asOf = today
             /\ assessed' = [by |-> n, candidate |-> candidate, verdict |-> Gate(candidate), changed |-> changed,
                             input |-> Input(type, Gate(candidate), material, candidate.supported)]
  <1>. DEFINE changed == MaterialDate(seen, type = "new_pattern" \/ material)
              n == Len(heats) + 1
              parts == Heat(features, changed, today, Gate(candidate).level).parts
              h == [by |-> n, asOf |-> today, parts |-> parts]
  <1>1. today \in Dates /\ heats \in Seq(Snapshots) /\ Len(heats) \in Nat
    BY DEF TypeInv
  <1>2. n \in 1 .. MaxReports
    BY <1>1, CandidateAssumption
  <1>3. changed \in Dates \cup {NoDate}
    BY DEF MaterialDate
  <1>4. parts \in PartsRecord
    BY <1>1, <1>3, HeatType
  <1>5. h \in Snapshots
    BY <1>1, <1>2, <1>4 DEF Snapshots
  <1>6. heats' = Append(heats, h)
    BY DEF Assess
  <1>7. /\ heats' \in Seq(Snapshots) /\ Len(heats') = n
        /\ \A i \in 1 .. Len(heats) : heats'[i] = heats[i]
        /\ heats'[n] = h
    BY <1>1, <1>5, <1>6, AppendProperties
  <1>8. assessed' = [by |-> n, candidate |-> candidate, verdict |-> Gate(candidate), changed |-> changed,
                     input |-> Input(type, Gate(candidate), material, candidate.supported)]
    BY DEF Assess
  <1>. QED
    BY <1>2, <1>3, <1>4, <1>7, <1>8

\* A report of today keeps the snapshots in order, and what could be shown
\* before can be shown with its snapshot.
LEMMA CalendarGrows ==
  ASSUME TypeInv, Calendar, today' = today, offline' = offline, ~offline,
         heats' \in Seq(Snapshots), Len(heats') = Len(heats) + 1,
         \A i \in 1 .. Len(heats) : heats'[i] = heats[i],
         heats'[Len(heats) + 1].by = Len(heats) + 1, heats'[Len(heats) + 1].asOf = today,
         pattern'.status # "none"
  PROVE  /\ Calendar'
         /\ \A r \in Revisions : Showable(r) => Showable(r)'
         /\ \A r \in Revisions : Dated(r) => Dated(r)'
  <1>1. Len(heats) \in Nat /\ today \in Nat /\ \A i \in 1 .. Len(heats) : heats[i].asOf \in Nat
    <2>1. today \in Dates /\ heats \in Seq(Snapshots)
      BY DEF TypeInv
    <2>2. \A i \in 1 .. Len(heats) : heats[i] \in Snapshots
      BY <2>1
    <2>3. \A i \in 1 .. Len(heats) : heats[i].asOf \in Dates
      BY <2>2 DEF Snapshots
    <2>4. \A d \in Dates : d \in Nat
      BY CandidateAssumption
    <2>5. Len(heats) \in Nat
      BY <2>1
    <2>. QED
      BY <2>1, <2>3, <2>4, <2>5
  <1>2. \A i \in 1 .. Len(heats') : heats'[i].by = i /\ heats'[i].asOf <= today
    BY <1>1 DEF Calendar
  <1>3. \A i, j \in 1 .. Len(heats') : i <= j => heats'[i].asOf <= heats'[j].asOf
    BY <1>1 DEF Calendar
  <1>4. Calendar'
    BY <1>1, <1>2, <1>3 DEF Calendar
  <1>5. ASSUME NEW r \in Revisions, Showable(r) PROVE Showable(r)'
    <2>1. heats[Len(heats)].asOf <= today /\ heats[Len(heats)].asOf \in Nat /\ r.changed <= heats[Len(heats)].asOf
      BY <1>1, <1>5 DEF Calendar, Showable
    <2>2. r.changed \in Int
      BY RevisionDates
    <2>3. r.changed <= heats'[Len(heats')].asOf
      BY <1>1, <2>1, <2>2
    <2>. QED
      BY <1>1, <1>5, <2>3 DEF Showable
  <1>6. ASSUME NEW r \in Revisions, Dated(r) PROVE Dated(r)'
    <2>1. r.by \in Nat
      BY RevisionDates
    <2>. QED
      BY <1>1, <1>6, <2>1 DEF Dated
  <1>. QED
    BY <1>4, <1>5, <1>6

-----------------------------------------------------------------------------
(* The steps.                                                              *)

LEMMA ApproveInv == CandidateInv /\ ~offline /\ Approve => CandidateInv'
  <1>. SUFFICES ASSUME CandidateInv, ~offline, Approve PROVE CandidateInv'
    OBVIOUS
  <1>. DEFINE r == pattern.draft
  <1>1. /\ TypeInv /\ Calendar /\ Dated(r) /\ ReleaseInv
        /\ r # NoRevision /\ r \in Revisions
    BY DEF CandidateInv, Approve, Approvable, TypeInv, PatternRecord
  <1>2. /\ pattern' = [status |-> "review_ready", approved |-> r, draft |-> NoRevision]
        /\ waiting' = TRUE /\ assessed' = NoAssessment
        /\ UNCHANGED <<today, heats, release, offline>>
    BY DEF Approve
  <1>3. pattern'.status = "review_ready" /\ pattern'.approved = r /\ pattern'.draft = NoRevision
    BY <1>2
  <1>4. TypeInv'
    <2>1. pattern' \in PatternRecord
      BY <1>1, <1>2, NoRevisionType DEF PatternRecord
    <2>2. assessed'.by \in 0 .. MaxReports /\ assessed'.verdict.level \in Levels
      BY <1>2, CandidateAssumption DEF NoAssessment, Verdict, Levels
    <2>. QED
      BY <1>1, <1>2, <2>1, <2>2 DEF TypeInv
  <1>5. Calendar'
    BY <1>1, <1>2, <1>3 DEF Calendar
  <1>6. Dated(pattern.draft)' /\ Dated(pattern.approved)'
    <2>1. Len(heats) \in Nat
      BY <1>1 DEF TypeInv
    <2>2. Dated(pattern.approved)'
      BY <1>1, <1>2, <1>3 DEF Dated
    <2>3. Dated(pattern.draft)'
      BY <2>1, <1>2, <1>3, NoRevisionType DEF Dated
    <2>. QED
      BY <2>2, <2>3
  <1>7. Showable(pattern.approved)'
    <2>1. Len(heats) > 0
      BY <1>1 DEF Calendar
    <2>2. LatestHeat = heats[Len(heats)]
      BY <1>1, <2>1, LatestIsLast
    <2>3. /\ r.changed # NoDate /\ r.names = PublicFields /\ r.level \in {"A", "B"}
          /\ heats[Len(heats)].asOf >= r.changed
      BY <2>2 DEF Approve, Approvable, Publishable, ReleaseExportable
    <2>4. heats[Len(heats)].asOf \in Nat /\ r.changed \in Int
      <3>1. heats[Len(heats)] \in Snapshots
        BY <1>1, <2>1 DEF TypeInv
      <3>. QED
        BY <1>1, <3>1, RevisionDates, CandidateAssumption DEF Snapshots
    <2>. QED
      BY <1>2, <1>3, <2>1, <2>3, <2>4 DEF Showable
  <1>8. ReleaseInv'
    BY <1>1, <1>2 DEF ReleaseInv, HeatIsNotOutdated, ReleaseIsExportable
  <1>9. AssessedInv' /\ ReadyInv' /\ DatesInv'
    BY <1>1, <1>2, <1>3 DEF AssessedInv, ReadyInv, DatesInv
  <1>. QED
    BY <1>4, <1>5, <1>6, <1>7, <1>8, <1>9 DEF CandidateInv

LEMMA RejectInv == CandidateInv /\ ~offline /\ Reject => CandidateInv'
  <1>. SUFFICES ASSUME CandidateInv, ~offline, Reject PROVE CandidateInv'
    OBVIOUS
  <1>1. /\ TypeInv /\ Calendar /\ Dated(pattern.draft) /\ Dated(pattern.approved) /\ ReleaseInv
        /\ waiting => Showable(pattern.approved)
        /\ DatesInv
    BY DEF CandidateInv
  <1>2. assessed' = NoAssessment /\ UNCHANGED <<today, heats, waiting, release, offline>>
    BY DEF Reject
  <1>3. /\ pattern' \in PatternRecord /\ pattern'.approved = pattern.approved
        /\ pattern'.draft \in {pattern.draft, NoRevision}
        /\ pattern'.status # "none" \/ pattern'.status = pattern.status
        /\ pattern'.status = "rejected" \/ pattern'.approved # NoRevision
    BY <1>1, NoRevisionType DEF Reject, TypeInv, PatternRecord
  <1>4. TypeInv'
    <2>1. assessed'.by \in 0 .. MaxReports /\ assessed'.verdict.level \in Levels
      BY <1>2, CandidateAssumption DEF NoAssessment, Verdict, Levels
    <2>. QED
      BY <1>1, <1>2, <1>3, <2>1 DEF TypeInv
  <1>5. Calendar'
    BY <1>1, <1>2, <1>3 DEF Calendar
  <1>6. Dated(pattern.draft)' /\ Dated(pattern.approved)'
    <2>1. Dated(NoRevision)
      BY <1>1, NoRevisionType DEF Dated, TypeInv
    <2>. QED
      BY <1>1, <1>2, <1>3, <2>1 DEF Dated
  <1>7. waiting' => Showable(pattern.approved)'
    BY <1>1, <1>2, <1>3 DEF Showable
  <1>8. ReleaseInv'
    BY <1>1, <1>2 DEF ReleaseInv, HeatIsNotOutdated, ReleaseIsExportable
  <1>9. AssessedInv' /\ ReadyInv' /\ DatesInv'
    BY <1>1, <1>2, <1>3 DEF AssessedInv, ReadyInv, DatesInv
  <1>. QED
    BY <1>4, <1>5, <1>6, <1>7, <1>8, <1>9 DEF CandidateInv

LEMMA ReleaseStepInv == CandidateInv /\ ~offline /\ PrepareRelease => CandidateInv'
  <1>. SUFFICES ASSUME CandidateInv, ~offline, PrepareRelease PROVE CandidateInv'
    OBVIOUS
  <1>. DEFINE r == pattern.approved
              h == heats[Len(heats)]
  <1>1. /\ TypeInv /\ Calendar /\ Dated(pattern.draft) /\ Dated(r) /\ AssessedInv /\ ReadyInv /\ DatesInv
        /\ Showable(r) /\ r \in Revisions
    BY DEF CandidateInv, PrepareRelease, TypeInv, PatternRecord
  <1>2. LatestHeat = h /\ h \in Snapshots /\ h.by = Len(heats)
    <2>1. Len(heats) > 0 /\ Len(heats) \in Nat
      BY <1>1 DEF Showable, TypeInv
    <2>. QED
      BY <1>1, <2>1, LatestIsLast DEF TypeInv, Calendar
  <1>3. /\ release' = [revision |-> r, heat |-> h] /\ waiting' = FALSE
        /\ UNCHANGED <<today, pattern, heats, assessed, offline>>
    BY <1>2 DEF PrepareRelease
  <1>4. TypeInv'
    BY <1>1, <1>2, <1>3 DEF TypeInv, Snapshots
  <1>5. Calendar' /\ Dated(pattern.draft)' /\ Dated(pattern.approved)' /\ AssessedInv' /\ ReadyInv' /\ DatesInv'
    BY <1>1, <1>3 DEF Calendar, Dated, AssessedInv, ReadyInv, DatesInv
  <1>6. ReleaseInv'
    <2>1. HeatIsNotOutdated'
      <3>1. r.by \in Nat /\ Len(heats) \in Nat /\ r.by <= Len(heats)
        BY <1>1, RevisionDates DEF Dated, TypeInv
      <3>. QED
        BY <1>2, <1>3, <3>1 DEF HeatIsNotOutdated
    <2>2. ReleaseIsExportable'
      <3>1. PartsValid(h.parts)
        BY <1>2, PartsRecordValid DEF Snapshots
      <3>. QED
        BY <1>1, <1>3, <3>1 DEF ReleaseIsExportable, Exportable, Showable
    <2>. QED
      BY <2>1, <2>2 DEF ReleaseInv
  <1>. QED
    BY <1>3, <1>4, <1>5, <1>6 DEF CandidateInv

LEMMA DaysInv == CandidateInv /\ ~offline /\ DaysPass => CandidateInv'
  <1>. SUFFICES ASSUME CandidateInv, ~offline, DaysPass PROVE CandidateInv'
    OBVIOUS
  <1>1. TypeInv /\ Calendar /\ Dated(pattern.draft) /\ Dated(pattern.approved) /\ ReleaseInv /\ AssessedInv /\ ReadyInv
        /\ DatesInv /\ (waiting => Showable(pattern.approved))
    BY DEF CandidateInv
  <1>2. /\ today' \in Dates /\ today' > today
        /\ UNCHANGED <<pattern, heats, assessed, waiting, release, offline>>
    BY DEF DaysPass
  <1>3. TypeInv'
    BY <1>1, <1>2 DEF TypeInv
  <1>4. Calendar'
    <2>1. today \in Nat /\ today' \in Nat /\ Len(heats) \in Nat
      BY <1>1, <1>2, CandidateAssumption DEF TypeInv
    <2>2. \A i \in 1 .. Len(heats) : heats[i].asOf \in Nat /\ heats[i].asOf <= today
      <3>1. \A i \in 1 .. Len(heats) : heats[i] \in Snapshots
        BY <1>1 DEF TypeInv
      <3>. QED
        BY <1>1, <3>1, CandidateAssumption DEF Calendar, Snapshots
    <2>. QED
      BY <1>1, <1>2, <2>1, <2>2 DEF Calendar
  <1>5. /\ Dated(pattern.draft)' /\ Dated(pattern.approved)' /\ AssessedInv' /\ ReadyInv'
        /\ DatesInv' /\ (waiting' => Showable(pattern.approved)')
    BY <1>1, <1>2 DEF Dated, AssessedInv, ReadyInv, DatesInv, Showable
  <1>6. ReleaseInv'
    BY <1>1, <1>2 DEF ReleaseInv, HeatIsNotOutdated, ReleaseIsExportable
  <1>. QED
    BY <1>3, <1>4, <1>5, <1>6 DEF CandidateInv

\* What the three judges of a first report agree on: a report that submit_new
\* gives level A is eligible at the gate and publishable at the approval.
LEMMA JudgesAgree ==
  ASSUME NEW draft \in Drafts, draft.supported, NewRevision(draft).level = "A", Insertable(NewRevision(draft))
  PROVE  /\ Gate(Candidate(draft.report, draft.supported)).outcome = "eligible_for_policy"
         /\ Publishable(NewRevision(draft))
  <1>. DEFINE report == draft.report
              class == SourceClassification(Source(report), report.status)
              c == Candidate(report, draft.supported)
              e == [tier |-> report.tier, claim |-> ClaimType(report.kind), family |-> 1, origin |-> 1, usable |-> TRUE]
  <1>1. report \in FirstReports /\ report \in [kind : Kinds, tier : Tiers, status : LegalStatuses]
    BY CandidateAssumption DEF Drafts, Reports
  <1>2. class.label # "none"
    BY DEF NewRevision
  <1>3. Usable(c) = {e}
    BY DEF Usable, Candidate
  <1>4. \/ /\ report.kind = "police" /\ report.tier = "A1" /\ class = [risk |-> "confirmed_scam", label |-> "police"]
           /\ report.status \in {"reported_case", "enforcement", "charge"}
        \/ /\ report.kind = "court" /\ report.tier = "A1" /\ class = [risk |-> "confirmed_scam", label |-> "court"]
           /\ report.status = "judgment"
        \/ /\ report.kind = "regulator" /\ report.tier = "A2" /\ class = [risk |-> "risk_alert", label |-> "regulator"]
           /\ report.status \in {"warning", "enforcement"}
    BY <1>1, <1>2, RegistryAssumption DEF SourceClassification, Source
  <1>5. LevelOf(Usable(c)) = "A"
    <2>1. Official({e})
      BY <1>4 DEF Official, ClaimType
    <2>. QED
      BY <1>3, <2>1 DEF LevelOf
  <1>6. c.risk = class.risk /\ c.status = report.status /\ c.supported /\ ~c.duplicate /\ c.blockers = {}
    BY DEF Candidate
  <1>7. GateReasons(c, Usable(c), "A") = {}
    BY <1>6 DEF GateReasons
  <1>8. Gate(c).outcome = "eligible_for_policy"
    <2>1. ~(c.risk = "risk_alert" /\ c.status \in {"charge", "judgment"})
      <3>1. class.risk = "confirmed_scam" \/ report.status \in {"warning", "enforcement"}
        BY <1>4
      <3>. HIDE DEF c, class
      <3>. QED
        BY <1>6, <3>1
    <2>2. Usable(c) # {}
      BY <1>3
    <2>. HIDE DEF c
    <2>. QED
      BY <1>5, <1>6, <1>7, <2>1, <2>2 DEF Gate, Verdict
  <1>9. Publishable(NewRevision(draft))
    BY <1>4 DEF Publishable, NewRevision
  <1>. QED
    BY <1>8, <1>9

LEMMA CandidateType ==
  ASSUME NEW report \in Reports, NEW supported \in BOOLEAN
  PROVE  Candidate(report, supported) \in CandidateRecord /\ IsFiniteSet(Candidate(report, supported).evidence)
  <1>. DEFINE e == [tier |-> report.tier, claim |-> ClaimType(report.kind), family |-> 1, origin |-> 1, usable |-> TRUE]
  <1>1. report.tier \in Tiers /\ report.status \in LegalStatuses
    BY CandidateAssumption
  <1>2. e \in EvidenceRecord
    BY <1>1 DEF EvidenceRecord, ClaimType, ClaimTypes
  <1>3. SourceClassification(Source(report), report.status).risk \in RiskTypes
    BY DEF SourceClassification, RiskTypes
  <1>4. IsFiniteSet({e})
    BY FS_Singleton
  <1>. QED
    BY <1>1, <1>2, <1>3, <1>4 DEF Candidate, CandidateRecord

LEMMA NewRevisionType ==
  ASSUME NEW draft \in Drafts, Len(heats) + 1 \in 1 .. MaxReports
  PROVE  /\ NewRevision(draft) \in Revisions /\ NewRevision(draft).by = Len(heats) + 1
         /\ NewRevision(draft) # NoRevision
         /\ NewRevision(draft).changed = (IF draft.dated THEN draft.seen ELSE NoDate)
         /\ NewRevision(draft).names = draft.names
  <1>. DEFINE report == draft.report
              class == SourceClassification(Source(report), report.status)
  <1>1. report.kind \in Kinds /\ report.status \in LegalStatuses /\ draft.seen \in Dates /\ draft.names \in SUBSET PublicFields
        /\ draft.dated \in BOOLEAN /\ draft.blank \in BOOLEAN /\ draft.supported \in BOOLEAN
    BY CandidateAssumption DEF Drafts, Reports
  <1>2. class.risk \in RiskTypes /\ class.label \in Labels
    BY DEF SourceClassification, RiskTypes, Labels
  <1>3. NewRevision(draft).by = Len(heats) + 1 /\ Len(heats) + 1 # 0 /\ Len(heats) + 1 \in 0 .. MaxReports
    BY CandidateAssumption DEF NewRevision, Reported
  <1>4. NewRevision(draft) \in Revisions
    BY <1>1, <1>2, <1>3 DEF NewRevision, Revisions, Reported
  <1>. QED
    BY <1>3, <1>4, NoRevisionType DEF NewRevision

LEMMA SubmitNewInv == CandidateInv /\ ~offline /\ SubmitNew => CandidateInv'
  <1>. SUFFICES ASSUME CandidateInv, ~offline, SubmitNew PROVE CandidateInv'
    OBVIOUS
  <1>1. /\ TypeInv /\ Calendar /\ Dated(pattern.draft) /\ Dated(pattern.approved) /\ ReleaseInv
        /\ (waiting => Showable(pattern.approved)) /\ pattern.approved = NoRevision
        /\ pattern \in PatternRecord /\ pattern.status = "none" /\ heats = <<>> /\ Len(heats) = 0
        /\ UNCHANGED <<today, waiting, release, offline>>
    BY DEF CandidateInv, SubmitNew, TypeInv, Calendar, DatesInv
  <1>2. PICK draft \in Drafts :
          /\ Insertable(NewRevision(draft))
          /\ Assess(Reported + 1, Candidate(draft.report, draft.supported), "new_pattern", draft.seen, FALSE,
                    Features("unknown"))
          /\ pattern' = [pattern EXCEPT !.draft = NewRevision(draft),
                 !.status = IF draft.supported /\ NewRevision(draft).level = "A" /\ draft.dated /\ "requested action" \in draft.names
                            THEN "review_ready" ELSE "evidence_pending"]
    BY Zenon DEF SubmitNew
  <1>. DEFINE r == NewRevision(draft)
              c == Candidate(draft.report, draft.supported)
              changed == MaterialDate(draft.seen, TRUE)
  <1>3. draft.report \in Reports /\ draft.supported \in BOOLEAN /\ draft.seen \in Dates /\ draft.dated \in BOOLEAN
    BY DEF Drafts, Reports
  <1>4. /\ changed \in Dates \cup {NoDate}
        /\ heats' \in Seq(Snapshots) /\ Len(heats') = 1 /\ 1 \in 1 .. MaxReports
        /\ heats'[1].by = 1 /\ heats'[1].asOf = today
        /\ assessed' = [by |-> 1, candidate |-> c, verdict |-> Gate(c), changed |-> changed,
                        input |-> Input("new_pattern", Gate(c), FALSE, c.supported)]
    <2>. DEFINE features == Features("unknown")
    <2>1. /\ features.target \in DOMAIN TargetPoints /\ features.harm \in DOMAIN HarmPoints
          /\ features.spread \in DOMAIN SpreadPoints /\ features.novelty \in DOMAIN NoveltyPoints
      BY DEF Features, TargetPoints, HarmPoints, SpreadPoints, NoveltyPoints
    <2>2. Len(heats) < MaxReports
      BY <1>1, CandidateAssumption
    <2>3. Assess(Len(heats) + 1, c, "new_pattern", draft.seen, FALSE, features)
      BY <1>2 DEF Reported
    <2>. HIDE DEF features, c
    <2>4. Len(heats) + 1 = 1
      BY <1>1
    <2>. QED
      BY <1>1, <1>3, <2>1, <2>2, <2>3, <2>4, AssessLaw
  <1>5. /\ r \in Revisions /\ r.by = 1 /\ r # NoRevision
        /\ r.changed = (IF draft.dated THEN draft.seen ELSE NoDate) /\ r.names = draft.names
    BY <1>1, <1>4, NewRevisionType
  <1>6. /\ pattern' \in PatternRecord /\ pattern'.draft = r /\ pattern'.approved = pattern.approved
        /\ pattern'.status \in {"review_ready", "evidence_pending"}
        /\ pattern'.status = "review_ready" =>
             draft.supported /\ r.level = "A" /\ draft.dated /\ "requested action" \in draft.names
    <2>. DEFINE ready == draft.supported /\ r.level = "A" /\ draft.dated /\ "requested action" \in draft.names
    <2>1. pattern' = [pattern EXCEPT !.draft = r, !.status = IF ready THEN "review_ready" ELSE "evidence_pending"]
      BY <1>2
    <2>. HIDE DEF r, ready
    <2>2. pattern' = [status |-> IF ready THEN "review_ready" ELSE "evidence_pending", approved |-> pattern.approved, draft |-> r]
      BY <1>1, <2>1 DEF PatternRecord
    <2>3. pattern' \in PatternRecord
      BY <1>1, <1>5, <2>2 DEF PatternRecord
    <2>4. pattern'.status = "review_ready" => ready
      BY <2>2
    <2>. QED
      BY <2>2, <2>3, <2>4 DEF ready
  <1>7. TypeInv'
    <2>1. assessed'.by \in 0 .. MaxReports /\ assessed'.verdict.level \in Levels
      BY <1>4, GateType, CandidateAssumption
    <2>2. Len(heats') <= MaxReports
      BY <1>4, CandidateAssumption
    <2>. QED
      BY <1>1, <1>4, <1>6, <2>1, <2>2 DEF TypeInv
  <1>8. Calendar' /\ (\A s \in Revisions : (Showable(s) => Showable(s)') /\ (Dated(s) => Dated(s)'))
    <2>1. /\ Len(heats') = Len(heats) + 1 /\ heats'[Len(heats) + 1].by = Len(heats) + 1
          /\ heats'[Len(heats) + 1].asOf = today
          /\ \A i \in 1 .. Len(heats) : heats'[i] = heats[i]
      BY <1>1, <1>4
    <2>. QED
      BY <1>1, <1>4, <1>6, <2>1, CalendarGrows
  <1>9. Dated(pattern.approved)' /\ (waiting' => Showable(pattern.approved)')
    <2>1. pattern.approved \in Revisions
      BY <1>1 DEF PatternRecord
    <2>. QED
      BY <1>1, <1>6, <1>8, <2>1 DEF Dated, Showable
  <1>10. Dated(pattern.draft)'
    <2>1. r.by = 1 /\ Len(heats') = 1
      BY <1>4, <1>5
    <2>. HIDE DEF r, changed
    <2>2. pattern'.draft = r
      BY <1>6
    <2>. QED
      BY <2>1, <2>2 DEF Dated
  <1>11. ReleaseInv'
    BY <1>1 DEF ReleaseInv, HeatIsNotOutdated, ReleaseIsExportable
  <1>12. AssessedInv'
    <2>1. c \in CandidateRecord /\ IsFiniteSet(c.evidence)
      BY <1>3, CandidateType
    <2>. HIDE DEF c, changed
    <2>. QED
      BY <1>4, <2>1 DEF AssessedInv, Input
  <1>13. ReadyInv'
    <2>. SUFFICES ASSUME pattern'.status = "review_ready" PROVE ReadyInv'
      BY DEF ReadyInv
    <2>1. Gate(c).outcome = "eligible_for_policy" /\ Publishable(r)
      BY <1>2, <1>6, JudgesAgree
    <2>2. c.supported
      BY <1>6 DEF Candidate
    <2>3. r.changed # NoDate
      <3>1. r.changed = draft.seen
        BY <1>5, <1>6
      <3>2. \A d \in Dates : d # NoDate
        BY CandidateAssumption DEF NoDate
      <3>. QED
        BY <1>3, <3>1, <3>2
    <2>4. r.risk = "risk_alert" => r.status \in {"warning", "enforcement", "unknown"}
      BY <1>2 DEF Insertable
    <2>. HIDE DEF c, r, changed
    <2>5. assessed'.input.outcome = "eligible_for_policy" /\ assessed'.input.supported
      BY <1>4, <2>1, <2>2 DEF Input
    <2>. QED
      BY <1>4, <1>5, <1>6, <2>1, <2>3, <2>4, <2>5 DEF ReadyInv, Publishable
  <1>14. DatesInv'
    BY <1>1, <1>6 DEF DatesInv
  <1>. QED
    BY <1>7, <1>8, <1>9, <1>10, <1>11, <1>12, <1>13, <1>14 DEF CandidateInv

\* An update whose claims are all among the copied spans has the old dates.
LEMMA UpdatedRevisionType ==
  ASSUME NEW old \in Revisions, old = pattern.approved, Len(heats) + 1 \in 1 .. MaxReports,
         NEW seen \in Dates, NEW later \in BOOLEAN, NEW material \in BOOLEAN
  PROVE  LET r == UpdatedRevision(seen, later, material)
         IN  /\ r \in Revisions /\ r.by = Len(heats) + 1
             /\ r.supported => r.seen = old.seen /\ r.changed = old.changed
  <1>. DEFINE Moves(date) == seen > date \/ (seen = date /\ later)
              last == Later(old.seen, seen)
              date == IF material THEN Later(old.changed, seen) ELSE old.changed
              kept == old.supported /\ ~Moves(old.seen) /\ ~(material /\ Moves(old.changed))
              r == [old EXCEPT !.by = Len(heats) + 1, !.seen = last, !.changed = date, !.supported = kept]
  <1>1. last \in Dates \cup {NoDate} /\ date \in Dates \cup {NoDate}
    BY DEF Revisions, Later
  <1>2. Len(heats) + 1 \in 0 .. MaxReports
    BY CandidateAssumption
  <1>3. kept \in BOOLEAN
    BY DEF Revisions
  <1>4. kept => last = old.seen /\ date = old.changed
    <2>1. old.seen \in Int /\ old.changed \in Int /\ seen \in Int
      BY RevisionDates, CandidateAssumption
    <2>. QED
      BY <2>1 DEF Later
  <1>5. UpdatedRevision(seen, later, material) = r
    BY DEF UpdatedRevision, Reported, Revisions
  <1>. HIDE DEF last, date, kept
  <1>6. r \in Revisions
    BY <1>1, <1>2, <1>3 DEF Revisions
  <1>7. r.by = Len(heats) + 1 /\ r.seen = last /\ r.changed = date /\ r.supported = kept
    BY DEF Revisions
  <1>. QED
    BY <1>4, <1>5, <1>6, <1>7

LEMMA SubmitUpdateInv == CandidateInv /\ ~offline /\ SubmitUpdate => CandidateInv'
  <1>. SUFFICES ASSUME CandidateInv, ~offline, SubmitUpdate PROVE CandidateInv'
    OBVIOUS
  <1>1. /\ TypeInv /\ Calendar /\ Dated(pattern.approved) /\ ReleaseInv
        /\ waiting => Showable(pattern.approved)
        /\ pattern \in PatternRecord /\ pattern.status = "review_ready" /\ pattern.approved # NoRevision
        /\ Len(heats) < MaxReports
        /\ UNCHANGED <<today, waiting, release, offline>>
    BY DEF CandidateInv, SubmitUpdate, TypeInv, Reported
  <1>2. PICK report \in LaterReports, seen \in Dates, later \in BOOLEAN,
             change \in {<<FALSE, "longstanding_unchanged">>, <<TRUE, "new_mechanism">>, <<TRUE, "unknown">>} :
          /\ Assess(Reported + 1, Candidate(report, TRUE), "pattern_update", seen, change[1], Features(change[2]))
          /\ pattern' = [pattern EXCEPT !.draft = UpdatedRevision(seen, later, change[1])]
    BY Zenon DEF SubmitUpdate
  <1>. DEFINE n == Len(heats) + 1
              material == change[1]
              r == UpdatedRevision(seen, later, material)
              c == Candidate(report, TRUE)
              changed == MaterialDate(seen, material)
              old == pattern.approved
  <1>3. report \in Reports /\ material \in BOOLEAN /\ old \in Revisions
        /\ change[2] \in {"longstanding_unchanged", "new_mechanism", "unknown"}
    <2>1. report \in Reports /\ old \in Revisions
      BY <1>1 DEF Reports, PatternRecord
    <2>2. CASE change = <<FALSE, "longstanding_unchanged">>
      BY <2>1, <2>2
    <2>3. CASE change = <<TRUE, "new_mechanism">>
      BY <2>1, <2>3
    <2>4. CASE change = <<TRUE, "unknown">>
      BY <2>1, <2>4
    <2>. QED
      BY <2>2, <2>3, <2>4
  <1>4. /\ changed \in Dates \cup {NoDate}
        /\ heats' \in Seq(Snapshots) /\ Len(heats') = n /\ n \in 1 .. MaxReports
        /\ \A i \in 1 .. Len(heats) : heats'[i] = heats[i]
        /\ heats'[n].by = n /\ heats'[n].asOf = today
        /\ assessed' = [by |-> n, candidate |-> c, verdict |-> Gate(c), changed |-> changed,
                        input |-> Input("pattern_update", Gate(c), material, c.supported)]
    <2>. DEFINE features == Features(change[2])
    <2>1. /\ features.target \in DOMAIN TargetPoints /\ features.harm \in DOMAIN HarmPoints
          /\ features.spread \in DOMAIN SpreadPoints /\ features.novelty \in DOMAIN NoveltyPoints
      BY <1>3 DEF Features, TargetPoints, HarmPoints, SpreadPoints, NoveltyPoints
    <2>2. Assess(Len(heats) + 1, c, "pattern_update", seen, material, features)
      BY <1>2 DEF Reported
    <2>3. ("pattern_update" = "new_pattern" \/ material) = material
      BY <1>3
    <2>. HIDE DEF features, c, material
    <2>. QED
      BY <1>1, <1>3, <2>1, <2>2, <2>3, AssessLaw
  <1>5. /\ r \in Revisions /\ r.by = n
        /\ r.supported => r.seen = old.seen /\ r.changed = old.changed
    BY <1>3, <1>4, UpdatedRevisionType
  <1>. HIDE DEF r, c, material, changed
  <1>6. /\ pattern' \in PatternRecord /\ pattern'.draft = r /\ pattern'.approved = old
        /\ pattern'.status = "review_ready"
    <2>1. pattern' = [pattern EXCEPT !.draft = r]
      BY <1>2 DEF r, material
    <2>2. pattern' = [status |-> "review_ready", approved |-> old, draft |-> r]
      BY <1>1, <2>1 DEF PatternRecord
    <2>. QED
      BY <1>1, <1>3, <1>5, <2>2 DEF PatternRecord
  <1>7. TypeInv'
    <2>1. assessed'.by \in 0 .. MaxReports /\ assessed'.verdict.level \in Levels
      BY <1>4, GateType, CandidateAssumption
    <2>2. Len(heats') <= MaxReports
      BY <1>4, CandidateAssumption
    <2>. QED
      BY <1>1, <1>4, <1>6, <2>1, <2>2 DEF TypeInv
  <1>8. Calendar' /\ (\A s \in Revisions : (Showable(s) => Showable(s)') /\ (Dated(s) => Dated(s)'))
    BY <1>1, <1>4, <1>6, CalendarGrows
  <1>9. Dated(pattern.approved)' /\ (waiting' => Showable(pattern.approved)')
    BY <1>1, <1>3, <1>6, <1>8 DEF Dated, Showable
  <1>10. Dated(pattern.draft)'
    BY <1>4, <1>5, <1>6 DEF Dated
  <1>11. ReleaseInv'
    BY <1>1 DEF ReleaseInv, HeatIsNotOutdated, ReleaseIsExportable
  <1>12. AssessedInv'
    <2>1. c \in CandidateRecord /\ IsFiniteSet(c.evidence)
      BY <1>3, CandidateType DEF c
    <2>. QED
      BY <1>4, <2>1 DEF AssessedInv, Input
  <1>13. ReadyInv' /\ DatesInv'
    BY <1>1, <1>5, <1>6 DEF ReadyInv, DatesInv
  <1>. QED
    BY <1>7, <1>8, <1>9, <1>10, <1>11, <1>12, <1>13 DEF CandidateInv

\* The offline pipeline touches neither snapshots nor revisions.
LEMMA AssessFixtureInv == CandidateInv /\ offline /\ AssessFixture => CandidateInv'
  <1>. SUFFICES ASSUME CandidateInv, offline, AssessFixture PROVE CandidateInv'
    OBVIOUS
  <1>1. /\ TypeInv /\ Calendar /\ Dated(pattern.draft) /\ Dated(pattern.approved) /\ ReleaseInv
        /\ (waiting => Showable(pattern.approved)) /\ DatesInv
        /\ UNCHANGED <<today, pattern, heats, waiting, release, offline>>
    BY DEF CandidateInv, AssessFixture
  <1>2. PICK tiers \in {<<t>> : t \in Tiers} \cup (Tiers \X Tiers), claim \in ClaimTypes, risk \in RiskTypes, status \in LegalStatuses,
             type \in {"new_pattern", "pattern_update"}, material, copyChanged, verified \in BOOLEAN :
          LET candidate == [risk |-> risk, status |-> status, evidence |-> FixtureEvidence(tiers, claim), supported |-> TRUE,
                            duplicate |-> FALSE, blockers |-> {}]
              gate == Gate(candidate)
          IN  assessed' = [by |-> 1, candidate |-> candidate, verdict |-> gate, changed |-> 0,
                           input |-> [type |-> type, outcome |-> gate.outcome, level |-> gate.level,
                                      existing |-> type = "pattern_update", material |-> material, copyChanged |-> copyChanged,
                                      supported |-> TRUE, verified |-> verified]]
    BY Zenon DEF AssessFixture
  <1>. DEFINE c == [risk |-> risk, status |-> status, evidence |-> FixtureEvidence(tiers, claim), supported |-> TRUE,
                    duplicate |-> FALSE, blockers |-> {}]
              input == [type |-> type, outcome |-> Gate(c).outcome, level |-> Gate(c).level,
                        existing |-> type = "pattern_update", material |-> material, copyChanged |-> copyChanged,
                        supported |-> TRUE, verified |-> verified]
  <1>3. assessed' = [by |-> 1, candidate |-> c, verdict |-> Gate(c), changed |-> 0, input |-> input]
    BY <1>2
  <1>4. c \in CandidateRecord /\ IsFiniteSet(c.evidence)
    <2>1. PICK m \in {1, 2} : DOMAIN tiers = 1 .. m /\ \A i \in 1 .. m : tiers[i] \in Tiers
      <3>1. CASE tiers \in {<<t>> : t \in Tiers}
        BY <3>1
      <3>2. CASE tiers \in Tiers \X Tiers
        BY <3>2
      <3>. QED
        BY <3>1, <3>2
    <2>. DEFINE record(i) == [tier |-> tiers[i], claim |-> claim, family |-> i, origin |-> i, usable |-> TRUE]
                E == {record(i) : i \in 1 .. m}
    <2>2. FixtureEvidence(tiers, claim) = E
      BY <2>1 DEF FixtureEvidence
    <2>3. E \in SUBSET EvidenceRecord
      <3>. SUFFICES ASSUME NEW i \in 1 .. m PROVE record(i) \in EvidenceRecord
        OBVIOUS
      <3>1. i \in Nat /\ tiers[i] \in Tiers
        BY <2>1
      <3>. QED
        BY <3>1 DEF EvidenceRecord
    <2>4. IsFiniteSet(E)
      <3>1. [i \in 1 .. m |-> record(i)] \in Surjection(1 .. m, E)
        BY DEF Surjection
      <3>2. IsFiniteSet(1 .. m)
        BY FS_Interval
      <3>. QED
        BY <3>1, <3>2, FS_Surjection
    <2>. QED
      BY <2>2, <2>3, <2>4 DEF CandidateRecord
  <1>. HIDE DEF c
  <1>5. TypeInv'
    <2>1. assessed'.by \in 0 .. MaxReports /\ assessed'.verdict.level \in Levels
      BY <1>3, GateType, CandidateAssumption
    <2>. QED
      BY <1>1, <2>1 DEF TypeInv
  <1>6. Calendar' /\ Dated(pattern.draft)' /\ Dated(pattern.approved)' /\ (waiting' => Showable(pattern.approved)')
    BY <1>1 DEF Calendar, Dated, Showable
  <1>7. ReleaseInv'
    BY <1>1 DEF ReleaseInv, HeatIsNotOutdated, ReleaseIsExportable
  <1>8. AssessedInv'
    BY <1>3, <1>4, CandidateAssumption DEF AssessedInv
  <1>9. ReadyInv' /\ DatesInv'
    BY <1>1 DEF ReadyInv, Calendar, DatesInv
  <1>. QED
    BY <1>5, <1>6, <1>7, <1>8, <1>9 DEF CandidateInv

LEMMA NextInv == CandidateInv /\ [Next]_vars => CandidateInv'
  <1>. SUFFICES ASSUME CandidateInv, [Next]_vars PROVE CandidateInv'
    OBVIOUS
  <1>1. CASE UNCHANGED vars
    <2>1. /\ TypeInv /\ Calendar /\ Dated(pattern.draft) /\ Dated(pattern.approved) /\ ReleaseInv /\ AssessedInv /\ ReadyInv
          /\ DatesInv /\ (waiting => Showable(pattern.approved))
      BY DEF CandidateInv
    <2>2. TypeInv' /\ Calendar' /\ Dated(pattern.draft)' /\ Dated(pattern.approved)'
      BY <1>1, <2>1 DEF vars, TypeInv, Calendar, Dated
    <2>3. ReleaseInv' /\ AssessedInv' /\ ReadyInv' /\ DatesInv' /\ (waiting' => Showable(pattern.approved)')
      BY <1>1, <2>1 DEF vars, ReleaseInv, HeatIsNotOutdated, ReleaseIsExportable, AssessedInv, ReadyInv, DatesInv, Showable
    <2>. QED
      BY <2>2, <2>3 DEF CandidateInv
  <1>2. CASE ~offline /\ SubmitNew
    BY <1>2, SubmitNewInv
  <1>3. CASE ~offline /\ SubmitUpdate
    BY <1>3, SubmitUpdateInv
  <1>4. CASE ~offline /\ Approve
    BY <1>4, ApproveInv
  <1>5. CASE ~offline /\ Reject
    BY <1>5, RejectInv
  <1>6. CASE ~offline /\ PrepareRelease
    BY <1>6, ReleaseStepInv
  <1>7. CASE ~offline /\ DaysPass
    BY <1>7, DaysInv
  <1>8. CASE offline /\ AssessFixture
    BY <1>8, AssessFixtureInv
  <1>. QED
    BY <1>1, <1>2, <1>3, <1>4, <1>5, <1>6, <1>7, <1>8 DEF Next

\* The snapshots stay in order and every revision keeps its snapshot.
THEOREM CandidateInvariant == Spec => []CandidateInv
  BY InitInv, NextInv, PTL DEF Spec

-----------------------------------------------------------------------------
(* What follows.                                                           *)

\* Every variable keeps its type.
THEOREM CandidateTypeCorrect == Spec => []CandidateTypeOK
  <1>1. CandidateInv => CandidateTypeOK
    <2>. SUFFICES ASSUME CandidateInv PROVE CandidateTypeOK
      OBVIOUS
    <2>1. TypeInv /\ Calendar
      BY DEF CandidateInv
    <2>2. DOMAIN heats = 1 .. Len(heats)
      BY <2>1 DEF TypeInv
    <2>3. \A i \in DOMAIN heats : heats[i].asOf \in Dates /\ heats[i].by = i /\ PartsValid(heats[i].parts)
      <3>1. \A i \in DOMAIN heats : heats[i] \in Snapshots
        BY <2>1, <2>2 DEF TypeInv
      <3>. QED
        BY <2>1, <2>2, <3>1, PartsRecordValid DEF Calendar, Snapshots
    <2>. QED
      BY <2>1, <2>3 DEF TypeInv, PatternRecord, CandidateTypeOK
  <1>. QED
    BY <1>1, CandidateInvariant, PTL

\* A release shows a heat at least as recent as the revision beside it.
THEOREM HeatIsNotOutdatedTheorem == Spec => []HeatIsNotOutdated
  <1>1. CandidateInv => HeatIsNotOutdated
    BY DEF CandidateInv, ReleaseInv
  <1>. QED
    BY <1>1, CandidateInvariant, PTL

\* What was exportable when its publication was requested is so when released,
\* but for a blank text, which no check of the database reads.
THEOREM ReleaseIsExportableTheorem == Spec => []ReleaseIsExportable
  <1>1. CandidateInv => ReleaseIsExportable
    BY DEF CandidateInv, ReleaseInv
  <1>. QED
    BY <1>1, CandidateInvariant, PTL

\* An approval never moves the dates of an approved page: what moves them has no
\* span of its own, and the approval asks for one.
THEOREM DatesStandOnceApprovedTheorem == Spec => DatesStandOnceApproved
  <1>. DEFINE Stands == pattern.approved # NoRevision =>
                /\ pattern'.approved.seen = pattern.approved.seen
                /\ pattern'.approved.changed = pattern.approved.changed
  <1>1. CandidateInv /\ [Next]_vars => [Stands]_vars
    <2>. SUFFICES ASSUME CandidateInv, Next, pattern.approved # NoRevision
                  PROVE  /\ pattern'.approved.seen = pattern.approved.seen
                         /\ pattern'.approved.changed = pattern.approved.changed
      OBVIOUS
    <2>1. DatesInv /\ pattern \in PatternRecord
      BY DEF CandidateInv, TypeInv
    <2>2. CASE SubmitNew  \* the pattern is new and none is approved
      BY <2>1, <2>2 DEF SubmitNew, DatesInv
    <2>3. CASE Approve    \* the draft is supported, so it has the old dates
      BY <2>1, <2>3 DEF Approve, Approvable, Publishable, DatesInv
    <2>4. CASE SubmitUpdate
      <3>1. pattern'.approved = pattern.approved
        BY <2>1, <2>4 DEF SubmitUpdate, PatternRecord
      <3>. QED
        BY <3>1
    <2>5. CASE Reject
      <3>1. pattern'.approved = pattern.approved
        BY <2>1, <2>5 DEF Reject, PatternRecord
      <3>. QED
        BY <3>1
    <2>6. CASE PrepareRelease \/ DaysPass \/ AssessFixture
      BY <2>6 DEF PrepareRelease, DaysPass, AssessFixture
    <2>. QED
      BY <2>2, <2>3, <2>4, <2>5, <2>6 DEF Next
  <1>. QED
    BY <1>1, CandidateInvariant, PTL DEF Spec, DatesStandOnceApproved

\* Current attention and freshness points end on the same day, for all dates.
THEOREM AttentionHasPointsTheorem == Spec => []AttentionHasPoints
  <1>1. CandidateInv => AttentionHasPoints
    <2>. DEFINE a == assessed.changed
    <2>. SUFFICES ASSUME CandidateInv, a # NoDate PROVE AttentionHasPoints
      BY DEF AttentionHasPoints
    <2>1. a \in Dates
      BY DEF CandidateInv, AssessedInv, NoAssessment
    <2>2. \A d \in Dates : d \in Nat
      BY CandidateAssumption
    <2>3. ASSUME NEW d \in Dates, d >= a
          PROVE  Active("A", a, d) <=> FreshnessPoints(a, d) > 0
      BY <2>1, <2>2, <2>3, FreshnessIsAttention
    <2>4. ASSUME NEW d \in Dates, d >= a, NEW e \in Dates, e >= d
          PROVE  FreshnessPoints(a, e) <= FreshnessPoints(a, d)
      <3>1. a \in Int /\ d \in Int /\ e \in Int /\ d - a <= e - a
        BY <2>1, <2>2, <2>4
      <3>. HIDE DEF a
      <3>. QED
        BY <3>1, FreshnessCools
    <2>. QED
      BY <2>3, <2>4 DEF AttentionHasPoints
  <1>. QED
    BY <1>1, CandidateInvariant, PTL

\* Losing evidence never helps a candidate, whatever else it rests on.
THEOREM GateIsMonotoneTheorem == Spec => []GateIsMonotone
  <1>1. CandidateInv => GateIsMonotone
    <2>. SUFFICES ASSUME CandidateInv, assessed # NoAssessment PROVE GateIsMonotone
      BY DEF GateIsMonotone
    <2>1. assessed.candidate \in CandidateRecord /\ IsFiniteSet(assessed.candidate.evidence)
      BY DEF CandidateInv, AssessedInv
    <2>. QED
      BY <2>1, GateLaw DEF GateIsMonotone
  <1>. QED
    BY <1>1, CandidateInvariant, PTL

\* Low confidence adds a review and takes nothing away, whatever is assessed.
THEOREM ConfidenceOnlyAddsTheorem == Spec => []ConfidenceOnlyAdds
  <1>1. ConfidenceOnlyAdds
    BY PolicyLaw DEF ConfidenceOnlyAdds
  <1>. QED
    BY <1>1, PTL

\* The policy handles exactly what the gate lets through.
THEOREM EligibleIsHandledTheorem == Spec => []EligibleIsHandled
  <1>1. CandidateInv => EligibleIsHandled
    <2>. SUFFICES ASSUME CandidateInv, assessed # NoAssessment PROVE EligibleIsHandled
      BY DEF EligibleIsHandled
    <2>1. assessed.input.outcome = assessed.verdict.outcome
      BY DEF CandidateInv, AssessedInv
    <2>. QED
      BY <2>1, PolicyHandles DEF EligibleIsHandled
  <1>. QED
    BY <1>1, CandidateInvariant, PTL

LEMMA OneSnapshot ==
  ASSUME TypeInv, Calendar, Len(heats) = 1
  PROVE  LatestHeat = heats[1] /\ heats[1].parts \in PartsRecord /\ heats[1].asOf \in Int
  <1>1. LatestHeat = heats[1]
    BY LatestIsLast
  <1>2. heats \in Seq(Snapshots) /\ 1 \in 1 .. Len(heats)
    BY DEF TypeInv
  <1>3. heats[1] \in Snapshots
    BY <1>2, ElementOfSeq
  <1>4. heats[1].asOf \in Dates /\ heats[1].parts \in PartsRecord
    BY <1>3 DEF Snapshots
  <1>5. \A d \in Dates : d \in Int
    BY CandidateAssumption
  <1>. QED
    BY <1>1, <1>4, <1>5

\* What is presented as ready can be approved: the three judges agree on every
\* source but an A1 regulator.
THEOREM ReadyIsApprovableTheorem == Spec => []ReadyIsApprovable
  <1>1. CandidateInv => ReadyIsApprovable
    <2>. DEFINE r == pattern.draft
    <2>. SUFFICES ASSUME CandidateInv, pattern.status = "review_ready", pattern.approved = NoRevision,
                         r.changed <= heats[1].asOf, "hook" \in r.names
                  PROVE  Approvable
      BY DEF ReadyIsApprovable
    <2>0. TypeInv /\ Calendar /\ Len(heats) = 1 /\ r \in Revisions
      BY DEF CandidateInv, ReadyInv, TypeInv, PatternRecord
    <2>1. /\ r # NoRevision
          /\ assessed.input.outcome = "eligible_for_policy" /\ assessed.input.supported
          /\ Publishable(r) /\ r.changed # NoDate /\ "requested action" \in r.names
          /\ r.risk = "risk_alert" => r.status \in {"warning", "enforcement", "unknown"}
      BY DEF CandidateInv, ReadyInv
    <2>2. LatestHeat = heats[1] /\ heats[1].parts \in PartsRecord /\ heats[1].asOf \in Int
      BY <2>0, OneSnapshot
    <2>3. r.names = PublicFields
      BY <2>0, <2>1 DEF Revisions, PublicFields
    <2>4. r.changed \in Int
      BY <2>0, RevisionDates
    <2>5. ReleaseExportable(r)
      BY <2>1, <2>2, <2>3, <2>4, PartsRecordValid DEF ReleaseExportable
    <2>6. ~Blocked
      BY <2>1 DEF Blocked, EvaluatePolicy, Decision
    <2>. QED
      BY <2>1, <2>5, <2>6 DEF Approvable
  <1>. QED
    BY <1>1, CandidateInvariant, PTL
=============================================================================
