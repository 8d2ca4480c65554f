------------------------------- MODULE Intake -------------------------------
(* One source's collection runs, the database they share and the reviewer:    *)
(* worker/src/scam_radar/durable.py and the intake, recovery and review RPCs  *)
(* of supabase/migrations.  Every action of a run is one RPC (one             *)
(* transaction) or one step between two RPCs; the reviewer's actions          *)
(* interleave with them.                                                      *)
(*                                                                            *)
(* A run is a slot of Runs: when it ends or dies, the claims and the lease    *)
(* it leaves behind pass to Nobody, so that a slot used again is a new run id.*)
(* Time is abstract: claimed_until and expires_at are the Booleans live, and  *)
(* either may lapse at any moment its order of acquisition allows.            *)
EXTENDS Integers, FiniteSets

CONSTANTS
    Versions,      \* source_item_versions of the source, numbered by created_at
    Existing,      \* patterns approved before the first run
    Runs,          \* slots for concurrent pipeline runs
    Nobody,        \* SQL null
    AttemptLimit,  \* the retry ceiling: 3 in claim_source_version
    MaxFaults,     \* bound: crashes, lost replies and outlived claims
    RowCap         \* bound: reviewer actions stop at this row_version

VARIABLES
    versions,     \* source_item_versions: status, claim_holder, claim live, attempt_count
    patterns,     \* scam_patterns: lifecycle_status, row_version, latest approved, current draft
    submissions,  \* review_items with their revision, evidence and policy_decisions
    changes,      \* the newest publication_changes row of each pattern
    lease,        \* operation_leases row of the source
    runs,         \* where each worker process is in DurablePipeline.run
    faults        \* faults spent so far

vars == <<versions, patterns, submissions, changes, lease, runs, faults>>

-----------------------------------------------------------------------------
(* A version's first submission founds the pattern named after it; its later *)
(* one may add evidence to an approved pattern.                               *)
Patterns == Existing \cup Versions
Kinds == {"new_pattern", "pattern_update"}
Submissions == Versions \X Kinds
New(v) == <<v, "new_pattern">>
Update(v) == <<v, "pattern_update">>
Revisions == Submissions \cup (Existing \X {"base"})

ASSUME IntakeAssumption ==
    /\ Versions \subseteq Nat /\ IsFiniteSet(Versions)
    /\ AttemptLimit \in Nat \ {0} /\ MaxFaults \in Nat /\ RowCap \in Nat
    /\ Nobody \notin Patterns \cup Runs \cup Revisions
    /\ Existing \cap Versions = {}

OpenStatus == {"pending", "needs_evidence"}
Open(s) == submissions[s].status \in OpenStatus
Committed(v) == submissions[Update(v)].status # "none"

NoSubmission == [status |-> "none", pattern |-> Nobody, base_row |-> 0, revision |-> "none", evidence |-> "none", policies |-> 0]
Submitted(p, row) == [status |-> "pending", pattern |-> p, base_row |-> row, revision |-> "draft", evidence |-> "proposed", policies |-> 0]

Idle == [pc |-> "idle", version |-> Nobody, kind |-> Nobody, pattern |-> Nobody, base |-> Nobody]
RunLabels == {"idle", "collect", "loop", "recover", "analyse", "drop", "submit", "policy", "finish", "hold", "conflict", "fail", "leave"}

IntakeTypeOK ==
    /\ versions \in [Versions -> [status : {"absent", "pending_ai", "processing", "processed", "irrelevant", "error"},
                                  holder : Runs \cup {Nobody}, live : BOOLEAN, attempts : 0 .. AttemptLimit + 1]]
    /\ patterns \in [Patterns -> [lifecycle : {"none", "evidence_pending", "review_ready", "rejected", "archived"},
                                  row : 0 .. RowCap + 1, latest : Revisions \cup {Nobody}, draft : Submissions \cup {Nobody}]]
    /\ submissions \in [Submissions -> [status : {"none", "pending", "needs_evidence", "approved", "rejected"},
                                        pattern : Patterns \cup {Nobody}, base_row : 0 .. RowCap + 1,
                                        revision : {"none", "draft", "approved", "rejected"},
                                        evidence : {"none", "proposed", "accepted", "rejected"}, policies : Nat]]
    /\ changes \in [Patterns -> [action : {"none", "publish", "unpublish"}, row : 0 .. RowCap + 1]]
    /\ lease \in [holder : Runs \cup {Nobody}, held : BOOLEAN, live : BOOLEAN]
    /\ runs \in [Runs -> [pc : RunLabels, version : Versions \cup {Nobody}, kind : Kinds \cup {Nobody},
                          pattern : Patterns \cup {Nobody}, base : Revisions \cup {Nobody}]]
    /\ faults \in 0 .. MaxFaults

Init ==
    /\ versions = [v \in Versions |-> [status |-> "absent", holder |-> Nobody, live |-> FALSE, attempts |-> 0]]
    /\ patterns = [p \in Patterns |->
          IF p \in Existing
          THEN [lifecycle |-> "review_ready", row |-> 1, latest |-> <<p, "base">>, draft |-> Nobody]
          ELSE [lifecycle |-> "none", row |-> 0, latest |-> Nobody, draft |-> Nobody]]
    /\ submissions = [s \in Submissions |-> NoSubmission]
    /\ changes = [p \in Patterns |-> IF p \in Existing THEN [action |-> "publish", row |-> 1] ELSE [action |-> "none", row |-> 0]]
    /\ lease = [holder |-> Nobody, held |-> FALSE, live |-> FALSE]
    /\ runs = [r \in Runs |-> Idle]
    /\ faults = 0

-----------------------------------------------------------------------------
(* The run as a process.                                                      *)
At(r, label) == runs[r].pc = label
Goto(r, label) == runs' = [runs EXCEPT ![r].pc = label]
NextVersion(r) == runs' = [runs EXCEPT ![r] = [Idle EXCEPT !.pc = "loop"]]
Leaving(r) == runs' = [runs EXCEPT ![r] = [Idle EXCEPT !.pc = "leave"]]

Fault == faults < MaxFaults /\ faults' = faults + 1

\* An RPC that committed: the worker reads the reply and goes on, or the reply
\* is lost and it takes the StageFailure branch.  No RPC is retried.
Reply(r, label) ==
    \/ Goto(r, label) /\ UNCHANGED faults
    \/ Goto(r, "fail") /\ Fault

\* Mutant: a refused call is swallowed and the run goes on to finish.
Refused_Swallowed(r) == Goto(r, "finish") /\ UNCHANGED <<versions, patterns, submissions, changes, lease, faults>>

\* An RPC that raised: nothing is written.
Refused(r) == Goto(r, "fail") /\ UNCHANGED <<versions, patterns, submissions, changes, lease, faults>>

Owns(r, v) == versions[v].status = "processing" /\ versions[v].holder = r
Holds(r, v) == Owns(r, v) /\ versions[v].live

AcquireLease(r) ==
    /\ At(r, "idle")
    /\ ~lease.held \/ ~lease.live
    /\ lease' = [holder |-> r, held |-> TRUE, live |-> TRUE]
    /\ Goto(r, "collect")
    /\ UNCHANGED <<versions, patterns, submissions, changes, faults>>

IngestVersion(r, v) ==
    /\ At(r, "collect")
    /\ versions[v].status = "absent"
    /\ \A w \in Versions : w < v => versions[w].status # "absent"
    /\ versions' = [versions EXCEPT ![v].status = "pending_ai"]
    /\ UNCHANGED <<patterns, submissions, changes, lease, runs, faults>>

EndCollection(r) ==
    /\ At(r, "collect")
    /\ Goto(r, "loop")
    /\ UNCHANGED <<versions, patterns, submissions, changes, lease, faults>>

\* Discovery, a fetch or an ingest fails: the source is left without a claim.
CollectionFails(r) ==
    /\ At(r, "collect")
    /\ Leaving(r)
    /\ UNCHANGED <<versions, patterns, submissions, changes, lease, faults>>

\* Mutant: the ceiling also binds committed updates, as before 20260928000200.
Claimable_OneCeiling(v) ==
    /\ versions[v].attempts < AttemptLimit
    /\ \/ versions[v].status \in {"pending_ai", "error"}
       \/ versions[v].status = "processing" /\ ~versions[v].live

Claimable(v) ==
    /\ versions[v].attempts < AttemptLimit \/ Committed(v)
    /\ \/ versions[v].status \in {"pending_ai", "error"}
       \/ versions[v].status = "processing" /\ ~versions[v].live

\* attempt_count of a committed update grows without bound; past the ceiling
\* its value is never read again, so it saturates one above.
OneMore(n) == IF n > AttemptLimit THEN n ELSE n + 1

\* A claim whose reply is lost leaves the version in processing, and the source.
ClaimVersion(r, v) ==
    /\ At(r, "loop")
    /\ Claimable(v)
    /\ \A w \in Versions : w < v => ~Claimable(w)
    /\ versions' = [versions EXCEPT ![v] =
          [status |-> "processing", holder |-> r, live |-> TRUE, attempts |-> OneMore(@.attempts)]]
    /\ \/ runs' = [runs EXCEPT ![r] = [Idle EXCEPT !.pc = "recover", !.version = v]] /\ UNCHANGED faults
       \/ Leaving(r) /\ Fault
    /\ UNCHANGED <<patterns, submissions, changes, lease>>

NothingToClaim(r) ==
    /\ At(r, "loop")
    /\ \A v \in Versions : ~Claimable(v)
    /\ Leaving(r)
    /\ UNCHANGED <<versions, patterns, submissions, changes, lease, faults>>

-----------------------------------------------------------------------------
(* Recovery of a committed update: get_existing_update_recovery.              *)
Ambiguous(v) == submissions[Update(v)].policies > 1

Receipt(v) ==
    LET s == Update(v)
        x == submissions[s]
        p == patterns[x.pattern]
        sound ==
            CASE x.status = "rejected" -> x.revision = "rejected" /\ x.evidence = "rejected" /\ p.draft # s /\ p.latest # s
              [] x.status = "approved" -> x.policies = 1 /\ x.revision = "approved" /\ x.evidence = "accepted" /\ p.draft # s
              [] OTHER -> /\ x.revision = "draft" /\ x.evidence = "proposed" /\ p.draft = s
                          /\ x.policies = 0 /\ x.status = "pending" => p.row = x.base_row
    IN  IF ~Committed(v) THEN "none"
        ELSE IF Ambiguous(v) \/ ~sound THEN "invalid"
        ELSE IF x.policies = 1 \/ x.status = "rejected" THEN "finish"
        ELSE IF p.row = x.base_row THEN "policy"
        ELSE "hold"

ReadRecovery(r) ==
    LET v == runs[r].version IN
    /\ At(r, "recover")
    /\ IF ~Holds(r, v) \/ Receipt(v) = "invalid"
       THEN Goto(r, "fail")
       ELSE IF Receipt(v) = "none"
       THEN Goto(r, "analyse")
       ELSE runs' = [runs EXCEPT ![r].pc = Receipt(v), ![r].kind = "pattern_update"]
    /\ UNCHANGED <<versions, patterns, submissions, changes, lease, faults>>

\* Mutant: a deferral keeps the attempt.
Returned_Spent(x) == [x EXCEPT !.status = "pending_ai", !.holder = Nobody, !.live = FALSE]

\* defer_recovered_update_for_review: back to the queue, the attempt returned.
Returned(x) == [x EXCEPT !.status = "pending_ai", !.holder = Nobody, !.live = FALSE, !.attempts = IF @ = 0 THEN 0 ELSE @ - 1]

DeferHeldUpdate(r) ==
    LET v == runs[r].version IN
    /\ At(r, "hold")
    /\ IF Holds(r, v) /\ Receipt(v) = "hold"
       THEN versions' = [versions EXCEPT ![v] = Returned(@)]
       ELSE UNCHANGED versions
    /\ Leaving(r)
    /\ UNCHANGED <<patterns, submissions, changes, lease, faults>>

-----------------------------------------------------------------------------
(* Analysis: relevance, extraction, matching.  The candidates, their base     *)
(* revision and pending_review are read once, before the model compares them. *)
MatchCandidate(p) ==
    /\ patterns[p].lifecycle \in {"review_ready", "evidence_pending"}
    /\ patterns[p].latest # Nobody

AnalysisFails(r) ==
    /\ At(r, "analyse")
    /\ Refused(r)

\* The relevance artifact of a version is stored once, so a version that has
\* been submitted is not judged irrelevant later.
JudgeIrrelevant(r) ==
    /\ At(r, "analyse")
    /\ submissions[New(runs[r].version)].status = "none"
    /\ Goto(r, "drop")
    /\ UNCHANGED <<versions, patterns, submissions, changes, lease, faults>>

JudgeNew(r) ==
    /\ At(r, "analyse")
    /\ runs' = [runs EXCEPT ![r].pc = "submit", ![r].kind = "new_pattern"]
    /\ UNCHANGED <<versions, patterns, submissions, changes, lease, faults>>

JudgeMatch(r, p) ==
    /\ At(r, "analyse")
    /\ MatchCandidate(p)
    /\ runs' = [runs EXCEPT ![r].pc = IF patterns[p].draft # Nobody THEN "conflict" ELSE "submit",
                            ![r].kind = "pattern_update", ![r].pattern = p, ![r].base = patterns[p].latest]
    /\ UNCHANGED <<versions, patterns, submissions, changes, lease, faults>>

DeferConflict(r) ==
    LET v == runs[r].version
        p == runs[r].pattern IN
    /\ At(r, "conflict")
    /\ IF Holds(r, v) /\ patterns[p].latest # Nobody /\ patterns[p].draft # Nobody
       THEN versions' = [versions EXCEPT ![v] = Returned(@)]
       ELSE UNCHANGED versions
    /\ Leaving(r)
    /\ UNCHANGED <<patterns, submissions, changes, lease, faults>>

-----------------------------------------------------------------------------
(* Submission, policy decision, completion.                                   *)

\* A replay of a committed new-pattern candidate never reaches the policy step:
\* its receipt has no missing_claim_count and a changed heat date is refused.
SubmitNewPattern(r) ==
    LET v == runs[r].version IN
    /\ At(r, "submit") /\ runs[r].kind = "new_pattern"
    /\ IF Holds(r, v) /\ submissions[New(v)].status = "none" /\ ~Open(Update(v))
       THEN /\ \E status \in {"review_ready", "evidence_pending"} :
                 patterns' = [patterns EXCEPT ![v] = [lifecycle |-> status, row |-> 1, latest |-> Nobody, draft |-> New(v)]]
            /\ submissions' = [submissions EXCEPT ![New(v)] = Submitted(v, 1)]
            /\ Reply(r, "policy")
            /\ UNCHANGED <<versions, changes, lease>>
       ELSE Refused(r)

\* Mutant: a draft that appeared after the candidates were read is not noticed.
BaseUnchanged_AnyDraft(p, base) == patterns[p].latest = base /\ patterns[p].lifecycle = "review_ready"

\* The pattern must be as the candidate list showed it; the evidence of the
\* version that founded a pattern cannot be added to it again, and the open
\* review items of a version are unique.
BaseUnchanged(p, base) ==
    patterns[p].latest = base /\ patterns[p].draft = Nobody /\ patterns[p].lifecycle = "review_ready"

SubmitUpdate(r) ==
    LET v == runs[r].version
        p == runs[r].pattern IN
    /\ At(r, "submit") /\ runs[r].kind = "pattern_update"
    /\ IF /\ Holds(r, v) /\ ~Committed(v)
          /\ BaseUnchanged(p, runs[r].base)
          /\ p # v /\ ~Open(New(v))
       THEN /\ patterns' = [patterns EXCEPT ![p].draft = Update(v)]
            /\ submissions' = [submissions EXCEPT ![Update(v)] = Submitted(p, patterns[p].row)]
            /\ Reply(r, "policy")
            /\ UNCHANGED <<versions, changes, lease>>
       ELSE Refused(r)

\* record_policy_decision is fenced by the row version, not by the claim.  One
\* run decides once; another run's decision is another row.
PolicyInputCurrent(s) ==
    /\ submissions[s].revision = "draft" /\ Open(s)
    /\ submissions[s].base_row = patterns[submissions[s].pattern].row

RecordPolicy(r) ==
    LET s == <<runs[r].version, runs[r].kind>> IN
    /\ At(r, "policy")
    /\ IF PolicyInputCurrent(s)
       THEN /\ submissions' = [submissions EXCEPT ![s].policies = @ + 1]
            /\ Reply(r, "finish")
            /\ UNCHANGED <<versions, patterns, changes, lease>>
       ELSE Refused(r)

\* Mutant: a status the table does not know.
Closed_Unknown(x, status) == [x EXCEPT !.status = "done", !.holder = Nobody, !.live = FALSE]

Closed(x, status) == [x EXCEPT !.status = status, !.holder = Nobody, !.live = FALSE]

\* Mutant: finish_source_version does not compare the holder.
MayFinish_AnyHolder(r, v) == versions[v].status = "processing"

\* finish_source_version does not look at claimed_until: a holder whose claim
\* lapsed may still finish until another run takes the version over.
MayFinish(r, v) == Owns(r, v)

FinishVersion(r, label, status) ==
    LET v == runs[r].version IN
    /\ At(r, label)
    /\ IF MayFinish(r, v)
       THEN /\ versions' = [versions EXCEPT ![v] = Closed(@, status)]
            /\ \/ NextVersion(r) /\ UNCHANGED faults
               \/ Goto(r, "fail") /\ Fault
            /\ UNCHANGED <<patterns, submissions, changes, lease>>
       ELSE Refused(r)

\* The StageFailure branch: record the error if the version is still ours, and
\* stop the source either way.
FailVersion(r) ==
    LET v == runs[r].version IN
    /\ At(r, "fail")
    /\ versions' = [versions EXCEPT ![v] = IF MayFinish(r, v) THEN Closed(@, "error") ELSE @]
    /\ Leaving(r)
    /\ UNCHANGED <<patterns, submissions, changes, lease, faults>>

-----------------------------------------------------------------------------
(* The end of a run, its death, and time.                                     *)
Orphaned(r) == [v \in Versions |-> IF versions[v].holder = r THEN [versions[v] EXCEPT !.holder = Nobody] ELSE versions[v]]

ReleaseLease(r) ==
    /\ At(r, "leave")
    /\ lease' = IF lease.held /\ lease.holder = r THEN [holder |-> Nobody, held |-> FALSE, live |-> FALSE] ELSE lease
    /\ versions' = Orphaned(r)
    /\ runs' = [runs EXCEPT ![r] = Idle]
    /\ UNCHANGED <<patterns, submissions, changes, faults>>

Crash(r) ==
    /\ ~At(r, "idle")
    /\ Fault
    /\ lease' = IF lease.holder = r THEN [lease EXCEPT !.holder = Nobody] ELSE lease
    /\ versions' = Orphaned(r)
    /\ runs' = [runs EXCEPT ![r] = Idle]
    /\ UNCHANGED <<patterns, submissions, changes>>

\* A claim is taken after the lease of its run and lasts as long, so it does
\* not lapse first.  A live run that outlives its claim counts as a fault.
ClaimLapses(v) ==
    /\ versions[v].status = "processing" /\ versions[v].live
    /\ ~(lease.live /\ lease.holder = versions[v].holder /\ lease.holder # Nobody)
    /\ versions' = [versions EXCEPT ![v].live = FALSE]
    /\ IF versions[v].holder = Nobody THEN UNCHANGED faults ELSE Fault
    /\ UNCHANGED <<patterns, submissions, changes, lease, runs>>

LeaseLapses ==
    /\ lease.held /\ lease.live
    /\ lease' = [lease EXCEPT !.live = FALSE]
    /\ UNCHANGED <<versions, patterns, submissions, changes, runs, faults>>

-----------------------------------------------------------------------------
(* The reviewer.  RowCap bounds the actions that raise a row_version.          *)
PatternOf(s) == submissions[s].pattern

\* Mutant: approval without a policy decision.
Approvable_Undecided(s) ==
    /\ Open(s)
    /\ submissions[s].base_row = patterns[PatternOf(s)].row
    /\ submissions[s].revision = "draft" /\ patterns[PatternOf(s)].draft = s

\* Mutant: approval does not compare the row version.
Approvable_StaleRow(s) ==
    /\ Open(s)
    /\ submissions[s].policies > 0
    /\ submissions[s].revision = "draft" /\ patterns[PatternOf(s)].draft = s

\* confirm_policy_publication and approve_review_item: a current shadow policy,
\* an unchanged row version and draft, and every proposed evidence accepted
\* (the approval check compares the evidence hash).
Approvable(s) ==
    /\ Open(s)
    /\ submissions[s].policies > 0
    /\ submissions[s].base_row = patterns[PatternOf(s)].row
    /\ submissions[s].revision = "draft" /\ patterns[PatternOf(s)].draft = s

Approve(s) ==
    LET p == PatternOf(s) IN
    /\ Approvable(s)
    /\ patterns[p].row < RowCap
    /\ patterns' = [patterns EXCEPT ![p] = [lifecycle |-> "review_ready", row |-> @.row + 1, latest |-> s, draft |-> Nobody]]
    /\ submissions' = [submissions EXCEPT ![s].status = "approved", ![s].revision = "approved", ![s].evidence = "accepted"]
    /\ changes' = [changes EXCEPT ![p] = [action |-> "publish", row |-> patterns[p].row + 1]]
    /\ UNCHANGED <<versions, lease, runs, faults>>

\* Mutant: rejecting, like approving, demands the row version of the submission.
UpdateRejectable_UnchangedRow(s) ==
    LET p == PatternOf(s) IN
    /\ patterns[p].latest # Nobody /\ patterns[p].draft = s
    /\ patterns[p].row = submissions[s].base_row
    /\ submissions[s].evidence = "proposed" /\ submissions[s].revision = "draft"
    /\ submissions[s].status = "needs_evidence" => patterns[p].lifecycle = "evidence_pending"

\* Rejecting a held update also fires restore_existing_pattern_after_held_rejection,
\* which aborts the rejection unless the pattern is still evidence_pending.
UpdateRejectable(s) ==
    LET p == PatternOf(s) IN
    /\ patterns[p].latest # Nobody /\ patterns[p].draft = s
    /\ submissions[s].evidence = "proposed" /\ submissions[s].revision = "draft"
    /\ submissions[s].status = "needs_evidence" => patterns[p].lifecycle = "evidence_pending"

\* Mutant: rejecting an update leaves its evidence proposed.
RejectedRows_KeepEvidence(x) == [x EXCEPT !.status = "rejected", !.revision = "rejected"]

RejectedRows(x) == [x EXCEPT !.status = "rejected", !.revision = "rejected", !.evidence = "rejected"]

Rejectable(s) == Open(s) /\ (s[2] = "pattern_update" => UpdateRejectable(s))

RejectUpdate(s) ==
    LET p == PatternOf(s) IN
    /\ s[2] = "pattern_update" /\ Rejectable(s)
    /\ patterns[p].row < RowCap
    /\ patterns' = [patterns EXCEPT ![p].draft = Nobody, ![p].row = @ + 1,
                       ![p].lifecycle = IF submissions[s].status = "needs_evidence" THEN "review_ready" ELSE @]
    /\ submissions' = [submissions EXCEPT ![s] = RejectedRows(@)]
    /\ UNCHANGED <<versions, changes, lease, runs, faults>>

\* A rejected new pattern keeps its draft and its proposed evidence.
RejectNew(s) ==
    LET p == PatternOf(s) IN
    /\ s[2] = "new_pattern" /\ Rejectable(s)
    /\ patterns[p].row < RowCap
    /\ submissions' = [submissions EXCEPT ![s].status = "rejected"]
    /\ patterns' = IF patterns[p].latest = Nobody
                   THEN [patterns EXCEPT ![p].lifecycle = "rejected", ![p].row = @ + 1]
                   ELSE patterns
    /\ UNCHANGED <<versions, changes, lease, runs, faults>>

\* Mutant: holding also moves an archived pattern.
HeldRow_Archived(x, kind) == [x EXCEPT !.lifecycle = "evidence_pending", !.row = IF kind = "pattern_update" THEN @ ELSE @ + 1]

\* Holding an update leaves the row version alone, so that its policy still
\* binds; holding a new pattern raises it, and an archived pattern is left alone.
HeldRow(x, kind) ==
    IF x.lifecycle = "archived"
    THEN x
    ELSE [x EXCEPT !.lifecycle = "evidence_pending", !.row = IF kind = "pattern_update" THEN @ ELSE @ + 1]

Hold(s) ==
    LET p == PatternOf(s) IN
    /\ submissions[s].status = "pending"
    /\ patterns[p].row < RowCap
    /\ submissions' = [submissions EXCEPT ![s].status = "needs_evidence"]
    /\ patterns' = [patterns EXCEPT ![p] = HeldRow(@, s[2])]
    /\ UNCHANGED <<versions, changes, lease, runs, faults>>

Archive(p) ==
    /\ patterns[p].lifecycle # "none"
    /\ patterns[p].row < RowCap
    /\ patterns' = [patterns EXCEPT ![p].lifecycle = "archived", ![p].row = @ + 1]
    /\ changes' = IF patterns[p].latest # Nobody
                  THEN [changes EXCEPT ![p] = [action |-> "unpublish", row |-> patterns[p].row + 1]]
                  ELSE changes
    /\ UNCHANGED <<versions, submissions, lease, runs, faults>>

Unpublish(p) ==
    /\ patterns[p].latest # Nobody
    /\ patterns[p].row < RowCap
    /\ patterns' = [patterns EXCEPT ![p].row = @ + 1]
    /\ changes' = [changes EXCEPT ![p] = [action |-> "unpublish", row |-> patterns[p].row + 1]]
    /\ UNCHANGED <<versions, submissions, lease, runs, faults>>

-----------------------------------------------------------------------------
FinishStep(r) == FinishVersion(r, "finish", "processed") \/ FinishVersion(r, "drop", "irrelevant")

Collect(r) == \E v \in Versions : IngestVersion(r, v)
Claim(r) == (\E v \in Versions : ClaimVersion(r, v)) \/ NothingToClaim(r)
Analyse(r) == AnalysisFails(r) \/ JudgeIrrelevant(r) \/ JudgeNew(r) \/ (\E p \in Patterns : JudgeMatch(r, p))
Defer(r) == DeferHeldUpdate(r) \/ DeferConflict(r)
Submit(r) == SubmitNewPattern(r) \/ SubmitUpdate(r)

\* What a run does of its own accord once it has the lease.
RunStep(r) ==
    \/ EndCollection(r) \/ CollectionFails(r) \/ Claim(r) \/ ReadRecovery(r) \/ Analyse(r) \/ Defer(r)
    \/ Submit(r) \/ RecordPolicy(r) \/ FinishStep(r) \/ FailVersion(r) \/ ReleaseLease(r)

Review ==
    \/ \E s \in Submissions : Approve(s) \/ RejectUpdate(s) \/ RejectNew(s) \/ Hold(s)
    \/ \E p \in Patterns : Archive(p) \/ Unpublish(p)

Next ==
    \/ \E r \in Runs : AcquireLease(r) \/ Collect(r) \/ RunStep(r) \/ Crash(r)
    \/ \E v \in Versions : ClaimLapses(v)
    \/ LeaseLapses
    \/ Review

Spec == Init /\ [][Next]_vars

\* The scheduler starts runs three times a day, a started process goes on,
\* leases lapse, and collection succeeds now and then: a run looks at the queue
\* only after it.  Nothing obliges the reviewer to act.
FairSpec ==
    /\ Spec
    /\ \A r \in Runs : WF_vars(AcquireLease(r)) /\ WF_vars(RunStep(r)) /\ SF_vars(EndCollection(r))
    /\ WF_vars(LeaseLapses)
    /\ \A v \in Versions : WF_vars(versions[v].holder = Nobody /\ ClaimLapses(v))
-----------------------------------------------------------------------------
(* Safety.                                                                    *)

\* The draft slot of an approved pattern and its open update review are one:
\* an open update owns the draft of its pattern, a draft of an approved pattern
\* belongs to an open update, and so two updates never wait for one pattern,
\* however long ago their workers read the candidate list.
OneOpenDraft ==
    \A v \in Versions :
        /\ Open(Update(v)) => patterns[PatternOf(Update(v))].draft = Update(v)
        /\ \A p \in Patterns : patterns[p].latest # Nobody /\ patterns[p].draft = Update(v) => Open(Update(v)) /\ PatternOf(Update(v)) = p

\* What stands as a pattern's approved revision was approved by a review, on
\* accepted evidence and on a recorded policy decision (or predates the runs).
ApprovedIsBacked ==
    \A p \in Patterns : patterns[p].latest \in Submissions =>
        LET x == submissions[patterns[p].latest] IN
        /\ x.pattern = p /\ x.status = "approved" /\ x.revision = "approved"
        /\ x.evidence = "accepted" /\ x.policies > 0

\* The recovery RPC accepts whatever terminal state the reviewer's RPCs leave,
\* in whatever order they met the worker's crash: a resolved update with one
\* policy decision, or rejected with none, can be finished.
ResolvedUpdateFinishes ==
    \A v \in Versions :
        submissions[Update(v)].status \in {"approved", "rejected"} /\ ~Ambiguous(v) => Receipt(v) = "finish"

\* The reviewer is never locked in: whatever holds, takedowns and crashes came
\* before, an open review item can be rejected, unless its pattern was archived
\* (then the trigger on held rejections refuses, and the item stays open).
OpenReviewHasAWayOut ==
    \A s \in Submissions : Open(s) => Rejectable(s) \/ patterns[PatternOf(s)].lifecycle = "archived"

\* A deferral returns its attempt: a version waiting in pending_ai can always
\* be claimed again, however often it met an open review.
DeferredStaysClaimable ==
    \A v \in Versions : versions[v].status = "pending_ai" => Claimable(v)

\* A version is processed only when its outcome is on record: a policy decision
\* for one of its submissions, or a human rejection of its update.
ProcessedIsRecorded ==
    \A v \in Versions : versions[v].status = "processed" =>
        \/ \E k \in Kinds : submissions[<<v, k>>].policies > 0
        \/ submissions[Update(v)].status = "rejected"

\* A version that is taken over is closed by the run that took it over: a step
\* of a run that lost its claim never ends the version's processing
\* (supabase/tests/local_orchestration_contract.sql:99-116).
OnlyTheHolderCloses ==
    [][\A v \in Versions, r \in Runs :
         /\ versions[v].status = "processing" /\ versions'[v].status # "processing"
         /\ runs[r].version = v /\ runs'[r] # runs[r]
         => versions[v].holder = r]_vars

\* A takedown outdates every review item that was open: what is published after
\* an unpublish was submitted after it.
TakedownFence ==
    [][\A p \in Patterns :
         /\ changes[p].action = "unpublish" /\ changes'[p].action = "publish"
         => submissions[patterns'[p].latest].base_row >= changes[p].row]_vars

\* Archiving is for good: no later hold, approval or rejection makes an archived
\* pattern a match candidate again.
ArchivedStaysDown ==
    [][\A p \in Patterns : patterns[p].lifecycle = "archived" => patterns'[p].lifecycle \in {"archived", "rejected"}]_vars

\* A version that every run claims and none can finish: its update is held for
\* a reviewer or its receipt is refused, or it may match a pattern whose draft is
\* under review.  Neither uses up its attempts.
Waits(w) ==
    /\ Claimable(w)
    /\ \/ Committed(w) /\ Receipt(w) \in {"hold", "invalid"}
       \/ ~Committed(w) /\ \E p \in Patterns : MatchCandidate(p) /\ patterns[p].draft # Nobody

\* An update whose review is resolved is finished by some run, whatever crashed
\* meanwhile and although its attempts are used up, unless an older version
\* waits: runs claim the oldest first and leave the source at its deferral or
\* failure (durable.py:622-658), so nothing behind it is ever claimed.
ResolvedUpdateIsProcessed ==
    \A v \in Versions :
        <>[](\A w \in Versions : w < v => ~Waits(w)) =>
            (submissions[Update(v)].status \in {"approved", "rejected"} /\ ~Ambiguous(v) ~> versions[v].status = "processed")

-----------------------------------------------------------------------------
(* Claims of the repository the code does not keep.                           *)

\* 20260928000200_committed_update_retry_claim.sql:3-5: "A claimed, committed
\* update can always be finalized".  With two policy rows the recovery RPC
\* refuses every later run; only a run already past it could still finish.
CommittedUpdateCanBeFinalized ==
    \A v \in Versions :
        /\ Committed(v) /\ versions[v].status \in {"pending_ai", "processing", "error"}
        /\ \A r \in Runs : Owns(r, v) => ~At(r, "finish")
        => ~Ambiguous(v)

\* SCAM_RADAR_V0_1_IMPLEMENTATION_BRIEF.md:2104: every candidate has a policy
\* decision; one without must at least be within reach of a later run.
EveryCandidateGetsPolicy ==
    \A v \in Versions :
        /\ Open(New(v)) /\ submissions[New(v)].policies = 0
        /\ versions[v].status \in {"pending_ai", "processing", "error"}
        /\ \A r \in Runs : runs[r].version # v
        => versions[v].attempts < AttemptLimit
=============================================================================
