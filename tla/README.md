# Scam Radar: formal models

TLA+ models of Scam Radar, the TLC configurations that check them and the
theorems that TLAPS proves about them. Source paths are relative to the
repository; `M` stands for `src/supabase/migrations`.

| Module | What it is |
|---|---|
| `Release.tla` | the release tables and the RPCs that change them |
| `LiveSite.tla` | what these promise about the public site, in two actions |
| `Publisher.tla` | the deploy workflow, Cloudflare Pages and the operator, over `Release` |
| `Intake.tla` | what happens to one source's versions under overlapping runs and the reviewer |
| `Collection.tla` | the loop of a run over its sources: pages, budgets, attempts, checkpoints, run rows |
| `Assessment.tla` | the pure functions: classification, evidence gate, heat, policy, what the export makes of them |
| `Candidate.tla` | the life of one pattern from its reports to the public page, over `Assessment` |
| `Backup.tla` | the encrypted backup and its upload |
| `ReleaseProofs.tla`, `PublisherProofs.tla`, `ServedProofs.tla`, `IntakeProofs.tla`, `CollectionProofs.tla`, `QuotaProofs.tla`, `CandidateProofs.tla`, `BackupProofs.tla` | theorems and their proofs |
| `MC*.tla`, `MC*.cfg` | instances for TLC |

`PROJECT.json` lists the runs, the mutants that show each property can fail, the
lines of source each definition stands for, the hazards and the theorems.

## 1. Inventory

Scam Radar turns public reports of scams into a reviewed, static web site. A
batch worker (Python) collects source items three times a day and asks a model
what scam pattern each one describes; a human reviewer decides; a deploy workflow
publishes the approved patterns on Cloudflare Pages. All shared state is in
PostgreSQL (Supabase) behind `security definer` functions, here called RPCs; an
RPC is one transaction.

```
scheduler -> collection run --RPC--> intake tables <--RPC-- reviewer console
             (durable.py)            review items               |
                                         |  publication_changes v
             deploy workflow --RPC--> release tables  <--RPC-- operator
                  |                                             |
                  +------ upload ------> Cloudflare Pages <-- rollback
```

| Component | State | Operations | What is hard | What makes it correct |
|---|---|---|---|---|
| Release database (`M/20260816000300`, `…0400`, `M/20260920000400`, `…0500`) | changes, releases, manifests, active pointer, receipts | request, prepare, mark, note, record, fail, roll back, withdraw | two records of what is live; rollbacks between releases; the trigger that vetoes | one live release, one unfinished release, receipts that replay, manifests that only their changes explain |
| Deploy workflow, Pages adapter, operator (`deploy.yml`, `pages_upload.py`, `release_rpc.py`, `deploy_public_release.py`, runbook) | the run, the site, uploads and requests in flight, an incident | preview, mark, upload, note, smoke, record, reconcile, restore | a step that failed may still take effect; Pages and PostgreSQL cannot change together | one upload per release, true receipts, the site explained at all times, convergence |
| Processing of a version (`durable.py` `_process_claim`, `storage/rpc.py`, `M/20260920000100` …) | claims, attempts, where a run is | claim, recover, submit, decide policy, finish, defer, fail | crashes between two RPCs, lost replies, claims that expire under a slow run | no work lost, none closed by a run that lost it, every resolution recoverable |
| Reviewer RPCs (`M/20260816000300`, `M/20260920000900`, `M/20260929000100` …) | review items, revisions, evidence, patterns | approve, reject, hold, archive, unpublish | each is fenced by a row version and by a draft that other actors move | approvals are backed, a takedown stays a takedown, no dead ends |
| Collection run (`durable.py` `run`, `cli.py`, `M/20260920000100`) | run rows, leases, checkpoints, what a run counted | start, sync, lease, discover, collect, checkpoint, release, finish | failures inside failure handlers; budgets shared by all sources | a cursor moves only past ingested pages; one source's failure stays its own; runs end |
| Collectors, HTTP transport (`collectors/`) | request budget | discover, fetch | redirects and retries on one budget | bounded requests, end of source on failure |
| Model providers (`llm/`) | call budget, cached artifacts | one call, one retry of an invalid answer | the budget is checked before each attempt, the answer after it | the budget is never exceeded and by itself loses no version |
| Evidence gate, heat, policy (`evidence/`, `scoring/`, `policy/`, `domain.py`) | none | pure functions | boundary days, confidence, one table of authority written three times | the tables agree; less evidence never helps; confidence only adds review |
| Draft, approval checks, snapshots (`M/20260920000200`, `…0800`, `…0300`, `M/20260816000200`, `…0400`) | one pattern's revisions and heat snapshots | submit, update, approve, reject, prepare | a release takes the newest snapshot, not the one approved | what was approved is exportable; heat is not older than the text beside it; no date without a span |
| Public export (`storage/public_export.py`) | none | conversion | it raises on what the database let through | it meets nothing worse than a blank text |
| Encrypted backup (`backup_database.py`, `upload_encrypted_backup.py`, `backup.yml`) | two files, two objects in a bucket | dump, seal, list, put, read back | a PUT whose answer is lost; processes that fail apart | a manifest only beside a whole backup |
| Source ingestion (`M/20260918000100`, `dedup`, `normalize`) | item versions, duplicates, supersession | ingest | content that returns to an earlier state | a replay changes nothing |
| Reviewer console | page state | bootstrap, act | a queue that changes under the page | an action names what was shown |
| Scheduler, settings, site, row-level security, rehearsal, offline pipeline, tooling | none or declarative | | | |

## 2. Plan

Most important first. The publication path comes before the intake because what
it gets wrong is public.

1. `Release`, with its abstract specification `LiveSite`; `ReleaseProofs`. **Done.**
2. `Publisher` composes `Release` with the workflow, Pages and the operator;
   `PublisherProofs` shows that it implements `Release`, `ServedProofs` what the
   site serves. **Done**, all of its invariants proved.
3. `Intake`: one source, its runs and the reviewer; `IntakeProofs`. **Done**, all of
   its invariants and action properties proved.
4. `Collection`: the loop of a run over several sources, its budgets, checkpoints,
   cursors and run rows; `CollectionProofs`, and `QuotaProofs` for the call budget.
   **Done**, all of its invariants proved.
5. `Assessment` and `Candidate`: the pure functions and what they mean for one
   pattern on the public page; `CandidateProofs`. **Done**, all of its properties proved.
6. `Backup`; `BackupProofs`. **Done**, all of its properties proved.
7. Left: a site whose list of pages changes between two runs; merging patterns, if the
   program ever implements it.

The modules to be proved about use no recursive operators, take their
parameters as constants with named assumptions and keep one action per operation.

## 3. Release

**Correspondence.** One variable per table or column: `changes` is
`publication_changes`, `state`, `artifact_hash`, `deployment_id` and
`deployed_at` are columns of `public_releases`, `items` is
`public_release_items`, `active` is the row of `private.deployment_state`,
`receipts` is `private.deployment_receipts`. A release is named by its
`release_no`, which an identity column gives out; a verified revision by the
index of its publish change; a manifest maps each pattern to such an index, or
to 0. Each RPC is one action. Its guard is the conjunction of the checks that
raise, including those on the arguments; a refused call and a recognised replay
(`NoteReplayed`, `RecordReplayed`, `RollbackReplayed`) change nothing.

The trigger is `TriggerAllows`, over the row before and the row an RPC writes. Only
`MarkReleaseDeploying` carries it as a guard beside the RPC's own (`MarkAllowed`),
because only there it ever refuses; for the others that is a property, not a guard.

`prepare_public_release` and the deployment RPCs take different advisory locks.
One atomic action is still faithful: when prepare passes its check there is no
unfinished release, so note, record, fail and withdraw have no release to act
on, and a rollback that commits inside prepare writes other rows than it, with
the result of prepare followed by the rollback. `PendingIsNewest` is what makes
that argument hold for every later call.

The heat and freshness snapshots beside each item follow the revision and are
left out, as are hashes of the manifest and the wording of audit events.

**Runs.** `release_invariants` (`MCRelease`: two patterns, two deployments, two
artifacts, three releases, four changes, 183 000 distinct states) calls every RPC
in every order with every argument. Two patterns are needed for a manifest that
inherits one item and changes another, three releases for a release prepared
after a rollback or after a withdrawal and for a rollback that skips one, two
artifacts for a mark repeated with another build. Properties:

- `ActiveIsDeployed`: the active row and the state column name one release;
- `PendingIsNewest`: one unfinished release, newer than all others;
- `ReceiptsReplayToActive`: the receipts chain and end in the active row;
- `ManifestFollowsChanges`: a manifest is that of one release that was live,
  with exactly the changes applied in it;
- `TriggerRefusesOnlyRebuilds`: what the checks of an RPC let through, the trigger
  `protect_public_release` lets through too, so no incident RPC is aborted half way. The
  one exception: `mark_release_deploying` compares no artifact, and marking a failed
  release again with another build ends in `public_release_artifact_is_immutable`;
- `ImplementsLiveSite`: refinement. The site moves forward to a release newer
  than all that were live, or back to one that was.

`release_stranded` (expected violation): the brief, line 338, says a run prepares
a release for decisions "not yet included in the deployed release". A rollback or
a withdrawal leaves the changes of the removed release applied, so a decision can
be neither shown nor pending. A retraction can be lost this way until a reviewer
decides again.

## 4. Publisher

**Correspondence.** `run` is the deploy run (`deploy.yml` has one concurrency
group and does not cancel, so there is one); its `step` is the next workflow step
with an effect. `uploads`, `canonical`, `landing` are Pages: what it lists, what
the production site serves, uploads sent and not listed yet. `previews` holds
what was uploaded to the preview branch, `started` what the logs of earlier runs
show, `calls` the RPCs whose client gave up, `incident` the operator's
restoration. Pages is external and modelled as `scripts/pages_upload.py` uses
it: an upload becomes the canonical deployment when it lands, a restoration
serves the target under its old id or under a new one. An artifact stands for the
commit it was built from.

`StartRun` is export, build and preview; a refused export changes nothing.
Failure of any step is `RunFails`: GitHub skips the steps after it. A failed or
killed step may have had its effect: an upload is in `landing` from the moment
the command starts, and an RPC may be moved to `calls` and commit later
(`LateCall`) or never. The operator's actions follow
`docs/runbooks/deploy-and-rollback.md` and the scripts it names: `OperatorFail`
(`release_rpc.py fail`, only for a release whose upload never started),
`OperatorNote` and `OperatorRecord` (inspect, smoke, note, record), and the
incident, which is deliberately cut in three: the pointer is read
(`CheckRollback`, `CheckWithdrawal`), Pages changes (`RestoreSite`), the database
follows (`CloseIncident`), with anything in between. `RereadPointer` is the retry
after a stale pointer.

`StopRule` is the runbook's rule that deploys stop before a restoration, read
strictly: no upload can still reach the site.

**Runs.** `publisher_agrees` (`MCPublisher`: one pattern, three deployments, one
artifact, three releases, three changes, 66 000 states). Three releases let
an upload race the restoration of the first release over the second. What a run
with another commit can do is checked in `Release`, and proved for any number of
artifacts. `CHECK_DEADLOCK` is off because
the bounds on releases, changes and deployments stop the system. Properties:
`OneUploadPerRelease`; `ReceiptsAreUploads` (the database cannot look at Pages,
it believes what it is told); `LiveIsExplained` (what the public sees is the
active release, an upload still unfinished in the database, or a restoration that
its operator has yet to record).

The same run checks `Converges` under `FairPublisherSpec`: a
disagreement between site and database ends. Fairness is weak and covers what
ends by itself or by duty: a run's steps, uploads and requests have timeouts
(`deploy.yml` limits the job, the scripts their subprocess and their HTTP calls);
the operator dispatches a release that waits, notes and records an upload that
was found, and finishes an incident that was begun. Starting a rollback or
labelling a failure is not fair, and neither is any decision of a reviewer.
Two releases would be enough for a withdrawal that turns into a
rollback; symmetry is off because it is unsound for liveness.

`publisher_pointer` (expected violation) drops `StopRule`. The brief, line 1816,
says reconciliation reads the production `release.json`; the scripts read the
address of the deployment. An upload that lands between the pointer check of a
rollback and the rollback is then recorded as active while the site serves the
restored release.

## 5. Intake

**Correspondence.** `versions` is `source_item_versions`, `patterns` is
`scam_patterns` with its latest approved revision and its current draft,
`submissions` a review item with its revision, evidence and policy decisions,
`changes` the newest publication change of each pattern, `lease` the row of
`operation_leases`, `runs` the program counter of each worker inside
`DurablePipeline.run`. Every step of a run is one RPC or a step between two of
them; the reviewer interleaves with all of them. `recover` is
`get_existing_update_recovery`, whose answer (`Receipt`) sends the run to finish,
to the policy step, to a deferral, or to failure.

Abstractions:

- time is two Booleans, a live claim and a live lease, which may lapse at any
  moment that their order of acquisition allows;
- a run is a slot: what it leaves behind when it ends or dies passes to
  `Nobody`, so that a slot used again is a new run id;
- `Fault` counts crashes, replies lost after a commit, and claims that lapse
  under a live run; `MaxFaults` bounds them;
- the answer of the model is a choice (`JudgeIrrelevant`, `JudgeNew`,
  `JudgeMatch`, `AnalysisFails`); a policy decision has no outcome: one that
  blocks makes the approval raise, which is a reviewer who does not approve; the
  attempt counter saturates above its ceiling, where it is not read;
- `FOR UPDATE SKIP LOCKED` chooses the oldest claimable version, as the claim
  orders by `created_at`; the status `in_review` is never set and is left out;
- the checkpoint, the cursor, the run row, the model's budget and a second source
  are in `Collection`; what a report says is in `Candidate`.

**Runs.** `RowCap` bounds the reviewer: an action that raises a row version stops
there. 3 lets a pattern be held, archived or taken down and then decided again;
2, where liveness is checked, lets one of these happen before the decision. The
ceiling is 1 in both passing runs, so that every second claim is one past it.

- `intake_recovery` (`MCIntake`: two versions, two approved patterns, one run slot,
  one fault, 369 000 states): `ResolvedUpdateIsProcessed`: an update that the reviewer
  resolved is processed by some run, though the ceiling is reached and runs die. Runs
  claim the oldest version first and leave the source at its deferral or failure, so a
  version that every run claims and none can finish (`Waits`: its update is held, its
  receipt is refused, or its pattern has an open draft) keeps all behind it from being
  claimed. The property claims nothing for a version while an older one waits for good;
  without that exception the run fails, which takes two patterns, as an open draft
  keeps other updates off its own. Weak fairness of
  the lease and of a run's steps (the scheduler starts a run three times a day),
  of the lapse of what a dead run left, and strong fairness of `EndCollection`: a
  collection that fails ends the source before its queue is looked at, so it must
  succeed now and then. The reviewer is obliged to nothing. One slot means that the
  next run starts when the last has ended or died; overlapping runs are the other run's
  subject. Symmetry is off because it is unsound for liveness.
- `intake_race` (`MCIntakeRace`: two versions, one earlier pattern, two slots, one
  fault, 1.5 million states): two runs overlap because a lease may lapse under a live run,
  and the fault is a crash, a lost reply or a claim that lapses under its run.
  `ApprovedIsBacked`, `ResolvedUpdateFinishes`, `ProcessedIsRecorded`,
  `OnlyTheHolderCloses`, `OneOpenDraft`, `DeferredStaysClaimable`, `TakedownFence`,
  `ArchivedStaysDown`, `OpenReviewHasAWayOut`. The constraint `FewDecisions` bounds the
  run to three reviewer actions that raise a row, over all patterns; each of the
  properties is proved without it.
- `intake_ambiguous` (expected violation):
  `20260928000200_committed_update_retry_claim.sql:4` says a claimed, committed
  update can always be finalized. `record_policy_decision` is not fenced by the
  claim; two overlapping runs record two decisions, and recovery refuses the
  version from then on.
- `intake_no_policy` (expected violation): the brief, line 2104, gives every
  candidate a policy decision. A run that dies between the submission of a new
  pattern and its policy record leaves one that no later run can complete.

`ResolvedUpdateFinishes` and `ResolvedUpdateIsProcessed` exclude the ambiguous
versions of `intake_ambiguous` (the second also what is behind a waiting version), and `OpenReviewHasAWayOut` the archived patterns
of divergence (a) below; both exclusions are the violations reported, not an
assumption about the environment.

## 6. Collection

**Correspondence.** `store` is the part of the database a run touches: `run` is the
status column of `pipeline_runs`, `lease` the rows of `operation_leases`, `version`
the versions of a source by the page they came from, with their claim, attempts and
number of cached model answers, `checkpoint` the row of `source_states`. `worker`
is the process: its place in `DurablePipeline.run` (`pc`), the source and page it is
at, and the counters of the run: pages fetched, model calls, sources counted as
failed, deferred or busy. Each RPC of `storage/rpc.py` is an action built with
`Rpc(effect, answered, failed)`: it runs and is answered, is refused on the way, runs
and loses its answer, or is not sent because the transport has spent its 250 requests
(`ExhaustRequests`; how many were sent is abstract, so the budget may end anywhere).
The two exits of the outer loop are kept apart: `Raised` goes through the handler's
own checkpoint, which may raise in turn (`abandon`: the lease is released, the run row
stays open, the later sources are not visited), `StageFails` closes the version first.
`starved` and `rival` are history: how many attempts of a version ended on an exhausted
call budget, and whether another source had used that budget too.

A stage is a call of the model whose answer is kept: relevance and extraction
(`TextStages`), whose fingerprint covers the text only, then one comparison for each
match candidate, whose fingerprint covers the candidate's `revision_id` and
`pending_review` too. Between two calls of a run or between two runs, a submission or a
reviewer may change these (`CandidatesChange`): comparisons answered before are then
`Found` or not, and the version is `moved` from then on.

What happens inside `_process_claim` after the model has answered is `Intake`'s and
appears here as three outcomes (`Conclude`). `collect.yml` lets one run go at a time:
what a dead run leaves (lease, claim, open row) meets the next, but two live runs do
not. A source's list is always a prefix of the same pages; a site that reorders its
list is not modelled. `Answers` is `HttpModelProvider._run`: every attempt is counted
before it is sent and an invalid structure is asked for once more.

**Runs.** `collection` (`MCCollection`: two sources of two pages, `max_items` 2, two
model stages, so no comparisons, two calls, ceiling 3, three runs, one fault; 1.5 million
states). Two sources let the first use up pages and calls of the second; three runs let a
version spend its three attempts; one fault is enough to fail any single call, lose any
reply, kill the run, or cut all its further requests, which is many failures in one.
`collection_quota` (`MCCollectionQuota`: two sources of one page, six stages of which four
are comparisons, six calls, ceiling 3, three runs, no fault; 841 000 states) is for
`QuotaAloneLosesNothing`, where candidates change at any moment.

- `CursorSkipsNothing`: the brief's "partial failure cannot skip items": every page up
  to a source's cursor was ingested;
- `SourceIsolation`: when a run has seen every source, each that it did not count has
  its checkpoint and nothing of it is leased or claimed by the run; and so has every
  source of a run recorded as a success;
- `QuotaAloneLosesNothing`: a version whose three attempts all ended on an exhausted
  budget shared a run with another source, had its match candidates changed, or a run was
  disturbed. It needs `CollectionAssumption`: with all but one attempt, a lone version can
  have every stage answered, at two calls each. A version has at most ten stages
  (relevance, extraction and the eight candidates of `durable.py:295`), and production
  runs with ten calls (`collect.yml:77`): two attempts of five answers each meet that
  bound exactly and leave nothing over. This is why a version whose candidates changed is
  excepted: comparisons that are asked again come out of the same ten calls, and the code
  promises nothing for it. The default of 100 calls (`settings.py:56`) would have room; a
  budget below ten, which `settings.py:29` admits, is outside the assumption (zero is
  refused, `cli.py:92`);
- `RunEnds` under weak fairness of the process's own steps, which the timeouts of
  every call justify: the claim loop has no bound of its own and ends because every
  way a version leaves it, except the finish, leaves the source. The scheduler need not
  start anything.

`CHECK_DEADLOCK` is off because `RunCount` stops the system.

## 7. Assessment and Candidate

**Correspondence.** `Assessment` has one operator per pure function, named after it:
`SourceClassification`, `Gate` (`evaluate_evidence`), `FreshnessPoints`, `Heat`,
`EvaluatePolicy`, `Admissible` (the validator of `PolicyDecision`), `Exportable` and
`Shown` (`map_database_release`: what it raises on, what it makes of the heat). Days
are integers, confidences percentages, an evidence record the five fields the gate
reads.

`Candidate` puts them into the life of one pattern: `SubmitNew` and `SubmitUpdate` are
`_process_claim` from the gate to the RPC with the tables the RPC has of its own
(`NewRevision`, `Insertable`, `UpdatedRevision`), `Approve` the checks of
`approve_review_item` (policy, `assert_publishable_revision`,
`assert_release_exportable`), `Reject`, `PrepareRelease` the choice of the snapshot a
release pins, `DaysPass` the calendar. With `offline` the program is the fixture
pipeline, which reaches inputs of gate and policy that the collection does not:
several pieces of evidence, unverified and unchanged updates. Concurrency is
`Intake`'s subject and left out: one draft is open at a time. Of the fields a page
needs, the two that a draft may lack while the review queue shows it as ready are kept
(hook and requested action), with one flag for a listed text that is blank: the checks of
the database count the texts, the exporter also reads them. A revision is `supported` when
every claim has a span that says it word for word. `UpdatedRevision` copies the spans of
the approved revision and moves its dates, and no copied span says a date that moved;
`later` is a report of the same day but a later hour. `Features` fixes the target group of the heat: its points
are a constant that the other four components do not meet. `RegistryAssumption` states
a fact of `config/sources.yaml`: its regulators have tier A2 (divergence (p)).

**Runs.** `candidate` (`MCCandidate`: three reports, days 0, 30 and 33, the kinds and
tiers of `config/sources.yaml` with every legal status; 517 000 states). 30 is the last
day of current attention, 33 is past it and three days from 30; three reports let one
come between approval and release and another after a rejection. `CHECK_DEADLOCK` is
off: the last report and the last day end it.

- `ReadyIsApprovable`: what the submission's table presents as ready is blocked neither
  by the gate nor by the approval's checks;
- `ReleaseIsExportable`: what could be exported when its publication was requested can
  be when the release is prepared, although the snapshot is another by then: the exporter
  raises on nothing but a blank text;
- `HeatIsNotOutdated`: a page's heat is of its revision's report or a later one;
- `DatesStandOnceApproved` (action property): no later report moves the dates of an
  approved page, because what would move them has no span and the approval asks for one;
- `AttentionHasPoints`: three computations with inclusive limits agree on every later
  day;
- `GateIsMonotone`: losing evidence never helps, a tier C report never does;
- `ConfidenceOnlyAdds`, `EligibleIsHandled`: under every setting and confidence, the
  decision is that of full confidence or a review, and an eligible candidate is either
  authorised or queued. They quantify over inputs inside each state.

## 8. Backup

**Correspondence.** `disk` is the runner's directory, `bucket` the object store,
`flying` the PUTs whose client gave up, `worker` the process with the object and part
it works on, and `digest` what it compares a read-back with. `Stream` and `Judge` are
`backup_database.py`: both processes end or are killed, then the file is unlinked or
sealed with a manifest, which is written last. `StartUpload`, `List`, `Put`, `Read` are
`upload_encrypted_backup.py` for each of the two parts. A non-zero exit of rclone leads
to the read-back all the same; a timeout is another exception and leaves the upload at
once; in both cases the PUT may be committed, be lost, or land later (`Land`). The bucket is
external and is used as the script uses it: a PUT replaces the object as a whole.
A hash is the content it is taken of. `Spoil` cuts a sealed file short on the runner,
which the digest in the manifest is for; not while an upload of it is at work, since the
script compares file and manifest once and then sends the file as it is.

**Run.** `backup` (`MCBackup`: two objects, six faults, 31 000 states). Six faults let a
ciphertext PUT be late, the upload be repeated, and the other object fail meanwhile.
`ManifestMeansBackup` is the runbook's "an uploaded object without its integrity
manifest is an incomplete run, not a healthy backup", read the other way: one with its
manifest is healthy. `VerifiedIsStored`: what was reported verified stays so, late PUTs
included. `CHECK_DEADLOCK` is off: the bounds stop the system.

## 9. What is proved

All proofs are for every value of the constants that the named assumptions allow. In
`Release` and `Publisher` these are `NullAssumption` (a null is not an id) and
`BoundAssumption` (the bounds are natural numbers).

`ReleaseProofs`. The inductive invariant is

    ReleaseInv == TypeOK /\ Numbered /\ HasArtifact /\ EverLive
                    /\ PendingIsNewest /\ ActiveIsDeployed

`Numbered` says which numbers are in use, `HasArtifact` which states have an
artifact, `EverLive` ties `deployed_at` to the states deployed and superseded.
The last is what a rollback needs: its target is superseded, so it has an
artifact and was live, and the release it replaces is the active one.
`NextInv` has one lemma per RPC. From it: `TypeCorrect`,
`ActiveIsDeployedTheorem`, `PendingIsNewestTheorem`; `TriggerRefusesOnlyRebuildsTheorem`
(`StepIsLegal`); `LedgerTheorem`, by what an append or a concatenation of two
receipts does to a chain; `ManifestTheorem`, whose invariant adds that no
change is applied in a release that does not exist yet; and `Implementation`: an initial state maps to an initial
state of `LiveSite`, record to `Publish`, rollback to `RollBack`, the rest,
withdrawal included, to stuttering.

`PublisherProofs`. `ProcessInv` adds to `ReleaseInv` that the database
has an active release once one was live, and that runs, late requests and
incidents name things that exist. With it, `ReleaseImplemented`: `PublisherSpec`
implements `Release!Spec`, so all the theorems above hold of the composed system.
`OneUploadTheorem` adds `UploadInv`: a pair of release and artifact that was sent
or listed was previewed, and the release is marked with that artifact; the run
that has yet to upload holds a preview that nobody has used. The preview is the
token that a second run cannot get, and the pinned artifact is why a second
commit cannot be uploaded either. `ReceiptsTheorem` adds `ReceiptInv`: a
deployment named in a receipt, in the first receipt of a release, in a run past
its receipt step, in a late request or in a restoration, serves the release and
artifact named beside it. Pages forgets no deployment (`UploadsGrow`) and
artifacts are pinned, so such a fact lasts.

`ServedProofs`: `LiveIsExplainedTheorem` assumes `StopRule`; without it the run
`publisher_pointer` shows how the site and the database part. `LiveInv` says, beside
the property, that a release whose upload started never fails again and stays
`deploying` until the upload is listed or lost (`StartedInv`, `DeployingInv`); that
the active pointer names a deployment that serves the active release
(`PointerInv`); that nothing can reach the site while an incident is open, so that it
serves what the operator restored, and that the pointer the operator read stays
while the failed release is unfinished (`AloneInv`); and that an unfinished release
with a listed upload is what the site serves, or what the operator withdraws
(`ServedInv`). The stop rule enters at one place, the start of an incident
(`CheckKeeps`). What is noted or recorded is no longer on its way (`NotOnItsWay`,
from `SentOnce`); every step of the database then either leaves the sent releases
alone (`UnsentKeeps`) or records one (`RecordKeeps`). `PublisherTypeCorrect` needs no
stop rule: a pointer names a listed deployment because Pages forgets none, and a run
names an existing release because a release number is never given back.

`IntakeProofs` assumes `IntakeAssumption`: `Nobody` is no pattern, run or revision,
the patterns that exist at the start are not versions (a version founds the pattern
that bears its name), versions are finitely many numbers in the order they were made,
and the ceiling and the bounds are natural numbers. The invariant

    IntakeInv == IntakeTypeOK /\ DeskInv /\ QueueInv

has two halves, because the reviewer and the runs meet at the review items only.
`DeskInv` is what the reviewer sees, patterns, review items and changes. Beside
`OneOpenDraft` and `ApprovedIsBacked` it says what an item carries from its submission
on (`ItemInv`); that a pattern founded by a version exists from that version's
submission on and keeps its founding draft until it is approved (`FoundingInv`); that
only a pattern with an approved revision is updated (`UpdateInv`); and that no change and
no item has a row above its pattern's, and an item left open by an archival one below it
(`RowInv`). `QueueInv` is what the runs see: what one has in hand at each label
(`RunInv`), that only a committed update passes the ceiling (`AttemptInv`), and the two
properties of versions.

`Fits(s, p)` is what `DeskInv` asks of one item and its pattern, `Free(s, p)` what a step
finds before it (the item is open, or its place is free), and `ItemStep` says: a step that
touches one item and one pattern, found them free and leaves them fitting keeps all of
`DeskInv`. Approval, rejection, hold and both submissions are instances of it;
`PatternStep` is the same for archival and unpublication. For the runs, `Moves` lists the
ways a version may go at a step of one run, each with who may take it, `Grown` says that
what is on record for a version stays (an item submitted, a policy decision, a
rejection), and so a step of one run or of the reviewer leaves the others what they have
in hand (`HandKept`). The action properties follow: `OnlyTheHolderClosesTheorem` from
`Moves`; `ArchivedStaysDownTheorem` and `TakedownFenceTheorem` from who writes the desk
(`RunWrites`) and from `RowInv`, as an approval compares the row version that an archival
or a takedown raised. `ResolvedUpdateFinishesTheorem` and `OpenReviewHasAWayOutTheorem` say which
guards a resolved update and an open review satisfy, without `ENABLED`.

`CandidateProofs` assumes `CandidateAssumption` (days are natural numbers, 0 among
them; reports are what the registry and the model's contract allow) and
`RegistryAssumption`. Its first part is about operators and needs no state:
`PolicyLaw` and `PolicyHandles` for every input of the policy, `GateLaw` for every
candidate with finitely many pieces of evidence (by `LevelIsMonotone`: fewer pieces
have no more families or origins), `FreshnessCools` and `FreshnessIsAttention` for all
days, `JudgesAgree` for the three tables of authority. The second is the invariant

    CandidateInv == TypeInv /\ Calendar /\ Dated(draft) /\ Dated(approved)
                      /\ (waiting => Showable(approved))
                      /\ ReleaseInv /\ AssessedInv /\ ReadyInv /\ DatesInv

`Calendar` says that snapshots are numbered and in the order of their days. A release
takes the newest by date and then by insertion, the approval compares that one's date,
and both are right because it is the last (`LatestIsLast`): a report that comes between
approval and release can only append a snapshot of a later day. `Dated` says that
no revision is newer than all snapshots. `DatesInv` is what `DatesStandOnceApproved`
needs: a draft over an approved revision has its dates or a claim without a span.
Every property of the run `candidate` follows.

`CollectionProofs` assumes `CollectionAssumption` and uses only that the bounds are
naturals. `Rpc` leaves one of three states (the call ran and was answered, it ran, it
did not run), so the invariant is an operator of a database and a process and every
action is shown to keep it in all three (`RpcKeeps`):

    CollectionInv(st, w) == Types /\ AttemptsCount /\ Seen /\ SuccessIsClean
                              /\ VisitedIsClean /\ AheadIsUntouched /\ PresentIsTidy

`Seen`: the pages before a cursor, and before the page the process is at, are
ingested; that is `CursorSkipsNothing`. `VisitedIsClean`: a source the run has left is
counted, or it has the run's success checkpoint and none of its leases and claims.
For the source the run is at, `PresentIsTidy` says what may still be open at each
label while nothing is counted: the claimed version before its finish, nothing
before the checkpoint, the checkpoint before the release of the lease. For those
ahead, `AheadIsUntouched`. `AttemptsCount` is what types need: an attempt meets an
exhausted budget at most once, so the hand-back of a deferral cannot take the count of
attempts below zero or below the count of starvations. Lemmas come in two kinds, moves of the
process over a fixed database (`CountedMove`: once its source is counted, the process may
stand anywhere on the way out) and effects on the database under a fixed process
(`VersionEffect`, `LeaseEffect`, `CheckpointEffect`, `RunEffect`).

`QuotaProofs` proves `QuotaAloneLosesNothing` on top of `CollectionInv`, and is the
one place that needs the arithmetic of `CollectionAssumption`. While no fault was spent
`Calm(store, worker)` holds:

- `CalmClaim`: a version is `processing` only while the run works on it, with its claim
  alive;
- `CalmOrder`: pages appear in order, and what precedes a version that was claimed, hence
  one that starved, can never be claimed again (`Dead`: settled, or at the ceiling). So
  a version that starved is the first that a later run comes to;
- `CalmBudget`: a run that comes to a source has called the model only for the sources
  before it;
- `CalmShare`: a version that starved `n` times without a rival, its candidates unchanged, has at least
  `(n - 1) * (MaxCalls \div 2)` answers in its cache, and while a run works on it alone,
  its calls are at most two for each answer added since.

A run that meets the exhausted budget has made all calls but one at least, so it has added a whole
share. One attempt below the ceiling the shares are all the stages there are, and a
version with a stage left cannot starve once more (`StarvedOnceMore`). An attempt that
is handed back by a deferral does not matter: `starved` counts the exhausted ones only.
The first such attempt counts for nothing in `CalmShare`: it may be made with what earlier
versions of the same source left of the budget, while every later one has all of it.

`BackupProofs`: `BackupInv` says, beside the types, that a manifest on the runner is
absent, torn or that of a whole dump; that an upload at work compares with the whole
file or with its manifest, and reaches the manifest only when the bucket holds the
whole ciphertext; that the same holds of the PUTs still in flight; and that a stored
ciphertext is whole. A late PUT carries what was sent, so it can replace a whole part by
the same whole part only; that is all `ManifestMeansBackup` and `VerifiedIsStored` need.

Only model-checked: `Converges`, `ResolvedUpdateIsProcessed` and `RunEnds`, because
liveness under fairness is out of reach of the prover. The four expected violations are
counterexamples of TLC and have nothing to prove. Every other property of the runs, the
types included, is the statement of a theorem. The types of `Backup` have no run of
their own and are proved with its invariant (`BackupTypeCorrect`).

## 10. Divergences noticed without a run

Read in the code while modelling; each is a hazard in `PROJECT.json` or follows
from a definition.

- (a) Holding an update, then archiving its pattern, makes the review item
  impossible to reject: `held_rejection_pattern_state_invalid`,
  `M/20260929000100_reviewed_update_recovery.sql:259`.
- (b) A conflicting review that is resolved before the deferral arrives makes the
  deferral refuse, and the attempt is spent:
  `M/20260920001000_pending_update_deferral.sql:59-60`.
- (c) The reconciliation's note is refused after a record that committed
  (`M/20260920000400_deployment_reconciliation.sql:140`), where the comment at
  `scripts/deploy_public_release.py:347` expects a replay.
- (d) `export_public_release` (`M/20260816000400_policy_engine_verification.sql:2098`)
  refuses `deploy_failed`, so a release labelled failed is not redeployed by the
  workflow and blocks its successors, where
  `supabase/tests/local_deployment_contract.sql:54-60` marks it again.
- (e) The first upload ever cannot be withdrawn when its smoke check fails: there
  is no active release to restore.
- (f) Prepare compares the expected previous release once. A release prepared
  over another that is then rolled back brings that one's manifest back.
- (g) `pattern_revisions_risk_legal_matrix`
  (`M/20260816000100_core_schema.sql:208-210`) refuses an unlabelled report whose
  status is reported_case, charge or judgment. A media report of a case therefore
  fails as `candidate_intake_failed` until its attempts are spent, where the brief,
  lines 1164-1170, says that a single media item may remain internal for monitoring.
  The gate's `legal_or_attribution_risk` is unreachable in the collection for the same
  reason.
- (h) A report without a hook is marked `review_ready`
  (`M/20260920000200_candidate_intake.sql:281-284` asks for a requested action only),
  but `M/20260920000300_public_export_gate.sql:22` requires hooks, so it cannot be
  approved; neither can one dated after the day of its assessment.
- (i) `docs/data-flow.md:180` says that an exhausted model quota leaves work
  `pending_ai`. The version that meets it is closed with an error and has spent one of
  three attempts (`durable.py:640`, `llm/http_provider.py:95`), so a later source's
  oldest version is given up after three runs whose calls the earlier sources used,
  without the model having seen it (`rival` in `QuotaAloneLosesNothing`).
- (j) The checkpoint inside the exception handler (`durable.py:681`) is not guarded:
  when it raises, the run row stays `running` and the later sources are skipped.
- (k) The release pins the newest snapshot, also of an update that is unreviewed or was
  rejected (`M/20260816000400_policy_engine_verification.sql:1871-1877`), where the
  brief, line 1279, lets only verified features change the public heat.
- (l) The brief, line 1308, computes freshness from the latest material change. A
  routine update has freshness 0 (`durable.py:357-362`), and an older material update
  has that of its own date while the page keeps the newer one. Since only older updates
  can be approved (q), an approved update adds no freshness to its page.
- (m) Harm and spread are unknown to the collection, so no heat it makes passes 55 and
  the two upper bands are not reached.
- (n) A PUT killed at its timeout skips the read-back that the comment at
  `scripts/upload_encrypted_backup.py:168-169` promises, because `TimeoutExpired` is no
  `RuntimeError`; the upload has to be repeated.
- (o) The cursor is written and never read, and a success that reached no page sets it to
  null.
- (p) `submit_new_pattern_candidate` gives the warning of a regulator of tier A1 or A2
  level A (`M/20260920000200_candidate_intake.sql:165`), and so does
  `_source_classification`; the gate takes a `regulator_warning` only from tier A2
  (`evidence/gate.py:74-79`), so an A1 regulator would be marked ready and blocked. The
  registry has none.
- (q) `docs/PROGRESS.md:774-777` says that the update transaction "creates a supported
  draft copy, and queues `pattern_update` for human review". It moves `last_seen_at`, and
  `last_material_change_at` for a material change, to the time of the new report
  (`M/20260920000800_existing_pattern_evidence.sql:165-174`) but copies the old spans only
  and reports no missing claim (line 218), so the approval of every report published after
  the first one raises `claim_not_supported`
  (`M/20260816000200_security_invariants.sql:466-486`). Such a draft blocks further updates
  of its pattern until it is rejected; only reports older than the approved page can be
  approved. `DatesStandOnceApproved` states what follows for the page.
- (r) `M/20260920000300_public_export_gate.sql:3-4` says that an approval must not create
  a change that the exporter cannot render. A hook, an action or a warning of blanks
  passes the database (lines 22-25 count) and makes `text_list` raise on the whole release
  (`storage/public_export.py:42-47`). `ReleaseIsExportable` makes an exception of it.

## 11. Not modelled

The content of pages, prompts and contracts; hashing, canonical JSON and signatures
(equality of hashes is equality of what they hash); identity and content keys,
duplicates and supersession of versions (nothing reads `current_version_id` or
`supersedes_version_id` after the ingestion); row-level security and grants (the
models take the callers that the RPCs assert); the live policy path, which the
configuration keeps in shadow mode, beyond `EvaluatePolicy` itself;
`merge_pattern_candidate`, which always raises; the parsing and retry delays of the
collectors; the reviewer console, whose page state guards nothing that the RPCs do not
fence; the static site; the recovery rehearsal, a script that runs once on disposable
containers; matching and queue order (`retrieve_candidates`, `review_sort_key`), which
only tests call; development and evaluation tooling.
