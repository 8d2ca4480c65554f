------------------------------ MODULE Publisher ------------------------------
(***************************************************************************)
(* Publishing a prepared release on Cloudflare Pages: the deploy workflow, *)
(* the hosting service, the release RPCs of Release.tla and the operator   *)
(* who follows the deploy-and-rollback runbook after a failed run.         *)
(*                                                                         *)
(* A step of the workflow is one process: it can fail, or its runner can   *)
(* die, before or after its effect.  An upload and an RPC whose client has *)
(* given up can still take effect later.  The hosting service is external: *)
(* it is modelled as scripts/pages_upload.py uses it.  An artifact stands  *)
(* for the commit it was built from.                                       *)
(***************************************************************************)
EXTENDS Release

CONSTANT StopRule  \* does the operator start to restore an earlier deployment
                   \* only when no upload can still reach the site?

ASSUME StopRuleAssumption == StopRule \in BOOLEAN

VARIABLES
  uploads,    \* the production deployments that Pages lists, by id
  canonical,  \* the deployment that the production site serves
  landing,    \* production uploads sent and not listed yet
  previews,   \* <<release, artifact>> pairs uploaded to the preview branch
  started,    \* releases whose production upload the run logs show as started
  run,        \* the deploy run: one concurrency group, so at most one
  calls,      \* RPC requests whose client gave up and that may still commit
  incident    \* the operator's restoration of an earlier deployment

pagesVars == <<uploads, canonical, landing>>
workflowVars == <<previews, started, run, calls>>
publisherVars == <<releaseVars, pagesVars, workflowVars, incident>>

NoRun == [step |-> "none", release |-> 0, artifact |-> NoArtifact,
          deployment |-> NoDeployment]

NoIncident == [phase |-> "none", target |-> 0, failed |-> 0,
               expected_release |-> 0, expected_deployment |-> NoDeployment,
               restored |-> NoDeployment]

Upload == [release : ReleaseNos, artifact : Artifacts]

PublisherTypeOK ==
  /\ DOMAIN uploads \subseteq DeploymentIds
  /\ \A d \in DOMAIN uploads :
       uploads[d] \in [release : ReleaseNos, artifact : Artifacts,
                       copy : BOOLEAN]
  /\ canonical \in DOMAIN uploads \cup {NoDeployment}
  /\ landing \subseteq Upload
  /\ previews \subseteq ReleaseNos \X Artifacts
  /\ started \subseteq ReleaseNos
  /\ run.step \in {"none", "mark", "upload", "receipt", "note", "smoke",
                   "record"}
  /\ run.step # "none" => run.release \in 1..last_no
  /\ \A c \in calls : c.step \in {"mark", "note", "record"}
  /\ incident.phase \in {"none", "checked", "restored"}
  /\ incident.phase # "none" => deployed_at[incident.target]

PublisherInit ==
  /\ Init
  /\ uploads = <<>> /\ canonical = NoDeployment /\ landing = {}
  /\ previews = {} /\ started = {} /\ run = NoRun /\ calls = {}
  /\ incident = NoIncident

-----------------------------------------------------------------------------
(* Cloudflare Pages.                                                       *)

\* The deployments whose commit message carries the marker of this release
\* and artifact.
Marked(r, a) == {d \in DOMAIN uploads : /\ uploads[d].release = r
                                        /\ uploads[d].artifact = a
                                        /\ ~uploads[d].copy}

List(d, r, a, copy) ==
  /\ d \in DeploymentIds \ DOMAIN uploads
  /\ uploads' = [x \in DOMAIN uploads \cup {d} |->
                   IF x = d THEN [release |-> r, artifact |-> a, copy |-> copy]
                   ELSE uploads[x]]

\* An upload that was sent becomes the production deployment ...
LandUpload(u, d) ==
  /\ u \in landing
  /\ landing' = landing \ {u}
  /\ List(d, u.release, u.artifact, FALSE)
  /\ canonical' = d
  /\ UNCHANGED <<releaseVars, workflowVars, incident>>

\* ... or never does.
LoseUpload(u) ==
  /\ u \in landing
  /\ landing' = landing \ {u}
  /\ UNCHANGED <<releaseVars, uploads, canonical, workflowVars, incident>>

-----------------------------------------------------------------------------
(* The deploy workflow.                                                    *)

Exportable_Unchecked(r) == TRUE

Exportable(r) == state[r] \in {"approved", "deploying", "deployed_unrecorded",
                               "deployed", "superseded"}

\* Export, build, preview and its smoke check.  A run that the export refuses,
\* or that finds an earlier preview of the same artifact, changes nothing.
StartRun(r, a) ==
  /\ run = NoRun
  /\ incident = NoIncident
  /\ Exportable(r)
  /\ <<r, a>> \notin previews
  /\ previews' = previews \cup {<<r, a>>}
  /\ run' = [step |-> "mark", release |-> r, artifact |-> a,
             deployment |-> NoDeployment]
  /\ UNCHANGED <<releaseVars, pagesVars, started, calls, incident>>

MarkStep ==
  /\ run.step = "mark"
  /\ MarkReleaseDeploying(run.release, run.artifact)
  /\ run' = [run EXCEPT !.step = "upload"]
  /\ UNCHANGED <<pagesVars, previews, started, calls, incident>>

\* upload refuses a release and artifact that the branch already lists.
NoPriorUpload(r, a) == Marked(r, a) = {}

UploadStep_Retries ==
  /\ run.step \in {"upload", "receipt"}
  /\ run.step = "upload" => NoPriorUpload(run.release, run.artifact)
  /\ landing' = landing \cup {[release |-> run.release,
                               artifact |-> run.artifact]}
  /\ started' = started \cup {run.release}
  /\ run' = [run EXCEPT !.step = "receipt"]
  /\ UNCHANGED <<releaseVars, uploads, canonical, previews, calls, incident>>

UploadStep ==
  /\ run.step = "upload"
  /\ NoPriorUpload(run.release, run.artifact)
  /\ landing' = landing \cup {[release |-> run.release,
                               artifact |-> run.artifact]}
  /\ started' = started \cup {run.release}
  /\ run' = [run EXCEPT !.step = "receipt"]
  /\ UNCHANGED <<releaseVars, uploads, canonical, previews, calls, incident>>

ReceiptStep_CurrentPointer ==
  /\ run.step = "receipt"
  /\ canonical # NoDeployment
  /\ run' = [run EXCEPT !.step = "note", !.deployment = canonical]
  /\ UNCHANGED <<releaseVars, pagesVars, previews, started, calls, incident>>

\* The upload command has ended and the new deployment is listed as successful.
ReceiptStep ==
  /\ run.step = "receipt"
  /\ \E d \in Marked(run.release, run.artifact) :
       run' = [run EXCEPT !.step = "note", !.deployment = d]
  /\ UNCHANGED <<releaseVars, pagesVars, previews, started, calls, incident>>

Note(r, d, a) ==
  \/ NoteReleaseUploaded(r, d, a)
  \/ NoteReplayed(r, d, a) /\ UNCHANGED releaseVars

Record(r, d, a) ==
  \/ RecordDeployedRelease(r, d, a)
  \/ RecordReplayed(r, d, a) /\ UNCHANGED releaseVars

NoteStep ==
  /\ run.step = "note"
  /\ Note(run.release, run.deployment, run.artifact)
  /\ run' = [run EXCEPT !.step = "smoke"]
  /\ UNCHANGED <<pagesVars, previews, started, calls, incident>>

\* The smoke check reads the deployment's own address, not the site's.
SmokeStep ==
  /\ run.step = "smoke"
  /\ run' = [run EXCEPT !.step = "record"]
  /\ UNCHANGED <<releaseVars, pagesVars, previews, started, calls, incident>>

RecordStep ==
  /\ run.step = "record"
  /\ Record(run.release, run.deployment, run.artifact)
  /\ run' = NoRun
  /\ UNCHANGED <<pagesVars, previews, started, calls, incident>>

\* The current step fails, or the runner dies: the later steps are skipped.  An
\* RPC that got no answer may still be on its way.
RunFails ==
  /\ run # NoRun
  /\ run' = NoRun
  /\ \/ UNCHANGED calls
     \/ run.step \in {"mark", "note", "record"} /\ calls' = calls \cup {run}
  /\ UNCHANGED <<releaseVars, pagesVars, previews, started, incident>>

LateCall(c) ==
  /\ c \in calls
  /\ calls' = calls \ {c}
  /\ \/ c.step = "mark" /\ MarkReleaseDeploying(c.release, c.artifact)
     \/ c.step = "note" /\ NoteReleaseUploaded(c.release, c.deployment,
                                               c.artifact)
     \/ c.step = "record" /\ RecordDeployedRelease(c.release, c.deployment,
                                                   c.artifact)
  /\ UNCHANGED <<pagesVars, previews, started, run, incident>>

\* The request is lost, or the database refuses it.
LostCall(c) ==
  /\ c \in calls
  /\ calls' = calls \ {c}
  /\ UNCHANGED <<releaseVars, pagesVars, previews, started, run, incident>>

-----------------------------------------------------------------------------
(* The operator, after the run of the release has ended.                   *)

OperatorFail_AfterUpload(r) ==
  /\ run.release # r
  /\ RecordReleaseFailure(r)
  /\ UNCHANGED <<pagesVars, workflowVars, incident>>

\* Only a release whose production upload never started is a build failure.
OperatorFail(r) ==
  /\ run.release # r /\ r \notin started
  /\ RecordReleaseFailure(r)
  /\ UNCHANGED <<pagesVars, workflowVars, incident>>

\* inspect finds the upload; note it, smoke it, record it.
OperatorNote(d) ==
  /\ incident = NoIncident
  /\ run.release # uploads[d].release
  /\ ~uploads[d].copy
  /\ NoteReleaseUploaded(uploads[d].release, d, uploads[d].artifact)
  /\ UNCHANGED <<pagesVars, workflowVars, incident>>

OperatorRecord(d) ==
  /\ incident = NoIncident
  /\ run.release # uploads[d].release
  /\ NoteReplayed(uploads[d].release, d, uploads[d].artifact)
  /\ RecordDeployedRelease(uploads[d].release, d, uploads[d].artifact)
  /\ UNCHANGED <<pagesVars, workflowVars, incident>>

DeploysStopped == run = NoRun /\ (StopRule => landing = {})

Incident(target, failed) ==
  [phase |-> "checked", target |-> target, failed |-> failed,
   expected_release |-> active.release,
   expected_deployment |-> active.deployment, restored |-> NoDeployment]

\* pages_upload rollback reads the pointer of the site before it changes it:
\* either the active release is bad and an earlier one, t, is to be restored ...
CheckRollback(t) ==
  /\ incident = NoIncident /\ DeploysStopped
  /\ PriorDeployment(t)
  /\ canonical = active.deployment
  /\ incident' = Incident(t, 0)
  /\ UNCHANGED <<releaseVars, pagesVars, workflowVars>>

\* ... or the upload of release r is, which never became active.
CheckWithdrawal(r) ==
  /\ incident = NoIncident /\ DeploysStopped
  /\ state[r] = "deployed_unrecorded" /\ active.release # 0
  /\ canonical = deployment_id[r]
  /\ incident' = Incident(active.release, r)
  /\ UNCHANGED <<releaseVars, pagesVars, workflowVars>>

\* Pages serves the target's original deployment again, under its own id or
\* under a new one.
RestoreSite(d) ==
  LET t == incident.target IN
  /\ incident.phase = "checked"
  /\ \/ d = deployment_id[t] /\ UNCHANGED uploads
     \/ List(d, t, artifact_hash[t], TRUE)
  /\ canonical' = d
  /\ incident' = [incident EXCEPT !.phase = "restored", !.restored = d]
  /\ UNCHANGED <<releaseVars, landing, workflowVars>>

\* release_rpc rollback or withdraw, with the pointer read at the start.
CloseIncident ==
  LET t == incident.target
      r == incident.failed
      d == incident.restored
  IN
  /\ incident.phase = "restored"
  /\ \/ /\ r = 0
        /\ RecordReleaseRollback(t, incident.expected_release,
                                 incident.expected_deployment, d,
                                 artifact_hash[t])
     \/ /\ r # 0
        /\ RecordUnrecordedUploadRollback(r, deployment_id[r], t,
                                          incident.expected_deployment, d,
                                          artifact_hash[t])
  /\ incident' = NoIncident
  /\ UNCHANGED <<pagesVars, workflowVars>>

RereadPointer_KeepsWithdrawal ==
  /\ incident.phase = "restored"
  /\ \/ active.release # incident.expected_release
     \/ active.deployment # incident.expected_deployment
  /\ incident' = [incident EXCEPT !.expected_release = active.release,
                                  !.expected_deployment = active.deployment]
  /\ UNCHANGED <<releaseVars, pagesVars, workflowVars>>

\* The pointer was stale: the operator reads it again.  A failed release that
\* was recorded meanwhile is rolled back, no longer withdrawn.
RereadPointer ==
  /\ incident.phase = "restored"
  /\ \/ active.release # incident.expected_release
     \/ active.deployment # incident.expected_deployment
  /\ incident' = [incident EXCEPT !.failed = 0,
                                  !.expected_release = active.release,
                                  !.expected_deployment = active.deployment]
  /\ UNCHANGED <<releaseVars, pagesVars, workflowVars>>
-----------------------------------------------------------------------------
Database ==
  /\ \/ \E p \in Patterns : RequestPublish(p) \/ RequestUnpublish(p)
     \/ \E e \in 0..MaxReleases : PreparePublicRelease(e)
  /\ UNCHANGED <<pagesVars, workflowVars, incident>>

Pages ==
  \E u \in landing : LoseUpload(u) \/ \E d \in DeploymentIds : LandUpload(u, d)

RunStep == MarkStep \/ UploadStep \/ ReceiptStep \/ NoteStep \/ SmokeStep
             \/ RecordStep \/ RunFails

Unanswered == \E c \in calls : LateCall(c) \/ LostCall(c)

NoteReceipt == \E d \in DOMAIN uploads : OperatorNote(d)

RecordOrWithdraw == \/ \E d \in DOMAIN uploads : OperatorRecord(d)
                    \/ \E r \in ReleaseNos : CheckWithdrawal(r)

Restore == \E d \in DeploymentIds : RestoreSite(d)

PublisherNext ==
  \/ Database
  \/ Pages
  \/ \E r \in ReleaseNos, a \in Artifacts : StartRun(r, a)
  \/ RunStep
  \/ Unanswered
  \/ \E r \in ReleaseNos : OperatorFail(r) \/ CheckRollback(r)
  \/ NoteReceipt
  \/ RecordOrWithdraw
  \/ Restore
  \/ CloseIncident
  \/ RereadPointer

PublisherSpec == PublisherInit /\ [][PublisherNext]_publisherVars

\* Runs, uploads and requests end: the workflow, the upload command and the
\* clients have timeouts.  The operator dispatches a release that waits and
\* finishes an incident; nothing makes the reviewers decide anything.
Fairness ==
  /\ WF_publisherVars(RunStep)
  /\ WF_publisherVars(Pages)
  /\ WF_publisherVars(Unanswered)
  /\ \A r \in ReleaseNos :
       WF_publisherVars(\E a \in Artifacts : StartRun(r, a))
  /\ WF_publisherVars(NoteReceipt)
  /\ WF_publisherVars(RecordOrWithdraw)
  /\ WF_publisherVars(Restore)
  /\ WF_publisherVars(CloseIncident)
  /\ WF_publisherVars(RereadPointer)

FairPublisherSpec == PublisherSpec /\ Fairness

-----------------------------------------------------------------------------
(* Properties.                                                             *)

Served == IF canonical = NoDeployment THEN 0 ELSE uploads[canonical].release

\* However runs fail, time out and are dispatched again, the production upload
\* of a release happens at most once ("never blindly retry it",
\* scripts/pages_upload.py upload).
OneUploadPerRelease ==
  \A d, e \in DOMAIN uploads :
    ~uploads[d].copy /\ ~uploads[e].copy
      /\ uploads[d].release = uploads[e].release => d = e

\* The database cannot see Pages, it believes the receipts it is given: each
\* one names a deployment that serves that release, in that artifact.
ReceiptsAreUploads ==
  \A j \in DOMAIN receipts :
    /\ receipts[j].deployment \in DOMAIN uploads
    /\ uploads[receipts[j].deployment].release = receipts[j].release
    /\ uploads[receipts[j].deployment].artifact = receipts[j].artifact

\* What the public sees is what the database calls active, or an upload that
\* the database still shows as unfinished, or a restoration whose operator has
\* yet to record it: never a failed or withdrawn release, nor a superseded one
\* that nobody is going to account for.
LiveIsExplained ==
  \/ Served = active.release
  \/ Served # 0 /\ state[Served] \in {"deploying", "deployed_unrecorded"}
  \/ incident.phase = "restored" /\ Served = incident.target

\* Once a release is recorded, every disagreement between the site and the
\* database ends: lost answers, late commits and failed smoke checks are all
\* reconciled or rolled back.
Converges ==
  (active.release # 0 /\ Served # active.release)
    ~> (Served = active.release)

\* Reconciliation reads the production release.json (implementation brief,
\* line 1816), so what it records is what the site serves.  The scripts read
\* the address of the deployment instead: with StopRule = FALSE an upload that
\* lands while the operator restores an earlier release is recorded as active
\* although the site serves the restored one.
Quiet == /\ run = NoRun /\ incident = NoIncident /\ landing = {}
         /\ NoPendingRelease

AgreeWhenQuiet == Quiet => Served = active.release
=============================================================================
