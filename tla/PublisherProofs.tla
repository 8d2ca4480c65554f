--------------------------- MODULE PublisherProofs ---------------------------
(***************************************************************************)
(* Theorems about Publisher: whatever the workflow, the hosting service    *)
(* and the operator do, the release tables see only steps of Release, so   *)
(* every theorem about Release holds of the whole system; and no release   *)
(* is uploaded twice.                                                      *)
(***************************************************************************)
EXTENDS Publisher, ReleaseProofs

-----------------------------------------------------------------------------
(* The database: two facts about receipts that Release does not check.     *)

\* Once a release was live one stays active; the active row names a
\* deployment, and so does every noted upload.
Receipted ==
  /\ \A r \in ReleaseNos : deployed_at[r] => active.release # 0
  /\ active.release # 0 => active.deployment \in DeploymentIds
  /\ \A r \in ReleaseNos :
       state[r] = "deployed_unrecorded" => deployment_id[r] \in DeploymentIds

DatabaseInv == ReleaseInv /\ Receipted

LEMMA ReceiptedStep ==
  ReleaseInv /\ Receipted /\ [Next]_releaseVars => Receipted'
  <1>. SUFFICES ASSUME ReleaseInv, Receipted, [Next]_releaseVars
                PROVE  Receipted'
    OBVIOUS
  <1>. USE DEF Receipted, ReleaseInv, TypeOK, ReleaseNos
  <1>1. CASE \E p \in Patterns : RequestPublish(p) \/ RequestUnpublish(p)
    BY <1>1 DEF RequestPublish, RequestUnpublish, AddChange
  <1>2. CASE \E e \in 0..MaxReleases : PreparePublicRelease(e)
    BY <1>2 DEF PreparePublicRelease
  <1>3. ASSUME NEW r \in ReleaseNos, NEW a \in Artifacts,
               MarkReleaseDeploying(r, a)
        PROVE  Receipted'
    BY <1>3 DEF MarkReleaseDeploying, MarkAllowed, MarkedRow, Row,
                TriggerAllows
  <1>4. ASSUME NEW r \in ReleaseNos, NEW a \in Artifacts,
               NEW d \in DeploymentIds, NoteReleaseUploaded(r, d, a)
        PROVE  Receipted'
    BY <1>4 DEF NoteReleaseUploaded, NoteAllowed
  <1>5. ASSUME NEW r \in ReleaseNos, NEW a \in Artifacts,
               NEW d \in DeploymentIds, RecordDeployedRelease(r, d, a)
        PROVE  Receipted'
    BY <1>5 DEF RecordDeployedRelease, RecordAllowed, DeployedState
  <1>6. CASE \E r \in ReleaseNos : RecordReleaseFailure(r)
    BY <1>6 DEF RecordReleaseFailure, FailureAllowed
  <1>7. ASSUME NEW r \in ReleaseNos, NEW e \in ReleaseNos,
               NEW x \in DeploymentIds, NEW d \in DeploymentIds,
               NEW a \in Artifacts, RecordReleaseRollback(r, e, x, d, a)
        PROVE  Receipted'
    BY <1>7 DEF RecordReleaseRollback, RollbackAllowed
  <1>8. ASSUME NEW r \in ReleaseNos, NEW e \in ReleaseNos,
               NEW f \in DeploymentIds, NEW x \in DeploymentIds,
               NEW d \in DeploymentIds, NEW a \in Artifacts,
               RecordUnrecordedUploadRollback(r, f, e, x, d, a)
        PROVE  Receipted'
    BY <1>8 DEF RecordUnrecordedUploadRollback, ActiveRow
  <1>9. CASE UNCHANGED releaseVars
    BY <1>9 DEF releaseVars
  <1>. QED
    BY <1>1, <1>2, <1>3, <1>4, <1>5, <1>6, <1>7, <1>8, <1>9
    DEF Next, Deploy, Retreat

LEMMA DatabaseStep == DatabaseInv /\ [Next]_releaseVars => DatabaseInv'
  BY NextInv, ReceiptedStep DEF DatabaseInv

\* What a step of the release tables keeps: a site once live stays live or
\* superseded, and something stays active.
LEMMA Lasting ==
  ASSUME DatabaseInv, [Next]_releaseVars
  PROVE  /\ \A r \in ReleaseNos : deployed_at[r] => deployed_at'[r]
         /\ active.release # 0 => active'.release # 0
  <1>1. ASSUME NEW r \in ReleaseNos, deployed_at[r]
        PROVE  deployed_at'[r]
    <2>1. state[r] \in {"deployed", "superseded"}
      BY <1>1 DEF DatabaseInv, ReleaseInv, EverLive
    <2>2. state'[r] \in {"deployed", "superseded"}
      BY <2>1, StepIsLegal DEF DatabaseInv, LegalTransition
    <2>. QED
      BY <2>2, DatabaseStep DEF DatabaseInv, ReleaseInv, EverLive
  <1>2. ASSUME active.release # 0 PROVE active'.release # 0
    <2>1. active.release \in ReleaseNos
      BY <1>2, BoundAssumption DEF DatabaseInv, ReleaseInv, TypeOK, ActiveRow, ReleaseNos
    <2>2. deployed_at'[active.release]
      BY <1>1, <2>1 DEF DatabaseInv, ReleaseInv, ActiveIsDeployed, EverLive
    <2>. QED
      BY <2>1, <2>2, DatabaseStep DEF DatabaseInv, Receipted
  <1>. QED
    BY <1>1, <1>2

-----------------------------------------------------------------------------
(* The process state: what a run, an unanswered call and an incident name.  *)

RunRecord == [step : {"none", "mark", "upload", "receipt", "note", "smoke",
                      "record"},
              release : 0..MaxReleases,
              artifact : Artifacts \cup {NoArtifact},
              deployment : DeploymentIds \cup {NoDeployment}]

IncidentRecord == [phase : {"none", "checked", "restored"},
                   target : 0..MaxReleases, failed : 0..MaxReleases,
                   expected_release : 0..MaxReleases,
                   expected_deployment : DeploymentIds \cup {NoDeployment},
                   restored : DeploymentIds \cup {NoDeployment}]

UploadRecord == [release : ReleaseNos, artifact : Artifacts, copy : BOOLEAN]

\* A request of the workflow names a release, an artifact and, from the
\* receipt on, a deployment.
Complete(c) ==
  /\ c \in RunRecord /\ c.release \in ReleaseNos /\ c.artifact \in Artifacts
  /\ c.step \in {"note", "smoke", "record"} => c.deployment \in DeploymentIds

HostInv ==
  /\ DOMAIN uploads \subseteq DeploymentIds
  /\ \A d \in DOMAIN uploads : uploads[d] \in UploadRecord
  /\ landing \subseteq Upload

WorkflowInv ==
  /\ run \in RunRecord
  /\ run.step # "none" => Complete(run)
  /\ \A c \in calls : Complete(c)

\* An incident restores a release that was live, from a pointer it has read.
IncidentInv ==
  /\ incident \in IncidentRecord
  /\ incident.phase # "none" =>
       /\ incident.target \in ReleaseNos /\ deployed_at[incident.target]
       /\ incident.expected_release \in ReleaseNos
       /\ incident.expected_deployment \in DeploymentIds
  /\ incident.phase = "restored" => incident.restored \in DeploymentIds

ProcessInv == DatabaseInv /\ HostInv /\ WorkflowInv /\ IncidentInv

LEMMA ActiveNamed ==
  ASSUME DatabaseInv, active.release # 0
  PROVE  /\ active.release \in ReleaseNos /\ active.deployment \in DeploymentIds
         /\ deployed_at[active.release]
  <1>1. active.release \in ReleaseNos
    BY BoundAssumption DEF DatabaseInv, ReleaseInv, TypeOK, ActiveRow, ReleaseNos
  <1>. QED
    BY <1>1 DEF DatabaseInv, Receipted, ReleaseInv, ActiveIsDeployed, EverLive

LEMMA ArtifactOfLive ==
  ASSUME DatabaseInv, NEW r \in ReleaseNos, deployed_at[r]
  PROVE  artifact_hash[r] \in Artifacts
  BY DEF DatabaseInv, ReleaseInv, EverLive, HasArtifact

\* Every step of the workflow, the hosting service and the operator is, for
\* the release tables, one RPC or nothing.
LEMMA StepOfRelease ==
  ASSUME ProcessInv, [PublisherNext]_publisherVars
  PROVE  [Next]_releaseVars
  <1>. USE DEF ProcessInv
  <1>1. CASE Database
    BY <1>1, Zenon DEF Database, Next
  <1>2. CASE Pages
    BY <1>2, Zenon DEF Pages, LoseUpload, LandUpload
  <1>3. CASE \E r \in ReleaseNos, a \in Artifacts : StartRun(r, a)
    BY <1>3, Zenon DEF StartRun
  <1>4. CASE RunStep
    <2>1. CASE MarkStep
      <3>1. run.release \in ReleaseNos /\ run.artifact \in Artifacts
        BY <2>1 DEF MarkStep, WorkflowInv, Complete
      <3>. QED
        BY <2>1, <3>1, Zenon DEF MarkStep, Next, Deploy
    <2>2. CASE UploadStep \/ ReceiptStep \/ SmokeStep \/ RunFails
      BY <2>2, Zenon DEF UploadStep, ReceiptStep, SmokeStep, RunFails
    <2>3. CASE NoteStep
      <3>1. /\ run.release \in ReleaseNos /\ run.artifact \in Artifacts
            /\ run.deployment \in DeploymentIds
        BY <2>3 DEF NoteStep, WorkflowInv, Complete
      <3>. QED
        BY <2>3, <3>1, Zenon DEF NoteStep, Note, Next, Deploy
    <2>4. CASE RecordStep
      <3>1. /\ run.release \in ReleaseNos /\ run.artifact \in Artifacts
            /\ run.deployment \in DeploymentIds
        BY <2>4 DEF RecordStep, WorkflowInv, Complete
      <3>. QED
        BY <2>4, <3>1, Zenon DEF RecordStep, Record, Next, Deploy
    <2>. QED
      BY <1>4, <2>1, <2>2, <2>3, <2>4, Zenon DEF RunStep
  <1>5. CASE Unanswered
    <2>1. PICK c \in calls : LateCall(c) \/ LostCall(c)
      BY <1>5, Zenon DEF Unanswered
    <2>2. CASE LostCall(c)
      BY <2>2, Zenon DEF LostCall
    <2>3. CASE LateCall(c)
      <3>1. /\ c.release \in ReleaseNos /\ c.artifact \in Artifacts
            /\ c.step \in {"note", "record"} => c.deployment \in DeploymentIds
        BY DEF WorkflowInv, Complete
      <3>2. CASE c.step = "mark" /\ MarkReleaseDeploying(c.release, c.artifact)
        BY <3>1, <3>2, Zenon DEF Next, Deploy
      <3>3. CASE c.step = "note" /\ NoteReleaseUploaded(c.release, c.deployment, c.artifact)
        <4>1. c.deployment \in DeploymentIds
          BY <3>1, <3>3
        <4>. QED
          BY <3>1, <3>3, <4>1, Zenon DEF Next, Deploy
      <3>4. CASE c.step = "record" /\ RecordDeployedRelease(c.release, c.deployment, c.artifact)
        <4>1. c.deployment \in DeploymentIds
          BY <3>1, <3>4
        <4>. QED
          BY <3>1, <3>4, <4>1, Zenon DEF Next, Deploy
      <3>. QED
        BY <2>3, <3>2, <3>3, <3>4, Zenon DEF LateCall
    <2>. QED
      BY <2>1, <2>2, <2>3
  <1>6. CASE \E r \in ReleaseNos : OperatorFail(r)
    BY <1>6, Zenon DEF OperatorFail, Next
  <1>7. CASE \E r \in ReleaseNos : CheckRollback(r) \/ CheckWithdrawal(r)
    BY <1>7, Zenon DEF CheckRollback, CheckWithdrawal
  <1>8. ASSUME NEW d \in DOMAIN uploads, OperatorNote(d) \/ OperatorRecord(d)
        PROVE  Next
    <2>1. /\ d \in DeploymentIds /\ uploads[d].release \in ReleaseNos
          /\ uploads[d].artifact \in Artifacts
      BY DEF HostInv, UploadRecord
    <2>. QED
      BY <1>8, <2>1, Zenon DEF OperatorNote, OperatorRecord, Next, Deploy
  <1>9. CASE Restore \/ RereadPointer
    BY <1>9, Zenon DEF Restore, RestoreSite, RereadPointer
  <1>10. CASE CloseIncident
    <2>1. /\ incident.target \in ReleaseNos
          /\ artifact_hash[incident.target] \in Artifacts
          /\ incident.expected_release \in ReleaseNos
          /\ incident.expected_deployment \in DeploymentIds
          /\ incident.restored \in DeploymentIds
          /\ incident.failed \in 0..MaxReleases
      BY <1>10, ArtifactOfLive DEF CloseIncident, IncidentInv, IncidentRecord
    <2>2. CASE incident.failed = 0
      BY <1>10, <2>1, <2>2, Zenon DEF CloseIncident, Next, Retreat
    <2>3. CASE incident.failed # 0
      <3>1. incident.failed \in ReleaseNos
        BY <2>1, <2>3, BoundAssumption DEF ReleaseNos
      <3>2. RecordUnrecordedUploadRollback(incident.failed,
              deployment_id[incident.failed], incident.target,
              incident.expected_deployment, incident.restored,
              artifact_hash[incident.target])
        BY <1>10, <2>3, Zenon DEF CloseIncident
      <3>3. deployment_id[incident.failed] \in DeploymentIds
        BY <3>1, <3>2 DEF RecordUnrecordedUploadRollback, WithdrawAllowed,
                         DatabaseInv, Receipted
      <3>. QED
        BY <2>1, <3>1, <3>2, <3>3, Zenon DEF Next, Retreat
    <2>. QED
      BY <2>2, <2>3
  <1>11. CASE UNCHANGED publisherVars
    BY <1>11, Zenon DEF publisherVars
  <1>. QED
    BY <1>1, <1>2, <1>3, <1>4, <1>5, <1>6, <1>7, <1>8, <1>9, <1>10, <1>11,
       Zenon
    DEF PublisherNext, NoteReceipt, RecordOrWithdraw

LEMMA HostStep ==
  ProcessInv /\ [PublisherNext]_publisherVars => HostInv'
  <1>. SUFFICES ASSUME ProcessInv, [PublisherNext]_publisherVars
                PROVE  HostInv'
    OBVIOUS
  <1>. USE DEF ProcessInv
  <1>1. ASSUME NEW u \in landing, NEW d \in DeploymentIds, LandUpload(u, d)
        PROVE  HostInv'
    BY <1>1 DEF LandUpload, List, HostInv, Upload, UploadRecord
  <1>2. CASE \E u \in landing : LoseUpload(u)
    BY <1>2 DEF LoseUpload, HostInv
  <1>3. CASE UploadStep
    <2>1. run.release \in ReleaseNos /\ run.artifact \in Artifacts
      BY <1>3 DEF UploadStep, WorkflowInv, Complete
    <2>. QED
      BY <1>3, <2>1 DEF UploadStep, HostInv, Upload
  <1>4. ASSUME NEW d \in DeploymentIds, RestoreSite(d)
        PROVE  HostInv'
    <2>1. /\ incident.target \in ReleaseNos
          /\ artifact_hash[incident.target] \in Artifacts
      BY <1>4, ArtifactOfLive DEF RestoreSite, IncidentInv
    <2>2. landing' = landing
      BY <1>4, Zenon DEF RestoreSite
    <2>3. CASE UNCHANGED uploads
      BY <2>2, <2>3 DEF HostInv
    <2>4. CASE List(d, incident.target, artifact_hash[incident.target], TRUE)
      BY <2>1, <2>2, <2>4 DEF List, HostInv, UploadRecord
    <2>. QED
      BY <1>4, <2>3, <2>4, Zenon DEF RestoreSite
  <1>5. CASE UNCHANGED <<uploads, landing>>
    BY <1>5 DEF HostInv
  <1>6. CASE \/ Database \/ Unanswered \/ CloseIncident \/ RereadPointer
             \/ \E r \in ReleaseNos, a \in Artifacts : StartRun(r, a)
             \/ \E r \in ReleaseNos : OperatorFail(r) \/ CheckRollback(r)
             \/ NoteReceipt \/ RecordOrWithdraw \/ UNCHANGED publisherVars
             \/ RunStep /\ ~UploadStep
    <2>1. UNCHANGED <<uploads, landing>>
      BY <1>6, Zenon
      DEF Database, Unanswered, LateCall, LostCall, CloseIncident,
          RereadPointer, StartRun, OperatorFail, CheckRollback, NoteReceipt,
          OperatorNote, RecordOrWithdraw, OperatorRecord, CheckWithdrawal,
          publisherVars, pagesVars, RunStep, MarkStep, ReceiptStep, NoteStep,
          SmokeStep, RecordStep, RunFails
    <2>. QED
      BY <1>5, <2>1
  <1>. QED
    BY <1>1, <1>2, <1>3, <1>4, <1>6, Zenon DEF PublisherNext, Pages, Restore

LEMMA WorkflowStep ==
  ProcessInv /\ [PublisherNext]_publisherVars => WorkflowInv'
  <1>. SUFFICES ASSUME ProcessInv, [PublisherNext]_publisherVars
                PROVE  WorkflowInv'
    OBVIOUS
  <1>. USE DEF ProcessInv
  <1>1. ASSUME NEW r \in ReleaseNos, NEW a \in Artifacts, StartRun(r, a)
        PROVE  WorkflowInv'
    <2>1. /\ Complete(run')
      BY <1>1, BoundAssumption DEF StartRun, Complete, RunRecord, ReleaseNos
    <2>. QED
      BY <1>1, <2>1 DEF StartRun, WorkflowInv, Complete
  <1>2. CASE MarkStep \/ UploadStep \/ NoteStep \/ SmokeStep
    <2>1. Complete(run)
      BY <1>2 DEF MarkStep, UploadStep, NoteStep, SmokeStep, WorkflowInv
    <2>2. \E s \in {"upload", "receipt", "smoke", "record"} :
            /\ run' = [run EXCEPT !.step = s]
            /\ s \in {"smoke", "record"} => run.step \in {"note", "smoke"}
      BY <1>2 DEF MarkStep, UploadStep, NoteStep, SmokeStep
    <2>3. Complete(run')
      BY <2>1, <2>2 DEF Complete, RunRecord
    <2>4. calls' = calls
      BY <1>2, Zenon DEF MarkStep, UploadStep, NoteStep, SmokeStep
    <2>. QED
      BY <2>3, <2>4 DEF WorkflowInv, Complete
  <1>3. CASE ReceiptStep
    <2>1. PICK d \in Marked(run.release, run.artifact) :
            run' = [run EXCEPT !.step = "note", !.deployment = d]
      BY <1>3 DEF ReceiptStep
    <2>2. d \in DeploymentIds
      BY DEF Marked, HostInv
    <2>3. Complete(run) /\ calls' = calls
      BY <1>3 DEF ReceiptStep, WorkflowInv
    <2>4. Complete(run')
      BY <2>1, <2>2, <2>3 DEF Complete, RunRecord
    <2>. QED
      BY <2>3, <2>4 DEF WorkflowInv, Complete
  <1>4. CASE RecordStep \/ RunFails
    <2>1. /\ run' = NoRun
          /\ \/ calls' = calls
             \/ /\ run.step \in {"mark", "note", "record"}
                /\ calls' = calls \cup {run}
      BY <1>4, Zenon DEF RecordStep, RunFails
    <2>2. NoRun \in RunRecord /\ NoRun.step = "none"
      BY BoundAssumption DEF NoRun, RunRecord
    <2>3. \A c \in calls' : Complete(c)
      BY <2>1 DEF WorkflowInv
    <2>. QED
      BY <2>1, <2>2, <2>3 DEF WorkflowInv, Complete
  <1>5. CASE Unanswered
    BY <1>5 DEF Unanswered, LateCall, LostCall, WorkflowInv
  <1>6. CASE \/ Database \/ Pages \/ CloseIncident \/ RereadPointer \/ Restore
             \/ \E r \in ReleaseNos : OperatorFail(r) \/ CheckRollback(r)
             \/ NoteReceipt \/ RecordOrWithdraw \/ UNCHANGED publisherVars
    <2>1. UNCHANGED <<run, calls>>
      BY <1>6, Zenon
      DEF Database, Pages, LandUpload, LoseUpload, CloseIncident,
          RereadPointer, Restore, RestoreSite, OperatorFail, CheckRollback,
          NoteReceipt, OperatorNote, RecordOrWithdraw, OperatorRecord,
          CheckWithdrawal, publisherVars, workflowVars
    <2>. QED
      BY <2>1 DEF WorkflowInv, Complete
  <1>. QED
    BY <1>1, <1>2, <1>3, <1>4, <1>5, <1>6, Zenon DEF PublisherNext, RunStep

LEMMA IncidentStep ==
  ProcessInv /\ [PublisherNext]_publisherVars => IncidentInv'
  <1>. SUFFICES ASSUME ProcessInv, [PublisherNext]_publisherVars
                PROVE  IncidentInv'
    OBVIOUS
  <1>. USE DEF ProcessInv
  <1>1. /\ \A r \in ReleaseNos : deployed_at[r] => deployed_at'[r]
        /\ active.release # 0 => active'.release # 0
    BY StepOfRelease, Lasting
  <1>2. ASSUME NEW r \in ReleaseNos, CheckRollback(r)
        PROVE  IncidentInv'
    <2>1. deployed_at[r] /\ active.release # 0
      BY <1>2 DEF CheckRollback, PriorDeployment, DatabaseInv, Receipted
    <2>. QED
      BY <1>1, <1>2, <2>1, ActiveNamed, BoundAssumption
      DEF CheckRollback, Incident, IncidentInv, IncidentRecord, ReleaseNos
  <1>3. ASSUME NEW r \in ReleaseNos, CheckWithdrawal(r)
        PROVE  IncidentInv'
    BY <1>1, <1>3, ActiveNamed, BoundAssumption
    DEF CheckWithdrawal, Incident, IncidentInv, IncidentRecord, ReleaseNos
  <1>4. ASSUME NEW d \in DeploymentIds, RestoreSite(d)
        PROVE  IncidentInv'
    <2>1. /\ incident.phase = "checked"
          /\ incident' = [incident EXCEPT !.phase = "restored",
                                         !.restored = d]
          /\ deployed_at' = deployed_at
      BY <1>4 DEF RestoreSite, releaseVars
    <2>. QED
      BY <2>1 DEF IncidentInv, IncidentRecord
  <1>5. CASE CloseIncident
    <2>1. incident' = NoIncident
      BY <1>5, Zenon DEF CloseIncident
    <2>. QED
      BY <2>1, BoundAssumption DEF NoIncident, IncidentInv, IncidentRecord
  <1>6. CASE RereadPointer
    <2>1. /\ incident.phase = "restored"
          /\ incident' = [incident EXCEPT
                            !.failed = 0,
                            !.expected_release = active.release,
                            !.expected_deployment = active.deployment]
      BY <1>6, Zenon DEF RereadPointer
    <2>2. active.release # 0
      BY <2>1 DEF IncidentInv, DatabaseInv, Receipted
    <2>3. active.release \in ReleaseNos /\ active.deployment \in DeploymentIds
      BY <2>2, ActiveNamed
    <2>4. deployed_at'[incident.target]
      BY <1>1, <2>1 DEF IncidentInv
    <2>5. incident' \in IncidentRecord
      <3>1. active.release \in 0..MaxReleases /\ 0 \in 0..MaxReleases
        BY <2>3, BoundAssumption DEF ReleaseNos
      <3>. QED
        BY <2>1, <2>3, <3>1 DEF IncidentInv, IncidentRecord
    <2>6. /\ incident'.target = incident.target
          /\ incident'.expected_release = active.release
          /\ incident'.expected_deployment = active.deployment
          /\ incident'.restored = incident.restored
      BY <2>1 DEF IncidentInv, IncidentRecord
    <2>7. incident.target \in ReleaseNos /\ incident.restored \in DeploymentIds
      BY <2>1 DEF IncidentInv
    <2>. QED
      BY <2>3, <2>4, <2>5, <2>6, <2>7 DEF IncidentInv
  <1>7. CASE \/ Database \/ Pages \/ RunStep \/ Unanswered \/ NoteReceipt
             \/ \E r \in ReleaseNos, a \in Artifacts : StartRun(r, a)
             \/ \E r \in ReleaseNos : OperatorFail(r)
             \/ \E d \in DOMAIN uploads : OperatorRecord(d)
             \/ UNCHANGED publisherVars
    <2>1. incident' = incident
      BY <1>7, Zenon
      DEF Database, Pages, LandUpload, LoseUpload, RunStep, MarkStep,
          UploadStep, ReceiptStep, NoteStep, SmokeStep, RecordStep, RunFails,
          Unanswered, LateCall, LostCall, NoteReceipt, OperatorNote, StartRun,
          OperatorFail, OperatorRecord, publisherVars
    <2>. QED
      BY <1>1, <2>1 DEF IncidentInv
  <1>. QED
    BY <1>2, <1>3, <1>4, <1>5, <1>6, <1>7, Zenon
    DEF PublisherNext, Restore, RecordOrWithdraw

LEMMA ProcessStep ==
  ProcessInv /\ [PublisherNext]_publisherVars => ProcessInv'
  BY StepOfRelease, DatabaseStep, HostStep, WorkflowStep, IncidentStep
  DEF ProcessInv

LEMMA ProcessInit == PublisherInit => ProcessInv
  <1>. SUFFICES ASSUME PublisherInit PROVE ProcessInv
    OBVIOUS
  <1>1. ReleaseInv
    BY InitInv DEF PublisherInit
  <1>2. Receipted
    BY DEF PublisherInit, Init, NoActive, Receipted
  <1>3. HostInv /\ WorkflowInv /\ IncidentInv
    BY BoundAssumption
    DEF PublisherInit, HostInv, WorkflowInv, IncidentInv, NoRun, NoIncident,
        RunRecord, IncidentRecord
  <1>. QED
    BY <1>1, <1>2, <1>3 DEF ProcessInv, DatabaseInv

\* Whatever the actors do, the process state stays well-formed: a request
\* names a release, an artifact and a deployment that exist, and an incident
\* restores a release that was live, against a pointer it really read.
THEOREM ProcessTheorem == PublisherSpec => []ProcessInv
  BY ProcessInit, ProcessStep, PTL DEF PublisherSpec

\* The workflow, the late requests and the operator change the release tables
\* only as the RPCs of Release do: the detailed specification implements it.
THEOREM ReleaseImplemented == PublisherSpec => Spec
  <1>1. PublisherInit => Init
    BY DEF PublisherInit
  <1>2. ProcessInv /\ [PublisherNext]_publisherVars => [Next]_releaseVars
    BY StepOfRelease
  <1>. QED
    BY <1>1, <1>2, ProcessTheorem, PTL DEF PublisherSpec, Spec

-----------------------------------------------------------------------------
(* No release is uploaded twice.                                           *)

Order(r, a) == [release |-> r, artifact |-> a]

Sent(r, a) == Order(r, a) \in landing \/ Marked(r, a) # {}

\* An upload follows a preview of the same artifact, which no run repeats, and
\* the mark that pins the artifact of the release.
SentOnce ==
  \A r \in ReleaseNos, a \in Artifacts :
    /\ Sent(r, a) => <<r, a>> \in previews /\ artifact_hash[r] = a
    /\ Order(r, a) \in landing => Marked(r, a) = {}
    /\ \A d, e \in Marked(r, a) : d = e

\* The run that has yet to upload is the one that made the preview.
RunMayUpload ==
  run.step # "none" =>
    /\ <<run.release, run.artifact>> \in previews
    /\ run.step \in {"mark", "upload"} => ~Sent(run.release, run.artifact)
    /\ run.step # "mark" => artifact_hash[run.release] = run.artifact

UploadInv == SentOnce /\ RunMayUpload

LEMMA Pinned ==
  ASSUME ProcessInv, [PublisherNext]_publisherVars,
         NEW r \in ReleaseNos, artifact_hash[r] # NoArtifact
  PROVE  artifact_hash'[r] = artifact_hash[r]
  BY StepOfRelease, StepIsLegal DEF ProcessInv, DatabaseInv

LEMMA NewMarked ==
  ASSUME NEW d, NEW r, NEW a, List(d, r, a, FALSE)
  PROVE  Marked(r, a)' = Marked(r, a) \cup {d}
  <1>1. /\ DOMAIN uploads' = DOMAIN uploads \cup {d}
        /\ uploads'[d] = [release |-> r, artifact |-> a, copy |-> FALSE]
        /\ \A x \in DOMAIN uploads : x # d /\ uploads'[x] = uploads[x]
    BY DEF List
  <1>. QED
    BY <1>1 DEF Marked

LEMMA OthersMarked ==
  ASSUME NEW d, NEW r, NEW a, NEW q, NEW b,
         List(d, r, a, FALSE), Order(q, b) # Order(r, a)
  PROVE  Marked(q, b)' = Marked(q, b)
  <1>1. /\ DOMAIN uploads' = DOMAIN uploads \cup {d}
        /\ uploads'[d] = [release |-> r, artifact |-> a, copy |-> FALSE]
        /\ \A x \in DOMAIN uploads : x # d /\ uploads'[x] = uploads[x]
    BY DEF List
  <1>2. ~(q = r /\ b = a)
    OBVIOUS
  <1>. QED
    BY <1>1, <1>2 DEF Marked

LEMMA CopyMarked ==
  ASSUME NEW d, NEW r, NEW a, List(d, r, a, TRUE), NEW q, NEW b
  PROVE  Marked(q, b)' = Marked(q, b)
  <1>1. /\ DOMAIN uploads' = DOMAIN uploads \cup {d}
        /\ uploads'[d] = [release |-> r, artifact |-> a, copy |-> TRUE]
        /\ \A x \in DOMAIN uploads : x # d /\ uploads'[x] = uploads[x]
    BY DEF List
  <1>. QED
    BY <1>1 DEF Marked

LEMMA MarkedKept ==
  ASSUME UNCHANGED uploads, NEW q, NEW b
  PROVE  Marked(q, b)' = Marked(q, b)
  BY DEF Marked

LEMMA SentOnceStep ==
  ASSUME ProcessInv, UploadInv, [PublisherNext]_publisherVars
  PROVE  SentOnce'
  <1>. SUFFICES ASSUME NEW r \in ReleaseNos, NEW a \in Artifacts
                PROVE  /\ Sent(r, a)' => <<r, a>> \in previews'
                                         /\ artifact_hash'[r] = a
                       /\ Order(r, a) \in landing' => Marked(r, a)' = {}
                       /\ \A d, e \in Marked(r, a)' : d = e
    BY Zenon DEF SentOnce, Order
  <1>. USE DEF UploadInv
  <1>0. /\ Sent(r, a) => <<r, a>> \in previews /\ artifact_hash[r] = a
        /\ Order(r, a) \in landing => Marked(r, a) = {}
        /\ \A d, e \in Marked(r, a) : d = e
    BY DEF SentOnce
  <1>1. Sent(r, a) => artifact_hash'[r] = a
    BY <1>0, Pinned, NullAssumption
  <1>2. ASSUME NEW u \in landing, NEW d \in DeploymentIds, LandUpload(u, d)
        PROVE  /\ Sent(r, a)' => <<r, a>> \in previews'
                                         /\ artifact_hash'[r] = a
               /\ Order(r, a) \in landing' => Marked(r, a)' = {}
               /\ \A x, e \in Marked(r, a)' : x = e
    <2>1. /\ landing' = landing \ {u} /\ previews' = previews
          /\ List(d, u.release, u.artifact, FALSE)
      BY <1>2, Zenon DEF LandUpload, workflowVars
    <2>2. u = Order(u.release, u.artifact)
      BY DEF ProcessInv, HostInv, Upload, Order
    <2>3. CASE u = Order(r, a)
      <3>1. u.release = r /\ u.artifact = a
        BY <2>3 DEF Order
      <3>2. Marked(r, a)' = {d}
        <4>1. Marked(r, a) = {}
          BY <1>0, <2>3
        <4>2. List(d, r, a, FALSE)
          BY <2>1, <3>1
        <4>3. Marked(r, a)' = Marked(r, a) \cup {d}
          BY <4>2, NewMarked
        <4>. QED
          BY <4>1, <4>3
      <3>. QED
        BY <1>0, <1>1, <2>1, <2>3, <3>2 DEF Sent
    <2>4. CASE u # Order(r, a)
      <3>1. Marked(r, a)' = Marked(r, a)
        <4>1. PICK q, b : q = u.release /\ b = u.artifact
          OBVIOUS
        <4>2. Order(r, a) # Order(q, b)
          BY <2>2, <2>4, <4>1
        <4>3. List(d, q, b, FALSE)
          BY <2>1, <4>1
        <4>. QED
          BY <4>2, <4>3, OthersMarked
      <3>. QED
        BY <1>0, <1>1, <2>1, <3>1 DEF Sent, Order
    <2>. QED
      BY <2>3, <2>4
  <1>3. ASSUME UNCHANGED uploads, landing' \subseteq landing,
               previews \subseteq previews'
        PROVE  /\ Sent(r, a)' => <<r, a>> \in previews'
                                         /\ artifact_hash'[r] = a
               /\ Order(r, a) \in landing' => Marked(r, a)' = {}
               /\ \A x, e \in Marked(r, a)' : x = e
    <2>1. Marked(r, a)' = Marked(r, a)
      BY <1>3, MarkedKept
    <2>. QED
      BY <1>0, <1>1, <1>3, <2>1 DEF Sent, Order
  <1>4. CASE UploadStep
    <2>1. /\ landing' = landing \cup {Order(run.release, run.artifact)}
          /\ UNCHANGED <<uploads, previews>>
          /\ run.step = "upload" /\ Marked(run.release, run.artifact) = {}
      BY <1>4 DEF UploadStep, Order, NoPriorUpload
    <2>2. Marked(r, a)' = Marked(r, a)
      BY <2>1, MarkedKept
    <2>3. CASE r = run.release /\ a = run.artifact
      <3>1. artifact_hash[r] = a /\ <<r, a>> \in previews
        BY <2>1, <2>3 DEF RunMayUpload
      <3>2. artifact_hash'[r] = a
        BY <3>1, Pinned, NullAssumption
      <3>. QED
        BY <2>1, <2>2, <2>3, <3>1, <3>2 DEF Sent
    <2>4. CASE ~(r = run.release /\ a = run.artifact)
      <3>1. Order(r, a) # Order(run.release, run.artifact)
        BY <2>4 DEF Order
      <3>2. Order(r, a) \in landing' <=> Order(r, a) \in landing
        BY <2>1, <3>1
      <3>3. Sent(r, a)' <=> Sent(r, a)
        BY <2>2, <3>2 DEF Sent, Order
      <3>. QED
        BY <1>0, <1>1, <2>1, <2>2, <3>2, <3>3
    <2>. QED
      BY <2>3, <2>4
  <1>5. ASSUME NEW d \in DeploymentIds, RestoreSite(d)
        PROVE  /\ Sent(r, a)' => <<r, a>> \in previews'
                                         /\ artifact_hash'[r] = a
               /\ Order(r, a) \in landing' => Marked(r, a)' = {}
               /\ \A x, e \in Marked(r, a)' : x = e
    <2>1. UNCHANGED <<landing, previews>>
      BY <1>5, Zenon DEF RestoreSite, workflowVars
    <2>2. Marked(r, a)' = Marked(r, a)
      <3>1. CASE UNCHANGED uploads
        BY <3>1, MarkedKept
      <3>2. CASE List(d, incident.target, artifact_hash[incident.target], TRUE)
        BY <3>2, CopyMarked
      <3>. QED
        BY <1>5, <3>1, <3>2, Zenon DEF RestoreSite
    <2>. QED
      BY <1>0, <1>1, <2>1, <2>2 DEF Sent, Order
  <1>6. CASE \/ Database \/ Unanswered \/ CloseIncident \/ RereadPointer
             \/ \E q \in ReleaseNos, b \in Artifacts : StartRun(q, b)
             \/ \E q \in ReleaseNos : OperatorFail(q) \/ CheckRollback(q)
             \/ NoteReceipt \/ RecordOrWithdraw \/ UNCHANGED publisherVars
             \/ RunStep /\ ~UploadStep
             \/ \E u \in landing : LoseUpload(u)
    <2>1. /\ UNCHANGED uploads
          /\ \/ landing' = landing
             \/ \E u \in landing : landing' = landing \ {u}
          /\ \/ previews' = previews
             \/ \E q \in ReleaseNos, b \in Artifacts :
                  previews' = previews \cup {<<q, b>>}
      BY <1>6, Zenon
      DEF Database, Unanswered, LateCall, LostCall, CloseIncident,
          RereadPointer, StartRun, OperatorFail, CheckRollback, NoteReceipt,
          OperatorNote, RecordOrWithdraw, OperatorRecord, CheckWithdrawal,
          publisherVars, pagesVars, workflowVars, RunStep, MarkStep,
          ReceiptStep, NoteStep, SmokeStep, RecordStep, RunFails, LoseUpload
    <2>. QED
      BY <1>3, <2>1
  <1>. QED
    BY <1>2, <1>4, <1>5, <1>6, Zenon DEF PublisherNext, Pages, Restore

\* Only the upload step of the run sends an upload.
LEMMA SentOnlyByRun ==
  ASSUME ProcessInv, [PublisherNext]_publisherVars, ~UploadStep,
         NEW r \in ReleaseNos, NEW a \in Artifacts, Sent(r, a)'
  PROVE  Sent(r, a)
  <1>1. ASSUME NEW u \in landing, NEW d \in DeploymentIds, LandUpload(u, d)
        PROVE  Sent(r, a)
    <2>1. /\ landing' = landing \ {u}
          /\ List(d, u.release, u.artifact, FALSE)
      BY <1>1, Zenon DEF LandUpload
    <2>2. u = Order(u.release, u.artifact)
      BY DEF ProcessInv, HostInv, Upload, Order
    <2>3. CASE u = Order(r, a)
      BY <2>3 DEF Sent
    <2>4. CASE u # Order(r, a)
      <3>1. Marked(r, a)' = Marked(r, a)
        <4>1. PICK q, b : q = u.release /\ b = u.artifact
          OBVIOUS
        <4>2. Order(r, a) # Order(q, b)
          BY <2>2, <2>4, <4>1
        <4>3. List(d, q, b, FALSE)
          BY <2>1, <4>1
        <4>. QED
          BY <4>2, <4>3, OthersMarked
      <3>. QED
        BY <2>1, <3>1 DEF Sent, Order
    <2>. QED
      BY <2>3, <2>4
  <1>2. CASE landing' \subseteq landing /\ UNCHANGED uploads
    <2>1. Marked(r, a)' = Marked(r, a)
      BY <1>2, MarkedKept
    <2>. QED
      BY <1>2, <2>1 DEF Sent, Order
  <1>3. ASSUME NEW d \in DeploymentIds, RestoreSite(d)
        PROVE  Sent(r, a)
    <2>1. landing' = landing
      BY <1>3, Zenon DEF RestoreSite
    <2>2. CASE UNCHANGED uploads
      BY <1>2, <2>1, <2>2
    <2>3. CASE List(d, incident.target, artifact_hash[incident.target], TRUE)
      <3>1. Marked(r, a)' = Marked(r, a)
        BY <2>3, CopyMarked
      <3>. QED
        BY <2>1, <3>1 DEF Sent, Order
    <2>. QED
      BY <1>3, <2>2, <2>3, Zenon DEF RestoreSite
  <1>4. CASE \/ Database \/ Unanswered \/ CloseIncident \/ RereadPointer
             \/ \E q \in ReleaseNos, b \in Artifacts : StartRun(q, b)
             \/ \E q \in ReleaseNos : OperatorFail(q) \/ CheckRollback(q)
             \/ NoteReceipt \/ RecordOrWithdraw \/ UNCHANGED publisherVars
             \/ RunStep
             \/ \E u \in landing : LoseUpload(u)
    <2>1. /\ UNCHANGED uploads
          /\ \/ landing' = landing
             \/ \E u \in landing : landing' = landing \ {u}
      BY <1>4, Zenon
      DEF Database, Unanswered, LateCall, LostCall, CloseIncident,
          RereadPointer, StartRun, OperatorFail, CheckRollback, NoteReceipt,
          OperatorNote, RecordOrWithdraw, OperatorRecord, CheckWithdrawal,
          publisherVars, pagesVars, RunStep, MarkStep,
          ReceiptStep, NoteStep, SmokeStep, RecordStep, RunFails, LoseUpload
    <2>. QED
      BY <1>2, <2>1
  <1>. QED
    BY <1>1, <1>3, <1>4, Zenon DEF PublisherNext, Pages, Restore

LEMMA RunMayUploadStep ==
  ASSUME ProcessInv, UploadInv, [PublisherNext]_publisherVars
  PROVE  RunMayUpload'
  <1>. USE DEF UploadInv
  <1>1. ASSUME NEW r \in ReleaseNos, NEW a \in Artifacts, StartRun(r, a)
        PROVE  RunMayUpload'
    <2>1. /\ run'.step = "mark" /\ run'.release = r /\ run'.artifact = a
          /\ <<r, a>> \in previews' /\ <<r, a>> \notin previews
          /\ UNCHANGED <<uploads, landing>>
      BY <1>1 DEF StartRun, pagesVars
    <2>2. ~Sent(r, a)
      BY <2>1 DEF SentOnce
    <2>3. ~Sent(r, a)'
      BY <2>1, <2>2, MarkedKept DEF Sent, Order
    <2>. QED
      BY <2>1, <2>3 DEF RunMayUpload, Sent, Order, Marked
  <1>2. CASE RecordStep \/ RunFails
    BY <1>2 DEF RecordStep, RunFails, NoRun, RunMayUpload
  <1>3. ASSUME run.step # "none", run'.release = run.release,
               run'.artifact = run.artifact, previews' = previews,
               run'.step \in {"mark", "upload"} =>
                 run.step \in {"mark", "upload"} /\ ~UploadStep,
               run'.step # "mark" =>
                 artifact_hash'[run.release] = run.artifact
        PROVE  RunMayUpload'
    <2>1. run.release \in ReleaseNos /\ run.artifact \in Artifacts
      BY <1>3 DEF ProcessInv, WorkflowInv, Complete
    <2>2. /\ <<run.release, run.artifact>> \in previews
          /\ run.step \in {"mark", "upload"}
               => ~Sent(run.release, run.artifact)
      BY <1>3 DEF RunMayUpload
    <2>3. PICK r \in ReleaseNos, a \in Artifacts :
            r = run.release /\ a = run.artifact
      BY <2>1
    <2>4. run'.step \in {"mark", "upload"} => ~Sent(r, a)'
      BY <1>3, <2>2, <2>3, SentOnlyByRun
    <2>5. run'.release = r /\ run'.artifact = a
      BY <1>3, <2>3
    <2>. QED
      BY <1>3, <2>2, <2>3, <2>4, <2>5 DEF RunMayUpload, Sent, Order, Marked
  <1>4. CASE MarkStep
    <2>1. /\ run.step = "mark" /\ run' = [run EXCEPT !.step = "upload"]
          /\ previews' = previews
          /\ MarkReleaseDeploying(run.release, run.artifact)
      BY <1>4, Zenon DEF MarkStep
    <2>2. run \in RunRecord /\ run.release \in ReleaseNos
      BY <2>1 DEF ProcessInv, WorkflowInv, Complete
    <2>3. artifact_hash'[run.release] = run.artifact
      BY <2>1, <2>2
      DEF MarkReleaseDeploying, MarkAllowed, MarkedRow, Row, TriggerAllows,
          ProcessInv, DatabaseInv, ReleaseInv, TypeOK
    <2>4. ~UploadStep
      BY <2>1 DEF UploadStep
    <2>. QED
      BY <1>3, <2>1, <2>2, <2>3, <2>4 DEF RunRecord
  <1>5. ASSUME run.step \notin {"none", "mark"}
        PROVE  artifact_hash'[run.release] = run.artifact
    BY <1>5, Pinned, NullAssumption
    DEF RunMayUpload, ProcessInv, WorkflowInv, Complete
  <1>6. CASE UploadStep \/ ReceiptStep \/ NoteStep \/ SmokeStep
    <2>1. /\ run.step \in {"upload", "receipt", "note", "smoke"}
          /\ previews' = previews
      BY <1>6, Zenon DEF UploadStep, ReceiptStep, NoteStep, SmokeStep
    <2>2. run \in RunRecord
      BY DEF ProcessInv, WorkflowInv
    <2>3. /\ run'.step \in {"receipt", "note", "smoke", "record"}
          /\ run'.release = run.release /\ run'.artifact = run.artifact
      BY <1>6, <2>2
      DEF UploadStep, ReceiptStep, NoteStep, SmokeStep, RunRecord
    <2>. QED
      BY <1>3, <1>5, <2>1, <2>3
  <1>7. CASE \/ Database \/ Pages \/ Unanswered \/ CloseIncident
             \/ RereadPointer \/ Restore
             \/ \E r \in ReleaseNos : OperatorFail(r) \/ CheckRollback(r)
             \/ NoteReceipt \/ RecordOrWithdraw \/ UNCHANGED publisherVars
    <2>1. UNCHANGED <<run, previews>>
      BY <1>7, Zenon
      DEF Database, Pages, LandUpload, LoseUpload, Unanswered, LateCall,
          LostCall, CloseIncident, RereadPointer, Restore, RestoreSite,
          OperatorFail, CheckRollback, NoteReceipt, OperatorNote,
          RecordOrWithdraw, OperatorRecord, CheckWithdrawal, publisherVars,
          workflowVars
    <2>2. ~UploadStep \/ run.step # "upload" \/ run' # run
      BY DEF UploadStep, ProcessInv, WorkflowInv, RunRecord
    <2>3. UploadStep => run' # run
      BY DEF UploadStep, ProcessInv, WorkflowInv, RunRecord
    <2>4. CASE run.step = "none"
      BY <2>1, <2>4 DEF RunMayUpload
    <2>. QED
      BY <1>3, <1>5, <2>1, <2>3, <2>4
  <1>. QED
    BY <1>1, <1>2, <1>4, <1>6, <1>7, Zenon DEF PublisherNext, RunStep

LEMMA UploadInit == PublisherInit => UploadInv
  BY DEF PublisherInit, NoRun, UploadInv, SentOnce, RunMayUpload, Sent, Marked

LEMMA UploadedOnce == ProcessInv /\ UploadInv => OneUploadPerRelease
  <1>. SUFFICES ASSUME ProcessInv, UploadInv,
                       NEW d \in DOMAIN uploads, NEW e \in DOMAIN uploads,
                       ~uploads[d].copy, ~uploads[e].copy,
                       uploads[d].release = uploads[e].release
                PROVE  d = e
    BY Zenon DEF OneUploadPerRelease
  <1>1. PICK r \in ReleaseNos, a \in Artifacts, b \in Artifacts :
          /\ uploads[d].release = r /\ uploads[d].artifact = a
          /\ uploads[e].release = r /\ uploads[e].artifact = b
    BY DEF ProcessInv, HostInv, UploadRecord
  <1>2. d \in Marked(r, a) /\ e \in Marked(r, b)
    BY <1>1, Zenon DEF Marked
  <1>3. Sent(r, a) /\ Sent(r, b)
    BY <1>2 DEF Sent
  <1>4. a = b
    BY <1>3 DEF UploadInv, SentOnce
  <1>. QED
    BY <1>2, <1>4 DEF UploadInv, SentOnce

\* However many runs fail, die or are dispatched again, and however late an
\* upload lands, Pages never lists two production uploads of one release: the
\* preview is the token that one run holds, and the mark pins the artifact.
THEOREM OneUploadTheorem == PublisherSpec => []OneUploadPerRelease
  <1>1. PublisherInit => ProcessInv /\ UploadInv
    BY ProcessInit, UploadInit
  <1>2. ProcessInv /\ UploadInv /\ [PublisherNext]_publisherVars
          => ProcessInv' /\ UploadInv'
    BY ProcessStep, SentOnceStep, RunMayUploadStep DEF UploadInv
  <1>3. ProcessInv /\ UploadInv => OneUploadPerRelease
    BY UploadedOnce
  <1>. QED
    BY <1>1, <1>2, <1>3, PTL DEF PublisherSpec

-----------------------------------------------------------------------------
(* The receipts that the database believes are true of the hosting service. *)

Serves(d, r, a) ==
  /\ d \in DOMAIN uploads
  /\ uploads[d].release = r /\ uploads[d].artifact = a

\* What the database knows of Pages: its receipts, and the first receipt of
\* each release, which a release that was live has.
DatabaseTrue ==
  /\ \A j \in DOMAIN receipts :
       Serves(receipts[j].deployment, receipts[j].release,
              receipts[j].artifact)
  /\ \A r \in ReleaseNos :
       deployment_id[r] # NoDeployment \/ deployed_at[r]
         => Serves(deployment_id[r], r, artifact_hash[r])

\* What the actors are about to tell it.
RequestsTrue ==
  /\ run.step \in {"note", "smoke", "record"}
       => Serves(run.deployment, run.release, run.artifact)
  /\ \A c \in calls : c.step \in {"note", "record"}
                         => Serves(c.deployment, c.release, c.artifact)
  /\ incident.phase = "restored"
       => Serves(incident.restored, incident.target,
                 artifact_hash[incident.target])

ReceiptInv == DatabaseTrue /\ RequestsTrue

\* The hosting service forgets no deployment.
Grown == \A d \in DOMAIN uploads :
           d \in DOMAIN uploads' /\ uploads'[d] = uploads[d]

LEMMA UploadsGrow ==
  ASSUME [PublisherNext]_publisherVars
  PROVE  Grown
  <1>1. ASSUME NEW e, NEW q, NEW b, NEW copy, List(e, q, b, copy)
        PROVE  Grown
    BY <1>1 DEF List, Grown
  <1>2. CASE UNCHANGED uploads
    BY <1>2 DEF Grown
  <1>3. ASSUME NEW u \in landing, NEW d \in DeploymentIds, LandUpload(u, d)
        PROVE  Grown
    <2>1. PICK q, b : List(d, q, b, FALSE)
      BY <1>3, Zenon DEF LandUpload
    <2>. QED
      BY <1>1, <2>1, Zenon
  <1>4. ASSUME NEW d \in DeploymentIds, RestoreSite(d)
        PROVE  Grown
    <2>1. CASE UNCHANGED uploads
      BY <1>2, <2>1, Zenon
    <2>2. CASE \E q, b : List(d, q, b, TRUE)
      BY <1>1, <2>2, Zenon
    <2>. QED
      BY <1>4, <2>1, <2>2, Zenon DEF RestoreSite
  <1>5. CASE \/ Database \/ Unanswered \/ CloseIncident \/ RereadPointer
             \/ \E q \in ReleaseNos, b \in Artifacts : StartRun(q, b)
             \/ \E q \in ReleaseNos : OperatorFail(q) \/ CheckRollback(q)
             \/ NoteReceipt \/ RecordOrWithdraw \/ UNCHANGED publisherVars
             \/ RunStep
             \/ \E u \in landing : LoseUpload(u)
    <2>1. UNCHANGED uploads
      BY <1>5, Zenon
      DEF Database, Unanswered, LateCall, LostCall, CloseIncident,
          RereadPointer, StartRun, OperatorFail, CheckRollback, NoteReceipt,
          OperatorNote, RecordOrWithdraw, OperatorRecord, CheckWithdrawal,
          publisherVars, pagesVars, RunStep, MarkStep, UploadStep,
          ReceiptStep, NoteStep, SmokeStep, RecordStep, RunFails, LoseUpload
    <2>. QED
      BY <1>2, <2>1
  <1>. QED
    BY <1>3, <1>4, <1>5, Zenon DEF PublisherNext, Pages, Restore

LEMMA NoteTrue ==
  ASSUME DatabaseInv, DatabaseTrue, Grown,
         NEW r \in ReleaseNos, NEW d \in DeploymentIds, NEW a,
         Serves(d, r, a), NoteReleaseUploaded(r, d, a)
  PROVE  DatabaseTrue'
  <1>1. /\ deployment_id' = [deployment_id EXCEPT ![r] = d]
        /\ UNCHANGED <<artifact_hash, deployed_at, receipts>>
        /\ artifact_hash[r] = a
    BY DEF NoteReleaseUploaded, NoteAllowed
  <1>2. deployment_id \in [ReleaseNos -> DeploymentIds \cup {NoDeployment}]
    BY DEF DatabaseInv, ReleaseInv, TypeOK
  <1>. QED
    BY <1>1, <1>2 DEF DatabaseTrue, Serves, Grown

LEMMA RecordTrue ==
  ASSUME DatabaseInv, DatabaseTrue, Grown,
         NEW r \in ReleaseNos, NEW d \in DeploymentIds, NEW a \in Artifacts,
         Serves(d, r, a), RecordDeployedRelease(r, d, a)
  PROVE  DatabaseTrue'
  <1>1. /\ deployment_id' = [deployment_id EXCEPT ![r] = d]
        /\ deployed_at' = [deployed_at EXCEPT ![r] = TRUE]
        /\ receipts' = Append(receipts,
                        [release |-> r, deployment |-> d, artifact |-> a,
                         action |-> "publish",
                         previous_release |-> active.release,
                         previous_deployment |-> active.deployment])
        /\ artifact_hash' = artifact_hash /\ artifact_hash[r] = a
    BY DEF RecordDeployedRelease, RecordAllowed
  <1>2. /\ deployment_id \in [ReleaseNos -> DeploymentIds \cup {NoDeployment}]
        /\ deployed_at \in [ReleaseNos -> BOOLEAN]
        /\ receipts \in Seq(Receipt)
    BY DEF DatabaseInv, ReleaseInv, TypeOK
  <1>3. ASSUME NEW j \in DOMAIN receipts'
        PROVE  Serves(receipts[j].deployment, receipts[j].release,
                      receipts[j].artifact)'
    <2>1. \/ j \in DOMAIN receipts /\ receipts'[j] = receipts[j]
          \/ /\ receipts'[j].deployment = d /\ receipts'[j].release = r
             /\ receipts'[j].artifact = a
      BY <1>1, <1>2, AppendLast
    <2>. QED
      BY <2>1 DEF DatabaseTrue, Serves, Grown
  <1>4. ASSUME NEW q \in ReleaseNos,
               deployment_id'[q] # NoDeployment \/ deployed_at'[q]
        PROVE  Serves(deployment_id[q], q, artifact_hash[q])'
    BY <1>1, <1>2, <1>4 DEF DatabaseTrue, Serves, Grown
  <1>. QED
    BY <1>3, <1>4 DEF DatabaseTrue, Serves

LEMMA RollbackTrue ==
  ASSUME DatabaseInv, DatabaseTrue, Grown,
         NEW r \in ReleaseNos, NEW e \in ReleaseNos, NEW x \in DeploymentIds,
         NEW d \in DeploymentIds, NEW a \in Artifacts,
         Serves(d, r, a), RecordReleaseRollback(r, e, x, d, a)
  PROVE  DatabaseTrue'
  <1>. DEFINE b == [release |-> r, deployment |-> d, artifact |-> a,
                    action |-> "rollback",
                    previous_release |-> active.release,
                    previous_deployment |-> active.deployment]
  <1>1. /\ receipts' = Append(receipts, b)
        /\ UNCHANGED <<artifact_hash, deployment_id, deployed_at>>
    BY DEF RecordReleaseRollback, RollbackAllowed
  <1>2. receipts \in Seq(Receipt) /\ b \in Receipt
    BY DEF DatabaseInv, ReleaseInv, TypeOK, Receipt, ActiveRow, ReleaseNos,
           RecordReleaseRollback, RollbackAllowed
  <1>3. b.release = r /\ b.deployment = d /\ b.artifact = a
    OBVIOUS
  <1>4. ASSUME NEW j \in DOMAIN receipts'
        PROVE  Serves(receipts[j].deployment, receipts[j].release,
                      receipts[j].artifact)'
    <2>. HIDE DEF b
    <2>1. \/ /\ j \in DOMAIN receipts
             /\ receipts'[j] = receipts[j]
          \/ receipts'[j] = b
      BY <1>1, <1>2, AppendLast
    <2>. QED
      BY <1>3, <2>1 DEF DatabaseTrue, Serves, Grown
  <1>. QED
    BY <1>1, <1>4 DEF DatabaseTrue, Serves, Grown

LEMMA WithdrawTrue ==
  ASSUME DatabaseInv, DatabaseTrue, Grown,
         NEW r \in ReleaseNos, NEW f \in DeploymentIds, NEW e \in ReleaseNos,
         NEW x \in DeploymentIds, NEW d \in DeploymentIds, NEW a \in Artifacts,
         Serves(d, e, a), RecordUnrecordedUploadRollback(r, f, e, x, d, a)
  PROVE  DatabaseTrue'
  <1>. DEFINE w == [release |-> r, deployment |-> f,
                    artifact |-> artifact_hash[r],
                    action |-> "withdraw_uploaded",
                    previous_release |-> e, previous_deployment |-> x]
              b == [release |-> e, deployment |-> d, artifact |-> a,
                    action |-> "rollback",
                    previous_release |-> r, previous_deployment |-> f]
  <1>. USE DEF RecordUnrecordedUploadRollback, WithdrawAllowed
  <1>1. /\ receipts' = receipts \o <<w, b>>
        /\ UNCHANGED <<artifact_hash, deployment_id, deployed_at>>
    BY DEF WithdrawReceipts
  <1>2. /\ receipts \in Seq(Receipt)
        /\ w \in Receipt /\ b \in Receipt
    BY DEF DatabaseInv, ReleaseInv, TypeOK, Receipt, HasArtifact, ReleaseNos
  <1>3. Serves(f, r, artifact_hash[r])
    BY NullAssumption DEF DatabaseTrue
  <1>4. /\ b.release = e /\ b.deployment = d /\ b.artifact = a
        /\ w.release = r /\ w.deployment = f
        /\ w.artifact = artifact_hash[r]
    OBVIOUS
  <1>5. ASSUME NEW j \in DOMAIN receipts'
        PROVE  Serves(receipts[j].deployment, receipts[j].release,
                      receipts[j].artifact)'
    <2>. HIDE DEF w, b
    <2>1. \/ j \in DOMAIN receipts /\ receipts'[j] = receipts[j]
          \/ receipts'[j] = w \/ receipts'[j] = b
      BY <1>1, <1>2, ConcatProperties, LenProperties
    <2>. QED
      BY <1>3, <1>4, <2>1 DEF DatabaseTrue, Serves, Grown
  <1>. QED
    BY <1>1, <1>5 DEF DatabaseTrue, Serves, Grown

\* The artifact of an upload is the one that the release was marked with, so
\* marking it again changes nothing.
LEMMA MarkTrue ==
  ASSUME DatabaseInv, HostInv, DatabaseTrue, Grown,
         NEW r \in ReleaseNos, NEW a \in Artifacts, MarkReleaseDeploying(r, a)
  PROVE  DatabaseTrue'
  <1>1. /\ artifact_hash' = [artifact_hash EXCEPT ![r] = a]
        /\ artifact_hash[r] \in {NoArtifact, a}
        /\ UNCHANGED <<receipts, deployment_id, deployed_at>>
    BY DEF MarkReleaseDeploying, MarkAllowed, MarkedRow, Row, TriggerAllows
  <1>2. artifact_hash \in [ReleaseNos -> Artifacts \cup {NoArtifact}]
    BY DEF DatabaseInv, ReleaseInv, TypeOK
  <1>3. ASSUME NEW q \in ReleaseNos,
               deployment_id[q] # NoDeployment \/ deployed_at[q]
        PROVE  Serves(deployment_id[q], q, artifact_hash[q])'
    <2>1. Serves(deployment_id[q], q, artifact_hash[q])
      BY <1>3 DEF DatabaseTrue
    <2>2. artifact_hash[q] # NoArtifact
      BY <2>1, NullAssumption DEF Serves, HostInv, UploadRecord
    <2>3. artifact_hash'[q] = artifact_hash[q]
      BY <1>1, <1>2, <2>2
    <2>. QED
      BY <1>1, <2>1, <2>3 DEF Serves, Grown
  <1>. QED
    BY <1>1, <1>3 DEF DatabaseTrue, Serves, Grown

LEMMA UntouchedTrue ==
  ASSUME DatabaseTrue, Grown,
         UNCHANGED <<receipts, artifact_hash, deployment_id, deployed_at>>
  PROVE  DatabaseTrue'
  BY DEF DatabaseTrue, Serves, Grown

LEMMA DatabaseTrueStep ==
  ASSUME ProcessInv, ReceiptInv, [PublisherNext]_publisherVars
  PROVE  DatabaseTrue'
  <1>1. Grown /\ DatabaseInv /\ HostInv /\ DatabaseTrue
    BY UploadsGrow DEF ProcessInv, ReceiptInv
  <1>. USE DEF ProcessInv, ReceiptInv
  <1>2. CASE \/ Database \/ Pages \/ RereadPointer \/ Restore
             \/ \E q \in ReleaseNos, b \in Artifacts : StartRun(q, b)
             \/ \E q \in ReleaseNos : \/ OperatorFail(q) \/ CheckRollback(q)
                                     \/ CheckWithdrawal(q)
             \/ \E c \in calls : LostCall(c)
             \/ UploadStep \/ ReceiptStep \/ SmokeStep \/ RunFails
             \/ UNCHANGED publisherVars
    <2>1. UNCHANGED <<receipts, artifact_hash, deployment_id, deployed_at>>
      BY <1>2, Zenon
      DEF Database, RequestPublish, RequestUnpublish, AddChange,
          PreparePublicRelease, Pages, LandUpload, LoseUpload, RereadPointer,
          Restore, RestoreSite, StartRun, OperatorFail, RecordReleaseFailure,
          FailureAllowed, CheckRollback, CheckWithdrawal, LostCall, UploadStep,
          ReceiptStep, SmokeStep, RunFails, publisherVars, releaseVars
    <2>. QED
      BY <1>1, <2>1, UntouchedTrue
  <1>3. CASE MarkStep
    <2>1. /\ run.release \in ReleaseNos /\ run.artifact \in Artifacts
          /\ MarkReleaseDeploying(run.release, run.artifact)
      BY <1>3 DEF MarkStep, WorkflowInv, Complete
    <2>. QED
      BY <1>1, <2>1, MarkTrue
  <1>4. ASSUME NEW r \in ReleaseNos, NEW d \in DeploymentIds,
               NEW a \in Artifacts, Serves(d, r, a),
               \/ Note(r, d, a) \/ Record(r, d, a)
        PROVE  DatabaseTrue'
    <2>1. CASE UNCHANGED releaseVars
      BY <1>1, <2>1, UntouchedTrue DEF releaseVars
    <2>. QED
      BY <1>1, <1>4, <2>1, NoteTrue, RecordTrue, Zenon DEF Note, Record
  <1>5. CASE NoteStep \/ RecordStep
    <2>1. run.step \in {"note", "record"}
      BY <1>5, Zenon DEF NoteStep, RecordStep
    <2>2. /\ run.release \in ReleaseNos /\ run.artifact \in Artifacts
          /\ run.deployment \in DeploymentIds
      BY <2>1 DEF WorkflowInv, Complete
    <2>3. Serves(run.deployment, run.release, run.artifact)
      BY <2>1 DEF RequestsTrue
    <2>. QED
      BY <1>4, <1>5, <2>2, <2>3, Zenon DEF NoteStep, RecordStep
  <1>6. ASSUME NEW c \in calls, LateCall(c)
        PROVE  DatabaseTrue'
    <2>1. c.release \in ReleaseNos /\ c.artifact \in Artifacts
      BY DEF WorkflowInv, Complete
    <2>2. CASE c.step = "mark" /\ MarkReleaseDeploying(c.release, c.artifact)
      BY <1>1, <2>1, <2>2, MarkTrue
    <2>3. CASE /\ c.step \in {"note", "record"}
               /\ \/ NoteReleaseUploaded(c.release, c.deployment, c.artifact)
                  \/ RecordDeployedRelease(c.release, c.deployment,
                                           c.artifact)
      <3>1. c.deployment \in DeploymentIds
        BY <2>3 DEF WorkflowInv, Complete
      <3>2. Serves(c.deployment, c.release, c.artifact)
        BY <2>3 DEF RequestsTrue
      <3>. QED
        BY <1>4, <2>1, <2>3, <3>1, <3>2, Zenon DEF Note, Record
    <2>4. \/ c.step = "mark" /\ MarkReleaseDeploying(c.release, c.artifact)
          \/ c.step = "note" /\ NoteReleaseUploaded(c.release, c.deployment,
                                                    c.artifact)
          \/ c.step = "record" /\ RecordDeployedRelease(c.release,
                                        c.deployment, c.artifact)
      BY <1>6, Zenon DEF LateCall
    <2>. QED
      BY <2>2, <2>3, <2>4
  <1>7. ASSUME NEW d \in DOMAIN uploads, OperatorNote(d) \/ OperatorRecord(d)
        PROVE  DatabaseTrue'
    <2>1. PICK r \in ReleaseNos, a \in Artifacts :
            r = uploads[d].release /\ a = uploads[d].artifact
      BY DEF HostInv, UploadRecord
    <2>2. d \in DeploymentIds /\ Serves(d, r, a)
      BY <2>1 DEF HostInv, Serves
    <2>3. NoteReleaseUploaded(r, d, a) \/ RecordDeployedRelease(r, d, a)
      BY <1>7, <2>1, Zenon DEF OperatorNote, OperatorRecord
    <2>. QED
      BY <1>4, <2>2, <2>3, Zenon DEF Note, Record
  <1>8. CASE CloseIncident
    <2>1. /\ incident.target \in ReleaseNos
          /\ artifact_hash[incident.target] \in Artifacts
          /\ incident.expected_release \in ReleaseNos
          /\ incident.expected_deployment \in DeploymentIds
          /\ incident.restored \in DeploymentIds
          /\ incident.failed \in 0..MaxReleases
          /\ Serves(incident.restored, incident.target,
                    artifact_hash[incident.target])
      BY <1>8, ArtifactOfLive
      DEF CloseIncident, IncidentInv, IncidentRecord, RequestsTrue
    <2>2. CASE incident.failed = 0
      <3>1. RecordReleaseRollback(incident.target, incident.expected_release,
              incident.expected_deployment, incident.restored,
              artifact_hash[incident.target])
        BY <1>8, <2>2, Zenon DEF CloseIncident
      <3>. QED
        BY <1>1, <2>1, <3>1, RollbackTrue
    <2>3. CASE incident.failed # 0
      <3>1. incident.failed \in ReleaseNos
        BY <2>1, <2>3, BoundAssumption DEF ReleaseNos
      <3>2. RecordUnrecordedUploadRollback(incident.failed,
              deployment_id[incident.failed], incident.target,
              incident.expected_deployment, incident.restored,
              artifact_hash[incident.target])
        BY <1>8, <2>3, Zenon DEF CloseIncident
      <3>3. deployment_id[incident.failed] \in DeploymentIds
        BY <3>1, <3>2 DEF RecordUnrecordedUploadRollback, WithdrawAllowed,
                         DatabaseInv, Receipted
      <3>. QED
        BY <1>1, <2>1, <3>1, <3>2, <3>3, WithdrawTrue
    <2>. QED
      BY <2>2, <2>3
  <1>. QED
    BY <1>2, <1>3, <1>5, <1>6, <1>7, <1>8, Zenon
    DEF PublisherNext, RunStep, Unanswered, NoteReceipt, RecordOrWithdraw

LEMMA RequestsTrueStep ==
  ASSUME ProcessInv, ReceiptInv, [PublisherNext]_publisherVars
  PROVE  RequestsTrue'
  <1>. USE DEF ProcessInv, ReceiptInv
  <1>1. Grown
    BY UploadsGrow
  <1>2. ASSUME run' = run
               \/ run'.step \notin {"note", "smoke", "record"}
               \/ /\ run.step \in {"note", "smoke", "record"}
                  /\ run'.deployment = run.deployment
                  /\ run'.release = run.release
                  /\ run'.artifact = run.artifact
               \/ Serves(run.deployment, run.release, run.artifact)'
        PROVE  run'.step \in {"note", "smoke", "record"}
                 => Serves(run.deployment, run.release, run.artifact)'
    BY <1>1, <1>2 DEF RequestsTrue, Serves, Grown
  <1>3. run'.step \in {"note", "smoke", "record"}
          => Serves(run.deployment, run.release, run.artifact)'
    <2>1. CASE ReceiptStep
      <3>1. PICK d \in Marked(run.release, run.artifact) :
              run' = [run EXCEPT !.step = "note", !.deployment = d]
        BY <2>1 DEF ReceiptStep
      <3>2. Serves(d, run.release, run.artifact)
        BY DEF Marked, Serves
      <3>. QED
        BY <1>1, <3>1, <3>2 DEF Serves, Grown, WorkflowInv, RunRecord
    <2>2. CASE \E r \in ReleaseNos, a \in Artifacts : StartRun(r, a)
      BY <2>2 DEF StartRun
    <2>3. CASE MarkStep \/ UploadStep \/ RecordStep \/ RunFails
      <3>1. run'.step \in {"none", "upload", "receipt"}
        BY <2>3
        DEF MarkStep, UploadStep, RecordStep, RunFails, NoRun, WorkflowInv,
            RunRecord
      <3>. QED
        BY <3>1
    <2>4. CASE NoteStep \/ SmokeStep
      <3>1. /\ run.step \in {"note", "smoke"}
            /\ \E t \in {"smoke", "record"} : run' = [run EXCEPT !.step = t]
        BY <2>4 DEF NoteStep, SmokeStep
      <3>. QED
        BY <1>2, <3>1 DEF WorkflowInv, RunRecord
    <2>5. CASE \/ Database \/ Pages \/ Unanswered \/ CloseIncident
               \/ RereadPointer \/ Restore
               \/ \E r \in ReleaseNos : OperatorFail(r) \/ CheckRollback(r)
               \/ NoteReceipt \/ RecordOrWithdraw \/ UNCHANGED publisherVars
      <3>1. run' = run
        BY <2>5, Zenon
        DEF Database, Pages, LandUpload, LoseUpload, Unanswered, LateCall,
            LostCall, CloseIncident, RereadPointer, Restore, RestoreSite,
            OperatorFail, CheckRollback, NoteReceipt, OperatorNote,
            RecordOrWithdraw, OperatorRecord, CheckWithdrawal, publisherVars,
            workflowVars
      <3>. QED
        BY <1>2, <3>1
    <2>. QED
      BY <2>1, <2>2, <2>3, <2>4, <2>5, Zenon DEF PublisherNext, RunStep
  <1>4. \A c \in calls' : c.step \in {"note", "record"}
                          => Serves(c.deployment, c.release, c.artifact)'
    <2>1. \/ calls' \subseteq calls
          \/ /\ run.step # "none"
             /\ calls' = calls \cup {run}
      <3>1. CASE RunFails
        BY <3>1 DEF RunFails
      <3>2. CASE \E c \in calls : LateCall(c) \/ LostCall(c)
        BY <3>2 DEF LateCall, LostCall
      <3>3. CASE \/ Database \/ Pages \/ CloseIncident \/ RereadPointer
                 \/ Restore
                 \/ \E r \in ReleaseNos, a \in Artifacts : StartRun(r, a)
                 \/ \E r \in ReleaseNos : OperatorFail(r) \/ CheckRollback(r)
                 \/ MarkStep \/ UploadStep \/ ReceiptStep \/ NoteStep
                 \/ SmokeStep \/ RecordStep
                 \/ NoteReceipt \/ RecordOrWithdraw \/ UNCHANGED publisherVars
        <4>1. calls' = calls
          BY <3>3, Zenon
          DEF Database, Pages, LandUpload, LoseUpload, CloseIncident,
              RereadPointer, Restore, RestoreSite, StartRun, OperatorFail,
              CheckRollback, MarkStep, UploadStep, ReceiptStep, NoteStep,
              SmokeStep, RecordStep, NoteReceipt, OperatorNote,
              RecordOrWithdraw, OperatorRecord, CheckWithdrawal,
              publisherVars, workflowVars
        <4>. QED
          BY <4>1
      <3>. QED
        BY <3>1, <3>2, <3>3, Zenon DEF PublisherNext, RunStep, Unanswered
    <2>. QED
      BY <1>1, <2>1 DEF RequestsTrue, Serves, Grown
  <1>5. incident'.phase = "restored"
          => Serves(incident.restored, incident.target,
                    artifact_hash[incident.target])'
    <2>1. ASSUME incident.phase # "none"
          PROVE  artifact_hash'[incident.target]
                   = artifact_hash[incident.target]
      <3>1. /\ incident.target \in ReleaseNos
            /\ artifact_hash[incident.target] \in Artifacts
        BY <2>1, ArtifactOfLive DEF IncidentInv
      <3>. QED
        BY <3>1, Pinned, NullAssumption
    <2>2. ASSUME incident.phase = "restored", incident' = incident
          PROVE  Serves(incident.restored, incident.target,
                        artifact_hash[incident.target])'
      BY <1>1, <2>1, <2>2 DEF RequestsTrue, Serves, Grown
    <2>3. CASE \E r \in ReleaseNos : CheckRollback(r) \/ CheckWithdrawal(r)
      BY <2>3 DEF CheckRollback, CheckWithdrawal, Incident
    <2>4. CASE CloseIncident
      BY <2>4 DEF CloseIncident, NoIncident
    <2>5. CASE RereadPointer
      <3>1. /\ incident.phase = "restored"
            /\ incident' = [incident EXCEPT
                              !.failed = 0,
                              !.expected_release = active.release,
                              !.expected_deployment = active.deployment]
        BY <2>5, Zenon DEF RereadPointer
      <3>2. /\ incident'.restored = incident.restored
            /\ incident'.target = incident.target
        BY <3>1 DEF IncidentInv, IncidentRecord
      <3>3. Serves(incident.restored, incident.target,
                   artifact_hash[incident.target])
        BY <3>1 DEF RequestsTrue
      <3>. QED
        BY <1>1, <2>1, <3>1, <3>2, <3>3 DEF Serves, Grown
    <2>6. ASSUME NEW d \in DeploymentIds, RestoreSite(d)
          PROVE  Serves(incident.restored, incident.target,
                        artifact_hash[incident.target])'
      <3>1. /\ incident.phase = "checked"
            /\ incident'.restored = d /\ incident'.target = incident.target
        BY <2>6 DEF RestoreSite, IncidentInv, IncidentRecord
      <3>2. CASE d = deployment_id[incident.target]
        <4>1. Serves(d, incident.target, artifact_hash[incident.target])
          BY <3>1, <3>2 DEF IncidentInv, DatabaseTrue
        <4>. QED
          BY <1>1, <2>1, <3>1, <4>1 DEF Serves, Grown
      <3>3. CASE List(d, incident.target, artifact_hash[incident.target],
                      TRUE)
        <4>1. /\ d \in DOMAIN uploads'
              /\ uploads'[d] = [release |-> incident.target,
                                artifact |-> artifact_hash[incident.target],
                                copy |-> TRUE]
          BY <3>3 DEF List
        <4>2. /\ uploads'[d].release = incident.target
              /\ uploads'[d].artifact = artifact_hash[incident.target]
          BY <4>1
        <4>. QED
          BY <2>1, <3>1, <4>1, <4>2 DEF Serves
      <3>. QED
        BY <2>6, <3>2, <3>3, Zenon DEF RestoreSite
    <2>7. CASE \/ Database \/ Pages \/ RunStep \/ Unanswered \/ NoteReceipt
               \/ \E r \in ReleaseNos, a \in Artifacts : StartRun(r, a)
               \/ \E r \in ReleaseNos : OperatorFail(r)
               \/ \E d \in DOMAIN uploads : OperatorRecord(d)
               \/ UNCHANGED publisherVars
      <3>1. incident' = incident
        BY <2>7, Zenon
        DEF Database, Pages, LandUpload, LoseUpload, RunStep, MarkStep,
            UploadStep, ReceiptStep, NoteStep, SmokeStep, RecordStep,
            RunFails, Unanswered, LateCall, LostCall, NoteReceipt,
            OperatorNote, StartRun, OperatorFail, OperatorRecord,
            publisherVars
      <3>. QED
        BY <2>2, <3>1
    <2>. QED
      BY <2>3, <2>4, <2>5, <2>6, <2>7, Zenon
      DEF PublisherNext, Restore, RecordOrWithdraw
  <1>. QED
    BY <1>3, <1>4, <1>5 DEF RequestsTrue, Serves

LEMMA ReceiptInit == PublisherInit => ReceiptInv
  BY DEF PublisherInit, Init, NoRun, NoIncident, ReceiptInv, DatabaseTrue,
         RequestsTrue, Serves

\* The database cannot look at Pages, and yet every receipt it ever appends
\* names a deployment that serves that release in that artifact, however late
\* a request commits and whatever the operator restores meanwhile.
THEOREM ReceiptsTheorem == PublisherSpec => []ReceiptsAreUploads
  <1>1. PublisherInit => ProcessInv /\ ReceiptInv
    BY ProcessInit, ReceiptInit
  <1>2. ProcessInv /\ ReceiptInv /\ [PublisherNext]_publisherVars
          => ProcessInv' /\ ReceiptInv'
    BY ProcessStep, DatabaseTrueStep, RequestsTrueStep DEF ReceiptInv
  <1>3. ReceiptInv => ReceiptsAreUploads
    BY DEF ReceiptInv, DatabaseTrue, Serves, ReceiptsAreUploads
  <1>. QED
    BY <1>1, <1>2, <1>3, PTL DEF PublisherSpec
=============================================================================
