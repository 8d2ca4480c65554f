---------------------------- MODULE ServedProofs ----------------------------
(***************************************************************************)
(* What the public sees is explained by the database: under the operator's *)
(* stop rule the site serves the active release, an unfinished upload, or  *)
(* a restoration that has yet to be recorded.  And the types of Publisher. *)
(***************************************************************************)
EXTENDS PublisherProofs

-----------------------------------------------------------------------------
(* The invariant.                                                          *)

Unfinished(r) == state[r] \in {"deploying", "deployed_unrecorded"}

Listed(r) == \E d \in DOMAIN uploads : uploads[d].release = r

SentStates == {"deploying", "deployed_unrecorded", "deployed", "superseded",
               "upload_rolled_back"}

\* A release whose production upload started never fails again.
StartedInv ==
  /\ started \subseteq ReleaseNos
  /\ \A r \in started : state[r] \in SentStates
  /\ \A u \in landing : u.release \in started
  /\ \A d \in DOMAIN uploads : uploads[d].release \in started

\* Only what was live is restored under a new id.
CopyInv == \A d \in DOMAIN uploads :
             uploads[d].copy => deployed_at[uploads[d].release]

\* Between its mark and the listing of its upload a release stays deploying.
DeployingInv ==
  /\ run.step = "upload" => state[run.release] = "deploying"
  /\ \A u \in landing : state[u.release] = "deploying"

PointerInv ==
  active.release # 0
    => Serves(active.deployment, active.release, active.artifact)

\* During an incident only requests that are on their way disturb the operator.
AloneInv ==
  /\ incident.phase # "none" => run = NoRun /\ landing = {}
  /\ incident.phase = "restored" => canonical = incident.restored
  /\ incident.phase # "none" /\ incident.failed # 0 =>
       /\ incident.failed \in started
       /\ Unfinished(incident.failed) =>
            /\ active.release = incident.expected_release
            /\ active.deployment = incident.expected_deployment

\* An unfinished release with an upload is what the site serves, or what the
\* operator is withdrawing.
ServedInv ==
  \A r \in ReleaseNos : Unfinished(r) /\ Listed(r) =>
    /\ incident.phase # "restored" => Served = r
    /\ incident.phase # "none" => incident.failed = r

CanonicalInv == canonical \in DOMAIN uploads \cup {NoDeployment}

LiveInv == /\ StartedInv /\ CopyInv /\ DeployingInv /\ PointerInv
           /\ AloneInv /\ ServedInv /\ CanonicalInv /\ LiveIsExplained

\* What the earlier theorems give.
Known == ProcessInv /\ UploadInv /\ ReceiptInv

LEMMA KnownStep == Known /\ [PublisherNext]_publisherVars => Known'
  BY ProcessStep, SentOnceStep, RunMayUploadStep, DatabaseTrueStep,
     RequestsTrueStep
  DEF Known, UploadInv, ReceiptInv

LEMMA LiveInit == PublisherInit => Known /\ LiveInv
  <1>1. PublisherInit => Known
    BY ProcessInit, UploadInit, ReceiptInit DEF Known
  <1>2. PublisherInit => LiveInv
    BY DEF PublisherInit, Init, NoActive, NoRun, NoIncident, LiveInv, StartedInv,
           CopyInv, DeployingInv, PointerInv, AloneInv, ServedInv, CanonicalInv,
           LiveIsExplained, Listed, Served
  <1>. QED
    BY <1>1, <1>2

-----------------------------------------------------------------------------
(* Facts about one state.                                                  *)

\* Two releases are never unfinished at once.
LEMMA OneUnfinished ==
  ASSUME Known, NEW r \in ReleaseNos, NEW q \in ReleaseNos, Unfinished(r),
         Unfinished(q)
  PROVE  r = q
  BY DEF Known, ProcessInv, DatabaseInv, ReleaseInv, PendingIsNewest,
         PendingStates, Unfinished

\* What is noted or recorded is no longer to be uploaded or to land.
LEMMA NotOnItsWay ==
  ASSUME Known, LiveInv, NEW r \in ReleaseNos, NEW d, Unfinished(r),
         Serves(d, r, artifact_hash[r])
  PROVE  /\ ~(run.step = "upload" /\ run.release = r)
         /\ \A u \in landing : u.release # r
  <1>1. artifact_hash[r] \in Artifacts /\ ~deployed_at[r]
    BY DEF Known, ProcessInv, DatabaseInv, ReleaseInv, HasArtifact, EverLive,
           Unfinished
  <1>2. d \in Marked(r, artifact_hash[r])
    BY <1>1 DEF Serves, Marked, LiveInv, CopyInv, Known, ProcessInv, HostInv,
                UploadRecord
  <1>3. ~(run.step = "upload" /\ run.release = r)
    BY <1>2 DEF Known, UploadInv, RunMayUpload, Sent
  <1>4. ASSUME NEW u \in landing, u.release = r
        PROVE  FALSE
    <2>1. u = Order(r, u.artifact) /\ u.artifact \in Artifacts
      BY <1>4 DEF Known, ProcessInv, HostInv, Upload, Order
    <2>2. Order(r, u.artifact) \in landing /\ Sent(r, u.artifact)
      BY <2>1 DEF Sent
    <2>3. artifact_hash[r] = u.artifact /\ Marked(r, u.artifact) = {}
      BY <2>1, <2>2, Zenon DEF Known, UploadInv, SentOnce
    <2>. QED
      BY <1>2, <2>3
  <1>. QED
    BY <1>3, <1>4

\* What the site serves was started.
LEMMA ServedStarted ==
  ASSUME Known, LiveInv
  PROVE  Served = 0 \/ (Served \in started /\ Served \in ReleaseNos)
  BY DEF LiveInv, StartedInv, CanonicalInv, Served

LEMMA ServedBy ==
  ASSUME Known, NEW r, NEW a, Serves(canonical, r, a)
  PROVE  Served = r
  BY NullAssumption DEF Serves, Served, Known, ProcessInv, HostInv

LEMMA ReleaseIsPositive == \A r \in ReleaseNos : r # 0
  BY BoundAssumption DEF ReleaseNos

-----------------------------------------------------------------------------
(* Steps that leave the database alone.                                    *)

\* A pointer stays true when Pages grows, and so do the other facts of old
\* deployments.
LEMMA PointerKept ==
  ASSUME PointerInv, Grown, UNCHANGED active
  PROVE  PointerInv'
  BY DEF PointerInv, Serves, Grown

LEMMA LandKeeps ==
  ASSUME Known, LiveInv, [PublisherNext]_publisherVars,
         NEW u \in landing, NEW d \in DeploymentIds, LandUpload(u, d)
  PROVE  LiveInv'
  <1>1. /\ UNCHANGED <<state, active, deployed_at, run, started, incident>>
        /\ landing' = landing \ {u} /\ canonical' = d
        /\ List(d, u.release, u.artifact, FALSE)
    BY DEF LandUpload, releaseVars, workflowVars
  <1>2. /\ DOMAIN uploads' = DOMAIN uploads \cup {d}
        /\ uploads'[d].release = u.release /\ ~uploads'[d].copy
        /\ \A x \in DOMAIN uploads : x # d /\ uploads'[x] = uploads[x]
    BY <1>1 DEF List
  <1>3. /\ u.release \in ReleaseNos /\ state[u.release] = "deploying"
        /\ u.release \in started /\ incident.phase = "none"
    BY DEF LiveInv, DeployingInv, StartedInv, AloneInv
  <1>4. Served' = u.release
    BY <1>1, <1>2, NullAssumption DEF Served
  <1>5. StartedInv' /\ CopyInv' /\ DeployingInv' /\ CanonicalInv'
    BY <1>1, <1>2, <1>3
    DEF LiveInv, StartedInv, CopyInv, DeployingInv, CanonicalInv
  <1>6. PointerInv' /\ AloneInv'
    BY <1>1, <1>3, UploadsGrow, PointerKept DEF LiveInv, AloneInv
  <1>7. ServedInv'
    <2>. SUFFICES ASSUME NEW r \in ReleaseNos, Unfinished(r)
                  PROVE  r = u.release
      BY <1>1, <1>3, <1>4 DEF ServedInv, Unfinished
    <2>. QED
      BY <1>3, OneUnfinished DEF Unfinished
  <1>8. LiveIsExplained'
    BY <1>1, <1>3, <1>4, ReleaseIsPositive DEF LiveIsExplained
  <1>. QED
    BY <1>5, <1>6, <1>7, <1>8 DEF LiveInv

LEMMA UploadKeeps ==
  ASSUME Known, LiveInv, UploadStep
  PROVE  LiveInv'
  <1>1. /\ UNCHANGED <<state, active, deployed_at, uploads, canonical, incident>>
        /\ landing' = landing \cup {Order(run.release, run.artifact)}
        /\ started' = started \cup {run.release}
        /\ run' = [run EXCEPT !.step = "receipt"] /\ run.step = "upload"
    BY DEF UploadStep, releaseVars, Order
  <1>2. /\ run.release \in ReleaseNos /\ state[run.release] = "deploying"
        /\ run # NoRun /\ run'.step = "receipt" /\ incident.phase = "none"
    BY <1>1
    DEF Known, ProcessInv, WorkflowInv, Complete, RunRecord, LiveInv,
        DeployingInv, AloneInv, NoRun
  <1>3. Order(run.release, run.artifact).release = run.release
    BY DEF Order
  <1>4. StartedInv' /\ CopyInv' /\ DeployingInv' /\ CanonicalInv'
    BY <1>1, <1>2, <1>3
    DEF LiveInv, StartedInv, CopyInv, DeployingInv, CanonicalInv, SentStates
  <1>5. PointerInv' /\ AloneInv'
    BY <1>1, <1>2 DEF LiveInv, PointerInv, Serves, AloneInv
  <1>6. ServedInv' /\ LiveIsExplained'
    BY <1>1
    DEF LiveInv, ServedInv, LiveIsExplained, Unfinished, Listed, Served
  <1>. QED
    BY <1>4, <1>5, <1>6 DEF LiveInv

\* The incident begins: nothing is on its way to the site.
LEMMA CheckKeeps ==
  ASSUME StopRule, Known, LiveInv, NEW t \in ReleaseNos,
         CheckRollback(t) \/ CheckWithdrawal(t)
  PROVE  LiveInv'
  <1>1. /\ UNCHANGED <<state, active, deployed_at, uploads, canonical, landing,
                       run, started>>
        /\ run = NoRun /\ landing = {} /\ incident = NoIncident
    BY DEF CheckRollback, CheckWithdrawal, DeploysStopped, releaseVars,
           pagesVars, workflowVars
  <1>2. incident.phase = "none"
    BY <1>1 DEF NoIncident
  <1>3. /\ incident'.phase = "checked"
        /\ incident'.expected_release = active.release
        /\ incident'.expected_deployment = active.deployment
    BY DEF CheckRollback, CheckWithdrawal, Incident
  <1>4. StartedInv' /\ CopyInv' /\ DeployingInv' /\ CanonicalInv' /\ PointerInv'
    BY <1>1
    DEF LiveInv, StartedInv, CopyInv, DeployingInv, CanonicalInv, PointerInv,
        Serves
  <1>5. CASE CheckRollback(t)
    <2>1. incident'.failed = 0 /\ active.release > t
          /\ state[active.release] = "deployed" /\ canonical = active.deployment
      BY <1>5 DEF CheckRollback, PriorDeployment, Incident
    <2>2. active.release # 0 /\ active.release \in ReleaseNos
      BY <2>1, BoundAssumption, ActiveNamed DEF ReleaseNos, Known, ProcessInv
    <2>3. Served = active.release
      BY <2>1, <2>2, ServedBy DEF LiveInv, PointerInv
    <2>4. \A r \in ReleaseNos : Unfinished(r) => ~Listed(r)
      BY <1>2, <2>1, <2>3 DEF LiveInv, ServedInv, Unfinished
    <2>5. ServedInv'
      BY <1>1, <2>4 DEF ServedInv, Unfinished, Listed
    <2>6. AloneInv'
      BY <1>1, <1>3, <2>1 DEF AloneInv
    <2>7. LiveIsExplained'
      BY <1>1, <2>3 DEF LiveIsExplained, Served
    <2>. QED
      BY <1>4, <2>5, <2>6, <2>7 DEF LiveInv
  <1>6. CASE CheckWithdrawal(t)
    <2>1. /\ incident'.failed = t /\ state[t] = "deployed_unrecorded"
          /\ canonical = deployment_id[t]
      BY <1>6 DEF CheckWithdrawal, Incident
    <2>2. Serves(deployment_id[t], t, artifact_hash[t])
      BY <2>1, NullAssumption
      DEF Known, ProcessInv, DatabaseInv, Receipted, ReceiptInv, DatabaseTrue
    <2>3. Served = t /\ Unfinished(t)
      BY <2>1, <2>2, ServedBy DEF Unfinished
    <2>4. t \in started
      BY <2>2 DEF Serves, LiveInv, StartedInv
    <2>5. ServedInv'
      <3>1. \A r \in ReleaseNos : Unfinished(r) => r = t
        BY <2>3, OneUnfinished
      <3>. QED
        BY <1>1, <1>3, <2>1, <2>3, <3>1 DEF ServedInv, Unfinished, Served
    <2>6. AloneInv'
      BY <1>1, <1>3, <2>1, <2>4 DEF AloneInv, Unfinished
    <2>7. LiveIsExplained'
      BY <1>1, <2>1, <2>3, ReleaseIsPositive DEF LiveIsExplained, Served
    <2>. QED
      BY <1>4, <2>5, <2>6, <2>7 DEF LiveInv
  <1>. QED
    BY <1>5, <1>6

LEMMA RestoreKeeps ==
  ASSUME Known, LiveInv, [PublisherNext]_publisherVars,
         NEW d \in DeploymentIds, RestoreSite(d)
  PROVE  LiveInv'
  <1>. DEFINE t == incident.target
  <1>1. /\ UNCHANGED <<state, active, deployed_at, landing, run, started>>
        /\ canonical' = d /\ incident.phase = "checked"
        /\ incident' = [incident EXCEPT !.phase = "restored", !.restored = d]
        /\ \/ d = deployment_id[t] /\ UNCHANGED uploads
           \/ List(d, t, artifact_hash[t], TRUE)
    BY DEF RestoreSite, releaseVars, workflowVars
  <1>2. /\ incident'.phase = "restored" /\ incident'.restored = d
        /\ incident'.target = t /\ incident'.failed = incident.failed
        /\ incident'.expected_release = incident.expected_release
        /\ incident'.expected_deployment = incident.expected_deployment
    BY <1>1 DEF Known, ProcessInv, IncidentInv, IncidentRecord
  <1>3. t \in ReleaseNos /\ deployed_at[t] /\ ~Unfinished(t)
    BY <1>1
    DEF Known, ProcessInv, IncidentInv, DatabaseInv, ReleaseInv, EverLive,
        Unfinished
  <1>4. Serves(deployment_id[t], t, artifact_hash[t]) /\ t \in started
    BY <1>3 DEF Known, ReceiptInv, DatabaseTrue, LiveInv, StartedInv, Serves
  <1>5. /\ d \in DOMAIN uploads' /\ uploads'[d].release = t
        /\ \A x \in DOMAIN uploads' :
             \/ x \in DOMAIN uploads /\ uploads'[x] = uploads[x]
             \/ uploads'[x].release = t
    <2>1. CASE d = deployment_id[t] /\ UNCHANGED uploads
      BY <1>4, <2>1 DEF Serves
    <2>2. CASE List(d, t, artifact_hash[t], TRUE)
      BY <2>2 DEF List
    <2>. QED
      BY <1>1, <2>1, <2>2
  <1>. HIDE DEF t
  <1>6. Served' = t
    BY <1>1, <1>5, NullAssumption DEF Served
  <1>7. StartedInv' /\ CopyInv' /\ DeployingInv' /\ CanonicalInv'
    BY <1>1, <1>3, <1>4, <1>5
    DEF LiveInv, StartedInv, CopyInv, DeployingInv, CanonicalInv
  <1>8. PointerInv'
    BY <1>1, UploadsGrow, PointerKept DEF LiveInv
  <1>9. AloneInv'
    BY <1>1, <1>2 DEF LiveInv, AloneInv, Unfinished
  <1>10. ServedInv'
    <2>. SUFFICES ASSUME NEW r \in ReleaseNos, Unfinished(r), Listed(r)'
                  PROVE  incident.failed = r
      BY <1>1, <1>2 DEF ServedInv, Unfinished
    <2>1. r # t
      BY <1>3
    <2>2. Listed(r)
      BY <1>5, <2>1 DEF Listed
    <2>. QED
      BY <1>1, <2>2 DEF LiveInv, ServedInv
  <1>11. LiveIsExplained'
    BY <1>2, <1>6 DEF LiveIsExplained
  <1>. QED
    BY <1>7, <1>8, <1>9, <1>10, <1>11 DEF LiveInv

LEMMA RereadKeeps ==
  ASSUME Known, LiveInv, RereadPointer
  PROVE  LiveInv'
  <1>1. /\ UNCHANGED <<state, active, deployed_at, uploads, canonical, landing,
                       run, started>>
        /\ incident.phase = "restored"
        /\ \/ active.release # incident.expected_release
           \/ active.deployment # incident.expected_deployment
        /\ incident' = [incident EXCEPT !.failed = 0,
                                        !.expected_release = active.release,
                                        !.expected_deployment = active.deployment]
    BY DEF RereadPointer, releaseVars, pagesVars, workflowVars
  <1>2. /\ incident'.phase = "restored" /\ incident'.failed = 0
        /\ incident'.restored = incident.restored
        /\ incident'.target = incident.target
    BY <1>1 DEF Known, ProcessInv, IncidentInv, IncidentRecord
  <1>3. StartedInv' /\ CopyInv' /\ DeployingInv' /\ CanonicalInv' /\ PointerInv'
    BY <1>1
    DEF LiveInv, StartedInv, CopyInv, DeployingInv, CanonicalInv, PointerInv,
        Serves
  <1>4. AloneInv'
    BY <1>1, <1>2 DEF LiveInv, AloneInv
  <1>5. ServedInv'
    <2>. SUFFICES ASSUME NEW r \in ReleaseNos, Unfinished(r), Listed(r)
                  PROVE  FALSE
      BY <1>1 DEF ServedInv, Unfinished, Listed
    <2>1. incident.failed = r
      BY <1>1 DEF LiveInv, ServedInv
    <2>. QED
      BY <1>1, <2>1, ReleaseIsPositive DEF LiveInv, AloneInv
  <1>6. LiveIsExplained'
    BY <1>1, <1>2 DEF LiveInv, LiveIsExplained, Served
  <1>. QED
    BY <1>3, <1>4, <1>5, <1>6 DEF LiveInv

LEMMA LoseKeeps ==
  ASSUME Known, LiveInv, NEW u \in landing, LoseUpload(u)
  PROVE  LiveInv'
  <1>1. /\ UNCHANGED <<state, active, deployed_at, uploads, canonical, run,
                       started, incident>>
        /\ landing' = landing \ {u}
    BY DEF LoseUpload, releaseVars, workflowVars
  <1>2. StartedInv' /\ CopyInv' /\ DeployingInv' /\ CanonicalInv' /\ PointerInv'
    BY <1>1
    DEF LiveInv, StartedInv, CopyInv, DeployingInv, CanonicalInv, PointerInv,
        Serves
  <1>3. AloneInv' /\ ServedInv' /\ LiveIsExplained'
    BY <1>1
    DEF LiveInv, AloneInv, ServedInv, LiveIsExplained, Unfinished, Listed, Served
  <1>. QED
    BY <1>2, <1>3 DEF LiveInv

-----------------------------------------------------------------------------
(* The end of an incident.                                                 *)

LEMMA CloseKeeps ==
  ASSUME Known, LiveInv, CloseIncident
  PROVE  LiveInv'
  <1>. DEFINE t == incident.target
              f == incident.failed
              d == incident.restored
  <1>1. /\ UNCHANGED <<uploads, canonical, landing, run, started>>
        /\ incident' = NoIncident /\ incident.phase = "restored"
        /\ run = NoRun /\ landing = {} /\ canonical = d
    BY DEF CloseIncident, pagesVars, workflowVars, LiveInv, AloneInv
  <1>2. incident'.phase = "none" /\ run.step = "none"
    BY <1>1 DEF NoIncident, NoRun
  <1>3. t \in ReleaseNos /\ Serves(d, t, artifact_hash[t])
    BY <1>1 DEF Known, ProcessInv, IncidentInv, ReceiptInv, RequestsTrue
  <1>4. Served = t /\ Served' = t
    <2>1. Served = t
      BY <1>1, <1>3, ServedBy
    <2>. QED
      BY <1>1, <2>1 DEF Served
  <1>5. state \in [ReleaseNos -> States] /\ active.release \in 0 .. MaxReleases
    BY DEF Known, ProcessInv, DatabaseInv, ReleaseInv, TypeOK, ActiveRow
  <1>6. \A r \in ReleaseNos : Unfinished(r) /\ Listed(r) => f = r
    BY <1>1 DEF LiveInv, ServedInv
  <1>7. CopyInv' /\ DeployingInv' /\ CanonicalInv' /\ AloneInv'
    <2>1. deployed_at' = deployed_at
      BY DEF CloseIncident, RecordReleaseRollback, RollbackAllowed,
             RecordUnrecordedUploadRollback
    <2>. QED
      BY <1>1, <1>2, <2>1
      DEF LiveInv, CopyInv, DeployingInv, CanonicalInv, AloneInv
  <1>8. CASE f = 0 /\ RecordReleaseRollback(t, incident.expected_release,
                        incident.expected_deployment, d, artifact_hash[t])
    <2>1. /\ state' = [state EXCEPT ![active.release] = "superseded",
                                    ![t] = "deployed"]
          /\ active' = [release |-> t, deployment |-> d,
                        artifact |-> artifact_hash[t]]
          /\ state[active.release] = "deployed" /\ state[t] = "superseded"
      BY <1>8 DEF RecordReleaseRollback, RollbackAllowed, PriorDeployment
    <2>2. \A r \in ReleaseNos : \/ state'[r] = state[r]
                                \/ state'[r] \in {"superseded", "deployed"}
      BY <1>3, <1>5, <2>1
    <2>3. StartedInv'
      BY <1>1, <2>2 DEF LiveInv, StartedInv, SentStates
    <2>4. PointerInv' /\ LiveIsExplained'
      BY <1>1, <1>3, <1>4, <2>1 DEF PointerInv, Serves, LiveIsExplained
    <2>5. ServedInv'
      <3>1. \A r \in ReleaseNos : ~(Unfinished(r) /\ Listed(r))
        BY <1>6, <1>8, ReleaseIsPositive
      <3>. QED
        BY <1>1, <2>2, <3>1 DEF ServedInv, Unfinished, Listed
    <2>. QED
      BY <1>7, <2>3, <2>4, <2>5 DEF LiveInv
  <1>9. CASE f # 0 /\ RecordUnrecordedUploadRollback(f, deployment_id[f], t,
                        incident.expected_deployment, d, artifact_hash[t])
    <2>1. /\ state' = [state EXCEPT ![f] = "upload_rolled_back"]
          /\ active' = [active EXCEPT !.deployment = d]
          /\ active.release = t /\ active.artifact = artifact_hash[t]
      BY <1>9 DEF RecordUnrecordedUploadRollback, WithdrawAllowed
    <2>2. \A r \in ReleaseNos : \/ state'[r] = state[r] /\ r # f
                                \/ state'[r] = "upload_rolled_back" /\ r = f
      BY <1>5, <2>1
    <2>3. StartedInv'
      BY <1>1, <2>2 DEF LiveInv, StartedInv, SentStates
    <2>4. active'.release = t /\ active'.deployment = d /\ active'.artifact = artifact_hash[t]
      BY <2>1 DEF Known, ProcessInv, DatabaseInv, ReleaseInv, TypeOK, ActiveRow
    <2>5. PointerInv' /\ LiveIsExplained'
      BY <1>1, <1>3, <1>4, <2>4 DEF PointerInv, Serves, LiveIsExplained
    <2>6. ServedInv'
      <3>1. \A r \in ReleaseNos : ~(Unfinished(r)' /\ Listed(r))
        BY <1>6, <2>2 DEF Unfinished
      <3>. QED
        BY <1>1, <3>1 DEF ServedInv, Listed
    <2>. QED
      BY <1>7, <2>3, <2>5, <2>6 DEF LiveInv
  <1>. QED
    BY <1>8, <1>9 DEF CloseIncident

-----------------------------------------------------------------------------
(* Steps of the database in which Pages and the incident stay.             *)

Elsewhere == UNCHANGED <<uploads, canonical, landing, started, incident>>

\* What a run may become meanwhile.
RunGoesOn ==
  /\ run'.step = "upload" =>
       \/ run.step = "upload" /\ run'.release = run.release
       \/ state'[run'.release] = "deploying"
  /\ run = NoRun /\ incident.phase # "none" => run' = NoRun

\* Whatever moves no sent release, and no pointer.
LEMMA UnsentKeeps ==
  ASSUME Known, LiveInv, Elsewhere, RunGoesOn, UNCHANGED <<active, deployed_at>>,
         \A r \in ReleaseNos :
           \/ state'[r] = state[r]
           \/ r \notin started /\ ~(run.step = "upload" /\ run.release = r)
           \/ state[r] = "deploying" /\ state'[r] = "deployed_unrecorded"
                /\ (\A u \in landing : u.release # r)
                /\ ~(run.step = "upload" /\ run.release = r)
  PROVE  LiveInv'
  <1>1. UNCHANGED <<uploads, canonical, landing, started, incident, active,
                    deployed_at>>
    BY DEF Elsewhere
  <1>2. \A r \in ReleaseNos : Listed(r) => r \in started
    BY DEF LiveInv, StartedInv, Listed
  <1>3. \A r \in ReleaseNos : r \in started => (Unfinished(r) <=> Unfinished(r)')
    BY DEF Unfinished
  <1>4. run.step = "upload" => run.release \in ReleaseNos
    BY DEF Known, ProcessInv, WorkflowInv, Complete
  <1>5. StartedInv'
    BY <1>1 DEF LiveInv, StartedInv, SentStates
  <1>6. DeployingInv'
    <2>1. \A u \in landing : u.release \in started /\ u.release \in ReleaseNos
      BY DEF LiveInv, StartedInv
    <2>2. run'.step = "upload" => state'[run'.release] = "deploying"
      BY <1>4 DEF LiveInv, DeployingInv, RunGoesOn
    <2>3. \A u \in landing : state'[u.release] = "deploying"
      BY <2>1 DEF LiveInv, DeployingInv
    <2>. QED
      BY <1>1, <2>2, <2>3 DEF DeployingInv
  <1>7. CopyInv' /\ CanonicalInv' /\ PointerInv'
    BY <1>1 DEF LiveInv, CopyInv, CanonicalInv, PointerInv, Serves
  <1>8. AloneInv'
    BY <1>1, <1>3 DEF LiveInv, AloneInv, RunGoesOn, StartedInv, Unfinished
  <1>9. ServedInv'
    BY <1>1, <1>2, <1>3 DEF LiveInv, ServedInv, Served, Unfinished, Listed
  <1>10. LiveIsExplained'
    <2>1. Served = 0 \/ (Served \in started /\ Served \in ReleaseNos)
      BY ServedStarted
    <2>2. Served' = Served
      BY <1>1 DEF Served
    <2>. QED
      BY <1>1, <1>3, <2>1, <2>2 DEF LiveInv, LiveIsExplained, Unfinished
  <1>. QED
    BY <1>5, <1>6, <1>7, <1>8, <1>9, <1>10 DEF LiveInv

\* The upload becomes active: it is what the site serves, or is being replaced
\* by the operator.
LEMMA RecordKeeps ==
  ASSUME Known, LiveInv, Elsewhere, RunGoesOn,
         NEW r \in ReleaseNos, NEW d \in DeploymentIds, NEW a \in Artifacts,
         Serves(d, r, a), RecordDeployedRelease(r, d, a)
  PROVE  LiveInv'
  <1>1. UNCHANGED <<uploads, canonical, landing, started, incident>>
    BY DEF Elsewhere
  <1>2. /\ Unfinished(r) /\ artifact_hash[r] = a
        /\ state' = DeployedState(r)
        /\ deployed_at' = [deployed_at EXCEPT ![r] = TRUE]
        /\ active' = [release |-> r, deployment |-> d, artifact |-> a]
    BY DEF RecordDeployedRelease, RecordAllowed, Unfinished
  <1>3. \A q \in ReleaseNos : \/ state'[q] = state[q] /\ q # r
                              \/ state'[q] \in {"deployed", "superseded"}
                                 /\ (q = r \/ state[q] = "deployed")
    BY <1>2 DEF DeployedState
  <1>4. \A q \in ReleaseNos : ~Unfinished(q)'
    <2>1. \A q \in ReleaseNos : Unfinished(q) => q = r
      BY <1>2, OneUnfinished
    <2>. QED
      BY <1>3, <2>1 DEF Unfinished
  <1>5. deployed_at \in [ReleaseNos -> BOOLEAN]
    BY DEF Known, ProcessInv, DatabaseInv, ReleaseInv, TypeOK
  <1>6. ~(run.step = "upload" /\ run.release = r) /\ \A u \in landing : u.release # r
    BY <1>2, NotOnItsWay
  <1>7. StartedInv'
    BY <1>1, <1>3 DEF LiveInv, StartedInv, SentStates
  <1>8. CopyInv'
    <2>1. \A q : deployed_at[q] => deployed_at'[q]
      BY <1>2, <1>5
    <2>. QED
      BY <1>1, <2>1 DEF LiveInv, CopyInv
  <1>9. DeployingInv'
    <2>1. run.step = "upload" => run.release \in ReleaseNos
      BY DEF Known, ProcessInv, WorkflowInv, Complete
    <2>2. run'.step = "upload" => state'[run'.release] = "deploying"
      BY <1>3, <1>6, <2>1 DEF LiveInv, DeployingInv, RunGoesOn
    <2>3. \A u \in landing : u.release \in ReleaseNos
      BY DEF LiveInv, StartedInv
    <2>4. \A u \in landing : state'[u.release] = "deploying"
      BY <1>3, <1>6, <2>3 DEF LiveInv, DeployingInv
    <2>. QED
      BY <1>1, <2>2, <2>4 DEF DeployingInv
  <1>10. CanonicalInv' /\ PointerInv'
    BY <1>1, <1>2 DEF LiveInv, CanonicalInv, PointerInv, Serves
  <1>11. AloneInv'
    BY <1>1, <1>4 DEF LiveInv, AloneInv, RunGoesOn, StartedInv
  <1>12. ServedInv'
    BY <1>4 DEF ServedInv
  <1>13. LiveIsExplained'
    <2>1. Listed(r)
      BY DEF Listed, Serves
    <2>2. active'.release = r
      BY <1>2
    <2>3. CASE incident.phase # "restored"
      <3>1. Served = r
        BY <1>2, <2>1, <2>3 DEF LiveInv, ServedInv
      <3>. QED
        BY <1>1, <2>2, <3>1 DEF LiveIsExplained, Served
    <2>4. CASE incident.phase = "restored"
      <3>1. Serves(canonical, incident.target, artifact_hash[incident.target])
        BY <2>4 DEF LiveInv, AloneInv, Known, ReceiptInv, RequestsTrue
      <3>2. Served = incident.target
        BY <3>1, ServedBy
      <3>. QED
        BY <1>1, <2>4, <3>2 DEF LiveIsExplained, Served
    <2>. QED
      BY <2>3, <2>4
  <1>. QED
    BY <1>7, <1>8, <1>9, <1>10, <1>11, <1>12, <1>13 DEF LiveInv

-----------------------------------------------------------------------------
(* The actions of the database, under what surrounds them.                 *)

\* The states of sent releases, and the release a run is about to upload.
LEMMA UnsentStates ==
  ASSUME Known, LiveInv, NEW r \in ReleaseNos,
         state[r] \in {"absent", "approved", "deploy_failed"}
  PROVE  r \notin started /\ ~(run.step = "upload" /\ run.release = r)
  BY DEF LiveInv, StartedInv, SentStates, DeployingInv

LEMMA SameKeeps ==
  ASSUME Known, LiveInv, Elsewhere, RunGoesOn, UNCHANGED releaseVars
  PROVE  LiveInv'
  <1>1. UNCHANGED <<active, deployed_at, state>>
    BY DEF releaseVars
  <1>. QED
    BY <1>1, UnsentKeeps

LEMMA DatabaseKeeps ==
  ASSUME Known, LiveInv, Database
  PROVE  LiveInv'
  <1>1. Elsewhere /\ RunGoesOn
    BY DEF Database, Elsewhere, RunGoesOn, pagesVars, workflowVars
  <1>2. UNCHANGED <<active, deployed_at>>
    BY DEF Database, RequestPublish, RequestUnpublish, AddChange,
           PreparePublicRelease
  <1>3. CASE \E p \in Patterns : RequestPublish(p) \/ RequestUnpublish(p)
    <2>1. state' = state
      BY <1>3 DEF RequestPublish, RequestUnpublish, AddChange
    <2>. QED
      BY <1>1, <1>2, <2>1, UnsentKeeps
  <1>4. CASE \E e \in 0..MaxReleases : PreparePublicRelease(e)
    <2>1. /\ last_no < MaxReleases
          /\ state' = [state EXCEPT ![last_no + 1] = "approved"]
      BY <1>4 DEF PreparePublicRelease
    <2>2. /\ last_no \in Nat /\ state \in [ReleaseNos -> States]
          /\ \A r \in ReleaseNos : state[r] = "absent" <=> r > last_no
      BY DEF Known, ProcessInv, DatabaseInv, ReleaseInv, TypeOK, Numbered
    <2>3. \A r \in ReleaseNos : state'[r] = state[r] \/ state[r] = "absent"
      BY <2>1, <2>2 DEF ReleaseNos
    <2>4. \A r \in ReleaseNos :
            \/ state'[r] = state[r]
            \/ r \notin started /\ ~(run.step = "upload" /\ run.release = r)
      BY <2>3, UnsentStates
    <2>. QED
      BY <1>1, <1>2, <2>4, UnsentKeeps
  <1>. QED
    BY <1>3, <1>4 DEF Database

LEMMA MarkKeeps ==
  ASSUME Known, LiveInv, Elsewhere, RunGoesOn, NEW r \in ReleaseNos, NEW a,
         MarkReleaseDeploying(r, a)
  PROVE  LiveInv'
  <1>1. /\ UNCHANGED <<active, deployed_at>>
        /\ \A q \in ReleaseNos : q # r => state'[q] = state[q]
        /\ state[r] \in {"approved", "deploy_failed"}
    BY DEF MarkReleaseDeploying, MarkAllowed, MarkedRow, Row, TriggerAllows,
           Known, ProcessInv, DatabaseInv, ReleaseInv, TypeOK
  <1>2. \A q \in ReleaseNos :
          \/ state'[q] = state[q]
          \/ q \notin started /\ ~(run.step = "upload" /\ run.release = q)
    BY <1>1, UnsentStates
  <1>. QED
    BY <1>1, <1>2, UnsentKeeps

LEMMA NoteKeeps ==
  ASSUME Known, LiveInv, Elsewhere, RunGoesOn, NEW r \in ReleaseNos, NEW d,
         NEW a, NoteReleaseUploaded(r, d, a), Serves(d, r, a)
  PROVE  LiveInv'
  <1>1. /\ UNCHANGED <<active, deployed_at>> /\ artifact_hash[r] = a
        /\ \A q \in ReleaseNos : q # r => state'[q] = state[q]
        /\ state[r] = "deploying" /\ state'[r] = "deployed_unrecorded"
    BY DEF NoteReleaseUploaded, NoteAllowed, Known, ProcessInv, DatabaseInv,
           ReleaseInv, TypeOK
  <1>2. /\ ~(run.step = "upload" /\ run.release = r)
        /\ \A u \in landing : u.release # r
    BY <1>1, NotOnItsWay DEF Unfinished
  <1>. QED
    BY <1>1, <1>2, UnsentKeeps

LEMMA FailKeeps ==
  ASSUME Known, LiveInv, NEW r \in ReleaseNos, OperatorFail(r)
  PROVE  LiveInv'
  <1>1. Elsewhere /\ RunGoesOn
    BY DEF OperatorFail, Elsewhere, RunGoesOn, pagesVars, workflowVars
  <1>2. /\ UNCHANGED <<active, deployed_at>>
        /\ \A q \in ReleaseNos : q # r => state'[q] = state[q]
        /\ r \notin started /\ run.release # r
    BY DEF OperatorFail, RecordReleaseFailure, FailureAllowed, Known,
           ProcessInv, DatabaseInv, ReleaseInv, TypeOK
  <1>. QED
    BY <1>1, <1>2, UnsentKeeps

-----------------------------------------------------------------------------
(* The actors.                                                             *)

LEMMA StartKeeps ==
  ASSUME Known, LiveInv, NEW r \in ReleaseNos, NEW a \in Artifacts,
         StartRun(r, a)
  PROVE  LiveInv'
  <1>1. Elsewhere /\ RunGoesOn /\ UNCHANGED releaseVars
    BY DEF StartRun, Elsewhere, RunGoesOn, pagesVars, NoIncident
  <1>. QED
    BY <1>1, SameKeeps

LEMMA RunKeeps ==
  ASSUME Known, LiveInv, RunStep
  PROVE  LiveInv'
  <1>1. run \in RunRecord /\ (run.step # "none" => Complete(run))
    BY DEF Known, ProcessInv, WorkflowInv
  <1>2. CASE UploadStep
    BY <1>2, UploadKeeps
  <1>3. CASE MarkStep
    <2>1. run.release \in ReleaseNos
      BY <1>1, <1>3 DEF MarkStep, Complete
    <2>2. run' = [run EXCEPT !.step = "upload"] /\ run.step = "mark"
      BY <1>3 DEF MarkStep
    <2>3. run'.release = run.release /\ run # NoRun
      BY <1>1, <2>2 DEF RunRecord, NoRun
    <2>4. MarkReleaseDeploying(run.release, run.artifact)
      BY <1>3 DEF MarkStep
    <2>5. state'[run.release] = "deploying"
      BY <2>1, <2>4
      DEF MarkReleaseDeploying, MarkAllowed, MarkedRow, Row, TriggerAllows,
          Known, ProcessInv, DatabaseInv, ReleaseInv, TypeOK
    <2>6. RunGoesOn
      BY <2>3, <2>5 DEF RunGoesOn
    <2>7. Elsewhere
      BY <1>3 DEF MarkStep, Elsewhere, pagesVars
    <2>. QED
      BY <2>1, <2>4, <2>6, <2>7, MarkKeeps
  <1>4. ASSUME run' = NoRun \/ \E s \in {"note", "smoke", "record"} :
                                 run'.step = s,
               run.step # "none"
        PROVE  RunGoesOn
    BY <1>4 DEF RunGoesOn, NoRun
  <1>5. CASE ReceiptStep \/ SmokeStep \/ RunFails
    <2>1. Elsewhere /\ UNCHANGED releaseVars
      BY <1>5, Zenon
      DEF ReceiptStep, SmokeStep, RunFails, Elsewhere, pagesVars
    <2>2. CASE ReceiptStep
      <3>1. run'.step = "note" /\ run.step # "none"
        BY <1>1, <2>2 DEF ReceiptStep, RunRecord
      <3>. QED
        BY <1>4, <2>1, <3>1, SameKeeps
    <2>3. CASE SmokeStep
      <3>1. run'.step = "record" /\ run.step # "none"
        BY <1>1, <2>3 DEF SmokeStep, RunRecord
      <3>. QED
        BY <1>4, <2>1, <3>1, SameKeeps
    <2>4. CASE RunFails
      <3>1. RunGoesOn
        BY <2>4 DEF RunFails, RunGoesOn, NoRun
      <3>. QED
        BY <2>1, <3>1, SameKeeps
    <2>. QED
      BY <1>5, <2>2, <2>3, <2>4
  <1>6. CASE NoteStep
    <2>1. /\ run.release \in ReleaseNos /\ run'.step = "smoke"
          /\ run.step # "none" /\ run.step = "note"
      BY <1>1, <1>6 DEF NoteStep, Complete, RunRecord
    <2>2. Elsewhere /\ Note(run.release, run.deployment, run.artifact)
      BY <1>6, Zenon DEF NoteStep, Elsewhere, pagesVars
    <2>3. Serves(run.deployment, run.release, run.artifact)
      BY <2>1 DEF Known, ReceiptInv, RequestsTrue
    <2>4. RunGoesOn
      BY <1>4, <2>1
    <2>5. CASE UNCHANGED releaseVars
      BY <2>2, <2>4, <2>5, SameKeeps
    <2>6. CASE NoteReleaseUploaded(run.release, run.deployment, run.artifact)
      BY <2>1, <2>2, <2>3, <2>4, <2>6, NoteKeeps
    <2>. QED
      BY <2>2, <2>5, <2>6 DEF Note
  <1>7. CASE RecordStep
    <2>1. /\ run.release \in ReleaseNos /\ run.artifact \in Artifacts
          /\ run.deployment \in DeploymentIds
          /\ run' = NoRun /\ run.step # "none" /\ run.step = "record"
      BY <1>1, <1>7 DEF RecordStep, Complete
    <2>2. Elsewhere /\ Record(run.release, run.deployment, run.artifact)
      BY <1>7, Zenon DEF RecordStep, Elsewhere, pagesVars
    <2>3. Serves(run.deployment, run.release, run.artifact)
      BY <2>1 DEF Known, ReceiptInv, RequestsTrue
    <2>4. RunGoesOn
      BY <1>4, <2>1
    <2>5. CASE UNCHANGED releaseVars
      BY <2>2, <2>4, <2>5, SameKeeps
    <2>6. CASE RecordDeployedRelease(run.release, run.deployment, run.artifact)
      BY <2>1, <2>2, <2>3, <2>4, <2>6, RecordKeeps
    <2>. QED
      BY <2>2, <2>5, <2>6 DEF Record
  <1>. QED
    BY <1>2, <1>3, <1>5, <1>6, <1>7 DEF RunStep

LEMMA CallKeeps ==
  ASSUME Known, LiveInv, NEW c \in calls, LateCall(c) \/ LostCall(c)
  PROVE  LiveInv'
  <1>1. Elsewhere /\ RunGoesOn
    BY DEF LateCall, LostCall, Elsewhere, RunGoesOn, pagesVars
  <1>2. /\ c.release \in ReleaseNos /\ c.artifact \in Artifacts
        /\ c.step \in {"note", "record"} =>
             /\ c.deployment \in DeploymentIds
             /\ Serves(c.deployment, c.release, c.artifact)
    BY DEF Known, ProcessInv, WorkflowInv, Complete, ReceiptInv, RequestsTrue
  <1>3. CASE LostCall(c)
    BY <1>1, <1>3, SameKeeps DEF LostCall
  <1>4. CASE MarkReleaseDeploying(c.release, c.artifact)
    BY <1>1, <1>2, <1>4, MarkKeeps
  <1>5. CASE c.step = "note"
               /\ NoteReleaseUploaded(c.release, c.deployment, c.artifact)
    BY <1>1, <1>2, <1>5, NoteKeeps
  <1>6. CASE c.step = "record"
               /\ RecordDeployedRelease(c.release, c.deployment, c.artifact)
    BY <1>1, <1>2, <1>6, RecordKeeps
  <1>. QED
    BY <1>3, <1>4, <1>5, <1>6 DEF LateCall

LEMMA OperatorKeeps ==
  ASSUME Known, LiveInv, NEW d \in DOMAIN uploads,
         OperatorNote(d) \/ OperatorRecord(d)
  PROVE  LiveInv'
  <1>1. Elsewhere /\ RunGoesOn
    BY DEF OperatorNote, OperatorRecord, Elsewhere, RunGoesOn, pagesVars,
           workflowVars
  <1>2. /\ d \in DeploymentIds /\ uploads[d].release \in ReleaseNos
        /\ uploads[d].artifact \in Artifacts
        /\ Serves(d, uploads[d].release, uploads[d].artifact)
    BY DEF Known, ProcessInv, HostInv, UploadRecord, Serves
  <1>3. CASE OperatorNote(d)
    <2>1. NoteReleaseUploaded(uploads[d].release, d, uploads[d].artifact)
      BY <1>3 DEF OperatorNote
    <2>. QED
      BY <1>1, <1>2, <2>1, NoteKeeps
  <1>4. CASE OperatorRecord(d)
    <2>1. RecordDeployedRelease(uploads[d].release, d, uploads[d].artifact)
      BY <1>4 DEF OperatorRecord
    <2>. QED
      BY <1>1, <1>2, <2>1, RecordKeeps
  <1>. QED
    BY <1>3, <1>4

LEMMA LiveStep ==
  ASSUME StopRule, Known, LiveInv, [PublisherNext]_publisherVars
  PROVE  LiveInv'
  <1>1. CASE Database
    BY <1>1, DatabaseKeeps
  <1>2. CASE Pages
    BY <1>2, LandKeeps, LoseKeeps DEF Pages
  <1>3. CASE \E r \in ReleaseNos, a \in Artifacts : StartRun(r, a)
    BY <1>3, StartKeeps
  <1>4. CASE RunStep
    BY <1>4, RunKeeps
  <1>5. CASE Unanswered
    BY <1>5, CallKeeps DEF Unanswered
  <1>6. CASE \E r \in ReleaseNos : OperatorFail(r) \/ CheckRollback(r)
    BY <1>6, FailKeeps, CheckKeeps
  <1>7. CASE NoteReceipt \/ RecordOrWithdraw
    BY <1>7, OperatorKeeps, CheckKeeps DEF NoteReceipt, RecordOrWithdraw
  <1>8. CASE Restore
    BY <1>8, RestoreKeeps DEF Restore
  <1>9. CASE CloseIncident
    BY <1>9, CloseKeeps
  <1>10. CASE RereadPointer
    BY <1>10, RereadKeeps
  <1>11. CASE UNCHANGED publisherVars
    <2>1. Elsewhere /\ RunGoesOn /\ UNCHANGED releaseVars
      BY <1>11 DEF publisherVars, Elsewhere, RunGoesOn, pagesVars, workflowVars
    <2>. QED
      BY <2>1, SameKeeps
  <1>. QED
    BY <1>1, <1>2, <1>3, <1>4, <1>5, <1>6, <1>7, <1>8, <1>9, <1>10, <1>11,
       Zenon DEF PublisherNext

\* When the operator stops the deployments before an incident, the public never
\* sees a failed, withdrawn or forgotten release: the site serves the active
\* release, an upload that the database still shows as unfinished, or the
\* release that the operator is restoring.
THEOREM LiveIsExplainedTheorem ==
  ASSUME StopRule
  PROVE  PublisherSpec => []LiveIsExplained
  <1>1. PublisherInit => Known /\ LiveInv
    BY LiveInit
  <1>2. Known /\ LiveInv /\ [PublisherNext]_publisherVars => Known' /\ LiveInv'
    BY KnownStep, LiveStep
  <1>3. LiveInv => LiveIsExplained
    BY DEF LiveInv
  <1>. QED
    BY <1>1, <1>2, <1>3, PTL DEF PublisherSpec

-----------------------------------------------------------------------------
(* Types.                                                                  *)

\* What the runs leave behind, and a run of a release that exists.
WorkflowNames ==
  /\ previews \subseteq ReleaseNos \X Artifacts
  /\ started \subseteq ReleaseNos
  /\ run.step # "none" => state[run.release] # "absent"
  /\ \A c \in calls : c.step \in {"mark", "note", "record"}

NamesInv == CanonicalInv /\ WorkflowNames

LEMMA NamesStep ==
  ASSUME Known, NamesInv, [PublisherNext]_publisherVars
  PROVE  NamesInv'
  <1>1. Grown
    BY UploadsGrow
  <1>2. \A r \in ReleaseNos : state[r] # "absent" => state'[r] # "absent"
    BY StepOfRelease, StepIsLegal
    DEF Known, ProcessInv, DatabaseInv, LegalTransition
  <1>3. run \in RunRecord /\ (run.step # "none" => run.release \in ReleaseNos)
    BY DEF Known, ProcessInv, WorkflowInv, Complete
  <1>4. CanonicalInv'
    <2>1. CASE UNCHANGED canonical
      BY <1>1, <2>1 DEF NamesInv, CanonicalInv, Grown
    <2>2. ASSUME NEW u \in landing, NEW d \in DeploymentIds, LandUpload(u, d)
          PROVE  CanonicalInv'
      BY <2>2 DEF LandUpload, List, CanonicalInv
    <2>3. ASSUME NEW d \in DeploymentIds, RestoreSite(d)
          PROVE  CanonicalInv'
      <3>1. Serves(deployment_id[incident.target], incident.target,
                   artifact_hash[incident.target])
        BY <2>3 DEF RestoreSite, Known, ProcessInv, IncidentInv, ReceiptInv,
                    DatabaseTrue
      <3>. QED
        BY <2>3, <3>1 DEF RestoreSite, List, CanonicalInv, Serves
    <2>4. CASE \/ Database \/ Unanswered \/ CloseIncident \/ RereadPointer
               \/ \E q \in ReleaseNos, b \in Artifacts : StartRun(q, b)
               \/ \E q \in ReleaseNos : OperatorFail(q) \/ CheckRollback(q)
               \/ NoteReceipt \/ RecordOrWithdraw \/ UNCHANGED publisherVars
               \/ RunStep
               \/ \E u \in landing : LoseUpload(u)
      <3>1. UNCHANGED canonical
        BY <2>4, Zenon
        DEF Database, Unanswered, LateCall, LostCall, CloseIncident,
            RereadPointer, StartRun, OperatorFail, CheckRollback, NoteReceipt,
            OperatorNote, RecordOrWithdraw, OperatorRecord, CheckWithdrawal,
            publisherVars, pagesVars, RunStep, MarkStep, UploadStep,
            ReceiptStep, NoteStep, SmokeStep, RecordStep, RunFails, LoseUpload
      <3>. QED
        BY <2>1, <3>1
    <2>. QED
      BY <2>2, <2>3, <2>4, Zenon DEF PublisherNext, Pages, Restore
  <1>5. WorkflowNames'
    <2>1. CASE UNCHANGED workflowVars
      BY <1>2, <1>3, <2>1 DEF NamesInv, WorkflowNames, workflowVars
    <2>2. ASSUME NEW r \in ReleaseNos, NEW a \in Artifacts, StartRun(r, a)
          PROVE  WorkflowNames'
      <3>1. /\ run'.release = r /\ state[r] # "absent"
            /\ previews' = previews \cup {<<r, a>>}
            /\ UNCHANGED <<started, calls>>
        BY <2>2 DEF StartRun, Exportable
      <3>. QED
        BY <1>2, <3>1 DEF NamesInv, WorkflowNames
    <2>3. CASE RunStep /\ ~RunFails
      <3>1. \/ run' = NoRun
            \/ run.step # "none" /\ run'.release = run.release
        BY <1>3, <2>3
        DEF RunStep, MarkStep, UploadStep, ReceiptStep, NoteStep, SmokeStep,
            RecordStep, RunRecord
      <3>2. UNCHANGED <<previews, calls>>
        BY <2>3
        DEF RunStep, MarkStep, UploadStep, ReceiptStep, NoteStep, SmokeStep,
            RecordStep
      <3>3. started' = started \/ (/\ run.step = "upload"
                                   /\ started' = started \cup {run.release})
        BY <2>3
        DEF RunStep, MarkStep, UploadStep, ReceiptStep, NoteStep, SmokeStep,
            RecordStep
      <3>. QED
        BY <1>2, <1>3, <3>1, <3>2, <3>3 DEF NamesInv, WorkflowNames, NoRun
    <2>4. CASE RunFails
      BY <2>4 DEF RunFails, NamesInv, WorkflowNames, NoRun
    <2>5. CASE Unanswered
      BY <1>2, <1>3, <2>5 DEF Unanswered, LateCall, LostCall, NamesInv,
                             WorkflowNames
    <2>6. CASE \/ Database \/ Pages \/ CloseIncident \/ RereadPointer
               \/ \E q \in ReleaseNos : OperatorFail(q) \/ CheckRollback(q)
               \/ NoteReceipt \/ RecordOrWithdraw \/ UNCHANGED publisherVars
               \/ Restore
      <3>1. UNCHANGED workflowVars
        BY <2>6, Zenon
        DEF Database, Pages, LoseUpload, LandUpload, CloseIncident,
            RereadPointer, OperatorFail, CheckRollback, NoteReceipt,
            OperatorNote, RecordOrWithdraw, OperatorRecord, CheckWithdrawal,
            publisherVars, Restore, RestoreSite
      <3>. QED
        BY <2>1, <3>1
    <2>. QED
      BY <2>2, <2>3, <2>4, <2>5, <2>6, Zenon DEF PublisherNext
  <1>. QED
    BY <1>4, <1>5 DEF NamesInv

\* Type correctness of the hosting service, the workflow, its requests and the
\* incident: what a run or a request names exists.
THEOREM PublisherTypeCorrect == PublisherSpec => []PublisherTypeOK
  <1>1. PublisherInit => Known /\ NamesInv
    <2>1. PublisherInit => NamesInv
      BY DEF PublisherInit, NamesInv, CanonicalInv,
             WorkflowNames, NoRun
    <2>. QED
      BY <2>1, LiveInit
  <1>2. Known /\ NamesInv /\ [PublisherNext]_publisherVars => Known' /\ NamesInv'
    BY KnownStep, NamesStep
  <1>3. Known /\ NamesInv => PublisherTypeOK
    <2>. SUFFICES ASSUME Known, NamesInv PROVE PublisherTypeOK
      OBVIOUS
    <2>1. /\ DOMAIN uploads \subseteq DeploymentIds /\ landing \subseteq Upload
          /\ \A d \in DOMAIN uploads :
               uploads[d] \in [release : ReleaseNos, artifact : Artifacts,
                               copy : BOOLEAN]
      BY DEF Known, ProcessInv, HostInv, UploadRecord
    <2>2. run.step # "none" => run.release \in 1..last_no
      BY BoundAssumption
      DEF Known, ProcessInv, DatabaseInv, ReleaseInv, TypeOK, Numbered,
          WorkflowInv, Complete, NamesInv, WorkflowNames,
          ReleaseNos
    <2>3. run.step \in {"none", "mark", "upload", "receipt", "note", "smoke",
                        "record"}
      BY DEF Known, ProcessInv, WorkflowInv, RunRecord
    <2>4. /\ incident.phase \in {"none", "checked", "restored"}
          /\ incident.phase # "none" => deployed_at[incident.target]
      BY DEF Known, ProcessInv, IncidentInv, IncidentRecord
    <2>. QED
      BY <2>1, <2>2, <2>3, <2>4
      DEF NamesInv, WorkflowNames, CanonicalInv, PublisherTypeOK
  <1>. QED
    BY <1>1, <1>2, <1>3, PTL DEF PublisherSpec
=============================================================================
