------------------------------- MODULE Release -------------------------------
(***************************************************************************)
(* The public-release tables of the database and the RPCs that change      *)
(* them: publication_changes, public_releases, public_release_items,       *)
(* private.deployment_state and private.deployment_receipts.               *)
(*                                                                         *)
(* Each action is one RPC, which PostgreSQL runs as one transaction under  *)
(* an advisory lock; its guard is the conjunction of the checks that raise *)
(* an exception, the caller's arguments included.  A call that raises      *)
(* changes nothing and is a stuttering step, and so is a call that an RPC  *)
(* recognises as the replay of one it has already committed.               *)
(*                                                                         *)
(* Release numbers come from an identity column, so releases are named by  *)
(* their number.  A verified revision is named by the index of the publish *)
(* change that carries it.  The manifest of a release maps each pattern to *)
(* such an index, or to 0 when the release omits the pattern.  The heat    *)
(* and evidence-freshness snapshots pinned beside the revision follow it   *)
(* and are left out.                                                       *)
(*                                                                         *)
(* An operator named X_Y is the operator X with the fault Y: a run with    *)
(* the fault put in must violate a property, which shows that the property *)
(* guards that part of the code.                                           *)
(***************************************************************************)
EXTENDS Naturals, Sequences

CONSTANTS Patterns,       \* scam_patterns
          DeploymentIds,  \* ids that the hosting service gives to uploads
          Artifacts,      \* SHA-256 hashes of built sites
          NoDeployment,   \* the null deployment id
          NoArtifact,     \* the null artifact hash
          MaxReleases,    \* bound on the releases prepared
          MaxChanges      \* bound on the publication changes requested

ASSUME NullAssumption == /\ NoDeployment \notin DeploymentIds
                         /\ NoArtifact \notin Artifacts
ASSUME BoundAssumption == MaxReleases \in Nat /\ MaxChanges \in Nat

ReleaseNos == 1..MaxReleases

VARIABLES
  changes,        \* publication_changes, in the order they were created
  last_no,        \* the last release_no given out
  state,          \* public_releases.state
  items,          \* public_release_items: the manifest of each release
  artifact_hash,  \* public_releases.artifact_hash
  deployment_id,  \* public_releases.deployment_id, the first upload receipt
  deployed_at,    \* has the release ever been recorded as deployed?
  active,         \* the singleton row of private.deployment_state
  receipts        \* private.deployment_receipts, append-only

releaseVars == <<changes, last_no, state, items, artifact_hash,
                 deployment_id, deployed_at, active, receipts>>

(***************************************************************************)
(* A release whose publication is not finished: prepare refuses to start   *)
(* another one.                                                            *)
(***************************************************************************)
PendingStates == {"approved", "deploying", "deployed_unrecorded",
                  "deploy_failed"}
States == PendingStates \cup {"absent", "deployed", "superseded",
                              "upload_rolled_back"}

NoActive == [release |-> 0, deployment |-> NoDeployment,
             artifact |-> NoArtifact]

Change == [pattern : Patterns, action : {"publish", "unpublish"},
           applied_release : 0..MaxReleases]

Manifest == [Patterns -> 0..MaxChanges]

ActiveRow == [release : 0..MaxReleases,
              deployment : DeploymentIds \cup {NoDeployment},
              artifact : Artifacts \cup {NoArtifact}]

Receipt == [release : ReleaseNos, deployment : DeploymentIds,
            artifact : Artifacts,
            action : {"publish", "rollback", "withdraw_uploaded"},
            previous_release : 0..MaxReleases,
            previous_deployment : DeploymentIds \cup {NoDeployment}]

TypeOK ==
  /\ changes \in Seq(Change) /\ Len(changes) <= MaxChanges
  /\ last_no \in 0..MaxReleases
  /\ state \in [ReleaseNos -> States]
  /\ items \in [ReleaseNos -> Manifest]
  /\ artifact_hash \in [ReleaseNos -> Artifacts \cup {NoArtifact}]
  /\ deployment_id \in [ReleaseNos -> DeploymentIds \cup {NoDeployment}]
  /\ deployed_at \in [ReleaseNos -> BOOLEAN]
  /\ active \in ActiveRow
  /\ receipts \in Seq(Receipt)

Init ==
  /\ changes = <<>>
  /\ last_no = 0
  /\ state = [r \in ReleaseNos |-> "absent"]
  /\ items = [r \in ReleaseNos |-> [p \in Patterns |-> 0]]
  /\ artifact_hash = [r \in ReleaseNos |-> NoArtifact]
  /\ deployment_id = [r \in ReleaseNos |-> NoDeployment]
  /\ deployed_at = [r \in ReleaseNos |-> FALSE]
  /\ active = NoActive
  /\ receipts = <<>>

-----------------------------------------------------------------------------
(* Publication changes, requested by an authenticated reviewer.            *)

Verified(p) == \E i \in DOMAIN changes :
                 changes[i].pattern = p /\ changes[i].action = "publish"

AddChange(p, action) ==
  /\ Len(changes) < MaxChanges
  /\ changes' = Append(changes, [pattern |-> p, action |-> action,
                                 applied_release |-> 0])
  /\ UNCHANGED <<last_no, state, items, artifact_hash, deployment_id,
                 deployed_at, active, receipts>>

\* The publish change that approve_review_item inserts with the revision it
\* has just verified.
RequestPublish(p) == AddChange(p, "publish")

\* unpublish_pattern: only a pattern with a verified revision can be retracted.
RequestUnpublish(p) == Verified(p) /\ AddChange(p, "unpublish")

-----------------------------------------------------------------------------
(* prepare_public_release                                                  *)

\* The row of rs with the highest release_no, or none (0).
Newest(rs) == IF rs = {} THEN 0 ELSE CHOOSE r \in rs : \A q \in rs : q <= r

DeployedRelease == Newest({r \in ReleaseNos : state[r] = "deployed"})

Unapplied(p) == {i \in DOMAIN changes :
                   changes[i].pattern = p /\ changes[i].applied_release = 0}

NewItem_KeepsRetracted(previous, p) ==
  LET fresh == {i \in Unapplied(p) : changes[i].action = "publish"}
  IN IF fresh # {} THEN Newest(fresh)
     ELSE IF previous = 0 THEN 0 ELSE items[previous][p]

\* latest_change: the last unapplied change of the pattern decides.
NewItem(previous, p) ==
  IF Unapplied(p) = {}
  THEN IF previous = 0 THEN 0 ELSE items[previous][p]
  ELSE IF changes[Newest(Unapplied(p))].action = "publish"
       THEN Newest(Unapplied(p))
       ELSE 0

NoPendingRelease_IgnoresFailed ==
  \A r \in ReleaseNos : state[r] \notin PendingStates \ {"deploy_failed"}

\* Otherwise prepare raises release_already_pending.
NoPendingRelease == \A r \in ReleaseNos : state[r] \notin PendingStates

PreparePublicRelease(expected_previous) ==
  /\ last_no < MaxReleases
  /\ NoPendingRelease
  /\ expected_previous = DeployedRelease
  /\ \E p \in Patterns : Unapplied(p) # {}
  /\ last_no' = last_no + 1
  /\ state' = [state EXCEPT ![last_no + 1] = "approved"]
  /\ items' = [items EXCEPT ![last_no + 1] =
                 [p \in Patterns |-> NewItem(expected_previous, p)]]
  /\ changes' = [i \in DOMAIN changes |->
                   IF changes[i].applied_release = 0
                   THEN [changes[i] EXCEPT !.applied_release = last_no + 1]
                   ELSE changes[i]]
  /\ UNCHANGED <<artifact_hash, deployment_id, deployed_at, active, receipts>>

-----------------------------------------------------------------------------
(* Deployment RPCs.                                                        *)

\* The state machine of a release; prepare inserts the row.
LegalTransition(old, new) ==
  <<old, new>> \in
    ({"absent"} \X {"approved"})
    \cup ({"approved"} \X {"deploying", "deploy_failed"})
    \cup ({"deploying"} \X {"deployed_unrecorded", "deployed",
                             "deploy_failed"})
    \cup ({"deployed_unrecorded"} \X {"deployed", "upload_rolled_back"})
    \cup ({"deploy_failed"} \X {"deploying"})
    \cup ({"deployed"} \X {"superseded"})
    \cup ({"superseded"} \X {"deployed"})

\* What a row of public_releases is to the RPCs below.
Row(r) == [state |-> state[r], artifact |-> artifact_hash[r],
           deployment |-> deployment_id[r]]

\* protect_public_release, the trigger on every update of a release: a first
\* artifact and a first upload receipt stay.
TriggerAllows(old, new) ==
  /\ old.artifact \in {NoArtifact, new.artifact}
  /\ old.deployment \in {NoDeployment, new.deployment}
  /\ old.state = new.state \/ LegalTransition(old.state, new.state)

NewerDeployed(r) == \E q \in ReleaseNos : state[q] = "deployed" /\ q > r

\* What mark_release_deploying itself checks, which is not the artifact.
MarkAllowed(r) == state[r] \in {"approved", "deploy_failed"} /\ ~NewerDeployed(r)

\* The row that it writes.
MarkedRow(r, a) == [Row(r) EXCEPT !.state = "deploying", !.artifact = a]

\* Of all the RPCs only this one is ever refused by the trigger
\* (TriggerRefusesOnlyRebuilds), so the others do not repeat the condition.
MarkReleaseDeploying(r, a) ==
  /\ MarkAllowed(r)
  /\ TriggerAllows(Row(r), MarkedRow(r, a))
  /\ state' = [state EXCEPT ![r] = "deploying"]
  /\ artifact_hash' = [artifact_hash EXCEPT ![r] = a]
  /\ UNCHANGED <<changes, last_no, items, deployment_id, deployed_at, active,
                 receipts>>

\* note_release_uploaded returns at once for the receipt it already holds.
NoteReplayed(r, d, a) ==
  /\ artifact_hash[r] = a
  /\ state[r] = "deployed_unrecorded"
  /\ deployment_id[r] = d

NoteAllowed(r, a) ==
  /\ artifact_hash[r] = a
  /\ state[r] = "deploying"
  /\ deployment_id[r] = NoDeployment
  /\ ~NewerDeployed(r)

NoteReleaseUploaded(r, d, a) ==
  /\ NoteAllowed(r, a)
  /\ state' = [state EXCEPT ![r] = "deployed_unrecorded"]
  /\ deployment_id' = [deployment_id EXCEPT ![r] = d]
  /\ UNCHANGED <<changes, last_no, items, artifact_hash, deployed_at, active,
                 receipts>>

\* record_deployed_release returns at once when r is active under d.
RecordReplayed(r, d, a) ==
  /\ artifact_hash[r] = a
  /\ deployment_id[r] = d
  /\ state[r] = "deployed"
  /\ active.release = r /\ active.deployment = d

RecordAllowed(r, d, a) ==
  /\ artifact_hash[r] = a
  /\ deployment_id[r] \in {NoDeployment, d}
  /\ state[r] \in {"deploying", "deployed_unrecorded"}
  /\ ~NewerDeployed(r)

DeployedState_KeepsOthers(r) == [state EXCEPT ![r] = "deployed"]

\* r becomes deployed and every other deployed release superseded.
DeployedState(r) ==
  [q \in ReleaseNos |-> IF q = r THEN "deployed"
                        ELSE IF state[q] = "deployed" THEN "superseded"
                        ELSE state[q]]

RecordDeployedRelease(r, d, a) ==
  /\ RecordAllowed(r, d, a)
  /\ state' = DeployedState(r)
  /\ deployment_id' = [deployment_id EXCEPT ![r] = d]
  /\ deployed_at' = [deployed_at EXCEPT ![r] = TRUE]
  /\ receipts' = Append(receipts,
                        [release |-> r, deployment |-> d, artifact |-> a,
                         action |-> "publish",
                         previous_release |-> active.release,
                         previous_deployment |-> active.deployment])
  /\ active' = [release |-> r, deployment |-> d, artifact |-> a]
  /\ UNCHANGED <<changes, last_no, items, artifact_hash>>

FailureAllowed_AfterUpload(r) == state[r] \in PendingStates

\* Otherwise record_release_failure raises release_failure_not_recordable.
FailureAllowed(r) == state[r] \in {"approved", "deploying"}

RecordReleaseFailure(r) ==
  /\ FailureAllowed(r)
  /\ state' = [state EXCEPT ![r] = "deploy_failed"]
  /\ UNCHANGED <<changes, last_no, items, artifact_hash, deployment_id,
                 deployed_at, active, receipts>>

\* record_release_rollback: r becomes active again, under the deployment id d
\* that the hosting service reports for the restored artifact.
RollbackReplayed(r, d, a) ==
  artifact_hash[r] = a /\ active.release = r /\ active.deployment = d

PriorDeployment_AnyOrder(r) == state[r] = "superseded" /\ deployed_at[r]

\* Otherwise rollback raises rollback_target_not_prior_deployment.
PriorDeployment(r) ==
  /\ state[r] = "superseded" /\ deployed_at[r]
  /\ active.release > r
  /\ state[active.release] = "deployed"

RollbackAllowed(r, expected_release, expected_deployment, d, a) ==
  /\ artifact_hash[r] = a
  /\ ~RollbackReplayed(r, d, a)
  /\ active.release = expected_release
  /\ active.deployment = expected_deployment
  /\ PriorDeployment(r)

RecordReleaseRollback(r, expected_release, expected_deployment, d, a) ==
  /\ RollbackAllowed(r, expected_release, expected_deployment, d, a)
  /\ state' = [state EXCEPT ![active.release] = "superseded",
                            ![r] = "deployed"]
  /\ receipts' = Append(receipts,
                        [release |-> r, deployment |-> d, artifact |-> a,
                         action |-> "rollback",
                         previous_release |-> active.release,
                         previous_deployment |-> active.deployment])
  /\ active' = [release |-> r, deployment |-> d, artifact |-> a]
  /\ UNCHANGED <<changes, last_no, items, artifact_hash, deployment_id,
                 deployed_at>>

WithdrawAllowed_AnyUnfinished(r, f, prior, prior_d, d, a) ==
  /\ active.release = prior
  /\ active.deployment = prior_d
  /\ active.artifact = a
  /\ state[r] \in PendingStates

\* record_unrecorded_upload_rollback: the upload f of release r never became
\* active, and the site again serves the active release, under the id d.
WithdrawAllowed(r, f, prior, prior_d, d, a) ==
  /\ deployment_id[r] = f
  /\ prior # 0 /\ r > prior
  /\ active.artifact = a
  /\ active.release = prior
  /\ active.deployment = prior_d
  /\ state[prior] = "deployed"
  /\ state[r] = "deployed_unrecorded"

WithdrawReceipts_BothFromActive(r, f, d) ==
  << [release |-> r, deployment |-> f, artifact |-> artifact_hash[r],
      action |-> "withdraw_uploaded",
      previous_release |-> active.release,
      previous_deployment |-> active.deployment],
     [release |-> active.release, deployment |-> d,
      artifact |-> active.artifact, action |-> "rollback",
      previous_release |-> active.release,
      previous_deployment |-> active.deployment] >>

\* The withdrawal and the restoration, in this order.
WithdrawReceipts(r, f, d) ==
  << [release |-> r, deployment |-> f, artifact |-> artifact_hash[r],
      action |-> "withdraw_uploaded",
      previous_release |-> active.release,
      previous_deployment |-> active.deployment],
     [release |-> active.release, deployment |-> d,
      artifact |-> active.artifact, action |-> "rollback",
      previous_release |-> r,
      previous_deployment |-> f] >>

RecordUnrecordedUploadRollback(r, f, prior, prior_d, d, a) ==
  /\ WithdrawAllowed(r, f, prior, prior_d, d, a)
  /\ receipts' = receipts \o WithdrawReceipts(r, f, d)
  /\ state' = [state EXCEPT ![r] = "upload_rolled_back"]
  /\ active' = [active EXCEPT !.deployment = d]
  /\ UNCHANGED <<changes, last_no, items, artifact_hash, deployment_id,
                 deployed_at>>
-----------------------------------------------------------------------------
Deploy ==
  \E r \in ReleaseNos, a \in Artifacts :
    \/ MarkReleaseDeploying(r, a)
    \/ \E d \in DeploymentIds :
         \/ NoteReleaseUploaded(r, d, a)
         \/ RecordDeployedRelease(r, d, a)

Retreat ==
  \E r, e \in ReleaseNos, d, x \in DeploymentIds, a \in Artifacts :
    \/ RecordReleaseRollback(r, e, x, d, a)
    \/ \E f \in DeploymentIds : RecordUnrecordedUploadRollback(r, f, e, x, d, a)

Next ==
  \/ \E p \in Patterns : RequestPublish(p) \/ RequestUnpublish(p)
  \/ \E e \in 0..MaxReleases : PreparePublicRelease(e)
  \/ Deploy
  \/ \E r \in ReleaseNos : RecordReleaseFailure(r)
  \/ Retreat

Spec == Init /\ [][Next]_releaseVars

-----------------------------------------------------------------------------
(* Properties.                                                             *)

\* The active row of deployment_state and the state column of public_releases
\* are written by four RPCs and read by all of them: they always name the same
\* release, with the artifact that release was marked with.
ActiveIsDeployed ==
  /\ \A r \in ReleaseNos : state[r] = "deployed" <=> active.release = r
  /\ active.release # 0 => active.artifact = artifact_hash[active.release]

\* At most one release is unfinished and no newer release exists, whatever was
\* rolled back or withdrawn meanwhile.  This is why mark, note and record can
\* check older_release_cannot_overwrite_newer without the lock of prepare.
PendingIsNewest ==
  \A r \in ReleaseNos : state[r] \in PendingStates => r = last_no

\* The receipts replay to the active row: the last one is what the site serves,
\* and each one starts from the deployment that the one before it left.
ReceiptsReplayToActive ==
  /\ receipts = <<>> <=> active.release = 0
  /\ receipts # <<>> =>
       LET final == receipts[Len(receipts)]
       IN active = [release |-> final.release, deployment |-> final.deployment,
                    artifact |-> final.artifact]
  /\ \A j \in DOMAIN receipts : j > 1 =>
       /\ receipts[j].previous_release = receipts[j - 1].release
       /\ receipts[j].previous_deployment = receipts[j - 1].deployment

AppliedIn(r, p) == {i \in DOMAIN changes :
                      changes[i].pattern = p /\ changes[i].applied_release = r}

\* What the changes applied in release r make of pattern p, over the manifest
\* of release q (0: over the empty site).
ItemOver(q, r, p) ==
  IF AppliedIn(r, p) = {}
  THEN IF q = 0 THEN 0 ELSE items[q][p]
  ELSE IF changes[Newest(AppliedIn(r, p))].action = "publish"
       THEN Newest(AppliedIn(r, p))
       ELSE 0

\* Every manifest is the manifest of one release that has been live before
\* it, with exactly the changes applied in it and nothing else: no pattern
\* enters, leaves or changes revision without a change of its own.
ManifestFollowsChanges ==
  \A r \in 1..last_no :
    \E q \in 0..(r - 1) :
      /\ q # 0 => deployed_at[q]
      /\ \A p \in Patterns : items[r][p] = ItemOver(q, r, p)

\* Every update that an RPC's own checks let through also passes the trigger,
\* whatever was failed, rolled back or withdrawn before: the incident RPCs are
\* never aborted half way.  The one exception is the repeated deployment of a
\* failed release with another build: mark compares no artifact, and the call
\* ends in public_release_artifact_is_immutable.
TriggerRefusesOnlyRebuilds ==
  \A r \in ReleaseNos, d \in DeploymentIds, a \in Artifacts :
    LET Becomes(q, s) == TriggerAllows(Row(q), [Row(q) EXCEPT !.state = s])
        Receives(s) == TriggerAllows(Row(r), [Row(r) EXCEPT !.state = s,
                                                            !.deployment = d])
    IN /\ MarkAllowed(r) =>
            \/ TriggerAllows(Row(r), MarkedRow(r, a))
            \/ /\ state[r] = "deploy_failed"
               /\ artifact_hash[r] \notin {NoArtifact, a}
       /\ NoteAllowed(r, a) => Receives("deployed_unrecorded")
       /\ RecordAllowed(r, d, a) => Receives("deployed")
       /\ FailureAllowed(r) => Becomes(r, "deploy_failed")
       /\ \A x \in DeploymentIds, e \in ReleaseNos :
            /\ RollbackAllowed(r, e, x, d, a)
                 => Becomes(e, "superseded") /\ Becomes(r, "deployed")
            /\ \A f \in DeploymentIds :
                 WithdrawAllowed(r, f, e, x, d, a)
                   => Becomes(r, "upload_rolled_back")

\* What the site serves, stated without the tables: publication always moves
\* to a release newer than every release that was ever live, and only an
\* explicit rollback goes back, to one that was live.
Site == INSTANCE LiveSite WITH
          live <- active.release,
          published <- {r \in ReleaseNos : deployed_at[r]}

ImplementsLiveSite == Site!Spec

LastDecision(p) == Newest({i \in DOMAIN changes : changes[i].pattern = p})

\* Between releases, a decision that the deployed site does not show yet is
\* still waiting for the next prepare (the implementation brief, line 338:
\* the workflow checks for revisions and unpublishes "not yet included in the
\* deployed release").  The code does not keep this: a rollback or a withdrawn
\* upload consumes the changes of the release it removes.
UnshownDecisionIsPending ==
  NoPendingRelease =>
    \A p \in Patterns :
      Unapplied(p) = {} =>
        LET shown == IF DeployedRelease = 0 THEN 0
                     ELSE items[DeployedRelease][p]
        IN shown = IF Verified(p) /\ changes[LastDecision(p)].action = "publish"
                   THEN LastDecision(p) ELSE 0
=============================================================================
