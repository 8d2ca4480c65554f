---------------------------- MODULE ReleaseProofs ----------------------------
(***************************************************************************)
(* Theorems about Release, for every number of releases, changes, patterns *)
(* and deployments.                                                        *)
(*                                                                         *)
(* The checked invariants are not inductive by themselves: that record and *)
(* rollback keep the active row and the state column together rests on     *)
(* which states a release can be in once its number is taken, once it has  *)
(* an artifact and once it has been live.  ReleaseInv collects these       *)
(* facts.                                                                  *)
(***************************************************************************)
EXTENDS Release, SequenceTheorems, WellFoundedInduction, TLAPS

\* A release number is taken exactly when its row exists.
Numbered == \A r \in ReleaseNos : state[r] = "absent" <=> r > last_no

\* Every state after mark_release_deploying has an artifact, and none before
\* has one.  A failed release may have one or not.
HasArtifact ==
  \A r \in ReleaseNos :
    /\ state[r] \in {"deploying", "deployed_unrecorded", "deployed",
                     "superseded", "upload_rolled_back"}
         => artifact_hash[r] \in Artifacts
    /\ state[r] \in {"absent", "approved"} => artifact_hash[r] = NoArtifact

\* deployed_at is set exactly while the release is or was the live one.
EverLive ==
  \A r \in ReleaseNos : deployed_at[r] <=> state[r] \in {"deployed",
                                                         "superseded"}

ReleaseInv == /\ TypeOK
              /\ Numbered
              /\ HasArtifact
              /\ EverLive
              /\ PendingIsNewest
              /\ ActiveIsDeployed

-----------------------------------------------------------------------------
\* A function over 1..Len(s) with values in S is a sequence of the same length.
LEMMA SameLength ==
  ASSUME NEW S, NEW s \in Seq(S), NEW f \in [DOMAIN s -> S]
  PROVE  f \in Seq(S) /\ Len(f) = Len(s)
  <1>1. Len(s) \in Nat /\ DOMAIN s = 1..Len(s)
    BY LenProperties
  <1>2. f \in Seq(S)
    BY <1>1, SeqDef
  <1>. QED
    BY <1>1, <1>2, LenProperties

\* A non-empty set of numbers up to n has a largest element.
LEMMA LargestExists ==
  ASSUME NEW n \in Nat, NEW S \in SUBSET (1..n), S # {}
  PROVE  \E r \in S : \A q \in S : q <= r
  <1>. DEFINE R == {ss \in Nat \X Nat : ss[1] < ss[2]}
              T == {n - r : r \in S}
  <1>1. IsWellFoundedOn(R, Nat)
    BY NatLessThanWellFounded DEF OpToRel
  <1>2. T \subseteq Nat /\ T # {}
    <2>1. PICK r \in S : TRUE
      OBVIOUS
    <2>2. n - r \in T
      BY <2>1
    <2>3. ASSUME NEW t \in T PROVE t \in Nat
      <3>1. PICK q \in S : t = n - q
        OBVIOUS
      <3>2. q \in 1..n
        OBVIOUS
      <3>. QED
        BY <3>1, <3>2
    <2>. QED
      BY <2>2, <2>3
  <1>3. PICK x \in T : \A y \in T : <<y, x>> \notin R
    BY <1>1, <1>2, WFMin
  <1>4. PICK r \in S : x = n - r
    OBVIOUS
  <1>5. ASSUME NEW q \in S PROVE q <= r
    <2>1. n - q \in T /\ n - q \in Nat /\ x \in Nat
      BY <1>2
    <2>2. ~(n - q < x)
      BY <1>3, <2>1
    <2>. QED
      BY <2>2, <1>4
  <1>. QED
    BY <1>5

LEMMA NewestInSet ==
  ASSUME NEW n \in Nat, NEW S \in SUBSET (1..n), S # {}
  PROVE  Newest(S) \in S /\ \A q \in S : q <= Newest(S)
  BY LargestExists DEF Newest

LEMMA InitInv == Init => ReleaseInv
  <1>. SUFFICES ASSUME Init PROVE ReleaseInv
    OBVIOUS
  <1>. USE DEF Init, ReleaseNos
  <1>1. TypeOK
    <2>1. <<>> \in Seq(Change) /\ Len(<<>>) = 0 /\ <<>> \in Seq(Receipt)
      BY EmptySeq
    <2>2. items \in [ReleaseNos -> Manifest]
      BY BoundAssumption DEF Manifest
    <2>3. state \in [ReleaseNos -> States]
      BY DEF States
    <2>4. active \in ActiveRow
      BY BoundAssumption DEF ActiveRow, NoActive
    <2>5. deployed_at \in [ReleaseNos -> BOOLEAN]
      BY Zenon
    <2>6. /\ artifact_hash \in [ReleaseNos -> Artifacts \cup {NoArtifact}]
          /\ deployment_id \in [ReleaseNos -> DeploymentIds \cup {NoDeployment}]
      OBVIOUS
    <2>7. /\ changes \in Seq(Change) /\ Len(changes) <= MaxChanges
          /\ receipts \in Seq(Receipt)
          /\ last_no \in 0..MaxReleases
      BY <2>1, BoundAssumption
    <2>. QED
      BY <2>2, <2>3, <2>4, <2>5, <2>6, <2>7, Zenon DEF TypeOK
  <1>2. Numbered /\ HasArtifact /\ EverLive /\ PendingIsNewest
    BY BoundAssumption DEF Numbered, HasArtifact, EverLive, PendingIsNewest,
                           PendingStates
  <1>3. ActiveIsDeployed
    BY BoundAssumption DEF ActiveIsDeployed, NoActive
  <1>. QED
    BY <1>1, <1>2, <1>3 DEF ReleaseInv

-----------------------------------------------------------------------------
(* One lemma per action.                                                   *)

LEMMA AddChangeInv ==
  ASSUME ReleaseInv, NEW p \in Patterns,
         NEW action \in {"publish", "unpublish"}, AddChange(p, action)
  PROVE  ReleaseInv'
  <1>. USE DEF AddChange
  <1>. DEFINE c == [pattern |-> p, action |-> action, applied_release |-> 0]
  <1>1. c \in Change
    BY BoundAssumption DEF Change
  <1>2. changes' \in Seq(Change) /\ Len(changes') = Len(changes) + 1
    BY <1>1, AppendProperties DEF ReleaseInv, TypeOK
  <1>3. Len(changes') <= MaxChanges
    BY <1>2, BoundAssumption, LenProperties DEF ReleaseInv, TypeOK
  <1>4. TypeOK'
    BY <1>2, <1>3 DEF ReleaseInv, TypeOK
  <1>. QED
    BY <1>4 DEF ReleaseInv, Numbered, HasArtifact, EverLive, PendingIsNewest,
                ActiveIsDeployed

LEMMA PrepareInv ==
  ASSUME ReleaseInv, NEW e \in 0..MaxReleases, PreparePublicRelease(e)
  PROVE  ReleaseInv'
  <1>. USE DEF PreparePublicRelease, NoPendingRelease
  <1>1. last_no + 1 \in ReleaseNos
    BY BoundAssumption DEF ReleaseInv, TypeOK, ReleaseNos
  <1>2. changes' \in Seq(Change) /\ Len(changes') <= MaxChanges
    <2>1. changes' \in [DOMAIN changes -> Change]
      <3>. SUFFICES ASSUME NEW i \in DOMAIN changes
                    PROVE  [changes[i] EXCEPT !.applied_release = last_no + 1]
                             \in Change /\ changes[i] \in Change
        OBVIOUS
      <3>1. changes[i] \in Change
        BY ElementOfSeq, LenProperties DEF ReleaseInv, TypeOK
      <3>. QED
        BY <3>1, <1>1 DEF Change, ReleaseNos
    <2>. QED
      BY <2>1, SameLength DEF ReleaseInv, TypeOK
  <1>3. items' \in [ReleaseNos -> Manifest]
    <2>. SUFFICES ASSUME NEW p \in Patterns
                  PROVE  NewItem(e, p) \in 0..MaxChanges
      BY <1>1 DEF ReleaseInv, TypeOK, Manifest
    <2>1. CASE Unapplied(p) = {}
      <3>1. e # 0 => items[e][p] \in 0..MaxChanges
        BY DEF ReleaseInv, TypeOK, Manifest, ReleaseNos
      <3>. QED
        BY <2>1, <3>1, BoundAssumption DEF NewItem
    <2>2. CASE Unapplied(p) # {}
      <3>1. Unapplied(p) \subseteq 1..Len(changes)
        BY LenProperties DEF Unapplied, ReleaseInv, TypeOK
      <3>2. Newest(Unapplied(p)) \in Unapplied(p)
        <4>1. Len(changes) \in Nat
          BY LenProperties DEF ReleaseInv, TypeOK
        <4>. QED
          BY <2>2, <3>1, <4>1, NewestInSet
      <3>. QED
        BY <2>2, <3>1, <3>2, BoundAssumption
        DEF NewItem, ReleaseInv, TypeOK
    <2>. QED
      BY <2>1, <2>2
  <1>4. TypeOK'
    BY <1>1, <1>2, <1>3
    DEF ReleaseInv, TypeOK, ReleaseNos, States, PendingStates
  <1>5. state[last_no + 1] = "absent"
    BY <1>1 DEF ReleaseInv, TypeOK, Numbered
  <1>. QED
    BY <1>1, <1>4, <1>5
    DEF ReleaseInv, TypeOK, Numbered, HasArtifact, EverLive, PendingIsNewest,
        ActiveIsDeployed, PendingStates, ReleaseNos

LEMMA MarkInv ==
  ASSUME ReleaseInv, NEW r \in ReleaseNos, NEW a \in Artifacts,
         MarkReleaseDeploying(r, a)
  PROVE  ReleaseInv'
  <1>. USE DEF MarkReleaseDeploying, MarkAllowed, MarkedRow, Row, TriggerAllows
  <1>1. TypeOK'
    BY DEF ReleaseInv, TypeOK, States, PendingStates
  <1>2. active.release # r
    BY DEF ReleaseInv, ActiveIsDeployed
  <1>. QED
    BY <1>1, <1>2
    DEF ReleaseInv, TypeOK, Numbered, HasArtifact, EverLive, PendingIsNewest,
        ActiveIsDeployed, PendingStates

LEMMA NoteInv ==
  ASSUME ReleaseInv, NEW r \in ReleaseNos, NEW d \in DeploymentIds,
         NEW a \in Artifacts, NoteReleaseUploaded(r, d, a)
  PROVE  ReleaseInv'
  <1>. USE DEF NoteReleaseUploaded, NoteAllowed
  <1>1. TypeOK'
    BY DEF ReleaseInv, TypeOK, States, PendingStates
  <1>. QED
    BY <1>1
    DEF ReleaseInv, TypeOK, Numbered, HasArtifact, EverLive, PendingIsNewest,
        ActiveIsDeployed, PendingStates

LEMMA FailureInv ==
  ASSUME ReleaseInv, NEW r \in ReleaseNos, RecordReleaseFailure(r)
  PROVE  ReleaseInv'
  <1>. USE DEF RecordReleaseFailure, FailureAllowed
  <1>1. TypeOK'
    BY DEF ReleaseInv, TypeOK, States, PendingStates
  <1>. QED
    BY <1>1
    DEF ReleaseInv, TypeOK, Numbered, HasArtifact, EverLive, PendingIsNewest,
        ActiveIsDeployed, PendingStates

LEMMA RecordInv ==
  ASSUME ReleaseInv, NEW r \in ReleaseNos, NEW d \in DeploymentIds,
         NEW a \in Artifacts, RecordDeployedRelease(r, d, a)
  PROVE  ReleaseInv'
  <1>. USE DEF RecordDeployedRelease, RecordAllowed, DeployedState
  <1>1. TypeOK'
    <2>1. state' \in [ReleaseNos -> States]
      BY DEF ReleaseInv, TypeOK, States, PendingStates
    <2>2. /\ deployment_id' \in [ReleaseNos -> DeploymentIds \cup {NoDeployment}]
          /\ active' \in ActiveRow
      BY DEF ReleaseInv, TypeOK, ActiveRow, ReleaseNos
    <2>3. deployed_at' \in [ReleaseNos -> BOOLEAN]
      BY Zenon DEF ReleaseInv, TypeOK
    <2>4. receipts' \in Seq(Receipt)
      <3>1. [release |-> r, deployment |-> d, artifact |-> a,
             action |-> "publish", previous_release |-> active.release,
             previous_deployment |-> active.deployment] \in Receipt
        BY DEF ReleaseInv, TypeOK, ActiveRow, Receipt
      <3>. QED
        BY <3>1, AppendProperties DEF ReleaseInv, TypeOK
    <2>. QED
      BY <2>1, <2>2, <2>3, <2>4, Zenon DEF ReleaseInv, TypeOK
  <1>2. deployed_at' = [q \in ReleaseNos |-> q = r \/ deployed_at[q]]
    BY DEF ReleaseInv, TypeOK
  <1>3. /\ \A q \in ReleaseNos : state'[q] = "deployed" <=> q = r
        /\ \A q \in ReleaseNos :
             state'[q] \in PendingStates \cup {"absent"}
               => state'[q] = state[q]
        /\ \A q \in ReleaseNos :
             state'[q] = "absent" <=> state[q] = "absent"
        /\ \A q \in ReleaseNos :
             state'[q] \in {"deployed", "superseded"}
               <=> q = r \/ state[q] \in {"deployed", "superseded"}
    BY DEF PendingStates
  <1>4. Numbered' /\ EverLive' /\ PendingIsNewest'
    BY <1>2, <1>3 DEF ReleaseInv, Numbered, EverLive, PendingIsNewest,
                      PendingStates
  <1>5. HasArtifact' /\ ActiveIsDeployed'
    BY <1>3 DEF ReleaseInv, TypeOK, HasArtifact, ActiveIsDeployed, PendingStates
  <1>. QED
    BY <1>1, <1>4, <1>5 DEF ReleaseInv

LEMMA RollbackInv ==
  ASSUME ReleaseInv, NEW r \in ReleaseNos, NEW e \in ReleaseNos,
         NEW x \in DeploymentIds, NEW d \in DeploymentIds,
         NEW a \in Artifacts, RecordReleaseRollback(r, e, x, d, a)
  PROVE  ReleaseInv'
  <1>. USE DEF RecordReleaseRollback, RollbackAllowed, PriorDeployment
  <1>1. active.release \in ReleaseNos /\ active.release # r
    BY DEF ReleaseInv, TypeOK, ActiveRow, ReleaseNos
  <1>2. TypeOK'
    <2>1. state' \in [ReleaseNos -> States]
      BY DEF ReleaseInv, TypeOK, States, PendingStates
    <2>2. active' \in ActiveRow
      BY DEF ActiveRow, ReleaseNos
    <2>3. receipts' \in Seq(Receipt)
      <3>1. [release |-> r, deployment |-> d, artifact |-> a,
             action |-> "rollback", previous_release |-> active.release,
             previous_deployment |-> active.deployment] \in Receipt
        BY DEF ReleaseInv, TypeOK, ActiveRow, Receipt
      <3>. QED
        BY <3>1, AppendProperties DEF ReleaseInv, TypeOK
    <2>. QED
      BY <2>1, <2>2, <2>3, Zenon DEF ReleaseInv, TypeOK
  <1>3. state' = [q \in ReleaseNos |->
                    IF q = r THEN "deployed"
                    ELSE IF q = active.release THEN "superseded"
                    ELSE state[q]]
    BY <1>1 DEF ReleaseInv, TypeOK
  <1>. QED
    BY <1>1, <1>2, <1>3
    DEF ReleaseInv, Numbered, HasArtifact, EverLive, PendingIsNewest,
        ActiveIsDeployed, PendingStates

LEMMA WithdrawInv ==
  ASSUME ReleaseInv, NEW r \in ReleaseNos, NEW e \in ReleaseNos,
         NEW f \in DeploymentIds, NEW x \in DeploymentIds,
         NEW d \in DeploymentIds, NEW a \in Artifacts,
         RecordUnrecordedUploadRollback(r, f, e, x, d, a)
  PROVE  ReleaseInv'
  <1>. USE DEF RecordUnrecordedUploadRollback, WithdrawAllowed, WithdrawReceipts
  <1>1. TypeOK'
    <2>1. state' \in [ReleaseNos -> States]
      BY DEF ReleaseInv, TypeOK, States, PendingStates
    <2>2. active' \in ActiveRow
      BY DEF ReleaseInv, TypeOK, ActiveRow
    <2>3. receipts' \in Seq(Receipt)
      <3>. DEFINE w == [release |-> r, deployment |-> f,
                        artifact |-> artifact_hash[r],
                        action |-> "withdraw_uploaded",
                        previous_release |-> e, previous_deployment |-> x]
                  b == [release |-> e, deployment |-> d, artifact |-> a,
                        action |-> "rollback",
                        previous_release |-> r, previous_deployment |-> f]
      <3>1. w \in Receipt /\ b \in Receipt
        BY DEF ReleaseInv, TypeOK, Receipt, HasArtifact, ReleaseNos
      <3>2. <<w, b>> \in Seq(Receipt)
        BY <3>1
      <3>. QED
        BY <3>2, ConcatProperties DEF ReleaseInv, TypeOK
    <2>. QED
      BY <2>1, <2>2, <2>3, Zenon DEF ReleaseInv, TypeOK
  <1>2. state' = [q \in ReleaseNos |->
                    IF q = r THEN "upload_rolled_back" ELSE state[q]]
    BY DEF ReleaseInv, TypeOK
  <1>3. active'.release = active.release /\ active'.artifact = active.artifact
    BY DEF ReleaseInv, TypeOK, ActiveRow
  <1>. QED
    BY <1>1, <1>2, <1>3
    DEF ReleaseInv, Numbered, HasArtifact, EverLive, PendingIsNewest,
        ActiveIsDeployed, PendingStates

LEMMA NextInv == ReleaseInv /\ [Next]_releaseVars => ReleaseInv'
  <1>. SUFFICES ASSUME ReleaseInv, [Next]_releaseVars PROVE ReleaseInv'
    OBVIOUS
  <1>1. CASE \E p \in Patterns : RequestPublish(p) \/ RequestUnpublish(p)
    BY <1>1, AddChangeInv DEF RequestPublish, RequestUnpublish
  <1>2. CASE \E e \in 0..MaxReleases : PreparePublicRelease(e)
    BY <1>2, PrepareInv
  <1>3. CASE Deploy
    BY <1>3, MarkInv, NoteInv, RecordInv DEF Deploy
  <1>4. CASE \E r \in ReleaseNos : RecordReleaseFailure(r)
    BY <1>4, FailureInv
  <1>5. CASE Retreat
    BY <1>5, RollbackInv, WithdrawInv DEF Retreat
  <1>6. CASE UNCHANGED releaseVars
    BY <1>6
    DEF releaseVars, ReleaseInv, TypeOK, Numbered, HasArtifact, EverLive,
        PendingIsNewest, ActiveIsDeployed
  <1>. QED
    BY <1>1, <1>2, <1>3, <1>4, <1>5, <1>6 DEF Next

-----------------------------------------------------------------------------
(* Theorems.                                                               *)

\* The strengthened invariant holds for every behaviour of the RPCs.
THEOREM ReleaseInvariant == Spec => []ReleaseInv
  BY InitInv, NextInv, PTL DEF Spec

\* Type correctness of the five tables.
THEOREM TypeCorrect == Spec => []TypeOK
  <1>1. ReleaseInv => TypeOK
    BY DEF ReleaseInv
  <1>. QED
    BY <1>1, ReleaseInvariant, PTL

\* deployment_state and the state column never disagree on what is deployed.
THEOREM ActiveIsDeployedTheorem == Spec => []ActiveIsDeployed
  <1>1. ReleaseInv => ActiveIsDeployed
    BY DEF ReleaseInv
  <1>. QED
    BY <1>1, ReleaseInvariant, PTL

\* An unfinished release is the newest one: prepare, which takes another lock
\* than the deployment RPCs, never leaves two of them or an outdated one.
THEOREM PendingIsNewestTheorem == Spec => []PendingIsNewest
  <1>1. ReleaseInv => PendingIsNewest
    BY DEF ReleaseInv
  <1>. QED
    BY <1>1, ReleaseInvariant, PTL

-----------------------------------------------------------------------------
(* Steps: the trigger, and the abstract site.                              *)

LEMMA StepIsLegal ==
  ASSUME ReleaseInv, [Next]_releaseVars, NEW r \in ReleaseNos
  PROVE  /\ state'[r] # state[r] => LegalTransition(state[r], state'[r])
         /\ artifact_hash[r] # NoArtifact => artifact_hash'[r] = artifact_hash[r]
         /\ deployment_id[r] # NoDeployment
              => deployment_id'[r] = deployment_id[r]
         /\ state[r] # "absent" => items'[r] = items[r]
  <1>. USE DEF LegalTransition
  <1>1. CASE \E p \in Patterns : RequestPublish(p) \/ RequestUnpublish(p)
    BY <1>1 DEF RequestPublish, RequestUnpublish, AddChange
  <1>2. ASSUME NEW e \in 0..MaxReleases, PreparePublicRelease(e)
        PROVE  /\ state'[r] # state[r] => LegalTransition(state[r], state'[r])
               /\ artifact_hash'[r] = artifact_hash[r]
               /\ deployment_id'[r] = deployment_id[r]
               /\ state[r] # "absent" => items'[r] = items[r]
    <2>1. state[last_no + 1] = "absent"
      BY <1>2, BoundAssumption
      DEF PreparePublicRelease, ReleaseInv, TypeOK, Numbered, ReleaseNos
    <2>. QED
      BY <1>2, <2>1 DEF PreparePublicRelease, ReleaseInv, TypeOK
  <1>3. ASSUME NEW q \in ReleaseNos, NEW a \in Artifacts,
               MarkReleaseDeploying(q, a)
        PROVE  /\ state'[r] # state[r] => LegalTransition(state[r], state'[r])
               /\ artifact_hash[r] # NoArtifact
                    => artifact_hash'[r] = artifact_hash[r]
               /\ deployment_id'[r] = deployment_id[r] /\ items' = items
    BY <1>3 DEF MarkReleaseDeploying, MarkedRow, Row, TriggerAllows,
                ReleaseInv, TypeOK
  <1>4. ASSUME NEW q \in ReleaseNos, NEW d \in DeploymentIds,
               NEW a \in Artifacts, NoteReleaseUploaded(q, d, a)
        PROVE  /\ state'[r] # state[r] => LegalTransition(state[r], state'[r])
               /\ artifact_hash' = artifact_hash /\ items' = items
               /\ deployment_id[r] # NoDeployment
                    => deployment_id'[r] = deployment_id[r]
    BY <1>4 DEF NoteReleaseUploaded, NoteAllowed, ReleaseInv, TypeOK
  <1>5. ASSUME NEW q \in ReleaseNos, NEW d \in DeploymentIds,
               NEW a \in Artifacts, RecordDeployedRelease(q, d, a)
        PROVE  /\ state'[r] # state[r] => LegalTransition(state[r], state'[r])
               /\ artifact_hash' = artifact_hash /\ items' = items
               /\ deployment_id[r] # NoDeployment
                    => deployment_id'[r] = deployment_id[r]
    BY <1>5 DEF RecordDeployedRelease, RecordAllowed, DeployedState,
                ReleaseInv, TypeOK
  <1>6. CASE \E q \in ReleaseNos : RecordReleaseFailure(q)
    BY <1>6 DEF RecordReleaseFailure, FailureAllowed, ReleaseInv, TypeOK
  <1>7. CASE Retreat
    <2>1. ASSUME NEW q \in ReleaseNos, NEW e \in ReleaseNos,
                 NEW x \in DeploymentIds, NEW d \in DeploymentIds,
                 NEW a \in Artifacts, RecordReleaseRollback(q, e, x, d, a)
          PROVE  /\ state'[r] # state[r]
                      => LegalTransition(state[r], state'[r])
                 /\ UNCHANGED <<artifact_hash, deployment_id, items>>
      BY <2>1 DEF RecordReleaseRollback, RollbackAllowed, PriorDeployment,
                  ReleaseInv, TypeOK
    <2>2. ASSUME NEW q \in ReleaseNos, NEW e \in ReleaseNos,
                 NEW f \in DeploymentIds, NEW x \in DeploymentIds,
                 NEW d \in DeploymentIds, NEW a \in Artifacts,
                 RecordUnrecordedUploadRollback(q, f, e, x, d, a)
          PROVE  /\ state'[r] # state[r]
                      => LegalTransition(state[r], state'[r])
                 /\ UNCHANGED <<artifact_hash, deployment_id, items>>
      BY <2>2 DEF RecordUnrecordedUploadRollback, WithdrawAllowed,
                  ReleaseInv, TypeOK
    <2>. QED
      BY <1>7, <2>1, <2>2 DEF Retreat
  <1>8. CASE UNCHANGED releaseVars
    BY <1>8 DEF releaseVars
  <1>. QED
    BY <1>1, <1>2, <1>3, <1>4, <1>5, <1>6, <1>7, <1>8 DEF Next, Deploy

\* Of all the calls that the RPCs' own checks let through, the trigger
\* protect_public_release refuses only the deployment of a failed release with
\* another build than its first.
THEOREM TriggerRefusesOnlyRebuildsTheorem ==
  Spec => []TriggerRefusesOnlyRebuilds
  <1>1. ASSUME ReleaseInv PROVE TriggerRefusesOnlyRebuilds
    <2>. USE <1>1 DEF TriggerAllows, LegalTransition, Row
    <2>. SUFFICES ASSUME NEW r \in ReleaseNos, NEW d \in DeploymentIds,
                         NEW a \in Artifacts
         PROVE
           /\ MarkAllowed(r) =>
                \/ TriggerAllows(Row(r), MarkedRow(r, a))
                \/ /\ state[r] = "deploy_failed"
                   /\ artifact_hash[r] \notin {NoArtifact, a}
           /\ NoteAllowed(r, a) =>
                TriggerAllows(Row(r), [Row(r) EXCEPT
                                         !.state = "deployed_unrecorded",
                                         !.deployment = d])
           /\ RecordAllowed(r, d, a) =>
                TriggerAllows(Row(r), [Row(r) EXCEPT !.state = "deployed",
                                                     !.deployment = d])
           /\ FailureAllowed(r) =>
                TriggerAllows(Row(r), [Row(r) EXCEPT !.state = "deploy_failed"])
           /\ \A x \in DeploymentIds, e \in ReleaseNos :
                /\ RollbackAllowed(r, e, x, d, a) =>
                     /\ TriggerAllows(Row(e), [Row(e) EXCEPT
                                                 !.state = "superseded"])
                     /\ TriggerAllows(Row(r), [Row(r) EXCEPT
                                                 !.state = "deployed"])
                /\ \A f \in DeploymentIds :
                     WithdrawAllowed(r, f, e, x, d, a) =>
                       TriggerAllows(Row(r), [Row(r) EXCEPT
                                                !.state = "upload_rolled_back"])
      BY DEF TriggerRefusesOnlyRebuilds
    <2>1. MarkAllowed(r) =>
            \/ TriggerAllows(Row(r), MarkedRow(r, a))
            \/ /\ state[r] = "deploy_failed"
               /\ artifact_hash[r] \notin {NoArtifact, a}
      BY DEF MarkAllowed, MarkedRow, ReleaseInv, HasArtifact
    <2>2. NoteAllowed(r, a) =>
            TriggerAllows(Row(r), [Row(r) EXCEPT
                                     !.state = "deployed_unrecorded",
                                     !.deployment = d])
      BY DEF NoteAllowed
    <2>3. RecordAllowed(r, d, a) =>
            TriggerAllows(Row(r), [Row(r) EXCEPT !.state = "deployed",
                                                 !.deployment = d])
      BY DEF RecordAllowed
    <2>4. FailureAllowed(r) =>
            TriggerAllows(Row(r), [Row(r) EXCEPT !.state = "deploy_failed"])
      BY DEF FailureAllowed
    <2>5. ASSUME NEW x \in DeploymentIds, NEW e \in ReleaseNos,
                 RollbackAllowed(r, e, x, d, a)
          PROVE  /\ TriggerAllows(Row(e), [Row(e) EXCEPT !.state = "superseded"])
                 /\ TriggerAllows(Row(r), [Row(r) EXCEPT !.state = "deployed"])
      BY <2>5 DEF RollbackAllowed, PriorDeployment
    <2>6. ASSUME NEW x \in DeploymentIds, NEW e \in ReleaseNos,
                 NEW f \in DeploymentIds, WithdrawAllowed(r, f, e, x, d, a)
          PROVE  TriggerAllows(Row(r), [Row(r) EXCEPT
                                          !.state = "upload_rolled_back"])
      BY <2>6 DEF WithdrawAllowed
    <2>. QED
      BY <2>1, <2>2, <2>3, <2>4, <2>5, <2>6
  <1>. QED
    BY <1>1, ReleaseInvariant, PTL

LEMMA SiteStep == ReleaseInv /\ [Next]_releaseVars => [Site!Next]_(Site!vars)
  <1>. SUFFICES ASSUME ReleaseInv, [Next]_releaseVars
                PROVE  [Site!Next]_(Site!vars)
    OBVIOUS
  <1>. USE DEF Site!vars
  <1>1. CASE UNCHANGED <<active, deployed_at>>
    BY <1>1
  <1>2. ASSUME NEW r \in ReleaseNos, NEW d \in DeploymentIds,
               NEW a \in Artifacts, RecordDeployedRelease(r, d, a)
        PROVE  Site!Next
    <2>1. r = last_no /\ ~deployed_at[r]
      BY <1>2 DEF RecordDeployedRelease, RecordAllowed, ReleaseInv,
                  PendingIsNewest, PendingStates, EverLive
    <2>2. \A q \in ReleaseNos : deployed_at[q] => q < r
      BY <2>1 DEF ReleaseInv, TypeOK, Numbered, EverLive, ReleaseNos
    <2>3. {q \in ReleaseNos : deployed_at'[q]}
            = {q \in ReleaseNos : deployed_at[q]} \cup {r}
      BY <1>2 DEF RecordDeployedRelease, RecordAllowed, ReleaseInv, TypeOK
    <2>4. active'.release = r
      BY <1>2 DEF RecordDeployedRelease, RecordAllowed
    <2>5. Site!Publish(r)
      BY <2>2, <2>3, <2>4 DEF Site!Publish
    <2>. QED
      BY <2>5 DEF Site!Next, ReleaseNos
  <1>3. ASSUME NEW r \in ReleaseNos, NEW e \in ReleaseNos,
               NEW x \in DeploymentIds, NEW d \in DeploymentIds,
               NEW a \in Artifacts, RecordReleaseRollback(r, e, x, d, a)
        PROVE  Site!Next
    <2>1. Site!RollBack(r)
      BY <1>3 DEF RecordReleaseRollback, RollbackAllowed, PriorDeployment,
                  Site!RollBack
    <2>. QED
      BY <2>1 DEF Site!Next, ReleaseNos
  <1>4. ASSUME NEW r \in ReleaseNos, NEW e \in ReleaseNos,
               NEW f \in DeploymentIds, NEW x \in DeploymentIds,
               NEW d \in DeploymentIds, NEW a \in Artifacts,
               RecordUnrecordedUploadRollback(r, f, e, x, d, a)
        PROVE  UNCHANGED Site!vars
    BY <1>4 DEF RecordUnrecordedUploadRollback, ReleaseInv, TypeOK, ActiveRow
  <1>. QED
    BY <1>1, <1>2, <1>3, <1>4
    DEF Next, Deploy, Retreat, RequestPublish, RequestUnpublish, AddChange,
        PreparePublicRelease, MarkReleaseDeploying, NoteReleaseUploaded,
        RecordReleaseFailure, releaseVars

\* The tables and RPCs implement the abstract site: the public only ever sees
\* a release newer than all before it, or one restored by an explicit rollback.
THEOREM Implementation == Spec => ImplementsLiveSite
  <1>1. Init => Site!Init
    BY DEF Init, Site!Init, NoActive
  <1>. QED
    BY <1>1, SiteStep, ReleaseInvariant, PTL
    DEF Spec, ImplementsLiveSite, Site!Spec

-----------------------------------------------------------------------------
(* The ledger.                                                             *)

LEMMA AppendLast ==
  ASSUME NEW S, NEW s \in Seq(S), NEW x \in S
  PROVE  /\ Append(s, x) \in Seq(S) /\ Append(s, x) # <<>>
         /\ Len(Append(s, x)) = Len(s) + 1
         /\ Append(s, x)[Len(s) + 1] = x
         /\ \A i \in 1..Len(s) : Append(s, x)[i] = s[i]
         /\ DOMAIN Append(s, x) = 1..(Len(s) + 1)
  OBVIOUS

LEMMA LedgerPublish ==
  ASSUME ReleaseInv, ReceiptsReplayToActive,
         NEW x \in Receipt, x.previous_release = active.release,
         x.previous_deployment = active.deployment,
         receipts' = Append(receipts, x),
         active' = [release |-> x.release, deployment |-> x.deployment,
                    artifact |-> x.artifact]
  PROVE  ReceiptsReplayToActive'
  <1>1. receipts \in Seq(Receipt) /\ DOMAIN receipts = 1..Len(receipts)
        /\ Len(receipts) \in Nat
    BY LenProperties DEF ReleaseInv, TypeOK
  <1>2. /\ receipts' # <<>> /\ Len(receipts') = Len(receipts) + 1
        /\ receipts'[Len(receipts) + 1] = x
        /\ \A i \in 1..Len(receipts) : receipts'[i] = receipts[i]
        /\ DOMAIN receipts' = 1..(Len(receipts) + 1)
    BY <1>1, AppendLast
  <1>3. active'.release # 0
    BY DEF Receipt, ReleaseNos
  <1>4. ASSUME NEW j \in DOMAIN receipts', j > 1
        PROVE  /\ receipts'[j].previous_release = receipts'[j - 1].release
               /\ receipts'[j].previous_deployment
                    = receipts'[j - 1].deployment
    <2>1. CASE j \in 1..Len(receipts)
      <3>1. j \in DOMAIN receipts /\ j - 1 \in 1..Len(receipts)
        BY <1>1, <1>4, <2>1
      <3>2. /\ receipts[j].previous_release = receipts[j - 1].release
            /\ receipts[j].previous_deployment = receipts[j - 1].deployment
        BY <1>4, <3>1, Zenon DEF ReceiptsReplayToActive
      <3>3. receipts'[j] = receipts[j] /\ receipts'[j - 1] = receipts[j - 1]
        BY <1>2, <2>1, <3>1
      <3>. QED
        BY <3>2, <3>3
    <2>2. CASE j = Len(receipts) + 1
      <3>1. receipts # <<>> /\ Len(receipts) \in 1..Len(receipts)
        BY <1>1, <1>4, <2>2, EmptySeq
      <3>2. /\ active.release = receipts[Len(receipts)].release
            /\ active.deployment = receipts[Len(receipts)].deployment
        BY <3>1 DEF ReceiptsReplayToActive
      <3>. QED
        BY <1>1, <1>2, <2>2, <3>1, <3>2
    <2>3. j \in 1..(Len(receipts) + 1)
      BY <1>2, Zenon
    <2>4. j \in 1..Len(receipts) \/ j = Len(receipts) + 1
      BY <1>1, <2>3
    <2>. QED
      BY <2>1, <2>2, <2>4, Zenon
  <1>. QED
    BY <1>2, <1>3, <1>4 DEF ReceiptsReplayToActive

LEMMA LedgerWithdraw ==
  ASSUME ReleaseInv, ReceiptsReplayToActive,
         NEW r \in ReleaseNos, NEW e \in ReleaseNos,
         NEW f \in DeploymentIds, NEW x \in DeploymentIds,
         NEW d \in DeploymentIds, NEW a \in Artifacts,
         RecordUnrecordedUploadRollback(r, f, e, x, d, a)
  PROVE  ReceiptsReplayToActive'
  <1>. DEFINE w == [release |-> r, deployment |-> f,
                    artifact |-> artifact_hash[r],
                    action |-> "withdraw_uploaded",
                    previous_release |-> e, previous_deployment |-> x]
              b == [release |-> e, deployment |-> d, artifact |-> a,
                    action |-> "rollback",
                    previous_release |-> r, previous_deployment |-> f]
              n == Len(receipts)
  <1>. USE DEF RecordUnrecordedUploadRollback, WithdrawAllowed, WithdrawReceipts
  <1>1. receipts \in Seq(Receipt) /\ DOMAIN receipts = 1..n /\ n \in Nat
    BY LenProperties DEF ReleaseInv, TypeOK
  <1>2. w \in Receipt /\ b \in Receipt
    BY DEF ReleaseInv, TypeOK, Receipt, HasArtifact, ReleaseNos
  <1>3. <<w, b>> \in Seq(Receipt) /\ Len(<<w, b>>) = 2
    BY <1>2
  <1>4. receipts' = receipts \o <<w, b>>
    OBVIOUS
  <1>5. /\ Len(receipts') = n + 2 /\ DOMAIN receipts' = 1..(n + 2)
        /\ receipts'[n + 1] = w /\ receipts'[n + 2] = b
        /\ \A i \in 1..n : receipts'[i] = receipts[i]
    <2>. HIDE DEF w, b
    <2>. QED
      BY <1>1, <1>3, <1>4, ConcatProperties, LenProperties
  <1>6. /\ receipts # <<>> /\ n >= 1
        /\ receipts[n].release = e /\ receipts[n].deployment = x
    <2>1. receipts # <<>>
      BY DEF ReceiptsReplayToActive, ReleaseNos
    <2>2. n >= 1
      BY <1>1, <2>1, EmptySeq
    <2>. QED
      BY <2>1, <2>2 DEF ReceiptsReplayToActive
  <1>7. active' = [release |-> e, deployment |-> d, artifact |-> a]
    BY DEF ReleaseInv, TypeOK, ActiveRow
  <1>8. ASSUME NEW j \in DOMAIN receipts', j > 1
        PROVE  /\ receipts'[j].previous_release = receipts'[j - 1].release
               /\ receipts'[j].previous_deployment
                    = receipts'[j - 1].deployment
    <2>1. CASE j \in 1..n
      <3>1. j \in DOMAIN receipts /\ j - 1 \in 1..n
        BY <1>1, <1>8, <2>1
      <3>2. /\ receipts[j].previous_release = receipts[j - 1].release
            /\ receipts[j].previous_deployment = receipts[j - 1].deployment
        BY <1>8, <3>1, Zenon DEF ReceiptsReplayToActive
      <3>3. receipts'[j] = receipts[j] /\ receipts'[j - 1] = receipts[j - 1]
        BY <1>5, <2>1, <3>1
      <3>. QED
        BY <3>2, <3>3
    <2>2. CASE j = n + 1
      BY <1>1, <1>5, <1>6, <2>2
    <2>3. CASE j = n + 2
      BY <1>1, <1>5, <2>3
    <2>4. j \in 1..(n + 2)
      BY <1>5, Zenon
    <2>5. j \in 1..n \/ j = n + 1 \/ j = n + 2
      BY <1>1, <2>4
    <2>. QED
      BY <2>1, <2>2, <2>3, <2>5, Zenon
  <1>9. receipts' # <<>> /\ active'.release # 0
    <2>1. receipts' \in Seq(Receipt)
      BY <1>1, <1>3, <1>4, ConcatProperties
    <2>2. Len(receipts') # 0
      BY <1>1, <1>5
    <2>. QED
      BY <1>7, <2>1, <2>2, EmptySeq DEF ReleaseNos
  <1>10. LET final == receipts'[Len(receipts')]
         IN  active' = [release |-> final.release,
                        deployment |-> final.deployment,
                        artifact |-> final.artifact]
    <2>1. receipts'[Len(receipts')] = b
      BY <1>5, Zenon
    <2>2. active' = [release |-> b.release, deployment |-> b.deployment,
                     artifact |-> b.artifact]
      BY <1>7
    <2>. QED
      BY <2>1, <2>2, Zenon
  <1>. HIDE DEF RecordUnrecordedUploadRollback, w, b, n
  <1>. QED
    BY <1>8, <1>9, <1>10 DEF ReceiptsReplayToActive

LEMMA LedgerStep ==
  ReleaseInv /\ ReceiptsReplayToActive /\ [Next]_releaseVars
    => ReceiptsReplayToActive'
  <1>. SUFFICES ASSUME ReleaseInv, ReceiptsReplayToActive, [Next]_releaseVars
                PROVE  ReceiptsReplayToActive'
    OBVIOUS
  <1>1. CASE UNCHANGED <<active, receipts>>
    BY <1>1 DEF ReceiptsReplayToActive
  <1>2. ASSUME NEW r \in ReleaseNos, NEW d \in DeploymentIds,
               NEW a \in Artifacts, RecordDeployedRelease(r, d, a)
        PROVE  ReceiptsReplayToActive'
    <2>. DEFINE x == [release |-> r, deployment |-> d, artifact |-> a,
                      action |-> "publish",
                      previous_release |-> active.release,
                      previous_deployment |-> active.deployment]
    <2>1. x \in Receipt
      BY DEF Receipt, ReleaseInv, TypeOK, ActiveRow
    <2>. QED
      BY <1>2, <2>1, LedgerPublish DEF RecordDeployedRelease, RecordAllowed
  <1>3. ASSUME NEW r \in ReleaseNos, NEW e \in ReleaseNos,
               NEW y \in DeploymentIds, NEW d \in DeploymentIds,
               NEW a \in Artifacts, RecordReleaseRollback(r, e, y, d, a)
        PROVE  ReceiptsReplayToActive'
    <2>. DEFINE x == [release |-> r, deployment |-> d, artifact |-> a,
                      action |-> "rollback",
                      previous_release |-> active.release,
                      previous_deployment |-> active.deployment]
    <2>1. x \in Receipt
      BY DEF Receipt, ReleaseInv, TypeOK, ActiveRow
    <2>. QED
      BY <1>3, <2>1, LedgerPublish DEF RecordReleaseRollback, RollbackAllowed
  <1>. QED
    BY <1>1, <1>2, <1>3, LedgerWithdraw
    DEF Next, Deploy, Retreat, RequestPublish, RequestUnpublish, AddChange,
        PreparePublicRelease, MarkReleaseDeploying, NoteReleaseUploaded,
        RecordReleaseFailure, releaseVars

\* The append-only receipts are a chain whose end is the active row.
THEOREM LedgerTheorem == Spec => []ReceiptsReplayToActive
  <1>1. Init => ReceiptsReplayToActive
    BY DEF Init, ReceiptsReplayToActive, NoActive
  <1>. QED
    BY <1>1, LedgerStep, ReleaseInvariant, PTL DEF Spec

-----------------------------------------------------------------------------
(* Contents.                                                               *)

\* A change is applied in a release that exists, so what a later prepare or a
\* later request does cannot alter the meaning of an older manifest.
AppliedExists == \A i \in DOMAIN changes : changes[i].applied_release <= last_no

LEMMA ContentKept ==
  ASSUME ReleaseInv, ManifestFollowsChanges, AppliedExists,
         UNCHANGED <<changes, last_no, items>>,
         \A q \in ReleaseNos : deployed_at[q] => deployed_at'[q]
  PROVE  ManifestFollowsChanges' /\ AppliedExists'
  <1>1. AppliedExists'
    BY DEF AppliedExists
  <1>2. \A q, r, p : ItemOver(q, r, p)' = ItemOver(q, r, p)
    BY DEF ItemOver, AppliedIn
  <1>3. ASSUME NEW r \in 1..last_no
        PROVE  \E q \in 0..(r - 1) :
                 /\ q # 0 => deployed_at'[q]
                 /\ \A p \in Patterns : items[r][p] = ItemOver(q, r, p)
    <2>1. PICK q \in 0..(r - 1) :
            /\ q # 0 => deployed_at[q]
            /\ \A p \in Patterns : items[r][p] = ItemOver(q, r, p)
      BY DEF ManifestFollowsChanges
    <2>2. q # 0 => q \in ReleaseNos
      BY BoundAssumption DEF ReleaseInv, TypeOK, ReleaseNos
    <2>. QED
      BY <2>1, <2>2
  <1>. QED
    BY <1>1, <1>2, <1>3 DEF ManifestFollowsChanges

LEMMA ContentOfRequest ==
  ASSUME ReleaseInv, ManifestFollowsChanges, AppliedExists,
         NEW p \in Patterns, NEW action \in {"publish", "unpublish"},
         AddChange(p, action)
  PROVE  ManifestFollowsChanges' /\ AppliedExists'
  <1>. DEFINE c == [pattern |-> p, action |-> action, applied_release |-> 0]
              n == Len(changes)
  <1>1. c \in Change /\ changes \in Seq(Change) /\ n \in Nat
        /\ DOMAIN changes = 1..n
    BY BoundAssumption, LenProperties DEF Change, ReleaseInv, TypeOK
  <1>2. /\ DOMAIN changes' = 1..(n + 1) /\ changes'[n + 1] = c
        /\ \A i \in 1..n : changes'[i] = changes[i]
    BY <1>1, AppendLast DEF AddChange
  <1>3. UNCHANGED <<last_no, items, deployed_at>> /\ last_no \in Nat
    BY DEF AddChange, ReleaseInv, TypeOK
  <1>4. AppliedExists'
    BY <1>1, <1>2, <1>3 DEF AppliedExists
  <1>5. ASSUME NEW r \in 1..last_no, NEW o PROVE AppliedIn(r, o)' = AppliedIn(r, o)
    BY <1>1, <1>2, <1>3 DEF AppliedIn
  <1>6. ASSUME NEW r \in 1..last_no, NEW o, NEW q,
               NEW i, i = Newest(AppliedIn(r, o)), AppliedIn(r, o) # {}
        PROVE  changes'[i] = changes[i]
    <2>1. AppliedIn(r, o) \subseteq 1..n
      BY <1>1 DEF AppliedIn
    <2>. QED
      BY <1>1, <1>2, <1>6, <2>1, NewestInSet
  <1>7. ASSUME NEW r \in 1..last_no, NEW o, NEW q
        PROVE  ItemOver(q, r, o)' = ItemOver(q, r, o)
    BY <1>3, <1>5, <1>6 DEF ItemOver
  <1>. QED
    BY <1>3, <1>4, <1>7 DEF ManifestFollowsChanges

LEMMA ContentOfPrepare ==
  ASSUME ReleaseInv, ManifestFollowsChanges, AppliedExists,
         NEW e \in 0..MaxReleases, PreparePublicRelease(e)
  PROVE  ManifestFollowsChanges' /\ AppliedExists'
  <1>. DEFINE n == Len(changes)
  <1>0. PICK new \in ReleaseNos : new = last_no + 1
    BY BoundAssumption DEF ReleaseInv, TypeOK, PreparePublicRelease, ReleaseNos
  <1>1. /\ changes \in Seq(Change) /\ n \in Nat /\ DOMAIN changes = 1..n
        /\ last_no \in Nat /\ new = last_no + 1 /\ last_no' = new
        /\ deployed_at' = deployed_at
    BY <1>0, BoundAssumption, LenProperties
    DEF ReleaseInv, TypeOK, PreparePublicRelease, ReleaseNos
  <1>2. /\ DOMAIN changes' = 1..n
        /\ \A i \in 1..n :
             /\ changes'[i].pattern = changes[i].pattern
             /\ changes'[i].action = changes[i].action
             /\ changes'[i].applied_release =
                  IF changes[i].applied_release = 0
                  THEN new ELSE changes[i].applied_release
    <2>1. ASSUME NEW i \in 1..n PROVE changes[i] \in Change
      BY <1>1, ElementOfSeq
    <2>. QED
      BY <1>1, <2>1 DEF PreparePublicRelease, Change
  <1>3. \A i \in 1..n : changes[i].applied_release \in 0..last_no
    <2>. SUFFICES ASSUME NEW i \in 1..n
                  PROVE  changes[i].applied_release \in 0..last_no
      OBVIOUS
    <2>1. changes[i] \in Change
      BY <1>1, ElementOfSeq
    <2>2. changes[i].applied_release \in 0..MaxReleases
      BY <2>1 DEF Change
    <2>3. changes[i].applied_release <= last_no
      BY <1>1 DEF AppliedExists
    <2>. QED
      BY <1>1, <2>2, <2>3, BoundAssumption
  <1>4. AppliedExists'
    BY <1>1, <1>2, <1>3 DEF AppliedExists
  <1>5. ASSUME NEW p PROVE AppliedIn(new, p)' = Unapplied(p)
    BY <1>1, <1>2, <1>3 DEF AppliedIn, Unapplied
  <1>6. ASSUME NEW p, NEW r \in 1..last_no
        PROVE  AppliedIn(r, p)' = AppliedIn(r, p)
    BY <1>1, <1>2, <1>3 DEF AppliedIn
  <1>7. items' = [items EXCEPT ![new] = [p \in Patterns |-> NewItem(e, p)]]
    BY <1>1 DEF PreparePublicRelease
  <1>8. \A r \in 1..last_no : items'[r] = items[r]
    BY <1>1, <1>7 DEF ReleaseInv, TypeOK, ReleaseNos
  <1>9. ASSUME NEW S \in SUBSET (1..n), S # {}
        PROVE  changes'[Newest(S)].action = changes[Newest(S)].action
    <2>1. Newest(S) \in 1..n
      BY <1>1, <1>9, NewestInSet
    <2>. QED
      BY <1>2, <2>1
  <1>10. e \in 0..last_no /\ (e # 0 => deployed_at[e])
    <2>1. CASE e = 0
      BY <1>1, <2>1
    <2>2. CASE e # 0
      <3>. DEFINE live == {r \in ReleaseNos : state[r] = "deployed"}
      <3>1. live \subseteq 1..MaxReleases
        BY DEF ReleaseNos
      <3>2. e = Newest(live) /\ live # {}
        BY <2>2 DEF PreparePublicRelease, DeployedRelease, Newest
      <3>3. e \in live
        BY <3>1, <3>2, NewestInSet, BoundAssumption
      <3>. QED
        BY <3>3, <1>1 DEF ReleaseInv, Numbered, EverLive, ReleaseNos
    <2>. QED
      BY <2>1, <2>2
  <1>11. ASSUME NEW p \in Patterns
         PROVE  items'[new][p] = ItemOver(e, new, p)'
    <2>1. items'[new][p] = NewItem(e, p)
      BY <1>1, <1>7 DEF ReleaseInv, TypeOK
    <2>2. CASE Unapplied(p) = {}
      <3>1. e # 0 => items'[e] = items[e]
        BY <1>1, <1>8, <1>10
      <3>. QED
        BY <1>5, <2>1, <2>2, <3>1 DEF NewItem, ItemOver
    <2>3. CASE Unapplied(p) # {}
      <3>1. Unapplied(p) \in SUBSET (1..n)
        BY <1>1 DEF Unapplied
      <3>2. changes'[Newest(Unapplied(p))].action
              = changes[Newest(Unapplied(p))].action
        BY <1>9, <2>3, <3>1
      <3>. QED
        BY <1>5, <2>1, <2>3, <3>2 DEF NewItem, ItemOver
    <2>. QED
      BY <2>2, <2>3
  <1>12. ASSUME NEW r \in 1..last_no, NEW q \in 0..(r - 1), NEW p
         PROVE  ItemOver(q, r, p)' = ItemOver(q, r, p)
    <2>1. q # 0 => items'[q] = items[q]
      BY <1>1, <1>8
    <2>2. CASE AppliedIn(r, p) = {}
      BY <1>6, <2>1, <2>2 DEF ItemOver
    <2>3. CASE AppliedIn(r, p) # {}
      <3>1. AppliedIn(r, p) \in SUBSET (1..n)
        BY <1>1 DEF AppliedIn
      <3>. QED
        BY <1>6, <1>9, <2>3, <3>1 DEF ItemOver
    <2>. QED
      BY <2>2, <2>3
  <1>13. ASSUME NEW r \in 1..new
         PROVE  \E q \in 0..(r - 1) :
                  /\ q # 0 => deployed_at'[q]
                  /\ \A p \in Patterns : items'[r][p] = ItemOver(q, r, p)'
    <2>1. CASE r = new
      BY <1>1, <1>10, <1>11, <2>1
    <2>2. CASE r \in 1..last_no
      <3>1. PICK q \in 0..(r - 1) :
              /\ q # 0 => deployed_at[q]
              /\ \A p \in Patterns : items[r][p] = ItemOver(q, r, p)
        BY <2>2 DEF ManifestFollowsChanges
      <3>. QED
        BY <1>1, <1>8, <1>12, <2>2, <3>1
    <2>. QED
      BY <1>1, <2>1, <2>2
  <1>. QED
    BY <1>1, <1>4, <1>13 DEF ManifestFollowsChanges

LEMMA ContentStep ==
  ReleaseInv /\ ManifestFollowsChanges /\ AppliedExists /\ [Next]_releaseVars
    => ManifestFollowsChanges' /\ AppliedExists'
  <1>. SUFFICES ASSUME ReleaseInv, ManifestFollowsChanges, AppliedExists,
                       [Next]_releaseVars
                PROVE  ManifestFollowsChanges' /\ AppliedExists'
    OBVIOUS
  <1>1. CASE \E p \in Patterns : RequestPublish(p) \/ RequestUnpublish(p)
    BY <1>1, ContentOfRequest DEF RequestPublish, RequestUnpublish
  <1>2. CASE \E e \in 0..MaxReleases : PreparePublicRelease(e)
    BY <1>2, ContentOfPrepare
  <1>3. ASSUME NEW r \in ReleaseNos, NEW d \in DeploymentIds,
               NEW a \in Artifacts, RecordDeployedRelease(r, d, a)
        PROVE  /\ UNCHANGED <<changes, last_no, items>>
               /\ \A q \in ReleaseNos : deployed_at[q] => deployed_at'[q]
    BY <1>3 DEF RecordDeployedRelease, RecordAllowed, ReleaseInv, TypeOK
  <1>4. CASE \/ Retreat
             \/ \E r \in ReleaseNos : RecordReleaseFailure(r)
             \/ UNCHANGED releaseVars
    <2>1. ASSUME NEW r \in ReleaseNos, NEW e \in ReleaseNos,
                 NEW x \in DeploymentIds, NEW d \in DeploymentIds,
                 NEW a \in Artifacts, RecordReleaseRollback(r, e, x, d, a)
          PROVE  UNCHANGED <<changes, last_no, items, deployed_at>>
      BY <2>1, Zenon DEF RecordReleaseRollback, RollbackAllowed
    <2>2. ASSUME NEW r \in ReleaseNos, NEW e \in ReleaseNos,
                 NEW f \in DeploymentIds, NEW x \in DeploymentIds,
                 NEW d \in DeploymentIds, NEW a \in Artifacts,
                 RecordUnrecordedUploadRollback(r, f, e, x, d, a)
          PROVE  UNCHANGED <<changes, last_no, items, deployed_at>>
      BY <2>2, Zenon DEF RecordUnrecordedUploadRollback
    <2>3. UNCHANGED <<changes, last_no, items, deployed_at>>
      BY <1>4, <2>1, <2>2, Zenon
      DEF Retreat, RecordReleaseFailure, releaseVars
    <2>. QED
      BY <2>3, ContentKept, Zenon
  <1>5. CASE Deploy
    BY <1>3, <1>5, ContentKept
    DEF Deploy, MarkReleaseDeploying, NoteReleaseUploaded
  <1>. QED
    BY <1>1, <1>2, <1>4, <1>5 DEF Next

\* Every manifest is a manifest that was live with its own changes applied.
THEOREM ManifestTheorem == Spec => []ManifestFollowsChanges
  <1>1. Init => ManifestFollowsChanges /\ AppliedExists
    BY DEF Init, ManifestFollowsChanges, AppliedExists
  <1>. QED
    BY <1>1, ContentStep, ReleaseInvariant, PTL DEF Spec
=============================================================================
