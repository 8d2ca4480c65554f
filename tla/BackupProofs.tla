---------------------------- MODULE BackupProofs ----------------------------
(***************************************************************************)
(* Theorems about Backup, for any number of backups and of faults.  That a *)
(* manifest in the bucket means a backup rests on the order of the upload: *)
(* a request for a manifest, on its way or forgotten, exists only once the *)
(* whole ciphertext was read back.                                         *)
(***************************************************************************)
EXTENDS Backup, TLAPS

Pcs == {"idle", "judge", "list", "put", "read"}

WorkerRecord == [pc : Pcs, object : 0 .. MaxBackups, part : Parts,
                 digest : Contents, failed : SUBSET {"pg_dump", "age"}]

\* A manifest on the runner is torn or that of a whole dump; the process that
\* is about to seal a ciphertext has a whole one.
SealsWhole ==
  /\ \A o \in Objects :
       disk[o]["manifest"] \in {"absent", "torn", "manifest of whole"}
  /\ At("judge") /\ worker.failed = {} =>
       disk[worker.object]["ciphertext"] = "whole"

\* Only an object that was started has a ciphertext.
FilesAreStarted ==
  \A o \in Objects : disk[o]["ciphertext"] # "absent" => o \in 1 .. started

\* An upload at work compares with what is on the runner, and comes to the
\* manifest when the ciphertext is in the bucket.
UploadIsOrdered ==
  worker.pc \in {"list", "put", "read"} =>
    /\ disk[worker.object]["ciphertext"] = "whole"
    /\ disk[worker.object]["manifest"] = "manifest of whole"
    /\ worker.part = "ciphertext" => worker.digest = "whole"
    /\ worker.part = "manifest" =>
         /\ worker.digest = "manifest of whole"
         /\ bucket[worker.object]["ciphertext"] = "whole"

\* So does a request that nobody waits for any more.
FlyingIsOrdered ==
  \A p \in flying :
    /\ p.part = "ciphertext" => p.content = "whole"
    /\ p.part = "manifest" => /\ p.content = "manifest of whole"
                              /\ bucket[p.object]["ciphertext"] = "whole"

StoredIsWhole ==
  \A o \in Objects : bucket[o]["ciphertext"] \in {"absent", "whole"}

BackupInv ==
  /\ BackupTypeOK /\ worker \in WorkerRecord
  /\ SealsWhole /\ FilesAreStarted
  /\ UploadIsOrdered /\ FlyingIsOrdered /\ StoredIsWhole
  /\ ManifestMeansBackup /\ VerifiedIsStored

-----------------------------------------------------------------------------
LEMMA InitInv == Init => BackupInv
  BY BackupAssumption
  DEF Init, BackupInv, BackupTypeOK, WorkerRecord, Pcs, SealsWhole, FilesAreStarted,
      UploadIsOrdered, FlyingIsOrdered, StoredIsWhole, ManifestMeansBackup,
      VerifiedIsStored, Idle, At, Objects, Parts, Contents

\* What stays as it is in the bucket and among the requests keeps its parts of
\* the invariant.
LEMMA BucketUntouched ==
  ASSUME BackupInv, UNCHANGED <<bucket, flying>>
  PROVE  /\ FlyingIsOrdered' /\ StoredIsWhole' /\ ManifestMeansBackup'
         /\ UNCHANGED verified => VerifiedIsStored'
  BY DEF BackupInv, FlyingIsOrdered, StoredIsWhole, ManifestMeansBackup,
         VerifiedIsStored

\* A process that goes idle has nothing to keep.
LEMMA IdleWorker ==
  ASSUME BackupInv, worker' = Idle
  PROVE  /\ worker' \in WorkerRecord /\ worker'.pc = "idle"
         /\ UploadIsOrdered'
  BY BackupAssumption
  DEF Idle, WorkerRecord, Pcs, UploadIsOrdered, Parts, Contents

LEMMA StreamStep == BackupInv /\ Stream => BackupInv'
  <1>. SUFFICES ASSUME BackupInv, Stream PROVE BackupInv'
    OBVIOUS
  <1>. DEFINE o == started + 1
  <1>1. o \in Objects /\ started \in Nat
    BY BackupAssumption DEF Stream, BackupInv, BackupTypeOK, Objects
  <1>2. PICK failed \in SUBSET {"pg_dump", "age"} :
          /\ worker' = [Idle EXCEPT !.pc = "judge", !.object = o, !.failed = failed]
          /\ disk' = [disk EXCEPT ![o]["ciphertext"] = IF failed = {} THEN "whole" ELSE "cut"]
          /\ IF failed = {} THEN UNCHANGED faults ELSE Fault
    BY DEF Stream
  <1>3a. worker' = [pc |-> "judge", object |-> o, part |-> "ciphertext", digest |-> "absent", failed |-> failed]
    BY <1>2 DEF Idle
  <1>3. worker' \in WorkerRecord /\ worker'.pc = "judge" /\ worker'.object = o /\ worker'.failed = failed
        /\ worker'.part = "ciphertext" /\ worker'.digest = "absent"
    BY <1>1, <1>3a, BackupAssumption DEF WorkerRecord, Pcs, Parts, Contents, Objects
  <1>4. disk' \in [Objects -> [Parts -> Contents]]
    BY <1>1, <1>2 DEF BackupInv, BackupTypeOK, Parts, Contents
  <1>5. faults' \in 0 .. MaxFaults
    BY <1>2, BackupAssumption DEF Fault, BackupInv, BackupTypeOK
  <1>6. BackupTypeOK'
    <2>1. started' = o /\ started' \in 0 .. MaxBackups
      BY <1>1, BackupAssumption DEF Stream, Objects
    <2>2. UNCHANGED <<bucket, flying, verified>>
      BY DEF Stream
    <2>3. worker'.pc \in Pcs /\ worker'.failed \subseteq {"pg_dump", "age"} /\ worker'.part \in Parts
          /\ worker'.digest \in Contents
      BY <1>3 DEF WorkerRecord
    <2>4. worker'.object \in 1 .. started'
      BY <1>1, <1>3, <2>1
    <2>. QED
      BY <1>3, <1>4, <1>5, <2>1, <2>2, <2>3, <2>4 DEF BackupInv, BackupTypeOK, Pcs
  <1>7. SealsWhole' /\ UploadIsOrdered' /\ FilesAreStarted'
    <2>1. \A q \in Objects : disk'[q]["manifest"] = disk[q]["manifest"]
      BY <1>1, <1>2 DEF BackupInv, BackupTypeOK, Parts
    <2>2. failed = {} => disk'[o]["ciphertext"] = "whole"
      BY <1>1, <1>2 DEF BackupInv, BackupTypeOK, Parts
    <2>3. \A q \in Objects : q # o => disk'[q] = disk[q]
      BY <1>1, <1>2 DEF BackupInv, BackupTypeOK
    <2>4. started' = o
      BY DEF Stream
    <2>5. SealsWhole'
      BY <1>3, <2>1, <2>2 DEF BackupInv, SealsWhole, At
    <2>6. FilesAreStarted'
      BY <1>1, <2>3, <2>4 DEF BackupInv, FilesAreStarted, Objects
    <2>. QED
      BY <1>3, <2>5, <2>6 DEF UploadIsOrdered
  <1>. QED
    BY <1>3, <1>6, <1>7, BucketUntouched DEF Stream, BackupInv

LEMMA JudgeStep == BackupInv /\ Judge => BackupInv'
  <1>. SUFFICES ASSUME BackupInv, Judge PROVE BackupInv'
    OBVIOUS
  <1>. DEFINE o == worker.object
  <1>1. o \in Objects /\ o \in 1 .. started
    BY BackupAssumption DEF Judge, At, BackupInv, BackupTypeOK, Objects
  <1>. DEFINE JudgedDisk ==
                /\ disk' \in [Objects -> [Parts -> Contents]]
                /\ \A q \in Objects : disk'[q]["manifest"] \in {"absent", "torn", "manifest of whole"}
                /\ \A q \in Objects : disk'[q]["ciphertext"] \in {disk[q]["ciphertext"], "absent"}
  <1>2. JudgedDisk
    <2>0. /\ disk \in [Objects -> [Parts -> Contents]] /\ "ciphertext" \in Parts /\ "manifest" \in Parts
          /\ {"absent", "torn", "manifest of whole"} \subseteq Contents
      BY DEF BackupInv, BackupTypeOK, Parts, Contents
    <2>4. /\ Unlinked \in [Objects -> [Parts -> Contents]]
          /\ \A q \in Objects, r \in Parts :
               Unlinked[q][r] = IF q = o /\ r = "ciphertext" THEN "absent" ELSE disk[q][r]
      BY <1>1, <2>0 DEF Unlinked, Parts
    <2>1. CASE /\ worker.failed = {}
               /\ disk' = [disk EXCEPT ![o]["manifest"] = Sealed(disk[o]["ciphertext"])]
      <3>1. disk' = [disk EXCEPT ![o]["manifest"] = "manifest of whole"]
        BY <2>1 DEF Judge, BackupInv, SealsWhole, Sealed
      <3>2. /\ disk' \in [Objects -> [Parts -> Contents]]
            /\ \A q \in Objects : disk'[q]["ciphertext"] = disk[q]["ciphertext"]
        BY <1>1, <2>0, <3>1 DEF Parts
      <3>3. \A q \in Objects : disk'[q]["manifest"] \in {"absent", "torn", "manifest of whole"}
        BY <1>1, <2>0, <3>1 DEF BackupInv, SealsWhole, Parts
      <3>. QED
        BY <3>2, <3>3
    <2>2. ASSUME NEW left \in {"absent", "torn"}, disk' = [Unlinked EXCEPT ![o]["manifest"] = left]
          PROVE  JudgedDisk
      <3>1. /\ disk' \in [Objects -> [Parts -> Contents]]
            /\ \A q \in Objects : disk'[q]["ciphertext"] = Unlinked[q]["ciphertext"]
        BY <1>1, <2>0, <2>4, <2>2 DEF Parts
      <3>2. \A q \in Objects : disk'[q]["manifest"] \in {"absent", "torn", "manifest of whole"}
        BY <1>1, <2>0, <2>4, <2>2 DEF BackupInv, SealsWhole, Parts
      <3>. QED
        BY <2>0, <2>4, <3>1, <3>2
    <2>3. CASE disk' = Unlinked
      BY <2>0, <2>4, <2>3 DEF BackupInv, SealsWhole
    <2>. QED
      BY <2>1, <2>2, <2>3 DEF Judge
  <1>3. faults' \in 0 .. MaxFaults
    BY BackupAssumption DEF Judge, Fault, BackupInv, BackupTypeOK
  <1>4. worker' = Idle /\ UNCHANGED <<started, bucket, flying, verified>>
    BY DEF Judge
  <1>5. worker' \in WorkerRecord /\ worker'.pc = "idle" /\ UploadIsOrdered'
    BY <1>4, IdleWorker
  <1>6. BackupTypeOK'
    BY <1>2, <1>3, <1>4, <1>5 DEF BackupInv, BackupTypeOK, WorkerRecord
  <1>7. SealsWhole' /\ FilesAreStarted'
    BY <1>2, <1>4, <1>5 DEF BackupInv, FilesAreStarted, SealsWhole, At
  <1>. QED
    BY <1>4, <1>5, <1>6, <1>7, BucketUntouched DEF BackupInv

LEMMA StartUploadStep ==
  ASSUME BackupInv, NEW o \in Objects, StartUpload(o)
  PROVE  BackupInv'
  <1>1. disk[o]["ciphertext"] = "whole" /\ disk[o]["manifest"] = "manifest of whole"
    BY DEF StartUpload, BackupInv, SealsWhole, Sealed
  <1>2. worker' = [pc |-> "list", object |-> o, part |-> "ciphertext", digest |-> "whole", failed |-> {}]
    BY <1>1 DEF StartUpload, Idle
  <1>3. /\ worker' \in WorkerRecord /\ worker'.pc = "list" /\ worker'.object = o
        /\ worker'.part = "ciphertext" /\ worker'.digest = "whole" /\ worker'.failed = {}
    BY <1>2, BackupAssumption DEF WorkerRecord, Pcs, Parts, Contents, Objects
  <1>4. o \in 1 .. started
    BY <1>1 DEF BackupInv, FilesAreStarted
  <1>5. UNCHANGED <<started, disk, bucket, flying, verified, faults>>
    BY DEF StartUpload
  <1>6. BackupTypeOK'
    BY <1>3, <1>4, <1>5 DEF BackupInv, BackupTypeOK, WorkerRecord
  <1>7. SealsWhole' /\ FilesAreStarted' /\ UploadIsOrdered'
    BY <1>1, <1>3, <1>5 DEF BackupInv, SealsWhole, FilesAreStarted, UploadIsOrdered, At
  <1>. QED
    BY <1>3, <1>5, <1>6, <1>7, BucketUntouched DEF BackupInv

\* A step inside an upload that keeps the files, the object and its digest, and
\* a step to idle.
LEMMA UploadGoesOn ==
  ASSUME BackupInv, worker.pc \in {"list", "put", "read"},
         \/ worker' = Idle
         \/ \E pc \in {"put", "read"} : worker' = [worker EXCEPT !.pc = pc],
         UNCHANGED <<started, disk>>, faults' \in 0 .. MaxFaults,
         bucket' \in [Objects -> [Parts -> Contents]],
         \A o \in Objects : bucket[o]["ciphertext"] = "whole" => bucket'[o]["ciphertext"] = "whole",
         flying' \subseteq [object : Objects, part : Parts, content : Contents \ {"absent"}],
         verified' \subseteq Objects
  PROVE  /\ BackupTypeOK' /\ worker' \in WorkerRecord
         /\ SealsWhole' /\ FilesAreStarted' /\ UploadIsOrdered'
  <1>1. CASE worker' = Idle
    BY <1>1, IdleWorker DEF BackupInv, BackupTypeOK, SealsWhole, FilesAreStarted, At, WorkerRecord
  <1>2. ASSUME NEW pc \in {"put", "read"}, worker' = [worker EXCEPT !.pc = pc]
        PROVE  /\ BackupTypeOK' /\ worker' \in WorkerRecord
               /\ SealsWhole' /\ FilesAreStarted' /\ UploadIsOrdered'
    <2>1. /\ worker' \in WorkerRecord /\ worker'.pc = pc /\ worker'.object = worker.object
          /\ worker'.part = worker.part /\ worker'.digest = worker.digest
      BY <1>2 DEF BackupInv, WorkerRecord, Pcs
    <2>2. worker.object \in 1 .. started /\ worker.object \in Objects
      BY BackupAssumption DEF BackupInv, BackupTypeOK, Objects
    <2>3. BackupTypeOK'
      BY <2>1, <2>2 DEF BackupInv, BackupTypeOK, WorkerRecord, Pcs
    <2>4. SealsWhole' /\ FilesAreStarted'
      BY <2>1 DEF BackupInv, SealsWhole, FilesAreStarted, At
    <2>5. UploadIsOrdered'
      BY <2>1, <2>2 DEF BackupInv, UploadIsOrdered
    <2>. QED
      BY <2>1, <2>3, <2>4, <2>5
  <1>. QED
    BY <1>1, <1>2

LEMMA ListStep == BackupInv /\ List => BackupInv'
  <1>. SUFFICES ASSUME BackupInv, List PROVE BackupInv'
    OBVIOUS
  <1>1. worker.pc \in {"list", "put", "read"} /\ UNCHANGED <<started, disk, bucket, flying, verified>>
    BY DEF List, At
  <1>2. faults' \in 0 .. MaxFaults
    BY BackupAssumption DEF List, Fault, BackupInv, BackupTypeOK
  <1>3. worker' = Idle \/ \E pc \in {"put", "read"} : worker' = [worker EXCEPT !.pc = pc]
    BY DEF List, Goto
  <1>4. /\ BackupTypeOK' /\ worker' \in WorkerRecord
        /\ SealsWhole' /\ FilesAreStarted' /\ UploadIsOrdered'
    BY <1>1, <1>2, <1>3, UploadGoesOn DEF BackupInv, BackupTypeOK
  <1>. QED
    BY <1>1, <1>4, BucketUntouched DEF BackupInv

LEMMA PutStep == BackupInv /\ Put => BackupInv'
  <1>. SUFFICES ASSUME BackupInv, Put PROVE BackupInv'
    OBVIOUS
  <1>. DEFINE o == worker.object
              part == worker.part
              content == disk[o][part]
              request == [object |-> o, part |-> part, content |-> content]
  <1>1. worker.pc \in {"list", "put", "read"} /\ UNCHANGED <<started, disk, verified>>
    BY DEF Put, At
  <1>2. o \in Objects /\ part \in Parts
    BY <1>1, BackupAssumption DEF BackupInv, BackupTypeOK, Objects
  <1>3. /\ part = "ciphertext" => content = "whole"
        /\ part = "manifest" => content = "manifest of whole" /\ bucket[o]["ciphertext"] = "whole"
        /\ content \in Contents \ {"absent"}
    BY <1>1, <1>2 DEF BackupInv, UploadIsOrdered, Parts, Contents
  <1>4. bucket' = bucket \/ bucket' = [bucket EXCEPT ![o][part] = content]
    BY DEF Put, Stored
  <1>5. flying' = flying \/ flying' = flying \cup {request}
    BY DEF Put
  <1>6. faults' \in 0 .. MaxFaults
    BY BackupAssumption DEF Put, Fault, BackupInv, BackupTypeOK
  <1>7. worker' = Idle \/ \E pc \in {"put", "read"} : worker' = [worker EXCEPT !.pc = pc]
    BY DEF Put, Goto
  <1>8. bucket' \in [Objects -> [Parts -> Contents]]
    <2>1. bucket \in [Objects -> [Parts -> Contents]] /\ content \in Contents
      BY <1>3 DEF BackupInv, BackupTypeOK
    <2>2. CASE bucket' = [bucket EXCEPT ![o][part] = content]
      BY <1>2, <2>1, <2>2
    <2>. QED
      BY <1>4, <2>1, <2>2
  <1>9. \A q \in Objects, p \in Parts :
          bucket'[q][p] \in {bucket[q][p], IF q = o /\ p = part THEN content ELSE bucket[q][p]}
    BY <1>2, <1>4 DEF BackupInv, BackupTypeOK
  <1>10. /\ StoredIsWhole'
         /\ \A q \in Objects : bucket[q]["ciphertext"] = "whole" => bucket'[q]["ciphertext"] = "whole"
         /\ \A q \in Objects :
              /\ bucket[q]["manifest"] = "manifest of whole" => bucket'[q]["manifest"] = "manifest of whole"
              /\ bucket'[q]["manifest"] # "absent" => \/ bucket[q]["manifest"] # "absent"
                                                     \/ /\ bucket'[q]["manifest"] = "manifest of whole"
                                                        /\ bucket[q]["ciphertext"] = "whole"
    BY <1>2, <1>3, <1>9 DEF BackupInv, StoredIsWhole, Parts
  <1>11. ManifestMeansBackup'
    BY <1>2, <1>3, <1>9, <1>10 DEF BackupInv, ManifestMeansBackup, Parts
  <1>12. VerifiedIsStored'
    BY <1>1, <1>10 DEF BackupInv, BackupTypeOK, VerifiedIsStored
  <1>13. request \in [object : Objects, part : Parts, content : Contents \ {"absent"}]
    BY <1>2, <1>3
  <1>14. flying' \subseteq [object : Objects, part : Parts, content : Contents \ {"absent"}]
    BY <1>5, <1>13 DEF BackupInv, BackupTypeOK
  <1>15. FlyingIsOrdered'
    <2>1. ASSUME NEW p \in flying' PROVE p \in flying \/ p = request
      BY <1>5
    <2>2. \A p \in flying : p.object \in Objects
      BY DEF BackupInv, BackupTypeOK
    <2>. QED
      <3>1. ASSUME NEW p \in flying
            PROVE  /\ p.part = "ciphertext" => p.content = "whole"
                   /\ p.part = "manifest" => p.content = "manifest of whole" /\ bucket'[p.object]["ciphertext"] = "whole"
        BY <1>10, <2>2 DEF BackupInv, FlyingIsOrdered
      <3>2. /\ request.part = part /\ request.content = content /\ request.object = o
            /\ part = "manifest" => bucket'[o]["ciphertext"] = "whole"
        BY <1>2, <1>3, <1>10
      <3>. QED
        BY <1>3, <2>1, <3>1, <3>2 DEF FlyingIsOrdered
  <1>16. /\ BackupTypeOK' /\ worker' \in WorkerRecord
         /\ SealsWhole' /\ FilesAreStarted' /\ UploadIsOrdered'
    BY <1>1, <1>6, <1>7, <1>8, <1>10, <1>14, UploadGoesOn DEF BackupInv, BackupTypeOK
  <1>. QED
    BY <1>10, <1>11, <1>12, <1>15, <1>16 DEF BackupInv

LEMMA ReadStep == BackupInv /\ Read => BackupInv'
  <1>. SUFFICES ASSUME BackupInv, Read PROVE BackupInv'
    OBVIOUS
  <1>. DEFINE o == worker.object
  <1>1. worker.pc = "read" /\ UNCHANGED <<started, disk, bucket, flying>>
    BY DEF Read, At
  <1>2. o \in Objects /\ o \in 1 .. started
    BY <1>1, BackupAssumption DEF BackupInv, BackupTypeOK, Objects
  <1>3. faults' \in 0 .. MaxFaults
    BY BackupAssumption DEF Read, Fault, BackupInv, BackupTypeOK
  <1>4. CASE worker' = Idle /\ UNCHANGED verified
    <2>1. /\ BackupTypeOK' /\ worker' \in WorkerRecord
          /\ SealsWhole' /\ FilesAreStarted' /\ UploadIsOrdered'
      BY <1>1, <1>3, <1>4, UploadGoesOn DEF BackupInv, BackupTypeOK
    <2>. QED
      BY <1>1, <1>4, <2>1, BucketUntouched DEF BackupInv
  <1>5. CASE /\ bucket[o][worker.part] = worker.digest /\ worker.part = "manifest"
             /\ worker' = Idle /\ verified' = verified \cup {o}
    <2>1. bucket[o]["manifest"] = "manifest of whole" /\ bucket[o]["ciphertext"] = "whole"
      BY <1>1, <1>5 DEF BackupInv, UploadIsOrdered
    <2>2. VerifiedIsStored' /\ verified' \subseteq Objects
      BY <1>1, <1>2, <1>5, <2>1 DEF BackupInv, BackupTypeOK, VerifiedIsStored
    <2>3. /\ BackupTypeOK' /\ worker' \in WorkerRecord
          /\ SealsWhole' /\ FilesAreStarted' /\ UploadIsOrdered'
      BY <1>1, <1>3, <1>5, <2>2, UploadGoesOn DEF BackupInv, BackupTypeOK
    <2>. QED
      BY <1>1, <2>2, <2>3, BucketUntouched DEF BackupInv
  <1>6. CASE /\ bucket[o][worker.part] = worker.digest /\ worker.part = "ciphertext"
             /\ worker' = [worker EXCEPT !.pc = "list", !.part = "manifest", !.digest = disk[o]["manifest"]]
             /\ UNCHANGED verified
    <2>1. /\ bucket[o]["ciphertext"] = "whole"
          /\ disk[o]["ciphertext"] = "whole" /\ disk[o]["manifest"] = "manifest of whole"
      BY <1>1, <1>6 DEF BackupInv, UploadIsOrdered
    <2>2. /\ worker' \in WorkerRecord /\ worker'.pc = "list" /\ worker'.object = o
          /\ worker'.part = "manifest" /\ worker'.digest = "manifest of whole"
          /\ worker'.failed = worker.failed
      BY <1>6, <2>1 DEF BackupInv, WorkerRecord, Pcs, Parts, Contents
    <2>3. BackupTypeOK'
      BY <1>1, <1>2, <1>3, <1>6, <2>2 DEF BackupInv, BackupTypeOK, WorkerRecord
    <2>4. SealsWhole' /\ FilesAreStarted' /\ UploadIsOrdered'
      BY <1>1, <2>1, <2>2 DEF BackupInv, SealsWhole, FilesAreStarted, UploadIsOrdered, At
    <2>. QED
      BY <1>1, <1>6, <2>2, <2>3, <2>4, BucketUntouched DEF BackupInv
  <1>. QED
    BY <1>4, <1>5, <1>6 DEF Read, Here

-----------------------------------------------------------------------------
LEMMA LandStep ==
  ASSUME BackupInv, NEW p \in flying, Land(p)
  PROVE  BackupInv'
  <1>1. /\ p \in [object : Objects, part : Parts, content : Contents \ {"absent"}]
        /\ UNCHANGED <<started, disk, worker, verified, faults>>
        /\ bucket' = [bucket EXCEPT ![p.object][p.part] = p.content]
        /\ flying' \subseteq flying
    BY DEF Land, BackupInv, BackupTypeOK
  <1>2. bucket' \in [Objects -> [Parts -> Contents]]
    BY <1>1 DEF BackupInv, BackupTypeOK
  <1>3. \A q \in Objects, r \in Parts :
          bucket'[q][r] = IF q = p.object /\ r = p.part THEN p.content ELSE bucket[q][r]
    BY <1>1 DEF BackupInv, BackupTypeOK
  <1>4. /\ p.part = "ciphertext" => p.content = "whole"
        /\ p.part = "manifest" => p.content = "manifest of whole" /\ bucket[p.object]["ciphertext"] = "whole"
    BY DEF BackupInv, FlyingIsOrdered
  <1>5. /\ StoredIsWhole'
        /\ \A q \in Objects : bucket[q]["ciphertext"] = "whole" => bucket'[q]["ciphertext"] = "whole"
    BY <1>1, <1>3, <1>4 DEF BackupInv, StoredIsWhole, Parts
  <1>6. ManifestMeansBackup' /\ VerifiedIsStored'
    <2>1. \A q \in Objects :
            \/ bucket'[q]["manifest"] = bucket[q]["manifest"]
            \/ bucket'[q]["manifest"] = "manifest of whole" /\ bucket[q]["ciphertext"] = "whole"
      BY <1>1, <1>3, <1>4 DEF Parts
    <2>2. ManifestMeansBackup'
      BY <1>5, <2>1 DEF BackupInv, ManifestMeansBackup
    <2>3. VerifiedIsStored'
      BY <1>1, <1>5, <2>1 DEF BackupInv, BackupTypeOK, VerifiedIsStored
    <2>. QED
      BY <2>2, <2>3
  <1>7. FlyingIsOrdered'
    <2>1. \A q \in flying : q.object \in Objects
      BY DEF BackupInv, BackupTypeOK
    <2>. QED
      BY <1>1, <1>5, <2>1 DEF BackupInv, FlyingIsOrdered
  <1>8. BackupTypeOK'
    BY <1>1, <1>2 DEF BackupInv, BackupTypeOK
  <1>9. /\ worker' \in WorkerRecord /\ SealsWhole' /\ FilesAreStarted'
    BY <1>1 DEF BackupInv, SealsWhole, FilesAreStarted, At
  <1>10. UploadIsOrdered'
    <2>1. worker.pc # "idle" => worker.object \in Objects
      BY BackupAssumption DEF BackupInv, BackupTypeOK, Objects
    <2>. QED
      BY <1>1, <1>5, <2>1 DEF BackupInv, UploadIsOrdered
  <1>. QED
    BY <1>5, <1>6, <1>7, <1>8, <1>9, <1>10 DEF BackupInv

LEMMA SpoilStep ==
  ASSUME BackupInv, NEW o \in Objects, Spoil(o)
  PROVE  BackupInv'
  <1>1. /\ UNCHANGED <<started, bucket, flying, worker, verified>>
        /\ disk[o]["ciphertext"] = "whole" /\ worker.object # o
        /\ disk' = [disk EXCEPT ![o]["ciphertext"] = "cut"]
    BY DEF Spoil
  <1>2. faults' \in 0 .. MaxFaults
    BY BackupAssumption DEF Spoil, Fault, BackupInv, BackupTypeOK
  <1>3. /\ disk' \in [Objects -> [Parts -> Contents]]
        /\ \A q \in Objects : disk'[q]["manifest"] = disk[q]["manifest"] /\ (q # o => disk'[q] = disk[q])
    BY <1>1 DEF BackupInv, BackupTypeOK, Parts, Contents
  <1>4. BackupTypeOK' /\ worker' \in WorkerRecord
    BY <1>1, <1>2, <1>3 DEF BackupInv, BackupTypeOK
  <1>5. worker.pc # "idle" => worker.object \in Objects
    BY BackupAssumption DEF BackupInv, BackupTypeOK, Objects
  <1>6. SealsWhole' /\ UploadIsOrdered'
    BY <1>1, <1>3, <1>5 DEF BackupInv, SealsWhole, UploadIsOrdered, At
  <1>7. FilesAreStarted'
    BY <1>1, <1>3 DEF BackupInv, FilesAreStarted
  <1>. QED
    BY <1>1, <1>4, <1>6, <1>7, BucketUntouched DEF BackupInv

LEMMA CleanUpStep ==
  ASSUME BackupInv, NEW o \in Objects, CleanUp(o)
  PROVE  BackupInv'
  <1>1. /\ UNCHANGED <<started, bucket, flying, worker, verified, faults>>
        /\ worker.pc = "idle"
        /\ disk' = [disk EXCEPT ![o] = [p \in Parts |-> "absent"]]
    BY DEF CleanUp, At
  <1>2. /\ disk' \in [Objects -> [Parts -> Contents]]
        /\ \A q \in Objects : /\ disk'[q]["manifest"] \in {disk[q]["manifest"], "absent"}
                              /\ disk'[q]["ciphertext"] \in {disk[q]["ciphertext"], "absent"}
    BY <1>1 DEF BackupInv, BackupTypeOK, Parts, Contents
  <1>3. BackupTypeOK' /\ worker' \in WorkerRecord
    BY <1>1, <1>2 DEF BackupInv, BackupTypeOK
  <1>4. SealsWhole' /\ UploadIsOrdered' /\ FilesAreStarted'
    BY <1>1, <1>2 DEF BackupInv, SealsWhole, UploadIsOrdered, FilesAreStarted, At
  <1>. QED
    BY <1>1, <1>3, <1>4, BucketUntouched DEF BackupInv

LEMMA CrashStep == BackupInv /\ Crash => BackupInv'
  <1>. SUFFICES ASSUME BackupInv, Crash PROVE BackupInv'
    OBVIOUS
  <1>1. worker' = Idle /\ UNCHANGED <<started, disk, bucket, flying, verified>>
    BY DEF Crash
  <1>2. faults' \in 0 .. MaxFaults
    BY BackupAssumption DEF Crash, Fault, BackupInv, BackupTypeOK
  <1>3. worker' \in WorkerRecord /\ worker'.pc = "idle" /\ UploadIsOrdered'
    BY <1>1, IdleWorker
  <1>4. BackupTypeOK'
    BY <1>1, <1>2, <1>3 DEF BackupInv, BackupTypeOK, WorkerRecord
  <1>5. SealsWhole' /\ FilesAreStarted'
    BY <1>1, <1>3 DEF BackupInv, SealsWhole, FilesAreStarted, At
  <1>. QED
    BY <1>1, <1>3, <1>4, <1>5, BucketUntouched DEF BackupInv

LEMMA StutterStep == BackupInv /\ UNCHANGED vars => BackupInv'
  BY DEF vars, BackupInv, BackupTypeOK, SealsWhole, FilesAreStarted, UploadIsOrdered,
         FlyingIsOrdered, StoredIsWhole, ManifestMeansBackup, VerifiedIsStored, At

LEMMA NextInv == BackupInv /\ [Next]_vars => BackupInv'
  BY StreamStep, JudgeStep, StartUploadStep, ListStep, PutStep, ReadStep, LandStep,
     SpoilStep, CleanUpStep, CrashStep, StutterStep DEF Next

-----------------------------------------------------------------------------
(* The theorems.                                                           *)

\* The types of the backup's state.
THEOREM BackupTypeCorrect == Spec => []BackupTypeOK
  <1>1. BackupInv => BackupTypeOK
    BY DEF BackupInv
  <1>. QED
    BY InitInv, NextInv, <1>1, PTL DEF Spec

\* A manifest in the bucket means a complete backup, whatever was lost, late,
\* killed or repeated.
THEOREM ManifestMeansBackupTheorem == Spec => []ManifestMeansBackup
  <1>1. BackupInv => ManifestMeansBackup
    BY DEF BackupInv
  <1>. QED
    BY InitInv, NextInv, <1>1, PTL DEF Spec

\* What was reported verified is stored, and stays so.
THEOREM VerifiedIsStoredTheorem == Spec => []VerifiedIsStored
  <1>1. BackupInv => VerifiedIsStored
    BY DEF BackupInv
  <1>. QED
    BY InitInv, NextInv, <1>1, PTL DEF Spec
=============================================================================
