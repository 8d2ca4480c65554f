------------------------------- MODULE Backup -------------------------------
(* The encrypted backup: scripts/backup_database.py streams a dump through   *)
(* age into a file and seals it with a manifest, upload_encrypted_backup.py  *)
(* puts both into a bucket and reads them back.  backup.yml runs one after   *)
(* the other, one workflow at a time; the upload may be repeated over the    *)
(* same files, as its rehearsal does.  A hash is the content it is taken of. *)
EXTENDS Integers

CONSTANTS
    MaxBackups,  \* bound: backups started; each has an object id of its own
    MaxFaults    \* bound: failed processes, lost or late requests, crashes, spoiled files

ASSUME BackupAssumption == MaxBackups \in Nat \ {0} /\ MaxFaults \in Nat

Objects == 1 .. MaxBackups
Parts == {"ciphertext", "manifest"}

\* A ciphertext is of the whole dump or cut short; a manifest holds the digest
\* of a ciphertext, or is torn.
Contents == {"absent", "whole", "cut", "manifest of whole", "manifest of cut", "torn"}

VARIABLES
    started,   \* object ids used
    disk,      \* the files of each object on the runner
    bucket,    \* the objects in the bucket
    flying,    \* PUTs nobody waits for any more and that may still land
    worker,    \* the process at work: where it is, for which object and part
    verified,  \* objects whose upload was reported verified
    faults

vars == <<started, disk, bucket, flying, worker, verified, faults>>

Idle == [pc |-> "idle", object |-> 0, part |-> "ciphertext", digest |-> "absent", failed |-> {}]

Init ==
    /\ started = 0 /\ faults = 0
    /\ disk = [o \in Objects |-> [p \in Parts |-> "absent"]]
    /\ bucket = [o \in Objects |-> [p \in Parts |-> "absent"]]
    /\ flying = {} /\ worker = Idle /\ verified = {}

\* The types of the variables: part of the inductive invariant of BackupProofs.
BackupTypeOK ==
    /\ started \in 0 .. MaxBackups /\ faults \in 0 .. MaxFaults
    /\ disk \in [Objects -> [Parts -> Contents]] /\ bucket \in [Objects -> [Parts -> Contents]]
    /\ flying \subseteq [object : Objects, part : Parts, content : Contents \ {"absent"}]
    /\ verified \subseteq Objects
    /\ worker.pc \in {"idle", "judge", "list", "put", "read"} /\ worker.failed \subseteq {"pg_dump", "age"}
    /\ worker.part \in Parts /\ worker.digest \in Contents
    /\ worker.pc = "idle" => worker = Idle
    /\ worker.pc # "idle" => worker.object \in 1 .. started

At(pc) == worker.pc = pc
Goto(pc) == [worker EXCEPT !.pc = pc]
Fault == faults < MaxFaults /\ faults' = faults + 1
Sealed(content) == IF content = "whole" THEN "manifest of whole" ELSE "manifest of cut"

-----------------------------------------------------------------------------
(* backup: a dump, encrypted on the way.                                     *)

\* Both processes have ended, or were killed at the timeout.  When pg_dump fails,
\* age sees an end of file and writes a valid ciphertext of what there was.
Stream ==
    /\ At("idle") /\ started < MaxBackups
    /\ started' = started + 1
    /\ \E failed \in SUBSET {"pg_dump", "age"} :
          /\ worker' = [Idle EXCEPT !.pc = "judge", !.object = started + 1, !.failed = failed]
          /\ disk' = [disk EXCEPT ![started + 1]["ciphertext"] = IF failed = {} THEN "whole" ELSE "cut"]
          /\ IF failed = {} THEN UNCHANGED faults ELSE Fault
    /\ UNCHANGED <<bucket, flying, verified>>

Unlinked == [disk EXCEPT ![worker.object]["ciphertext"] = "absent"]

\* Mutant: only the status of age decides.
Judge_AgeOnly ==
    /\ At("judge")
    /\ \/ /\ "age" \notin worker.failed
          /\ disk' = [disk EXCEPT ![worker.object]["manifest"] = Sealed(disk[worker.object]["ciphertext"])]
          /\ UNCHANGED faults
       \/ "age" \in worker.failed /\ disk' = Unlinked /\ UNCHANGED faults
    /\ worker' = Idle
    /\ UNCHANGED <<started, bucket, flying, verified>>

\* A failure of either process, or of writing the manifest, removes the
\* ciphertext; the manifest is written last.
Judge ==
    /\ At("judge")
    /\ \/ /\ worker.failed = {}
          /\ disk' = [disk EXCEPT ![worker.object]["manifest"] = Sealed(disk[worker.object]["ciphertext"])]
          /\ UNCHANGED faults
       \/ worker.failed = {} /\ Fault
          /\ \E left \in {"absent", "torn"} : disk' = [Unlinked EXCEPT ![worker.object]["manifest"] = left]
       \/ worker.failed # {} /\ disk' = Unlinked /\ UNCHANGED faults
    /\ worker' = Idle
    /\ UNCHANGED <<started, bucket, flying, verified>>

-----------------------------------------------------------------------------
(* upload: the ciphertext, then the manifest, each listed, put and read back. *)

\* The files are checked against each other first.
StartUpload(o) ==
    /\ At("idle")
    /\ disk[o]["ciphertext"] # "absent" /\ disk[o]["manifest"] = Sealed(disk[o]["ciphertext"])
    /\ worker' = [Idle EXCEPT !.pc = "list", !.object = o, !.digest = disk[o]["ciphertext"]]
    /\ UNCHANGED <<started, disk, bucket, flying, verified, faults>>

Here == bucket[worker.object][worker.part]

\* _names: one that is there is not put again.
List ==
    /\ At("list")
    /\ \/ worker' = Goto(IF Here = "absent" THEN "put" ELSE "read") /\ UNCHANGED faults
       \/ worker' = Idle /\ Fault
    /\ UNCHANGED <<started, disk, bucket, flying, verified>>

Stored(content) == [bucket EXCEPT ![worker.object][worker.part] = content]

\* Mutant: an error hidden like that is taken for success, with no read-back.
Put_Trusted ==
    /\ At("put") /\ UNCHANGED <<started, disk, flying>>
    /\ \/ disk[worker.object][worker.part] # "absent" /\ bucket' = Stored(disk[worker.object][worker.part]) /\ UNCHANGED faults
       \/ UNCHANGED bucket /\ Fault
    /\ \/ /\ worker.part = "ciphertext" /\ UNCHANGED verified
          /\ worker' = [worker EXCEPT !.pc = "list", !.part = "manifest", !.digest = disk[worker.object]["manifest"]]
       \/ worker.part = "manifest" /\ worker' = Idle /\ verified' = verified \cup {worker.object}

\* copyto sends the file as it is now.  An error of rclone may hide a PUT that
\* is committed, or will be: the object is read back all the same.  At 120
\* seconds rclone is killed instead, and the exception leaves the upload.
Put ==
    /\ At("put")
    /\ LET content == disk[worker.object][worker.part]
       IN  \/ content # "absent" /\ bucket' = Stored(content) /\ worker' = Goto("read") /\ UNCHANGED <<flying, faults>>
           \/ /\ \/ UNCHANGED <<bucket, flying>>
                 \/ content # "absent" /\ bucket' = Stored(content) /\ UNCHANGED flying
                 \/ /\ content # "absent" /\ UNCHANGED bucket
                    /\ flying' = flying \cup {[object |-> worker.object, part |-> worker.part, content |-> content]}
              /\ worker' \in {Goto("read"), Idle} /\ Fault
    /\ UNCHANGED <<started, disk, verified>>

\* _remote_hash: what is there must have the digest of what was checked.  The
\* manifest's own digest is taken when its turn comes.
Read ==
    /\ At("read")
    /\ \/ /\ Here = worker.digest /\ worker.part = "ciphertext"
          /\ worker' = [worker EXCEPT !.pc = "list", !.part = "manifest", !.digest = disk[worker.object]["manifest"]]
          /\ UNCHANGED <<verified, faults>>
       \/ /\ Here = worker.digest /\ worker.part = "manifest"
          /\ worker' = Idle /\ verified' = verified \cup {worker.object} /\ UNCHANGED faults
       \/ Here # worker.digest /\ worker' = Idle /\ UNCHANGED <<verified, faults>>
       \/ worker' = Idle /\ Fault /\ UNCHANGED verified
    /\ UNCHANGED <<started, disk, bucket, flying>>

-----------------------------------------------------------------------------
(* What happens around the scripts.                                          *)

\* A PUT lands after its request was given up.
Land(p) ==
    /\ bucket' = [bucket EXCEPT ![p.object][p.part] = p.content]
    /\ flying' = flying \ {p}
    /\ UNCHANGED <<started, disk, worker, verified, faults>>

\* A sealed ciphertext loses its end while it waits on the runner: what the
\* digest in the manifest is there for.  Not while an upload of it is at work,
\* which has compared the two already.
Spoil(o) ==
    /\ disk[o]["ciphertext"] = "whole" /\ disk[o]["manifest"] # "absent" /\ worker.object # o /\ Fault
    /\ disk' = [disk EXCEPT ![o]["ciphertext"] = "cut"]
    /\ UNCHANGED <<started, bucket, flying, worker, verified>>

\* The process or the runner stops.
Crash ==
    /\ ~At("idle") /\ Fault
    /\ worker' = Idle
    /\ UNCHANGED <<started, disk, bucket, flying, verified>>

\* The last step of the workflow removes the files.
CleanUp(o) ==
    /\ At("idle") /\ \E p \in Parts : disk[o][p] # "absent"
    /\ disk' = [disk EXCEPT ![o] = [p \in Parts |-> "absent"]]
    /\ UNCHANGED <<started, bucket, flying, worker, verified, faults>>

Next ==
    \/ Stream \/ Judge \/ List \/ Put \/ Read \/ Crash
    \/ \E o \in Objects : StartUpload(o) \/ Spoil(o) \/ CleanUp(o)
    \/ \E p \in flying : Land(p)

Spec == Init /\ [][Next]_vars

-----------------------------------------------------------------------------
(* Properties.                                                               *)

\* "An uploaded object without its integrity manifest is an incomplete run, not
\* a healthy backup": one with its manifest is healthy, however many requests
\* were lost, late or repeated.  The bucket then holds the ciphertext of a whole
\* dump, and the manifest is of it.
ManifestMeansBackup ==
    \A o \in Objects :
        bucket[o]["manifest"] # "absent" => bucket[o]["manifest"] = "manifest of whole" /\ bucket[o]["ciphertext"] = "whole"

\* "ciphertext_upload_verified" is only ever reported of a backup the bucket
\* holds completely, and from then on keeps.
VerifiedIsStored == \A o \in verified : bucket[o]["manifest"] = "manifest of whole" /\ bucket[o]["ciphertext"] = "whole"
=============================================================================
