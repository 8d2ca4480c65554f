----------------------------- MODULE Collection -----------------------------
(* A sequence of collection runs over several sources:                       *)
(* worker/src/scam_radar/durable.py DurablePipeline.run with the collector,  *)
(* the model provider and the RPC client it drives.  Every action is one RPC *)
(* or one step between two; collect.yml lets one run go at a time, and a run *)
(* that dies leaves its lease, its claim and its open row to the next.       *)
(* What happens to one version under overlapping runs is Intake's subject;   *)
(* here a version is followed through sources, budgets and attempts.         *)
EXTENDS Integers, FiniteSets

CONSTANTS
    SourceCount,   \* enabled sources, visited in registry order 1 .. SourceCount
    PageCount,     \* pages a site has at most: max_items_per_source
    MaxItems,      \* max_items: pages one run fetches over all its sources
    Stages,        \* model stages of one version at most: relevance, extraction, one per candidate
    MaxCalls,      \* max_calls of the model provider, per run
    AttemptLimit,  \* the retry ceiling of claim_source_version: 3
    RunCount,      \* bound: runs started
    MaxFaults      \* bound: failed calls, lost replies, crashes, an exhausted RPC budget

Sources == 1 .. SourceCount
Pages == 1 .. PageCount
Runs == 1 .. RunCount
Nobody == 0

\* Relevance and extraction read the version's text alone; a later stage
\* compares it with one match candidate.
TextStages == 2

\* The quota a lone version needs: when a run's whole budget goes to it, one
\* attempt less than the ceiling caches every stage, each costing two calls.
ASSUME CollectionAssumption ==
    /\ {SourceCount, PageCount, MaxItems, Stages, MaxCalls, AttemptLimit, RunCount} \subseteq Nat \ {0}
    /\ MaxFaults \in Nat /\ Stages >= TextStages
    /\ (AttemptLimit - 1) * (MaxCalls \div 2) >= Stages

VARIABLES
    store,   \* the database: run rows, leases, versions with their artifacts, checkpoints
    worker,  \* the process: where it is and what it counted
    faults   \* faults spent

vars == <<store, worker, faults>>

NoVersion == [status |-> "absent", holder |-> Nobody, live |-> FALSE, attempts |-> 0, cached |-> 0, starved |-> 0, rival |-> FALSE, moved |-> FALSE]

\* cached: how many stages are answered in turn; moved: the match candidates were
\* changed since.  starved and rival only serve QuotaAloneLosesNothing: attempts
\* that ended on an exhausted call budget, one of them shared with another source.
\* checkpoint.by: the latest run whose success checkpoint the source has received.
InitStore == [run |-> [r \in Runs |-> "none"],
              lease |-> [s \in Sources |-> Nobody],
              version |-> [s \in Sources |-> [p \in Pages |-> NoVersion]],
              checkpoint |-> [s \in Sources |-> [cursor |-> 0, by |-> 0]]]

\* spent: the sources for which the run has called the model; counted: those for
\* which it counted a failure, a deferral or a conflict; cut: its RPC transport
\* has used max_requests.
Idle(run) == [pc |-> "idle", run |-> run, source |-> 1, listed |-> 0, page |-> 1, fetched |-> 0, version |-> 0,
              stage |-> 0, verdict |-> "ok", calls |-> 0, spent |-> {}, counted |-> {}, cut |-> FALSE]

Init ==
    /\ store = InitStore
    /\ worker = Idle(0)
    /\ faults = 0

Labels == {"idle", "sync", "lease", "discover", "collect", "claim", "read", "ask", "store", "analysed", "finish",
           "defer", "error", "checkpoint", "raised", "release", "abandon", "outcome"}

CollectionTypeOK ==
    /\ store.run \in [Runs -> {"none", "running", "success", "degraded"}]
    /\ store.lease \in [Sources -> Runs \cup {Nobody}]
    /\ store.version \in [Sources -> [Pages ->
          [status : {"absent", "pending_ai", "processing", "settled", "error"}, holder : Runs \cup {Nobody}, live : BOOLEAN,
           attempts : 0 .. AttemptLimit, cached : 0 .. Stages, starved : 0 .. AttemptLimit, rival : BOOLEAN, moved : BOOLEAN]]]
    /\ store.checkpoint \in [Sources -> [cursor : Pages \cup {0}, by : 0 .. RunCount]]
    /\ worker.pc \in Labels /\ worker.run \in 0 .. RunCount /\ worker.source \in Sources
    /\ worker.listed \in 0 .. PageCount /\ worker.page \in 1 .. PageCount + 1 /\ worker.fetched \in 0 .. MaxItems
    /\ worker.version \in 0 .. PageCount /\ worker.stage \in 0 .. Stages
    /\ worker.verdict \in {"ok", "deferred", "failed"}
    /\ worker.calls \in 0 .. MaxCalls /\ worker.spent \subseteq Sources /\ worker.counted \subseteq Sources
    /\ worker.cut \in BOOLEAN /\ faults \in 0 .. MaxFaults

-----------------------------------------------------------------------------
(* The process, its transports and its budgets.                              *)
At(label) == worker.pc = label
Src == worker.source
Fault == faults < MaxFaults /\ faults' = faults + 1

Goto(label) == [worker EXCEPT !.pc = label]
Counted(w) == [w EXCEPT !.counted = @ \cup {w.source}]

\* Mutant: the verdict of a source is carried over to the next one.
NextSource_KeepsVerdict(w) ==
    IF w.source = SourceCount THEN [w EXCEPT !.pc = "outcome"]
    ELSE [w EXCEPT !.pc = "sync", !.source = @ + 1, !.listed = 0, !.page = 1, !.version = 0, !.stage = 0]

\* The next turn of the source loop: only the counters outlive a source.
NextSource(w) ==
    IF w.source = SourceCount THEN [w EXCEPT !.pc = "outcome"]
    ELSE [w EXCEPT !.pc = "sync", !.source = @ + 1, !.listed = 0, !.page = 1, !.version = 0, !.stage = 0, !.verdict = "ok"]

\* The outer handler: an exception of the source is counted, and its failure
\* checkpoint is attempted.
Raised == Counted([worker EXCEPT !.pc = "raised"])

\* A StageFailure of the claimed version.
StageFails == Counted([worker EXCEPT !.pc = "error", !.verdict = "failed"])

\* One RPC.  It runs and is answered; or it is refused on the way; or it runs and
\* its answer is lost; or the transport has no request left and sends nothing.
\* RpcStore.call never retries.
Rpc(effect, answered, failed) ==
    \/ ~worker.cut /\ store' = effect /\ worker' = answered /\ UNCHANGED faults
    \/ ~worker.cut /\ store' \in {store, effect} /\ worker' = failed /\ Fault
    \/ worker.cut /\ worker' = failed /\ UNCHANGED <<store, faults>>

\* An RPC whose SQL raises: nothing is written.
Refused(failed) == worker' = failed /\ UNCHANGED <<store, faults>>

\* BoundedHttpTransport.request: from the request that meets the bound on, every
\* further one raises request_budget_exhausted.  The count itself is abstract.
ExhaustRequests ==
    /\ worker.pc \notin {"idle"} /\ ~worker.cut
    /\ worker' = [worker EXCEPT !.cut = TRUE]
    /\ Fault
    /\ UNCHANGED store

\* Mutant: the second attempt does not look at the budget.
Answers_SecondUnchecked(c) ==
    IF c >= MaxCalls THEN {<<c, "exhausted">>}
    ELSE {<<c + 1, "valid">>, <<c + 1, "failed">>, <<c + 2, "valid">>, <<c + 2, "failed">>}

\* HttpModelProvider._run from c calls on: what it may answer, and the count it
\* leaves.  Every attempt is counted before it is sent; an invalid structure is
\* asked for once more, an HTTP error is not.
Answers(c) ==
    IF c >= MaxCalls THEN {<<c, "exhausted">>}
    ELSE {<<c + 1, "valid">>, <<c + 1, "failed">>} \cup
         IF c + 1 >= MaxCalls THEN {<<c + 1, "exhausted">>} ELSE {<<c + 2, "valid">>, <<c + 2, "failed">>}

-----------------------------------------------------------------------------
(* The run, its sources and their pages.                                     *)

StartRun ==
    /\ At("idle") /\ worker.run < RunCount
    /\ LET started == [Idle(worker.run + 1) EXCEPT !.pc = "sync"]
       IN  Rpc([store EXCEPT !.run[worker.run + 1] = "running"], started, [started EXCEPT !.pc = "idle"])

\* sync_registry_source upserts the registry's row; nothing here depends on it.
SyncSource ==
    /\ At("sync")
    /\ Rpc(store, Goto("lease"), NextSource(Counted(worker)))

AcquireLease ==
    /\ At("lease")
    /\ IF store.lease[Src] \in {Nobody, worker.run}
       THEN Rpc([store EXCEPT !.lease[Src] = worker.run], Goto("discover"), NextSource(Counted(worker)))
       ELSE Rpc(store, NextSource(Counted(worker)), NextSource(Counted(worker)))

\* The site lists its first n pages; robots.txt, an empty list, a foreign URL, a
\* bad status or exhausted retries raise.  The slice keeps PageCount at most.
Discover ==
    /\ At("discover")
    /\ UNCHANGED store
    /\ \/ \E n \in Pages : worker' = [worker EXCEPT !.pc = "collect", !.listed = n]
          /\ UNCHANGED faults
       \/ worker' = Raised /\ Fault

EndOfList == worker.page > worker.listed \/ worker.fetched >= MaxItems

Ingested(s, p) == store.version[s][p].status # "absent"

\* A page ingested before with the same content returns its version unchanged.
Ingest(s, p) ==
    IF Ingested(s, p) THEN store
    ELSE [store EXCEPT !.version[s][p].status = "pending_ai"]

\* Mutant: a page that cannot be fetched is skipped.
CollectPage_SkipsFailures ==
    /\ At("collect") /\ ~EndOfList
    /\ LET next == [worker EXCEPT !.fetched = @ + 1, !.page = @ + 1]
       IN  \/ Rpc(Ingest(Src, worker.page), next, next)
           \/ worker' = next /\ Fault /\ UNCHANGED store

\* The page is counted before it is fetched; a failed fetch or a failed ingest
\* ends the source's turn, backlog included.
CollectPage ==
    /\ At("collect") /\ ~EndOfList
    /\ LET next == [worker EXCEPT !.fetched = @ + 1, !.page = @ + 1]
           raised == [Raised EXCEPT !.fetched = @ + 1]
       IN  \/ Rpc(Ingest(Src, worker.page), next, raised)
           \/ worker' = raised /\ Fault /\ UNCHANGED store

CollectEnds ==
    /\ At("collect") /\ EndOfList
    /\ worker' = Goto("claim")
    /\ UNCHANGED <<store, faults>>

-----------------------------------------------------------------------------
(* The claim loop: one version at a time, oldest first.                      *)
Version == store.version[Src][worker.version]

Claimable(s, p) ==
    LET v == store.version[s][p]
    IN  v.attempts < AttemptLimit /\ (v.status \in {"pending_ai", "error"} \/ (v.status = "processing" /\ ~v.live))

Head(s, p) == Claimable(s, p) /\ \A q \in Pages : q < p => ~Claimable(s, q)

Claimed(s, p, run) ==
    LET v == store.version[s][p]
    IN  [store EXCEPT !.version[s][p] =
            [v EXCEPT !.status = "processing", !.holder = run, !.live = TRUE, !.attempts = v.attempts + 1]]

ClaimVersion ==
    /\ At("claim")
    /\ IF \E p \in Pages : Claimable(Src, p)
       THEN \E p \in Pages : Head(Src, p)
                /\ Rpc(Claimed(Src, p, worker.run), [worker EXCEPT !.pc = "read", !.version = p, !.stage = 0], Raised)
       ELSE Rpc(store, Goto("checkpoint"), Raised)

\* get_ai_artifact: a stage already answered is not asked again.  The answer is
\* found by a fingerprint of what the model reads, so once a candidate has
\* changed, a comparison may be found or not.
Found(v, stage) ==
    IF v.moved /\ stage >= TextStages THEN BOOLEAN ELSE {stage < v.cached}

\* The stages end with the last candidate of the list.
ReadArtifact ==
    /\ At("read")
    /\ \/ worker.stage >= TextStages /\ worker' = Goto("analysed") /\ UNCHANGED <<store, faults>>
       \/ /\ worker.stage < Stages
          /\ \E found \in Found(Version, worker.stage) :
                Rpc(store, IF found THEN [worker EXCEPT !.stage = @ + 1] ELSE Goto("ask"), StageFails)

Starved(s, p) ==
    LET v == store.version[s][p]
    IN  [store EXCEPT !.version[s][p] =
            [v EXCEPT !.starved = v.starved + 1, !.rival = v.rival \/ worker.spent \ {s} # {}]]

AskModel ==
    /\ At("ask")
    /\ \E answer \in Answers(worker.calls) :
          LET after(w) == [w EXCEPT !.calls = answer[1], !.spent = IF answer[1] > worker.calls THEN @ \cup {Src} ELSE @]
          IN  /\ worker' = after(IF answer[2] = "valid" THEN Goto("store") ELSE StageFails)
              /\ store' = IF answer[2] = "exhausted" THEN Starved(Src, worker.version) ELSE store
              /\ IF answer[2] = "failed" THEN Fault ELSE UNCHANGED faults

StoreArtifact ==
    /\ At("store")
    /\ Rpc([store EXCEPT !.version[Src][worker.version].cached = worker.stage + 1],
           [worker EXCEPT !.pc = "read", !.stage = @ + 1], StageFails)

\* What the analysis leads to: a result to finish with (its submission and policy
\* are Intake's), a conflict or a hold to defer, or a failed stage.
Conclude ==
    /\ At("analysed")
    /\ \/ worker' = Goto("finish") /\ UNCHANGED faults
       \/ worker' = Counted([worker EXCEPT !.pc = "defer", !.verdict = "deferred"]) /\ UNCHANGED faults
       \/ worker' = StageFails /\ Fault
    /\ UNCHANGED store

\* A relevance judgment of FALSE ends the version after its first stage.
JudgeIrrelevant ==
    /\ At("read") /\ worker.stage = 1
    /\ worker' = Goto("finish")
    /\ UNCHANGED <<store, faults>>

Owned(s, p) == store.version[s][p].status = "processing" /\ store.version[s][p].holder = worker.run

Closed(s, p, status, attempts) ==
    [store EXCEPT !.version[s][p] = [@ EXCEPT !.status = status, !.holder = Nobody, !.live = FALSE, !.attempts = attempts]]

\* finish_source_version; its failure is a failure of the version's analysis.
FinishVersion ==
    /\ At("finish")
    /\ IF Owned(Src, worker.version)
       THEN Rpc(Closed(Src, worker.version, "settled", Version.attempts), Goto("claim"), StageFails)
       ELSE Refused(StageFails)

\* Mutant: the run goes on to the next claim after an error.
FailVersion_GoesOn ==
    /\ At("error")
    /\ IF Owned(Src, worker.version)
       THEN Rpc(Closed(Src, worker.version, "error", Version.attempts), Goto("claim"), Raised)
       ELSE Refused(Raised)

\* The version is closed with its error code and the run leaves the source.
FailVersion ==
    /\ At("error")
    /\ IF Owned(Src, worker.version)
       THEN Rpc(Closed(Src, worker.version, "error", Version.attempts), Goto("checkpoint"), Raised)
       ELSE Refused(Raised)

\* Mutant: the run goes on to the next claim after a deferral.
DeferVersion_GoesOn ==
    /\ At("defer")
    /\ IF Owned(Src, worker.version) /\ Version.live
       THEN Rpc(Closed(Src, worker.version, "pending_ai", Version.attempts - 1), Goto("claim"), Raised)
       ELSE Refused(Raised)

\* defer_source_version_for_review hands the attempt back; the run leaves the source.
DeferVersion ==
    /\ At("defer")
    /\ IF Owned(Src, worker.version) /\ Version.live
       THEN Rpc(Closed(Src, worker.version, "pending_ai", Version.attempts - 1), Goto("checkpoint"), Raised)
       ELSE Refused(Raised)

-----------------------------------------------------------------------------
(* Leaving a source, and the run.                                            *)

\* record_source_checkpoint: only a success moves the cursor, to the last page
\* this run ingested or to NULL (0) when it reached none.
Checkpoint(success) ==
    IF ~success THEN store
    ELSE [store EXCEPT !.checkpoint[Src] = [cursor |-> worker.page - 1, by |-> worker.run]]

CheckpointSource ==
    /\ At("checkpoint")
    /\ Rpc(Checkpoint(worker.verdict = "ok"), Goto("release"), Counted(Goto("release")))

\* The handler's own checkpoint is not guarded: if it raises, the exception
\* leaves run() once the lease is released.
CheckpointFailure ==
    /\ At("raised")
    /\ Rpc(Checkpoint(FALSE), Goto("release"), Goto("abandon"))

Released(s) == IF store.lease[s] = worker.run THEN [store EXCEPT !.lease[s] = Nobody] ELSE store

ReleaseLease ==
    \/ At("release") /\ Rpc(Released(Src), NextSource(worker), NextSource(Counted(worker)))
    \/ At("abandon") /\ Rpc(Released(Src), Idle(worker.run), Idle(worker.run))

FinishRun ==
    /\ At("outcome")
    /\ Rpc([store EXCEPT !.run[worker.run] = IF worker.counted = {} THEN "success" ELSE "degraded"],
           Idle(worker.run), Idle(worker.run))

Step ==
    \/ StartRun \/ SyncSource \/ AcquireLease \/ Discover \/ CollectPage \/ CollectEnds
    \/ ClaimVersion \/ ReadArtifact \/ AskModel \/ StoreArtifact \/ Conclude \/ JudgeIrrelevant
    \/ FinishVersion \/ FailVersion \/ DeferVersion \/ CheckpointSource \/ CheckpointFailure \/ ReleaseLease \/ FinishRun

\* The runner is cancelled or dies.
Crash ==
    /\ ~At("idle")
    /\ worker' = Idle(worker.run)
    /\ Fault
    /\ UNCHANGED store

\* Five minutes pass: for free over what an ended run left behind, as a fault
\* over what the present one holds.
Lapse(holder) == IF ~At("idle") /\ holder = worker.run THEN Fault ELSE UNCHANGED faults

LeaseLapses(s) ==
    /\ store.lease[s] # Nobody
    /\ store' = [store EXCEPT !.lease[s] = Nobody]
    /\ Lapse(store.lease[s])
    /\ UNCHANGED worker

ClaimLapses(s, p) ==
    /\ store.version[s][p].live
    /\ store' = [store EXCEPT !.version[s][p].live = FALSE]
    /\ Lapse(store.version[s][p].holder)
    /\ UNCHANGED worker

\* A submission or a reviewer changes a candidate: its approved revision or its
\* pending_review, which the fingerprint of a comparison covers.  It matters to a
\* version that has come to its comparisons, if there are candidates.
CandidatesChange(s, p) ==
    LET v == store.version[s][p] IN
    /\ Stages > TextStages /\ v.status # "settled" /\ v.cached >= TextStages /\ ~v.moved
    /\ store' = [store EXCEPT !.version[s][p].moved = TRUE]
    /\ UNCHANGED <<worker, faults>>

Next ==
    \/ Step \/ ExhaustRequests \/ Crash
    \/ \E s \in Sources : LeaseLapses(s) \/ \E p \in Pages : ClaimLapses(s, p) \/ CandidatesChange(s, p)

Spec == Init /\ [][Next]_vars

\* Every call is bounded by its timeout, so a live process keeps going.
FairSpec == Spec /\ WF_vars(~At("idle") /\ Step)

-----------------------------------------------------------------------------
(* Properties.                                                               *)

\* "Commit a cursor only after source success so a partial failure cannot skip
\* items": every page up to the cursor of a source has been ingested, whatever
\* failed, crashed or ran out on the way, in this run or an earlier one.
CursorSkipsNothing ==
    \A s \in Sources, p \in Pages : p <= store.checkpoint[s].cursor => Ingested(s, p)

\* One source's failures are not another's: when a run has seen all sources,
\* each of them that it did not count as failed, deferred or busy has its
\* success checkpoint and nothing of it is still leased or claimed by the run.
Clean(s, run) ==
    /\ store.checkpoint[s].by >= run
    /\ store.lease[s] # run
    /\ \A p \in Pages : store.version[s][p].holder # run

SourceIsolation ==
    /\ At("outcome") => \A s \in Sources \ worker.counted : Clean(s, worker.run)
    /\ \A r \in Runs : store.run[r] = "success" => \A s \in Sources : Clean(s, r)

\* The call budget by itself loses no version: one whose attempts all ended on
\* an exhausted budget shared one of these runs with another source, lost
\* answered comparisons to a change of its match candidates, or a run was
\* disturbed.
QuotaAloneLosesNothing ==
    \A s \in Sources, p \in Pages :
        LET v == store.version[s][p]
        IN  v.starved >= AttemptLimit => v.rival \/ v.moved \/ faults > 0

\* The claim loop ends: every run that started comes to its end, with its
\* outcome recorded or not.
RunEnds == ~At("idle") ~> At("idle")
=============================================================================
