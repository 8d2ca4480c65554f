-------------------------- MODULE CollectionProofs --------------------------
(***************************************************************************)
(* Theorems about Collection, for any number of sources, pages, runs and   *)
(* faults.  A call leaves one of three states (it ran and was answered, it *)
(* ran, it did not run), so the invariant is an operator of a database and *)
(* a process, and each action is shown to keep it in all three.            *)
(***************************************************************************)
EXTENDS Collection, TLAPS

Statuses == {"absent", "pending_ai", "processing", "settled", "error"}

VersionRecord == [status : Statuses, holder : Runs \cup {Nobody}, live : BOOLEAN, attempts : 0 .. AttemptLimit,
                  cached : 0 .. Stages, starved : 0 .. AttemptLimit, rival : BOOLEAN,
                  moved : BOOLEAN]

StoreRecord == [run : [Runs -> {"none", "running", "success", "degraded"}],
                lease : [Sources -> Runs \cup {Nobody}],
                version : [Sources -> [Pages -> VersionRecord]],
                checkpoint : [Sources -> [cursor : 0 .. PageCount, by : 0 .. RunCount]]]

WorkerRecord == [pc : Labels, run : 0 .. RunCount, source : Sources, listed : 0 .. PageCount, page : 1 .. PageCount + 1,
                 fetched : 0 .. MaxItems, version : 0 .. PageCount, stage : 0 .. Stages,
                 verdict : {"ok", "deferred", "failed"}, calls : 0 .. MaxCalls, spent : SUBSET Sources,
                 counted : SUBSET Sources, cut : BOOLEAN]

\* Where the process has a claimed version before it, and where it has none.
WithVersion == {"read", "ask", "store", "analysed", "finish", "defer"}
WithoutVersion == {"sync", "lease", "discover", "collect", "claim", "checkpoint", "release"}

Types(st, w) ==
  /\ st \in StoreRecord /\ w \in WorkerRecord
  /\ w.pc # "idle" => w.run \in Runs
  /\ w.pc \in {"ask", "store"} => w.stage < Stages
  /\ w.pc \in WithVersion \cup {"error"} => w.version \in Pages

\* An attempt meets an exhausted budget at most once.
AttemptsCount(st, w) ==
  /\ \A s \in Sources, p \in Pages : st.version[s][p].starved <= st.version[s][p].attempts
  /\ w.pc \in WithVersion =>
       st.version[w.source][w.version].starved < st.version[w.source][w.version].attempts

\* Pages before a cursor, and before the page of the process, are ingested.
Seen(st, w) ==
  /\ \A s \in Sources, p \in Pages : p <= st.checkpoint[s].cursor => st.version[s][p].status # "absent"
  /\ \A p \in Pages : p < w.page => st.version[w.source][p].status # "absent"

\* Clean, for any database.
CleanIn(st, s, r) ==
  /\ st.checkpoint[s].by >= r
  /\ st.lease[s] # r
  /\ \A p \in Pages : st.version[s][p].holder # r

\* A recorded success is over, and left every source clean.
SuccessIsClean(st, w) ==
  \A r \in Runs : st.run[r] = "success" =>
    /\ r < w.run \/ (r = w.run /\ w.pc = "idle")
    /\ \A s \in Sources : CleanIn(st, s, r)

\* The sources left behind are clean or counted; those to come are untouched.
VisitedIsClean(st, w) ==
  w.pc # "idle" => \A s \in Sources : s < w.source \/ w.pc = "outcome" => s \in w.counted \/ CleanIn(st, s, w.run)

AheadIsUntouched(st, w) ==
  /\ \A s \in Sources, p \in Pages : st.version[s][p].holder <= w.run
  /\ w.pc # "idle" => \A s \in Sources, p \in Pages : s > w.source => st.version[s][p].holder # w.run

\* The present source: what the run holds of it while nothing went wrong there.
PresentIsTidy(st, w) ==
  /\ w.pc \in WithoutVersion /\ w.source \notin w.counted =>
       \A p \in Pages : st.version[w.source][p].holder # w.run
  /\ w.pc \in WithVersion /\ w.source \notin w.counted =>
       \A p \in Pages : p # w.version => st.version[w.source][p].holder # w.run
  /\ w.verdict # "ok" \/ w.pc \in {"raised", "error", "defer"} => w.source \in w.counted
  /\ w.pc = "release" /\ w.source \notin w.counted => st.checkpoint[w.source].by >= w.run

CollectionInv(st, w) ==
  /\ Types(st, w) /\ AttemptsCount(st, w) /\ Seen(st, w) /\ SuccessIsClean(st, w)
  /\ VisitedIsClean(st, w) /\ AheadIsUntouched(st, w) /\ PresentIsTidy(st, w)

LEMMA Constants ==
  /\ SourceCount \in Nat \ {0} /\ PageCount \in Nat \ {0} /\ MaxItems \in Nat \ {0} /\ Stages \in Nat \ {0}
  /\ MaxCalls \in Nat \ {0} /\ AttemptLimit \in Nat \ {0} /\ RunCount \in Nat \ {0} /\ MaxFaults \in Nat
  BY CollectionAssumption

-----------------------------------------------------------------------------
(* Moves of the process.                                                   *)

\* Once its source is counted, the process may stand anywhere on the way out.
LEMMA CountedMove ==
  ASSUME NEW st, NEW w, NEW v, CollectionInv(st, w), w.pc # "idle",
         Types(st, v), AttemptsCount(st, v),
         v.run = w.run, v.source = w.source, v.page = w.page, v.counted = w.counted \cup {w.source},
         v.pc \notin {"idle", "outcome"}
  PROVE  CollectionInv(st, v)
  <1>1. Seen(st, v)
    BY DEF CollectionInv, Seen
  <1>2. SuccessIsClean(st, v)
    BY DEF CollectionInv, SuccessIsClean
  <1>3. VisitedIsClean(st, v)
    BY DEF CollectionInv, VisitedIsClean
  <1>4. AheadIsUntouched(st, v)
    BY DEF CollectionInv, AheadIsUntouched
  <1>5. PresentIsTidy(st, v)
    BY DEF PresentIsTidy
  <1>. QED
    BY <1>1, <1>2, <1>3, <1>4, <1>5 DEF CollectionInv

LEMMA RaisedMove ==
  ASSUME NEW st, NEW w, CollectionInv(st, w), w.pc # "idle"
  PROVE  CollectionInv(st, [w EXCEPT !.pc = "raised", !.counted = @ \cup {w.source}])
  <1>. DEFINE v == [w EXCEPT !.pc = "raised", !.counted = @ \cup {w.source}]
  <1>1. w \in WorkerRecord /\ st \in StoreRecord /\ w.run \in Runs
    BY DEF CollectionInv, Types
  <1>2. /\ v \in WorkerRecord /\ v.run = w.run /\ v.source = w.source /\ v.page = w.page
        /\ v.counted = w.counted \cup {w.source} /\ v.pc = "raised"
    BY <1>1 DEF WorkerRecord, Labels
  <1>. HIDE DEF v
  <1>3. Types(st, v)
    BY <1>1, <1>2 DEF Types, WithVersion
  <1>4. AttemptsCount(st, v)
    BY <1>2 DEF CollectionInv, AttemptsCount, WithVersion
  <1>5. CollectionInv(st, v)
    BY <1>1, <1>2, <1>3, <1>4, CountedMove
  <1>. QED
    BY <1>5 DEF v

\* The version fails, whatever state it was left in.
LEMMA StageFailsMove ==
  ASSUME NEW st, NEW w, CollectionInv(st, w), w.pc # "idle", w.version \in Pages, NEW calls \in 0 .. MaxCalls,
         NEW spent \in SUBSET Sources
  PROVE  CollectionInv(st, [w EXCEPT !.pc = "error", !.verdict = "failed", !.counted = @ \cup {w.source},
                                     !.calls = calls, !.spent = spent])
  <1>. DEFINE v == [w EXCEPT !.pc = "error", !.verdict = "failed", !.counted = @ \cup {w.source},
                             !.calls = calls, !.spent = spent]
  <1>1. w \in WorkerRecord /\ st \in StoreRecord /\ w.run \in Runs
    BY DEF CollectionInv, Types
  <1>2. /\ v \in WorkerRecord /\ v.run = w.run /\ v.source = w.source /\ v.page = w.page
        /\ v.counted = w.counted \cup {w.source} /\ v.pc = "error" /\ v.version = w.version
    BY <1>1 DEF WorkerRecord, Labels
  <1>. HIDE DEF v
  <1>3. Types(st, v)
    BY <1>1, <1>2 DEF Types, WithVersion
  <1>4. AttemptsCount(st, v)
    BY <1>2 DEF CollectionInv, AttemptsCount, WithVersion
  <1>5. CollectionInv(st, v)
    BY <1>1, <1>2, <1>3, <1>4, CountedMove
  <1>. QED
    BY <1>5 DEF v

LEMMA IdleMove ==
  ASSUME NEW st, NEW w, CollectionInv(st, w)
  PROVE  CollectionInv(st, Idle(w.run))
  <1>. DEFINE v == Idle(w.run)
  <1>1. w \in WorkerRecord /\ st \in StoreRecord
    BY DEF CollectionInv, Types
  <1>2. v \in WorkerRecord /\ v.run = w.run /\ v.source = 1 /\ v.page = 1 /\ v.pc = "idle" /\ v.verdict = "ok"
    BY <1>1, Constants DEF Idle, WorkerRecord, Labels, Sources
  <1>. HIDE DEF v
  <1>3. Types(st, v)
    BY <1>1, <1>2 DEF Types, WithVersion
  <1>4. AttemptsCount(st, v)
    BY <1>2 DEF CollectionInv, AttemptsCount, WithVersion
  <1>5. Seen(st, v)
    <2>1. \A p \in Pages : ~(p < 1)
      BY Constants DEF Pages
    <2>. QED
      BY <1>2, <2>1 DEF CollectionInv, Seen
  <1>6. SuccessIsClean(st, v) /\ VisitedIsClean(st, v)
    BY <1>2 DEF CollectionInv, SuccessIsClean, VisitedIsClean
  <1>7. AheadIsUntouched(st, v)
    BY <1>2 DEF CollectionInv, AheadIsUntouched
  <1>8. PresentIsTidy(st, v)
    BY <1>2 DEF PresentIsTidy, WithVersion, WithoutVersion
  <1>9. CollectionInv(st, v)
    BY <1>3, <1>4, <1>5, <1>6, <1>7, <1>8 DEF CollectionInv
  <1>. QED
    BY <1>9 DEF v

\* The source is left when it is clean, or counted.
LEMMA NextSourceMove ==
  ASSUME NEW st, NEW w, CollectionInv(st, w), w.pc # "idle",
         w.source \in w.counted \/ CleanIn(st, w.source, w.run)
  PROVE  CollectionInv(st, NextSource(w))
  <1>1. w \in WorkerRecord /\ st \in StoreRecord /\ w.run \in Runs
    BY DEF CollectionInv, Types
  <1>2. CASE w.source = SourceCount
    <2>. DEFINE v == [w EXCEPT !.pc = "outcome"]
    <2>1. NextSource(w) = v
      BY <1>2 DEF NextSource
    <2>2. /\ v \in WorkerRecord /\ v.pc = "outcome" /\ v.run = w.run /\ v.source = w.source /\ v.page = w.page
          /\ v.counted = w.counted /\ v.verdict = w.verdict
      BY <1>1 DEF WorkerRecord, Labels
    <2>. HIDE DEF v
    <2>3. Types(st, v)
      BY <1>1, <2>2 DEF Types, WithVersion
    <2>4. AttemptsCount(st, v) /\ Seen(st, v)
      BY <2>2 DEF CollectionInv, AttemptsCount, Seen, WithVersion
    <2>5. SuccessIsClean(st, v)
      BY <2>2 DEF CollectionInv, SuccessIsClean
    <2>6. VisitedIsClean(st, v)
      <3>1. \A s \in Sources : s < w.source \/ s = w.source
        BY <1>2, Constants DEF Sources
      <3>. QED
        BY <2>2, <3>1 DEF CollectionInv, VisitedIsClean
    <2>7. AheadIsUntouched(st, v)
      BY <2>2 DEF CollectionInv, AheadIsUntouched
    <2>8. PresentIsTidy(st, v)
      BY <2>2 DEF CollectionInv, PresentIsTidy, WithVersion, WithoutVersion
    <2>. QED
      BY <2>1, <2>3, <2>4, <2>5, <2>6, <2>7, <2>8 DEF CollectionInv
  <1>3. CASE w.source # SourceCount
    <2>. DEFINE v == [w EXCEPT !.pc = "sync", !.source = @ + 1, !.listed = 0, !.page = 1, !.version = 0, !.stage = 0, !.verdict = "ok"]
    <2>1. NextSource(w) = v
      BY <1>3 DEF NextSource
    <2>2. w.source + 1 \in Sources /\ w.source \in Nat
      BY <1>1, <1>3, Constants DEF WorkerRecord, Sources
    <2>3. /\ v \in WorkerRecord /\ v.pc = "sync" /\ v.run = w.run /\ v.source = w.source + 1 /\ v.page = 1
          /\ v.counted = w.counted /\ v.verdict = "ok"
      <3>1. 0 \in 0 .. PageCount /\ 1 \in 1 .. PageCount + 1 /\ 0 \in 0 .. Stages /\ "sync" \in Labels
        BY Constants DEF Labels
      <3>2. v \in WorkerRecord
        BY <1>1, <2>2, <3>1 DEF WorkerRecord
      <3>. QED
        BY <1>1, <3>2 DEF WorkerRecord
    <2>. HIDE DEF v
    <2>4. Types(st, v)
      BY <1>1, <2>3 DEF Types, WithVersion
    <2>5. AttemptsCount(st, v)
      BY <2>3 DEF CollectionInv, AttemptsCount, WithVersion
    <2>6. Seen(st, v)
      <3>1. \A p \in Pages : ~(p < 1)
        BY Constants DEF Pages
      <3>. QED
        BY <2>3, <3>1 DEF CollectionInv, Seen
    <2>7. SuccessIsClean(st, v)
      BY <2>3 DEF CollectionInv, SuccessIsClean
    <2>8. VisitedIsClean(st, v)
      <3>1. \A s \in Sources : s < w.source + 1 => s < w.source \/ s = w.source
        BY <2>2 DEF Sources
      <3>. QED
        BY <2>3, <3>1 DEF CollectionInv, VisitedIsClean
    <2>9. AheadIsUntouched(st, v)
      <3>1. \A s \in Sources : s > w.source + 1 => s > w.source
        BY <2>2 DEF Sources
      <3>. QED
        BY <2>3, <3>1 DEF CollectionInv, AheadIsUntouched
    <2>10. PresentIsTidy(st, v)
      <3>1. w.source + 1 > w.source
        BY <2>2
      <3>. QED
        BY <2>2, <2>3, <3>1 DEF CollectionInv, AheadIsUntouched, PresentIsTidy, WithVersion, WithoutVersion
    <2>. QED
      BY <2>1, <2>4, <2>5, <2>6, <2>7, <2>8, <2>9, <2>10 DEF CollectionInv
  <1>. QED
    BY <1>2, <1>3

\* Any other move within a source has the present source to answer for.
LEMMA Move ==
  ASSUME NEW st, NEW w, NEW v, CollectionInv(st, w), w.pc # "idle",
         Types(st, v), AttemptsCount(st, v), PresentIsTidy(st, v),
         \A p \in Pages : p < v.page => st.version[w.source][p].status # "absent",
         v.run = w.run, v.source = w.source, v.counted \cup {w.source} = w.counted \cup {w.source},
         v.pc \notin {"idle", "outcome"}
  PROVE  CollectionInv(st, v)
  <1>1. Seen(st, v)
    BY DEF CollectionInv, Seen
  <1>2. SuccessIsClean(st, v)
    BY DEF CollectionInv, SuccessIsClean
  <1>3. VisitedIsClean(st, v)
    <2>1. w.source \in Nat /\ Sources \subseteq Nat
      BY Constants DEF CollectionInv, Types, WorkerRecord, Sources
    <2>2. \A s \in Sources : s < w.source => (s \in v.counted <=> s \in w.counted)
      BY <2>1
    <2>. QED
      BY <2>2 DEF CollectionInv, VisitedIsClean
  <1>4. AheadIsUntouched(st, v)
    BY DEF CollectionInv, AheadIsUntouched
  <1>. QED
    BY <1>1, <1>2, <1>3, <1>4 DEF CollectionInv

-----------------------------------------------------------------------------
(* Effects on the database.                                                *)

LEMMA LeaseEffect ==
  ASSUME NEW st, NEW w, CollectionInv(st, w), NEW s \in Sources, NEW holder \in Runs \cup {Nobody},
         holder = Nobody \/ (holder = w.run /\ s = w.source /\ w.pc \notin {"idle", "outcome"})
  PROVE  CollectionInv([st EXCEPT !.lease[s] = holder], w)
  <1>. DEFINE e == [st EXCEPT !.lease[s] = holder]
  <1>1. w \in WorkerRecord /\ st \in StoreRecord
    BY DEF CollectionInv, Types
  <1>2. e = [st EXCEPT !.lease = [@ EXCEPT ![s] = holder]]
    OBVIOUS
  <1>3. /\ e \in StoreRecord /\ e.run = st.run /\ e.version = st.version /\ e.checkpoint = st.checkpoint
        /\ \A t \in Sources : e.lease[t] = (IF t = s THEN holder ELSE st.lease[t])
    BY <1>1 DEF StoreRecord
  <1>. HIDE DEF e
  <1>4. Types(e, w) /\ AttemptsCount(e, w) /\ Seen(e, w)
    BY <1>3 DEF CollectionInv, Types, AttemptsCount, Seen
  <1>5. AheadIsUntouched(e, w) /\ PresentIsTidy(e, w)
    BY <1>3 DEF CollectionInv, AheadIsUntouched, PresentIsTidy
  <1>6. w.run \in Nat /\ Runs \subseteq Nat /\ Sources \subseteq Nat /\ \A r \in Runs : r # Nobody
    BY <1>1, Constants DEF WorkerRecord, Runs, Sources, Nobody
  <1>7. \A r \in Runs, t \in Sources : CleanIn(st, t, r) /\ (holder = Nobody \/ t # s \/ r # holder) => CleanIn(e, t, r)
    BY <1>3, <1>6 DEF CleanIn
  <1>8. SuccessIsClean(e, w)
    <2>. SUFFICES ASSUME NEW r \in Runs, e.run[r] = "success"
                  PROVE  (r < w.run \/ (r = w.run /\ w.pc = "idle")) /\ \A t \in Sources : CleanIn(e, t, r)
      BY DEF SuccessIsClean
    <2>1. (r < w.run \/ (r = w.run /\ w.pc = "idle")) /\ \A t \in Sources : CleanIn(st, t, r)
      BY <1>3 DEF CollectionInv, SuccessIsClean
    <2>2. holder = Nobody \/ r # holder
      BY <1>6, <2>1
    <2>. QED
      BY <1>7, <2>1, <2>2
  <1>9. VisitedIsClean(e, w)
    <2>. SUFFICES ASSUME w.pc # "idle", NEW t \in Sources, t < w.source \/ w.pc = "outcome", t \notin w.counted
                  PROVE  CleanIn(e, t, w.run)
      BY DEF VisitedIsClean
    <2>1. CleanIn(st, t, w.run) /\ w.run \in Runs
      BY DEF CollectionInv, VisitedIsClean, Types
    <2>2. holder = Nobody \/ t # s
      BY <1>6
    <2>. QED
      BY <1>7, <2>1, <2>2
  <1>10. CollectionInv(e, w)
    BY <1>4, <1>5, <1>8, <1>9 DEF CollectionInv
  <1>. QED
    BY <1>10 DEF e

\* One version changes: it is never claimed for a source that is not counted,
\* and never forgotten.
LEMMA VersionEffect ==
  ASSUME NEW st, NEW w, CollectionInv(st, w), NEW s \in Sources, NEW p \in Pages, NEW rec \in VersionRecord,
         \/ rec.holder \in {st.version[s][p].holder, Nobody}
         \/ rec.holder = w.run /\ s = w.source /\ s \in w.counted /\ w.pc \notin {"idle", "outcome"},
         rec.status = "absent" => st.version[s][p].status = "absent",
         rec.starved <= rec.attempts,
         w.pc \in WithVersion => rec.starved < rec.attempts \/ s # w.source \/ p # w.version
  PROVE  CollectionInv([st EXCEPT !.version[s][p] = rec], w)
  <1>. DEFINE e == [st EXCEPT !.version[s][p] = rec]
  <1>1. w \in WorkerRecord /\ st \in StoreRecord
    BY DEF CollectionInv, Types
  <1>2. st.version \in [Sources -> [Pages -> VersionRecord]]
    BY <1>1 DEF StoreRecord
  <1>. DEFINE vs == [st.version EXCEPT ![s] = [@ EXCEPT ![p] = rec]]
  <1>3. vs \in [Sources -> [Pages -> VersionRecord]]
    <2>1. [st.version[s] EXCEPT ![p] = rec] \in [Pages -> VersionRecord]
      BY <1>2
    <2>. QED
      BY <1>2, <2>1
  <1>4. \A t \in Sources, q \in Pages : vs[t][q] = (IF t = s /\ q = p THEN rec ELSE st.version[t][q])
    BY <1>2
  <1>5. e = [st EXCEPT !.version = vs]
    OBVIOUS
  <1>. HIDE DEF vs
  <1>6. e \in StoreRecord /\ e.run = st.run /\ e.lease = st.lease /\ e.checkpoint = st.checkpoint /\ e.version = vs
    BY <1>1, <1>3, <1>5 DEF StoreRecord
  <1>7. \A t \in Sources, q \in Pages : e.version[t][q] = (IF t = s /\ q = p THEN rec ELSE st.version[t][q])
    BY <1>4, <1>6
  <1>. HIDE DEF e
  <1>8. w.run \in Nat /\ w.source \in Sources /\ Runs \subseteq Nat /\ Sources \subseteq Nat /\ \A r \in Runs : r # Nobody
    BY <1>1, Constants DEF WorkerRecord, Runs, Sources, Nobody
  <1>9. Types(e, w)
    BY <1>6 DEF CollectionInv, Types
  <1>10. AttemptsCount(e, w)
    <2>1. w.pc \in WithVersion => w.version \in Pages
      BY DEF CollectionInv, Types
    <2>. QED
      BY <1>7, <1>8, <2>1 DEF CollectionInv, AttemptsCount
  <1>11. Seen(e, w)
    <2>1. \A t \in Sources, q \in Pages : st.version[t][q].status # "absent" => e.version[t][q].status # "absent"
      BY <1>7
    <2>. QED
      BY <1>6, <1>8, <2>1 DEF CollectionInv, Seen
  <1>12. \A r \in Runs, t \in Sources : CleanIn(st, t, r) /\ (rec.holder # r \/ t # s) => CleanIn(e, t, r)
    BY <1>6, <1>7 DEF CleanIn
  <1>13. \A r \in Runs, t \in Sources :
           CleanIn(st, t, r) /\ rec.holder \in {st.version[s][p].holder, Nobody} => CleanIn(e, t, r)
    BY <1>6, <1>7, <1>8 DEF CleanIn
  <1>14. SuccessIsClean(e, w)
    <2>. SUFFICES ASSUME NEW r \in Runs, e.run[r] = "success"
                  PROVE  (r < w.run \/ (r = w.run /\ w.pc = "idle")) /\ \A t \in Sources : CleanIn(e, t, r)
      BY DEF SuccessIsClean
    <2>1. (r < w.run \/ (r = w.run /\ w.pc = "idle")) /\ \A t \in Sources : CleanIn(st, t, r)
      BY <1>6 DEF CollectionInv, SuccessIsClean
    <2>2. rec.holder \in {st.version[s][p].holder, Nobody} \/ rec.holder # r
      BY <1>8, <2>1
    <2>. QED
      BY <1>12, <1>13, <2>1, <2>2
  <1>15. VisitedIsClean(e, w)
    <2>. SUFFICES ASSUME w.pc # "idle", NEW t \in Sources, t < w.source \/ w.pc = "outcome", t \notin w.counted
                  PROVE  CleanIn(e, t, w.run)
      BY DEF VisitedIsClean
    <2>1. CleanIn(st, t, w.run) /\ w.run \in Runs
      BY DEF CollectionInv, VisitedIsClean, Types
    <2>2. rec.holder \in {st.version[s][p].holder, Nobody} \/ t # s
      OBVIOUS
    <2>. QED
      BY <1>12, <1>13, <2>1, <2>2
  <1>16. AheadIsUntouched(e, w)
    <2>1. rec.holder <= w.run
      BY <1>8 DEF CollectionInv, AheadIsUntouched, Nobody
    <2>2. w.pc # "idle" => (s > w.source => rec.holder # w.run)
      <3>1. w.pc # "idle" => w.run # Nobody
        BY <1>8 DEF CollectionInv, Types
      <3>. QED
        BY <1>8, <3>1 DEF CollectionInv, AheadIsUntouched
    <2>. QED
      BY <1>7, <2>1, <2>2 DEF CollectionInv, AheadIsUntouched
  <1>17. PresentIsTidy(e, w)
    <2>1. w.pc # "idle" => w.run # Nobody
      BY <1>8 DEF CollectionInv, Types
    <2>2. \A q \in Pages : w.pc # "idle" /\ w.source \notin w.counted /\ st.version[w.source][q].holder # w.run
                          => e.version[w.source][q].holder # w.run
      BY <1>7, <1>8, <2>1
    <2>. QED
      BY <1>6, <2>2 DEF CollectionInv, PresentIsTidy, WithVersion, WithoutVersion
  <1>18. CollectionInv(e, w)
    BY <1>9, <1>10, <1>11, <1>14, <1>15, <1>16, <1>17 DEF CollectionInv
  <1>. QED
    BY <1>18 DEF e

LEMMA CheckpointEffect ==
  ASSUME NEW st, NEW w, CollectionInv(st, w), w.pc \notin {"idle", "outcome"}
  PROVE  CollectionInv([st EXCEPT !.checkpoint[w.source] = [cursor |-> w.page - 1, by |-> w.run]], w)
  <1>. DEFINE c == [cursor |-> w.page - 1, by |-> w.run]
              e == [st EXCEPT !.checkpoint[w.source] = c]
  <1>1. w \in WorkerRecord /\ st \in StoreRecord /\ w.source \in Sources /\ w.page \in 1 .. PageCount + 1 /\ w.run \in 0 .. RunCount
    BY DEF CollectionInv, Types, WorkerRecord
  <1>2. c \in [cursor : 0 .. PageCount, by : 0 .. RunCount]
    BY <1>1, Constants
  <1>3. e = [st EXCEPT !.checkpoint = [@ EXCEPT ![w.source] = c]]
    OBVIOUS
  <1>. HIDE DEF c
  <1>4. /\ e \in StoreRecord /\ e.run = st.run /\ e.version = st.version /\ e.lease = st.lease
        /\ \A t \in Sources : e.checkpoint[t] = (IF t = w.source THEN c ELSE st.checkpoint[t])
    BY <1>1, <1>2, <1>3 DEF StoreRecord
  <1>. HIDE DEF e
  <1>5. Types(e, w) /\ AttemptsCount(e, w) /\ AheadIsUntouched(e, w)
    BY <1>4 DEF CollectionInv, Types, AttemptsCount, AheadIsUntouched
  <1>6. c.by = w.run /\ c.cursor = w.page - 1
    BY DEF c
  <1>7. Seen(e, w)
    <2>1. \A p \in Pages : p <= c.cursor => p < w.page
      BY <1>1, <1>6, Constants DEF Pages
    <2>. QED
      BY <1>1, <1>4, <2>1 DEF CollectionInv, Seen
  <1>8. Runs \subseteq Nat /\ w.run \in Nat /\ Sources \subseteq Nat
    BY <1>1, Constants DEF Runs, Sources
  <1>9. \A r \in Runs, t \in Sources : CleanIn(st, t, r) /\ r <= w.run => CleanIn(e, t, r)
    BY <1>4, <1>6 DEF CleanIn
  <1>10. SuccessIsClean(e, w)
    <2>1. \A r \in Runs : r < w.run \/ r = w.run => r <= w.run
      BY <1>8
    <2>. QED
      BY <1>4, <1>9, <2>1 DEF CollectionInv, SuccessIsClean
  <1>11. VisitedIsClean(e, w)
    <2>1. w.run \in Runs /\ w.run <= w.run
      BY <1>8 DEF CollectionInv, Types
    <2>. QED
      BY <1>9, <2>1 DEF CollectionInv, VisitedIsClean
  <1>12. PresentIsTidy(e, w)
    <2>1. e.checkpoint[w.source].by >= w.run
      <3>1. e.checkpoint[w.source] = c
        BY <1>1, <1>4, Zenon
      <3>2. w.run >= w.run
        BY <1>8
      <3>. QED
        BY <1>6, <3>1, <3>2
    <2>. QED
      BY <1>4, <2>1 DEF CollectionInv, PresentIsTidy
  <1>13. CollectionInv(e, w)
    BY <1>5, <1>7, <1>10, <1>11, <1>12 DEF CollectionInv
  <1>. QED
    BY <1>13 DEF e, c

\* A call keeps the invariant when all it may leave satisfies it.
LEMMA RpcKeeps ==
  ASSUME NEW effect, NEW answered, NEW failed, Rpc(effect, answered, failed),
         CollectionInv(effect, answered), CollectionInv(effect, failed), CollectionInv(store, failed)
  PROVE  CollectionInv(store, worker)'
  BY DEF Rpc

LEMMA RunEffect ==
  ASSUME NEW st, NEW w, CollectionInv(st, w), w.run \in Runs, NEW outcome \in {"running", "success", "degraded"},
         outcome = "success" => w.pc = "idle" /\ \A s \in Sources : CleanIn(st, s, w.run)
  PROVE  CollectionInv([st EXCEPT !.run[w.run] = outcome], w)
  <1>. DEFINE e == [st EXCEPT !.run[w.run] = outcome]
  <1>1. w \in WorkerRecord /\ st \in StoreRecord
    BY DEF CollectionInv, Types
  <1>2. e = [st EXCEPT !.run = [@ EXCEPT ![w.run] = outcome]]
    OBVIOUS
  <1>3. /\ e \in StoreRecord /\ e.lease = st.lease /\ e.version = st.version /\ e.checkpoint = st.checkpoint
        /\ \A r \in Runs : e.run[r] = (IF r = w.run THEN outcome ELSE st.run[r])
    BY <1>1 DEF StoreRecord
  <1>. HIDE DEF e
  <1>4. Types(e, w) /\ AttemptsCount(e, w) /\ Seen(e, w)
    BY <1>3 DEF CollectionInv, Types, AttemptsCount, Seen
  <1>5. AheadIsUntouched(e, w) /\ PresentIsTidy(e, w)
    BY <1>3 DEF CollectionInv, AheadIsUntouched, PresentIsTidy
  <1>6. \A r \in Runs, s \in Sources : CleanIn(e, s, r) <=> CleanIn(st, s, r)
    BY <1>3 DEF CleanIn
  <1>7. SuccessIsClean(e, w)
    BY <1>3, <1>6 DEF CollectionInv, SuccessIsClean
  <1>8. VisitedIsClean(e, w)
    BY <1>6 DEF CollectionInv, VisitedIsClean
  <1>9. CollectionInv(e, w)
    BY <1>4, <1>5, <1>7, <1>8 DEF CollectionInv
  <1>. QED
    BY <1>9 DEF e

-----------------------------------------------------------------------------
(* More moves.                                                             *)

\* A new run finds nothing of its own.
LEMMA StartMove ==
  ASSUME NEW st, NEW w, CollectionInv(st, w), w.pc = "idle", w.run < RunCount,
         NEW v, v \in WorkerRecord, v.pc \in {"idle", "sync"}, v.run = w.run + 1, v.source = 1, v.page = 1, v.verdict = "ok"
  PROVE  CollectionInv(st, v)
  <1>1. w.run \in Nat /\ w.run + 1 \in Runs /\ st \in StoreRecord /\ Runs \subseteq Nat
    BY Constants DEF CollectionInv, Types, WorkerRecord, Runs
  <1>2. Types(st, v) /\ AttemptsCount(st, v)
    BY <1>1 DEF CollectionInv, Types, AttemptsCount, WithVersion
  <1>3. Seen(st, v)
    <2>1. \A p \in Pages : ~(p < 1)
      BY Constants DEF Pages
    <2>. QED
      BY <2>1 DEF CollectionInv, Seen
  <1>4. SuccessIsClean(st, v)
    <2>1. \A r \in Runs : r < w.run \/ r = w.run => r < w.run + 1
      BY <1>1
    <2>. QED
      BY <2>1 DEF CollectionInv, SuccessIsClean
  <1>5. VisitedIsClean(st, v)
    <2>1. \A s \in Sources : ~(s < 1)
      BY Constants DEF Sources
    <2>. QED
      BY <2>1 DEF VisitedIsClean
  <1>6. \A s \in Sources, p \in Pages : st.version[s][p].holder <= w.run + 1 /\ st.version[s][p].holder # w.run + 1
    <2>. SUFFICES ASSUME NEW s \in Sources, NEW p \in Pages
                  PROVE  st.version[s][p].holder <= w.run + 1 /\ st.version[s][p].holder # w.run + 1
      OBVIOUS
    <2>1. st.version[s][p] \in VersionRecord
      BY <1>1 DEF StoreRecord
    <2>2. st.version[s][p].holder \in Nat
      <3>1. st.version[s][p].holder \in Runs \cup {Nobody}
        BY <2>1 DEF VersionRecord
      <3>2. \A h \in Runs \cup {Nobody} : h \in Nat
        BY <1>1 DEF Nobody
      <3>. QED
        BY <3>1, <3>2
    <2>3. st.version[s][p].holder <= w.run
      BY DEF CollectionInv, AheadIsUntouched
    <2>. QED
      BY <1>1, <2>2, <2>3
  <1>7. AheadIsUntouched(st, v)
    BY <1>6 DEF AheadIsUntouched
  <1>8. PresentIsTidy(st, v)
    <2>1. 1 \in Sources
      BY Constants DEF Sources
    <2>. QED
      BY <1>6, <2>1 DEF PresentIsTidy, WithVersion, WithoutVersion
  <1>. QED
    BY <1>2, <1>3, <1>4, <1>5, <1>7, <1>8 DEF CollectionInv

\* A step to the next label before the claim.
LEMMA QuietMove ==
  ASSUME NEW st, NEW w, CollectionInv(st, w), w.pc \in WithoutVersion,
         NEW v, v \in WorkerRecord, v.pc \in WithoutVersion \ {"release"},
         v.run = w.run, v.source = w.source, v.counted = w.counted, v.verdict = w.verdict,
         \A p \in Pages : p < v.page => st.version[w.source][p].status # "absent"
  PROVE  CollectionInv(st, v)
  <1>1. w.pc # "idle" /\ v.pc \notin {"idle", "outcome", "raised", "error", "defer", "release", "ask", "store"} /\ v.pc \notin WithVersion
    BY DEF WithVersion, WithoutVersion
  <1>2. Types(st, v) /\ AttemptsCount(st, v)
    BY <1>1 DEF CollectionInv, Types, AttemptsCount
  <1>3. PresentIsTidy(st, v)
    BY <1>1 DEF CollectionInv, PresentIsTidy
  <1>. QED
    BY <1>1, <1>2, <1>3, Move

\* A step from one stage of a version to the next.
LEMMA VersionMove ==
  ASSUME NEW st, NEW w, CollectionInv(st, w), w.pc \in WithVersion,
         NEW v, v \in WorkerRecord, v.pc \in WithVersion \ {"defer"}, v.pc \in {"ask", "store"} => v.stage < Stages,
         v.run = w.run, v.source = w.source, v.counted = w.counted, v.verdict = w.verdict, v.page = w.page,
         v.version = w.version
  PROVE  CollectionInv(st, v)
  <1>1. w.pc # "idle" /\ v.pc \notin {"idle", "outcome", "raised", "error", "defer", "release"} /\ v.pc \notin WithoutVersion
    BY DEF WithVersion, WithoutVersion
  <1>2. Types(st, v) /\ AttemptsCount(st, v)
    BY <1>1 DEF CollectionInv, Types, AttemptsCount
  <1>3. PresentIsTidy(st, v)
    BY <1>1 DEF CollectionInv, PresentIsTidy
  <1>4. \A p \in Pages : p < v.page => st.version[w.source][p].status # "absent"
    BY DEF CollectionInv, Seen
  <1>. QED
    BY <1>1, <1>2, <1>3, <1>4, Move

\* How an action of the process fails.
LEMMA Failing ==
  ASSUME NEW st, CollectionInv(st, worker), worker.pc # "idle"
  PROVE  /\ CollectionInv(st, Raised)
         /\ worker.version \in Pages => CollectionInv(st, StageFails)
         /\ worker.pc # "outcome" => CollectionInv(st, NextSource(Counted(worker)))
  <1>1. worker \in WorkerRecord /\ st \in StoreRecord /\ worker.run \in Runs
    BY DEF CollectionInv, Types
  <1>2. CollectionInv(st, Raised)
    <2>1. Raised = [worker EXCEPT !.pc = "raised", !.counted = @ \cup {worker.source}]
      BY <1>1 DEF Raised, Counted, WorkerRecord
    <2>. QED
      BY <2>1, RaisedMove
  <1>3. ASSUME worker.version \in Pages PROVE CollectionInv(st, StageFails)
    <2>1. StageFails = [worker EXCEPT !.pc = "error", !.verdict = "failed", !.counted = @ \cup {worker.source},
                                      !.calls = worker.calls, !.spent = worker.spent]
      BY <1>1 DEF StageFails, Counted, WorkerRecord
    <2>2. worker.calls \in 0 .. MaxCalls /\ worker.spent \in SUBSET Sources
      BY <1>1 DEF WorkerRecord
    <2>. QED
      BY <1>3, <2>1, <2>2, StageFailsMove
  <1>4. ASSUME worker.pc # "outcome" PROVE CollectionInv(st, NextSource(Counted(worker)))
    <2>. DEFINE v == Counted(worker)
    <2>1. /\ v \in WorkerRecord /\ v.run = worker.run /\ v.source = worker.source /\ v.page = worker.page
          /\ v.counted = worker.counted \cup {worker.source} /\ v.pc = worker.pc /\ v.version = worker.version
          /\ v.stage = worker.stage
      BY <1>1 DEF Counted, WorkerRecord
    <2>. HIDE DEF v
    <2>2. Types(st, v) /\ AttemptsCount(st, v)
      BY <2>1 DEF CollectionInv, Types, AttemptsCount
    <2>3. CollectionInv(st, v)
      BY <1>4, <2>1, <2>2, CountedMove
    <2>4. CollectionInv(st, NextSource(v))
      BY <2>1, <2>3, NextSourceMove
    <2>. QED
      BY <2>4 DEF v
  <1>. QED
    BY <1>2, <1>3, <1>4

-----------------------------------------------------------------------------
(* The actions.                                                            *)

Keeps == CollectionInv(store, worker)'

LEMMA GotoFields ==
  ASSUME worker \in WorkerRecord, NEW label \in Labels
  PROVE  /\ Goto(label) \in WorkerRecord /\ Goto(label).pc = label
         /\ Goto(label).run = worker.run /\ Goto(label).source = worker.source /\ Goto(label).page = worker.page
         /\ Goto(label).counted = worker.counted /\ Goto(label).verdict = worker.verdict
         /\ Goto(label).version = worker.version /\ Goto(label).stage = worker.stage /\ Goto(label).calls = worker.calls
         /\ Goto(label).spent = worker.spent
  BY DEF Goto, WorkerRecord

LEMMA StartRunKeeps == CollectionInv(store, worker) /\ StartRun => Keeps
  <1>. SUFFICES ASSUME CollectionInv(store, worker), StartRun PROVE Keeps
    OBVIOUS
  <1>. DEFINE v == [Idle(worker.run + 1) EXCEPT !.pc = "sync"]
              u == [v EXCEPT !.pc = "idle"]
              e == [store EXCEPT !.run[worker.run + 1] = "running"]
  <1>1. worker.pc = "idle" /\ worker.run < RunCount /\ Rpc(e, v, u)
    BY DEF StartRun, At
  <1>2. worker.run + 1 \in Runs /\ worker.run + 1 \in 0 .. RunCount
    BY <1>1, Constants DEF CollectionInv, Types, WorkerRecord, Runs
  <1>3. 1 \in Sources /\ 0 \in 0 .. PageCount /\ 1 \in 1 .. PageCount + 1 /\ 0 \in 0 .. Stages /\ 0 \in 0 .. MaxItems /\ 0 \in 0 .. MaxCalls
    BY Constants DEF Sources
  <1>4. /\ v \in WorkerRecord /\ v.pc = "sync" /\ v.run = worker.run + 1 /\ v.source = 1 /\ v.page = 1 /\ v.verdict = "ok"
        /\ u \in WorkerRecord /\ u.pc = "idle" /\ u.run = worker.run + 1 /\ u.source = 1 /\ u.page = 1 /\ u.verdict = "ok"
    BY <1>2, <1>3 DEF Idle, WorkerRecord, Labels
  <1>. HIDE DEF v, u
  <1>5. CollectionInv(store, v) /\ CollectionInv(store, u)
    BY <1>1, <1>4, StartMove
  <1>6. CollectionInv(e, v) /\ CollectionInv(e, u)
    BY <1>2, <1>4, <1>5, RunEffect
  <1>. QED
    BY <1>1, <1>5, <1>6, RpcKeeps DEF Keeps

LEMMA SyncSourceKeeps == CollectionInv(store, worker) /\ SyncSource => Keeps
  <1>. SUFFICES ASSUME CollectionInv(store, worker), SyncSource PROVE Keeps
    OBVIOUS
  <1>. DEFINE v == Goto("lease")
  <1>1. worker.pc = "sync" /\ Rpc(store, v, NextSource(Counted(worker)))
    BY DEF SyncSource, At
  <1>2. CollectionInv(store, v)
    <2>1. v \in WorkerRecord /\ v.pc = "lease" /\ v.run = worker.run /\ v.source = worker.source /\ v.page = worker.page
          /\ v.counted = worker.counted /\ v.verdict = worker.verdict
      BY GotoFields DEF CollectionInv, Types, Labels
    <2>. HIDE DEF v
    <2>. QED
      BY <1>1, <2>1, QuietMove DEF CollectionInv, Seen, WithoutVersion
  <1>. QED
    BY <1>1, <1>2, Failing, RpcKeeps DEF Keeps

LEMMA AcquireLeaseKeeps == CollectionInv(store, worker) /\ AcquireLease => Keeps
  <1>. SUFFICES ASSUME CollectionInv(store, worker), AcquireLease PROVE Keeps
    OBVIOUS
  <1>. DEFINE v == Goto("discover")
              f == NextSource(Counted(worker))
              e == [store EXCEPT !.lease[Src] = worker.run]
  <1>1. worker.pc = "lease" /\ (Rpc(e, v, f) \/ Rpc(store, f, f))
    BY DEF AcquireLease, At
  <1>2. worker.run \in Runs /\ worker.source \in Sources
    BY <1>1 DEF CollectionInv, Types, WorkerRecord
  <1>3. CollectionInv(e, worker)
    BY <1>1, <1>2, LeaseEffect DEF Src
  <1>4. CollectionInv(e, v)
    <2>1. v \in WorkerRecord /\ v.pc = "discover" /\ v.run = worker.run /\ v.source = worker.source /\ v.page = worker.page
          /\ v.counted = worker.counted /\ v.verdict = worker.verdict
      BY GotoFields DEF CollectionInv, Types, Labels
    <2>2. \A p \in Pages : p < v.page => e.version[worker.source][p].status # "absent"
      BY <1>3, <2>1 DEF CollectionInv, Seen
    <2>. HIDE DEF v, e
    <2>. QED
      BY <1>1, <1>3, <2>1, <2>2, QuietMove DEF WithoutVersion
  <1>5. CollectionInv(e, f) /\ CollectionInv(store, f)
    BY <1>1, <1>3, Failing
  <1>. HIDE DEF e, v, f
  <1>. QED
    BY <1>1, <1>4, <1>5, RpcKeeps DEF Keeps

LEMMA DiscoverKeeps == CollectionInv(store, worker) /\ Discover => Keeps
  <1>. SUFFICES ASSUME CollectionInv(store, worker), Discover PROVE Keeps
    OBVIOUS
  <1>1. worker.pc = "discover" /\ store' = store /\ worker \in WorkerRecord
    BY DEF Discover, At, CollectionInv, Types
  <1>2. ASSUME NEW n \in Pages, worker' = [worker EXCEPT !.pc = "collect", !.listed = n]
        PROVE  CollectionInv(store, worker')
    <2>1. n \in 0 .. PageCount
      BY Constants DEF Pages
    <2>2. /\ worker' \in WorkerRecord /\ worker'.pc = "collect" /\ worker'.run = worker.run /\ worker'.source = worker.source
          /\ worker'.page = worker.page /\ worker'.counted = worker.counted /\ worker'.verdict = worker.verdict
      BY <1>1, <1>2, <2>1 DEF WorkerRecord, Labels
    <2>. QED
      BY <1>1, <2>2, QuietMove DEF CollectionInv, Seen, WithoutVersion
  <1>3. CASE worker' = Raised
    BY <1>1, <1>3, Failing DEF Keeps
  <1>. QED
    BY <1>1, <1>2, <1>3 DEF Discover, Keeps

LEMMA CollectPageKeeps == CollectionInv(store, worker) /\ CollectPage => Keeps
  <1>. SUFFICES ASSUME CollectionInv(store, worker), CollectPage PROVE Keeps
    OBVIOUS
  <1>. DEFINE v == [worker EXCEPT !.fetched = @ + 1, !.page = @ + 1]
              f == [Raised EXCEPT !.fetched = @ + 1]
              s == worker.source
              p == worker.page
              old == store.version[s][p]
              e == Ingest(s, p)
  <1>1. worker.pc = "collect" /\ (Rpc(e, v, f) \/ (worker' = f /\ store' = store))
    BY DEF CollectPage, At, Src
  <1>2. worker \in WorkerRecord /\ store \in StoreRecord /\ s \in Sources
    BY DEF CollectionInv, Types, WorkerRecord
  <1>3. p \in Pages /\ p + 1 \in 1 .. PageCount + 1 /\ worker.fetched + 1 \in 0 .. MaxItems
    <2>1. /\ ~(worker.page > worker.listed) /\ ~(worker.fetched >= MaxItems)
          /\ worker.page \in 1 .. PageCount + 1 /\ worker.listed \in 0 .. PageCount /\ worker.fetched \in 0 .. MaxItems
      BY <1>2 DEF CollectPage, EndOfList, WorkerRecord
    <2>. QED
      BY <2>1, Constants DEF Pages
  <1>4. /\ v \in WorkerRecord /\ v.pc = "collect" /\ v.run = worker.run /\ v.source = s /\ v.page = p + 1
        /\ v.counted = worker.counted /\ v.verdict = worker.verdict
    BY <1>1, <1>2, <1>3 DEF WorkerRecord
  <1>5. /\ f \in WorkerRecord /\ f.pc = "raised" /\ f.run = worker.run /\ f.source = s /\ f.page = p
        /\ f.counted = worker.counted \cup {s}
    BY <1>2, <1>3 DEF Raised, Counted, WorkerRecord, Labels
  <1>6. CollectionInv(e, worker) /\ e.version[s][p].status # "absent"
    <2>1. CASE old.status # "absent"
      BY <2>1 DEF Ingest, Ingested
    <2>2. CASE old.status = "absent"
      <3>. DEFINE rec == [old EXCEPT !.status = "pending_ai"]
      <3>1. e = [store EXCEPT !.version[s][p] = rec]
        BY <2>2 DEF Ingest, Ingested
      <3>2. old \in VersionRecord /\ old.starved <= old.attempts
        BY <1>2, <1>3 DEF StoreRecord, CollectionInv, AttemptsCount
      <3>3. /\ rec \in VersionRecord /\ rec.holder = old.holder /\ rec.status = "pending_ai"
            /\ rec.starved = old.starved /\ rec.attempts = old.attempts
        BY <3>2 DEF VersionRecord, Statuses
      <3>4. store.version[s] \in [Pages -> VersionRecord] /\ store.version \in [Sources -> [Pages -> VersionRecord]]
        BY <1>2 DEF StoreRecord
      <3>5. worker.pc \notin WithVersion
        BY <1>1 DEF WithVersion
      <3>. HIDE DEF rec, e
      <3>6. e.version[s][p] = rec
        BY <1>2, <1>3, <3>1, <3>4 DEF StoreRecord
      <3>7. CollectionInv([store EXCEPT !.version[s][p] = rec], worker)
        BY <1>2, <1>3, <3>2, <3>3, <3>5, VersionEffect
      <3>. QED
        BY <3>1, <3>3, <3>6, <3>7
    <2>. QED
      BY <2>1, <2>2
  <1>. HIDE DEF e, v, f
  <1>7. CollectionInv(e, v)
    <2>1. \A q \in Pages : q < p + 1 => q < p \/ q = p
      BY <1>3 DEF Pages
    <2>2. \A q \in Pages : q < v.page => e.version[s][q].status # "absent"
      BY <1>4, <1>6, <2>1 DEF CollectionInv, Seen
    <2>. QED
      BY <1>1, <1>4, <1>6, <2>2, QuietMove DEF WithoutVersion
  <1>8. ASSUME NEW st, CollectionInv(st, worker) PROVE CollectionInv(st, f)
    <2>1. Types(st, f) /\ AttemptsCount(st, f)
      BY <1>1, <1>5, <1>8 DEF CollectionInv, Types, AttemptsCount, WithVersion
    <2>. QED
      BY <1>1, <1>5, <1>8, <2>1, CountedMove
  <1>. QED
    BY <1>1, <1>6, <1>7, <1>8, RpcKeeps DEF Keeps

LEMMA CollectEndsKeeps == CollectionInv(store, worker) /\ CollectEnds => Keeps
  <1>. SUFFICES ASSUME CollectionInv(store, worker), CollectEnds PROVE Keeps
    OBVIOUS
  <1>. DEFINE v == Goto("claim")
  <1>1. worker.pc = "collect" /\ worker' = v /\ store' = store
    BY DEF CollectEnds, At
  <1>2. v \in WorkerRecord /\ v.pc = "claim" /\ v.run = worker.run /\ v.source = worker.source /\ v.page = worker.page
        /\ v.counted = worker.counted /\ v.verdict = worker.verdict
    BY GotoFields DEF CollectionInv, Types, Labels
  <1>. HIDE DEF v
  <1>3. CollectionInv(store, v)
    BY <1>1, <1>2, QuietMove DEF CollectionInv, Seen, WithoutVersion
  <1>. QED
    BY <1>1, <1>3 DEF Keeps

LEMMA ClaimVersionKeeps == CollectionInv(store, worker) /\ ClaimVersion => Keeps
  <1>. SUFFICES ASSUME CollectionInv(store, worker), ClaimVersion PROVE Keeps
    OBVIOUS
  <1>. DEFINE s == worker.source
  <1>1. worker.pc = "claim" /\ worker \in WorkerRecord /\ store \in StoreRecord /\ s \in Sources /\ worker.run \in Runs
    BY DEF ClaimVersion, At, CollectionInv, Types, WorkerRecord
  <1>2. CollectionInv(store, Raised)
    BY <1>1, Failing
  <1>3. CASE Rpc(store, Goto("checkpoint"), Raised)
    <2>. DEFINE v == Goto("checkpoint")
    <2>1. v \in WorkerRecord /\ v.pc = "checkpoint" /\ v.run = worker.run /\ v.source = worker.source /\ v.page = worker.page
          /\ v.counted = worker.counted /\ v.verdict = worker.verdict
      BY <1>1, GotoFields DEF Labels
    <2>. HIDE DEF v
    <2>2. CollectionInv(store, v)
      BY <1>1, <2>1, QuietMove DEF CollectionInv, Seen, WithoutVersion
    <2>. QED
      BY <1>2, <1>3, <2>2, RpcKeeps DEF Keeps, v
  <1>4. ASSUME NEW p \in Pages, Claimable(s, p),
               Rpc(Claimed(s, p, worker.run), [worker EXCEPT !.pc = "read", !.version = p, !.stage = 0], Raised)
        PROVE  Keeps
    <2>. DEFINE old == store.version[s][p]
                rec == [old EXCEPT !.status = "processing", !.holder = worker.run, !.live = TRUE, !.attempts = old.attempts + 1]
                e == [store EXCEPT !.version[s][p] = rec]
                v == [worker EXCEPT !.pc = "read", !.version = p, !.stage = 0]
    <2>1. Claimed(s, p, worker.run) = e
      BY DEF Claimed
    <2>2. old \in VersionRecord /\ old.starved <= old.attempts /\ old.attempts < AttemptLimit
      BY <1>1, <1>4 DEF StoreRecord, CollectionInv, AttemptsCount, Claimable
    <2>3. old.attempts \in Nat /\ old.starved \in Nat /\ old.attempts + 1 \in 0 .. AttemptLimit
      BY <2>2, Constants DEF VersionRecord
    <2>4. /\ rec \in VersionRecord /\ rec.holder = worker.run /\ rec.status = "processing"
          /\ rec.starved = old.starved /\ rec.attempts = old.attempts + 1
      BY <1>1, <2>2, <2>3 DEF VersionRecord, Statuses
    <2>5. /\ v \in WorkerRecord /\ v.pc = "read" /\ v.run = worker.run /\ v.source = s /\ v.page = worker.page
          /\ v.counted = worker.counted /\ v.verdict = worker.verdict /\ v.version = p
      <3>1. p \in 0 .. PageCount /\ 0 \in 0 .. Stages
        BY Constants DEF Pages
      <3>. QED
        BY <1>1, <3>1 DEF WorkerRecord, Labels
    <2>6. rec.starved < rec.attempts /\ rec.starved <= rec.attempts
      BY <2>2, <2>3, <2>4
    <2>7. Raised.source = s /\ Raised.counted = worker.counted \cup {s} /\ Raised.pc = "raised" /\ Raised.run = worker.run
      BY <1>1 DEF Raised, Counted, WorkerRecord
    <2>8. /\ e.version[s][p] = rec
          /\ \A q \in Pages : q # p => e.version[s][q] = store.version[s][q]
      <3>1. store.version \in [Sources -> [Pages -> VersionRecord]]
        BY <1>1 DEF StoreRecord
      <3>. HIDE DEF rec
      <3>. QED
        BY <1>1, <3>1 DEF StoreRecord
    <2>. HIDE DEF rec, v
    <2>9. CollectionInv(e, Raised)
      BY <1>1, <1>2, <2>4, <2>6, <2>7, VersionEffect
    <2>. HIDE DEF e
    <2>10. CollectionInv(e, v)
      <3>1. Types(e, v)
        BY <1>1, <2>5, <2>9 DEF CollectionInv, Types
      <3>2. AttemptsCount(e, v)
        BY <2>5, <2>6, <2>8, <2>9 DEF CollectionInv, AttemptsCount
      <3>3. PresentIsTidy(e, v)
        BY <1>1, <2>5, <2>8 DEF CollectionInv, PresentIsTidy, WithVersion, WithoutVersion
      <3>4. \A q \in Pages : q < v.page => e.version[s][q].status # "absent"
        BY <2>4, <2>5, <2>8 DEF CollectionInv, Seen
      <3>. QED
        BY <2>5, <2>7, <2>9, <3>1, <3>2, <3>3, <3>4, Move
    <2>. QED
      BY <1>2, <1>4, <2>1, <2>9, <2>10, RpcKeeps DEF Keeps, v
  <1>. QED
    BY <1>3, <1>4 DEF ClaimVersion, Head, Src

LEMMA ReadArtifactKeeps == CollectionInv(store, worker) /\ ReadArtifact => Keeps
  <1>. SUFFICES ASSUME CollectionInv(store, worker), ReadArtifact PROVE Keeps
    OBVIOUS
  <1>1. worker.pc = "read" /\ worker \in WorkerRecord /\ worker.version \in Pages /\ worker.pc \in WithVersion
    BY DEF ReadArtifact, At, CollectionInv, Types, WithVersion
  <1>2. CollectionInv(store, Goto("analysed"))
    <2>. DEFINE v == Goto("analysed")
    <2>1. /\ v \in WorkerRecord /\ v.pc = "analysed" /\ v.run = worker.run /\ v.source = worker.source /\ v.page = worker.page
          /\ v.counted = worker.counted /\ v.verdict = worker.verdict /\ v.version = worker.version
      BY <1>1, GotoFields DEF Labels
    <2>. HIDE DEF v
    <2>2. CollectionInv(store, v)
      BY <1>1, <2>1, VersionMove DEF WithVersion
    <2>. QED
      BY <2>2 DEF v
  <1>3. ASSUME worker.stage < Stages PROVE CollectionInv(store, Goto("ask"))
    <2>. DEFINE v == Goto("ask")
    <2>1. /\ v \in WorkerRecord /\ v.pc = "ask" /\ v.run = worker.run /\ v.source = worker.source /\ v.page = worker.page
          /\ v.counted = worker.counted /\ v.verdict = worker.verdict /\ v.version = worker.version /\ v.stage = worker.stage
      BY <1>1, GotoFields DEF Labels
    <2>. HIDE DEF v
    <2>2. CollectionInv(store, v)
      BY <1>1, <1>3, <2>1, VersionMove DEF WithVersion
    <2>. QED
      BY <2>2 DEF v
  <1>4. ASSUME worker.stage < Stages PROVE CollectionInv(store, [worker EXCEPT !.stage = @ + 1])
    <2>. DEFINE v == [worker EXCEPT !.stage = @ + 1]
    <2>1. worker.stage + 1 \in 0 .. Stages
      BY <1>1, <1>4, Constants DEF WorkerRecord
    <2>2. /\ v \in WorkerRecord /\ v.pc = "read" /\ v.run = worker.run /\ v.source = worker.source /\ v.page = worker.page
          /\ v.counted = worker.counted /\ v.verdict = worker.verdict /\ v.version = worker.version
      BY <1>1, <2>1 DEF WorkerRecord
    <2>. HIDE DEF v
    <2>3. CollectionInv(store, v)
      BY <1>1, <2>2, VersionMove DEF WithVersion
    <2>. QED
      BY <2>3 DEF v
  <1>5. CollectionInv(store, StageFails)
    BY <1>1, Failing
  <1>6. CASE worker' = Goto("analysed") /\ UNCHANGED <<store, faults>>
    BY <1>2, <1>6 DEF Keeps
  <1>7. ASSUME worker.stage < Stages, NEW found \in Found(Version, worker.stage),
               Rpc(store, IF found THEN [worker EXCEPT !.stage = @ + 1] ELSE Goto("ask"), StageFails)
        PROVE  Keeps
    <2>. DEFINE v == IF found THEN [worker EXCEPT !.stage = @ + 1] ELSE Goto("ask")
    <2>1. CollectionInv(store, v)
      BY <1>3, <1>4, <1>7
    <2>. HIDE DEF v
    <2>2. Rpc(store, v, StageFails)
      BY <1>7 DEF v
    <2>. QED
      BY <1>5, <2>1, <2>2, RpcKeeps DEF Keeps
  <1>. QED
    BY <1>6, <1>7 DEF ReadArtifact

LEMMA AnswersType ==
  ASSUME NEW c \in 0 .. MaxCalls, NEW a \in Answers(c)
  PROVE  a[1] \in 0 .. MaxCalls /\ (a[2] = "exhausted" => a[2] # "valid")
  BY Constants DEF Answers

LEMMA AskModelKeeps == CollectionInv(store, worker) /\ AskModel => Keeps
  <1>. SUFFICES ASSUME CollectionInv(store, worker), AskModel PROVE Keeps
    OBVIOUS
  <1>. DEFINE s == worker.source
              p == worker.version
              old == store.version[s][p]
  <1>1. /\ worker.pc = "ask" /\ worker \in WorkerRecord /\ store \in StoreRecord /\ p \in Pages /\ s \in Sources
        /\ worker.pc \in WithVersion /\ worker.stage < Stages /\ worker.calls \in 0 .. MaxCalls
    BY DEF AskModel, At, CollectionInv, Types, WithVersion, WorkerRecord
  <1>2. PICK answer \in Answers(worker.calls) :
          LET after(w) == [w EXCEPT !.calls = answer[1], !.spent = IF answer[1] > worker.calls THEN @ \cup {Src} ELSE @]
          IN  /\ worker' = after(IF answer[2] = "valid" THEN Goto("store") ELSE StageFails)
              /\ store' = IF answer[2] = "exhausted" THEN Starved(Src, worker.version) ELSE store
    BY DEF AskModel
  <1>3. answer[1] \in 0 .. MaxCalls /\ (answer[2] = "exhausted" => answer[2] # "valid")
    BY <1>1, AnswersType
  <1>. DEFINE spent == IF answer[1] > worker.calls THEN worker.spent \cup {s} ELSE worker.spent
  <1>4. spent \in SUBSET Sources
    BY <1>1 DEF WorkerRecord
  <1>5. CASE answer[2] = "valid"
    <2>. DEFINE v == [Goto("store") EXCEPT !.calls = answer[1],
                          !.spent = IF answer[1] > worker.calls THEN @ \cup {Src} ELSE @]
    <2>1. worker' = v /\ store' = store
      BY <1>2, <1>3, <1>5
    <2>2. v = [worker EXCEPT !.pc = "store", !.calls = answer[1], !.spent = spent]
      BY <1>1 DEF Goto, WorkerRecord, Src
    <2>. HIDE DEF spent, v
    <2>3. /\ v \in WorkerRecord /\ v.pc = "store" /\ v.run = worker.run /\ v.source = worker.source /\ v.page = worker.page
          /\ v.counted = worker.counted /\ v.verdict = worker.verdict /\ v.version = worker.version /\ v.stage = worker.stage
      BY <1>1, <1>3, <1>4, <2>2 DEF WorkerRecord, Labels
    <2>4. CollectionInv(store, v)
      BY <1>1, <2>3, VersionMove DEF WithVersion
    <2>. QED
      BY <2>1, <2>4 DEF Keeps
  <1>6. CASE answer[2] # "valid"
    <2>. DEFINE v == [StageFails EXCEPT !.calls = answer[1],
                          !.spent = IF answer[1] > worker.calls THEN @ \cup {Src} ELSE @]
                u == [worker EXCEPT !.pc = "error", !.verdict = "failed", !.counted = @ \cup {worker.source},
                                    !.calls = answer[1], !.spent = spent]
                rec == [old EXCEPT !.starved = old.starved + 1, !.rival = old.rival \/ worker.spent \ {s} # {}]
    <2>1. worker' = v
      BY <1>2, <1>6
    <2>2. v = u
      BY <1>1 DEF StageFails, Counted, WorkerRecord, Src
    <2>3. CollectionInv(store, u)
      <3>. HIDE DEF spent
      <3>. QED
        BY <1>1, <1>3, <1>4, StageFailsMove
    <2>4. u.pc = "error"
      BY <1>1 DEF WorkerRecord
    <2>5. old \in VersionRecord /\ old.starved < old.attempts
      BY <1>1 DEF StoreRecord, CollectionInv, AttemptsCount
    <2>6. old.starved + 1 \in 0 .. AttemptLimit /\ old.starved + 1 <= old.attempts
      BY <2>5, Constants DEF VersionRecord
    <2>7. (old.rival \/ worker.spent \ {s} # {}) \in BOOLEAN
      BY <2>5 DEF VersionRecord
    <2>8. /\ rec \in VersionRecord /\ rec.holder = old.holder /\ rec.status = old.status
          /\ rec.starved = old.starved + 1 /\ rec.attempts = old.attempts
      BY <2>5, <2>6, <2>7 DEF VersionRecord
    <2>9. Starved(s, p) = [store EXCEPT !.version[s][p] = rec]
      BY DEF Starved
    <2>10. CollectionInv([store EXCEPT !.version[s][p] = rec], u)
      <3>1. "error" \notin WithVersion
        BY DEF WithVersion
      <3>. HIDE DEF rec, u
      <3>. QED
        BY <1>1, <2>3, <2>4, <2>6, <2>8, <3>1, VersionEffect
    <2>11. store' = store \/ store' = [store EXCEPT !.version[s][p] = rec]
      BY <1>2, <2>9 DEF Src
    <2>. HIDE DEF rec, u, v
    <2>. QED
      BY <2>1, <2>2, <2>3, <2>10, <2>11 DEF Keeps
  <1>. QED
    BY <1>5, <1>6

LEMMA StoreArtifactKeeps == CollectionInv(store, worker) /\ StoreArtifact => Keeps
  <1>. SUFFICES ASSUME CollectionInv(store, worker), StoreArtifact PROVE Keeps
    OBVIOUS
  <1>. DEFINE s == worker.source
              p == worker.version
              old == store.version[s][p]
              rec == [old EXCEPT !.cached = worker.stage + 1]
              e == [store EXCEPT !.version[s][p] = rec]
              v == [worker EXCEPT !.pc = "read", !.stage = @ + 1]
  <1>1. /\ worker.pc = "store" /\ worker \in WorkerRecord /\ store \in StoreRecord /\ p \in Pages /\ s \in Sources
        /\ worker.pc \in WithVersion /\ worker.stage < Stages
    BY DEF StoreArtifact, At, CollectionInv, Types, WithVersion, WorkerRecord
  <1>2. e = [store EXCEPT !.version[Src][worker.version].cached = worker.stage + 1]
    BY Zenon DEF Src
  <1>3. Rpc(e, v, StageFails)
    BY <1>2 DEF StoreArtifact
  <1>4. worker.stage + 1 \in 0 .. Stages
    BY <1>1, Constants DEF WorkerRecord
  <1>5. old \in VersionRecord /\ old.starved < old.attempts /\ old.starved <= old.attempts
    BY <1>1 DEF StoreRecord, CollectionInv, AttemptsCount
  <1>6. /\ rec \in VersionRecord /\ rec.holder = old.holder /\ rec.status = old.status
        /\ rec.starved = old.starved /\ rec.attempts = old.attempts
    BY <1>4, <1>5 DEF VersionRecord
  <1>7. /\ v \in WorkerRecord /\ v.pc = "read" /\ v.run = worker.run /\ v.source = worker.source /\ v.page = worker.page
        /\ v.counted = worker.counted /\ v.verdict = worker.verdict /\ v.version = worker.version
    BY <1>1, <1>4 DEF WorkerRecord, Labels
  <1>. HIDE DEF rec, v
  <1>8. CollectionInv(e, worker)
    BY <1>1, <1>5, <1>6, VersionEffect
  <1>. HIDE DEF e
  <1>9. CollectionInv(e, v)
    BY <1>1, <1>7, <1>8, VersionMove DEF WithVersion
  <1>10. CollectionInv(e, StageFails) /\ CollectionInv(store, StageFails)
    BY <1>1, <1>8, Failing
  <1>. QED
    BY <1>3, <1>9, <1>10, RpcKeeps DEF Keeps

LEMMA FinishMove ==
  ASSUME CollectionInv(store, worker), worker.pc \in WithVersion
  PROVE  CollectionInv(store, Goto("finish"))
  <1>. DEFINE v == Goto("finish")
  <1>1. /\ v \in WorkerRecord /\ v.pc = "finish" /\ v.run = worker.run /\ v.source = worker.source /\ v.page = worker.page
        /\ v.counted = worker.counted /\ v.verdict = worker.verdict /\ v.version = worker.version
    BY GotoFields DEF Labels, CollectionInv, Types
  <1>. HIDE DEF v
  <1>2. CollectionInv(store, v)
    BY <1>1, VersionMove DEF WithVersion
  <1>. QED
    BY <1>2 DEF v

LEMMA ConcludeKeeps == CollectionInv(store, worker) /\ Conclude => Keeps
  <1>. SUFFICES ASSUME CollectionInv(store, worker), Conclude PROVE Keeps
    OBVIOUS
  <1>. DEFINE v == Counted([worker EXCEPT !.pc = "defer", !.verdict = "deferred"])
  <1>1. worker.pc = "analysed" /\ worker \in WorkerRecord /\ worker.version \in Pages /\ worker.pc \in WithVersion /\ store' = store
    BY DEF Conclude, At, CollectionInv, Types, WithVersion
  <1>2. /\ v \in WorkerRecord /\ v.pc = "defer" /\ v.run = worker.run /\ v.source = worker.source /\ v.page = worker.page
        /\ v.counted = worker.counted \cup {worker.source} /\ v.version = worker.version
    BY <1>1 DEF Counted, WorkerRecord, Labels
  <1>3. worker' \in {Goto("finish"), v, StageFails}
    BY DEF Conclude
  <1>. HIDE DEF v
  <1>4. CollectionInv(store, v)
    <2>1. Types(store, v) /\ AttemptsCount(store, v)
      BY <1>1, <1>2 DEF CollectionInv, Types, AttemptsCount
    <2>. QED
      BY <1>1, <1>2, <2>1, CountedMove
  <1>. QED
    BY <1>1, <1>3, <1>4, FinishMove, Failing DEF Keeps

LEMMA JudgeIrrelevantKeeps == CollectionInv(store, worker) /\ JudgeIrrelevant => Keeps
  BY FinishMove DEF JudgeIrrelevant, At, WithVersion, Keeps

\* Closing a version takes it from its holder.
LEMMA ClosedEffect ==
  ASSUME NEW w, CollectionInv(store, w), NEW s \in Sources, NEW p \in Pages, NEW status \in Statuses \ {"absent"},
         NEW attempts \in 0 .. AttemptLimit, store.version[s][p].starved <= attempts,
         w.pc \in WithVersion => store.version[s][p].starved < attempts \/ s # w.source \/ p # w.version
  PROVE  CollectionInv(Closed(s, p, status, attempts), w)
  <1>. DEFINE old == store.version[s][p]
              rec == [old EXCEPT !.status = status, !.holder = Nobody, !.live = FALSE, !.attempts = attempts]
              e == [store EXCEPT !.version[s][p] = rec]
  <1>1. Closed(s, p, status, attempts) = e
    BY DEF Closed
  <1>2. store.version \in [Sources -> [Pages -> VersionRecord]] /\ store \in StoreRecord
    BY DEF CollectionInv, Types, StoreRecord
  <1>3. old \in VersionRecord
    BY <1>2
  <1>4. /\ rec \in VersionRecord /\ rec.holder = Nobody /\ rec.status = status
        /\ rec.starved = old.starved /\ rec.attempts = attempts
    BY <1>3 DEF VersionRecord, Statuses
  <1>. HIDE DEF rec
  <1>5. CollectionInv(e, w)
    BY <1>4, VersionEffect
  <1>. QED
    BY <1>1, <1>5

LEMMA ClosedVersion ==
  ASSUME store \in StoreRecord, NEW s \in Sources, NEW p \in Pages, NEW status \in Statuses, NEW attempts \in 0 .. AttemptLimit
  PROVE  /\ Closed(s, p, status, attempts).version[s][p].holder = Nobody
         /\ \A q \in Pages : q # p => Closed(s, p, status, attempts).version[s][q] = store.version[s][q]
  <1>. DEFINE old == store.version[s][p]
              rec == [old EXCEPT !.status = status, !.holder = Nobody, !.live = FALSE, !.attempts = attempts]
              e == [store EXCEPT !.version[s][p] = rec]
  <1>1. Closed(s, p, status, attempts) = e
    BY DEF Closed
  <1>2. store.version \in [Sources -> [Pages -> VersionRecord]]
    BY DEF StoreRecord
  <1>3. old \in VersionRecord
    BY <1>2
  <1>4. rec.holder = Nobody
    BY <1>3 DEF VersionRecord
  <1>. HIDE DEF rec
  <1>5. e.version[s][p] = rec /\ \A q \in Pages : q # p => e.version[s][q] = store.version[s][q]
    BY <1>2 DEF StoreRecord
  <1>. QED
    BY <1>1, <1>4, <1>5

\* What an action of the version knows of it.
LEMMA OwnVersion ==
  ASSUME CollectionInv(store, worker), worker.pc \in WithVersion \cup {"error"}
  PROVE  /\ worker \in WorkerRecord /\ store \in StoreRecord /\ worker.version \in Pages /\ worker.source \in Sources
         /\ Version = store.version[worker.source][worker.version] /\ Version \in VersionRecord
         /\ Version.attempts \in 0 .. AttemptLimit /\ Version.starved \in Nat /\ Version.starved <= Version.attempts
         /\ worker.pc \in WithVersion => Version.starved < Version.attempts
  <1>1. /\ worker \in WorkerRecord /\ store \in StoreRecord /\ worker.version \in Pages /\ worker.source \in Sources
        /\ Version = store.version[worker.source][worker.version]
    BY DEF CollectionInv, Types, WorkerRecord, Version, Src
  <1>2. Version \in VersionRecord
    BY <1>1 DEF StoreRecord
  <1>3. Version.attempts \in 0 .. AttemptLimit /\ Version.starved \in Nat
    BY <1>2, Constants DEF VersionRecord
  <1>. QED
    BY <1>1, <1>2, <1>3 DEF CollectionInv, AttemptsCount

LEMMA FinishVersionKeeps == CollectionInv(store, worker) /\ FinishVersion => Keeps
  <1>. SUFFICES ASSUME CollectionInv(store, worker), FinishVersion PROVE Keeps
    OBVIOUS
  <1>. DEFINE s == worker.source
              p == worker.version
              e == Closed(s, p, "settled", Version.attempts)
              v == Goto("claim")
  <1>1. worker.pc = "finish" /\ worker.pc \in WithVersion /\ worker.pc # "idle"
    BY DEF FinishVersion, At, WithVersion
  <1>2. /\ worker \in WorkerRecord /\ store \in StoreRecord /\ p \in Pages /\ s \in Sources /\ Version = store.version[s][p]
        /\ Version.attempts \in 0 .. AttemptLimit /\ Version.starved <= Version.attempts /\ Version.starved < Version.attempts
    BY <1>1, OwnVersion
  <1>3. CollectionInv(store, StageFails)
    BY <1>1, <1>2, Failing
  <1>4. CASE worker' = StageFails /\ store' = store
    BY <1>3, <1>4 DEF Keeps
  <1>5. CASE Rpc(e, v, StageFails)
    <2>1. /\ CollectionInv(e, worker) /\ e.version[s][p].holder = Nobody
          /\ \A q \in Pages : q # p => e.version[s][q] = store.version[s][q]
      <3>1. "settled" \in Statuses \ {"absent"}
        BY DEF Statuses
      <3>2. CollectionInv(e, worker)
        BY <1>2, <3>1, ClosedEffect
      <3>3. "settled" \in Statuses
        BY <3>1
      <3>4. e.version[s][p].holder = Nobody
        <4>1. store \in StoreRecord /\ s \in Sources /\ p \in Pages /\ Version.attempts \in 0 .. AttemptLimit
          BY <1>2
        <4>. HIDE DEF s, p
        <4>. QED
          BY <3>3, <4>1, ClosedVersion, Zenon
      <3>5. \A q \in Pages : q # p => e.version[s][q] = store.version[s][q]
        BY <1>2, <3>3, ClosedVersion, Zenon
      <3>. QED
        BY <3>2, <3>4, <3>5, Zenon
    <2>2. /\ v \in WorkerRecord /\ v.pc = "claim" /\ v.run = worker.run /\ v.source = s /\ v.page = worker.page
          /\ v.counted = worker.counted /\ v.verdict = worker.verdict
      BY <1>2, GotoFields DEF Labels
    <2>. HIDE DEF e, v
    <2>3. CollectionInv(e, StageFails)
      BY <1>1, <1>2, <2>1, Failing
    <2>4. CollectionInv(e, v)
      <3>1. worker.run # Nobody
        BY <1>1, Constants DEF CollectionInv, Types, Runs, Nobody
      <3>2. Types(e, v) /\ AttemptsCount(e, v)
        BY <1>1, <2>1, <2>2 DEF CollectionInv, Types, AttemptsCount, WithVersion
      <3>3. PresentIsTidy(e, v)
        BY <1>1, <2>1, <2>2, <3>1 DEF CollectionInv, PresentIsTidy, WithVersion, WithoutVersion
      <3>4. \A q \in Pages : q < v.page => e.version[s][q].status # "absent"
        BY <2>1, <2>2 DEF CollectionInv, Seen
      <3>. QED
        BY <1>1, <2>1, <2>2, <3>2, <3>3, <3>4, Move
    <2>. QED
      BY <1>3, <1>5, <2>3, <2>4, RpcKeeps DEF Keeps
  <1>. QED
    BY <1>4, <1>5 DEF FinishVersion, Refused, Src

LEMMA FailVersionKeeps == CollectionInv(store, worker) /\ FailVersion => Keeps
  <1>. SUFFICES ASSUME CollectionInv(store, worker), FailVersion PROVE Keeps
    OBVIOUS
  <1>. DEFINE s == worker.source
              p == worker.version
              e == Closed(s, p, "error", Version.attempts)
              v == Goto("checkpoint")
  <1>1. worker.pc = "error" /\ worker.pc \notin WithVersion /\ worker.pc # "idle"
    BY DEF FailVersion, At, WithVersion
  <1>2. /\ worker \in WorkerRecord /\ p \in Pages /\ s \in Sources /\ Version = store.version[s][p]
        /\ Version.attempts \in 0 .. AttemptLimit /\ Version.starved <= Version.attempts
    BY <1>1, OwnVersion
  <1>3. CollectionInv(store, Raised)
    BY <1>1, Failing
  <1>4. CASE worker' = Raised /\ store' = store
    BY <1>3, <1>4 DEF Keeps
  <1>5. CASE Rpc(e, v, Raised)
    <2>1. CollectionInv(e, worker)
      BY <1>1, <1>2, ClosedEffect DEF Statuses
    <2>2. /\ v \in WorkerRecord /\ v.pc = "checkpoint" /\ v.run = worker.run /\ v.source = s /\ v.page = worker.page
          /\ v.counted = worker.counted
      BY <1>2, GotoFields DEF Labels
    <2>. HIDE DEF e, v
    <2>3. CollectionInv(e, Raised)
      BY <1>1, <2>1, Failing
    <2>4. CollectionInv(e, v)
      <3>1. worker.counted = worker.counted \cup {s}
        BY <1>1 DEF CollectionInv, PresentIsTidy
      <3>2. Types(e, v) /\ AttemptsCount(e, v)
        BY <1>1, <2>1, <2>2 DEF CollectionInv, Types, AttemptsCount, WithVersion
      <3>. QED
        BY <1>1, <2>1, <2>2, <3>1, <3>2, CountedMove
    <2>. QED
      BY <1>3, <1>5, <2>3, <2>4, RpcKeeps DEF Keeps
  <1>. QED
    BY <1>4, <1>5 DEF FailVersion, Refused, Src

LEMMA DeferVersionKeeps == CollectionInv(store, worker) /\ DeferVersion => Keeps
  <1>. SUFFICES ASSUME CollectionInv(store, worker), DeferVersion PROVE Keeps
    OBVIOUS
  <1>. DEFINE s == worker.source
              p == worker.version
              e == Closed(s, p, "pending_ai", Version.attempts - 1)
              v == Goto("checkpoint")
  <1>1. worker.pc = "defer" /\ worker.pc \in WithVersion /\ worker.pc # "idle"
    BY DEF DeferVersion, At, WithVersion
  <1>2. /\ worker \in WorkerRecord /\ p \in Pages /\ s \in Sources /\ Version = store.version[s][p]
        /\ Version.attempts \in 0 .. AttemptLimit /\ Version.starved \in Nat /\ Version.starved < Version.attempts
    BY <1>1, OwnVersion
  <1>3. Version.attempts - 1 \in 0 .. AttemptLimit /\ Version.starved <= Version.attempts - 1
    BY <1>2, Constants
  <1>4. CollectionInv(store, Raised)
    BY <1>1, Failing
  <1>5. CASE worker' = Raised /\ store' = store
    BY <1>4, <1>5 DEF Keeps
  <1>6. CASE Rpc(e, v, Raised)
    <2>1. /\ Raised.source = s /\ Raised.counted = worker.counted \cup {s} /\ Raised.pc = "raised"
          /\ Raised.run = worker.run /\ Raised.page = worker.page /\ Raised.pc \notin WithVersion
      BY <1>2 DEF Raised, Counted, WorkerRecord, WithVersion
    <2>2. CollectionInv(e, Raised)
      BY <1>2, <1>3, <1>4, <2>1, ClosedEffect DEF Statuses
    <2>3. /\ v \in WorkerRecord /\ v.pc = "checkpoint" /\ v.run = worker.run /\ v.source = s /\ v.page = worker.page
          /\ v.counted = worker.counted
      BY <1>2, GotoFields DEF Labels
    <2>. HIDE DEF e, v
    <2>4. CollectionInv(e, v)
      <3>1. worker.counted = worker.counted \cup {s}
        BY <1>1 DEF CollectionInv, PresentIsTidy
      <3>2. Types(e, v) /\ AttemptsCount(e, v)
        BY <2>1, <2>2, <2>3 DEF CollectionInv, Types, AttemptsCount, WithVersion
      <3>. QED
        BY <2>1, <2>2, <2>3, <3>1, <3>2, CountedMove
    <2>. QED
      BY <1>4, <1>6, <2>2, <2>4, RpcKeeps DEF Keeps
  <1>. QED
    BY <1>5, <1>6 DEF DeferVersion, Refused, Src

LEMMA CheckpointSourceKeeps == CollectionInv(store, worker) /\ CheckpointSource => Keeps
  <1>. SUFFICES ASSUME CollectionInv(store, worker), CheckpointSource PROVE Keeps
    OBVIOUS
  <1>. DEFINE s == worker.source
              e == Checkpoint(worker.verdict = "ok")
              v == Goto("release")
              f == Counted(v)
  <1>1. worker.pc = "checkpoint" /\ Rpc(e, v, f) /\ worker.pc \in WithoutVersion
    BY DEF CheckpointSource, At, WithoutVersion
  <1>2. worker \in WorkerRecord /\ store \in StoreRecord /\ s \in Sources /\ worker.run \in Runs /\ worker.run \in Nat
    BY <1>1, Constants DEF CollectionInv, Types, WorkerRecord, Runs
  <1>3. CollectionInv(e, worker)
    BY <1>1, CheckpointEffect DEF Checkpoint, Src
  <1>4. worker.verdict = "ok" => e.checkpoint[s].by = worker.run
    BY <1>2 DEF Checkpoint, Src, StoreRecord
  <1>5. /\ v \in WorkerRecord /\ v.pc = "release" /\ v.run = worker.run /\ v.source = s /\ v.page = worker.page
        /\ v.counted = worker.counted /\ v.verdict = worker.verdict
    BY <1>2, GotoFields DEF Labels
  <1>. HIDE DEF e, v
  <1>6. /\ f \in WorkerRecord /\ f.pc = "release" /\ f.run = worker.run /\ f.source = s /\ f.page = worker.page
        /\ f.counted = worker.counted \cup {s}
    BY <1>2, <1>5 DEF Counted, WorkerRecord
  <1>. HIDE DEF f
  <1>7. ASSUME NEW st, CollectionInv(st, worker) PROVE CollectionInv(st, f)
    <2>1. Types(st, f) /\ AttemptsCount(st, f)
      BY <1>2, <1>6, <1>7 DEF CollectionInv, Types, AttemptsCount, WithVersion
    <2>. QED
      BY <1>1, <1>6, <1>7, <2>1, CountedMove
  <1>8. CollectionInv(e, v)
    <2>1. Types(e, v) /\ AttemptsCount(e, v)
      BY <1>2, <1>3, <1>5 DEF CollectionInv, Types, AttemptsCount, WithVersion
    <2>2. PresentIsTidy(e, v)
      <3>1. s \notin worker.counted => e.checkpoint[s].by >= worker.run
        BY <1>1, <1>2, <1>4 DEF CollectionInv, PresentIsTidy
      <3>. QED
        BY <1>1, <1>3, <1>5, <3>1 DEF CollectionInv, PresentIsTidy, WithVersion, WithoutVersion
    <2>3. \A q \in Pages : q < v.page => e.version[s][q].status # "absent"
      BY <1>3, <1>5 DEF CollectionInv, Seen
    <2>. QED
      BY <1>1, <1>3, <1>5, <2>1, <2>2, <2>3, Move
  <1>. QED
    BY <1>1, <1>3, <1>7, <1>8, RpcKeeps DEF Keeps

LEMMA CheckpointFailureKeeps == CollectionInv(store, worker) /\ CheckpointFailure => Keeps
  <1>. SUFFICES ASSUME CollectionInv(store, worker), CheckpointFailure PROVE Keeps
    OBVIOUS
  <1>1. worker.pc = "raised" /\ Rpc(store, Goto("release"), Goto("abandon"))
    BY DEF CheckpointFailure, At, Checkpoint
  <1>2. worker \in WorkerRecord /\ worker.run \in Runs /\ worker.counted = worker.counted \cup {worker.source}
    BY <1>1 DEF CollectionInv, Types, PresentIsTidy
  <1>3. ASSUME NEW label \in {"release", "abandon"} PROVE CollectionInv(store, Goto(label))
    <2>. DEFINE v == Goto(label)
    <2>1. /\ v \in WorkerRecord /\ v.pc = label /\ v.run = worker.run /\ v.source = worker.source /\ v.page = worker.page
          /\ v.counted = worker.counted
      BY <1>2, GotoFields DEF Labels
    <2>. HIDE DEF v
    <2>2. Types(store, v) /\ AttemptsCount(store, v)
      BY <1>2, <2>1 DEF CollectionInv, Types, AttemptsCount, WithVersion
    <2>3. CollectionInv(store, v)
      BY <1>1, <1>2, <2>1, <2>2, CountedMove
    <2>. QED
      BY <2>3 DEF v
  <1>. QED
    BY <1>1, <1>3, RpcKeeps DEF Keeps

LEMMA ReleaseLeaseKeeps == CollectionInv(store, worker) /\ ReleaseLease => Keeps
  <1>. SUFFICES ASSUME CollectionInv(store, worker), ReleaseLease PROVE Keeps
    OBVIOUS
  <1>. DEFINE s == worker.source
              e == Released(s)
  <1>1. /\ worker.pc \in {"release", "abandon"}
        /\ worker.pc = "release" => Rpc(e, NextSource(worker), NextSource(Counted(worker)))
        /\ worker.pc = "abandon" => Rpc(e, Idle(worker.run), Idle(worker.run))
    BY DEF ReleaseLease, At, Src
  <1>2. worker \in WorkerRecord /\ store \in StoreRecord /\ s \in Sources /\ worker.run \in Runs /\ worker.run # Nobody
    BY <1>1, Constants DEF CollectionInv, Types, WorkerRecord, Runs, Nobody
  <1>3. CollectionInv(e, worker)
    BY <1>2, LeaseEffect DEF Released
  <1>4. e.lease[s] # worker.run
    BY <1>2 DEF Released, StoreRecord
  <1>. HIDE DEF e
  <1>5. CASE worker.pc = "release"
    <2>1. worker.source \in worker.counted \/ CleanIn(e, s, worker.run)
      BY <1>3, <1>4, <1>5 DEF CollectionInv, PresentIsTidy, CleanIn, WithoutVersion
    <2>2. CollectionInv(e, NextSource(worker))
      BY <1>3, <1>5, <2>1, NextSourceMove
    <2>3. CollectionInv(e, NextSource(Counted(worker))) /\ CollectionInv(store, NextSource(Counted(worker)))
      BY <1>3, <1>5, Failing
    <2>. QED
      BY <1>1, <1>5, <2>2, <2>3, RpcKeeps DEF Keeps
  <1>6. CASE worker.pc = "abandon"
    <2>1. CollectionInv(e, Idle(worker.run)) /\ CollectionInv(store, Idle(worker.run))
      BY <1>3, IdleMove
    <2>. QED
      BY <1>1, <1>6, <2>1, RpcKeeps DEF Keeps
  <1>. QED
    BY <1>1, <1>5, <1>6

LEMMA FinishRunKeeps == CollectionInv(store, worker) /\ FinishRun => Keeps
  <1>. SUFFICES ASSUME CollectionInv(store, worker), FinishRun PROVE Keeps
    OBVIOUS
  <1>. DEFINE outcome == IF worker.counted = {} THEN "success" ELSE "degraded"
              e == [store EXCEPT !.run[worker.run] = outcome]
              v == Idle(worker.run)
  <1>1. worker.pc = "outcome" /\ Rpc(e, v, v) /\ worker.run \in Runs
    BY DEF FinishRun, At, CollectionInv, Types
  <1>2. CollectionInv(store, v)
    BY IdleMove
  <1>3. v.pc = "idle" /\ v.run = worker.run
    BY DEF Idle
  <1>4. outcome = "success" => \A s \in Sources : CleanIn(store, s, worker.run)
    BY <1>1 DEF CollectionInv, VisitedIsClean
  <1>5. outcome \in {"running", "success", "degraded"}
    OBVIOUS
  <1>. HIDE DEF v, outcome
  <1>6. CollectionInv(e, v)
    <2>1. CollectionInv([store EXCEPT !.run[v.run] = outcome], v)
      BY <1>1, <1>2, <1>3, <1>4, <1>5, RunEffect
    <2>. QED
      BY <1>3, <2>1
  <1>. HIDE DEF e
  <1>. QED
    BY <1>1, <1>2, <1>6, RpcKeeps DEF Keeps

-----------------------------------------------------------------------------
(* The environment.                                                        *)

LEMMA ExhaustRequestsKeeps == CollectionInv(store, worker) /\ ExhaustRequests => Keeps
  <1>. SUFFICES ASSUME CollectionInv(store, worker), ExhaustRequests PROVE Keeps
    OBVIOUS
  <1>. DEFINE v == [worker EXCEPT !.cut = TRUE]
  <1>1. worker' = v /\ store' = store /\ worker \in WorkerRecord
    BY DEF ExhaustRequests, CollectionInv, Types
  <1>2. /\ v \in WorkerRecord /\ v.pc = worker.pc /\ v.run = worker.run /\ v.source = worker.source /\ v.page = worker.page
        /\ v.version = worker.version /\ v.stage = worker.stage /\ v.counted = worker.counted /\ v.verdict = worker.verdict
    BY <1>1 DEF WorkerRecord
  <1>. HIDE DEF v
  <1>3. Types(store, v) /\ AttemptsCount(store, v) /\ Seen(store, v)
    BY <1>2 DEF CollectionInv, Types, AttemptsCount, Seen
  <1>4. SuccessIsClean(store, v) /\ VisitedIsClean(store, v)
    BY <1>2 DEF CollectionInv, SuccessIsClean, VisitedIsClean
  <1>5. AheadIsUntouched(store, v) /\ PresentIsTidy(store, v)
    BY <1>2 DEF CollectionInv, AheadIsUntouched, PresentIsTidy
  <1>. QED
    BY <1>1, <1>3, <1>4, <1>5 DEF CollectionInv, Keeps

LEMMA CrashKeeps == CollectionInv(store, worker) /\ Crash => Keeps
  BY IdleMove DEF Crash, Keeps

LEMMA LeaseLapsesKeeps == ASSUME NEW s \in Sources PROVE CollectionInv(store, worker) /\ LeaseLapses(s) => Keeps
  <1>1. CollectionInv(store, worker) => CollectionInv([store EXCEPT !.lease[s] = Nobody], worker)
    BY LeaseEffect
  <1>. QED
    BY <1>1 DEF LeaseLapses, Keeps

LEMMA ClaimLapsesKeeps ==
  ASSUME NEW s \in Sources, NEW p \in Pages PROVE CollectionInv(store, worker) /\ ClaimLapses(s, p) => Keeps
  <1>. SUFFICES ASSUME CollectionInv(store, worker), ClaimLapses(s, p) PROVE Keeps
    OBVIOUS
  <1>. DEFINE old == store.version[s][p]
              rec == [old EXCEPT !.live = FALSE]
  <1>1. worker' = worker /\ store' = [store EXCEPT !.version[s][p] = rec]
    BY DEF ClaimLapses
  <1>2. old \in VersionRecord /\ old.starved <= old.attempts
    BY DEF CollectionInv, Types, StoreRecord, AttemptsCount
  <1>3. worker.pc \in WithVersion => old.starved < old.attempts \/ s # worker.source \/ p # worker.version
    BY DEF CollectionInv, AttemptsCount
  <1>4. /\ rec \in VersionRecord /\ rec.holder = old.holder /\ rec.status = old.status
        /\ rec.starved = old.starved /\ rec.attempts = old.attempts
    BY <1>2 DEF VersionRecord
  <1>. HIDE DEF rec
  <1>5. CollectionInv([store EXCEPT !.version[s][p] = rec], worker)
    BY <1>2, <1>3, <1>4, VersionEffect
  <1>. QED
    BY <1>1, <1>5 DEF Keeps

LEMMA CandidatesChangeKeeps ==
  ASSUME NEW s \in Sources, NEW p \in Pages PROVE CollectionInv(store, worker) /\ CandidatesChange(s, p) => Keeps
  <1>. SUFFICES ASSUME CollectionInv(store, worker), CandidatesChange(s, p) PROVE Keeps
    OBVIOUS
  <1>. DEFINE old == store.version[s][p]
              rec == [old EXCEPT !.moved = TRUE]
  <1>1. worker' = worker /\ store' = [store EXCEPT !.version[s][p] = rec]
    BY DEF CandidatesChange
  <1>2. old \in VersionRecord /\ old.starved <= old.attempts
    BY DEF CollectionInv, Types, StoreRecord, AttemptsCount
  <1>3. worker.pc \in WithVersion => old.starved < old.attempts \/ s # worker.source \/ p # worker.version
    BY DEF CollectionInv, AttemptsCount
  <1>4. /\ rec \in VersionRecord /\ rec.holder = old.holder /\ rec.status = old.status
        /\ rec.starved = old.starved /\ rec.attempts = old.attempts
    BY <1>2 DEF VersionRecord
  <1>. HIDE DEF rec
  <1>5. CollectionInv([store EXCEPT !.version[s][p] = rec], worker)
    BY <1>2, <1>3, <1>4, VersionEffect
  <1>. QED
    BY <1>1, <1>5 DEF Keeps

-----------------------------------------------------------------------------
(* The theorems.                                                           *)

LEMMA InitHolds == Init => CollectionInv(store, worker)
  <1>. SUFFICES ASSUME Init PROVE CollectionInv(store, worker)
    OBVIOUS
  <1>1. 0 \in 0 .. PageCount /\ 0 \in 0 .. RunCount /\ 0 \in 0 .. AttemptLimit /\ 0 \in 0 .. Stages /\ 0 \in 0 .. MaxItems
        /\ 0 \in 0 .. MaxCalls /\ 1 \in Sources /\ 1 \in 1 .. PageCount + 1
    BY Constants DEF Sources
  <1>2. /\ worker \in WorkerRecord /\ worker.pc = "idle" /\ worker.run = 0 /\ worker.source = 1 /\ worker.page = 1
        /\ worker.verdict = "ok"
    BY <1>1 DEF Init, Idle, WorkerRecord, Labels
  <1>3. NoVersion \in VersionRecord /\ NoVersion.starved = 0 /\ NoVersion.attempts = 0 /\ NoVersion.holder = Nobody
    BY <1>1 DEF NoVersion, VersionRecord, Statuses, Nobody
  <1>4. /\ store \in StoreRecord /\ \A r \in Runs : store.run[r] = "none"
        /\ \A s \in Sources : store.checkpoint[s].cursor = 0
        /\ \A s \in Sources, p \in Pages : store.version[s][p] = NoVersion
    <2>. HIDE DEF NoVersion
    <2>1. [r \in Runs |-> "none"] \in [Runs -> {"none", "running", "success", "degraded"}]
      OBVIOUS
    <2>2. [s \in Sources |-> Nobody] \in [Sources -> Runs \cup {Nobody}]
      OBVIOUS
    <2>3. [s \in Sources |-> [p \in Pages |-> NoVersion]] \in [Sources -> [Pages -> VersionRecord]]
      BY <1>3
    <2>4. [s \in Sources |-> [cursor |-> 0, by |-> 0]] \in [Sources -> [cursor : 0 .. PageCount, by : 0 .. RunCount]]
      BY <1>1
    <2>5. store \in StoreRecord
      BY <2>1, <2>2, <2>3, <2>4 DEF Init, InitStore, StoreRecord
    <2>. QED
      BY <2>5 DEF Init, InitStore
  <1>5. Types(store, worker)
    BY <1>2, <1>4 DEF Types, WithVersion
  <1>6. AttemptsCount(store, worker)
    BY <1>2, <1>3, <1>4 DEF AttemptsCount, WithVersion
  <1>7. Seen(store, worker)
    <2>1. \A p \in Pages : ~(p <= 0) /\ ~(p < 1)
      BY Constants DEF Pages
    <2>. QED
      BY <1>2, <1>4, <2>1 DEF Seen
  <1>8. SuccessIsClean(store, worker) /\ VisitedIsClean(store, worker)
    BY <1>2, <1>4 DEF SuccessIsClean, VisitedIsClean
  <1>9. AheadIsUntouched(store, worker)
    BY <1>2, <1>3, <1>4 DEF AheadIsUntouched, Nobody
  <1>10. PresentIsTidy(store, worker)
    BY <1>2 DEF PresentIsTidy, WithVersion, WithoutVersion
  <1>. QED
    BY <1>5, <1>6, <1>7, <1>8, <1>9, <1>10 DEF CollectionInv

LEMMA NextKeeps == CollectionInv(store, worker) /\ [Next]_vars => Keeps
  <1>. SUFFICES ASSUME CollectionInv(store, worker), [Next]_vars PROVE Keeps
    OBVIOUS
  <1>1. CASE StartRun \/ SyncSource \/ AcquireLease \/ Discover \/ CollectPage \/ CollectEnds
    BY <1>1, StartRunKeeps, SyncSourceKeeps, AcquireLeaseKeeps, DiscoverKeeps, CollectPageKeeps, CollectEndsKeeps
  <1>2. CASE ClaimVersion \/ ReadArtifact \/ AskModel \/ StoreArtifact \/ Conclude \/ JudgeIrrelevant
    BY <1>2, ClaimVersionKeeps, ReadArtifactKeeps, AskModelKeeps, StoreArtifactKeeps, ConcludeKeeps, JudgeIrrelevantKeeps
  <1>3. CASE FinishVersion \/ FailVersion \/ DeferVersion \/ CheckpointSource \/ CheckpointFailure \/ ReleaseLease \/ FinishRun
    BY <1>3, FinishVersionKeeps, FailVersionKeeps, DeferVersionKeeps, CheckpointSourceKeeps, CheckpointFailureKeeps,
       ReleaseLeaseKeeps, FinishRunKeeps
  <1>4. CASE ExhaustRequests \/ Crash
    BY <1>4, ExhaustRequestsKeeps, CrashKeeps
  <1>5. ASSUME NEW s \in Sources, LeaseLapses(s) \/ \E p \in Pages : ClaimLapses(s, p) \/ CandidatesChange(s, p)
        PROVE  Keeps
    BY <1>5, LeaseLapsesKeeps, ClaimLapsesKeeps, CandidatesChangeKeeps
  <1>6. CASE UNCHANGED vars
    BY <1>6 DEF vars, Keeps
  <1>. QED
    BY <1>1, <1>2, <1>3, <1>4, <1>5, <1>6 DEF Next, Step

\* The invariant holds in every state: what the run, its leases, its claims and
\* its checkpoints owe each other while sources are visited and calls fail.
THEOREM CollectionInvariant == Spec => []CollectionInv(store, worker)
  <1>1. CollectionInv(store, worker) /\ [Next]_vars => CollectionInv(store, worker)'
    BY NextKeeps DEF Keeps
  <1>. QED
    BY <1>1, InitHolds, PTL DEF Spec

FaultsAreBounded == faults \in 0 .. MaxFaults

LEMMA FaultsBounded == Spec => []FaultsAreBounded
  <1>1. Init => FaultsAreBounded
    BY Constants DEF Init, FaultsAreBounded
  <1>2. Step => UNCHANGED faults \/ Fault
    BY DEF Step, Rpc, Refused, StartRun, SyncSource, AcquireLease, Discover, CollectPage, CollectEnds, ClaimVersion, ReadArtifact,
           AskModel, StoreArtifact, Conclude, JudgeIrrelevant, FinishVersion, FailVersion, DeferVersion, CheckpointSource,
           CheckpointFailure, ReleaseLease, FinishRun
  <1>3. [Next]_vars => UNCHANGED faults \/ Fault
    BY <1>2 DEF Next, ExhaustRequests, Crash, LeaseLapses, ClaimLapses, CandidatesChange, Lapse, vars
  <1>4. FaultsAreBounded /\ [Next]_vars => FaultsAreBounded'
    BY <1>3, Constants DEF FaultsAreBounded, Fault
  <1>. QED
    BY <1>1, <1>4, PTL DEF Spec

\* Every variable keeps its type: no counter of the worker leaves its budget, no
\* version is attempted more often than the ceiling of claim_source_version.
THEOREM CollectionTypeCorrect == Spec => []CollectionTypeOK
  <1>1. CollectionInv(store, worker) /\ FaultsAreBounded => CollectionTypeOK
    <2>. SUFFICES ASSUME CollectionInv(store, worker), FaultsAreBounded PROVE CollectionTypeOK
      OBVIOUS
    <2>1. store \in StoreRecord /\ worker \in WorkerRecord
      BY DEF CollectionInv, Types
    <2>2. Pages \cup {0} = 0 .. PageCount
      BY Constants DEF Pages
    <2>. QED
      BY <2>1, <2>2 DEF CollectionTypeOK, FaultsAreBounded, StoreRecord, WorkerRecord, VersionRecord, Statuses
  <1>. QED
    BY <1>1, CollectionInvariant, FaultsBounded, PTL

\* A cursor never passes a page that was not ingested, whichever calls of
\* whichever runs failed before (durable.py commits it after source success).
THEOREM CursorSkipsNothingTheorem == Spec => []CursorSkipsNothing
  <1>1. CollectionInv(store, worker) => CursorSkipsNothing
    BY DEF CollectionInv, Seen, CursorSkipsNothing, Ingested
  <1>. QED
    BY <1>1, CollectionInvariant, PTL

\* A source a run did not count has the run's success checkpoint and none of its
\* leases or claims, and so has every source of a run recorded as a success.
THEOREM SourceIsolationTheorem == Spec => []SourceIsolation
  <1>1. CollectionInv(store, worker) => SourceIsolation
    <2>. SUFFICES ASSUME CollectionInv(store, worker) PROVE SourceIsolation
      OBVIOUS
    <2>1. \A s \in Sources, r \in Runs : Clean(s, r) <=> CleanIn(store, s, r)
      BY DEF Clean, CleanIn
    <2>2. worker.pc # "idle" => worker.run \in Runs
      BY DEF CollectionInv, Types
    <2>3. At("outcome") => \A s \in Sources \ worker.counted : Clean(s, worker.run)
      BY <2>1, <2>2 DEF CollectionInv, VisitedIsClean, At
    <2>4. \A r \in Runs : store.run[r] = "success" => \A s \in Sources : Clean(s, r)
      BY <2>1 DEF CollectionInv, SuccessIsClean
    <2>. QED
      BY <2>3, <2>4 DEF SourceIsolation
  <1>. QED
    BY <1>1, CollectionInvariant, PTL
=============================================================================
