----------------------------- MODULE QuotaProofs -----------------------------
(***************************************************************************)
(* The call budget of the model provider by itself loses no version:       *)
(* QuotaAloneLosesNothing of Collection, for any number of sources, pages, *)
(* runs, stages and calls.  While nothing is disturbed a run has one       *)
(* version in hand, the oldest that can still be claimed; a version that   *)
(* starves without a rival source is again the first of the next run, and  *)
(* finds in its cache a share of the stages for every such run.            *)
(***************************************************************************)
EXTENDS CollectionProofs

-----------------------------------------------------------------------------
(* The invariant of undisturbed runs.                                      *)

\* Where the process works on a claimed version, and where it has not yet come
\* to the versions of its source.
Working == {"read", "ask", "store", "analysed", "finish", "defer", "error"}
Arriving == {"sync", "lease", "discover", "collect"}

\* What no later run can claim.
Dead(v) == v.status = "settled" \/ (v.attempts = AttemptLimit /\ v.status # "processing")

\* Two calls a stage: what a run's budget caches of one version.
Share == MaxCalls \div 2

\* Only the process holds a version, and nothing went wrong with it.
CalmClaim(st, w) ==
  /\ ~w.cut /\ w.pc \notin {"raised", "abandon"}
  /\ w.pc \in Working =>
       LET v == st.version[w.source][w.version]
       IN  v.status = "processing" /\ v.holder = w.run /\ v.live
  /\ \A s \in Sources, p \in Pages :
       st.version[s][p].status = "processing" => w.pc \in Working /\ s = w.source /\ p = w.version

\* Pages are ingested in order, and a version is claimed, hence starved, only
\* when those before it are out of the way.
CalmOrder(st, w) ==
  /\ \A s \in Sources, p, q \in Pages :
       q < p => /\ st.version[s][p].status # "absent" => st.version[s][q].status # "absent"
                /\ st.version[s][p].starved > 0 => Dead(st.version[s][q])
  /\ w.pc \in Working => \A q \in Pages : q < w.version => Dead(st.version[w.source][q])

\* The calls of a run are those of the sources it has come to.  Once it called
\* the model for a source, what was starved there before is out of the way.
CalmBudget(st, w) ==
  /\ w.spent = {} => w.calls = 0
  /\ \A s \in w.spent : s <= w.source
  /\ w.pc \in Arriving => w.source \notin w.spent
  /\ w.pc = "claim" /\ w.source \in w.spent =>
       \A p \in Pages : st.version[w.source][p].starved > 0 => Dead(st.version[w.source][p])

\* The stages are those answered in turn, while no candidate changes.
InTurn(st, w) ==
  LET v == st.version[w.source][w.version]
  IN  ~v.moved => /\ w.pc = "read" => w.stage <= v.cached
                  /\ w.pc \in {"ask", "store"} => w.stage = v.cached

\* Every attempt that starved without a rival left a share of stages behind, the
\* first one excepted, and the present run has paid two calls a stage at most.
CalmShare(st, w) ==
  /\ \A s \in Sources, p \in Pages :
       LET v == st.version[s][p]
       IN  ~v.rival /\ ~v.moved => v.starved < AttemptLimit /\ (v.starved > 0 => v.cached >= (v.starved - 1) * Share)
  /\ InTurn(st, w)
  /\ w.pc \in {"read", "ask", "store"} /\ w.spent \subseteq {w.source} =>
       LET v == st.version[w.source][w.version]
           answered == IF w.pc = "store" THEN v.cached + 1 ELSE v.cached
       IN  ~v.rival /\ ~v.moved /\ v.starved > 0 => w.calls <= 2 * (answered - (v.starved - 1) * Share)

Calm(st, w) == CalmClaim(st, w) /\ CalmOrder(st, w) /\ CalmBudget(st, w) /\ CalmShare(st, w)

-----------------------------------------------------------------------------
(* Moves, for any two states of the database and the process.              *)

\* What the budget argument reads of a version.
Alike(a, b) ==
  /\ a.status = b.status /\ a.attempts = b.attempts /\ a.cached = b.cached
  /\ a.starved = b.starved /\ a.rival = b.rival /\ a.moved = b.moved

OthersAlike(st, st2, s, p) ==
  \A t \in Sources, q \in Pages : ~(t = s /\ q = p) => Alike(st.version[t][q], st2.version[t][q])

\* A version may appear once those before it have.
Appears(st, st2, s, p) ==
  /\ st.version[s][p].status = "absent" /\ st2.version[s][p].status = "pending_ai"
  /\ st2.version[s][p].cached = st.version[s][p].cached /\ st2.version[s][p].attempts = st.version[s][p].attempts
  /\ st2.version[s][p].starved = st.version[s][p].starved /\ st2.version[s][p].rival = st.version[s][p].rival
  /\ st2.version[s][p].moved = st.version[s][p].moved
  /\ \A q \in Pages : q < p => st.version[s][q].status # "absent"

LEMMA Order ==
  /\ Sources \subseteq Nat /\ Pages \subseteq Nat
  /\ \A p, q \in Pages : p < q \/ p = q \/ q < p
  BY Constants DEF Sources, Pages

LEMMA AlikeDead == ASSUME NEW a, NEW b, Alike(a, b) PROVE Dead(a) <=> Dead(b)
  BY DEF Alike, Dead

\* Between versions.
LEMMA WalkCalm ==
  ASSUME NEW st \in StoreRecord, NEW st2 \in StoreRecord, NEW w \in WorkerRecord, NEW w2 \in WorkerRecord,
         Calm(st, w), w.pc \notin Working, w2.pc \notin Working \cup {"raised", "abandon"}, ~w2.cut,
         \A s \in Sources, p \in Pages : Alike(st.version[s][p], st2.version[s][p]) \/ Appears(st, st2, s, p),
         w2.spent = {} => w2.calls = 0, \A s \in w2.spent : s <= w2.source,
         w2.pc \in Arriving \cup {"claim"} => w2.source \notin w2.spent
  PROVE  Calm(st2, w2)
  <1>1. \A s \in Sources, p \in Pages :
          /\ st2.version[s][p].status # "processing"
          /\ st2.version[s][p].starved = st.version[s][p].starved
          /\ st2.version[s][p].rival = st.version[s][p].rival /\ st2.version[s][p].moved = st.version[s][p].moved
          /\ st2.version[s][p].cached = st.version[s][p].cached
          /\ Dead(st.version[s][p]) => Dead(st2.version[s][p])
          /\ st.version[s][p].status # "absent" => st2.version[s][p].status # "absent"
    BY DEF Calm, CalmClaim, Alike, Appears, Dead
  <1>2. CalmClaim(st2, w2)
    BY <1>1 DEF CalmClaim
  <1>3. CalmOrder(st2, w2)
    <2>. SUFFICES ASSUME NEW s \in Sources, NEW p \in Pages, NEW q \in Pages, q < p
                  PROVE  /\ st2.version[s][p].status # "absent" => st2.version[s][q].status # "absent"
                         /\ st2.version[s][p].starved > 0 => Dead(st2.version[s][q])
      BY DEF CalmOrder
    <2>1. /\ st.version[s][p].status # "absent" => st.version[s][q].status # "absent"
          /\ st.version[s][p].starved > 0 => Dead(st.version[s][q])
      BY DEF Calm, CalmOrder
    <2>2. st2.version[s][p].status # "absent" => st.version[s][q].status # "absent"
      BY <2>1 DEF Alike, Appears
    <2>. QED
      BY <1>1, <2>1, <2>2
  <1>4. CalmBudget(st2, w2)
    BY DEF CalmBudget
  <1>5. CalmShare(st2, w2)
    BY <1>1 DEF Calm, CalmShare, InTurn, Working
  <1>. QED
    BY <1>2, <1>3, <1>4, <1>5 DEF Calm

\* The head of the queue is claimed: all before it are dead.
LEMMA ClaimCalm ==
  ASSUME NEW st \in StoreRecord, NEW st2 \in StoreRecord, NEW w \in WorkerRecord, NEW w2 \in WorkerRecord, NEW p \in Pages,
         Calm(st, w), w.pc = "claim", OthersAlike(st, st2, w.source, p),
         LET a == st.version[w.source][p]
             b == st2.version[w.source][p]
         IN  /\ a.attempts < AttemptLimit /\ a.status \in {"pending_ai", "error"}
             /\ b.status = "processing" /\ b.holder = w.run /\ b.live
             /\ b.cached = a.cached /\ b.starved = a.starved /\ b.rival = a.rival /\ b.moved = a.moved,
         \A q \in Pages : q < p =>
           ~(st.version[w.source][q].attempts < AttemptLimit /\ st.version[w.source][q].status \in {"pending_ai", "error"}),
         w2.pc = "read", w2.version = p, w2.stage = 0, w2.source = w.source, w2.run = w.run,
         w2.spent = w.spent, w2.calls = w.calls, ~w2.cut
  PROVE  Calm(st2, w2)
  <1>. DEFINE s == w.source
  <1>1. s \in Sources /\ \A q \in Pages : st.version[s][q] \in VersionRecord
    BY SMTT(60) DEF WorkerRecord, StoreRecord
  <1>2. \A q \in Pages : q < p => Dead(st.version[s][q])
    <2>. SUFFICES ASSUME NEW q \in Pages, q < p PROVE Dead(st.version[s][q])
      OBVIOUS
    <2>1. st.version[s][q].status \notin {"absent", "processing"}
      BY <1>1 DEF Calm, CalmOrder, CalmClaim, Working
    <2>2. st.version[s][q].attempts < AttemptLimit \/ st.version[s][q].attempts = AttemptLimit
      BY <1>1, Constants, SMTT(60) DEF VersionRecord
    <2>. QED
      BY <1>1, <2>1, <2>2 DEF VersionRecord, Statuses, Dead
  <1>3. ~Dead(st.version[s][p])
    BY <1>1, Constants, SMTT(60) DEF Dead, VersionRecord
  <1>4. \A t \in Sources, q \in Pages : ~(t = s /\ q = p) => (Dead(st2.version[t][q]) <=> Dead(st.version[t][q]))
    BY AlikeDead DEF OthersAlike
  <1>5. \A t \in Sources, q \in Pages :
          /\ st2.version[t][q].starved = st.version[t][q].starved /\ st2.version[t][q].cached = st.version[t][q].cached
          /\ st2.version[t][q].rival = st.version[t][q].rival /\ st2.version[t][q].moved = st.version[t][q].moved
          /\ st2.version[t][q].status = "absent" <=> st.version[t][q].status = "absent"
          /\ st2.version[t][q].status = "processing" => t = s /\ q = p
    BY SMTT(60) DEF OthersAlike, Alike, Calm, CalmClaim, Working
  <1>6. CalmClaim(st2, w2)
    BY <1>5 DEF CalmClaim, Working
  <1>7. CalmOrder(st2, w2)
    <2>1. ASSUME NEW t \in Sources, NEW q \in Pages, NEW o \in Pages, o < q
          PROVE  /\ st2.version[t][q].status # "absent" => st2.version[t][o].status # "absent"
                 /\ st2.version[t][q].starved > 0 => Dead(st2.version[t][o])
      <3>1. /\ st.version[t][q].status # "absent" => st.version[t][o].status # "absent"
            /\ st.version[t][q].starved > 0 => Dead(st.version[t][o])
        BY <2>1 DEF Calm, CalmOrder
      <3>2. Dead(st.version[t][o]) => Dead(st2.version[t][o])
        BY <1>3, <1>4
      <3>. QED
        BY <1>5, <3>1, <3>2
    <2>2. \A q \in Pages : q < p => Dead(st2.version[s][q])
      BY <1>1, <1>2, <1>4, Order
    <2>. QED
      BY <2>1, <2>2 DEF CalmOrder
  <1>8. CalmBudget(st2, w2)
    BY DEF Calm, CalmBudget, Arriving
  <1>9. CalmShare(st2, w2)
    <2>1. \A t \in Sources, q \in Pages :
            LET v == st2.version[t][q]
            IN  ~v.rival /\ ~v.moved => v.starved < AttemptLimit /\ (v.starved > 0 => v.cached >= (v.starved - 1) * Share)
      BY <1>5 DEF Calm, CalmShare, InTurn
    <2>2. w2.stage <= st2.version[s][p].cached
      <3>1. st.version[s][p].cached \in 0 .. Stages
        BY <1>1 DEF VersionRecord
      <3>2. 0 <= st.version[s][p].cached
        BY <3>1, Constants
      <3>. QED
        BY <1>1, <1>5, <3>2
    <2>. DEFINE a == st2.version[s][p]
    <2>3. ASSUME w2.spent \subseteq {s}, ~a.rival /\ ~a.moved, a.starved > 0
          PROVE  w2.calls <= 2 * (a.cached - (a.starved - 1) * Share)
      <3>1. s \notin w.spent
        BY <1>1, <1>3, <1>5, <2>3 DEF Calm, CalmBudget
      <3>2. w.calls = 0
        BY <2>3, <3>1 DEF Calm, CalmBudget
      <3>3. a.cached >= (a.starved - 1) * Share
        BY <1>1, <2>1, <2>3
      <3>4. a.cached \in Int /\ (a.starved - 1) * Share \in Int
        <4>1. a.cached \in Int /\ a.starved \in Int
          <5>1. a.cached = st.version[s][p].cached /\ a.starved = st.version[s][p].starved
            BY <1>1, <1>5
          <5>2. st.version[s][p].cached \in Int /\ st.version[s][p].starved \in Int
            BY <1>1, Constants DEF VersionRecord
          <5>. QED
            BY <5>1, <5>2
        <4>2. Share \in Int
          BY Constants DEF Share
        <4>. QED
          BY <4>1, <4>2
      <3>. HIDE DEF a
      <3>5. \A x, y \in Int : x >= y => 0 <= 2 * (x - y)
        OBVIOUS
      <3>. QED
        BY <3>2, <3>3, <3>4, <3>5
    <2>. QED
      BY <2>1, <2>2, <2>3 DEF CalmShare, InTurn
  <1>. QED
    BY <1>6, <1>7, <1>8, <1>9 DEF Calm

\* While the version is in hand: its stages, its share of the budget.
LEMMA WorkCalm ==
  ASSUME NEW st \in StoreRecord, NEW st2 \in StoreRecord, NEW w \in WorkerRecord, NEW w2 \in WorkerRecord,
         Calm(st, w), w.pc \in Working, w2.pc \in Working, w.version \in Pages,
         OthersAlike(st, st2, w.source, w.version),
         LET a == st.version[w.source][w.version]
             b == st2.version[w.source][w.version]
         IN  b.status = a.status /\ b.holder = a.holder /\ b.live = a.live,
         w2.source = w.source, w2.version = w.version, w2.run = w.run, ~w2.cut,
         w2.spent \in {w.spent, w.spent \cup {w.source}}, w2.spent = {} => w2.calls = 0,
         CalmShare(st2, w2)
  PROVE  Calm(st2, w2)
  <1>. DEFINE s == w.source
              p == w.version
  <1>1. s \in Sources
    BY DEF WorkerRecord
  <1>2. \A t \in Sources, q \in Pages : ~(t = s /\ q = p) => (Dead(st2.version[t][q]) <=> Dead(st.version[t][q]))
    BY AlikeDead DEF OthersAlike
  <1>3. st.version[s][p].status = "processing" /\ ~Dead(st.version[s][p])
    BY DEF Calm, CalmClaim, Dead
  <1>4. \A t \in Sources, q \in Pages :
          /\ ~(t = s /\ q = p) => st2.version[t][q].starved = st.version[t][q].starved
          /\ st2.version[t][q].status = st.version[t][q].status
    BY DEF OthersAlike, Alike
  <1>5. CalmClaim(st2, w2)
    BY <1>1, <1>3, <1>4 DEF Calm, CalmClaim, Working
  <1>6. CalmOrder(st2, w2)
    <2>1. \A q \in Pages : q < p => Dead(st2.version[s][q])
      <3>1. \A q \in Pages : q < p => Dead(st.version[s][q]) /\ q # p
        BY Order DEF Calm, CalmOrder
      <3>. QED
        BY <1>1, <1>2, <3>1
    <2>2. ASSUME NEW t \in Sources, NEW q \in Pages, NEW o \in Pages, o < q
          PROVE  /\ st2.version[t][q].status # "absent" => st2.version[t][o].status # "absent"
                 /\ st2.version[t][q].starved > 0 => Dead(st2.version[t][o])
      BY <1>2, <1>3, <1>4, <2>1, <2>2 DEF Calm, CalmOrder
    <2>. QED
      BY <2>1, <2>2 DEF CalmOrder
  <1>7. CalmBudget(st2, w2)
    BY <1>1, Order DEF Calm, CalmBudget, Working, Arriving
  <1>. QED
    BY <1>5, <1>6, <1>7 DEF Calm

\* The version is closed: the run goes on only after a settled one.
LEMMA CloseCalm ==
  ASSUME NEW st \in StoreRecord, NEW st2 \in StoreRecord, NEW w \in WorkerRecord, NEW w2 \in WorkerRecord,
         Calm(st, w), w.pc \in Working, w.version \in Pages,
         OthersAlike(st, st2, w.source, w.version),
         LET a == st.version[w.source][w.version]
             b == st2.version[w.source][w.version]
         IN  /\ b.status \in {"settled", "error", "pending_ai"} /\ b.cached = a.cached
             /\ b.starved = a.starved /\ b.rival = a.rival /\ b.moved = a.moved
             /\ w2.pc = "checkpoint" \/ (w2.pc = "claim" /\ b.status = "settled"),
         w2.source = w.source, ~w2.cut, w2.spent = w.spent, w2.calls = w.calls
  PROVE  Calm(st2, w2)
  <1>. DEFINE s == w.source
              p == w.version
  <1>1. s \in Sources
    BY DEF WorkerRecord
  <1>2. \A t \in Sources, q \in Pages : ~(t = s /\ q = p) => (Dead(st2.version[t][q]) <=> Dead(st.version[t][q]))
    BY AlikeDead DEF OthersAlike
  <1>3. st.version[s][p].status = "processing" /\ ~Dead(st.version[s][p])
    BY DEF Calm, CalmClaim, Dead
  <1>4. \A t \in Sources, q \in Pages :
          /\ st2.version[t][q].starved = st.version[t][q].starved /\ st2.version[t][q].cached = st.version[t][q].cached
          /\ st2.version[t][q].rival = st.version[t][q].rival /\ st2.version[t][q].moved = st.version[t][q].moved
          /\ st2.version[t][q].status # "processing"
          /\ st2.version[t][q].status = "absent" <=> st.version[t][q].status = "absent"
    BY <1>3, SMTT(60) DEF OthersAlike, Alike, Calm, CalmClaim
  <1>5. CalmClaim(st2, w2)
    BY <1>4 DEF CalmClaim, Working
  <1>0. \A t \in Sources, q, o \in Pages : o < q =>
          /\ st.version[t][q].status # "absent" => st.version[t][o].status # "absent"
          /\ st.version[t][q].starved > 0 => Dead(st.version[t][o])
    BY DEF Calm, CalmOrder
  <1>6. \A q \in Pages : q > p => ~(st.version[s][q].starved > 0)
    BY <1>0, <1>1, <1>3, Order
  <1>7. CalmOrder(st2, w2)
    <2>. SUFFICES ASSUME NEW t \in Sources, NEW q \in Pages, NEW o \in Pages, o < q
                  PROVE  /\ st2.version[t][q].status # "absent" => st2.version[t][o].status # "absent"
                         /\ st2.version[t][q].starved > 0 => Dead(st2.version[t][o])
      BY DEF CalmOrder, Working
    <2>1. Dead(st.version[t][o]) => Dead(st2.version[t][o])
      BY <1>2, <1>3
    <2>. QED
      BY <1>0, <1>4, <2>1
  <1>8. CalmBudget(st2, w2)
    <2>1. ASSUME w2.pc = "claim", NEW q \in Pages, st2.version[s][q].starved > 0 PROVE Dead(st2.version[s][q])
      <3>1. CASE q = p
        BY <2>1, <3>1 DEF Dead
      <3>2. CASE q < p
        <4>1. Dead(st.version[s][q])
          BY <3>2 DEF Calm, CalmOrder
        <4>2. q # p
          BY <3>2, Order
        <4>. QED
          BY <1>1, <1>2, <4>1, <4>2
      <3>3. CASE p < q
        BY <1>1, <1>4, <1>6, <2>1, <3>3, Order
      <3>. QED
        BY <3>1, <3>2, <3>3, Order
    <2>. QED
      BY <2>1 DEF Calm, CalmBudget, Arriving
  <1>9. CalmShare(st2, w2)
    BY <1>4 DEF Calm, CalmShare, InTurn
  <1>. QED
    BY <1>5, <1>7, <1>8, <1>9 DEF Calm

-----------------------------------------------------------------------------
(* The actions, while nothing is disturbed.                                *)

Undisturbed ==
  /\ CollectionInv(store, worker) /\ CollectionInv(store, worker)' /\ Calm(store, worker)
  /\ faults = 0 /\ faults' = 0

StaysCalm == Calm(store, worker)'

LEMMA Typed ==
  ASSUME Undisturbed
  PROVE  worker \in WorkerRecord /\ store \in StoreRecord /\ worker' \in WorkerRecord /\ store' \in StoreRecord /\ ~worker.cut
  BY DEF Undisturbed, CollectionInv, Types, Calm, CalmClaim

\* A call that is neither refused nor cut runs and is answered.
LEMMA CalmRpc ==
  ASSUME Undisturbed, NEW e, NEW a, NEW f, Rpc(e, a, f)
  PROVE  store' = e /\ worker' = a
  BY Typed DEF Undisturbed, Rpc, Fault

LEMMA NoFault == Undisturbed => ~Fault
  BY DEF Undisturbed, Fault

\* One version replaced.
Written(st, s, p, rec) == [st EXCEPT !.version[s][p] = rec]

LEMMA VersionWritten ==
  ASSUME NEW st \in StoreRecord, NEW s \in Sources, NEW p \in Pages, NEW rec
  PROVE  /\ Written(st, s, p, rec).version[s][p] = rec
         /\ \A t \in Sources, q \in Pages :
              ~(t = s /\ q = p) => Written(st, s, p, rec).version[t][q] = st.version[t][q]
  <1>. DEFINE e == Written(st, s, p, rec)
              vs == [st.version EXCEPT ![s] = [@ EXCEPT ![p] = rec]]
  <1>1. st.version \in [Sources -> [Pages -> VersionRecord]]
    BY DEF StoreRecord
  <1>2. \A t \in Sources, q \in Pages : vs[t][q] = (IF t = s /\ q = p THEN rec ELSE st.version[t][q])
    BY <1>1
  <1>3. e = [st EXCEPT !.version = vs]
    BY DEF Written
  <1>. HIDE DEF vs
  <1>4. e.version = vs
    BY <1>3 DEF StoreRecord
  <1>. HIDE DEF e
  <1>5. \A t \in Sources, q \in Pages : e.version[t][q] = (IF t = s /\ q = p THEN rec ELSE st.version[t][q])
    BY <1>2, <1>4
  <1>. QED
    BY <1>5 DEF e

\* The next source is one the run has not called the model for.
LEMMA NextCalm ==
  ASSUME Undisturbed, worker.pc \notin Working, store'.version = store.version,
         worker' \in {NextSource(worker), NextSource(Counted(worker))}
  PROVE  StaysCalm
  <1>1. \A w \in WorkerRecord :
          /\ NextSource(w).pc \in {"outcome", "sync"}
          /\ NextSource(w).spent = w.spent /\ NextSource(w).calls = w.calls /\ NextSource(w).cut = w.cut
          /\ NextSource(w).source = (IF NextSource(w).pc = "sync" THEN w.source + 1 ELSE w.source)
    BY DEF NextSource, WorkerRecord
  <1>2. /\ Counted(worker) \in WorkerRecord /\ Counted(worker).spent = worker.spent /\ Counted(worker).calls = worker.calls
        /\ Counted(worker).cut = worker.cut /\ Counted(worker).source = worker.source
    BY Typed DEF Counted, WorkerRecord
  <1>3. /\ worker'.pc \in {"outcome", "sync"} /\ worker'.spent = worker.spent /\ worker'.calls = worker.calls /\ ~worker'.cut
        /\ worker'.source = (IF worker'.pc = "sync" THEN worker.source + 1 ELSE worker.source)
    <2>1. CASE worker' = NextSource(worker)
      BY <1>1, <2>1, Typed
    <2>2. CASE worker' = NextSource(Counted(worker))
      BY <1>1, <1>2, <2>2, Typed
    <2>. QED
      BY <2>1, <2>2
  <1>4. worker.source \in Nat /\ \A s \in worker.spent : s \in Nat /\ s <= worker.source
    BY Typed, Order DEF WorkerRecord, Undisturbed, Calm, CalmBudget
  <1>5. worker'.spent = {} => worker'.calls = 0
    BY <1>3 DEF Undisturbed, Calm, CalmBudget
  <1>6. \A s \in worker'.spent : s <= worker'.source
    BY <1>3, <1>4
  <1>7. worker'.pc \in Arriving \cup {"claim"} => worker'.source \notin worker'.spent
    <2>1. worker.source + 1 \notin worker.spent
      BY <1>4
    <2>. QED
      BY <1>3, <2>1 DEF Arriving
  <1>8. worker'.pc \notin Working \cup {"raised", "abandon"}
    BY <1>3 DEF Working
  <1>9. Calm(store', worker')
    BY <1>3, <1>5, <1>6, <1>7, <1>8, Typed, WalkCalm DEF Undisturbed, Alike
  <1>. QED
    BY <1>9 DEF StaysCalm

\* A run that ended, and one that starts, has spent nothing.
LEMMA FreshCalm ==
  ASSUME Undisturbed, worker.pc \notin Working, store'.version = store.version,
         worker'.pc \in {"idle", "sync"}, worker'.spent = {}, worker'.calls = 0, ~worker'.cut
  PROVE  StaysCalm
  <1>1. worker'.pc \notin Working \cup {"raised", "abandon"}
    BY DEF Working
  <1>2. Calm(store', worker')
    BY <1>1, Typed, WalkCalm DEF Undisturbed, Alike
  <1>. QED
    BY <1>2 DEF StaysCalm

\* A step to another label of the same source.
LEMMA LabelCalm ==
  ASSUME Undisturbed, worker.pc \notin Working,
         \A s \in Sources, p \in Pages :
           Alike(store.version[s][p], store'.version[s][p]) \/ Appears(store, store', s, p),
         worker'.pc \in {"lease", "discover", "collect", "claim", "checkpoint", "release"},
         worker'.pc \in Arriving \cup {"claim"} => worker.pc \in Arriving,
         worker'.source = worker.source, worker'.spent = worker.spent, worker'.calls = worker.calls, ~worker'.cut
  PROVE  StaysCalm
  <1>1. worker'.pc \notin Working \cup {"raised", "abandon"}
    BY DEF Working
  <1>2. /\ worker'.spent = {} => worker'.calls = 0
        /\ \A s \in worker'.spent : s <= worker'.source
        /\ worker'.pc \in Arriving \cup {"claim"} => worker'.source \notin worker'.spent
    BY DEF Undisturbed, Calm, CalmBudget
  <1>3. Calm(store', worker')
    BY <1>1, <1>2, Typed, WalkCalm DEF Undisturbed
  <1>. QED
    BY <1>3 DEF StaysCalm

LEMMA GotoCalm ==
  ASSUME worker \in WorkerRecord, ~worker.cut, NEW label \in Labels
  PROVE  /\ Goto(label).pc = label /\ Goto(label).source = worker.source /\ Goto(label).spent = worker.spent
         /\ Goto(label).calls = worker.calls /\ ~Goto(label).cut /\ Goto(label).run = worker.run
         /\ Goto(label).version = worker.version /\ Goto(label).stage = worker.stage
  BY DEF Goto, WorkerRecord

LEMMA StartRunCalm == Undisturbed /\ StartRun => StaysCalm
  <1>. SUFFICES ASSUME Undisturbed, StartRun PROVE StaysCalm
    OBVIOUS
  <1>. DEFINE v == [Idle(worker.run + 1) EXCEPT !.pc = "sync"]
              e == [store EXCEPT !.run[worker.run + 1] = "running"]
  <1>1. worker.pc = "idle" /\ Rpc(e, v, [v EXCEPT !.pc = "idle"])
    BY DEF StartRun, At
  <1>2. store' = e /\ worker' = v
    BY <1>1, CalmRpc
  <1>3. e.version = store.version
    BY Typed DEF StoreRecord
  <1>4. v.pc = "sync" /\ v.spent = {} /\ v.calls = 0 /\ ~v.cut
    BY DEF Idle
  <1>. QED
    BY <1>1, <1>2, <1>3, <1>4, FreshCalm DEF Working

LEMMA SyncSourceCalm == Undisturbed /\ SyncSource => StaysCalm
  <1>. SUFFICES ASSUME Undisturbed, SyncSource PROVE StaysCalm
    OBVIOUS
  <1>1. worker.pc = "sync" /\ store' = store /\ worker' = Goto("lease")
    BY CalmRpc DEF SyncSource, At
  <1>. QED
    BY <1>1, Typed, GotoCalm, LabelCalm DEF Labels, Working, Arriving, Alike

LEMMA AcquireLeaseCalm == Undisturbed /\ AcquireLease => StaysCalm
  <1>. SUFFICES ASSUME Undisturbed, AcquireLease PROVE StaysCalm
    OBVIOUS
  <1>. DEFINE e == [store EXCEPT !.lease[Src] = worker.run]
              v == Goto("discover")
              f == NextSource(Counted(worker))
  <1>1. worker.pc = "lease" /\ ((store' = e /\ worker' = v) \/ (store' = store /\ worker' = f))
    <2>1. worker.pc = "lease" /\ (Rpc(e, v, f) \/ Rpc(store, f, f))
      BY DEF AcquireLease, At
    <2>. HIDE DEF e, v, f
    <2>2. Rpc(e, v, f) => store' = e /\ worker' = v
      BY CalmRpc
    <2>3. Rpc(store, f, f) => store' = store /\ worker' = f
      BY CalmRpc
    <2>. QED
      BY <2>1, <2>2, <2>3
  <1>2. e.version = store.version
    BY Typed DEF StoreRecord
  <1>3. CASE worker' = v
    <2>1. /\ v.pc = "discover" /\ v.source = worker.source /\ v.spent = worker.spent
          /\ v.calls = worker.calls /\ ~v.cut
      BY Typed, GotoCalm DEF Labels
    <2>2. store'.version = store.version
      BY <1>1, <1>2
    <2>. HIDE DEF e, v
    <2>. QED
      BY <1>1, <1>3, <2>1, <2>2, LabelCalm DEF Working, Arriving, Alike
  <1>4. CASE worker' = f
    BY <1>1, <1>2, <1>4, NextCalm DEF Working
  <1>. QED
    BY <1>1, <1>3, <1>4

LEMMA DiscoverCalm == Undisturbed /\ Discover => StaysCalm
  <1>. SUFFICES ASSUME Undisturbed, Discover PROVE StaysCalm
    OBVIOUS
  <1>1. PICK n \in Pages : worker' = [worker EXCEPT !.pc = "collect", !.listed = n]
    BY NoFault DEF Discover
  <1>2. worker.pc = "discover" /\ store' = store
    BY DEF Discover, At
  <1>3. /\ worker'.pc = "collect" /\ worker'.source = worker.source /\ worker'.spent = worker.spent
        /\ worker'.calls = worker.calls /\ ~worker'.cut
    BY <1>1, Typed DEF WorkerRecord
  <1>. QED
    BY <1>2, <1>3, LabelCalm DEF Working, Arriving, Alike

LEMMA CollectPageCalm == Undisturbed /\ CollectPage => StaysCalm
  <1>. SUFFICES ASSUME Undisturbed, CollectPage PROVE StaysCalm
    OBVIOUS
  <1>. DEFINE v == [worker EXCEPT !.fetched = @ + 1, !.page = @ + 1]
              s == worker.source
              p == worker.page
              old == store.version[s][p]
  <1>1. worker.pc = "collect" /\ worker' = v /\ store' = Ingest(s, p)
    BY CalmRpc, NoFault DEF CollectPage, At, Src
  <1>2. v.pc = "collect" /\ v.source = s /\ v.spent = worker.spent /\ v.calls = worker.calls /\ ~v.cut
    BY <1>1, Typed DEF WorkerRecord
  <1>3. p \in Pages /\ s \in Sources /\ old \in VersionRecord
    <2>1. /\ ~(worker.page > worker.listed) /\ worker.page \in 1 .. PageCount + 1 /\ worker.listed \in 0 .. PageCount
          /\ s \in Sources
      BY Typed DEF CollectPage, EndOfList, WorkerRecord
    <2>2. p \in Pages
      BY <2>1, Constants DEF Pages
    <2>. QED
      BY <2>1, <2>2, Typed DEF StoreRecord
  <1>. HIDE DEF v
  <1>4. ASSUME NEW t \in Sources, NEW q \in Pages
        PROVE  Alike(store.version[t][q], store'.version[t][q]) \/ Appears(store, store', t, q)
    <2>1. CASE old.status # "absent"
      BY <1>1, <2>1 DEF Ingest, Ingested, Alike
    <2>2. CASE old.status = "absent"
      <3>. DEFINE rec == [old EXCEPT !.status = "pending_ai"]
      <3>1. store' = [store EXCEPT !.version[s][p] = rec]
        BY <1>1, <2>2 DEF Ingest, Ingested
      <3>2. /\ rec.status = "pending_ai" /\ rec.cached = old.cached /\ rec.attempts = old.attempts
            /\ rec.starved = old.starved /\ rec.rival = old.rival /\ rec.moved = old.moved
        BY <1>3 DEF VersionRecord
      <3>. HIDE DEF rec
      <3>3. store'.version[s][p] = rec /\ (~(t = s /\ q = p) => store'.version[t][q] = store.version[t][q])
        <4>1. store' = Written(store, s, p, rec)
          BY <3>1 DEF Written
        <4>. QED
          BY <1>3, <4>1, Typed, VersionWritten
      <3>4. \A o \in Pages : o < p => store.version[s][o].status # "absent"
        BY DEF Undisturbed, CollectionInv, Seen
      <3>5. CASE t = s /\ q = p
        BY <2>2, <3>2, <3>3, <3>4, <3>5 DEF Appears
      <3>6. CASE ~(t = s /\ q = p)
        BY <3>3, <3>6 DEF Alike
      <3>. QED
        BY <3>5, <3>6
    <2>. QED
      BY <2>1, <2>2
  <1>. QED
    BY <1>1, <1>2, <1>4, LabelCalm DEF Working, Arriving

LEMMA CollectEndsCalm == Undisturbed /\ CollectEnds => StaysCalm
  <1>. SUFFICES ASSUME Undisturbed, CollectEnds PROVE StaysCalm
    OBVIOUS
  <1>1. worker.pc = "collect" /\ store' = store /\ worker' = Goto("claim")
    BY DEF CollectEnds, At
  <1>. QED
    BY <1>1, Typed, GotoCalm, LabelCalm DEF Labels, Working, Arriving, Alike

LEMMA CheckpointSourceCalm == Undisturbed /\ CheckpointSource => StaysCalm
  <1>. SUFFICES ASSUME Undisturbed, CheckpointSource PROVE StaysCalm
    OBVIOUS
  <1>. DEFINE e == Checkpoint(worker.verdict = "ok")
              v == Goto("release")
  <1>1. worker.pc = "checkpoint" /\ store' = e /\ worker' = v
    BY CalmRpc DEF CheckpointSource, At
  <1>2. e.version = store.version
    BY Typed DEF Checkpoint, StoreRecord
  <1>3. v.pc = "release" /\ v.source = worker.source /\ v.spent = worker.spent /\ v.calls = worker.calls /\ ~v.cut
    BY Typed, GotoCalm DEF Labels
  <1>. HIDE DEF e, v
  <1>. QED
    BY <1>1, <1>2, <1>3, LabelCalm DEF Working, Arriving, Alike

LEMMA ReleaseLeaseCalm == Undisturbed /\ ReleaseLease => StaysCalm
  <1>. SUFFICES ASSUME Undisturbed, ReleaseLease PROVE StaysCalm
    OBVIOUS
  <1>. DEFINE e == Released(Src)
  <1>1. worker.pc # "abandon"
    BY DEF Undisturbed, Calm, CalmClaim
  <1>2. worker.pc = "release" /\ Rpc(e, NextSource(worker), NextSource(Counted(worker)))
    BY <1>1 DEF ReleaseLease, At
  <1>3. store' = e /\ worker' = NextSource(worker)
    BY <1>2, CalmRpc
  <1>4. e.version = store.version
    BY Typed DEF Released, StoreRecord
  <1>. HIDE DEF e
  <1>. QED
    BY <1>2, <1>3, <1>4, NextCalm DEF Working

LEMMA FinishRunCalm == Undisturbed /\ FinishRun => StaysCalm
  <1>. SUFFICES ASSUME Undisturbed, FinishRun PROVE StaysCalm
    OBVIOUS
  <1>. DEFINE outcome == IF worker.counted = {} THEN "success" ELSE "degraded"
              e == [store EXCEPT !.run[worker.run] = outcome]
              v == Idle(worker.run)
  <1>1. worker.pc = "outcome" /\ store' = e /\ worker' = v
    BY CalmRpc DEF FinishRun, At
  <1>2. v.pc = "idle" /\ v.spent = {} /\ v.calls = 0 /\ ~v.cut
    BY DEF Idle
  <1>. HIDE DEF outcome, v
  <1>3. e.version = store.version
    BY Typed DEF StoreRecord
  <1>. QED
    BY <1>1, <1>2, <1>3, FreshCalm DEF Working

LEMMA ClaimVersionCalm == Undisturbed /\ ClaimVersion => StaysCalm
  <1>. SUFFICES ASSUME Undisturbed, ClaimVersion PROVE StaysCalm
    OBVIOUS
  <1>. DEFINE s == worker.source
  <1>1. worker.pc = "claim" /\ s \in Sources /\ Src = s /\ worker.run \in Runs
    BY Typed DEF ClaimVersion, At, WorkerRecord, Src, Undisturbed, CollectionInv, Types
  <1>2. CASE Rpc(store, Goto("checkpoint"), Raised)
    <2>. DEFINE v == Goto("checkpoint")
    <2>1. store' = store /\ worker' = v
      BY <1>2, CalmRpc
    <2>2. v.pc = "checkpoint" /\ v.source = worker.source /\ v.spent = worker.spent /\ v.calls = worker.calls /\ ~v.cut
      BY Typed, GotoCalm DEF Labels
    <2>. HIDE DEF v
    <2>. QED
      BY <1>1, <2>1, <2>2, LabelCalm DEF Working, Arriving, Alike
  <1>3. ASSUME NEW p \in Pages, Head(s, p),
               Rpc(Claimed(s, p, worker.run), [worker EXCEPT !.pc = "read", !.version = p, !.stage = 0], Raised)
        PROVE  StaysCalm
    <2>. DEFINE old == store.version[s][p]
                rec == [old EXCEPT !.status = "processing", !.holder = worker.run, !.live = TRUE, !.attempts = old.attempts + 1]
                v == [worker EXCEPT !.pc = "read", !.version = p, !.stage = 0]
    <2>1. store' = Written(store, s, p, rec) /\ worker' = v
      <3>1. store' = Claimed(s, p, worker.run) /\ worker' = v
        BY <1>3, CalmRpc
      <3>. QED
        BY <3>1 DEF Claimed, Written
    <2>2. /\ v.pc = "read" /\ v.version = p /\ v.stage = 0 /\ v.source = s /\ v.run = worker.run
          /\ v.spent = worker.spent /\ v.calls = worker.calls /\ ~v.cut
      BY Typed DEF WorkerRecord
    <2>3. old \in VersionRecord
      BY <1>1, Typed DEF StoreRecord
    <2>4. /\ rec.status = "processing" /\ rec.holder = worker.run /\ rec.live
          /\ rec.cached = old.cached /\ rec.starved = old.starved /\ rec.rival = old.rival /\ rec.moved = old.moved
      BY <2>3 DEF VersionRecord
    <2>. HIDE DEF rec, v
    <2>5. /\ store'.version[s][p] = rec
          /\ \A t \in Sources, q \in Pages : ~(t = s /\ q = p) => store'.version[t][q] = store.version[t][q]
      BY <1>1, <2>1, Typed, VersionWritten
    <2>6. \A q \in Pages : store.version[s][q].status # "processing"
      BY <1>1 DEF Undisturbed, Calm, CalmClaim, Working
    <2>7. old.attempts < AttemptLimit /\ old.status \in {"pending_ai", "error"}
      BY <1>3, <2>6 DEF Head, Claimable
    <2>8. \A q \in Pages : q < p =>
            ~(store.version[s][q].attempts < AttemptLimit /\ store.version[s][q].status \in {"pending_ai", "error"})
      BY <1>3 DEF Head, Claimable
    <2>9. OthersAlike(store, store', s, p)
      BY <2>5 DEF OthersAlike, Alike
    <2>10. LET a == store.version[worker.source][p]
               b == store'.version[worker.source][p]
           IN  /\ a.attempts < AttemptLimit /\ a.status \in {"pending_ai", "error"}
               /\ b.status = "processing" /\ b.holder = worker.run /\ b.live
               /\ b.cached = a.cached /\ b.starved = a.starved /\ b.rival = a.rival /\ b.moved = a.moved
      BY <2>4, <2>5, <2>7, Zenon
    <2>11. /\ worker'.pc = "read" /\ worker'.version = p /\ worker'.stage = 0 /\ worker'.source = worker.source
           /\ worker'.run = worker.run /\ worker'.spent = worker.spent /\ worker'.calls = worker.calls /\ ~worker'.cut
      BY <2>1, <2>2
    <2>12. Calm(store', worker')
      BY <1>1, <2>8, <2>9, <2>10, <2>11, Typed, ClaimCalm DEF Undisturbed
    <2>. QED
      BY <2>12 DEF StaysCalm
  <1>. QED
    BY <1>1, <1>2, <1>3 DEF ClaimVersion

\* What the process has in hand.
LEMMA InHand ==
  ASSUME Undisturbed, worker.pc \in Working
  PROVE  /\ worker.version \in Pages /\ worker.source \in Sources /\ Src = worker.source
         /\ Version = store.version[worker.source][worker.version] /\ Version \in VersionRecord
         /\ Version.status = "processing" /\ Version.holder = worker.run /\ Version.live
         /\ Version.cached \in Nat /\ Version.starved \in Nat /\ Version.attempts \in 0 .. AttemptLimit
  <1>1. worker.pc \in WithVersion \cup {"error"} \/ worker.pc = "analysed"
    BY DEF Working, WithVersion
  <1>2. worker.pc \in WithVersion \cup {"error"}
    BY <1>1 DEF WithVersion
  <1>3. /\ worker.version \in Pages /\ worker.source \in Sources /\ Src = worker.source
        /\ Version = store.version[worker.source][worker.version] /\ Version \in VersionRecord
    BY <1>2, OwnVersion DEF Undisturbed, Src
  <1>4. Version.cached \in Nat /\ Version.starved \in Nat /\ Version.attempts \in 0 .. AttemptLimit
    BY <1>3, Constants DEF VersionRecord
  <1>5. Version.status = "processing" /\ Version.holder = worker.run /\ Version.live
    BY <1>3 DEF Undisturbed, Calm, CalmClaim
  <1>. QED
    BY <1>3, <1>4, <1>5

\* A step of the version that leaves it as it is, and asks the model nothing.
LEMMA StageCalm ==
  ASSUME Undisturbed, worker.pc \in Working, worker'.pc \in Working, store' = store,
         worker'.source = worker.source, worker'.version = worker.version, worker'.run = worker.run,
         worker'.spent = worker.spent, worker'.calls = worker.calls, ~worker'.cut,
         worker'.pc \in {"read", "ask", "store"} => worker.pc = "read" /\ worker'.pc # "store",
         ~Version.moved => /\ worker'.pc = "read" => worker'.stage <= Version.cached
                           /\ worker'.pc = "ask" => worker'.stage = Version.cached
  PROVE  StaysCalm
  <1>1. worker.version \in Pages /\ Version = store.version[worker.source][worker.version]
    BY InHand
  <1>2. CalmShare(store', worker')
    BY <1>1 DEF Undisturbed, Calm, CalmShare, InTurn
  <1>3. OthersAlike(store, store', worker.source, worker.version)
    BY DEF OthersAlike, Alike
  <1>4. worker'.spent = {} => worker'.calls = 0
    BY DEF Undisturbed, Calm, CalmBudget
  <1>5. Calm(store', worker')
    BY <1>1, <1>2, <1>3, <1>4, Typed, WorkCalm DEF Undisturbed
  <1>. QED
    BY <1>5 DEF StaysCalm

LEMMA ReadArtifactCalm == Undisturbed /\ ReadArtifact => StaysCalm
  <1>. SUFFICES ASSUME Undisturbed, ReadArtifact PROVE StaysCalm
    OBVIOUS
  <1>1. worker.pc = "read" /\ worker.pc \in Working
    BY DEF ReadArtifact, At, Working
  <1>2. worker.stage \in Nat /\ Version.cached \in Nat /\ (~Version.moved => worker.stage <= Version.cached)
    BY <1>1, InHand, Typed, Constants DEF WorkerRecord, Undisturbed, Calm, CalmShare, InTurn
  <1>3. CASE worker' = Goto("analysed") /\ UNCHANGED <<store, faults>>
    BY <1>1, <1>3, Typed, GotoCalm, StageCalm DEF Labels, Working
  <1>4. ASSUME NEW found \in Found(Version, worker.stage),
               Rpc(store, IF found THEN [worker EXCEPT !.stage = @ + 1] ELSE Goto("ask"), StageFails)
        PROVE  StaysCalm
    <2>. DEFINE v == [worker EXCEPT !.stage = @ + 1]
                u == Goto("ask")
    <2>1. store' = store /\ worker' = IF found THEN v ELSE u
      BY <1>4, CalmRpc
    <2>2. /\ v.pc = "read" /\ v.stage = worker.stage + 1 /\ v.source = worker.source /\ v.version = worker.version
          /\ v.run = worker.run /\ v.spent = worker.spent /\ v.calls = worker.calls /\ ~v.cut
      BY <1>1, Typed DEF WorkerRecord
    <2>3. /\ u.pc = "ask" /\ u.stage = worker.stage /\ u.source = worker.source /\ u.version = worker.version
          /\ u.run = worker.run /\ u.spent = worker.spent /\ u.calls = worker.calls /\ ~u.cut
      BY Typed, GotoCalm DEF Labels
    <2>. HIDE DEF u, v
    <2>4. ~Version.moved => (found <=> worker.stage < Version.cached)
      BY DEF Found
    <2>5. CASE found
      BY <1>1, <1>2, <2>1, <2>2, <2>4, <2>5, StageCalm DEF Working
    <2>6. CASE ~found
      BY <1>1, <1>2, <2>1, <2>3, <2>4, <2>6, StageCalm DEF Working
    <2>. QED
      BY <2>5, <2>6
  <1>. QED
    BY <1>3, <1>4 DEF ReadArtifact

LEMMA ConcludeCalm == Undisturbed /\ Conclude => StaysCalm
  <1>. SUFFICES ASSUME Undisturbed, Conclude PROVE StaysCalm
    OBVIOUS
  <1>. DEFINE v == Counted([worker EXCEPT !.pc = "defer", !.verdict = "deferred"])
              u == Goto("finish")
  <1>1. worker.pc = "analysed" /\ store' = store /\ worker' \in {u, v}
    BY NoFault DEF Conclude, At
  <1>2. /\ v.pc = "defer" /\ v.source = worker.source /\ v.version = worker.version
        /\ v.run = worker.run /\ v.spent = worker.spent /\ v.calls = worker.calls /\ ~v.cut
    BY Typed DEF Counted, WorkerRecord
  <1>3. /\ u.pc = "finish" /\ u.source = worker.source /\ u.version = worker.version
        /\ u.run = worker.run /\ u.spent = worker.spent /\ u.calls = worker.calls /\ ~u.cut
    BY Typed, GotoCalm DEF Labels
  <1>. HIDE DEF u, v
  <1>4. CASE worker' = u
    BY <1>1, <1>3, <1>4, StageCalm DEF Working
  <1>5. CASE worker' = v
    BY <1>1, <1>2, <1>5, StageCalm DEF Working
  <1>. QED
    BY <1>1, <1>4, <1>5

LEMMA JudgeIrrelevantCalm == Undisturbed /\ JudgeIrrelevant => StaysCalm
  <1>. SUFFICES ASSUME Undisturbed, JudgeIrrelevant PROVE StaysCalm
    OBVIOUS
  <1>. DEFINE u == Goto("finish")
  <1>1. worker.pc = "read" /\ store' = store /\ worker' = u
    BY DEF JudgeIrrelevant, At
  <1>2. /\ u.pc = "finish" /\ u.source = worker.source /\ u.version = worker.version
        /\ u.run = worker.run /\ u.spent = worker.spent /\ u.calls = worker.calls /\ ~u.cut
    BY Typed, GotoCalm DEF Labels
  <1>. HIDE DEF u
  <1>. QED
    BY <1>1, <1>2, StageCalm DEF Working

\* What an exhausted budget and a share are worth.
LEMMA HalfOfTheQuota ==
  ASSUME NEW x \in Int, MaxCalls - 1 <= 2 * x
  PROVE  Share <= x
  BY Constants DEF Share

LEMMA OneMoreShare == \A n, q \in Int : n * q = (n - 1) * q + q
  OBVIOUS

LEMMA ShareType == Share \in Nat
  BY Constants DEF Share

\* A version with room for another stage starves less often than the ceiling.
LEMMA StarvedOnceMore ==
  ASSUME NEW v \in VersionRecord, v.cached < Stages, v.starved < AttemptLimit,
         NEW calls \in Nat, MaxCalls - 1 <= calls,
         v.starved > 0 => calls <= 2 * (v.cached - (v.starved - 1) * Share)
  PROVE  v.starved + 1 < AttemptLimit /\ v.cached >= v.starved * Share
  <1>1. v.starved \in Nat /\ v.cached \in Nat
    BY Constants DEF VersionRecord
  <1>. DEFINE n == v.starved
              c == v.cached
              before == (n - 1) * Share
  <1>2. before \in Int /\ n * Share \in Int
    BY <1>1, ShareType
  <1>3. n * Share = before + Share
    BY <1>1, ShareType, OneMoreShare
  <1>. HIDE DEF n, c, before
  <1>4. c >= n * Share
    <2>1. CASE n = 0
      <3>1. n * Share = 0
        BY <2>1, ShareType
      <3>. QED
        BY <1>1, <3>1 DEF c
    <2>2. CASE n > 0
      <3>1. calls <= 2 * (c - before)
        BY <2>2 DEF n, c, before
      <3>2. c - before \in Int /\ MaxCalls - 1 <= 2 * (c - before)
        BY <1>1, <1>2, <3>1, Constants DEF c
      <3>3. Share <= c - before
        BY <3>2, HalfOfTheQuota
      <3>. QED
        BY <1>1, <1>2, <1>3, <3>3, ShareType DEF c
    <2>. QED
      BY <1>1, <2>1, <2>2 DEF n
  <1>5. n + 1 # AttemptLimit
    <2>. SUFFICES ASSUME n + 1 = AttemptLimit PROVE FALSE
      OBVIOUS
    <2>1. (AttemptLimit - 1) * Share >= Stages
      BY CollectionAssumption DEF Share
    <2>2. AttemptLimit - 1 = n
      BY <1>1 DEF n
    <2>3. n * Share >= Stages
      BY <2>1, <2>2
    <2>. QED
      BY <1>1, <1>2, <1>4, <2>3, Constants DEF c
  <1>. QED
    BY <1>1, <1>4, <1>5, Constants DEF n, c

\* An answered stage has paid for itself.
LEMMA ShareStored ==
  ASSUME NEW st, NEW w, NEW v, v.cached \in Nat, v.starved \in Nat, w.calls \in Nat,
         w.pc = "store", v = st.version[w.source][w.version],
         ~v.moved => w.stage = v.cached,
         \A s \in Sources, p \in Pages :
           LET u == st.version[s][p]
           IN  ~u.rival /\ ~u.moved => u.starved < AttemptLimit /\ (u.starved > 0 => u.cached >= (u.starved - 1) * Share),
         w.spent \subseteq {w.source} /\ ~v.rival /\ ~v.moved /\ v.starved > 0 =>
           w.calls <= 2 * (v.cached + 1 - (v.starved - 1) * Share)
  PROVE  CalmShare(st, w)
  <1>1. InTurn(st, w)
    BY DEF InTurn
  <1>. DEFINE paid == IF w.pc = "store" THEN v.cached + 1 ELSE v.cached
              before == (v.starved - 1) * Share
  <1>2. paid = v.cached + 1 /\ paid \in Nat /\ before \in Int
    BY ShareType
  <1>3. ~v.rival /\ ~v.moved /\ v.starved > 0 /\ w.spent \subseteq {w.source} => w.calls <= 2 * (v.cached + 1 - before)
    OBVIOUS
  <1>. HIDE DEF paid, before
  <1>4. ~v.rival /\ ~v.moved /\ v.starved > 0 /\ w.spent \subseteq {w.source} => w.calls <= 2 * (paid - before)
    BY <1>2, <1>3
  <1>. USE DEF paid, before
  <1>5. w.pc \in {"read", "ask", "store"} /\ w.spent \subseteq {w.source} =>
          LET u == st.version[w.source][w.version]
              answered == IF w.pc = "store" THEN u.cached + 1 ELSE u.cached
          IN  ~u.rival /\ ~u.moved /\ u.starved > 0 => w.calls <= 2 * (answered - (u.starved - 1) * Share)
    BY <1>4, Zenon
  <1>. QED
    BY <1>1, <1>5, Zenon DEF CalmShare, InTurn

LEMMA AskModelCalm == Undisturbed /\ AskModel => StaysCalm
  <1>. SUFFICES ASSUME Undisturbed, AskModel PROVE StaysCalm
    OBVIOUS
  <1>. DEFINE s == worker.source
              p == worker.version
              old == store.version[s][p]
  <1>1. worker.pc = "ask" /\ worker.pc \in Working /\ worker.calls \in Nat
    BY Typed, Constants DEF AskModel, At, Working, WorkerRecord
  <1>2. /\ s \in Sources /\ p \in Pages /\ Src = s /\ Version = old /\ old \in VersionRecord
        /\ old.cached \in Nat /\ old.starved \in Nat /\ old.attempts \in 0 .. AttemptLimit
    BY <1>1, InHand
  <1>3. (~old.moved => old.cached = worker.stage) /\ worker.stage < Stages
    BY <1>1 DEF Undisturbed, Calm, CalmShare, InTurn, CollectionInv, Types
  <1>4. PICK answer \in Answers(worker.calls) :
          LET after(w) == [w EXCEPT !.calls = answer[1], !.spent = IF answer[1] > worker.calls THEN @ \cup {Src} ELSE @]
          IN  /\ worker' = after(IF answer[2] = "valid" THEN Goto("store") ELSE StageFails)
              /\ store' = IF answer[2] = "exhausted" THEN Starved(Src, worker.version) ELSE store
              /\ IF answer[2] = "failed" THEN Fault ELSE UNCHANGED faults
    BY DEF AskModel
  <1>5. answer[2] # "failed"
    BY <1>4, NoFault
  <1>. DEFINE spent == IF answer[1] > worker.calls THEN worker.spent \cup {s} ELSE worker.spent
  <1>6. /\ worker'.calls = answer[1] /\ worker'.spent = spent /\ worker'.source = s /\ worker'.version = p
        /\ worker'.run = worker.run /\ ~worker'.cut
        /\ worker'.pc = (IF answer[2] = "valid" THEN "store" ELSE "error")
        /\ answer[2] = "valid" => worker'.stage = worker.stage
    <2>1. CASE answer[2] = "valid"
      <3>1. worker' = [Goto("store") EXCEPT !.calls = answer[1], !.spent = IF answer[1] > worker.calls THEN @ \cup {Src} ELSE @]
        BY <1>4, <2>1
      <3>2. [Goto("store") EXCEPT !.calls = answer[1], !.spent = IF answer[1] > worker.calls THEN @ \cup {Src} ELSE @]
            = [worker EXCEPT !.pc = "store", !.calls = answer[1], !.spent = spent]
        BY Typed DEF Goto, WorkerRecord, Src
      <3>3. worker' = [worker EXCEPT !.pc = "store", !.calls = answer[1], !.spent = spent]
        BY <3>1, <3>2
      <3>. HIDE DEF spent
      <3>. QED
        BY <2>1, <3>3, Typed DEF WorkerRecord
    <2>2. CASE answer[2] # "valid"
      <3>1. worker' = [StageFails EXCEPT !.calls = answer[1], !.spent = IF answer[1] > worker.calls THEN @ \cup {Src} ELSE @]
        BY <1>4, <2>2
      <3>2. [StageFails EXCEPT !.calls = answer[1], !.spent = IF answer[1] > worker.calls THEN @ \cup {Src} ELSE @]
            = [worker EXCEPT !.pc = "error", !.verdict = "failed", !.counted = @ \cup {worker.source},
                             !.calls = answer[1], !.spent = spent]
        BY Typed DEF StageFails, Counted, WorkerRecord, Src
      <3>3. worker' = [worker EXCEPT !.pc = "error", !.verdict = "failed", !.counted = @ \cup {worker.source},
                                     !.calls = answer[1], !.spent = spent]
        BY <3>1, <3>2
      <3>. HIDE DEF spent
      <3>. QED
        BY <2>2, <3>3, Typed DEF WorkerRecord
    <2>. QED
      BY <2>1, <2>2
  <1>7. /\ answer[2] = "valid" => answer[1] \in {worker.calls + 1, worker.calls + 2}
        /\ answer[2] = "exhausted" => answer[1] \in {worker.calls, worker.calls + 1} /\ MaxCalls - 1 <= worker.calls
        /\ answer[2] \in {"valid", "exhausted"}
    BY <1>1, <1>4, <1>5, Constants DEF Answers
  <1>8. worker'.spent \in {worker.spent, worker.spent \cup {worker.source}} /\ worker.spent \subseteq worker'.spent
    BY <1>6
  <1>9. worker'.spent = {} => worker'.calls = 0
    <2>1. ASSUME worker'.spent = {} PROVE worker'.calls = 0
      <3>1. worker.calls = 0 /\ ~(answer[1] > worker.calls)
        BY <1>6, <2>1 DEF Undisturbed, Calm, CalmBudget
      <3>. QED
        BY <1>1, <1>6, <1>7, <3>1
    <2>. QED
      BY <2>1
  <1>10. worker'.pc \in Working
    BY <1>6 DEF Working
  <1>11. worker.spent \subseteq {s} /\ ~old.rival /\ ~old.moved /\ old.starved > 0 =>
           worker.calls <= 2 * (old.cached - (old.starved - 1) * Share)
    BY <1>1 DEF Undisturbed, Calm, CalmShare, InTurn
  <1>12. \A t \in Sources, q \in Pages :
           LET v == store.version[t][q]
           IN  ~v.rival /\ ~v.moved => v.starved < AttemptLimit /\ (v.starved > 0 => v.cached >= (v.starved - 1) * Share)
    BY DEF Undisturbed, Calm, CalmShare, InTurn
  <1>. HIDE DEF spent
  <1>13. CASE answer[2] = "valid"
    <2>1. store' = store /\ worker'.pc = "store" /\ worker'.stage = worker.stage
      BY <1>4, <1>6, <1>13
    <2>2. ASSUME worker'.spent \subseteq {s}, ~old.rival /\ ~old.moved, old.starved > 0
          PROVE  worker'.calls <= 2 * (old.cached + 1 - (old.starved - 1) * Share)
      <3>. DEFINE before == (old.starved - 1) * Share
      <3>1. before \in Int
        BY <1>2, ShareType
      <3>2. worker.calls <= 2 * (old.cached - before)
        BY <1>8, <1>11, <2>2
      <3>3. worker'.calls \in {worker.calls + 1, worker.calls + 2}
        BY <1>6, <1>7, <1>13
      <3>. HIDE DEF before
      <3>4. worker'.calls <= 2 * (old.cached + 1 - before)
        BY <1>1, <1>2, <3>1, <3>2, <3>3
      <3>. QED
        BY <3>4 DEF before
    <2>3. CalmShare(store', worker')
      <3>1. store'.version[worker'.source][worker'.version] = old
        BY <1>6, <2>1
      <3>2. ~old.moved => worker'.stage = store'.version[worker'.source][worker'.version].cached
        BY <1>3, <2>1, <3>1
      <3>3. \A t \in Sources, q \in Pages :
              LET v == store'.version[t][q]
              IN  ~v.rival /\ ~v.moved => v.starved < AttemptLimit /\ (v.starved > 0 => v.cached >= (v.starved - 1) * Share)
        BY <1>12, <2>1, Zenon
      <3>4. worker'.source = s /\ worker'.calls \in Nat /\ old.cached \in Nat /\ old.starved \in Nat
        BY <1>2, <1>6, Typed, Constants DEF WorkerRecord
      <3>. HIDE DEF s, p, old
      <3>. QED
        BY <2>1, <2>2, <3>1, <3>2, <3>3, <3>4, ShareStored
    <2>4. OthersAlike(store, store', s, p)
      BY <2>1 DEF OthersAlike, Alike
    <2>5. Calm(store', worker')
      BY <1>1, <1>2, <1>6, <1>8, <1>9, <1>10, <2>1, <2>3, <2>4, Typed, WorkCalm DEF Undisturbed
    <2>. QED
      BY <2>5 DEF StaysCalm
  <1>14. CASE answer[2] = "exhausted"
    <2>. DEFINE rec == [old EXCEPT !.starved = old.starved + 1, !.rival = old.rival \/ worker.spent \ {s} # {}]
    <2>1. store' = Written(store, s, p, rec)
      BY <1>2, <1>4, <1>14 DEF Starved, Written
    <2>2. /\ rec.status = old.status /\ rec.holder = old.holder /\ rec.live = old.live
          /\ rec.cached = old.cached /\ rec.starved = old.starved + 1
          /\ rec.rival = (old.rival \/ worker.spent \ {s} # {}) /\ rec.moved = old.moved
      BY <1>2 DEF VersionRecord
    <2>. HIDE DEF rec
    <2>3. /\ store'.version[s][p] = rec
          /\ \A t \in Sources, q \in Pages : ~(t = s /\ q = p) => store'.version[t][q] = store.version[t][q]
      BY <1>2, <2>1, Typed, VersionWritten
    <2>4. ~rec.rival /\ ~rec.moved => rec.starved < AttemptLimit /\ (rec.starved > 0 => rec.cached >= (rec.starved - 1) * Share)
      <3>. SUFFICES ASSUME ~rec.rival /\ ~rec.moved PROVE rec.starved < AttemptLimit /\ rec.cached >= (rec.starved - 1) * Share
        OBVIOUS
      <3>1. ~old.rival /\ ~old.moved /\ worker.spent \subseteq {s}
        BY <2>2
      <3>2. old.starved < AttemptLimit
        BY <1>2, <1>12, <3>1
      <3>3. old.starved > 0 => worker.calls <= 2 * (old.cached - (old.starved - 1) * Share)
        BY <1>11, <3>1
      <3>4. old.starved + 1 < AttemptLimit /\ old.cached >= old.starved * Share
        BY <1>1, <1>2, <1>3, <1>7, <1>14, <3>1, <3>2, <3>3, StarvedOnceMore
      <3>5. rec.starved - 1 = old.starved
        BY <1>2, <2>2
      <3>. QED
        BY <2>2, <3>4, <3>5
    <2>5. CalmShare(store', worker')
      <3>1. worker'.pc = "error"
        BY <1>6, <1>14
      <3>2. ASSUME NEW t \in Sources, NEW q \in Pages, ~store'.version[t][q].rival /\ ~store'.version[t][q].moved
            PROVE  /\ store'.version[t][q].starved < AttemptLimit
                   /\ store'.version[t][q].starved > 0 =>
                        store'.version[t][q].cached >= (store'.version[t][q].starved - 1) * Share
        <4>1. CASE t = s /\ q = p
          BY <2>3, <2>4, <3>2, <4>1
        <4>2. CASE ~(t = s /\ q = p)
          BY <1>12, <2>3, <3>2, <4>2
        <4>. QED
          BY <4>1, <4>2
      <3>. QED
        BY <3>1, <3>2 DEF CalmShare, InTurn
    <2>6. OthersAlike(store, store', s, p)
      BY <2>3 DEF OthersAlike, Alike
    <2>7. LET a == store.version[worker.source][worker.version]
              b == store'.version[worker.source][worker.version]
          IN  b.status = a.status /\ b.holder = a.holder /\ b.live = a.live
      BY <2>2, <2>3, Zenon
    <2>8. Calm(store', worker')
      BY <1>1, <1>2, <1>6, <1>8, <1>9, <1>10, <2>5, <2>6, <2>7, Typed, WorkCalm DEF Undisturbed
    <2>. QED
      BY <2>8 DEF StaysCalm
  <1>. QED
    BY <1>7, <1>13, <1>14

LEMMA StoreArtifactCalm == Undisturbed /\ StoreArtifact => StaysCalm
  <1>. SUFFICES ASSUME Undisturbed, StoreArtifact PROVE StaysCalm
    OBVIOUS
  <1>. DEFINE s == worker.source
              p == worker.version
              old == store.version[s][p]
              rec == [old EXCEPT !.cached = worker.stage + 1]
              v == [worker EXCEPT !.pc = "read", !.stage = @ + 1]
  <1>1. worker.pc = "store" /\ worker.pc \in Working /\ worker.calls \in Nat /\ worker.stage \in Nat
    BY Typed, Constants DEF StoreArtifact, At, Working, WorkerRecord
  <1>2. /\ s \in Sources /\ p \in Pages /\ Src = s /\ old \in VersionRecord
        /\ old.cached \in Nat /\ old.starved \in Nat
    BY <1>1, InHand
  <1>3. ~old.moved => old.cached = worker.stage
    BY <1>1 DEF Undisturbed, Calm, CalmShare, InTurn
  <1>4. store' = Written(store, s, p, rec) /\ worker' = v
    <2>. DEFINE e == [store EXCEPT !.version[Src][worker.version].cached = worker.stage + 1]
    <2>1. store' = e /\ worker' = v
      BY CalmRpc DEF StoreArtifact
    <2>2. e = Written(store, s, p, rec)
      BY Zenon DEF Src, Written
    <2>. QED
      BY <2>1, <2>2
  <1>5. /\ rec.status = old.status /\ rec.holder = old.holder /\ rec.live = old.live
        /\ rec.cached = worker.stage + 1 /\ (~old.moved => rec.cached = old.cached + 1) /\ rec.starved = old.starved /\ rec.rival = old.rival /\ rec.moved = old.moved
    BY <1>2, <1>3 DEF VersionRecord
  <1>6. /\ v.pc = "read" /\ v.stage = worker.stage + 1 /\ v.source = s /\ v.version = p
        /\ v.run = worker.run /\ v.spent = worker.spent /\ v.calls = worker.calls /\ ~v.cut
    BY Typed DEF WorkerRecord
  <1>. HIDE DEF rec, v
  <1>7. /\ store'.version[s][p] = rec
        /\ \A t \in Sources, q \in Pages : ~(t = s /\ q = p) => store'.version[t][q] = store.version[t][q]
    BY <1>2, <1>4, Typed, VersionWritten
  <1>8. CalmShare(store', worker')
    <2>1. ASSUME NEW t \in Sources, NEW q \in Pages, ~store'.version[t][q].rival /\ ~store'.version[t][q].moved
          PROVE  /\ store'.version[t][q].starved < AttemptLimit
                 /\ store'.version[t][q].starved > 0 =>
                      store'.version[t][q].cached >= (store'.version[t][q].starved - 1) * Share
      <3>1. ~store.version[t][q].rival /\ ~store.version[t][q].moved /\ store'.version[t][q].starved = store.version[t][q].starved
        BY <1>5, <1>7, <2>1
      <3>2. /\ store.version[t][q].starved < AttemptLimit
            /\ store.version[t][q].starved > 0 => store.version[t][q].cached >= (store.version[t][q].starved - 1) * Share
        BY <3>1 DEF Undisturbed, Calm, CalmShare, InTurn
      <3>3. CASE t = s /\ q = p
        <4>1. (old.starved - 1) * Share \in Int
          BY <1>2, ShareType
        <4>2. old.starved > 0 => old.cached + 1 >= (old.starved - 1) * Share
          BY <1>2, <3>2, <3>3, <4>1
        <4>. QED
          BY <1>5, <1>7, <3>1, <3>2, <3>3, <4>2
      <3>4. CASE ~(t = s /\ q = p)
        BY <1>7, <3>2, <3>4
      <3>. QED
        BY <3>3, <3>4
    <2>2. worker'.stage = rec.cached /\ worker'.stage <= rec.cached
      <3>1. worker'.stage = rec.cached /\ worker'.stage \in Nat
        BY <1>1, <1>3, <1>4, <1>5, <1>6
      <3>. QED
        BY <3>1
    <2>3. worker'.spent \subseteq {s} /\ ~rec.rival /\ ~rec.moved /\ rec.starved > 0 =>
            worker'.calls <= 2 * (rec.cached - (rec.starved - 1) * Share)
      BY <1>1, <1>4, <1>5, <1>6 DEF Undisturbed, Calm, CalmShare, InTurn
    <2>. QED
      BY <1>4, <1>6, <1>7, <2>1, <2>2, <2>3 DEF CalmShare, InTurn
  <1>9. OthersAlike(store, store', s, p)
    BY <1>7 DEF OthersAlike, Alike
  <1>10. LET a == store.version[worker.source][worker.version]
             b == store'.version[worker.source][worker.version]
         IN  b.status = a.status /\ b.holder = a.holder /\ b.live = a.live
    BY <1>5, <1>7, Zenon
  <1>11. worker'.spent = {} => worker'.calls = 0
    BY <1>4, <1>6 DEF Undisturbed, Calm, CalmBudget
  <1>12. worker'.pc \in Working
    BY <1>4, <1>6 DEF Working
  <1>13. Calm(store', worker')
    BY <1>1, <1>2, <1>4, <1>6, <1>8, <1>9, <1>10, <1>11, <1>12, Typed, WorkCalm DEF Undisturbed
  <1>. QED
    BY <1>13 DEF StaysCalm

\* Closing the version in hand.
LEMMA ClosedCalm ==
  ASSUME Undisturbed, worker.pc \in Working, NEW status \in {"settled", "error", "pending_ai"}, NEW attempts,
         store' = Closed(Src, worker.version, status, attempts),
         worker'.pc = "checkpoint" \/ (worker'.pc = "claim" /\ status = "settled"),
         worker'.source = worker.source, worker'.spent = worker.spent, worker'.calls = worker.calls, ~worker'.cut
  PROVE  StaysCalm
  <1>. DEFINE s == worker.source
              p == worker.version
              old == store.version[s][p]
              rec == [old EXCEPT !.status = status, !.holder = Nobody, !.live = FALSE, !.attempts = attempts]
  <1>1. s \in Sources /\ p \in Pages /\ Src = s /\ old \in VersionRecord
    BY InHand
  <1>2. store' = Written(store, s, p, rec)
    BY <1>1 DEF Closed, Written
  <1>3. rec.status = status /\ rec.cached = old.cached /\ rec.starved = old.starved /\ rec.rival = old.rival /\ rec.moved = old.moved
    BY <1>1 DEF VersionRecord
  <1>. HIDE DEF rec
  <1>4. /\ store'.version[s][p] = rec
        /\ \A t \in Sources, q \in Pages : ~(t = s /\ q = p) => store'.version[t][q] = store.version[t][q]
    BY <1>1, <1>2, Typed, VersionWritten
  <1>5. OthersAlike(store, store', s, p)
    BY <1>4 DEF OthersAlike, Alike
  <1>6. LET a == store.version[worker.source][worker.version]
            b == store'.version[worker.source][worker.version]
        IN  /\ b.status \in {"settled", "error", "pending_ai"} /\ b.cached = a.cached
            /\ b.starved = a.starved /\ b.rival = a.rival /\ b.moved = a.moved
            /\ worker'.pc = "checkpoint" \/ (worker'.pc = "claim" /\ b.status = "settled")
    BY <1>3, <1>4, Zenon
  <1>7. Calm(store', worker')
    BY <1>1, <1>5, <1>6, Typed, CloseCalm DEF Undisturbed
  <1>. QED
    BY <1>7 DEF StaysCalm

LEMMA FinishVersionCalm == Undisturbed /\ FinishVersion => StaysCalm
  <1>. SUFFICES ASSUME Undisturbed, FinishVersion PROVE StaysCalm
    OBVIOUS
  <1>. DEFINE e == Closed(Src, worker.version, "settled", Version.attempts)
              v == Goto("claim")
  <1>1. worker.pc = "finish" /\ worker.pc \in Working
    BY DEF FinishVersion, At, Working
  <1>2. Owned(Src, worker.version)
    BY <1>1, InHand DEF Owned
  <1>3. store' = e /\ worker' = v
    BY <1>2, CalmRpc DEF FinishVersion
  <1>4. v.pc = "claim" /\ v.source = worker.source /\ v.spent = worker.spent /\ v.calls = worker.calls /\ ~v.cut
    BY Typed, GotoCalm DEF Labels
  <1>. HIDE DEF v
  <1>. QED
    BY <1>1, <1>3, <1>4, ClosedCalm

LEMMA FailVersionCalm == Undisturbed /\ FailVersion => StaysCalm
  <1>. SUFFICES ASSUME Undisturbed, FailVersion PROVE StaysCalm
    OBVIOUS
  <1>. DEFINE e == Closed(Src, worker.version, "error", Version.attempts)
              v == Goto("checkpoint")
  <1>1. worker.pc = "error" /\ worker.pc \in Working
    BY DEF FailVersion, At, Working
  <1>2. Owned(Src, worker.version)
    BY <1>1, InHand DEF Owned
  <1>3. store' = e /\ worker' = v
    BY <1>2, CalmRpc DEF FailVersion
  <1>4. v.pc = "checkpoint" /\ v.source = worker.source /\ v.spent = worker.spent /\ v.calls = worker.calls /\ ~v.cut
    BY Typed, GotoCalm DEF Labels
  <1>. HIDE DEF v
  <1>. QED
    BY <1>1, <1>3, <1>4, ClosedCalm

LEMMA DeferVersionCalm == Undisturbed /\ DeferVersion => StaysCalm
  <1>. SUFFICES ASSUME Undisturbed, DeferVersion PROVE StaysCalm
    OBVIOUS
  <1>. DEFINE e == Closed(Src, worker.version, "pending_ai", Version.attempts - 1)
              v == Goto("checkpoint")
  <1>1. worker.pc = "defer" /\ worker.pc \in Working
    BY DEF DeferVersion, At, Working
  <1>2. Owned(Src, worker.version) /\ Version.live
    BY <1>1, InHand DEF Owned
  <1>3. store' = e /\ worker' = v
    BY <1>2, CalmRpc DEF DeferVersion
  <1>4. v.pc = "checkpoint" /\ v.source = worker.source /\ v.spent = worker.spent /\ v.calls = worker.calls /\ ~v.cut
    BY Typed, GotoCalm DEF Labels
  <1>. HIDE DEF v
  <1>. QED
    BY <1>1, <1>3, <1>4, ClosedCalm

-----------------------------------------------------------------------------
(* The environment: time passes over what no run holds.                    *)

\* What the budget argument reads is the same afterwards.
LEMMA StillCalm ==
  ASSUME Undisturbed, worker' = worker,
         \A s \in Sources, p \in Pages : Alike(store.version[s][p], store'.version[s][p]),
         worker.pc \in Working =>
           /\ store'.version[worker.source][worker.version].holder = store.version[worker.source][worker.version].holder
           /\ store'.version[worker.source][worker.version].live
  PROVE  StaysCalm
  <1>1. worker.source \in Sources /\ (worker.pc \in Working => worker.version \in Pages)
    BY Typed, InHand DEF WorkerRecord
  <1>2. \A s \in Sources, p \in Pages : Dead(store'.version[s][p]) <=> Dead(store.version[s][p])
    BY AlikeDead
  <1>3. CalmClaim(store', worker')
    BY <1>1 DEF Undisturbed, Calm, CalmClaim, Alike
  <1>4. CalmOrder(store', worker')
    BY <1>1, <1>2 DEF Undisturbed, Calm, CalmOrder, Alike
  <1>5. CalmBudget(store', worker')
    BY <1>1, <1>2 DEF Undisturbed, Calm, CalmBudget, Alike
  <1>6. CalmShare(store', worker')
    <2>1. \A s \in Sources, p \in Pages :
            LET a == store.version[s][p]
                b == store'.version[s][p]
            IN  b.cached = a.cached /\ b.starved = a.starved /\ b.rival = a.rival /\ b.moved = a.moved
      BY Zenon DEF Alike
    <2>2. CalmShare(store, worker)
      BY DEF Undisturbed, Calm
    <2>. QED
      BY <1>1, <2>1, <2>2, SMTT(60) DEF CalmShare, InTurn, Working
  <1>. QED
    BY <1>3, <1>4, <1>5, <1>6 DEF Calm, StaysCalm

LEMMA LeaseLapsesCalm == ASSUME NEW s \in Sources PROVE Undisturbed /\ LeaseLapses(s) => StaysCalm
  <1>. SUFFICES ASSUME Undisturbed, LeaseLapses(s) PROVE StaysCalm
    OBVIOUS
  <1>1. worker' = worker /\ store'.version = store.version
    BY Typed DEF LeaseLapses, StoreRecord
  <1>2. worker.pc \in Working => store'.version[worker.source][worker.version].live
    BY <1>1, InHand
  <1>. QED
    BY <1>1, <1>2, StillCalm DEF Alike

LEMMA ClaimLapsesCalm == ASSUME NEW s \in Sources, NEW p \in Pages PROVE Undisturbed /\ ClaimLapses(s, p) => StaysCalm
  <1>. SUFFICES ASSUME Undisturbed, ClaimLapses(s, p) PROVE StaysCalm
    OBVIOUS
  <1>. DEFINE old == store.version[s][p]
              rec == [old EXCEPT !.live = FALSE]
  <1>1. worker' = worker /\ store' = Written(store, s, p, rec)
    BY DEF ClaimLapses, Written
  <1>2. worker.pc \in Working => ~(s = worker.source /\ p = worker.version)
    <2>. SUFFICES ASSUME worker.pc \in Working, s = worker.source, p = worker.version PROVE FALSE
      OBVIOUS
    <2>1. old.holder = worker.run /\ ~At("idle")
      BY InHand DEF At, Working
    <2>2. Fault
      BY <2>1 DEF ClaimLapses, Lapse
    <2>. QED
      BY <2>2, NoFault
  <1>3. old \in VersionRecord
    BY Typed DEF StoreRecord
  <1>4. /\ rec.status = old.status /\ rec.attempts = old.attempts /\ rec.cached = old.cached
        /\ rec.starved = old.starved /\ rec.rival = old.rival /\ rec.moved = old.moved
    BY <1>3 DEF VersionRecord
  <1>. HIDE DEF rec
  <1>5. /\ store'.version[s][p] = rec
        /\ \A t \in Sources, q \in Pages : ~(t = s /\ q = p) => store'.version[t][q] = store.version[t][q]
    BY <1>1, Typed, VersionWritten
  <1>6. ASSUME NEW t \in Sources, NEW q \in Pages PROVE Alike(store.version[t][q], store'.version[t][q])
    <2>1. CASE t = s /\ q = p
      BY <1>4, <1>5, <2>1 DEF Alike
    <2>2. CASE ~(t = s /\ q = p)
      BY <1>5, <2>2 DEF Alike
    <2>. QED
      BY <2>1, <2>2
  <1>7. ASSUME worker.pc \in Working
        PROVE  /\ store'.version[worker.source][worker.version].holder = store.version[worker.source][worker.version].holder
               /\ store'.version[worker.source][worker.version].live
    <2>1. store'.version[worker.source][worker.version] = store.version[worker.source][worker.version]
      BY <1>2, <1>5, <1>7, InHand
    <2>. QED
      BY <1>7, <2>1, InHand
  <1>. QED
    BY <1>1, <1>6, <1>7, StillCalm

\* A change of the candidates only takes the version out of the argument.
LEMMA CandidatesChangeCalm ==
  ASSUME NEW s \in Sources, NEW p \in Pages PROVE Undisturbed /\ CandidatesChange(s, p) => StaysCalm
  <1>. SUFFICES ASSUME Undisturbed, CandidatesChange(s, p) PROVE StaysCalm
    OBVIOUS
  <1>. DEFINE old == store.version[s][p]
              rec == [old EXCEPT !.moved = TRUE]
  <1>1. worker' = worker /\ store' = Written(store, s, p, rec)
    BY DEF CandidatesChange, Written
  <1>2. old \in VersionRecord
    BY Typed DEF StoreRecord
  <1>3. /\ rec.status = old.status /\ rec.attempts = old.attempts /\ rec.starved = old.starved
        /\ rec.holder = old.holder /\ rec.live = old.live /\ rec.moved
    BY <1>2 DEF VersionRecord
  <1>. HIDE DEF rec
  <1>4. /\ store'.version[s][p] = rec
        /\ \A t \in Sources, q \in Pages : ~(t = s /\ q = p) => store'.version[t][q] = store.version[t][q]
    BY <1>1, Typed, VersionWritten
  <1>5. \A t \in Sources, q \in Pages :
          LET a == store.version[t][q]
              b == store'.version[t][q]
          IN  /\ b.status = a.status /\ b.attempts = a.attempts /\ b.starved = a.starved
              /\ b.holder = a.holder /\ b.live = a.live
    BY <1>3, <1>4, Zenon
  <1>6. \A t \in Sources, q \in Pages : ~store'.version[t][q].moved => store'.version[t][q] = store.version[t][q]
    BY <1>3, <1>4
  <1>7. \A t \in Sources, q \in Pages : Dead(store'.version[t][q]) <=> Dead(store.version[t][q])
    BY <1>5 DEF Dead
  <1>8. worker.source \in Sources /\ (worker.pc \in Working => worker.version \in Pages)
    BY Typed, InHand DEF WorkerRecord
  <1>9. CalmClaim(store', worker')
    BY <1>1, <1>5, <1>8, SMTT(60) DEF Undisturbed, Calm, CalmClaim
  <1>10. CalmOrder(store', worker')
    BY <1>1, <1>5, <1>7, <1>8 DEF Undisturbed, Calm, CalmOrder
  <1>11. CalmBudget(store', worker')
    BY <1>1, <1>5, <1>7, <1>8 DEF Undisturbed, Calm, CalmBudget
  <1>12. CalmShare(store', worker')
    BY <1>1, <1>6, <1>8 DEF Undisturbed, Calm, CalmShare, InTurn, Working
  <1>. QED
    BY <1>9, <1>10, <1>11, <1>12 DEF Calm, StaysCalm

-----------------------------------------------------------------------------
(* The theorem.                                                            *)

LEMMA NextCalmly == Undisturbed /\ [Next]_vars => StaysCalm
  <1>. SUFFICES ASSUME Undisturbed, [Next]_vars PROVE StaysCalm
    OBVIOUS
  <1>1. CASE StartRun \/ SyncSource \/ AcquireLease \/ Discover \/ CollectPage \/ CollectEnds
    BY <1>1, StartRunCalm, SyncSourceCalm, AcquireLeaseCalm, DiscoverCalm, CollectPageCalm, CollectEndsCalm
  <1>2. CASE ClaimVersion \/ ReadArtifact \/ AskModel \/ StoreArtifact \/ Conclude \/ JudgeIrrelevant
    BY <1>2, ClaimVersionCalm, ReadArtifactCalm, AskModelCalm, StoreArtifactCalm, ConcludeCalm, JudgeIrrelevantCalm
  <1>3. CASE FinishVersion \/ FailVersion \/ DeferVersion \/ CheckpointSource \/ ReleaseLease \/ FinishRun
    BY <1>3, FinishVersionCalm, FailVersionCalm, DeferVersionCalm, CheckpointSourceCalm, ReleaseLeaseCalm, FinishRunCalm
  <1>4. ~CheckpointFailure
    BY DEF Undisturbed, Calm, CalmClaim, CheckpointFailure, At
  <1>5. ~ExhaustRequests /\ ~Crash
    BY NoFault DEF ExhaustRequests, Crash
  <1>6. ASSUME NEW s \in Sources, LeaseLapses(s) \/ \E p \in Pages : ClaimLapses(s, p) \/ CandidatesChange(s, p)
        PROVE  StaysCalm
    BY <1>6, LeaseLapsesCalm, ClaimLapsesCalm, CandidatesChangeCalm
  <1>7. CASE UNCHANGED vars
    BY <1>7 DEF vars, Undisturbed, StaysCalm
  <1>. QED
    BY <1>1, <1>2, <1>3, <1>4, <1>5, <1>6, <1>7 DEF Next, Step

QuotaInv == faults = 0 => Calm(store, worker)

LEMMA InitCalm == Init => Calm(store, worker)
  <1>. SUFFICES ASSUME Init PROVE Calm(store, worker)
    OBVIOUS
  <1>1. worker.pc = "idle" /\ ~worker.cut /\ worker.spent = {} /\ worker.calls = 0
    BY DEF Init, Idle
  <1>2. \A s \in Sources, p \in Pages : store.version[s][p] = NoVersion
    BY DEF Init, InitStore
  <1>3. NoVersion.status = "absent" /\ NoVersion.starved = 0 /\ AttemptLimit > 0
    BY Constants DEF NoVersion
  <1>4. CalmClaim(store, worker)
    BY <1>1, <1>2, <1>3 DEF CalmClaim, Working
  <1>5. CalmOrder(store, worker)
    BY <1>1, <1>2, <1>3 DEF CalmOrder, Working
  <1>6. CalmBudget(store, worker)
    BY <1>1 DEF CalmBudget, Arriving
  <1>7. CalmShare(store, worker)
    BY <1>1, <1>2, <1>3 DEF CalmShare, InTurn
  <1>. QED
    BY <1>4, <1>5, <1>6, <1>7 DEF Calm

LEMMA FaultsStay == FaultsAreBounded /\ FaultsAreBounded' /\ [Next]_vars /\ faults' = 0 => faults = 0
  <1>1. Step => UNCHANGED faults \/ Fault
    BY DEF Step, Rpc, Refused, StartRun, SyncSource, AcquireLease, Discover, CollectPage, CollectEnds, ClaimVersion, ReadArtifact,
           AskModel, StoreArtifact, Conclude, JudgeIrrelevant, FinishVersion, FailVersion, DeferVersion, CheckpointSource,
           CheckpointFailure, ReleaseLease, FinishRun
  <1>2. [Next]_vars => UNCHANGED faults \/ Fault
    BY <1>1 DEF Next, ExhaustRequests, Crash, LeaseLapses, ClaimLapses, CandidatesChange, Lapse, vars
  <1>. QED
    BY <1>2, Constants DEF FaultsAreBounded, Fault

\* A version whose attempts all ended on the exhausted call budget of a run
\* (max_calls of http_provider.py; the attempts are claim_source_version's)
\* shared a budget with another source, lost answered comparisons to a change of
\* its match candidates, or a run was disturbed: the quota alone loses nothing.
THEOREM QuotaAloneLosesNothingTheorem == Spec => []QuotaAloneLosesNothing
  <1>1. Init => QuotaInv
    BY InitCalm DEF QuotaInv
  <1>2. /\ QuotaInv /\ FaultsAreBounded /\ FaultsAreBounded' /\ CollectionInv(store, worker) /\ CollectionInv(store, worker)'
        /\ [Next]_vars
        => QuotaInv'
    BY FaultsStay, NextCalmly DEF QuotaInv, Undisturbed, StaysCalm
  <1>3. QuotaInv /\ FaultsAreBounded /\ CollectionInv(store, worker) => QuotaAloneLosesNothing
    <2>. SUFFICES ASSUME QuotaInv, FaultsAreBounded, CollectionInv(store, worker),
                         NEW s \in Sources, NEW p \in Pages, store.version[s][p].starved >= AttemptLimit, ~(faults > 0)
                  PROVE  store.version[s][p].rival \/ store.version[s][p].moved
      BY DEF QuotaAloneLosesNothing
    <2>1. CalmShare(store, worker)
      BY Constants DEF FaultsAreBounded, QuotaInv, Calm
    <2>2. store.version[s][p] \in VersionRecord
      BY DEF CollectionInv, Types, StoreRecord
    <2>. QED
      BY <2>1, <2>2, Constants DEF CalmShare, InTurn, VersionRecord
  <1>. QED
    BY <1>1, <1>2, <1>3, CollectionInvariant, FaultsBounded, PTL DEF Spec
=============================================================================
