---------------------------- MODULE IntakeProofs ----------------------------
(* Theorems about Intake: whatever runs overlap, die or lose a reply, and     *)
(* whatever the reviewer decides meanwhile, for any number of versions,       *)
(* patterns and runs.                                                         *)
EXTENDS Intake, TLAPS

-----------------------------------------------------------------------------
(* The invariant.  The desk is what the reviewer sees: patterns, submissions  *)
(* and publication changes.                                                   *)

\* A review item, from the moment it is submitted.
ItemInv ==
    \A s \in Submissions :
        LET x == submissions[s] IN
        /\ x.status = "none" => x = NoSubmission
        /\ x.status # "none" => x.pattern \in Patterns /\ x.base_row <= patterns[x.pattern].row
        /\ Open(s) => x.revision = "draft" /\ x.evidence = "proposed"
        /\ x.status = "approved" => x.revision = "approved" /\ x.evidence = "accepted" /\ x.policies > 0

\* A pattern that a version founds does not exist before its submission, and has
\* its own draft and no other until that is approved.
FoundingInv ==
    \A v \in Versions :
        LET x == submissions[New(v)] IN
        /\ x.status = "none" =>
             /\ patterns[v].lifecycle = "none" /\ patterns[v].row = 0
             /\ patterns[v].draft = Nobody /\ changes[v].action = "none"
        /\ x.status # "none" => x.pattern = v /\ patterns[v].lifecycle # "none"
        /\ x.status \notin {"none", "approved"} => patterns[v].draft = New(v)
        /\ x.status = "approved" <=> patterns[v].latest # Nobody

\* Only an approved pattern is updated.
UpdateInv ==
    \A v \in Versions : Committed(v) =>
        LET x == submissions[Update(v)] IN
        /\ patterns[x.pattern].latest # Nobody
        /\ x.status = "rejected" => x.revision = "rejected" /\ x.evidence = "rejected"
        /\ x.status = "needs_evidence" => patterns[x.pattern].lifecycle \in {"evidence_pending", "archived"}

\* Rows only grow: what was open when a pattern was archived or taken down is
\* below its row version.
RowInv ==
    /\ \A p \in Patterns : changes[p].row <= patterns[p].row
    /\ \A p \in Existing : patterns[p].latest # Nobody
    /\ \A p \in Patterns : patterns[p].latest # Nobody => patterns[p].lifecycle # "none"
    /\ \A s \in Submissions :
         Open(s) /\ patterns[PatternOf(s)].lifecycle = "archived" => submissions[s].base_row < patterns[PatternOf(s)].row

DeskInv == ItemInv /\ FoundingInv /\ UpdateInv /\ RowInv /\ OneOpenDraft /\ ApprovedIsBacked

Recorded(v) ==
    \/ \E k \in Kinds : submissions[<<v, k>>].policies > 0
    \/ submissions[Update(v)].status = "rejected"

\* What a run has in hand at each label.
InHand(r) ==
    LET x == runs[r] IN
    /\ x.pc \notin {"idle", "collect", "loop", "leave"} => x.version \in Versions
    /\ x.pc \in {"submit", "policy"} => x.kind \in Kinds
    /\ x.pc = "conflict" \/ (x.pc = "submit" /\ x.kind = "pattern_update")
         => x.pattern \in Patterns /\ x.base \in Revisions
    /\ x.pc = "finish" => Recorded(x.version)

RunInv == \A r \in Runs : InHand(r)

\* A version past the ceiling has a committed update.
AttemptInv ==
    \A v \in Versions :
        /\ versions[v].status = "absent" => versions[v].attempts = 0
        /\ versions[v].attempts <= AttemptLimit \/ Committed(v)

QueueInv == RunInv /\ AttemptInv /\ DeferredStaysClaimable /\ ProcessedIsRecorded

IntakeInv == IntakeTypeOK /\ DeskInv /\ QueueInv

-----------------------------------------------------------------------------
(* Keys.                                                                      *)
LEMMA Keys ==
    /\ \A v \in Versions : New(v) \in Submissions /\ Update(v) \in Submissions /\ v \in Patterns
    /\ \A v, w : /\ New(v) = New(w) => v = w
                 /\ Update(v) = Update(w) => v = w
                 /\ New(v) # Update(w)
    /\ \A s \in Submissions :
         /\ s[1] \in Versions
         /\ \/ s[2] = "new_pattern" /\ s = New(s[1])
            \/ s[2] = "pattern_update" /\ s = Update(s[1])
    /\ Submissions \subseteq Revisions
    BY DEF New, Update, Submissions, Kinds, Patterns, Revisions

LEMMA Nulls == Nobody \notin Patterns /\ Nobody \notin Submissions /\ Nobody \notin Runs /\ Nobody \notin Revisions
    BY IntakeAssumption DEF Revisions

LEMMA BaseIsNoItem == \A p \in Existing : <<p, "base">> \in Revisions \ Submissions
    BY IntakeAssumption DEF Revisions, Submissions

\* The fields of the desk.
PatternRow == [lifecycle : {"none", "evidence_pending", "review_ready", "rejected", "archived"},
               row : 0 .. RowCap + 1, latest : Revisions \cup {Nobody}, draft : Submissions \cup {Nobody}]

ItemRow == [status : {"none", "pending", "needs_evidence", "approved", "rejected"},
            pattern : Patterns \cup {Nobody}, base_row : 0 .. RowCap + 1,
            revision : {"none", "draft", "approved", "rejected"},
            evidence : {"none", "proposed", "accepted", "rejected"}, policies : Nat]

ChangeRow == [action : {"none", "publish", "unpublish"}, row : 0 .. RowCap + 1]

DeskTypes ==
    /\ patterns \in [Patterns -> PatternRow]
    /\ submissions \in [Submissions -> ItemRow]
    /\ changes \in [Patterns -> ChangeRow]

\* A step of the desk at one item and one pattern.
Touches(s, p) ==
    /\ \A t \in Submissions : t # s => submissions'[t] = submissions[t]
    /\ \A q \in Patterns : q # p => patterns'[q] = patterns[q] /\ changes'[q] = changes[q]

LEMMA OpenItem ==
    ASSUME DeskTypes, DeskInv, NEW s \in Submissions, Open(s)
    PROVE  /\ PatternOf(s) \in Patterns /\ patterns[PatternOf(s)].draft = s
           /\ s = New(s[1]) => PatternOf(s) = s[1] /\ patterns[PatternOf(s)].latest = Nobody
           /\ s = Update(s[1]) => patterns[PatternOf(s)].latest # Nobody
    <1>1. submissions[s].status # "none" /\ PatternOf(s) \in Patterns
        BY DEF Open, OpenStatus, DeskInv, ItemInv, PatternOf
    <1>2. CASE s = New(s[1])
        BY <1>1, <1>2, Keys DEF Open, OpenStatus, DeskInv, FoundingInv, PatternOf
    <1>3. CASE s = Update(s[1])
        BY <1>1, <1>3, Keys DEF Open, OpenStatus, DeskInv, UpdateInv, Committed, PatternOf, OneOpenDraft
    <1>. QED
        BY <1>1, <1>2, <1>3, Keys

-----------------------------------------------------------------------------
(* A step at one item and its pattern keeps the invariant of the desk if the  *)
(* two still fit each other.                                                  *)

Fits(s, p) ==
    LET x == submissions[s]
        y == patterns[p] IN
    /\ x.pattern = p /\ x.status # "none" /\ x.base_row <= y.row
    /\ changes[p].row <= y.row /\ y.lifecycle # "none" /\ y.draft \in {s, Nobody}
    /\ Open(s) => /\ x.revision = "draft" /\ x.evidence = "proposed" /\ y.draft = s
                  /\ y.lifecycle = "archived" => x.base_row < y.row
    /\ x.status = "approved" => x.revision = "approved" /\ x.evidence = "accepted" /\ x.policies > 0
    /\ y.latest = s => x.status = "approved"
    /\ s = New(s[1]) => /\ p = s[1] /\ (x.status = "approved" <=> y.latest # Nobody)
                        /\ x.status # "approved" => y.draft = s
    /\ s = Update(s[1]) => /\ y.latest # Nobody /\ (~Open(s) => y.draft = Nobody)
                           /\ x.status = "rejected" => x.revision = "rejected" /\ x.evidence = "rejected"
                           /\ x.status = "needs_evidence" => y.lifecycle \in {"evidence_pending", "archived"}

\* What the step found: an open item, or a new one for which the place is free.
Free(s, p) ==
    \/ Open(s) /\ PatternOf(s) = p
    \/ submissions[s].status = "none" /\ s = New(s[1])
    \/ submissions[s].status = "none" /\ s = Update(s[1]) /\ patterns[p].draft = Nobody /\ patterns[p].latest # Nobody

LEMMA ItemStep ==
    ASSUME DeskTypes, DeskTypes', DeskInv, NEW s \in Submissions, NEW p \in Patterns,
           Touches(s, p), Free(s, p), Fits(s, p)',
           patterns'[p].row >= patterns[p].row, patterns'[p].latest \in {patterns[p].latest, s}
    PROVE  DeskInv'
    <1>1. /\ patterns[p].draft \in {s, Nobody}
          /\ s = Update(s[1]) => patterns[p].latest # Nobody
          /\ submissions[s].status # "none" => PatternOf(s) = p
        <2>1. CASE Open(s) /\ PatternOf(s) = p
            BY <2>1, OpenItem
        <2>2. CASE submissions[s].status = "none" /\ s = New(s[1])
            BY <2>2, Keys DEF Fits, DeskInv, FoundingInv
        <2>. QED
            BY <2>1, <2>2 DEF Free
    <1>2. \A t \in Submissions : t # s /\ Open(t) => PatternOf(t) # p
        BY <1>1, OpenItem, Nulls
    <1>3. \A q \in Patterns : patterns'[q].row >= patterns[q].row
        BY DEF Touches, DeskTypes, PatternRow
    <1>4. \A t \in Submissions : t # s => submissions'[t] = submissions[t] /\ (Open(t)' <=> Open(t)) /\ PatternOf(t)' = PatternOf(t)
        BY DEF Touches, Open, PatternOf
    <1>5. ItemInv'
        <2>. SUFFICES ASSUME NEW t \in Submissions
                      PROVE  /\ submissions'[t].status = "none" => submissions'[t] = NoSubmission
                             /\ submissions'[t].status # "none" =>
                                  submissions'[t].pattern \in Patterns /\ submissions'[t].base_row <= patterns'[submissions'[t].pattern].row
                             /\ Open(t)' => submissions'[t].revision = "draft" /\ submissions'[t].evidence = "proposed"
                             /\ submissions'[t].status = "approved" =>
                                  submissions'[t].revision = "approved" /\ submissions'[t].evidence = "accepted" /\ submissions'[t].policies > 0
            BY DEF ItemInv
        <2>1. CASE t = s
            BY <2>1 DEF Fits
        <2>2. CASE t # s
            BY <1>3, <1>4, <2>2 DEF DeskInv, ItemInv, DeskTypes, PatternRow, ItemRow
        <2>. QED
            BY <2>1, <2>2
    <1>6. FoundingInv'
        <2>. SUFFICES ASSUME NEW v \in Versions
                      PROVE  /\ submissions'[New(v)].status = "none" =>
                                /\ patterns'[v].lifecycle = "none" /\ patterns'[v].row = 0
                                /\ patterns'[v].draft = Nobody /\ changes'[v].action = "none"
                             /\ submissions'[New(v)].status # "none" =>
                                  submissions'[New(v)].pattern = v /\ patterns'[v].lifecycle # "none"
                             /\ submissions'[New(v)].status \notin {"none", "approved"} => patterns'[v].draft = New(v)
                             /\ submissions'[New(v)].status = "approved" <=> patterns'[v].latest # Nobody
            BY DEF FoundingInv
        <2>1. CASE s = New(v)
            BY <2>1, Keys DEF Fits
        <2>2. CASE s # New(v) /\ p = v
            <3>1. s = Update(s[1]) /\ patterns[v].latest # Nobody /\ submissions'[New(v)] = submissions[New(v)]
                BY <1>1, <1>4, <2>2, Keys DEF Fits
            <3>. QED
                BY <2>2, <3>1, Nulls DEF DeskInv, FoundingInv, Fits
        <2>3. CASE s # New(v) /\ p # v
            BY <1>4, <2>3, Keys DEF DeskInv, FoundingInv, Touches
        <2>. QED
            BY <2>1, <2>2, <2>3
    <1>7. UpdateInv'
        <2>. SUFFICES ASSUME NEW v \in Versions, Committed(v)'
                      PROVE  /\ patterns'[submissions'[Update(v)].pattern].latest # Nobody
                             /\ submissions'[Update(v)].status = "rejected" =>
                                  submissions'[Update(v)].revision = "rejected" /\ submissions'[Update(v)].evidence = "rejected"
                             /\ submissions'[Update(v)].status = "needs_evidence" =>
                                  patterns'[submissions'[Update(v)].pattern].lifecycle \in {"evidence_pending", "archived"}
            BY DEF UpdateInv
        <2>1. CASE s = Update(v)
            BY <2>1, Keys DEF Fits
        <2>2. CASE s # Update(v)
            <3>1. submissions'[Update(v)] = submissions[Update(v)] /\ Committed(v)
                BY <1>4, <2>2, Keys DEF Committed
            <3>2. submissions[Update(v)].pattern \in Patterns
                BY <3>1, Keys DEF DeskInv, ItemInv, Committed
            <3>3. CASE submissions[Update(v)].pattern # p
                BY <3>1, <3>2, <3>3 DEF DeskInv, UpdateInv, Touches
            <3>4. CASE submissions[Update(v)].pattern = p
                <4>1. ~Open(Update(v))
                    BY <1>2, <2>2, <3>4, Keys DEF PatternOf
                <4>. QED
                    BY <3>1, <3>4, <4>1, Nulls DEF DeskInv, UpdateInv, Open, OpenStatus
            <3>. QED
                BY <3>3, <3>4
        <2>. QED
            BY <2>1, <2>2
    <1>8. RowInv'
        <2>1. /\ \A q \in Patterns : changes'[q].row <= patterns'[q].row
              /\ \A q \in Existing : patterns'[q].latest # Nobody
              /\ \A q \in Patterns : patterns'[q].latest # Nobody => patterns'[q].lifecycle # "none"
            BY Nulls DEF DeskInv, RowInv, Touches, DeskTypes, PatternRow, Patterns, Fits
        <2>2. ASSUME NEW t \in Submissions, Open(t)', patterns'[PatternOf(t)'].lifecycle = "archived"
              PROVE  submissions'[t].base_row < patterns'[PatternOf(t)'].row
            <3>1. CASE t = s
                BY <2>2, <3>1 DEF Fits, PatternOf
            <3>2. CASE t # s
                BY <1>2, <1>4, <2>2, <3>2, OpenItem DEF DeskInv, RowInv, Touches
            <3>. QED
                BY <3>1, <3>2
        <2>. QED
            BY <2>1, <2>2 DEF RowInv
    <1>9. OneOpenDraft'
        <2>. SUFFICES ASSUME NEW v \in Versions
                      PROVE  /\ Open(Update(v))' => patterns'[PatternOf(Update(v))'].draft = Update(v)
                             /\ \A q \in Patterns : patterns'[q].latest # Nobody /\ patterns'[q].draft = Update(v)
                                  => Open(Update(v))' /\ PatternOf(Update(v))' = q
            BY DEF OneOpenDraft
        <2>1. ASSUME Open(Update(v))' PROVE patterns'[PatternOf(Update(v))'].draft = Update(v)
            <3>1. CASE s = Update(v)
                BY <2>1, <3>1 DEF Fits, PatternOf
            <3>2. CASE s # Update(v)
                BY <1>2, <1>4, <2>1, <3>2, OpenItem, Keys DEF Touches
            <3>. QED
                BY <3>1, <3>2
        <2>2. ASSUME NEW q \in Patterns, patterns'[q].latest # Nobody, patterns'[q].draft = Update(v)
              PROVE  Open(Update(v))' /\ PatternOf(Update(v))' = q
            <3>1. CASE q = p
                BY <2>2, <3>1, Keys, Nulls DEF Fits, PatternOf
            <3>2. CASE q # p
                <4>1. Open(Update(v)) /\ PatternOf(Update(v)) = q
                    BY <2>2, <3>2 DEF DeskInv, OneOpenDraft, Touches
                <4>2. Update(v) # s
                    BY <1>1, <3>2, <4>1 DEF Open, OpenStatus
                <4>. QED
                    BY <1>4, <4>1, <4>2, Keys
            <3>. QED
                BY <3>1, <3>2
        <2>. QED
            BY <2>1, <2>2
    <1>10. ApprovedIsBacked'
        <2>. SUFFICES ASSUME NEW q \in Patterns, patterns'[q].latest \in Submissions
                      PROVE  /\ submissions'[patterns'[q].latest].pattern = q
                             /\ submissions'[patterns'[q].latest].status = "approved"
                             /\ submissions'[patterns'[q].latest].revision = "approved"
                             /\ submissions'[patterns'[q].latest].evidence = "accepted"
                             /\ submissions'[patterns'[q].latest].policies > 0
            BY DEF ApprovedIsBacked
        <2>1. CASE q = p /\ patterns'[q].latest = s
            BY <2>1 DEF Fits
        <2>2. CASE ~(q = p /\ patterns'[q].latest = s)
            <3>1. patterns'[q].latest = patterns[q].latest
                BY <2>2 DEF Touches
            <3>2. /\ submissions[patterns[q].latest].pattern = q
                  /\ submissions[patterns[q].latest].status = "approved"
                  /\ submissions[patterns[q].latest].revision = "approved"
                  /\ submissions[patterns[q].latest].evidence = "accepted"
                  /\ submissions[patterns[q].latest].policies > 0
                BY <3>1 DEF DeskInv, ApprovedIsBacked
            <3>3. patterns[q].latest # s
                BY <3>2 DEF Free, Open, OpenStatus
            <3>. QED
                BY <1>4, <3>1, <3>2, <3>3
        <2>. QED
            BY <2>1, <2>2
    <1>. QED
        BY <1>5, <1>6, <1>7, <1>8, <1>9, <1>10 DEF DeskInv

-----------------------------------------------------------------------------
(* The reviewer's decisions.                                                  *)

\* What an open item finds.
LEMMA OpenFits ==
    ASSUME DeskTypes, DeskInv, NEW s \in Submissions, NEW p \in Patterns, Open(s), PatternOf(s) = p
    PROVE  /\ Free(s, p) /\ Fits(s, p)
           /\ patterns[p].row \in Nat /\ submissions[s].base_row \in Nat /\ changes[p].row \in Nat
    <1>1. /\ submissions[s].status \in {"pending", "needs_evidence"} /\ submissions[s].pattern = p
          /\ patterns[p].draft = s
          /\ s = New(s[1]) => p = s[1] /\ patterns[p].latest = Nobody
          /\ s = Update(s[1]) => patterns[p].latest # Nobody
        BY OpenItem DEF Open, OpenStatus, PatternOf
    <1>2. patterns[p].row \in Nat /\ submissions[s].base_row \in Nat /\ changes[p].row \in Nat
        BY DEF DeskTypes, PatternRow, ItemRow, ChangeRow
    <1>3. /\ submissions[s].base_row <= patterns[p].row /\ changes[p].row <= patterns[p].row
          /\ submissions[s].revision = "draft" /\ submissions[s].evidence = "proposed"
          /\ patterns[p].lifecycle = "archived" => submissions[s].base_row < patterns[p].row
        BY <1>1 DEF DeskInv, ItemInv, RowInv, PatternOf
    <1>4. patterns[p].latest # s
        BY <1>1 DEF DeskInv, ApprovedIsBacked
    <1>5. patterns[p].lifecycle # "none"
        BY <1>1, Keys DEF DeskInv, FoundingInv, RowInv
    <1>6. s = Update(s[1]) /\ submissions[s].status = "needs_evidence" => patterns[p].lifecycle \in {"evidence_pending", "archived"}
        BY <1>1, Keys DEF DeskInv, UpdateInv, Committed
    <1>. QED
        BY <1>1, <1>2, <1>3, <1>4, <1>5, <1>6 DEF Free, Fits, Open, OpenStatus, PatternOf

LEMMA ApproveKeeps ==
    ASSUME DeskTypes, DeskTypes', DeskInv, NEW s \in Submissions, Approve(s)
    PROVE  DeskInv'
    <1>1. Open(s) /\ submissions[s].policies > 0 /\ submissions[s].base_row = patterns[PatternOf(s)].row
        BY DEF Approve, Approvable
    <1>2. PICK p \in Patterns : p = PatternOf(s)
        BY <1>1, OpenItem
    <1>3. /\ Free(s, p) /\ Fits(s, p)
          /\ patterns[p].row \in Nat /\ submissions[s].base_row \in Nat /\ changes[p].row \in Nat
        BY <1>1, <1>2, OpenFits
    <1>4. /\ Touches(s, p) /\ changes'[p].row = patterns[p].row + 1
          /\ patterns'[p].lifecycle = "review_ready" /\ patterns'[p].row = patterns[p].row + 1
          /\ patterns'[p].latest = s /\ patterns'[p].draft = Nobody
        BY <1>2 DEF Approve, Touches, DeskTypes
    <1>5. /\ submissions'[s].status = "approved" /\ submissions'[s].revision = "approved"
          /\ submissions'[s].evidence = "accepted" /\ submissions'[s].policies = submissions[s].policies
          /\ submissions'[s].pattern = p /\ submissions'[s].base_row = submissions[s].base_row
        BY <1>2 DEF Approve, DeskTypes, ItemRow, PatternOf
    <1>6. Fits(s, p)'
        BY <1>1, <1>2, <1>3, <1>4, <1>5, Nulls DEF Fits, Open, OpenStatus
    <1>7. patterns'[p].row >= patterns[p].row /\ patterns'[p].latest \in {patterns[p].latest, s}
        BY <1>3, <1>4
    <1>. QED
        BY <1>3, <1>4, <1>6, <1>7, ItemStep

LEMMA RejectUpdateKeeps ==
    ASSUME DeskTypes, DeskTypes', DeskInv, NEW s \in Submissions, RejectUpdate(s)
    PROVE  DeskInv'
    <1>1. Open(s) /\ s = Update(s[1]) /\ s # New(s[1])
        BY Keys DEF RejectUpdate, Rejectable
    <1>2. PICK p \in Patterns : p = PatternOf(s)
        BY <1>1, OpenItem
    <1>3. /\ Free(s, p) /\ Fits(s, p)
          /\ patterns[p].row \in Nat /\ submissions[s].base_row \in Nat /\ changes[p].row \in Nat
        BY <1>1, <1>2, OpenFits
    <1>4. /\ Touches(s, p) /\ changes' = changes
          /\ patterns'[p].draft = Nobody /\ patterns'[p].row = patterns[p].row + 1
          /\ patterns'[p].latest = patterns[p].latest
          /\ patterns'[p].lifecycle = IF submissions[s].status = "needs_evidence" THEN "review_ready" ELSE patterns[p].lifecycle
        BY <1>2 DEF RejectUpdate, Touches, DeskTypes, PatternRow
    <1>5. /\ submissions'[s].status = "rejected" /\ submissions'[s].revision = "rejected"
          /\ submissions'[s].evidence = "rejected" /\ submissions'[s].pattern = p
          /\ submissions'[s].base_row = submissions[s].base_row
        BY <1>2 DEF RejectUpdate, RejectedRows, DeskTypes, ItemRow, PatternOf
    <1>6. Fits(s, p)'
        BY <1>1, <1>3, <1>4, <1>5, Nulls DEF Fits, Open, OpenStatus
    <1>7. patterns'[p].row >= patterns[p].row /\ patterns'[p].latest \in {patterns[p].latest, s}
        BY <1>3, <1>4
    <1>. QED
        BY <1>3, <1>4, <1>6, <1>7, ItemStep

LEMMA RejectNewKeeps ==
    ASSUME DeskTypes, DeskTypes', DeskInv, NEW s \in Submissions, RejectNew(s)
    PROVE  DeskInv'
    <1>1. Open(s) /\ s = New(s[1]) /\ s # Update(s[1])
        BY Keys DEF RejectNew, Rejectable
    <1>2. PICK p \in Patterns : p = PatternOf(s)
        BY <1>1, OpenItem
    <1>3. /\ Free(s, p) /\ Fits(s, p) /\ patterns[p].latest = Nobody
          /\ patterns[p].row \in Nat /\ submissions[s].base_row \in Nat /\ changes[p].row \in Nat
        BY <1>1, <1>2, OpenFits, OpenItem
    <1>4. /\ Touches(s, p) /\ changes' = changes
          /\ patterns'[p].draft = patterns[p].draft /\ patterns'[p].row = patterns[p].row + 1
          /\ patterns'[p].latest = Nobody /\ patterns'[p].lifecycle = "rejected"
        BY <1>2, <1>3 DEF RejectNew, Touches, DeskTypes, PatternRow
    <1>5. /\ submissions'[s].status = "rejected" /\ submissions'[s].pattern = p
          /\ submissions'[s].base_row = submissions[s].base_row
        BY <1>2 DEF RejectNew, DeskTypes, ItemRow, PatternOf
    <1>6. Fits(s, p)'
        BY <1>1, <1>3, <1>4, <1>5, Nulls DEF Fits, Open, OpenStatus
    <1>7. patterns'[p].row >= patterns[p].row /\ patterns'[p].latest \in {patterns[p].latest, s}
        BY <1>3, <1>4
    <1>. QED
        BY <1>3, <1>4, <1>6, <1>7, ItemStep

LEMMA HoldKeeps ==
    ASSUME DeskTypes, DeskTypes', DeskInv, NEW s \in Submissions, Hold(s)
    PROVE  DeskInv'
    <1>1. Open(s)
        BY DEF Hold, Open, OpenStatus
    <1>2. PICK p \in Patterns : p = PatternOf(s)
        BY <1>1, OpenItem
    <1>3. /\ Free(s, p) /\ Fits(s, p)
          /\ patterns[p].row \in Nat /\ submissions[s].base_row \in Nat /\ changes[p].row \in Nat
        BY <1>1, <1>2, OpenFits
    <1>4. Touches(s, p) /\ changes' = changes /\ patterns'[p] = HeldRow(patterns[p], s[2])
        BY <1>2 DEF Hold, Touches, DeskTypes
    <1>5. /\ patterns'[p].draft = patterns[p].draft /\ patterns'[p].latest = patterns[p].latest
          /\ patterns'[p].row \in {patterns[p].row, patterns[p].row + 1}
          /\ \/ patterns'[p].lifecycle = "evidence_pending"
             \/ patterns'[p].lifecycle = "archived" /\ patterns[p].lifecycle = "archived"
        BY <1>4 DEF HeldRow, DeskTypes, PatternRow
    <1>6. /\ submissions'[s].status = "needs_evidence" /\ submissions'[s].pattern = p
          /\ submissions'[s].revision = submissions[s].revision /\ submissions'[s].evidence = submissions[s].evidence
          /\ submissions'[s].base_row = submissions[s].base_row
        BY <1>2 DEF Hold, DeskTypes, ItemRow, PatternOf
    <1>7. Fits(s, p)'
        BY <1>1, <1>3, <1>4, <1>5, <1>6 DEF Fits, Open, OpenStatus
    <1>8. patterns'[p].row >= patterns[p].row /\ patterns'[p].latest \in {patterns[p].latest, s}
        BY <1>3, <1>5
    <1>. QED
        BY <1>3, <1>4, <1>7, <1>8, ItemStep

LEMMA DeskUnchanged ==
    ASSUME DeskInv, UNCHANGED <<patterns, submissions, changes>>
    PROVE  DeskInv'
    BY DEF DeskInv, ItemInv, FoundingInv, UpdateInv, RowInv, OneOpenDraft, ApprovedIsBacked, Open, PatternOf, Committed

\* A step at one pattern that leaves its review items, its draft and its
\* approved revision alone.
LEMMA PatternStep ==
    ASSUME DeskTypes, DeskTypes', DeskInv, NEW p \in Patterns, submissions' = submissions,
           \A q \in Patterns : q # p => patterns'[q] = patterns[q] /\ changes'[q] = changes[q],
           patterns'[p].draft = patterns[p].draft, patterns'[p].latest = patterns[p].latest,
           patterns'[p].row = patterns[p].row + 1, changes'[p].row <= patterns'[p].row,
           patterns[p].lifecycle # "none", patterns'[p].lifecycle \in {patterns[p].lifecycle, "archived"}
    PROVE  DeskInv'
    <1>1. \A q \in Patterns : /\ patterns'[q].draft = patterns[q].draft /\ patterns'[q].latest = patterns[q].latest
                              /\ patterns'[q].lifecycle = patterns[q].lifecycle \/ (q = p /\ patterns'[q].lifecycle = "archived")
        OBVIOUS
    <1>2. \A q \in Patterns : /\ patterns[q].row \in Nat /\ patterns'[q].row \in Nat /\ changes[q].row \in Nat
                              /\ patterns'[q].row >= patterns[q].row /\ (q = p => patterns'[q].row > patterns[q].row)
        BY DEF DeskTypes, PatternRow, ChangeRow
    <1>3. \A t \in Submissions : (Open(t)' <=> Open(t)) /\ PatternOf(t)' = PatternOf(t) /\ submissions[t].base_row \in Nat
        BY DEF Open, PatternOf, DeskTypes, ItemRow
    <1>4. ItemInv'
        <2>. SUFFICES ASSUME NEW t \in Submissions
                      PROVE  /\ submissions'[t].status = "none" => submissions'[t] = NoSubmission
                             /\ submissions'[t].status # "none" =>
                                  submissions'[t].pattern \in Patterns /\ submissions'[t].base_row <= patterns'[submissions'[t].pattern].row
                             /\ Open(t)' => submissions'[t].revision = "draft" /\ submissions'[t].evidence = "proposed"
                             /\ submissions'[t].status = "approved" =>
                                  submissions'[t].revision = "approved" /\ submissions'[t].evidence = "accepted" /\ submissions'[t].policies > 0
            BY DEF ItemInv
        <2>. QED
            BY <1>2, <1>3 DEF DeskInv, ItemInv
    <1>5. FoundingInv'
        <2>. SUFFICES ASSUME NEW v \in Versions
                      PROVE  /\ submissions'[New(v)].status = "none" =>
                                /\ patterns'[v].lifecycle = "none" /\ patterns'[v].row = 0
                                /\ patterns'[v].draft = Nobody /\ changes'[v].action = "none"
                             /\ submissions'[New(v)].status # "none" =>
                                  submissions'[New(v)].pattern = v /\ patterns'[v].lifecycle # "none"
                             /\ submissions'[New(v)].status \notin {"none", "approved"} => patterns'[v].draft = New(v)
                             /\ submissions'[New(v)].status = "approved" <=> patterns'[v].latest # Nobody
            BY DEF FoundingInv
        <2>. QED
            BY <1>1, Keys DEF DeskInv, FoundingInv
    <1>6. UpdateInv'
        <2>. SUFFICES ASSUME NEW v \in Versions, Committed(v)'
                      PROVE  /\ patterns'[submissions'[Update(v)].pattern].latest # Nobody
                             /\ submissions'[Update(v)].status = "rejected" =>
                                  submissions'[Update(v)].revision = "rejected" /\ submissions'[Update(v)].evidence = "rejected"
                             /\ submissions'[Update(v)].status = "needs_evidence" =>
                                  patterns'[submissions'[Update(v)].pattern].lifecycle \in {"evidence_pending", "archived"}
            BY DEF UpdateInv
        <2>1. Committed(v) /\ submissions[Update(v)].pattern \in Patterns
            BY Keys DEF DeskInv, ItemInv, Committed
        <2>. QED
            BY <1>1, <2>1 DEF DeskInv, UpdateInv
    <1>7. RowInv'
        <2>1. /\ \A q \in Patterns : changes'[q].row <= patterns'[q].row
              /\ \A q \in Existing : patterns'[q].latest # Nobody
              /\ \A q \in Patterns : patterns'[q].latest # Nobody => patterns'[q].lifecycle # "none"
            BY <1>1 DEF DeskInv, RowInv, Patterns
        <2>2. ASSUME NEW t \in Submissions, Open(t)', patterns'[PatternOf(t)'].lifecycle = "archived"
              PROVE  submissions'[t].base_row < patterns'[PatternOf(t)'].row
            <3>1. Open(t) /\ PatternOf(t) \in Patterns /\ submissions[t].base_row <= patterns[PatternOf(t)].row
                BY <1>3, <2>2, OpenItem DEF DeskInv, ItemInv, PatternOf, Open, OpenStatus
            <3>. QED
                BY <1>1, <1>2, <1>3, <2>2, <3>1 DEF DeskInv, RowInv
        <2>. QED
            BY <2>1, <2>2 DEF RowInv
    <1>8. OneOpenDraft'
        <2>1. \A v \in Versions : Open(Update(v)) => PatternOf(Update(v)) \in Patterns
            BY OpenItem, Keys
        <2>. QED
            BY <1>1, <1>3, <2>1, Keys DEF DeskInv, OneOpenDraft
    <1>9. ApprovedIsBacked'
        BY <1>1 DEF DeskInv, ApprovedIsBacked
    <1>. QED
        BY <1>4, <1>5, <1>6, <1>7, <1>8, <1>9 DEF DeskInv

LEMMA ArchiveKeeps ==
    ASSUME DeskTypes, DeskTypes', DeskInv, NEW p \in Patterns, Archive(p)
    PROVE  DeskInv'
    <1>1. /\ patterns[p].lifecycle # "none" /\ submissions' = submissions
          /\ patterns'[p].lifecycle = "archived" /\ patterns'[p].row = patterns[p].row + 1
          /\ patterns'[p].latest = patterns[p].latest /\ patterns'[p].draft = patterns[p].draft
          /\ \A q \in Patterns : q # p => patterns'[q] = patterns[q] /\ changes'[q] = changes[q]
        BY DEF Archive, DeskTypes, PatternRow
    <1>2. changes'[p].row \in {changes[p].row, patterns[p].row + 1}
        BY DEF Archive, DeskTypes, ChangeRow
    <1>3. changes'[p].row <= patterns'[p].row
        BY <1>1, <1>2 DEF DeskInv, RowInv, DeskTypes, PatternRow, ChangeRow
    <1>. QED
        BY <1>1, <1>3, PatternStep

LEMMA UnpublishKeeps ==
    ASSUME DeskTypes, DeskTypes', DeskInv, NEW p \in Patterns, Unpublish(p)
    PROVE  DeskInv'
    <1>1. /\ patterns[p].latest # Nobody /\ submissions' = submissions
          /\ patterns'[p].lifecycle = patterns[p].lifecycle /\ patterns'[p].row = patterns[p].row + 1
          /\ patterns'[p].latest = patterns[p].latest /\ patterns'[p].draft = patterns[p].draft
          /\ \A q \in Patterns : q # p => patterns'[q] = patterns[q] /\ changes'[q] = changes[q]
          /\ changes'[p].row = patterns[p].row + 1
        BY DEF Unpublish, DeskTypes, PatternRow
    <1>2. patterns[p].lifecycle # "none" /\ changes'[p].row <= patterns'[p].row
        BY <1>1 DEF DeskInv, RowInv, DeskTypes, PatternRow
    <1>. QED
        BY <1>1, <1>2, PatternStep

-----------------------------------------------------------------------------
(* The runs' calls that write to the desk.                                    *)

LEMMA SubmitNewKeeps ==
    ASSUME DeskTypes, DeskTypes', DeskInv, NEW r \in Runs, runs[r].version \in Versions, SubmitNewPattern(r)
    PROVE  DeskInv'
    <1>1. CASE UNCHANGED <<patterns, submissions, changes>>
        BY <1>1, DeskUnchanged
    <1>2. CASE ~UNCHANGED <<patterns, submissions, changes>>
        <2>1. PICK v \in Versions : v = runs[r].version
            OBVIOUS
        <2>2. /\ New(v) \in Submissions /\ v \in Patterns /\ New(v) = New(New(v)[1]) /\ New(v) # Update(New(v)[1])
              /\ New(v)[1] = v
            BY Keys DEF New
        <2>3. /\ submissions[New(v)].status = "none" /\ changes' = changes
              /\ submissions' = [submissions EXCEPT ![New(v)] = Submitted(v, 1)]
              /\ \E status \in {"review_ready", "evidence_pending"} :
                    patterns' = [patterns EXCEPT ![v] = [lifecycle |-> status, row |-> 1, latest |-> Nobody, draft |-> New(v)]]
            BY <1>2, <2>1 DEF SubmitNewPattern, Refused
        <2>4. /\ patterns[v].row = 0 /\ changes[v].row = 0
            BY <2>3 DEF DeskInv, FoundingInv, RowInv, DeskTypes, ChangeRow, Patterns
        <2>5. /\ patterns'[v].lifecycle \in {"review_ready", "evidence_pending"} /\ patterns'[v].row = 1
              /\ patterns'[v].latest = Nobody /\ patterns'[v].draft = New(v) /\ Touches(New(v), v)
            BY <2>2, <2>3 DEF DeskTypes, Touches
        <2>6. submissions'[New(v)] = Submitted(v, 1)
            BY <2>2, <2>3 DEF DeskTypes
        <2>7. /\ submissions'[New(v)].status = "pending" /\ submissions'[New(v)].pattern = v
              /\ submissions'[New(v)].base_row = 1 /\ submissions'[New(v)].revision = "draft"
              /\ submissions'[New(v)].evidence = "proposed"
            BY <2>6 DEF Submitted
        <2>8. Fits(New(v), v)'
            BY <2>2, <2>3, <2>4, <2>5, <2>7, Nulls DEF Fits, Open, OpenStatus
        <2>9. /\ Free(New(v), v) /\ patterns'[v].row >= patterns[v].row
              /\ patterns'[v].latest \in {patterns[v].latest, New(v)}
            BY <2>2, <2>3, <2>4, <2>5 DEF Free, DeskInv, FoundingInv
        <2>. QED
            BY <2>2, <2>5, <2>8, <2>9, ItemStep
    <1>. QED
        BY <1>1, <1>2

LEMMA SubmitUpdateKeeps ==
    ASSUME DeskTypes, DeskTypes', DeskInv, NEW r \in Runs, SubmitUpdate(r),
           runs[r].version \in Versions, runs[r].pattern \in Patterns, runs[r].base \in Revisions
    PROVE  DeskInv'
    <1>1. CASE UNCHANGED <<patterns, submissions, changes>>
        BY <1>1, DeskUnchanged
    <1>2. CASE ~UNCHANGED <<patterns, submissions, changes>>
        <2>1. PICK v \in Versions, p \in Patterns : v = runs[r].version /\ p = runs[r].pattern
            OBVIOUS
        <2>2. /\ Update(v) \in Submissions /\ Update(v) = Update(Update(v)[1]) /\ Update(v) # New(Update(v)[1])
            BY Keys DEF Update
        <2>3. /\ submissions[Update(v)].status = "none" /\ changes' = changes
              /\ submissions' = [submissions EXCEPT ![Update(v)] = Submitted(p, patterns[p].row)]
              /\ patterns' = [patterns EXCEPT ![p].draft = Update(v)]
              /\ patterns[p].latest \in Revisions /\ patterns[p].draft = Nobody /\ patterns[p].lifecycle = "review_ready"
            BY <1>2, <2>1 DEF SubmitUpdate, Refused, Committed, BaseUnchanged
        <2>4. /\ patterns'[p].lifecycle = "review_ready" /\ patterns'[p].row = patterns[p].row
              /\ patterns'[p].latest = patterns[p].latest /\ patterns'[p].draft = Update(v) /\ Touches(Update(v), p)
            BY <2>2, <2>3 DEF DeskTypes, Touches, PatternRow
        <2>5. submissions'[Update(v)] = Submitted(p, patterns[p].row)
            BY <2>2, <2>3 DEF DeskTypes
        <2>6. /\ submissions'[Update(v)].status = "pending" /\ submissions'[Update(v)].pattern = p
              /\ submissions'[Update(v)].base_row = patterns[p].row /\ submissions'[Update(v)].revision = "draft"
              /\ submissions'[Update(v)].evidence = "proposed"
            BY <2>5 DEF Submitted
        <2>7. patterns[p].row \in Nat /\ changes[p].row <= patterns[p].row
            BY DEF DeskTypes, PatternRow, DeskInv, RowInv
        <2>8. patterns[p].latest # Nobody /\ patterns[p].latest # Update(v)
            BY <2>2, <2>3, Nulls DEF DeskInv, ApprovedIsBacked
        <2>9. Fits(Update(v), p)'
            BY <2>2, <2>3, <2>4, <2>6, <2>7, <2>8, Nulls DEF Fits, Open, OpenStatus
        <2>10. /\ Free(Update(v), p) /\ patterns'[p].row >= patterns[p].row
               /\ patterns'[p].latest \in {patterns[p].latest, Update(v)}
            BY <2>2, <2>3, <2>4, <2>7, <2>8 DEF Free
        <2>. QED
            BY <2>2, <2>4, <2>9, <2>10, ItemStep
    <1>. QED
        BY <1>1, <1>2

LEMMA RecordPolicyKeeps ==
    ASSUME DeskTypes, DeskTypes', DeskInv, NEW r \in Runs, RecordPolicy(r),
           runs[r].version \in Versions, runs[r].kind \in Kinds
    PROVE  DeskInv'
    <1>1. CASE UNCHANGED <<patterns, submissions, changes>>
        BY <1>1, DeskUnchanged
    <1>2. CASE ~UNCHANGED <<patterns, submissions, changes>>
        <2>1. PICK s \in Submissions : s = <<runs[r].version, runs[r].kind>>
            BY DEF Submissions
        <2>2. /\ Open(s) /\ patterns' = patterns /\ changes' = changes
              /\ submissions' = [submissions EXCEPT ![s].policies = @ + 1]
            BY <1>2, <2>1 DEF RecordPolicy, Refused, PolicyInputCurrent
        <2>3. PICK p \in Patterns : p = PatternOf(s)
            BY <2>2, OpenItem
        <2>4. /\ Free(s, p) /\ Fits(s, p)
              /\ patterns[p].row \in Nat /\ submissions[s].base_row \in Nat /\ changes[p].row \in Nat
            BY <2>2, <2>3, OpenFits
        <2>5. /\ submissions'[s].status = submissions[s].status /\ submissions'[s].pattern = submissions[s].pattern
              /\ submissions'[s].base_row = submissions[s].base_row /\ submissions'[s].revision = submissions[s].revision
              /\ submissions'[s].evidence = submissions[s].evidence /\ Touches(s, p)
            BY <2>2 DEF DeskTypes, ItemRow, Touches
        <2>6. Fits(s, p)'
            BY <2>2, <2>4, <2>5 DEF Fits, Open, OpenStatus
        <2>. QED
            BY <2>2, <2>4, <2>5, <2>6, ItemStep
    <1>. QED
        BY <1>1, <1>2

-----------------------------------------------------------------------------
(* The queue: what a step of a run may do to the versions and to the run.     *)

VersionRow == [status : {"absent", "pending_ai", "processing", "processed", "irrelevant", "error"},
               holder : Runs \cup {Nobody}, live : BOOLEAN, attempts : 0 .. AttemptLimit + 1]

RunRow == [pc : RunLabels, version : Versions \cup {Nobody}, kind : Kinds \cup {Nobody},
           pattern : Patterns \cup {Nobody}, base : Revisions \cup {Nobody}]

LeaseTypes == lease \in [holder : Runs \cup {Nobody}, held : BOOLEAN, live : BOOLEAN]
VersionTypes == versions \in [Versions -> VersionRow]
RunTypes == runs \in [Runs -> RunRow]
FaultTypes == faults \in 0 .. MaxFaults

LEMMA Types == IntakeTypeOK <=> VersionTypes /\ DeskTypes /\ LeaseTypes /\ RunTypes /\ FaultTypes
    BY DEF IntakeTypeOK, VersionTypes, DeskTypes, LeaseTypes, RunTypes, FaultTypes,
           VersionRow, RunRow, PatternRow, ItemRow, ChangeRow

\* A review item is never withdrawn, nor a policy decision or a rejection.
DeskGrows ==
    \A s \in Submissions :
        /\ submissions[s].status # "none" => submissions'[s].status # "none"
        /\ submissions'[s].policies >= submissions[s].policies
        /\ submissions[s].status = "rejected" => submissions'[s].status = "rejected"

Same(v) == versions'[v].status = versions[v].status /\ versions'[v].attempts = versions[v].attempts

Moves(r, v) ==
    \/ Same(v)
    \/ /\ versions[v].status = "absent" /\ versions'[v].status = "pending_ai"
       /\ versions'[v].attempts = versions[v].attempts
    \/ /\ Claimable(v) /\ versions'[v].status = "processing"
       /\ versions'[v].attempts = OneMore(versions[v].attempts)
    \/ /\ Owns(r, v) /\ versions'[v].status = "pending_ai"
       /\ versions'[v].attempts = IF versions[v].attempts = 0 THEN 0 ELSE versions[v].attempts - 1
    \/ /\ Owns(r, v) /\ versions'[v].attempts = versions[v].attempts
       /\ versions'[v].status \in {"irrelevant", "error"} \/ (versions'[v].status = "processed" /\ Recorded(v))

LEMMA Grown ==
    ASSUME DeskTypes, DeskTypes', DeskGrows, NEW v \in Versions
    PROVE  (Committed(v) => Committed(v)') /\ (Recorded(v) => Recorded(v)')
    <1>1. Committed(v) => Committed(v)'
        BY Keys DEF DeskGrows, Committed
    <1>2. ASSUME NEW k \in Kinds, submissions[<<v, k>>].policies > 0 PROVE submissions'[<<v, k>>].policies > 0
        <2>1. <<v, k>> \in Submissions
            BY DEF Submissions
        <2>. QED
            BY <1>2, <2>1 DEF DeskGrows, DeskTypes, ItemRow
    <1>3. submissions[Update(v)].status = "rejected" => submissions'[Update(v)].status = "rejected"
        BY Keys DEF DeskGrows
    <1>. QED
        BY <1>1, <1>2, <1>3 DEF Recorded

\* Every move keeps what the queue promises.
LEMMA VersionsKeep ==
    ASSUME DeskTypes, DeskTypes', DeskGrows, VersionTypes, VersionTypes',
           AttemptInv, DeferredStaysClaimable, ProcessedIsRecorded,
           \A v \in Versions : Same(v) \/ \E r \in Runs : Moves(r, v)
    PROVE  (AttemptInv /\ DeferredStaysClaimable /\ ProcessedIsRecorded)'
    <1>. SUFFICES ASSUME NEW v \in Versions
                  PROVE  /\ versions'[v].status = "absent" => versions'[v].attempts = 0
                         /\ versions'[v].attempts <= AttemptLimit \/ Committed(v)'
                         /\ versions'[v].status = "pending_ai" => Claimable(v)'
                         /\ versions'[v].status = "processed" => Recorded(v)'
        BY DEF AttemptInv, DeferredStaysClaimable, ProcessedIsRecorded, Recorded
    <1>1. Same(v) \/ \E r \in Runs : Moves(r, v)
        OBVIOUS
    <1>2. /\ versions[v].status = "absent" => versions[v].attempts = 0
          /\ versions[v].attempts <= AttemptLimit \/ Committed(v)
          /\ versions[v].status = "pending_ai" => versions[v].attempts < AttemptLimit \/ Committed(v)
          /\ versions[v].status = "processed" => Recorded(v)
        BY DEF AttemptInv, DeferredStaysClaimable, ProcessedIsRecorded, Recorded, Claimable
    <1>3. (Committed(v) => Committed(v)') /\ (Recorded(v) => Recorded(v)')
        BY Grown
    <1>4. AttemptLimit \in Nat \ {0} /\ versions[v].attempts \in 0 .. AttemptLimit + 1
        BY IntakeAssumption DEF VersionTypes, VersionRow
    <1>5. versions'[v].status = "pending_ai" /\ (versions'[v].attempts < AttemptLimit \/ Committed(v)') => Claimable(v)'
        BY DEF Claimable
    <1>6. CASE Same(v)
        BY <1>2, <1>3, <1>5, <1>6 DEF Same
    <1>7. CASE versions[v].status = "absent" /\ versions'[v].status = "pending_ai" /\ versions'[v].attempts = versions[v].attempts
        BY <1>2, <1>4, <1>5, <1>7
    <1>8. CASE Claimable(v) /\ versions'[v].status = "processing" /\ versions'[v].attempts = OneMore(versions[v].attempts)
        BY <1>3, <1>4, <1>8 DEF OneMore, Claimable
    <1>9. CASE /\ versions'[v].status = "pending_ai"
               /\ versions'[v].attempts = IF versions[v].attempts = 0 THEN 0 ELSE versions[v].attempts - 1
        BY <1>2, <1>3, <1>4, <1>5, <1>9
    <1>10. CASE /\ versions'[v].attempts = versions[v].attempts
                /\ versions'[v].status \in {"irrelevant", "error"} \/ (versions'[v].status = "processed" /\ Recorded(v))
        BY <1>2, <1>3, <1>4, <1>10
    <1>. QED
        BY <1>1, <1>6, <1>7, <1>8, <1>9, <1>10 DEF Moves

\* What the desk writes leaves a run what it has in hand.
LEMMA HandKept ==
    ASSUME DeskTypes, DeskTypes', DeskGrows, NEW q \in Runs, InHand(q), runs'[q] = runs[q]
    PROVE  InHand(q)'
    <1>1. runs[q].pc = "finish" => Recorded(runs[q].version)'
        BY Grown DEF InHand
    <1>. QED
        BY <1>1 DEF InHand

-----------------------------------------------------------------------------
(* The steps of a run.                                                        *)

QueueTypes == VersionTypes /\ LeaseTypes /\ RunTypes /\ FaultTypes

\* What a step of run r must show.
Steps(r) ==
    /\ QueueTypes'
    /\ \A q \in Runs : q # r => runs'[q] = runs[q]
    /\ InHand(r)'
    /\ \A v \in Versions : Moves(r, v)

LEMMA GotoShape ==
    ASSUME RunTypes, NEW r \in Runs, NEW label \in RunLabels, Goto(r, label)
    PROVE  /\ RunTypes' /\ \A q \in Runs : q # r => runs'[q] = runs[q]
           /\ runs'[r].pc = label /\ runs'[r].version = runs[r].version /\ runs'[r].kind = runs[r].kind
           /\ runs'[r].pattern = runs[r].pattern /\ runs'[r].base = runs[r].base
    BY DEF Goto, RunTypes, RunRow

LEMMA IdleRow == \A label \in RunLabels : [Idle EXCEPT !.pc = label] \in RunRow /\ [Idle EXCEPT !.pc = label].pc = label
    BY DEF Idle, RunRow

LEMMA LeavingShape ==
    ASSUME RunTypes, NEW r \in Runs, Leaving(r)
    PROVE  RunTypes' /\ (\A q \in Runs : q # r => runs'[q] = runs[q]) /\ runs'[r].pc = "leave"
    <1>. "leave" \in RunLabels
        BY DEF RunLabels
    <1>. DEFINE row == [Idle EXCEPT !.pc = "leave"]
    <1>1. row \in RunRow /\ row.pc = "leave"
        BY IdleRow
    <1>2. runs' = [runs EXCEPT ![r] = row]
        BY DEF Leaving
    <1>. HIDE DEF row
    <1>. QED
        BY <1>1, <1>2 DEF RunTypes

LEMMA NextVersionShape ==
    ASSUME RunTypes, NEW r \in Runs, NextVersion(r)
    PROVE  RunTypes' /\ (\A q \in Runs : q # r => runs'[q] = runs[q]) /\ runs'[r].pc = "loop"
    <1>. "loop" \in RunLabels
        BY DEF RunLabels
    <1>. DEFINE row == [Idle EXCEPT !.pc = "loop"]
    <1>1. row \in RunRow /\ row.pc = "loop"
        BY IdleRow
    <1>2. runs' = [runs EXCEPT ![r] = row]
        BY DEF NextVersion
    <1>. HIDE DEF row
    <1>. QED
        BY <1>1, <1>2 DEF RunTypes

LEMMA FaultShape == ASSUME FaultTypes, Fault \/ UNCHANGED faults PROVE FaultTypes'
    BY IntakeAssumption DEF FaultTypes, Fault

LEMMA FailInHand ==
    ASSUME NEW r \in Runs, runs'[r].pc = "fail", runs'[r].version \in Versions
    PROVE  InHand(r)'
    BY DEF InHand

LEMMA FreeInHand ==
    ASSUME NEW r \in Runs, runs'[r].pc \in {"idle", "collect", "loop", "leave"}
    PROVE  InHand(r)'
    BY DEF InHand

LEMMA RefusedSteps ==
    ASSUME QueueTypes, NEW r \in Runs, runs[r].version \in Versions, Refused(r)
    PROVE  Steps(r)
    <1>1. /\ RunTypes' /\ \A q \in Runs : q # r => runs'[q] = runs[q]
          /\ runs'[r].pc = "fail" /\ runs'[r].version = runs[r].version
        BY GotoShape DEF Refused, QueueTypes, RunLabels
    <1>2. InHand(r)'
        BY <1>1, FailInHand
    <1>3. versions' = versions /\ lease' = lease /\ faults' = faults
        BY DEF Refused
    <1>4. QueueTypes'
        BY <1>1, <1>3 DEF QueueTypes, VersionTypes, LeaseTypes, FaultTypes
    <1>. QED
        BY <1>1, <1>2, <1>3, <1>4 DEF Steps, Moves, Same

\* A reply, read or lost: the run is at the label or failed, with the same work.
LEMMA ReplyShape ==
    ASSUME QueueTypes, NEW r \in Runs, NEW label \in RunLabels, Reply(r, label)
    PROVE  /\ RunTypes' /\ FaultTypes' /\ \A q \in Runs : q # r => runs'[q] = runs[q]
           /\ runs'[r].pc \in {label, "fail"} /\ runs'[r].version = runs[r].version /\ runs'[r].kind = runs[r].kind
    <1>1. CASE Goto(r, label) /\ UNCHANGED faults
        BY <1>1, GotoShape, FaultShape DEF QueueTypes
    <1>2. CASE Goto(r, "fail") /\ Fault
        BY <1>2, GotoShape, FaultShape DEF QueueTypes, RunLabels
    <1>. QED
        BY <1>1, <1>2 DEF Reply

LEMMA SameVersions == ASSUME versions' = versions PROVE \A r, v : Moves(r, v)
    BY DEF Moves, Same

\* Before a version is claimed.
LEMMA CollectSteps ==
    ASSUME QueueTypes, NEW r \in Runs,
           AcquireLease(r) \/ EndCollection(r) \/ CollectionFails(r) \/ NothingToClaim(r)
    PROVE  Steps(r)
    <1>1. /\ RunTypes' /\ \A q \in Runs : q # r => runs'[q] = runs[q]
          /\ runs'[r].pc \in {"collect", "loop", "leave"}
        <2>1. CASE AcquireLease(r)
            BY <2>1, GotoShape DEF AcquireLease, QueueTypes, RunLabels
        <2>2. CASE EndCollection(r)
            BY <2>2, GotoShape DEF EndCollection, QueueTypes, RunLabels
        <2>3. CASE CollectionFails(r) \/ NothingToClaim(r)
            BY <2>3, LeavingShape DEF CollectionFails, NothingToClaim, QueueTypes
        <2>. QED
            BY <2>1, <2>2, <2>3
    <1>2. versions' = versions /\ faults' = faults
        BY DEF AcquireLease, EndCollection, CollectionFails, NothingToClaim
    <1>4. LeaseTypes'
        <2>1. CASE AcquireLease(r)
            <3>1. lease' = [holder |-> r, held |-> TRUE, live |-> TRUE]
                BY <2>1 DEF AcquireLease
            <3>. QED
                BY <3>1 DEF LeaseTypes
        <2>2. CASE lease' = lease
            BY <2>2 DEF QueueTypes, LeaseTypes
        <2>. QED
            BY <2>1, <2>2 DEF EndCollection, CollectionFails, NothingToClaim
    <1>3. QueueTypes'
        BY <1>1, <1>2, <1>4 DEF QueueTypes, VersionTypes, FaultTypes
    <1>. QED
        BY <1>1, <1>2, <1>3, FreeInHand, SameVersions DEF Steps

LEMMA IngestSteps ==
    ASSUME QueueTypes, RunInv, NEW r \in Runs, NEW w \in Versions, IngestVersion(r, w)
    PROVE  Steps(r)
    <1>1. /\ versions[w].status = "absent" /\ versions' = [versions EXCEPT ![w].status = "pending_ai"]
          /\ runs' = runs /\ lease' = lease /\ faults' = faults /\ runs[r].pc = "collect"
        BY DEF IngestVersion, At
    <1>2. QueueTypes'
        BY <1>1 DEF QueueTypes, VersionTypes, VersionRow, LeaseTypes, RunTypes, FaultTypes
    <1>3. \A v \in Versions : Moves(r, v)
        BY <1>1 DEF Moves, Same, QueueTypes, VersionTypes, VersionRow
    <1>. QED
        BY <1>1, <1>2, <1>3, FreeInHand DEF Steps

LEMMA ClaimSteps ==
    ASSUME QueueTypes, NEW r \in Runs, NEW w \in Versions, ClaimVersion(r, w)
    PROVE  Steps(r)
    <1>1. /\ versions' = [versions EXCEPT ![w] =
                [status |-> "processing", holder |-> r, live |-> TRUE, attempts |-> OneMore(versions[w].attempts)]]
          /\ lease' = lease /\ Claimable(w)
        BY DEF ClaimVersion
    <1>2. OneMore(versions[w].attempts) \in 0 .. AttemptLimit + 1
        BY IntakeAssumption DEF OneMore, QueueTypes, VersionTypes, VersionRow
    <1>3. [status |-> "processing", holder |-> r, live |-> TRUE, attempts |-> OneMore(versions[w].attempts)] \in VersionRow
        BY <1>2 DEF VersionRow
    <1>4. VersionTypes' /\ LeaseTypes'
        BY <1>1, <1>3 DEF QueueTypes, VersionTypes, LeaseTypes
    <1>5. \A v \in Versions : Moves(r, v)
        BY <1>1 DEF Moves, Same, QueueTypes, VersionTypes
    <1>6. CASE runs' = [runs EXCEPT ![r] = [Idle EXCEPT !.pc = "recover", !.version = w]] /\ UNCHANGED faults
        <2>. DEFINE row == [Idle EXCEPT !.pc = "recover", !.version = w]
        <2>1. row \in RunRow /\ row.pc = "recover" /\ row.version = w
            BY DEF Idle, RunRow, RunLabels
        <2>2. runs' = [runs EXCEPT ![r] = row] /\ faults' = faults
            BY <1>6
        <2>. HIDE DEF row
        <2>3. RunTypes' /\ runs'[r] = row /\ \A q \in Runs : q # r => runs'[q] = runs[q]
            BY <2>1, <2>2 DEF QueueTypes, RunTypes
        <2>4. InHand(r)'
            BY <2>1, <2>3 DEF InHand
        <2>5. QueueTypes'
            BY <1>4, <2>2, <2>3 DEF QueueTypes, FaultTypes
        <2>. QED
            BY <1>5, <2>3, <2>4, <2>5 DEF Steps
    <1>7. CASE Leaving(r) /\ Fault
        BY <1>4, <1>5, <1>7, LeavingShape, FaultShape, FreeInHand DEF Steps, QueueTypes
    <1>. QED
        BY <1>6, <1>7 DEF ClaimVersion

LEMMA ReceiptIs == \A v \in Versions :
    /\ Receipt(v) \in {"none", "invalid", "finish", "policy", "hold"}
    /\ Receipt(v) = "finish" => Recorded(v)
    /\ Receipt(v) = "hold" => Committed(v)
    <1>. TAKE v \in Versions
    <1>1. Receipt(v) = "finish" => submissions[Update(v)].policies = 1 \/ submissions[Update(v)].status = "rejected"
        BY DEF Receipt
    <1>2. submissions[Update(v)].policies = 1 => Recorded(v)
        BY DEF Recorded, Update, Kinds
    <1>. QED
        BY <1>1, <1>2 DEF Receipt, Recorded

LEMMA RecoverySteps ==
    ASSUME QueueTypes, RunInv, NEW r \in Runs, ReadRecovery(r)
    PROVE  Steps(r)
    <1>1. PICK v \in Versions : v = runs[r].version
        BY DEF ReadRecovery, At, RunInv, InHand
    <1>2. versions' = versions /\ lease' = lease /\ faults' = faults /\ submissions' = submissions
        BY DEF ReadRecovery
    <1>3. /\ RunTypes' /\ (\A q \in Runs : q # r => runs'[q] = runs[q]) /\ runs'[r].version = v
          /\ \/ runs'[r].pc \in {"fail", "analyse"}
             \/ /\ runs'[r].pc \in {"finish", "policy", "hold"} /\ runs'[r].pc = Receipt(v)
                /\ runs'[r].kind = "pattern_update"
        <2>1. CASE Goto(r, "fail") \/ Goto(r, "analyse")
            BY <1>1, <2>1, GotoShape DEF QueueTypes, RunLabels
        <2>2. CASE ~Goto(r, "fail") /\ ~Goto(r, "analyse")
            <3>1. /\ runs' = [runs EXCEPT ![r].pc = Receipt(v), ![r].kind = "pattern_update"]
                  /\ Receipt(v) \in {"finish", "policy", "hold"}
                BY <1>1, <2>2, ReceiptIs DEF ReadRecovery
            <3>. DEFINE row == [runs[r] EXCEPT !.pc = Receipt(v), !.kind = "pattern_update"]
            <3>2. runs' = [runs EXCEPT ![r] = row]
                BY <3>1
            <3>3. row \in RunRow /\ row.pc = Receipt(v) /\ row.kind = "pattern_update" /\ row.version = v
                BY <1>1, <3>1 DEF QueueTypes, RunTypes, RunRow, RunLabels, Kinds
            <3>. HIDE DEF row
            <3>. QED
                BY <3>1, <3>2, <3>3 DEF QueueTypes, RunTypes
        <2>. QED
            BY <2>1, <2>2
    <1>4. runs'[r].pc = "finish" => Recorded(v)'
        BY <1>2, <1>3, ReceiptIs DEF Recorded
    <1>5. InHand(r)'
        BY <1>3, <1>4 DEF InHand, Kinds
    <1>6. QueueTypes'
        BY <1>2, <1>3 DEF QueueTypes, VersionTypes, LeaseTypes, FaultTypes
    <1>. QED
        BY <1>2, <1>3, <1>5, <1>6, SameVersions DEF Steps

\* The analysis decides what to submit, or that there is nothing to.
LEMMA AnalyseSteps ==
    ASSUME QueueTypes, DeskTypes, RunInv, NEW r \in Runs, Analyse(r)
    PROVE  Steps(r)
    <1>1. runs[r].version \in Versions
        BY DEF Analyse, AnalysisFails, JudgeIrrelevant, JudgeNew, JudgeMatch, At, RunInv, InHand
    <1>2. CASE AnalysisFails(r)
        BY <1>1, <1>2, RefusedSteps DEF AnalysisFails
    <1>3. CASE JudgeIrrelevant(r)
        <2>1. /\ RunTypes' /\ (\A q \in Runs : q # r => runs'[q] = runs[q])
              /\ runs'[r].pc = "drop" /\ runs'[r].version \in Versions
            BY <1>1, <1>3, GotoShape DEF JudgeIrrelevant, QueueTypes, RunLabels
        <2>2. versions' = versions /\ lease' = lease /\ faults' = faults
            BY <1>3 DEF JudgeIrrelevant
        <2>3. InHand(r)' /\ QueueTypes'
            BY <2>1, <2>2 DEF InHand, QueueTypes, VersionTypes, LeaseTypes, FaultTypes
        <2>. QED
            BY <2>1, <2>2, <2>3, SameVersions DEF Steps
    <1>4. CASE JudgeNew(r)
        <2>. DEFINE row == [runs[r] EXCEPT !.pc = "submit", !.kind = "new_pattern"]
        <2>1. row \in RunRow /\ row.pc = "submit" /\ row.kind = "new_pattern" /\ row.version = runs[r].version
            BY DEF QueueTypes, RunTypes, RunRow, RunLabels, Kinds
        <2>2. runs' = [runs EXCEPT ![r] = row] /\ versions' = versions /\ lease' = lease /\ faults' = faults
            BY <1>4 DEF JudgeNew
        <2>. HIDE DEF row
        <2>3. RunTypes' /\ runs'[r] = row /\ \A q \in Runs : q # r => runs'[q] = runs[q]
            BY <2>1, <2>2 DEF QueueTypes, RunTypes
        <2>4. InHand(r)' /\ QueueTypes'
            BY <1>1, <2>1, <2>2, <2>3 DEF InHand, Kinds, QueueTypes, VersionTypes, LeaseTypes, FaultTypes
        <2>. QED
            BY <2>2, <2>3, <2>4, SameVersions DEF Steps
    <1>5. ASSUME NEW p \in Patterns, JudgeMatch(r, p) PROVE Steps(r)
        <2>. DEFINE label == IF patterns[p].draft # Nobody THEN "conflict" ELSE "submit"
                    row == [runs[r] EXCEPT !.pc = label, !.kind = "pattern_update",
                                           !.pattern = p, !.base = patterns[p].latest]
        <2>1. patterns[p].latest \in Revisions
            BY <1>5 DEF JudgeMatch, MatchCandidate, DeskTypes, PatternRow
        <2>2. /\ row \in RunRow /\ row.pc \in {"conflict", "submit"} /\ row.kind = "pattern_update"
              /\ row.version = runs[r].version /\ row.pattern = p /\ row.base \in Revisions
            BY <2>1 DEF QueueTypes, RunTypes, RunRow, RunLabels, Kinds
        <2>3. runs' = [runs EXCEPT ![r] = row] /\ versions' = versions /\ lease' = lease /\ faults' = faults
            BY <1>5 DEF JudgeMatch
        <2>. HIDE DEF row
        <2>4. RunTypes' /\ runs'[r] = row /\ \A q \in Runs : q # r => runs'[q] = runs[q]
            BY <2>2, <2>3 DEF QueueTypes, RunTypes
        <2>5. InHand(r)' /\ QueueTypes'
            BY <1>1, <2>2, <2>3, <2>4 DEF InHand, Kinds, QueueTypes, VersionTypes, LeaseTypes, FaultTypes
        <2>. QED
            BY <2>3, <2>4, <2>5, SameVersions DEF Steps
    <1>. QED
        BY <1>2, <1>3, <1>4, <1>5 DEF Analyse

LEMMA ReturnedIs ==
    ASSUME NEW x \in VersionRow
    PROVE  /\ Returned(x) \in VersionRow /\ Returned(x).status = "pending_ai"
           /\ Returned(x).attempts = IF x.attempts = 0 THEN 0 ELSE x.attempts - 1
    <1>1. /\ Returned(x).status = "pending_ai"
          /\ Returned(x).attempts = IF x.attempts = 0 THEN 0 ELSE x.attempts - 1
        BY DEF Returned, VersionRow
    <1>2. (IF x.attempts = 0 THEN 0 ELSE x.attempts - 1) \in 0 .. AttemptLimit + 1
        BY IntakeAssumption DEF VersionRow
    <1>. DEFINE left == IF x.attempts = 0 THEN 0 ELSE x.attempts - 1
    <1>3. Returned(x) = [x EXCEPT !.status = "pending_ai", !.holder = Nobody, !.live = FALSE, !.attempts = left]
        BY DEF Returned
    <1>4. ASSUME NEW n \in 0 .. AttemptLimit + 1
          PROVE  [x EXCEPT !.status = "pending_ai", !.holder = Nobody, !.live = FALSE, !.attempts = n] \in VersionRow
        BY <1>4 DEF VersionRow
    <1>. QED
        BY <1>1, <1>2, <1>3, <1>4

LEMMA ClosedIs ==
    ASSUME NEW x \in VersionRow, NEW status \in {"processed", "irrelevant", "error"}
    PROVE  /\ Closed(x, status) \in VersionRow /\ Closed(x, status).status = status
           /\ Closed(x, status).attempts = x.attempts
    BY DEF Closed, VersionRow

LEMMA DeferSteps ==
    ASSUME QueueTypes, RunInv, NEW r \in Runs, Defer(r)
    PROVE  Steps(r)
    <1>1. PICK w \in Versions : w = runs[r].version
        BY DEF Defer, DeferHeldUpdate, DeferConflict, At, RunInv, InHand
    <1>2. /\ RunTypes' /\ (\A q \in Runs : q # r => runs'[q] = runs[q]) /\ runs'[r].pc = "leave"
          /\ lease' = lease /\ faults' = faults
        BY LeavingShape DEF Defer, DeferHeldUpdate, DeferConflict, QueueTypes
    <1>3. versions' = versions \/ (Owns(r, w) /\ versions' = [versions EXCEPT ![w] = Returned(versions[w])])
        BY <1>1 DEF Defer, DeferHeldUpdate, DeferConflict, Holds
    <1>4. Returned(versions[w]) \in VersionRow
        BY ReturnedIs DEF QueueTypes, VersionTypes
    <1>5. QueueTypes'
        BY <1>2, <1>3, <1>4 DEF QueueTypes, VersionTypes, LeaseTypes, FaultTypes
    <1>6. \A v \in Versions : Moves(r, v)
        BY <1>3, ReturnedIs DEF Moves, Same, QueueTypes, VersionTypes
    <1>. QED
        BY <1>2, <1>5, <1>6, FreeInHand DEF Steps

LEMMA SubmitSteps ==
    ASSUME QueueTypes, RunInv, NEW r \in Runs, Submit(r)
    PROVE  Steps(r)
    <1>1. runs[r].version \in Versions /\ runs[r].kind \in Kinds
        BY DEF Submit, SubmitNewPattern, SubmitUpdate, At, RunInv, InHand
    <1>2. CASE Refused(r)
        BY <1>1, <1>2, RefusedSteps
    <1>3. CASE Reply(r, "policy") /\ UNCHANGED <<versions, changes, lease>>
        <2>1. /\ RunTypes' /\ FaultTypes' /\ \A q \in Runs : q # r => runs'[q] = runs[q]
              /\ runs'[r].pc \in {"policy", "fail"} /\ runs'[r].version = runs[r].version /\ runs'[r].kind = runs[r].kind
            BY <1>3, ReplyShape DEF RunLabels
        <2>2. InHand(r)' /\ QueueTypes'
            BY <1>1, <1>3, <2>1 DEF InHand, QueueTypes, VersionTypes, LeaseTypes
        <2>. QED
            BY <1>3, <2>1, <2>2, SameVersions DEF Steps
    <1>. QED
        BY <1>2, <1>3 DEF Submit, SubmitNewPattern, SubmitUpdate

LEMMA PolicySteps ==
    ASSUME QueueTypes, DeskTypes, RunInv, NEW r \in Runs, RecordPolicy(r)
    PROVE  Steps(r)
    <1>1. PICK v \in Versions, k \in Kinds : v = runs[r].version /\ k = runs[r].kind
        BY DEF RecordPolicy, At, RunInv, InHand
    <1>2. CASE Refused(r)
        BY <1>1, <1>2, RefusedSteps
    <1>3. CASE ~Refused(r)
        <2>1. /\ submissions' = [submissions EXCEPT ![<<v, k>>].policies = @ + 1]
              /\ Reply(r, "finish") /\ UNCHANGED <<versions, patterns, changes, lease>>
            BY <1>1, <1>3 DEF RecordPolicy
        <2>2. Recorded(v)'
            BY <2>1 DEF Recorded, DeskTypes, ItemRow, Submissions
        <2>3. /\ RunTypes' /\ FaultTypes' /\ \A q \in Runs : q # r => runs'[q] = runs[q]
              /\ runs'[r].pc \in {"finish", "fail"} /\ runs'[r].version = v
            BY <1>1, <2>1, ReplyShape DEF RunLabels
        <2>4. InHand(r)' /\ QueueTypes'
            BY <2>1, <2>2, <2>3 DEF InHand, QueueTypes, VersionTypes, LeaseTypes
        <2>. QED
            BY <2>1, <2>3, <2>4, SameVersions DEF Steps
    <1>. QED
        BY <1>2, <1>3

LEMMA FinishSteps ==
    ASSUME QueueTypes, RunInv, NEW r \in Runs, FinishStep(r)
    PROVE  Steps(r)
    <1>1. PICK w \in Versions : w = runs[r].version
        BY DEF FinishStep, FinishVersion, At, RunInv, InHand
    <1>2. CASE Refused(r)
        BY <1>1, <1>2, RefusedSteps
    <1>3. CASE ~Refused(r)
        <2>1. PICK status \in {"processed", "irrelevant"} :
                 /\ Owns(r, w) /\ versions' = [versions EXCEPT ![w] = Closed(versions[w], status)]
                 /\ \/ NextVersion(r) /\ UNCHANGED faults
                    \/ Goto(r, "fail") /\ Fault
                 /\ lease' = lease /\ (status = "processed" => At(r, "finish"))
            BY <1>1, <1>3 DEF FinishStep, FinishVersion, MayFinish
        <2>2. /\ RunTypes' /\ FaultTypes' /\ \A q \in Runs : q # r => runs'[q] = runs[q]
              /\ runs'[r].pc = "loop" \/ (runs'[r].pc = "fail" /\ runs'[r].version = w)
            BY <1>1, <2>1, NextVersionShape, GotoShape, FaultShape DEF QueueTypes, RunLabels
        <2>3. InHand(r)'
            BY <2>2, FreeInHand, FailInHand
        <2>4. status = "processed" => Recorded(w)
            BY <1>1, <2>1 DEF At, RunInv, InHand
        <2>5. versions[w] \in VersionRow
            BY DEF QueueTypes, VersionTypes
        <2>6. /\ Closed(versions[w], status) \in VersionRow /\ Closed(versions[w], status).status = status
              /\ Closed(versions[w], status).attempts = versions[w].attempts
            BY <2>5, ClosedIs
        <2>7. QueueTypes'
            BY <2>1, <2>2, <2>6 DEF QueueTypes, VersionTypes, LeaseTypes
        <2>8. \A v \in Versions : Moves(r, v)
            BY <2>1, <2>4, <2>6 DEF Moves, Same, QueueTypes, VersionTypes
        <2>. QED
            BY <2>2, <2>3, <2>7, <2>8 DEF Steps
    <1>. QED
        BY <1>2, <1>3

LEMMA FailSteps ==
    ASSUME QueueTypes, RunInv, NEW r \in Runs, FailVersion(r)
    PROVE  Steps(r)
    <1>1. PICK w \in Versions : w = runs[r].version
        BY DEF FailVersion, At, RunInv, InHand
    <1>2. /\ RunTypes' /\ (\A q \in Runs : q # r => runs'[q] = runs[q]) /\ runs'[r].pc = "leave"
          /\ lease' = lease /\ faults' = faults
        BY LeavingShape DEF FailVersion, QueueTypes
    <1>3. \/ Owns(r, w) /\ versions' = [versions EXCEPT ![w] = Closed(versions[w], "error")]
          \/ versions' = [versions EXCEPT ![w] = versions[w]]
        BY <1>1 DEF FailVersion, MayFinish
    <1>4. versions[w] \in VersionRow
        BY DEF QueueTypes, VersionTypes
    <1>5. /\ Closed(versions[w], "error") \in VersionRow /\ Closed(versions[w], "error").status = "error"
          /\ Closed(versions[w], "error").attempts = versions[w].attempts
        BY <1>4, ClosedIs
    <1>6. QueueTypes'
        BY <1>2, <1>3, <1>4, <1>5 DEF QueueTypes, VersionTypes, LeaseTypes, FaultTypes
    <1>7. \A v \in Versions : Moves(r, v)
        BY <1>3, <1>5 DEF Moves, Same, QueueTypes, VersionTypes
    <1>. QED
        BY <1>2, <1>6, <1>7, FreeInHand DEF Steps

\* The end of a run and its death free what it held.
LEMMA EndSteps ==
    ASSUME QueueTypes, NEW r \in Runs, ReleaseLease(r) \/ Crash(r)
    PROVE  Steps(r)
    <1>1. versions' = Orphaned(r) /\ runs' = [runs EXCEPT ![r] = Idle]
        BY DEF ReleaseLease, Crash
    <1>2. VersionTypes' /\ \A v \in Versions : Same(v)
        BY <1>1 DEF QueueTypes, VersionTypes, VersionRow, Orphaned, Same
    <1>3. Idle \in RunRow /\ Idle.pc = "idle"
        BY DEF Idle, RunRow, RunLabels
    <1>4. RunTypes' /\ runs'[r].pc = "idle" /\ \A q \in Runs : q # r => runs'[q] = runs[q]
        BY <1>1, <1>3 DEF QueueTypes, RunTypes
    <1>5. LeaseTypes'
        <2>1. CASE ReleaseLease(r)
            BY <2>1 DEF ReleaseLease, QueueTypes, LeaseTypes
        <2>2. CASE Crash(r)
            BY <2>2 DEF Crash, QueueTypes, LeaseTypes
        <2>. QED
            BY <2>1, <2>2
    <1>6. FaultTypes'
        BY FaultShape DEF ReleaseLease, Crash, QueueTypes
    <1>. QED
        BY <1>2, <1>4, <1>5, <1>6, FreeInHand DEF Steps, QueueTypes, Moves

\* Time alone never changes what a version is.
LEMMA LapseKeeps ==
    ASSUME QueueTypes, (\E w \in Versions : ClaimLapses(w)) \/ LeaseLapses
    PROVE  QueueTypes' /\ runs' = runs /\ \A v \in Versions : Same(v)
    <1>1. ASSUME NEW w \in Versions, ClaimLapses(w)
          PROVE  QueueTypes' /\ runs' = runs /\ \A v \in Versions : Same(v)
        <2>1. versions' = [versions EXCEPT ![w].live = FALSE] /\ lease' = lease /\ runs' = runs
            BY <1>1 DEF ClaimLapses
        <2>2. VersionTypes' /\ \A v \in Versions : Same(v)
            BY <2>1 DEF QueueTypes, VersionTypes, VersionRow, Same
        <2>3. FaultTypes'
            BY <1>1, FaultShape DEF ClaimLapses, QueueTypes
        <2>. QED
            BY <2>1, <2>2, <2>3 DEF QueueTypes, LeaseTypes, RunTypes
    <1>2. ASSUME LeaseLapses
          PROVE  QueueTypes' /\ runs' = runs /\ \A v \in Versions : Same(v)
        BY <1>2 DEF LeaseLapses, QueueTypes, LeaseTypes, VersionTypes, RunTypes, FaultTypes, Same
    <1>. QED
        BY <1>1, <1>2

-----------------------------------------------------------------------------
(* The steps of the desk: types, and that nothing recorded is withdrawn.      *)

LEMMA RowUp == \A p \in Patterns : DeskTypes /\ patterns[p].row < RowCap => patterns[p].row + 1 \in 0 .. RowCap + 1
    BY IntakeAssumption DEF DeskTypes, PatternRow

LEMMA ItemWrite ==
    ASSUME DeskTypes, NEW s \in Submissions, NEW x \in ItemRow, submissions' = [submissions EXCEPT ![s] = x],
           submissions[s].status # "none" => x.status # "none",
           x.policies >= submissions[s].policies,
           submissions[s].status = "rejected" => x.status = "rejected"
    PROVE  submissions' \in [Submissions -> ItemRow] /\ DeskGrows
    <1>1. submissions' \in [Submissions -> ItemRow] /\ submissions'[s] = x
          /\ \A t \in Submissions : t # s => submissions'[t] = submissions[t]
        BY DEF DeskTypes
    <1>2. \A t \in Submissions : submissions[t].policies \in Nat
        BY DEF DeskTypes, ItemRow
    <1>. QED
        BY <1>1, <1>2 DEF DeskGrows

LEMMA PatternWrite ==
    ASSUME DeskTypes, NEW p \in Patterns, NEW y \in PatternRow, patterns' = [patterns EXCEPT ![p] = y]
    PROVE  patterns' \in [Patterns -> PatternRow]
    BY DEF DeskTypes

LEMMA DeskStill ==
    ASSUME DeskTypes, submissions' = submissions
    PROVE  submissions' \in [Submissions -> ItemRow] /\ DeskGrows
    BY DEF DeskTypes, DeskGrows, ItemRow

LEMMA ReviewTypes ==
    ASSUME DeskTypes, DeskInv, Review
    PROVE  DeskTypes' /\ DeskGrows
    <1>1. ASSUME NEW s \in Submissions, Approve(s) PROVE DeskTypes' /\ DeskGrows
        <2>1. Open(s)
            BY <1>1 DEF Approve, Approvable
        <2>2. PICK p \in Patterns : p = PatternOf(s)
            BY <2>1, OpenItem
        <2>. DEFINE x == [submissions[s] EXCEPT !.status = "approved", !.revision = "approved", !.evidence = "accepted"]
                    y == [lifecycle |-> "review_ready", row |-> patterns[p].row + 1, latest |-> s, draft |-> Nobody]
        <2>3. x \in ItemRow /\ x.status = "approved" /\ x.policies = submissions[s].policies /\ submissions[s].policies \in Nat
            BY DEF DeskTypes, ItemRow
        <2>10. x.policies >= submissions[s].policies
            BY <2>3
        <2>4. patterns[p].row + 1 \in 0 .. RowCap + 1
            BY <1>1, <2>2, RowUp DEF Approve
        <2>5. y \in PatternRow
            BY <2>4, Keys DEF PatternRow
        <2>6. /\ submissions' = [submissions EXCEPT ![s] = x] /\ patterns' = [patterns EXCEPT ![p] = y]
              /\ changes' = [changes EXCEPT ![p] = [action |-> "publish", row |-> patterns[p].row + 1]]
            BY <1>1, <2>2 DEF Approve
        <2>7. changes' \in [Patterns -> ChangeRow]
            BY <2>4, <2>6 DEF DeskTypes, ChangeRow
        <2>. HIDE DEF x, y
        <2>8. submissions' \in [Submissions -> ItemRow] /\ DeskGrows
            BY <2>1, <2>3, <2>6, <2>10, ItemWrite DEF Open, OpenStatus
        <2>9. patterns' \in [Patterns -> PatternRow]
            BY <2>5, <2>6, PatternWrite
        <2>. QED
            BY <2>7, <2>8, <2>9 DEF DeskTypes
    <1>2. ASSUME NEW s \in Submissions, RejectUpdate(s) PROVE DeskTypes' /\ DeskGrows
        <2>1. Open(s)
            BY <1>2 DEF RejectUpdate, Rejectable
        <2>2. PICK p \in Patterns : p = PatternOf(s)
            BY <2>1, OpenItem
        <2>. DEFINE life == IF submissions[s].status = "needs_evidence" THEN "review_ready" ELSE patterns[p].lifecycle
                    y == [patterns[p] EXCEPT !.draft = Nobody, !.row = patterns[p].row + 1, !.lifecycle = life]
        <2>3. /\ RejectedRows(submissions[s]) \in ItemRow /\ RejectedRows(submissions[s]).status = "rejected"
              /\ RejectedRows(submissions[s]).policies = submissions[s].policies /\ submissions[s].policies \in Nat
            BY DEF DeskTypes, ItemRow, RejectedRows
        <2>9. RejectedRows(submissions[s]).policies >= submissions[s].policies
            BY <2>3
        <2>4. patterns[p].row + 1 \in 0 .. RowCap + 1
            BY <1>2, <2>2, RowUp DEF RejectUpdate
        <2>5. y \in PatternRow
            BY <2>4 DEF DeskTypes, PatternRow
        <2>6. /\ submissions' = [submissions EXCEPT ![s] = RejectedRows(submissions[s])]
              /\ patterns' = [patterns EXCEPT ![p] = y] /\ changes' = changes
            BY <1>2, <2>2 DEF RejectUpdate
        <2>. HIDE DEF y
        <2>7. submissions' \in [Submissions -> ItemRow] /\ DeskGrows
            BY <2>3, <2>6, <2>9, ItemWrite
        <2>8. patterns' \in [Patterns -> PatternRow]
            BY <2>5, <2>6, PatternWrite
        <2>. QED
            BY <2>6, <2>7, <2>8 DEF DeskTypes
    <1>3. ASSUME NEW s \in Submissions, RejectNew(s) PROVE DeskTypes' /\ DeskGrows
        <2>1. Open(s)
            BY <1>3 DEF RejectNew, Rejectable
        <2>2. PICK p \in Patterns : p = PatternOf(s)
            BY <2>1, OpenItem
        <2>. DEFINE x == [submissions[s] EXCEPT !.status = "rejected"]
                    y == [patterns[p] EXCEPT !.lifecycle = "rejected", !.row = patterns[p].row + 1]
        <2>3. x \in ItemRow /\ x.status = "rejected" /\ x.policies >= submissions[s].policies
            BY DEF DeskTypes, ItemRow
        <2>4. patterns[p].row + 1 \in 0 .. RowCap + 1
            BY <1>3, <2>2, RowUp DEF RejectNew
        <2>5. y \in PatternRow
            BY <2>4 DEF DeskTypes, PatternRow
        <2>6. /\ submissions' = [submissions EXCEPT ![s] = x] /\ changes' = changes
              /\ patterns' = [patterns EXCEPT ![p] = y] \/ patterns' = patterns
            BY <1>3, <2>2 DEF RejectNew
        <2>. HIDE DEF x, y
        <2>7. submissions' \in [Submissions -> ItemRow] /\ DeskGrows
            BY <2>3, <2>6, ItemWrite
        <2>8. patterns' \in [Patterns -> PatternRow]
            BY <2>5, <2>6, PatternWrite DEF DeskTypes
        <2>. QED
            BY <2>6, <2>7, <2>8 DEF DeskTypes
    <1>4. ASSUME NEW s \in Submissions, Hold(s) PROVE DeskTypes' /\ DeskGrows
        <2>1. submissions[s].status = "pending" /\ Open(s)
            BY <1>4 DEF Hold, Open, OpenStatus
        <2>2. PICK p \in Patterns : p = PatternOf(s)
            BY <2>1, OpenItem
        <2>. DEFINE x == [submissions[s] EXCEPT !.status = "needs_evidence"]
        <2>3. x \in ItemRow /\ x.status = "needs_evidence" /\ x.policies >= submissions[s].policies
            BY DEF DeskTypes, ItemRow
        <2>4. patterns[p].row + 1 \in 0 .. RowCap + 1
            BY <1>4, <2>2, RowUp DEF Hold
        <2>5. HeldRow(patterns[p], s[2]) \in PatternRow
            BY <2>4 DEF DeskTypes, PatternRow, HeldRow
        <2>6. /\ submissions' = [submissions EXCEPT ![s] = x] /\ changes' = changes
              /\ patterns' = [patterns EXCEPT ![p] = HeldRow(patterns[p], s[2])]
            BY <1>4, <2>2 DEF Hold
        <2>. HIDE DEF x
        <2>7. submissions' \in [Submissions -> ItemRow] /\ DeskGrows
            BY <2>1, <2>3, <2>6, ItemWrite
        <2>8. patterns' \in [Patterns -> PatternRow]
            BY <2>5, <2>6, PatternWrite
        <2>. QED
            BY <2>6, <2>7, <2>8 DEF DeskTypes
    <1>5. ASSUME NEW p \in Patterns, Archive(p) \/ Unpublish(p) PROVE DeskTypes' /\ DeskGrows
        <2>1. patterns[p].row + 1 \in 0 .. RowCap + 1
            BY <1>5, RowUp DEF Archive, Unpublish
        <2>2. [patterns[p] EXCEPT !.lifecycle = "archived", !.row = patterns[p].row + 1] \in PatternRow
            BY <2>1 DEF DeskTypes, PatternRow
        <2>3. [patterns[p] EXCEPT !.row = patterns[p].row + 1] \in PatternRow
            BY <2>1 DEF DeskTypes, PatternRow
        <2>4. patterns' \in [Patterns -> PatternRow]
            <3>1. CASE Archive(p)
                BY <2>2, <3>1, PatternWrite DEF Archive
            <3>2. CASE Unpublish(p)
                BY <2>3, <3>2, PatternWrite DEF Unpublish
            <3>. QED
                BY <1>5, <3>1, <3>2
        <2>5. changes' \in [Patterns -> ChangeRow]
            BY <1>5, <2>1 DEF Archive, Unpublish, DeskTypes, ChangeRow
        <2>6. submissions' = submissions
            BY <1>5 DEF Archive, Unpublish
        <2>. QED
            BY <2>4, <2>5, <2>6, DeskStill DEF DeskTypes
    <1>. QED
        BY <1>1, <1>2, <1>3, <1>4, <1>5 DEF Review

LEMMA SubmitTypes ==
    ASSUME DeskTypes, DeskInv, RunInv, NEW r \in Runs, Submit(r)
    PROVE  DeskTypes' /\ DeskGrows
    <1>1. PICK v \in Versions : v = runs[r].version
        BY DEF Submit, SubmitNewPattern, SubmitUpdate, At, RunInv, InHand
    <1>4. \A s \in Submissions : submissions[s].status = "none" => submissions[s] = NoSubmission
        BY DEF DeskInv, ItemInv
    <1>2. CASE UNCHANGED <<patterns, submissions, changes>>
        BY <1>2, DeskStill DEF DeskTypes
    <1>3. CASE SubmitNewPattern(r) /\ ~UNCHANGED <<patterns, submissions, changes>>
        <2>1. /\ submissions' = [submissions EXCEPT ![New(v)] = Submitted(v, 1)] /\ changes' = changes
              /\ submissions[New(v)].status = "none"
              /\ \E status \in {"review_ready", "evidence_pending"} :
                    patterns' = [patterns EXCEPT ![v] = [lifecycle |-> status, row |-> 1, latest |-> Nobody, draft |-> New(v)]]
            BY <1>1, <1>3 DEF SubmitNewPattern, Refused
        <2>2. Submitted(v, 1) \in ItemRow /\ Submitted(v, 1).status = "pending" /\ Submitted(v, 1).policies = 0
            BY IntakeAssumption, Keys DEF Submitted, ItemRow
        <2>3. patterns' \in [Patterns -> PatternRow]
            BY <2>1, IntakeAssumption, Keys DEF DeskTypes, PatternRow
        <2>4. Submitted(v, 1).policies >= submissions[New(v)].policies
            BY <2>1, <2>2, <1>4, Keys DEF NoSubmission
        <2>5. submissions' \in [Submissions -> ItemRow] /\ DeskGrows
            BY <2>1, <2>2, <2>4, Keys, ItemWrite
        <2>. QED
            BY <2>1, <2>3, <2>5 DEF DeskTypes
    <1>5. CASE SubmitUpdate(r) /\ ~UNCHANGED <<patterns, submissions, changes>>
        <2>1. PICK p \in Patterns : p = runs[r].pattern
            BY <1>5 DEF SubmitUpdate, At, RunInv, InHand
        <2>2. /\ submissions' = [submissions EXCEPT ![Update(v)] = Submitted(p, patterns[p].row)] /\ changes' = changes
              /\ patterns' = [patterns EXCEPT ![p].draft = Update(v)] /\ submissions[Update(v)].status = "none"
            BY <1>1, <1>5, <2>1 DEF SubmitUpdate, Refused, Committed
        <2>3. patterns[p].row \in 0 .. RowCap + 1
            BY DEF DeskTypes, PatternRow
        <2>4. /\ Submitted(p, patterns[p].row) \in ItemRow /\ Submitted(p, patterns[p].row).status = "pending"
              /\ Submitted(p, patterns[p].row).policies = 0
            BY <2>3 DEF Submitted, ItemRow
        <2>5. Submitted(p, patterns[p].row).policies >= submissions[Update(v)].policies
            BY <2>2, <2>4, <1>4, Keys DEF NoSubmission
        <2>6. submissions' \in [Submissions -> ItemRow] /\ DeskGrows
            BY <2>2, <2>4, <2>5, Keys, ItemWrite
        <2>7. patterns' \in [Patterns -> PatternRow]
            BY <2>2, Keys DEF DeskTypes, PatternRow
        <2>. QED
            BY <2>2, <2>6, <2>7 DEF DeskTypes
    <1>. QED
        BY <1>2, <1>3, <1>5 DEF Submit

LEMMA PolicyTypes ==
    ASSUME DeskTypes, RunInv, NEW r \in Runs, RecordPolicy(r)
    PROVE  DeskTypes' /\ DeskGrows
    <1>1. PICK s \in Submissions : s = <<runs[r].version, runs[r].kind>>
        BY DEF RecordPolicy, At, RunInv, InHand, Submissions
    <1>2. CASE UNCHANGED <<patterns, submissions, changes>>
        BY <1>2, DeskStill DEF DeskTypes
    <1>3. CASE ~UNCHANGED <<patterns, submissions, changes>>
        <2>. DEFINE x == [submissions[s] EXCEPT !.policies = submissions[s].policies + 1]
        <2>1. x \in ItemRow /\ x.status = submissions[s].status /\ x.policies >= submissions[s].policies
            BY DEF DeskTypes, ItemRow
        <2>2. submissions' = [submissions EXCEPT ![s] = x] /\ patterns' = patterns /\ changes' = changes
            BY <1>1, <1>3 DEF RecordPolicy, Refused
        <2>. HIDE DEF x
        <2>3. submissions' \in [Submissions -> ItemRow] /\ DeskGrows
            BY <2>1, <2>2, ItemWrite
        <2>. QED
            BY <2>2, <2>3 DEF DeskTypes
    <1>. QED
        BY <1>2, <1>3

-----------------------------------------------------------------------------
(* Every step.                                                                *)

LEMMA RunActs ==
    ASSUME IntakeInv, NEW r \in Runs, AcquireLease(r) \/ Collect(r) \/ RunStep(r) \/ Crash(r)
    PROVE  DeskTypes' /\ DeskGrows /\ DeskInv' /\ Steps(r)
    <1>1. QueueTypes /\ DeskTypes /\ DeskInv /\ RunInv
        BY Types DEF IntakeInv, QueueInv, QueueTypes
    <1>2. ASSUME UNCHANGED <<patterns, submissions, changes>> PROVE DeskTypes' /\ DeskGrows /\ DeskInv'
        BY <1>1, <1>2, DeskStill, DeskUnchanged DEF DeskTypes
    <1>3. CASE AcquireLease(r) \/ EndCollection(r) \/ CollectionFails(r) \/ NothingToClaim(r)
        <2>1. UNCHANGED <<patterns, submissions, changes>>
            BY <1>3 DEF AcquireLease, EndCollection, CollectionFails, NothingToClaim
        <2>. QED
            BY <1>1, <1>2, <1>3, <2>1, CollectSteps
    <1>4. ASSUME NEW v \in Versions, IngestVersion(r, v) PROVE DeskTypes' /\ DeskGrows /\ DeskInv' /\ Steps(r)
        <2>1. UNCHANGED <<patterns, submissions, changes>>
            BY <1>4 DEF IngestVersion
        <2>. QED
            BY <1>1, <1>2, <1>4, <2>1, IngestSteps
    <1>5. ASSUME NEW v \in Versions, ClaimVersion(r, v) PROVE DeskTypes' /\ DeskGrows /\ DeskInv' /\ Steps(r)
        <2>1. UNCHANGED <<patterns, submissions, changes>>
            BY <1>5 DEF ClaimVersion
        <2>. QED
            BY <1>1, <1>2, <1>5, <2>1, ClaimSteps
    <1>6. CASE ReadRecovery(r)
        <2>1. UNCHANGED <<patterns, submissions, changes>>
            BY <1>6 DEF ReadRecovery
        <2>. QED
            BY <1>1, <1>2, <1>6, <2>1, RecoverySteps
    <1>7. CASE Analyse(r)
        <2>1. UNCHANGED <<patterns, submissions, changes>>
            BY <1>7 DEF Analyse, AnalysisFails, Refused, JudgeIrrelevant, JudgeNew, JudgeMatch
        <2>. QED
            BY <1>1, <1>2, <1>7, <2>1, AnalyseSteps
    <1>8. CASE Defer(r)
        <2>1. UNCHANGED <<patterns, submissions, changes>>
            BY <1>8 DEF Defer, DeferHeldUpdate, DeferConflict
        <2>. QED
            BY <1>1, <1>2, <1>8, <2>1, DeferSteps
    <1>9. CASE Submit(r)
        <2>1. DeskTypes' /\ DeskGrows
            BY <1>1, <1>9, SubmitTypes
        <2>2. CASE SubmitNewPattern(r)
            <3>1. runs[r].version \in Versions
                BY <1>1, <2>2 DEF SubmitNewPattern, At, RunInv, InHand
            <3>. QED
                BY <1>1, <1>9, <2>1, <2>2, <3>1, SubmitNewKeeps, SubmitSteps
        <2>3. CASE SubmitUpdate(r)
            <3>1. runs[r].version \in Versions /\ runs[r].pattern \in Patterns /\ runs[r].base \in Revisions
                BY <1>1, <2>3 DEF SubmitUpdate, At, RunInv, InHand
            <3>. QED
                BY <1>1, <1>9, <2>1, <2>3, <3>1, SubmitUpdateKeeps, SubmitSteps
        <2>. QED
            BY <1>9, <2>2, <2>3 DEF Submit
    <1>10. CASE RecordPolicy(r)
        <2>1. DeskTypes' /\ DeskGrows
            BY <1>1, <1>10, PolicyTypes
        <2>2. runs[r].version \in Versions /\ runs[r].kind \in Kinds
            BY <1>1, <1>10 DEF RecordPolicy, At, RunInv, InHand
        <2>. QED
            BY <1>1, <1>10, <2>1, <2>2, RecordPolicyKeeps, PolicySteps
    <1>11. CASE FinishStep(r)
        <2>1. UNCHANGED <<patterns, submissions, changes>>
            BY <1>11 DEF FinishStep, FinishVersion, Refused
        <2>. QED
            BY <1>1, <1>2, <1>11, <2>1, FinishSteps
    <1>12. CASE FailVersion(r)
        <2>1. UNCHANGED <<patterns, submissions, changes>>
            BY <1>12 DEF FailVersion
        <2>. QED
            BY <1>1, <1>2, <1>12, <2>1, FailSteps
    <1>13. CASE ReleaseLease(r) \/ Crash(r)
        <2>1. UNCHANGED <<patterns, submissions, changes>>
            BY <1>13 DEF ReleaseLease, Crash
        <2>. QED
            BY <1>1, <1>2, <1>13, <2>1, EndSteps
    <1>. QED
        BY <1>3, <1>4, <1>5, <1>6, <1>7, <1>8, <1>9, <1>10, <1>11, <1>12, <1>13 DEF Collect, RunStep, Claim

LEMMA ReviewActs ==
    ASSUME IntakeInv, Review
    PROVE  /\ DeskTypes' /\ DeskGrows /\ DeskInv'
           /\ QueueTypes' /\ runs' = runs /\ \A v \in Versions : Same(v)
    <1>1. QueueTypes /\ DeskTypes /\ DeskInv
        BY Types DEF IntakeInv, QueueInv, QueueTypes
    <1>2. DeskTypes' /\ DeskGrows
        BY <1>1, ReviewTypes
    <1>3. DeskInv'
        BY <1>1, <1>2, ApproveKeeps, RejectUpdateKeeps, RejectNewKeeps, HoldKeeps, ArchiveKeeps, UnpublishKeeps DEF Review
    <1>4. versions' = versions /\ lease' = lease /\ runs' = runs /\ faults' = faults
        BY DEF Review, Approve, RejectUpdate, RejectNew, Hold, Archive, Unpublish
    <1>. QED
        BY <1>1, <1>2, <1>3, <1>4 DEF QueueTypes, VersionTypes, LeaseTypes, RunTypes, FaultTypes, Same

LEMMA TimeActs ==
    ASSUME IntakeInv, (\E v \in Versions : ClaimLapses(v)) \/ LeaseLapses \/ UNCHANGED vars
    PROVE  /\ DeskTypes' /\ DeskGrows /\ DeskInv'
           /\ QueueTypes' /\ runs' = runs /\ \A v \in Versions : Same(v)
    <1>1. QueueTypes /\ DeskTypes /\ DeskInv
        BY Types DEF IntakeInv, QueueInv, QueueTypes
    <1>2. UNCHANGED <<patterns, submissions, changes>>
        BY DEF ClaimLapses, LeaseLapses, vars
    <1>3. DeskTypes' /\ DeskGrows /\ DeskInv'
        BY <1>1, <1>2, DeskStill, DeskUnchanged DEF DeskTypes
    <1>4. CASE UNCHANGED vars
        BY <1>1, <1>3, <1>4 DEF vars, QueueTypes, VersionTypes, LeaseTypes, RunTypes, FaultTypes, Same
    <1>. QED
        BY <1>1, <1>3, <1>4, LapseKeeps

LEMMA StepKeeps ==
    ASSUME IntakeInv, [Next]_vars
    PROVE  IntakeInv'
    <1>1. QueueTypes /\ DeskTypes /\ RunInv /\ AttemptInv /\ DeferredStaysClaimable /\ ProcessedIsRecorded
        BY Types DEF IntakeInv, QueueInv, QueueTypes
    <1>2. ASSUME DeskTypes', DeskGrows, DeskInv', QueueTypes', RunInv',
                 \A v \in Versions : Same(v) \/ \E r \in Runs : Moves(r, v)
          PROVE  IntakeInv'
        <2>1. (AttemptInv /\ DeferredStaysClaimable /\ ProcessedIsRecorded)'
            BY <1>1, <1>2, VersionsKeep DEF QueueTypes
        <2>2. IntakeTypeOK'
            BY <1>2 DEF QueueTypes, IntakeTypeOK, VersionTypes, DeskTypes, LeaseTypes, RunTypes, FaultTypes,
                        VersionRow, RunRow, PatternRow, ItemRow, ChangeRow
        <2>. QED
            BY <1>2, <2>1, <2>2 DEF IntakeInv, QueueInv
    <1>3. ASSUME NEW r \in Runs, AcquireLease(r) \/ Collect(r) \/ RunStep(r) \/ Crash(r)
          PROVE  IntakeInv'
        <2>1. DeskTypes' /\ DeskGrows /\ DeskInv' /\ Steps(r)
            BY <1>3, RunActs
        <2>2. ASSUME NEW q \in Runs PROVE InHand(q)'
            <3>1. InHand(q)
                BY <1>1 DEF RunInv
            <3>. QED
                BY <1>1, <2>1, <3>1, HandKept DEF Steps
        <2>3. RunInv' /\ QueueTypes' /\ \A v \in Versions : Moves(r, v)
            BY <2>1, <2>2 DEF RunInv, Steps
        <2>. QED
            BY <1>2, <2>1, <2>3
    <1>4. ASSUME Review \/ (\E v \in Versions : ClaimLapses(v)) \/ LeaseLapses \/ UNCHANGED vars
          PROVE  IntakeInv'
        <2>1. /\ DeskTypes' /\ DeskGrows /\ DeskInv'
              /\ QueueTypes' /\ runs' = runs /\ \A v \in Versions : Same(v)
            BY <1>4, ReviewActs, TimeActs
        <2>2. ASSUME NEW q \in Runs PROVE InHand(q)'
            <3>1. InHand(q)
                BY <1>1 DEF RunInv
            <3>. QED
                BY <1>1, <2>1, <3>1, HandKept
        <2>3. RunInv'
            BY <2>2 DEF RunInv
        <2>. QED
            BY <1>2, <2>1, <2>3
    <1>. QED
        BY <1>3, <1>4 DEF Next

LEMMA InitKeeps == Init => IntakeInv
    <1>. SUFFICES ASSUME Init PROVE IntakeInv
        OBVIOUS
    <1>1. /\ \A v \in Versions : versions[v].status = "absent" /\ versions[v].attempts = 0
          /\ \A s \in Submissions : submissions[s] = NoSubmission
          /\ \A p \in Existing : /\ patterns[p].lifecycle = "review_ready" /\ patterns[p].row = 1
                                 /\ patterns[p].latest = <<p, "base">> /\ patterns[p].draft = Nobody
                                 /\ changes[p].row = 1
          /\ \A p \in Versions : /\ patterns[p].lifecycle = "none" /\ patterns[p].row = 0
                                 /\ patterns[p].latest = Nobody /\ patterns[p].draft = Nobody
                                 /\ changes[p].row = 0 /\ changes[p].action = "none"
          /\ \A r \in Runs : runs[r] = Idle
        BY IntakeAssumption DEF Init, Patterns
    <1>2. DeskTypes
        <2>1. NoSubmission \in ItemRow
            BY IntakeAssumption DEF NoSubmission, ItemRow
        <2>2. \A p \in Existing : [lifecycle |-> "review_ready", row |-> 1, latest |-> <<p, "base">>, draft |-> Nobody] \in PatternRow
            <3>1. 1 \in 0 .. RowCap + 1
                BY IntakeAssumption
            <3>. QED
                BY <3>1, BaseIsNoItem DEF PatternRow
        <2>3. [lifecycle |-> "none", row |-> 0, latest |-> Nobody, draft |-> Nobody] \in PatternRow
            BY IntakeAssumption DEF PatternRow
        <2>4. patterns \in [Patterns -> PatternRow]
            BY <2>2, <2>3 DEF Init
        <2>5. changes \in [Patterns -> ChangeRow]
            BY IntakeAssumption DEF Init, ChangeRow
        <2>. QED
            BY <2>1, <2>4, <2>5 DEF Init, DeskTypes
    <1>3. QueueTypes
        <2>1. [status |-> "absent", holder |-> Nobody, live |-> FALSE, attempts |-> 0] \in VersionRow
            BY IntakeAssumption DEF VersionRow
        <2>2. Idle \in RunRow
            BY DEF Idle, RunRow, RunLabels
        <2>3. VersionTypes /\ RunTypes /\ FaultTypes
            BY <2>1, <2>2, IntakeAssumption DEF Init, VersionTypes, RunTypes, FaultTypes
        <2>4. LeaseTypes
            BY DEF Init, LeaseTypes
        <2>. QED
            BY <2>3, <2>4 DEF QueueTypes
    <1>4. \A s \in Submissions : submissions[s].status = "none" /\ ~Open(s)
        BY <1>1 DEF NoSubmission, Open, OpenStatus
    <1>5. ItemInv /\ UpdateInv
        BY <1>1, <1>4, Keys DEF ItemInv, UpdateInv, Committed
    <1>6. FoundingInv
        BY <1>1, <1>4, Keys DEF FoundingInv
    <1>7. RowInv
        <2>1. /\ \A p \in Patterns : changes[p].row <= patterns[p].row
              /\ \A p \in Patterns : patterns[p].latest # Nobody => patterns[p].lifecycle # "none"
            BY <1>1 DEF Patterns
        <2>2. \A p \in Existing : patterns[p].latest # Nobody
            BY <1>1, BaseIsNoItem, Nulls
        <2>. QED
            BY <1>4, <2>1, <2>2 DEF RowInv
    <1>8. OneOpenDraft
        BY <1>1, <1>4, Keys, Nulls DEF OneOpenDraft, Patterns
    <1>9. ApprovedIsBacked
        BY <1>1, BaseIsNoItem, Nulls DEF ApprovedIsBacked, Patterns
    <1>10. RunInv
        BY <1>1 DEF RunInv, InHand, Idle
    <1>11. AttemptInv /\ DeferredStaysClaimable /\ ProcessedIsRecorded
        BY <1>1, IntakeAssumption DEF AttemptInv, DeferredStaysClaimable, ProcessedIsRecorded
    <1>. QED
        BY <1>2, <1>3, <1>5, <1>6, <1>7, <1>8, <1>9, <1>10, <1>11, Types DEF IntakeInv, DeskInv, QueueInv, QueueTypes

THEOREM IntakeInvariant == Spec => []IntakeInv
    <1>1. Init => IntakeInv
        BY InitKeeps
    <1>2. IntakeInv /\ [Next]_vars => IntakeInv'
        BY StepKeeps
    <1>. QED
        BY <1>1, <1>2, PTL DEF Spec

-----------------------------------------------------------------------------
(* The theorems.                                                              *)

\* Types: every row of the database and every run stays within its columns,
\* the attempt count one above the ceiling included.
THEOREM IntakeTypeCorrect == Spec => []IntakeTypeOK
    <1>. IntakeInv => IntakeTypeOK
        BY DEF IntakeInv
    <1>. QED
        BY IntakeInvariant, PTL

\* The draft slot of an approved pattern and its open update review are one,
\* however late submit_pattern_candidate acts on the candidate list it read.
THEOREM OneOpenDraftTheorem == Spec => []OneOpenDraft
    <1>. IntakeInv => OneOpenDraft
        BY DEF IntakeInv, DeskInv
    <1>. QED
        BY IntakeInvariant, PTL

\* What approve_review_item left as the approved revision rests on accepted
\* evidence and a recorded policy decision.
THEOREM ApprovedIsBackedTheorem == Spec => []ApprovedIsBacked
    <1>. IntakeInv => ApprovedIsBacked
        BY DEF IntakeInv, DeskInv
    <1>. QED
        BY IntakeInvariant, PTL

\* finish_source_version is only reached with the outcome on record.
THEOREM ProcessedIsRecordedTheorem == Spec => []ProcessedIsRecorded
    <1>. IntakeInv => ProcessedIsRecorded
        BY DEF IntakeInv, QueueInv
    <1>. QED
        BY IntakeInvariant, PTL

\* A deferral hands its attempt back: what waits in pending_ai can be claimed.
THEOREM DeferredStaysClaimableTheorem == Spec => []DeferredStaysClaimable
    <1>. IntakeInv => DeferredStaysClaimable
        BY DEF IntakeInv, QueueInv
    <1>. QED
        BY IntakeInvariant, PTL

LEMMA ResolvedReceipt == IntakeInv => ResolvedUpdateFinishes
    <1>. SUFFICES ASSUME IntakeInv, NEW v \in Versions,
                         submissions[Update(v)].status \in {"approved", "rejected"}, ~Ambiguous(v)
                  PROVE  Receipt(v) = "finish"
        BY DEF ResolvedUpdateFinishes
    <1>1. DeskTypes /\ DeskInv
        BY Types DEF IntakeInv
    <1>2. PICK p \in Patterns : p = submissions[Update(v)].pattern
        BY <1>1, Keys DEF DeskInv, ItemInv
    <1>3. Committed(v) /\ ~Open(Update(v))
        BY DEF Committed, Open, OpenStatus
    <1>4. patterns[p].latest # Nobody /\ patterns[p].draft # Update(v)
        BY <1>1, <1>2, <1>3 DEF DeskInv, UpdateInv, OneOpenDraft
    <1>5. submissions[Update(v)].policies \in Nat /\ submissions[Update(v)].policies <= 1
        BY <1>1, Keys DEF DeskTypes, ItemRow, Ambiguous
    <1>6. CASE submissions[Update(v)].status = "approved"
        <2>1. /\ submissions[Update(v)].policies = 1 /\ submissions[Update(v)].revision = "approved"
              /\ submissions[Update(v)].evidence = "accepted"
            BY <1>1, <1>5, <1>6, Keys DEF DeskInv, ItemInv
        <2>. QED
            BY <1>2, <1>3, <1>4, <1>6, <2>1 DEF Receipt
    <1>7. CASE submissions[Update(v)].status = "rejected"
        <2>1. submissions[Update(v)].revision = "rejected" /\ submissions[Update(v)].evidence = "rejected"
            BY <1>1, <1>3, <1>7 DEF DeskInv, UpdateInv
        <2>2. patterns[p].latest # Update(v)
            BY <1>1, <1>7, Keys DEF DeskInv, ApprovedIsBacked
        <2>. QED
            BY <1>2, <1>3, <1>4, <1>7, <2>1, <2>2 DEF Receipt
    <1>. QED
        BY <1>6, <1>7

\* get_existing_update_recovery accepts every terminal state the reviewer's RPCs
\* leave, unless the policy decision is ambiguous.
THEOREM ResolvedUpdateFinishesTheorem == Spec => []ResolvedUpdateFinishes
    BY IntakeInvariant, ResolvedReceipt, PTL

LEMMA WayOut == IntakeInv => OpenReviewHasAWayOut
    <1>. SUFFICES ASSUME IntakeInv, NEW s \in Submissions, Open(s)
                  PROVE  Rejectable(s) \/ patterns[PatternOf(s)].lifecycle = "archived"
        BY DEF OpenReviewHasAWayOut
    <1>1. DeskTypes /\ DeskInv
        BY Types DEF IntakeInv
    <1>2. CASE s[2] = "new_pattern"
        BY <1>2 DEF Rejectable
    <1>3. CASE s = Update(s[1])
        <2>1. patterns[PatternOf(s)].draft = s /\ patterns[PatternOf(s)].latest # Nobody
            BY <1>1, <1>3, OpenItem
        <2>2. submissions[s].evidence = "proposed" /\ submissions[s].revision = "draft"
            BY <1>1 DEF DeskInv, ItemInv
        <2>3. submissions[s].status = "needs_evidence" => patterns[PatternOf(s)].lifecycle \in {"evidence_pending", "archived"}
            BY <1>1, <1>3, Keys DEF DeskInv, UpdateInv, Committed, PatternOf
        <2>. QED
            BY <2>1, <2>2, <2>3 DEF Rejectable, UpdateRejectable
    <1>. QED
        BY <1>2, <1>3, Keys

\* reject_review_item is always open to the reviewer, whatever holds, takedowns
\* and crashes came before, unless the pattern was archived.
THEOREM OpenReviewHasAWayOutTheorem == Spec => []OpenReviewHasAWayOut
    BY IntakeInvariant, WayOut, PTL

LEMMA HolderStep ==
    ASSUME IntakeInv, [Next]_vars, NEW v \in Versions, NEW r \in Runs,
           versions[v].status = "processing", versions'[v].status # "processing", runs'[r] # runs[r]
    PROVE  versions[v].holder = r
    <1>1. ASSUME NEW q \in Runs, AcquireLease(q) \/ Collect(q) \/ RunStep(q) \/ Crash(q)
          PROVE  versions[v].holder = r
        <2>1. Steps(q)
            BY <1>1, RunActs
        <2>2. q = r /\ Moves(q, v)
            BY <2>1 DEF Steps
        <2>. QED
            BY <2>2 DEF Moves, Same, Owns
    <1>2. ASSUME Review \/ (\E w \in Versions : ClaimLapses(w)) \/ LeaseLapses \/ UNCHANGED vars
          PROVE  versions[v].holder = r
        BY <1>2, ReviewActs, TimeActs
    <1>. QED
        BY <1>1, <1>2 DEF Next

\* finish_source_version, fail_source_version and both deferrals compare the
\* holder: a run whose version was taken over does not close it.
THEOREM OnlyTheHolderClosesTheorem == Spec => OnlyTheHolderCloses
    <1>1. IntakeInv /\ [Next]_vars =>
            [\A v \in Versions, r \in Runs :
               /\ versions[v].status = "processing" /\ versions'[v].status # "processing"
               /\ runs[r].version = v /\ runs'[r] # runs[r]
               => versions[v].holder = r]_vars
        BY HolderStep
    <1>. QED
        BY <1>1, IntakeInvariant, PTL DEF Spec, OnlyTheHolderCloses

\* What a step of a run writes to the desk: nothing, a founding submission, an
\* update of a pattern that is up for review, or a policy decision.
LEMMA RunWrites ==
    ASSUME IntakeInv, NEW r \in Runs, AcquireLease(r) \/ Collect(r) \/ RunStep(r) \/ Crash(r)
    PROVE  /\ changes' = changes
           /\ \A p \in Patterns : patterns'[p].lifecycle = patterns[p].lifecycle \/ patterns[p].lifecycle = "none"
    <1>1. DeskTypes /\ DeskInv /\ RunInv
        BY Types DEF IntakeInv, QueueInv
    <1>2. CASE SubmitNewPattern(r)
        <2>1. PICK v \in Versions : v = runs[r].version
            BY <1>1, <1>2 DEF SubmitNewPattern, At, RunInv, InHand
        <2>2. CASE UNCHANGED <<patterns, changes>>
            BY <2>2
        <2>3. CASE ~UNCHANGED <<patterns, changes>>
            <3>1. /\ changes' = changes /\ submissions[New(v)].status = "none"
                  /\ \A p \in Patterns : p # v => patterns'[p] = patterns[p]
                BY <1>1, <1>2, <2>1, <2>3 DEF SubmitNewPattern, Refused, DeskTypes
            <3>2. patterns[v].lifecycle = "none"
                BY <1>1, <3>1 DEF DeskInv, FoundingInv
            <3>. QED
                BY <3>1, <3>2
        <2>. QED
            BY <2>2, <2>3
    <1>3. CASE SubmitUpdate(r)
        BY <1>1, <1>3 DEF SubmitUpdate, Refused, DeskTypes, PatternRow
    <1>4. CASE RecordPolicy(r)
        BY <1>4 DEF RecordPolicy, Refused
    <1>5. CASE AcquireLease(r) \/ Collect(r) \/ EndCollection(r) \/ CollectionFails(r) \/ Claim(r) \/ ReadRecovery(r)
        BY <1>5 DEF AcquireLease, Collect, IngestVersion, EndCollection, CollectionFails, Claim, ClaimVersion,
                    NothingToClaim, ReadRecovery
    <1>6. CASE Analyse(r) \/ Defer(r) \/ FinishStep(r) \/ FailVersion(r) \/ ReleaseLease(r) \/ Crash(r)
        BY <1>6 DEF Analyse, AnalysisFails, JudgeIrrelevant, JudgeNew, JudgeMatch, Defer, DeferHeldUpdate,
                    DeferConflict, FinishStep, FinishVersion, Refused, FailVersion, ReleaseLease, Crash
    <1>. QED
        BY <1>2, <1>3, <1>4, <1>5, <1>6 DEF RunStep, Submit

LEMMA NothingWritten ==
    ASSUME (\E v \in Versions : ClaimLapses(v)) \/ LeaseLapses \/ UNCHANGED vars
    PROVE  patterns' = patterns /\ changes' = changes
    BY DEF ClaimLapses, LeaseLapses, vars

LEMMA ArchivedStep ==
    ASSUME IntakeInv, [Next]_vars, NEW p \in Patterns, patterns[p].lifecycle = "archived"
    PROVE  patterns'[p].lifecycle \in {"archived", "rejected"}
    <1>1. DeskTypes /\ DeskInv
        BY Types DEF IntakeInv
    <1>2. ASSUME NEW r \in Runs, AcquireLease(r) \/ Collect(r) \/ RunStep(r) \/ Crash(r)
          PROVE  patterns'[p].lifecycle \in {"archived", "rejected"}
        BY <1>2, RunWrites
    <1>3. ASSUME NEW s \in Submissions, Approve(s)
          PROVE  patterns'[p].lifecycle \in {"archived", "rejected"}
        <2>1. Open(s) /\ submissions[s].base_row = patterns[PatternOf(s)].row /\ submissions[s].base_row \in Nat
            BY <1>1, <1>3 DEF Approve, Approvable, DeskTypes, ItemRow
        <2>2. PatternOf(s) # p
            BY <1>1, <2>1 DEF DeskInv, RowInv
        <2>. QED
            BY <1>1, <1>3, <2>2 DEF Approve, DeskTypes
    <1>4. ASSUME NEW s \in Submissions, RejectUpdate(s)
          PROVE  patterns'[p].lifecycle \in {"archived", "rejected"}
        <2>1. submissions[s].status = "needs_evidence" => PatternOf(s) # p
            BY <1>4 DEF RejectUpdate, Rejectable, UpdateRejectable
        <2>. QED
            BY <1>1, <1>4, <2>1 DEF RejectUpdate, DeskTypes, PatternRow
    <1>5. ASSUME NEW s \in Submissions, RejectNew(s)
          PROVE  patterns'[p].lifecycle \in {"archived", "rejected"}
        BY <1>1, <1>5 DEF RejectNew, DeskTypes, PatternRow
    <1>6. ASSUME NEW s \in Submissions, Hold(s)
          PROVE  patterns'[p].lifecycle \in {"archived", "rejected"}
        BY <1>1, <1>6 DEF Hold, HeldRow, DeskTypes, PatternRow
    <1>7. ASSUME NEW q \in Patterns, Archive(q) \/ Unpublish(q)
          PROVE  patterns'[p].lifecycle \in {"archived", "rejected"}
        BY <1>1, <1>7 DEF Archive, Unpublish, DeskTypes, PatternRow
    <1>8. CASE (\E v \in Versions : ClaimLapses(v)) \/ LeaseLapses \/ UNCHANGED vars
        BY <1>8, NothingWritten
    <1>. QED
        BY <1>2, <1>3, <1>4, <1>5, <1>6, <1>7, <1>8 DEF Next, Review

\* No hold, approval, rejection or submission brings an archived pattern back.
THEOREM ArchivedStaysDownTheorem == Spec => ArchivedStaysDown
    <1>1. IntakeInv /\ [Next]_vars =>
            [\A p \in Patterns : patterns[p].lifecycle = "archived" => patterns'[p].lifecycle \in {"archived", "rejected"}]_vars
        BY ArchivedStep
    <1>. QED
        BY <1>1, IntakeInvariant, PTL DEF Spec, ArchivedStaysDown

LEMMA FenceStep ==
    ASSUME IntakeInv, [Next]_vars, NEW p \in Patterns, changes[p].action = "unpublish", changes'[p].action = "publish"
    PROVE  submissions[patterns'[p].latest].base_row >= changes[p].row
    <1>1. DeskTypes /\ DeskInv
        BY Types DEF IntakeInv
    <1>2. ASSUME NEW s \in Submissions, Approve(s)
          PROVE  submissions[patterns'[p].latest].base_row >= changes[p].row
        <2>1. changes' = [changes EXCEPT ![PatternOf(s)] = [action |-> "publish", row |-> patterns[PatternOf(s)].row + 1]]
            BY <1>2 DEF Approve
        <2>2. p = PatternOf(s)
            BY <1>1, <2>1 DEF DeskTypes, ChangeRow
        <2>3. patterns'[p].latest = s /\ submissions[s].base_row = patterns[p].row
            BY <1>1, <1>2, <2>2 DEF Approve, Approvable, DeskTypes
        <2>4. changes[p].row <= patterns[p].row /\ changes[p].row \in Nat /\ patterns[p].row \in Nat
            BY <1>1 DEF DeskInv, RowInv, DeskTypes, ChangeRow, PatternRow
        <2>. QED
            BY <2>3, <2>4
    <1>3. ASSUME NEW s \in Submissions, RejectUpdate(s) \/ RejectNew(s) \/ Hold(s) PROVE FALSE
        BY <1>3 DEF RejectUpdate, RejectNew, Hold
    <1>4. ASSUME NEW q \in Patterns, Archive(q) \/ Unpublish(q) PROVE FALSE
        BY <1>1, <1>4 DEF Archive, Unpublish, DeskTypes, ChangeRow
    <1>5. ASSUME NEW r \in Runs, AcquireLease(r) \/ Collect(r) \/ RunStep(r) \/ Crash(r) PROVE FALSE
        BY <1>5, RunWrites
    <1>6. CASE (\E v \in Versions : ClaimLapses(v)) \/ LeaseLapses \/ UNCHANGED vars
        BY <1>6, NothingWritten
    <1>. QED
        BY <1>2, <1>3, <1>4, <1>5, <1>6 DEF Next, Review

\* What is published after an unpublish was submitted after it: the row version
\* that a submission captured fences the approval.
THEOREM TakedownFenceTheorem == Spec => TakedownFence
    <1>1. IntakeInv /\ [Next]_vars =>
            [\A p \in Patterns :
               /\ changes[p].action = "unpublish" /\ changes'[p].action = "publish"
               => submissions[patterns'[p].latest].base_row >= changes[p].row]_vars
        BY FenceStep
    <1>. QED
        BY <1>1, IntakeInvariant, PTL DEF Spec, TakedownFence

=============================================================================
