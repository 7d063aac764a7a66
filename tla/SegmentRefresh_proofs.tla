------------------------ MODULE SegmentRefresh_proofs ------------------------
(* Proofs about SegmentRefresh, for any number of segments, versions and     *)
(* crashes.  What the rows promise holds under Undisturbed: nobody edits or  *)
(* re-requests a segment in the middle of its own refresh, or writes a       *)
(* cohort by hand.                                                           *)
EXTENDS SegmentRefresh, SequenceTheorems, TLAPS

Distinct(q) == \A i, j \in DOMAIN q : q[i] = q[j] => i = j

\* Appending a new id to the queue.
LEMMA QueueAppend ==
    ASSUME NEW q \in Seq(Segment), NEW s \in Segment, Distinct(q), s \notin ToSet(q)
    PROVE  /\ Append(q, s) \in Seq(Segment)
           /\ Distinct(Append(q, s))
           /\ ToSet(Append(q, s)) = ToSet(q) \cup {s}
  <1> DEFINE w == Append(q, s)
  <1>1. w \in Seq(Segment) /\ Len(w) = Len(q) + 1 /\ DOMAIN w = 1 .. Len(q) + 1
    BY AppendProperties
  <1>2. \A i \in 1 .. Len(q) : w[i] = q[i]
    BY AppendProperties
  <1>3. w[Len(q) + 1] = s
    BY AppendProperties
  <1>4. DOMAIN q = 1 .. Len(q) /\ Len(q) \in Nat
    BY LenProperties
  <1> HIDE DEF w
  <1>5. \A i \in 1 .. Len(q) : w[i] # s
    BY <1>2, <1>4 DEF ToSet
  <1>6. Distinct(w)
    BY <1>1, <1>2, <1>3, <1>4, <1>5 DEF Distinct
  <1>7. ToSet(w) = ToSet(q) \cup {s}
    BY <1>1, <1>2, <1>3, <1>4 DEF ToSet
  <1>8. QED
    BY <1>1, <1>6, <1>7 DEF w

\* Taking the head off the queue.
LEMMA QueueTail ==
    ASSUME NEW q \in Seq(Segment), q # <<>>, Distinct(q)
    PROVE  /\ Head(q) \in Segment
           /\ Tail(q) \in Seq(Segment)
           /\ Distinct(Tail(q))
           /\ ToSet(q) = ToSet(Tail(q)) \cup {Head(q)}
  <1> DEFINE w == Tail(q)
  <1>1. Head(q) \in Segment /\ Head(q) = q[1]
    BY HeadTailProperties
  <1>2. Len(q) \in Nat /\ Len(q) > 0 /\ DOMAIN q = 1 .. Len(q)
    BY LenProperties, EmptySeq
  <1>3. w \in Seq(Segment) /\ Len(w) = Len(q) - 1 /\ DOMAIN w = 1 .. Len(q) - 1
    BY HeadTailProperties, LenProperties, <1>2
  <1>4. \A i \in 1 .. Len(q) - 1 : w[i] = q[i + 1]
    BY HeadTailProperties, <1>3
  <1> HIDE DEF w
  <1>5. Distinct(w)
    <2>1. SUFFICES ASSUME NEW i \in DOMAIN w, NEW j \in DOMAIN w, w[i] = w[j]
                   PROVE  i = j
      BY DEF Distinct
    <2>2. i + 1 \in DOMAIN q /\ j + 1 \in DOMAIN q /\ q[i + 1] = q[j + 1]
      BY <1>2, <1>3, <1>4, <2>1
    <2>3. i + 1 = j + 1
      BY <2>2 DEF Distinct
    <2>4. QED
      BY <1>2, <1>3, <2>3
  <1>6. ToSet(q) \subseteq ToSet(w) \cup {Head(q)}
    <2>1. SUFFICES ASSUME NEW i \in DOMAIN q, i # 1 PROVE q[i] \in ToSet(w)
      BY <1>1 DEF ToSet
    <2>2. i - 1 \in DOMAIN w /\ w[i - 1] = q[i]
      BY <1>2, <1>3, <1>4, <2>1
    <2>3. QED
      BY <2>2 DEF ToSet
  <1>7. ToSet(w) \cup {Head(q)} \subseteq ToSet(q)
    <2>1. \A i \in DOMAIN w : i + 1 \in DOMAIN q /\ w[i] = q[i + 1]
      BY <1>2, <1>3, <1>4
    <2>2. 1 \in DOMAIN q
      BY <1>2
    <2>3. QED
      BY <1>1, <2>1, <2>2 DEF ToSet
  <1>8. QED
    BY <1>1, <1>3, <1>5, <1>6, <1>7 DEF w

\* enqueueRefresh keeps the queue a queue, loses nothing, and leaves the id in
\* the queue or in flight.
LEMMA EnqueueAdds ==
    ASSUME TypeOK, NEW s \in Segment, Enqueue(s)
    PROVE  /\ pending' \in Seq(Segment)
           /\ Distinct(pending')
           /\ ToSet(pending) \subseteq ToSet(pending')
           /\ s = processing \/ s \in ToSet(pending')
  <1>1. pending \in Seq(Segment) /\ Distinct(pending)
    BY DEF TypeOK, Distinct
  <1>2. CASE s = processing \/ s \in ToSet(pending)
    BY <1>1, <1>2 DEF Enqueue
  <1>3. CASE ~(s = processing \/ s \in ToSet(pending))
    BY <1>1, <1>3, QueueAppend DEF Enqueue
  <1>4. QED
    BY <1>2, <1>3
-----------------------------------------------------------------------------
(* Types. *)

LEMMA RowTypes ==
    /\ NoRow \in Row /\ NewRow \in Row /\ Gone \in Row
    /\ NoJob \in Job
    /\ \A r \in Row :
        /\ [r EXCEPT !.old = FALSE] \in Row
        /\ [r EXCEPT !.old = TRUE] \in Row
        /\ [r EXCEPT !.age = "overdue"] \in Row
        /\ [r EXCEPT !.uids = 0] \in Row
        /\ \A st \in Status : [r EXCEPT !.status = st] \in Row
        /\ \A st \in Status : [r EXCEPT !.status = st, !.old = FALSE] \in Row
        /\ \A v \in Version : \A m \in Meta : [r EXCEPT !.query = v, !.metaV = m] \in Row
        /\ \A v \in Version :
               [r EXCEPT !.uids = v, !.status = "fresh", !.age = "recent"] \in Row
        /\ r.tree < MaxVersion => Edited(r) \in Row
  <1>1. 0 \in Version /\ 1 \in Version /\ 0 \in Meta
    BY SegmentRefreshAssumption DEF Version, Meta
  <1>2. NoRow \in Row /\ NewRow \in Row
    BY <1>1 DEF NoRow, NewRow, Row, Status
  <1>3. Gone \in Row
    BY <1>2 DEF Gone, Row, Status
  <1>4. NoJob \in Job
    BY <1>1 DEF NoJob, Job, Status
  <1>5. ASSUME NEW r \in Row
        PROVE  /\ [r EXCEPT !.old = FALSE] \in Row
               /\ [r EXCEPT !.old = TRUE] \in Row
               /\ [r EXCEPT !.age = "overdue"] \in Row
               /\ [r EXCEPT !.uids = 0] \in Row
    BY <1>1 DEF Row
  <1>6. ASSUME NEW r \in Row, NEW st \in Status
        PROVE  /\ [r EXCEPT !.status = st] \in Row
               /\ [r EXCEPT !.status = st, !.old = FALSE] \in Row
    BY DEF Row
  <1>7. ASSUME NEW r \in Row, NEW v \in Version, NEW m \in Meta
        PROVE  /\ [r EXCEPT !.query = v, !.metaV = m] \in Row
               /\ [r EXCEPT !.uids = v, !.status = "fresh", !.age = "recent"] \in Row
    BY DEF Row, Status
  <1>8. ASSUME NEW r \in Row, r.tree < MaxVersion PROVE Edited(r) \in Row
    <2>1. r.tree + 1 \in Version
      BY <1>8, SegmentRefreshAssumption DEF Row, Version
    <2>2. QED
      BY <2>1 DEF Edited, Row, Status
  <1>9. QED
    BY <1>1, <1>2, <1>3, <1>4, <1>5, <1>6, <1>7, <1>8

\* A cohort written by hand changes nothing else of its row.
LEMMA ByHandAt ==
    ASSUME NEW q \in Row, NEW r \in ByHand(q)
    PROVE  r \in Row /\ r.tree = q.tree /\ r.status = q.status
  <1>1. r = [q EXCEPT !.uids = 0]
    BY DEF ByHand
  <1>2. r \in Row
    BY <1>1, RowTypes
  <1>3. QED
    BY <1>1, <1>2 DEF Row

LEMMA UpdateType ==
    ASSUME row \in [Segment -> Row], NEW s \in Segment, NEW r \in Row, Update(s, r)
    PROVE  row' \in [Segment -> Row]
  BY RowTypes DEF Update

LEMMA SetStatusType ==
    ASSUME row \in [Segment -> Row], NEW s \in Segment, NEW st \in Status,
           SetStatus(s, st)
    PROVE  row' \in [Segment -> Row]
  BY RowTypes, UpdateType DEF SetStatus

LEMMA ReconciledType ==
    ASSUME row \in [Segment -> Row], NEW S
    PROVE  Reconciled(S) \in [Segment -> Row]
  <1>1. "stale" \in Status
    BY DEF Status
  <1>2. QED
    BY <1>1, RowTypes DEF Reconciled

\* The synchronous part of a tick.
LEMMA ListAndEnqueueType ==
    ASSUME TypeOK, NEW r \in [Segment -> Row], ListAndEnqueue(r)
    PROVE  /\ row' = r
           /\ pending' \in Seq(Segment)
           /\ Distinct(pending')
           /\ ToSet(pending) \subseteq ToSet(pending')
           /\ listed' \in SUBSET Segment
  <1>1. Due(r) \subseteq Segment
    BY SegmentRefreshAssumption DEF Due
  <1>2. CASE Due(r) = {}
    BY <1>2 DEF ListAndEnqueue, TypeOK, Distinct
  <1>3. CASE Due(r) # {}
    <2>1. PICK s \in Due(r) : Enqueue(s) /\ listed' = listed \cup (Due(r) \ {s})
      BY <1>3 DEF ListAndEnqueue
    <2>2. s \in Segment
      BY <1>1
    <2>3. QED
      BY <1>1, <2>1, <2>2, EnqueueAdds DEF ListAndEnqueue, TypeOK
  <1>4. QED
    BY <1>2, <1>3

LEMMA TypeInit == Init => TypeOK
  <1> SUFFICES ASSUME Init PROVE TypeOK
    OBVIOUS
  <1>1. <<>> \in Seq(Segment) /\ Distinct(<<>>)
    BY EmptySeq DEF Distinct
  <1>2. 1 \in Meta \ {0} /\ 0 \in Nat
    BY SegmentRefreshAssumption DEF Meta
  <1>3. QED
    BY <1>1, <1>2, RowTypes DEF Init, TypeOK, Distinct

LEMMA TypeNext == TypeOK /\ [Next]_vars => TypeOK'
  <1> SUFFICES ASSUME TypeOK, [Next]_vars PROVE TypeOK'
    OBVIOUS
  <1> USE DEF Distinct
  <1>0. "refreshing" \in Status /\ "stale" \in Status /\ "broken" \in Status
    BY DEF Status
  <1>1. ASSUME NEW s \in Segment, Create(s) PROVE TypeOK'
    BY <1>1, RowTypes, EnqueueAdds DEF Create, TypeOK
  <1>2. ASSUME NEW s \in Segment, Edit(s) PROVE TypeOK'
    <2>1. PICK r \in {row[s]} \cup ByHand(row[s]) : Update(s, Edited(r))
      BY <1>2 DEF Edit
    <2>a. r \in Row /\ r.tree = row[s].tree
      BY ByHandAt DEF TypeOK
    <2>b. Edited(r) \in Row
      BY <1>2, <2>a, RowTypes DEF Edit
    <2>2. row' \in [Segment -> Row]
      BY <2>1, <2>b, UpdateType DEF TypeOK
    <2>3. QED
      BY <1>2, <2>2, EnqueueAdds DEF Edit, TypeOK
  <1>3. ASSUME NEW s \in Segment, RefreshNow(s) PROVE TypeOK'
    BY <1>0, <1>3, SetStatusType, EnqueueAdds DEF RefreshNow, TypeOK
  <1>4. ASSUME NEW s \in Segment, Unstick(s) PROVE TypeOK'
    BY <1>0, <1>4, SetStatusType DEF Unstick, TypeOK
  <1>5. ASSUME NEW s \in Segment, Delete(s) PROVE TypeOK'
    BY <1>5, RowTypes DEF Delete, TypeOK
  <1>6. ASSUME NEW s \in Segment, Refresh(s) PROVE TypeOK'
    <2>1. CASE IdentityFound(s)
      <3>1. job' \in Job
        BY <2>1 DEF IdentityFound, GoOn, TypeOK, Job
      <3>2. QED
        BY <2>1, <3>1 DEF IdentityFound, GoOn, TypeOK
    <2>2. CASE IdentityFails(s)
      <3>1. row' \in [Segment -> Row]
        BY <1>0, <2>2, SetStatusType DEF IdentityFails, TypeOK
      <3>2. QED
        BY <2>2, <3>1, RowTypes DEF IdentityFails, Return, TypeOK
    <2>3. CASE NoDrift(s)
      <3>1. job' \in Job
        BY <2>3 DEF NoDrift, GoOn, TypeOK, Job
      <3>2. QED
        BY <2>3, <3>1 DEF NoDrift, GoOn, TypeOK
    <2>4. CASE Rehydrate(s)
      <3>1. job.tree \in Version /\ meta \in Meta
        BY DEF TypeOK, Job
      <3>2. row' \in [Segment -> Row]
        BY <2>4, <3>1, RowTypes, UpdateType DEF Rehydrate, TypeOK
      <3>3. job' \in Job
        BY <2>4, <3>1 DEF Rehydrate, TypeOK, Job
      <3>4. QED
        BY <2>4, <3>2, <3>3 DEF Rehydrate, TypeOK
    <2>5. CASE MembersMissing(s)
      <3>1. row' \in [Segment -> Row]
        BY <1>0, <2>5, SetStatusType DEF MembersMissing, TypeOK
      <3>2. QED
        BY <2>5, <3>1, RowTypes DEF MembersMissing, Return, TypeOK
    <2>6. CASE Loaded(s)
      <3>1. job.query \in Version
        BY DEF TypeOK, Job
      <3>2. row' \in [Segment -> Row]
        BY <2>6, <3>1, RowTypes, UpdateType DEF Loaded, TypeOK
      <3>3. job' \in Job
        BY <2>6 DEF Loaded, GoOn, TypeOK, Job
      <3>4. QED
        BY <2>6, <3>2, <3>3 DEF Loaded, GoOn, TypeOK
    <2>7. CASE LoadFails(s)
      <3>1. Restored \in Status
        BY <1>0 DEF Restored, TypeOK, Job
      <3>2. row' \in [Segment -> Row]
        BY <1>0, <2>7, <3>1, SetStatusType DEF LoadFails, TypeOK
      <3>3. QED
        BY <2>7, <3>2, RowTypes DEF LoadFails, Return, TypeOK
    <2>8. CASE TailEnds(s)
      <3>1. row' \in [Segment -> Row]
        BY <2>8, RowTypes, UpdateType DEF TailEnds, TypeOK
      <3>2. QED
        BY <2>8, <3>1, RowTypes DEF TailEnds, Return, TypeOK
    <2>9. QED
      BY <1>6, <2>1, <2>2, <2>3, <2>4, <2>5, <2>6, <2>7, <2>8 DEF Refresh
  <1>b. ASSUME NEW s \in Segment, WriteUids(s) PROVE TypeOK'
    <2>1. PICK r \in ByHand(row[s]) : Update(s, r)
      BY <1>b DEF WriteUids
    <2>2. r \in Row
      BY ByHandAt DEF TypeOK
    <2>3. row' \in [Segment -> Row]
      BY <2>1, <2>2, UpdateType DEF TypeOK
    <2>4. QED
      BY <1>b, <2>3 DEF WriteUids, TypeOK
  <1>7. ASSUME NEW s \in Segment, BecomesOverdue(s) PROVE TypeOK'
    <2>1. [row[s] EXCEPT !.age = "overdue"] \in Row
      BY RowTypes DEF TypeOK
    <2>2. QED
      BY <1>7, <2>1 DEF BecomesOverdue, TypeOK
  <1>8. ASSUME NEW s \in Segment, BecomesOld(s) PROVE TypeOK'
    <2>1. [row[s] EXCEPT !.old = TRUE] \in Row
      BY RowTypes DEF TypeOK
    <2>2. QED
      BY <1>8, <2>1 DEF BecomesOld, TypeOK
  <1>9. ASSUME Drain PROVE TypeOK'
    <2>1. Head(pending) \in Segment /\ Tail(pending) \in Seq(Segment)
          /\ Distinct(Tail(pending))
      BY <1>9, QueueTail DEF Drain, TypeOK
    <2>2. CASE Exists(Head(pending)) /\ Head(pending) \notin NoCube
      <3>1. row' \in [Segment -> Row]
        BY <1>0, <1>9, <2>1, <2>2, SetStatusType DEF Drain, TypeOK
      <3>2. job' \in Job
        <4>1. row[Head(pending)] \in Row
          BY <2>1 DEF TypeOK
        <4>2. QED
          BY <1>9, <2>2, <4>1 DEF Drain, Job, Row
      <3>3. QED
        BY <1>9, <2>1, <2>2, <3>1, <3>2 DEF Drain, TypeOK
    <2>3. CASE ~(Exists(Head(pending)) /\ Head(pending) \notin NoCube)
      BY <1>9, <2>1, <2>3 DEF Drain, TypeOK
    <2>4. QED
      BY <2>2, <2>3
  <1>10. ASSUME Tick PROVE TypeOK'
    BY <1>10, ReconciledType, ListAndEnqueueType DEF Tick, TypeOK
  <1>11. ASSUME TickGoesOn PROVE TypeOK'
    <2>1. PICK s \in listed : Enqueue(s) /\ listed' = listed \ {s}
      BY <1>11 DEF TickGoesOn
    <2>2. s \in Segment
      BY DEF TypeOK
    <2>3. QED
      BY <1>11, <2>1, <2>2, EnqueueAdds DEF TickGoesOn, TypeOK
  <1>12. ASSUME MetaChanges PROVE TypeOK'
    <2>1. meta + 1 \in Meta \ {0}
      BY <1>12, SegmentRefreshAssumption DEF MetaChanges, TypeOK, Meta
    <2>2. QED
      BY <1>12, <2>1 DEF MetaChanges, TypeOK
  <1>13. ASSUME Crash PROVE TypeOK'
    <2>1. pending' \in Seq(Segment) /\ Distinct(pending')
      BY <1>13, EmptySeq DEF Crash
    <2>2. up' \in BOOLEAN
      BY <1>13 DEF Crash
    <2>3. crashes' \in Nat
      BY <1>13 DEF Crash, TypeOK
    <2>4. QED
      BY <1>13, <2>1, <2>2, <2>3, RowTypes DEF Crash, TypeOK
  <1>14. ASSUME Boot PROVE TypeOK'
    <2>1. up' \in BOOLEAN
      BY <1>14 DEF Boot
    <2>2. row' = Reconciled(Segment) /\ pending' \in Seq(Segment) /\ Distinct(pending')
          /\ listed' \in SUBSET Segment
      BY <1>14, ReconciledType, ListAndEnqueueType DEF Boot, TypeOK
    <2>3. QED
      BY <1>14, <2>1, <2>2, ReconciledType DEF Boot, TypeOK
  <1>15. CASE UNCHANGED vars
    BY <1>15 DEF vars, TypeOK
  <1>16. QED
    BY <1>1, <1>2, <1>3, <1>4, <1>5, <1>6, <1>7, <1>8, <1>9, <1>10, <1>11, <1>12,
       <1>13, <1>14, <1>15, <1>b DEF Next

\* Every reachable state is well-typed: in particular the queue never holds an
\* id twice, whoever enqueues it.
THEOREM TypeCorrect == Spec => []TypeOK
  <1>1. QED
    BY TypeInit, TypeNext, PTL DEF Spec
-----------------------------------------------------------------------------
(* What a row promises, and what the running refresh knows of it. *)

RowCurrent(r) == r.query = r.tree /\ (r.status = "fresh" => r.uids = r.tree)

CurrentRows == \A s \in Segment : RowCurrent(row[s])

LEMMA CurrentSplit == CurrentInv <=> CurrentRows /\ JobInv
  BY DEF CurrentInv, CurrentRows, RowCurrent, QueryMatchesTree, FreshMeansCurrent

\* What an UPDATE does to the rows.
LEMMA UpdateAt ==
    ASSUME row \in [Segment -> Row], NEW s \in Segment, NEW r \in Row, Update(s, r)
    PROVE  /\ \A t \in Segment \ {s} : row'[t] = row[t]
           /\ row'[s] = IF Exists(s) THEN [r EXCEPT !.old = FALSE] ELSE row[s]
  BY DEF Update

\* An UPDATE that leaves its own row current leaves all rows current.
LEMMA UpdateCurrent ==
    ASSUME row \in [Segment -> Row], CurrentRows, NEW s \in Segment, NEW r \in Row,
           Update(s, r), Exists(s) => RowCurrent(r)
    PROVE  CurrentRows'
  <1>1. RowCurrent([r EXCEPT !.old = FALSE]) <=> RowCurrent(r)
    BY DEF RowCurrent, Row
  <1>2. \A t \in Segment \ {s} : RowCurrent(row'[t])
    BY UpdateAt DEF CurrentRows
  <1>3. RowCurrent(row'[s])
    BY UpdateAt, <1>1 DEF CurrentRows
  <1>4. QED
    BY <1>2, <1>3 DEF CurrentRows

\* A new status leaves the rows current unless it is a false 'fresh'.
LEMMA SetStatusCurrent ==
    ASSUME row \in [Segment -> Row], CurrentRows, NEW s \in Segment, NEW st \in Status,
           SetStatus(s, st), st = "fresh" /\ Exists(s) => row[s].uids = row[s].tree
    PROVE  CurrentRows'
  <1> DEFINE r == [row[s] EXCEPT !.status = st]
  <1>1. r \in Row
    BY RowTypes
  <1>2. Exists(s) => RowCurrent(r)
    BY DEF CurrentRows, RowCurrent, Row
  <1>3. Update(s, r)
    BY DEF SetStatus
  <1> HIDE DEF r
  <1>4. QED
    BY <1>1, <1>2, <1>3, UpdateCurrent

\* What a new status does to a row.
LEMMA SetStatusAt ==
    ASSUME row \in [Segment -> Row], NEW s \in Segment, NEW st \in Status,
           SetStatus(s, st)
    PROVE  /\ \A t \in Segment \ {s} : row'[t] = row[t]
           /\ ~Exists(s) => row'[s] = row[s]
           /\ Exists(s) => /\ row'[s].status = st /\ row'[s].tree = row[s].tree
                           /\ row'[s].query = row[s].query /\ row'[s].uids = row[s].uids
  <1> DEFINE r == [row[s] EXCEPT !.status = st]
  <1>1. r \in Row
    BY RowTypes
  <1>2. Update(s, r)
    BY DEF SetStatus
  <1>3. r.status = st /\ r.tree = row[s].tree /\ r.query = row[s].query
        /\ r.uids = row[s].uids
    BY DEF Row
  <1> HIDE DEF r
  <1>4. [r EXCEPT !.old = FALSE].status = r.status /\ [r EXCEPT !.old = FALSE].tree = r.tree
        /\ [r EXCEPT !.old = FALSE].query = r.query /\ [r EXCEPT !.old = FALSE].uids = r.uids
    BY <1>1 DEF Row
  <1>5. QED
    BY <1>1, <1>2, <1>3, <1>4, UpdateAt

\* Orphans become stale; nothing else of a row that matters here changes.
LEMMA ReconciledAt ==
    ASSUME row \in [Segment -> Row], NEW S, NEW s \in Segment
    PROVE  /\ Reconciled(S)[s].tree = row[s].tree /\ Reconciled(S)[s].query = row[s].query
           /\ Reconciled(S)[s].uids = row[s].uids
           /\ Reconciled(S)[s].status
                = IF s \in S /\ row[s].status = "refreshing" THEN "stale" ELSE row[s].status
  BY DEF Reconciled, Row

LEMMA ReconciledCurrent ==
    ASSUME row \in [Segment -> Row], CurrentRows, NEW S, row' = Reconciled(S)
    PROVE  CurrentRows'
  <1>1. ASSUME NEW s \in Segment PROVE RowCurrent(Reconciled(S)[s])
    BY ReconciledAt DEF CurrentRows, RowCurrent
  <1>2. QED
    BY <1>1 DEF CurrentRows

\* JobInv looks at the row of the running refresh only.
JobRow(r) ==
    /\ r.status # "none"
    /\ job.phase = "tail" => r.status # "refreshing"
    /\ r.status # "deleted" =>
           /\ job.tree = r.tree /\ job.query = r.tree
           /\ job.prior = "fresh" => r.uids = r.tree

LEMMA JobSplit ==
    JobInv <=> /\ processing = NoSegment <=> job.phase = "none"
               /\ processing # NoSegment => up /\ JobRow(row[processing])
  BY DEF JobInv, JobRow, Exists

\* A step that leaves the refresh and its row alone.
LEMMA JobKept ==
    ASSUME TypeOK, JobInv, UNCHANGED <<up, processing, job>>,
           processing # NoSegment => JobRow(row'[processing])
    PROVE  JobInv'
  <1>1. (processing = NoSegment <=> job.phase = "none")'
    BY JobSplit
  <1>2. processing # NoSegment => JobRow(row[processing])'
    BY DEF JobRow
  <1>3. QED
    BY <1>1, <1>2, JobSplit DEF JobInv, JobRow, Exists

\* A refresh that returns leaves nothing to remember.
LEMMA JobReturned == Return => JobInv'
  BY DEF Return, NoJob, JobInv
-----------------------------------------------------------------------------
(* The rows stay current. *)

\* The rows at the end of a request: neither of the two columns a refresh may
\* write changes behind the back of that refresh.
LEMMA RouteCurrent ==
    ASSUME Undisturbed, TypeOK, CurrentRows, JobInv, NEW s \in Segment,
           Create(s) \/ Edit(s) \/ RefreshNow(s) \/ Unstick(s) \/ Delete(s)
    PROVE  CurrentRows' /\ JobInv'
  <1> USE DEF TypeOK
  <1>0. "refreshing" \in Status /\ "stale" \in Status
    BY DEF Status
  <1>1. CASE Create(s)
    <2>1. RowCurrent(NewRow)
      BY DEF RowCurrent, NewRow
    <2>2. s # processing
      BY <1>1, JobSplit, SegmentRefreshAssumption DEF Create, JobRow
    <2>3. CurrentRows'
      BY <1>1, <2>1 DEF Create, CurrentRows
    <2>4. QED
      BY <1>1, <2>2, <2>3, JobSplit, JobKept DEF Create
  <1>2. CASE Edit(s)
    <2>1. Edited(row[s]) \in Row /\ RowCurrent(Edited(row[s]))
      <3>1. Edited(row[s]) \in Row
        BY <1>2, RowTypes DEF Edit
      <3>2. RowCurrent(Edited(row[s]))
        BY DEF Edited, RowCurrent, Row
      <3>3. QED
        BY <3>1, <3>2
    <2>2. s # processing /\ Update(s, Edited(row[s]))
      BY <1>2 DEF Edit, ByHand, Undisturbed
    <2>3. CurrentRows'
      BY <2>1, <2>2, UpdateCurrent
    <2>4. \A t \in Segment \ {s} : row'[t] = row[t]
      BY <2>1, <2>2, UpdateAt
    <2>5. QED
      BY <1>2, <2>2, <2>3, <2>4, JobSplit, JobKept DEF Edit
  <1>3. CASE RefreshNow(s)
    <2>1. s # processing
      BY <1>3 DEF RefreshNow, Undisturbed
    <2>2. CurrentRows'
      BY <1>0, <1>3, SetStatusCurrent DEF RefreshNow
    <2>3. \A t \in Segment \ {s} : row'[t] = row[t]
      BY <1>0, <1>3, SetStatusAt DEF RefreshNow
    <2>4. QED
      BY <1>3, <2>1, <2>2, <2>3, JobSplit, JobKept DEF RefreshNow
  <1>4. CASE Unstick(s)
    <2>1. CurrentRows'
      BY <1>0, <1>4, SetStatusCurrent DEF Unstick
    <2>2. processing # NoSegment => JobRow(row'[processing])
      BY <1>0, <1>4, SetStatusAt, JobSplit DEF Unstick, JobRow, Exists
    <2>3. QED
      BY <1>4, <2>1, <2>2, JobKept DEF Unstick
  <1>5. CASE Delete(s)
    <2>1. Gone.query = Gone.tree /\ Gone.status = "deleted"
      BY DEF Gone, NoRow
    <2>2. CurrentRows'
      BY <1>5, <2>1 DEF Delete, CurrentRows, RowCurrent
    <2>3. processing # NoSegment => JobRow(row'[processing])
      BY <1>5, <2>1, JobSplit DEF Delete, JobRow
    <2>4. QED
      BY <1>5, <2>2, <2>3, JobKept DEF Delete
  <1>6. QED
    BY <1>1, <1>2, <1>3, <1>4, <1>5

\* The steps of the running refresh.
LEMMA RefreshCurrent ==
    ASSUME TypeOK, CurrentRows, JobInv, NEW s \in Segment, Refresh(s)
    PROVE  CurrentRows' /\ JobInv'
  <1> USE DEF TypeOK
  <1>0. "refreshing" \in Status /\ "stale" \in Status /\ "broken" \in Status
    BY DEF Status
  <1>a. s # NoSegment
    BY SegmentRefreshAssumption
  <1>1. CASE IdentityFound(s)
    <2>1. CurrentRows'
      BY <1>1 DEF IdentityFound, CurrentRows
    <2>2. processing = s /\ job' = [job EXCEPT !.phase = "drift"] /\ row' = row
          /\ processing' = processing /\ up' = up /\ up
      BY <1>1 DEF IdentityFound, In, GoOn
    <2>3. JobInv'
      BY <1>a, <2>2 DEF JobInv, Exists, Job
    <2>4. QED
      BY <2>1, <2>3
  <1>2. CASE IdentityFails(s)
    BY <1>0, <1>2, SetStatusCurrent, JobReturned DEF IdentityFails
  <1>3. CASE NoDrift(s)
    <2>1. CurrentRows'
      BY <1>3 DEF NoDrift, CurrentRows
    <2>2. processing = s /\ job' = [job EXCEPT !.phase = "load"] /\ row' = row
          /\ processing' = processing /\ up' = up /\ up
      BY <1>3 DEF NoDrift, In, GoOn
    <2>3. JobInv'
      BY <1>a, <2>2 DEF JobInv, Exists, Job
    <2>4. QED
      BY <2>1, <2>3
  <1>4. CASE Rehydrate(s)
    <2> DEFINE r == [row[s] EXCEPT !.query = job.tree, !.metaV = meta]
    <2>1. r \in Row
      BY RowTypes DEF Job
    <2>2. processing = s /\ processing' = s /\ up' = up /\ up /\ Update(s, r)
          /\ job' = [job EXCEPT !.phase = "load", !.query = job.tree]
      BY <1>4 DEF Rehydrate, In
    <2>3. r.query = job.tree /\ r.tree = row[s].tree /\ r.uids = row[s].uids
          /\ r.status = row[s].status
      BY DEF Row
    <2>4. Exists(s) => job.tree = row[s].tree
      BY <1>a, <2>2 DEF JobInv
    <2>5. Exists(s) => RowCurrent(r)
      BY <2>3, <2>4 DEF CurrentRows, RowCurrent
    <2> HIDE DEF r
    <2>6. CurrentRows'
      BY <2>1, <2>2, <2>5, UpdateCurrent
    <2>7. row'[s] = IF Exists(s) THEN [r EXCEPT !.old = FALSE] ELSE row[s]
      BY <2>1, <2>2, UpdateAt
    <2>8. /\ row'[s].status = row[s].status /\ row'[s].tree = row[s].tree
          /\ row'[s].uids = row[s].uids
      BY <2>1, <2>3, <2>7 DEF Row
    <2>9. job'.phase = "load" /\ job'.tree = job.tree /\ job'.query = job.tree
          /\ job'.prior = job.prior
      BY <2>2 DEF Job
    <2>10. JobInv'
      BY <1>a, <2>2, <2>8, <2>9 DEF JobInv, Exists
    <2>11. QED
      BY <2>6, <2>10
  <1>5. CASE MembersMissing(s)
    BY <1>0, <1>5, SetStatusCurrent, JobReturned DEF MembersMissing
  <1>6. CASE Loaded(s)
    <2> DEFINE r == [row[s] EXCEPT !.uids = job.query, !.status = "fresh", !.age = "recent"]
    <2>1. r \in Row
      BY RowTypes DEF Job
    <2>2. processing = s /\ processing' = s /\ up' = up /\ up /\ Update(s, r)
          /\ job' = [job EXCEPT !.phase = "tail"]
      BY <1>6 DEF Loaded, In, GoOn
    <2>3. r.query = row[s].query /\ r.tree = row[s].tree /\ r.uids = job.query
          /\ r.status = "fresh"
      BY DEF Row
    <2>4. Exists(s) => job.tree = row[s].tree /\ job.query = row[s].tree
      BY <1>a, <2>2 DEF JobInv
    <2>5. Exists(s) => RowCurrent(r)
      BY <2>3, <2>4 DEF CurrentRows, RowCurrent
    <2> HIDE DEF r
    <2>6. CurrentRows'
      BY <2>1, <2>2, <2>5, UpdateCurrent
    <2>7. row'[s] = IF Exists(s) THEN [r EXCEPT !.old = FALSE] ELSE row[s]
      BY <2>1, <2>2, UpdateAt
    <2>8. IF Exists(s) THEN /\ row'[s].status = "fresh" /\ row'[s].tree = row[s].tree
                            /\ row'[s].uids = job.query
          ELSE row'[s] = row[s]
      BY <2>1, <2>3, <2>7 DEF Row
    <2>9. job'.phase = "tail" /\ job'.tree = job.tree /\ job'.query = job.query
          /\ job'.prior = job.prior
      BY <2>2 DEF Job
    <2>10. JobInv'
      BY <1>a, <2>2, <2>4, <2>8, <2>9 DEF JobInv, Exists
    <2>11. QED
      BY <2>6, <2>10
  <1>7. CASE LoadFails(s)
    <2>1. Restored \in Status
      BY <1>0 DEF Restored, Job
    <2>2. processing = s
      BY <1>7 DEF LoadFails, In
    <2>3. Restored = "fresh" /\ Exists(s) => row[s].uids = row[s].tree
      BY <1>a, <2>2 DEF Restored, JobInv
    <2>4. PICK st \in {Restored, "broken"} : SetStatus(s, st)
      BY <1>7 DEF LoadFails
    <2>5. CurrentRows'
      BY <1>0, <2>1, <2>3, <2>4, SetStatusCurrent
    <2>6. QED
      BY <1>7, <2>5, JobReturned DEF LoadFails
  <1>8. CASE TailEnds(s)
    <2>1. CASE row' = row
      BY <1>8, <2>1, JobReturned DEF TailEnds, CurrentRows
    <2>2. CASE Update(s, row[s])
      <3>1. RowCurrent(row[s])
        BY DEF CurrentRows
      <3>2. QED
        BY <1>8, <2>2, <3>1, UpdateCurrent, JobReturned DEF TailEnds
    <2>3. QED
      BY <1>8, <2>1, <2>2 DEF TailEnds
  <1>9. QED
    BY <1>1, <1>2, <1>3, <1>4, <1>5, <1>6, <1>7, <1>8 DEF Refresh

LEMMA CurrentInit == Init => CurrentInv
  BY SegmentRefreshAssumption
     DEF Init, NoRow, NoJob, CurrentInv, QueryMatchesTree, FreshMeansCurrent, JobInv

LEMMA CurrentNext ==
    ASSUME Undisturbed, TypeOK, CurrentInv, [Next]_vars
    PROVE  CurrentInv'
  <1> SUFFICES CurrentRows' /\ JobInv'
    BY DEF CurrentInv, CurrentRows, RowCurrent, QueryMatchesTree, FreshMeansCurrent
  <1>0. CurrentRows /\ JobInv
    BY CurrentSplit
  <1> USE <1>0 DEF TypeOK
  <1>1. ASSUME NEW s \in Segment,
               Create(s) \/ Edit(s) \/ RefreshNow(s) \/ Unstick(s) \/ Delete(s)
        PROVE  CurrentRows' /\ JobInv'
    BY <1>1, RouteCurrent
  <1>b. ASSUME NEW s \in Segment PROVE ~WriteUids(s)
    BY DEF WriteUids, ByHand, Undisturbed
  <1>2. ASSUME NEW s \in Segment, Refresh(s) PROVE CurrentRows' /\ JobInv'
    BY <1>2, RefreshCurrent
  <1>3. ASSUME NEW s \in Segment, BecomesOverdue(s) \/ BecomesOld(s)
        PROVE  CurrentRows' /\ JobInv'
    <2>1. ASSUME NEW t \in Segment
          PROVE  /\ row'[t].status = row[t].status /\ row'[t].tree = row[t].tree
                 /\ row'[t].query = row[t].query /\ row'[t].uids = row[t].uids
      <3>1. row[t] \in Row
        OBVIOUS
      <3>2. \/ row'[t] = row[t]
            \/ row'[t] = [row[t] EXCEPT !.age = "overdue"]
            \/ row'[t] = [row[t] EXCEPT !.old = TRUE]
        BY <1>3 DEF BecomesOverdue, BecomesOld
      <3>3. QED
        BY <3>1, <3>2 DEF Row
    <2>2. CurrentRows'
      BY <2>1 DEF CurrentRows, RowCurrent
    <2>3. processing # NoSegment => JobRow(row'[processing])
      BY <2>1, JobSplit DEF JobRow
    <2>4. QED
      BY <1>3, <2>2, <2>3, JobKept DEF BecomesOverdue, BecomesOld
  <1>4. ASSUME Drain PROVE CurrentRows' /\ JobInv'
    <2> DEFINE s == Head(pending)
    <2>1. s \in Segment /\ s # NoSegment
      BY <1>4, QueueTail, SegmentRefreshAssumption DEF Drain, Distinct
    <2>2. "refreshing" \in Status
      BY DEF Status
    <2>3. CASE Exists(s) /\ s \notin NoCube
      <3>1. processing' = s /\ SetStatus(s, "refreshing") /\ up' /\ job'.phase = "identity"
            /\ job'.tree = row[s].tree /\ job'.query = row[s].query
            /\ job'.prior = row[s].status
        BY <1>4, <2>3 DEF Drain
      <3> HIDE DEF s
      <3>2. CurrentRows'
        BY <2>1, <2>2, <3>1, SetStatusCurrent
      <3>3. /\ row'[s].status = "refreshing" /\ row'[s].tree = row[s].tree
            /\ row'[s].uids = row[s].uids
        BY <2>1, <2>2, <2>3, <3>1, SetStatusAt
      <3>4. RowCurrent(row[s])
        BY <2>1 DEF CurrentRows
      <3>5. JobInv'
        BY <2>1, <3>1, <3>3, <3>4 DEF JobInv, Exists, RowCurrent
      <3>6. QED
        BY <3>2, <3>5
    <2>4. CASE ~(Exists(s) /\ s \notin NoCube)
      <3>1. UNCHANGED <<row, up, processing, job>>
        BY <1>4, <2>4 DEF Drain
      <3>2. QED
        BY <3>1, JobSplit, JobKept DEF CurrentRows
    <2>5. QED
      BY <2>3, <2>4
  <1>5. ASSUME NEW S, row' = Reconciled(S)
        PROVE  CurrentRows' /\ (JobRow(row[processing]) /\ processing \in Segment
                                => JobRow(row'[processing]))
    <2>1. CurrentRows'
      BY <1>5, ReconciledCurrent
    <2>2. QED
      BY <1>5, <2>1, ReconciledAt DEF JobRow
  <1>6. ASSUME Tick PROVE CurrentRows' /\ JobInv'
    <2>1. row' = Reconciled(Wedged) /\ UNCHANGED <<up, processing, job>>
      BY <1>6 DEF Tick, ListAndEnqueue
    <2>2. QED
      BY <1>5, <2>1, JobSplit, JobKept
  <1>7. ASSUME Boot PROVE CurrentRows' /\ JobInv'
    <2>1. row' = Reconciled(Segment) /\ UNCHANGED <<processing, job>> /\ ~up
      BY <1>7 DEF Boot, ListAndEnqueue
    <2>2. CurrentRows'
      BY <1>5, <2>1
    <2>3. JobInv'
      BY <2>1 DEF JobInv
    <2>4. QED
      BY <2>2, <2>3
  <1>8. ASSUME Crash PROVE CurrentRows' /\ JobInv'
    <2>1. CurrentRows'
      BY <1>8 DEF Crash, CurrentRows
    <2>2. JobInv'
      BY <1>8 DEF Crash, NoJob, JobInv
    <2>3. QED
      BY <2>1, <2>2
  <1>9. ASSUME UNCHANGED <<row, up, processing, job>> PROVE CurrentRows' /\ JobInv'
    BY <1>9, JobSplit, JobKept DEF CurrentRows
  <1>10. CASE TickGoesOn \/ MetaChanges \/ UNCHANGED vars
    BY <1>9, <1>10 DEF TickGoesOn, MetaChanges, vars
  <1>11. QED
    BY <1>b, <1>1, <1>2, <1>3, <1>4, <1>6, <1>7, <1>8, <1>10 DEF Next

\* A segment shown as fresh has the cohort of the predicate it is shown with,
\* as long as no request touches a segment in the middle of its own refresh
\* (an edit then is the counterexample of run segment_dropped).
THEOREM FreshIsCurrent ==
    ASSUME Undisturbed
    PROVE  Spec => []FreshMeansCurrent
  <1>1. TypeOK /\ CurrentInv /\ [Next]_vars => (TypeOK /\ CurrentInv)'
    BY TypeNext, CurrentNext
  <1>2. CurrentInv => FreshMeansCurrent
    BY DEF CurrentInv
  <1>3. QED
    BY TypeInit, CurrentInit, <1>1, <1>2, PTL DEF Spec

\* Under the same assumption the stored query is the translation of the stored
\* tree, whoever wrote it last: a route, or a rehydration in a refresh.
THEOREM QueryIsCurrent ==
    ASSUME Undisturbed
    PROVE  Spec => []QueryMatchesTree
  <1>1. TypeOK /\ CurrentInv /\ [Next]_vars => (TypeOK /\ CurrentInv)'
    BY TypeNext, CurrentNext
  <1>2. CurrentInv => QueryMatchesTree
    BY DEF CurrentInv
  <1>3. QED
    BY TypeInit, CurrentInit, <1>1, <1>2, PTL DEF Spec
-----------------------------------------------------------------------------
(* Refreshing means that a refresh is in flight or in the queue. *)

Backed(s) == row[s].status = "refreshing" => s = processing \/ s \in ToSet(pending)

\* A step of a running gateway that takes nothing off the queue or out of
\* flight, and backs the segments it shows as refreshing.
LEMMA BackedKept ==
    ASSUME TypeOK, RefreshingIsBacked, up, processing' = processing,
           ToSet(pending) \subseteq ToSet(pending'),
           \A s \in Segment : row'[s].status = "refreshing" =>
               row[s].status = "refreshing" \/ s = processing \/ s \in ToSet(pending')
    PROVE  RefreshingIsBacked'
  <1>1. ASSUME NEW s \in Segment, row'[s].status = "refreshing"
        PROVE  s = processing' \/ s \in ToSet(pending')
    BY <1>1 DEF RefreshingIsBacked
  <1>2. (\A s \in Segment : row[s].status = "refreshing"
            => s = processing \/ s \in ToSet(pending))'
    BY <1>1
  <1>3. QED
    BY <1>2 DEF RefreshingIsBacked

\* A refresh that returns leaves its row in another status.
LEMMA BackedReturn ==
    ASSUME TypeOK, RefreshingIsBacked, NEW s \in Segment, up, processing = s, Return,
           \A t \in Segment \ {s} : row'[t] = row[t], row'[s].status # "refreshing"
    PROVE  RefreshingIsBacked'
  <1>1. ASSUME NEW t \in Segment, row'[t].status = "refreshing" PROVE t \in ToSet(pending)
    BY <1>1 DEF RefreshingIsBacked
  <1>2. pending' = pending
    BY DEF Return
  <1>3. (\A t \in Segment : row[t].status = "refreshing" => t \in ToSet(pending))'
    BY <1>1, <1>2
  <1>4. QED
    BY <1>3 DEF RefreshingIsBacked

\* The row an UPDATE of the status leaves behind is not 'refreshing'.
LEMMA StatusEnds ==
    ASSUME row \in [Segment -> Row], NEW s \in Segment, NEW st \in Status,
           SetStatus(s, st), st # "refreshing"
    PROVE  row'[s].status # "refreshing" /\ \A t \in Segment \ {s} : row'[t] = row[t]
  BY SetStatusAt DEF Exists

LEMMA BackedInit == Init => RefreshingIsBacked
  BY DEF Init, NoRow, RefreshingIsBacked

LEMMA BackedRefresh ==
    ASSUME TypeOK, JobInv, RefreshingIsBacked, NEW s \in Segment, Refresh(s)
    PROVE  RefreshingIsBacked'
  <1>0. "stale" \in Status /\ "broken" \in Status /\ s # NoSegment
        /\ row \in [Segment -> Row] /\ job.prior \in Status
    BY SegmentRefreshAssumption DEF Status, TypeOK, Job
  <1>1. CASE IdentityFound(s) \/ NoDrift(s)
    <2>1. up /\ UNCHANGED <<row, processing, pending>>
      BY <1>1 DEF IdentityFound, NoDrift, In, GoOn
    <2>2. QED
      BY <2>1, BackedKept
  <1>2. CASE IdentityFails(s)
    <2>1. up /\ processing = s /\ Return
      BY <1>2 DEF IdentityFails, In
    <2>2. PICK st \in {"stale", "broken"} : SetStatus(s, st)
      BY <1>2 DEF IdentityFails
    <2>3. QED
      BY <1>0, <2>1, <2>2, StatusEnds, BackedReturn
  <1>3. CASE Rehydrate(s)
    <2> DEFINE r == [row[s] EXCEPT !.query = job.tree, !.metaV = meta]
    <2>1. r \in Row /\ r.status = row[s].status
      <3>1. job.tree \in Version /\ meta \in Meta /\ row[s] \in Row
        BY <1>0 DEF TypeOK, Job
      <3>2. r \in Row
        BY <3>1, RowTypes
      <3>3. r.status = row[s].status
        BY <3>1 DEF Row
      <3>4. QED
        BY <3>2, <3>3
    <2>2. up /\ processing = s /\ Update(s, r) /\ UNCHANGED <<processing, pending>>
      BY <1>3 DEF Rehydrate, In
    <2> HIDE DEF r
    <2>3. QED
      BY <1>0, <2>1, <2>2, UpdateAt, BackedKept
  <1>4. CASE MembersMissing(s)
    <2>1. up /\ processing = s /\ Return /\ SetStatus(s, "broken")
      BY <1>4 DEF MembersMissing, In
    <2>2. QED
      BY <1>0, <2>1, StatusEnds, BackedReturn
  <1>5. CASE Loaded(s)
    <2> DEFINE r == [row[s] EXCEPT !.uids = job.query, !.status = "fresh", !.age = "recent"]
    <2>1. r \in Row
      BY <1>0, RowTypes DEF TypeOK, Job
    <2>2. up /\ processing = s /\ Update(s, r) /\ UNCHANGED <<processing, pending>>
      BY <1>5 DEF Loaded, In, GoOn
    <2> HIDE DEF r
    <2>3. QED
      BY <1>0, <2>1, <2>2, UpdateAt, BackedKept
  <1>6. CASE LoadFails(s)
    <2>1. up /\ processing = s /\ Return
      BY <1>6 DEF LoadFails, In
    <2>2. PICK st \in {Restored, "broken"} : SetStatus(s, st)
      BY <1>6 DEF LoadFails
    <2>3. st \in Status /\ st # "refreshing"
      BY <1>0, <2>2 DEF Restored
    <2>4. QED
      BY <1>0, <2>1, <2>2, <2>3, StatusEnds, BackedReturn
  <1>7. CASE TailEnds(s)
    <2>1. up /\ processing = s /\ Return /\ row[s].status # "refreshing"
      BY <1>0, <1>7 DEF TailEnds, In, JobInv
    <2>2. row[s] \in Row
      BY <1>0
    <2>3. /\ \A t \in Segment \ {s} : row'[t] = row[t]
          /\ row'[s] = row[s] \/ row'[s] = [row[s] EXCEPT !.old = FALSE]
      BY <1>0, <1>7, <2>2, UpdateAt DEF TailEnds
    <2>4. row'[s].status # "refreshing"
      BY <2>1, <2>2, <2>3 DEF Row
    <2>5. QED
      BY <2>1, <2>3, <2>4, BackedReturn
  <1>8. QED
    BY <1>1, <1>2, <1>3, <1>4, <1>5, <1>6, <1>7 DEF Refresh

LEMMA BackedNext ==
    ASSUME NoCube = {}, TypeOK, JobInv, RefreshingIsBacked, [Next]_vars
    PROVE  RefreshingIsBacked'
  <1>0. "refreshing" \in Status /\ "stale" \in Status /\ row \in [Segment -> Row]
    BY DEF Status, TypeOK
  <1>1. ASSUME NEW s \in Segment, Create(s) \/ Edit(s) \/ RefreshNow(s)
        PROVE  RefreshingIsBacked'
    <2>1. up /\ processing' = processing /\ Enqueue(s)
      BY <1>1 DEF Create, Edit, RefreshNow, Quiet
    <2>2. \A t \in Segment \ {s} : row'[t] = row[t]
      BY <1>0, <1>1 DEF Create, Edit, RefreshNow, SetStatus, Update
    <2>3. QED
      BY <2>1, <2>2, EnqueueAdds, BackedKept
  <1>2. ASSUME NEW s \in Segment, Unstick(s) PROVE RefreshingIsBacked'
    <2>1. up /\ UNCHANGED <<processing, pending>> /\ SetStatus(s, "stale")
      BY <1>2 DEF Unstick, Quiet
    <2>2. QED
      BY <1>0, <2>1, StatusEnds, BackedKept
  <1>b. ASSUME NEW s \in Segment, WriteUids(s) PROVE RefreshingIsBacked'
    <2>1. UNCHANGED <<up, processing, pending>>
      BY <1>b DEF WriteUids
    <2>2. PICK r \in ByHand(row[s]) : Update(s, r)
      BY <1>b DEF WriteUids
    <2>3. r \in Row /\ r.status = row[s].status
      BY <1>0, ByHandAt
    <2>a. [r EXCEPT !.old = FALSE].status = r.status
      BY <2>3 DEF Row
    <2>4. \A t \in Segment : row'[t].status = row[t].status
      BY <1>0, <2>2, <2>3, <2>a, UpdateAt
    <2>5. QED
      BY <2>1, <2>4 DEF RefreshingIsBacked
  <1>3. ASSUME NEW s \in Segment, Delete(s) PROVE RefreshingIsBacked'
    <2>1. up /\ UNCHANGED <<processing, pending>> /\ row' = [row EXCEPT ![s] = Gone]
      BY <1>3 DEF Delete, Quiet
    <2>2. Gone.status # "refreshing"
      BY DEF Gone, NoRow
    <2>3. QED
      BY <1>0, <2>1, <2>2, BackedKept
  <1>4. ASSUME NEW s \in Segment, Refresh(s) PROVE RefreshingIsBacked'
    BY <1>4, BackedRefresh
  <1>5. ASSUME NEW s \in Segment, BecomesOverdue(s) \/ BecomesOld(s)
        PROVE  RefreshingIsBacked'
    <2>1. ASSUME NEW t \in Segment PROVE row'[t].status = row[t].status
      <3>1. row[t] \in Row
        BY <1>0
      <3>2. \/ row'[t] = row[t]
            \/ row'[t] = [row[t] EXCEPT !.age = "overdue"]
            \/ row'[t] = [row[t] EXCEPT !.old = TRUE]
        BY <1>0, <1>5 DEF BecomesOverdue, BecomesOld
      <3>3. QED
        BY <3>1, <3>2 DEF Row
    <2>2. UNCHANGED <<up, processing, pending>>
      BY <1>5 DEF BecomesOverdue, BecomesOld
    <2>3. QED
      BY <2>1, <2>2 DEF RefreshingIsBacked
  <1>6. ASSUME Drain PROVE RefreshingIsBacked'
    <2> DEFINE s == Head(pending)
    <2>1. s \in Segment /\ ToSet(pending) = ToSet(Tail(pending)) \cup {s}
      BY <1>6, QueueTail DEF Drain, TypeOK, Distinct
    <2>2. up' /\ processing = NoSegment /\ pending' = Tail(pending)
      BY <1>6 DEF Drain
    <2>3. ASSUME NEW t \in Segment, row'[t].status = "refreshing"
          PROVE  t = processing' \/ t \in ToSet(pending')
      <3>1. CASE Exists(s)
        <4>1. processing' = s /\ SetStatus(s, "refreshing")
          BY <1>6, <3>1 DEF Drain
        <4> HIDE DEF s
        <4>2. CASE t # s
          <5>1. row[t].status = "refreshing"
            BY <1>0, <2>1, <2>3, <4>1, <4>2, SetStatusAt
          <5>2. t \in ToSet(pending)
            BY <1>6, <2>2, <5>1, SegmentRefreshAssumption DEF Drain, RefreshingIsBacked
          <5>3. QED
            BY <2>1, <2>2, <4>2, <5>2
        <4>3. QED
          BY <4>1, <4>2
      <3>2. CASE ~Exists(s)
        <4>1. row' = row /\ processing' = processing
          BY <1>6, <3>2 DEF Drain
        <4>2. t # s
          BY <2>3, <3>2, <4>1 DEF Exists
        <4>3. t \in ToSet(pending)
          BY <1>6, <2>2, <2>3, <4>1, SegmentRefreshAssumption DEF Drain, RefreshingIsBacked
        <4>4. QED
          BY <2>1, <2>2, <4>2, <4>3
      <3>3. QED
        BY <3>1, <3>2
    <2>4. QED
      BY <2>3 DEF RefreshingIsBacked
  <1>7. ASSUME Tick PROVE RefreshingIsBacked'
    <2>1. up /\ processing' = processing /\ ListAndEnqueue(Reconciled(Wedged))
      BY <1>7 DEF Tick, Quiet
    <2>2. row' = Reconciled(Wedged) /\ ToSet(pending) \subseteq ToSet(pending')
      BY <1>0, <2>1, ReconciledType, ListAndEnqueueType
    <2>3. \A t \in Segment : row'[t].status = "refreshing" => row[t].status = "refreshing"
      BY <1>0, <2>2, ReconciledAt
    <2>4. QED
      BY <2>1, <2>2, <2>3, BackedKept
  <1>8. ASSUME TickGoesOn PROVE RefreshingIsBacked'
    <2>1. PICK s \in listed : Enqueue(s)
      BY <1>8 DEF TickGoesOn
    <2>2. s \in Segment /\ up /\ UNCHANGED <<row, processing>>
      BY <1>8 DEF TickGoesOn, TypeOK
    <2>3. QED
      BY <2>1, <2>2, EnqueueAdds, BackedKept
  <1>9. ASSUME Boot PROVE RefreshingIsBacked'
    <2>1. row' = Reconciled(Segment)
      BY <1>9 DEF Boot, ListAndEnqueue
    <2>2. \A t \in Segment : row'[t].status # "refreshing"
      BY <1>0, <2>1, ReconciledAt
    <2>3. QED
      BY <2>2 DEF RefreshingIsBacked
  <1>10. ASSUME Crash PROVE RefreshingIsBacked'
    BY <1>10 DEF Crash, RefreshingIsBacked
  <1>11. CASE MetaChanges \/ UNCHANGED vars
    BY <1>11 DEF MetaChanges, vars, RefreshingIsBacked
  <1>12. QED
    BY <1>b, <1>1, <1>2, <1>3, <1>4, <1>5, <1>6, <1>7, <1>8, <1>9, <1>10, <1>11 DEF Next

\* While the gateway runs, a segment shown as refreshing has a refresh in
\* flight or in the queue: crashes, the watchdog, deletions and every failure
\* of a refresh included, if segments have a cube and nobody re-requests the
\* one in flight.
THEOREM RefreshingHasRefresh ==
    ASSUME Undisturbed, NoCube = {}
    PROVE  Spec => []RefreshingIsBacked
  <1>1. Init => IInv
    BY TypeInit, CurrentInit, BackedInit DEF IInv
  <1>2. IInv /\ [Next]_vars => IInv'
    BY TypeNext, CurrentNext, BackedNext DEF IInv, CurrentInv
  <1>3. IInv => RefreshingIsBacked
    BY DEF IInv
  <1>4. QED
    BY <1>1, <1>2, <1>3, PTL DEF Spec
=============================================================================
