--------------------------- MODULE ChatTurn_proofs ---------------------------
(* Proofs about ChatTurn: its rows keep their order for any number of       *)
(* sessions, turns and crashes, and whatever faults the environment has;    *)
(* and, while no client posts with a compacted id, a running turn is found  *)
(* under every session id its client knows.                                 *)
EXTENDS ChatTurn, SequenceTheorems, FiniteSetTheorems, WellFoundedInduction, TLAPS

LEMMA EntryFields ==
    /\ NoEntry \in Entry
    /\ \A e \in Entry : \A s \in Session : [e EXCEPT !.sid = s] \in Entry
    /\ \A e \in Entry : \A r \in Reason : [e EXCEPT !.reason = r] \in Entry
    /\ \A e \in Entry : \A st \in {"done", "error"} :
           [e EXCEPT !.status = IF @ = "none" THEN "none" ELSE st] \in Entry
  BY DEF Entry, NoEntry

LEMMA RowTypes ==
    /\ PreambleRow \in Row
    /\ \A t \in Turn : \A i \in Nat : UserRow(t, i) \in Row
    /\ \A t \in Turn \cup {NoSession} : \A i \in Nat : \A r \in Stop :
           AnswerRow(t, i, r) \in Row
  BY DEF Row, PreambleRow, UserRow, AnswerRow, Stop, Reason

\* A user's row appended with the next index keeps the order of the rows.
LEMMA AppendQuestion ==
    ASSUME NEW q \in Seq(Row), NEW t \in Turn, InOrder(q), AnswersFollow(q)
    PROVE  LET w == Append(q, UserRow(t, Len(q)))
           IN  /\ InOrder(w) /\ AnswersFollow(w)
               /\ Len(w) = Len(q) + 1
               /\ w[Len(q) + 1] = UserRow(t, Len(q))
  <1> DEFINE r == UserRow(t, Len(q))
             w == Append(q, r)
  <1>1. r \in Row /\ r.idx = Len(q) /\ r.role = "user"
    BY RowTypes DEF UserRow
  <1>2. Len(w) = Len(q) + 1 /\ w[Len(q) + 1] = r /\ DOMAIN w = 1 .. Len(q) + 1
    BY <1>1
  <1>3. \A i \in 1 .. Len(q) : w[i] = q[i]
    BY <1>1
  <1> HIDE DEF r, w
  <1>4. InOrder(w)
    BY <1>1, <1>2, <1>3 DEF InOrder
  <1>5. AnswersFollow(w)
    BY <1>1, <1>2, <1>3 DEF AnswersFollow
  <1>6. QED
    BY <1>2, <1>4, <1>5 DEF r, w

\* An answer appended right after its question, with the next index, keeps the
\* order of the rows.
LEMMA AppendAnswer ==
    ASSUME NEW q \in Seq(Row), NEW t \in Turn \cup {NoSession}, NEW n \in Nat,
           NEW stop \in Stop, InOrder(q), AnswersFollow(q),
           n = Len(q), n > 0, q[n].role = "user", q[n].turn = t
    PROVE  LET w == Append(q, AnswerRow(t, n, stop))
           IN  /\ InOrder(w) /\ AnswersFollow(w)
               /\ Len(w) = Len(q) + 1
               /\ w[Len(q) + 1] = AnswerRow(t, n, stop)
               /\ \A i \in DOMAIN q : i \in DOMAIN w /\ w[i] = q[i]
  <1> DEFINE r == AnswerRow(t, n, stop)
             w == Append(q, r)
  <1>1. r \in Row /\ r.idx = n /\ r.role = "assistant" /\ r.turn = t
    BY RowTypes DEF AnswerRow
  <1>2. Len(w) = Len(q) + 1 /\ w[Len(q) + 1] = r /\ DOMAIN w = 1 .. Len(q) + 1
    BY <1>1
  <1>3. \A i \in 1 .. Len(q) : w[i] = q[i]
    BY <1>1
  <1> HIDE DEF r, w
  <1>4. InOrder(w)
    BY <1>1, <1>2, <1>3 DEF InOrder
  <1>5. AnswersFollow(w)
    BY <1>1, <1>2, <1>3 DEF AnswersFollow
  <1>6. QED
    BY <1>2, <1>3, <1>4, <1>5 DEF r, w
-----------------------------------------------------------------------------
(* Type correctness.  The session a turn's tokens are booked on is a session
   because the handler holds its mutex, so the step needs MutexInv. *)

LEMMA RekeyedType ==
    ASSUME TypeOK, NEW s \in Session, NEW c \in Session
    PROVE  Rekeyed(s, c) \in [Turn -> Entry]
  BY EntryFields DEF TypeOK, Rekeyed

LEMMA AdmitType ==
    ASSUME TypeOK, NEW t \in Turn, NEW s \in Session,
           NEW e \in [Turn -> Entry], NEW rs \in [Session -> Seq(Row)],
           Admit(t, s, e, rs)
    PROVE  /\ entry' \in [Turn -> Entry]
           /\ rows' \in [Session -> Seq(Row)]
           /\ holds' \in [Turn -> Session \cup {NoSession}]
           /\ sid' \in [Turn -> Session \cup {NoSession}]
           /\ userIdx' \in [Turn -> Nat]
           /\ pc' \in [Turn -> Phase]
           /\ UNCHANGED <<up, crashes, over, timer, signal, got>>
  <1>1. UNCHANGED <<up, crashes, over, timer, signal, got>>
    BY DEF Admit
  <1>2. CASE Registered(t, s, e, rs)
    <2>1. [status |-> "running", sid |-> s, reason |-> "none"] \in Entry
      BY DEF Entry
    <2>2. entry' \in [Turn -> Entry]
      BY <1>2, <2>1 DEF Registered
    <2>3. Len(rs[s]) \in Nat /\ UserRow(t, Len(rs[s])) \in Row
      BY RowTypes
    <2>4. rows' \in [Session -> Seq(Row)]
      BY <1>2, <2>3 DEF Registered
    <2>5. QED
      BY <1>1, <1>2, <2>2, <2>3, <2>4 DEF Registered, TypeOK, Phase, Working
  <1>3. CASE Overflowed(t, e, rs)
    BY <1>1, <1>3 DEF Overflowed, TypeOK, Phase, Working
  <1>4. QED
    BY <1>2, <1>3 DEF Admit

LEMMA PostType ==
    ASSUME TypeOK, NEW t \in Turn, Post(t)
    PROVE  TypeOK'
  <1>1. PICK s \in Session : \/ PostNew(t, s) \/ PostExisting(t, s)
                             \/ \E c \in Session : PostCompacting(t, s, c)
    BY DEF Post
  <1>2. CASE PostNew(t, s)
    <2>1. Admit(t, s, entry, rows)
      BY <1>2 DEF PostNew
    <2>2. entry \in [Turn -> Entry] /\ rows \in [Session -> Seq(Row)]
      BY DEF TypeOK
    <2>3. QED
      BY <1>2, <2>1, <2>2, AdmitType DEF PostNew, TypeOK
  <1>3. CASE PostExisting(t, s)
    <2>1. Admit(t, s, entry, rows)
      BY <1>3 DEF PostExisting
    <2>2. entry \in [Turn -> Entry] /\ rows \in [Session -> Seq(Row)]
      BY DEF TypeOK
    <2>3. QED
      BY <1>3, <2>1, <2>2, AdmitType DEF PostExisting, MayPost, TypeOK
  <1>4. ASSUME NEW c \in Session, PostCompacting(t, s, c)
        PROVE  TypeOK'
    <2> DEFINE rs == [rows EXCEPT ![c] = <<PreambleRow>>]
    <2>1. Admit(t, c, Rekeyed(s, c), rs)
      BY <1>4 DEF PostCompacting
    <2>2. rs \in [Session -> Seq(Row)]
      BY RowTypes DEF TypeOK
    <2>3. Rekeyed(s, c) \in [Turn -> Entry]
      BY RekeyedType
    <2> HIDE DEF rs
    <2>4. QED
      BY <1>4, <2>1, <2>2, <2>3, AdmitType DEF PostCompacting, MayPost, TypeOK
  <1>5. QED
    BY <1>1, <1>2, <1>3, <1>4

LEMMA AnswerType ==
    ASSUME TypeOK, NEW t \in Turn, NEW stop \in Stop, Answer(t, stop)
    PROVE  rows' \in [Session -> Seq(Row)]
  <1>1. AnswerRow(t, userIdx[t] + 1, stop) \in Row
    BY RowTypes DEF TypeOK
  <1>2. CASE sid[t] \in Session
    <2>1. Append(rows[sid[t]], AnswerRow(t, userIdx[t] + 1, stop)) \in Seq(Row)
      BY <1>1, <1>2 DEF TypeOK
    <2>2. QED
      BY <2>1 DEF TypeOK, Answer
  <1>3. CASE sid[t] \notin Session
    BY <1>3 DEF TypeOK, Answer
  <1>4. QED
    BY <1>2, <1>3

LEMMA ClosedType ==
    ASSUME TypeOK, NEW t \in Turn, NEW st \in {"done", "error"}, Closed(t, st)
    PROVE  /\ entry' \in [Turn -> Entry]
           /\ holds' \in [Turn -> Session \cup {NoSession}]
           /\ pc' \in [Turn -> Phase]
  <1>1. entry' \in [Turn -> Entry]
    BY EntryFields DEF TypeOK, Closed
  <1>2. QED
    BY <1>1 DEF TypeOK, Closed, Phase

\* How an aborted turn ends: closed as done, without a new row, or with one that
\* bears the abort reason or the SDK's stop_reason that was buffered before.
LEMMA AbortedOutcome ==
    ASSUME NEW t \in Turn, NEW threw \in BOOLEAN, NEW out \in Outcomes(t, threw),
           signal[t] # "none"
    PROVE  /\ out[1] = "done"
           /\ \/ out[2] = "none" /\ (HasRow(t) \/ "db_fails" \in Env)
              \/ ~HasRow(t) /\ out[2] = AbortReason(t)
              \/ ~HasRow(t) /\ out[2] = "clean" /\ "stop" \in got[t]
  <1>1. \/ out = <<"done", "none">> /\ (HasRow(t) \/ "db_fails" \in Env)
        \/ ~HasRow(t) /\ out \in {"done"} \X Flushed(t, AbortReason(t))
    BY DEF Outcomes
  <1>2. \A x \in Flushed(t, AbortReason(t)) :
            x = AbortReason(t) \/ (x = "clean" /\ "stop" \in got[t])
    BY DEF Flushed
  <1>3. QED
    BY <1>1, <1>2

LEMMA OutcomeTypes ==
    ASSUME TypeOK, NEW t \in Turn, NEW threw \in BOOLEAN, NEW out \in Outcomes(t, threw)
    PROVE  out[1] \in {"done", "error"} /\ out[2] \in Stop
  <1>1. AbortReason(t) \in Stop
    BY DEF TypeOK, AbortReason, Entry, Stop, Reason
  <1>2. CASE signal[t] # "none"
    BY <1>1, <1>2, AbortedOutcome DEF Stop
  <1>3. CASE signal[t] = "none"
    BY <1>3 DEF Outcomes, Stop
  <1>4. QED
    BY <1>2, <1>3

LEMMA FinalisedType ==
    ASSUME TypeOK, MutexInv, NEW t \in Turn, NEW threw \in BOOLEAN,
           pc[t] \in Working, Finalised(t, threw)
    PROVE  TypeOK'
  <1>1. PICK out \in Outcomes(t, threw) :
          /\ Answer(t, out[2])
          /\ Closed(t, out[1])
          /\ timer' = [timer EXCEPT ![t] = "off"]
          /\ over' \in {over} \cup (IF out[1] = "done" THEN {over \cup {sid[t]}} ELSE {})
          /\ got' = [got EXCEPT ![t] = IF signal[t] # "none" /\ out[2] = "clean"
                                       THEN @ \ {"text"} ELSE {}]
          /\ UNCHANGED <<up, crashes, status, alias, requestVars, signal>>
    BY DEF Finalised
  <1>2. out[1] \in {"done", "error"} /\ out[2] \in Stop
    BY OutcomeTypes
  <1>3. rows' \in [Session -> Seq(Row)]
    BY <1>1, <1>2, AnswerType
  <1>4. /\ entry' \in [Turn -> Entry]
        /\ holds' \in [Turn -> Session \cup {NoSession}]
        /\ pc' \in [Turn -> Phase]
    BY <1>1, <1>2, ClosedType
  <1>5. sid[t] \in Session
    BY DEF MutexInv, Locking
  <1>6. over' \in SUBSET Session
    BY <1>1, <1>5 DEF TypeOK
  <1>7. QED
    BY <1>1, <1>3, <1>4, <1>6 DEF TypeOK, requestVars

LEMMA HandlerType ==
    ASSUME TypeOK, MutexInv, NEW t \in Turn, Handler(t)
    PROVE  TypeOK'
  <1>1. CASE Prepared(t)
    BY <1>1 DEF Prepared, TypeOK, Phase, Working, dbVars, requestVars
  <1>2. CASE PrepThrows(t)
    BY <1>2 DEF PrepThrows, TypeOK, Phase, Working, dbVars, requestVars
  <1>3. CASE CacheHit(t)
    <2>1. rows' \in [Session -> Seq(Row)]
      BY <1>3, AnswerType DEF CacheHit, Stop
    <2>2. /\ entry' \in [Turn -> Entry]
          /\ holds' \in [Turn -> Session \cup {NoSession}]
          /\ pc' \in [Turn -> Phase]
      BY <1>3, ClosedType DEF CacheHit
    <2>3. QED
      BY <1>3, <2>1, <2>2 DEF CacheHit, TypeOK, requestVars
  <1>4. CASE CacheMiss(t)
    <2>1. rows' \in [Session -> Seq(Row)]
      <3>1. PICK stop \in Stop : Answer(t, stop)
        BY <1>4 DEF CacheMiss, Stop
      <3>2. QED
        BY <3>1, AnswerType
    <2>2. QED
      BY <1>4, <2>1 DEF CacheMiss, TypeOK, Phase, Working, requestVars
  <1>5. CASE RunnerResult(t)
    BY <1>5 DEF RunnerResult, TypeOK, dbVars, requestVars
  <1>6. CASE RunnerEnds(t)
    BY <1>6, FinalisedType DEF RunnerEnds, Working, TypeOK
  <1>7. CASE RunnerThrows(t)
    BY <1>7, FinalisedType DEF RunnerThrows, Working, TypeOK
  <1>8. CASE SalvageStarts(t)
    BY <1>8 DEF SalvageStarts, TypeOK, Phase, Working, dbVars, requestVars
  <1>9. CASE SalvageEnds(t)
    BY <1>9, FinalisedType DEF SalvageEnds, Working, TypeOK
  <1>10. QED
    BY <1>1, <1>2, <1>3, <1>4, <1>5, <1>6, <1>7, <1>8, <1>9 DEF Handler

LEMMA AbortType ==
    ASSUME TypeOK, NEW t \in Turn, NEW r \in Reason, Abort(t, r)
    PROVE  /\ entry' \in [Turn -> Entry]
           /\ signal' \in [Turn -> Reason \cup {"none"}]
  <1>1. CASE t \in Running
    <2>1. entry[t] \in Entry /\ [entry[t] EXCEPT !.reason = r] \in Entry
      BY EntryFields DEF TypeOK
    <2>2. entry' = [entry EXCEPT ![t] = [entry[t] EXCEPT !.reason = r]]
      BY <1>1 DEF Abort
    <2>3. entry' \in [Turn -> Entry]
      BY <2>1, <2>2 DEF TypeOK
    <2>4. signal' \in [Turn -> Reason \cup {"none"}]
      BY <1>1 DEF Abort, TypeOK
    <2>5. QED
      BY <2>3, <2>4
  <1>2. CASE t \notin Running
    BY <1>2 DEF Abort, TypeOK
  <1>3. QED
    BY <1>1, <1>2

LEMMA ProcessType ==
    ASSUME TypeOK,
           \/ \E t \in Turn : Cancel(t) \/ TimeoutFires(t)
           \/ SweepRegistry \/ Crash \/ Boot
    PROVE  TypeOK'
  <1>1. ASSUME NEW t \in Turn, Cancel(t)
        PROVE  TypeOK'
    BY <1>1, AbortType DEF Cancel, Reason, TypeOK, dbVars, requestVars
  <1>2. ASSUME NEW t \in Turn, TimeoutFires(t)
        PROVE  TypeOK'
    BY <1>2, AbortType DEF TimeoutFires, Reason, TypeOK, dbVars, requestVars
  <1>3. CASE SweepRegistry
    <2>1. entry' \in [Turn -> Entry]
      BY <1>3, EntryFields DEF SweepRegistry, TypeOK
    <2>2. alias' \in [Session -> Session \cup {NoSession}]
      BY <1>3 DEF SweepRegistry, Pruned, TypeOK
    <2>3. QED
      BY <1>3, <2>1, <2>2 DEF SweepRegistry, TypeOK, dbVars, requestVars
  <1>4. CASE Crash
    <2>1. pc' \in [Turn -> Phase]
      BY <1>4 DEF Crash, TypeOK, Phase
    <2>2. entry' \in [Turn -> Entry]
      BY <1>4, EntryFields DEF Crash
    <2>3. /\ alias' \in [Session -> Session \cup {NoSession}]
          /\ holds' \in [Turn -> Session \cup {NoSession}]
          /\ timer' \in [Turn -> {"off", "armed", "fired"}]
      BY <1>4 DEF Crash
    <2>4. up' \in BOOLEAN /\ crashes' \in Nat
      <3>1. up' \in BOOLEAN
        BY <1>4, Zenon DEF Crash
      <3>2. crashes \in Nat /\ crashes' = crashes + 1
        BY <1>4, Zenon DEF Crash, TypeOK
      <3>3. QED
        BY <3>1, <3>2
    <2>5. /\ UNCHANGED <<status, over, rows, posted, sid, userIdx, signal>>
          /\ got' \in [Turn -> SUBSET Got]
      BY <1>4 DEF Crash, TypeOK, dbVars, requestVars
    <2>6. QED
      BY <2>1, <2>2, <2>3, <2>4, <2>5 DEF TypeOK
  <1>5. CASE Boot
    <2>1. ASSUME NEW s \in Session, Unanswered(s)
          PROVE  LET last == rows[s][Len(rows[s])]
                 IN  Append(rows[s], AnswerRow(last.turn, last.idx + 1, "service_restart"))
                         \in Seq(Row)
      <3>1. rows[s][Len(rows[s])] \in Row
        BY <2>1 DEF Unanswered, TypeOK
      <3>2. AnswerRow(rows[s][Len(rows[s])].turn, rows[s][Len(rows[s])].idx + 1,
                      "service_restart") \in Row
        <4> DEFINE last == rows[s][Len(rows[s])]
        <4>1. last.turn \in Turn \cup {NoSession} /\ last.idx + 1 \in Nat
          BY <3>1 DEF Row
        <4>2. "service_restart" \in Stop
          BY DEF Stop
        <4> HIDE DEF last
        <4>3. AnswerRow(last.turn, last.idx + 1, "service_restart") \in Row
          BY <4>1, <4>2, RowTypes
        <4>4. QED
          BY <4>3 DEF last
      <3>3. QED
        BY <3>2 DEF TypeOK
    <2>2. rows' \in [Session -> Seq(Row)]
      BY <1>5, <2>1 DEF Boot, TypeOK
    <2>3. QED
      BY <1>5, <2>2 DEF Boot, TypeOK, requestVars
  <1>6. QED
    BY <1>1, <1>2, <1>3, <1>4, <1>5

LEMMA TypeStep ==
    ASSUME TypeOK, MutexInv, [Next]_vars
    PROVE  TypeOK'
  <1>1. CASE UNCHANGED vars
    BY <1>1 DEF vars, TypeOK
  <1>2. QED
    BY <1>1, PostType, HandlerType, ProcessType DEF Next
-----------------------------------------------------------------------------
(* The mutex. *)

LEMMA MutexStep ==
    ASSUME TypeOK, MutexInv, [Next]_vars
    PROVE  MutexInv'
  <1> USE ChatTurnAssumption DEF Locking, Working
  <1>1. ASSUME NEW t \in Turn, NEW s \in Session, NEW e, NEW rs,
               pc[t] = "idle", up, Admit(t, s, e, rs)
        PROVE  MutexInv'
    <2>1. CASE Registered(t, s, e, rs)
      BY <1>1, <2>1 DEF Admit, Registered, MutexInv, TypeOK, Locked
    <2>2. CASE Overflowed(t, e, rs)
      BY <1>1, <2>2 DEF Admit, Overflowed, MutexInv, TypeOK
    <2>3. QED
      BY <1>1, <2>1, <2>2 DEF Admit
  <1>2. ASSUME NEW t \in Turn, Post(t)
        PROVE  MutexInv'
    BY <1>1, <1>2 DEF Post, PostNew, PostExisting, PostCompacting, MayPost
  <1>3. ASSUME NEW t \in Turn, pc[t] \in Working, pc' = [pc EXCEPT ![t] = "over"],
               holds' = [holds EXCEPT ![t] = NoSession], UNCHANGED <<sid, up>>
        PROVE  MutexInv'
    BY <1>3 DEF MutexInv, TypeOK
  <1>4. ASSUME NEW t \in Turn, NEW p \in Locking, pc[t] \in Working,
               pc' = [pc EXCEPT ![t] = p], UNCHANGED <<holds, sid, up>>
        PROVE  MutexInv'
    BY <1>4 DEF MutexInv, TypeOK
  <1>5. ASSUME NEW t \in Turn, Handler(t)
        PROVE  MutexInv'
    <2>1. CASE Prepared(t)
      BY <1>4, <2>1 DEF Prepared, requestVars
    <2>2. CASE PrepThrows(t)
      BY <1>4, <2>2 DEF PrepThrows, requestVars
    <2>3. CASE CacheHit(t)
      BY <1>3, <2>3 DEF CacheHit, Closed, requestVars
    <2>4. CASE CacheMiss(t)
      BY <1>4, <2>4 DEF CacheMiss, requestVars
    <2>5. CASE RunnerResult(t)
      BY <2>5 DEF RunnerResult, requestVars, MutexInv
    <2>6. CASE SalvageStarts(t)
      BY <1>4, <2>6 DEF SalvageStarts, requestVars
    <2>7. CASE RunnerEnds(t) \/ RunnerThrows(t) \/ SalvageEnds(t)
      BY <1>3, <2>7 DEF RunnerEnds, RunnerThrows, SalvageEnds, Finalised, Closed, requestVars
    <2>8. QED
      BY <1>5, <2>1, <2>2, <2>3, <2>4, <2>5, <2>6, <2>7 DEF Handler
  <1>6. ASSUME \/ \E t \in Turn : Cancel(t) \/ TimeoutFires(t)
               \/ SweepRegistry \/ UNCHANGED vars
        PROVE  MutexInv'
    BY <1>6 DEF Cancel, TimeoutFires, SweepRegistry, vars, requestVars, MutexInv
  <1>7. CASE Crash
    BY <1>7 DEF Crash, MutexInv, TypeOK, requestVars
  <1>8. CASE Boot
    BY <1>8 DEF Boot, MutexInv, requestVars
  <1>9. QED
    BY <1>2, <1>5, <1>6, <1>7, <1>8 DEF Next
-----------------------------------------------------------------------------
(* The rows.  A step appends to the rows of sessions or leaves them: nothing
   is lost. *)

Grown(q, w) == /\ Len(q) <= Len(w)
               /\ \A i \in DOMAIN q : i \in DOMAIN w /\ w[i] = q[i]

LEMMA HasRowStays ==
    ASSUME TypeOK, TypeOK', NEW t \in Turn, HasRow(t),
           \A s \in Session : Grown(rows[s], rows'[s])
    PROVE  HasRow(t)'
  <1>1. PICK s \in Session : \E i \in DOMAIN rows[s] :
          /\ rows[s][i].role = "assistant" /\ rows[s][i].turn = t
          /\ rows[s][i].stop # "service_restart"
    BY DEF HasRow
  <1>2. \A i \in DOMAIN rows[s] : i \in DOMAIN rows'[s] /\ rows'[s][i] = rows[s][i]
    BY DEF Grown
  <1>3. QED
    BY <1>1, <1>2 DEF HasRow

\* A step of turn t that leaves the questions of the other handlers alone
\* keeps PendingInv, if it keeps it for t.
LEMMA PendingFrame ==
    ASSUME TypeOK, TypeOK', PendingInv, NEW t \in Turn,
           \A s \in Session : Grown(rows[s], rows'[s]),
           \A u \in Turn \ {t} :
               pc'[u] \in Working =>
                   /\ pc'[u] = pc[u] /\ sid'[u] = sid[u] /\ userIdx'[u] = userIdx[u]
                   /\ rows'[sid[u]] = rows[sid[u]],
           pc'[t] \in {"prep", "lookup"} => Pending(t)',
           pc'[t] \in {"stream", "salvage"} => Pending(t)' \/ HasRow(t)'
    PROVE  PendingInv'
  <1>1. ASSUME NEW u \in Turn \ {t}, pc'[u] \in Working
        PROVE  /\ pc[u] = pc'[u]
               /\ Pending(u) => Pending(u)'
               /\ HasRow(u) => HasRow(u)'
    BY <1>1, HasRowStays DEF Pending
  <1>2. QED
    BY <1>1 DEF PendingInv, Working

RowsInv == FreshInv /\ PendingInv /\ RowsInOrder /\ AnswerFollowsQuestion

\* The rows stay as they are: it is enough to follow the phases.
LEMMA RowsQuiet ==
    ASSUME TypeOK, TypeOK', RowsInv, NEW t \in Turn,
           UNCHANGED <<rows, status, sid, userIdx>>,
           \A u \in Turn : u # t /\ pc'[u] \in Locking => pc'[u] = pc[u],
           pc'[t] \in Locking => pc[t] \in Locking,
           pc'[t] \in {"prep", "lookup"} => pc[t] \in {"prep", "lookup"},
           pc'[t] \in {"stream", "salvage"} => pc[t] \in Working
    PROVE  RowsInv'
  <1>1. RowsInOrder' /\ AnswerFollowsQuestion' /\ FreshInv'
    BY DEF RowsInv, RowsInOrder, AnswerFollowsQuestion, FreshInv
  <1>2. \A u \in Turn : /\ Pending(u) => Pending(u)'
                        /\ HasRow(u) => HasRow(u)'
    BY DEF Pending, HasRow
  <1>3. PendingInv'
    BY <1>2 DEF RowsInv, PendingInv, Working, Locking
  <1>4. QED
    BY <1>1, <1>3 DEF RowsInv

\* A question is appended for a turn that gets the mutex.  rs is rows, with
\* the preamble of a fresh session when the conversation is compacted.
LEMMA RowsRegistered ==
    ASSUME TypeOK, TypeOK', MutexInv, MutexInv', RowsInv,
           NEW t \in Turn, NEW s \in Session, NEW e, NEW rs \in [Session -> Seq(Row)],
           pc[t] = "idle", Registered(t, s, e, rs),
           \A x \in Session : InOrder(rs[x]) /\ AnswersFollow(rs[x]),
           \A x \in Session : Grown(rows[x], rs[x]),
           \A x \in Session : x # s => rs[x] = rows[x],
           \A x \in Session : status'[x] = "none" => status[x] = "none",
           status'[s] # "none"
    PROVE  RowsInv'
  <1> DEFINE w == Append(rs[s], UserRow(t, Len(rs[s])))
  <1>1. /\ InOrder(w) /\ AnswersFollow(w)
        /\ Len(w) = Len(rs[s]) + 1
        /\ w[Len(rs[s]) + 1] = UserRow(t, Len(rs[s]))
    BY AppendQuestion
  <1>2. /\ rows' = [rs EXCEPT ![s] = w]
        /\ userIdx' = [userIdx EXCEPT ![t] = Len(rs[s])]
        /\ sid' = [sid EXCEPT ![t] = s]
        /\ pc' = [pc EXCEPT ![t] = "prep"]
    BY DEF Registered
  <1>3. Grown(rs[s], w)
    BY RowTypes DEF Grown
  <1> HIDE DEF w
  <1>4. RowsInOrder' /\ AnswerFollowsQuestion'
    BY <1>1, <1>2 DEF RowsInOrder, AnswerFollowsQuestion
  <1>5. \A x \in Session : Grown(rows[x], rows'[x])
    <2>1. Grown(rows[s], w)
      <3>1. Len(rows[s]) \in Nat /\ Len(rs[s]) \in Nat /\ Len(w) \in Nat
        BY <1>1 DEF TypeOK
      <3>2. Grown(rows[s], rs[s])
        OBVIOUS
      <3>3. QED
        BY <1>3, <3>1, <3>2 DEF Grown
    <2>2. rows'[s] = w /\ \A x \in Session : x # s => rows'[x] = rs[x]
      BY <1>2
    <2>3. QED
      BY <2>1, <2>2
  <1>6. Pending(t)'
    BY <1>1, <1>2 DEF Pending, TypeOK, UserRow
  <1>7. ASSUME NEW u \in Turn \ {t}, pc'[u] \in Locking
        PROVE  /\ pc'[u] = pc[u] /\ sid'[u] = sid[u] /\ userIdx'[u] = userIdx[u]
               /\ sid[u] \in Session /\ sid[u] # s
               /\ rows'[sid[u]] = rows[sid[u]]
    <2>1. pc'[u] = pc[u] /\ sid'[u] = sid[u] /\ userIdx'[u] = userIdx[u]
      BY <1>2, <1>7 DEF TypeOK
    <2>2. sid[u] \in Session /\ holds'[u] = sid[u]
      BY <1>7, <2>1 DEF MutexInv
    <2>3. holds'[t] = s
      BY DEF Registered, TypeOK
    <2>4. sid[u] # s
      BY <2>2, <2>3 DEF MutexInv
    <2>5. QED
      BY <1>2, <2>1, <2>2, <2>4
  <1>8. PendingInv'
    BY <1>2, <1>5, <1>6, <1>7, PendingFrame DEF RowsInv, TypeOK, Working, Locking
  <1>9. FreshInv'
    BY <1>2, <1>7 DEF RowsInv, FreshInv, TypeOK
  <1>10. QED
    BY <1>4, <1>8, <1>9 DEF RowsInv

\* A step of a handler that appends its answer, or nothing, and goes to phase p.
LEMMA RowsAnswered ==
    ASSUME TypeOK, TypeOK', MutexInv, RowsInv,
           NEW t \in Turn, NEW stop \in Stop, NEW p \in {"stream", "over"},
           pc[t] \in Working,
           stop # "none" => ~HasRow(t) \/ pc[t] = "lookup",
           stop # "none" /\ p = "stream" => stop # "service_restart",
           Answer(t, stop), pc' = [pc EXCEPT ![t] = p],
           UNCHANGED <<status, sid, userIdx>>
    PROVE  RowsInv'
  <1>1. CASE stop = "none"
    <2>1. UNCHANGED rows
      BY <1>1 DEF Answer
    <2>2. QED
      BY <2>1, RowsQuiet DEF TypeOK, Locking, Working
  <1>2. CASE stop # "none"
    <2> DEFINE q == rows[sid[t]]
               n == userIdx[t] + 1
               w == Append(q, AnswerRow(t, n, stop))
    <2>1. sid[t] \in Session /\ q \in Seq(Row) /\ n \in Nat \ {0}
      BY DEF MutexInv, Locking, TypeOK
    <2>2. Len(q) = n /\ q[n].role = "user" /\ q[n].turn = t
      BY <1>2 DEF RowsInv, PendingInv, Pending, Working
    <2>3. InOrder(q) /\ AnswersFollow(q)
      BY <2>1 DEF RowsInv, RowsInOrder, AnswerFollowsQuestion
    <2>4. /\ InOrder(w) /\ AnswersFollow(w)
          /\ Len(w) = Len(q) + 1
          /\ w[Len(q) + 1] = AnswerRow(t, n, stop)
          /\ \A i \in DOMAIN q : i \in DOMAIN w /\ w[i] = q[i]
      <3> HIDE DEF q, n
      <3>1. QED
        BY <2>1, <2>2, <2>3, AppendAnswer
    <2>5. rows' = [rows EXCEPT ![sid[t]] = w]
      BY <1>2 DEF Answer
    <2> HIDE DEF w
    <2>6. RowsInOrder' /\ AnswerFollowsQuestion'
      BY <2>1, <2>4, <2>5 DEF RowsInv, RowsInOrder, AnswerFollowsQuestion, TypeOK
    <2>7. \A x \in Session : Grown(rows[x], rows'[x])
      BY <2>1, <2>2, <2>4, <2>5 DEF Grown, TypeOK
    <2>8. HasRow(t)' \/ stop = "service_restart"
      <3>1. rows'[sid[t]][n + 1] = AnswerRow(t, n, stop) /\ n + 1 \in DOMAIN rows'[sid[t]]
        BY <2>1, <2>2, <2>4, <2>5 DEF TypeOK
      <3>2. QED
        BY <2>1, <3>1 DEF HasRow, AnswerRow
    <2>9. \A u \in Turn \ {t} : pc'[u] \in Working =>
              /\ pc'[u] = pc[u] /\ sid'[u] = sid[u] /\ userIdx'[u] = userIdx[u]
              /\ rows'[sid[u]] = rows[sid[u]]
      BY <2>1, <2>5 DEF MutexInv, Locking, TypeOK, Working
    <2>10. PendingInv'
      BY <1>2, <2>7, <2>8, <2>9, PendingFrame DEF RowsInv, TypeOK
    <2>11. FreshInv'
      BY <2>1, <2>5 DEF RowsInv, FreshInv, TypeOK, Locking, Working
    <2>12. QED
      BY <2>6, <2>10, <2>11 DEF RowsInv
  <1>3. QED
    BY <1>1, <1>2

LEMMA RowsPost ==
    ASSUME TypeOK, TypeOK', MutexInv, MutexInv', RowsInv, NEW t \in Turn, Post(t)
    PROVE  RowsInv'
  <1>1. ASSUME NEW s \in Session, PostNew(t, s) \/ PostExisting(t, s)
        PROVE  RowsInv'
    <2>1. /\ pc[t] = "idle"
          /\ \A x \in Session : status'[x] = "none" => status[x] = "none"
          /\ status'[s] # "none"
          /\ Admit(t, s, entry, rows)
      BY <1>1 DEF PostNew, PostExisting, MayPost, TypeOK
    <2>2. CASE Registered(t, s, entry, rows)
      <3>1. rows \in [Session -> Seq(Row)]
        BY DEF TypeOK
      <3>2. \A x \in Session : /\ InOrder(rows[x]) /\ AnswersFollow(rows[x])
                               /\ Grown(rows[x], rows[x])
        BY <3>1 DEF RowsInv, RowsInOrder, AnswerFollowsQuestion, Grown
      <3>3. QED
        BY <2>1, <2>2, <3>1, <3>2, RowsRegistered
    <2>3. CASE Overflowed(t, entry, rows)
      <3>1. UNCHANGED <<rows, sid, userIdx>> /\ pc' = [pc EXCEPT ![t] = "rejected"]
        BY <2>3 DEF Overflowed
      <3>2. RowsInOrder' /\ AnswerFollowsQuestion' /\ PendingInv'
        <4>1. RowsInOrder' /\ AnswerFollowsQuestion'
          BY <3>1 DEF RowsInv, RowsInOrder, AnswerFollowsQuestion
        <4>2. \A u \in Turn : /\ Pending(u)' <=> Pending(u)
                              /\ HasRow(u)' <=> HasRow(u)
                              /\ pc'[u] \in Working => pc'[u] = pc[u]
          BY <3>1 DEF Pending, HasRow, TypeOK, Working
        <4>3. QED
          BY <4>1, <4>2 DEF RowsInv, PendingInv, Working
      <3>3. FreshInv'
        <4>1. ASSUME NEW u \in Turn, pc'[u] \in Locking
              PROVE  sid[u] \in Session /\ status[sid[u]] # "none"
          BY <2>1, <3>1, <4>1 DEF RowsInv, FreshInv, MutexInv, TypeOK, Locking, Working
        <4>2. QED
          BY <2>1, <3>1, <4>1 DEF RowsInv, FreshInv
      <3>4. QED
        BY <3>2, <3>3 DEF RowsInv
    <2>4. QED
      BY <2>1, <2>2, <2>3 DEF Admit
  <1>2. ASSUME NEW s \in Session, NEW c \in Session, PostCompacting(t, s, c)
        PROVE  RowsInv'
    <2> DEFINE rs == [rows EXCEPT ![c] = <<PreambleRow>>]
    <2>1. /\ pc[t] = "idle"
          /\ \A x \in Session : status'[x] = "none" => status[x] = "none"
          /\ status'[c] # "none"
          /\ status[c] = "none"
          /\ Admit(t, c, Rekeyed(s, c), rs)
      BY <1>2 DEF PostCompacting, MayPost, TypeOK
    <2>2. rows[c] = <<>>
      BY <2>1 DEF RowsInv, FreshInv
    <2>3. /\ rs \in [Session -> Seq(Row)]
          /\ rs[c] = <<PreambleRow>>
          /\ \A x \in Session : x # c => rs[x] = rows[x]
      BY RowTypes DEF TypeOK
    <2>4. InOrder(rs[c]) /\ AnswersFollow(rs[c])
      BY <2>3 DEF InOrder, AnswersFollow, PreambleRow
    <2>5. \A x \in Session : InOrder(rs[x]) /\ AnswersFollow(rs[x])
      BY <2>3, <2>4 DEF RowsInv, RowsInOrder, AnswerFollowsQuestion
    <2>6. \A x \in Session : Grown(rows[x], rs[x])
      BY <2>2, <2>3 DEF Grown, TypeOK
    <2> HIDE DEF rs
    <2>7. CASE Registered(t, c, Rekeyed(s, c), rs)
      BY <2>1, <2>3, <2>5, <2>6, <2>7, RowsRegistered
    <2>8. CASE Overflowed(t, Rekeyed(s, c), rs)
      <3>1. /\ rows' = rs /\ UNCHANGED <<sid, userIdx>>
            /\ pc' = [pc EXCEPT ![t] = "rejected"]
        BY <2>8 DEF Overflowed
      <3>2. ASSUME NEW u \in Turn, pc'[u] \in Locking
            PROVE  pc'[u] = pc[u] /\ sid[u] \in Session /\ status[sid[u]] # "none"
                   /\ sid[u] # c
        BY <2>1, <3>1, <3>2 DEF RowsInv, FreshInv, MutexInv, TypeOK, Locking, Working
      <3>3. FreshInv'
        BY <2>1, <2>3, <3>1, <3>2 DEF RowsInv, FreshInv
      <3>4. RowsInOrder' /\ AnswerFollowsQuestion'
        BY <2>5, <3>1 DEF RowsInOrder, AnswerFollowsQuestion
      <3>5. pc'[t] \notin Working
        BY <3>1 DEF TypeOK, Working
      <3>6. PendingInv'
        BY <2>3, <2>6, <3>1, <3>2, <3>5, PendingFrame DEF RowsInv, Locking, Working
      <3>7. QED
        BY <3>3, <3>4, <3>6 DEF RowsInv
    <2>9. QED
      BY <2>1, <2>7, <2>8 DEF Admit
  <1>3. QED
    BY <1>1, <1>2 DEF Post

LEMMA RowsFinalised ==
    ASSUME TypeOK, TypeOK', MutexInv, RowsInv, NEW t \in Turn, NEW threw \in BOOLEAN,
           pc[t] \in Working, Finalised(t, threw)
    PROVE  RowsInv'
  <1>1. PICK out \in Outcomes(t, threw) :
          /\ Answer(t, out[2])
          /\ Closed(t, out[1])
          /\ UNCHANGED <<status, requestVars>>
    BY DEF Finalised
  <1>2. out[2] \in Stop
    BY OutcomeTypes
  <1>3. out[2] # "none" => ~HasRow(t)
    BY DEF Outcomes
  <1>4. QED
    BY <1>1, <1>2, <1>3, RowsAnswered DEF Closed, requestVars

LEMMA RowsHandler ==
    ASSUME TypeOK, TypeOK', MutexInv, RowsInv, NEW t \in Turn, Handler(t)
    PROVE  RowsInv'
  <1>1. CASE Prepared(t)
    BY <1>1, RowsQuiet DEF Prepared, dbVars, requestVars, TypeOK, Locking, Working
  <1>2. CASE PrepThrows(t)
    BY <1>2, RowsQuiet DEF PrepThrows, dbVars, requestVars, TypeOK, Locking, Working
  <1>3. CASE CacheHit(t)
    BY <1>3, RowsAnswered DEF CacheHit, Closed, requestVars, Stop, Working
  <1>4. CASE CacheMiss(t)
    <2>1. PICK stop \in {"none", "end_turn"} : Answer(t, stop)
      BY <1>4 DEF CacheMiss
    <2>2. QED
      BY <1>4, <2>1, RowsAnswered DEF CacheMiss, requestVars, Stop, Working
  <1>5. CASE RunnerResult(t)
    BY <1>5, RowsQuiet DEF RunnerResult, dbVars, requestVars, Locking, Working
  <1>6. CASE SalvageStarts(t)
    BY <1>6, RowsQuiet DEF SalvageStarts, dbVars, requestVars, TypeOK, Locking, Working
  <1>7. CASE RunnerEnds(t)
    BY <1>7, RowsFinalised DEF RunnerEnds, Working
  <1>8. CASE RunnerThrows(t)
    BY <1>8, RowsFinalised DEF RunnerThrows, Working
  <1>9. CASE SalvageEnds(t)
    BY <1>9, RowsFinalised DEF SalvageEnds, Working
  <1>10. QED
    BY <1>1, <1>2, <1>3, <1>4, <1>5, <1>6, <1>7, <1>8, <1>9 DEF Handler

\* The boot sweep answers the questions at the ends of the conversations; no
\* handler is alive.
LEMMA RowsBoot ==
    ASSUME TypeOK, TypeOK', MutexInv, RowsInv, Boot
    PROVE  RowsInv'
  <1> DEFINE last(s) == rows[s][Len(rows[s])]
             marked(s) == Append(rows[s], AnswerRow(last(s).turn, last(s).idx + 1,
                                                    "service_restart"))
  <1>1. PICK X \in SUBSET {s \in Session : Unanswered(s)} :
          rows' = [s \in Session |-> IF s \in X THEN marked(s) ELSE rows[s]]
    BY DEF Boot
  <1>2. ASSUME NEW s \in Session, Unanswered(s)
        PROVE  InOrder(marked(s)) /\ AnswersFollow(marked(s)) /\ marked(s) # <<>>
    <2> DEFINE q == rows[s]
               n == Len(q)
    <2>1. q \in Seq(Row) /\ n \in Nat \ {0} /\ q[n].role = "user" /\ q[n] \in Row
      BY <1>2 DEF Unanswered, TypeOK
    <2>2. InOrder(q) /\ AnswersFollow(q)
      BY DEF RowsInv, RowsInOrder, AnswerFollowsQuestion
    <2>3. q[n].idx + 1 = n /\ q[n].turn \in Turn \cup {NoSession}
      BY <2>1, <2>2 DEF InOrder, Row
    <2>4. "service_restart" \in Stop
      BY DEF Stop
    <2>5. marked(s) = Append(q, AnswerRow(q[n].turn, n, "service_restart"))
      BY <2>3
    <2> HIDE DEF q, marked
    <2>6. /\ InOrder(marked(s)) /\ AnswersFollow(marked(s))
          /\ Len(marked(s)) = n + 1
      BY <2>1, <2>2, <2>3, <2>4, <2>5, AppendAnswer
    <2>7. marked(s) # <<>>
      BY <2>1, <2>6
    <2>8. QED
      BY <2>6, <2>7
  <1> HIDE DEF marked
  <1>3. RowsInOrder' /\ AnswerFollowsQuestion'
    BY <1>1, <1>2 DEF RowsInv, RowsInOrder, AnswerFollowsQuestion
  <1>4. \A t \in Turn : pc'[t] \notin Locking
    BY DEF Boot, MutexInv
  <1>5. PendingInv'
    BY <1>4 DEF PendingInv, Locking, Working
  <1>6. FreshInv'
    BY <1>1, <1>4 DEF RowsInv, FreshInv, Boot, Unanswered
  <1>7. QED
    BY <1>3, <1>5, <1>6 DEF RowsInv

LEMMA RowsStep ==
    ASSUME TypeOK, TypeOK', MutexInv, MutexInv', RowsInv, [Next]_vars
    PROVE  RowsInv'
  <1>1. ASSUME UNCHANGED <<pc, rows, status, sid, userIdx>>
        PROVE  RowsInv'
    BY <1>1 DEF RowsInv, FreshInv, PendingInv, Pending, HasRow, RowsInOrder,
                AnswerFollowsQuestion
  <1>2. CASE (\E t \in Turn : Cancel(t) \/ TimeoutFires(t)) \/ SweepRegistry \/ UNCHANGED vars
    BY <1>1, <1>2 DEF Cancel, TimeoutFires, SweepRegistry, vars, dbVars, requestVars
  <1>3. CASE Crash
    <2>1. \A t \in Turn : pc'[t] \notin Locking
      BY <1>3 DEF Crash, Locking, Working, TypeOK
    <2>2. QED
      BY <1>3, <2>1 DEF Crash, dbVars, RowsInv, FreshInv, PendingInv, RowsInOrder,
                        AnswerFollowsQuestion, Locking, Working
  <1>4. QED
    BY <1>2, <1>3, RowsPost, RowsHandler, RowsBoot DEF Next
-----------------------------------------------------------------------------
(* The theorems. *)

LEMMA IInvInit == Init => IInv
  <1> SUFFICES ASSUME Init PROVE IInv
    OBVIOUS
  <1>1. TypeOK
    BY EntryFields DEF Init, TypeOK, Phase, Reason
  <1>2. MutexInv
    BY ChatTurnAssumption DEF Init, MutexInv, Locking, Working
  <1>3. FreshInv /\ PendingInv
    BY DEF Init, FreshInv, PendingInv, Locking, Working
  <1>4. RowsInOrder /\ AnswerFollowsQuestion
    BY DEF Init, RowsInOrder, AnswerFollowsQuestion, InOrder, AnswersFollow
  <1>5. QED
    BY <1>1, <1>2, <1>3, <1>4 DEF IInv

LEMMA IInvStep == IInv /\ [Next]_vars => IInv'
  <1> SUFFICES ASSUME IInv, [Next]_vars PROVE IInv'
    OBVIOUS
  <1>1. TypeOK /\ MutexInv /\ RowsInv
    BY DEF IInv, RowsInv
  <1>2. TypeOK' /\ MutexInv'
    BY <1>1, TypeStep, MutexStep
  <1>3. RowsInv'
    BY <1>1, <1>2, RowsStep
  <1>4. QED
    BY <1>2, <1>3 DEF IInv, RowsInv

\* The inductive invariant holds for any sets of sessions and turns, any
\* number of crashes and any faults of the environment.
THEOREM Invariance == Spec => []IInv
  <1>1. QED
    BY IInvInit, IInvStep, PTL DEF Spec

\* Every variable keeps its type: in particular no turn is ever booked on
\* something that is not a session.
THEOREM TypeCorrect == Spec => []TypeOK
  <1>1. IInv => TypeOK
    BY DEF IInv
  <1>2. QED
    BY <1>1, Invariance, PTL

\* No two handlers work on one session (the mutex of session-manager.ts).
THEOREM MutualExclusion == Spec => []OneHandlerPerSession
  <1>1. IInv => OneHandlerPerSession
    BY DEF IInv, MutexInv, OneHandlerPerSession, Locking
  <1>2. QED
    BY <1>1, Invariance, PTL

\* The turn_index of a session's rows counts 0, 1, 2, ..., whatever fails.
THEOREM RowsStayInOrder == Spec => []RowsInOrder
  <1>1. IInv => RowsInOrder
    BY DEF IInv
  <1>2. QED
    BY <1>1, Invariance, PTL

\* Every answer on record directly follows the question of its own turn.
THEOREM AnswersMatchQuestions == Spec => []AnswerFollowsQuestion
  <1>1. IInv => AnswerFollowsQuestion
    BY DEF IInv
  <1>2. QED
    BY <1>1, Invariance, PTL
-----------------------------------------------------------------------------
(* What is on record of a turn that ended.  Without the response cache, or
   without failing writes, no handler works on after it has stored its answer. *)

Clean == "cache" \notin Env \/ "db_fails" \notin Env

EndedInv ==
    /\ \A t \in Turn : HasRow(t) => pc[t] = "over"
    /\ \A t \in Turn : pc[t] \in {"over", "idle"} => t \notin Running
    /\ "cache" \notin Env => \A t \in Turn : pc[t] # "lookup"

\* The answers on record before and after an append, or none.
LEMMA AnswerRecord ==
    ASSUME TypeOK, MutexInv, NEW t \in Turn, pc[t] \in Working, NEW stop \in Stop,
           Answer(t, stop), stop # "service_restart"
    PROVE  /\ stop # "none" => HasRow(t)'
           /\ \A s \in Session : \A i \in DOMAIN rows'[s] :
                 \/ i \in DOMAIN rows[s] /\ rows'[s][i] = rows[s][i]
                 \/ stop # "none" /\ rows'[s][i].turn = t /\ rows'[s][i].stop = stop
           /\ \A s \in Session : \A i \in DOMAIN rows[s] :
                 i \in DOMAIN rows'[s] /\ rows'[s][i] = rows[s][i]
  <1> DEFINE q == rows[sid[t]]
             r == AnswerRow(t, userIdx[t] + 1, stop)
             w == Append(q, r)
  <1>1. CASE stop = "none"
    BY <1>1 DEF Answer
  <1>2. CASE stop # "none"
    <2>1. sid[t] \in Session /\ q \in Seq(Row) /\ r \in Row
      BY RowTypes DEF TypeOK, MutexInv, Locking
    <2>2. r.role = "assistant" /\ r.turn = t /\ r.stop = stop
      BY DEF AnswerRow
    <2>3. rows'[sid[t]] = w /\ \A s \in Session \ {sid[t]} : rows'[s] = rows[s]
      BY <1>2, <2>1 DEF TypeOK, Answer
    <2> HIDE DEF q, r
    <2>4. /\ w[Len(q) + 1] = r /\ \A i \in 1 .. Len(q) : w[i] = q[i]
          /\ DOMAIN w = 1 .. Len(q) + 1 /\ DOMAIN q = 1 .. Len(q) /\ Len(q) \in Nat
      BY <2>1
    <2> HIDE DEF w
    <2>5. /\ w[Len(q) + 1] = r /\ Len(q) + 1 \in DOMAIN w
          /\ \A i \in DOMAIN w : w[i] = r \/ (i \in DOMAIN q /\ w[i] = q[i])
          /\ \A i \in DOMAIN q : i \in DOMAIN w /\ w[i] = q[i]
      BY <2>4
    <2>6. HasRow(t)'
      BY <1>2, <2>1, <2>2, <2>3, <2>5 DEF HasRow
    <2>7. ASSUME NEW s \in Session, NEW i \in DOMAIN rows'[s]
          PROVE  \/ i \in DOMAIN rows[s] /\ rows'[s][i] = rows[s][i]
                 \/ rows'[s][i].turn = t /\ rows'[s][i].stop = stop
      BY <2>1, <2>2, <2>3, <2>5 DEF q
    <2>8. ASSUME NEW s \in Session, NEW i \in DOMAIN rows[s]
          PROVE  i \in DOMAIN rows'[s] /\ rows'[s][i] = rows[s][i]
      BY <2>1, <2>3, <2>5 DEF q
    <2>9. QED
      BY <1>2, <2>6, <2>7, <2>8
  <1>3. QED
    BY <1>1, <1>2

\* No step but the answer of a handler changes the answers on record.
SameRecord ==
    \A s \in Session :
        /\ \A i \in DOMAIN rows'[s] :
              \/ i \in DOMAIN rows[s] /\ rows'[s][i] = rows[s][i]
              \/ rows'[s][i].role # "assistant"
              \/ rows'[s][i].stop = "service_restart"
        /\ \A i \in DOMAIN rows[s] : i \in DOMAIN rows'[s] /\ rows'[s][i] = rows[s][i]

LEMMA SameHasRow ==
    ASSUME SameRecord, NEW t \in Turn
    PROVE  HasRow(t)' <=> HasRow(t)
  BY DEF SameRecord, HasRow

LEMMA AppendRecord ==
    ASSUME NEW q \in Seq(Row), NEW r \in Row
    PROVE  /\ \A i \in DOMAIN Append(q, r) :
                 (i \in DOMAIN q /\ Append(q, r)[i] = q[i]) \/ Append(q, r)[i] = r
           /\ \A i \in DOMAIN q : i \in DOMAIN Append(q, r) /\ Append(q, r)[i] = q[i]
  <1> DEFINE w == Append(q, r)
  <1>1. /\ w[Len(q) + 1] = r /\ \A i \in 1 .. Len(q) : w[i] = q[i]
        /\ DOMAIN w = 1 .. Len(q) + 1 /\ DOMAIN q = 1 .. Len(q) /\ Len(q) \in Nat
    OBVIOUS
  <1> HIDE DEF w
  <1>2. /\ \A i \in DOMAIN w : (i \in DOMAIN q /\ w[i] = q[i]) \/ w[i] = r
        /\ \A i \in DOMAIN q : i \in DOMAIN w /\ w[i] = q[i]
    BY <1>1
  <1>3. QED
    BY <1>2 DEF w

LEMMA PostRecord ==
    ASSUME TypeOK, FreshInv, NEW t \in Turn, Post(t)
    PROVE  SameRecord
  <1>1. ASSUME NEW s \in Session, NEW e, NEW rs \in [Session -> Seq(Row)], Admit(t, s, e, rs),
               \A x \in Session : rs[x] = rows[x] \/ (rows[x] = <<>> /\ rs[x] = <<PreambleRow>>)
        PROVE  SameRecord
    <2>1. \A x \in Session :
             /\ \A i \in DOMAIN rs[x] : \/ i \in DOMAIN rows[x] /\ rs[x][i] = rows[x][i]
                                       \/ rs[x][i].role # "assistant"
             /\ \A i \in DOMAIN rows[x] : i \in DOMAIN rs[x] /\ rs[x][i] = rows[x][i]
      BY <1>1 DEF PreambleRow
    <2>2. CASE Overflowed(t, e, rs)
      BY <2>1, <2>2 DEF Overflowed, SameRecord
    <2>3. CASE Registered(t, s, e, rs)
      <3> DEFINE r == UserRow(t, Len(rs[s]))
      <3>1. r \in Row /\ r.role = "user"
        BY <1>1, RowTypes DEF UserRow
      <3>2. rows'[s] = Append(rs[s], r) /\ \A x \in Session \ {s} : rows'[x] = rs[x]
        BY <1>1, <2>3 DEF Registered
      <3> HIDE DEF r
      <3>3. /\ \A i \in DOMAIN rows'[s] :
                  (i \in DOMAIN rs[s] /\ rows'[s][i] = rs[s][i]) \/ rows'[s][i] = r
            /\ \A i \in DOMAIN rs[s] : i \in DOMAIN rows'[s] /\ rows'[s][i] = rs[s][i]
        BY <1>1, <3>1, <3>2, AppendRecord
      <3>4. ASSUME NEW x \in Session, NEW i \in DOMAIN rows'[x], rows'[x][i].role = "assistant"
            PROVE  i \in DOMAIN rows[x] /\ rows'[x][i] = rows[x][i]
        <4>1. i \in DOMAIN rs[x] /\ rs[x][i] = rows'[x][i]
          BY <3>1, <3>2, <3>3, <3>4
        <4>2. QED
          BY <2>1, <3>4, <4>1
      <3>5. ASSUME NEW x \in Session, NEW i \in DOMAIN rows[x]
            PROVE  i \in DOMAIN rows'[x] /\ rows'[x][i] = rows[x][i]
        BY <2>1, <3>2, <3>3, <3>5
      <3>6. QED
        BY <3>4, <3>5 DEF SameRecord
    <2>4. QED
      BY <1>1, <2>2, <2>3 DEF Admit
  <1>2. rows \in [Session -> Seq(Row)]
    BY DEF TypeOK
  <1>3. ASSUME NEW s \in Session, NEW c \in Session, PostCompacting(t, s, c)
        PROVE  SameRecord
    <2> DEFINE rs == [rows EXCEPT ![c] = <<PreambleRow>>]
    <2>1. rs \in [Session -> Seq(Row)] /\ rows[c] = <<>> /\ Admit(t, c, Rekeyed(s, c), rs)
      BY <1>2, <1>3, RowTypes DEF PostCompacting, FreshInv
    <2>2. \A x \in Session : rs[x] = rows[x] \/ (rows[x] = <<>> /\ rs[x] = <<PreambleRow>>)
      BY <1>2, <2>1
    <2> HIDE DEF rs
    <2>3. QED
      BY <1>1, <2>1, <2>2
  <1>4. QED
    BY <1>1, <1>2, <1>3 DEF Post, PostNew, PostExisting

LEMMA BootRecord ==
    ASSUME TypeOK, Boot
    PROVE  SameRecord
  <1>1. ASSUME NEW s \in Session, Unanswered(s)
        PROVE  AnswerRow(rows[s][Len(rows[s])].turn, rows[s][Len(rows[s])].idx + 1,
                         "service_restart") \in Row
    <2> DEFINE last == rows[s][Len(rows[s])]
    <2>1. last \in Row
      BY <1>1 DEF Unanswered, TypeOK
    <2>2. last.turn \in Turn \cup {NoSession} /\ last.idx + 1 \in Nat /\ "service_restart" \in Stop
      BY <2>1 DEF Row, Stop
    <2> HIDE DEF last
    <2>3. AnswerRow(last.turn, last.idx + 1, "service_restart") \in Row
      BY <2>2, RowTypes
    <2>4. QED
      BY <2>3 DEF last
  <1>2. ASSUME NEW s \in Session
        PROVE  \/ rows'[s] = rows[s]
               \/ \E r \in Row : r.stop = "service_restart" /\ rows'[s] = Append(rows[s], r)
    <2>1. PICK X \in SUBSET {x \in Session : Unanswered(x)} :
            rows' = [x \in Session |->
                        IF x \in X
                        THEN Append(rows[x], AnswerRow(rows[x][Len(rows[x])].turn,
                                                       rows[x][Len(rows[x])].idx + 1,
                                                       "service_restart"))
                        ELSE rows[x]]
      BY DEF Boot
    <2>2. CASE s \in X
      BY <1>1, <2>1, <2>2 DEF AnswerRow
    <2>3. CASE s \notin X
      BY <2>1, <2>3
    <2>4. QED
      BY <2>2, <2>3
  <1>3. ASSUME NEW s \in Session, NEW r \in Row, r.stop = "service_restart",
               rows'[s] = Append(rows[s], r)
        PROVE  /\ \A i \in DOMAIN rows'[s] :
                     \/ i \in DOMAIN rows[s] /\ rows'[s][i] = rows[s][i]
                     \/ rows'[s][i].stop = "service_restart"
               /\ \A i \in DOMAIN rows[s] : i \in DOMAIN rows'[s] /\ rows'[s][i] = rows[s][i]
    <2>1. rows[s] \in Seq(Row)
      BY DEF TypeOK
    <2>2. QED
      BY <1>3, <2>1, AppendRecord
  <1>4. QED
    BY <1>2, <1>3 DEF SameRecord

\* The steps that store no answer: handlers only move on, and an entry runs
\* only for a turn that is being posted or ran before.
LEMMA QuietStep ==
    ASSUME IInv, EndedInv, [Next]_vars, \A t \in Turn : ~Handler(t)
    PROVE  /\ SameRecord
           /\ \A t \in Turn : HasRow(t) => pc'[t] = "over"
           /\ \A t \in Turn : pc'[t] = "over" => pc[t] = "over"
           /\ \A t \in Turn : pc'[t] \in {"over", "idle"} => t \notin Running'
           /\ \A t \in Turn : pc'[t] = "lookup" => pc[t] = "lookup"
           /\ \A t \in Turn : pc[t] = "over" => signal'[t] = signal[t]
  <1> USE DEF IInv
  <1>1. rows' = rows => SameRecord
    BY DEF SameRecord
  <1>2. ASSUME NEW t \in Turn, NEW s \in Session, NEW e \in [Turn -> Entry], NEW rs,
               pc[t] = "idle", Admit(t, s, e, rs),
               \A u \in Turn : e[u].status = entry[u].status
        PROVE  /\ \A u \in Turn : HasRow(u) => pc'[u] = "over"
               /\ \A u \in Turn : pc'[u] = "over" => pc[u] = "over"
               /\ \A u \in Turn : pc'[u] \in {"over", "idle"} => u \notin Running'
               /\ \A u \in Turn : pc'[u] = "lookup" => pc[u] = "lookup"
               /\ UNCHANGED signal
    <2>1. \A u \in Turn : HasRow(u) => pc[u] = "over"
      BY DEF EndedInv
    <2>2. \A u \in Turn : pc[u] \in {"over", "idle"} => e[u].status # "running"
      BY <1>2 DEF EndedInv, Running
    <2>3. CASE Registered(t, s, e, rs)
      <3>1. pc'[t] = "prep" /\ \A u \in Turn \ {t} : pc'[u] = pc[u] /\ entry'[u] = e[u]
        BY <1>2, <2>3 DEF Registered, TypeOK
      <3>2. QED
        BY <1>2, <2>1, <2>2, <3>1 DEF Admit, Running
    <2>4. CASE Overflowed(t, e, rs)
      <3>1. entry' = e /\ pc'[t] = "rejected" /\ \A u \in Turn \ {t} : pc'[u] = pc[u]
        BY <2>4 DEF Overflowed, TypeOK
      <3>2. QED
        BY <1>2, <2>1, <2>2, <3>1 DEF Admit, Running
    <2>5. QED
      BY <1>2, <2>3, <2>4 DEF Admit
  <1>3. ASSUME NEW t \in Turn, Post(t)
        PROVE  /\ \A u \in Turn : HasRow(u) => pc'[u] = "over"
               /\ \A u \in Turn : pc'[u] = "over" => pc[u] = "over"
               /\ \A u \in Turn : pc'[u] \in {"over", "idle"} => u \notin Running'
               /\ \A u \in Turn : pc'[u] = "lookup" => pc[u] = "lookup"
               /\ UNCHANGED signal
    <2>1. ASSUME NEW s \in Session, NEW c \in Session
          PROVE  /\ Rekeyed(s, c) \in [Turn -> Entry]
                 /\ \A u \in Turn : Rekeyed(s, c)[u].status = entry[u].status
      <3>1. \A u \in Turn : entry[u] \in Entry
        BY DEF TypeOK
      <3>2. QED
        BY <3>1, RekeyedType DEF Rekeyed, Entry
    <2>2. entry \in [Turn -> Entry]
      BY DEF TypeOK
    <2>3. PICK s \in Session : \/ PostNew(t, s) \/ PostExisting(t, s)
                               \/ \E c \in Session : PostCompacting(t, s, c)
      BY <1>3 DEF Post
    <2>4. CASE PostNew(t, s) \/ PostExisting(t, s)
      BY <1>2, <2>2, <2>4 DEF PostNew, PostExisting, MayPost
    <2>5. ASSUME NEW c \in Session, PostCompacting(t, s, c)
          PROVE  /\ pc[t] = "idle"
                 /\ Admit(t, c, Rekeyed(s, c), [rows EXCEPT ![c] = <<PreambleRow>>])
      BY <2>5 DEF PostCompacting, MayPost
    <2>6. ASSUME NEW c \in Session, PostCompacting(t, s, c)
          PROVE  /\ \A u \in Turn : HasRow(u) => pc'[u] = "over"
                 /\ \A u \in Turn : pc'[u] = "over" => pc[u] = "over"
                 /\ \A u \in Turn : pc'[u] \in {"over", "idle"} => u \notin Running'
                 /\ \A u \in Turn : pc'[u] = "lookup" => pc[u] = "lookup"
                 /\ UNCHANGED signal
      <3>1. PICK e \in [Turn -> Entry] : /\ e = Rekeyed(s, c)
                                         /\ \A u \in Turn : e[u].status = entry[u].status
        BY <2>1
      <3>2. PICK rs : rs = [rows EXCEPT ![c] = <<PreambleRow>>]
        OBVIOUS
      <3>3. pc[t] = "idle" /\ Admit(t, c, e, rs)
        BY <2>5, <2>6, <3>1, <3>2
      <3>4. QED
        BY <1>2, <3>1, <3>3
    <2>7. QED
      BY <2>3, <2>4, <2>6
  <1>4. ASSUME NEW t \in Turn, NEW r \in Reason, Abort(t, r)
        PROVE  /\ Running' = Running
               /\ \A u \in Turn : pc[u] = "over" => signal'[u] = signal[u]
    <2>1. CASE t \in Running
      <3>1. entry' = [entry EXCEPT ![t].reason = r] /\ entry[t] \in Entry
        BY <1>4, <2>1 DEF Abort, TypeOK
      <3>2. entry'[t].status = entry[t].status /\ \A u \in Turn \ {t} : entry'[u] = entry[u]
        BY <3>1 DEF TypeOK, Entry
      <3>3. pc[t] # "over"
        BY <2>1 DEF EndedInv
      <3>4. \A u \in Turn \ {t} : signal'[u] = signal[u]
        BY <1>4, <2>1 DEF Abort, TypeOK
      <3>5. QED
        BY <3>2, <3>3, <3>4 DEF Running
    <2>2. QED
      BY <1>4, <2>1 DEF Abort, Running
  <1>5. CASE \E t \in Turn : Post(t)
    BY <1>3, <1>5, PostRecord DEF EndedInv
  <1>6. CASE \E t \in Turn : Cancel(t) \/ TimeoutFires(t)
    BY <1>1, <1>4, <1>6 DEF Cancel, TimeoutFires, Reason, dbVars, EndedInv
  <1>7. CASE SweepRegistry
    <2>1. Running' \subseteq Running
      BY <1>7 DEF SweepRegistry, Running, NoEntry
    <2>2. QED
      BY <1>1, <1>7, <2>1 DEF SweepRegistry, dbVars, EndedInv
  <1>8. CASE Crash
    BY <1>1, <1>8 DEF Crash, dbVars, EndedInv, Running, NoEntry, TypeOK, Working
  <1>9. CASE Boot
    <2>1. UNCHANGED <<entry, pc, signal>>
      BY <1>9 DEF Boot
    <2>2. QED
      BY <1>9, <2>1, BootRecord DEF EndedInv, Running
  <1>10. CASE UNCHANGED vars
    BY <1>1, <1>10 DEF vars, EndedInv, Running
  <1>11. QED
    BY <1>5, <1>6, <1>7, <1>8, <1>9, <1>10 DEF Next

\* A handler either moves on without an answer, or stores one and ends.
Moves(t) == /\ SameRecord
            /\ \A u \in Turn : pc'[u] \in {"over", "idle"} => pc'[u] = pc[u]
            /\ \A u \in Turn : pc'[u] # pc[u] => u = t /\ pc[u] \in Working
            /\ "cache" \notin Env => \A u \in Turn : pc'[u] # "lookup"
            /\ UNCHANGED <<entry, signal>>

\* A row of turn t that is left with this stop_reason is Stamped.
Stamps(t, stop) ==
    /\ stop \in Reason \cup {"server_error"} => signal[t] # "none"
    /\ signal[t] # "none" /\ "stop" \notin got'[t] => stop = AbortReason(t)

Ends(t) == /\ pc[t] \in Working
           /\ pc' = [pc EXCEPT ![t] = "over"]
           /\ UNCHANGED signal
           /\ \E stop \in Stop \ {"service_restart"}, st \in {"done", "error"} :
                /\ Answer(t, stop) /\ Closed(t, st)
                /\ stop = "none" => "db_fails" \in Env
                /\ "cache" \notin Env /\ stop # "none" => Stamps(t, stop)

LEMMA FinalisedEnds ==
    ASSUME IInv, EndedInv, Clean, NEW t \in Turn, NEW threw \in BOOLEAN,
           pc[t] \in Working, Finalised(t, threw)
    PROVE  Ends(t)
  <1> USE DEF IInv
  <1>1. PICK out \in Outcomes(t, threw) :
          /\ Answer(t, out[2]) /\ Closed(t, out[1]) /\ UNCHANGED signal
          /\ got' = [got EXCEPT ![t] = IF signal[t] # "none" /\ out[2] = "clean"
                                       THEN @ \ {"text"} ELSE {}]
    BY DEF Finalised
  <1>2. out[1] \in {"done", "error"} /\ out[2] \in Stop
    BY OutcomeTypes
  <1>3. ~HasRow(t)
    BY DEF EndedInv, Working
  <1>4. AbortReason(t) \in Reason \cup {"server_error"}
    BY DEF TypeOK, AbortReason, Entry
  <1>5. /\ out[2] # "service_restart"
        /\ out[2] = "none" => "db_fails" \in Env
    <2>1. CASE signal[t] # "none"
      BY <1>3, <1>4, <2>1, AbortedOutcome DEF Reason
    <2>2. CASE signal[t] = "none"
      BY <1>3, <2>2 DEF Outcomes
    <2>3. QED
      BY <2>1, <2>2
  <1>6. out[2] # "none" => Stamps(t, out[2])
    <2>1. CASE signal[t] # "none"
      BY <1>1, <2>1, AbortedOutcome DEF Stamps, TypeOK
    <2>2. CASE signal[t] = "none"
      BY <1>3, <2>2 DEF Outcomes, Stamps, Reason
    <2>3. QED
      BY <2>1, <2>2
  <1>7. QED
    BY <1>1, <1>2, <1>5, <1>6 DEF Ends, Closed

LEMMA HandlerEnds ==
    ASSUME IInv, EndedInv, Clean, NEW t \in Turn, Handler(t)
    PROVE  Moves(t) \/ Ends(t)
  <1> USE DEF IInv
  <1>1. rows' = rows => SameRecord
    BY DEF SameRecord
  <1>2. CASE Prepared(t) \/ PrepThrows(t) \/ RunnerResult(t) \/ SalvageStarts(t)
    BY <1>1, <1>2 DEF Prepared, PrepThrows, RunnerResult, SalvageStarts, dbVars, Moves, TypeOK,
                      Working, EndedInv
  <1>3. CASE CacheHit(t)
    <2>1. "cache" \in Env
      BY <1>3 DEF CacheHit, EndedInv
    <2>2. Answer(t, "end_turn") /\ Closed(t, "done") /\ UNCHANGED signal
      BY <1>3 DEF CacheHit
    <2>3. "end_turn" \in Stop \ {"service_restart", "none"}
      BY DEF Stop, Reason
    <2>4. QED
      BY <1>3, <2>1, <2>2, <2>3 DEF Ends, CacheHit, Closed, Working
  <1>4. CASE CacheMiss(t)
    <2>1. "cache" \in Env /\ "db_fails" \notin Env
      BY <1>4 DEF CacheMiss, EndedInv, Clean
    <2>2. Answer(t, "none")
      BY <1>4, <2>1 DEF CacheMiss
    <2>3. QED
      BY <1>1, <1>4, <2>1, <2>2 DEF CacheMiss, Answer, Moves, TypeOK, Working
  <1>5. CASE RunnerEnds(t) \/ RunnerThrows(t) \/ SalvageEnds(t)
    BY <1>5, FinalisedEnds DEF RunnerEnds, RunnerThrows, SalvageEnds, Working
  <1>6. QED
    BY <1>2, <1>3, <1>4, <1>5 DEF Handler

\* What Ends does to the answers on record.
LEMMA EndsRecord ==
    ASSUME IInv, NEW t \in Turn, Ends(t)
    PROVE  /\ \A u \in Turn : u # t => (HasRow(u)' <=> HasRow(u))
           /\ "db_fails" \notin Env => HasRow(t)'
           /\ t \notin Running' /\ \A u \in Turn \ {t} : u \in Running' <=> u \in Running
  <1> USE DEF IInv
  <1>1. PICK stop \in Stop \ {"service_restart"}, st \in {"done", "error"} :
          /\ Answer(t, stop) /\ Closed(t, st)
          /\ stop = "none" => "db_fails" \in Env
    BY DEF Ends
  <1>2. /\ stop # "none" => HasRow(t)'
        /\ \A s \in Session : \A i \in DOMAIN rows'[s] :
             \/ i \in DOMAIN rows[s] /\ rows'[s][i] = rows[s][i]
             \/ stop # "none" /\ rows'[s][i].turn = t /\ rows'[s][i].stop = stop
        /\ \A s \in Session : \A i \in DOMAIN rows[s] :
             i \in DOMAIN rows'[s] /\ rows'[s][i] = rows[s][i]
    BY <1>1, AnswerRecord DEF Ends
  <1>3. \A u \in Turn : u # t => (HasRow(u)' <=> HasRow(u))
    BY <1>2 DEF HasRow
  <1>4. t \notin Running' /\ \A u \in Turn \ {t} : u \in Running' <=> u \in Running
    BY <1>1 DEF Closed, Running, TypeOK, Entry
  <1>5. QED
    BY <1>1, <1>2, <1>3, <1>4

LEMMA EndedStep ==
    ASSUME IInv, EndedInv, Clean, [Next]_vars
    PROVE  EndedInv'
  <1>1. CASE \A t \in Turn : ~Handler(t)
    <2>1. \A t \in Turn : HasRow(t)' <=> HasRow(t)
      BY <1>1, QuietStep, SameHasRow
    <2>2. QED
      BY <1>1, <2>1, QuietStep DEF EndedInv
  <1>2. ASSUME NEW t \in Turn, Moves(t)
        PROVE  EndedInv'
    <2>1. \A u \in Turn : HasRow(u)' <=> HasRow(u)
      BY <1>2, SameHasRow DEF Moves
    <2>2. Running' = Running
      BY <1>2 DEF Moves, Running
    <2>3. QED
      BY <1>2, <2>1, <2>2 DEF Moves, EndedInv, Working
  <1>3. ASSUME NEW t \in Turn, Ends(t)
        PROVE  EndedInv'
    <2>1. pc'[t] = "over" /\ \A u \in Turn \ {t} : pc'[u] = pc[u]
      BY <1>3 DEF Ends, IInv, TypeOK
    <2>2. /\ \A u \in Turn : u # t => (HasRow(u)' <=> HasRow(u))
          /\ t \notin Running' /\ \A u \in Turn \ {t} : u \in Running' <=> u \in Running
      BY <1>3, EndsRecord
    <2>3. \A u \in Turn : HasRow(u)' => pc'[u] = "over"
      BY <2>1, <2>2 DEF EndedInv
    <2>4. \A u \in Turn : pc'[u] \in {"over", "idle"} => u \notin Running'
      BY <2>1, <2>2 DEF EndedInv
    <2>5. "cache" \notin Env => \A u \in Turn : pc'[u] # "lookup"
      BY <2>1 DEF EndedInv
    <2>6. QED
      BY <2>3, <2>4, <2>5 DEF EndedInv
  <1>4. QED
    BY <1>1, <1>2, <1>3, HandlerEnds

LEMMA EndedInit == Init => EndedInv
  BY DEF Init, EndedInv, HasRow, Running, NoEntry

\* Nothing of an answered turn changes any more: its signal least of all.
LEMMA SignalKept ==
    ASSUME IInv, EndedInv, Clean, [Next]_vars, NEW t \in Turn, pc[t] = "over"
    PROVE  signal'[t] = signal[t]
  BY QuietStep, HandlerEnds DEF Moves, Ends

\* An aborted turn's entry, as long as it is there, shows a reason.
ReasonInv ==
    \A t \in Turn :
        /\ pc[t] = "idle" => signal[t] = "none"
        /\ entry[t].status # "none" /\ signal[t] # "none" => entry[t].reason # "none"

StampInv ==
    /\ ReasonInv
    /\ \A s \in Session : \A i \in DOMAIN rows[s] :
           rows[s][i].role = "assistant" /\ rows[s][i].stop # "service_restart" =>
               rows[s][i].turn \in Turn /\ Stamped(rows[s][i])

\* What a step may do to the entry of turn t and to its abort: the entry goes,
\* or keeps its reason; with an abort it gets one.
Reasoned(t) ==
    /\ \/ entry'[t].status = "none"
       \/ entry[t].status # "none" /\ entry'[t].reason = entry[t].reason
              /\ signal'[t] = signal[t]
       \/ entry'[t].reason # "none" /\ t \in Running
       \/ pc[t] = "idle" /\ signal'[t] = signal[t]
    /\ pc'[t] = "idle" => pc[t] = "idle" /\ (signal'[t] = signal[t] \/ t \in Running)

LEMMA PostReasoned ==
    ASSUME TypeOK, NEW t \in Turn, NEW u \in Turn, Post(t)
    PROVE  Reasoned(u) /\ UNCHANGED got
  <1>1. PICK s \in Session, e \in [Turn -> Entry] :
          /\ pc[t] = "idle" /\ \E rs : Admit(t, s, e, rs)
          /\ \A v \in Turn : e[v].status = entry[v].status /\ e[v].reason = entry[v].reason
    <2>1. entry \in [Turn -> Entry]
      BY DEF TypeOK
    <2>2. PICK s \in Session : \/ PostNew(t, s) \/ PostExisting(t, s)
                               \/ \E c \in Session : PostCompacting(t, s, c)
      BY DEF Post
    <2>3. CASE PostNew(t, s) \/ PostExisting(t, s)
      BY <2>1, <2>3 DEF PostNew, PostExisting, MayPost
    <2>4. ASSUME NEW c \in Session, PostCompacting(t, s, c)
          PROVE  \E e \in [Turn -> Entry] :
                   /\ pc[t] = "idle" /\ \E rs : Admit(t, c, e, rs)
                   /\ \A v \in Turn : e[v].status = entry[v].status /\ e[v].reason = entry[v].reason
      <3>1. /\ Rekeyed(s, c) \in [Turn -> Entry]
            /\ \A v \in Turn : /\ Rekeyed(s, c)[v].status = entry[v].status
                               /\ Rekeyed(s, c)[v].reason = entry[v].reason
        BY <2>1, RekeyedType DEF Rekeyed, Entry
      <3>2. pc[t] = "idle" /\ Admit(t, c, Rekeyed(s, c), [rows EXCEPT ![c] = <<PreambleRow>>])
        BY <2>4 DEF PostCompacting, MayPost
      <3>3. QED
        BY <3>1, <3>2
    <2>5. QED
      BY <2>2, <2>3, <2>4
  <1>2. PICK rs : Admit(t, s, e, rs)
    BY <1>1
  <1>3. CASE Registered(t, s, e, rs)
    BY <1>1, <1>2, <1>3 DEF Registered, Admit, Reasoned, TypeOK
  <1>4. CASE Overflowed(t, e, rs)
    BY <1>1, <1>2, <1>4 DEF Overflowed, Admit, Reasoned, TypeOK
  <1>5. QED
    BY <1>2, <1>3, <1>4 DEF Admit

LEMMA HandlerReasoned ==
    ASSUME TypeOK, NEW t \in Turn, NEW u \in Turn, Handler(t)
    PROVE  Reasoned(u) /\ (u # t => got'[u] = got[u]) /\ pc[t] \in Working
  <1>1. CASE Prepared(t) \/ PrepThrows(t) \/ CacheMiss(t) \/ RunnerResult(t) \/ SalvageStarts(t)
    BY <1>1 DEF Prepared, PrepThrows, CacheMiss, RunnerResult, SalvageStarts, Working, Reasoned, TypeOK
  <1>2. ASSUME NEW st, Closed(t, st), UNCHANGED signal, pc[t] \in Working
        PROVE  Reasoned(u)
    <2>1. entry[t] \in Entry /\ entry \in [Turn -> Entry] /\ pc \in [Turn -> Phase]
      BY DEF TypeOK
    <2>2. entry'[u].reason = entry[u].reason /\ (entry[u].status = "none" => entry'[u].status = "none")
      BY <1>2, <2>1 DEF Closed, Entry
    <2>3. pc'[u] = "idle" => pc[u] = "idle"
      BY <1>2, <2>1 DEF Closed
    <2>4. QED
      BY <1>2, <2>2, <2>3 DEF Reasoned
  <1>3. CASE CacheHit(t)
    BY <1>2, <1>3 DEF CacheHit, Working
  <1>4. CASE RunnerEnds(t) \/ RunnerThrows(t) \/ SalvageEnds(t)
    BY <1>2, <1>4 DEF RunnerEnds, RunnerThrows, SalvageEnds, Finalised, Working, TypeOK
  <1>5. QED
    BY <1>1, <1>3, <1>4 DEF Handler

LEMMA AbortReasoned ==
    ASSUME TypeOK, NEW t \in Turn, NEW u \in Turn, NEW r \in Reason, Abort(t, r), UNCHANGED pc
    PROVE  Reasoned(u)
  <1>1. CASE t \in Running /\ u = t
    <2>1. entry[t] \in Entry /\ entry' = [entry EXCEPT ![t].reason = r]
      BY <1>1 DEF TypeOK, Abort
    <2>2. entry'[t].reason = r /\ r # "none"
      BY <2>1 DEF TypeOK, Entry, Reason
    <2>3. QED
      BY <1>1, <2>2 DEF Reasoned
  <1>2. CASE t \notin Running \/ u # t
    BY <1>2 DEF Abort, Reasoned, TypeOK
  <1>3. QED
    BY <1>1, <1>2

\* Every step.  The row of a turn that is over stays Stamped: nothing aborts the
\* turn, its entry changes its key at most, and no result comes any more.
LEMMA StepReasoned ==
    ASSUME TypeOK, [Next]_vars, NEW u \in Turn
    PROVE  Reasoned(u) /\ (pc[u] = "over" => got'[u] = got[u])
  <1>1. ASSUME NEW t \in Turn, Post(t)
        PROVE  Reasoned(u) /\ got'[u] = got[u]
    BY <1>1, PostReasoned
  <1>2. ASSUME NEW t \in Turn, Handler(t)
        PROVE  Reasoned(u) /\ (pc[u] = "over" => got'[u] = got[u])
    BY <1>2, HandlerReasoned DEF Working
  <1>3. ASSUME NEW t \in Turn, Cancel(t) \/ TimeoutFires(t)
        PROVE  Reasoned(u) /\ got'[u] = got[u]
    BY <1>3, AbortReasoned DEF Cancel, TimeoutFires, Reason
  <1>4. CASE SweepRegistry
    BY <1>4 DEF SweepRegistry, Reasoned, NoEntry
  <1>5. CASE Crash
    BY <1>5 DEF Crash, Reasoned, NoEntry, TypeOK
  <1>6. CASE Boot \/ UNCHANGED vars
    BY <1>6 DEF Boot, vars, Reasoned
  <1>7. QED
    BY <1>1, <1>2, <1>3, <1>4, <1>5, <1>6 DEF Next

LEMMA StampStep ==
    ASSUME IInv, EndedInv, StampInv, "cache" \notin Env, [Next]_vars
    PROVE  StampInv'
  <1> USE DEF IInv
  <1>1. Clean
    BY DEF Clean
  <1>2. ReasonInv'
    <2>1. \A t \in Turn : pc[t] = "idle" => t \notin Running
      BY DEF EndedInv
    <2>2. QED
      BY <2>1, StepReasoned DEF StampInv, ReasonInv, Reasoned
  <1>3. ASSUME NEW s \in Session, NEW i \in DOMAIN rows'[s],
               i \in DOMAIN rows[s], rows'[s][i] = rows[s][i],
               rows'[s][i].role = "assistant", rows'[s][i].stop # "service_restart"
        PROVE  rows'[s][i].turn \in Turn /\ Stamped(rows[s][i])'
    <2>1. PICK t \in Turn : t = rows[s][i].turn /\ HasRow(t) /\ Stamped(rows[s][i])
      BY <1>3 DEF StampInv, HasRow
    <2>2. pc[t] = "over" /\ t \notin Running
      BY <2>1 DEF EndedInv
    <2>3. signal'[t] = signal[t]
      BY <1>1, <2>2, SignalKept
    <2>4. got'[t] = got[t] /\ Reasoned(t)
      BY <2>2, StepReasoned
    <2>5. \/ entry'[t].status = "none"
          \/ entry[t].status # "none" /\ entry'[t].reason = entry[t].reason
      BY <2>2, <2>4 DEF Reasoned
    <2>6. rows'[s][i].turn = t /\ rows'[s][i].stop = rows[s][i].stop
      BY <1>3, <2>1
    <2>7. signal[t] # "none" /\ entry[t].status # "none" => entry[t].reason \in Reason
      BY DEF StampInv, ReasonInv, TypeOK, Entry
    <2>8. QED
      BY <2>1, <2>3, <2>4, <2>5, <2>6, <2>7 DEF Stamped
  <1>4. CASE SameRecord
    BY <1>2, <1>3, <1>4 DEF StampInv, SameRecord
  <1>5. ASSUME NEW t \in Turn, Ends(t)
        PROVE  StampInv'
    <2>1. PICK stop \in Stop \ {"service_restart"}, st \in {"done", "error"} :
            /\ Answer(t, stop) /\ Closed(t, st)
            /\ stop # "none" => Stamps(t, stop)
      BY <1>5 DEF Ends
    <2>2. \A s \in Session : \A i \in DOMAIN rows'[s] :
             \/ i \in DOMAIN rows[s] /\ rows'[s][i] = rows[s][i]
             \/ stop # "none" /\ rows'[s][i].turn = t /\ rows'[s][i].stop = stop
      BY <1>5, <2>1, AnswerRecord DEF Ends
    <2>3. /\ signal' = signal
          /\ entry'[t].reason = entry[t].reason
          /\ entry[t].status = "none" <=> entry'[t].status = "none"
      <3>1. entry[t] \in Entry /\ entry \in [Turn -> Entry]
        BY DEF TypeOK
      <3>2. QED
        BY <1>5, <2>1, <3>1 DEF Ends, Closed, Entry
    <2>4. entry[t].status # "none" /\ signal[t] # "none" => entry[t].reason = AbortReason(t)
      BY DEF StampInv, ReasonInv, AbortReason
    <2>5. AbortReason(t) \in Reason \cup {"server_error"}
      BY DEF TypeOK, AbortReason, Entry
    <2>6. ASSUME NEW s \in Session, NEW i \in DOMAIN rows'[s],
                 stop # "none", rows'[s][i].turn = t, rows'[s][i].stop = stop
          PROVE  rows'[s][i].turn \in Turn /\ Stamped(rows[s][i])'
      BY <2>1, <2>3, <2>4, <2>5, <2>6 DEF Stamps, Stamped
    <2>7. QED
      BY <1>2, <1>3, <2>2, <2>6 DEF StampInv
  <1>6. QED
    BY <1>1, <1>4, <1>5, QuietStep, HandlerEnds DEF Moves

\* Without the response cache, a turn's answer bears an abort reason only if the
\* turn was aborted while it was running, and an aborted turn's answer bears the
\* reason its entry shows, unless the SDK's stop_reason was there before the
\* abort; however writes fail and whenever the process dies.
THEOREM AbortsAreStamped == ASSUME "cache" \notin Env PROVE Spec => []AbortStamped
  <1>1. Init => EndedInv /\ StampInv
    BY EndedInit DEF Init, StampInv, ReasonInv
  <1>2. IInv /\ EndedInv /\ StampInv /\ [Next]_vars => EndedInv' /\ StampInv'
    BY EndedStep, StampStep DEF Clean
  <1>3. StampInv => AbortStamped
    BY DEF StampInv, AbortStamped
  <1>4. QED
    BY <1>1, <1>2, <1>3, Invariance, PTL DEF Spec

\* Once a turn is answered no late cancel or timer aborts it, unless the cache
\* path fails half-way.
THEOREM NoLateAbort == ASSUME Clean PROVE Spec => NoAbortAfterEnd
  <1>1. IInv /\ EndedInv /\ [Next]_vars => EndedInv'
    BY EndedStep
  <1>2. IInv /\ EndedInv /\ [Next]_vars =>
            [\A t \in Turn : pc[t] = "over" => signal'[t] = signal[t]]_vars
    BY SignalKept
  <1>3. QED
    BY <1>1, <1>2, EndedInit, Invariance, PTL DEF Spec, NoAbortAfterEnd

AnsweredInv == \A t \in Turn : pc[t] = "over" => HasRow(t)

LEMMA AnsweredStep ==
    ASSUME IInv, EndedInv, AnsweredInv, "db_fails" \notin Env, [Next]_vars
    PROVE  AnsweredInv'
  <1>1. Clean
    BY DEF Clean
  <1>2. CASE \A t \in Turn : ~Handler(t)
    BY <1>2, QuietStep, SameHasRow DEF AnsweredInv
  <1>3. ASSUME NEW t \in Turn, Moves(t)
        PROVE  AnsweredInv'
    BY <1>3, SameHasRow DEF Moves, AnsweredInv
  <1>4. ASSUME NEW t \in Turn, Ends(t)
        PROVE  AnsweredInv'
    <2>1. \A u \in Turn \ {t} : pc'[u] = pc[u]
      BY <1>4 DEF Ends, IInv, TypeOK
    <2>2. HasRow(t)' /\ \A u \in Turn : u # t => (HasRow(u)' <=> HasRow(u))
      BY <1>4, EndsRecord
    <2>3. QED
      BY <2>1, <2>2 DEF AnsweredInv
  <1>5. QED
    BY <1>1, <1>2, <1>3, <1>4, HandlerEnds

\* When the writes succeed, a turn has an answer on record exactly when its
\* handler has come to its end, for every cache, compaction and crash.
THEOREM EndsWithAnswer == ASSUME "db_fails" \notin Env PROVE Spec => []EndedIffAnswered
  <1>1. Init => EndedInv /\ AnsweredInv
    BY EndedInit DEF Init, AnsweredInv
  <1>2. IInv /\ EndedInv /\ AnsweredInv /\ [Next]_vars => EndedInv' /\ AnsweredInv'
    BY EndedStep, AnsweredStep DEF Clean
  <1>3. EndedInv /\ AnsweredInv => EndedIffAnswered
    BY DEF EndedInv, AnsweredInv, EndedIffAnswered, Working
  <1>4. QED
    BY <1>1, <1>2, <1>3, Invariance, PTL DEF Spec

-----------------------------------------------------------------------------
(* The alias chain.  Resolve follows the aliases for as many steps as there  *)
(* are sessions; the lemmas say where that leads.  A set of numbers that is  *)
(* not empty has a least member, which is what induction amounts to here.    *)

LEMMA LeastNumber ==
    ASSUME NEW T, T \subseteq Nat, T # {}
    PROVE  \E m \in T : \A n \in T : m <= n
  <1>1. PICK m \in T : \A n \in T : ~(<<n, m>> \in OpToRel(<, Nat))
    BY WFMin, NatLessThanWellFounded
  <1>2. ASSUME NEW n \in T PROVE m <= n
    <2>1. ~(n < m)
      BY <1>1 DEF OpToRel
    <2>2. QED
      BY <2>1
  <1>3. QED
    BY <1>2

LEMMA NumberInduction ==
    ASSUME NEW T, 0 \in T, \A n \in Nat : n \in T => n + 1 \in T
    PROVE  Nat \subseteq T
  <1> DEFINE B == Nat \ T
  <1>1. SUFFICES ASSUME B # {} PROVE FALSE
    OBVIOUS
  <1>2. PICK m \in B : \A n \in B : m <= n
    BY <1>1, LeastNumber
  <1>3. m - 1 \in Nat /\ m - 1 \notin B
    BY <1>2
  <1>4. QED
    BY <1>3

\* One step along the aliases a, and the walks of the first m steps from s.
Follow(a, s) == IF s \in Session /\ a[s] # NoSession THEN a[s] ELSE s

IsWalk(a, s, w, m) == w = [n \in 0 .. m |-> IF n = 0 THEN s ELSE Follow(a, w[n - 1])]

End(a, s) == LET N == Cardinality(Session)
             IN  (CHOOSE w : IsWalk(a, s, w, N))[N]

LEMMA ResolveIsEnd ==
    /\ \A s : Resolve(s) = End(alias, s)
    /\ \A s : Resolve(s)' = End(alias', s)
  BY DEF Resolve, End, IsWalk, Follow

LEMMA WalkExists ==
    ASSUME NEW a, NEW s
    PROVE  \A m \in Nat : \E w : IsWalk(a, s, w, m)
  <1> DEFINE T == {m \in Nat : \E w : IsWalk(a, s, w, m)}
  <1>1. 0 \in T
    <2> DEFINE w == [n \in 0 .. 0 |-> s]
    <2>1. IsWalk(a, s, w, 0)
      BY DEF IsWalk
    <2>2. QED
      BY <2>1
  <1>2. ASSUME NEW m \in T PROVE m + 1 \in T
    <2>1. PICK w : IsWalk(a, s, w, m)
      OBVIOUS
    <2> DEFINE v == [n \in 0 .. m + 1 |-> IF n = m + 1 THEN Follow(a, w[m]) ELSE w[n]]
    <2>2. \A n \in 0 .. m : w[n] = IF n = 0 THEN s ELSE Follow(a, w[n - 1])
      BY <2>1 DEF IsWalk
    <2>3. \A n \in 0 .. m + 1 : v[n] = IF n = 0 THEN s ELSE Follow(a, v[n - 1])
      <3>1. SUFFICES ASSUME NEW n \in 0 .. m + 1
                     PROVE  v[n] = IF n = 0 THEN s ELSE Follow(a, v[n - 1])
        OBVIOUS
      <3>2. CASE n = m + 1
        BY <3>2
      <3>3. CASE n # m + 1
        <4>1. n \in 0 .. m /\ (n # 0 => n - 1 \in 0 .. m + 1 /\ n - 1 # m + 1)
          BY <3>3
        <4>2. v[n] = w[n] /\ (n # 0 => v[n - 1] = w[n - 1])
          BY <4>1
        <4>3. QED
          BY <2>2, <4>1, <4>2
      <3>4. QED
        BY <3>2, <3>3
    <2>4. IsWalk(a, s, v, m + 1)
      BY <2>3 DEF IsWalk
    <2>5. QED
      BY <2>4
  <1>3. QED
    BY <1>1, <1>2, NumberInduction

Aliases == [Session -> Session \cup {NoSession}]

\* The aliases a lead from higher to lower ranks r.
Ranked(a, r) == \A s \in Session : a[s] # NoSession => r[a[s]] < r[s]

Ranks == [Session -> 0 .. Cardinality(Session)]

WholeWalk(a, s, w, N) ==
    /\ w[0] = s /\ End(a, s) = w[N]
    /\ \A n \in 0 .. N : w[n] \in Session
    /\ \A n \in Nat : n + 1 \in 0 .. N => w[n + 1] = Follow(a, w[n])
    /\ a[w[N]] = NoSession

\* A walk along ranked aliases comes to its end within Cardinality(Session)
\* steps.
LEMMA WalkEnds ==
    ASSUME NEW a \in Aliases, NEW r \in Ranks, Ranked(a, r), NEW s \in Session
    PROVE  \E w : WholeWalk(a, s, w, Cardinality(Session))
  <1>1. PICK N \in Nat : N = Cardinality(Session)
    BY ChatTurnAssumption, FS_CardinalityType
  <1>2. PICK w : w = CHOOSE v : IsWalk(a, s, v, N)
    OBVIOUS
  <1>3. IsWalk(a, s, w, N)
    BY <1>2, WalkExists
  <1>4. End(a, s) = w[N]
    BY <1>1, <1>2 DEF End
  <1>5. \A n \in 0 .. N : w[n] = IF n = 0 THEN s ELSE Follow(a, w[n - 1])
    BY <1>3 DEF IsWalk
  <1>6. w[0] = s
    BY <1>5
  <1>7. \A n \in Nat : n + 1 \in 0 .. N => w[n + 1] = Follow(a, w[n])
    <2>1. SUFFICES ASSUME NEW n \in Nat, n + 1 \in 0 .. N
                   PROVE  w[n + 1] = Follow(a, w[n])
      OBVIOUS
    <2>2. n + 1 # 0 /\ (n + 1) - 1 = n
      OBVIOUS
    <2>3. QED
      BY <1>5, <2>1, <2>2
  <1> DEFINE Low(n) == n <= N => /\ w[n] \in Session
                                 /\ a[w[n]] # NoSession => r[w[n]] + n <= r[s]
             T == {n \in Nat : Low(n)}
  <1>8. 0 \in T
    <2>1. r[s] \in Nat
      BY <1>1 DEF Ranks
    <2>2. QED
      BY <1>6, <2>1
  <1>9. ASSUME NEW n \in Nat, n \in T PROVE n + 1 \in T
    <2>1. SUFFICES ASSUME n + 1 <= N
                   PROVE  /\ w[n + 1] \in Session
                          /\ a[w[n + 1]] # NoSession => r[w[n + 1]] + (n + 1) <= r[s]
      OBVIOUS
    <2>2. /\ w[n] \in Session
          /\ a[w[n]] # NoSession => r[w[n]] + n <= r[s]
          /\ w[n + 1] = Follow(a, w[n])
      BY <1>7, <1>9, <2>1
    <2>3. CASE a[w[n]] = NoSession
      BY <2>2, <2>3 DEF Follow
    <2>4. CASE a[w[n]] # NoSession
      <3>1. w[n + 1] = a[w[n]] /\ w[n + 1] \in Session
        BY <2>2, <2>4 DEF Follow, Aliases
      <3>2. r[w[n + 1]] < r[w[n]]
        BY <2>2, <2>4, <3>1 DEF Ranked
      <3>3. r[w[n]] \in Nat /\ r[w[n + 1]] \in Nat /\ r[s] \in Nat
        BY <1>1, <2>2, <3>1 DEF Ranks
      <3>4. QED
        BY <2>2, <2>4, <3>1, <3>2, <3>3
    <2>5. QED
      BY <2>3, <2>4
  <1>10. \A n \in Nat : Low(n)
    <2>1. Nat \subseteq T
      BY <1>8, <1>9, NumberInduction
    <2>2. QED
      BY <2>1
  <1>11. a[w[N]] = NoSession
    <2>1. SUFFICES ASSUME a[w[N]] # NoSession PROVE FALSE
      OBVIOUS
    <2>2. w[N] \in Session /\ r[w[N]] + N <= r[s]
      BY <1>10, <2>1
    <2>3. a[w[N]] \in Session
      BY <2>1, <2>2 DEF Aliases
    <2>4. r[a[w[N]]] < r[w[N]]
      BY <2>1, <2>2 DEF Ranked
    <2>5. r[a[w[N]]] \in 0 .. N /\ r[w[N]] \in 0 .. N /\ r[s] \in 0 .. N
      BY <1>1, <2>2, <2>3 DEF Ranks
    <2>6. QED
      BY <2>2, <2>4, <2>5
  <1>12. \A n \in 0 .. N : w[n] \in Session
    BY <1>10
  <1>13. WholeWalk(a, s, w, N)
    BY <1>4, <1>6, <1>7, <1>11, <1>12 DEF WholeWalk
  <1>14. QED
    BY <1>1, <1>13

\* f sends every session to the end of its chain of aliases.
ToEnds(a, f) == \A s \in Session : f[s] = IF a[s] = NoSession THEN s ELSE f[a[s]]

LEMMA EndUnique ==
    ASSUME NEW a \in Aliases, NEW r \in Ranks, Ranked(a, r),
           NEW f, ToEnds(a, f), NEW s \in Session
    PROVE  End(a, s) = f[s]
  <1>1. PICK N \in Nat : N = Cardinality(Session)
    BY ChatTurnAssumption, FS_CardinalityType
  <1>2. PICK w : WholeWalk(a, s, w, N)
    BY <1>1, WalkEnds
  <1> DEFINE T == {n \in Nat : n <= N => f[w[n]] = f[s]}
  <1>3. 0 \in T
    BY <1>2 DEF WholeWalk
  <1>4. ASSUME NEW n \in Nat, n \in T PROVE n + 1 \in T
    <2>1. SUFFICES ASSUME n + 1 <= N PROVE f[w[n + 1]] = f[s]
      OBVIOUS
    <2>2. f[w[n]] = f[s] /\ w[n + 1] = Follow(a, w[n]) /\ w[n] \in Session
      BY <1>2, <1>4, <2>1 DEF WholeWalk
    <2>3. QED
      BY <2>2 DEF Follow, ToEnds
  <1>5. f[w[N]] = f[s]
    <2>1. Nat \subseteq T
      BY <1>3, <1>4, NumberInduction
    <2>2. QED
      BY <2>1
  <1>6. w[N] \in Session
    BY <1>2 DEF WholeWalk
  <1>7. f[w[N]] = w[N]
    BY <1>2, <1>6 DEF ToEnds, WholeWalk
  <1>8. QED
    BY <1>2, <1>5, <1>7 DEF WholeWalk

\* The ends of ranked aliases: a session without an alias is its own end, and
\* an alias has the end of the session it stands for.
LEMMA EndIs ==
    ASSUME NEW a \in Aliases, NEW r \in Ranks, Ranked(a, r), NEW s \in Session
    PROVE  /\ End(a, s) \in Session /\ a[End(a, s)] = NoSession
           /\ a[s] = NoSession => End(a, s) = s
           /\ a[s] # NoSession => a[s] \in Session /\ End(a, s) = End(a, a[s])
  <1>1. PICK N \in Nat : N = Cardinality(Session)
    BY ChatTurnAssumption, FS_CardinalityType
  <1>2. PICK w : WholeWalk(a, s, w, N)
    BY <1>1, WalkEnds
  <1>3. End(a, s) \in Session /\ a[End(a, s)] = NoSession
    BY <1>2 DEF WholeWalk
  <1>4. ASSUME a[s] = NoSession PROVE End(a, s) = s
    <2> DEFINE T == {n \in Nat : n <= N => w[n] = s}
    <2>1. 0 \in T
      BY <1>2 DEF WholeWalk
    <2>2. ASSUME NEW n \in Nat, n \in T PROVE n + 1 \in T
      BY <1>2, <1>4, <2>2 DEF Follow, WholeWalk
    <2>3. Nat \subseteq T
      BY <2>1, <2>2, NumberInduction
    <2>4. w[N] = s
      BY <2>3
    <2>5. QED
      BY <1>2, <2>4 DEF WholeWalk
  <1>5. ASSUME a[s] # NoSession
        PROVE  a[s] \in Session /\ End(a, s) = End(a, a[s])
    <2>1. PICK q \in Session : q = a[s]
      BY <1>5 DEF Aliases
    <2>2. PICK v : WholeWalk(a, q, v, N)
      BY <1>1, WalkEnds
    <2>3. N \in Nat \ {0}
      <3>1. N # 0
        BY <1>1, ChatTurnAssumption, FS_EmptySet
      <3>2. QED
        BY <3>1
    <2> DEFINE T == {n \in Nat : n + 1 <= N => v[n] = w[n + 1]}
    <2>4. 0 \in T
      <3>1. 0 + 1 \in 0 .. N /\ 0 \in Nat
        BY <2>3
      <3>2. w[0 + 1] = Follow(a, w[0])
        BY <1>2, <3>1 DEF WholeWalk
      <3>3. w[0 + 1] = q
        BY <1>2, <1>5, <2>1, <3>2 DEF Follow, WholeWalk
      <3>4. QED
        BY <2>2, <3>3 DEF WholeWalk
    <2>5. ASSUME NEW n \in Nat, n \in T PROVE n + 1 \in T
      <3>1. SUFFICES ASSUME (n + 1) + 1 <= N PROVE v[n + 1] = w[(n + 1) + 1]
        OBVIOUS
      <3>2. v[n] = w[n + 1]
        BY <2>5, <3>1
      <3>3. v[n + 1] = Follow(a, v[n])
        BY <2>2, <3>1 DEF WholeWalk
      <3>4. w[(n + 1) + 1] = Follow(a, w[n + 1])
        <4>1. n + 1 \in Nat /\ (n + 1) + 1 \in 0 .. N
          BY <3>1
        <4>2. QED
          BY <1>2, <4>1 DEF WholeWalk
      <3>5. QED
        BY <3>2, <3>3, <3>4
    <2>6. PICK m \in Nat : m + 1 = N
      <3>1. N - 1 \in Nat /\ (N - 1) + 1 = N
        BY <2>3
      <3>2. QED
        BY <3>1
    <2>7. v[m] = w[N]
      <3>1. Nat \subseteq T
        BY <2>4, <2>5, NumberInduction
      <3>2. QED
        BY <2>6, <3>1
    <2>8. v[N] = Follow(a, v[m])
      BY <2>2, <2>6 DEF WholeWalk
    <2>9. v[N] = w[N]
      BY <1>2, <2>7, <2>8 DEF Follow, WholeWalk
    <2>10. QED
      BY <1>2, <2>1, <2>2, <2>9 DEF WholeWalk
  <1>6. QED
    BY <1>3, <1>4, <1>5

\* A new alias from s to c leads on what ended in s.
Aliased(a, b, s, c) ==
    s # c /\ a[s] = NoSession /\ a[c] = NoSession /\ b = [a EXCEPT ![s] = c]

LEMMA EndAliased ==
    ASSUME NEW a \in Aliases, NEW r \in Ranks, Ranked(a, r),
           NEW s \in Session, NEW c \in Session, NEW b, Aliased(a, b, s, c),
           NEW q \in Ranks, Ranked(b, q), NEW x \in Session
    PROVE  End(b, x) = IF End(a, x) = s THEN c ELSE End(a, x)
  <1> USE DEF Aliased
  <1> DEFINE f == [y \in Session |-> IF End(a, y) = s THEN c ELSE End(a, y)]
  <1>1. b \in Aliases /\ b[s] = c /\ \A y \in Session \ {s} : b[y] = a[y]
    BY DEF Aliases
  <1>2. ASSUME NEW y \in Session
        PROVE  f[y] = IF b[y] = NoSession THEN y ELSE f[b[y]]
    <2>1. CASE y = s
      <3>1. f[s] = c /\ f[c] = c
        BY EndIs
      <3>2. QED
        BY <1>1, <2>1, <3>1, ChatTurnAssumption
    <2>2. CASE y # s /\ a[y] = NoSession
      BY <1>1, <2>2, EndIs
    <2>3. CASE y # s /\ a[y] # NoSession
      <3>1. b[y] = a[y] /\ a[y] \in Session /\ End(a, y) = End(a, a[y])
        BY <1>1, <2>3, EndIs
      <3>2. f[a[y]] = f[y]
        BY <3>1
      <3>3. QED
        BY <2>3, <3>1, <3>2
    <2>4. QED
      BY <2>1, <2>2, <2>3
  <1>3. ToEnds(b, f)
    BY <1>2 DEF ToEnds
  <1> HIDE DEF f
  <1>4. End(b, x) = f[x]
    BY <1>1, <1>3, EndUnique
  <1>5. QED
    BY <1>4 DEF f

\* Dropping the chains that do not end in L leaves those that do.
PrunedTo(a, b, L) ==
    b = [y \in Session |-> IF End(a, y) \in L THEN a[y] ELSE NoSession]

LEMMA EndPruned ==
    ASSUME NEW a \in Aliases, NEW r \in Ranks, Ranked(a, r), NEW L,
           NEW b, PrunedTo(a, b, L), NEW x \in Session, End(a, x) \in L
    PROVE  Ranked(b, r) /\ End(b, x) = End(a, x)
  <1> USE DEF PrunedTo
  <1> DEFINE f == [y \in Session |-> IF End(a, y) \in L THEN End(a, y) ELSE y]
  <1>1. b \in Aliases /\ \A y \in Session : b[y] = IF End(a, y) \in L THEN a[y] ELSE NoSession
    BY DEF Aliases
  <1>2. Ranked(b, r)
    BY <1>1 DEF Ranked
  <1>3. ASSUME NEW y \in Session
        PROVE  f[y] = IF b[y] = NoSession THEN y ELSE f[b[y]]
    <2>1. CASE End(a, y) \notin L
      BY <1>1, <2>1
    <2>2. CASE End(a, y) \in L /\ a[y] = NoSession
      BY <1>1, <2>2, EndIs
    <2>3. CASE End(a, y) \in L /\ a[y] # NoSession
      <3>1. b[y] = a[y] /\ a[y] \in Session /\ End(a, y) = End(a, a[y])
        BY <1>1, <2>3, EndIs
      <3>2. f[a[y]] = End(a, a[y]) /\ f[y] = End(a, y)
        BY <2>3, <3>1
      <3>3. QED
        BY <2>3, <3>1, <3>2
    <2>4. QED
      BY <2>1, <2>2, <2>3
  <1>4. ToEnds(b, f)
    BY <1>3 DEF ToEnds
  <1> HIDE DEF f
  <1>5. End(b, x) = f[x]
    BY <1>1, <1>2, <1>4, EndUnique
  <1>6. QED
    BY <1>2, <1>5 DEF f
-----------------------------------------------------------------------------
(* Running turns are found under their session ids. *)

Unborn == {s \in Session : status[s] = "none"}

\* The ranks r order the sessions by their creation.
ByCreation(r) ==
    /\ \A s \in Session : status[s] # "none" => r[s] >= Cardinality(Unborn)
    /\ Ranked(alias, r)

LEMMA AliasInvIs ==
    AliasInv <=>
        /\ \A s \in Session : alias[s] # NoSession =>
               status[s] = "compacted" /\ status[alias[s]] # "none"
        /\ \E r \in Ranks : ByCreation(r)
  BY DEF AliasInv, ByCreation, Ranked, Ranks, Unborn

LEMMA AliasInvNext ==
    AliasInv' <=>
        /\ \A s \in Session : alias'[s] # NoSession =>
               status'[s] = "compacted" /\ status'[alias'[s]] # "none"
        /\ \E r \in Ranks : ByCreation(r)'
  BY DEF AliasInv, ByCreation, Ranked, Ranks, Unborn

\* Session c is created; the statuses are st and the aliases b then.
Creates(c, st, b) ==
    /\ \A x \in Session : st[x] = "none" <=> (status[x] = "none" /\ x # c)
    /\ \A x \in Session : b[x] # NoSession =>
           /\ st[x] = "compacted" /\ status[x] # "none"
           /\ b[x] = c \/ b[x] = alias[x]

LEMMA Created ==
    ASSUME TypeOK, AliasInv, NEW c \in Session, status[c] = "none",
           NEW st, status' = st, NEW b \in Aliases, alias' = b, Creates(c, st, b)
    PROVE  AliasInv'
  <1> USE DEF Creates
  <1>1. PICK r \in Ranks : ByCreation(r)
    BY AliasInvIs
  <1>2. PICK N \in Nat : N = Cardinality(Session)
    BY ChatTurnAssumption, FS_CardinalityType
  <1>3. /\ IsFiniteSet(Unborn) /\ Cardinality(Unborn) \in Nat /\ Cardinality(Unborn) <= N
        /\ c \in Unborn
    <2>1. Unborn \in SUBSET Session /\ c \in Unborn
      BY DEF Unborn
    <2>2. QED
      BY <1>2, <2>1, ChatTurnAssumption, FS_Subset, FS_CardinalityType
  <1>4. Unborn' = Unborn \ {c}
    BY DEF Unborn
  <1>5. PICK k \in Nat : k = Cardinality(Unborn') /\ Cardinality(Unborn) = k + 1 /\ k <= N
    <2>1. Cardinality(Unborn \ {c}) = Cardinality(Unborn) - 1
      BY <1>3, FS_RemoveElement
    <2>2. Cardinality(Unborn \ {c}) \in Nat
      BY <1>3, FS_RemoveElement, FS_CardinalityType
    <2>3. QED
      BY <1>2, <1>3, <1>4, <2>1, <2>2
  <1> DEFINE q == [r EXCEPT ![c] = k]
  <1>6. q \in Ranks /\ q[c] = k /\ \A x \in Session \ {c} : q[x] = r[x]
    BY <1>2, <1>5 DEF Ranks
  <1>7. \A x \in Session : r[x] \in Nat
    BY <1>2 DEF Ranks
  <1>8. \A x \in Session : status[x] # "none" => r[x] >= k + 1
    BY <1>1, <1>5 DEF ByCreation
  <1> HIDE DEF q
  <1>9. \A x \in Session : st[x] # "none" => q[x] >= k
    BY <1>5, <1>6, <1>7, <1>8
  <1>10. ASSUME NEW x \in Session, b[x] # NoSession PROVE q[b[x]] < q[x]
    <2>1. x # c /\ q[x] = r[x] /\ r[x] >= k + 1
      BY <1>6, <1>8, <1>10
    <2>2. CASE b[x] = c
      BY <1>5, <1>6, <1>7, <2>1, <2>2
    <2>3. CASE b[x] = alias[x] /\ b[x] # c
      <3>1. alias[x] \in Session /\ r[alias[x]] < r[x]
        BY <1>1, <1>10, <2>3 DEF ByCreation, Ranked, TypeOK
      <3>2. QED
        BY <1>6, <2>1, <2>3, <3>1
    <2>4. QED
      BY <1>10, <2>2, <2>3
  <1>11. ByCreation(q)'
    BY <1>5, <1>9, <1>10 DEF ByCreation, Ranked
  <1>12. ASSUME NEW x \in Session, b[x] # NoSession
         PROVE  st[x] = "compacted" /\ st[b[x]] # "none"
    <2>1. CASE b[x] = c
      BY <1>12, <2>1
    <2>2. CASE b[x] = alias[x]
      <3>1. alias[x] \in Session /\ status[alias[x]] # "none"
        BY <1>12, <2>2 DEF AliasInv, TypeOK
      <3>2. QED
        BY <1>12, <2>2, <3>1
    <2>3. QED
      BY <1>12, <2>1, <2>2
  <1>13. QED
    BY <1>6, <1>11, <1>12, AliasInvNext

LEMMA PostAlias ==
    ASSUME TypeOK, AliasInv, "stale_id" \notin Env, NEW t \in Turn, Post(t)
    PROVE  AliasInv'
  <1>1. PICK s \in Session : \/ PostNew(t, s) \/ PostExisting(t, s)
                             \/ \E c \in Session : PostCompacting(t, s, c)
    BY DEF Post
  <1>2. CASE PostNew(t, s)
    <2>1. /\ status[s] = "none" /\ alias' = alias
          /\ status' = [status EXCEPT ![s] = "active"]
      BY <1>2 DEF PostNew
    <2>2. PICK st : st = [status EXCEPT ![s] = "active"]
      OBVIOUS
    <2>3. st[s] = "active" /\ \A x \in Session \ {s} : st[x] = status[x]
      BY <2>2 DEF TypeOK
    <2>4. /\ \A x \in Session : st[x] = "none" <=> (status[x] = "none" /\ x # s)
          /\ \A x \in Session : alias[x] # NoSession => st[x] = "compacted" /\ status[x] # "none"
      BY <2>1, <2>3 DEF AliasInv
    <2>5. alias \in Aliases
      BY DEF TypeOK, Aliases
    <2>6. Creates(s, st, alias)
      BY <2>4 DEF Creates
    <2>7. QED
      BY <2>1, <2>2, <2>5, <2>6, Created
  <1>3. CASE PostExisting(t, s)
    <2>1. UNCHANGED <<status, alias>>
      BY <1>3 DEF PostExisting
    <2>2. QED
      BY <2>1, AliasInvIs, AliasInvNext DEF ByCreation, Unborn
  <1>4. ASSUME NEW c \in Session, PostCompacting(t, s, c)
        PROVE  AliasInv'
    <2>1. /\ status[s] = "active" /\ status[c] = "none"
          /\ status' = [status EXCEPT ![c] = "active", ![s] = "compacted"]
          /\ alias' = [alias EXCEPT ![s] = c]
      BY <1>4 DEF PostCompacting, MayPost
    <2>2. PICK st, b : /\ st = [status EXCEPT ![c] = "active", ![s] = "compacted"]
                       /\ b = [alias EXCEPT ![s] = c]
      OBVIOUS
    <2>3. /\ st[s] = "compacted" /\ st[c] = "active" /\ s # c
          /\ \A x \in Session \ {s, c} : st[x] = status[x]
      BY <2>1, <2>2 DEF TypeOK
    <2>4. b \in Aliases /\ b[s] = c /\ \A x \in Session \ {s} : b[x] = alias[x]
      BY <2>2 DEF TypeOK, Aliases
    <2>5. \A x \in Session : st[x] = "none" <=> (status[x] = "none" /\ x # c)
      BY <2>1, <2>3
    <2>6. \A x \in Session : b[x] # NoSession =>
              /\ st[x] = "compacted" /\ status[x] # "none"
              /\ b[x] = c \/ b[x] = alias[x]
      BY <2>1, <2>3, <2>4 DEF AliasInv
    <2>7. Creates(c, st, b)
      BY <2>5, <2>6 DEF Creates
    <2>8. status' = st /\ alias' = b
      BY <2>1, <2>2
    <2>9. QED
      BY <2>1, <2>4, <2>7, <2>8, Created
  <1>5. QED
    BY <1>1, <1>2, <1>3, <1>4

LEMMA AliasStep ==
    ASSUME TypeOK, AliasInv, "stale_id" \notin Env, [Next]_vars
    PROVE  AliasInv'
  <1>1. ASSUME NEW t \in Turn, Post(t) PROVE AliasInv'
    BY <1>1, PostAlias
  <1>2. CASE UNCHANGED <<status, alias>>
    BY <1>2, AliasInvIs, AliasInvNext DEF ByCreation, Unborn
  <1>3. ASSUME NEW b \in Aliases, alias' = b, UNCHANGED status,
               \A x \in Session : b[x] # NoSession => b[x] = alias[x]
        PROVE  AliasInv'
    <2>1. PICK r \in Ranks : ByCreation(r)
      BY AliasInvIs
    <2>2. Ranked(b, r)
      BY <1>3, <2>1 DEF Ranked, ByCreation
    <2>3. ByCreation(r)'
      BY <1>3, <2>1, <2>2 DEF ByCreation, Unborn
    <2>4. QED
      BY <1>3, <2>3, AliasInvNext DEF AliasInv
  <1>4. CASE SweepRegistry
    <2>1. UNCHANGED status /\ alias' = Pruned(entry')
      BY <1>4 DEF SweepRegistry, dbVars
    <2>2. PICK b : b = Pruned(entry')
      OBVIOUS
    <2>3. b \in Aliases /\ \A x \in Session : b[x] # NoSession => b[x] = alias[x]
      BY <2>2 DEF Pruned, Aliases, TypeOK
    <2>4. QED
      BY <1>3, <2>1, <2>2, <2>3
  <1>5. CASE Crash
    <2>1. UNCHANGED status /\ alias' = [s \in Session |-> NoSession]
      BY <1>5 DEF Crash, dbVars
    <2>2. PICK b : b = [s \in Session |-> NoSession]
      OBVIOUS
    <2>3. b \in Aliases /\ \A x \in Session : b[x] = NoSession
      BY <2>2 DEF Aliases
    <2>4. QED
      BY <1>3, <2>1, <2>2, <2>3
  <1>6. CASE Boot
    BY <1>2, <1>6 DEF Boot
  <1>7. ASSUME NEW t \in Turn, Handler(t) \/ Cancel(t) \/ TimeoutFires(t)
        PROVE  UNCHANGED <<status, alias>>
    BY <1>7 DEF Handler, Cancel, TimeoutFires, Prepared, PrepThrows, CacheHit, CacheMiss,
                RunnerResult, RunnerEnds, RunnerThrows, SalvageStarts, SalvageEnds,
                Finalised, dbVars
  <1>8. QED
    BY <1>1, <1>2, <1>4, <1>5, <1>6, <1>7 DEF Next, vars

\* What KeyedInv says of turn t, with the statuses st and the aliases a.
Keyed(t, e, p, i, st, a) ==
    \A s \in {p, i} : s \in Session /\ st[s] # "none" /\ e.sid = End(a, s)

LEMMA KeyedInvIs ==
    /\ KeyedInv <=> \A t \in Running :
           pc[t] \in Locking /\ Keyed(t, entry[t], posted[t], sid[t], status, alias)
    /\ KeyedInv' <=> \A t \in Running' :
           pc'[t] \in Locking /\ Keyed(t, entry'[t], posted'[t], sid'[t], status', alias')
  BY ResolveIsEnd DEF KeyedInv, Keyed

\* A step that changes neither aliases nor the sessions of running turns.
LEMMA KeyedFrame ==
    ASSUME KeyedInv, UNCHANGED <<alias, status, posted, sid>>,
           \A u \in Running' : /\ u \in Running /\ entry'[u].sid = entry[u].sid
                               /\ pc'[u] \in Locking
    PROVE  KeyedInv'
  <1>1. SUFFICES ASSUME NEW u \in Running'
                 PROVE  /\ pc'[u] \in Locking
                        /\ Keyed(u, entry'[u], posted'[u], sid'[u], status', alias')
    BY KeyedInvIs
  <1>2. Keyed(u, entry[u], posted[u], sid[u], status, alias)
    BY KeyedInvIs
  <1>3. QED
    BY <1>2 DEF Keyed

\* The running turns keep their keys when the entries become e.
StayKeyed(e, st, a) ==
    /\ \A u \in Turn : e[u].status = entry[u].status
    /\ \A u \in Running : Keyed(u, e[u], posted[u], sid[u], st, a)

\* A turn is admitted on session s, posted as p; e are the entries after the
\* compaction that may have come before.
LEMMA KeyedAdmit ==
    ASSUME TypeOK, KeyedInv, NEW t \in Turn, pc[t] = "idle",
           NEW p \in Session, NEW s \in Session, NEW e \in [Turn -> Entry], NEW rs,
           posted' = [posted EXCEPT ![t] = p], Admit(t, s, e, rs),
           NEW st, status' = st, NEW a, alias' = a,
           st[p] # "none", st[s] # "none", End(a, p) = s, End(a, s) = s,
           StayKeyed(e, st, a)
    PROVE  KeyedInv'
  <1> USE DEF StayKeyed
  <1>1. t \notin Running
    BY DEF KeyedInv, Locking, Working
  <1>2. posted'[t] = p /\ \A u \in Turn \ {t} : posted'[u] = posted[u]
    BY DEF TypeOK
  <1>3. CASE Registered(t, s, e, rs)
    <2>1. /\ entry'[t].sid = s /\ sid'[t] = s /\ pc'[t] = "prep"
          /\ \A u \in Turn \ {t} : entry'[u] = e[u] /\ sid'[u] = sid[u] /\ pc'[u] = pc[u]
      BY <1>3 DEF Registered, TypeOK
    <2>2. Keyed(t, entry'[t], posted'[t], sid'[t], st, a) /\ pc'[t] \in Locking
      BY <1>2, <2>1 DEF Keyed, Locking, Working
    <2>3. ASSUME NEW u \in Running', u # t
          PROVE  pc'[u] \in Locking /\ Keyed(u, entry'[u], posted'[u], sid'[u], st, a)
      <3>1. u \in Turn /\ u \in Running
        BY <2>1, <2>3 DEF Running
      <3>2. QED
        BY <1>2, <2>1, <2>3, <3>1 DEF KeyedInv
    <2>4. QED
      BY <2>2, <2>3, KeyedInvIs
  <1>4. CASE Overflowed(t, e, rs)
    <2>1. entry' = e /\ sid' = sid /\ \A u \in Turn \ {t} : pc'[u] = pc[u]
      BY <1>4 DEF Overflowed, TypeOK
    <2>2. ASSUME NEW u \in Running'
          PROVE  pc'[u] \in Locking /\ Keyed(u, entry'[u], posted'[u], sid'[u], st, a)
      <3>1. u \in Turn /\ u \in Running /\ u # t
        BY <1>1, <2>1 DEF Running
      <3>2. QED
        BY <1>2, <2>1, <3>1 DEF KeyedInv
    <2>3. QED
      BY <2>2, KeyedInvIs
  <1>5. QED
    BY <1>3, <1>4 DEF Admit

LEMMA PostKeyed ==
    ASSUME TypeOK, AliasInv, KeyedInv, "stale_id" \notin Env, NEW t \in Turn, Post(t)
    PROVE  KeyedInv'
  <1>1. PICK s \in Session : \/ PostNew(t, s) \/ PostExisting(t, s)
                             \/ \E c \in Session : PostCompacting(t, s, c)
    BY DEF Post
  <1>2. PICK r \in Ranks : Ranked(alias, r)
    BY AliasInvIs DEF ByCreation
  <1>3. AliasInv'
    BY PostAlias
  <1>4. PICK q \in Ranks : Ranked(alias', q)
    BY <1>3, AliasInvNext DEF ByCreation
  <1>5. alias \in Aliases /\ entry \in [Turn -> Entry]
    BY DEF TypeOK, Aliases
  <1>6. CASE PostNew(t, s) \/ PostExisting(t, s)
    <2>1. /\ pc[t] = "idle" /\ alias' = alias /\ Admit(t, s, entry, rows)
          /\ posted' = [posted EXCEPT ![t] = s]
          /\ status[s] # "compacted"
      BY <1>6 DEF PostNew, PostExisting, MayPost
    <2>2. status'[s] # "none" /\ \A x \in Session : status[x] # "none" => status'[x] # "none"
      BY <1>6 DEF PostNew, PostExisting, MayPost, TypeOK
    <2>3. alias[s] = NoSession
      BY <2>1 DEF AliasInv
    <2>4. End(alias, s) = s
      BY <1>2, <1>5, <2>3, EndIs
    <2>5. PICK st : st = status'
      OBVIOUS
    <2>6. \A u \in Running : Keyed(u, entry[u], posted[u], sid[u], st, alias)
      BY <2>2, <2>5, KeyedInvIs DEF Keyed
    <2>7. /\ st[s] # "none" /\ status' = st /\ alias' = alias
          /\ \A u \in Turn : entry[u].status = entry[u].status
      BY <2>1, <2>2, <2>5
    <2>8. PICK rs : rs = rows
      OBVIOUS
    <2>9. Admit(t, s, entry, rs)
      BY <2>1, <2>8
    <2>10. StayKeyed(entry, st, alias)
      BY <2>6 DEF StayKeyed
    <2>11. QED
      BY <1>5, <2>1, <2>4, <2>7, <2>9, <2>10, KeyedAdmit
  <1>7. ASSUME NEW c \in Session, PostCompacting(t, s, c)
        PROVE  KeyedInv'
    <2>1. /\ pc[t] = "idle" /\ status[s] = "active" /\ status[c] = "none"
          /\ posted' = [posted EXCEPT ![t] = s]
          /\ status' = [status EXCEPT ![c] = "active", ![s] = "compacted"]
          /\ alias' = [alias EXCEPT ![s] = c]
          /\ Admit(t, c, Rekeyed(s, c), [rows EXCEPT ![c] = <<PreambleRow>>])
      BY <1>7 DEF PostCompacting, MayPost
    <2>2. PICK st, a, e, rs : /\ st = [status EXCEPT ![c] = "active", ![s] = "compacted"]
                              /\ a = [alias EXCEPT ![s] = c]
                              /\ e = Rekeyed(s, c)
                              /\ rs = [rows EXCEPT ![c] = <<PreambleRow>>]
      OBVIOUS
    <2>3. /\ st[s] = "compacted" /\ st[c] = "active" /\ s # c
          /\ \A x \in Session \ {s, c} : st[x] = status[x]
      BY <2>1, <2>2 DEF TypeOK
    <2>4. alias[s] = NoSession /\ alias[c] = NoSession
      BY <2>1 DEF AliasInv
    <2>5. \A x \in Session : End(a, x) = IF End(alias, x) = s THEN c ELSE End(alias, x)
      <3>1. Aliased(alias, a, s, c)
        BY <2>2, <2>3, <2>4 DEF Aliased
      <3>2. Ranked(a, q)
        BY <1>4, <2>1, <2>2
      <3>3. QED
        BY <1>2, <1>4, <1>5, <3>1, <3>2, EndAliased
    <2>6. End(alias, s) = s /\ End(alias, c) = c
      BY <1>2, <1>5, <2>4, EndIs
    <2>7. End(a, s) = c /\ End(a, c) = c
      BY <2>3, <2>5, <2>6
    <2>8. e \in [Turn -> Entry]
      BY <2>2, RekeyedType
    <2>9. ASSUME NEW u \in Turn
          PROVE  /\ e[u].status = entry[u].status
                 /\ e[u].sid = IF entry[u].sid = s THEN c ELSE entry[u].sid
      <3>1. entry[u] \in Entry
        BY <1>5
      <3>2. e[u] = IF entry[u].sid = s THEN [entry[u] EXCEPT !.sid = c] ELSE entry[u]
        BY <2>2 DEF Rekeyed
      <3>3. QED
        BY <3>1, <3>2 DEF Entry
    <2>10. ASSUME NEW u \in Running
           PROVE  Keyed(u, e[u], posted[u], sid[u], st, a)
      <3>1. Keyed(u, entry[u], posted[u], sid[u], status, alias) /\ u \in Turn
        BY KeyedInvIs DEF Running
      <3>2. ASSUME NEW x \in {posted[u], sid[u]}
            PROVE  x \in Session /\ st[x] # "none" /\ e[u].sid = End(a, x)
        <4>1. x \in Session /\ status[x] # "none" /\ entry[u].sid = End(alias, x)
          BY <3>1 DEF Keyed
        <4>2. st[x] # "none"
          BY <2>3, <4>1
        <4>3. e[u].sid = End(a, x)
          BY <2>5, <2>9, <3>1, <4>1
        <4>4. QED
          BY <4>1, <4>2, <4>3
      <3>3. QED
        BY <3>2 DEF Keyed
    <2>11. status' = st /\ alias' = a /\ Admit(t, c, e, rs)
      BY <2>1, <2>2
    <2>12. /\ pc[t] = "idle" /\ posted' = [posted EXCEPT ![t] = s]
           /\ st[s] # "none" /\ st[c] # "none"
      BY <2>1, <2>3
    <2>13. StayKeyed(e, st, a)
      BY <2>9, <2>10 DEF StayKeyed
    <2>14. QED
      BY <2>7, <2>8, <2>11, <2>12, <2>13, KeyedAdmit
  <1>8. CASE \E c \in Session : PostCompacting(t, s, c)
    BY <1>7, <1>8, Zenon
  <1>9. QED
    BY <1>1, <1>6, <1>8, Zenon

\* The entries of running turns that one tick of the sweeper leaves are found
\* as before.
LEMMA SweepKeyed ==
    ASSUME TypeOK, AliasInv, KeyedInv, SweepRegistry
    PROVE  KeyedInv'
  <1>1. PICK r \in Ranks : Ranked(alias, r)
    BY AliasInvIs DEF ByCreation
  <1>2. /\ UNCHANGED <<status, posted, sid, pc>> /\ alias' = Pruned(entry')
        /\ \A u \in Turn : entry'[u] \in {NoEntry, entry[u]}
    BY DEF SweepRegistry, dbVars, requestVars
  <1>3. PICK L : L = {entry'[u].sid : u \in Turn}
    OBVIOUS
  <1>4. PICK b : PrunedTo(alias, b, L)
    BY DEF PrunedTo
  <1>5. alias' = b
    BY <1>2, <1>3, <1>4, ResolveIsEnd DEF Pruned, PrunedTo
  <1>6. ASSUME NEW x \in Session, End(alias, x) \in L PROVE End(b, x) = End(alias, x)
    <2>1. alias \in Aliases
      BY DEF TypeOK, Aliases
    <2>2. QED
      BY <1>1, <1>4, <1>6, <2>1, EndPruned
  <1>7. ASSUME NEW u \in Running'
        PROVE  /\ pc'[u] \in Locking
               /\ Keyed(u, entry'[u], posted'[u], sid'[u], status', b)
    <2>1. u \in Turn /\ u \in Running /\ entry'[u] = entry[u]
      BY <1>2 DEF Running, NoEntry
    <2>2. pc[u] \in Locking /\ Keyed(u, entry[u], posted[u], sid[u], status, alias)
      BY <2>1, KeyedInvIs
    <2>3. entry[u].sid \in L
      BY <1>3, <2>1
    <2>4. ASSUME NEW x \in {posted[u], sid[u]}
          PROVE  x \in Session /\ status[x] # "none" /\ entry[u].sid = End(b, x)
      <3>1. x \in Session /\ status[x] # "none" /\ entry[u].sid = End(alias, x)
        BY <2>2 DEF Keyed
      <3>2. QED
        BY <1>6, <2>3, <3>1
    <2>5. QED
      BY <1>2, <2>1, <2>2, <2>4 DEF Keyed
  <1>8. QED
    BY <1>5, <1>7, KeyedInvIs

LEMMA HandlerKeyed ==
    ASSUME TypeOK, KeyedInv, NEW t \in Turn, Handler(t)
    PROVE  KeyedInv'
  <1>1. UNCHANGED <<alias, status, posted, sid>>
    BY DEF Handler, Prepared, PrepThrows, CacheHit, CacheMiss, RunnerResult, RunnerEnds,
           RunnerThrows, SalvageStarts, SalvageEnds, Finalised, dbVars, requestVars
  <1>2. ASSUME NEW st \in {"done", "error"}, Closed(t, st)
        PROVE  KeyedInv'
    <2>1. /\ \A u \in Turn \ {t} : entry'[u] = entry[u] /\ pc'[u] = pc[u]
          /\ entry'[t].status # "running"
      <3>1. entry[t] \in Entry /\ t \in DOMAIN entry
        BY DEF TypeOK
      <3>2. entry'[t] = [entry[t] EXCEPT !.status = IF @ = "none" THEN "none" ELSE st]
        BY <1>2, <3>1 DEF Closed
      <3>3. entry'[t].status = IF entry[t].status = "none" THEN "none" ELSE st
        BY <3>1, <3>2 DEF Entry
      <3>4. QED
        BY <1>2, <3>3 DEF Closed, TypeOK
    <2>2. \A u \in Running' : u \in Turn \ {t} /\ u \in Running
      BY <2>1 DEF Running
    <2>3. QED
      BY <1>1, <2>1, <2>2, KeyedFrame DEF KeyedInv
  <1>3. ASSUME UNCHANGED entry, \A u \in Turn : pc[u] \in Locking => pc'[u] \in Locking
        PROVE  KeyedInv'
    BY <1>1, <1>3, KeyedFrame DEF KeyedInv, Running
  <1>4. CASE CacheHit(t) \/ RunnerEnds(t) \/ RunnerThrows(t) \/ SalvageEnds(t)
    <2>1. CASE CacheHit(t)
      BY <1>2, <2>1 DEF CacheHit
    <2>2. ASSUME NEW threw \in BOOLEAN, Finalised(t, threw)
          PROVE  KeyedInv'
      <3>1. PICK out \in Outcomes(t, threw) : Closed(t, out[1])
        BY <2>2 DEF Finalised
      <3>2. out[1] \in {"done", "error"}
        BY <2>2 DEF Outcomes
      <3>3. QED
        BY <1>2, <3>1, <3>2
    <2>3. QED
      BY <1>4, <2>1, <2>2 DEF RunnerEnds, RunnerThrows, SalvageEnds
  <1>5. CASE Prepared(t) \/ PrepThrows(t) \/ CacheMiss(t) \/ RunnerResult(t) \/ SalvageStarts(t)
    <2>1. UNCHANGED entry
      BY <1>5 DEF Prepared, PrepThrows, CacheMiss, RunnerResult, SalvageStarts
    <2>2. \A u \in Turn : pc'[u] = pc[u] \/ pc'[u] \in Locking
      BY <1>5 DEF Prepared, PrepThrows, CacheMiss, RunnerResult, SalvageStarts, Locking,
                  Working, TypeOK
    <2>3. QED
      BY <1>3, <2>1, <2>2
  <1>6. QED
    BY <1>4, <1>5 DEF Handler

LEMMA AbortKeyed ==
    ASSUME TypeOK, KeyedInv, NEW t \in Turn, Cancel(t) \/ TimeoutFires(t)
    PROVE  KeyedInv'
  <1>1. UNCHANGED <<alias, status, posted, sid, pc>>
    BY DEF Cancel, TimeoutFires, dbVars, requestVars
  <1>2. PICK r \in Reason : Abort(t, r)
    BY DEF Cancel, TimeoutFires, Reason
  <1>3. \A u \in Turn : entry'[u].status = entry[u].status /\ entry'[u].sid = entry[u].sid
    <2>1. CASE t \in Running
      <3>1. entry' = [entry EXCEPT ![t].reason = r]
        BY <1>2, <2>1 DEF Abort
      <3>2. \A u \in Turn : entry[u] \in Entry
        BY DEF TypeOK
      <3>3. QED
        BY <3>1, <3>2 DEF TypeOK, Entry
    <2>2. CASE t \notin Running
      BY <1>2, <2>2 DEF Abort
    <2>3. QED
      BY <2>1, <2>2
  <1>4. Running' = Running
    BY <1>3 DEF Running
  <1>5. QED
    BY <1>1, <1>3, <1>4, KeyedFrame DEF KeyedInv, Running

LEMMA KeyedStep ==
    ASSUME TypeOK, AliasInv, KeyedInv, "stale_id" \notin Env, [Next]_vars
    PROVE  KeyedInv'
  <1>1. CASE Crash
    <2>1. Running' = {}
      BY <1>1 DEF Crash, Running, NoEntry
    <2>2. QED
      BY <2>1, KeyedInvIs
  <1>2. CASE Boot \/ UNCHANGED vars
    <2>1. UNCHANGED <<alias, status, posted, sid, pc, entry>>
      BY <1>2 DEF Boot, vars, requestVars
    <2>2. QED
      BY <2>1, KeyedFrame DEF KeyedInv, Running
  <1>3. QED
    BY <1>1, <1>2, PostKeyed, HandlerKeyed, AbortKeyed, SweepKeyed DEF Next

LEMMA KeyedInit == Init => AliasInv /\ KeyedInv
  <1>1. SUFFICES ASSUME Init PROVE AliasInv /\ KeyedInv
    OBVIOUS
  <1>2. PICK N \in Nat : N = Cardinality(Session)
    BY ChatTurnAssumption, FS_CardinalityType
  <1>3. /\ \A s \in Session : status[s] = "none" /\ alias[s] = NoSession
        /\ Running = {}
    BY <1>1 DEF Init, Running, NoEntry
  <1> DEFINE r == [s \in Session |-> N]
  <1>4. r \in Ranks
    BY <1>2 DEF Ranks
  <1>5. ByCreation(r)
    BY <1>3 DEF ByCreation, Ranked
  <1>6. QED
    BY <1>3, <1>4, <1>5, AliasInvIs, KeyedInvIs

LEMMA KeyedIsFound ==
    ASSUME TypeOK, MutexInv, AliasInv, KeyedInv
    PROVE  ReachableAfterRefresh
  <1>1. PICK r \in Ranks : Ranked(alias, r)
    BY AliasInvIs DEF ByCreation
  <1>2. \A t \in Running : /\ t \in Turn /\ pc[t] \in Locking /\ sid[t] \in Session
                           /\ entry[t].sid = Resolve(posted[t])
                           /\ entry[t].sid = Resolve(sid[t])
    BY DEF KeyedInv, Running
  <1>3. SUFFICES ASSUME NEW t \in Running, NEW s \in {posted[t], sid[t]}
                 PROVE  /\ t \in FindRunning(s)
                        /\ \A u \in FindRunning(s) \ {t} :
                               "compacted" \in {status[sid[t]], status[sid[u]]}
    BY DEF ReachableAfterRefresh
  <1>4. t \in FindRunning(s)
    BY <1>2 DEF FindRunning
  <1>5. ASSUME NEW u \in FindRunning(s), status[sid[t]] # "compacted", status[sid[u]] # "compacted"
        PROVE  u = t
    <2>1. u \in Running /\ entry[u].sid = entry[t].sid
      BY <1>2 DEF FindRunning
    <2>2. \A v \in {t, u} : v \in Running /\ entry[v].sid = sid[v]
      <3>1. SUFFICES ASSUME NEW v \in {t, u} PROVE v \in Running /\ entry[v].sid = sid[v]
        OBVIOUS
      <3>2. v \in Running /\ sid[v] \in Session /\ status[sid[v]] # "compacted"
        BY <1>2, <1>5, <2>1
      <3>3. alias[sid[v]] = NoSession
        BY <3>2 DEF AliasInv
      <3>4. End(alias, sid[v]) = sid[v]
        BY <1>1, <3>2, <3>3, EndIs DEF TypeOK, Aliases
      <3>5. QED
        BY <1>2, <3>2, <3>4, ResolveIsEnd
    <2>3. sid[t] = sid[u]
      BY <2>1, <2>2
    <2>4. holds[t] = sid[t] /\ holds[u] = sid[u] /\ sid[t] \in Session /\ t \in Turn /\ u \in Turn
      BY <1>2, <2>1 DEF MutexInv
    <2>5. QED
      BY <2>3, <2>4 DEF MutexInv
  <1>6. QED
    BY <1>4, <1>5

\* A reloaded client finds its running turn under the session id it posted and
\* under the one it was swapped for, over any number of compactions, sweeps,
\* aborts and crashes, as long as no client posts with a compacted id.
THEOREM RunningIsReachable ==
    ASSUME "stale_id" \notin Env PROVE Spec => []ReachableAfterRefresh
  <1>1. IInv /\ AliasInv /\ KeyedInv /\ [Next]_vars => AliasInv' /\ KeyedInv'
    BY AliasStep, KeyedStep DEF IInv
  <1>2. IInv /\ AliasInv /\ KeyedInv => ReachableAfterRefresh
    BY KeyedIsFound DEF IInv
  <1>3. QED
    BY <1>1, <1>2, KeyedInit, Invariance, PTL DEF Spec
-----------------------------------------------------------------------------
(* Every turn comes to its end. *)

\* Until its timer has fired a turn is running, so that the timer aborts it;
\* from then on it stays aborted.
ArmedInv ==
    \A t \in Turn :
        /\ pc[t] = "prep" => t \in Running
        /\ pc[t] \in {"lookup", "stream"} =>
               signal[t] # "none" \/ (timer[t] = "armed" /\ t \in Running)
        /\ pc[t] = "salvage" => signal[t] # "none"

\* What a step leaves alone of turn u.
Unmoved(u) ==
    /\ pc'[u] = pc[u] /\ timer'[u] = timer[u]
    /\ signal[u] # "none" => signal'[u] # "none"
    /\ u \in Running => u \in Running'

LEMMA PostMoves ==
    ASSUME IInv, NEW t \in Turn, Post(t)
    PROVE  /\ pc[t] = "idle"
           /\ pc'[t] = "prep" => t \in Running'
           /\ pc'[t] \in {"prep", "rejected"}
           /\ \A u \in Turn \ {t} : Unmoved(u)
  <1> USE DEF IInv
  <1>1. PICK s \in Session, e \in [Turn -> Entry] :
           /\ \A u \in Turn : e[u].status = entry[u].status
           /\ pc[t] = "idle" /\ \E rs : Admit(t, s, e, rs)
    <2>1. PICK s \in Session : \/ PostNew(t, s) \/ PostExisting(t, s)
                               \/ \E c \in Session : PostCompacting(t, s, c)
      BY DEF Post
    <2>2. CASE PostNew(t, s) \/ PostExisting(t, s)
      <3>1. Admit(t, s, entry, rows) /\ pc[t] = "idle" /\ entry \in [Turn -> Entry]
        BY <2>2 DEF PostNew, PostExisting, MayPost, TypeOK
      <3>2. QED
        BY <3>1
    <2>3. ASSUME NEW c \in Session, PostCompacting(t, s, c)
          PROVE  \E e \in [Turn -> Entry] :
                   /\ \A u \in Turn : e[u].status = entry[u].status
                   /\ pc[t] = "idle" /\ \E rs : Admit(t, c, e, rs)
      <3>1. PICK e : e = Rekeyed(s, c)
        OBVIOUS
      <3>2. Admit(t, c, e, [rows EXCEPT ![c] = <<PreambleRow>>]) /\ pc[t] = "idle"
        BY <2>3, <3>1 DEF PostCompacting, MayPost
      <3>3. e \in [Turn -> Entry]
        BY <3>1, RekeyedType
      <3>4. \A u \in Turn : e[u].status = entry[u].status
        BY <3>1 DEF Rekeyed, TypeOK, Entry
      <3>5. QED
        BY <3>2, <3>3, <3>4
    <2>4. QED
      BY <2>1, <2>2, <2>3
  <1>2. UNCHANGED <<timer, signal>>
    BY <1>1 DEF Admit
  <1>3. ASSUME NEW rs, Registered(t, s, e, rs)
        PROVE  /\ pc'[t] = "prep" /\ t \in Running'
               /\ \A u \in Turn \ {t} : Unmoved(u)
    <2>1. /\ pc'[t] = "prep" /\ entry'[t].status = "running"
          /\ \A u \in Turn \ {t} : pc'[u] = pc[u] /\ entry'[u] = e[u]
      BY <1>3 DEF Registered, TypeOK
    <2>2. QED
      BY <1>1, <1>2, <2>1 DEF Unmoved, Running
  <1>4. ASSUME NEW rs, Overflowed(t, e, rs)
        PROVE  pc'[t] = "rejected" /\ \A u \in Turn \ {t} : Unmoved(u)
    <2>1. entry' = e /\ pc'[t] = "rejected" /\ \A u \in Turn \ {t} : pc'[u] = pc[u]
      BY <1>4 DEF Overflowed, TypeOK
    <2>2. QED
      BY <1>1, <1>2, <2>1 DEF Unmoved, Running
  <1>5. QED
    BY <1>1, <1>3, <1>4 DEF Admit

\* Where the steps of its handler lead a turn.
HandlerGoes(t) ==
    \/ pc[t] = "prep" /\ pc'[t] \in {"lookup", "stream"} /\ timer'[t] = "armed"
         /\ (t \in Running => t \in Running')
    \/ pc[t] = "prep" /\ pc'[t] = "leaked" /\ "prep_throws" \in Env
    \/ pc[t] = "lookup" /\ pc'[t] = "stream" /\ timer'[t] = timer[t]
         /\ (t \in Running => t \in Running')
    \/ pc[t] = "stream" /\ pc'[t] = "stream" /\ timer'[t] = timer[t]
         /\ (t \in Running => t \in Running')
    \/ pc[t] = "stream" /\ pc'[t] = "salvage" /\ signal[t] # "none"
    \/ pc[t] \in {"lookup", "stream", "salvage"} /\ pc'[t] = "over"

LEMMA HandlerMoves ==
    ASSUME IInv, NEW t \in Turn, Handler(t)
    PROVE  HandlerGoes(t) /\ signal' = signal /\ \A u \in Turn \ {t} : Unmoved(u)
  <1> USE DEF IInv, TypeOK
  <1>1. CASE Prepared(t) \/ PrepThrows(t) \/ RunnerResult(t) \/ SalvageStarts(t)
    BY <1>1 DEF Prepared, PrepThrows, RunnerResult, SalvageStarts, NeedsSalvage, Unmoved, Running,
                HandlerGoes
  <1>2. CASE CacheMiss(t)
    BY <1>2 DEF CacheMiss, Unmoved, Running, HandlerGoes
  <1>3. ASSUME NEW st, Closed(t, st), timer' = timer \/ timer' = [timer EXCEPT ![t] = "off"]
        PROVE  pc'[t] = "over" /\ \A u \in Turn \ {t} : pc'[u] = pc[u] /\ timer'[u] = timer[u]
                                           /\ entry'[u] = entry[u]
    BY <1>3 DEF Closed
  <1>4. CASE CacheHit(t)
    BY <1>3, <1>4 DEF CacheHit, Unmoved, Running, HandlerGoes, requestVars
  <1>5. CASE RunnerEnds(t) \/ RunnerThrows(t) \/ SalvageEnds(t)
    BY <1>3, <1>5 DEF RunnerEnds, RunnerThrows, SalvageEnds, Finalised, Unmoved, Running,
                      HandlerGoes
  <1>6. QED
    BY <1>1, <1>2, <1>4, <1>5 DEF Handler

\* Where any step leads a turn.
Goes(t) ==
    \/ pc[t] \in {"idle"} /\ pc'[t] \in {"prep", "rejected"} /\ (pc'[t] = "prep" => t \in Running')
    \/ HandlerGoes(t) /\ signal'[t] = signal[t]
    \/ Unmoved(t)
    \/ pc'[t] = pc[t] /\ (t \in Running => signal'[t] # "none")
                      /\ (signal[t] # "none" => signal'[t] # "none")
                      /\ (t \in Running => t \in Running')
    \/ pc'[t] = pc[t] /\ timer'[t] = timer[t] /\ signal'[t] = signal[t] /\ t \notin Running'
                      /\ (t \in Running => pc[t] = "leaked" \/ (pc[t] = "stream" /\ timer[t] = "fired"))
    \/ pc'[t] \notin Working

LEMMA EveryMove ==
    ASSUME IInv, [Next]_vars, NEW t \in Turn
    PROVE  Goes(t)
  <1> USE DEF IInv
  <1>1. ASSUME NEW u \in Turn, Post(u) PROVE Goes(t)
    BY <1>1, PostMoves DEF Goes
  <1>2. ASSUME NEW u \in Turn, Handler(u) PROVE Goes(t)
    BY <1>2, HandlerMoves DEF Goes
  <1>3. ASSUME NEW u \in Turn, NEW r \in Reason, Abort(u, r), UNCHANGED pc
        PROVE  /\ Running' = Running /\ \A v \in Turn \ {u} : signal'[v] = signal[v]
               /\ u \in Running => signal'[u] # "none"
               /\ signal[u] # "none" => signal'[u] # "none"
    <2>1. CASE u \in Running
      <3>1. signal' = [signal EXCEPT ![u] = IF @ = "none" THEN r ELSE @] /\ r # "none"
        BY <1>3, <2>1 DEF Abort, Reason
      <3>2. entry' = [entry EXCEPT ![u].reason = r]
        BY <1>3, <2>1 DEF Abort
      <3>3. \A v \in Turn : entry'[v].status = entry[v].status
        BY <3>2 DEF TypeOK, Entry
      <3>4. QED
        BY <3>1, <3>3 DEF Running, TypeOK
    <2>2. CASE u \notin Running
      BY <1>3, <2>2 DEF Abort, Running
    <2>3. QED
      BY <2>1, <2>2
  <1>4. ASSUME NEW u \in Turn, Cancel(u) PROVE Goes(t)
    BY <1>3, <1>4 DEF Cancel, Goes, Unmoved, Reason
  <1>5. ASSUME NEW u \in Turn, TimeoutFires(u) PROVE Goes(t)
    <2>1. \A v \in Turn \ {u} : timer'[v] = timer[v]
      BY <1>5 DEF TimeoutFires, TypeOK
    <2>2. UNCHANGED pc /\ Abort(u, "timeout") /\ "timeout" \in Reason
      BY <1>5 DEF TimeoutFires, Reason
    <2>3. QED
      BY <1>3, <2>1, <2>2 DEF Goes, Unmoved
  <1>6. CASE SweepRegistry
    <2>1. PICK X \in SUBSET {u \in Turn : Overdue(u) \/ Expired(u)} :
              entry' = [u \in Turn |-> IF u \in X THEN NoEntry ELSE entry[u]]
      BY <1>6 DEF SweepRegistry
    <2>2. UNCHANGED <<timer, pc, signal>>
      BY <1>6 DEF SweepRegistry
    <2>3. CASE t \in X
      <3>1. entry'[t].status = "none"
        BY <2>1, <2>3 DEF NoEntry
      <3>2. t \in Running => Overdue(t)
        BY <2>1, <2>3 DEF Running, Expired
      <3>3. t \notin Running'
        BY <3>1 DEF Running
      <3>4. t \in Running => pc[t] = "leaked" \/ (pc[t] = "stream" /\ timer[t] = "fired")
        BY <3>2 DEF Overdue
      <3>5. QED
        BY <2>2, <3>3, <3>4 DEF Goes
    <2>4. CASE t \notin X
      BY <2>1, <2>2, <2>4 DEF Goes, Unmoved, Running
    <2>5. QED
      BY <2>3, <2>4
  <1>7. CASE Crash
    BY <1>7 DEF Crash, Goes, Working
  <1>8. CASE Boot \/ UNCHANGED vars
    BY <1>8 DEF Boot, vars, Goes, Unmoved, Running
  <1>9. QED
    BY <1>1, <1>2, <1>4, <1>5, <1>6, <1>7, <1>8 DEF Next

LEMMA ArmedStep == ASSUME IInv, ArmedInv, [Next]_vars PROVE ArmedInv'
  <1> SUFFICES ASSUME NEW t \in Turn
               PROVE  /\ pc'[t] = "prep" => t \in Running'
                      /\ pc'[t] \in {"lookup", "stream"} =>
                             signal'[t] # "none" \/ (timer'[t] = "armed" /\ t \in Running')
                      /\ pc'[t] = "salvage" => signal'[t] # "none"
    BY DEF ArmedInv
  <1>1. Goes(t)
    BY EveryMove
  <1>2. CASE HandlerGoes(t) /\ signal'[t] = signal[t]
    BY <1>2 DEF ArmedInv, HandlerGoes
  <1>3. CASE Unmoved(t)
    BY <1>3 DEF ArmedInv, Unmoved
  <1>4. CASE pc'[t] \notin Working
    BY <1>4 DEF Working
  <1>5. CASE /\ pc'[t] = pc[t] /\ t \notin Running' /\ signal'[t] = signal[t]
             /\ t \in Running => pc[t] = "leaked" \/ (pc[t] = "stream" /\ timer[t] = "fired")
    BY <1>5 DEF ArmedInv
  <1>6. CASE pc[t] = "idle" /\ pc'[t] \in {"prep", "rejected"} /\ (pc'[t] = "prep" => t \in Running')
    BY <1>6
  <1>7. CASE /\ pc'[t] = pc[t] /\ (t \in Running => signal'[t] # "none")
             /\ (signal[t] # "none" => signal'[t] # "none")
             /\ (t \in Running => t \in Running')
    BY <1>7 DEF ArmedInv
  <1>8. QED
    BY <1>1, <1>2, <1>3, <1>4, <1>5, <1>6, <1>7 DEF Goes

\* Where a handler is.
At(t, phase) == pc[t] = phase
Live(t) == pc[t] \in Working
Armed(t) == timer[t] = "armed"
Aborted(t) == signal[t] # "none"

LEMMA Stages ==
    ASSUME IInv, ArmedInv, ArmedInv', [Next]_vars, NEW t \in Turn
    PROVE  /\ Live(t) => At(t, "prep") \/ At(t, "lookup") \/ At(t, "stream") \/ At(t, "salvage")
           /\ At(t, "stream") => Armed(t) \/ Aborted(t)
           /\ At(t, "prep") => ~Live(t)' \/ At(t, "prep")' \/ At(t, "lookup")' \/ At(t, "stream")'
           /\ At(t, "lookup") => ~Live(t)' \/ At(t, "lookup")' \/ At(t, "stream")'
           /\ At(t, "stream") => ~Live(t)' \/ At(t, "stream")' \/ At(t, "salvage")'
           /\ At(t, "salvage") => ~Live(t)' \/ At(t, "salvage")'
           /\ At(t, "stream") /\ Aborted(t) /\ At(t, "stream")' => Aborted(t)'
  <1>1. Goes(t)
    BY EveryMove
  <1>2. QED
    BY <1>1 DEF Goes, HandlerGoes, Unmoved, Live, At, Working, Armed, Aborted, ArmedInv

LEMMA StageEnds ==
    ASSUME IInv, NEW t \in Turn
    PROVE  /\ <<Prepared(t)>>_vars => ~At(t, "prep")'
           /\ <<CacheMiss(t)>>_vars => ~At(t, "lookup")'
           /\ <<TimeoutFires(t)>>_vars => ~Armed(t)'
           /\ <<Stops(t)>>_vars => ~At(t, "stream")'
           /\ <<SalvageEnds(t)>>_vars => ~At(t, "salvage")'
  BY DEF IInv, TypeOK, At, Armed, Prepared, CacheMiss, TimeoutFires, Stops, RunnerEnds,
         SalvageStarts, SalvageEnds, Finalised, Closed

\* One turn comes to its end.
LEMMA TurnEnds ==
    ASSUME NEW t \in Turn
    PROVE  Spec /\ TurnFairness(t) /\ []NeverStuck => [](Live(t) => <>~Live(t))
  <1>1. NeverStuck =>
          /\ At(t, "prep") => ENABLED <<Prepared(t)>>_vars
          /\ At(t, "lookup") => ENABLED <<CacheMiss(t)>>_vars
          /\ Armed(t) => ENABLED <<TimeoutFires(t)>>_vars
          /\ At(t, "stream") /\ Aborted(t) => ENABLED <<Stops(t)>>_vars
          /\ At(t, "salvage") => ENABLED <<SalvageEnds(t)>>_vars
    BY DEF NeverStuck, At, Armed, Aborted
  <1>2. Init => ArmedInv
    BY DEF Init, ArmedInv
  <1>3. IInv /\ ArmedInv /\ [Next]_vars => ArmedInv'
    BY ArmedStep
  <1>4. QED
    BY <1>1, <1>2, <1>3, Stages, StageEnds, Invariance, PTL DEF Spec, TurnFairness

\* Every handler comes to its end, with its answer or with its process, for any
\* number of turns and whatever fails: under the fairness of FairSpec, given
\* that the steps it speaks of can be taken where the handler waits for them.
THEOREM TurnsComeToEnd == FairSpec /\ []NeverStuck => TurnsEnd
  <1>1. ASSUME NEW t \in Turn
        PROVE  Spec /\ TurnFairness(t) /\ []NeverStuck
                 => (pc[t] \in Working ~> pc[t] \notin Working)
    <2>1. Live(t) <=> pc[t] \in Working
      BY DEF Live
    <2>2. ~Live(t) <=> pc[t] \notin Working
      BY DEF Live
    <2>3. QED
      BY <2>1, <2>2, TurnEnds, PTL
  <1>2. FairSpec => Spec /\ Fairness
    BY DEF FairSpec
  <1>3. Fairness => \A t \in Turn : TurnFairness(t)
    BY PTL DEF Fairness
  <1>4. QED
    BY <1>1, <1>2, <1>3 DEF TurnsEnd
-----------------------------------------------------------------------------
(* Every question is answered. *)

LEMMA LastAppended ==
    ASSUME NEW S, NEW q \in Seq(S), NEW r \in S
    PROVE  Append(q, r) # <<>> /\ Append(q, r)[Len(Append(q, r))] = r
  OBVIOUS

\* A post asks a question only on the session its turn is admitted to.
LEMMA PostQuestion ==
    ASSUME IInv, NEW t \in Turn, Post(t)
    PROVE  /\ pc[t] = "idle" /\ up' = up
           /\ \A u \in Turn \ {t} : pc'[u] = pc[u] /\ sid'[u] = sid[u]
           /\ \A s \in Session : rows'[s] # rows[s] /\ Unanswered(s)' =>
                                     pc'[t] = "prep" /\ sid'[t] = s
  <1> USE DEF IInv
  <1>1. PICK s \in Session, rs \in [Session -> Seq(Row)] :
           /\ pc[t] = "idle" /\ \E e : Admit(t, s, e, rs)
           /\ \A x \in Session : rs[x] = rows[x] \/ (x = s /\ rs[x] = <<PreambleRow>>)
    <2>1. PICK s \in Session : \/ PostNew(t, s) \/ PostExisting(t, s)
                               \/ \E c \in Session : PostCompacting(t, s, c)
      BY DEF Post
    <2>2. CASE PostNew(t, s) \/ PostExisting(t, s)
      <3>1. Admit(t, s, entry, rows) /\ pc[t] = "idle" /\ rows \in [Session -> Seq(Row)]
        BY <2>2 DEF PostNew, PostExisting, MayPost, TypeOK
      <3>2. QED
        BY <3>1
    <2>3. ASSUME NEW c \in Session, PostCompacting(t, s, c)
          PROVE  \E rs \in [Session -> Seq(Row)] :
                   /\ pc[t] = "idle" /\ \E e : Admit(t, c, e, rs)
                   /\ \A x \in Session : rs[x] = rows[x] \/ (x = c /\ rs[x] = <<PreambleRow>>)
      <3>1. PICK rs : rs = [rows EXCEPT ![c] = <<PreambleRow>>]
        OBVIOUS
      <3>2. Admit(t, c, Rekeyed(s, c), rs) /\ pc[t] = "idle"
        BY <2>3, <3>1 DEF PostCompacting, MayPost
      <3>3. PreambleRow \in Row
        BY RowTypes
      <3>4. rs \in [Session -> Seq(Row)]
        BY <3>1, <3>3 DEF TypeOK
      <3>5. QED
        BY <3>1, <3>2, <3>4 DEF TypeOK
    <2>4. QED
      BY <2>1, <2>2, <2>3
  <1>2. up' = up
    BY <1>1 DEF Admit
  <1>3. ASSUME NEW x \in Session, rs[x] # rows[x], rows'[x] = rs[x] PROVE ~Unanswered(x)'
    BY <1>1, <1>3 DEF Unanswered, PreambleRow
  <1>4. ASSUME NEW e, Registered(t, s, e, rs)
        PROVE  /\ pc'[t] = "prep" /\ sid'[t] = s
               /\ \A u \in Turn \ {t} : pc'[u] = pc[u] /\ sid'[u] = sid[u]
               /\ \A x \in Session \ {s} : rows'[x] = rs[x]
    BY <1>4 DEF Registered, TypeOK
  <1>5. ASSUME NEW e, Overflowed(t, e, rs)
        PROVE  /\ rows' = rs /\ \A u \in Turn \ {t} : pc'[u] = pc[u] /\ sid'[u] = sid[u]
    BY <1>5 DEF Overflowed, TypeOK
  <1>6. QED
    BY <1>1, <1>2, <1>3, <1>4, <1>5 DEF Admit

\* A handler that does not go on has answered its question.
LEMMA HandlerAnswers ==
    ASSUME IInv, EndedInv, "db_fails" \notin Env, NEW t \in Turn, Handler(t)
    PROVE  /\ pc[t] \in Working /\ UNCHANGED <<up, sid>>
           /\ \A u \in Turn \ {t} : pc'[u] = pc[u]
           /\ \/ rows' = rows /\ pc'[t] \in Locking
                 /\ (pc'[t] = "leaked" => "prep_throws" \in Env)
              \/ ~Unanswered(sid[t])' /\ \A s \in Session \ {sid[t]} : rows'[s] = rows[s]
  <1> USE DEF IInv
  <1>1. CASE Prepared(t) \/ PrepThrows(t) \/ RunnerResult(t) \/ SalvageStarts(t)
    BY <1>1 DEF Prepared, PrepThrows, RunnerResult, SalvageStarts, TypeOK, Working, Locking,
                dbVars, requestVars
  <1>2. CASE CacheMiss(t)
    <2>1. Answer(t, "none")
      BY <1>2 DEF CacheMiss
    <2>2. QED
      BY <1>2, <2>1 DEF CacheMiss, Answer, TypeOK, Working, Locking, requestVars
  <1>3. CASE CacheHit(t) \/ RunnerEnds(t) \/ RunnerThrows(t) \/ SalvageEnds(t)
    <2>1. UNCHANGED <<up, sid>> /\ pc[t] \in Working
      BY <1>3 DEF CacheHit, RunnerEnds, RunnerThrows, SalvageEnds, Finalised, requestVars, Working
    <2>2. Clean
      BY DEF Clean
    <2>3. Ends(t)
      <3>1. ~Moves(t)
        BY <1>3 DEF Moves, CacheHit, RunnerEnds, RunnerThrows, SalvageEnds, Finalised, Closed, TypeOK
      <3>2. QED
        BY <1>3, <2>2, <3>1, HandlerEnds DEF Handler
    <2>4. PICK stop \in Stop \ {"service_restart"}, st \in {"done", "error"} :
            Answer(t, stop) /\ Closed(t, st) /\ stop # "none"
      BY <2>3 DEF Ends
    <2>5. \A u \in Turn \ {t} : pc'[u] = pc[u]
      BY <2>4 DEF Closed, TypeOK
    <2>6. rows' = [rows EXCEPT ![sid[t]] = Append(@, AnswerRow(t, userIdx[t] + 1, stop))]
      BY <2>4 DEF Answer
    <2>7. sid[t] \in Session
      BY <2>1 DEF MutexInv, Locking
    <2>8. PICK r \in Row : r = AnswerRow(t, userIdx[t] + 1, stop)
      BY <2>4, RowTypes DEF TypeOK
    <2>9. rows'[sid[t]] = Append(rows[sid[t]], r) /\ rows[sid[t]] \in Seq(Row)
      BY <2>6, <2>7, <2>8 DEF TypeOK
    <2>10. rows'[sid[t]][Len(rows'[sid[t]])].role = "assistant"
      BY <2>8, <2>9, LastAppended DEF AnswerRow
    <2>11. ~Unanswered(sid[t])'
      BY <2>1, <2>10 DEF Unanswered
    <2>12. QED
      BY <2>1, <2>5, <2>6, <2>11 DEF TypeOK
  <1>4. QED
    BY <1>1, <1>2, <1>3 DEF Handler

\* The boot sweep answers every question that is old enough, which they all
\* are unless the service was back at once.
LEMMA BootAnswers ==
    ASSUME IInv, "quick_restart" \notin Env, Boot
    PROVE  \A s \in Session : ~Unanswered(s)'
  <1> USE DEF IInv
  <1> SUFFICES ASSUME NEW s \in Session PROVE ~Unanswered(s)'
    OBVIOUS
  <1>1. CASE ~Unanswered(s)
    <2>1. rows'[s] = rows[s]
      BY <1>1 DEF Boot
    <2>2. QED
      BY <1>1, <2>1 DEF Unanswered
  <1>2. CASE Unanswered(s)
    <2>1. PICK last : last = rows[s][Len(rows[s])]
      OBVIOUS
    <2>2. rows[s] \in Seq(Row) /\ last \in Row
      BY <1>2, <2>1 DEF Unanswered, TypeOK
    <2>3. PICK r : r = AnswerRow(last.turn, last.idx + 1, "service_restart")
      OBVIOUS
    <2>4. rows'[s] = Append(rows[s], r)
      BY <1>2, <2>1, <2>3 DEF Boot
    <2>5. last.turn \in Turn \cup {NoSession} /\ last.idx + 1 \in Nat /\ "service_restart" \in Stop
      BY <2>2 DEF Row, Stop
    <2>6. r \in Row
      BY <2>3, <2>5, RowTypes
    <2>7. rows'[s][Len(rows'[s])].role = "assistant"
      BY <2>2, <2>3, <2>4, <2>6, LastAppended DEF AnswerRow
    <2>8. QED
      BY <2>7 DEF Unanswered
  <1>3. QED
    BY <1>1, <1>2

\* The steps of the environment.
LEMMA OtherSteps ==
    ASSUME IInv, [Next]_vars, \A t \in Turn : ~Post(t) /\ ~Handler(t)
    PROVE  \/ UNCHANGED <<up, pc, sid, rows>>
           \/ ~up' /\ \A t \in Turn : pc'[t] \notin Locking
           \/ Boot /\ ~up /\ up' /\ UNCHANGED pc
  <1>1. CASE \E t \in Turn : Cancel(t) \/ TimeoutFires(t)
    BY <1>1 DEF Cancel, TimeoutFires, dbVars, requestVars
  <1>2. CASE SweepRegistry
    BY <1>2 DEF SweepRegistry, dbVars, requestVars
  <1>3. CASE Crash
    BY <1>3 DEF Crash, IInv, TypeOK, Locking, Working
  <1>4. CASE Boot \/ UNCHANGED vars
    BY <1>4 DEF Boot, vars
  <1>5. QED
    BY <1>1, <1>2, <1>3, <1>4 DEF Next

\* While the service is up a question without an answer has a handler that
\* holds its session.
OwnedInv ==
    /\ up => \A s \in Session : Unanswered(s) => \E t \in Turn : pc[t] \in Locking /\ sid[t] = s
    /\ \A t \in Turn : pc[t] = "leaked" => "prep_throws" \in Env

LEMMA OwnedStep ==
    ASSUME IInv, EndedInv, OwnedInv, "db_fails" \notin Env, "quick_restart" \notin Env, [Next]_vars
    PROVE  OwnedInv'
  <1>1. ASSUME NEW t \in Turn, Post(t) PROVE OwnedInv'
    <2>1. ASSUME up', NEW s \in Session, Unanswered(s)'
          PROVE  \E u \in Turn : pc'[u] \in Locking /\ sid'[u] = s
      <3>1. CASE rows'[s] = rows[s]
        <4>1. up /\ Unanswered(s)
          BY <1>1, <2>1, <3>1, PostQuestion DEF Unanswered
        <4>2. PICK u \in Turn : pc[u] \in Locking /\ sid[u] = s
          BY <4>1 DEF OwnedInv
        <4>3. u # t
          BY <1>1, <4>2, PostQuestion DEF Locking, Working
        <4>4. QED
          BY <1>1, <4>2, <4>3, PostQuestion
      <3>2. CASE rows'[s] # rows[s]
        BY <1>1, <2>1, <3>2, PostQuestion DEF Locking, Working
      <3>3. QED
        BY <3>1, <3>2
    <2>2. \A u \in Turn : pc'[u] = "leaked" => "prep_throws" \in Env
      BY <1>1, PostMoves DEF Unmoved, OwnedInv
    <2>3. QED
      BY <2>1, <2>2 DEF OwnedInv
  <1>2. ASSUME NEW t \in Turn, Handler(t) PROVE OwnedInv'
    <2>1. ASSUME up', NEW s \in Session, Unanswered(s)'
          PROVE  \E u \in Turn : pc'[u] \in Locking /\ sid'[u] = s
      <3>1. rows'[s] = rows[s] /\ (s = sid[t] => pc'[t] \in Locking)
        BY <1>2, <2>1, HandlerAnswers
      <3>2. up /\ Unanswered(s)
        BY <1>2, <2>1, <3>1, HandlerAnswers DEF Unanswered
      <3>3. PICK u \in Turn : pc[u] \in Locking /\ sid[u] = s
        BY <3>2 DEF OwnedInv
      <3>4. QED
        BY <1>2, <3>1, <3>3, HandlerAnswers
    <2>2. \A u \in Turn : pc'[u] = "leaked" => "prep_throws" \in Env
      BY <1>2, HandlerMoves DEF Unmoved, OwnedInv, HandlerGoes
    <2>3. QED
      BY <2>1, <2>2 DEF OwnedInv
  <1>3. CASE \A t \in Turn : ~Post(t) /\ ~Handler(t)
    <2>1. CASE UNCHANGED <<up, pc, sid, rows>>
      BY <2>1 DEF OwnedInv, Unanswered
    <2>2. CASE ~up' /\ \A t \in Turn : pc'[t] \notin Locking
      BY <2>2 DEF OwnedInv, Locking
    <2>3. CASE Boot /\ ~up /\ up' /\ UNCHANGED pc
      BY <2>3, BootAnswers DEF OwnedInv
    <2>4. QED
      BY <1>3, <2>1, <2>2, <2>3, OtherSteps
  <1>4. QED
    BY <1>1, <1>2, <1>3

\* As long as SQLite does not fail and every restart takes longer than a
\* question is young, a question without an answer has a handler that holds
\* the session's mutex: nobody waits for an answer that nobody owes.
THEOREM QuestionsAreOwned ==
    ASSUME "db_fails" \notin Env, "quick_restart" \notin Env
    PROVE  Spec => []OwnedInv
  <1>1. Init => EndedInv /\ OwnedInv
    BY EndedInit DEF Init, OwnedInv, Unanswered
  <1>2. IInv /\ EndedInv /\ OwnedInv /\ [Next]_vars => EndedInv' /\ OwnedInv'
    BY EndedStep, OwnedStep DEF Clean
  <1>3. QED
    BY <1>1, <1>2, Invariance, PTL DEF Spec

\* Turn t works on the answer to the last question of session s.
WorksFor(s, t) == pc[t] \in Working /\ sid[t] = s

LEMMA AnswersStep ==
    ASSUME IInv, EndedInv, "db_fails" \notin Env, "prep_throws" \notin Env, [Next]_vars,
           NEW s \in Session, NEW t \in Turn, WorksFor(s, t)
    PROVE  WorksFor(s, t)' \/ ~Unanswered(s)' \/ ~up'
  <1>1. CASE \E u \in Turn : Post(u)
    BY <1>1, PostQuestion DEF WorksFor, Working
  <1>2. ASSUME NEW u \in Turn, Handler(u)
        PROVE  WorksFor(s, t)' \/ ~Unanswered(s)'
    BY <1>2, HandlerAnswers DEF WorksFor, Locking
  <1>3. CASE \A u \in Turn : ~Post(u) /\ ~Handler(u)
    BY <1>3, OtherSteps DEF WorksFor, IInv, MutexInv, Locking
  <1>4. QED
    BY <1>1, <1>2, <1>3

LEMMA DownStep ==
    ASSUME IInv, EndedInv, "db_fails" \notin Env, "quick_restart" \notin Env, [Next]_vars, ~up,
           NEW s \in Session
    PROVE  ~up' \/ ~Unanswered(s)'
  <1>1. CASE \E u \in Turn : Post(u) \/ Handler(u)
    BY <1>1, PostQuestion, HandlerAnswers
  <1>2. CASE \A u \in Turn : ~Post(u) /\ ~Handler(u)
    BY <1>2, OtherSteps, BootAnswers
  <1>3. QED
    BY <1>1, <1>2

\* Every question is answered, by its handler or by the sweep of the next boot,
\* for any number of sessions, turns and crashes: under the fairness of FairSpec and
\* given that its steps can be taken where they are due.
THEOREM QuestionsGetAnswers ==
    ASSUME "db_fails" \notin Env, "prep_throws" \notin Env, "quick_restart" \notin Env
    PROVE  FairSpec /\ []NeverStuck => QuestionsAnswered
  <1> DEFINE Rests(s) == ~Unanswered(s) \/ ~up
  <1>1. FairSpec => Spec /\ Fairness
    BY DEF FairSpec
  <1>2. Fairness => WF_vars(Boot)
    BY PTL DEF Fairness
  <1>3. Fairness => \A t \in Turn : TurnFairness(t)
    BY PTL DEF Fairness
  <1>4. Spec => [](IInv /\ EndedInv /\ OwnedInv)
    <2>1. Init => EndedInv
      BY EndedInit
    <2>2. IInv /\ EndedInv /\ [Next]_vars => EndedInv'
      BY EndedStep DEF Clean
    <2>3. QED
      BY <2>1, <2>2, QuestionsAreOwned, Invariance, PTL DEF Spec
  <1>5. ASSUME NEW s \in Session, NEW t \in Turn
        PROVE  Spec /\ TurnFairness(t) /\ []NeverStuck => [](WorksFor(s, t) => <>Rests(s))
    <2>1. IInv /\ EndedInv /\ [Next]_vars /\ WorksFor(s, t) => WorksFor(s, t)' \/ Rests(s)'
      BY AnswersStep
    <2>2. WorksFor(s, t) => Live(t)
      BY DEF WorksFor, Live
    <2>3. QED
      BY <1>4, <2>1, <2>2, TurnEnds, PTL DEF Spec
  <1> HIDE DEF Rests
  <1>6. ASSUME NEW s \in Session
        PROVE  Spec /\ Fairness /\ []NeverStuck => (Unanswered(s) ~> ~Unanswered(s))
    <2>1. Spec /\ Fairness /\ []NeverStuck => \A t \in Turn : [](WorksFor(s, t) => <>Rests(s))
      BY <1>3, <1>5
    <2>2. (\A t \in Turn : [](WorksFor(s, t) => <>Rests(s)))
             => [](\A t \in Turn : WorksFor(s, t) => <>Rests(s))
      OBVIOUS
    <2>3. OwnedInv /\ up /\ Unanswered(s) /\ (\A t \in Turn : WorksFor(s, t) => <>Rests(s))
             => <>Rests(s)
      <3>1. OwnedInv /\ up /\ Unanswered(s) => \E t \in Turn : WorksFor(s, t)
        BY DEF OwnedInv, WorksFor, Locking
      <3>2. QED
        BY <3>1
    <2>4. Rests(s) <=> ~Unanswered(s) \/ ~up
      BY DEF Rests
    <2>5. IInv /\ EndedInv /\ [Next]_vars /\ ~up => ~up' \/ ~Unanswered(s)'
      BY DownStep
    <2>6. IInv /\ <<Boot>>_vars => ~Unanswered(s)'
      BY BootAnswers
    <2>7. NeverStuck => (~up => ENABLED <<Boot>>_vars)
      BY DEF NeverStuck
    <2>8. QED
      BY <1>2, <1>4, <2>1, <2>2, <2>3, <2>4, <2>5, <2>6, <2>7, PTL DEF Spec
  <1>7. QED
    BY <1>1, <1>6 DEF QuestionsAnswered
=============================================================================
