----------------------- MODULE ConversationRefinement -----------------------
(* ChatTurn implements Conversation: every step of the service is a step of  *)
(* the abstract conversation, or leaves its history and its owners alone.    *)
EXTENDS ChatTurn_proofs

abs == [s \in Session |-> Owner(s)]

\* The owner of a session is the one turn that holds its mutex.
LEMMA OwnerFacts ==
    ASSUME MutexInv, NEW s \in Session
    PROVE  /\ \A t \in Turn : holds[t] = s => Owner(s) = t
           /\ ~Locked(s) => Owner(s) = NoSession
           /\ Locked(s) => Owner(s) \in Turn /\ holds[Owner(s)] = s
  <1>1. ASSUME NEW t \in Turn, holds[t] = s
        PROVE  Owner(s) = t
    <2>1. Locked(s) /\ \A u \in Turn : holds[u] = s => u = t
      BY <1>1 DEF Locked, MutexInv
    <2>2. QED
      BY <1>1, <2>1 DEF Owner
  <1>2. Locked(s) => \E t \in Turn : holds[t] = s
    BY DEF Locked
  <1>3. QED
    BY <1>1, <1>2 DEF Owner

\* A turn takes the mutex of session s, or gives it back.
LEMMA OwnerTakes ==
    ASSUME TypeOK, MutexInv', NEW t \in Turn, NEW s \in Session,
           holds[t] = NoSession, holds' = [holds EXCEPT ![t] = s]
    PROVE  abs' = [abs EXCEPT ![s] = t]
  <1>1. holds'[t] = s /\ \A u \in Turn \ {t} : holds'[u] = holds[u]
    BY DEF TypeOK
  <1>2. Owner(s)' = t
    <2>1. \A u \in Turn : holds'[u] = s <=> u = t
      BY <1>1 DEF MutexInv
    <2>2. QED
      BY <2>1 DEF Owner, Locked
  <1>3. ASSUME NEW x \in Session, x # s
        PROVE  Owner(x)' = Owner(x)
    <2>1. \A u \in Turn : holds'[u] = x <=> holds[u] = x
      BY <1>1, <1>3, ChatTurnAssumption
    <2>2. QED
      BY <2>1 DEF Owner, Locked
  <1>4. QED
    BY <1>2, <1>3 DEF abs

LEMMA OwnerGives ==
    ASSUME TypeOK, MutexInv, NEW t \in Turn, NEW s \in Session, holds[t] = s,
           holds' = [holds EXCEPT ![t] = NoSession]
    PROVE  abs' = [abs EXCEPT ![s] = NoSession]
  <1>1. holds'[t] = NoSession /\ \A u \in Turn \ {t} : holds'[u] = holds[u]
    BY DEF TypeOK
  <1>2. Owner(s)' = NoSession
    <2>1. \A u \in Turn : holds'[u] # s
      BY <1>1, ChatTurnAssumption DEF MutexInv
    <2>2. QED
      BY <2>1 DEF Owner, Locked
  <1>3. ASSUME NEW x \in Session, x # s
        PROVE  Owner(x)' = Owner(x)
    <2>1. \A u \in Turn : holds'[u] = x <=> holds[u] = x
      BY <1>1, <1>3, ChatTurnAssumption
    <2>2. QED
      BY <2>1 DEF Owner, Locked
  <1>4. QED
    BY <1>2, <1>3 DEF abs

\* Nothing that Conversation sees changes.
LEMMA Stutter ==
    ASSUME UNCHANGED <<rows, holds>>
    PROVE  UNCHANGED Conv!convVars
  BY DEF Conv!convVars, Owner, Locked
-----------------------------------------------------------------------------
(* The question of a turn is stored once, when the turn starts. *)

\* The question of a turn that is not posted yet is nowhere.
AskedInv == \A t \in Turn : pc[t] = "idle" => ~Conv!Asked(t)

\* The next rows hold the questions of the rows, and that of turn t.
LEMMA AskedFrame ==
    ASSUME AskedInv, NEW t \in Turn,
           \A s \in Session : \A i \in DOMAIN rows'[s] :
               rows'[s][i].role = "user" =>
                   \/ i \in DOMAIN rows[s] /\ rows'[s][i] = rows[s][i]
                   \/ rows'[s][i].turn \in {t},
           \A u \in Turn : pc'[u] = "idle" => pc[u] = "idle" /\ u \notin {t}
    PROVE  AskedInv'
  BY DEF AskedInv, Conv!Asked

\* The next rows hold no new question.
LEMMA AskedQuiet ==
    ASSUME AskedInv,
           \A s \in Session : \A i \in DOMAIN rows'[s] :
               rows'[s][i].role = "user" => i \in DOMAIN rows[s] /\ rows'[s][i] = rows[s][i],
           \A u \in Turn : pc'[u] = "idle" => pc[u] = "idle"
    PROVE  AskedInv'
  BY DEF AskedInv, Conv!Asked

LEMMA AnswerAsks ==
    ASSUME TypeOK, MutexInv, NEW t \in Turn, pc[t] \in Working, NEW stop \in Stop,
           Answer(t, stop)
    PROVE  \A s \in Session : \A i \in DOMAIN rows'[s] :
               rows'[s][i].role = "user" => i \in DOMAIN rows[s] /\ rows'[s][i] = rows[s][i]
  <1> DEFINE r == AnswerRow(t, userIdx[t] + 1, stop)
  <1>1. CASE stop = "none"
    BY <1>1 DEF Answer
  <1>2. CASE stop # "none"
    <2>1. sid[t] \in Session /\ rows[sid[t]] \in Seq(Row) /\ r \in Row
      BY RowTypes DEF TypeOK, MutexInv, Locking
    <2>2. rows' = [rows EXCEPT ![sid[t]] = Append(rows[sid[t]], r)]
      BY <1>2 DEF Answer
    <2>3. r.role = "assistant"
      BY DEF AnswerRow
    <2> HIDE DEF r
    <2>4. ASSUME NEW i \in DOMAIN Append(rows[sid[t]], r),
                 Append(rows[sid[t]], r)[i].role = "user"
          PROVE  i \in DOMAIN rows[sid[t]] /\ Append(rows[sid[t]], r)[i] = rows[sid[t]][i]
      BY <2>1, <2>3, <2>4
    <2>5. QED
      BY <2>1, <2>2, <2>4 DEF TypeOK
  <1>3. QED
    BY <1>1, <1>2

\* The boot sweep appends assistant's rows only.
LEMMA BootAsks ==
    ASSUME TypeOK, Boot
    PROVE  \A s \in Session : \A i \in DOMAIN rows'[s] :
               rows'[s][i].role = "user" => i \in DOMAIN rows[s] /\ rows'[s][i] = rows[s][i]
  <1>1. ASSUME NEW s \in Session, NEW r, r.role = "assistant",
               rows'[s] = Append(rows[s], r),
               NEW i \in DOMAIN rows'[s], rows'[s][i].role = "user"
        PROVE  i \in DOMAIN rows[s] /\ rows'[s][i] = rows[s][i]
    <2>1. rows[s] \in Seq(Row)
      BY DEF TypeOK
    <2>2. QED
      BY <1>1, <2>1
  <1>2. ASSUME NEW s \in Session
        PROVE  \/ rows'[s] = rows[s]
               \/ \E r : r.role = "assistant" /\ rows'[s] = Append(rows[s], r)
    BY DEF Boot, AnswerRow
  <1>3. QED
    BY <1>1, <1>2

LEMMA PostAsks ==
    ASSUME TypeOK, FreshInv, NEW t \in Turn, Post(t)
    PROVE  /\ \A s \in Session : \A i \in DOMAIN rows'[s] :
                 rows'[s][i].role = "user" =>
                     \/ i \in DOMAIN rows[s] /\ rows'[s][i] = rows[s][i]
                     \/ rows'[s][i].turn \in {t}
           /\ \A u \in Turn : pc'[u] = "idle" => pc[u] = "idle" /\ u \notin {t}
  <1>1. ASSUME NEW s \in Session, NEW e, NEW rs \in [Session -> Seq(Row)],
               pc[t] = "idle", Admit(t, s, e, rs),
               \A x \in Session : rs[x] = rows[x] \/ rs[x] = <<PreambleRow>>
        PROVE  /\ \A x \in Session : \A i \in DOMAIN rows'[x] :
                     rows'[x][i].role = "user" =>
                         \/ i \in DOMAIN rows[x] /\ rows'[x][i] = rows[x][i]
                         \/ rows'[x][i].turn \in {t}
               /\ \A u \in Turn : pc'[u] = "idle" => pc[u] = "idle" /\ u \notin {t}
    <2>1. \A u \in Turn : pc'[u] = "idle" => pc[u] = "idle" /\ u \notin {t}
      BY <1>1 DEF Admit, Registered, Overflowed, TypeOK
    <2>2. \A x \in Session : \A i \in DOMAIN rs[x] :
              rs[x][i].role = "user" => i \in DOMAIN rows[x] /\ rs[x][i] = rows[x][i]
      BY <1>1 DEF PreambleRow
    <2>3. CASE Overflowed(t, e, rs)
      BY <2>1, <2>2, <2>3 DEF Overflowed
    <2>4. CASE Registered(t, s, e, rs)
      <3> DEFINE r == UserRow(t, Len(rs[s]))
      <3>1. r \in Row /\ r.turn = t
        BY <1>1, RowTypes DEF UserRow
      <3>2. rows' = [rs EXCEPT ![s] = Append(rs[s], r)]
        BY <2>4 DEF Registered
      <3> HIDE DEF r
      <3>3. \A i \in DOMAIN Append(rs[s], r) :
                \/ i \in DOMAIN rs[s] /\ Append(rs[s], r)[i] = rs[s][i]
                \/ Append(rs[s], r)[i] = r
        BY <1>1, <3>1
      <3>4. QED
        BY <1>1, <2>1, <2>2, <3>1, <3>2, <3>3
    <2>5. QED
      BY <1>1, <2>3, <2>4 DEF Admit
  <1>2. rows \in [Session -> Seq(Row)]
    BY DEF TypeOK
  <1>3. ASSUME NEW s \in Session, NEW c \in Session, PostCompacting(t, s, c)
        PROVE  /\ [rows EXCEPT ![c] = <<PreambleRow>>] \in [Session -> Seq(Row)]
               /\ \A x \in Session : \/ [rows EXCEPT ![c] = <<PreambleRow>>][x] = rows[x]
                                      \/ [rows EXCEPT ![c] = <<PreambleRow>>][x] = <<PreambleRow>>
    BY <1>2, RowTypes
  <1>4. QED
    BY <1>1, <1>2, <1>3 DEF Post, PostNew, PostExisting, PostCompacting, MayPost

LEMMA AskedStep ==
    ASSUME IInv, AskedInv, [Next]_vars
    PROVE  AskedInv'
  <1> USE DEF IInv
  <1>1. ASSUME rows' = rows, \A t \in Turn : pc'[t] = "idle" => pc[t] = "idle"
        PROVE  AskedInv'
    BY <1>1, AskedQuiet
  <1>2. ASSUME NEW t \in Turn, Handler(t)
        PROVE  AskedInv'
    <2>1. \A u \in Turn : pc'[u] = "idle" => pc[u] = "idle"
      <3>1. pc' = pc \/ \E p \in Phase \ {"idle"} : pc' = [pc EXCEPT ![t] = p]
        <4>1. CASE RunnerResult(t)
          BY <4>1 DEF RunnerResult
        <4>2. CASE RunnerEnds(t) \/ RunnerThrows(t) \/ SalvageEnds(t)
          BY <4>2 DEF RunnerEnds, RunnerThrows, SalvageEnds, Finalised, Closed, Phase
        <4>3. CASE CacheHit(t)
          BY <4>3 DEF CacheHit, Closed, Phase
        <4>4. CASE Prepared(t) \/ PrepThrows(t) \/ CacheMiss(t) \/ SalvageStarts(t)
          BY <4>4 DEF Prepared, PrepThrows, CacheMiss, SalvageStarts, Phase, Working
        <4>5. QED
          BY <1>2, <4>1, <4>2, <4>3, <4>4 DEF Handler
      <3>2. pc \in [Turn -> Phase]
        BY DEF TypeOK
      <3>3. QED
        BY <3>1, <3>2
    <2>2. CASE rows' = rows
      BY <1>1, <2>1, <2>2
    <2>3. ASSUME NEW stop \in Stop, Answer(t, stop), pc[t] \in Working
          PROVE  AskedInv'
      BY <2>1, <2>3, AnswerAsks, AskedQuiet
    <2>4. QED
      BY <1>2, <2>2, <2>3, OutcomeTypes DEF Handler, Prepared, PrepThrows, CacheHit, CacheMiss,
         RunnerResult, RunnerEnds, RunnerThrows, SalvageStarts, SalvageEnds, Finalised,
         Working, Stop, dbVars
  <1>3. CASE \E t \in Turn : Post(t)
    BY <1>3, PostAsks, AskedFrame
  <1>4. CASE Boot
    <2>1. \A t \in Turn : pc'[t] = "idle" => pc[t] = "idle"
      BY <1>4 DEF Boot
    <2>2. QED
      BY <1>4, <2>1, BootAsks, AskedQuiet
  <1>5. CASE \/ \E t \in Turn : Cancel(t) \/ TimeoutFires(t)
             \/ SweepRegistry \/ Crash \/ UNCHANGED vars
    BY <1>1, <1>5 DEF Cancel, TimeoutFires, SweepRegistry, Crash, vars, dbVars, TypeOK
  <1>6. QED
    BY <1>2, <1>3, <1>4, <1>5 DEF Next
-----------------------------------------------------------------------------
(* The steps. *)

\* The instance's rows are those of ChatTurn.
LEMMA SameRows ==
    /\ Conv!Summary = PreambleRow
    /\ \A t, i : Conv!Question(t, i) = UserRow(t, i)
    /\ \A t, i, r : Conv!Reply(t, i, r) = AnswerRow(t, i, r)
    /\ \A s : Conv!Asks(rows[s]) <=> Unanswered(s)
  BY DEF Conv!Summary, Conv!Question, Conv!Reply, Conv!Asks, Unanswered, PreambleRow, UserRow,
         AnswerRow

\* A post asks, or only summarises a compacted session and is rejected, or is
\* rejected right away.
LEMMA PostRefines ==
    ASSUME IInv, IInv', AskedInv, NEW t \in Turn, Post(t)
    PROVE  Conv!Next \/ UNCHANGED Conv!convVars
  <1> USE DEF IInv
  <1>1. ASSUME NEW s \in Session, NEW e, NEW rs \in [Session -> Seq(Row)],
               pc[t] = "idle", Registered(t, s, e, rs), ~Locked(s),
               \/ rs = rows
               \/ rows[s] = <<>> /\ rs = [rows EXCEPT ![s] = <<PreambleRow>>]
        PROVE  Conv!Ask(s, t)
    <2>1. abs' = [abs EXCEPT ![s] = t]
      BY <1>1, OwnerTakes DEF Registered, MutexInv, Locking, Working
    <2>2. abs[s] = NoSession
      BY <1>1, OwnerFacts DEF abs
    <2>3. ~Conv!Asked(t)
      BY <1>1 DEF AskedInv
    <2>4. rows' = [rows EXCEPT ![s] = Append(rs[s], Conv!Question(t, Len(rs[s])))]
      BY <1>1, SameRows DEF Registered, TypeOK
    <2>5. rs[s] \in {rows[s]} \cup (IF rows[s] = <<>> THEN {<<Conv!Summary>>} ELSE {})
      BY <1>1, SameRows DEF TypeOK
    <2>6. QED
      BY <2>1, <2>2, <2>3, <2>4, <2>5 DEF Conv!Ask, abs
  <1>2. ASSUME NEW s \in Session, PostNew(t, s) \/ PostExisting(t, s)
        PROVE  Conv!Next \/ UNCHANGED Conv!convVars
    <2>1. pc[t] = "idle" /\ Admit(t, s, entry, rows)
      BY <1>2 DEF PostNew, PostExisting, MayPost
    <2>2. CASE Registered(t, s, entry, rows)
      <3>1. Conv!Ask(s, t)
        BY <1>1, <2>1, <2>2 DEF Admit, TypeOK
      <3>2. QED
        BY <3>1 DEF Conv!Next
    <2>3. CASE Overflowed(t, entry, rows)
      BY <2>3, Stutter DEF Overflowed
    <2>4. QED
      BY <2>1, <2>2, <2>3 DEF Admit
  <1>3. ASSUME NEW s \in Session, NEW c \in Session, PostCompacting(t, s, c)
        PROVE  Conv!Next \/ UNCHANGED Conv!convVars
    <2> DEFINE rs == [rows EXCEPT ![c] = <<PreambleRow>>]
    <2>1. pc[t] = "idle" /\ Admit(t, c, Rekeyed(s, c), rs) /\ rows[c] = <<>>
      BY <1>3 DEF PostCompacting, MayPost, FreshInv
    <2>2. rs \in [Session -> Seq(Row)]
      BY RowTypes DEF TypeOK
    <2>3. CASE Registered(t, c, Rekeyed(s, c), rs)
      <3>1. Conv!Ask(c, t)
        BY <1>1, <2>1, <2>2, <2>3 DEF Admit
      <3>2. QED
        BY <3>1 DEF Conv!Next
    <2>4. CASE Overflowed(t, Rekeyed(s, c), rs)
      <3>1. rows' = rs /\ UNCHANGED holds
        BY <2>4 DEF Overflowed
      <3>2. UNCHANGED abs
        BY <3>1 DEF abs, Owner, Locked
      <3>3. Conv!Summarise(c)
        BY <2>1, <3>1, <3>2, SameRows DEF Conv!Summarise, abs
      <3>4. QED
        BY <3>3 DEF Conv!Next
    <2>5. QED
      BY <2>1, <2>3, <2>4 DEF Admit
  <1>4. QED
    BY <1>2, <1>3 DEF Post

\* The answer of a handler is that of the owner to its own question.
LEMMA AnswerRefines ==
    ASSUME IInv, NEW t \in Turn, pc[t] \in Working, ~HasRow(t) \/ pc[t] = "lookup",
           NEW stop \in Stop \ {"none", "service_restart"}, Answer(t, stop),
           \/ UNCHANGED abs
           \/ abs' = [abs EXCEPT ![sid[t]] = NoSession]
    PROVE  Conv!Next
  <1> USE DEF IInv
  <1> DEFINE s == sid[t]
             q == rows[s]
             n == userIdx[t] + 1
  <1>1. s \in Session /\ holds[t] = s /\ q \in Seq(Row) /\ n \in Nat \ {0}
    BY DEF MutexInv, Locking, TypeOK
  <1>2. Len(q) = n /\ q[n].role = "user" /\ q[n].turn = t
    BY DEF PendingInv, Pending, Working
  <1>3. q[n].idx + 1 = n
    <2>1. InOrder(q)
      BY <1>1 DEF RowsInOrder
    <2> HIDE DEF n, q
    <2>2. n \in DOMAIN q
      BY <1>1, <1>2
    <2>3. q[n].idx = n - 1
      BY <2>1, <2>2 DEF InOrder
    <2>4. QED
      BY <1>1, <2>3
  <1>4. Conv!Asks(q) /\ abs[s] = q[Len(q)].turn
    BY <1>1, <1>2, OwnerFacts DEF Conv!Asks, abs
  <1>5. Conv!Answered(q, stop) = Append(q, AnswerRow(t, n, stop))
    BY <1>2, <1>3, SameRows DEF Conv!Answered
  <1>6. rows' = [rows EXCEPT ![s] = Conv!Answered(q, stop)]
    BY <1>5 DEF Answer
  <1>7. Conv!Answers(s, stop)
    BY <1>4, <1>6 DEF Conv!Answers, abs
  <1>8. QED
    BY <1>1, <1>7 DEF Conv!Next

LEMMA OutcomeEndings ==
    ASSUME TypeOK, NEW t \in Turn, NEW threw \in BOOLEAN, NEW out \in Outcomes(t, threw)
    PROVE  out[2] # "service_restart"
  <1>1. AbortReason(t) # "service_restart"
    BY DEF TypeOK, AbortReason, Entry, Reason
  <1>2. CASE signal[t] # "none"
    BY <1>1, <1>2, AbortedOutcome
  <1>3. CASE signal[t] = "none"
    BY <1>3 DEF Outcomes
  <1>4. QED
    BY <1>2, <1>3

LEMMA ClosingRefines ==
    ASSUME IInv, NEW t \in Turn, pc[t] \in Working,
           NEW stop \in Stop \ {"service_restart"}, NEW st, Answer(t, stop), Closed(t, st),
           ~HasRow(t) \/ pc[t] = "lookup" \/ stop = "none"
    PROVE  Conv!Next
  <1> USE DEF IInv
  <1>1. sid[t] \in Session /\ holds[t] = sid[t]
    BY DEF MutexInv, Locking
  <1>2. abs' = [abs EXCEPT ![sid[t]] = NoSession]
    BY <1>1, OwnerGives DEF Closed
  <1>3. CASE stop = "none"
    <2>1. UNCHANGED rows
      BY <1>3 DEF Answer
    <2>2. abs[sid[t]] # NoSession
      BY <1>1, OwnerFacts, ChatTurnAssumption DEF abs
    <2>3. Conv!Leave(sid[t])
      BY <1>2, <2>1, <2>2 DEF Conv!Leave, abs
    <2>4. QED
      BY <1>1, <2>3 DEF Conv!Next
  <1>4. CASE stop # "none"
    BY <1>2, <1>4, AnswerRefines
  <1>5. QED
    BY <1>3, <1>4

LEMMA HandlerRefines ==
    ASSUME IInv, NEW t \in Turn, Handler(t)
    PROVE  Conv!Next \/ UNCHANGED Conv!convVars
  <1> USE DEF IInv
  <1>1. CASE Prepared(t) \/ PrepThrows(t) \/ RunnerResult(t) \/ SalvageStarts(t)
    BY <1>1, Stutter DEF Prepared, PrepThrows, RunnerResult, SalvageStarts, dbVars
  <1>2. CASE CacheHit(t)
    BY <1>2, ClosingRefines DEF CacheHit, Stop, Working
  <1>3. CASE CacheMiss(t)
    <2>1. PICK stop \in {"none", "end_turn"} : Answer(t, stop)
      BY <1>3 DEF CacheMiss
    <2>2. CASE stop = "none"
      BY <1>3, <2>1, <2>2, Stutter DEF CacheMiss, Answer
    <2>3. CASE stop = "end_turn"
      <3>1. UNCHANGED abs
        BY <1>3 DEF CacheMiss, abs, Owner, Locked
      <3>2. QED
        BY <1>3, <2>1, <2>3, <3>1, AnswerRefines DEF CacheMiss, Stop, Working
    <2>4. QED
      BY <2>2, <2>3
  <1>4. ASSUME NEW threw \in BOOLEAN, pc[t] \in Working, Finalised(t, threw)
        PROVE  Conv!Next
    <2>1. PICK out \in Outcomes(t, threw) : Answer(t, out[2]) /\ Closed(t, out[1])
      BY <1>4 DEF Finalised
    <2>2. out[2] \in Stop \ {"service_restart"}
      BY OutcomeTypes, OutcomeEndings
    <2>3. out[2] # "none" => ~HasRow(t)
      BY AbortedOutcome DEF Outcomes
    <2>4. QED
      BY <1>4, <2>1, <2>2, <2>3, ClosingRefines
  <1>5. CASE RunnerEnds(t) \/ RunnerThrows(t) \/ SalvageEnds(t)
    BY <1>4, <1>5 DEF RunnerEnds, RunnerThrows, SalvageEnds, Working
  <1>6. QED
    BY <1>1, <1>2, <1>3, <1>5 DEF Handler

LEMMA CrashRefines ==
    ASSUME Crash
    PROVE  Conv!Next
  <1>1. \A s \in Session : \A t \in Turn : holds'[t] # s
    BY ChatTurnAssumption DEF Crash
  <1>2. abs' = [s \in Session |-> NoSession]
    BY <1>1 DEF abs, Owner, Locked
  <1>3. Conv!Halt
    BY <1>2 DEF Crash, dbVars, Conv!Halt, abs
  <1>4. QED
    BY <1>3 DEF Conv!Next

LEMMA BootRefines ==
    ASSUME IInv, Boot
    PROVE  Conv!Next
  <1>1. PICK X \in SUBSET {s \in Session : Unanswered(s)} :
          rows' = [s \in Session |->
                      IF s \in X
                      THEN Append(rows[s], AnswerRow(rows[s][Len(rows[s])].turn,
                                                     rows[s][Len(rows[s])].idx + 1,
                                                     "service_restart"))
                      ELSE rows[s]]
    BY DEF Boot
  <1>2. X \in SUBSET Session /\ \A s \in X : Conv!Asks(rows[s])
    BY SameRows
  <1>3. rows' = [s \in Session |-> IF s \in X THEN Conv!Answered(rows[s], "service_restart")
                                   ELSE rows[s]]
    BY <1>1, SameRows DEF Conv!Answered
  <1>4. \A s \in Session : \A t \in Turn : holds[t] # s
    BY ChatTurnAssumption DEF IInv, MutexInv, Boot
  <1>5. \A s \in Session : abs[s] = NoSession
    BY <1>4 DEF abs, Owner, Locked
  <1>6. UNCHANGED abs
    BY DEF Boot, abs, Owner, Locked
  <1>7. Conv!Restart(X)
    BY <1>2, <1>3, <1>5, <1>6 DEF Conv!Restart, abs
  <1>8. QED
    BY <1>2, <1>7 DEF Conv!Next

LEMMA StepRefines ==
    ASSUME IInv, IInv', AskedInv, [Next]_vars
    PROVE  [Conv!Next]_Conv!convVars
  <1>1. CASE \/ \E t \in Turn : Cancel(t) \/ TimeoutFires(t)
             \/ SweepRegistry \/ UNCHANGED vars
    BY <1>1, Stutter DEF Cancel, TimeoutFires, SweepRegistry, vars, dbVars
  <1>2. QED
    BY <1>1, PostRefines, HandlerRefines, CrashRefines, BootRefines DEF Next

LEMMA InitRefines == Init => Conv!Init /\ AskedInv
  <1> SUFFICES ASSUME Init PROVE Conv!Init /\ AskedInv
    OBVIOUS
  <1>1. \A s \in Session : Owner(s) = NoSession
    BY ChatTurnAssumption DEF Init, Owner, Locked
  <1>2. QED
    BY <1>1 DEF Init, Conv!Init, AskedInv, Conv!Asked

\* The stored conversations behave as Conversation says, for any number of
\* sessions, turns and crashes and whatever faults the environment has.
THEOREM Implementation == Spec => ImplementsConversation
  <1>1. IInv /\ AskedInv /\ [Next]_vars => (IInv /\ AskedInv)'
    BY IInvStep, AskedStep
  <1>2. IInv /\ IInv' /\ AskedInv /\ [Next]_vars => [Conv!Next]_Conv!convVars
    BY StepRefines
  <1>3. QED
    BY <1>1, <1>2, IInvInit, InitRefines, PTL DEF Spec, ImplementsConversation, Conv!Spec
=============================================================================
