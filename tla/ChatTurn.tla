------------------------------ MODULE ChatTurn ------------------------------
(***************************************************************************)
(* The life of a chat turn in the chat service: POST /agent/turn and its   *)
(* cancel endpoint (api/turn.ts), the per-session mutex                    *)
(* (core/session-manager.ts), the registry of running streams              *)
(* (core/stream-registry.ts), auto-compaction of a session that outgrew    *)
(* its token budget, and the boot sweep that closes the turns a dead       *)
(* process left behind.                                                    *)
(*                                                                         *)
(* The service is one Node process, so an action is the code between two   *)
(* awaits that wait for I/O.  The awaits of the handler before the prompt  *)
(* is composed (compaction, mutex) resolve in the same macrotask: a Post   *)
(* action runs from validation to the insertion of the user's row.         *)
(***************************************************************************)
EXTENDS Integers, Sequences, FiniteSets

CONSTANTS Session,     \* the session ids uuidv4() can return
          Turn,        \* the turns (each is one POST /agent/turn)
          NoSession,   \* no session
          MaxTurns,    \* STREAM_REGISTRY_MAX_TURNS
          MaxCrashes,  \* bound: how often the process dies
          Env          \* which of EnvKinds the environment does

EnvKinds == {"cache",          \* the response cache is enabled
             "stale_id",       \* a client posts with a compacted session's id
             "compact_fails",  \* compactSession throws before its first write
             "db_fails",       \* a SQLite write at the end of a turn throws
             "prep_throws",    \* an exception between register() and try
             "runner_stuck",   \* the runner does not react to the abort signal
             "quick_restart"}  \* the process is back within MIN_ORPHAN_AGE_MS

ASSUME ChatTurnAssumption ==
    /\ NoSession \notin Session \cup Turn
    /\ IsFiniteSet(Session)
    /\ MaxTurns \in Nat /\ MaxCrashes \in Nat
    /\ Env \subseteq EnvKinds

VARIABLES
    up,        \* the process accepts requests
    crashes,   \* how often it died
    \* SQLite
    status,    \* chat_sessions.status, "none" before the row is inserted
    over,      \* the sessions whose token total exceeds 80% of the budget
    rows,      \* chat_turns of a session, by turn_index
    \* memory of the process
    entry,     \* the registry's entries
    alias,     \* the registry's forward alias chain
    holds,     \* the session whose mutex the handler's release() frees
    timer,     \* the turn's timeoutHandle
    \* locals of the turn's handler
    pc,        \* how far it is
    posted,    \* body.session_id (or the session created for the turn)
    sid,       \* sessionId, after compaction and creation
    userIdx,   \* userTurnIndex
    signal,    \* controller.signal: "none", or the reason of the first abort
    got        \* what of the result the handler has: see Got

dbVars      == <<status, over, rows>>
requestVars == <<posted, sid, userIdx>>
vars == <<up, crashes, status, over, rows, entry, alias, holds, timer,
          pc, posted, sid, userIdx, signal, got>>

\* "text": assistantText is not empty; "stop": the recorder has buffered an
\* onTurnFinalized with the SDK's stop_reason (it is remembered of an aborted
\* turn whose row bears that, when all else its handler knew is gone).
Got == {"text", "stop"}

Reason  == {"user_cancel", "timeout"}
\* "clean" stands for what is neither an abort nor a marker: what the SDK gives,
\* which may be no reason at all, or the reason of an error.
Stop    == Reason \cup {"none", "clean", "end_turn", "server_error", "service_restart"}
Row     == [role : {"user", "assistant", "preamble"}, turn : Turn \cup {NoSession},
            idx : Nat, stop : Stop]
Entry   == [status : {"none", "running", "done", "error"},
            sid : Session \cup {NoSession}, reason : Reason \cup {"none"}]
NoEntry == [status |-> "none", sid |-> NoSession, reason |-> "none"]

Working == {"prep", "lookup", "stream", "salvage"}  \* the handler is alive
Phase   == Working \cup {"idle", "rejected", "over", "leaked", "dead"}

Init ==
    /\ up = TRUE /\ crashes = 0
    /\ status = [s \in Session |-> "none"]
    /\ over = {}
    /\ rows = [s \in Session |-> <<>>]
    /\ entry = [t \in Turn |-> NoEntry]
    /\ alias = [s \in Session |-> NoSession]
    /\ holds = [t \in Turn |-> NoSession]
    /\ timer = [t \in Turn |-> "off"]
    /\ pc = [t \in Turn |-> "idle"]
    /\ posted = [t \in Turn |-> NoSession]
    /\ sid = [t \in Turn |-> NoSession]
    /\ userIdx = [t \in Turn |-> 0]
    /\ signal = [t \in Turn |-> "none"]
    /\ got = [t \in Turn |-> {}]
-----------------------------------------------------------------------------
(* The registry. *)

Running == {t \in Turn : entry[t].status = "running"}

\* The end of the alias chain that starts at session s.
Resolve(s) ==
    LET walk[n \in 0 .. Cardinality(Session)] ==
            IF n = 0 THEN s
            ELSE IF walk[n - 1] \in Session /\ alias[walk[n - 1]] # NoSession
                 THEN alias[walk[n - 1]]
                 ELSE walk[n - 1]
    IN  walk[Cardinality(Session)]

\* The running entries findRunning(s) may return.
FindRunning(s) == {t \in Running : entry[t].sid = Resolve(s)}

\* aliasSession(old, new): the entries keyed by old move to new.
Rekeyed(old, new) ==
    [t \in Turn |-> IF entry[t].sid = old THEN [entry[t] EXCEPT !.sid = new]
                    ELSE entry[t]]

\* As it was once: every alias that touches a swept entry's session is deleted.
BugPruned(e) ==
    LET gone == {entry[t].sid : t \in {u \in Turn : e[u] # entry[u]}}
    IN  [s \in Session |-> IF s \in gone \/ alias[s] \in gone THEN NoSession ELSE alias[s]]

\* pruneOrphanAliases, against the entries e that survive a sweep.
Pruned(e) ==
    [s \in Session |-> IF Resolve(s) \in {e[t].sid : t \in Turn}
                       THEN alias[s] ELSE NoSession]

\* registry.abort(t, r): the last reason wins on the entry, the first on the
\* controller's signal; nothing happens unless the entry is running.
Abort(t, r) ==
    IF t \in Running
    THEN /\ entry' = [entry EXCEPT ![t].reason = r]
         /\ signal' = [signal EXCEPT ![t] = IF @ = "none" THEN r ELSE @]
    ELSE UNCHANGED <<entry, signal>>

\* registry.get(turnId)?.abortReason ?? 'server_error'
AbortReason(t) == IF entry[t].reason = "none" THEN "server_error" ELSE entry[t].reason
-----------------------------------------------------------------------------
(* POST /agent/turn up to its first await for I/O. *)

\* The lock of every request is free.
BugLocked(s) == FALSE

Locked(s) == \E t \in Turn : holds[t] = s

\* The index of the row before.
BugUserRow(t, i) == [role |-> "user", turn |-> t, idx |-> i - 1, stop |-> "none"]

UserRow(t, i) == [role |-> "user", turn |-> t, idx |-> i, stop |-> "none"]
AnswerRow(t, i, r) == [role |-> "assistant", turn |-> t, idx |-> i, stop |-> r]
PreambleRow == [role |-> "preamble", turn |-> NoSession, idx |-> 0, stop |-> "none"]

\* register() succeeds: the turn runs on session s; e and rs are the entries
\* and the turn rows compaction leaves.
Registered(t, s, e, rs) ==
    /\ Cardinality(Running) < MaxTurns
    /\ entry' = [e EXCEPT ![t] = [status |-> "running", sid |-> s, reason |-> "none"]]
    /\ rows' = [rs EXCEPT ![s] = Append(@, UserRow(t, Len(@)))]
    /\ holds' = [holds EXCEPT ![t] = s]
    /\ sid' = [sid EXCEPT ![t] = s]
    /\ userIdx' = [userIdx EXCEPT ![t] = Len(rs[s])]
    /\ pc' = [pc EXCEPT ![t] = "prep"]

\* RegistryOverflowError: the mutex is released, what compaction or session
\* creation wrote stays.
Overflowed(t, e, rs) ==
    /\ Cardinality(Running) >= MaxTurns
    /\ entry' = e /\ rows' = rs
    /\ pc' = [pc EXCEPT ![t] = "rejected"]
    /\ UNCHANGED <<holds, sid, userIdx>>

Admit(t, s, e, rs) ==
    /\ ~Locked(s)                              \* else 409 turn_in_progress
    /\ Registered(t, s, e, rs) \/ Overflowed(t, e, rs)
    /\ UNCHANGED <<up, crashes, over, timer, signal, got>>

\* A message without session_id: the handler creates the session.
PostNew(t, s) ==
    /\ up /\ pc[t] = "idle" /\ status[s] = "none"
    /\ status' = [status EXCEPT ![s] = "active"]
    /\ posted' = [posted EXCEPT ![t] = s]
    /\ UNCHANGED alias
    /\ Admit(t, s, entry, rows)

MayPost(t, s) ==
    /\ up /\ pc[t] = "idle"
    /\ \/ status[s] = "active"
       \/ status[s] = "compacted" /\ "stale_id" \in Env
    /\ posted' = [posted EXCEPT ![t] = s]

\* The session is within its budget, or its compaction failed.
PostExisting(t, s) ==
    /\ MayPost(t, s)
    /\ s \in over => "compact_fails" \in Env
    /\ UNCHANGED <<status, alias>>
    /\ Admit(t, s, entry, rows)

\* The session is over its budget: the turn runs on a child c of it.
PostCompacting(t, s, c) ==
    /\ MayPost(t, s)
    /\ s \in over
    /\ status[c] = "none"
    /\ status' = [status EXCEPT ![c] = "active", ![s] = "compacted"]
    /\ alias' = [alias EXCEPT ![s] = c]
    /\ Admit(t, c, Rekeyed(s, c), [rows EXCEPT ![c] = <<PreambleRow>>])
-----------------------------------------------------------------------------
(* The handler, from the composition of the prompt to the end of the stream. *)

\* The timeout is never armed.
BugPrepared(t) ==
    /\ pc[t] = "prep"
    /\ pc' = [pc EXCEPT ![t] = IF "cache" \in Env THEN "lookup" ELSE "stream"]
    /\ UNCHANGED <<up, crashes, dbVars, entry, alias, holds, timer, requestVars, signal, got>>

\* The prompt is composed and the timeout armed.
Prepared(t) ==
    /\ pc[t] = "prep"
    /\ timer' = [timer EXCEPT ![t] = "armed"]
    /\ pc' = [pc EXCEPT ![t] = IF "cache" \in Env THEN "lookup" ELSE "stream"]
    /\ UNCHANGED <<up, crashes, dbVars, entry, alias, holds, requestVars, signal, got>>

\* An exception before the handler's try: no finally runs.
PrepThrows(t) ==
    /\ "prep_throws" \in Env
    /\ pc[t] = "prep"
    /\ pc' = [pc EXCEPT ![t] = "leaked"]
    /\ UNCHANGED <<up, crashes, dbVars, entry, alias, holds, timer, requestVars, signal, got>>

\* chat_turns.id is the turn's id, and it is the primary key.
HasRow(t) == \E s \in Session : \E i \in DOMAIN rows[s] :
                 /\ rows[s][i].role = "assistant" /\ rows[s][i].turn = t
                 /\ rows[s][i].stop # "service_restart"

\* The answer takes the index of the question.
BugAnswer(t, stop) ==
    rows' = IF stop = "none" THEN rows
            ELSE [rows EXCEPT ![sid[t]] = Append(@, AnswerRow(t, userIdx[t], stop))]

\* appendTurn of the assistant's row; "none" stands for no row.
Answer(t, stop) ==
    rows' = IF stop = "none" THEN rows
            ELSE [rows EXCEPT ![sid[t]] = Append(@, AnswerRow(t, userIdx[t] + 1, stop))]

\* registry.finish is forgotten.
BugClosed(t, st) ==
    /\ UNCHANGED entry
    /\ holds' = [holds EXCEPT ![t] = NoSession]
    /\ pc' = [pc EXCEPT ![t] = "over"]

\* registry.finish, release and the end of the stream.
Closed(t, st) ==
    /\ entry' = [entry EXCEPT ![t].status = IF @ = "none" THEN "none" ELSE st]
    /\ holds' = [holds EXCEPT ![t] = NoSession]
    /\ pc' = [pc EXCEPT ![t] = "over"]

\* The answer comes from the response cache.  The abort signal is not looked
\* at and the timeout stays armed.
CacheHit(t) ==
    /\ pc[t] = "lookup"
    /\ Answer(t, "end_turn")
    /\ Closed(t, "done")
    /\ UNCHANGED <<up, crashes, status, over, alias, timer, requestVars, signal, got>>

\* A miss, or an exception in the lookup or the replay (in which case the
\* answer may be there already): the live model answers.
CacheMiss(t) ==
    /\ pc[t] = "lookup"
    /\ \E stop \in {"none"} \cup (IF "db_fails" \in Env THEN {"end_turn"} ELSE {}) :
           Answer(t, stop)
    /\ pc' = [pc EXCEPT ![t] = "stream"]
    /\ UNCHANGED <<up, crashes, status, over, entry, alias, holds, timer, requestVars, signal, got>>

\* The runner yields the result message; it yields nothing after an abort.  The
\* text may be empty, the stop_reason missing and the turn without a recorder.
RunnerResult(t) ==
    /\ pc[t] = "stream" /\ got[t] = {} /\ signal[t] = "none"
    /\ \E g \in SUBSET Got \ {{}} : got' = [got EXCEPT ![t] = g]
    /\ UNCHANGED <<up, crashes, dbVars, entry, alias, holds, timer, pc, requestVars, signal>>

\* Row appended with an abort reason: flush() replays the buffered
\* onTurnFinalized, whose UPDATE overwrites it; a failing UPDATE is swallowed.
Flushed(t, reason) ==
    (IF "stop" \in got[t] THEN {"clean"} ELSE {reason})
    \cup (IF "db_fails" \in Env THEN {reason} ELSE {})

\* The row bears the controller's reason, the first one, and the client is told
\* the entry's, the last one.
BugFirstReason(t, threw) ==
    IF signal[t] # "none" THEN {"done"} \X Flushed(t, signal[t])
    ELSE IF threw THEN {<<"error", "clean">>} ELSE {<<"done", "clean">>}

\* A turn aborted by a thrown AbortError is closed without an answer.
BugUnsaved(t, threw) ==
    IF signal[t] # "none"
    THEN {"done"} \X (IF threw THEN {"none"} ELSE Flushed(t, AbortReason(t)))
    ELSE IF threw THEN {<<"error", "clean">>} ELSE {<<"done", "clean">>}

\* The finalisation of a turn: what the stream ends with and the stop_reason
\* of the row that is left, when the runner ended normally or threw.
Outcomes(t, threw) ==
    LET db(alternatives) == IF "db_fails" \in Env THEN alternatives ELSE {}
    IN  IF signal[t] # "none"
        THEN (IF HasRow(t) THEN {} ELSE {"done"} \X Flushed(t, AbortReason(t)))
             \cup (IF HasRow(t) THEN {<<"done", "none">>} ELSE db({<<"done", "none">>}))
        ELSE IF HasRow(t) THEN {<<"error", "none">>}
        ELSE IF threw THEN {<<"error", "clean">>} \cup db({<<"error", "none">>})
        ELSE {<<"done", "clean">>}
             \cup db({<<"error", "none">>, <<"error", "clean">>})

Finalised(t, threw) ==
    \E out \in Outcomes(t, threw) :
        /\ Answer(t, out[2])
        /\ Closed(t, out[1])
        /\ timer' = [timer EXCEPT ![t] = "off"]
        \* incrementTurnCount, with tokens that may exceed the budget
        /\ over' \in {over} \cup (IF out[1] = "done" THEN {over \cup {sid[t]}} ELSE {})
        /\ got' = [got EXCEPT ![t] = IF signal[t] # "none" /\ out[2] = "clean"
                                     THEN @ \ {"text"} ELSE {}]
        /\ UNCHANGED <<up, crashes, status, alias, requestVars, signal>>

\* A timed-out turn without an answer is salvaged by one more model call.
NeedsSalvage(t) ==
    /\ signal[t] # "none"
    /\ entry[t].reason = "timeout"
    /\ "text" \notin got[t]

SalvageStarts(t) ==
    /\ pc[t] = "stream" /\ NeedsSalvage(t)
    /\ pc' = [pc EXCEPT ![t] = "salvage"]
    /\ UNCHANGED <<up, crashes, dbVars, entry, alias, holds, timer, requestVars, signal, got>>

\* A turn whose entry the sweeper has taken is not finished.
BugRunnerEnds(t) ==
    /\ pc[t] = "stream" /\ ~NeedsSalvage(t) /\ t \in Running
    /\ Finalised(t, FALSE)

RunnerEnds(t) ==
    /\ pc[t] = "stream" /\ ~NeedsSalvage(t)
    /\ Finalised(t, FALSE)

RunnerThrows(t) ==
    /\ pc[t] = "stream"
    /\ Finalised(t, TRUE)

\* The salvage call never returns an empty text.
SalvageEnds(t) ==
    /\ pc[t] = "salvage"
    /\ Finalised(t, FALSE)
-----------------------------------------------------------------------------
(* Cancel, timeout, the registry's sweeper, crash and boot. *)

Cancel(t) ==
    /\ up /\ t \in Running                     \* else 410 not_running
    /\ Abort(t, "user_cancel")
    /\ UNCHANGED <<up, crashes, dbVars, alias, holds, timer, pc, requestVars, got>>

TimeoutFires(t) ==
    /\ timer[t] = "armed"
    /\ timer' = [timer EXCEPT ![t] = "fired"]
    /\ Abort(t, "timeout")
    /\ UNCHANGED <<up, crashes, dbVars, alias, holds, pc, requestVars, got>>

\* A running entry outlives maxRunningMs only if its handler threw before try
\* or its runner ignores the abort: the timeout is much shorter.
Overdue(t) ==
    /\ t \in Running
    /\ \/ pc[t] = "leaked"
       \/ "runner_stuck" \in Env /\ pc[t] = "stream" /\ timer[t] = "fired"

Expired(t) == entry[t].status \in {"done", "error"}

\* One tick of the TTL sweeper, with the entries that are old enough by now.
SweepRegistry ==
    \E X \in SUBSET {t \in Turn : Overdue(t) \/ Expired(t)} :
        /\ X # {}
        /\ entry' = [t \in Turn |-> IF t \in X THEN NoEntry ELSE entry[t]]
        /\ alias' = Pruned(entry')
        /\ UNCHANGED <<up, crashes, dbVars, holds, timer, pc, requestVars, signal, got>>

Crash ==
    /\ up /\ crashes < MaxCrashes
    /\ up' = FALSE
    /\ crashes' = crashes + 1
    /\ entry' = [t \in Turn |-> NoEntry]
    /\ alias' = [s \in Session |-> NoSession]
    /\ holds' = [t \in Turn |-> NoSession]
    /\ timer' = [t \in Turn |-> "off"]
    /\ pc' = [t \in Turn |-> IF pc[t] \in Working \cup {"leaked"} THEN "dead" ELSE pc[t]]
    /\ got' = [t \in Turn |-> IF pc[t] = "over" THEN got[t] ELSE {}]
    /\ UNCHANGED <<dbVars, requestVars, signal>>

\* The sweep does not look at the role of the latest row.
BugUnanswered(s) == rows[s] # <<>>

\* The session's latest row is a user's.
Unanswered(s) == rows[s] # <<>> /\ rows[s][Len(rows[s])].role = "user"

\* No sweep at boot.
BugBoot ==
    /\ ~up
    /\ up' = TRUE
    /\ UNCHANGED <<crashes, dbVars, entry, alias, holds, timer, pc, requestVars, signal, got>>

\* The sweep runs periodically instead.
BugPeriodicSweep ==
    /\ \E s \in Session :
        /\ Unanswered(s)
        /\ rows' = [rows EXCEPT ![s] =
                      Append(@, AnswerRow(@[Len(@)].turn, @[Len(@)].idx + 1, "service_restart"))]
    /\ up' = TRUE
    /\ UNCHANGED <<crashes, status, over, entry, alias, holds, timer, pc, requestVars, signal, got>>

\* listen(), then sweepOrphanedInFlightTurns: it marks the sessions whose
\* latest row is a user's older than MIN_ORPHAN_AGE_MS.
Boot ==
    /\ ~up
    /\ up' = TRUE
    /\ \E X \in SUBSET {s \in Session : Unanswered(s)} :
        /\ "quick_restart" \notin Env => X = {s \in Session : Unanswered(s)}
        /\ rows' = [s \in Session |->
                      IF s \in X
                      THEN LET last == rows[s][Len(rows[s])]
                           IN  Append(rows[s],
                                      AnswerRow(last.turn, last.idx + 1, "service_restart"))
                      ELSE rows[s]]
    /\ UNCHANGED <<crashes, status, over, entry, alias, holds, timer, pc, requestVars, signal, got>>
-----------------------------------------------------------------------------
Post(t) == \E s \in Session :
    \/ PostNew(t, s)
    \/ PostExisting(t, s)
    \/ \E c \in Session : PostCompacting(t, s, c)

Handler(t) ==
    \/ Prepared(t) \/ PrepThrows(t)
    \/ CacheHit(t) \/ CacheMiss(t)
    \/ RunnerResult(t) \/ RunnerEnds(t) \/ RunnerThrows(t)
    \/ SalvageStarts(t) \/ SalvageEnds(t)

Next ==
    \/ \E t \in Turn : Post(t) \/ Handler(t) \/ Cancel(t) \/ TimeoutFires(t)
    \/ SweepRegistry
    \/ Crash
    \/ Boot

Spec == Init /\ [][Next]_vars

\* An aborted runner comes to its end (unless it is stuck), the salvage call
\* and the calls of the preparation are bounded in time, timers fire and the
\* process is restarted.  A runner that is not aborted owes nothing.
Stops(t) == signal[t] # "none" /\ (RunnerEnds(t) \/ SalvageStarts(t))

TurnFairness(t) ==
    /\ WF_vars(Prepared(t))
    /\ WF_vars(CacheMiss(t))
    /\ WF_vars(TimeoutFires(t))
    /\ WF_vars(Stops(t))
    /\ WF_vars(SalvageEnds(t))

Fairness == WF_vars(Boot) /\ \A t \in Turn : TurnFairness(t)

FairSpec == Spec /\ Fairness
-----------------------------------------------------------------------------
(* Properties. *)

\* The type invariant.
TypeOK ==
    /\ up \in BOOLEAN /\ crashes \in Nat
    /\ status \in [Session -> {"none", "active", "compacted"}]
    /\ over \in SUBSET Session
    /\ rows \in [Session -> Seq(Row)]
    /\ entry \in [Turn -> Entry]
    /\ alias \in [Session -> Session \cup {NoSession}]
    /\ holds \in [Turn -> Session \cup {NoSession}]
    /\ timer \in [Turn -> {"off", "armed", "fired"}]
    /\ pc \in [Turn -> Phase]
    /\ posted \in [Turn -> Session \cup {NoSession}]
    /\ sid \in [Turn -> Session \cup {NoSession}]
    /\ userIdx \in [Turn -> Nat]
    /\ signal \in [Turn -> Reason \cup {"none"}]
    /\ got \in [Turn -> SUBSET Got]

\* No two handlers work on one session: the mutex is held from the insertion
\* of the user's row to the end of the stream, and a release never frees the
\* mutex of another turn.
OneHandlerPerSession ==
    \A t, u \in Turn :
        pc[t] \in Working /\ pc[u] \in Working /\ sid[t] = sid[u] => t = u

InOrder(q) == \A i \in DOMAIN q : q[i].idx = i - 1

AnswersFollow(q) ==
    \A i \in DOMAIN q : q[i].role = "assistant" =>
        i > 1 /\ q[i - 1].role = "user" /\ q[i - 1].turn = q[i].turn

\* The turn_index of the rows of a session counts 0, 1, 2, ...: the index the
\* handler computed before its awaits is still free when it appends the answer,
\* whatever other turns, aborts, crashes and boot sweeps did meanwhile.
RowsInOrder == \A s \in Session : InOrder(rows[s])

\* An assistant's row directly follows the user's row of its own turn, so no
\* answer is attributed to another question and no question has two answers.
AnswerFollowsQuestion == \A s \in Session : AnswersFollow(rows[s])

\* The stop_reason of the row r says what became of its turn.
Stamped(r) ==
    LET t == r.turn
        aborted == r.stop \in Reason \cup {"server_error"}
    IN  /\ aborted => signal[t] # "none"
        /\ signal[t] # "none" /\ "stop" \notin got[t] =>
               IF entry[t].status = "none" THEN aborted ELSE r.stop = entry[t].reason

\* The abort the client was told about is the one on record, with its reason: a
\* row bears an abort reason only if its turn was aborted, and the row of an
\* aborted turn bears the reason its entry still shows.  Two exceptions: an
\* entry the sweeper or a crash took says nothing of the reason any more, and a
\* stop_reason of the SDK that came before the abort wins (Flushed).
AbortStamped ==
    \A s \in Session : \A i \in DOMAIN rows[s] :
        rows[s][i].role = "assistant" /\ rows[s][i].stop # "service_restart" =>
            Stamped(rows[s][i])

\* GET /sessions/:id finds the running turn (activeTurnId), under the id the
\* client posted and under the id compaction swapped it for.  It finds no other
\* one, unless one of the two works on a session that was compacted while it
\* ran: its own compaction had failed, that of a later post did not.
ReachableAfterRefresh ==
    \A t \in Running : \A s \in {posted[t], sid[t]} :
        /\ t \in FindRunning(s)
        /\ \A u \in FindRunning(s) \ {t} :
               "compacted" \in {status[sid[t]], status[sid[u]]}

\* A turn that ended without a crash has an answer on record, and a turn that
\* has one does not run any more.
EndedIffAnswered ==
    \A t \in Turn : pc[t] \in Working \cup {"over"} => (HasRow(t) <=> pc[t] = "over")

\* A turn the user cancelled before the timeout is never salvaged.
UserCancelNotSalvaged ==
    \A t \in Turn : pc[t] = "salvage" => signal[t] # "user_cancel"

\* Once answered, a turn is not aborted: neither a late timer nor a late
\* cancel changes its signal or its reason.
NoAbortAfterEnd ==
    [][\A t \in Turn : pc[t] = "over" => signal'[t] = signal[t]]_vars

\* Wherever a handler waits for something that is bounded in time, the next
\* step can be taken, whatever is on record, in the registry or aborted: a turn
\* that has its row already, or lost its entry to the sweeper, comes to its end
\* too (api/turn.ts lines 662-760).
NeverStuck ==
    /\ ~up => ENABLED <<Boot>>_vars
    /\ \A t \in Turn :
        /\ pc[t] = "prep" => ENABLED <<Prepared(t)>>_vars
        /\ pc[t] = "lookup" => ENABLED <<CacheMiss(t)>>_vars
        /\ timer[t] = "armed" => ENABLED <<TimeoutFires(t)>>_vars
        /\ pc[t] = "stream" /\ signal[t] # "none" => ENABLED <<Stops(t)>>_vars
        /\ pc[t] = "salvage" => ENABLED <<SalvageEnds(t)>>_vars

\* Every handler ends: with its answer, or with its process.
TurnsEnd == \A t \in Turn : pc[t] \in Working ~> pc[t] \notin Working

\* No question stays without an answer: the handler or the sweep of the next
\* boot appends one.
QuestionsAnswered == \A s \in Session : Unanswered(s) ~> ~Unanswered(s)
\* The turn that holds the session's mutex.
Owner(s) == IF Locked(s) THEN CHOOSE t \in Turn : holds[t] = s ELSE NoSession

\* The abstract conversation: the stored rows, owned by the mutex holder.
Conv == INSTANCE Conversation WITH
            Nobody <- NoSession, Ending <- Stop \ {"none", "service_restart"},
            owner <- [s \in Session |-> Owner(s)]

\* Compaction, cancels, timeouts, salvage, the response cache, failing writes,
\* crashes and boot sweeps together do to the stored history only what
\* Conversation allows: it grows by one question or its one answer, and only
\* the turn that holds the mutex, or the boot sweep of an idle process, answers.
ImplementsConversation == Conv!Spec
-----------------------------------------------------------------------------
(* The inductive invariant behind the safety properties. *)

Locking == Working \cup {"leaked"}   \* the phases in which the mutex is held

\* A handler holds the mutex of its own session, from register to the end of
\* the stream, and nobody else does.
MutexInv ==
    /\ \A t \in Turn : IF pc[t] \in Locking
                       THEN holds[t] = sid[t] /\ sid[t] \in Session
                       ELSE holds[t] = NoSession
    /\ \A t, u \in Turn : holds[t] = holds[u] /\ holds[t] \in Session => t = u
    /\ ~up => \A t \in Turn : pc[t] \notin Locking

\* The session's last row is the turn's own question, where the handler found
\* the end of the conversation when it started.
Pending(t) ==
    /\ Len(rows[sid[t]]) = userIdx[t] + 1
    /\ rows[sid[t]][userIdx[t] + 1].role = "user"
    /\ rows[sid[t]][userIdx[t] + 1].turn = t

\* Until the model is asked the question is pending; from then on it is pending
\* or a failed cache replay has answered it.
PendingInv ==
    \A t \in Turn :
        /\ pc[t] \in {"prep", "lookup"} => Pending(t)
        /\ pc[t] \in {"stream", "salvage"} => Pending(t) \/ HasRow(t)

\* A session that is not created has no rows and no handler.
FreshInv ==
    /\ \A s \in Session : status[s] = "none" => rows[s] = <<>>
    /\ \A t \in Turn : pc[t] \in Locking => status[sid[t]] # "none"

\* Aliases lead from compacted sessions to sessions created later; r orders the
\* sessions by their creation, the last ones lowest.
AliasInv ==
    /\ \A s \in Session : alias[s] # NoSession =>
           status[s] = "compacted" /\ status[alias[s]] # "none"
    /\ \E r \in [Session -> 0 .. Cardinality(Session)] :
        /\ \A s \in Session : status[s] # "none" =>
               r[s] >= Cardinality({c \in Session : status[c] = "none"})
        /\ \A s \in Session : alias[s] # NoSession => r[alias[s]] < r[s]

\* A running entry is kept by the handler that holds the mutex of its session,
\* and it is keyed by the end of the alias chain of that session and of the
\* one the client posted.
KeyedInv ==
    \A t \in Running :
        /\ pc[t] \in Locking
        /\ \A s \in {posted[t], sid[t]} :
               s \in Session /\ status[s] # "none" /\ entry[t].sid = Resolve(s)

IInv == TypeOK /\ MutexInv /\ FreshInv /\ PendingInv /\ RowsInOrder /\ AnswerFollowsQuestion
=============================================================================
