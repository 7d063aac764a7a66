--------------------------- MODULE SegmentRefresh ---------------------------
(***************************************************************************)
(* How the gateway keeps the cohort of a live (predicate) segment up to    *)
(* date: the routes that create, edit, refresh and delete a segment        *)
(* (routes/segments.ts), the in-memory FIFO of refreshes                   *)
(* (jobs/refresh-queue.ts), the refresh of one segment                     *)
(* (jobs/refresh-segment.ts), the cron that lists the segments due and     *)
(* resets wedged ones (jobs/cron-runner.ts, services/segment-refresh-ops)  *)
(* and the reconciliation of a gateway that died in the middle             *)
(* (services/segment-status.ts).                                           *)
(*                                                                         *)
(* One Node process: an action is a macrotask.  The microtasks that follow *)
(* the end of a refresh (the drain loop's next round, a cron tick waiting  *)
(* for the drain) run before any other macrotask: see Quiet.               *)
(***************************************************************************)
EXTENDS Naturals, Sequences, FiniteSets, SequencesExt

CONSTANTS Segment,     \* the segments' ids
          NoSegment,   \* no segment
          Cadence,     \* the segments with a refresh_cadence_min
          NoCube,      \* the segments created without a cube
          MaxVersion,  \* bound: versions of a segment's predicate tree
          MaxMeta,     \* bound: versions of the Cube model's /meta
          MaxCrashes,  \* bound: how often the gateway dies
          Env          \* which of EnvKinds the environment does

EnvKinds == {"edit_in_flight",     \* a segment is edited while it is refreshed
             "refresh_in_flight",  \* "refresh now" while it is refreshed
             "rehydrate",          \* a refresh notices that /meta has changed
             "members_missing",    \* the model has lost a member of a tree
             "by_hand",            \* a client writes or extends a cohort itself
             "unstick",            \* an operator unsticks a segment
             "delete"}             \* a segment is deleted

ASSUME SegmentRefreshAssumption ==
    /\ NoSegment \notin Segment
    /\ Cadence \subseteq Segment /\ NoCube \subseteq Segment
    /\ MaxVersion \in Nat \ {0} /\ MaxMeta \in Nat \ {0} /\ MaxCrashes \in Nat
    /\ Env \subseteq EnvKinds

VARIABLES
    row,         \* the segments' rows in SQLite
    meta,        \* the version of the Cube model
    up, crashes, \* the gateway runs; how often it died
    pending,     \* the queue's pending set, in its insertion order
    processing,  \* processingId
    job,         \* the locals of the refresh of that segment
    listed       \* the ids running ticks have listed and not yet enqueued

vars == <<row, meta, up, crashes, pending, processing, job, listed>>

Version == 0 .. MaxVersion   \* 0: no version
Meta    == 0 .. MaxMeta
Status  == {"none", "fresh", "refreshing", "broken", "stale", "deleted"}

\* tree: the version of predicate_tree_json; query: the tree cube_query_json was
\* translated from; uids: the tree whose cohort uid_list_json holds; age: that
\* of last_refreshed_at, against the cadence; old: updated_at is older than the
\* wedge threshold.
Row == [status : Status, tree : Version, query : Version, uids : Version,
        metaV : Meta, age : {"never", "recent", "overdue"}, old : BOOLEAN]
NoRow == [status |-> "none", tree |-> 0, query |-> 0, uids |-> 0,
          metaV |-> 0, age |-> "never", old |-> FALSE]
Gone   == [NoRow EXCEPT !.status = "deleted"]   \* no row, and the id is used up
NewRow == [status |-> "refreshing", tree |-> 1, query |-> 1, uids |-> 0,
           metaV |-> 0, age |-> "never", old |-> FALSE]

\* The row a refresh read at its start, and how far the refresh is.
Job == [phase : {"none", "identity", "drift", "load", "tail"}, tree : Version,
        query : Version, metaV : Meta, prior : Status]
NoJob == [phase |-> "none", tree |-> 0, query |-> 0, metaV |-> 0, prior |-> "none"]

Init ==
    /\ row = [s \in Segment |-> NoRow]
    /\ meta = 1
    /\ up = TRUE /\ crashes = 0
    /\ pending = <<>> /\ processing = NoSegment /\ job = NoJob /\ listed = {}

Exists(s) == row[s].status \notin {"none", "deleted"}

\* No microtask is left to run.
Quiet == up /\ (processing # NoSegment \/ (pending = <<>> /\ listed = {}))

\* UPDATE segments ... WHERE id = s; r is the new row if there is one.  Every
\* such statement sets updated_at.
Update(s, r) == row' = IF Exists(s) THEN [row EXCEPT ![s] = [r EXCEPT !.old = FALSE]]
                       ELSE row

SetStatus(s, status) == Update(s, [row[s] EXCEPT !.status = status])

\* Without the guard against the segment in flight, and without a Set.
BugEnqueue(s) == pending' = Append(pending, s)

\* enqueueRefresh(s)
Enqueue(s) ==
    pending' = IF s = processing \/ s \in ToSet(pending) THEN pending
               ELSE Append(pending, s)
-----------------------------------------------------------------------------
(* The routes. *)

\* POST /api/segments with a predicate.
Create(s) ==
    /\ Quiet /\ row[s].status = "none"
    /\ row' = [row EXCEPT ![s] = NewRow]
    /\ Enqueue(s)
    /\ UNCHANGED <<meta, up, crashes, processing, job, listed>>

\* The status is not changed to 'refreshing'.
BugEdited(r) == [r EXCEPT !.tree = @ + 1, !.query = r.tree + 1]

\* The query is not translated again.
BugUntranslated(r) == [r EXCEPT !.tree = @ + 1, !.status = "refreshing"]

\* The row after a new predicate tree is stored.
Edited(r) == [r EXCEPT !.tree = @ + 1, !.query = r.tree + 1, !.status = "refreshing"]

\* The row r with a cohort that is of no predicate: the client's own list, or the
\* stored one with its uids appended.
ByHand(r) == IF "by_hand" \in Env THEN {[r EXCEPT !.uids = 0]} ELSE {}

\* PATCH /api/segments/:id with a predicate_tree, and perhaps a uid_list.
Edit(s) ==
    /\ Quiet /\ Exists(s)
    /\ row[s].tree < MaxVersion
    /\ s = processing => "edit_in_flight" \in Env
    /\ \E r \in {row[s]} \cup ByHand(row[s]) : Update(s, Edited(r))
    /\ Enqueue(s)
    /\ UNCHANGED <<meta, up, crashes, processing, job, listed>>

\* PATCH with a uid_list alone, POST /api/segments/:id/append: the status stays,
\* and no refresh is asked for.
WriteUids(s) ==
    /\ Quiet /\ Exists(s)
    /\ \E r \in ByHand(row[s]) : Update(s, r)
    /\ UNCHANGED <<meta, up, crashes, pending, processing, job, listed>>

\* POST /api/segments/:id/refresh
RefreshNow(s) ==
    /\ Quiet /\ Exists(s)
    /\ s = processing => "refresh_in_flight" \in Env
    /\ SetStatus(s, "refreshing")
    /\ Enqueue(s)
    /\ UNCHANGED <<meta, up, crashes, processing, job, listed>>

\* POST /api/segment-refresh/:id/unstick
Unstick(s) ==
    /\ "unstick" \in Env
    /\ Quiet /\ row[s].status = "refreshing"
    /\ SetStatus(s, "stale")
    /\ UNCHANGED <<meta, up, crashes, pending, processing, job, listed>>

\* DELETE /api/segments/:id.  A queued or running refresh is not told.
Delete(s) ==
    /\ "delete" \in Env
    /\ Quiet /\ Exists(s)
    /\ row' = [row EXCEPT ![s] = Gone]
    /\ UNCHANGED <<meta, up, crashes, pending, processing, job, listed>>
-----------------------------------------------------------------------------
(* The drain loop and the refresh of one segment. *)

\* The next round of the loop, with the synchronous start of refreshSegment,
\* which returns at once if there is no row or no cube.
Drain ==
    /\ up /\ processing = NoSegment /\ pending # <<>>
    /\ pending' = Tail(pending)
    /\ LET s == Head(pending)
           r == row[s]
       IN  IF Exists(s) /\ s \notin NoCube
           THEN /\ processing' = s
                /\ job' = [phase |-> "identity", tree |-> r.tree, query |-> r.query,
                           metaV |-> r.metaV, prior |-> r.status]
                /\ SetStatus(s, "refreshing")
           ELSE UNCHANGED <<row, processing, job>>
    /\ UNCHANGED <<meta, up, crashes, listed>>

In(s, phase) == up /\ processing = s /\ job.phase = phase

GoOn(phase) ==
    /\ job' = [job EXCEPT !.phase = phase]
    /\ UNCHANGED <<meta, up, crashes, pending, processing, listed>>

Return ==
    /\ processing' = NoSegment /\ job' = NoJob
    /\ UNCHANGED <<meta, up, crashes, pending, listed>>

\* The identity field is known.
IdentityFound(s) == In(s, "identity") /\ UNCHANGED row /\ GoOn("drift")

\* Introspection failed ('stale'), or the cube has no identity ('broken').
IdentityFails(s) ==
    /\ In(s, "identity")
    /\ \E status \in {"stale", "broken"} : SetStatus(s, status)
    /\ Return

\* /meta has not changed, is not known, or the check threw.
NoDrift(s) == In(s, "drift") /\ UNCHANGED row /\ GoOn("load")

\* The query is translated again from the tree read at the start.
Rehydrate(s) ==
    /\ "rehydrate" \in Env
    /\ In(s, "drift") /\ job.metaV # meta
    /\ Update(s, [row[s] EXCEPT !.query = job.tree, !.metaV = meta])
    /\ job' = [job EXCEPT !.phase = "load", !.query = job.tree]
    /\ UNCHANGED <<meta, up, crashes, pending, processing, listed>>

MembersMissing(s) ==
    /\ "members_missing" \in Env
    /\ In(s, "drift") /\ job.metaV # meta
    /\ SetStatus(s, "broken")
    /\ Return

\* The size and the uids are there: setSegmentSizeAndUids.
Loaded(s) ==
    /\ In(s, "load")
    /\ Update(s, [row[s] EXCEPT !.uids = job.query, !.status = "fresh", !.age = "recent"])
    /\ GoOn("tail")

Restored == IF job.prior = "refreshing" THEN "stale" ELSE job.prior

\* A transient error of Cube or Trino, or any other error.
LoadFails(s) ==
    /\ In(s, "load")
    /\ \E status \in {Restored, "broken"} : SetStatus(s, status)
    /\ Return

\* The member tiers (which may be stored), the profiles and the cards are
\* done, or failed.
TailEnds(s) ==
    /\ In(s, "tail")
    /\ row' = row \/ Update(s, row[s])
    /\ Return

Refresh(s) ==
    \/ IdentityFound(s) \/ IdentityFails(s)
    \/ NoDrift(s) \/ Rehydrate(s) \/ MembersMissing(s)
    \/ Loaded(s) \/ LoadFails(s) \/ TailEnds(s)
-----------------------------------------------------------------------------
(* The cron, time, and the death of the gateway. *)

\* Rows in 'refreshing' are what a dead gateway left behind.
Reconciled(S) ==
    [s \in Segment |-> IF s \in S /\ row[s].status = "refreshing"
                       THEN [row[s] EXCEPT !.status = "stale", !.old = FALSE]
                       ELSE row[s]]

\* The watchdog is switched off.
BugWedged == {}

Wedged == {s \in Segment : row[s].status = "refreshing" /\ row[s].old /\ s # processing}

\* Only segments in good standing are refreshed again.
BugDue(r) == {s \in Cadence : r[s].status = "fresh" /\ r[s].age # "recent"}

\* listDueSegments() on the rows r.
Due(r) == {s \in Cadence : r[s].status \in {"fresh", "stale", "broken"} /\ r[s].age # "recent"}

\* The first await of the tick's loop: one segment is enqueued, the others
\* wait until the queue is drained.
ListAndEnqueue(r) ==
    /\ row' = r
    /\ IF Due(r) = {} THEN UNCHANGED <<pending, listed>>
       ELSE \E s \in Due(r) : Enqueue(s) /\ listed' = listed \cup (Due(r) \ {s})

Tick ==
    /\ Quiet
    /\ ListAndEnqueue(Reconciled(Wedged))
    /\ UNCHANGED <<meta, up, crashes, processing, job>>

\* A tick that waited for the drain goes on.
TickGoesOn ==
    /\ up /\ processing = NoSegment /\ pending = <<>>
    /\ \E s \in listed : Enqueue(s) /\ listed' = listed \ {s}
    /\ UNCHANGED <<row, meta, up, crashes, processing, job>>

\* last_refreshed_at + cadence is over.
BecomesOverdue(s) ==
    /\ s \in Cadence /\ row[s].age = "recent"
    /\ row' = [row EXCEPT ![s].age = "overdue"]
    /\ UNCHANGED <<meta, up, crashes, pending, processing, job, listed>>

\* updated_at + the wedge threshold is over.
BecomesOld(s) ==
    /\ row[s].status = "refreshing" /\ ~row[s].old
    /\ row' = [row EXCEPT ![s].old = TRUE]
    /\ UNCHANGED <<meta, up, crashes, pending, processing, job, listed>>

\* The Cube model is deployed again.
MetaChanges ==
    /\ meta < MaxMeta
    /\ meta' = meta + 1
    /\ UNCHANGED <<row, up, crashes, pending, processing, job, listed>>

\* SQLite is all that survives.
Crash ==
    /\ up /\ crashes < MaxCrashes
    /\ up' = FALSE /\ crashes' = crashes + 1
    /\ pending' = <<>> /\ listed' = {} /\ processing' = NoSegment /\ job' = NoJob
    /\ UNCHANGED <<row, meta>>

\* The orphans are left alone.
BugBoot ==
    /\ ~up
    /\ up' = TRUE
    /\ ListAndEnqueue(row)
    /\ UNCHANGED <<meta, crashes, processing, job>>

\* startCron(): reconcileOrphanedRefreshing and the first tick.
Boot ==
    /\ ~up
    /\ up' = TRUE
    /\ ListAndEnqueue(Reconciled(Segment))
    /\ UNCHANGED <<meta, crashes, processing, job>>

Next ==
    \/ \E s \in Segment :
        \/ Create(s) \/ Edit(s) \/ WriteUids(s) \/ RefreshNow(s) \/ Unstick(s) \/ Delete(s)
        \/ Refresh(s)
        \/ BecomesOverdue(s) \/ BecomesOld(s)
    \/ Drain \/ Tick \/ TickGoesOn
    \/ MetaChanges \/ Crash \/ Boot

Spec == Init /\ [][Next]_vars

\* The microtasks run, every await of a refresh is bounded by a timeout, time
\* passes, and a dead gateway is restarted.  The interval timer ticks however
\* often microtasks and requests come between (hence SF).
Fairness ==
    /\ WF_vars(Drain) /\ WF_vars(TickGoesOn) /\ SF_vars(Tick) /\ WF_vars(Boot)
    /\ \A s \in Segment :
        /\ WF_vars(Refresh(s))
        /\ WF_vars(BecomesOverdue(s))
        /\ WF_vars(BecomesOld(s))

FairSpec == Spec /\ Fairness

\* A refresh that is tried again and again succeeds at last.
Answers == \A s \in Segment : SF_vars(IdentityFound(s)) /\ SF_vars(Loaded(s))
-----------------------------------------------------------------------------
(* Properties. *)

\* The type invariant; pending is a Set, so it has no duplicates.
TypeOK ==
    /\ row \in [Segment -> Row]
    /\ meta \in Meta \ {0}
    /\ up \in BOOLEAN /\ crashes \in Nat
    /\ pending \in Seq(Segment)
    /\ \A i, j \in DOMAIN pending : pending[i] = pending[j] => i = j
    /\ processing \in Segment \cup {NoSegment}
    /\ job \in Job
    /\ listed \in SUBSET Segment

\* A segment shown as fresh has the cohort of the predicate it is shown with,
\* unless a client wrote the cohort or edited the segment while it was refreshed.
FreshMeansCurrent ==
    \A s \in Segment : row[s].status = "fresh" => row[s].uids = row[s].tree

\* The stored query is the translation of the stored predicate tree: the two
\* columns are written by the routes and by the rehydration of a refresh.
QueryMatchesTree == \A s \in Segment : row[s].query = row[s].tree

\* While the gateway runs, a segment shown as refreshing has a refresh in
\* flight or in the queue.
RefreshingIsBacked ==
    \A s \in Segment :
        up /\ row[s].status = "refreshing" => s = processing \/ s \in ToSet(pending)

\* No segment is shown as refreshing for ever: the refresh, the watchdog or
\* the next boot ends it.
RefreshingEnds ==
    \A s \in Segment : row[s].status = "refreshing" ~> row[s].status # "refreshing"

\* A segment left stale by a transient failure, the watchdog or a restart is
\* tried again.
StaleIsRetried ==
    \A s \in Segment : row[s].status = "stale" ~> row[s].status # "stale"

\* If Cube answers at last, an edited predicate reaches the cohort, even if the
\* refresh it asked for was dropped, failed, or died with the gateway, and even if
\* a client has written a cohort of its own over it.
EditReachesCohort ==
    Answers => \A s \in Segment : row[s].uids # row[s].tree ~> row[s].uids = row[s].tree
-----------------------------------------------------------------------------
(* The inductive invariant behind the safety properties. *)

\* Nobody asks for a refresh of a segment that is being refreshed, or writes a
\* cohort that is not of the predicate.
Undisturbed == Env \cap {"edit_in_flight", "refresh_in_flight", "by_hand"} = {}

\* What the running refresh remembers of its row still holds, a row whose
\* status it may restore was current, and its cohort, once stored, is shown.
JobInv ==
    /\ processing = NoSegment <=> job.phase = "none"
    /\ processing # NoSegment =>
        /\ up
        /\ row[processing].status # "none"
        /\ job.phase = "tail" => row[processing].status # "refreshing"
        /\ Exists(processing) =>
               /\ job.tree = row[processing].tree /\ job.query = row[processing].tree
               /\ job.prior = "fresh" => row[processing].uids = row[processing].tree

CurrentInv == QueryMatchesTree /\ FreshMeansCurrent /\ JobInv

IInv == TypeOK /\ CurrentInv /\ RefreshingIsBacked
=============================================================================
