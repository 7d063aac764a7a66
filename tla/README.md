# Formal verification of GDS Cube

TLA+ models of the parts of GDS Cube whose correctness depends on interleavings,
failures and restarts, with TLC configurations that check them on small
instances and TLAPS proofs of the most important facts for every instance.

* `*.tla`: the specifications. `ChatTurn`, `StreamReplay`, `SegmentRefresh`,
  `CubeLoad`, `CarePrecompute` and `CareCases` model one component each.
  `Conversation` is what `ChatTurn` promises, stated without its handlers, timers
  and registry; `SharedCalls` is what `CubeLoad` promises, and `TurnView` what the
  chat service and the page promise together. `MC*` add the symmetry or the sets
  that TLC uses. `*_proofs` and `ConversationRefinement` hold the theorems.
* `*.cfg`: one per question asked of TLC.
* `PROJECT.json`: the index. It maps every definition to the source lines it
  models, and lists the runs, the mutants, the findings, the hazards and the
  theorems.

To check a module: `tlc -config CubeLoad_safety.cfg MCCubeLoad`; to check its
proofs: `tlapm CubeLoad_proofs.tla`.

## 1. The system

GDS Cube is an analytics workbench over Cube.js semantic models. Four tiers:

| Tier | Code | Process |
|---|---|---|
| SPA | `src/src` | the browser |
| Gateway | `src/server/src` | one Node process, SQLite, an in-process cron |
| Chat service | `src/chat-service/src` | one Node process, SQLite, in-memory registries |
| Cube, Trino, Keycloak | external (`cube-dev`, `docker`) | |

The SPA talks to the gateway only. The gateway proxies Cube (`/cube-api`) and
the chat service (`/api/chat`), and keeps segments, dashboards, care cases,
experiments and the access lists in SQLite. The chat service runs an agent
for each chat turn and streams what it does as SSE. Neither process has a
graceful shutdown: a restart loses everything in memory at any point.

### Inventory

State, operations and what makes each component correct. "M" names the module
that models it; "-" means not modelled (sections 11 and 12 say why, or when).

| Component | State | Operations | What is hard, what must hold | M |
|---|---|---|---|---|
| Chat turn (`api/turn.ts`, `core/session-manager.ts`, `core/stream-registry.ts`, `db/sweep-*`) | session and turn rows; a mutex per session; registry entries, aliases; abort signal, timer | post, cancel, timeout, salvage, compact, sweep, boot | long awaits between the question's row and the answer's; cancel, timeout, runner end and failing writes race; crash in between. A conversation stays a sequence of questions and their own answers; the abort on record is the one that took place; turns end; a reload finds the running turn | ChatTurn, Conversation |
| Stream replay (`api/replay.ts`, ring of the registry, `stores/chat-stream-store.ts` and `use-auto-replay-attach.ts` of the SPA) | ring of events per turn, start offset, listeners; the page's entry, loop handle and watchdog | append, subscribe, finish, reattach at an offset; stop, reset, refresh | a reattaching client races the ring's eviction and the end of the turn; loops, aborts and timers of the page unwind in any order: no gap, no duplicate, an end, one loop | StreamReplay, TurnView |
| Response and KV caches of the chat | SQLite rows with TTL and meta hash | look up, replay, write, sweep | a cached turn goes through the same life cycle as a live one | part of ChatTurn |
| Chat rate limit, key failover | in-memory buckets, cooldowns | admit, cool down, promote | boundaries of windows | - |
| Segment refresh (`jobs/refresh-queue.ts`, `jobs/refresh-segment.ts`, `services/segment-status.ts`) | segment rows; the pending Set, the id in flight | enqueue, drain, identity, drift check, load, tail | a refresh works on the row it read before its awaits, and routes change the row meanwhile. "fresh" means the cohort of the stored predicate; "refreshing" means a refresh exists and ends | SegmentRefresh |
| Segment routes (`routes/segments.ts`) | segment rows | create, edit, refresh now, unstick, delete | see above | SegmentRefresh |
| Cron (`jobs/cron-runner.ts`) | the interval, the last tick | tick, watchdog, boot reconciliation | ticks overlap with a drain that takes longer than their period; wedged and orphaned rows are recovered | SegmentRefresh |
| Cube /load proxy (`routes/cube-proxy.ts`, `routes/cube-load-*.ts`) | in-flight map, refcounts, two counters, result cache | serve, follow, lead, reject, poll, settle, disconnect, expire | clients of one shared call come and go while it is polled and aborted. Slots and refcounts are exact, caps hold, nobody gets another query's rows, every request is answered | CubeLoad, SharedCalls |
| Card, dashboard and liveops caches | SQLite rows, in-flight maps | read through, refresh | single flight, TTL | - |
| Member-360 and care precompute (`services/care-precompute-scheduler.ts`, `routes/segment-cs-care.ts`) | `segment_care_cache`, a serial chain of jobs, two flags, trigger times | nightly window, trigger, rewarm, interactive build | a pass works for hours on the list it read at its start; builds overlap with refreshes. Passes do not overlap and end; good payloads are kept; stale ones are found | CarePrecompute (care half) |
| Care cases (`care/*`, `jobs/care-auto-sweep.ts`, `routes/care-cases.ts`) | cases, sweep runs, a lock per workspace and game | sweep, open, flag, prune, treat, close, reset | two sweeps, a sweep and an operator on one case; outages of Cube that look like empty cohorts; failures that keep or lose the lock | CareCases |
| Anomalies, alerts, digests | state rows, cooldowns | evaluate, notify, acknowledge | at-least-once delivery, cooldown boundaries | - |
| Experiments | experiment rows, materialised assignment | split, start, stop, read out | assignment is stable and disjoint | - |
| Advisor | proposals, runs, sessions of an agent | diagnose, recommend, feedback | mostly pure ranking | - |
| Lakehouse snapshots | rows in Trino, a daily ledger | write, downsample | idempotence per day | - |
| Auth, API keys | users, grants, keys, a limiter | decide, rotate, revoke, admit | window boundaries, last-admin rules | - |
| Onboarding, connectors | drafts, files of the Cube model | wizard steps, provision | a draft's life cycle | - |
| Catalog, glossary, dashboards, preferences | rows | CRUD | single statements | - |
| Chat proxy, tools, NL-to-query, SPA | none or view state | | pure transformations and rendering | - |

## 2. Modelling conventions

* **Atomicity.** Each process is a single-threaded Node process and
  `better-sqlite3` is synchronous. An action is a macrotask: the code
  from one await that waits for I/O (or a timer) to the next. Awaits that
  resolve in microtasks do not split an action. In `SegmentRefresh` the drain
  loop and a waiting tick go on in microtasks, which the model keeps as actions
  of their own that come before any other macrotask (`Quiet`).
* **Data.** A text, a query or a row's payload is what the properties tell
  apart: a predicate tree is its version, a cohort the version it was computed
  from, a query a member of a small set, a turn's answer its `stop_reason`.
* **Time.** Timers fire whenever the code has armed them, in any order. Where
  the code makes two durations far apart (the registry's reaper against the
  turn timeout) the guard says so.
* **Environment.** `Env` switches on what the environment may do, so that a
  property can be checked under exactly the conditions that it needs, and
  violated by adding the one it does not survive.
* **Bounds.** `MaxCrashes`, `MaxVersion`, `MaxMeta`, `MaxPolls`, `MaxClock`,
  `MaxRefreshes`, `Changing`, `MaxEvents`, `MaxLate` and the `MaxTurns` of
  `StreamReplay` bound what TLC explores. The `MaxTurns` of `ChatTurn`, `MaxGlobal`,
  `MaxPerOwner`, `MaxEntries`, `RingSize`, `Cooldown`, `Ttl` and `Window` are
  configuration values of the code. The theorems hold for all of them.

## 3. ChatTurn

| Model | Code |
|---|---|
| `status`, `over`, `rows` | `chat_sessions.status`, the token total against the 80 % budget, `chat_turns` in the order of `turn_index` |
| `entry`, `alias` | the registry's `entries` and `aliases` |
| `holds` | the mutex `release` closure of the handler |
| `timer`, `signal` | `timeoutHandle`, `controller.signal` and its reason |
| `pc`, `posted`, `sid`, `userIdx` | the handler's position and locals |
| `got` | whether it has text of an answer (`assistantText`), and whether the SDK's `stop_reason` waits in its `bufferedRecorder`; `Flushed` is what `flush()` then leaves on the row |
| `PostNew`, `PostExisting`, `PostCompacting` | POST /agent/turn to the insertion of the user's row, without a session, with one, and with one that is compacted first |
| `Prepared`, `CacheHit`, `CacheMiss`, `RunnerResult`, `RunnerEnds`, `RunnerThrows`, `SalvageStarts`, `SalvageEnds` | the handler from there to its `finally` |
| `PrepThrows` | an exception between `register()` and `try` |
| `Cancel`, `TimeoutFires` | the cancel endpoint, the timer |
| `SweepRegistry` | the registry's TTL sweeper with `pruneOrphanAliases` |
| `Crash`, `Boot` | loss of all memory; `sweepOrphanedInFlightTurns` |

Mutual exclusion is not by construction: `holds` is set from the id the turn
has after compaction, freed by each exit, and `Locked` looks at it.

Runs:

* **chat_safety** (2 sessions, 3 turns, 1 crash; failing compactions and writes,
  early throws, quick restart): the conversation on disk stays a sequence of
  questions and their own answers (`RowsInOrder`, `AnswerFollowsQuestion`), two
  handlers never share a session, a row has an abort reason only if its turn was
  aborted and the row of an aborted turn bears the reason of its registry entry
  (`AbortStamped`; the exceptions are in the property: an entry that is gone, and
  a `stop_reason` of the SDK that was buffered before the abort, section 10), a
  turn that ended is not aborted, and a reloaded client finds its turn under both
  ids (`ReachableAfterRefresh`). Three turns on two sessions are enough for a turn
  to wait behind another and to follow one that failed, and for a turn whose
  compaction failed to run beside one that compacts the session under it: only
  then does a reload find a second running turn of the lineage, and the invariant
  says that there is no other case.
* **chat_liveness** (3 sessions, 2 turns, a registry that runs one turn at a
  time, 1 crash; cache, failed compaction, runners that do not react to an
  abort): turns end, questions are answered or marked, and a turn is over exactly
  when its answer is on disk. Three sessions allow a chain of two compactions.
  The run also checks `ImplementsConversation`, below, and `NeverStuck`: wherever
  a handler, or the service once dead, waits for something bounded, the step
  it waits for can be taken. Fairness asks nothing of a step that is not enabled,
  so this is what the liveness theorems of section 9 start from. A handler
  that depends on the registry (a runner that can end only while its entry is
  there) violates it.
* **chat_salvage**: a disagreement of code and comment, see section 10.

`Conversation` is the promise to whoever reads the history: it only grows, by a
question or by the one answer to the question it ends with; a session has one
turn at work at a time; answers come from that turn, or from a restart when no
turn is at work at all. `ChatTurn!ImplementsConversation` instantiates it with
the rows as they are and with `owner[s]` the turn of the live handler that holds
the mutex of `s`. Cancels, timers, cache lookups, salvage, aliases and the
registry are stutters; what `Conversation` forbids and the detailed module has
to exclude is a sweep that answers for a turn still at work, a second answer, and a
question in the middle of somebody else's turn. Its mutant runs the boot sweep
beside live turns.

Fairness: timers fire; the preparation, the cache lookup and the salvage call
are bounded in time; an *aborted* runner ends (the SDK call gets the signal);
the process is restarted. A runner that is not aborted owes nothing, so what
ends a turn is its timeout. `TurnsEnd` therefore needs the timer, and its mutant
(a timer that is not armed) violates it. A runner that ignores its abort is
covered by the safety part only (`runner_stuck` lets the reaper take its entry;
fairness still obliges the runner to end at last).

## 4. StreamReplay

| Model | Code |
|---|---|
| `registry` | the registry's `entries`: status, the ring `events` with `startOffset`, `totalEmitted`, listeners; `finishedAt` is the number of events at `finish()`. Of a deleted entry the model keeps the two counts, on which what the page was sent depends (`Deleted`) |
| `handler` | the response each turn's handler writes to, and whether the handler has thrown outside its `finally` |
| `conn` | the connections: the service's side (`phase`), the bytes under way (`wire`), the page's dispatch loop (`live`, `saw`, the replay's offset and its one retry) |
| `entry` | the store's entry of the session: status, `turnId`, the `cancel` handle, the events applied (`shown`) |
| `page` | `session.activeTurnId` as last fetched, `triggeredRef` of the hook |
| `Accept`, `Emit`, `End`, `Leak`, `Sweep`, `Restart` | the turn handler as seen by the ring; the sweeper; loss of the registry |
| `EmitLate` | a tool that outlives its turn: `append()` asks for an entry only, so the ring gets its event behind `done`; the response has ended and the listeners are cleared, so nobody else does |
| `Serve` | GET /agent/turn/:id/stream: 404, 409 with `availableFromOffset`, replay, replay and subscribe |
| `Hangup`, `Break`, `Refuse`, `Vanish` | close events, connections that break in a proxy or in the network, refused and lost requests |
| `Send`, `FetchSession`, `Attach` | `startTurn`, GET of the session, `useAutoReplayAttach` |
| `Deliver`, `Applied`, `AtEof`, `Stripped` | `runDispatchLoop`, `applySseEvent`, the end of a stream before done, the loop's `finally` |
| `Watchdog`, `Stop`, `Reset`, `Refresh` | the stall timer, Stop, New chat, a reload of the page |

The composition is deliberate: that nothing is lost or repeated is a property of
the ring, the endpoint and the store together, and so are "done" and the wait for
ever. `token` stands for every event between `turn_started` and the ending,
`artifact` for those that tools emit behind it, `error` also for `rate_limited`,
and a page sees a network error as it sees an error status (`failed`). The history
the page also shows is not modelled.

`TurnView` is the promise of that composition to whoever follows a turn, without
rings, connections, offsets, loops or timers: one turn produces events at a time,
and after its end only what a tool adds that outlives it; a view is opened empty,
shows the events of one turn one by one from an event no later than the oldest of
the last `Kept`, is closed before another is opened, and shows nothing once
closed; it becomes whole with the event that ends its turn and with no other, and
neither closing it nor what a late tool adds behind changes that.
`StreamReplay!ImplementsTurnView` reads the produced events off `totalEmitted`,
the end off `finishedAt`, the view off `shown`, "open" off the handle in the entry
and "whole" off the status `done`. Requests, replies, close events, fetches of the
session, subscriptions and the retry after an overflow are stutters, and a turn
that is swept while it runs or forgotten by a restart is lost. It says more than
the invariants: they look at one state, `TurnView` at what a step may make of the
last one (a view that is whole does not become a lost connection when its stream
closes, which is its mutant; nothing arrives from a loop that was given up; a
replay starts from an empty view). It says nothing of the views that begin again
after a reset, and does not promise an end: that is `WaitingEnds`.

Run **replay** (one page, 2 connections, 2 turns, of up to 3 and 1 events before
their ending, one late event, a ring of two events; leaks and restarts): the page
shows a turn's events without hole or repetition (`ShownExactly`), calls only a
whole answer done (up to the end of its turn, and behind it only what a late tool
added), holds the handle of its one loop, waits for nothing for ever, and the
registry has exactly the listeners of open replays of running turns; and
`StreamReplay` implements `TurnView`. The types (`TypeOK`) are proved, not run.
A turn longer than the ring makes a replay meet an overflow, while the turn still
runs and on the retry as well; a ring of two lets a replay show `done` and a late event
behind it; two turns are needed for a replay of the wrong one; two connections
for the old loop and the new. The proofs are for every size of the ring and any
number of events.

Fairness: a request is answered, a turn ends (it has a timeout, see ChatTurn)
unless it has leaked, what was sent arrives, and the watchdog's timer runs out
on a stream on which nothing will ever come. These are one action of each
connection (`Progress`): before its response a connection owes only that, then
only the delivery of what is on the wire, and on an empty wire on which nothing
will come only the watchdog. The watchdog may also fire at any
other time.

## 5. SegmentRefresh

| Model | Code |
|---|---|
| `row` | the `segments` row: `status`, the versions behind `predicate_tree_json`, `cube_query_json`, `uid_list_json`, `predicate_meta_version`, and the ages of `last_refreshed_at` and `updated_at` against cadence and wedge threshold |
| `pending`, `processing` | `pending` (a Set in insertion order), `processingId` |
| `job` | the locals of `refreshSegment`: the row it read, `cubeQueryJson`, `priorStatus` |
| `listed` | the ids that overlapping ticks have listed and not yet enqueued |
| `Create`, `Edit`, `RefreshNow`, `Unstick`, `Delete` | the routes |
| `ByHand`, `WriteUids` | a cohort a client writes: PATCH with a `uid_list` (with a new predicate: `Edit`), POST `/append`; the status stays and no refresh is asked for |
| `Drain`, `IdentityFound`, ..., `TailEnds` | the drain loop and the steps of a refresh with every early return |
| `Tick`, `TickGoesOn`, `BecomesOverdue`, `BecomesOld` | the cron, its watchdog, the passage of time |
| `Crash`, `Boot` | loss of the queue; `startCron()` |

Runs:

* **segment_safety** (2 segments, 2 predicate versions, 2 versions of the Cube
  model, 1 crash; rehydration, lost members, unstick, delete): fresh means the
  cohort of the stored predicate, the stored query is the translation of the
  stored tree, and nothing is shown as refreshing without a refresh, as long as
  nobody edits or re-requests a segment in the middle of its own refresh or
  writes its cohort by hand. Two
  segments are the least with a queue behind a refresh.
* **segment_liveness** (2 segments, 1 crash, requests in flight): no segment is
  shown as refreshing or stale for ever.
* **segment_edits** (1 segment, 3 versions, 1 crash, edits and requests in
  flight, cohorts written by hand): if Cube answers at last (`Answers`), an edit
  that was dropped from the queue reaches the cohort all the same, and the
  cohort of the predicate replaces what a client has written over it.

What happens without those assumptions is under the known limits in section 10.

Fairness: microtasks run, every await of a refresh is bounded by a timeout,
time passes, a dead gateway is restarted. `Tick` has strong fairness: the
interval timer goes off however often other macrotasks come between, while
`Quiet`, its guard, is false for an instant after each of them. `Answers` is the
assumption that a refresh tried again and again succeeds; it is the antecedent
of `EditReachesCohort` and of nothing else. Liveness is claimed for segments
with a cadence.

## 6. CubeLoad

| Model | Code |
|---|---|
| `request` | the locals of `handleLoad` for each connection: owner, query, `gone` (the client's abort signal), the entry it awaits, what it was told |
| `upstream` | the `InflightEntry` a request started as a leader: refcount, abort signal, and whether its poll loop fetches or pauses |
| `inflight`, `globalInFlight`, `ownerInFlight` | the module's map and counters |
| `cache` | the result cache's Map in insertion order |
| `Served`, `Follow`, `Lead`, `Rejected` | `handleLoad` and `admitLoad` up to the await |
| `Fetched`, `ContinueWait`, `PauseEnds` | `forwardLoadWithContinueWait` |
| `Settled`, `Release` | the `finally()` of the entry and the end of every handler that awaits it |
| `Closes` | the close event of a response before it is finished |
| `Expires` | an entry's TTL |

A request is named by its connection, which issues one `/load` after the other;
the leader of an entry cannot return before its entry settles, which is why the
entry can be named by its leader. A client that leaves before its handler
listens to the close event counts as connected, as in the code.

`SharedCalls` says what clients and Cube see of this, without entries,
refcounts, counters, polls or the order of the cache: a client gives a query and
is served from what is stored, joins the call of that query, starts one or is
refused; calls end for all who share them, with one answer; stored rows are
forgotten at any time. A refusal needs a met cap, a start needs a free slot,
what is stored is never asked of Cube again, and a call is cut short only if one
of its clients has left. It keeps the code's known weakness: one who has left is
enough, so a client who joined after it is cut off too (section 10). The mapping
reads the payer of a call off the leader its key leads to, its sharers off the
handlers that wait for the key, and what is stored off the entries that have not
expired; the hidden state (`refcount`, `aborted`, `polls`, the counters) is what
the implementation uses to keep the promise.

Runs:

* **load_safety** (3 connections, 2 owners, 2 scopes, a cacheable and an
  uncacheable body, caps 2 and 1, one cache entry, one poll): slots,
  refcounts and the in-flight map are exact, rows are those of the request's
  own query, and abandoned queries are not polled. Three connections are a
  leader, a follower and a competitor; each cap is met. That the caps hold
  (`CapsRespected`) follows from exact slots and is proved, not run; so are the
  types and the bound of the cache (`TypeOK`).
* **load_liveness** (3 connections of one owner, 1 scope, a cacheable and an
  uncacheable body, two polls): every request is answered, and the proxy
  implements `SharedCalls`. Two owners and two scopes are in the other run:
  a refinement is checked without symmetry, and takes too long with them. The
  mutant looks past the TTL of a stored result.

Fairness: a fetch is bounded by the rest of the wait budget and a pause by a
timer. Which answer Cube gives is not constrained: only the budget (`MaxPolls`)
ends a query that Cube keeps deferring, which is what the mutant of
`RequestsAnswered` removes.

## 7. CarePrecompute

| Model | Code |
|---|---|
| `segs`, `cache` | `segments` (membership, `last_refreshed_at`), `segment_care_cache` (payload, `computed_at`); `gen` is the membership a payload was built from, `built` is history |
| `chain`, `build` | the serial promise chain, the job at its head and what it read of its row |
| `pass` | `draining` and `rewarmingAll`, each with the rest of its loop |
| `trigger` | `lastTriggerAt` |
| `reader` | requests that build by themselves because the cache is cold |
| `Tick`, `Trigger`, `Rewarm` | `maybeRunCarePrecompute`, `triggerCarePrecompute`, `triggerCareRewarmAll` |
| `Built`, `BuildFails`, `Vanished`, `DbFails` | the ends of `precomputeOneCareSegment`: written, marked failed, no row, a write that throws |
| `Open`, `Answer` | GET /api/segments/:id/cs-care |
| `Refresh`, `Delete`, `Advance`, `Crash` | the membership, deletion, time, restarts |

Run **care_passes** (2 segments, 1 request, two instants of which the second is
in the window, one refresh; Trino and SQLite fail, restarts, deletion): the two flags
are exact (`PassExact`), no good payload is lost or replaced by one that
finished earlier, a payload of an old membership that passes for current was
overtaken by the refresh during its own build and by nothing else
(`StaleIsOverlapped`), passes end, and what is due in the window is built in the
end. Two segments are a pass with a rest. Only `a` changes, to keep the run
within minutes; a third instant (a closed night after an open one) was checked
for the safety part when the module was written, and the safety theorems hold
for any clock and window. Typing is proved (`TypeCorrect`), not run.

Fairness: a build ends (each read of Trino has a timeout of 120 s), the cron
ticks every minute, and a build that is tried again and again succeeds in the
end (strong fairness on `Built`; needed by `DueIsBuilt` only). A restart takes
time, so there are finitely many.

## 8. CareCases

| Model | Code |
|---|---|
| `match` | the cohorts of the playbooks, as each workspace's Cube model gives them |
| `ledger` | the rows of `care_cases` of one game that are neither resolved nor dismissed, by `(playbook, uid)` (`ux_open_case`) |
| `sweep` | the handlers: a call of `executeSweep`, with its workspace and scope, the await it is in, and the playbooks its pool has not settled |
| `inFlight` | the executor's lock map |
| `Claim`, `Members`, `Applied`, `QueryFails`, `ApplyFails`, `Profiled` | `executeSweep` with `runCaseSweep` and the engine, from lock to unlock |
| `Entered`, `Exited`, `Worked` | `membershipDiff`, `applyMembershipResult`: open, flag or, in a sweep of one playbook, prune |
| `Continue`, `Throw` | the next await, the return, or a rejection, which frees the lock and leaves the other workers running |
| `Tick`, `Eligible`, `Skipped` | `careAutoSweepTick`: lock looked at, probe awaited, `executeSweep` |
| `PostSweep`, `Reset`, `ResetAndSweep`, `Patch` | the routes |
| `Moves`, `Crash` | the warehouse; loss of the lock and the handlers |

A cohort is applied as it is when it answers; the pool of six settles in any
order. Closed rows are not kept: an operator may reopen any. Neither is the
workspace that opened a case: a reset clears any subset. Cases belong to the
game but the lock to a workspace, so a sweep of one workspace flags or prunes cases
another opened; the evidence required is that of the sweeping workspace.

* **care_sweeps** (2 workspaces, 2 playbooks, 1 user, a cron and a manual
  sweep; /meta, queries and SQLite fail, restarts): the lock is held exactly by
  the running sweep, a case is ended or flagged only on evidence, and a user who
  stays in a cohort gets a case in the end. Two playbooks are one worker
  that fails beside another.
* **care_identity**: section 10.

Fairness: awaits of Cube end. `Answers`, that ticks find the lock free again and
again and that Cube answers them again and again, is the antecedent of
`MatchedGetsCase` and of nothing else; the mutant (the lock stays when a sweep
throws) violates it because a tick finds the lock free only if somebody frees it:
`Tick` is then never enabled, and strong fairness asks nothing of it.

## 9. Proofs

All proofs hold for every value of the constants allowed by the modules'
`ASSUME`s. Each `*_proofs` module proves `Init => IInv`, `IInv /\ [Next]_vars =>
IInv'`, one lemma per action or family of actions, and then the theorems.
`IInv` is in the component's module, and TLC has checked it.

* **ChatTurn_proofs**: `TypeCorrect`, `MutualExclusion`, `RowsStayInOrder`,
  `AnswersMatchQuestions`. "The answer lands right behind its question" is not
  inductive: a handler in the middle says nothing about the rows. The
  strengthening (`PendingInv`) is that from registration on the session's last
  row is the handler's own question at `userIdx`, or, after a failed cache
  replay, that the turn's row exists. It survives other handlers because of
  `MutexInv` (a live handler holds the mutex of its session and nobody else
  does) and the creation of sessions because of `FreshInv` (an unused id has no
  rows and no handler). `EndsWithAnswer` needs "db_fails" outside `Env`,
  `AbortsAreStamped` needs "cache" outside it, and `NoLateAbort` one of the two:
  the statements say so because the code violates them otherwise.
  `AbortsAreStamped` compares the row with the entry, so its invariant
  (`StampInv`) also says that the entry of an aborted turn has a reason
  (`ReasonInv`), and each step that the entry keeps it once the turn has ended.
  `RunningIsReachable` ("stale_id" outside `Env`) needs two more invariants.
  `AliasInv`: only a compacted session has an alias, which leads to a session
  that exists, and a rank of the sessions falls along the aliases and leaves room
  for those not yet created; so every chain of aliases ends. `KeyedInv`: the
  entry of a running turn is under the id to which both ids of the turn resolve;
  it is kept when the session at the end of a chain is compacted (its
  entries are rekeyed) and when the sweeper prunes an alias (an alias whose
  chain leads to a running entry is kept). That a walk along the aliases ends is
  shown with the least number of a non-empty set (`WellFoundedInduction`), not
  with an induction theorem.
  Two liveness theorems have fairness and `[]NeverStuck` as hypotheses.
  `TurnsComeToEnd` goes by the stages of a handler (preparation, lookup, stream,
  salvage) and rests on `ArmedInv`: a turn that streams has its timer armed or has
  been aborted. `QuestionsGetAnswers` adds that the handler of a question works
  on it until it is answered or the process dies; `QuestionsAreOwned` (`OwnedInv`)
  says that there is such a handler, and the boot's sweep marks what a crash
  has left. The prover treats ENABLED as an unknown, so that a step can be taken
  where it is due cannot be derived from the actions; it is the invariant
  `NeverStuck`, which TLC checks (with every fault of `Env` as well, when it was
  written). No induction over time is needed, because a handler has a fixed
  number of stages.
* **ConversationRefinement**: `Implementation`, that ChatTurn implements
  `Conversation`: one lemma per family of actions, each of which shows the
  abstract step or the stutter, from the same `IInv`.
* **StreamReplay_proofs**: the service's half, for every fault: `ServiceCorrect`
  (`ServiceInv`: the ring is the tail of the events, numbered without a hole, and
  wires, handlers and connections agree), `TypeCorrect`, `ListenersCorrect`.
  **StreamReplayPage_proofs** adds the page, with "late_end" outside `Env`:
  `ShownIsExact`, `DoneWhole`, `HandleIsOwned`. The strengthening (`LoopInv`) is
  that what a live loop has applied and what is still on its wire are together the
  events from the offset it asked for; it needs the one live loop, and that the
  entry holds its handle. Late events need `Placed`: in the ring and on the wire
  `done` is the last event up to `finishedAt`, and what lies behind that is of a
  tool. `TurnViewImplemented`, that StreamReplay implements `TurnView`, goes in
  two halves: a step of the service leaves the page alone and begins, moves, ends,
  loses or, once it has ended, adds to at most one turn (`TurnStep`, one lemma per
  action), and a step of the page leaves the turns alone. It needs `ViewInv`
  (`ViewCorrect`): one turn at most is running, so that a restart loses only one;
  a ring drops nothing before it is full, so that an offset of 0 or `startOffset`
  is no later than the oldest event that is kept; a turn that is known has an
  event; and `EndFinal`: what comes behind `done` is the end of the stream, and
  events of a late tool before it, so that no network error turns a whole view
  into a failed one, and an overflow is all its request brings, so that the retry
  finds the view as empty as it leaves it. All of the page's theorems have
  "late_end" outside `Env` as a hypothesis, because the code violates them
  otherwise (section 10).
* **CarePrecompute_proofs**: `TypeCorrect`, `FlagsExact`,
  `StaleOnlyIfOverlapped`, `GoodPayloadKept`. The strengthening (`ReadInv`) is
  that what a build has read is the membership of now unless a refresh came since,
  for the chain's job, for each request and for each payload.
* **CareCases_proofs**: `TypeCorrect`, `LockCorrect`, `EvidenceOnly` (with
  "identity_fails" outside `Env`), and `SweepsApart`: as long as no write
  throws, two sweeps of a workspace never work on the ledger at once. With
  failing writes only a handler that still runs holds the lock, and the pool of one
  that has failed is a "leftover" (`PoolInv`).
* **SegmentRefresh_proofs**: `TypeCorrect`, and under `Undisturbed` (no
  request touches a segment in the middle of its own refresh or writes a cohort by
  hand) `FreshIsCurrent`
  and `QueryIsCurrent`; `RefreshingHasRefresh` also under `NoCube = {}`. The
  assumptions are in the statements because the code violates the properties
  without them (section 10). The strengthening (`JobInv`) is that what the
  running refresh remembers of its row still holds, in particular that a prior
  status of "fresh" it may restore is still deserved.
* **CubeLoad_proofs**: `TypeCorrect`, `SlotsCorrect`, `CapsHold`,
  `OneUpstreamPerKey`, `WaitersHaveCall`, `RefcountCorrect`, `AnswersAreOwn` and
  the action property `OrphansStop`. `LeaderInv` relates waiting handlers to live
  entries with their key; `OrphanInv` says that an entry without clients has been
  aborted and is in its pause, which is what makes the check at the end of the
  pause sufficient; `CacheInv` says that rows are kept under the key of the query
  they answer. The counters are cardinalities, so each step that adds or removes
  an entry uses the library's facts on finite sets; the cache lemmas (`MapRemove`,
  `MapAppend`, `MapTail`, `MapReplace`) say that the operations on the sequence
  keep it a Map. `SharesCalls`, that CubeLoad implements `SharedCalls`, has a
  lemma per step on top of `IInv` and needs two more invariants: `AbortInv` (the
  leader of an aborted entry has left, which is why somebody who shares a call
  that is cut short has left) and `StoredInv` (nothing uncacheable is stored,
  which is why a query that misses is not among what is stored). `RoomIs` shows
  that the counters tell exactly whether the abstract caps are met: leaders and
  keys of calls in flight are paired one to one. `LastClient` shows that a
  refcount of zero means that the client who leaves was the last one connected.

Model-checked only: `NeverStuck` (ENABLED) and the liveness properties of the
other components (`RefreshingEnds`, `StaleIsRetried`, `EditReachesCohort`,
`RequestsAnswered`, `WaitingEnds`, `PassesEnd`, `DueIsBuilt`, `MatchedGetsCase`).
Each of them holds because something shrinks: a queue, the rest of a pass, the
polls left, the bytes under way, the playbooks of a pool. That is an induction
whose step is a temporal formula, which the provers cannot instantiate.

## 10. Where the code and its comments disagree

Runs that TLC must find violated; each quotes its comment in `PROJECT.json`.

* **chat_salvage**: a timer that fires between an accepted cancel and the end
  of the runner overwrites the abort reason, and the cancelled turn is salvaged
  ("User cancels are NOT salvaged").
* **care_identity**: when /meta cannot be fetched while the identity field of a
  cohort is looked up, `makeCubeCohortFetcher` returns an empty cohort; the
  sweep takes every open case for one of a user who has left, flags it, or
  deletes it in a sweep of one playbook, and records an 'ok' run. The failed
  query of the same cohort is skipped instead, as the comment there asks.

Known limits seen while modelling; the passing runs exclude them explicitly:

Segments and chat:

* An abort that comes when the SDK's result has been read, and before the runner
  has ended, is told to the client (`turn_aborted`) and not on record: the row is
  appended with the abort reason (`api/turn.ts:703-724`, `861-876`), and
  `bufferedRecorder.flush()` (`api/turn.ts:738`, `887`) then overwrites it with
  the SDK's `stop_reason` (`observability/llm-trace-recorder.ts:138-140`). The
  comment at `api/turn.ts:694` speaks of the other order only ("the SDK stream
  ends WITHOUT a `result` message"). `AbortStamped` exempts an
  aborted turn whose row bears that `stop_reason`, and no other.
* PATCH with a `uid_list` and POST `/append` change the cohort of a segment and
  leave its status (`routes/segments.ts:1110-1116`, `1374-1378`): a fresh segment
  then shows a cohort that is not that of its predicate, until the cadence comes
  round. `FreshMeansCurrent` is checked without "by_hand", and
  `EditReachesCohort` with it.
* A client that posts with a compacted session's id compacts it again and
  replaces the alias through which the first turn is found
  (`api/turn/precheck-auto-compact.ts:74`, `sessions.ts:207`):
  `ReachableAfterRefresh` is checked and proved without "stale_id".
* A turn whose compaction failed goes on in its session; the next post may
  compact that session under it, and a reload with either id then finds
  two running turns of one lineage and attaches to the first in the registry
  (`sessions.ts:207`). `ReachableAfterRefresh` admits exactly this case.
* An edit of a segment in the middle of its refresh is dropped from the queue
  (`jobs/refresh-queue.ts:23`) as "a redundant back-to-back refresh of the exact
  cohort still being computed" (line 19), although that refresh read the row
  before the edit: the old cohort is shown as fresh until the cadence comes round.
  `FreshMeansCurrent` is checked without "edit_in_flight", and
  `EditReachesCohort` with it.
* A rehydration stores a query translated from the tree it read before its
  awaits (`jobs/refresh-segment.ts:158`): the tree of an edit that lands during
  these awaits keeps its predecessor's query. `QueryMatchesTree` is checked
  without "edit_in_flight".
* An upstream call whose last client has left stays joinable during the pause
  between two polls (`cube-load-admission.ts:92`, `cube-proxy.ts:241`): a client
  that joins it then is told 499 "Client disconnected". `ConnectedNotCut` in
  `CubeLoad` states that this does not happen; no run checks it.
* A cancel (202) that lands while the response cache is looked up has no effect
  on a hit: the row says `end_turn` (`api/turn/try-response-cache-hit.ts:117`).
  `AbortStamped` is checked without "cache".
* After a restart within 30 seconds the interrupted question is too young for
  the sweep and stays unmarked until a later boot
  (`db/sweep-orphaned-inflight-turns.ts:31`). `QuestionsAnswered` is checked
  without "quick_restart".
* An exception between `register()` and `try` in `api/turn.ts` leaks the mutex
  and leaves the question bare in a process that lives on ("prep_throws").
* A segment without a cadence that a restart or a transient failure leaves
  stale is never listed again (`jobs/cron-runner.ts:62`): the runs' segments
  have one.
* A predicate segment created without a cube is stored as refreshing and its
  refresh returns at once (`jobs/refresh-segment.ts:103`): `NoCube = {}`.
* `cube-load-admission.ts:16` says that shared queries have the same "actor
  scope"; the key has workspace, game, method and query, and no actor, so
  queries are shared across owners of a workspace (modelled so: `Owner` is not
  part of `KeyOf`). Queries that do not parse share one key (`null`), and the
  other parameters of a GET (`queryType`) are not part of it; `OwnAnswer`
  is about what the key distinguishes, the scope and the body.

Stream replay:

* A tool that outlives its turn (it awaits Cube at
  `tools/emit-query-artifact.ts:208` and emits at `258`, with no look at the abort;
  the listeners of `api/turn.ts:424-456` stay attached) appends to the ring behind
  `done`, although `core/stream-registry.ts:177-178` says of a finished turn
  "no new events will arrive". A replay shows the event, the stored row does not
  have it. `TurnView` allows it; the page's "done" survives it.
* The loop's `finally` strips the handle of whatever entry is there
  (`chat-stream-store.ts:395-406`). A turn started between the done event of its
  predecessor and the end of that stream would lose its handle; the service
  writes both in one task, so the run and the proofs leave "late_end" out.
* A session fetched before its turn finished can attach to the finished turn; a
  turn that was attached once is not attached again after a reset; a second 409
  leaves the page idle while the turn may run on.

Care precompute:

* The route that appends members (`routes/segments.ts:1377`) and PATCH change
  the membership without `last_refreshed_at`, so no pass takes the payload for
  stale. In the model only refreshes change it.
* A refresh during a build leaves a payload of the old membership that counts
  as current until the next night (`StaleIsOverlapped` says that this is the only
  way). Interactive builds are not on the chain: of two builds the one that
  ends last is kept. A request whose build fails serves what it had read before
  its await (`routes/segment-cs-care.ts:98-104`).
* `recordCareRun` is "best-effort by contract"
  (`db/segment-care-run-store.ts:8`) and called without a catch: when it throws
  after the payload was written the row is marked as an error, and when it throws
  in the catch the job rejects, which cuts the pass short and, in a full rewarm,
  is an unhandled rejection (`DbFails`, `Rejected`).
* A segment whose build fails is tried again every minute of the window.

Care cases:

* A write that throws in one worker rejects the sweep and frees its lock, while
  the pool's other workers go on beside the next sweep
  (`services/bounded-concurrency.ts`), contrary to `care-sweep-execute.ts:7-9`
  and to `care-case-sweep.ts:142` ("A failure here is isolated to this
  playbook"). `NoOverlap` is proved without "db_fails".
* A failing /meta makes every playbook unavailable: the sweep records an 'ok'
  run with everything skipped, not the 'error' run that the comment at
  `care-sweep-execute.ts:179` expects; the cron records nothing.
* A probe of the data anchor that fails falls back to today
  (`care/resolve-data-anchor.ts:104-111`), which may empty a windowed cohort, and
  a cohort is one page of 50 000 rows (`care-case-sweep.ts:32`): both would look
  like users who left. The model's cohorts are whole.
* The lapsed flag is not cleared when the user comes back; a dismissed or
  resolved case of a user who still matches is opened again by the next sweep.
* There is no sweep at boot: a process restarted more often than every six
  hours never sweeps (`jobs/care-auto-sweep.ts:28`). `Answers` excludes it.

## 11. Not modelled

* Stateless code: tools, NL-to-query, authorisation decisions, playbook merge,
  statistics, the SPA's views. There are no steps to interleave; unit tests
  reach it.
* CRUD in single SQLite statements: dashboards, analyses, glossary, metrics,
  preferences.
* External systems: Cube, Trino, Keycloak and the model provider are choices of
  the environment.
* In ChatTurn: explicit compaction, soft deletion in the middle of a turn, key
  failover. In StreamReplay: renaming of a session by an event, reference counts,
  pruning and aliases of the store's maps, several tabs. In SegmentRefresh: manual
  segments, what the tail writes to other tables, the other jobs of a tick. In
  CubeLoad: the pass-through routes and telemetry. In CarePrecompute: the paying
  sub-scope's own cache, run rows, status columns, the Member 360 scheduler. In
  CareCases: the rows of `care_sweep_runs`, progress display, VIP profiles,
  trigger playbooks, SLA and aggregates, more than one game (locks and cases are
  per game).
* The repository is far larger than its concurrent core: most of its lines are
  the SPA's views, connectors, vendored viewers and generated data, for which a
  state machine would restate the code.

## 12. Plan

Done: `ChatTurn`, `Conversation` and its refinement, `StreamReplay`,
`TurnView` and its refinement, `SegmentRefresh`, `CubeLoad`, `SharedCalls` and its
refinement, `CarePrecompute`, `CareCases`, each with its proofs.

Next, in this order:

1. `SingleFlightCache`: the liveops, card and dashboard-tile caches.
2. `RateWindow`: the API-key and chat limiters at their boundaries;
   `KeyFailover`: cooldowns and promotion of LLM keys.
3. `Alerts`: alert rules, anomaly state and digests with cooldowns and failed
   deliveries.
4. `Experiments` (assignment stable and disjoint), `OnboardingDraft`.

Theorems to add, with those modules: single flight; window bounds.
