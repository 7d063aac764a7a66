--------------------------- MODULE CarePrecompute ---------------------------
(***************************************************************************)
(* The durable cache of the Care tab: the nightly precompute, the manual   *)
(* triggers and the serial chain they share                                *)
(* (services/care-precompute-scheduler.ts), and the interactive route that *)
(* builds beside that chain (routes/segment-cs-care.ts), against segment   *)
(* refreshes, deletions, failures and restarts.                            *)
(*                                                                         *)
(* The gateway is single-threaded: an action is what runs between two      *)
(* awaits of Trino, with the promise reactions it sets off.                *)
(***************************************************************************)
EXTENDS Integers, Sequences, SequencesExt

CONSTANTS Segment,      \* predicate segments of games with CS coverage
          Reader,       \* requests to GET /api/segments/:id/cs-care
          Window,       \* the instants inside the nightly window
          Cooldown,     \* TRIGGER_COOLDOWN_MS
          Ttl,          \* CACHE_TTL_MS
          MaxClock,     \* bound: the instants
          MaxRefreshes, \* bound: the refreshes of a segment
          Changing,     \* bound: the segments that are refreshed, deleted, opened
          Env           \* what may happen: see Environment

\* "build_fails": Trino; "db_fails": a write to SQLite throws.
Environment == {"build_fails", "db_fails", "crash", "delete"}

ASSUME CarePrecomputeAssumption ==
    /\ IsFiniteSet(Segment)
    /\ MaxClock \in Nat /\ MaxRefreshes \in Nat
    /\ Cooldown \in Nat \ {0} /\ Ttl \in Nat \ {0}
    /\ Window \subseteq 0 .. MaxClock
    /\ Changing \subseteq Segment
    /\ Env \subseteq Environment

VARIABLES
    clock,    \* instants: several events may share one
    segs,     \* rows of segments
    cache,    \* rows of segment_care_cache
    chain,    \* the jobs of the serial chain, the running one first
    build,    \* what the running job has read
    pass,     \* draining and rewarmingAll, each with what its loop has left
    trigger,  \* lastTriggerAt
    reader    \* the requests that build

vars == <<clock, segs, cache, chain, build, pass, trigger, reader>>

Instant == 0 .. MaxClock
None    == -1
Source  == {"cron", "rewarm", "manual"}
Loop    == {"cron", "rewarm"}

\* gen counts the refreshes: the membership that uid_list_json holds.
Row   == [exists : BOOLEAN, gen : 0 .. MaxRefreshes, refreshed : Instant \cup {None}]
\* What a build has read of the row, and when; found says that there was a row.
Read  == [found : BOOLEAN, gen : 0 .. MaxRefreshes, from : Instant]
Job   == [seg : Segment, source : Source]
\* gen is the membership of the payload, None if there is none. built is
\* history: when the build of the payload began and ended.
Care  == [gen : 0 .. MaxRefreshes \cup {None}, computed : Instant \cup {None},
          built : [from : Instant, to : Instant]]
Pass  == [on : BOOLEAN, rest : Seq(Segment)]
Request == [seg : Segment, read : Read]

NoRead == [found |-> FALSE, gen |-> 0, from |-> 0]
Off    == [on |-> FALSE, rest |-> <<>>]
NoCare == [gen |-> None, computed |-> None, built |-> [from |-> 0, to |-> 0]]

Init ==
    /\ clock = 0
    /\ segs = [s \in Segment |-> [exists |-> TRUE, gen |-> 0, refreshed |-> None]]
    /\ cache = [s \in Segment |-> NoCare]
    /\ chain = <<>> /\ build = NoRead
    /\ pass = [l \in Loop |-> Off]
    /\ trigger = [s \in Segment |-> None]
    /\ reader = [r \in Reader |-> {}]
-----------------------------------------------------------------------------
(* The cache rows. *)

\* writeCareCache of a payload built from what was read.
Written(read) == [gen |-> read.gen, computed |-> clock,
                  built |-> [from |-> read.from, to |-> clock]]

\* A failed attempt replaces the row, or dates it.
BugReplaced(c) == [c EXCEPT !.gen = None, !.computed = None]
BugDated(c)    == IF c.gen = None THEN c ELSE [c EXCEPT !.computed = clock]

\* markCareAttempt: the payload and its date stay.
Marked(c) == c

WindowStart ==
    CHOOSE n \in 0 .. clock : /\ n .. clock \subseteq Window
                              /\ n = 0 \/ n - 1 \notin Window

\* A segment that was never computed has no row to join.
BugListed(s) ==
    /\ segs[s].exists
    /\ cache[s].computed # None
    /\ cache[s].computed < WindowStart \/ segs[s].refreshed > cache[s].computed

\* The membership was refreshed after the payload was computed.
Newer(s) == segs[s].refreshed # None /\ segs[s].refreshed > cache[s].computed

\* listDueCareSegments, inside the window.
Listed(s) ==
    /\ segs[s].exists
    /\ \/ cache[s].computed = None
       \/ cache[s].computed < WindowStart
       \/ Newer(s)
-----------------------------------------------------------------------------
(* The serial chain. *)

\* A job reads its row when it begins, which is when it comes first.
ReadOf(s) == [found |-> segs[s].exists, gen |-> segs[s].gen, from |-> clock]

\* runSerial.
Enqueued(job) ==
    /\ chain' = Append(chain, job)
    /\ build' = IF chain = <<>> THEN ReadOf(job.seg) ELSE build

\* The first iteration of a loop over ids.
Begin(l, ids) ==
    /\ pass' = [pass EXCEPT ![l] = [on |-> TRUE, rest |-> Tail(ids)]]
    /\ Enqueued([seg |-> Head(ids), source |-> l])

\* maybeRunCarePrecompute, from the minute's tick; the list is in some fixed order.
Tick ==
    /\ clock \in Window
    /\ ~pass["cron"].on
    /\ \E s \in Segment : Listed(s)
    /\ Begin("cron", SetToSeq({s \in Segment : Listed(s)}))
    /\ UNCHANGED <<clock, segs, cache, trigger, reader>>

\* triggerCarePrecompute.
Trigger(s) ==
    /\ trigger[s] = None \/ clock - trigger[s] >= Cooldown
    /\ trigger' = [trigger EXCEPT ![s] = clock]
    /\ Enqueued([seg |-> s, source |-> "manual"])
    /\ UNCHANGED <<clock, segs, cache, pass, reader>>

\* triggerCareRewarmAll; with no segment the loop is over at once.
Rewarm ==
    /\ ~pass["rewarm"].on
    /\ \E s \in Segment : segs[s].exists
    /\ Begin("rewarm", SetToSeq({s \in Segment : segs[s].exists}))
    /\ UNCHANGED <<clock, segs, cache, trigger, reader>>

\* Everything the process holds is lost; a restart takes time.
Lost ==
    /\ clock < MaxClock
    /\ clock' = clock + 1
    /\ chain' = <<>> /\ build' = NoRead
    /\ pass' = [l \in Loop |-> Off]
    /\ trigger' = [s \in Segment |-> None]
    /\ reader' = [r \in Reader |-> {}]

\* The flag is not reset when a job rejects.
BugLoopEnds(l, rejects) ==
    IF rejects THEN [pass EXCEPT ![l].rest = <<>>] ELSE [pass EXCEPT ![l] = Off]

\* The loop of l ends: its list is done, or a job has rejected.
LoopEnds(l, rejects) == [pass EXCEPT ![l] = Off]

\* The first job has settled: its loop enqueues the next segment, and the
\* chain goes on with whatever is first now.
Settled(source, rejects) ==
    LET goesOn == source \in Loop /\ ~rejects /\ pass[source].rest # <<>>
        next   == IF goesOn THEN Append(Tail(chain), [seg |-> Head(pass[source].rest),
                                                      source |-> source])
                            ELSE Tail(chain)
    IN /\ chain' = next
       /\ build' = IF next = <<>> THEN NoRead ELSE ReadOf(next[1].seg)
       /\ pass' = IF source \notin Loop THEN pass
                  ELSE IF goesOn THEN [pass EXCEPT ![source].rest = Tail(@)]
                  ELSE LoopEnds(source, rejects)
       /\ UNCHANGED <<trigger, reader>>

\* A rejection of the rewarm's own promise is handled nowhere: the process ends.
Rejected(source) ==
    \/ source # "rewarm" /\ Settled(source, TRUE) /\ UNCHANGED clock
    \/ source = "rewarm" /\ Lost

\* precomputeOneCareSegment: the build succeeds.
Built(s) ==
    /\ chain # <<>> /\ chain[1].seg = s
    /\ build.found
    /\ cache' = [cache EXCEPT ![s] = Written(build)]
    /\ Settled(chain[1].source, FALSE)
    /\ UNCHANGED <<clock, segs>>

\* The build throws, or writes what it built and then cannot record it.
BuildFails(s) ==
    /\ chain # <<>> /\ chain[1].seg = s
    /\ build.found
    /\ \/ /\ Env \cap {"build_fails", "db_fails"} # {}
          /\ cache' = [cache EXCEPT ![s] = Marked(@)]
       \/ "db_fails" \in Env /\ cache' = [cache EXCEPT ![s] = Marked(Written(build))]
    /\ Settled(chain[1].source, FALSE)
    /\ UNCHANGED <<clock, segs>>

\* The job of a segment that has gone is tried again later.
BugVanished(s) ==
    /\ chain # <<>> /\ chain[1].seg = s
    /\ ~build.found
    /\ chain' = Append(Tail(chain), Head(chain))
    /\ build' = ReadOf(Head(chain').seg)
    /\ UNCHANGED <<clock, segs, cache, pass, trigger, reader>>

\* The segment has gone.
Vanished(s) ==
    /\ chain # <<>> /\ chain[1].seg = s
    /\ ~build.found
    /\ Settled(chain[1].source, FALSE)
    /\ UNCHANGED <<clock, segs, cache>>

\* A write throws where the job does not catch it, perhaps after others.
DbFails(s) ==
    /\ "db_fails" \in Env
    /\ chain # <<>> /\ chain[1].seg = s
    /\ \/ UNCHANGED cache
       \/ build.found /\ cache' = [cache EXCEPT ![s] = Marked(@)]
       \/ build.found /\ cache' = [cache EXCEPT ![s] = Marked(Written(build))]
    /\ Rejected(chain[1].source)
    /\ UNCHANGED segs
-----------------------------------------------------------------------------
(* The interactive route. *)

Warm(s) == cache[s].gen # None /\ clock - cache[s].computed < Ttl

\* The tab is opened and the cache is cold: the request builds by itself.
Open(r, s) ==
    /\ reader[r] = {}
    /\ s \in Changing /\ segs[s].exists /\ ~Warm(s)
    /\ reader' = [reader EXCEPT ![r] = {[seg |-> s, read |-> ReadOf(s)]}]
    /\ UNCHANGED <<clock, segs, cache, chain, build, pass, trigger>>

\* The request's build ends; a failure serves what was cached, or a 502.
Answer(r) ==
    \E q \in reader[r] :
        /\ \/ cache' = [cache EXCEPT ![q.seg] = Written(q.read)]
           \/ /\ Env \cap {"build_fails", "db_fails"} # {}
              /\ cache' = [cache EXCEPT ![q.seg] = Marked(@)]
           \/ "db_fails" \in Env /\ UNCHANGED cache
        /\ reader' = [reader EXCEPT ![r] = {}]
        /\ UNCHANGED <<clock, segs, chain, build, pass, trigger>>
-----------------------------------------------------------------------------
(* What goes on around them. *)

\* refreshSegment stores a new membership.
Refresh(s) ==
    /\ s \in Changing /\ segs[s].exists /\ segs[s].gen < MaxRefreshes
    /\ segs' = [segs EXCEPT ![s].gen = @ + 1, ![s].refreshed = clock]
    /\ UNCHANGED <<clock, cache, chain, build, pass, trigger, reader>>

\* DELETE /api/segments/:id; the cache row stays.
Delete(s) ==
    /\ "delete" \in Env
    /\ s \in Changing /\ segs[s].exists
    /\ segs' = [segs EXCEPT ![s].exists = FALSE]
    /\ UNCHANGED <<clock, cache, chain, build, pass, trigger, reader>>

Advance ==
    /\ clock < MaxClock
    /\ clock' = clock + 1
    /\ UNCHANGED <<segs, cache, chain, build, pass, trigger, reader>>

Crash ==
    /\ "crash" \in Env
    /\ Lost
    /\ UNCHANGED <<segs, cache>>

Next ==
    \/ Tick \/ Rewarm \/ Advance \/ Crash
    \/ \E s \in Segment : \/ Trigger(s) \/ Built(s) \/ BuildFails(s) \/ Vanished(s)
                          \/ DbFails(s) \/ Refresh(s) \/ Delete(s)
    \/ \E r \in Reader, s \in Segment : Open(r, s)
    \/ \E r \in Reader : Answer(r)

\* Reads of Trino time out, the cron ticks every minute, and a build that is
\* tried again and again succeeds in the end.
Fairness ==
    /\ WF_vars(Tick)
    /\ \A s \in Segment :
           /\ WF_vars(Built(s) \/ BuildFails(s) \/ Vanished(s) \/ DbFails(s))
           /\ SF_vars(Built(s))

Spec == Init /\ [][Next]_vars /\ Fairness
-----------------------------------------------------------------------------
TypeOK ==
    /\ clock \in Instant
    /\ segs \in [Segment -> Row]
    /\ cache \in [Segment -> Care]
    /\ chain \in Seq(Job) /\ build \in Read
    /\ pass \in [Loop -> Pass]
    /\ trigger \in [Segment -> Instant \cup {None}]
    /\ reader \in [Reader -> SUBSET Request]

(* draining and rewarmingAll are set exactly while their loop has a job on *)
(* the chain, and it has one at a time: no pass overlaps itself, and no    *)
(* failure leaves a flag that would block the passes to come               *)
(* (care-precompute-scheduler.ts lines 178-191, 224-238).                  *)
PassExact ==
    \A l \in Loop :
        LET jobs == {i \in DOMAIN chain : chain[i].source = l}
        IN /\ \A i, j \in jobs : i = j
           /\ pass[l].on <=> jobs # {}
           /\ ~pass[l].on => pass[l].rest = <<>>

(* A payload of an older membership that the nightly pass would take for   *)
(* current was being built when the refresh landed: failures and attempts  *)
(* on the side never make a payload look newer than it is, whatever runs   *)
(* beside it (segment-care-cache-store.ts lines 63-101).                   *)
StaleIsOverlapped ==
    \A s \in Segment :
        cache[s].gen \notin {None, segs[s].gen} /\ ~Newer(s) =>
            segs[s].refreshed \in cache[s].built.from .. cache[s].built.to

(* The last good payload is never lost, and never replaced by one that     *)
(* finished earlier (057-segment-care-cache.sql lines 9-15).               *)
LastGoodKept ==
    [][\A s \in Segment :
           /\ cache[s].gen # None => cache'[s].gen # None
           /\ cache'[s].computed >= cache[s].computed]_vars

(* A pass ends, whatever fails in it or is queued beside it, so that the    *)
(* next one can begin (care-precompute-scheduler.ts lines 105-112,         *)
(* 185-191, 227-238).                                                      *)
PassesEnd == \A l \in Loop : pass[l].on ~> ~pass[l].on

(* While the window is open, every segment whose payload is missing, from  *)
(* an earlier night or older than the membership is built in the end,      *)
(* although a pass works on the list it read at its start and a failure    *)
(* may cut it short (care-precompute-scheduler.ts lines 56-77, 177-192).   *)
Outdated(s) ==
    /\ segs[s].exists
    /\ cache[s].gen = None \/ cache[s].computed < WindowStart \/ Newer(s)

DueIsBuilt ==
    \A s \in Segment : clock \in Window /\ Outdated(s) ~> clock \notin Window \/ ~Outdated(s)
-----------------------------------------------------------------------------
(* The inductive invariant behind the safety properties. *)

\* What was read of a row is its membership of now, unless a refresh came after.
ReadInv(s, gen, from) ==
    /\ from <= clock
    /\ gen # segs[s].gen => segs[s].refreshed >= from

BuildInv == chain # <<>> => ReadInv(chain[1].seg, build.gen, build.from)

ReaderInv == \A r \in Reader : \A q \in reader[r] : ReadInv(q.seg, q.read.gen, q.read.from)

CareInv ==
    \A s \in Segment :
        /\ segs[s].refreshed <= clock
        /\ cache[s].computed <= clock
        /\ cache[s].gen # None => /\ cache[s].computed = cache[s].built.to
                                  /\ cache[s].built.from <= cache[s].built.to
                                  /\ ReadInv(s, cache[s].gen, cache[s].built.from)

IInv == TypeOK /\ PassExact /\ BuildInv /\ ReaderInv /\ CareInv
=============================================================================
