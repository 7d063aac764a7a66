------------------------------ MODULE CubeLoad ------------------------------
(***************************************************************************)
(* The gateway's proxy of Cube's /load (routes/cube-proxy.ts): admission   *)
(* control with in-flight deduplication and abort on disconnect            *)
(* (routes/cube-load-admission.ts) and the result cache                    *)
(* (routes/cube-load-result-cache.ts).                                     *)
(*                                                                         *)
(* One Node process: an action is a macrotask.  When an upstream call      *)
(* settles, its finally() and every handler that awaits it run in the same *)
(* macrotask.                                                              *)
(***************************************************************************)
EXTENDS Integers, Sequences, FiniteSets, SequencesExt

CONSTANTS Request,      \* the connections of clients, each for one /load at a time
          NoRequest,    \* no request
          Owner,        \* req.principal.sub
          Scope,        \* workspace, game and method
          Body,         \* the queries, as JSON
          Uncacheable,  \* the bodies that are realtime queries or did not parse
          MaxGlobal,    \* MAX_INFLIGHT_GLOBAL
          MaxPerOwner,  \* MAX_INFLIGHT_PER_OWNER
          MaxEntries,   \* maxEntries() of the cache
          MaxPolls      \* bound: "Continue wait" answers within the wait budget

ASSUME CubeLoadAssumption ==
    /\ IsFiniteSet(Request) /\ NoRequest \notin Request
    /\ Uncacheable \subseteq Body
    /\ MaxGlobal \in Nat \ {0} /\ MaxPerOwner \in Nat \ {0}
    /\ MaxEntries \in Nat \ {0} /\ MaxPolls \in Nat

VARIABLES
    request,        \* the locals of each request's handler
    upstream,       \* the InflightEntry each request started as a leader
    inflight,       \* the map from a key to the leader of its entry
    globalInFlight, ownerInFlight,
    cache           \* the store, in its insertion order

vars == <<request, upstream, inflight, globalInFlight, ownerInFlight, cache>>

Query == [scope : Scope, body : Body]
Key   == Scope \X Body

\* The key leaves the game out.
BugKeyOf(q) == <<CHOOSE c \in Scope : TRUE, q.body>>

\* loadDedupKey; the result cache has the same keys.
KeyOf(q) == <<q.scope, q.body>>

Cacheable(q) == q.body \notin Uncacheable

\* What a client is told: rows, no rows, an error (a timeout included), the
\* last "Continue wait", 499/504 after an abort, 429.
Kind    == {"none", "rows", "empty", "error", "wait", "gone", "rejected"}
Answer  == [kind : Kind, query : Query]     \* query: the one Cube was asked
Handler == [phase : {"idle", "waiting"}, owner : Owner, query : Query, gone : BOOLEAN,
            leader : Request \cup {NoRequest}, answer : Answer]
Entry   == [phase : {"none", "fetch", "sleep"}, refcount : Int, aborted : BOOLEAN,
            polls : 0 .. MaxPolls]
NoEntry  == [phase |-> "none", refcount |-> 0, aborted |-> FALSE, polls |-> 0]
NewEntry == [phase |-> "fetch", refcount |-> 1, aborted |-> FALSE, polls |-> 0]
Cached  == [key : Key, query : Query, valid : BOOLEAN]

Told(kind, q) == [kind |-> kind, query |-> q]

\* The locals of the handler of a request by owner o for query q.
Arrives(o, q) == [phase |-> "idle", owner |-> o, query |-> q, gone |-> FALSE,
                  leader |-> NoRequest, answer |-> Told("none", q)]

Init ==
    /\ \E o \in Owner, q \in Query : request = [r \in Request |-> Arrives(o, q)]
    /\ upstream = [r \in Request |-> NoEntry]
    /\ inflight = [k \in Key |-> NoRequest]
    /\ globalInFlight = 0
    /\ ownerInFlight = [o \in Owner |-> 0]
    /\ cache = <<>>

Live(l)      == upstream[l].phase # "none"
Awaits(r, l) == request[r].phase = "waiting" /\ request[r].leader = l
-----------------------------------------------------------------------------
(* The result cache. *)

Holds(k)   == \E i \in DOMAIN cache : cache[i].key = k
Lookup(k)  == CHOOSE i \in DOMAIN cache : cache[i].key = k
Without(k) == IF Holds(k) THEN RemoveAt(cache, Lookup(k)) ELSE cache

\* The TTL is not looked at.
BugHit(q) == Cacheable(q) /\ Holds(KeyOf(q))

Hit(q) == Cacheable(q) /\ Holds(KeyOf(q)) /\ cache[Lookup(KeyOf(q))].valid

\* A lookup that misses drops an entry that has expired.
Missed(q) == IF Cacheable(q) THEN Without(KeyOf(q)) ELSE cache

\* putCachedLoad of rows: Map.set leaves a key in its place.
Put(q) ==
    LET e == [key |-> KeyOf(q), query |-> q, valid |-> TRUE]
    IN  IF Holds(KeyOf(q)) THEN [cache EXCEPT ![Lookup(KeyOf(q))] = e]
        ELSE Append(IF Len(cache) >= MaxEntries THEN Tail(cache) ELSE cache, e)

\* An entry's TTL is over.
Expires ==
    \E i \in DOMAIN cache :
        /\ cache[i].valid
        /\ cache' = [cache EXCEPT ![i].valid = FALSE]
    /\ UNCHANGED <<request, upstream, inflight, globalInFlight, ownerInFlight>>
-----------------------------------------------------------------------------
(* A request arrives. *)

\* The answer is in the cache; a hit makes the entry the youngest.
Served(r, o, q) ==
    /\ request[r].phase = "idle"
    /\ Hit(q)
    /\ LET e == cache[Lookup(KeyOf(q))]
       IN  /\ cache' = Append(Without(KeyOf(q)), e)
           /\ request' = [request EXCEPT ![r] =
                 [Arrives(o, q) EXCEPT !.answer = Told("rows", e.query)]]
    /\ UNCHANGED <<upstream, inflight, globalInFlight, ownerInFlight>>

\* The handler goes on to admitLoad.
Misses(r, q) ==
    /\ request[r].phase = "idle"
    /\ ~Hit(q)
    /\ cache' = Missed(q)

\* An entry that was aborted is not joined any more.
BugJoinable(k) == inflight[k] # NoRequest /\ ~upstream[inflight[k]].aborted

Joinable(k) == inflight[k] # NoRequest

Waiting(o, q, l) == [Arrives(o, q) EXCEPT !.phase = "waiting", !.leader = l]

\* A follower shares the upstream call in flight, and consumes no slot.
Follow(r, o, q) ==
    /\ Misses(r, q)
    /\ Joinable(KeyOf(q))
    /\ LET l == inflight[KeyOf(q)]
       IN  /\ upstream' = [upstream EXCEPT ![l].refcount = @ + 1]
           /\ request' = [request EXCEPT ![r] = Waiting(o, q, l)]
    /\ UNCHANGED <<inflight, globalInFlight, ownerInFlight>>

HasSlot(o) == globalInFlight < MaxGlobal /\ ownerInFlight[o] < MaxPerOwner

\* LoadAdmissionRejected: 429.
Rejected(r, o, q) ==
    /\ Misses(r, q)
    /\ ~Joinable(KeyOf(q)) /\ ~HasSlot(o)
    /\ request' = [request EXCEPT ![r] =
          [Arrives(o, q) EXCEPT !.answer = Told("rejected", q)]]
    /\ UNCHANGED <<upstream, inflight, globalInFlight, ownerInFlight>>

Lead(r, o, q) ==
    /\ Misses(r, q)
    /\ ~Joinable(KeyOf(q)) /\ HasSlot(o)
    /\ upstream' = [upstream EXCEPT ![r] = NewEntry]
    /\ inflight' = [inflight EXCEPT ![KeyOf(q)] = r]
    /\ globalInFlight' = globalInFlight + 1
    /\ ownerInFlight' = [ownerInFlight EXCEPT ![o] = @ + 1]
    /\ request' = [request EXCEPT ![r] = Waiting(o, q, r)]
-----------------------------------------------------------------------------
(* The upstream call. *)

\* The slot of an aborted call is not released.
BugRelease(l, kind) ==
    LET me == request[l]
    IN  /\ inflight' = [inflight EXCEPT ![KeyOf(me.query)] = NoRequest]
        /\ globalInFlight' = IF kind = "gone" THEN globalInFlight ELSE globalInFlight - 1
        /\ ownerInFlight' = [ownerInFlight EXCEPT ![me.owner] = IF @ > 0 THEN @ - 1 ELSE 0]

\* The finally() of the entry of leader l.
Release(l, kind) ==
    LET me == request[l]
    IN  /\ inflight' = [inflight EXCEPT ![KeyOf(me.query)] = NoRequest]
        /\ globalInFlight' = globalInFlight - 1
        /\ ownerInFlight' = [ownerInFlight EXCEPT ![me.owner] = IF @ > 0 THEN @ - 1 ELSE 0]

\* The upstream call of leader l ends: the handlers in rq that await it answer,
\* on open and closed connections alike, and cache an answer with rows.
Settled(l, kind, rq) ==
    LET q == request[l].query
    IN  /\ Release(l, kind)
        /\ upstream' = [upstream EXCEPT ![l] = NoEntry]
        /\ request' = [r \in Request |->
              IF Awaits(r, l)
              THEN [rq[r] EXCEPT !.phase = "idle", !.leader = NoRequest,
                                 !.answer = Told(kind, q)]
              ELSE rq[r]]
        /\ cache' = IF kind = "rows" /\ Cacheable(q) THEN Put(q) ELSE cache

\* Cube answers, or the fetch fails or times out.
Fetched(l) ==
    /\ upstream[l].phase = "fetch"
    /\ \E kind \in {"rows", "empty", "error"} : Settled(l, kind, request)

\* The budget is never over.
BugContinueWait(l) ==
    /\ upstream[l].phase = "fetch"
    /\ upstream' = [upstream EXCEPT ![l].phase = "sleep"]
    /\ UNCHANGED <<request, inflight, globalInFlight, ownerInFlight, cache>>

\* "Continue wait": the query is sent again after a pause, within the budget.
ContinueWait(l) ==
    /\ upstream[l].phase = "fetch"
    /\ \/ /\ upstream[l].polls < MaxPolls
          /\ upstream' = [upstream EXCEPT ![l].phase = "sleep", ![l].polls = @ + 1]
          /\ UNCHANGED <<request, inflight, globalInFlight, ownerInFlight, cache>>
       \/ Settled(l, "wait", request)

\* The pause does not look at the signal.
BugPauseEnds(l) ==
    /\ upstream[l].phase = "sleep"
    /\ upstream' = [upstream EXCEPT ![l].phase = "fetch"]
    /\ UNCHANGED <<request, inflight, globalInFlight, ownerInFlight, cache>>

\* The pause is over: the abort signal is looked at before the next fetch.
PauseEnds(l) ==
    /\ upstream[l].phase = "sleep"
    /\ IF upstream[l].aborted THEN Settled(l, "gone", request)
       ELSE /\ upstream' = [upstream EXCEPT ![l].phase = "fetch"]
            /\ UNCHANGED <<request, inflight, globalInFlight, ownerInFlight, cache>>

\* A follower that leaves does not count.
BugLeft(r, l) == IF r = l THEN upstream[l].refcount - 1 ELSE upstream[l].refcount

Left(r, l) == upstream[l].refcount - 1

\* The client of a waiting request disconnects.  With the last client the
\* upstream call is aborted: a fetch rejects at once, a pause runs out first.
Closes(r) ==
    /\ request[r].phase = "waiting" /\ ~request[r].gone
    /\ LET l  == request[r].leader
           n  == Left(r, l)
           rq == [request EXCEPT ![r].gone = TRUE]
       IN  IF n <= 0 /\ upstream[l].phase = "fetch" THEN Settled(l, "gone", rq)
           ELSE /\ upstream' = [upstream EXCEPT ![l].refcount = n,
                                                ![l].aborted = @ \/ n <= 0]
                /\ request' = rq
                /\ UNCHANGED <<inflight, globalInFlight, ownerInFlight, cache>>
-----------------------------------------------------------------------------
Load(r) == \E o \in Owner, q \in Query :
    \/ Served(r, o, q) \/ Follow(r, o, q) \/ Rejected(r, o, q) \/ Lead(r, o, q)

Next ==
    \/ \E r \in Request : Load(r) \/ Closes(r)
    \/ \E l \in Request : Fetched(l) \/ ContinueWait(l) \/ PauseEnds(l)
    \/ Expires

Spec == Init /\ [][Next]_vars

\* Each fetch is bounded by the rest of the budget, each pause by a timer.
Fairness == \A l \in Request :
    WF_vars(Fetched(l) \/ ContinueWait(l)) /\ WF_vars(PauseEnds(l))

FairSpec == Spec /\ Fairness
-----------------------------------------------------------------------------
(* Properties. *)

\* The type invariant; the cache is a bounded Map.
TypeOK ==
    /\ request \in [Request -> Handler]
    /\ upstream \in [Request -> Entry]
    /\ inflight \in [Key -> Request \cup {NoRequest}]
    /\ globalInFlight \in Int
    /\ ownerInFlight \in [Owner -> Nat]
    /\ cache \in Seq(Cached) /\ Len(cache) <= MaxEntries
    /\ \A i, j \in DOMAIN cache : cache[i].key = cache[j].key => i = j

Uppers   == {l \in Request : Live(l)}
Led(o)   == {l \in Request : Live(l) /\ request[l].owner = o}

\* The two counters count the upstream calls in flight, per owner of the
\* leader and in total: no slot leaks and none is freed twice, however calls
\* end and whoever disconnects.
SlotsExact ==
    /\ globalInFlight = Cardinality(Uppers)
    /\ \A o \in Owner : ownerInFlight[o] = Cardinality(Led(o))

\* Cube never has more of the proxy's queries than the caps allow.
CapsRespected ==
    /\ Cardinality(Uppers) <= MaxGlobal
    /\ \A o \in Owner : Cardinality(Led(o)) <= MaxPerOwner

\* Two identical queries never run upstream at the same time, and the map
\* leads to the one that runs.
OnePerKey ==
    /\ \A l \in Uppers : inflight[KeyOf(request[l].query)] = l
    /\ \A k \in Key : inflight[k] # NoRequest =>
           Live(inflight[k]) /\ KeyOf(request[inflight[k]].query) = k

Clients(l) == {r \in Request : Awaits(r, l) /\ ~request[r].gone}

\* An entry's refcount is the number of connected clients that wait for it, so
\* nobody's disconnection aborts a query another client waits for.
RefcountExact == \A l \in Uppers : upstream[l].refcount = Cardinality(Clients(l))

\* A query all of whose clients have left is not sent to Cube again.
OrphansDoNotPoll ==
    [][\A l \in Request : upstream[l].phase = "sleep" /\ upstream'[l].phase = "fetch"
          => Clients(l) # {}]_vars

\* Rows are the answer to the request's own query, whether they come from the
\* cache, from a shared upstream call or from one of its own.
OwnAnswer ==
    \A r \in Request : request[r].answer.kind = "rows"
        => request[r].answer.query = request[r].query

\* A client that stays connected is never told that the client has gone.
ConnectedNotCut ==
    \A r \in Request : request[r].answer.kind = "gone" => request[r].gone

\* Every request is answered.
RequestsAnswered ==
    \A r \in Request : request[r].phase = "waiting" ~> request[r].phase = "idle"
-----------------------------------------------------------------------------
(* What the proxy promises, without entries, counters, polls and the cache's order. *)

\* The owner whose slot the call of key k occupies.
Payer(k) == IF inflight[k] = NoRequest THEN {} ELSE {request[inflight[k]].owner}

\* The handlers that wait for an answer to key k.
Sharers(k) == {r \in Request : request[r].phase = "waiting" /\ KeyOf(request[r].query) = k}

\* The keys whose rows are in the cache and have not expired.
Valid == {k \in Key : \E i \in DOMAIN cache : cache[i].key = k /\ cache[i].valid}

Shared == INSTANCE SharedCalls WITH
              Client <- Request, Query <- Key, Ending <- Kind \ {"none", "rejected"},
              MaxCalls <- MaxGlobal, MaxCallsOf <- MaxPerOwner, MaxStored <- MaxEntries,
              payer <- [k \in Key |-> Payer(k)],
              sharers <- [k \in Key |-> Sharers(k)],
              left <- {r \in Request : request[r].phase = "waiting" /\ request[r].gone},
              stored <- Valid,
              told <- [r \in Request |->
                          [kind |-> request[r].answer.kind,
                           query |-> KeyOf(request[r].answer.query)]]

\* Deduplication, caps, polls, aborts, expiry and eviction together do to calls
\* and clients only what SharedCalls allows: one call per query, within the
\* caps, that ends for all its clients at once with one answer and is cut short
\* only if one of them has left; a 429 only when the caps are really met; no
\* call for what is in the cache, and no answer to another query.
ImplementsSharedCalls == Shared!Spec
-----------------------------------------------------------------------------
(* The inductive invariant behind the safety properties. *)

\* A leader waits for its own entry, a follower for a live one with its key.
LeaderInv ==
    /\ \A l \in Uppers : Awaits(l, l)
    /\ \A r \in Request : request[r].phase = "waiting" =>
           /\ request[r].leader \in Uppers
           /\ KeyOf(request[r].query) = KeyOf(request[request[r].leader].query)

\* An entry without clients has been aborted, and sleeps.
OrphanInv ==
    \A l \in Uppers : upstream[l].refcount <= 0
        => upstream[l].phase = "sleep" /\ upstream[l].aborted

\* The leader of an aborted entry has left; those who joined later may not have.
AbortInv == \A l \in Uppers : upstream[l].aborted => request[l].gone

\* No rows of an uncacheable query are kept.
StoredInv == \A i \in DOMAIN cache : Cacheable(cache[i].query)

\* A cached result is kept under the key of the query it answers.
CacheInv == \A i \in DOMAIN cache : cache[i].key = KeyOf(cache[i].query)

SlotInv == LeaderInv /\ OnePerKey /\ SlotsExact /\ CapsRespected

IInv == TypeOK /\ SlotInv /\ RefcountExact /\ OrphanInv /\ CacheInv /\ OwnAnswer
=============================================================================
