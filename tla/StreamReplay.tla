---------------------------- MODULE StreamReplay ----------------------------
(***************************************************************************)
(* How the events of a chat turn reach one browser page: the ring buffer   *)
(* of the stream registry (core/stream-registry.ts), the replay endpoint   *)
(* (api/replay.ts) and the page's stream store (chat-stream-store.ts) for  *)
(* one session, across refreshes, lost connections and restarts.           *)
(*                                                                         *)
(* Each process is single-threaded: an action is one task of the page or   *)
(* of the service.  Between them, a connection delivers in order.          *)
(***************************************************************************)
EXTENDS Integers, Sequences, FiniteSets

CONSTANTS Conn,       \* connections: POST /turn or GET /stream-replay
          NoConn,     \* no connection
          MaxTurns,   \* bound: the turns of the session
          MaxEvents,  \* bound: the events of each turn before it ends
          MaxLate,    \* bound: the events that come behind the end of their turns
          RingSize,   \* config.ringSize
          Env         \* what may happen: see Environment

\* "leak": a handler throws before its finally; "restart": of the service;
\* "late_end": the page runs other tasks between the events that end a turn
\* and the end of their stream, which the service writes in one task.
Environment == {"leak", "restart", "late_end"}

ASSUME StreamReplayAssumption ==
    /\ NoConn \notin Conn
    /\ MaxTurns \in Nat \ {0} /\ RingSize \in Nat \ {0}
    /\ MaxEvents \in [1 .. MaxTurns -> Nat \ {0}] /\ MaxLate \in Nat
    /\ Env \subseteq Environment

VARIABLES
    registry,   \* entries of the stream registry, by turn
    handler,    \* the response each turn's handler writes to, and its health
    conn,       \* the connections, each with the page's dispatch loop
    entry,      \* the store's entry for the session
    page        \* session.activeTurnId as last fetched, and triggeredRef

vars == <<registry, handler, conn, entry, page>>

Turn   == 1 .. MaxTurns
NoTurn == 0

\* token stands for every event between turn_started and the ending, artifact
\* for what a tool emits that outlives its turn: artifact, chart, proposal,
\* verdict or options.
TurnKind == {"turn_started", "token", "artifact", "turn_aborted", "done", "error"}
\* What else a fetch can meet: a network error or a status that is not 2xx,
\* 409 with availableFromOffset as n, the end of the stream.
WireKind == TurnKind \cup {"failed", "ring_overflow", "eof"}
Event(t, n, k) == [turn |-> t, n |-> n, kind |-> k]
Item(k)        == Event(NoTurn, 0, k)
IsTurnEvent(e) == e.kind \in TurnKind

Wire  == [turn : Turn \cup {NoTurn}, n : Nat, kind : WireKind]
\* finishedAt is the number of events at finish(), 0 before.
Entry == [status : {"none", "running", "done", "error", "swept"},
          events : Seq(Wire), startOffset : Nat, totalEmitted : Nat,
          finishedAt : Nat, listeners : SUBSET Conn]
NoEntry == [status |-> "none", events |-> <<>>, startOffset |-> 0, totalEmitted |-> 0,
            finishedAt |-> 0, listeners |-> {}]

\* phase is the service's side; live says that the page's loop still runs; saw
\* is the ending the loop has seen.
Connection == [kind : {"free", "turn", "replay"}, turn : Turn \cup {NoTurn}, from : Nat,
               retried : BOOLEAN, phase : {"request", "open", "ended"}, live : BOOLEAN,
               saw : {"nothing", "aborted", "done", "error"}, wire : Seq(Wire)]
Free == [kind |-> "free", turn |-> NoTurn, from |-> 0, retried |-> FALSE,
         phase |-> "ended", live |-> FALSE, saw |-> "nothing", wire |-> <<>>]

\* error stands for rate_limited too.
Status == {"idle", "loading", "streaming", "done", "aborted", "error", "disconnected"}
\* shown: the turn events applied since the entry was seeded.
Stream == [status : Status, turnId : Turn \cup {NoTurn}, cancel : Conn \cup {NoConn},
           shown : Seq(Wire)]
Idle == [status |-> "idle", turnId |-> NoTurn, cancel |-> NoConn, shown |-> <<>>]

Init ==
    /\ registry = [t \in Turn |-> NoEntry]
    /\ handler = [t \in Turn |-> [response |-> NoConn, stuck |-> FALSE]]
    /\ conn = [c \in Conn |-> Free]
    /\ entry = Idle
    /\ page = [active |-> NoTurn, triggered |-> NoTurn]

Running(t) == registry[t].status = "running"
Live(c)    == conn[c].live
Busy       == entry.status \in {"loading", "streaming"}
-----------------------------------------------------------------------------
(* The service. *)

\* append() of es: the oldest events beyond the ring's size are dropped.
Pushed(r, es) ==
    LET all     == r.events \o es
        dropped == IF Len(all) > RingSize THEN Len(all) - RingSize ELSE 0
    IN [r EXCEPT !.events = SubSeq(all, dropped + 1, Len(all)),
                 !.startOffset = @ + dropped,
                 !.totalEmitted = @ + Len(es)]

\* The responses an emit of turn t is written to.
Readers(t) == registry[t].listeners \cup ({handler[t].response} \ {NoConn})

\* The bytes written to a response whose client has gone are dropped.
Written(k, es) == IF k.live THEN [k EXCEPT !.wire = @ \o es] ELSE k

\* The response ends.
Closed(k) == IF k.live THEN [k EXCEPT !.phase = "ended"] ELSE Free

\* POST /turn: the session's mutex, then register() and emit turn_started.
Accept(c) ==
    \E t \in Turn :
        /\ conn[c].kind = "turn" /\ conn[c].phase = "request"
        /\ \A u \in Turn : ~Running(u) /\ ~handler[u].stuck
        /\ registry[t].status = "none"
        /\ \A u \in 1 .. t - 1 : registry[u].status # "none"
        /\ LET started == <<Event(t, 0, "turn_started")>>
           IN /\ registry' = [registry EXCEPT
                     ![t] = Pushed([NoEntry EXCEPT !.status = "running"], started)]
              /\ conn' = [conn EXCEPT
                     ![c] = Written([@ EXCEPT !.phase = "open", !.turn = t], started)]
        /\ handler' = [handler EXCEPT ![t].response = c]
        /\ UNCHANGED <<entry, page>>

\* A request is answered with an error: the session is locked (409), the
\* registry is full, the gateway cannot reach the service (502).
Refuse(c) ==
    /\ conn[c].phase = "request"
    /\ conn' = [conn EXCEPT ![c] = Closed(Written(@, <<Item("failed")>>))]
    /\ UNCHANGED <<registry, handler, entry, page>>

\* A request of a page that has gone may never arrive.
Vanish(c) ==
    /\ conn[c].phase = "request" /\ ~Live(c)
    /\ conn' = [conn EXCEPT ![c] = Free]
    /\ UNCHANGED <<registry, handler, entry, page>>

\* The offset is taken for an index.
BugSuffix(r, from) == SubSeq(r.events, from + 1, Len(r.events))

\* The ring from the wanted offset, as an index of the ring.
Suffix(r, from) == SubSeq(r.events, from - r.startOffset + 1, Len(r.events))

\* GET /agent/turn/:turnId/stream, one task.
Serve(c) ==
    LET k == conn[c]
        r == registry[k.turn]
        Answered(es) == conn' = [conn EXCEPT ![c] = Closed(Written(@, es))]
    IN
    /\ k.kind = "replay" /\ k.phase = "request"
    /\ \/ /\ r.status \in {"none", "swept"}             \* 404
          /\ Answered(<<Item("failed")>>)
          /\ UNCHANGED registry
       \/ /\ r.status \in {"running", "done", "error"}
          /\ k.from < r.startOffset                     \* 409
          /\ Answered(<<Event(NoTurn, r.startOffset, "ring_overflow")>>)
          /\ UNCHANGED registry
       \/ /\ r.status \in {"done", "error"}
          /\ k.from >= r.startOffset
          /\ Answered(Suffix(r, k.from) \o <<Item("eof")>>)
          /\ UNCHANGED registry
       \/ /\ r.status = "running"
          /\ k.from >= r.startOffset
          /\ conn' = [conn EXCEPT
                 ![c] = Written([@ EXCEPT !.phase = "open"], Suffix(r, k.from))]
          /\ registry' = [registry EXCEPT ![k.turn].listeners = @ \cup {c}]
    /\ UNCHANGED <<handler, entry, page>>

\* emit() while the turn runs, before its handler's last events.
Emit(t) ==
    /\ Running(t) /\ ~handler[t].stuck
    /\ registry[t].totalEmitted < MaxEvents[t]
    /\ LET es == <<Event(t, registry[t].totalEmitted, "token")>>
       IN /\ registry' = [registry EXCEPT ![t] = Pushed(@, es)]
          /\ conn' = [c \in Conn |-> IF c \in Readers(t) THEN Written(conn[c], es)
                                                         ELSE conn[c]]
    /\ UNCHANGED <<handler, entry, page>>

Ending(t, how) ==
    LET n == registry[t].totalEmitted
    IN IF how = "aborted" THEN <<Event(t, n, "turn_aborted"), Event(t, n + 1, "done")>>
                          ELSE <<Event(t, n, how)>>

\* The last events, finish() and stream.end(); a replay ends with done or error.
End(t, how) ==
    /\ Running(t) /\ ~handler[t].stuck
    /\ LET es == Ending(t, how)
       IN /\ registry' = [registry EXCEPT
                 ![t] = [Pushed(@, es) EXCEPT
                            !.status = IF how = "error" THEN "error" ELSE "done",
                            !.finishedAt = registry[t].totalEmitted + Len(es),
                            !.listeners = {}]]
          /\ conn' = [c \in Conn |->
                 IF c \in Readers(t) THEN Closed(Written(conn[c], es \o <<Item("eof")>>))
                                     ELSE conn[c]]
    /\ handler' = [handler EXCEPT ![t].response = NoConn]
    /\ UNCHANGED <<entry, page>>

LateEvents ==
    UNION {{u} \X (registry[u].finishedAt .. registry[u].totalEmitted - 1) :
               u \in {v \in Turn : registry[v].finishedAt > 0}}

\* emit() from a tool that was still at work when its turn was aborted, failed
\* or went on without it.  append() asks for an entry only; the response has
\* ended and finish() has cleared the listeners, so the ring alone gets it.
EmitLate(t) ==
    /\ registry[t].status \in {"done", "error"}
    /\ Cardinality(LateEvents) < MaxLate
    /\ registry' = [registry EXCEPT
           ![t] = Pushed(@, <<Event(t, registry[t].totalEmitted, "artifact")>>)]
    /\ UNCHANGED <<handler, conn, entry, page>>

\* The handler throws where no finally() ends its turn.
Leak(t) ==
    /\ "leak" \in Env
    /\ Running(t)
    /\ handler' = [handler EXCEPT ![t].stuck = TRUE]
    /\ UNCHANGED <<registry, conn, entry, page>>

\* Of a deleted entry the model keeps what the page's past depends on.
Deleted(r) == [r EXCEPT !.status = "swept", !.events = <<>>, !.listeners = {}]

\* The sweeper: finished turns after their TTL, leaked ones after maxRunningMs.
Sweep(t) ==
    /\ registry[t].status \in {"done", "error"} \/ (Running(t) /\ handler[t].stuck)
    /\ registry' = [registry EXCEPT ![t] = Deleted(@)]
    /\ UNCHANGED <<handler, conn, entry, page>>

\* The close event is not handled.
BugUnsubscribed(c) == UNCHANGED <<registry, handler>>

\* The close event of a response: a replay unsubscribes, a turn goes on.
Unsubscribed(c) ==
    /\ registry' = [t \in Turn |-> [registry[t] EXCEPT !.listeners = @ \ {c}]]
    /\ handler' = [t \in Turn |->
           IF handler[t].response = c THEN [handler[t] EXCEPT !.response = NoConn]
                                      ELSE handler[t]]

Hangup(c) ==
    /\ conn[c].phase = "open" /\ ~Live(c)
    /\ Unsubscribed(c)
    /\ conn' = [conn EXCEPT ![c] = Free]
    /\ UNCHANGED <<entry, page>>

\* What the page sees of a connection that breaks, perhaps in a proxy: what
\* was in flight and a clean end, or a network error.
Broken(k, how) ==
    Closed(IF how = "eof" THEN Written(k, <<Item("eof")>>)
                          ELSE [k EXCEPT !.wire = <<Item("failed")>>])

Break(c, how) ==
    /\ conn[c].phase = "open" /\ Live(c)
    /\ Unsubscribed(c)
    /\ conn' = [conn EXCEPT ![c] = Broken(@, how)]
    /\ UNCHANGED <<entry, page>>

\* The service restarts: nothing of the registry is persisted.
Restart(how) ==
    /\ "restart" \in Env
    /\ \E t \in Turn : Running(t)
    /\ registry' = [t \in Turn |->
           IF registry[t].status = "none" THEN registry[t] ELSE Deleted(registry[t])]
    /\ handler' = [t \in Turn |-> [response |-> NoConn, stuck |-> FALSE]]
    /\ conn' = [c \in Conn |-> IF conn[c].phase = "open" THEN Broken(conn[c], how)
                                                         ELSE conn[c]]
    /\ UNCHANGED <<entry, page>>
-----------------------------------------------------------------------------
(* The page. *)

\* A loop leaves its connection.
Left(k) == IF k.phase = "ended" THEN Free ELSE [k EXCEPT !.live = FALSE, !.wire = <<>>]

\* controller.abort() of the handle in the entry: its loop unwinds at once.
Aborted == [c \in Conn |-> IF c = entry.cancel THEN Left(conn[c]) ELSE conn[c]]

\* No other task of the page runs while a stream that has told its turn's end
\* has not ended itself.
Settled == "late_end" \in Env \/ \A c \in Conn : Live(c) => conn[c].saw = "nothing"

Requests(c) == conn[c] = Free

\* startTurn.
Send(c) ==
    /\ ~Busy /\ Settled
    /\ Requests(c)
    /\ Cardinality({d \in Conn : conn[d].kind = "turn" /\ conn[d].phase = "request"})
         < Cardinality({t \in Turn : registry[t].status = "none"})
    /\ conn' = [conn EXCEPT ![c] = [@ EXCEPT !.kind = "turn", !.phase = "request",
                                             !.live = TRUE]]
    /\ entry' = [Idle EXCEPT !.status = "loading", !.cancel = c]
    /\ UNCHANGED <<registry, handler, page>>

\* GET /sessions/:id: activeTurnId is findRunning()'s turn.
FetchSession ==
    /\ \/ \E t \in Turn : Running(t) /\ page' = [page EXCEPT !.active = t]
       \/ (\A t \in Turn : ~Running(t)) /\ page' = [page EXCEPT !.active = NoTurn]
    /\ UNCHANGED <<registry, handler, conn, entry>>

\* The connection and the entry of a replay attempt.
Replay(t, from, retried) ==
    [Free EXCEPT !.kind = "replay", !.turn = t, !.from = from, !.retried = retried,
                 !.phase = "request", !.live = TRUE]
Attached(c, t) == [Idle EXCEPT !.status = "loading", !.turnId = t, !.cancel = c]

\* useAutoReplayAttach, some time after the fetch: once per turn and mount.
Attach ==
    /\ page.active # NoTurn /\ page.triggered # page.active
    /\ page' = [page EXCEPT !.triggered = page.active]
    /\ \/ Busy /\ UNCHANGED <<conn, entry>>
       \/ \E c \in Conn :
              /\ ~Busy /\ Settled
              /\ Requests(c)
              /\ conn' = [conn EXCEPT ![c] = Replay(page.active, 0, FALSE)]
              /\ entry' = Attached(c, page.active)
    /\ UNCHANGED <<registry, handler>>

\* applySseEvent.
Applied(e) ==
    LET s  == entry.status
        st == CASE e.kind = "token" -> "streaming"
                [] e.kind = "turn_aborted" -> "aborted"
                [] e.kind = "done" -> IF s = "aborted" THEN s ELSE "done"
                [] e.kind = "error" -> "error"
                [] OTHER -> s
    IN [entry EXCEPT !.status = st,
                     !.turnId = IF e.kind = "turn_started" THEN e.turn ELSE @,
                     !.shown = IF IsTurnEvent(e) THEN Append(@, e) ELSE @]

Saw(k, e) == CASE e.kind = "turn_aborted" -> "aborted"
               [] e.kind = "done" -> "done"
               [] e.kind = "error" -> "error"
               [] OTHER -> k.saw

\* The loop's finally: the handle of whatever entry is there is dropped.
Stripped(s) == [s EXCEPT !.cancel = NoConn]

\* The end of the stream is taken for the end of the turn.
BugAtEof(saw) ==
    IF entry.status \in {"idle", "aborted", "error"} THEN entry
    ELSE [entry EXCEPT !.status = "done"]

\* Every end of a stream is taken for a lost connection.
BugLost(saw) ==
    IF entry.status \in {"idle", "aborted", "error"} THEN entry
    ELSE [entry EXCEPT !.status = "disconnected"]

\* The end of the stream, perhaps before done.
AtEof(saw) ==
    IF saw = "done" \/ entry.status \in {"idle", "aborted", "error"} THEN entry
    ELSE [entry EXCEPT !.status = "disconnected"]

\* The dispatch loop takes the next event.
Deliver(c) ==
    LET k == conn[c]
        e == Head(k.wire)
    IN
    /\ Live(c) /\ k.wire # <<>>
    /\ \/ /\ IsTurnEvent(e)
          /\ entry' = Applied(e)
          /\ conn' = [conn EXCEPT ![c].wire = Tail(@), ![c].saw = Saw(k, e)]
       \/ /\ e.kind = "eof"
          /\ entry' = Stripped(AtEof(k.saw))
          /\ conn' = [conn EXCEPT ![c] = Left(@)]
       \/ /\ e.kind = "failed"
          /\ entry' = Stripped([entry EXCEPT !.status = "error"])
          /\ conn' = [conn EXCEPT ![c] = Left(@)]
       \/ /\ e.kind = "ring_overflow"       \* one retry
          /\ IF k.retried THEN /\ entry' = Idle
                               /\ conn' = [conn EXCEPT ![c] = Free]
             ELSE /\ entry' = Attached(c, k.turn)
                  /\ conn' = [conn EXCEPT ![c] = Replay(k.turn, e.n, TRUE)]
    /\ UNCHANGED <<registry, handler, page>>

\* A turn that has not begun to answer is not given up.
BugWatchdog(c) ==
    /\ Live(c)
    /\ entry' = Stripped(IF entry.status = "streaming"
                         THEN [entry EXCEPT !.status = "disconnected"] ELSE entry)
    /\ conn' = Aborted
    /\ UNCHANGED <<registry, handler, page>>

\* STALL_TIMEOUT_MS without an event on loop c: whatever handle the entry has
\* is aborted.
Watchdog(c) ==
    /\ Live(c)
    /\ entry' = Stripped(IF Busy THEN [entry EXCEPT !.status = "disconnected"] ELSE entry)
    /\ conn' = Aborted
    /\ UNCHANGED <<registry, handler, page>>

HasPartial == \E i \in DOMAIN entry.shown : entry.shown[i].kind \in {"token", "artifact"}

\* cancel(): the Stop button.
Stop ==
    /\ Busy
    /\ entry' = IF HasPartial THEN Stripped([entry EXCEPT !.status = "aborted"]) ELSE Idle
    /\ conn' = Aborted
    /\ UNCHANGED <<registry, handler, page>>

\* The entry goes, its loop stays.
BugReset ==
    /\ entry # Idle
    /\ entry' = Idle
    /\ UNCHANGED <<registry, handler, conn, page>>

\* reset(): New chat, Reconnect, or a turn found in the persisted history.
Reset ==
    /\ entry # Idle
    /\ entry' = Idle
    /\ conn' = Aborted
    /\ UNCHANGED <<registry, handler, page>>

\* The browser reloads the page.
Refresh ==
    /\ entry' = Idle
    /\ page' = [active |-> NoTurn, triggered |-> NoTurn]
    /\ conn' = [c \in Conn |-> IF Live(c) THEN Left(conn[c]) ELSE conn[c]]
    /\ UNCHANGED <<registry, handler>>
-----------------------------------------------------------------------------
Service ==
    \/ \E c \in Conn : Accept(c) \/ Refuse(c) \/ Vanish(c) \/ Serve(c) \/ Hangup(c)
    \/ \E c \in Conn, how \in {"eof", "failed"} : Break(c, how)
    \/ \E how \in {"eof", "failed"} : Restart(how)
    \/ \E t \in Turn, how \in {"done", "aborted", "error"} : End(t, how)
    \/ \E t \in Turn : Emit(t) \/ EmitLate(t) \/ Leak(t) \/ Sweep(t)

Page ==
    \/ \E c \in Conn : Send(c) \/ Deliver(c) \/ Watchdog(c)
    \/ FetchSession \/ Attach \/ Stop \/ Reset \/ Refresh

Next == Service \/ Page

\* Nothing will come on connection c: its turn is stuck or forgotten.
Silent(c) ==
    /\ conn[c].phase = "open" /\ conn[c].wire = <<>>
    /\ handler[conn[c].turn].stuck \/ ~Running(conn[c].turn)

\* A request is answered, what was sent arrives, and the watchdog's timer runs
\* out on a silent stream: on one connection only one of them is due.
Progress(c) == Accept(c) \/ Refuse(c) \/ Serve(c) \/ Deliver(c) \/ (Silent(c) /\ Watchdog(c))

\* Connections make progress, and turns end: they have a timeout.
Fairness ==
    /\ \A c \in Conn : WF_vars(Progress(c))
    /\ \A t \in Turn : WF_vars(\E how \in {"done", "aborted", "error"} : End(t, how))

Spec == Init /\ [][Next]_vars /\ Fairness
-----------------------------------------------------------------------------
TypeOK ==
    /\ registry \in [Turn -> Entry]
    /\ handler \in [Turn -> [response : Conn \cup {NoConn}, stuck : BOOLEAN]]
    /\ conn \in [Conn -> Connection]
    /\ entry \in Stream
    /\ page \in [active : Turn \cup {NoTurn}, triggered : Turn \cup {NoTurn}]

(* What a page shows of a turn has no hole, no repetition and one turn     *)
(* only; it starts where the loop asked, which is the first event unless   *)
(* the ring had dropped it, through refreshes, replays and the retry after *)
(* an overflow (replay.ts lines 61-98, chat-stream-store.ts lines 458-474).*)
ShownExactly ==
    \A i \in DOMAIN entry.shown :
        LET first == entry.shown[1]
        IN /\ entry.turnId \in {NoTurn, first.turn}
           /\ entry.shown[i].turn = first.turn
           /\ entry.shown[i].n = first.n + i - 1
           /\ first.n = 0 \/ first.n <= registry[first.turn].startOffset
           /\ entry.cancel # NoConn => first.n = conn[entry.cancel].from

(* A page that calls a turn done has every event up to the turn's end, and *)
(* behind it only what a late tool added: neither a lost connection nor a  *)
(* restart ends an answer early and passes it off as complete              *)
(* (chat-stream-store.ts lines 354-380).                                   *)
DoneIsWhole ==
    entry.status = "done" =>
        \E i \in DOMAIN entry.shown :
            LET last == entry.shown[i]
            IN /\ last.kind = "done"
               /\ last.n = registry[last.turn].finishedAt - 1
               /\ ~Running(last.turn)
               /\ \A j \in i + 1 .. Len(entry.shown) : entry.shown[j].kind = "artifact"

(* One loop at most feeds the entry, and the entry holds its handle while  *)
(* it is in flight, so that Stop, reset and the watchdog reach it          *)
(* (chat-stream-store.ts lines 304-315, 395-406).                          *)
HandleOwned ==
    /\ {c \in Conn : Live(c)} = {entry.cancel} \ {NoConn}
    /\ Busy => entry.cancel # NoConn

(* A replay of a running turn is subscribed as long as its response is     *)
(* open, and the registry keeps no listener beyond that (replay.ts lines   *)
(* 98-113, stream-registry.ts lines 182-185, 262-268).                     *)
ListenersExact ==
    \A t \in Turn :
        registry[t].listeners =
            {c \in Conn : /\ conn[c].kind = "replay" /\ conn[c].phase = "open"
                          /\ conn[c].turn = t /\ Running(t)}

(* No view waits for ever: a turn in flight on the page ends, is found     *)
(* disconnected or is given up, leaks and restarts included                *)
(* (chat-stream-store.ts lines 301-317).                                   *)
WaitingEnds == Busy ~> ~Busy
-----------------------------------------------------------------------------
(* What the service has produced and what the page shows of it. *)

Produced == [t \in Turn |-> registry[t].totalEmitted]
Ended    == [t \in Turn |-> registry[t].finishedAt]
Over     == {t \in Turn : registry[t].status \in {"done", "error", "swept"}}

View ==
    [turn  |-> IF entry.shown = <<>> THEN NoTurn ELSE entry.shown[1].turn,
     first |-> IF entry.shown = <<>> THEN 0 ELSE entry.shown[1].n,
     next  |-> IF entry.shown = <<>> THEN 0 ELSE entry.shown[1].n + Len(entry.shown),
     open  |-> entry.cancel # NoConn,
     whole |-> entry.status = "done"]

Viewed == INSTANCE TurnView WITH
              Kept <- RingSize, produced <- Produced, end <- Ended, over <- Over,
              view <- View

(* Every step of the registry, of the connections and of the page does to  *)
(* the events of a turn and to the view of them only what TurnView allows: *)
(* a view grows by the next event of its turn or is closed or cleared, it  *)
(* takes nothing from a loop that was given up, and a turn whose done it   *)
(* shows stays done, whatever a late tool adds behind it                   *)
(* (stream-registry.ts lines 92-185, replay.ts lines 61-113,               *)
(* chat-stream-store.ts lines 298-474).                                    *)
ImplementsTurnView == Viewed!Spec
-----------------------------------------------------------------------------
(* The inductive invariants behind the safety properties. *)

\* Event e of a turn with m events at its end (0: not ended) may stand where
\* it does: done is the last of the m, what comes behind is from a late tool.
Placed(e, m) ==
    /\ e.kind = "done" => e.n = m - 1
    /\ m > 0 /\ e.n >= m => e.kind = "artifact"

\* A ring holds the last events of its turn, numbered without a hole.
RingOK(r, t) ==
    /\ r.status # "swept" => r.startOffset + Len(r.events) = r.totalEmitted
    /\ \A i \in DOMAIN r.events :
           /\ IsTurnEvent(r.events[i])
           /\ r.events[i].turn = t
           /\ r.events[i].n = r.startOffset + i - 1
           /\ Placed(r.events[i], r.finishedAt)
    /\ r.finishedAt <= r.totalEmitted
    /\ r.status \in {"none", "running"} => r.finishedAt = 0
    /\ r.status \in {"done", "error"} => r.finishedAt > 0
    /\ r.status = "none" => r = NoEntry

RegistryInv ==
    /\ \A t \in Turn : RingOK(registry[t], t)
    /\ page.active # NoTurn => registry[page.active].status # "none"

ConnInv ==
    \A c \in Conn :
        LET k == conn[c]
        IN /\ k.kind = "free" => k = Free
           /\ ~k.live \/ k.phase = "request" => k.wire = <<>>
           /\ \A i \in DOMAIN k.wire : ~IsTurnEvent(k.wire[i]) => k.phase = "ended"
           /\ \A i \in DOMAIN k.wire : k.wire[i].kind = "ring_overflow" => k.kind = "replay"
           /\ k.kind = "replay" => k.turn # NoTurn
           /\ k.turn # NoTurn => registry[k.turn].status # "none"

HandlerInv ==
    \A t \in Turn : \A c \in Conn :
        handler[t].response = c =>
            /\ conn[c].kind = "turn" /\ conn[c].phase = "open" /\ conn[c].turn = t
            /\ registry[t].status \notin {"done", "error"}

ServiceInv == TypeOK /\ RegistryInv /\ ConnInv /\ HandlerInv /\ ListenersExact

\* Item i of the wire of k is what the page expects after n events.
ItemOK(k, i, n) ==
    LET e == k.wire[i]
        r == registry[k.turn]
    IN /\ IsTurnEvent(e) => /\ k.turn # NoTurn /\ e.turn = k.turn
                            /\ e.n = n + i - 1 /\ e.n < r.totalEmitted
                            /\ Placed(e, r.finishedAt)
       /\ ~IsTurnEvent(e) => i = Len(k.wire)
       /\ e.kind = "ring_overflow" => k.kind = "replay" /\ e.n <= r.startOffset

\* What the page shows and what is on its way to it are the events of one turn
\* from the offset the loop asked for.
LoopInv ==
    \A c \in Conn : Live(c) =>
        LET k == conn[c]
            n == k.from + Len(entry.shown)
        IN /\ k.phase = "request" => entry.shown = <<>>
           /\ k.phase = "request" /\ k.kind = "turn" => k.turn = NoTurn
           /\ k.saw = "nothing" => Busy
           /\ k.saw = "done" => /\ ~Busy /\ k.turn # NoTurn /\ ~Running(k.turn)
                                /\ registry[k.turn].finishedAt \in 1 .. n
           /\ k.from = 0 \/ (k.kind = "replay" /\ k.from <= registry[k.turn].startOffset)
           /\ entry.turnId \in {NoTurn, k.turn}
           /\ \A i \in DOMAIN entry.shown : /\ entry.shown[i].turn = k.turn
                                            /\ entry.shown[i].n = k.from + i - 1
           /\ \A i \in DOMAIN k.wire : ItemOK(k, i, n)
           /\ \A t \in Turn : c \in Readers(t) => n + Len(k.wire) = registry[t].totalEmitted

ShownInv ==
    \A i \in DOMAIN entry.shown :
        /\ entry.shown[i].turn \in Turn
        /\ registry[entry.shown[i].turn].status # "none"

PageInv == HandleOwned /\ LoopInv /\ ShownInv /\ ShownExactly /\ DoneIsWhole

IInv == ServiceInv /\ PageInv

\* One turn at most is running.
OneRunning == \A t, u \in Turn : Running(t) /\ Running(u) => t = u

\* A ring drops no event before it is full.
RingFull ==
    \A t \in Turn :
        LET r == registry[t]
        IN r.startOffset = IF r.totalEmitted > RingSize THEN r.totalEmitted - RingSize ELSE 0

\* A turn that is known has an event at least.
Begun == \A t \in Turn : registry[t].status # "none" <=> registry[t].totalEmitted > 0

\* Behind the end of a turn comes the end of its stream, and an overflow is
\* all that its request brings.
EndFinal ==
    \A c \in Conn : Live(c) =>
        LET k == conn[c]
        IN /\ entry.status = "done" => k.saw = "done"
           /\ entry.status = "done" \/ (\E i \in DOMAIN k.wire : k.wire[i].kind = "done") =>
                  /\ k.phase = "ended"
                  /\ \A i \in DOMAIN k.wire :
                         ~IsTurnEvent(k.wire[i]) => k.wire[i].kind = "eof"
           /\ \A i \in DOMAIN k.wire : k.wire[i].kind = "ring_overflow" =>
                  entry.shown = <<>> /\ Len(k.wire) = 1

ViewInv == OneRunning /\ RingFull /\ Begun /\ EndFinal
=============================================================================
